------------------------------- MODULE WafTypes -------------------------------
(***************************************************************************)
(* The vocabulary shared by the layers of the firewall: the graduated      *)
(* response levels, their severity order and the map from a confidence     *)
(* score to a level.  Confidence is a float of 0..1 in the code; here it   *)
(* is a rank 0..MaxScore, because the program only compares scores with    *)
(* the four thresholds and with each other.                                *)
(***************************************************************************)
EXTENDS Naturals

CONSTANTS
    MaxScore,   \* rank of confidence 1.0
    TLog,       \* threshold_log
    TSan,       \* threshold_sanitize
    TExc,       \* threshold_exclude
    TBlk        \* threshold_block

\* Settings.validate_threshold_order and the bounds ge=0, le=1 of the fields.
ASSUME ThresholdsOrdered ==
    /\ MaxScore \in Nat /\ TLog \in Nat /\ TSan \in Nat /\ TExc \in Nat /\ TBlk \in Nat
    /\ TLog <= TSan /\ TSan <= TExc /\ TExc <= TBlk /\ TBlk <= MaxScore

Levels == {"allow", "log", "sanitize", "exclude", "block"}

Scores == 0..MaxScore

\* An exclusive comparison at the block threshold.
Bug_LevelFor(conf) ==
    IF conf > TBlk THEN "block"
    ELSE IF conf >= TExc THEN "exclude"
    ELSE IF conf >= TSan THEN "sanitize"
    ELSE IF conf >= TLog THEN "log"
    ELSE "allow"

\* decision_level_for_confidence
LevelFor(conf) ==
    IF conf >= TBlk THEN "block"
    ELSE IF conf >= TExc THEN "exclude"
    ELSE IF conf >= TSan THEN "sanitize"
    ELSE IF conf >= TLog THEN "log"
    ELSE "allow"

\* severity_order of DecisionEngine.decide
Severity(level) ==
    CASE level = "block"    -> 4
      [] level = "exclude"  -> 3
      [] level = "sanitize" -> 2
      [] level = "log"      -> 1
      [] level = "allow"    -> 0

Larger(a, b) == IF a >= b THEN a ELSE b
===============================================================================
