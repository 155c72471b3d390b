------------------------------ MODULE RulesFile ------------------------------
(***************************************************************************)
(* The heuristic's rules file, read again whenever its modification time   *)
(* has grown.  The layer looks at the file in separate system calls        *)
(* (exists, stat, read); whoever edits the file does so between any two of *)
(* them, in one save or in several.  A save takes the time of the clock,   *)
(* whose ticks are those of the file system's timestamps.                  *)
(***************************************************************************)
EXTENDS Naturals

CONSTANTS
    Rules,         \* entries the file may list
    Valid,         \* those with a pattern that compiles
    Fallback,      \* FALLBACK_PATTERNS
    Broken,        \* not YAML, or YAML of another shape
    Absent,        \* no file
    NoTime,        \* None
    RulesMaxClock  \* bound: ticks of the file system's clock

ASSUME RulesTyped ==
    /\ Valid \subseteq Rules /\ Fallback # {}
    /\ Broken \notin SUBSET Rules /\ Absent \notin SUBSET Rules
    /\ NoTime \notin Nat /\ RulesMaxClock \in Nat

VARIABLES
    file,       \* what the file holds
    mtime,      \* the time of its last save
    rulesClock, \* the time a save would get
    shadowed,   \* history: an earlier usable version had the same time
    patterns,   \* _patterns
    rulesMtime, \* _rules_mtime
    step,       \* where _load_rules_if_needed is
    seen,       \* its mtime
    text        \* what it has read

saved == <<file, mtime, shadowed>>
loaded == <<patterns, rulesMtime>>
reader == <<step, seen, text>>
rulesVars == <<saved, rulesClock, loaded, reader>>

Files == (SUBSET Rules) \cup {Broken, Absent}
Times == 0..RulesMaxClock

\* Entries without a pattern, or with one that does not compile, are skipped.
Compiled(f) == f \cap Valid
Usable(f) == f \in SUBSET Rules /\ Compiled(f) # {}

\* Some pattern is always in force.
RulesTypeOK ==
    /\ file \in Files
    /\ rulesClock \in Times /\ mtime \in 0..rulesClock
    /\ shadowed \in BOOLEAN
    /\ patterns \in (SUBSET Valid) \cup {Fallback} /\ patterns # {}
    /\ rulesMtime \in Times \cup {NoTime}
    /\ step \in {"idle", "exists", "stat", "read", "install"}
    /\ seen \in Times \cup {NoTime}
    /\ text \in Files

\* The constructor starts a load at once.
RulesInit ==
    /\ file \in Files
    /\ mtime = 0 /\ rulesClock = 0
    /\ shadowed = FALSE
    /\ patterns = Fallback
    /\ rulesMtime = NoTime
    /\ step = "exists" /\ seen = NoTime /\ text = Absent

-------------------------------------------------------------------------------
Save(f) ==
    /\ file' = f
    /\ mtime' = rulesClock
    /\ shadowed' = (rulesClock = mtime /\ (shadowed \/ Usable(file)))
    /\ UNCHANGED <<rulesClock, loaded, reader>>

Delete ==
    /\ file # Absent
    /\ file' = Absent
    /\ shadowed' = (shadowed \/ Usable(file))
    /\ UNCHANGED <<mtime, rulesClock, loaded, reader>>

FileTick ==
    /\ rulesClock < RulesMaxClock
    /\ rulesClock' = rulesClock + 1
    /\ UNCHANGED <<saved, loaded, reader>>

-------------------------------------------------------------------------------
\* Every access to the patterns property checks the file.
Access ==
    /\ step = "idle"
    /\ step' = "exists"
    /\ UNCHANGED <<saved, rulesClock, loaded, seen, text>>

Return == step' = "idle" /\ seen' = NoTime /\ text' = Absent

Exists ==
    /\ step = "exists"
    /\ IF file = Absent THEN Return ELSE step' = "stat" /\ UNCHANGED <<seen, text>>
    /\ UNCHANGED <<saved, rulesClock, loaded>>

\* mtime <= self._rules_mtime
Current == rulesMtime # NoTime /\ mtime <= rulesMtime

\* stat raises when the file has gone meanwhile.
Stat ==
    /\ step = "stat"
    /\ IF file = Absent \/ Current THEN Return
       ELSE step' = "read" /\ seen' = mtime /\ UNCHANGED text
    /\ UNCHANGED <<saved, rulesClock, loaded>>

ReadText ==
    /\ step = "read"
    /\ IF file = Absent THEN Return
       ELSE step' = "install" /\ text' = file /\ UNCHANGED seen
    /\ UNCHANGED <<saved, rulesClock, loaded>>

\* Any text that parses is taken, also one that lists no valid rule.
Bug_Accepted == text # Broken

\* if patterns; anything that does not parse has raised before.
Accepted == Usable(text)

\* The time of the file after it was read.
Bug_RecordedTime == mtime

\* The time that was asked for before the file was read.
RecordedTime == seen

\* Either the new rules with their time, or no change at all.
Install ==
    /\ step = "install"
    /\ IF Accepted
       THEN patterns' = Compiled(text) /\ rulesMtime' = RecordedTime
       ELSE UNCHANGED loaded
    /\ Return
    /\ UNCHANGED <<saved, rulesClock>>

Load == Exists \/ Stat \/ ReadText \/ Install

RulesNext == (\E f \in Files \ {Absent} : Save(f)) \/ Delete \/ FileTick \/ Access \/ Load

RulesSpec == RulesInit /\ [][RulesNext]_rulesVars

-------------------------------------------------------------------------------
\* Whatever was saved, torn, broken or deleted while the layer was reading:
\* once a usable file lies there, either its rules are in force or the next
\* access reads it.  Excepted is a file that replaced another usable one within
\* the same tick, which the comparison of times cannot tell from it.
RulesFollowFile ==
    Usable(file) /\ ~shadowed /\ step = "idle" =>
        patterns = Compiled(file) \/ ~Current
===============================================================================
