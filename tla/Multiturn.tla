------------------------------ MODULE Multiturn ------------------------------
(***************************************************************************)
(* How the classifier turns the scores of the segments of one request into *)
(* a level: the best score after a discount by provenance, and a sliding   *)
(* window over the user and retrieved turns that raises the confidence     *)
(* when several middling turns follow each other.  A raw score is counted  *)
(* in twentieths; a confidence in units of 1/MaxScore, where MaxScore is   *)
(* 20^WindowSize, so that the decayed sums are exact.                      *)
(***************************************************************************)
EXTENDS WafTypes, Sequences, Functions, FiniteSetsExt

CONSTANTS
    Turns,      \* segments a request may have, with their raw scores
    MaxTurns,   \* bound: segments of one request
    WindowSize, \* multiturn_window
    Cumulative  \* multiturn_cumulative_threshold

Tags == {"SYS", "USR", "RET", "TOOL"}

ASSUME TurnsTyped ==
    /\ Turns \subseteq [tag : Tags, score : 0..20]
    /\ WindowSize \in Nat \ {0} /\ Cumulative \in Nat \ {0} /\ MaxTurns \in Nat
    /\ MaxScore % 400 = 0

VARIABLES
    turns,  \* the segments so far
    window  \* MultiturnState._window

turnsVars == <<turns, window>>

-------------------------------------------------------------------------------
\* x / 20 of the full confidence.
Twentieths(x) == (MaxScore \div 20) * x

\* medium_threshold 0.45
Medium == 9

Multiplier(tag) ==
    CASE tag = "USR" -> 20 [] tag = "RET" -> 17 [] tag = "TOOL" -> 14 [] tag = "SYS" -> 2

\* _aggregate_per_tag
Best(ts) ==
    Max({0} \cup {(MaxScore \div 400) * ts[i].score * Multiplier(ts[i].tag) : i \in DOMAIN ts})

\* decay ** i, the newest turn having i = 0
Weight[i \in 0..WindowSize - 1] == IF i = 0 THEN MaxScore \div 20 ELSE (Weight[i - 1] * 17) \div 20

\* cumulative_score
CumulativeScore(w) ==
    FoldFunction(+, 0, [i \in DOMAIN w |-> w[i].score * Weight[Len(w) - i]])

MediumCount(w) == Cardinality({i \in DOMAIN w : w[i].score >= Medium})

\* More than three, not three or more.
Bug_ShouldEscalate(w) == CumulativeScore(w) >= Cumulative \/ MediumCount(w) > 3

\* should_escalate
ShouldEscalate(w) == CumulativeScore(w) >= Cumulative \/ MediumCount(w) >= 3

\* risk_level
RiskLevel(w) ==
    LET cum == CumulativeScore(w)
        cnt == MediumCount(w)
    IN IF 4 * cum >= 5 * Cumulative \/ cnt >= 4 THEN "critical"
       ELSE IF cum >= Cumulative \/ cnt >= 3 THEN "high"
       ELSE IF 3 * cum >= 2 * Cumulative \/ cnt >= 2 THEN "medium"
       ELSE IF cum >= Twentieths(8) THEN "low"
       ELSE "none"

\* ShouldEscalate is asked for, but a single high score counts for more.
Escalated(ts, w) == ShouldEscalate(w) /\ CumulativeScore(w) > Best(ts)

\* min(0.92, cum_score * 0.85), rounded down to a unit: the thresholds are
\* whole units, so no comparison changes.
Raised(w) ==
    LET cum == CumulativeScore(w)
    IN Min({(MaxScore \div 100) * 92, cum - (cum * 3 + 19) \div 20})

\* Replacing the best score instead of raising it.
Bug_FinalConf(ts, w) == IF Escalated(ts, w) THEN Raised(w) ELSE Best(ts)

\* final_conf
FinalConf(ts, w) == IF Escalated(ts, w) THEN Larger(Best(ts), Raised(w)) ELSE Best(ts)

\* The label of the classifier's result: an escalated request never passes.
ResultLevel(ts, w) ==
    LET level == LevelFor(FinalConf(ts, w))
    IN IF Escalated(ts, w) /\ level \in {"allow", "log"} THEN "sanitize" ELSE level

\* What the decision layer makes of that result: of a label it keeps a block and
\* applies the thresholds to the confidence again.
PolicyLevel(ts, w) ==
    IF ResultLevel(ts, w) = "block" THEN "block" ELSE LevelFor(FinalConf(ts, w))

-------------------------------------------------------------------------------
\* Tool results left in, as in the other detectors.
Bug_Counts(turn) == turn.tag # "SYS"

\* Only turns of the user and retrieved documents count.
Counts(turn) == turn.tag \in {"USR", "RET"}

\* deque(maxlen=window_size).append
Slide(w, turn) ==
    LET longer == Append(w, turn)
    IN IF Len(w) = WindowSize THEN Tail(longer) ELSE longer

TurnsInit == turns = <<>> /\ window = <<>>

\* One pass of the loop in build_multiturn_state.  What the classifier would
\* report of the segments so far is a function of the two variables.
AddTurn(turn) ==
    /\ Len(turns) < MaxTurns
    /\ turns' = Append(turns, turn)
    /\ window' = IF Counts(turn) THEN Slide(window, turn) ELSE window

TurnsNext == \E turn \in Turns : AddTurn(turn)

TurnsSpec == TurnsInit /\ [][TurnsNext]_turnsVars

-------------------------------------------------------------------------------
\* The turns a request's risk is judged by, without the window: those of the
\* user and of retrieved documents, in their order, and the last of them.
RiskyPlaces(ts) == {i \in DOMAIN ts : ts[i].tag \in {"USR", "RET"}}
Rank(places, i) == Cardinality({j \in places : j <= i})
RiskyTurns(ts) ==
    LET places == RiskyPlaces(ts)
    IN [k \in 1..Cardinality(places) |-> ts[CHOOSE i \in places : Rank(places, i) = k]]
LastTurns(ts) ==
    LET risky == RiskyTurns(ts)
    IN SubSeq(risky, Larger(1, Len(risky) + 1 - WindowSize), Len(risky))

\* The window kept turn by turn is the tail of the risky turns, in their order,
\* however trusted turns are mixed in.
WindowIsLastTurns == window = LastTurns(turns)

\* "3+ medium turns in window (crescendo)": three middling turns among the last
\* ones never pass the decision, wherever they lie, whatever stands between them,
\* and also when a louder trusted turn keeps the request from escalating.
CrescendoNeverPasses ==
    Cardinality({i \in DOMAIN LastTurns(turns) : LastTurns(turns)[i].score >= Medium}) >= 3 =>
        /\ PolicyLevel(turns, window) \notin {"allow", "log"}
        /\ RiskLevel(window) \in {"high", "critical"}

\* The label and the decided level of a request, without sliding the window.
Label(ts) == ResultLevel(ts, LastTurns(ts))
Decided(ts) == PolicyLevel(ts, LastTurns(ts))

\* A riskier turn never makes a request look more harmless, neither to the
\* classifier nor to the decision: the switch from the decayed sum back to the best
\* score does not lower the level.
MoreRiskNeverLower ==
    LET label == Severity(Label(turns))
        decided == Severity(Decided(turns))
    IN \A i \in DOMAIN turns, turn \in Turns :
          turn.tag = turns[i].tag /\ turn.score > turns[i].score =>
              LET riskier == [turns EXCEPT ![i] = turn]
              IN Severity(Label(riskier)) >= label /\ Severity(Decided(riskier)) >= decided

\* What the two properties rest on: the confidence made of three middling turns,
\* 0.85 of their sum and at most 0.92, reaches threshold_sanitize even when they
\* are the oldest of the window, and so does a sum that escalates.  It holds of
\* the default settings and is lost when multiturn_window is raised to 7.
CrescendoIsHeavy ==
    WindowSize >= 3 =>
       /\ 20 * TSan <= 17 * (Medium * (Weight[WindowSize - 1] + Weight[WindowSize - 2]
                                         + Weight[WindowSize - 3]))
       /\ TSan <= (MaxScore \div 100) * 92

EscalationIsHeavy == CrescendoIsHeavy /\ TSan <= Cumulative
===============================================================================
