----------------------------- MODULE WafContract -----------------------------
(***************************************************************************)
(* What the request side of the firewall promises, without its layers:     *)
(* evidence about a request only accumulates, an alarm is never taken      *)
(* back, and the request is released only while no alarm stands, at the    *)
(* graduated level its strongest evidence calls for.  Refusing is always   *)
(* allowed.                                                                *)
(***************************************************************************)
EXTENDS WafTypes

VARIABLES
    evidence,   \* the highest confidence any detector has reported
    alarm,      \* some detector has demanded a block, or failed closed
    verdict,    \* "none", "released", "refused"
    level       \* the level attached to a released request

vars == <<evidence, alarm, verdict, level>>

Init ==
    /\ evidence = 0
    /\ alarm = FALSE
    /\ verdict = "none"
    /\ level = "none"

Inspect ==
    /\ verdict = "none"
    /\ evidence' \in evidence..MaxScore
    /\ alarm' \in {alarm, TRUE}
    /\ UNCHANGED <<verdict, level>>

Release ==
    /\ verdict = "none"
    /\ ~alarm
    /\ LevelFor(evidence) # "block"
    /\ verdict' = "released"
    /\ level' = LevelFor(evidence)
    /\ UNCHANGED <<evidence, alarm>>

Refuse ==
    /\ verdict = "none"
    /\ verdict' = "refused"
    /\ UNCHANGED <<evidence, alarm, level>>

Next == Inspect \/ Release \/ Refuse

Spec == Init /\ [][Next]_vars

\* What a user of the firewall may rely on: a released request carries the level
\* of the strongest evidence against it, and that is not block.
ReleasedAsGraded ==
    verdict = "released" =>
        /\ ~alarm
        /\ LevelFor(evidence) # "block"
        /\ level = LevelFor(evidence)
===============================================================================
