----------------------------- MODULE MCDetectors -----------------------------
(***************************************************************************)
(* The two parts of the detectors with a memory of their own: RulesFile    *)
(* and Multiturn.  They share no variable, so each is explored while the   *)
(* other rests in one state.                                               *)
(***************************************************************************)
EXTENDS RulesFile, Multiturn

CONSTANTS a, b, x, f, broken, absent

MCRules == {a, b, x}
MCValid == {a, b}
MCFallback == {f}
MCBroken == {broken}
MCAbsent == {absent}

\* Harmless, just medium and loud turns of the user, a document above medium, and
\* a tool result that stays out of the window and may outweigh it.
MCTurns ==
    [tag : {"USR"}, score : {0, 9, 17}] \cup
    {[tag |-> "RET", score |-> 12], [tag |-> "TOOL", score |-> 20]}

\* The default settings satisfy what the theorems about the window assume.
ASSUME DefaultsWeigh == EscalationIsHeavy

vars == <<rulesVars, turnsVars>>

Init == RulesInit /\ TurnsInit

Next ==
    \/ RulesNext /\ turns = <<>> /\ UNCHANGED turnsVars
    \/ TurnsNext /\ file = MCAbsent /\ step = "idle" /\ rulesClock = 0
          /\ ~shadowed /\ patterns = MCFallback /\ UNCHANGED rulesVars

Spec == Init /\ [][Next]_vars
===============================================================================
