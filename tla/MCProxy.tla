------------------------------- MODULE MCProxy -------------------------------
(***************************************************************************)
(* Proxy with two requests that may repeat an id, a cooldown of one tick   *)
(* and one restart.  A log that is not borderline stands for an allow.     *)
(***************************************************************************)
EXTENDS Proxy

CONSTANTS r1, r2, i1, i2

\* The same id twice, or two different ones.
MCIdChoices == {[r \in {r1, r2} |-> i1], [r \in {r1, r2} |-> IF r = r1 THEN i1 ELSE i2]}

MCVerdicts == {"log", "block"}
MCConfigs ==
    {[log_requests |-> TRUE, retrain |-> TRUE, alerts |-> TRUE, canary |-> TRUE],
     [log_requests |-> FALSE, retrain |-> FALSE, alerts |-> FALSE, canary |-> FALSE]}
===============================================================================
