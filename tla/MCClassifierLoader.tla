-------------------------- MODULE MCClassifierLoader --------------------------
(***************************************************************************)
(* A pool smaller than the number of requests, so that waiting for the     *)
(* lock and waiting for a worker meet.                                     *)
(***************************************************************************)
EXTENDS ClassifierLoader

CONSTANTS r1, r2, r3, r4

FourRequests == {r1, r2, r3, r4}
OneEmpty == {r4}
===============================================================================
