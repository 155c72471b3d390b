------------------------------ MODULE MCRegistry ------------------------------
(***************************************************************************)
(* Three commands on two versions: enough for a command to load before, and *)
(* save after, another one, and for a third to see the result.             *)
(***************************************************************************)
EXTENDS Registry, TLC

CONSTANTS c1, c2, c3, v1, v2

ThreeCommands == {c1, c2, c3}
TwoVersions == {v1, v2}

Interchangeable == Permutations(ThreeCommands) \cup Permutations(TwoVersions)
===============================================================================
