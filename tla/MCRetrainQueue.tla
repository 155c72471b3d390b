---------------------------- MODULE MCRetrainQueue ----------------------------
(***************************************************************************)
(* Two writers race for the last place of a queue of two; the two texts    *)
(* differ only in case, and one of them is in the corpora as well.         *)
(***************************************************************************)
EXTENDS RetrainQueue, TLC

CONSTANTS lower, upper, key, w1, w2, b1, b2

TwoTexts == {lower, upper}
OneKey == {key}
CaseFolded == (lower :> key) @@ (upper :> key)
OneCorpus == <<[text |-> upper, label |-> "benign", row |-> 0]>>
TwoWriters == {w1, w2}
TwoBuilders == {b1, b2}

Interchangeable == Permutations(TwoWriters) \cup Permutations(TwoBuilders)
===============================================================================
