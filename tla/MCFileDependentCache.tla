------------------------ MODULE MCFileDependentCache ------------------------
(* A small instance of FileDependentCache for TLC: a RamCache holds one entry of the *)
(* first versions of a file, and none of the last.                                   *)
EXTENDS FileDependentCache

CONSTANTS w1, w2

MCSize == [v \in 0..MaxChanges |-> IF v = MaxChanges THEN MaxSize + 1 ELSE MaxSize - 1]
=============================================================================
