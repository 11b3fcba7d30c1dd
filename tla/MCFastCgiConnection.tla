------------------------ MODULE MCFastCgiConnection ------------------------
(* Small instances of FastCgiConnection for TLC. *)
EXTENDS FastCgiConnection, TLC

CONSTANTS i1, i2  \* request ids, which the code only compares and indexes with

IdSymmetry == Permutations({i1, i2})
=============================================================================
