--------------------------- MODULE MCSimplefsFile ---------------------------
(* A file small enough for TLC. *)
EXTENDS SimplefsFile, TLC

Symmetry == Permutations(Tasks)
=============================================================================
