----------------------------- MODULE MCDirCache -----------------------------
(* Directories small enough for TLC: the constants are in the configurations. *)
EXTENDS DirCache, TLC

Symmetry == Permutations(Names) \cup Permutations(DirInos)
=============================================================================
