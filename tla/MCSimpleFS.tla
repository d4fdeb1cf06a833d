----------------------------- MODULE MCSimpleFS -----------------------------
(***************************************************************************)
(* Small instances of SimpleFS for TLC.                                    *)
(***************************************************************************)
EXTENDS SimpleFS, TLC

CONSTANTS IntBits   \* the width of an int: 32, scaled down with MaxObjects

(* "1 << i" where a shift count is taken whole, as on ARM: zero from the
   width on.  The sign bit is extended when the int is widened to 64 bits. *)
ArmShl ==
  [i \in Blocks |-> CASE i < IntBits - 1 -> {i}
                      [] i = IntBits - 1 -> i .. (MaxObjects - 1)
                      [] OTHER           -> {}]

Symmetry == Permutations(Tasks) \cup Permutations(Addrs \ {RootAddr})
=============================================================================
