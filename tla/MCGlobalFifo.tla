---------------------------- MODULE MCGlobalFifo ----------------------------
(* Small instances of the globalfifo device for TLC. *)
EXTENDS GlobalFifo, TLC

CONSTANTS a, b   \* two bytes

(* Less than, as much as, and more than there is room for. *)
Writes == {<<a>>, <<b, a>>}
=============================================================================
