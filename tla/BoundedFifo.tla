---------------------------- MODULE BoundedFifo ----------------------------
(***************************************************************************)
(* What the globalfifo device promises: a queue of at most Size bytes.     *)
(* moved is the last call that put bytes in, took bytes out or threw the   *)
(* bytes away, with what it moved.                                         *)
(***************************************************************************)
EXTENDS Naturals, Sequences

CONSTANTS Size, Datas, Counts

VARIABLES buf, moved

vars == <<buf, moved>>

Least(m, n) == IF m <= n THEN m ELSE n

Init == buf = <<>> /\ moved = [op |-> "none", data |-> <<>>]

(* As much of d as there is room for goes to the end of the queue. *)
Put(d) ==
  LET s == SubSeq(d, 1, Least(Len(d), Size - Len(buf))) IN
  /\ buf' = buf \o s
  /\ moved' = [op |-> "write", data |-> s]

(* As much of the front as there is, n bytes at most, goes to the caller. *)
Get(n) ==
  LET k == Least(n, Len(buf)) IN
  /\ moved' = [op |-> "read", data |-> SubSeq(buf, 1, k)]
  /\ buf' = SubSeq(buf, k + 1, Len(buf))

(* What is in the queue is lost: only when it is told to clear, or is made
   anew. *)
Lose(op) ==
  /\ buf' = <<>>
  /\ moved' = [op |-> op, data |-> <<>>]

Clear == Lose("clear")
Reset == Lose("load")

Next ==
  \/ Clear \/ Reset
  \/ \E d \in Datas : Put(d)
  \/ \E n \in Counts : Get(n)

Spec == Init /\ [][Next]_vars
=============================================================================
