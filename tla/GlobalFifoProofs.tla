-------------------------- MODULE GlobalFifoProofs --------------------------
(***************************************************************************)
(* What the globalfifo device guarantees for any number of tasks, any size *)
(* of the buffer and any lengths of reads and writes.                      *)
(***************************************************************************)
EXTENDS GlobalFifo, SequenceTheorems, TLAPS

(* What a call was given fits what it does. *)
ArgsInv ==
  \A t \in Tasks : /\ pc[t] \in ReadPcs => arg[t].count \in Counts
                   /\ pc[t] \in WritePcs => arg[t].data \in Datas
                   /\ pc[t] \notin PollPcs => arg[t].want = {}

(* The points between a down() and the up() or schedule() that follows *)
Inside == {"r_in", "r_copy", "w_in", "w_copy", "c_in", "p_in"}

(* The semaphore excludes and is never kept. *)
SemInv == \A t \in Tasks : pc[t] \in Inside <=> sem = t

(* The points at which a task is on a queue; a select may be on both or on
   none before it has been asked for the first time. *)
OnRead  == {"r_copy", "r_sleep", "r_again", "r_out", "r_rm", "p_sleep", "p_out"}
OnWrite == {"w_copy", "w_sleep", "w_again", "w_out", "p_sleep", "p_out"}
Asked   == {"p_down", "p_in"}

QueueInv ==
  \A t \in Tasks :
    /\ pc[t] \in OnRead => t \in r_wait
    /\ pc[t] \in OnWrite => t \in w_wait
    /\ t \in r_wait => pc[t] \in OnRead \cup Asked
    /\ t \in w_wait => pc[t] \in OnWrite \cup Asked
    /\ pc[t] \in Asked => (t \in r_wait <=> t \in w_wait)
    /\ t \in asleep => pc[t] \in {"r_sleep", "w_sleep", "p_sleep"}

(* ReadersWoken, also of a state whose lists are broken *)
WokenInv ==
  \A t \in asleep : pc[t] = "r_sleep" \/ "in" \in arg[t].want => current_len = 0

TypeInv == TypeOK /\ ArgsInv

FifoInv == SemInv /\ QueueInv /\ WokenInv

-----------------------------------------------------------------------------
(* The actions by what they do to the buffer: those of ReadCopy, WriteCopy,
   Clear and LoadStart change it. *)
Quiet(t) ==
  \/ Start(t) \/ Interrupt(t) \/ Down(t)
  \/ ReadIn(t) \/ ReadWoken(t) \/ ReadOut(t) \/ ReadRemoved(t)
  \/ WriteIn(t) \/ WriteWoken(t) \/ WriteOut(t)
  \/ Poll(t) \/ PollWoken(t) \/ PollOut(t)

(* Every step is of one of these kinds. *)
LEMMA NextKinds ==
  ASSUME [Next]_vars
  PROVE  \/ LoadStart \/ LoadEnd \/ Unload \/ UNCHANGED vars
         \/ \E t \in Tasks : Quiet(t) \/ ReadCopy(t) \/ WriteCopy(t) \/ Clear(t)
BY DEF Next, Step, Quiet, Stopped

(* NoArg is a value of arg. *)
LEMMA NoArgType == NoArg \in Args
BY DEF NoArg, Args

(* The new values of mem have its type. *)
LEMMA MemTypes ==
  /\ Zeroed \in [Cells -> Bytes \cup {Zero}]
  /\ \A m \in [Cells -> Bytes \cup {Zero}] : \A len \in 0 .. Size : \A n \in 0 .. len :
       Shift(m, n, len) \in [Cells -> Bytes \cup {Zero}]
<1>1. Zeroed \in [Cells -> Bytes \cup {Zero}]
  BY DEF Zeroed
<1>2. ASSUME NEW m \in [Cells -> Bytes \cup {Zero}], NEW len \in 0 .. Size, NEW n \in 0 .. len,
             NEW k \in Cells, k < len - n
      PROVE  m[k + n] \in Bytes \cup {Zero}
  <2>1. k + n \in Cells
    BY <1>2, FifoAssumption DEF Cells
  <2> QED
    BY <2>1
<1> QED
  BY <1>1, <1>2 DEF Shift

(* So does what a write leaves. *)
LEMMA FilledType ==
  ASSUME NEW m \in [Cells -> Bytes \cup {Zero}], NEW at \in 0 .. Size, NEW d \in Seq(Bytes),
         NEW n \in 0 .. Len(d), NEW j \in 0 .. n
  PROVE  Filled(m, at, d, n, j) \in [Cells -> Bytes \cup {Zero}]
<1>1. ASSUME NEW k \in Cells, k \in at .. (at + j - 1)
      PROVE  d[k - at + 1] \in Bytes
  <2>1. k - at + 1 \in 1 .. Len(d)
    BY <1>1, FifoAssumption DEF Cells
  <2> QED
    BY <2>1, ElementOfSeq
<1> QED
  BY <1>1 DEF Filled

-----------------------------------------------------------------------------
(* At first nobody has the device open. *)
LEMMA FifoInit == Init => TypeInv /\ FifoInv
<1> SUFFICES ASSUME Init PROVE TypeInv /\ FifoInv
  OBVIOUS
<1>1. TypeOK
  <2>1. 0 \in 0 .. Size
    BY FifoAssumption
  <2> QED
    BY <2>1, NoArgType, MemTypes DEF Init, TypeOK, Pcs
<1>2. ArgsInv
  BY DEF Init, ArgsInv, ReadPcs, WritePcs, PollPcs, NoArg
<1>3. SemInv
  BY FifoAssumption DEF Init, SemInv, Inside
<1>4. QueueInv /\ WokenInv
  BY DEF Init, QueueInv, WokenInv, OnRead, OnWrite, Asked
<1> QED
  BY <1>1, <1>2, <1>3, <1>4 DEF TypeInv, FifoInv
-----------------------------------------------------------------------------
(* Types. *)

(* A call starts with arguments that fit it. *)
LEMMA TypeStart ==
  ASSUME TypeInv, NEW t \in Tasks, Start(t)
  PROVE  TypeInv'
<1> USE DEF TypeInv, TypeOK, ArgsInv, Goto
<1>1. CASE Open(t) \/ Release(t)
  BY <1>1 DEF Open, Release, At, Pcs, ReadPcs, WritePcs, PollPcs
<1>2. ASSUME NEW p \in {"r_down", "w_down", "c_down", "p_down"}, NEW a \in Args, Call(t, p, a),
             p = "r_down" => a.count \in Counts,
             p = "w_down" => a.data \in Datas,
             p # "p_down" => a.want = {}
      PROVE  TypeInv'
  <2>1. arg' \in [Tasks -> Args] /\ arg'[t] = a /\ \A u \in Tasks \ {t} : arg'[u] = arg[u]
    BY <1>2 DEF Call
  <2>2. pc' \in [Tasks -> Pcs] /\ pc'[t] = p /\ \A u \in Tasks \ {t} : pc'[u] = pc[u]
    BY <1>2 DEF Call, Pcs, ReadPcs, WritePcs, PollPcs, ClearPcs
  <2>3. TypeOK'
    BY <1>2, <2>1, <2>2 DEF Call
  <2>4. ArgsInv'
    BY <1>2, <2>1, <2>2 DEF ReadPcs, WritePcs, PollPcs
  <2> QED
    BY <2>3, <2>4
<1>3. CASE ReadCall(t)
  <2>1. PICK n \in Counts, b \in BOOLEAN :
               Call(t, "r_down", [NoArg EXCEPT !.count = n, !.nonblock = b])
    BY <1>3 DEF ReadCall
  <2> DEFINE a == [NoArg EXCEPT !.count = n, !.nonblock = b]
  <2>2. a \in Args /\ a.count \in Counts /\ a.want = {}
    BY DEF NoArg, Args
  <2> HIDE DEF a
  <2> QED
    BY <1>2, <2>1, <2>2 DEF a
<1>4. CASE WriteCall(t)
  <2>1. PICK d \in Datas, b \in BOOLEAN :
               Call(t, "w_down", [NoArg EXCEPT !.data = d, !.nonblock = b])
    BY <1>4 DEF WriteCall
  <2> DEFINE a == [NoArg EXCEPT !.data = d, !.nonblock = b]
  <2>2. a \in Args /\ a.data \in Datas /\ a.want = {}
    BY DEF NoArg, Args
  <2> QED
    BY <1>2, <2>1, <2>2
<1>5. CASE ClearCall(t)
  BY <1>2, <1>5, NoArgType DEF ClearCall, NoArg
<1>6. CASE PollCall(t)
  <2>1. PICK e \in SUBSET Events \ {{}} : Call(t, "p_down", [NoArg EXCEPT !.want = e])
    BY <1>6 DEF PollCall
  <2>2. [NoArg EXCEPT !.want = e] \in Args
    BY DEF NoArg, Args
  <2> QED
    BY <1>2, <2>1, <2>2
<1> QED
  BY <1>1, <1>3, <1>4, <1>5, <1>6 DEF Start

(* A step inside a call moves the task on within the same call. *)
SameCall(p, q) ==
  \/ p \in ReadPcs /\ q \in ReadPcs
  \/ p \in WritePcs /\ q \in WritePcs
  \/ p \in PollPcs /\ q \in PollPcs
  \/ p \in ClearPcs /\ q \in ClearPcs

(* A task that stays in its call keeps the types. *)
LEMMA TypeMove ==
  ASSUME TypeInv, NEW t \in Tasks, NEW q, Goto(t, q), SameCall(pc[t], q), arg' = arg
  PROVE  pc' \in [Tasks -> Pcs] /\ arg' \in [Tasks -> Args] /\ ArgsInv'
<1>1. q \in Pcs
  BY DEF SameCall, Pcs
<1>2. /\ q \in ReadPcs => pc[t] \in ReadPcs
      /\ q \in WritePcs => pc[t] \in WritePcs
      /\ q \notin PollPcs => pc[t] \notin PollPcs
  BY DEF SameCall, ReadPcs, WritePcs, PollPcs, ClearPcs
<1> QED
  BY <1>1, <1>2 DEF TypeInv, TypeOK, ArgsInv, Goto

(* So does one that returns. *)
LEMMA TypeReturn ==
  ASSUME TypeInv, NEW t \in Tasks, Return(t)
  PROVE  pc' \in [Tasks -> Pcs] /\ arg' \in [Tasks -> Args] /\ ArgsInv'
<1>1. pc' \in [Tasks -> Pcs] /\ arg' \in [Tasks -> Args]
  BY NoArgType DEF TypeInv, TypeOK, Return, Goto, Pcs
<1>2. ArgsInv'
  BY DEF TypeInv, TypeOK, ArgsInv, Return, Goto, ReadPcs, WritePcs, PollPcs, NoArg
<1> QED
  BY <1>1, <1>2

(* The steps that leave the buffer alone. *)
LEMMA TypeQuiet ==
  ASSUME TypeInv, NEW t \in Tasks, Quiet(t), ~Start(t)
  PROVE  TypeInv'
<1> USE DEF SameCall, ReadPcs, WritePcs, PollPcs, ClearPcs, At
<1>1. pc' \in [Tasks -> Pcs] /\ arg' \in [Tasks -> Args] /\ ArgsInv'
  <2>1. CASE Interrupt(t)
    BY <2>1, TypeMove DEF Interrupt, ReadSignalled, WriteSignalled, PollTimeout
  <2>2. CASE Down(t) /\ pc' # pc
    <3>1. Goto(t, Downs[pc[t]]) /\ arg' = arg /\ pc[t] \in DOMAIN Downs
      BY <2>2 DEF Down
    <3>2. SameCall(pc[t], Downs[pc[t]])
      BY <3>1 DEF Downs
    <3> QED
      BY <3>1, <3>2, TypeMove
  <2>3. CASE Down(t) /\ pc' = pc
    BY <2>3 DEF Down, TypeInv, TypeOK, ArgsInv
  <2>4. CASE ReadIn(t) \/ ReadWoken(t) \/ ReadOut(t)
    BY <2>4, TypeMove DEF ReadIn, ReadWoken, ReadOut
  <2>5. CASE WriteIn(t) \/ WriteWoken(t)
    BY <2>5, TypeMove DEF WriteIn, WriteWoken
  <2>6. CASE Poll(t) \/ PollWoken(t)
    BY <2>6, TypeMove DEF Poll, PollWoken, PollSleeps
  <2>7. CASE ReadRemoved(t) \/ WriteOut(t) \/ PollOut(t)
    BY <2>7, TypeReturn DEF ReadRemoved, WriteOut, PollOut
  <2> QED
    BY <2>1, <2>2, <2>3, <2>4, <2>5, <2>6, <2>7 DEF Quiet
<1>2. /\ UNCHANGED <<dev, mem, current_len>>
      /\ sem' \in {sem, t, Nobody}
      /\ r_wait' \subseteq r_wait \cup {t} /\ w_wait' \subseteq w_wait \cup {t}
      /\ asleep' \subseteq asleep \cup {t}
      /\ oops' \in {oops, TRUE, \E u \in Tasks : pc[u] = "r_rm"}
  BY DEF Quiet, Interrupt, ReadSignalled, WriteSignalled, PollTimeout, Down, ReadIn, ReadWoken,
     ReadOut, ReadRemoved, WriteIn, WriteWoken, WriteOut, Poll, PollWoken, PollOut, PollSleeps,
     Up, UsesRWait
<1> QED
  BY <1>1, <1>2 DEF TypeInv, TypeOK

(* min(m, n) is neither negative nor more than either. *)
LEMMA LeastBound ==
  ASSUME NEW m \in Nat, NEW n \in Nat
  PROVE  Least(m, n) \in Nat /\ Least(m, n) <= m /\ Least(m, n) <= n
BY DEF Least

(* A read takes out no more than there is. *)
LEMMA ReadCount ==
  ASSUME TypeInv, NEW t \in Tasks, pc[t] \in ReadPcs
  PROVE  /\ Least(arg[t].count, current_len) \in 0 .. current_len
         /\ current_len - Least(arg[t].count, current_len) \in 0 .. Size
<1>1. arg[t].count \in Nat
  BY FifoAssumption DEF TypeInv, ArgsInv
<1>2. current_len \in Nat /\ current_len <= Size /\ Size \in Nat
  BY FifoAssumption DEF TypeInv, TypeOK
<1> DEFINE k == Least(arg[t].count, current_len)
<1>3. k \in Nat /\ k <= current_len
  BY <1>1, <1>2, LeastBound
<1> HIDE DEF k
<1>4. k \in 0 .. current_len /\ current_len - k \in 0 .. Size
  BY <1>2, <1>3
<1> QED
  BY <1>4 DEF k

(* A write brings no more than there is room for. *)
LEMMA WriteCount ==
  ASSUME TypeInv, NEW t \in Tasks, pc[t] \in WritePcs
  PROVE  /\ arg[t].data \in Seq(Bytes)
         /\ Least(Len(arg[t].data), Room(current_len)) \in 0 .. Len(arg[t].data)
         /\ current_len + Least(Len(arg[t].data), Room(current_len)) \in 0 .. Size
<1>1. arg[t].data \in Seq(Bytes) /\ current_len \in Nat /\ current_len <= Size /\ Size \in Nat
  BY FifoAssumption DEF TypeInv, TypeOK, ArgsInv
<1>2. Len(arg[t].data) \in Nat
  BY <1>1, LenProperties
<1>3. Room(current_len) \in Nat
  BY <1>1 DEF Room
<1> DEFINE n == Len(arg[t].data)
           k == Least(n, Room(current_len))
<1>4. k \in Nat /\ k <= n /\ k <= Room(current_len)
  BY <1>2, <1>3, LeastBound
<1> HIDE DEF n, k
<1>5. n \in Nat
  BY <1>2 DEF n
<1>6. k \in 0 .. n /\ current_len + k \in 0 .. Size
  BY <1>1, <1>4, <1>5 DEF Room
<1> QED
  BY <1>1, <1>6 DEF n, k

(* The steps that change the buffer. *)
LEMMA TypeBuffer ==
  ASSUME TypeInv, NEW t \in Tasks, ReadCopy(t) \/ WriteCopy(t) \/ Clear(t)
  PROVE  TypeInv'
<1>1. CASE ReadCopy(t)
  <2> DEFINE n == Least(arg[t].count, current_len)
  <2>1. pc[t] \in ReadPcs /\ SameCall(pc[t], "r_out") /\ Goto(t, "r_out") /\ arg' = arg
    BY <1>1 DEF ReadCopy, At, SameCall, ReadPcs
  <2>2. /\ mem' \in {mem, Shift(mem, n, current_len)}
        /\ current_len' \in {current_len, current_len - n}
        /\ asleep' \subseteq asleep
        /\ UNCHANGED <<dev, r_wait, w_wait, oops>> /\ sem' = Nobody
    BY <1>1 DEF ReadCopy, WakeWriters, Up
  <2>3. n \in 0 .. current_len /\ current_len - n \in 0 .. Size
    BY <2>1, ReadCount
  <2>4. mem' \in [Cells -> Bytes \cup {Zero}] /\ current_len' \in 0 .. Size
    BY <2>2, <2>3, MemTypes DEF TypeInv, TypeOK
  <2>5. pc' \in [Tasks -> Pcs] /\ arg' \in [Tasks -> Args] /\ ArgsInv'
    BY <2>1, TypeMove
  <2> QED
    BY <2>2, <2>4, <2>5 DEF TypeInv, TypeOK
<1>2. CASE WriteCopy(t)
  <2> DEFINE d == arg[t].data
             n == Least(Len(d), Room(current_len))
  <2>1. pc[t] \in WritePcs /\ SameCall(pc[t], "w_out") /\ Goto(t, "w_out") /\ arg' = arg
    BY <1>2 DEF WriteCopy, At, SameCall, WritePcs
  <2>2. d \in Seq(Bytes) /\ n \in 0 .. Len(d) /\ current_len + n \in 0 .. Size
    BY <2>1, WriteCount
  <2>3. /\ \E j \in 0 .. n : mem' = Filled(mem, current_len, d, n, j)
        /\ current_len' \in {current_len, current_len + n}
        /\ asleep' \subseteq asleep /\ oops' \in BOOLEAN
        /\ UNCHANGED <<dev, r_wait, w_wait>> /\ sem' = Nobody
    <3>1. n \in 0 .. n /\ 0 .. (n - 1) \subseteq 0 .. n
      BY <2>2, LenProperties
    <3> QED
      BY <1>2, <3>1 DEF WriteCopy, WakeReaders, UsesRWait, Up, TypeInv, TypeOK
  <2>4. mem' \in [Cells -> Bytes \cup {Zero}] /\ current_len' \in 0 .. Size
    BY <2>2, <2>3, FilledType DEF TypeInv, TypeOK
  <2>5. pc' \in [Tasks -> Pcs] /\ arg' \in [Tasks -> Args] /\ ArgsInv'
    BY <2>1, TypeMove
  <2> QED
    BY <2>3, <2>4, <2>5 DEF TypeInv, TypeOK
<1>3. CASE Clear(t)
  <2>1. 0 \in 0 .. Size
    BY FifoAssumption
  <2> QED
    BY <1>3, <2>1, TypeReturn, MemTypes DEF Clear, Up, TypeInv, TypeOK
<1> QED
  BY <1>1, <1>2, <1>3

(* Every step keeps the types. *)
LEMMA TypeNext == TypeInv /\ [Next]_vars => TypeInv'
<1> SUFFICES ASSUME TypeInv, [Next]_vars PROVE TypeInv'
  OBVIOUS
<1>1. CASE LoadStart
  <2>1. 0 \in 0 .. Size
    BY FifoAssumption
  <2> QED
    BY <1>1, <2>1, MemTypes DEF LoadStart, TypeInv, TypeOK, ArgsInv
<1>2. CASE LoadEnd \/ Unload \/ UNCHANGED vars
  BY <1>2 DEF LoadEnd, Unload, vars, TypeInv, TypeOK, ArgsInv
<1> QED
  BY <1>1, <1>2, TypeStart, TypeQuiet, TypeBuffer, NextKinds

-----------------------------------------------------------------------------
(* The semaphore and the queues: what a step of one task does to them, and
   that it leaves the others where they are. *)
LEMMA OthersStay ==
  ASSUME TypeInv, NEW t \in Tasks, Quiet(t) \/ ReadCopy(t) \/ WriteCopy(t) \/ Clear(t)
  PROVE  \A u \in Tasks \ {t} :
           /\ pc'[u] = pc[u] /\ arg'[u] = arg[u]
           /\ u \in r_wait' <=> u \in r_wait
           /\ u \in w_wait' <=> u \in w_wait
           /\ u \in asleep' => u \in asleep
<1> USE DEF TypeInv, TypeOK, Goto, Return
<1>1. CASE Start(t)
  BY <1>1 DEF Start, Open, Release, ReadCall, WriteCall, ClearCall, PollCall, Call
<1>2. CASE Interrupt(t) \/ Down(t)
  BY <1>2 DEF Interrupt, ReadSignalled, WriteSignalled, PollTimeout, Down
<1>3. CASE ReadIn(t) \/ ReadWoken(t) \/ ReadOut(t) \/ ReadRemoved(t) \/ ReadCopy(t)
  BY <1>3 DEF ReadIn, ReadWoken, ReadOut, ReadRemoved, ReadCopy, WakeWriters
<1>4. CASE WriteIn(t) \/ WriteWoken(t) \/ WriteOut(t) \/ WriteCopy(t) \/ Clear(t)
  BY <1>4 DEF WriteIn, WriteWoken, WriteOut, WriteCopy, WakeReaders, Clear
<1>5. CASE Poll(t) \/ PollWoken(t) \/ PollOut(t)
  BY <1>5 DEF Poll, PollWoken, PollOut, PollSleeps
<1> QED
  BY <1>1, <1>2, <1>3, <1>4, <1>5 DEF Quiet

(* Whoever goes in has found the semaphore free, and gives it up going out. *)
LEMMA SemNext == TypeInv /\ SemInv /\ [Next]_vars => SemInv'
<1> SUFFICES ASSUME TypeInv, SemInv, [Next]_vars PROVE SemInv'
  OBVIOUS
<1>1. CASE LoadStart \/ LoadEnd \/ Unload \/ UNCHANGED vars
  BY <1>1 DEF LoadStart, LoadEnd, Unload, vars, SemInv
<1>2. ASSUME NEW t \in Tasks, Quiet(t) \/ ReadCopy(t) \/ WriteCopy(t) \/ Clear(t)
      PROVE  SemInv'
  <2>1. \/ sem' = sem /\ (pc'[t] \in Inside <=> pc[t] \in Inside)
        \/ sem = Nobody /\ sem' = t /\ pc'[t] \in Inside
        \/ pc[t] \in Inside /\ sem' = Nobody /\ pc'[t] \notin Inside
    <3> USE DEF TypeInv, TypeOK, Goto, Return, Inside, At, Up
    <3>1. CASE Start(t)
      BY <3>1 DEF Start, Open, Release, ReadCall, WriteCall, ClearCall, PollCall, Call
    <3>2. CASE Interrupt(t)
      BY <3>2 DEF Interrupt, ReadSignalled, WriteSignalled, PollTimeout
    <3>3. CASE Down(t)
      BY <3>3 DEF Down, Downs
    <3>4. CASE ReadIn(t) \/ ReadWoken(t) \/ ReadOut(t) \/ ReadRemoved(t) \/ ReadCopy(t)
      BY <3>4 DEF ReadIn, ReadWoken, ReadOut, ReadRemoved, ReadCopy
    <3>5. CASE WriteIn(t) \/ WriteWoken(t) \/ WriteOut(t) \/ WriteCopy(t) \/ Clear(t)
      BY <3>5 DEF WriteIn, WriteWoken, WriteOut, WriteCopy, Clear
    <3>6. CASE Poll(t) \/ PollWoken(t) \/ PollOut(t)
      BY <3>6 DEF Poll, PollWoken, PollOut, PollSleeps
    <3> QED
      BY <1>2, <3>1, <3>2, <3>3, <3>4, <3>5, <3>6 DEF Quiet
  <2> QED
    BY <1>2, <2>1, OthersStay, FifoAssumption DEF SemInv
<1> QED
  BY <1>1, <1>2, NextKinds
(* A task is put on a queue before it can sleep, and taken off before its call
   returns. *)
LEMMA QueueNext == TypeInv /\ QueueInv /\ [Next]_vars => QueueInv'
<1> SUFFICES ASSUME TypeInv, QueueInv, [Next]_vars PROVE QueueInv'
  OBVIOUS
<1>1. CASE LoadStart \/ LoadEnd \/ Unload \/ UNCHANGED vars
  BY <1>1 DEF LoadStart, LoadEnd, Unload, vars, QueueInv
<1>2. ASSUME NEW t \in Tasks, Quiet(t) \/ ReadCopy(t) \/ WriteCopy(t) \/ Clear(t)
      PROVE  QueueInv'
  <2>1. /\ pc'[t] \in OnRead => t \in r_wait'
        /\ pc'[t] \in OnWrite => t \in w_wait'
        /\ t \in r_wait' => pc'[t] \in OnRead \cup Asked
        /\ t \in w_wait' => pc'[t] \in OnWrite \cup Asked
        /\ pc'[t] \in Asked => (t \in r_wait' <=> t \in w_wait')
        /\ t \in asleep' => pc'[t] \in {"r_sleep", "w_sleep", "p_sleep"}
    <3> USE DEF TypeInv, TypeOK, Goto, Return, QueueInv, OnRead, OnWrite, Asked, At
    <3>1. CASE Start(t)
      BY <3>1 DEF Start, Open, Release, ReadCall, WriteCall, ClearCall, PollCall, Call
    <3>2. CASE Interrupt(t)
      BY <3>2 DEF Interrupt, ReadSignalled, WriteSignalled, PollTimeout
    <3>3. CASE Down(t)
      BY <3>3 DEF Down, Downs
    <3>4. CASE ReadIn(t) \/ ReadWoken(t) \/ ReadOut(t) \/ ReadRemoved(t) \/ ReadCopy(t)
      BY <3>4 DEF ReadIn, ReadWoken, ReadOut, ReadRemoved, ReadCopy, WakeWriters
    <3>5. CASE WriteIn(t) \/ WriteWoken(t) \/ WriteOut(t) \/ WriteCopy(t) \/ Clear(t)
      BY <3>5 DEF WriteIn, WriteWoken, WriteOut, WriteCopy, WakeReaders, Clear
    <3>6. CASE Poll(t) \/ PollWoken(t) \/ PollOut(t)
      BY <3>6 DEF Poll, PollWoken, PollOut, PollSleeps
    <3> QED
      BY <1>2, <3>1, <3>2, <3>3, <3>4, <3>5, <3>6 DEF Quiet
  <2>2. ASSUME NEW u \in Tasks \ {t}
        PROVE  /\ pc'[u] = pc[u]
               /\ u \in r_wait' <=> u \in r_wait
               /\ u \in w_wait' <=> u \in w_wait
               /\ u \in asleep' => u \in asleep
    BY <1>2, OthersStay
  <2> QED
    BY <2>1, <2>2 DEF QueueInv
<1> QED
  BY <1>1, <1>2, NextKinds

(* Bytes that come in wake everybody who waits for them. *)
LEMMA WokenNext == TypeInv /\ QueueInv /\ WokenInv /\ [Next]_vars => WokenInv'
<1> SUFFICES ASSUME TypeInv, QueueInv, WokenInv, [Next]_vars PROVE WokenInv'
  OBVIOUS
<1>1. CASE LoadStart \/ LoadEnd \/ Unload \/ UNCHANGED vars
  BY <1>1 DEF LoadStart, LoadEnd, Unload, vars, WokenInv
<1>2. ASSUME NEW t \in Tasks, WriteCopy(t), current_len' # current_len
      PROVE  WokenInv'
  <2>1. asleep' = asleep \ r_wait /\ arg' = arg /\ pc' = [pc EXCEPT ![t] = "w_out"]
    BY <1>2 DEF WriteCopy, WakeReaders, Goto
  <2>2. ASSUME NEW u \in asleep', pc'[u] = "r_sleep" \/ "in" \in arg'[u].want
        PROVE  FALSE
    <3>1. u \in Tasks /\ u \in asleep /\ u \notin r_wait
      BY <2>1, <2>2 DEF TypeInv, TypeOK
    <3>2. pc[u] \notin OnRead /\ pc[u] \in {"r_sleep", "w_sleep", "p_sleep"}
      BY <3>1 DEF QueueInv
    <3>3. pc[u] = "w_sleep"
      BY <3>2 DEF OnRead
    <3> QED
      BY <2>1, <2>2, <3>1, <3>3 DEF TypeInv, TypeOK, ArgsInv, PollPcs
  <2> QED
    BY <2>2 DEF WokenInv
<1>3. ASSUME NEW t \in Tasks, ReadCopy(t) \/ Clear(t)
      PROVE  WokenInv'
  <2>1. current_len = 0 => current_len' = 0
    <3>1. CASE ReadCopy(t)
      <4>1. Least(arg[t].count, current_len) \in 0 .. current_len
        BY <3>1, ReadCount DEF ReadCopy, At, ReadPcs
      <4>2. current_len' \in {current_len, current_len - Least(arg[t].count, current_len)}
        BY <3>1 DEF ReadCopy
      <4> QED
        BY <4>1, <4>2
    <3>2. CASE Clear(t)
      BY <3>2 DEF Clear
    <3> QED
      BY <1>3, <3>1, <3>2
  <2>2. asleep' \subseteq asleep /\ t \notin asleep
    BY <1>3 DEF ReadCopy, Clear, WakeWriters, At, QueueInv
  <2> QED
    BY <1>3, <2>1, <2>2, OthersStay DEF WokenInv, TypeInv, TypeOK
<1>4. ASSUME NEW t \in Tasks, Quiet(t) \/ WriteCopy(t), current_len' = current_len
      PROVE  WokenInv'
  <2>1. t \in asleep' /\ (pc'[t] = "r_sleep" \/ "in" \in arg'[t].want) => current_len = 0
    <3> USE DEF TypeInv, TypeOK, Goto, Return, QueueInv, At
    <3>1. CASE Start(t)
      BY <3>1 DEF Start, Open, Release, ReadCall, WriteCall, ClearCall, PollCall, Call
    <3>2. CASE Interrupt(t)
      BY <3>2 DEF Interrupt, ReadSignalled, WriteSignalled, PollTimeout
    <3>3. CASE Down(t)
      BY <3>3 DEF Down, Downs
    <3>4. CASE ReadIn(t) \/ ReadWoken(t) \/ ReadOut(t) \/ ReadRemoved(t)
      BY <3>4 DEF ReadIn, ReadWoken, ReadOut, ReadRemoved, ArgsInv, PollPcs
    <3>5. CASE WriteIn(t) \/ WriteWoken(t) \/ WriteOut(t) \/ WriteCopy(t)
      BY <3>5 DEF WriteIn, WriteWoken, WriteOut, WriteCopy, WakeReaders, ArgsInv, PollPcs
    <3>6. CASE Poll(t) \/ PollWoken(t) \/ PollOut(t)
      BY <3>6 DEF Poll, PollWoken, PollOut, PollSleeps, Mask, Events, Args
    <3> QED
      BY <1>4, <3>1, <3>2, <3>3, <3>4, <3>5, <3>6 DEF Quiet
  <2>2. ASSUME NEW u \in asleep', u # t, pc'[u] = "r_sleep" \/ "in" \in arg'[u].want
        PROVE  current_len = 0
    <3>1. u \in Tasks
      BY <1>4, <2>2, TypeNext DEF TypeInv, TypeOK
    <3>2. pc'[u] = pc[u] /\ arg'[u] = arg[u] /\ u \in asleep
      BY <1>4, <2>2, <3>1, OthersStay
    <3> QED
      BY <2>2, <3>2 DEF WokenInv
  <2> QED
    BY <1>4, <2>1, <2>2 DEF WokenInv
<1>5. ASSUME NEW t \in Tasks, Quiet(t)
      PROVE  current_len' = current_len
  BY <1>5 DEF Quiet, Start, Open, Release, ReadCall, WriteCall, ClearCall, PollCall, Call,
     Interrupt, ReadSignalled, WriteSignalled, PollTimeout, Down, ReadIn, ReadWoken, ReadOut,
     ReadRemoved, WriteIn, WriteWoken, WriteOut, Poll, PollWoken, PollOut
<1> QED
  BY <1>1, <1>2, <1>3, <1>4, <1>5, NextKinds
-----------------------------------------------------------------------------
(* Spec keeps the invariant. *)
LEMMA FifoInvariant == Spec => [](TypeInv /\ FifoInv)
<1>1. TypeInv /\ FifoInv /\ [Next]_vars => (TypeInv /\ FifoInv)'
  BY TypeNext, SemNext, QueueNext, WokenNext DEF FifoInv
<1> QED
  BY <1>1, FifoInit, PTL DEF Spec

(* Every variable keeps its type: current_len never exceeds the buffer. *)
THEOREM TypeCorrect == Spec => []TypeOK
<1>1. TypeInv => TypeOK
  BY DEF TypeInv
<1> QED
  BY <1>1, FifoInvariant, PTL

(* wake_up_interruptible(&dev->r_wait): neither a reader nor a select that
   waits for input sleeps while there is data. *)
THEOREM NoLostWakeup == Spec => []ReadersWoken
<1>1. FifoInv => ReadersWoken
  BY DEF FifoInv, WokenInv, ReadersWoken
<1> QED
  BY <1>1, FifoInvariant, PTL

(* The queue entry on the stack of a task is off both queues when its call
   returns, on every way out. *)
THEOREM NoStaleEntry == Spec => []QueuesClean
<1>1. FifoInv => QueuesClean
  BY DEF FifoInv, QueueInv, QueuesClean, OnRead, OnWrite, Asked
<1> QED
  BY <1>1, FifoInvariant, PTL

(* Most steps leave the buffer and what was moved alone. *)
LEMMA BufferStays ==
  ASSUME NEW t \in Tasks, Quiet(t)
  PROVE  UNCHANGED <<mem, current_len, moved>>
BY DEF Quiet, Start, Open, Release, ReadCall, WriteCall, ClearCall, PollCall, Call,
   Interrupt, ReadSignalled, WriteSignalled, PollTimeout, Down, ReadIn, ReadWoken, ReadOut,
   ReadRemoved, WriteIn, WriteWoken, WriteOut, Poll, PollWoken, PollOut

(* A read that makes room leaves nobody asleep who waits for room. *)
LEMMA RoomStep ==
  ASSUME TypeInv, FifoInv, [Next]_vars, NEW t \in Tasks, pc[t] = "r_copy", pc'[t] = "r_out",
         current_len' < current_len
  PROVE  \A u \in asleep' : pc[u] # "w_sleep" /\ "out" \notin arg[u].want
<1>1. ReadCopy(t)
  <2>1. \E u \in Tasks : Quiet(u) \/ ReadCopy(u) \/ WriteCopy(u) \/ Clear(u)
    BY NextKinds DEF LoadStart, LoadEnd, Unload, vars
  <2>2. PICK u \in Tasks : Quiet(u) \/ ReadCopy(u) \/ WriteCopy(u) \/ Clear(u)
    BY <2>1
  <2>3. u = t
    BY <2>2, OthersStay
  <2>4. ~Quiet(t)
    BY BufferStays DEF TypeInv, TypeOK
  <2> QED
    BY <2>2, <2>3, <2>4 DEF WriteCopy, Clear, At
<1>2. asleep' = asleep \ w_wait
  BY <1>1 DEF ReadCopy, WakeWriters, TypeInv, TypeOK
<1>3. ASSUME NEW u \in asleep'
      PROVE  pc[u] # "w_sleep" /\ "out" \notin arg[u].want
  <2>1. u \in Tasks /\ u \in asleep /\ u \notin w_wait
    BY <1>2 DEF TypeInv, TypeOK
  <2>2. pc[u] = "r_sleep"
    BY <2>1 DEF FifoInv, QueueInv, OnWrite
  <2> QED
    BY <2>1, <2>2 DEF TypeInv, ArgsInv, PollPcs
<1> QED
  BY <1>3

(* wake_up_interruptible(&dev->w_wait): a read that makes room leaves nobody
   asleep who waits for room, neither a writer nor a select. *)
THEOREM NoLostRoom == Spec => RoomWakes
<1>1. TypeInv /\ FifoInv /\ [Next]_vars =>
        [\A t \in Tasks :
           pc[t] = "r_copy" /\ pc'[t] = "r_out" /\ current_len' < current_len =>
             \A u \in asleep' : pc[u] # "w_sleep" /\ "out" \notin arg[u].want]_vars
  BY RoomStep
<1> QED
  BY <1>1, FifoInvariant, PTL DEF Spec, RoomWakes

-----------------------------------------------------------------------------
(* The refinement of BoundedFifo. *)

(* The first l bytes of a buffer are a sequence of length l. *)
LEMMA PrefixSeq ==
  ASSUME NEW m \in [Cells -> Bytes \cup {Zero}], NEW l \in 0 .. Size
  PROVE  LET c == [k \in 1 .. l |-> m[k - 1]] IN
         c \in Seq(Bytes \cup {Zero}) /\ Len(c) = l /\ \A k \in 1 .. l : c[k] = m[k - 1]
<1>1. l \in Nat /\ l <= Size /\ Size \in Nat
  BY FifoAssumption
<1>2. \A k \in 1 .. l : k - 1 \in Cells
  BY <1>1 DEF Cells
<1>3. \A k \in 1 .. l : m[k - 1] \in Bytes \cup {Zero}
  BY <1>2
<1> QED
  BY <1>1, <1>3, IsASeq

(* The bytes in the buffer are a sequence of length current_len. *)
LEMMA ContentsSeq ==
  ASSUME TypeInv
  PROVE  /\ Contents \in Seq(Bytes \cup {Zero})
         /\ Len(Contents) = current_len
         /\ \A k \in 1 .. current_len : Contents[k] = mem[k - 1]
BY PrefixSeq DEF TypeInv, TypeOK, Contents

(* The same of the bytes after a step *)
LEMMA ContentsSeqAfter ==
  ASSUME TypeInv'
  PROVE  /\ Contents' \in Seq(Bytes \cup {Zero})
         /\ Len(Contents') = current_len'
         /\ \A k \in 1 .. current_len' : Contents'[k] = mem'[k - 1]
BY PrefixSeq DEF TypeInv, TypeOK, Contents

(* A write that succeeds puts as much as there is room for at the end. *)
LEMMA PutStep ==
  ASSUME TypeInv, TypeInv', NEW t \in Tasks, WriteCopy(t),
         ~(moved' = moved /\ current_len' = current_len)
  PROVE  Fifo!Put(arg[t].data)
<1> DEFINE d == arg[t].data
           n == Least(Len(d), Room(current_len))
           s == SubSeq(d, 1, n)
           S == Bytes \cup {Zero}
<1>1. /\ mem' = Filled(mem, current_len, d, n, n)
      /\ current_len' = current_len + n
      /\ moved' = [op |-> "write", data |-> s]
  BY DEF WriteCopy
<1>2. d \in Seq(Bytes) /\ n \in 0 .. Len(d) /\ Len(d) \in Nat /\ current_len + n \in 0 .. Size
  BY WriteCount, LenProperties DEF WriteCopy, At, WritePcs
<1>3. n = Fifo!Least(Len(d), Size - Len(Contents))
  BY ContentsSeq DEF Least, Room, Fifo!Least
<1>4. s \in Seq(Bytes) /\ Len(s) = n /\ \A k \in 1 .. n : s[k] = d[k]
  BY <1>2, SubSeqProperties
<1>5. s \in Seq(S)
  BY <1>4, SeqMonotonic
<1> HIDE DEF n, d, s, S
<1>6. current_len \in Nat /\ Size \in Nat /\ n \in Nat
  BY <1>2, FifoAssumption DEF TypeInv, TypeOK
<1>7. /\ Contents \in Seq(S) /\ Len(Contents) = current_len
      /\ \A k \in 1 .. current_len : Contents[k] = mem[k - 1]
  BY ContentsSeq DEF S
<1>8. /\ Contents' \in Seq(S) /\ Len(Contents') = current_len + n
      /\ \A k \in 1 .. (current_len + n) : Contents'[k] = mem'[k - 1]
  <2>1. /\ Contents' \in Seq(S) /\ Len(Contents') = current_len'
        /\ \A k \in 1 .. current_len' : Contents'[k] = mem'[k - 1]
    BY ContentsSeqAfter DEF S
  <2> QED
    BY <1>1, <2>1
<1>9. /\ Contents \o s \in Seq(S) /\ Len(Contents \o s) = current_len + n
      /\ \A k \in 1 .. (current_len + n) :
           (Contents \o s)[k] = IF k <= current_len THEN Contents[k] ELSE s[k - current_len]
  BY <1>4, <1>5, <1>7, ConcatProperties
<1>10. ASSUME NEW q \in Cells
       PROVE  /\ q < current_len => mem'[q] = mem[q]
              /\ q >= current_len /\ q < current_len + n => mem'[q] = d[q - current_len + 1]
  <2>1. q \in Int
    BY <1>6 DEF Cells
  <2>2. q < current_len => q \notin current_len .. (current_len + n - 1)
                           /\ q \notin (current_len + n) .. (current_len + n - 1)
    BY <1>6, <2>1
  <2>3. q >= current_len /\ q < current_len + n => q \in current_len .. (current_len + n - 1)
    BY <1>6, <2>1
  <2>4. q \notin (current_len + n) .. (current_len + n - 1)
    BY <1>6, <2>1
  <2>5. mem'[q] = Filled(mem, current_len, d, n, n)[q]
    BY <1>1
  <2>6. q < current_len => mem'[q] = mem[q]
    BY <2>2, <2>5 DEF Filled
  <2>7. q >= current_len /\ q < current_len + n => mem'[q] = d[q - current_len + 1]
    BY <2>3, <2>4, <2>5 DEF Filled
  <2> QED
    BY <2>6, <2>7
<1>11. ASSUME NEW k \in 1 .. (current_len + n)
       PROVE  Contents'[k] = (Contents \o s)[k]
  <2>1. k - 1 \in Cells
    BY <1>2, <1>6 DEF Cells
  <2>2. CASE k <= current_len
    <3>1. k - 1 < current_len
      BY <1>6, <2>2
    <3>2. mem'[k - 1] = mem[k - 1]
      BY <1>10, <2>1, <3>1
    <3> QED
      BY <1>6, <1>7, <1>8, <1>9, <2>2, <3>2
  <2>3. CASE ~(k <= current_len)
    <3>1. k - current_len \in 1 .. n /\ k - 1 - current_len + 1 = k - current_len
          /\ k - 1 >= current_len /\ k - 1 < current_len + n
      BY <1>6, <2>3
    <3>2. mem'[k - 1] = d[k - 1 - current_len + 1]
      BY <1>10, <2>1, <3>1
    <3>3. mem'[k - 1] = s[k - current_len]
      BY <3>1, <3>2, <1>4
    <3> QED
      BY <1>8, <1>9, <2>3, <3>3
  <2> QED
    BY <2>2, <2>3
<1>12. Contents' = Contents \o s
  BY <1>8, <1>9, <1>11, SeqEqual
<1> QED
  BY <1>1, <1>3, <1>12 DEF Fifo!Put, d, s

(* A write that fails leaves what was in the buffer alone. *)
LEMMA PutFails ==
  ASSUME TypeInv, TypeInv', NEW t \in Tasks, WriteCopy(t), moved' = moved, current_len' = current_len
  PROVE  Contents' = Contents
<1> DEFINE d == arg[t].data
           n == Least(Len(d), Room(current_len))
<1>1. n \in 0 .. Len(d) /\ Len(d) \in Nat
  BY WriteCount, LenProperties DEF WriteCopy, At, WritePcs
<1>2. PICK j \in 0 .. n : mem' = Filled(mem, current_len, d, n, j)
  <2>1. n \in 0 .. n /\ 0 .. (n - 1) \subseteq 0 .. n
    BY <1>1
  <2> QED
    BY <2>1 DEF WriteCopy
<1> HIDE DEF n, d
<1>3. current_len \in Nat /\ current_len <= Size /\ Size \in Nat /\ n \in Nat
  BY <1>1, FifoAssumption DEF TypeInv, TypeOK
<1>4. ASSUME NEW q \in Cells, q < current_len
      PROVE  mem'[q] = mem[q]
  <2>1. q \in Int /\ j \in Int
    BY <1>3 DEF Cells
  <2>2. q \notin current_len .. (current_len + j - 1)
        /\ q \notin (current_len + j) .. (current_len + n - 1)
    BY <1>3, <1>4, <2>1
  <2> QED
    BY <1>2, <2>2 DEF Filled
<1>5. ASSUME NEW k \in 1 .. current_len
      PROVE  mem'[k - 1] = mem[k - 1]
  <2>1. k - 1 \in Cells /\ k - 1 < current_len
    BY <1>3 DEF Cells
  <2> QED
    BY <2>1, <1>4
<1> QED
  BY <1>5 DEF Contents

(* A read takes the oldest bytes and moves the rest to the front. *)
LEMMA GetStep ==
  ASSUME TypeInv, TypeInv', NEW t \in Tasks, ReadCopy(t),
         ~(moved' = moved /\ mem' = mem /\ current_len' = current_len)
  PROVE  Fifo!Get(arg[t].count)
<1> DEFINE n == Least(arg[t].count, current_len)
           S == Bytes \cup {Zero}
           taken == [k \in 1 .. n |-> mem[k - 1]]
<1>1. /\ moved' = [op |-> "read", data |-> taken]
      /\ mem' = Shift(mem, n, current_len)
      /\ current_len' = current_len - n
  BY DEF ReadCopy
<1>2. n \in 0 .. current_len
  BY ReadCount DEF ReadCopy, At, ReadPcs
<1>3. n = Fifo!Least(arg[t].count, Len(Contents))
  BY ContentsSeq DEF Least, Fifo!Least
<1> HIDE DEF n, S
<1>4. current_len \in Nat /\ current_len <= Size /\ Size \in Nat /\ n \in Nat /\ n <= current_len
  BY <1>2, FifoAssumption DEF TypeInv, TypeOK
<1>5. /\ Contents \in Seq(S) /\ Len(Contents) = current_len
      /\ \A k \in 1 .. current_len : Contents[k] = mem[k - 1]
  BY ContentsSeq DEF S
<1>6. taken = SubSeq(Contents, 1, n)
  <2>1. n \in 0 .. Size
    BY <1>4
  <2>2. taken \in Seq(S) /\ Len(taken) = n /\ \A k \in 1 .. n : taken[k] = mem[k - 1]
    BY <2>1, PrefixSeq DEF TypeInv, TypeOK, S
  <2> HIDE DEF taken
  <2>3. /\ SubSeq(Contents, 1, n) \in Seq(S) /\ Len(SubSeq(Contents, 1, n)) = n
        /\ \A k \in 1 .. n : SubSeq(Contents, 1, n)[k] = Contents[k]
    BY <1>4, <1>5, SubSeqProperties
  <2>4. \A k \in 1 .. n : taken[k] = SubSeq(Contents, 1, n)[k]
    BY <1>4, <1>5, <2>2, <2>3
  <2> QED
    BY <2>2, <2>3, <2>4, SeqEqual
<1> HIDE DEF taken
<1>7. Contents' = SubSeq(Contents, n + 1, Len(Contents))
  <2> DEFINE rest == SubSeq(Contents, n + 1, Len(Contents))
  <2>1. /\ Contents' \in Seq(S) /\ Len(Contents') = current_len - n
        /\ \A k \in 1 .. (current_len - n) : Contents'[k] = mem'[k - 1]
    <3>1. /\ Contents' \in Seq(S) /\ Len(Contents') = current_len'
          /\ \A k \in 1 .. current_len' : Contents'[k] = mem'[k - 1]
      BY ContentsSeqAfter DEF S
    <3> QED
      BY <1>1, <3>1
  <2>2. /\ rest \in Seq(S) /\ Len(rest) = current_len - n
        /\ \A k \in 1 .. (current_len - n) : rest[k] = Contents[n + k]
    BY <1>4, <1>5, SubSeqProperties
  <2> HIDE DEF rest
  <2>3. ASSUME NEW k \in 1 .. (current_len - n)
        PROVE  Contents'[k] = rest[k]
    <3>1. k - 1 \in Cells /\ k - 1 < current_len - n
      BY <1>4 DEF Cells
    <3>2. mem'[k - 1] = mem[k - 1 + n]
      BY <1>1, <3>1 DEF Shift
    <3>3. n + k \in 1 .. current_len /\ n + k - 1 = k - 1 + n
      BY <1>4
    <3>4. \A q \in 1 .. current_len : Contents[q] = mem[q - 1]
      BY <1>5
    <3>5. Contents[n + k] = mem[n + k - 1]
      BY <1>4, <3>3, <3>4
    <3> QED
      BY <2>1, <2>2, <3>2, <3>3, <3>5
  <2>4. Contents' = rest
    BY <2>1, <2>2, <2>3, SeqEqual
  <2> QED
    BY <2>4 DEF rest
<1> QED
  BY <1>1, <1>3, <1>6, <1>7 DEF Fifo!Get

(* FIFO_CLEAR and loading the module empty the buffer. *)
LEMMA LoseStep ==
  ASSUME NEW op, current_len' = 0, moved' = [op |-> op, data |-> <<>>]
  PROVE  Fifo!Lose(op)
BY DEF Contents, Fifo!Lose

(* Every step of the device is a step of the queue, or none. *)
LEMMA FifoStep ==
  ASSUME TypeInv, TypeInv', [Next]_vars
  PROVE  [Fifo!Next]_(Fifo!vars)
<1>1. CASE LoadStart
  BY <1>1, LoseStep DEF LoadStart, Fifo!Next, Fifo!Reset
<1>2. CASE LoadEnd \/ Unload \/ UNCHANGED vars
  BY <1>2 DEF LoadEnd, Unload, vars, Fifo!vars, Contents
<1>3. ASSUME NEW t \in Tasks, Quiet(t)
      PROVE  UNCHANGED Fifo!vars
  BY <1>3, BufferStays DEF Fifo!vars, Contents
<1>4. ASSUME NEW t \in Tasks, ReadCopy(t)
      PROVE  [Fifo!Next]_(Fifo!vars)
  <2>1. CASE moved' = moved /\ mem' = mem /\ current_len' = current_len
    BY <2>1 DEF Fifo!vars, Contents
  <2>2. CASE ~(moved' = moved /\ mem' = mem /\ current_len' = current_len)
    <3>1. arg[t].count \in Counts
      BY <1>4 DEF ReadCopy, At, ReadPcs, TypeInv, ArgsInv
    <3> QED
      BY <1>4, <2>2, <3>1, GetStep DEF Fifo!Next
  <2> QED
    BY <2>1, <2>2
<1>5. ASSUME NEW t \in Tasks, WriteCopy(t)
      PROVE  [Fifo!Next]_(Fifo!vars)
  <2>1. CASE moved' = moved /\ current_len' = current_len
    BY <1>5, <2>1, PutFails DEF Fifo!vars
  <2>2. CASE ~(moved' = moved /\ current_len' = current_len)
    <3>1. arg[t].data \in Datas
      BY <1>5 DEF WriteCopy, At, WritePcs, TypeInv, ArgsInv
    <3> QED
      BY <1>5, <2>2, <3>1, PutStep DEF Fifo!Next
  <2> QED
    BY <2>1, <2>2
<1>6. ASSUME NEW t \in Tasks, Clear(t)
      PROVE  Fifo!Next
  BY <1>6, LoseStep DEF Clear, Fifo!Next, Fifo!Clear
<1> QED
  BY <1>1, <1>2, <1>3, <1>4, <1>5, <1>6, NextKinds

(* globalfifo_read, globalfifo_write: whatever reads, writes, failing copies
   and signals come together, the device is a bounded queue: bytes come out
   once, in the order they went in, and no step but FIFO_CLEAR and a reload
   loses any. *)
THEOREM Refinement == Spec => ImplementsFifo
<1>1. Init => Fifo!Init
  BY DEF Init, Fifo!Init, Contents
<1>2. TypeInv /\ TypeInv' /\ [Next]_vars => [Fifo!Next]_(Fifo!vars)
  BY FifoStep
<1> QED
  BY <1>1, <1>2, FifoInvariant, PTL DEF Spec, ImplementsFifo, Fifo!Spec
=============================================================================
