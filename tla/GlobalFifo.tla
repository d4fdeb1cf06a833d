----------------------------- MODULE GlobalFifo -----------------------------
(***************************************************************************)
(* The globalfifo character device: a buffer of Size bytes under one       *)
(* semaphore, with a queue of waiting readers and one of waiting writers.  *)
(*                                                                         *)
(* A task is at a point named by pc.  down() is a step of its own; what is *)
(* done under the semaphore up to the next up() or schedule() is a step.   *)
(*                                                                         *)
(* A queue is protected by its own spinlock.  A reader takes itself off    *)
(* r_wait under the lock of w_wait, so that its unlinking (pc "r_rm") does *)
(* not exclude other uses of r_wait: the two together may leave any list,  *)
(* and oops stands for that, and for a kernel that stopped.                *)
(***************************************************************************)
EXTENDS Naturals, Sequences

CONSTANTS
  Tasks,    \* each has at most one open file
  Size,     \* GLOBALFIFO_SIZE
  Bytes,    \* what is written
  Zero,     \* what memset writes
  Nobody,   \* no holder of the semaphore
  Counts,   \* lengths of reads
  Datas     \* what a write may bring

ASSUME FifoAssumption ==
  /\ Size \in Nat \ {0}
  /\ Counts \subseteq Nat
  /\ Datas \subseteq Seq(Bytes)
  /\ Nobody \notin Tasks

VARIABLES
  dev,          \* how far the module is loaded
  mem,          \* dev->mem
  current_len,  \* dev->current_len
  sem,          \* who holds dev->sem
  r_wait,       \* who is on each of the two queues
  w_wait,
  asleep,       \* who is in schedule() and not woken
  oops,         \* a list or the kernel is broken: nothing happens any more
  pc,           \* where a task is
  arg,          \* the arguments of its call
  moved         \* the last bytes that went to or came from a caller, or were cleared

vars == <<dev, mem, current_len, sem, r_wait, w_wait, asleep, oops, pc, arg, moved>>

Cells == 0 .. (Size - 1)

ReadPcs  == {"r_down", "r_in", "r_copy", "r_sleep", "r_again", "r_out", "r_rm"}
WritePcs == {"w_down", "w_in", "w_copy", "w_sleep", "w_again", "w_out"}
PollPcs  == {"p_down", "p_in", "p_sleep", "p_out"}
ClearPcs == {"c_down", "c_in"}
Pcs      == {"closed", "idle"} \cup ReadPcs \cup WritePcs \cup PollPcs \cup ClearPcs

Events == {"in", "out"}

Args  == [count : Counts \cup {0}, data : Datas \cup {<<>>}, nonblock : BOOLEAN, want : SUBSET Events]
NoArg == [count |-> 0, data |-> <<>>, nonblock |-> FALSE, want |-> {}]

(* An operator whose name says what is wrong with it is the faulty version of
   the one that follows, and is used in no specification. *)

(* The free part of the buffer *)
RoomOneTooMany(len) == Size - len + 1

Room(len) == Size - len

(* count cut down to what is there, or to what there is room for *)
Least(m, n) == IF m <= n THEN m ELSE n

(* What the loader leaves: memset of the whole structure. *)
Zeroed == [k \in Cells |-> Zero]

(* memcpy(mem, mem + n, len - n).  The two overlap; ten bytes are copied
   from the front or through registers, so they arrive whole. *)
ShiftForgotten(m, n, len) == m

Shift(m, n, len) == [k \in Cells |-> IF k < len - n THEN m[k + n] ELSE m[k]]

(* copy_from_user(mem + at, d, n), after j bytes of which it may fail: what
   it could not copy it clears. *)
Filled(m, at, d, n, j) ==
  [k \in Cells |-> CASE k \in at .. (at + j - 1) -> d[k - at + 1]
                     [] k \in (at + j) .. (at + n - 1) -> Zero
                     [] OTHER -> m[k]]

Goto(t, p) == pc' = [pc EXCEPT ![t] = p]

Call(t, p, a) ==
  /\ pc[t] = "idle" /\ ~oops
  /\ Goto(t, p)
  /\ arg' = [arg EXCEPT ![t] = a]
  /\ UNCHANGED <<dev, mem, current_len, sem, r_wait, w_wait, asleep, oops, moved>>

Return(t) == Goto(t, "idle") /\ arg' = [arg EXCEPT ![t] = NoArg]

At(t, p) == pc[t] = p /\ ~oops

Up == sem' = Nobody

(* wake_up_interruptible *)
WakeNobody == UNCHANGED asleep

WakeReaders == asleep' = asleep \ r_wait

WakeWritersWrongQueue == asleep' = asleep \ r_wait

WakeWriters == asleep' = asleep \ w_wait

(* The lock of w_wait is free. *)
WLockFree == \A u \in Tasks : pc[u] # "r_rm"

(* r_wait is used, maybe while a reader unlinks itself from it. *)
UsesRWait == oops' = \E u \in Tasks : pc[u] = "r_rm"

-----------------------------------------------------------------------------
Init ==
  /\ dev = "absent"
  /\ mem = Zeroed /\ current_len = 0
  /\ sem = Nobody
  /\ r_wait = {} /\ w_wait = {} /\ asleep = {}
  /\ oops = FALSE
  /\ pc = [t \in Tasks |-> "closed"]
  /\ arg = [t \in Tasks |-> NoArg]
  /\ moved = [op |-> "none", data |-> <<>>]

(* globalfifo_init up to globalfifo_setup_cdev.  When cdev_add fails that is
   printed, and there is no way to open the device. *)
LoadStart ==
  /\ dev = "absent" /\ ~oops
  /\ dev' \in {"added", "deaf"}
  /\ mem' = Zeroed /\ current_len' = 0
  /\ moved' = [op |-> "load", data |-> <<>>]
  /\ UNCHANGED <<sem, r_wait, w_wait, asleep, oops, pc, arg>>

(* sema_init and init_waitqueue_head, after the device was made known. *)
LoadEnd ==
  /\ dev = "added" /\ ~oops
  /\ dev' = "ready"
  /\ UNCHANGED <<mem, current_len, sem, r_wait, w_wait, asleep, oops, pc, arg, moved>>

(* globalfifo_exit; .owner keeps the module while a file is open. *)
Unload ==
  /\ dev \in {"ready", "deaf"} /\ ~oops
  /\ \A t \in Tasks : pc[t] = "closed"
  /\ dev' = "absent"
  /\ UNCHANGED <<mem, current_len, sem, r_wait, w_wait, asleep, oops, pc, arg, moved>>

Open(t) ==
  /\ At(t, "closed")
  /\ dev \in {"added", "ready"}
  /\ Goto(t, "idle")
  /\ UNCHANGED <<dev, mem, current_len, sem, r_wait, w_wait, asleep, oops, arg, moved>>

Release(t) ==
  /\ At(t, "idle")
  /\ Goto(t, "closed")
  /\ UNCHANGED <<dev, mem, current_len, sem, r_wait, w_wait, asleep, oops, arg, moved>>

-----------------------------------------------------------------------------
(* Where each down() leads. *)
Downs == [r_down |-> "r_in", r_again |-> "r_copy", w_down |-> "w_in", w_again |-> "w_copy",
          c_down |-> "c_in", p_down |-> "p_in"]

(* The list of a semaphore that is still all zeros leads nowhere. *)
Down(t) ==
  /\ pc[t] \in DOMAIN Downs /\ ~oops
  /\ \/ /\ dev = "added"
        /\ oops' = TRUE
        /\ UNCHANGED <<sem, pc>>
     \/ /\ dev = "ready" /\ sem = Nobody
        /\ sem' = t
        /\ Goto(t, Downs[pc[t]])
        /\ UNCHANGED oops
  /\ UNCHANGED <<dev, mem, current_len, r_wait, w_wait, asleep, arg, moved>>

(* globalfifo_read *)
ReadCall(t) ==
  \E n \in Counts, b \in BOOLEAN :
    Call(t, "r_down", [NoArg EXCEPT !.count = n, !.nonblock = b])

(* An empty buffer: -EAGAIN, or to sleep; the task's state is set before the
   semaphore is given up, so no waking is lost. *)
ReadIn(t) ==
  /\ At(t, "r_in")
  /\ r_wait' = r_wait \cup {t} /\ UsesRWait
  /\ \/ current_len > 0 /\ Goto(t, "r_copy") /\ UNCHANGED <<sem, asleep>>
     \/ current_len = 0 /\ arg[t].nonblock /\ Up /\ Goto(t, "r_out") /\ UNCHANGED asleep
     \/ /\ current_len = 0 /\ ~arg[t].nonblock
        /\ Up /\ asleep' = asleep \cup {t} /\ Goto(t, "r_sleep")
  /\ UNCHANGED <<dev, mem, current_len, w_wait, arg, moved>>

ReadWoken(t) ==
  /\ At(t, "r_sleep") /\ t \notin asleep
  /\ Goto(t, "r_again")
  /\ UNCHANGED <<dev, mem, current_len, sem, r_wait, w_wait, asleep, oops, arg, moved>>

(* -ERESTARTSYS, whether the signal woke the task or came when it was woken. *)
ReadSignalled(t) ==
  /\ At(t, "r_sleep")
  /\ asleep' = asleep \ {t}
  /\ Goto(t, "r_out")
  /\ UNCHANGED <<dev, mem, current_len, sem, r_wait, w_wait, oops, arg, moved>>

(* Whoever comes from the sleep does not look again whether there is data. *)
ReadCopy(t) ==
  LET n == Least(arg[t].count, current_len) IN
  /\ At(t, "r_copy")
  /\ \/ /\ WLockFree
        /\ moved' = [op |-> "read", data |-> [k \in 1 .. n |-> mem[k - 1]]]
        /\ mem' = Shift(mem, n, current_len)
        /\ current_len' = current_len - n
        /\ WakeWriters
     \/ n > 0 /\ UNCHANGED <<moved, mem, current_len, asleep>>
  /\ Up
  /\ Goto(t, "r_out")
  /\ UNCHANGED <<dev, r_wait, w_wait, oops, arg>>

(* remove_wait_queue(&dev->w_wait, &wait): of an entry that is on r_wait *)
ReadOut(t) ==
  /\ At(t, "r_out")
  /\ WLockFree
  /\ Goto(t, "r_rm")
  /\ UNCHANGED <<dev, mem, current_len, sem, r_wait, w_wait, asleep, oops, arg, moved>>

ReadRemoved(t) ==
  /\ At(t, "r_rm")
  /\ r_wait' = r_wait \ {t}
  /\ Return(t)
  /\ UNCHANGED <<dev, mem, current_len, sem, w_wait, asleep, oops, moved>>

-----------------------------------------------------------------------------
(* globalfifo_write *)
WriteCall(t) ==
  \E d \in Datas, b \in BOOLEAN :
    Call(t, "w_down", [NoArg EXCEPT !.data = d, !.nonblock = b])

WriteIn(t) ==
  /\ At(t, "w_in")
  /\ WLockFree
  /\ w_wait' = w_wait \cup {t}
  /\ \/ current_len # Size /\ Goto(t, "w_copy") /\ UNCHANGED <<sem, asleep>>
     \/ current_len = Size /\ arg[t].nonblock /\ Up /\ Goto(t, "w_out") /\ UNCHANGED asleep
     \/ /\ current_len = Size /\ ~arg[t].nonblock
        /\ Up /\ asleep' = asleep \cup {t} /\ Goto(t, "w_sleep")
  /\ UNCHANGED <<dev, mem, current_len, r_wait, oops, arg, moved>>

WriteWoken(t) ==
  /\ At(t, "w_sleep") /\ t \notin asleep
  /\ Goto(t, "w_again")
  /\ UNCHANGED <<dev, mem, current_len, sem, r_wait, w_wait, asleep, oops, arg, moved>>

WriteSignalledReturns(t) ==
  /\ At(t, "w_sleep")
  /\ asleep' = asleep \ {t}
  /\ Return(t)
  /\ UNCHANGED <<dev, mem, current_len, sem, r_wait, w_wait, oops, moved>>

WriteSignalled(t) ==
  /\ At(t, "w_sleep")
  /\ asleep' = asleep \ {t}
  /\ Goto(t, "w_out")
  /\ UNCHANGED <<dev, mem, current_len, sem, r_wait, w_wait, oops, arg, moved>>

(* A copy that fails may have changed what lies behind current_len. *)
WriteCopy(t) ==
  LET d == arg[t].data
      n == Least(Len(d), Room(current_len))
  IN
  /\ At(t, "w_copy")
  /\ \/ /\ mem' = Filled(mem, current_len, d, n, n)
        /\ current_len' = current_len + n
        /\ moved' = [op |-> "write", data |-> SubSeq(d, 1, n)]
        /\ WakeReaders /\ UsesRWait
     \/ /\ \E j \in 0 .. (n - 1) : mem' = Filled(mem, current_len, d, n, j)
        /\ UNCHANGED <<current_len, moved, asleep, oops>>
  /\ Up
  /\ Goto(t, "w_out")
  /\ UNCHANGED <<dev, r_wait, w_wait, arg>>

WriteOut(t) ==
  /\ At(t, "w_out")
  /\ WLockFree
  /\ w_wait' = w_wait \ {t}
  /\ Return(t)
  /\ UNCHANGED <<dev, mem, current_len, sem, r_wait, asleep, oops, moved>>

-----------------------------------------------------------------------------
(* globalfifo_ioctl: FIFO_CLEAR wakes nobody.  Other commands do nothing. *)
ClearCall(t) == Call(t, "c_down", NoArg)

Clear(t) ==
  /\ At(t, "c_in")
  /\ mem' = Zeroed /\ current_len' = 0
  /\ moved' = [op |-> "clear", data |-> <<>>]
  /\ Up
  /\ Return(t)
  /\ UNCHANGED <<dev, r_wait, w_wait, asleep, oops>>

-----------------------------------------------------------------------------
(* select(2): the kernel asks globalfifo_poll, which puts the task on both
   queues the first time; it sleeps while nothing it wants is there, and asks
   again when it is woken. *)
PollCall(t) ==
  \E e \in SUBSET Events \ {{}} : Call(t, "p_down", [NoArg EXCEPT !.want = e])

Mask ==
  {e \in Events : \/ e = "in" /\ current_len # 0
                  \/ e = "out" /\ current_len # Size}

(* The task is on both queues: were poll to wake one, it would never sleep. *)
PollWakesItself(t) == Goto(t, "p_sleep") /\ UNCHANGED asleep

PollSleeps(t) == Goto(t, "p_sleep") /\ asleep' = asleep \cup {t}

Poll(t) ==
  /\ At(t, "p_in")
  /\ \/ t \in r_wait /\ UNCHANGED <<r_wait, w_wait, oops>>
     \/ /\ t \notin r_wait /\ WLockFree
        /\ UsesRWait
        /\ r_wait' = r_wait \cup {t} /\ w_wait' = w_wait \cup {t}
  /\ \/ Mask \cap arg[t].want # {} /\ Goto(t, "p_out") /\ UNCHANGED asleep
     \/ Mask \cap arg[t].want = {} /\ PollSleeps(t)
  /\ Up
  /\ UNCHANGED <<dev, mem, current_len, arg, moved>>

PollWoken(t) ==
  /\ At(t, "p_sleep") /\ t \notin asleep
  /\ Goto(t, "p_down")
  /\ UNCHANGED <<dev, mem, current_len, sem, r_wait, w_wait, asleep, oops, arg, moved>>

(* The timeout of select, or a signal. *)
PollTimeout(t) ==
  /\ At(t, "p_sleep")
  /\ asleep' = asleep \ {t}
  /\ Goto(t, "p_out")
  /\ UNCHANGED <<dev, mem, current_len, sem, r_wait, w_wait, oops, arg, moved>>

PollOut(t) ==
  /\ At(t, "p_out")
  /\ WLockFree /\ UsesRWait
  /\ r_wait' = r_wait \ {t} /\ w_wait' = w_wait \ {t}
  /\ Return(t)
  /\ UNCHANGED <<dev, mem, current_len, sem, asleep, moved>>

-----------------------------------------------------------------------------
Step(t) ==
  \/ Down(t)
  \/ ReadIn(t) \/ ReadWoken(t) \/ ReadCopy(t) \/ ReadOut(t) \/ ReadRemoved(t)
  \/ WriteIn(t) \/ WriteWoken(t) \/ WriteCopy(t) \/ WriteOut(t)
  \/ Clear(t)
  \/ Poll(t) \/ PollWoken(t) \/ PollOut(t)

Start(t) == Open(t) \/ Release(t) \/ ReadCall(t) \/ WriteCall(t) \/ ClearCall(t) \/ PollCall(t)

Interrupt(t) == ReadSignalled(t) \/ WriteSignalled(t) \/ PollTimeout(t)

Stopped == oops /\ UNCHANGED vars

Next ==
  \/ LoadStart \/ LoadEnd \/ Unload \/ Stopped
  \/ \E t \in Tasks : Start(t) \/ Step(t) \/ Interrupt(t)

Spec == Init /\ [][Next]_vars

(* A runnable task is scheduled, and a semaphore or a spinlock goes to its
   waiters in turn; insmod comes to its end. *)
FairSpec == Spec /\ WF_vars(LoadEnd) /\ \A t \in Tasks : SF_vars(Step(t))
-----------------------------------------------------------------------------
(* Every variable keeps its type: current_len never exceeds the buffer. *)
TypeOK ==
  /\ dev \in {"absent", "added", "deaf", "ready"}
  /\ mem \in [Cells -> Bytes \cup {Zero}]
  /\ current_len \in 0 .. Size
  /\ sem \in Tasks \cup {Nobody}
  /\ r_wait \subseteq Tasks /\ w_wait \subseteq Tasks /\ asleep \subseteq Tasks
  /\ oops \in BOOLEAN
  /\ pc \in [Tasks -> Pcs]
  /\ arg \in [Tasks -> Args]

(* The bytes in the buffer, oldest first. *)
Contents == [k \in 1 .. current_len |-> mem[k - 1]]

Fifo == INSTANCE BoundedFifo WITH buf <- Contents

(* globalfifo_read, globalfifo_write: whatever reads, writes, failing copies
   and signals come together, the device is a bounded queue: bytes come out
   once, in the order they went in, and no step but FIFO_CLEAR and a reload
   loses any. *)
ImplementsFifo == Fifo!Spec

(* wake_up_interruptible(&dev->r_wait): nobody sleeps for data that is there:
   neither a reader nor a select that waits for input. *)
ReadersWoken ==
  \A t \in asleep :
    ~oops /\ (pc[t] = "r_sleep" \/ "in" \in arg[t].want) => current_len = 0

(* wake_up_interruptible(&dev->w_wait): a read that makes room leaves nobody
   asleep who waits for room.  FIFO_CLEAR makes room, too, and wakes nobody:
   that a writer sleeps only while the buffer is full is no invariant. *)
RoomWakes ==
  [][\A t \in Tasks :
       pc[t] = "r_copy" /\ pc'[t] = "r_out" /\ current_len' < current_len =>
         \A u \in asleep' : pc[u] # "w_sleep" /\ "out" \notin arg[u].want]_vars

(* A queue entry lives on the stack of its task: on every way out of a call,
   signals included, the entry is off both queues before the call returns. *)
QueuesClean ==
  \A t \in Tasks : ~oops /\ pc[t] \in {"idle", "closed"} => t \notin r_wait \cup w_wait

(* A call into the driver returns or goes to sleep: no way out of it keeps the
   semaphore from the others. *)
CallsEnd ==
  \A t \in Tasks : pc[t] \notin {"idle", "closed"} ~> pc[t] = "idle" \/ t \in asleep \/ oops
=============================================================================
