------------------------- MODULE SimplefsFileProofs -------------------------
(***************************************************************************)
(* What SimplefsFile guarantees for any number of tasks, any size of the   *)
(* block and any lengths, with interrupted and failing calls and any       *)
(* number of power cuts.                                                   *)
(***************************************************************************)
EXTENDS SimplefsFile, TLAPS

(* Types, with what makes them inductive: a call in progress ends within the
   bound on positions, and was allowed by the way the file was opened. *)
Reading == {"r_size", "r_copy"}

Writing == {"w_copy", "w_sync", "w_size", "w_save"}

TypeInv ==
  /\ TypeOK
  /\ \A t \in Tasks : /\ pos[t] + arg[t] <= MaxPos
                      /\ pc[t] \in Reading => mode[t] \in {"r", "rw"}
                      /\ pc[t] \in Writing => mode[t] \in {"w", "rw"}

(* The bytes below n have been written to the file, and are on the disk. *)
Solid(n) == \A i \in Span(0, n) : blockDisk[i] # "junk"

(* What is written on the disk is written in the buffer, and what a task has
   copied is where its next step expects it. *)
DataInv ==
  /\ \A i \in Cells : /\ blockDisk[i] # "junk" => block[i] # "junk"
                      /\ blockDisk[i] = "new" => block[i] = "new"
  /\ \A t \in Tasks : \A i \in Span(pos[t], pos[t] + arg[t]) :
       /\ pc[t] = "w_sync" => block[i] = "new"
       /\ pc[t] \in {"w_size", "w_save"} => blockDisk[i] = "new"
  /\ \A i \in acked : blockDisk[i] = "new"

(* Sizes, the positions of writers and the counts of readers do not reach
   beyond what is written. *)
SolidInv ==
  overshot \/ /\ Solid(file_size) /\ Solid(recDisk)
              /\ \A t \in Tasks : /\ mode[t] \in {"w", "rw"} => Solid(pos[t])
                                  /\ pc[t] = "r_copy" => Solid(arg[t])

(* simplefs_inodes_mgmt_lock excludes, and the size on disk differs from that
   in memory only while it is held or after somebody was interrupted. *)
SizeInv ==
  /\ \A t \in Tasks : pc[t] = "w_save" => mgmt = t
  /\ SizeSaved

-----------------------------------------------------------------------------
(* The file is there at first, as long as its size says. *)
LEMMA FileInit == Init => TypeInv /\ DataInv /\ SolidInv /\ SizeInv
<1> SUFFICES ASSUME Init PROVE TypeInv /\ DataInv /\ SolidInv /\ SizeInv
  OBVIOUS
<1>1. TypeInv
  <2>1. block \in [Cells -> Bytes] /\ blockDisk \in [Cells -> Bytes]
    BY DEF Init, Bytes
  <2>2. file_size \in 0 .. MaxPos /\ recDisk \in 0 .. MaxPos /\ pos \in [Tasks -> 0 .. MaxPos]
    BY FileAssumption DEF Init
  <2>3. pc \in [Tasks -> Pcs] /\ arg \in [Tasks -> Nat] /\ mode \in [Tasks -> Modes]
    BY DEF Init, Pcs
  <2>4. \A t \in Tasks : pos[t] = 0 /\ arg[t] = 0 /\ pc[t] = "idle"
    BY DEF Init
  <2>5. \A t \in Tasks : pos[t] + arg[t] <= MaxPos
    <3>1. 0 + 0 <= MaxPos
      BY FileAssumption
    <3> QED
      BY <2>4, <3>1
  <2>6. \A t \in Tasks : pc[t] \notin Reading \cup Writing
    BY <2>4 DEF Reading, Writing
  <2> QED
    BY <2>1, <2>2, <2>3, <2>5, <2>6 DEF Init, TypeInv, TypeOK
<1>2. DataInv
  BY DEF Init, DataInv
<1>3. SolidInv
  BY FileAssumption DEF Init, SolidInv, Solid, Span, Cells
<1>4. SizeInv
  BY DEF Init, SizeInv, SizeSaved
<1> QED
  BY <1>1, <1>2, <1>3, <1>4

(* The kinds of steps: calls and reads, writes, and the kernel's own. *)
ReadStep(t) == Open(t) \/ ReadSize(t) \/ ReadCopy(t) \/ \E n \in Lens : ReadCall(t, n)

WriteStep(t) ==
  \/ \E n \in Lens : WriteCall(t, n)
  \/ WriteCopy(t) \/ WriteSync(t)
  \/ WriteSize(t) \/ WriteSizeIntr(t) \/ WriteSave(t) \/ WriteSaveIntr(t)

(* Every step is of one of these kinds. *)
LEMMA NextKinds ==
  ASSUME [Next]_vars
  PROVE  \/ Reclaim \/ Crash \/ UNCHANGED vars
         \/ \E t \in Tasks : ReadStep(t) \/ WriteStep(t)
BY DEF Next, ReadStep, WriteStep

-----------------------------------------------------------------------------
(* Types. *)
LEMMA TypeRead ==
  ASSUME TypeInv, NEW t \in Tasks, ReadStep(t)
  PROVE  TypeInv'
<1> USE FileAssumption DEF TypeInv, TypeOK, Pcs, Reading, Writing, Goto, Return, file, hist
<1>1. CASE Open(t)
  BY <1>1 DEF Open
<1>2. CASE ReadSize(t)
  <2>1. ReadLength(file_size, arg[t]) \in Nat /\ ReadLength(file_size, arg[t]) <= arg[t]
    BY DEF ReadLength, Least
  <2> QED
    BY <1>2, <2>1 DEF ReadSize
<1>3. CASE ReadCopy(t)
  BY <1>3 DEF ReadCopy, Advanced
<1>4. CASE \E n \in Lens : ReadCall(t, n)
  BY <1>4 DEF ReadCall
<1> QED
  BY <1>1, <1>2, <1>3, <1>4 DEF ReadStep

(* A write keeps the types. *)
LEMMA TypeWrite ==
  ASSUME TypeInv, NEW t \in Tasks, WriteStep(t)
  PROVE  TypeInv'
<1> USE FileAssumption DEF TypeInv, TypeOK, Pcs, Reading, Writing, Goto, Return, file, hist
<1>1. CASE \E n \in Lens : WriteCall(t, n)
  BY <1>1 DEF WriteCall
<1>2. CASE WriteCopy(t)
  BY <1>2 DEF WriteCopy, Bytes
<1>3. CASE WriteSync(t)
  BY <1>3 DEF WriteSync, SyncBlock
<1>4. CASE WriteSize(t)
  BY <1>4 DEF WriteSize, NewSize
<1>5. CASE WriteSizeIntr(t)
  BY <1>5 DEF WriteSizeIntr
<1>6. CASE WriteSave(t)
  BY <1>6 DEF WriteSave, Save, Span
<1>7. CASE WriteSaveIntr(t)
  BY <1>7 DEF WriteSaveIntr
<1> QED
  BY <1>1, <1>2, <1>3, <1>4, <1>5, <1>6, <1>7 DEF WriteStep

(* Every step keeps the types. *)
LEMMA TypeNext == TypeInv /\ [Next]_vars => TypeInv'
<1> SUFFICES ASSUME TypeInv, [Next]_vars PROVE TypeInv'
  OBVIOUS
<1>1. CASE Reclaim
  BY <1>1 DEF Reclaim, TypeInv, TypeOK, file, hist
<1>2. CASE Crash
  BY <1>2, FileAssumption DEF Crash, TypeInv, TypeOK, Pcs, Reading, Writing, hist
<1>3. CASE UNCHANGED vars
  BY <1>3 DEF vars, file, hist, TypeInv, TypeOK
<1> QED
  BY <1>1, <1>2, <1>3, TypeRead, TypeWrite, NextKinds

-----------------------------------------------------------------------------
(* The bytes.  What is written on the disk stays written: a block is synced
   from a buffer that has it, too. *)
LEMMA DiskGrows ==
  ASSUME TypeInv, DataInv, [Next]_vars
  PROVE  \A i \in Cells : /\ blockDisk[i] # "junk" => blockDisk'[i] # "junk"
                          /\ blockDisk[i] = "new" => blockDisk'[i] = "new"
<1>1. blockDisk' \in {blockDisk, block}
  <2>1. ASSUME NEW t \in Tasks, ReadStep(t) \/ WriteStep(t)
        PROVE  blockDisk' \in {blockDisk, block}
    BY <2>1 DEF ReadStep, WriteStep, Open, ReadSize, ReadCopy, ReadCall, WriteCall, WriteCopy,
       WriteSync, SyncBlock, WriteSize, WriteSizeIntr, WriteSave, WriteSaveIntr, file
  <2> QED
    BY <2>1, NextKinds DEF Reclaim, Crash, vars, file
<1> QED
  BY <1>1 DEF DataInv

(* A read, a call and an open leave the bytes alone. *)
LEMMA DataRead ==
  ASSUME TypeInv, DataInv, NEW t \in Tasks, ReadStep(t)
  PROVE  DataInv'
<1>1. UNCHANGED <<block, blockDisk, acked>>
  BY DEF ReadStep, Open, ReadSize, ReadCopy, ReadCall, file, hist
<1>2. /\ pc'[t] \notin Writing
      /\ \A u \in Tasks \ {t} : pc'[u] = pc[u] /\ pos'[u] = pos[u] /\ arg'[u] = arg[u]
  BY DEF ReadStep, Open, ReadSize, ReadCopy, ReadCall, Goto, Return, Advanced, TypeInv, TypeOK, Writing
<1> QED
  BY <1>1, <1>2 DEF DataInv, Writing

(* The steps of a write put its bytes into the buffer and then on the disk. *)
LEMMA DataWrite ==
  ASSUME TypeInv, DataInv, NEW t \in Tasks, WriteStep(t)
  PROVE  DataInv'
<1> USE DEF Goto, Return, file, hist
<1>1. CASE WriteCopy(t)
  <2>1. /\ UNCHANGED <<blockDisk, acked, pos>>
        /\ \A i \in Cells : block'[i] \in {block[i], "new"}
        /\ pc'[t] \in {"idle", "w_sync"}
        /\ pc'[t] = "w_sync" =>
             arg' = arg /\ \A i \in Span(pos[t], pos[t] + arg[t]) : block'[i] = "new"
        /\ \A u \in Tasks \ {t} : pc'[u] = pc[u] /\ arg'[u] = arg[u]
    BY <1>1 DEF WriteCopy, TypeInv, TypeOK, Span
  <2> QED
    BY <2>1 DEF DataInv, Span
<1>2. CASE WriteSync(t)
  BY <1>2 DEF WriteSync, SyncBlock, DataInv, TypeInv, TypeOK, Span
<1>3. CASE WriteSave(t)
  BY <1>3 DEF WriteSave, DataInv, TypeInv, TypeOK
<1>4. CASE \/ WriteSize(t) \/ WriteSizeIntr(t) \/ WriteSaveIntr(t)
           \/ \E n \in Lens : WriteCall(t, n)
  <2>1. /\ UNCHANGED <<block, blockDisk, acked, pos>>
        /\ \A u \in Tasks \ {t} : pc'[u] = pc[u] /\ arg'[u] = arg[u]
        /\ pc'[t] \in {"idle", "w_copy"} \/ (pc'[t] = "w_save" /\ pc[t] = "w_size" /\ arg' = arg)
    BY <1>4 DEF WriteSize, WriteSizeIntr, WriteSaveIntr, WriteCall, TypeInv, TypeOK
  <2> QED
    BY <2>1 DEF DataInv
<1> QED
  BY <1>1, <1>2, <1>3, <1>4 DEF WriteStep

(* Every step keeps DataInv. *)
LEMMA DataNext == TypeInv /\ DataInv /\ [Next]_vars => DataInv'
<1> SUFFICES ASSUME TypeInv, DataInv, [Next]_vars PROVE DataInv'
  OBVIOUS
<1>1. CASE Reclaim
  BY <1>1 DEF Reclaim, DataInv, hist
<1>2. CASE Crash
  BY <1>2 DEF Crash, DataInv
<1>3. CASE UNCHANGED vars
  BY <1>3 DEF vars, file, hist, DataInv
<1> QED
  BY <1>1, <1>2, <1>3, DataRead, DataWrite, NextKinds
-----------------------------------------------------------------------------
(* Sizes and positions. *)

(* What is solid stays solid. *)
LEMMA SolidGrows ==
  ASSUME TypeInv, DataInv, [Next]_vars, NEW n, Solid(n)
  PROVE  Solid(n)'
BY DiskGrows DEF Solid, Span

(* Below a smaller bound there is less to be solid. *)
LEMMA SolidBelow ==
  ASSUME NEW m \in Nat, NEW n \in Nat, m <= n, Solid(n)
  PROVE  Solid(m)
BY FileAssumption DEF Solid, Span, Cells

(* A write that starts where the file is solid leaves it so up to its end. *)
LEMMA SolidWrite ==
  ASSUME TypeInv, DataInv, NEW t \in Tasks, pc[t] \in {"w_size", "w_save"}, Solid(pos[t])
  PROVE  Solid(pos[t] + arg[t])
<1>1. pos[t] \in Nat /\ arg[t] \in Nat
  BY FileAssumption DEF TypeInv, TypeOK
<1>2. \A i \in Span(pos[t], pos[t] + arg[t]) : blockDisk[i] = "new"
  BY DEF DataInv
<1>3. \A i \in Span(0, pos[t] + arg[t]) :
        i \in Span(0, pos[t]) \/ i \in Span(pos[t], pos[t] + arg[t])
  BY <1>1, FileAssumption DEF Span, Cells
<1> QED
  BY <1>2, <1>3 DEF Solid

(* A read counts no further than the size, and unless it overshoots leaves the
   position there, too. *)
LEMMA SolidRead ==
  ASSUME TypeInv, TypeInv', DataInv, SolidInv, [Next]_vars, NEW t \in Tasks, ReadStep(t)
  PROVE  SolidInv'
<1> SUFFICES ASSUME ~overshot' PROVE SolidInv'
  BY DEF SolidInv
<1>1. ~overshot /\ UNCHANGED <<file_size, recDisk>>
  BY DEF ReadStep, Open, ReadSize, ReadCopy, ReadCall, hist, file, TypeInv, TypeOK
<1>2. Solid(file_size)' /\ Solid(recDisk)'
  BY <1>1, SolidGrows DEF SolidInv
<1>3. ASSUME NEW u \in Tasks
      PROVE  /\ mode'[u] \in {"w", "rw"} => Solid(pos[u])'
             /\ pc'[u] = "r_copy" => Solid(arg[u])'
  <2>1. CASE u # t
    <3>1. mode'[u] = mode[u] /\ pos'[u] = pos[u] /\ pc'[u] = pc[u] /\ arg'[u] = arg[u]
      BY <2>1 DEF ReadStep, Open, ReadSize, ReadCopy, ReadCall, Goto, Return, Advanced, TypeInv, TypeOK
    <3>2. Solid(pos[u]) => Solid(pos[u])'
      BY <3>1, SolidGrows
    <3>3. Solid(arg[u]) => Solid(arg[u])'
      BY <3>1, SolidGrows
    <3> QED
      BY <1>1, <3>1, <3>2, <3>3 DEF SolidInv
  <2>2. CASE u = t
    <3>1. mode'[t] \in {"w", "rw"} => Solid(pos[t])'
      <4>1. CASE Open(t)
        BY <4>1 DEF Open, Solid, Span, Cells, TypeInv, TypeOK
      <4>2. CASE ReadCopy(t) /\ pos' # pos
        <5>1. mode'[t] \in {"w", "rw"} => pos'[t] <= file_size
          <6>1. mode[t] = "rw" => ~(pos'[t] > file_size)
            BY <4>2 DEF ReadCopy
          <6>2. mode'[t] \in {"w", "rw"} => mode[t] = "rw"
            BY <4>2 DEF ReadCopy, TypeInv, Reading
          <6>3. pos'[t] \in Nat /\ file_size \in Nat
            BY FileAssumption DEF TypeInv, TypeOK
          <6> QED
            BY <6>1, <6>2, <6>3
        <5>2. pos'[t] \in Nat /\ file_size \in Nat
          BY FileAssumption DEF TypeInv, TypeOK
        <5>3. mode'[t] \in {"w", "rw"} => Solid(pos'[t])
          BY <5>1, <5>2, <1>1, SolidBelow DEF SolidInv
        <5> QED
          BY <5>3, SolidGrows
      <4>3. CASE pos' = pos /\ mode' = mode
        BY <4>3, <1>1, SolidGrows DEF SolidInv
      <4> QED
        BY <4>1, <4>2, <4>3 DEF ReadStep, ReadSize, ReadCopy, ReadCall
    <3>2. pc'[t] = "r_copy" => Solid(arg[t])'
      <4> SUFFICES ASSUME pc'[t] = "r_copy" PROVE Solid(arg[t])'
        OBVIOUS
      <4>1. arg'[t] \in Nat /\ file_size \in Nat /\ arg'[t] <= file_size
        BY DEF ReadStep, Open, ReadSize, ReadCopy, ReadCall, Goto, Return, ReadLength, Least, TypeInv, TypeOK
      <4>2. Solid(arg'[t])
        BY <4>1, <1>1, SolidBelow DEF SolidInv
      <4> QED
        BY <4>2, SolidGrows
    <3> QED
      BY <2>2, <3>1, <3>2
  <2> QED
    BY <2>1, <2>2
<1> QED
  BY <1>2, <1>3 DEF SolidInv
(* A write sets the size to its end when its bytes are on the disk. *)
LEMMA SolidWriteStep ==
  ASSUME TypeInv, DataInv, SolidInv, [Next]_vars, NEW t \in Tasks, WriteStep(t)
  PROVE  SolidInv'
<1> SUFFICES ASSUME ~overshot PROVE SolidInv'
  BY DEF SolidInv, WriteStep, WriteCall, WriteCopy, WriteSync, WriteSize, WriteSizeIntr,
     WriteSave, WriteSaveIntr, hist
<1> USE DEF Goto, Return, file, hist
<1>1. /\ mode' = mode
      /\ \A u \in Tasks \ {t} : pc'[u] = pc[u] /\ arg'[u] = arg[u] /\ pos'[u] = pos[u]
      /\ pc'[t] # "r_copy"
  BY DEF WriteStep, WriteCall, WriteCopy, WriteSync, WriteSize, WriteSizeIntr,
     WriteSave, WriteSaveIntr, TypeInv, TypeOK
<1>2. pc[t] \in {"w_size", "w_save"} => Solid(pos[t] + arg[t])
  <2>1. pc[t] \in {"w_size", "w_save"} => Solid(pos[t])
    BY DEF SolidInv, TypeInv, Writing
  <2> QED
    BY <2>1, SolidWrite
<1>3. \/ file_size' = file_size
      \/ pc[t] = "w_size" /\ file_size' = pos[t] + arg[t]
  BY DEF WriteStep, WriteCall, WriteCopy, WriteSync, WriteSize, WriteSizeIntr,
     WriteSave, WriteSaveIntr, NewSize
<1>4. recDisk' \in {recDisk, file_size}
  BY DEF WriteStep, WriteCall, WriteCopy, WriteSync, WriteSize, WriteSizeIntr,
     WriteSave, WriteSaveIntr, Save
<1>5. \/ pos' = pos
      \/ pc[t] = "w_save" /\ pos'[t] = pos[t] + arg[t]
  BY DEF WriteStep, WriteCall, WriteCopy, WriteSync, WriteSize, WriteSizeIntr,
     WriteSave, WriteSaveIntr, TypeInv, TypeOK
<1>6. Solid(file_size') /\ Solid(recDisk')
  BY <1>2, <1>3, <1>4 DEF SolidInv
<1>7. ASSUME NEW u \in Tasks
      PROVE  /\ mode'[u] \in {"w", "rw"} => Solid(pos'[u])
             /\ pc'[u] = "r_copy" => Solid(arg'[u])
  BY <1>1, <1>2, <1>5 DEF SolidInv
<1> QED
  BY <1>6, <1>7, SolidGrows DEF SolidInv

(* Every step keeps SolidInv. *)
LEMMA SolidNext == TypeInv /\ TypeInv' /\ DataInv /\ SolidInv /\ [Next]_vars => SolidInv'
<1> SUFFICES ASSUME TypeInv, TypeInv', DataInv, SolidInv, [Next]_vars PROVE SolidInv'
  OBVIOUS
<1>1. CASE Reclaim
  BY <1>1 DEF Reclaim, SolidInv, Solid, hist
<1>2. CASE Crash
  BY <1>2 DEF Crash, SolidInv, Solid, Span, Cells
<1>3. CASE UNCHANGED vars
  BY <1>3 DEF vars, file, hist, SolidInv, Solid
<1> QED
  BY <1>1, <1>2, <1>3, SolidRead, SolidWriteStep, NextKinds

-----------------------------------------------------------------------------
(* The size on disk follows the one in memory. *)
LEMMA SizeNext == TypeInv /\ SizeInv /\ [Next]_vars => SizeInv'
<1> SUFFICES ASSUME TypeInv, SizeInv, [Next]_vars PROVE SizeInv'
  OBVIOUS
<1> USE DEF Goto, Return, file, hist, SizeInv, SizeSaved, TypeInv, TypeOK
<1>1. CASE Reclaim \/ UNCHANGED vars
  BY <1>1 DEF Reclaim, vars
<1>2. CASE Crash
  BY <1>2 DEF Crash
<1>3. ASSUME NEW t \in Tasks, ReadStep(t) \/ WriteCopy(t) \/ WriteSync(t) \/ \E n \in Lens : WriteCall(t, n)
      PROVE  SizeInv'
  <2>1. /\ UNCHANGED <<file_size, recDisk, mgmt, failed>>
        /\ pc[t] # "w_save" /\ pc'[t] # "w_save"
        /\ \A u \in Tasks \ {t} : pc'[u] = pc[u]
    BY <1>3 DEF ReadStep, Open, ReadSize, ReadCopy, ReadCall, WriteCall, WriteCopy, WriteSync
  <2> QED
    BY <2>1
<1>4. ASSUME NEW t \in Tasks, WriteSize(t)
      PROVE  SizeInv'
  BY <1>4, FileAssumption DEF WriteSize
<1>5. ASSUME NEW t \in Tasks, WriteSizeIntr(t)
      PROVE  SizeInv'
  BY <1>5 DEF WriteSizeIntr
<1>6. ASSUME NEW t \in Tasks, WriteSave(t)
      PROVE  SizeInv'
  <2>1. \A u \in Tasks \ {t} : pc[u] # "w_save" /\ pc'[u] = pc[u]
    BY <1>6 DEF WriteSave
  <2> QED
    BY <1>6, <2>1 DEF WriteSave, Save
<1>7. ASSUME NEW t \in Tasks, WriteSaveIntr(t)
      PROVE  SizeInv'
  <2>1. \A u \in Tasks \ {t} : pc[u] # "w_save" /\ pc'[u] = pc[u]
    BY <1>7 DEF WriteSaveIntr
  <2> QED
    BY <1>7, <2>1 DEF WriteSaveIntr
<1> QED
  BY <1>1, <1>2, <1>3, <1>4, <1>5, <1>6, <1>7, NextKinds DEF WriteStep
-----------------------------------------------------------------------------
(* Spec keeps the four parts of the invariant. *)
LEMMA FileInvariant == Spec => [](TypeInv /\ DataInv /\ SolidInv /\ SizeInv)
<1>1. TypeInv /\ DataInv /\ SolidInv /\ SizeInv /\ [Next]_vars
        => (TypeInv /\ DataInv /\ SolidInv /\ SizeInv)'
  BY TypeNext, DataNext, SolidNext, SizeNext
<1> QED
  BY <1>1, FileInit, PTL DEF Spec

(* Every variable keeps its type; no size exceeds the bound on positions. *)
THEOREM TypeCorrect == Spec => []TypeOK
<1>1. TypeInv => TypeOK
  BY DEF TypeInv
<1> QED
  BY <1>1, FileInvariant, PTL

(***************************************************************************)
(* simplefs_write syncs the block before it sets the size: however writers *)
(* race, fail and are interrupted, and wherever the power is cut, no byte  *)
(* below the size is left over from before the file, in memory or on disk, *)
(* unless a read put a writer beyond the end of the file.                  *)
(***************************************************************************)
THEOREM NoHoles == Spec => []WrittenBelowSize
<1>1. DataInv /\ SolidInv => WrittenBelowSize
  BY DEF DataInv, SolidInv, WrittenBelowSize, Solid, Span
<1> QED
  BY <1>1, FileInvariant, PTL

(* simplefs_read takes no lock and looks at the size twice: what it is about
   to return are bytes that were written to the file, until some read leaves
   the position of a file that is also open for writing beyond the end. *)
THEOREM ReadsAreWritten == Spec => []ReadsWritten
<1>1. DataInv /\ SolidInv => ReadsWritten
  BY DEF DataInv, SolidInv, ReadsWritten, Solid, Span
<1> QED
  BY <1>1, FileInvariant, PTL

(* simplefs_read and simplefs_write: where every open file is for reading or
   for writing and none for both, nothing is ever excepted: no byte below the
   size, and none that a read is about to return, is from before the file. *)
THEOREM SeparateFilesSafe ==
  ASSUME "rw" \notin Modes
  PROVE  Spec => [](~overshot /\ WrittenBelowSize /\ ReadsWritten)
<1>1. Init => ~overshot
  BY DEF Init
<1>2. TypeInv /\ ~overshot /\ [Next]_vars => ~overshot'
  <2> SUFFICES ASSUME TypeInv, ~overshot, [Next]_vars PROVE ~overshot'
    OBVIOUS
  <2>1. ASSUME NEW t \in Tasks, ReadCopy(t)
        PROVE  ~overshot'
    <3>1. mode[t] \in Modes
      BY DEF TypeInv, TypeOK
    <3> QED
      BY <2>1, <3>1 DEF ReadCopy
  <2> QED
    BY <2>1 DEF Next, vars, hist, Reclaim, Crash, ReadCall, WriteCall, Open, ReadSize, WriteCopy,
                WriteSync, WriteSize, WriteSizeIntr, WriteSave, WriteSaveIntr
<1> QED
  BY <1>1, <1>2, FileInvariant, NoHoles, ReadsAreWritten, PTL DEF Spec

(* simplefs_inode_save: the size in memory is that on disk, unless a writer
   is at it or was told -EINTR. *)
THEOREM SizesSaved == Spec => []SizeSaved
<1>1. SizeInv => SizeSaved
  BY DEF SizeInv
<1> QED
  BY <1>1, FileInvariant, PTL

(* sync_dirty_buffer: bytes that a finished write wrote are on the disk, and
   only other writes may have replaced them. *)
THEOREM AcknowledgedOnDisk == Spec => []AckedOnDisk
<1>1. DataInv => AckedOnDisk
  BY DEF DataInv, AckedOnDisk
<1> QED
  BY <1>1, FileInvariant, PTL
=============================================================================
