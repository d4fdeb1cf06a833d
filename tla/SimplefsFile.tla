---------------------------- MODULE SimplefsFile ----------------------------
(***************************************************************************)
(* One regular file of simplefs: its data block, its size and the tasks    *)
(* that read and write it, each through an open file of its own.           *)
(*                                                                         *)
(* SimpleFS has the inode records of all files and no contents; this       *)
(* module has the contents of one and of the inode store only its record.  *)
(* Neither read nor write takes a lock of the file: a writer's bytes, the  *)
(* sync of the block, the size and the saving of the record are steps.     *)
(*                                                                         *)
(* A position moves only with read and write, for the file operations have *)
(* no llseek.  Bytes at or past BlockSize lie outside the buffer.          *)
(***************************************************************************)
EXTENDS Naturals

CONSTANTS
  Tasks,       \* each has the file open
  BlockSize,   \* SIMPLEFS_DEFAULT_BLOCK_SIZE
  MaxPos,      \* bound on positions
  Lens,        \* lengths of reads and writes
  Modes,       \* how files are opened: "r", "w", "rw"
  OldSize,     \* the size at first
  None         \* no holder of a lock

ASSUME FileAssumption ==
  /\ BlockSize \in Nat /\ MaxPos \in Nat
  /\ OldSize \in 0 .. BlockSize /\ OldSize <= MaxPos
  /\ Lens \subseteq Nat \ {0}
  /\ Modes \subseteq {"r", "w", "rw"}
  /\ None \notin Tasks

VARIABLES
  block,      \* the buffer of the data block
  blockDisk,  \* the block on disk
  file_size,  \* of the inode in memory
  recDisk,    \* in its record on disk
  mgmt,       \* simplefs_inodes_mgmt_lock
  pos,        \* *ppos of each open file
  mode,       \* and how it was opened
  pc, arg,    \* where a task is; the bytes it asked for, or is about to copy
  overshot,   \* history: a read left a writer's position past the end of the file
  failed,     \* history: who was interrupted in its last write
  acked       \* history: bytes of the block that some finished write wrote

file == <<block, blockDisk, file_size, recDisk>>
hist == <<overshot, failed, acked>>
vars == <<file, mgmt, pos, mode, pc, arg, hist>>

Cells   == 0 .. (BlockSize - 1)

(* A byte is left from before the file, from before the run, or was put there
   by a write. *)
Bytes == {"junk", "old", "new"}

Least(m, n) == IF m <= n THEN m ELSE n

(* The part of [from, to) that is in the block *)
Span(from, to) == {i \in Cells : from <= i /\ i < to}

Pcs     == {"idle", "r_size", "r_copy", "w_copy", "w_sync", "w_size", "w_save"}
Goto(t, p) == pc' = [pc EXCEPT ![t] = p]
Return(t)  == Goto(t, "idle") /\ arg' = [arg EXCEPT ![t] = 0]

Init ==
  /\ block = [i \in Cells |-> IF i < OldSize THEN "old" ELSE "junk"]
  /\ blockDisk = block
  /\ file_size = OldSize /\ recDisk = OldSize
  /\ mgmt = None
  /\ pos = [t \in Tasks |-> 0]
  /\ mode \in [Tasks -> Modes]
  /\ pc = [t \in Tasks |-> "idle"]
  /\ arg = [t \in Tasks |-> 0]
  /\ overshot = FALSE /\ failed = {} /\ acked = {}

Open(t) ==
  /\ pc[t] = "idle"
  /\ pos' = [pos EXCEPT ![t] = 0]
  /\ mode' \in {[mode EXCEPT ![t] = m] : m \in Modes}
  /\ UNCHANGED <<file, mgmt, pc, arg, hist>>

-----------------------------------------------------------------------------
(* simplefs_read: a position at or past the size reads nothing. *)
ReadCall(t, n) ==
  /\ pc[t] = "idle" /\ mode[t] \in {"r", "rw"}
  /\ pos[t] < file_size /\ pos[t] + n <= MaxPos
  /\ Goto(t, "r_size")
  /\ arg' = [arg EXCEPT ![t] = n]
  /\ UNCHANGED <<file, mgmt, pos, mode, hist>>

(* min(file_size, len), as in the code: what is behind the position does not
   come into it.  As in SimpleFS, an operator whose name says what is wrong
   with it is a faulty version and is used in no specification. *)
WholeLength(size, len) == len

ReadLength(size, len) == Least(size, len)

(* The size is looked at again, after sb_bread, which may fail. *)
ReadSize(t) ==
  /\ pc[t] = "r_size"
  /\ \/ /\ arg' = [arg EXCEPT ![t] = ReadLength(file_size, arg[t])]
        /\ Goto(t, "r_copy")
     \/ Return(t)
  /\ UNCHANGED <<file, mgmt, pos, mode, hist>>

(* *ppos += nbytes *)
AdvancedTwice(t) == [pos EXCEPT ![t] = @ + 2 * arg[t]]

Advanced(t) == [pos EXCEPT ![t] = @ + arg[t]]

(* copy_to_user from the start of the block, or -EFAULT *)
ReadCopy(t) ==
  /\ pc[t] = "r_copy"
  /\ pos' \in {pos, Advanced(t)}
  /\ overshot' = (overshot \/ (mode[t] = "rw" /\ pos'[t] > file_size))
  /\ Return(t)
  /\ UNCHANGED <<file, mgmt, mode, failed, acked>>

-----------------------------------------------------------------------------
(* simplefs_write; sb_bread may fail, which returns 0. *)
WriteCall(t, n) ==
  /\ pc[t] = "idle" /\ mode[t] \in {"w", "rw"}
  /\ pos[t] + n <= MaxPos
  /\ Goto(t, "w_copy")
  /\ arg' = [arg EXCEPT ![t] = n]
  /\ UNCHANGED <<file, mgmt, pos, mode, hist>>

(* copy_from_user to the position, with no test against the end of the block.
   One that fails has copied a part and cleared the rest, and the buffer stays
   clean. *)
WriteCopy(t) ==
  LET to == pos[t] + arg[t] IN
  /\ pc[t] = "w_copy"
  /\ \/ /\ block' = [i \in Cells |-> IF i \in Span(pos[t], to) THEN "new" ELSE block[i]]
        /\ (Goto(t, "w_sync") /\ UNCHANGED arg) \/ Return(t)
     \/ UNCHANGED block /\ Return(t)
  /\ UNCHANGED <<blockDisk, file_size, recDisk, mgmt, pos, mode, hist>>

(* mark_buffer_dirty, sync_dirty_buffer *)
SyncBlockNot == UNCHANGED blockDisk

SyncBlock == blockDisk' = block

WriteSync(t) ==
  /\ pc[t] = "w_sync"
  /\ SyncBlock
  /\ Goto(t, "w_size")
  /\ UNCHANGED <<block, file_size, recDisk, mgmt, pos, mode, arg, hist>>

(* The position that *ppos has by now; the file's own moves on success. *)
NewSizeAdds(t) == file_size + pos[t] + arg[t]

NewSize(t) == pos[t] + arg[t]

WriteSize(t) ==
  /\ pc[t] = "w_size" /\ mgmt = None
  /\ mgmt' = t
  /\ file_size' = NewSize(t)
  /\ Goto(t, "w_save")
  /\ UNCHANGED <<block, blockDisk, recDisk, pos, mode, arg, hist>>

(* -EINTR, with the bytes on the disk and the position where it was; tasks
   that work on other files may hold the lock, too. *)
WriteSizeIntr(t) ==
  /\ pc[t] = "w_size"
  /\ failed' = failed \cup {t}
  /\ Return(t)
  /\ UNCHANGED <<file, mgmt, pos, mode, overshot, acked>>

(* simplefs_inode_save, under simplefs_sb_lock: the record in the buffer and
   on disk *)
SaveNot(size) == UNCHANGED recDisk

Save(size) == recDisk' = size

WriteSave(t) ==
  /\ pc[t] = "w_save"
  /\ Save(file_size)
  /\ mgmt' = None
  /\ pos' = [pos EXCEPT ![t] = @ + arg[t]]
  /\ acked' = acked \cup Span(pos[t], pos[t] + arg[t])
  /\ failed' = failed \ {t}
  /\ Return(t)
  /\ UNCHANGED <<block, blockDisk, file_size, mode, overshot>>

(* The same interrupted in its wait for simplefs_sb_lock *)
WriteSaveIntr(t) ==
  /\ pc[t] = "w_save"
  /\ mgmt' = None
  /\ failed' = failed \cup {t}
  /\ Return(t)
  /\ UNCHANGED <<file, pos, mode, overshot, acked>>

-----------------------------------------------------------------------------
(* A buffer that is clean and in nobody's hands is dropped and read again. *)
Reclaim ==
  /\ \A t \in Tasks : pc[t] \notin {"w_sync", "r_copy"}
  /\ block' = blockDisk
  /\ UNCHANGED <<blockDisk, file_size, recDisk, mgmt, pos, mode, pc, arg, hist>>

(* The power is cut; the file system is mounted and the file opened again. *)
Crash ==
  /\ block' = blockDisk /\ file_size' = recDisk
  /\ mgmt' = None
  /\ pos' = [t \in Tasks |-> 0]
  /\ pc' = [t \in Tasks |-> "idle"] /\ arg' = [t \in Tasks |-> 0]
  /\ failed' = {}
  /\ UNCHANGED <<blockDisk, recDisk, mode, overshot, acked>>

Next ==
  \/ Reclaim \/ Crash
  \/ \E t \in Tasks, n \in Lens : ReadCall(t, n) \/ WriteCall(t, n)
  \/ \E t \in Tasks :
       \/ Open(t)
       \/ ReadSize(t) \/ ReadCopy(t)
       \/ WriteCopy(t) \/ WriteSync(t)
       \/ WriteSize(t) \/ WriteSizeIntr(t) \/ WriteSave(t) \/ WriteSaveIntr(t)

Spec == Init /\ [][Next]_vars
-----------------------------------------------------------------------------
(* Every variable keeps its type: no size exceeds the last position written. *)
TypeOK ==
  /\ block \in [Cells -> Bytes] /\ blockDisk \in [Cells -> Bytes]
  /\ file_size \in 0 .. MaxPos /\ recDisk \in 0 .. MaxPos
  /\ mgmt \in Tasks \cup {None}
  /\ pos \in [Tasks -> 0 .. MaxPos]
  /\ mode \in [Tasks -> Modes]
  /\ pc \in [Tasks -> Pcs]
  /\ arg \in [Tasks -> Nat]
  /\ overshot \in BOOLEAN
  /\ failed \subseteq Tasks /\ acked \subseteq Cells

(* simplefs_write syncs the block before it sets the size: whatever writers
   race and are interrupted, and wherever the power is cut, no byte below the
   size is left over from before the file, in memory or on disk.  The one
   exception comes from simplefs_read, whose count does not depend on the
   position: it may put a task that writes next beyond the end of the file. *)
WrittenBelowSize ==
  overshot \/ /\ \A i \in Span(0, file_size) : block[i] # "junk"
              /\ \A i \in Span(0, recDisk) : blockDisk[i] # "junk"

(* simplefs_read takes no lock and looks at the size twice while others write:
   what it is about to return are bytes that were written to the file, as long
   as no read has left the position of a file that is open for writing, too,
   beyond the end of the file.  Where one has, a write from there leaves a
   hole of bytes from before the file, and reads may return them. *)
ReadsWritten ==
  overshot \/ \A t \in Tasks : pc[t] = "r_copy" => \A i \in Span(0, arg[t]) : block[i] # "junk"

(* simplefs_inode_save: when no writer has the file in hand, its size in memory
   differs from the one on disk only if some writer was told -EINTR. *)
SizeSaved ==
  (\A t \in Tasks : pc[t] # "w_save") /\ recDisk # file_size => failed # {}

(* sync_dirty_buffer comes before the return of write: bytes that a finished
   write wrote are on the disk, and only other writes may have replaced them. *)
AckedOnDisk == \A i \in acked : blockDisk[i] \notin {"old", "junk"}

(* "A file cannot grow beyond one block." *)
WithinBlock == file_size <= BlockSize
=============================================================================
