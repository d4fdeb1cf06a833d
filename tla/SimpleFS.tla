------------------------------ MODULE SimpleFS ------------------------------
(***************************************************************************)
(* The simplefs kernel module (simplefs/simple.c) as tasks that create,    *)
(* unlink, write and look up files concurrently.  A step is what a task    *)
(* does between two points where another task, a signal or a power cut     *)
(* can come in: it takes a lock, or runs a critical section and drops it.  *)
(*                                                                         *)
(* Two layers are kept apart.  What the disk holds is istoreDisk, dirent,  *)
(* inodes_count and free_blocks: the code syncs the last three with every  *)
(* change, and the inode store only in simplefs_inode_save.  What memory   *)
(* holds is istore (the buffer of the inode store), imap, the              *)
(* simplefs_inode objects and the dentries that point at them.             *)
(*                                                                         *)
(* A directory block is a map from names to inode numbers (0: no entry);   *)
(* the slots of the block and the d_fsdata cache over them are another     *)
(* component.  File contents are left out.                                 *)
(***************************************************************************)
EXTENDS SimplefsLayout, FiniteSets

CONSTANTS
  Tasks,       \* kernel threads in a system call
  Addrs,       \* addresses of struct simplefs_inode objects (a bound)
  RootAddr,    \* the object of the root directory
  None,        \* no task, no object
  Ops,         \* the system calls and the outside events in play
  Sizes,       \* positions a write may end at
  Signals,     \* TRUE: mutex_lock_interruptible may return -EINTR
  MaxCrashes   \* bound on the number of power cuts

ASSUME FSAssumption ==
  /\ RootAddr \in Addrs
  /\ None \notin Addrs /\ None \notin Tasks
  /\ Sizes \subseteq 0 .. (Word - 1)
  /\ Signals \in BOOLEAN
  /\ MaxCrashes \in Nat

VARIABLES
  inodes_count,  \* sb->inodes_count
  free_blocks,   \* sb->free_blocks, as its set of one bits
  imap,          \* sb_info->imap, as its set of one bits
  istore,        \* the buffer of block 1, slot by slot
  istoreDisk,    \* block 1 on disk
  dirent,        \* directory blocks
  inode,         \* the simplefs_inode objects
  dentry,        \* dentry[d][x]: the object of name x in directory d, or None
  lock,          \* the holder of each mutex
  pc,            \* where each task is
  arg,           \* its arguments and locals
  crashes        \* power cuts so far

fs   == <<inodes_count, free_blocks, imap, istore, istoreDisk, dirent>>
vars == <<fs, inode, dentry, lock, pc, arg, crashes>>

(***************************************************************************)
(* children: simplefs_directory_children_update_lock                       *)
(* mgmt    : simplefs_inodes_mgmt_lock                                     *)
(* sb      : simplefs_sb_lock                                              *)
(***************************************************************************)
Locks == {"children", "mgmt", "sb"}

CreatePcs == {"c_lock", "c_count_lock", "c_count", "c_new", "c_block_lock", "c_block",
              "a_mgmt", "a_sb", "a_add", "c_name", "c_parent", "c_save_lock", "c_save"}
UnlinkPcs == {"u_save_lock", "u_save", "d_mgmt", "d_sb", "d_del", "u_end"}
WritePcs  == {"w_size", "w_save_lock", "w_save"}
LookupPcs == {"l_lock", "l_get"}
Pcs       == {"idle"} \cup CreatePcs \cup UnlinkPcs \cup WritePcs \cup LookupPcs

Args == [dir : Addrs \cup {None}, name : Names, obj : Addrs \cup {None},
         mode : Modes, ino : 0 .. ImapBits, size : 0 .. (Word - 1)]

NoArg == [dir |-> None, name |-> Welcome, obj |-> None, mode |-> "none", ino |-> 0, size |-> 0]

NoDentries == [d \in Addrs |-> [x \in Names |-> None]]

(***************************************************************************)
(* uint64_t arithmetic.  Here and below, an operator whose name says what  *)
(* is wrong with it is the faulty version of the one that follows: it is   *)
(* used in no specification, and a property is shown to tell the two       *)
(* apart.                                                                  *)
(***************************************************************************)
Inc(n) == IF n = Word - 1 THEN 0 ELSE n + 1

DecSigned(n) == IF n = 0 THEN 0 - 1 ELSE n - 1

Dec(n) == IF n = 0 THEN Word - 1 ELSE n - 1

(***************************************************************************)
(* The inode store.  Slot 0 would be the 32 bytes before the block: what   *)
(* is put there is lost to the file system.                                *)
(***************************************************************************)
PutOneLate(store, i, rec) == [k \in Inos |-> IF k = i + 1 THEN rec ELSE store[k]]

Put(store, i, rec) == [k \in Inos |-> IF k = i THEN rec ELSE store[k]]

(* simplefs_inode_search stops at slot k for inode number i. *)
FoundAt(store, i, k) ==
  /\ store[k].ino = i
  /\ \A j \in Inos : j < k => store[j].ino # i

-----------------------------------------------------------------------------
(***************************************************************************)
(* What the kernel around the module provides: mutexes, the i_mutex of a   *)
(* directory, the slab allocator and the dentry cache.                     *)
(***************************************************************************)

(* mutex_unlock does not ask who the owner is. *)
Unlocked(ls) == [l \in Locks |-> IF l \in ls THEN None ELSE lock[l]]

Goto(t, to) == pc' = [pc EXCEPT ![t] = to]

(* mutex_lock_interruptible returns 0 *)
Lock(t, from, l, to) ==
  /\ pc[t] = from
  /\ lock[l] = None
  /\ lock' = [lock EXCEPT ![l] = t]
  /\ Goto(t, to)

(* A step that does nothing but take a lock. *)
Take(t, from, l, to) ==
  /\ Lock(t, from, l, to)
  /\ UNCHANGED <<fs, inode, dentry, arg, crashes>>

(* mutex_lock_interruptible finds the lock taken, and a signal pending *)
Interrupted(t, from, l) ==
  /\ Signals
  /\ pc[t] = from
  /\ lock[l] # None

(* Create, unlink, lookup hold the i_mutex of their directory; write does not. *)
DirBusy(d) == \E t \in Tasks : arg[t].dir = d

HasDentry(o) == \E d \in Addrs, x \in Names : dentry[d][x] = o

(* A directory the VFS can call into: its object is bound to a dentry. *)
OpenDir(d) == inode[d].mode = "dir" /\ (d = RootAddr \/ HasDentry(d))

(* kmem_cache_alloc may return any object that no inode owns. *)
Allocatable(o) ==
  /\ o # RootAddr
  /\ ~HasDentry(o)
  /\ \A t \in Tasks : arg[t].obj = o => arg[t].dir = None

(* kmem_cache_alloc does not clear the object: until a block is found for it,
   its data_block_number is an old one.  Only a write that still points at the
   object can see it; for the others it is 0. *)
Leftover(o) == IF \E u \in Tasks : arg[u].obj = o THEN inode[o].blk ELSE 0

(* An object that nothing points at any more has no contents worth keeping. *)
Forget(t, o) ==
  [a \in Addrs |->
     IF a = o /\ a # RootAddr /\ ~HasDentry(a) /\ \A u \in Tasks \ {t} : arg[u].obj # a
     THEN ZeroInode ELSE inode[a]]

Finish(t) ==
  /\ Goto(t, "idle")
  /\ arg' = [arg EXCEPT ![t] = NoArg]

(* An early return that gives up after dropping the locks ls. *)
Fail(t, ls) ==
  /\ lock' = Unlocked(ls)
  /\ Finish(t)
  /\ inode' = Forget(t, arg[t].obj)
  /\ UNCHANGED <<fs, dentry, crashes>>

(* mark_buffer_dirty, sync_dirty_buffer *)
NoSync(store) == UNCHANGED istoreDisk

SyncStore(store) == istoreDisk' = store

(* simplefs_inode_save under the sb lock; the whole block reaches the disk. *)
SaveUnsearched(rec) ==
  /\ istore' = Put(istore, rec.ino, rec)
  /\ SyncStore(istore')

Save(rec) ==
  \/ \E k \in Inos :
       /\ FoundAt(istore, rec.ino, k)
       /\ istore' = Put(istore, k, rec)
       /\ SyncStore(istore')
  \/ /\ \A k \in Inos : istore[k].ino # rec.ino
     /\ UNCHANGED <<istore, istoreDisk>>

SaveFinds(rec) == \E k \in Inos : istore[k].ino = rec.ino

-----------------------------------------------------------------------------
(***************************************************************************)
(* create and mkdir: simplefs_create_fs_object                             *)
(***************************************************************************)

(* The VFS calls ->create or ->mkdir on a name that lookup did not find. *)
CreateCall(t, d, x, m) ==
  /\ (IF m = "dir" THEN "mkdir" ELSE "create") \in Ops
  /\ pc[t] = "idle"
  /\ OpenDir(d) /\ ~DirBusy(d)
  /\ dirent[inode[d].blk][x] = 0 /\ dentry[d][x] = None
  /\ arg' = [arg EXCEPT ![t] = [NoArg EXCEPT !.dir = d, !.name = x, !.mode = m]]
  /\ Goto(t, "c_lock")
  /\ UNCHANGED <<fs, inode, dentry, lock, crashes>>

CreateLock(t) == Take(t, "c_lock", "children", "c_count_lock")

CreateLockIntr(t) == Interrupted(t, "c_lock", "children") /\ Fail(t, {})

CountLock(t) == Take(t, "c_count_lock", "mgmt", "c_count")

CountLockIntrKeepsLock(t) == Interrupted(t, "c_count_lock", "mgmt") /\ Fail(t, {})

CountLockIntr(t) == Interrupted(t, "c_count_lock", "mgmt") /\ Fail(t, {"children"})

(* simplefs_sb_get_objects_count, and the test against the maximum *)
Count(t) ==
  /\ pc[t] = "c_count"
  /\ IF inodes_count >= MaxObjects
     THEN Fail(t, {"mgmt", "children"})
     ELSE /\ lock' = Unlocked({"mgmt"})
          /\ Goto(t, "c_new")
          /\ UNCHANGED <<fs, inode, dentry, arg, crashes>>

NewInodeFails(t) == pc[t] = "c_new" /\ Fail(t, {"children"})

(* The inode number comes from imap, which is read under no lock but children. *)
NewInode(t) ==
  /\ pc[t] = "c_new"
  /\ \E o \in Addrs, i \in 0 .. ImapBits :
       /\ Allocatable(o)
       /\ Ffz(imap, i)
       /\ inode' = [inode EXCEPT ![o] = [mode |-> arg[t].mode, ino |-> i,
                                         blk |-> Leftover(o), n |-> 0]]
       /\ arg' = [arg EXCEPT ![t].obj = o]
  /\ Goto(t, "c_block_lock")
  /\ UNCHANGED <<fs, dentry, lock, crashes>>

BlockLock(t) == Take(t, "c_block_lock", "sb", "c_block")

(* The error path of simplefs_sb_get_a_freeblock drops a lock it does not hold. *)
BlockLockIntr(t) == Interrupted(t, "c_block_lock", "sb") /\ Fail(t, {"sb", "children"})

(* simplefs_sb_get_a_freeblock, the super block synced *)
GetFreeBlock(t) ==
  /\ pc[t] = "c_block"
  /\ \E i \in Blocks :
       /\ FirstFree(free_blocks, i)
       /\ free_blocks' = TakeBlock(free_blocks, i)
       /\ inode' = [inode EXCEPT ![arg[t].obj].blk = i]
  /\ lock' = Unlocked({"sb"})
  /\ Goto(t, "a_mgmt")
  /\ UNCHANGED <<inodes_count, imap, istore, istoreDisk, dirent, dentry, arg, crashes>>

NoFreeBlockKeepsLock(t) ==
  /\ pc[t] = "c_block"
  /\ NoneFree(free_blocks)
  /\ Fail(t, {"sb"})

NoFreeBlock(t) ==
  /\ pc[t] = "c_block"
  /\ NoneFree(free_blocks)
  /\ Fail(t, {"sb", "children"})

AddLock(t) == Take(t, "a_mgmt", "mgmt", "a_sb")

AddSbLock(t) == Take(t, "a_sb", "sb", "a_add")

(* simplefs_inode_add returns nothing: interrupted, create goes on without it,
   from the second lock with the first one still held. *)
AddIntr(t) ==
  /\ Interrupted(t, "a_mgmt", "mgmt") \/ Interrupted(t, "a_sb", "sb")
  /\ Goto(t, "c_name")
  /\ UNCHANGED <<fs, inode, dentry, lock, arg, crashes>>

(* simplefs_inode_add: the super block is synced, the inode store only dirtied. *)
InodeAdd(t) ==
  LET rec == inode[arg[t].obj] IN
  /\ pc[t] = "a_add"
  /\ istore' = Put(istore, rec.ino, rec)
  /\ inodes_count' = Inc(inodes_count)
  /\ imap' = imap \cup {rec.ino}
  /\ lock' = Unlocked({"sb", "mgmt"})
  /\ Goto(t, "c_name")
  /\ UNCHANGED <<free_blocks, istoreDisk, dirent, inode, dentry, arg, crashes>>

(* The new directory entry is written and synced. *)
AddName(t) ==
  /\ pc[t] = "c_name"
  /\ dirent' = [dirent EXCEPT ![inode[arg[t].dir].blk][arg[t].name] = inode[arg[t].obj].ino]
  /\ Goto(t, "c_parent")
  /\ UNCHANGED <<inodes_count, free_blocks, imap, istore, istoreDisk, inode, dentry, lock,
                 arg, crashes>>

(* dir_children_count++ *)
CountChildNot(t) == Take(t, "c_parent", "mgmt", "c_save_lock")

CountChild(t) ==
  /\ Lock(t, "c_parent", "mgmt", "c_save_lock")
  /\ inode' = [inode EXCEPT ![arg[t].dir].n = Inc(@)]
  /\ UNCHANGED <<fs, dentry, arg, crashes>>

CountChildIntr(t) == Interrupted(t, "c_parent", "mgmt") /\ Fail(t, {"children"})

ParentSaveLock(t) == Take(t, "c_save_lock", "sb", "c_save")

ParentSaveIntr(t) == Interrupted(t, "c_save_lock", "sb") /\ Fail(t, {"mgmt", "children"})

(* The parent is saved; d_add binds the new object unless the save failed. *)
ParentSave(t) ==
  LET parent == inode[arg[t].dir] IN
  /\ pc[t] = "c_save"
  /\ Save(parent)
  /\ lock' = Unlocked({"sb", "mgmt", "children"})
  /\ Finish(t)
  /\ IF SaveFinds(parent)
     THEN /\ dentry' = [dentry EXCEPT ![arg[t].dir][arg[t].name] = arg[t].obj]
          /\ UNCHANGED inode
     ELSE /\ inode' = Forget(t, arg[t].obj)
          /\ UNCHANGED dentry
  /\ UNCHANGED <<inodes_count, free_blocks, imap, dirent, crashes>>

-----------------------------------------------------------------------------
(***************************************************************************)
(* unlink: simplefs_unlink, of anything the VFS does not take for a        *)
(* directory                                                               *)
(***************************************************************************)

(* The entry is cleared and synced, dir_children_count decremented. *)
UnlinkCall(t, d, x) ==
  LET o == dentry[d][x] IN
  /\ "unlink" \in Ops
  /\ pc[t] = "idle"
  /\ ~DirBusy(d)
  /\ o \in Addrs /\ inode[o].mode # "dir"
  /\ dirent' = [dirent EXCEPT ![inode[d].blk][x] = 0]
  /\ inode' = [inode EXCEPT ![d].n = Dec(@)]
  /\ arg' = [arg EXCEPT ![t] = [NoArg EXCEPT !.dir = d, !.name = x, !.obj = o]]
  /\ Goto(t, "u_save_lock")
  /\ UNCHANGED <<inodes_count, free_blocks, imap, istore, istoreDisk, dentry, lock, crashes>>

UnlinkSaveLock(t) == Take(t, "u_save_lock", "sb", "u_save")

(* The result of saving the parent is ignored. *)
UnlinkSaveIntr(t) ==
  /\ Interrupted(t, "u_save_lock", "sb")
  /\ Goto(t, "d_mgmt")
  /\ UNCHANGED <<fs, inode, dentry, lock, arg, crashes>>

UnlinkSave(t) ==
  /\ pc[t] = "u_save"
  /\ Save(inode[arg[t].dir])
  /\ lock' = Unlocked({"sb"})
  /\ Goto(t, "d_mgmt")
  /\ UNCHANGED <<inodes_count, free_blocks, imap, dirent, inode, dentry, arg, crashes>>

DelLock(t) == Take(t, "d_mgmt", "mgmt", "d_sb")

DelSbLock(t) == Take(t, "d_sb", "sb", "d_del")

(* As in simplefs_inode_add, an interrupt at the second lock keeps the first. *)
DelIntr(t) ==
  /\ Interrupted(t, "d_mgmt", "mgmt") \/ Interrupted(t, "d_sb", "sb")
  /\ Goto(t, "u_end")
  /\ UNCHANGED <<fs, inode, dentry, lock, arg, crashes>>

(* simplefs_inode_del; the data block stays taken. *)
InodeDel(t) ==
  LET i == inode[arg[t].obj].ino IN
  /\ pc[t] = "d_del"
  /\ istore' = Put(istore, i, ZeroInode)
  /\ inodes_count' = Dec(inodes_count)
  /\ imap' = imap \ {i}
  /\ lock' = Unlocked({"sb", "mgmt"})
  /\ Goto(t, "u_end")
  /\ UNCHANGED <<free_blocks, istoreDisk, dirent, inode, dentry, arg, crashes>>

(***************************************************************************)
(* The dentry goes, and with it the object, whoever is still using it:     *)
(* unlink's own dput takes the reference that kept it alive.  The          *)
(* allocator writes its free list over the first word, the mode.           *)
(***************************************************************************)
UnlinkEnd(t) ==
  LET o == arg[t].obj IN
  /\ pc[t] = "u_end"
  /\ dentry' = [dentry EXCEPT ![arg[t].dir][arg[t].name] = None]
  /\ \/ /\ \A u \in Tasks \ {t} : arg[u].obj # o
        /\ inode' = [inode EXCEPT ![o] = ZeroInode]
     \/ /\ \E u \in Tasks \ {t} : arg[u].obj = o
        /\ \E m \in Modes : inode' = [inode EXCEPT ![o].mode = m]
  /\ Finish(t)
  /\ UNCHANGED <<fs, lock, crashes>>

-----------------------------------------------------------------------------
(***************************************************************************)
(* write: simplefs_write.  The object is reached through an open file; the *)
(* data has been copied and synced by the time mgmt is asked for.          *)
(***************************************************************************)
WriteCall(t, o, s) ==
  /\ "write" \in Ops
  /\ pc[t] = "idle"
  /\ HasDentry(o) /\ inode[o].mode = "reg"
  /\ arg' = [arg EXCEPT ![t] = [NoArg EXCEPT !.obj = o, !.size = s]]
  /\ Goto(t, "w_size")
  /\ UNCHANGED <<fs, inode, dentry, lock, crashes>>

(* file_size = *ppos *)
WriteSize(t) ==
  /\ Lock(t, "w_size", "mgmt", "w_save_lock")
  /\ inode' = [inode EXCEPT ![arg[t].obj].n = arg[t].size]
  /\ UNCHANGED <<fs, dentry, arg, crashes>>

WriteSizeIntrUnlocks(t) == Interrupted(t, "w_size", "mgmt") /\ Fail(t, {"mgmt"})

WriteSizeIntr(t) == Interrupted(t, "w_size", "mgmt") /\ Fail(t, {})

WriteSaveLock(t) == Take(t, "w_save_lock", "sb", "w_save")

WriteSaveIntr(t) == Interrupted(t, "w_save_lock", "sb") /\ Fail(t, {"mgmt"})

WriteSave(t) ==
  /\ pc[t] = "w_save"
  /\ Save(inode[arg[t].obj])
  /\ lock' = Unlocked({"sb", "mgmt"})
  /\ Finish(t)
  /\ inode' = Forget(t, arg[t].obj)
  /\ UNCHANGED <<inodes_count, free_blocks, imap, dirent, dentry, crashes>>

-----------------------------------------------------------------------------
(***************************************************************************)
(* lookup: simplefs_lookup and simplefs_get_inode, of a name that is there *)
(***************************************************************************)
LookupCall(t, d, x) ==
  /\ "lookup" \in Ops
  /\ pc[t] = "idle"
  /\ OpenDir(d) /\ ~DirBusy(d)
  /\ dirent[inode[d].blk][x] # 0 /\ dentry[d][x] = None
  /\ arg' = [arg EXCEPT ![t] = [NoArg EXCEPT !.dir = d, !.name = x,
                                            !.ino = dirent[inode[d].blk][x]]]
  /\ Goto(t, "l_lock")
  /\ UNCHANGED <<fs, inode, dentry, lock, crashes>>

GetInodeLock(t) == Take(t, "l_lock", "mgmt", "l_get")

GetInodeIntr(t) == Interrupted(t, "l_lock", "mgmt") /\ Fail(t, {})

(* Whatever the slot holds becomes the object of the name. *)
GetInode(t) ==
  /\ pc[t] = "l_get"
  /\ \E o \in Addrs :
       /\ Allocatable(o)
       /\ inode' = [inode EXCEPT ![o] = istore[arg[t].ino]]
       /\ dentry' = [dentry EXCEPT ![arg[t].dir][arg[t].name] = o]
  /\ lock' = Unlocked({"mgmt"})
  /\ Finish(t)
  /\ UNCHANGED <<fs, crashes>>

-----------------------------------------------------------------------------
(***************************************************************************)
(* What happens to the module from outside.                                *)
(***************************************************************************)

(* The kernel writes the dirty buffer of the inode store back. *)
Writeback ==
  /\ "writeback" \in Ops
  /\ istoreDisk # istore
  /\ istoreDisk' = istore
  /\ UNCHANGED <<inodes_count, free_blocks, imap, istore, dirent, inode, dentry, lock, pc,
                 arg, crashes>>

(* The shrinker drops an unused dentry: simplefs_dentry_release, destory_inode. *)
Shrink(d, x) ==
  LET o == dentry[d][x] IN
  /\ "shrink" \in Ops
  /\ o \in Addrs
  /\ \A t \in Tasks : o # arg[t].obj /\ o # arg[t].dir
  /\ \A y \in Names : dentry[o][y] = None
  /\ dentry' = [dentry EXCEPT ![d][x] = None]
  /\ inode' = [inode EXCEPT ![o] = ZeroInode]
  /\ UNCHANGED <<fs, lock, pc, arg, crashes>>

(* simplefs_fill_super over an inode store: the bitmap is rebuilt from the
   store, the root directory is read from it, nothing else is cached. *)
Mount(store) ==
  /\ istore' = store
  /\ istoreDisk' = store
  /\ imap' = FillImap(store)
  /\ inode' = [a \in Addrs |-> IF a = RootAddr THEN store[RootIno] ELSE ZeroInode]
  /\ dentry' = NoDentries
  /\ pc' = [t \in Tasks |-> "idle"]
  /\ arg' = [t \in Tasks |-> NoArg]
  /\ UNCHANGED <<inodes_count, free_blocks, dirent>>

(* umount flushes the buffers; reading the root directory needs mgmt. *)
Remount ==
  /\ "remount" \in Ops
  /\ \A t \in Tasks : pc[t] = "idle"
  /\ lock["mgmt"] = None
  /\ Mount(istore)
  /\ UNCHANGED <<lock, crashes>>

(* Power is cut, and the disk mounted again. *)
Crash ==
  /\ crashes < MaxCrashes
  /\ crashes' = crashes + 1
  /\ Mount(istoreDisk)
  /\ lock' = [l \in Locks |-> None]

-----------------------------------------------------------------------------
(* A freshly made image, mounted. *)
Init ==
  /\ inodes_count = MkfsInodesCount
  /\ free_blocks = MkfsFreeBlocks
  /\ imap = FillImap(MkfsInodeStore)
  /\ istore = MkfsInodeStore
  /\ istoreDisk = MkfsInodeStore
  /\ dirent = MkfsDirents
  /\ inode = [a \in Addrs |-> IF a = RootAddr THEN MkfsInodeStore[RootIno] ELSE ZeroInode]
  /\ dentry = NoDentries
  /\ lock = [l \in Locks |-> None]
  /\ pc = [t \in Tasks |-> "idle"]
  /\ arg = [t \in Tasks |-> NoArg]
  /\ crashes = 0

Call(t) ==
  \/ \E d \in Addrs, x \in Names, m \in {"dir", "reg"} : CreateCall(t, d, x, m)
  \/ \E d \in Addrs, x \in Names : UnlinkCall(t, d, x)
  \/ \E d \in Addrs, x \in Names : LookupCall(t, d, x)
  \/ \E o \in Addrs, s \in Sizes : WriteCall(t, o, s)

(* What a task in a system call does when no signal is pending. *)
Step(t) ==
  \/ CreateLock(t) \/ CountLock(t) \/ Count(t) \/ NewInode(t) \/ BlockLock(t)
  \/ GetFreeBlock(t) \/ NoFreeBlock(t) \/ AddLock(t) \/ AddSbLock(t) \/ InodeAdd(t)
  \/ AddName(t) \/ CountChild(t) \/ ParentSaveLock(t) \/ ParentSave(t)
  \/ UnlinkSaveLock(t) \/ UnlinkSave(t) \/ DelLock(t) \/ DelSbLock(t) \/ InodeDel(t)
  \/ UnlinkEnd(t)
  \/ WriteSize(t) \/ WriteSaveLock(t) \/ WriteSave(t)
  \/ GetInodeLock(t) \/ GetInode(t)

Signal(t) ==
  \/ CreateLockIntr(t) \/ CountLockIntr(t) \/ BlockLockIntr(t) \/ AddIntr(t)
  \/ CountChildIntr(t) \/ ParentSaveIntr(t)
  \/ UnlinkSaveIntr(t) \/ DelIntr(t)
  \/ WriteSizeIntr(t) \/ WriteSaveIntr(t)
  \/ GetInodeIntr(t)

Environment ==
  \/ \E d \in Addrs, x \in Names : Shrink(d, x)
  \/ Writeback \/ Remount \/ Crash

Next ==
  \/ \E t \in Tasks : Call(t) \/ Step(t) \/ NewInodeFails(t) \/ Signal(t)
  \/ Environment

Spec == Init /\ [][Next]_vars

(***************************************************************************)
(* A task in a system call is scheduled again and again, and a mutex goes  *)
(* to its waiters in turn: a lock that is free again and again is taken.   *)
(***************************************************************************)
FairSpec == Spec /\ \A t \in Tasks : SF_vars(Step(t))
-----------------------------------------------------------------------------
(***************************************************************************)
(* Properties.                                                             *)
(***************************************************************************)

(* Every variable keeps its type: in particular no counter, inode number or
   block number leaves its range. *)
TypeOK ==
  /\ inodes_count \in 0 .. (Word - 1)
  /\ free_blocks \subseteq Blocks
  /\ imap \subseteq 0 .. ImapBits
  /\ istore \in [Inos -> Inode]
  /\ istoreDisk \in [Inos -> Inode]
  /\ dirent \in [Blocks -> [Names -> 0 .. ImapBits]]
  /\ inode \in [Addrs -> Inode]
  /\ dentry \in [Addrs -> [Names -> Addrs \cup {None}]]
  /\ lock \in [Locks -> Tasks \cup {None}]
  /\ pc \in [Tasks -> Pcs]
  /\ arg \in [Tasks -> Args]
  /\ crashes \in 0 .. MaxCrashes

(* Every inode record there is: in the buffer, on disk, in memory. *)
Records == {istore[k] : k \in Inos} \cup {istoreDisk[k] : k \in Inos} \cup {inode[a] : a \in Addrs}

(* simplefs_sb_get_a_freeblock: no data block ever belongs to two inode
   numbers, in memory or on disk, through interrupted calls and power cuts.
   This is said of runs without writes: a write that still points at a freed
   object can save the old block number that Leftover finds there. *)
UniqueBlocks == \A r, s \in Records : r.blk # 0 /\ r.blk = s.blk => r.ino = s.ino

(* simplefs_sb_get_a_freeblock: a block that any copy of any inode record
   names is never given to a new file, however late the copy is saved: not
   that of a deleted file still being written to, of a recycled object, of a
   create that was interrupted, or of an older state of the disk. *)
HeldTaken == \A r \in Records : r.blk >= FirstBlk => ~FreeAt(free_blocks, r.blk)

(* simplefs_inode_save looks for the number before it writes: a late save
   never brings a deleted file back, so every inode in the store is in its own
   slot with its bit set, and ffz(imap) never finds the number of one. *)
LiveMarked == \A k \in Inos : istore[k].ino # 0 => istore[k].ino = k /\ k \in imap

(* simplefs_create_fs_object, simplefs_unlink: a name that can be found in a
   directory is the name of an inode that is in the inode store, and of the
   right one: no interleaving makes it point at a deleted or half made file. *)
NamesResolve ==
  /\ \A b \in Blocks, x \in Names : dirent[b][x] # 0 => istore[dirent[b][x]].ino = dirent[b][x]
  /\ \A d \in Addrs, x \in Names :
       LET o == dentry[d][x] IN
       o \in Addrs /\ dirent[inode[d].blk][x] # 0 =>
         /\ inode[o].ino = dirent[inode[d].blk][x]
         /\ inode[o].mode = istore[inode[o].ino].mode
         /\ inode[o].blk = istore[inode[o].ino].blk

(* ffz(imap) at create against clear_bit at unlink: an inode number is given
   to a new file only once the old file's name is gone, so no inode ever has
   two names. *)
NamesInjective ==
  \A b, c \in Blocks, x, y \in Names :
    dirent[b][x] # 0 /\ dirent[b][x] = dirent[c][y] => b = c /\ x = y

(* simplefs_inode_add, simplefs_inode_del, fill_imap: the count in the super
   block and the bitmap in memory always agree with the inode store, so that
   a remount finds what was there before. *)
StoreAccounted ==
  /\ inodes_count = Cardinality({k \in Inos : istore[k].ino # 0})
  /\ imap = FillImap(istore)

(* dir_children_count: when nobody is working in a directory its count on disk
   is the number of names in it. *)
ChildrenCounted ==
  \A d \in Addrs :
    OpenDir(d) /\ ~DirBusy(d) =>
      /\ inode[d].n = Cardinality({x \in Names : dirent[inode[d].blk][x] # 0})
      /\ istoreDisk[inode[d].ino].n = inode[d].n

(* simplefs_inode_save is what makes simplefs_inode_add durable: a file whose
   create has returned is on the disk whole, in whatever order other creates
   and unlinks dirty and sync the inode store. *)
CreateDurable ==
  \A d \in Addrs, x \in Names :
    LET o == dentry[d][x] IN
    o \in Addrs /\ dirent[inode[d].blk][x] # 0 =>
      /\ istoreDisk[inode[o].ino].ino = inode[o].ino
      /\ istoreDisk[inode[o].ino].blk = inode[o].blk

(* The points at which a task relies on holding a lock. *)
ChildrenPcs == CreatePcs \ {"c_lock"}
MgmtPcs     == {"c_count", "a_sb", "a_add", "c_save_lock", "c_save", "d_sb", "d_del",
                "w_save_lock", "w_save", "l_get"}
SbPcs       == {"c_block", "a_add", "c_save", "u_save", "d_del", "w_save"}

Guarded(l, section) == \A t \in Tasks : pc[t] \in section => lock[l] = t

Returned(l, section) == \A t \in Tasks : lock[l] = t => pc[t] \in section

(* simplefs_directory_children_update_lock: it is held by the task inside
   create and by nobody else, and given back on every one of the error paths,
   interrupted ones included. *)
ChildrenLockSound == Guarded("children", ChildrenPcs) /\ Returned("children", ChildrenPcs)

(* simplefs_inodes_mgmt_lock protects its critical sections even from tasks
   that lose track of it: whoever is in one is the holder. *)
MgmtLockGuards == Guarded("mgmt", MgmtPcs)

(* simplefs_sb_lock: "must be used for any critical section operation on the
   sb", so whoever is in one holds it. *)
SbLockGuards == Guarded("sb", SbPcs)

(* Every lock that is taken is given back: its holder is in the critical
   section it was taken for. *)
LocksReturned ==
  Returned("children", ChildrenPcs) /\ Returned("mgmt", MgmtPcs) /\ Returned("sb", SbPcs)

(* ffz(imap) is never asked for a bit of a full map, for which it has no
   answer: the data blocks run out before the bits do. *)
ImapHasRoom == \A t \in Tasks : pc[t] = "c_new" => \E n \in 0 .. (ImapBits - 1) : n \notin imap

(* The three locks are taken in an order that lets every system call return. *)
CallsReturn == \A t \in Tasks : pc[t] # "idle" ~> pc[t] = "idle"

(* "First get a free block ..., then add inode to the inode store ..., then
   update the parent directory": a name on disk has its inode on disk. *)
InodeBeforeName ==
  \A b \in Blocks, x \in Names :
    dirent[b][x] # 0 => istoreDisk[dirent[b][x]].ino = dirent[b][x]
=============================================================================
