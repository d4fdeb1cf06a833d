------------------------ MODULE SimpleFSQuietProofs ------------------------
(***************************************************************************)
(* What SimpleFS guarantees besides when no lock wait is interrupted, and  *)
(* what its creates, unlinks and lookups guarantee about names, inodes and *)
(* counts when moreover power is not cut and files are not written to      *)
(* while they are unlinked.                                                *)
(***************************************************************************)
EXTENDS SimpleFSRoomProofs

(***************************************************************************)
(* Locks without signals.  The holder of a lock is where the lock is       *)
(* needed, and the other way round: each half needs the other one, since a *)
(* task drops a lock without being asked whether it is its own.            *)
(***************************************************************************)
Sound(l, section) == Guarded(l, section) /\ Returned(l, section)

QuietLockInv == Sound("children", ChildrenPcs) /\ Sound("mgmt", MgmtPcs) /\ Sound("sb", SbPcs)

(* One task moves with respect to one lock: it takes it as it enters the
   section, drops it as it leaves, or stays on its side of the edge. *)
LEMMA SectionMove ==
  ASSUME TypeInv, NEW l, NEW section, Sound(l, section), NEW t \in Tasks, NEW to, Goto(t, to),
         \/ lock'[l] = lock[l] /\ (to \in section <=> pc[t] \in section)
         \/ lock[l] = None /\ lock'[l] = t /\ to \in section
         \/ pc[t] \in section /\ lock'[l] = None /\ to \notin section
  PROVE  Sound(l, section)'
<1>1. \A u \in Tasks : pc'[u] = IF u = t THEN to ELSE pc[u]
  BY DEF Goto, TypeInv, TypeOK
<1>2. \A u \in Tasks : pc[u] \in section <=> lock[l] = u
  BY DEF Sound, Guarded, Returned
<1>3. None \notin Tasks
  BY FSAssumption
<1>4. \A u \in Tasks : pc'[u] \in section <=> lock'[l] = u
  BY <1>1, <1>2, <1>3
<1> QED
  BY <1>4 DEF Sound, Guarded, Returned

(* The same for the three locks together. *)
LEMMA QuietMove ==
  ASSUME TypeInv, QuietLockInv, NEW t \in Tasks, NEW to, Goto(t, to),
         \/ lock'["children"] = lock["children"] /\ (to \in ChildrenPcs <=> pc[t] \in ChildrenPcs)
         \/ lock["children"] = None /\ lock'["children"] = t /\ to \in ChildrenPcs
         \/ pc[t] \in ChildrenPcs /\ lock'["children"] = None /\ to \notin ChildrenPcs,
         \/ lock'["mgmt"] = lock["mgmt"] /\ (to \in MgmtPcs <=> pc[t] \in MgmtPcs)
         \/ lock["mgmt"] = None /\ lock'["mgmt"] = t /\ to \in MgmtPcs
         \/ pc[t] \in MgmtPcs /\ lock'["mgmt"] = None /\ to \notin MgmtPcs,
         \/ lock'["sb"] = lock["sb"] /\ (to \in SbPcs <=> pc[t] \in SbPcs)
         \/ lock["sb"] = None /\ lock'["sb"] = t /\ to \in SbPcs
         \/ pc[t] \in SbPcs /\ lock'["sb"] = None /\ to \notin SbPcs
  PROVE  QuietLockInv'
<1>1. Sound("children", ChildrenPcs)'
  BY SectionMove DEF QuietLockInv
<1>2. Sound("mgmt", MgmtPcs)'
  BY SectionMove DEF QuietLockInv
<1>3. Sound("sb", SbPcs)'
  BY SectionMove DEF QuietLockInv
<1> QED
  BY <1>1, <1>2, <1>3 DEF QuietLockInv

(* Taking a lock leads into its section and into no other. *)
LEMMA QuietTakeStep ==
  ASSUME TypeInv, QuietLockInv, NEW t \in Tasks, TakeStep(t)
  PROVE  QuietLockInv'
<1> USE DEF Locks, ChildrenPcs, MgmtPcs, SbPcs, CreatePcs
<1>0. lock \in [Locks -> Tasks \cup {None}]
  BY DEF TypeInv, TypeOK
<1>1. CASE CreateLock(t)
  BY <1>0, <1>1, QuietMove DEF CreateLock, Take, Lock
<1>2. CASE CountLock(t)
  BY <1>0, <1>2, QuietMove DEF CountLock, Take, Lock
<1>3. CASE BlockLock(t)
  BY <1>0, <1>3, QuietMove DEF BlockLock, Take, Lock
<1>4. CASE AddLock(t)
  BY <1>0, <1>4, QuietMove DEF AddLock, Take, Lock
<1>5. CASE AddSbLock(t)
  BY <1>0, <1>5, QuietMove DEF AddSbLock, Take, Lock
<1>6. CASE ParentSaveLock(t)
  BY <1>0, <1>6, QuietMove DEF ParentSaveLock, Take, Lock
<1>7. CASE UnlinkSaveLock(t)
  BY <1>0, <1>7, QuietMove DEF UnlinkSaveLock, Take, Lock
<1>8. CASE DelLock(t)
  BY <1>0, <1>8, QuietMove DEF DelLock, Take, Lock
<1>9. CASE DelSbLock(t)
  BY <1>0, <1>9, QuietMove DEF DelSbLock, Take, Lock
<1>10. CASE WriteSaveLock(t)
  BY <1>0, <1>10, QuietMove DEF WriteSaveLock, Take, Lock
<1>11. CASE GetInodeLock(t)
  BY <1>0, <1>11, QuietMove DEF GetInodeLock, Take, Lock
<1> QED
  BY <1>1, <1>2, <1>3, <1>4, <1>5, <1>6, <1>7, <1>8, <1>9, <1>10, <1>11 DEF TakeStep

(* The steps that do the work drop the locks they hold, as they leave. *)
LEMMA QuietWork ==
  ASSUME TypeInv, QuietLockInv, NEW t \in Tasks, WorkStep(t)
  PROVE  QuietLockInv'
<1> USE DEF Locks, ChildrenPcs, MgmtPcs, SbPcs, CreatePcs
<1>0. lock \in [Locks -> Tasks \cup {None}]
  BY DEF TypeInv, TypeOK
<1>1. CASE Count(t)
  BY <1>0, <1>1, QuietMove DEF Count, Fail, Finish, Unlocked
<1>2. CASE NewInode(t)
  BY <1>0, <1>2, QuietMove DEF NewInode
<1>3. CASE GetFreeBlock(t)
  BY <1>0, <1>3, QuietMove DEF GetFreeBlock, Unlocked
<1>4. CASE InodeAdd(t)
  BY <1>0, <1>4, QuietMove DEF InodeAdd, Unlocked
<1>5. CASE AddName(t)
  BY <1>0, <1>5, QuietMove DEF AddName
<1>6. CASE CountChild(t)
  BY <1>0, <1>6, QuietMove DEF CountChild, Lock
<1>7. CASE ParentSave(t)
  BY <1>0, <1>7, QuietMove DEF ParentSave, Finish, Unlocked
<1>8. CASE UnlinkSave(t)
  BY <1>0, <1>8, QuietMove DEF UnlinkSave, Unlocked
<1>9. CASE InodeDel(t)
  BY <1>0, <1>9, QuietMove DEF InodeDel, Unlocked
<1>10. CASE UnlinkEnd(t)
  BY <1>0, <1>10, QuietMove DEF UnlinkEnd, Finish
<1>11. CASE WriteSize(t)
  BY <1>0, <1>11, QuietMove DEF WriteSize, Lock
<1>12. CASE WriteSave(t)
  BY <1>0, <1>12, QuietMove DEF WriteSave, Finish, Unlocked
<1>13. CASE GetInode(t)
  BY <1>0, <1>13, QuietMove DEF GetInode, Finish, Unlocked
<1> QED
  BY <1>1, <1>2, <1>3, <1>4, <1>5, <1>6, <1>7, <1>8, <1>9, <1>10, <1>11, <1>12, <1>13
  DEF WorkStep

(* Without signals two error paths are left: out of memory, out of blocks. *)
LEMMA QuietKinds ==
  ASSUME ~Signals, Next
  PROVE  \/ \E t \in Tasks : \/ Call(t) \/ TakeStep(t) \/ WorkStep(t)
                             \/ NewInodeFails(t) \/ NoFreeBlock(t)
         \/ Environment
BY DEF Next, Step, Signal, TakeStep, WorkStep, CreateLockIntr, CountLockIntr, BlockLockIntr,
       AddIntr, CountChildIntr, ParentSaveIntr, UnlinkSaveIntr, DelIntr, WriteSizeIntr,
       WriteSaveIntr, GetInodeIntr, Interrupted

(* QuietLockInv is inductive when no signal comes. *)
LEMMA QuietLockStep ==
  ASSUME ~Signals
  PROVE  TypeInv /\ QuietLockInv /\ [Next]_vars => QuietLockInv'
<1> SUFFICES ASSUME TypeInv, QuietLockInv, [Next]_vars PROVE QuietLockInv'
  OBVIOUS
<1> USE DEF Locks, ChildrenPcs, MgmtPcs, SbPcs, CreatePcs
<1>1. ASSUME NEW t \in Tasks, Call(t) PROVE QuietLockInv'
  <2>1. pc[t] = "idle" /\ UNCHANGED lock
    BY <1>1 DEF Call, CreateCall, UnlinkCall, LookupCall, WriteCall
  <2>2. \E to \in {"c_lock", "u_save_lock", "l_lock", "w_size"} : Goto(t, to)
    BY <1>1 DEF Call, CreateCall, UnlinkCall, LookupCall, WriteCall
  <2> QED
    BY <2>1, <2>2, QuietMove
<1>2. ASSUME NEW t \in Tasks, NewInodeFails(t) PROVE QuietLockInv'
  BY <1>2, QuietMove DEF NewInodeFails, Fail, Finish, Unlocked
<1>3. ASSUME NEW t \in Tasks, NoFreeBlock(t) PROVE QuietLockInv'
  BY <1>3, QuietMove DEF NoFreeBlock, Fail, Finish, Unlocked
<1>4. ASSUME UNCHANGED <<lock, pc>> PROVE QuietLockInv'
  BY <1>4 DEF QuietLockInv, Sound, Guarded, Returned
<1>5. ASSUME Environment PROVE QuietLockInv'
  <2>1. CASE Remount
    <3>1. \A t \in Tasks : pc'[t] = pc[t]
      BY <2>1 DEF Remount, Mount
    <3>2. UNCHANGED lock
      BY <2>1 DEF Remount
    <3> QED
      BY <3>1, <3>2 DEF QuietLockInv, Sound, Guarded, Returned
  <2>2. CASE Crash
    BY <2>2, FSAssumption DEF Crash, Mount, QuietLockInv, Sound, Guarded, Returned
  <2> QED
    BY <1>4, <1>5, <2>1, <2>2 DEF Environment, Shrink, Writeback
<1> QED
  BY <1>1, <1>2, <1>3, <1>4, <1>5, QuietKinds, QuietTakeStep, QuietWork DEF vars

(* No lock is held yet. *)
LEMMA QuietLockInit == Init => QuietLockInv
BY FSAssumption DEF Init, QuietLockInv, Sound, Guarded, Returned, ChildrenPcs, MgmtPcs, SbPcs,
                    CreatePcs, Locks

(* As long as no lock wait is interrupted, each of the three mutexes is given
   back by the call that took it, on every path, power cuts included; with
   signals the mgmt lock is not. *)
THEOREM LocksGivenBack ==
  ASSUME ~Signals
  PROVE  Spec => []LocksReturned
<1>1. QuietLockInv => LocksReturned
  BY DEF QuietLockInv, Sound, LocksReturned
<1>2. TypeInv /\ QuietLockInv /\ [Next]_vars => QuietLockInv'
  BY QuietLockStep
<1> QED
  BY <1>1, <1>2, TypeInit, TypeStep, QuietLockInit, PTL DEF Spec

(* Without signals the sb lock does protect the super block: the error path
   that drops it for its holder is the only reason why it does not. *)
THEOREM SbLock ==
  ASSUME ~Signals
  PROVE  Spec => []SbLockGuards
<1>1. QuietLockInv => SbLockGuards
  BY DEF QuietLockInv, Sound, SbLockGuards
<1>2. TypeInv /\ QuietLockInv /\ [Next]_vars => QuietLockInv'
  BY QuietLockStep
<1> QED
  BY <1>1, <1>2, TypeInit, TypeStep, QuietLockInit, PTL DEF Spec
-----------------------------------------------------------------------------
(***************************************************************************)
(* The quiet system: no signal, no power cut, no write.  Each of the three *)
(* breaks one of the theorems below.  The bits of imap must suffice for    *)
(* the blocks there are, where the last one may be used.                   *)
(***************************************************************************)
Quiet ==
  /\ ~Signals
  /\ MaxCrashes = 0
  /\ "write" \notin Ops
  /\ 3 + Cardinality(Freeable(MkfsFreeBlocks)) <= ImapBits

(* What is known of every state whatever happens. *)
BaseInv == TypeInv /\ QuietLockInv /\ LockInv /\ NoWriter /\ BlockInv /\ RoomInv

(***************************************************************************)
(* The tree in memory.  A task works in an open directory which is its     *)
(* own, on an object that is its own: a new one, which no name has, or the *)
(* one that the name it removes is bound to.                               *)
(***************************************************************************)
Cached(a) == a = RootAddr \/ HasDentry(a)

TaskInv(t) ==
  /\ pc[t] = "idle" => arg[t] = NoArg
  /\ pc[t] \notin WritePcs
  /\ pc[t] \notin ObjPcs => arg[t].obj = None
  /\ pc[t] \in DirPcs => OpenDir(arg[t].dir)
  /\ pc[t] \in CreatePcs \cup LookupPcs => dentry[arg[t].dir][arg[t].name] = None
  /\ pc[t] \in CreatePcs /\ arg[t].obj # None => ~Cached(arg[t].obj)
  /\ pc[t] \in UnlinkPcs => /\ dentry[arg[t].dir][arg[t].name] = arg[t].obj
                            /\ inode[arg[t].obj].mode # "dir"

OwnDirs == \A t, u \in Tasks : arg[t].dir # None /\ arg[t].dir = arg[u].dir => t = u

DentryInv ==
  \A d \in Addrs, x \in Names : dentry[d][x] \in Addrs =>
    /\ OpenDir(d)
    /\ dentry[d][x] # RootAddr
    /\ \A e \in Addrs, y \in Names : dentry[e][y] = dentry[d][x] => e = d /\ y = x

TreeInv == (\A t \in Tasks : TaskInv(t)) /\ OwnDirs /\ DentryInv

(* A task that is in no directory is idle. *)
LEMMA Idle ==
  ASSUME TypeInv, NEW t \in Tasks, TaskInv(t)
  PROVE  /\ pc[t] \in DirPcs \/ pc[t] = "idle"
         /\ arg[t].dir = None <=> pc[t] = "idle"
         /\ arg[t].obj # None => pc[t] \in ObjPcs /\ pc[t] \in DirPcs /\ arg[t].obj \in Addrs
<1>1. pc[t] \in DirPcs \/ pc[t] = "idle"
  BY DEF TypeInv, TypeOK, TaskInv, Pcs, DirPcs, CreatePcs, UnlinkPcs, LookupPcs, WritePcs
<1>2. pc[t] = "idle" => arg[t].dir = None
  BY DEF TaskInv, NoArg
<1>3. pc[t] \in DirPcs => arg[t].dir \in Addrs /\ arg[t].dir # None
  BY FSAssumption DEF TypeInv, ArgsOK
<1>4. arg[t].obj # None => pc[t] \in ObjPcs
  BY DEF TaskInv
<1>5. pc[t] \in ObjPcs => arg[t].obj \in Addrs
  BY DEF TypeInv, ArgsOK
<1>6. "idle" \notin DirPcs /\ "idle" \notin ObjPcs
  BY DEF DirPcs, ObjPcs, CreatePcs, UnlinkPcs, LookupPcs, WritePcs
<1> QED
  BY <1>1, <1>2, <1>3, <1>4, <1>5, <1>6

(* The kinds of call exclude each other. *)
LEMMA PcKinds ==
  ASSUME NEW p \in DirPcs
  PROVE  /\ p \in CreatePcs \/ p \in UnlinkPcs \/ p \in LookupPcs
         /\ p \in CreatePcs => p \notin UnlinkPcs /\ p \notin LookupPcs
         /\ p \in UnlinkPcs => p \notin LookupPcs /\ p \in ObjPcs
         /\ p \in LookupPcs => p \notin ObjPcs
         /\ p \in CreatePcs /\ p \in ObjPcs => p \in ChildrenPcs
         /\ p # "idle"
BY DEF DirPcs, CreatePcs, UnlinkPcs, LookupPcs, ObjPcs, ChildrenPcs, WritePcs

(* No two tasks work on one object. *)
LEMMA ObjDistinct ==
  ASSUME TypeInv, LockInv, TreeInv, NEW t \in Tasks, NEW u \in Tasks,
         arg[t].obj # None, arg[t].obj = arg[u].obj
  PROVE  t = u
<1>0. TaskInv(t) /\ TaskInv(u)
  BY DEF TreeInv
<1>1. /\ pc[t] \in DirPcs /\ pc[t] \in ObjPcs /\ pc[u] \in DirPcs /\ pc[u] \in ObjPcs
      /\ arg[t].obj \in Addrs
  BY <1>0, Idle
<1>2. pc[t] \in CreatePcs \/ pc[t] \in UnlinkPcs
  BY <1>1, PcKinds
<1>3. pc[u] \in CreatePcs \/ pc[u] \in UnlinkPcs
  BY <1>1, PcKinds
<1>4. CASE pc[t] \in CreatePcs /\ pc[u] \in CreatePcs
  BY <1>1, <1>4, PcKinds, OneCreator
<1>5. ASSUME NEW v \in Tasks, pc[v] \in UnlinkPcs
      PROVE  /\ Cached(arg[v].obj)
             /\ arg[v].dir \in Addrs /\ arg[v].name \in Names
             /\ dentry[arg[v].dir][arg[v].name] = arg[v].obj
  <2>1. arg[v].dir \in Addrs /\ arg[v].name \in Names
    BY <1>5, ObjType DEF DirPcs
  <2>2. dentry[arg[v].dir][arg[v].name] = arg[v].obj
    BY <1>5 DEF TreeInv, TaskInv
  <2> QED
    BY <2>1, <2>2 DEF Cached, HasDentry
<1>6. ASSUME NEW v \in Tasks, pc[v] \in CreatePcs, arg[v].obj # None PROVE ~Cached(arg[v].obj)
  BY <1>6 DEF TreeInv, TaskInv
<1>7. CASE pc[t] \in UnlinkPcs /\ pc[u] \in UnlinkPcs
  <2>1. arg[t].dir = arg[u].dir
    BY <1>1, <1>5, <1>7 DEF TreeInv, DentryInv
  <2>2. arg[t].dir # None
    BY <1>5, <1>7, FSAssumption
  <2> QED
    BY <2>1, <2>2 DEF TreeInv, OwnDirs
<1> QED
  BY <1>2, <1>3, <1>4, <1>5, <1>6, <1>7

(* An object that the allocator may return is used by no one. *)
LEMMA AllocatableFree ==
  ASSUME TypeInv, TreeInv, NEW o \in Addrs, Allocatable(o)
  PROVE  ~Cached(o) /\ \A t \in Tasks : arg[t].obj # o
<1>1. ~Cached(o)
  BY DEF Allocatable, Cached
<1>2. ASSUME NEW t \in Tasks, arg[t].obj = o PROVE FALSE
  <2>1. arg[t].dir = None
    BY <1>2 DEF Allocatable
  <2>2. arg[t].obj # None
    BY <1>2, FSAssumption
  <2>3. TaskInv(t)
    BY DEF TreeInv
  <2>4. pc[t] \in DirPcs /\ pc[t] = "idle"
    BY <2>1, <2>2, <2>3, Idle
  <2> QED
    BY <2>4, PcKinds
<1> QED
  BY <1>1, <1>2

-----------------------------------------------------------------------------
(* A step of one task that binds and unbinds no name keeps the tree if it is
   right about its own directory and object. *)
LEMMA TreeKeep ==
  ASSUME TypeInv, TypeInv', TreeInv, NEW t \in Tasks, UNCHANGED dentry,
         \A a \in Addrs : Cached(a) => inode'[a].mode = inode[a].mode,
         \A u \in Tasks : u # t => pc'[u] = pc[u] /\ arg'[u] = arg[u],
         TaskInv(t)',
         \A u \in Tasks : u # t /\ arg'[t].dir # None => arg[u].dir # arg'[t].dir
  PROVE  TreeInv'
<1>1. \A a : HasDentry(a)' = HasDentry(a) /\ Cached(a)' = Cached(a)
  BY DEF HasDentry, Cached
<1>2. \A a \in Addrs : OpenDir(a)' <=> OpenDir(a)
  BY <1>1 DEF OpenDir, Cached
<1>3. DentryInv'
  BY <1>2 DEF DentryInv, TreeInv
<1>4. OwnDirs'
  BY DEF OwnDirs, TreeInv
<1>5. ASSUME NEW u \in Tasks, u # t PROVE TaskInv(u)'
  <2>1. pc'[u] = pc[u] /\ arg'[u] = arg[u] /\ TaskInv(u)
    BY <1>5 DEF TreeInv
  <2>2. pc[u] \in DirPcs => arg[u].dir \in Addrs
    BY ObjType
  <2>3. pc[u] \in UnlinkPcs => inode'[arg[u].obj].mode = inode[arg[u].obj].mode
    <3> SUFFICES ASSUME pc[u] \in UnlinkPcs PROVE inode'[arg[u].obj].mode = inode[arg[u].obj].mode
      OBVIOUS
    <3>1. arg[u].dir \in Addrs /\ arg[u].name \in Names /\ arg[u].obj \in Addrs
      BY ObjType DEF DirPcs, ObjPcs
    <3>2. Cached(arg[u].obj)
      BY <2>1, <3>1 DEF TaskInv, Cached, HasDentry
    <3> QED
      BY <3>1, <3>2
  <2> QED
    BY <1>1, <1>2, <2>1, <2>2, <2>3 DEF TaskInv
<1> QED
  BY <1>3, <1>4, <1>5 DEF TreeInv

-----------------------------------------------------------------------------
(* Where create has an inode number that is in no store yet, has given the
   name, has added the inode; where unlink has yet to delete the inode; and where
   the count of a directory is ahead of its record in the inode store. *)
FreshPcs   == {"c_block_lock", "c_block"} \cup AddPcs
NamedPcs   == {"c_parent", "c_save_lock", "c_save"}
AddedPcs   == {"c_name"} \cup NamedPcs
DelPcs     == {"u_save_lock", "u_save", "d_mgmt", "d_sb", "d_del"}
UnsavedPcs == {"c_save_lock", "c_save", "u_save_lock", "u_save"}

(* Two points of a call between which only locks make a difference. *)
Alike(p, q) ==
  /\ p \in CreatePcs <=> q \in CreatePcs
  /\ p \in UnlinkPcs <=> q \in UnlinkPcs
  /\ p \in LookupPcs <=> q \in LookupPcs
  /\ p \in FreshPcs <=> q \in FreshPcs
  /\ p \in AddPcs <=> q \in AddPcs
  /\ p \in NamedPcs <=> q \in NamedPcs
  /\ p \in DelPcs <=> q \in DelPcs
  /\ p \in UnsavedPcs <=> q \in UnsavedPcs
  /\ p \in ObjPcs <=> q \in ObjPcs
  /\ q \notin {"idle", "c_name", "c_parent"} \cup WritePcs

(* The steps of a call that take a lock, and the count that lets create go on. *)
MoveStep(t) == TakeStep(t) \/ (Count(t) /\ Goto(t, "c_new"))

(* Such a step changes nothing but the lock and the point the task is at, and
   the new point is one at which the task has the same things in hand. *)
LEMMA Moves ==
  ASSUME TypeInv, NEW t \in Tasks, pc[t] \notin WritePcs, MoveStep(t)
  PROVE  /\ UNCHANGED <<fs, inode, dentry, arg>>
         /\ pc[t] \notin {"idle", "c_name", "c_parent"}
         /\ \E to \in Pcs : Goto(t, to) /\ Alike(pc[t], to)
<1> USE DEF Alike, CreatePcs, UnlinkPcs, LookupPcs, WritePcs, FreshPcs, AddPcs, NamedPcs, DelPcs,
            UnsavedPcs, ObjPcs, Pcs
<1>1. CASE Count(t) /\ Goto(t, "c_new")
  <2>1. pc[t] = "c_count"
    BY <1>1 DEF Count
  <2>2. ~Goto(t, "idle")
    BY <1>1, <2>1 DEF Goto, TypeInv, TypeOK
  <2> QED
    BY <1>1, <2>1, <2>2 DEF Count, Fail, Finish
<1>2. CASE TakeStep(t)
  BY <1>2
  DEF TakeStep, Take, Lock, CreateLock, CountLock, BlockLock, AddLock, AddSbLock, ParentSaveLock,
      UnlinkSaveLock, DelLock, DelSbLock, WriteSaveLock, GetInodeLock
<1> QED
  BY <1>1, <1>2 DEF MoveStep

(* What the tree is made of is the same wherever a call stands with its locks. *)
LEMMA TreeMove ==
  ASSUME TypeInv, TypeInv', TreeInv, NEW t \in Tasks, MoveStep(t)
  PROVE  TreeInv'
<1>0. TaskInv(t)
  BY DEF TreeInv
<1>1. /\ UNCHANGED <<inode, dentry, arg>>
      /\ pc[t] # "idle"
      /\ \E to \in Pcs : Goto(t, to) /\ Alike(pc[t], to)
  BY <1>0, Moves DEF TaskInv
<1>2. PICK to \in Pcs : Goto(t, to) /\ Alike(pc[t], to)
  BY <1>1
<1>3. pc'[t] = to /\ \A u \in Tasks : u # t => pc'[u] = pc[u]
  BY <1>2 DEF Goto, TypeInv, TypeOK
<1>4. /\ pc[t] \in DirPcs <=> to \in DirPcs
      /\ pc[t] \in ObjPcs <=> to \in ObjPcs
      /\ to # "idle" /\ to \notin WritePcs
  BY <1>2 DEF Alike, DirPcs
<1>5. TaskInv(t)'
  BY <1>0, <1>1, <1>2, <1>3, <1>4 DEF TaskInv, Alike, OpenDir, HasDentry, Cached
<1>6. \A u \in Tasks : u # t /\ arg'[t].dir # None => arg[u].dir # arg'[t].dir
  BY <1>1 DEF TreeInv, OwnDirs
<1> QED
  BY <1>1, <1>3, <1>5, <1>6, TreeKeep

(* A call starts in a directory that is open and nobody's. *)
LEMMA TreeCall ==
  ASSUME Quiet, TypeInv, TypeInv', TreeInv, NEW t \in Tasks, Call(t)
  PROVE  TreeInv'
<1>0. pc[t] = "idle" /\ TaskInv(t) /\ arg[t] = NoArg
  BY DEF Call, CreateCall, UnlinkCall, LookupCall, WriteCall, TreeInv, TaskInv
<1>1. ASSUME NEW d \in Addrs, NEW x \in Names, NEW m \in {"dir", "reg"}, CreateCall(t, d, x, m)
      PROVE  TreeInv'
  <2>1. /\ UNCHANGED <<inode, dentry>> /\ OpenDir(d) /\ dentry[d][x] = None
        /\ \A u \in Tasks : arg[u].dir # d
        /\ pc' = [pc EXCEPT ![t] = "c_lock"]
        /\ arg' = [arg EXCEPT ![t] = [NoArg EXCEPT !.dir = d, !.name = x, !.mode = m]]
    BY <1>1 DEF CreateCall, DirBusy, Goto
  <2>2. /\ pc'[t] = "c_lock" /\ \A u \in Tasks : u # t => pc'[u] = pc[u] /\ arg'[u] = arg[u]
        /\ arg'[t].dir = d /\ arg'[t].name = x /\ arg'[t].obj = None
    BY <2>1 DEF TypeInv, TypeOK, NoArg
  <2>3. TaskInv(t)'
    BY <2>1, <2>2 DEF TaskInv, OpenDir, HasDentry, ObjPcs, UnlinkPcs, WritePcs
  <2> QED
    BY <2>1, <2>2, <2>3, TreeKeep
<1>2. ASSUME NEW d \in Addrs, NEW x \in Names, LookupCall(t, d, x)
      PROVE  TreeInv'
  <2>1. /\ UNCHANGED <<inode, dentry>> /\ OpenDir(d) /\ dentry[d][x] = None
        /\ \A u \in Tasks : arg[u].dir # d
        /\ pc' = [pc EXCEPT ![t] = "l_lock"]
        /\ arg' = [arg EXCEPT ![t] = [NoArg EXCEPT !.dir = d, !.name = x,
                                                  !.ino = dirent[inode[d].blk][x]]]
    BY <1>2 DEF LookupCall, DirBusy, Goto
  <2>2. /\ pc'[t] = "l_lock" /\ \A u \in Tasks : u # t => pc'[u] = pc[u] /\ arg'[u] = arg[u]
        /\ arg'[t].dir = d /\ arg'[t].name = x /\ arg'[t].obj = None
    BY <2>1 DEF TypeInv, TypeOK, NoArg
  <2>3. TaskInv(t)'
    BY <2>1, <2>2 DEF TaskInv, OpenDir, HasDentry, ObjPcs, UnlinkPcs, WritePcs, CreatePcs
  <2> QED
    BY <2>1, <2>2, <2>3, TreeKeep
<1>3. ASSUME NEW d \in Addrs, NEW x \in Names, UnlinkCall(t, d, x)
      PROVE  TreeInv'
  <2> DEFINE o == dentry[d][x]
  <2>1. /\ UNCHANGED dentry /\ o \in Addrs /\ inode[o].mode # "dir"
        /\ \A u \in Tasks : arg[u].dir # d
        /\ pc' = [pc EXCEPT ![t] = "u_save_lock"]
        /\ inode' = [inode EXCEPT ![d].n = Dec(@)]
        /\ arg' = [arg EXCEPT ![t] = [NoArg EXCEPT !.dir = d, !.name = x, !.obj = o]]
    BY <1>3 DEF UnlinkCall, DirBusy, Goto
  <2>2. OpenDir(d) /\ HasDentry(o)
    BY <2>1 DEF TreeInv, DentryInv, HasDentry
  <2> HIDE DEF o
  <2>3. /\ pc'[t] = "u_save_lock" /\ \A u \in Tasks : u # t => pc'[u] = pc[u] /\ arg'[u] = arg[u]
        /\ arg'[t].dir = d /\ arg'[t].name = x /\ arg'[t].obj = o
    BY <2>1 DEF TypeInv, TypeOK, NoArg
  <2>4. \A a \in Addrs : inode'[a].mode = inode[a].mode
    BY <2>1 DEF TypeInv, TypeOK, Inode
  <2>5. TaskInv(t)'
    <3>1. OpenDir(d)'
      BY <2>1, <2>2, <2>4 DEF OpenDir, HasDentry
    <3>2. dentry'[d][x] = o /\ inode'[o].mode # "dir"
      BY <2>1, <2>4 DEF o
    <3>3. "u_save_lock" \in ObjPcs /\ "u_save_lock" \notin CreatePcs \cup LookupPcs \cup WritePcs
      BY DEF ObjPcs, UnlinkPcs, CreatePcs, LookupPcs, WritePcs
    <3> QED
      BY <2>3, <3>1, <3>2, <3>3 DEF TaskInv
  <2> QED
    BY <2>1, <2>3, <2>4, <2>5, TreeKeep
<1> QED
  BY <1>1, <1>2, <1>3 DEF Call, WriteCall, Quiet

(* A task that has given up or returned has nothing any more. *)
LEMMA TaskDone ==
  ASSUME TypeInv, NEW t \in Tasks, Finish(t)
  PROVE  /\ TaskInv(t)' /\ pc'[t] = "idle" /\ arg'[t] = NoArg
         /\ arg'[t].dir = None /\ arg'[t].obj = None
         /\ \A u \in Tasks : u # t => pc'[u] = pc[u] /\ arg'[u] = arg[u]
<1>1. /\ pc'[t] = "idle" /\ arg'[t] = NoArg
      /\ \A u \in Tasks : u # t => pc'[u] = pc[u] /\ arg'[u] = arg[u]
  BY DEF Finish, Goto, TypeInv, TypeOK
<1>2. "idle" \notin WritePcs \cup ObjPcs \cup DirPcs \cup CreatePcs \cup LookupPcs \cup UnlinkPcs
  BY DEF WritePcs, ObjPcs, DirPcs, CreatePcs, LookupPcs, UnlinkPcs
<1> QED
  BY <1>1, <1>2 DEF TaskInv, NoArg

(* Giving up keeps the tree: the object given up was in nobody's way. *)
LEMMA TreeFail ==
  ASSUME TypeInv, TypeInv', TreeInv, NEW t \in Tasks, NEW ls, Fail(t, ls)
  PROVE  TreeInv'
<1>1. Finish(t) /\ UNCHANGED dentry /\ inode' = Forget(t, arg[t].obj)
  BY DEF Fail
<1>2. \A a \in Addrs : Cached(a) => inode'[a] = inode[a]
  BY <1>1 DEF Forget, Cached
<1> QED
  BY <1>1, <1>2, TaskDone, TreeKeep

(* A task that goes on from one point to another with its directory, name and
   object, and leaves modes alone. *)
LEMMA TreeGo ==
  ASSUME TypeInv, TypeInv', TreeInv, NEW t \in Tasks, NEW to \in Pcs, Goto(t, to),
         UNCHANGED <<dentry, arg>>,
         \A a \in Addrs : Cached(a) => inode'[a].mode = inode[a].mode,
         pc[t] \in CreatePcs \/ pc[t] \in UnlinkPcs,
         pc[t] \in CreatePcs <=> to \in CreatePcs,
         pc[t] \in UnlinkPcs <=> to \in UnlinkPcs,
         to \in ObjPcs
  PROVE  TreeInv'
<1>1. TaskInv(t) /\ pc'[t] = to /\ arg'[t] = arg[t] /\ \A u \in Tasks : u # t => pc'[u] = pc[u]
  BY DEF Goto, TypeInv, TypeOK, TreeInv
<1>2. /\ pc[t] \in DirPcs /\ arg[t].dir \in Addrs /\ arg[t].name \in Names
      /\ pc[t] \in UnlinkPcs => arg[t].obj \in Addrs
  BY ObjType DEF DirPcs, ObjPcs
<1>3. to \notin WritePcs /\ to \notin LookupPcs /\ to # "idle"
  BY DEF CreatePcs, UnlinkPcs, WritePcs, LookupPcs
<1>4. \A a : HasDentry(a)' = HasDentry(a) /\ Cached(a)' = Cached(a)
  BY DEF HasDentry, Cached
<1>5. OpenDir(arg[t].dir)'
  BY <1>1, <1>2, <1>4 DEF TaskInv, OpenDir, Cached
<1>6. pc[t] \in UnlinkPcs => inode'[arg[t].obj].mode # "dir"
  BY <1>1, <1>2 DEF TaskInv, Cached, HasDentry
<1>7. TaskInv(t)'
  BY <1>1, <1>3, <1>4, <1>5, <1>6 DEF TaskInv
<1>8. \A u \in Tasks : u # t /\ arg'[t].dir # None => arg[u].dir # arg'[t].dir
  BY <1>1 DEF TreeInv, OwnDirs
<1> QED
  BY <1>1, <1>7, <1>8, TreeKeep

(* The steps of create and unlink between their first and their last. *)
LEMMA TreeWork ==
  ASSUME TypeInv, TypeInv', LockInv, TreeInv, NEW t \in Tasks,
         \/ NewInode(t) \/ GetFreeBlock(t) \/ InodeAdd(t) \/ AddName(t) \/ CountChild(t)
         \/ UnlinkSave(t) \/ InodeDel(t)
  PROVE  TreeInv'
<1> USE DEF Pcs, CreatePcs, UnlinkPcs, ObjPcs
<1>1. CASE NewInode(t)
  <2>1. PICK o \in Addrs, i \in 0 .. ImapBits :
          /\ Allocatable(o)
          /\ inode' = [inode EXCEPT ![o] = [mode |-> arg[t].mode, ino |-> i,
                                            blk |-> Leftover(o), n |-> 0]]
          /\ arg' = [arg EXCEPT ![t].obj = o]
    BY <1>1 DEF NewInode
  <2>2. ~Cached(o)
    BY <2>1, AllocatableFree
  <2>3. \A a \in Addrs : Cached(a) => inode'[a] = inode[a]
    BY <2>1, <2>2 DEF TypeInv, TypeOK
  <2>4. /\ pc[t] = "c_new" /\ pc'[t] = "c_block_lock" /\ UNCHANGED dentry
        /\ \A u \in Tasks : u # t => pc'[u] = pc[u]
    BY <1>1 DEF NewInode, Goto, TypeInv, TypeOK
  <2>5. /\ arg'[t].dir = arg[t].dir /\ arg'[t].name = arg[t].name /\ arg'[t].obj = o
        /\ \A u \in Tasks : u # t => arg'[u] = arg[u]
    BY <2>1 DEF TypeInv, TypeOK, Args
  <2>6. TaskInv(t) /\ arg[t].dir \in Addrs
    BY <2>4, ObjType DEF TreeInv, DirPcs
  <2>7. \A a : HasDentry(a)' = HasDentry(a) /\ Cached(a)' = Cached(a)
    BY <2>4 DEF HasDentry, Cached
  <2>8. OpenDir(arg[t].dir) /\ dentry[arg[t].dir][arg[t].name] = None
    BY <2>4, <2>6 DEF TaskInv, DirPcs
  <2>9. OpenDir(arg[t].dir)'
    BY <2>3, <2>5, <2>6, <2>7, <2>8 DEF OpenDir, Cached
  <2>10. TaskInv(t)'
    BY <2>2, <2>4, <2>5, <2>7, <2>8, <2>9 DEF TaskInv, WritePcs
  <2>11. \A u \in Tasks : u # t /\ arg'[t].dir # None => arg[u].dir # arg'[t].dir
    BY <2>5 DEF TreeInv, OwnDirs
  <2> QED
    BY <2>3, <2>4, <2>5, <2>10, <2>11, TreeKeep
<1>2. CASE GetFreeBlock(t)
  <2>1. \A a \in Addrs : inode'[a].mode = inode[a].mode
    BY <1>2 DEF GetFreeBlock, TypeInv, TypeOK, Inode
  <2> QED
    BY <1>2, <2>1, TreeGo DEF GetFreeBlock
<1>3. CASE InodeAdd(t)
  BY <1>3, TreeGo DEF InodeAdd
<1>4. CASE AddName(t)
  BY <1>4, TreeGo DEF AddName
<1>5. CASE CountChild(t)
  <2>1. \A a \in Addrs : inode'[a].mode = inode[a].mode
    BY <1>5 DEF CountChild, TypeInv, TypeOK, Inode
  <2> QED
    BY <1>5, <2>1, TreeGo DEF CountChild, Lock
<1>6. CASE UnlinkSave(t)
  BY <1>6, TreeGo DEF UnlinkSave
<1>7. CASE InodeDel(t)
  BY <1>7, TreeGo DEF InodeDel
<1> QED
  BY <1>1, <1>2, <1>3, <1>4, <1>5, <1>6, <1>7

(* A task binds an object that no name has to its name, and is done. *)
LEMMA TreeBind ==
  ASSUME TypeInv, TypeInv', TreeInv, NEW t \in Tasks, pc[t] \in CreatePcs \cup LookupPcs,
         NEW o \in Addrs, ~Cached(o), \A u \in Tasks : u # t => arg[u].obj # o,
         dentry' = [dentry EXCEPT ![arg[t].dir][arg[t].name] = o],
         \A a \in Addrs : Cached(a) => inode'[a].mode = inode[a].mode,
         Finish(t)
  PROVE  TreeInv'
<1> DEFINE d == arg[t].dir
           x == arg[t].name
<1>1. /\ d \in Addrs /\ x \in Names /\ d # None
      /\ OpenDir(d) /\ dentry[d][x] = None
  BY ObjType, FSAssumption DEF DirPcs, TreeInv, TaskInv
<1>2. /\ TaskInv(t)' /\ pc'[t] = "idle" /\ arg'[t].dir = None /\ arg'[t].obj = None
      /\ \A u \in Tasks : u # t => pc'[u] = pc[u] /\ arg'[u] = arg[u]
  BY TaskDone
<1>3. \A e \in Addrs, y \in Names : dentry'[e][y] = IF e = d /\ y = x THEN o ELSE dentry[e][y]
  BY <1>1 DEF TypeInv, TypeOK
<1>4. \A u \in Tasks : u # t => arg[u].dir # d
  BY <1>1 DEF TreeInv, OwnDirs
<1> HIDE DEF d, x
<1>5. None \notin Addrs
  BY FSAssumption
<1>6. \A a \in Addrs : HasDentry(a)' <=> HasDentry(a) \/ a = o
  BY <1>1, <1>3, <1>5 DEF HasDentry
<1>7. \A a \in Addrs : OpenDir(a) => OpenDir(a)'
  BY <1>6 DEF OpenDir, Cached
<1>8. DentryInv'
  <2> SUFFICES ASSUME NEW e \in Addrs, NEW y \in Names, dentry'[e][y] \in Addrs
               PROVE  /\ OpenDir(e)' /\ dentry'[e][y] # RootAddr
                      /\ \A f \in Addrs, z \in Names : dentry'[f][z] = dentry'[e][y] => f = e /\ z = y
    BY DEF DentryInv
  <2>1. \A f \in Addrs, z \in Names : dentry[f][z] # o
    BY DEF Cached, HasDentry
  <2>2. CASE e = d /\ y = x
    BY <1>1, <1>3, <1>7, <2>1, <2>2 DEF Cached
  <2>3. CASE ~(e = d /\ y = x)
    <3>1. dentry'[e][y] = dentry[e][y]
      BY <1>3, <2>3
    <3>2. OpenDir(e) /\ dentry[e][y] # RootAddr
      BY <3>1 DEF TreeInv, DentryInv
    <3>3. \A f \in Addrs, z \in Names : dentry[f][z] = dentry[e][y] => f = e /\ z = y
      BY <3>1 DEF TreeInv, DentryInv
    <3> QED
      BY <1>3, <1>7, <2>1, <3>1, <3>2, <3>3
  <2> QED
    BY <2>2, <2>3
<1>9. OwnDirs'
  BY <1>2 DEF OwnDirs, TreeInv
<1>10. ASSUME NEW u \in Tasks, u # t PROVE TaskInv(u)'
  <2>1. pc'[u] = pc[u] /\ arg'[u] = arg[u] /\ TaskInv(u)
    BY <1>2, <1>10 DEF TreeInv
  <2>2. /\ pc[u] \in DirPcs => arg[u].dir \in Addrs
        /\ arg[u].name \in Names
        /\ pc[u] \in ObjPcs => arg[u].obj \in Addrs
    BY ObjType
  <2>3. pc[u] \in DirPcs => dentry'[arg[u].dir][arg[u].name] = dentry[arg[u].dir][arg[u].name]
    BY <1>3, <1>4, <1>10, <2>2
  <2>4. pc[u] \in DirPcs => OpenDir(arg[u].dir)'
    BY <1>7, <2>1, <2>2 DEF TaskInv
  <2>5. pc[u] \in UnlinkPcs => inode'[arg[u].obj].mode # "dir"
    BY <2>1, <2>2 DEF TaskInv, DirPcs, ObjPcs, Cached, HasDentry
  <2>6. pc[u] \in CreatePcs /\ arg[u].obj # None => ~Cached(arg[u].obj)'
    <3> SUFFICES ASSUME pc[u] \in CreatePcs, arg[u].obj # None PROVE ~Cached(arg[u].obj)'
      OBVIOUS
    <3>1. arg[u].obj \in Addrs /\ arg[u].obj # o /\ ~Cached(arg[u].obj)
      BY <1>10, <2>1, <2>2 DEF TaskInv
    <3>2. arg'[u].obj = arg[u].obj
      BY <2>1
    <3> QED
      BY <1>6, <3>1, <3>2 DEF Cached
  <2> QED
    BY <2>1, <2>3, <2>4, <2>5, <2>6 DEF TaskInv, DirPcs
<1> QED
  BY <1>2, <1>8, <1>9, <1>10 DEF TreeInv

(* A name is unbound from an object that is no directory in use and that no
   other task works on. *)
LEMMA TreeUnbind ==
  ASSUME TypeInv, TypeInv', TreeInv, NEW d \in Addrs, NEW x \in Names, NEW o \in Addrs,
         dentry[d][x] = o, \A y \in Names : dentry[o][y] = None,
         dentry' = [dentry EXCEPT ![d][x] = None],
         \A a \in Addrs : a # o => inode'[a] = inode[a],
         \A u \in Tasks :
           \/ pc'[u] = pc[u] /\ arg'[u] = arg[u] /\ arg[u].obj # o /\ arg[u].dir # o
           \/ TaskInv(u)' /\ arg'[u].dir = None
  PROVE  TreeInv'
<1>1. \A e \in Addrs, y \in Names : dentry'[e][y] = IF e = d /\ y = x THEN None ELSE dentry[e][y]
  BY DEF TypeInv, TypeOK
<1>2. None \notin Addrs
  BY FSAssumption
<1>3. \A a \in Addrs : a # o => (HasDentry(a)' <=> HasDentry(a))
  BY <1>1, <1>2 DEF HasDentry
<1>4. \A a \in Addrs : a # o => (OpenDir(a)' <=> OpenDir(a))
  BY <1>3 DEF OpenDir
<1>5. DentryInv'
  <2> SUFFICES ASSUME NEW e \in Addrs, NEW y \in Names, dentry'[e][y] \in Addrs
               PROVE  /\ OpenDir(e)' /\ dentry'[e][y] # RootAddr
                      /\ \A f \in Addrs, z \in Names : dentry'[f][z] = dentry'[e][y] => f = e /\ z = y
    BY DEF DentryInv
  <2>1. dentry'[e][y] = dentry[e][y] /\ e # o
    BY <1>1, <1>2
  <2>2. OpenDir(e) /\ dentry[e][y] # RootAddr
    BY <2>1 DEF TreeInv, DentryInv
  <2>3. \A f \in Addrs, z \in Names : dentry[f][z] = dentry[e][y] => f = e /\ z = y
    BY <2>1 DEF TreeInv, DentryInv
  <2> QED
    BY <1>1, <1>2, <1>4, <2>1, <2>2, <2>3
<1>6. OwnDirs'
  BY DEF OwnDirs, TreeInv
<1>7. ASSUME NEW u \in Tasks, pc'[u] = pc[u], arg'[u] = arg[u], arg[u].obj # o, arg[u].dir # o
      PROVE  TaskInv(u)'
  <2>1. pc'[u] = pc[u] /\ arg'[u] = arg[u] /\ TaskInv(u) /\ arg[u].obj # o /\ arg[u].dir # o
    BY <1>7 DEF TreeInv
  <2>2. /\ pc[u] \in DirPcs => arg[u].dir \in Addrs
        /\ arg[u].name \in Names
        /\ pc[u] \in ObjPcs => arg[u].obj \in Addrs
    BY ObjType
  <2>3. pc[u] \in DirPcs => OpenDir(arg[u].dir)'
    BY <1>4, <2>1, <2>2 DEF TaskInv
  <2>4. pc[u] \in CreatePcs \cup LookupPcs => dentry'[arg[u].dir][arg[u].name] = None
    BY <1>1, <2>1, <2>2 DEF TaskInv, DirPcs
  <2>5. pc[u] \in UnlinkPcs => /\ dentry'[arg[u].dir][arg[u].name] = arg[u].obj
                               /\ inode'[arg[u].obj].mode # "dir"
    BY <1>1, <2>1, <2>2 DEF TaskInv, DirPcs, ObjPcs
  <2>6. pc[u] \in CreatePcs /\ arg[u].obj # None => ~Cached(arg[u].obj)'
    BY <1>3, <2>1, <2>2 DEF TaskInv, Cached
  <2> QED
    BY <2>1, <2>3, <2>4, <2>5, <2>6 DEF TaskInv
<1> QED
  BY <1>5, <1>6, <1>7 DEF TreeInv

(* Nobody else uses the object that unlink drops. *)
LEMMA UnlinkAlone ==
  ASSUME TypeInv, LockInv, TreeInv, NEW t \in Tasks, UnlinkEnd(t)
  PROVE  /\ arg[t].dir \in Addrs /\ arg[t].name \in Names /\ arg[t].obj \in Addrs
         /\ dentry[arg[t].dir][arg[t].name] = arg[t].obj
         /\ \A y \in Names : dentry[arg[t].obj][y] = None
         /\ \A u \in Tasks : u # t => arg[u].obj # arg[t].obj
         /\ \A u \in Tasks : arg[u].dir # arg[t].obj
         /\ inode' = [inode EXCEPT ![arg[t].obj] = ZeroInode]
<1> DEFINE o == arg[t].obj
<1>1. pc[t] \in UnlinkPcs /\ TaskInv(t)
  BY DEF UnlinkEnd, UnlinkPcs, TreeInv
<1>2. arg[t].dir \in Addrs /\ arg[t].name \in Names /\ o \in Addrs /\ o # None
  BY <1>1, ObjType, FSAssumption DEF DirPcs, ObjPcs
<1>3. dentry[arg[t].dir][arg[t].name] = o /\ inode[o].mode # "dir"
  BY <1>1 DEF TaskInv
<1>4. \A y \in Names : dentry[o][y] = None
  BY <1>2, <1>3 DEF TreeInv, DentryInv, OpenDir, TypeInv, TypeOK
<1>5. \A u \in Tasks : u # t => arg[u].obj # o
  BY <1>2, ObjDistinct
<1>6. \A u \in Tasks : arg[u].dir # o
  <2> SUFFICES ASSUME NEW u \in Tasks, arg[u].dir = o PROVE FALSE
    OBVIOUS
  <2>1. TaskInv(u)
    BY DEF TreeInv
  <2>2. pc[u] \in DirPcs
    BY <1>2, <2>1, Idle
  <2> QED
    BY <1>3, <2>1, <2>2 DEF TaskInv, OpenDir
<1>7. inode' = [inode EXCEPT ![o] = ZeroInode]
  BY <1>5 DEF UnlinkEnd
<1> QED
  BY <1>2, <1>3, <1>4, <1>5, <1>6, <1>7

(* What the last step of a create does. *)
LEMMA TreeParentSave ==
  ASSUME TypeInv, TypeInv', LockInv, TreeInv, NEW t \in Tasks, ParentSave(t)
  PROVE  TreeInv'
<1>1. pc[t] = "c_save" /\ Finish(t)
  BY DEF ParentSave
<1>2. arg[t].obj \in Addrs /\ arg[t].obj # None /\ TaskInv(t)
  BY <1>1, ObjType, FSAssumption DEF ObjPcs, CreatePcs, TreeInv
<1>3. ~Cached(arg[t].obj)
  BY <1>1, <1>2 DEF TaskInv, CreatePcs
<1>4. \A u \in Tasks : u # t => arg[u].obj # arg[t].obj
  BY <1>2, ObjDistinct
<1>5. CASE UNCHANGED inode /\ dentry' = [dentry EXCEPT ![arg[t].dir][arg[t].name] = arg[t].obj]
  BY <1>1, <1>2, <1>3, <1>4, <1>5, TreeBind DEF CreatePcs
<1>6. CASE UNCHANGED dentry /\ inode' = Forget(t, arg[t].obj)
  <2>1. \A a \in Addrs : Cached(a) => inode'[a] = inode[a]
    BY <1>6 DEF Forget, Cached
  <2> QED
    BY <1>1, <1>6, <2>1, TaskDone, TreeKeep
<1> QED
  BY <1>5, <1>6 DEF ParentSave

(* What the last step of a lookup does. *)
LEMMA TreeGetInode ==
  ASSUME TypeInv, TypeInv', TreeInv, NEW t \in Tasks, GetInode(t)
  PROVE  TreeInv'
<1>1. pc[t] = "l_get" /\ Finish(t)
  BY DEF GetInode
<1>2. PICK o \in Addrs :
        /\ Allocatable(o)
        /\ inode' = [inode EXCEPT ![o] = istore[arg[t].ino]]
        /\ dentry' = [dentry EXCEPT ![arg[t].dir][arg[t].name] = o]
  BY DEF GetInode
<1>3. ~Cached(o) /\ \A u \in Tasks : arg[u].obj # o
  BY <1>2, AllocatableFree
<1>4. \A a \in Addrs : Cached(a) => inode'[a] = inode[a]
  BY <1>2, <1>3 DEF TypeInv, TypeOK
<1> QED
  BY <1>1, <1>2, <1>3, <1>4, TreeBind DEF LookupPcs

(* What the last step of an unlink does. *)
LEMMA TreeUnlinkEnd ==
  ASSUME TypeInv, TypeInv', LockInv, TreeInv, NEW t \in Tasks, UnlinkEnd(t)
  PROVE  TreeInv'
<1> DEFINE d == arg[t].dir
           x == arg[t].name
           o == arg[t].obj
<1>1. /\ d \in Addrs /\ x \in Names /\ o \in Addrs
      /\ dentry[d][x] = o
      /\ \A y \in Names : dentry[o][y] = None
      /\ \A u \in Tasks : u # t => arg[u].obj # o /\ arg[u].dir # o
      /\ inode' = [inode EXCEPT ![o] = ZeroInode]
  BY UnlinkAlone
<1>2. dentry' = [dentry EXCEPT ![d][x] = None] /\ Finish(t)
  BY DEF UnlinkEnd
<1>3. \A a \in Addrs : a # o => inode'[a] = inode[a]
  BY <1>1 DEF TypeInv, TypeOK
<1>4. \A u \in Tasks :
        \/ pc'[u] = pc[u] /\ arg'[u] = arg[u] /\ arg[u].obj # o /\ arg[u].dir # o
        \/ TaskInv(u)' /\ arg'[u].dir = None
  BY <1>1, <1>2, TaskDone
<1> HIDE DEF d, x, o
<1> QED
  BY <1>1, <1>2, <1>3, <1>4, TreeUnbind

(* What happens outside the tasks. *)
LEMMA TreeEnvironment ==
  ASSUME Quiet, TypeInv, TypeInv', TreeInv, Environment
  PROVE  TreeInv'
<1>1. ASSUME NEW d \in Addrs, NEW x \in Names, Shrink(d, x) PROVE TreeInv'
  <2> DEFINE o == dentry[d][x]
  <2>1. /\ o \in Addrs
        /\ \A t \in Tasks : o # arg[t].obj /\ o # arg[t].dir
        /\ \A y \in Names : dentry[o][y] = None
        /\ dentry' = [dentry EXCEPT ![d][x] = None]
        /\ inode' = [inode EXCEPT ![o] = ZeroInode]
        /\ UNCHANGED <<pc, arg>>
    BY <1>1 DEF Shrink
  <2>2. \A a \in Addrs : a # o => inode'[a] = inode[a]
    BY <2>1 DEF TypeInv, TypeOK
  <2>3. dentry[d][x] = o
    OBVIOUS
  <2> HIDE DEF o
  <2>4. \A u \in Tasks :
          \/ pc'[u] = pc[u] /\ arg'[u] = arg[u] /\ arg[u].obj # o /\ arg[u].dir # o
          \/ TaskInv(u)' /\ arg'[u].dir = None
    BY <2>1
  <2> QED
    BY <2>1, <2>2, <2>3, <2>4, TreeUnbind
<1>2. CASE Writeback
  BY <1>2 DEF Writeback, TreeInv, TaskInv, OwnDirs, DentryInv, OpenDir, HasDentry, Cached
<1>3. CASE Remount
  <2>1. /\ \A t \in Tasks : pc'[t] = "idle" /\ arg'[t] = NoArg
        /\ \A d \in Addrs, x \in Names : dentry'[d][x] = None
    BY <1>3 DEF Remount, Mount, NoDentries
  <2>2. DentryInv'
    BY <2>1, FSAssumption DEF DentryInv
  <2>3. OwnDirs'
    BY <2>1 DEF OwnDirs, NoArg
  <2>4. "idle" \notin WritePcs \cup ObjPcs \cup DirPcs \cup CreatePcs \cup LookupPcs \cup UnlinkPcs
    BY DEF WritePcs, ObjPcs, DirPcs, CreatePcs, LookupPcs, UnlinkPcs
  <2>5. \A t \in Tasks : TaskInv(t)'
    BY <2>1, <2>4 DEF TaskInv, NoArg
  <2> QED
    BY <2>2, <2>3, <2>5 DEF TreeInv
<1>4. ~Crash
  BY DEF Quiet, Crash, TypeInv, TypeOK
<1> QED
  BY <1>1, <1>2, <1>3, <1>4 DEF Environment

(* The kinds of step of the quiet system. *)
LEMMA QuietNext ==
  ASSUME Quiet, TreeInv, Next
  PROVE  \/ \E t \in Tasks :
              \/ Call(t) \/ MoveStep(t) \/ (\E ls : Fail(t, ls) /\ pc[t] \in CreatePcs \ AddedPcs)
              \/ NewInode(t) \/ GetFreeBlock(t) \/ InodeAdd(t) \/ AddName(t) \/ CountChild(t)
              \/ ParentSave(t) \/ UnlinkSave(t) \/ InodeDel(t) \/ UnlinkEnd(t) \/ GetInode(t)
         \/ Environment
<1>1. ASSUME NEW t \in Tasks PROVE ~WriteSize(t) /\ ~WriteSave(t)
  BY DEF TreeInv, TaskInv, WriteSize, Lock, WriteSave, WritePcs
<1>2. ASSUME NEW t \in Tasks, Count(t)
      PROVE  MoveStep(t) \/ \E ls : Fail(t, ls) /\ pc[t] \in CreatePcs \ AddedPcs
  BY <1>2 DEF Count, MoveStep, CreatePcs, AddedPcs, NamedPcs
<1>3. ASSUME NEW t \in Tasks, NewInodeFails(t) \/ NoFreeBlock(t)
      PROVE  \E ls : Fail(t, ls) /\ pc[t] \in CreatePcs \ AddedPcs
  BY <1>3 DEF NewInodeFails, NoFreeBlock, CreatePcs, AddedPcs, NamedPcs
<1>4. \/ \E t \in Tasks : \/ Call(t) \/ TakeStep(t) \/ WorkStep(t)
                          \/ NewInodeFails(t) \/ NoFreeBlock(t)
      \/ Environment
  BY QuietKinds DEF Quiet
<1> QED
  BY <1>1, <1>2, <1>3, <1>4 DEF WorkStep, MoveStep

(* TreeInv is inductive in the quiet system. *)
LEMMA TreeStep ==
  ASSUME Quiet
  PROVE  TypeInv /\ TypeInv' /\ LockInv /\ TreeInv /\ [Next]_vars => TreeInv'
<1> SUFFICES ASSUME TypeInv, TypeInv', LockInv, TreeInv, [Next]_vars PROVE TreeInv'
  OBVIOUS
<1>1. CASE UNCHANGED vars
  BY <1>1 DEF vars, TreeInv, TaskInv, OwnDirs, DentryInv, OpenDir, HasDentry, Cached
<1>2. CASE Next
  BY <1>2, QuietNext, TreeCall, TreeMove, TreeFail, TreeWork, TreeParentSave, TreeGetInode,
     TreeUnlinkEnd, TreeEnvironment
<1> QED
  BY <1>1, <1>2

(* Nothing is open and nobody is busy after the mount. *)
LEMMA TreeInit == Init => TreeInv
<1> SUFFICES ASSUME Init PROVE TreeInv
  OBVIOUS
<1>1. /\ \A t \in Tasks : pc[t] = "idle" /\ arg[t] = NoArg
      /\ \A d \in Addrs, x \in Names : dentry[d][x] = None
  BY DEF Init, NoDentries
<1>2. DentryInv /\ OwnDirs
  BY <1>1, FSAssumption DEF DentryInv, OwnDirs, NoArg
<1>3. "idle" \notin WritePcs \cup ObjPcs \cup DirPcs \cup CreatePcs \cup LookupPcs \cup UnlinkPcs
  BY DEF WritePcs, ObjPcs, DirPcs, CreatePcs, LookupPcs, UnlinkPcs
<1>4. \A t \in Tasks : TaskInv(t)
  BY <1>1, <1>3 DEF TaskInv, NoArg
<1> QED
  BY <1>2, <1>4 DEF TreeInv
-----------------------------------------------------------------------------
(***************************************************************************)
(* Names and inodes.  A name on disk is the name of an inode in the store, *)
(* and stands in the block of a directory of the store, so a block that is *)
(* still free holds no name.  What a task works on in the meantime is no   *)
(* one else's: the number of a new inode is in no store, and the inode     *)
(* that create has added but not named, or that unlink has unnamed but not *)
(* deleted, is claimed by that task alone.                                 *)
(***************************************************************************)
Same(r, s) == r.ino = s.ino /\ r.mode = s.mode /\ r.blk = s.blk

Live(k) == k \in Inos /\ istore[k].ino = k

DirAt(k, b) == Live(k) /\ istore[k].mode = "dir" /\ istore[k].blk = b

Unnamed(i) == i # RootIno /\ \A b \in Blocks, x \in Names : dirent[b][x] # i

Entry(t) == dirent[inode[arg[t].dir].blk][arg[t].name]

ObjIno(t) == inode[arg[t].obj].ino

ClaimPcs == {"c_name"} \cup DelPcs

StoreInv ==
  /\ imap = FillImap(istore)
  /\ \A k \in Inos : Live(k) /\ istore[k].mode = "dir" => istore[k].blk # 0
  /\ Live(RootIno) /\ istore[RootIno].mode = "dir"
  /\ Same(inode[RootAddr], istore[RootIno])

NamesInv ==
  /\ \A b \in Blocks, x \in Names : dirent[b][x] # 0 =>
       /\ Live(dirent[b][x])
       /\ dirent[b][x] # RootIno
       /\ \E k \in Inos : DirAt(k, b)
  /\ NamesInjective

(* A name that is bound is on disk and its object is that of the store, or it
   is being removed. *)
Bound(d, x) ==
  \/ /\ dirent[inode[d].blk][x] # 0
     /\ dirent[inode[d].blk][x] = inode[dentry[d][x]].ino
     /\ Same(inode[dentry[d][x]], istore[inode[dentry[d][x]].ino])
  \/ \E t \in Tasks : pc[t] \in UnlinkPcs /\ arg[t].dir = d /\ arg[t].name = x

BoundInv == \A d \in Addrs, x \in Names : dentry[d][x] \in Addrs => Bound(d, x)

DirsApart == \A d, e \in Addrs : OpenDir(d) /\ OpenDir(e) /\ inode[d].blk = inode[e].blk => d = e

WorkInv(t) ==
  /\ pc[t] \in (CreatePcs \ NamedPcs) \cup UnlinkPcs => Entry(t) = 0
  /\ pc[t] \in LookupPcs => Entry(t) = arg[t].ino
  /\ pc[t] \in NamedPcs => Entry(t) = ObjIno(t)
  /\ pc[t] \in FreshPcs => ObjIno(t) \notin imap
  /\ pc[t] \in AddPcs => inode[arg[t].obj].blk # 0
  /\ pc[t] \in ClaimPcs \cup NamedPcs => Live(ObjIno(t)) /\ Same(inode[arg[t].obj], istore[ObjIno(t)])
  /\ pc[t] \in ClaimPcs => Unnamed(ObjIno(t))

ClaimsApart ==
  \A t, u \in Tasks : pc[t] \in ClaimPcs /\ pc[u] \in ClaimPcs /\ ObjIno(t) = ObjIno(u) => t = u

NameInv ==
  /\ StoreInv /\ NamesInv /\ BoundInv /\ DirsApart
  /\ \A t \in Tasks : WorkInv(t)
  /\ ClaimsApart

-----------------------------------------------------------------------------
(* The bits of imap are those of the inodes there are. *)
LEMMA LiveBits ==
  ASSUME RoomInv, StoreInv
  PROVE  /\ 0 \in imap
         /\ \A k \in Inos : k \in imap <=> Live(k)
         /\ \A k \in Inos : Live(k) <=> istore[k].ino # 0
<1>1. \A k \in Inos : k # 0
  BY LayoutAssumption DEF Inos
<1>2. \A k \in Inos : istore[k].ino \in {0, k}
  BY DEF RoomInv, SlotsOwn
<1> QED
  BY <1>1, <1>2 DEF StoreInv, FillImap, Live

(* An open directory is a directory of the store. *)
LEMMA OpenLive ==
  ASSUME TypeInv, TreeInv, NameInv, NEW d \in Addrs, OpenDir(d)
  PROVE  /\ Live(inode[d].ino) /\ Same(inode[d], istore[inode[d].ino])
         /\ DirAt(inode[d].ino, inode[d].blk)
         /\ inode[d].blk \in Blocks /\ inode[d].blk # 0
<1>1. Live(inode[d].ino) /\ Same(inode[d], istore[inode[d].ino])
  <2>1. CASE d = RootAddr
    BY <2>1 DEF NameInv, StoreInv, Same, Live
  <2>2. CASE d # RootAddr
    <3>1. PICK e \in Addrs, x \in Names : dentry[e][x] = d
      BY <2>2 DEF OpenDir, HasDentry
    <3>2. ASSUME NEW t \in Tasks, pc[t] \in UnlinkPcs, arg[t].dir = e, arg[t].name = x PROVE FALSE
      <4>1. inode[dentry[e][x]].mode # "dir"
        BY <3>2 DEF TreeInv, TaskInv
      <4> QED
        BY <3>1, <4>1 DEF OpenDir
    <3>3. /\ dirent[inode[e].blk][x] # 0
          /\ dirent[inode[e].blk][x] = inode[d].ino
          /\ Same(inode[d], istore[inode[d].ino])
      BY <3>1, <3>2 DEF NameInv, BoundInv, Bound
    <3>4. inode[e].blk \in Blocks
      BY DEF TypeInv, TypeOK, Inode
    <3> QED
      BY <3>3, <3>4 DEF NameInv, NamesInv
  <2> QED
    BY <2>1, <2>2
<1>2. inode[d].blk \in Blocks
  BY DEF TypeInv, TypeOK, Inode
<1>3. DirAt(inode[d].ino, inode[d].blk)
  BY <1>1 DEF DirAt, Same, OpenDir
<1> QED
  BY <1>1, <1>2, <1>3 DEF NameInv, StoreInv, DirAt, Live

(* Tasks work in blocks of their own. *)
LEMMA Elsewhere ==
  ASSUME TypeInv, TreeInv, NameInv, NEW t \in Tasks, NEW u \in Tasks, t # u,
         pc[t] \in DirPcs, pc[u] \in DirPcs
  PROVE  inode[arg[t].dir].blk # inode[arg[u].dir].blk
<1>1. arg[t].dir \in Addrs /\ arg[u].dir \in Addrs /\ arg[t].dir # None
  BY ObjType, FSAssumption
<1>2. arg[t].dir # arg[u].dir
  BY <1>1 DEF TreeInv, OwnDirs
<1>3. OpenDir(arg[t].dir) /\ OpenDir(arg[u].dir)
  BY DEF TreeInv, TaskInv
<1> QED
  BY <1>1, <1>2, <1>3 DEF NameInv, DirsApart

(* A step that binds no name, writes none and changes no inode number, mode or
   block of what is in use. *)
LEMMA NameKeep ==
  ASSUME TypeInv, TypeInv', TreeInv, NameInv, NEW t \in Tasks,
         UNCHANGED <<dirent, dentry, imap>>,
         \A k \in Inos : Same(istore'[k], istore[k]),
         \A a \in Addrs : Cached(a) => Same(inode'[a], inode[a]),
         \A u \in Tasks : u # t => /\ pc'[u] = pc[u] /\ arg'[u] = arg[u]
                                   /\ pc[u] \in ObjPcs => Same(inode'[arg[u].obj], inode[arg[u].obj]),
         pc[t] \in UnlinkPcs => pc'[t] \in UnlinkPcs /\ arg'[t] = arg[t],
         pc'[t] \in ClaimPcs => pc[t] \in ClaimPcs /\ ObjIno(t)' = ObjIno(t),
         WorkInv(t)'
  PROVE  NameInv'
<1>1. \A k : Live(k)' <=> Live(k)
  BY DEF Live, Same
<1>2. FillImap(istore') = FillImap(istore)
  BY DEF FillImap, Same
<1>3. \A a : Cached(a)' = Cached(a) /\ HasDentry(a)' = HasDentry(a)
  BY DEF Cached, HasDentry
<1>4. \A a \in Addrs : OpenDir(a)' <=> OpenDir(a)
  BY <1>3 DEF OpenDir, Cached, Same
<1>5. StoreInv'
  <2>1. Same(inode'[RootAddr], inode[RootAddr]) /\ RootIno \in Inos
    BY FSAssumption, LayoutTypes DEF Cached
  <2>2. Live(RootIno)' /\ Same(istore'[RootIno], istore[RootIno])
    BY <1>1, <2>1 DEF NameInv, StoreInv
  <2>3. \A k \in Inos : Live(k)' /\ istore'[k].mode = "dir" => istore'[k].blk # 0
    BY <1>1 DEF NameInv, StoreInv, Same
  <2> QED
    BY <1>2, <2>1, <2>2, <2>3 DEF NameInv, StoreInv, Same
<1>6. NamesInv'
  BY <1>1 DEF NameInv, NamesInv, NamesInjective, DirAt, Same
<1>7. BoundInv'
  <2> SUFFICES ASSUME NEW d \in Addrs, NEW x \in Names, dentry'[d][x] \in Addrs PROVE Bound(d, x)'
    BY DEF BoundInv
  <2>1. dentry[d][x] \in Addrs /\ Bound(d, x) /\ OpenDir(d)
    BY DEF NameInv, BoundInv, TreeInv, DentryInv
  <2>2. Same(inode'[d], inode[d]) /\ Same(inode'[dentry[d][x]], inode[dentry[d][x]])
    BY <2>1 DEF OpenDir, Cached, HasDentry
  <2>3. CASE \E u \in Tasks : pc[u] \in UnlinkPcs /\ arg[u].dir = d /\ arg[u].name = x
    BY <2>3 DEF Bound
  <2>4. CASE /\ dirent[inode[d].blk][x] # 0
             /\ dirent[inode[d].blk][x] = inode[dentry[d][x]].ino
             /\ Same(inode[dentry[d][x]], istore[inode[dentry[d][x]].ino])
    <3> DEFINE i == inode[dentry[d][x]].ino
    <3>1. inode[d].blk \in Blocks
      BY DEF TypeInv, TypeOK, Inode
    <3>2. i \in Inos
      BY <2>4, <3>1 DEF NameInv, NamesInv, Live
    <3>3. Same(istore'[i], istore[i]) /\ inode'[dentry'[d][x]].ino = i
      BY <2>2, <3>2 DEF Same
    <3>4. Same(inode'[dentry'[d][x]], istore'[i])
      BY <2>2, <2>4, <3>3 DEF Same
    <3> QED
      BY <2>2, <2>4, <3>3, <3>4 DEF Bound, Same
  <2> QED
    BY <2>1, <2>3, <2>4 DEF Bound
<1>8. DirsApart'
  <2>1. \A d \in Addrs : OpenDir(d)' => OpenDir(d) /\ inode'[d].blk = inode[d].blk
    BY <1>4 DEF OpenDir, Cached, Same
  <2> QED
    BY <2>1 DEF NameInv, DirsApart
<1>9. ASSUME NEW u \in Tasks, u # t
      PROVE  WorkInv(u)' /\ (pc'[u] \in ClaimPcs => pc[u] \in ClaimPcs /\ ObjIno(u)' = ObjIno(u))
  <2>1. pc'[u] = pc[u] /\ arg'[u] = arg[u] /\ WorkInv(u) /\ TaskInv(u)
    BY <1>9 DEF NameInv, TreeInv
  <2>2. pc[u] \in DirPcs => Entry(u)' = Entry(u)
    <3> SUFFICES ASSUME pc[u] \in DirPcs PROVE Entry(u)' = Entry(u)
      OBVIOUS
    <3>1. arg[u].dir \in Addrs /\ Cached(arg[u].dir)
      BY <2>1, ObjType DEF TaskInv, OpenDir, Cached
    <3> QED
      BY <2>1, <3>1 DEF Entry, Same
  <2>3. pc[u] \in ObjPcs => /\ Same(inode'[arg[u].obj], inode[arg[u].obj])
                            /\ ObjIno(u)' = ObjIno(u)
    BY <1>9, <2>1 DEF ObjIno, Same
  <2>4. pc[u] \in ClaimPcs \cup NamedPcs =>
          Live(ObjIno(u))' /\ Same(inode'[arg[u].obj], istore'[ObjIno(u)'])
    <3> SUFFICES ASSUME pc[u] \in ClaimPcs \cup NamedPcs
                 PROVE  Live(ObjIno(u))' /\ Same(inode'[arg[u].obj], istore'[ObjIno(u)'])
      OBVIOUS
    <3>1. pc[u] \in ObjPcs
      BY DEF ClaimPcs, NamedPcs, DelPcs, ObjPcs, CreatePcs, UnlinkPcs
    <3>2. Live(ObjIno(u)) /\ Same(inode[arg[u].obj], istore[ObjIno(u)])
      BY <2>1 DEF WorkInv
    <3>3. ObjIno(u)' = ObjIno(u) /\ Live(ObjIno(u))'
      BY <1>1, <2>3, <3>1, <3>2
    <3>4. Same(istore'[ObjIno(u)], istore[ObjIno(u)])
      BY <3>2 DEF Live
    <3> QED
      BY <2>3, <3>1, <3>2, <3>3, <3>4 DEF Same
  <2>5. /\ FreshPcs \cup AddPcs \cup NamedPcs \cup ClaimPcs \subseteq ObjPcs
        /\ CreatePcs \cup UnlinkPcs \cup LookupPcs \cup NamedPcs \subseteq DirPcs
    BY DEF FreshPcs, AddPcs, NamedPcs, ClaimPcs, DelPcs, ObjPcs, CreatePcs, UnlinkPcs, DirPcs
  <2>6. \A i : Unnamed(i)' <=> Unnamed(i)
    BY DEF Unnamed
  <2>7. pc[u] \in ClaimPcs => Unnamed(ObjIno(u))'
    BY <2>1, <2>3, <2>5, <2>6 DEF WorkInv
  <2>8. WorkInv(u)'
    BY <2>1, <2>2, <2>3, <2>4, <2>5, <2>7 DEF WorkInv, Same
  <2> QED
    BY <2>1, <2>3, <2>5, <2>8
<1>10. ClaimsApart'
  BY <1>9 DEF NameInv, ClaimsApart
<1> QED
  BY <1>5, <1>6, <1>7, <1>8, <1>9, <1>10 DEF NameInv

(* simplefs_inode_save of an open directory finds its slot, changes only the
   count in it and takes the whole store to the disk. *)
LEMMA SaveOpen ==
  ASSUME TypeInv, TreeInv, RoomInv, NameInv, NEW d \in Addrs, OpenDir(d), Save(inode[d])
  PROVE  /\ SaveFinds(inode[d])
         /\ istore' = Put(istore, inode[d].ino, inode[d])
         /\ istoreDisk' = istore'
         /\ \A k \in Inos : Same(istore'[k], istore[k])
<1> DEFINE rec == inode[d]
<1>1. Live(rec.ino) /\ Same(rec, istore[rec.ino])
  BY OpenLive
<1>2. \A k \in Inos : istore[k].ino \in {0, k} /\ k # 0
  BY LayoutAssumption DEF RoomInv, SlotsOwn, Inos
<1> HIDE DEF rec
<1>3. rec.ino \in Inos /\ istore[rec.ino].ino = rec.ino
  BY <1>1 DEF Live
<1>4. SaveFinds(rec)
  BY <1>3 DEF SaveFinds
<1>5. PICK k \in Inos : FoundAt(istore, rec.ino, k) /\ istore' = Put(istore, k, rec) /\ istoreDisk' = istore'
  BY <1>3 DEF Save, SyncStore, rec
<1>6. k = rec.ino
  BY <1>2, <1>3, <1>5 DEF FoundAt
<1>7. \A j \in Inos : Same(istore'[j], istore[j])
  BY <1>1, <1>5, <1>6 DEF Put, Same
<1> QED
  BY <1>4, <1>5, <1>6, <1>7 DEF rec

(* What a task's locals say after it moved on, of a step that changes nothing
   they are about. *)
LEMMA NameMove ==
  ASSUME TypeInv, TypeInv', TreeInv, NameInv, NEW t \in Tasks, MoveStep(t)
  PROVE  NameInv'
<1>0. TaskInv(t) /\ WorkInv(t)
  BY DEF TreeInv, NameInv
<1>1. /\ UNCHANGED <<fs, inode, dentry, arg>>
      /\ pc[t] \notin {"idle", "c_name", "c_parent"}
      /\ \E to \in Pcs : Goto(t, to) /\ Alike(pc[t], to)
  BY <1>0, Moves DEF TaskInv
<1>2. PICK to \in Pcs : Goto(t, to) /\ Alike(pc[t], to)
  BY <1>1
<1>3. pc'[t] = to /\ \A u \in Tasks : u # t => pc'[u] = pc[u]
  BY <1>2 DEF Goto, TypeInv, TypeOK
<1>4. UNCHANGED <<dirent, imap, istore, inode, dentry, arg>>
  BY <1>1 DEF fs
<1>5. pc[t] \in ClaimPcs <=> to \in ClaimPcs
  BY <1>1, <1>2 DEF Alike, ClaimPcs
<1>6. Entry(t)' = Entry(t) /\ ObjIno(t)' = ObjIno(t) /\ \A i : Live(i)' = Live(i) /\ Unnamed(i)' = Unnamed(i)
  BY <1>4 DEF Entry, ObjIno, Live, Unnamed
<1>7. WorkInv(t)'
  BY <1>0, <1>2, <1>3, <1>4, <1>5, <1>6 DEF WorkInv, Alike
<1>8. /\ \A k \in Inos : Same(istore'[k], istore[k])
      /\ \A a : Same(inode'[a], inode[a])
  BY <1>4 DEF Same
<1>9. pc[t] \in UnlinkPcs => pc'[t] \in UnlinkPcs
  BY <1>2, <1>3 DEF Alike
<1> QED
  BY <1>3, <1>4, <1>5, <1>6, <1>7, <1>8, <1>9, NameKeep

(* A task that is done is in nobody's way. *)
LEMMA WorkDone ==
  ASSUME NEW t, pc'[t] = "idle"
  PROVE  WorkInv(t)' /\ pc'[t] \notin ClaimPcs
BY DEF WorkInv, CreatePcs, UnlinkPcs, LookupPcs, NamedPcs, FreshPcs, AddPcs, ClaimPcs, DelPcs

(* Giving up leaves all names and inodes as they are. *)
LEMMA NameFail ==
  ASSUME TypeInv, TypeInv', LockInv, TreeInv, NameInv, NEW t \in Tasks, NEW ls, Fail(t, ls),
         pc[t] \in CreatePcs
  PROVE  NameInv'
<1>1. Finish(t) /\ UNCHANGED <<fs, dentry>> /\ inode' = Forget(t, arg[t].obj)
  BY DEF Fail
<1>2. UNCHANGED <<dirent, imap, istore>>
  BY <1>1 DEF fs
<1>3. \A k \in Inos : Same(istore'[k], istore[k])
  BY <1>2 DEF Same
<1>4. \A a \in Addrs : Cached(a) => Same(inode'[a], inode[a])
  BY <1>1 DEF Forget, Cached, Same
<1>5. pc'[t] = "idle" /\ \A u \in Tasks : u # t => pc'[u] = pc[u] /\ arg'[u] = arg[u]
  BY <1>1, TaskDone
<1>6. ASSUME NEW u \in Tasks, u # t, pc[u] \in ObjPcs
      PROVE  Same(inode'[arg[u].obj], inode[arg[u].obj])
  BY <1>1, <1>6, ObjType DEF Forget, Same
<1>7. pc[t] \notin UnlinkPcs
  BY DEF CreatePcs, UnlinkPcs
<1> QED
  BY <1>1, <1>2, <1>3, <1>4, <1>5, <1>6, <1>7, WorkDone, NameKeep

(* A create or a lookup starts from what the directory says. *)
LEMMA NameCall ==
  ASSUME TypeInv, TypeInv', TreeInv, NameInv, NEW t \in Tasks,
         \/ \E d \in Addrs, x \in Names, m \in {"dir", "reg"} : CreateCall(t, d, x, m)
         \/ \E d \in Addrs, x \in Names : LookupCall(t, d, x)
  PROVE  NameInv'
<1>1. /\ UNCHANGED <<dirent, imap, istore, inode, dentry>>
      /\ pc[t] = "idle"
      /\ \A u \in Tasks : u # t => pc'[u] = pc[u] /\ arg'[u] = arg[u]
  BY DEF CreateCall, LookupCall, Goto, fs, TypeInv, TypeOK
<1>2. pc[t] \notin UnlinkPcs
  BY <1>1 DEF UnlinkPcs
<1>3. /\ \A k \in Inos : Same(istore'[k], istore[k])
      /\ \A a : Same(inode'[a], inode[a])
  BY <1>1 DEF Same
<1> USE DEF CreatePcs, UnlinkPcs, LookupPcs, NamedPcs, FreshPcs, AddPcs, ClaimPcs, DelPcs
<1>4. WorkInv(t)' /\ pc'[t] \notin ClaimPcs
  <2>1. ASSUME NEW d \in Addrs, NEW x \in Names, NEW m \in {"dir", "reg"}, CreateCall(t, d, x, m)
        PROVE  WorkInv(t)' /\ pc'[t] \notin ClaimPcs
    <3>1. /\ pc'[t] = "c_lock" /\ arg'[t].dir = d /\ arg'[t].name = x
          /\ dirent[inode[d].blk][x] = 0
      BY <2>1 DEF CreateCall, Goto, TypeInv, TypeOK, NoArg
    <3>2. Entry(t)' = 0
      BY <1>1, <3>1 DEF Entry
    <3> QED
      BY <3>1, <3>2 DEF WorkInv
  <2>2. ASSUME NEW d \in Addrs, NEW x \in Names, LookupCall(t, d, x)
        PROVE  WorkInv(t)' /\ pc'[t] \notin ClaimPcs
    <3>1. /\ pc'[t] = "l_lock" /\ arg'[t].dir = d /\ arg'[t].name = x
          /\ arg'[t].ino = dirent[inode[d].blk][x]
      BY <2>2 DEF LookupCall, Goto, TypeInv, TypeOK, NoArg
    <3>2. Entry(t)' = arg'[t].ino
      BY <1>1, <3>1 DEF Entry
    <3> QED
      BY <3>1, <3>2 DEF WorkInv
  <2> QED
    BY <2>1, <2>2
<1> QED
  BY <1>1, <1>2, <1>3, <1>4, NameKeep

(* The number that ffz finds is in no store: a map with that bit and all the
   bits below would be a map with more bits than there can be inodes. *)
LEMMA FfzFresh ==
  ASSUME Quiet, TypeInv, RoomInv, StoreInv, NEW i \in 0 .. ImapBits, Ffz(imap, i)
  PROVE  i \notin imap
<1>1. CASE i < ImapBits
  BY <1>1 DEF Ffz
<1>2. CASE ~(i < ImapBits)
  <2> SUFFICES ASSUME i \in imap PROVE FALSE
    OBVIOUS
  <2>1. i = ImapBits
    BY <1>2, LayoutAssumption
  <2> DEFINE W == 0 .. ImapBits
             A == FillImap(istore)
  <2>2. W \in SUBSET A
    <3>1. \A m \in 0 .. (ImapBits - 1) : m \in imap
      BY <2>1 DEF Ffz
    <3>2. \A m \in 0 .. ImapBits : m \in imap
      BY <2>1, <3>1, LayoutAssumption
    <3> QED
      BY <3>2 DEF StoreInv
  <2>3. Cardinality(W) = ImapBits + 1
    BY FS_Interval, LayoutAssumption
  <2>4. IsFiniteSet(A) /\ Cardinality(A) \in Nat
    BY FillImapFinite DEF TypeInv, TypeOK
  <2>5. Cardinality(A) + 0 + Cardinality(Freeable(free_blocks))
          <= 3 + Cardinality(Freeable(MkfsFreeBlocks))
    BY DEF RoomInv, Room
  <2> HIDE DEF W, A
  <2>6. Cardinality(W) <= Cardinality(A)
    BY <2>2, <2>4, FS_Subset
  <2>7. Cardinality(Freeable(free_blocks)) \in Nat /\ Cardinality(Freeable(MkfsFreeBlocks)) \in Nat
    BY FreeableFinite
  <2> QED
    BY <2>3, <2>4, <2>5, <2>6, <2>7, LayoutAssumption DEF Quiet
<1> QED
  BY <1>1, <1>2

(* The new object gets a number that is free. *)
LEMMA NameNewInode ==
  ASSUME Quiet, TypeInv, TypeInv', RoomInv, TreeInv, NameInv, NEW t \in Tasks, NewInode(t)
  PROVE  NameInv'
<1>1. PICK o \in Addrs, i \in 0 .. ImapBits :
        /\ Allocatable(o)
        /\ Ffz(imap, i)
        /\ inode' = [inode EXCEPT ![o] = [mode |-> arg[t].mode, ino |-> i,
                                          blk |-> Leftover(o), n |-> 0]]
        /\ arg' = [arg EXCEPT ![t].obj = o]
  BY DEF NewInode
<1>2. ~Cached(o) /\ \A u \in Tasks : arg[u].obj # o
  BY <1>1, AllocatableFree
<1>3. /\ \A a \in Addrs : a # o => inode'[a] = inode[a]
      /\ inode'[o].ino = i
      /\ arg'[t].dir = arg[t].dir /\ arg'[t].name = arg[t].name /\ arg'[t].obj = o
      /\ \A u \in Tasks : u # t => arg'[u] = arg[u]
  BY <1>1 DEF TypeInv, TypeOK, Args
<1>4. /\ pc[t] = "c_new" /\ pc'[t] = "c_block_lock"
      /\ \A u \in Tasks : u # t => pc'[u] = pc[u]
      /\ UNCHANGED <<dirent, imap, istore, dentry>>
  BY DEF NewInode, Goto, fs, TypeInv, TypeOK
<1>5. /\ \A k \in Inos : Same(istore'[k], istore[k])
      /\ \A a \in Addrs : Cached(a) => Same(inode'[a], inode[a])
      /\ \A u \in Tasks : pc[u] \in ObjPcs => Same(inode'[arg[u].obj], inode[arg[u].obj])
  BY <1>2, <1>3, <1>4, ObjType DEF Same
<1>6. i \notin imap
  BY <1>1, FfzFresh DEF NameInv
<1>7. arg[t].dir \in Addrs /\ TaskInv(t) /\ WorkInv(t)
  BY <1>4, ObjType DEF DirPcs, CreatePcs, TreeInv, NameInv
<1>8. inode'[arg[t].dir] = inode[arg[t].dir]
  BY <1>2, <1>3, <1>4, <1>7 DEF TaskInv, OpenDir, Cached, DirPcs, CreatePcs
<1>9. Entry(t)' = 0
  BY <1>3, <1>4, <1>7, <1>8 DEF Entry, WorkInv, CreatePcs, NamedPcs
<1>10. ObjIno(t)' \notin imap'
  BY <1>3, <1>4, <1>6 DEF ObjIno
<1> USE DEF UnlinkPcs, LookupPcs, NamedPcs, AddPcs, ClaimPcs, DelPcs
<1>11. WorkInv(t)' /\ pc'[t] \notin ClaimPcs
  BY <1>4, <1>9, <1>10 DEF WorkInv
<1>12. pc[t] \notin UnlinkPcs
  BY <1>4
<1> QED
  BY <1>3, <1>4, <1>5, <1>11, <1>12, NameKeep

(* The new object gets a block that is a block. *)
LEMMA NameGetBlock ==
  ASSUME TypeInv, TypeInv', LockInv, TreeInv, NameInv, NEW t \in Tasks, GetFreeBlock(t)
  PROVE  NameInv'
<1>1. PICK i \in Blocks : FirstFree(free_blocks, i) /\ inode' = [inode EXCEPT ![arg[t].obj].blk = i]
  BY DEF GetFreeBlock
<1>2. /\ pc[t] = "c_block" /\ pc'[t] = "a_mgmt"
      /\ \A u \in Tasks : u # t => pc'[u] = pc[u]
      /\ UNCHANGED <<dirent, imap, istore, dentry, arg>>
  BY DEF GetFreeBlock, Goto, TypeInv, TypeOK
<1>3. TaskInv(t) /\ WorkInv(t) /\ arg[t].obj \in Addrs /\ arg[t].obj # None /\ arg[t].dir \in Addrs
  BY <1>2, ObjType, FSAssumption DEF DirPcs, ObjPcs, CreatePcs, TreeInv, NameInv
<1>4. ~Cached(arg[t].obj)
  BY <1>2, <1>3 DEF TaskInv, CreatePcs
<1>5. \A u \in Tasks : u # t => arg[u].obj # arg[t].obj
  BY <1>3, ObjDistinct
<1>6. /\ \A a \in Addrs : a # arg[t].obj => inode'[a] = inode[a]
      /\ inode'[arg[t].obj].ino = inode[arg[t].obj].ino
      /\ inode'[arg[t].obj].blk = i
  BY <1>1, <1>3 DEF TypeInv, TypeOK, Inode
<1>7. i # 0
  BY <1>1 DEF FirstFree, FirstBlk
<1>8. /\ \A k \in Inos : Same(istore'[k], istore[k])
      /\ \A a \in Addrs : Cached(a) => Same(inode'[a], inode[a])
      /\ \A u \in Tasks : u # t /\ pc[u] \in ObjPcs => Same(inode'[arg[u].obj], inode[arg[u].obj])
  BY <1>2, <1>4, <1>5, <1>6, ObjType DEF Same
<1>9. inode'[arg[t].dir] = inode[arg[t].dir]
  BY <1>2, <1>3, <1>4, <1>6 DEF TaskInv, OpenDir, Cached, DirPcs, CreatePcs
<1>10. Entry(t)' = 0
  BY <1>2, <1>3, <1>9 DEF Entry, WorkInv, CreatePcs, NamedPcs
<1>11. ObjIno(t)' \notin imap'
  BY <1>2, <1>3, <1>6 DEF ObjIno, WorkInv, FreshPcs
<1> USE DEF UnlinkPcs, LookupPcs, NamedPcs, AddPcs, ClaimPcs, DelPcs
<1>12. WorkInv(t)' /\ pc'[t] \notin ClaimPcs
  BY <1>2, <1>6, <1>7, <1>10, <1>11 DEF WorkInv
<1>13. pc[t] \notin UnlinkPcs
  BY <1>2
<1> QED
  BY <1>2, <1>8, <1>12, <1>13, NameKeep

(* dir_children_count is no part of what names an inode. *)
LEMMA NameCountChild ==
  ASSUME TypeInv, TypeInv', TreeInv, NameInv, NEW t \in Tasks, CountChild(t)
  PROVE  NameInv'
<1>1. /\ pc[t] = "c_parent" /\ pc'[t] = "c_save_lock"
      /\ \A u \in Tasks : u # t => pc'[u] = pc[u]
      /\ UNCHANGED <<dirent, imap, istore, dentry, arg>>
      /\ inode' = [inode EXCEPT ![arg[t].dir].n = Inc(@)]
  BY DEF CountChild, Lock, Goto, fs, TypeInv, TypeOK
<1>2. \A a \in Addrs : Same(inode'[a], inode[a])
  BY <1>1 DEF TypeInv, TypeOK, Inode, Same
<1>3. WorkInv(t) /\ arg[t].obj \in Addrs /\ arg[t].dir \in Addrs
  BY <1>1, ObjType DEF DirPcs, ObjPcs, CreatePcs, NameInv
<1>4. Entry(t)' = Entry(t) /\ ObjIno(t)' = ObjIno(t) /\ \A i : Live(i)' = Live(i)
  BY <1>1, <1>2, <1>3 DEF Entry, ObjIno, Live, Same
<1> USE DEF UnlinkPcs, LookupPcs, NamedPcs, FreshPcs, AddPcs, ClaimPcs, DelPcs
<1>5. WorkInv(t)' /\ pc'[t] \notin ClaimPcs
  BY <1>1, <1>2, <1>3, <1>4 DEF WorkInv, Same
<1>6. /\ \A k \in Inos : Same(istore'[k], istore[k])
      /\ \A u \in Tasks : u # t /\ pc[u] \in ObjPcs => Same(inode'[arg[u].obj], inode[arg[u].obj])
  BY <1>1, <1>2, ObjType DEF Same
<1>7. pc[t] \notin UnlinkPcs
  BY <1>1
<1> QED
  BY <1>1, <1>2, <1>5, <1>6, <1>7, NameKeep

(* Saving the parent changes nothing but its count. *)
LEMMA NameUnlinkSave ==
  ASSUME TypeInv, TypeInv', RoomInv, TreeInv, NameInv, NEW t \in Tasks, UnlinkSave(t)
  PROVE  NameInv'
<1>1. /\ pc[t] = "u_save" /\ pc'[t] = "d_mgmt"
      /\ \A u \in Tasks : u # t => pc'[u] = pc[u]
      /\ UNCHANGED <<dirent, imap, inode, dentry, arg>>
      /\ Save(inode[arg[t].dir])
  BY DEF UnlinkSave, Goto, TypeInv, TypeOK
<1>2. TaskInv(t) /\ WorkInv(t) /\ arg[t].dir \in Addrs
  BY <1>1, ObjType DEF DirPcs, UnlinkPcs, NameInv, TreeInv
<1>3. \A k \in Inos : Same(istore'[k], istore[k])
  BY <1>1, <1>2, SaveOpen DEF TaskInv, DirPcs, UnlinkPcs
<1>4. /\ Entry(t)' = Entry(t) /\ ObjIno(t)' = ObjIno(t)
      /\ \A i : (Live(i)' <=> Live(i)) /\ (Unnamed(i)' <=> Unnamed(i))
  BY <1>1, <1>3 DEF Entry, ObjIno, Live, Unnamed, Same
<1> USE DEF UnlinkPcs, LookupPcs, CreatePcs, NamedPcs, FreshPcs, AddPcs, ClaimPcs, DelPcs
<1>5. Live(ObjIno(t)) /\ Same(inode[arg[t].obj], istore[ObjIno(t)])
  BY <1>1, <1>2 DEF WorkInv
<1>6. Same(inode'[arg'[t].obj], istore'[ObjIno(t)'])
  BY <1>1, <1>3, <1>4, <1>5 DEF Live, Same
<1>7. WorkInv(t)' /\ pc[t] \in ClaimPcs
  BY <1>1, <1>2, <1>4, <1>5, <1>6 DEF WorkInv
<1>8. \A a : Same(inode'[a], inode[a])
  BY <1>1 DEF Same
<1>9. pc[t] \in UnlinkPcs /\ pc'[t] \in UnlinkPcs
  BY <1>1
<1> QED
  BY <1>1, <1>3, <1>4, <1>7, <1>8, <1>9, NameKeep

(* What a step leaves of another task's work. *)
LEMMA WorkOther ==
  ASSUME TypeInv, TreeInv, NameInv, NEW u \in Tasks, pc'[u] = pc[u], arg'[u] = arg[u],
         pc[u] \in DirPcs => Entry(u)' = Entry(u),
         pc[u] \in ObjPcs => Same(inode'[arg[u].obj], inode[arg[u].obj]),
         pc[u] \in FreshPcs => ObjIno(u) \notin imap',
         pc[u] \in ClaimPcs \cup NamedPcs => Same(istore'[ObjIno(u)], istore[ObjIno(u)]),
         pc[u] \in ClaimPcs => \A b \in Blocks, x \in Names : dirent'[b][x] # ObjIno(u)
  PROVE  WorkInv(u)' /\ (pc[u] \in ObjPcs => ObjIno(u)' = ObjIno(u))
<1>1. /\ FreshPcs \cup AddPcs \cup NamedPcs \cup ClaimPcs \subseteq ObjPcs
      /\ CreatePcs \cup UnlinkPcs \cup LookupPcs \cup NamedPcs \subseteq DirPcs
  BY DEF FreshPcs, AddPcs, NamedPcs, ClaimPcs, DelPcs, ObjPcs, CreatePcs, UnlinkPcs, DirPcs
<1>2. WorkInv(u)
  BY DEF NameInv
<1>3. pc[u] \in ObjPcs => ObjIno(u)' = ObjIno(u) /\ inode'[arg[u].obj].blk = inode[arg[u].obj].blk
  BY DEF ObjIno, Same
<1>4. pc[u] \in ClaimPcs \cup NamedPcs => Live(ObjIno(u)') /\ Live(ObjIno(u))'
  BY <1>1, <1>2, <1>3 DEF WorkInv, Live, Same
<1>5. pc[u] \in ClaimPcs \cup NamedPcs => Same(inode'[arg'[u].obj], istore'[ObjIno(u)'])
  BY <1>1, <1>2, <1>3 DEF WorkInv, Same
<1>6. pc[u] \in ClaimPcs => Unnamed(ObjIno(u))'
  BY <1>1, <1>2, <1>3 DEF WorkInv, Unnamed
<1> QED
  BY <1>1, <1>2, <1>3, <1>4, <1>5, <1>6 DEF WorkInv

(* What a step leaves of a binding. *)
LEMMA BoundOther ==
  ASSUME NEW d \in Addrs, NEW x \in Names, Bound(d, x), dentry'[d][x] = dentry[d][x],
         inode'[d].blk = inode[d].blk,
         dirent'[inode[d].blk][x] = dirent[inode[d].blk][x],
         Same(inode'[dentry[d][x]], inode[dentry[d][x]]),
         dirent[inode[d].blk][x] # 0 =>
           Same(istore'[dirent[inode[d].blk][x]], istore[dirent[inode[d].blk][x]]),
         \A t \in Tasks : pc[t] \in UnlinkPcs /\ arg[t].dir = d /\ arg[t].name = x =>
                            pc'[t] \in UnlinkPcs /\ arg'[t] = arg[t]
  PROVE  Bound(d, x)'
<1>1. CASE \E t \in Tasks : pc[t] \in UnlinkPcs /\ arg[t].dir = d /\ arg[t].name = x
  BY <1>1 DEF Bound
<1>2. CASE /\ dirent[inode[d].blk][x] # 0
           /\ dirent[inode[d].blk][x] = inode[dentry[d][x]].ino
           /\ Same(inode[dentry[d][x]], istore[inode[dentry[d][x]].ino])
  <2> DEFINE o == dentry[d][x]
             k == dirent[inode[d].blk][x]
  <2>1. k # 0 /\ k = inode[o].ino /\ Same(inode[o], istore[k])
    BY <1>2
  <2>2. /\ Same(inode'[o], inode[o]) /\ Same(istore'[k], istore[k])
        /\ dirent'[inode'[d].blk][x] = k /\ dentry'[d][x] = o
    BY <2>1
  <2> HIDE DEF o, k
  <2>3. k = inode'[o].ino /\ Same(inode'[o], istore'[k])
    BY <2>1, <2>2 DEF Same
  <2> QED
    BY <2>1, <2>2, <2>3 DEF Bound
<1> QED
  BY <1>1, <1>2 DEF Bound

(* Claims stay apart when those that stay are the same and a new one is new. *)
LEMMA ClaimsKept ==
  ASSUME NameInv, NEW t \in Tasks,
         \A u \in Tasks : u # t => pc'[u] = pc[u] /\ (pc[u] \in ClaimPcs => ObjIno(u)' = ObjIno(u)),
         pc'[t] \in ClaimPcs => \A u \in Tasks : u # t /\ pc[u] \in ClaimPcs => ObjIno(u) # ObjIno(t)'
  PROVE  ClaimsApart'
BY DEF NameInv, ClaimsApart

(* An unlink takes over the claim that the name had. *)
LEMMA NameUnlinkCall ==
  ASSUME TypeInv, TypeInv', TreeInv, NameInv, NEW t \in Tasks, NEW d \in Addrs, NEW x \in Names,
         UnlinkCall(t, d, x)
  PROVE  NameInv'
<1> DEFINE o == dentry[d][x]
           b == inode[d].blk
           i == dirent[b][x]
<1>1. /\ o \in Addrs /\ inode[o].mode # "dir" /\ pc[t] = "idle"
      /\ \A u \in Tasks : arg[u].dir # d
      /\ dirent' = [dirent EXCEPT ![b][x] = 0]
      /\ inode' = [inode EXCEPT ![d].n = Dec(@)]
      /\ arg' = [arg EXCEPT ![t] = [NoArg EXCEPT !.dir = d, !.name = x, !.obj = o]]
      /\ UNCHANGED <<imap, istore, dentry>>
  BY DEF UnlinkCall, DirBusy
<1>2. OpenDir(d) /\ Bound(d, x)
  BY <1>1 DEF TreeInv, DentryInv, NameInv, BoundInv
<1>3. b \in Blocks
  BY DEF TypeInv, TypeOK, Inode
<1>4. i # 0 /\ i = inode[o].ino /\ Same(inode[o], istore[i])
  BY <1>1, <1>2 DEF Bound
<1>5. Live(i) /\ i # RootIno
  BY <1>3, <1>4 DEF NameInv, NamesInv
<1>6. /\ pc'[t] = "u_save_lock" /\ \A u \in Tasks : u # t => pc'[u] = pc[u] /\ arg'[u] = arg[u]
      /\ arg'[t].dir = d /\ arg'[t].name = x /\ arg'[t].obj = o
  BY <1>1 DEF UnlinkCall, Goto, TypeInv, TypeOK, NoArg
<1>7. \A c \in Blocks, y \in Names : dirent'[c][y] = IF c = b /\ y = x THEN 0 ELSE dirent[c][y]
  BY <1>1, <1>3 DEF TypeInv, TypeOK
<1>8. \A a \in Addrs : Same(inode'[a], inode[a])
  BY <1>1 DEF TypeInv, TypeOK, Inode, Same
<1>9. dentry[d][x] = o /\ inode[d].blk = b /\ dirent[b][x] = i
  OBVIOUS
<1> HIDE DEF o, b, i
<1>10. \A c \in Blocks, y \in Names : dirent[c][y] = i => c = b /\ y = x
  BY <1>3, <1>4, <1>9 DEF NameInv, NamesInv, NamesInjective
<1>11. i # RootIno /\ \A c \in Blocks, y \in Names : dirent'[c][y] # i
  BY <1>4, <1>5, <1>7, <1>10
<1>12. \A k : Live(k)' = Live(k)
  BY <1>1 DEF Live
<1>13. StoreInv'
  BY <1>1, <1>8, <1>12, FSAssumption DEF NameInv, StoreInv, Same
<1>14. NamesInv'
  <2>1. \A k, c : DirAt(k, c)' = DirAt(k, c)
    BY <1>1, <1>12 DEF DirAt
  <2>2. NamesInjective'
    BY <1>7 DEF NameInv, NamesInv, NamesInjective
  <2> QED
    BY <1>7, <1>12, <2>1, <2>2 DEF NameInv, NamesInv
<1>15. \A a \in Addrs : OpenDir(a)' <=> OpenDir(a)
  BY <1>1, <1>8 DEF OpenDir, HasDentry, Same
<1>16. DirsApart'
  BY <1>8, <1>15 DEF NameInv, DirsApart, Same
<1>17. BoundInv'
  <2> SUFFICES ASSUME NEW e \in Addrs, NEW y \in Names, dentry'[e][y] \in Addrs PROVE Bound(e, y)'
    BY DEF BoundInv
  <2>1. dentry[e][y] \in Addrs /\ Bound(e, y) /\ OpenDir(e)
    BY <1>1 DEF NameInv, BoundInv, TreeInv, DentryInv
  <2>2. CASE e = d /\ y = x
    BY <1>6, <2>2 DEF Bound, UnlinkPcs
  <2>3. CASE ~(e = d /\ y = x)
    <3>1. inode[e].blk \in Blocks
      BY DEF TypeInv, TypeOK, Inode
    <3>2. dirent'[inode[e].blk][y] = dirent[inode[e].blk][y]
      <4>1. inode[e].blk = b => e = d
        BY <1>2, <1>9, <2>1 DEF NameInv, DirsApart
      <4> QED
        BY <1>7, <2>3, <3>1, <4>1
    <3>3. \A u \in Tasks : pc[u] \in UnlinkPcs => pc'[u] \in UnlinkPcs /\ arg'[u] = arg[u]
      BY <1>1, <1>6 DEF UnlinkPcs
    <3>4. Same(inode'[dentry[e][y]], inode[dentry[e][y]]) /\ inode'[e].blk = inode[e].blk
      BY <1>8, <2>1 DEF Same
    <3>5. \A k : Same(istore'[k], istore[k])
      BY <1>1 DEF Same
    <3> QED
      BY <1>1, <2>1, <3>2, <3>3, <3>4, <3>5, BoundOther
  <2> QED
    BY <2>2, <2>3
<1>18. ASSUME NEW u \in Tasks, u # t
       PROVE  WorkInv(u)' /\ (pc[u] \in ObjPcs => ObjIno(u)' = ObjIno(u))
  <2>1. pc'[u] = pc[u] /\ arg'[u] = arg[u] /\ WorkInv(u) /\ TaskInv(u)
    BY <1>6, <1>18 DEF NameInv, TreeInv
  <2>2. ASSUME pc[u] \in DirPcs PROVE Entry(u)' = Entry(u)
    <3>1. /\ arg[u].dir \in Addrs /\ arg[u].name \in Names /\ OpenDir(arg[u].dir)
          /\ inode[arg[u].dir].blk \in Blocks
      BY <2>1, <2>2, ObjType DEF TaskInv, Inode
    <3>2. arg[u].dir # d
      BY <1>1
    <3>3. inode[arg[u].dir].blk # b
      BY <1>2, <1>9, <3>1, <3>2 DEF NameInv, DirsApart
    <3>4. inode'[arg[u].dir].blk = inode[arg[u].dir].blk
      BY <1>8, <3>1 DEF Same
    <3> QED
      BY <1>7, <2>1, <3>1, <3>3, <3>4 DEF Entry
  <2>3. pc[u] \in ObjPcs => Same(inode'[arg[u].obj], inode[arg[u].obj])
    BY <1>8, ObjType
  <2>4. pc[u] \in FreshPcs => ObjIno(u) \notin imap'
    BY <1>1, <2>1 DEF WorkInv
  <2>5. Same(istore'[ObjIno(u)], istore[ObjIno(u)])
    BY <1>1 DEF Same
  <2>6. pc[u] \in ClaimPcs => \A c \in Blocks, y \in Names : dirent'[c][y] # ObjIno(u)
    <3>1. pc[u] \in ClaimPcs => Live(ObjIno(u)) /\ Unnamed(ObjIno(u)) /\ ObjIno(u) # 0
      BY <2>1, LayoutAssumption DEF WorkInv, Live, Inos
    <3> QED
      BY <1>7, <3>1 DEF Unnamed
  <2> QED
    BY <2>1, <2>2, <2>3, <2>4, <2>5, <2>6, WorkOther
<1>19. ObjIno(t)' = i
  BY <1>1, <1>4, <1>6, <1>8 DEF ObjIno, Same
<1>20. WorkInv(t)'
  <2>1. Entry(t)' = 0
    BY <1>3, <1>6, <1>7, <1>8, <1>9 DEF Entry, Same
  <2>2. i \in Inos /\ istore'[i].ino = i /\ Same(inode'[o], istore'[i])
    BY <1>1, <1>4, <1>5, <1>8 DEF Same, Live
  <2>3. "u_save_lock" \notin LookupPcs \cup NamedPcs \cup FreshPcs \cup AddPcs
    BY DEF LookupPcs, NamedPcs, FreshPcs, AddPcs
  <2> QED
    BY <1>6, <1>11, <1>19, <2>1, <2>2, <2>3 DEF WorkInv, Live, Unnamed
<1>21. \A u \in Tasks : u # t /\ pc[u] \in ClaimPcs => ObjIno(u) # i
  BY <1>3, <1>9 DEF NameInv, WorkInv, Unnamed
<1>22. ClaimsApart'
  <2>1. ClaimPcs \subseteq ObjPcs
    BY DEF ClaimPcs, DelPcs, ObjPcs, CreatePcs, UnlinkPcs
  <2> QED
    BY <1>6, <1>18, <1>19, <1>21, <2>1, ClaimsKept
<1> QED
  BY <1>13, <1>14, <1>16, <1>17, <1>18, <1>20, <1>22 DEF NameInv

(* simplefs_inode_add fills a slot that no name and no task knows. *)
LEMMA NameAdd ==
  ASSUME TypeInv, TypeInv', LockInv, RoomInv, TreeInv, NameInv, NEW t \in Tasks, InodeAdd(t)
  PROVE  NameInv'
<1> DEFINE rec == inode[arg[t].obj]
           i == rec.ino
<1>1. /\ pc[t] = "a_add" /\ pc'[t] = "c_name"
      /\ \A u \in Tasks : u # t => pc'[u] = pc[u]
      /\ istore' = Put(istore, i, rec)
      /\ imap' = imap \cup {i}
      /\ UNCHANGED <<dirent, inode, dentry, arg>>
  BY DEF InodeAdd, Goto, TypeInv, TypeOK
<1>2. TaskInv(t) /\ WorkInv(t) /\ arg[t].obj \in Addrs /\ rec \in Inode
  BY <1>1, ObjType DEF ObjPcs, CreatePcs, TreeInv, NameInv
<1>3. i \notin imap /\ rec.blk # 0 /\ Entry(t) = 0
  BY <1>1, <1>2 DEF WorkInv, ObjIno, FreshPcs, AddPcs, CreatePcs, NamedPcs
<1>4. i = ObjIno(t) /\ rec = inode[arg[t].obj] /\ rec.ino = i
  BY DEF ObjIno
<1>5. i \in 0 .. ImapBits
  BY <1>2 DEF Inode
<1> HIDE DEF rec, i
<1>6. 0 \in imap /\ \A k \in Inos : k \in imap <=> Live(k)
  BY LiveBits DEF NameInv
<1>7. i \in Inos /\ ~Live(i)
  BY <1>3, <1>5, <1>6, LayoutAssumption DEF Inos
<1>8. \A k \in Inos : istore'[k] = IF k = i THEN rec ELSE istore[k]
  BY <1>1 DEF Put
<1>9. \A k : Live(k)' <=> Live(k) \/ k = i
  BY <1>4, <1>7, <1>8 DEF Live
<1>10. \A k : Live(k) => istore'[k] = istore[k]
  BY <1>7, <1>8 DEF Live
<1>11. StoreInv'
  <2>1. FillImap(istore') = FillImap(istore) \cup {i}
    <3>1. istore[i].ino = 0
      BY <1>7, LiveBits DEF NameInv
    <3>2. i # 0
      BY <1>3, <1>6
    <3>3. FillImap(istore') \subseteq FillImap(istore) \cup {i}
      BY <1>4, <1>8 DEF FillImap
    <3>4. i \in FillImap(istore')
      BY <1>4, <1>7, <1>8, <3>2 DEF FillImap
    <3>5. FillImap(istore) \subseteq FillImap(istore')
      <4>1. \A k \in Inos : istore[k].ino # 0 => istore'[k] = istore[k]
        BY <1>8, <3>1
      <4> QED
        BY <4>1 DEF FillImap
    <3> QED
      BY <3>3, <3>4, <3>5
  <2>2. Live(RootIno) /\ istore'[RootIno] = istore[RootIno]
    BY <1>10 DEF NameInv, StoreInv
  <2>3. \A k \in Inos : Live(k)' /\ istore'[k].mode = "dir" => istore'[k].blk # 0
    BY <1>3, <1>8, <1>9, <1>10 DEF NameInv, StoreInv
  <2>4. Live(RootIno)' /\ inode' = inode
    BY <1>1, <1>9, <2>2
  <2> QED
    BY <1>1, <2>1, <2>2, <2>3, <2>4 DEF NameInv, StoreInv
<1>12. NamesInv'
  <2>1. \A k, c : DirAt(k, c) => DirAt(k, c)'
    BY <1>9, <1>10 DEF DirAt
  <2>2. NamesInjective'
    BY <1>1 DEF NameInv, NamesInv, NamesInjective
  <2> QED
    BY <1>1, <1>9, <2>1, <2>2 DEF NameInv, NamesInv
<1>13. DirsApart'
  BY <1>1 DEF NameInv, DirsApart, OpenDir, HasDentry
<1>14. BoundInv'
  <2> SUFFICES ASSUME NEW e \in Addrs, NEW y \in Names, dentry'[e][y] \in Addrs PROVE Bound(e, y)'
    BY DEF BoundInv
  <2>1. dentry[e][y] \in Addrs /\ Bound(e, y)
    BY <1>1 DEF NameInv, BoundInv
  <2>2. inode[e].blk \in Blocks
    BY DEF TypeInv, TypeOK, Inode
  <2>3. dirent[inode[e].blk][y] # 0 =>
          Same(istore'[dirent[inode[e].blk][y]], istore[dirent[inode[e].blk][y]])
    BY <1>10, <2>2 DEF NameInv, NamesInv, Same
  <2>4. \A u \in Tasks : pc[u] \in UnlinkPcs => pc'[u] \in UnlinkPcs /\ arg'[u] = arg[u]
    BY <1>1 DEF UnlinkPcs
  <2> QED
    BY <1>1, <2>1, <2>3, <2>4, BoundOther DEF Same
<1>15. ASSUME NEW u \in Tasks, u # t
       PROVE  WorkInv(u)' /\ (pc[u] \in ObjPcs => ObjIno(u)' = ObjIno(u))
  <2>1. pc'[u] = pc[u] /\ arg'[u] = arg[u] /\ WorkInv(u)
    BY <1>1, <1>15 DEF NameInv
  <2>2. Entry(u)' = Entry(u) /\ Same(inode'[arg[u].obj], inode[arg[u].obj])
    BY <1>1 DEF Entry, Same
  <2>3. pc[u] \notin FreshPcs
    BY <1>1, <1>15, OneCreator DEF FreshPcs, AddPcs, ChildrenPcs, CreatePcs
  <2>4. pc[u] \in ClaimPcs \cup NamedPcs => Same(istore'[ObjIno(u)], istore[ObjIno(u)])
    BY <1>10, <2>1 DEF WorkInv, Same
  <2>5. pc[u] \in ClaimPcs => \A b \in Blocks, x \in Names : dirent'[b][x] # ObjIno(u)
    BY <1>1, <2>1 DEF WorkInv, Unnamed
  <2> QED
    BY <2>1, <2>2, <2>3, <2>4, <2>5, WorkOther
<1>16. ObjIno(t)' = i /\ Entry(t)' = 0
  BY <1>1, <1>3, <1>4 DEF ObjIno, Entry
<1>17. i # RootIno /\ \A b \in Blocks, x \in Names : dirent'[b][x] # i
  <2>1. i # 0
    BY <1>3, <1>6
  <2> QED
    BY <1>1, <1>7, <2>1 DEF NameInv, StoreInv, NamesInv
<1>18. WorkInv(t)'
  <2>1. istore'[i].ino = i /\ Same(inode'[arg'[t].obj], istore'[i])
    BY <1>1, <1>4, <1>7, <1>8 DEF Same
  <2>2. "c_name" \notin LookupPcs \cup NamedPcs \cup FreshPcs \cup AddPcs
    BY DEF LookupPcs, NamedPcs, FreshPcs, AddPcs
  <2> QED
    BY <1>1, <1>7, <1>16, <1>17, <2>1, <2>2 DEF WorkInv, Live, Unnamed
<1>19. ClaimsApart'
  <2>1. ClaimPcs \subseteq ObjPcs
    BY DEF ClaimPcs, DelPcs, ObjPcs, CreatePcs, UnlinkPcs
  <2>2. \A u \in Tasks : pc[u] \in ClaimPcs => ObjIno(u) # i
    BY <1>7 DEF NameInv, WorkInv
  <2> QED
    BY <1>1, <1>15, <1>16, <2>1, <2>2, ClaimsKept
<1> QED
  BY <1>11, <1>12, <1>13, <1>14, <1>15, <1>18, <1>19 DEF NameInv

(* The name goes where no name was, and to an inode that has none. *)
LEMMA NameAddName ==
  ASSUME TypeInv, TypeInv', TreeInv, NameInv, NEW t \in Tasks, AddName(t)
  PROVE  NameInv'
<1> DEFINE d == arg[t].dir
           x == arg[t].name
           b == inode[d].blk
           i == inode[arg[t].obj].ino
<1>1. /\ pc[t] = "c_name" /\ pc'[t] = "c_parent"
      /\ \A u \in Tasks : u # t => pc'[u] = pc[u]
      /\ dirent' = [dirent EXCEPT ![b][x] = i]
      /\ UNCHANGED <<imap, istore, inode, dentry, arg>>
  BY DEF AddName, Goto, TypeInv, TypeOK
<1>2. TaskInv(t) /\ WorkInv(t) /\ d \in Addrs /\ x \in Names /\ pc[t] \in DirPcs
  BY <1>1, ObjType DEF DirPcs, CreatePcs, TreeInv, NameInv
<1>3. OpenDir(d) /\ dentry[d][x] = None
  BY <1>1, <1>2 DEF TaskInv, CreatePcs
<1>4. b \in Blocks /\ DirAt(inode[d].ino, b)
  BY <1>2, <1>3, OpenLive
<1>5. /\ Live(i) /\ Same(inode[arg[t].obj], istore[i])
      /\ i # RootIno /\ \A c \in Blocks, y \in Names : dirent[c][y] # i
      /\ Entry(t) = 0
  BY <1>1, <1>2 DEF WorkInv, ClaimPcs, ObjIno, Unnamed, CreatePcs, NamedPcs
<1>6. i # 0
  BY <1>5, LayoutAssumption DEF Live, Inos
<1>7. \A c \in Blocks, y \in Names : dirent'[c][y] = IF c = b /\ y = x THEN i ELSE dirent[c][y]
  BY <1>1, <1>2, <1>4 DEF TypeInv, TypeOK
<1>8. i = ObjIno(t) /\ b = inode[d].blk /\ d = arg[t].dir /\ x = arg[t].name
  BY DEF ObjIno
<1> HIDE DEF d, x, b, i
<1>9. \A k, c : Live(k)' = Live(k) /\ DirAt(k, c)' = DirAt(k, c)
  BY <1>1 DEF Live, DirAt
<1>10. StoreInv'
  BY <1>1, <1>9 DEF NameInv, StoreInv
<1>11. NamesInv'
  <2>1. NamesInjective'
    BY <1>5, <1>7 DEF NameInv, NamesInv, NamesInjective
  <2>2. inode[d].ino \in Inos
    BY <1>4 DEF DirAt, Live
  <2>3. ASSUME NEW c \in Blocks, NEW y \in Names, dirent'[c][y] # 0
        PROVE  /\ Live(dirent'[c][y]) /\ dirent'[c][y] # RootIno
               /\ \E k \in Inos : DirAt(k, c)
    BY <1>4, <1>5, <1>7, <2>2, <2>3 DEF NameInv, NamesInv
  <2>4. ASSUME NEW c \in Blocks, NEW y \in Names, dirent'[c][y] # 0
        PROVE  /\ Live(dirent[c][y])' /\ dirent'[c][y] # RootIno
               /\ \E k \in Inos : DirAt(k, c)'
    BY <1>1, <2>3, <2>4 DEF Live, DirAt
  <2> QED
    BY <2>1, <2>4 DEF NamesInv
<1>12. DirsApart'
  BY <1>1 DEF NameInv, DirsApart, OpenDir, HasDentry
<1>13. BoundInv'
  <2> SUFFICES ASSUME NEW e \in Addrs, NEW y \in Names, dentry'[e][y] \in Addrs PROVE Bound(e, y)'
    BY DEF BoundInv
  <2>1. dentry[e][y] \in Addrs /\ Bound(e, y) /\ OpenDir(e)
    BY <1>1 DEF NameInv, BoundInv, TreeInv, DentryInv
  <2>2. inode[e].blk \in Blocks
    BY DEF TypeInv, TypeOK, Inode
  <2>3. ~(e = d /\ y = x)
    BY <1>3, <2>1, FSAssumption
  <2>4. inode[e].blk = b => e = d
    BY <1>2, <1>3, <1>8, <2>1 DEF NameInv, DirsApart
  <2>5. dirent'[inode[e].blk][y] = dirent[inode[e].blk][y]
    BY <1>7, <2>2, <2>3, <2>4
  <2>6. \A u \in Tasks : pc[u] \in UnlinkPcs => pc'[u] \in UnlinkPcs /\ arg'[u] = arg[u]
    BY <1>1 DEF UnlinkPcs
  <2> QED
    BY <1>1, <2>1, <2>5, <2>6, BoundOther DEF Same
<1>14. ASSUME NEW u \in Tasks, u # t
       PROVE  WorkInv(u)' /\ (pc[u] \in ObjPcs => ObjIno(u)' = ObjIno(u))
  <2>1. pc'[u] = pc[u] /\ arg'[u] = arg[u] /\ WorkInv(u)
    BY <1>1, <1>14 DEF NameInv
  <2>2. ASSUME pc[u] \in DirPcs PROVE Entry(u)' = Entry(u)
    <3>1. inode[arg[u].dir].blk # b
      BY <1>2, <1>8, <1>14, <2>2, Elsewhere
    <3>2. arg[u].name \in Names /\ inode[arg[u].dir].blk \in Blocks
      BY <2>2, ObjType DEF Inode
    <3> QED
      BY <1>1, <1>7, <3>1, <3>2 DEF Entry
  <2>3. Same(inode'[arg[u].obj], inode[arg[u].obj])
    BY <1>1 DEF Same
  <2>4. pc[u] \in FreshPcs => ObjIno(u) \notin imap'
    BY <1>1, <2>1 DEF WorkInv
  <2>5. Same(istore'[ObjIno(u)], istore[ObjIno(u)])
    BY <1>1 DEF Same
  <2>6. pc[u] \in ClaimPcs => \A c \in Blocks, y \in Names : dirent'[c][y] # ObjIno(u)
    <3>1. pc[u] \in ClaimPcs => ObjIno(u) # i
      BY <1>1, <1>8, <1>14 DEF NameInv, ClaimsApart, ClaimPcs
    <3> QED
      BY <1>7, <2>1, <3>1 DEF WorkInv, Unnamed
  <2> QED
    BY <2>1, <2>2, <2>3, <2>4, <2>5, <2>6, WorkOther
<1>15. WorkInv(t)'
  <2>1. ObjIno(t)' = i /\ Entry(t)' = i
    <3>1. ObjIno(t)' = ObjIno(t)
      BY <1>1 DEF ObjIno
    <3>2. Entry(t)' = dirent'[inode[arg[t].dir].blk][arg[t].name]
      BY <1>1 DEF Entry
    <3>3. dirent'[b][x] = i
      BY <1>2, <1>4, <1>7
    <3> QED
      BY <1>8, <3>1, <3>2, <3>3
  <2>2. i \in Inos /\ istore'[i].ino = i /\ Same(inode'[arg'[t].obj], istore'[i])
    BY <1>1, <1>5 DEF Live
  <2>3. "c_parent" \notin LookupPcs \cup UnlinkPcs \cup FreshPcs \cup AddPcs \cup ClaimPcs
    BY DEF LookupPcs, UnlinkPcs, FreshPcs, AddPcs, ClaimPcs, DelPcs
  <2>4. "c_parent" \in NamedPcs
    BY DEF NamedPcs
  <2> QED
    BY <1>1, <2>1, <2>2, <2>3, <2>4 DEF WorkInv, Live
<1>16. ClaimsApart'
  <2>1. ClaimPcs \subseteq ObjPcs /\ "c_parent" \notin ClaimPcs
    BY DEF ClaimPcs, DelPcs, ObjPcs, CreatePcs, UnlinkPcs
  <2> QED
    BY <1>1, <1>14, <2>1, ClaimsKept
<1> QED
  BY <1>10, <1>11, <1>12, <1>13, <1>14, <1>15, <1>16 DEF NameInv

(* simplefs_inode_del empties a slot that no name has and that is the task's. *)
LEMMA NameDel ==
  ASSUME TypeInv, TypeInv', RoomInv, TreeInv, NameInv, NEW t \in Tasks, InodeDel(t)
  PROVE  NameInv'
<1> DEFINE i == inode[arg[t].obj].ino
<1>1. /\ pc[t] = "d_del" /\ pc'[t] = "u_end"
      /\ \A u \in Tasks : u # t => pc'[u] = pc[u]
      /\ istore' = Put(istore, i, ZeroInode)
      /\ imap' = imap \ {i}
      /\ UNCHANGED <<dirent, inode, dentry, arg>>
  BY DEF InodeDel, Goto, TypeInv, TypeOK
<1>2. TaskInv(t) /\ WorkInv(t)
  BY DEF TreeInv, NameInv
<1>3. /\ Live(i) /\ Same(inode[arg[t].obj], istore[i])
      /\ i # RootIno /\ \A c \in Blocks, y \in Names : dirent[c][y] # i
      /\ Entry(t) = 0
  BY <1>1, <1>2 DEF WorkInv, ClaimPcs, DelPcs, ObjIno, Unnamed, UnlinkPcs
<1>4. istore[i].mode # "dir"
  BY <1>1, <1>2, <1>3 DEF TaskInv, UnlinkPcs, Same
<1>5. i = ObjIno(t)
  BY DEF ObjIno
<1> HIDE DEF i
<1>6. i \in Inos /\ i # 0 /\ ZeroInode.ino = 0
  BY <1>3, LayoutAssumption DEF Live, Inos, ZeroInode
<1>7. \A k \in Inos : istore'[k] = IF k = i THEN ZeroInode ELSE istore[k]
  BY <1>1 DEF Put
<1>8. \A k : Live(k)' <=> Live(k) /\ k # i
  BY <1>6, <1>7 DEF Live
<1>9. \A k : Live(k) /\ k # i => istore'[k] = istore[k]
  BY <1>7 DEF Live
<1>10. StoreInv'
  <2>1. FillImap(istore') = FillImap(istore) \ {i}
    <3>1. \A k \in Inos : istore[k].ino \in {0, k}
      BY DEF RoomInv, SlotsOwn
    <3>2. \A k \in Inos : istore'[k].ino = IF k = i THEN 0 ELSE istore[k].ino
      BY <1>6, <1>7
    <3>3. FillImap(istore') \subseteq FillImap(istore) \ {i}
      BY <1>6, <3>1, <3>2 DEF FillImap
    <3>4. FillImap(istore) \ {i} \subseteq FillImap(istore')
      BY <1>6, <3>1, <3>2 DEF FillImap
    <3> QED
      BY <3>3, <3>4
  <2>2. Live(RootIno) /\ istore'[RootIno] = istore[RootIno]
    BY <1>3, <1>9 DEF NameInv, StoreInv
  <2>3. \A k \in Inos : Live(k)' /\ istore'[k].mode = "dir" => istore'[k].blk # 0
    BY <1>8, <1>9 DEF NameInv, StoreInv
  <2>4. Live(RootIno)' /\ inode' = inode
    BY <1>1, <1>3, <1>8, <2>2
  <2> QED
    BY <1>1, <2>1, <2>2, <2>3, <2>4 DEF NameInv, StoreInv
<1>11. NamesInv'
  <2>1. \A k, c : DirAt(k, c) => DirAt(k, c)'
    BY <1>4, <1>8, <1>9 DEF DirAt
  <2>2. NamesInjective'
    BY <1>1 DEF NameInv, NamesInv, NamesInjective
  <2> QED
    BY <1>1, <1>3, <1>8, <2>1, <2>2 DEF NameInv, NamesInv
<1>12. DirsApart'
  BY <1>1 DEF NameInv, DirsApart, OpenDir, HasDentry
<1>13. BoundInv'
  <2> SUFFICES ASSUME NEW e \in Addrs, NEW y \in Names, dentry'[e][y] \in Addrs PROVE Bound(e, y)'
    BY DEF BoundInv
  <2>1. dentry[e][y] \in Addrs /\ Bound(e, y)
    BY <1>1 DEF NameInv, BoundInv
  <2>2. inode[e].blk \in Blocks
    BY DEF TypeInv, TypeOK, Inode
  <2>3. dirent[inode[e].blk][y] # 0 =>
          Same(istore'[dirent[inode[e].blk][y]], istore[dirent[inode[e].blk][y]])
    BY <1>3, <1>9, <2>2 DEF NameInv, NamesInv, Same
  <2>4. \A u \in Tasks : pc[u] \in UnlinkPcs => pc'[u] \in UnlinkPcs /\ arg'[u] = arg[u]
    BY <1>1 DEF UnlinkPcs
  <2> QED
    BY <1>1, <2>1, <2>3, <2>4, BoundOther DEF Same
<1>14. ASSUME NEW u \in Tasks, u # t
       PROVE  WorkInv(u)' /\ (pc[u] \in ObjPcs => ObjIno(u)' = ObjIno(u))
  <2>1. pc'[u] = pc[u] /\ arg'[u] = arg[u] /\ WorkInv(u)
    BY <1>1, <1>14 DEF NameInv
  <2>2. Entry(u)' = Entry(u) /\ Same(inode'[arg[u].obj], inode[arg[u].obj])
    BY <1>1 DEF Entry, Same
  <2>3. pc[u] \in FreshPcs => ObjIno(u) \notin imap'
    BY <1>1, <2>1 DEF WorkInv
  <2>4. pc[u] \in ClaimPcs => ObjIno(u) # i
    BY <1>1, <1>5, <1>14 DEF NameInv, ClaimsApart, ClaimPcs, DelPcs
  <2>5. pc[u] \in NamedPcs => ObjIno(u) # i
    <3> SUFFICES ASSUME pc[u] \in NamedPcs PROVE ObjIno(u) # i
      OBVIOUS
    <3>1. Entry(u) = ObjIno(u)
      BY <2>1 DEF WorkInv
    <3>2. arg[u].name \in Names /\ inode[arg[u].dir].blk \in Blocks
      BY ObjType DEF Inode, NamedPcs, DirPcs, CreatePcs
    <3> QED
      BY <1>3, <3>1, <3>2 DEF Entry
  <2>6. pc[u] \in ClaimPcs \cup NamedPcs => Same(istore'[ObjIno(u)], istore[ObjIno(u)])
    BY <1>9, <2>1, <2>4, <2>5 DEF WorkInv, Same
  <2>7. pc[u] \in ClaimPcs => \A c \in Blocks, y \in Names : dirent'[c][y] # ObjIno(u)
    BY <1>1, <2>1 DEF WorkInv, Unnamed
  <2> QED
    BY <2>1, <2>2, <2>3, <2>6, <2>7, WorkOther
<1>15. WorkInv(t)' /\ "u_end" \notin ClaimPcs
  <2>1. Entry(t)' = 0
    BY <1>1, <1>3 DEF Entry
  <2>2. "u_end" \notin LookupPcs \cup NamedPcs \cup FreshPcs \cup AddPcs \cup ClaimPcs
    BY DEF LookupPcs, NamedPcs, FreshPcs, AddPcs, ClaimPcs, DelPcs
  <2> QED
    BY <1>1, <2>1, <2>2 DEF WorkInv
<1>16. ClaimsApart'
  <2>1. ClaimPcs \subseteq ObjPcs
    BY DEF ClaimPcs, DelPcs, ObjPcs, CreatePcs, UnlinkPcs
  <2> QED
    BY <1>1, <1>14, <1>15, <2>1, ClaimsKept
<1> QED
  BY <1>10, <1>11, <1>12, <1>13, <1>14, <1>15, <1>16 DEF NameInv

(* A bound name that is on disk has the object of its inode. *)
LEMMA BoundNamed ==
  ASSUME TypeInv, TreeInv, NameInv, NEW d \in Addrs, NEW x \in Names, dentry[d][x] \in Addrs,
         dirent[inode[d].blk][x] # 0
  PROVE  /\ dirent[inode[d].blk][x] = inode[dentry[d][x]].ino
         /\ Live(inode[dentry[d][x]].ino)
         /\ Same(inode[dentry[d][x]], istore[inode[dentry[d][x]].ino])
<1>1. Bound(d, x) /\ inode[d].blk \in Blocks
  BY DEF NameInv, BoundInv, TypeInv, TypeOK, Inode
<1>2. ASSUME NEW t \in Tasks, pc[t] \in UnlinkPcs, arg[t].dir = d, arg[t].name = x PROVE FALSE
  BY <1>2 DEF NameInv, WorkInv, Entry
<1> QED
  BY <1>1, <1>2 DEF Bound, NameInv, NamesInv

(* A directory is not removed: as long as it is bound, its name is there. *)
LEMMA DirNamed ==
  ASSUME TypeInv, TreeInv, NameInv, NEW d \in Addrs, OpenDir(d), d # RootAddr
  PROVE  \E e \in Addrs, x \in Names : dentry[e][x] = d /\ dirent[inode[e].blk][x] # 0
<1>1. PICK e \in Addrs, x \in Names : dentry[e][x] = d
  BY DEF OpenDir, HasDentry
<1>2. ASSUME NEW t \in Tasks, pc[t] \in UnlinkPcs, arg[t].dir = e, arg[t].name = x PROVE FALSE
  <2>1. inode[dentry[e][x]].mode # "dir"
    BY <1>2 DEF TreeInv, TaskInv
  <2> QED
    BY <1>1, <2>1 DEF OpenDir
<1> QED
  BY <1>1, <1>2 DEF NameInv, BoundInv, Bound

(* A name that is not bound is the name of no object. *)
LEMMA UnboundName ==
  ASSUME TypeInv, TreeInv, NameInv, NEW d \in Addrs, NEW x \in Names, OpenDir(d),
         dentry[d][x] = None, dirent[inode[d].blk][x] # 0
  PROVE  /\ \A e \in Addrs, y \in Names :
              dentry[e][y] \in Addrs /\ dirent[inode[e].blk][y] # 0 =>
                inode[dentry[e][y]].ino # dirent[inode[d].blk][x]
         /\ \A e \in Addrs : OpenDir(e) => inode[e].ino # dirent[inode[d].blk][x]
<1>1. \A e \in Addrs : inode[e].blk \in Blocks
  BY DEF TypeInv, TypeOK, Inode
<1>2. ASSUME NEW e \in Addrs, NEW y \in Names, dentry[e][y] \in Addrs, dirent[inode[e].blk][y] # 0,
             inode[dentry[e][y]].ino = dirent[inode[d].blk][x]
      PROVE  FALSE
  <2>1. dirent[inode[e].blk][y] = dirent[inode[d].blk][x]
    BY <1>2, BoundNamed
  <2>2. inode[e].blk = inode[d].blk /\ y = x
    BY <1>1, <1>2, <2>1 DEF NameInv, NamesInv, NamesInjective
  <2>3. OpenDir(e)
    BY <1>2 DEF TreeInv, DentryInv
  <2>4. e = d
    BY <2>2, <2>3 DEF NameInv, DirsApart
  <2> QED
    BY <1>2, <2>2, <2>4, FSAssumption
<1>3. ASSUME NEW e \in Addrs, OpenDir(e), inode[e].ino = dirent[inode[d].blk][x] PROVE FALSE
  <2>1. CASE e = RootAddr
    BY <1>1, <1>3, <2>1 DEF NameInv, StoreInv, NamesInv, Same, Live
  <2>2. CASE e # RootAddr
    BY <1>2, <1>3, <2>2, DirNamed
  <2> QED
    BY <2>1, <2>2
<1> QED
  BY <1>2, <1>3

(* A task binds to its name an object that agrees with the inode store. *)
LEMMA NameBind ==
  ASSUME TypeInv, TypeInv', BlockInv, TreeInv, TreeInv', NameInv,
         NEW t \in Tasks, pc[t] \in CreatePcs \cup LookupPcs,
         NEW o \in Addrs, ~Cached(o), \A u \in Tasks : u # t => arg[u].obj # o,
         dentry' = [dentry EXCEPT ![arg[t].dir][arg[t].name] = o],
         \A a \in Addrs : a # o => inode'[a] = inode[a],
         Entry(t) # 0, inode'[o].ino = Entry(t), Same(inode'[o], istore[Entry(t)]),
         UNCHANGED <<dirent, imap>>,
         \A k \in Inos : Same(istore'[k], istore[k]),
         Finish(t)
  PROVE  NameInv'
<1> DEFINE d == arg[t].dir
           x == arg[t].name
           i == Entry(t)
<1>1. /\ d \in Addrs /\ x \in Names
      /\ OpenDir(d) /\ dentry[d][x] = None /\ inode[d].blk \in Blocks
  BY ObjType DEF DirPcs, TreeInv, TaskInv, Inode
<1>2. /\ pc'[t] = "idle"
      /\ \A u \in Tasks : u # t => pc'[u] = pc[u] /\ arg'[u] = arg[u]
  BY TaskDone
<1>3. \A e \in Addrs, y \in Names : dentry'[e][y] = IF e = d /\ y = x THEN o ELSE dentry[e][y]
  BY <1>1 DEF TypeInv, TypeOK
<1>4. i = dirent[inode[d].blk][x] /\ i # 0 /\ inode'[o].ino = i /\ Same(inode'[o], istore[i])
  BY DEF Entry
<1> HIDE DEF d, x, i
<1>5. Live(i) /\ i \in Inos
  BY <1>1, <1>4 DEF NameInv, NamesInv, Live
<1>6. \A k : Live(k)' <=> Live(k)
  BY DEF Live, Same
<1>7. None \notin Addrs /\ o # RootAddr
  BY FSAssumption DEF Cached
<1>8. \A a \in Addrs : HasDentry(a)' <=> HasDentry(a) \/ a = o
  BY <1>1, <1>3, <1>7 DEF HasDentry
<1>9. \A a \in Addrs : a # o => (OpenDir(a)' <=> OpenDir(a)) /\ inode'[a] = inode[a]
  BY <1>8 DEF OpenDir
<1>10. StoreInv'
  <2>1. inode'[RootAddr] = inode[RootAddr] /\ RootIno \in Inos
    BY <1>7, FSAssumption, LayoutTypes
  <2>2. FillImap(istore') = FillImap(istore)
    BY DEF FillImap, Same
  <2>3. Live(RootIno)' /\ Same(istore'[RootIno], istore[RootIno])
    BY <1>6, <2>1 DEF NameInv, StoreInv
  <2>4. \A k \in Inos : Live(k)' /\ istore'[k].mode = "dir" => istore'[k].blk # 0
    BY <1>6 DEF NameInv, StoreInv, Same
  <2> QED
    BY <2>1, <2>2, <2>3, <2>4 DEF NameInv, StoreInv, Same
<1>11. NamesInv'
  BY <1>6 DEF NameInv, NamesInv, NamesInjective, DirAt, Same
<1>12. DirsApart'
  <2>1. ASSUME NEW e \in Addrs, e # o, OpenDir(e), inode'[o].mode = "dir",
               inode[e].blk = inode'[o].blk
        PROVE  FALSE
    <3>1. Live(inode[e].ino) /\ Same(inode[e], istore[inode[e].ino]) /\ inode[e].blk # 0
      BY <2>1, OpenLive
    <3>2. /\ istore[inode[e].ino] \in Records /\ istore[i] \in Records
          /\ istore[inode[e].ino].blk = istore[i].blk /\ istore[i].blk # 0
      BY <1>4, <1>5, <2>1, <3>1 DEF Records, Live, Same
    <3>3. istore[inode[e].ino].ino = istore[i].ino
      BY <3>2 DEF BlockInv, UniqueBlocks
    <3>4. inode[e].ino = i
      BY <1>5, <3>1, <3>3 DEF Live
    <3>5. inode[e].ino # i
      <4>1. dirent[inode[d].blk][x] # 0
        BY <1>4
      <4>2. \A f \in Addrs : OpenDir(f) => inode[f].ino # dirent[inode[d].blk][x]
        BY <1>1, <4>1, UnboundName
      <4> QED
        BY <1>4, <2>1, <4>2
    <3> QED
      BY <3>4, <3>5
  <2> SUFFICES ASSUME NEW e \in Addrs, NEW f \in Addrs, OpenDir(e)', OpenDir(f)',
                      inode'[e].blk = inode'[f].blk
               PROVE  e = f
    BY DEF DirsApart
  <2>2. inode'[e].mode = "dir" /\ inode'[f].mode = "dir"
    BY DEF OpenDir
  <2>3. CASE e # o /\ f # o
    BY <1>9, <2>3 DEF NameInv, DirsApart
  <2>4. CASE e = o /\ f # o
    BY <1>9, <2>1, <2>2, <2>4
  <2>5. CASE e # o /\ f = o
    BY <1>9, <2>1, <2>2, <2>5
  <2> QED
    BY <2>3, <2>4, <2>5
<1>13. BoundInv'
  <2> SUFFICES ASSUME NEW e \in Addrs, NEW y \in Names, dentry'[e][y] \in Addrs PROVE Bound(e, y)'
    BY DEF BoundInv
  <2>1. CASE e = d /\ y = x
    <3>1. dentry'[e][y] = o /\ d # o
      BY <1>1, <1>3, <2>1 DEF OpenDir, Cached
    <3>2. inode'[d].blk = inode[d].blk /\ dirent'[inode'[d].blk][x] = i
      BY <1>1, <1>4, <3>1
    <3>3. Same(inode'[o], istore'[i])
      BY <1>4, <1>5 DEF Same
    <3> QED
      BY <1>4, <2>1, <3>1, <3>2, <3>3 DEF Bound
  <2>2. CASE ~(e = d /\ y = x)
    <3>1. dentry'[e][y] = dentry[e][y]
      BY <1>3, <2>2
    <3>2. dentry[e][y] \in Addrs /\ Bound(e, y) /\ OpenDir(e) /\ inode[e].blk \in Blocks
      BY <3>1 DEF NameInv, BoundInv, TreeInv, DentryInv, TypeInv, TypeOK, Inode
    <3>3. dentry[e][y] # o /\ e # o
      BY <3>2 DEF Cached, HasDentry, OpenDir
    <3>4. inode'[e].blk = inode[e].blk /\ Same(inode'[dentry[e][y]], inode[dentry[e][y]])
      BY <3>2, <3>3 DEF Same
    <3>5. dirent[inode[e].blk][y] # 0 =>
            Same(istore'[dirent[inode[e].blk][y]], istore[dirent[inode[e].blk][y]])
      BY <3>2 DEF NameInv, NamesInv, Live
    <3>6. \A u \in Tasks : pc[u] \in UnlinkPcs => pc'[u] \in UnlinkPcs /\ arg'[u] = arg[u]
      <4>1. pc[t] \notin UnlinkPcs
        BY DEF CreatePcs, LookupPcs, UnlinkPcs
      <4> QED
        BY <1>2, <4>1
    <3> QED
      BY <3>1, <3>2, <3>4, <3>5, <3>6, BoundOther
  <2> QED
    BY <2>1, <2>2
<1>14. ASSUME NEW u \in Tasks, u # t
       PROVE  WorkInv(u)' /\ (pc[u] \in ObjPcs => ObjIno(u)' = ObjIno(u))
  <2>1. pc'[u] = pc[u] /\ arg'[u] = arg[u] /\ WorkInv(u) /\ TaskInv(u)
    BY <1>2, <1>14 DEF NameInv, TreeInv
  <2>2. ASSUME pc[u] \in DirPcs PROVE Entry(u)' = Entry(u)
    <3>1. arg[u].dir \in Addrs /\ arg[u].dir # o
      BY <2>1, <2>2, ObjType DEF TaskInv, OpenDir, Cached
    <3> QED
      BY <2>1, <3>1 DEF Entry
  <2>3. pc[u] \in ObjPcs => Same(inode'[arg[u].obj], inode[arg[u].obj])
    BY <1>14, ObjType DEF Same
  <2>4. pc[u] \in FreshPcs => ObjIno(u) \notin imap'
    BY <2>1 DEF WorkInv
  <2>5. pc[u] \in ClaimPcs \cup NamedPcs => Same(istore'[ObjIno(u)], istore[ObjIno(u)])
    BY <2>1 DEF WorkInv, Live
  <2>6. pc[u] \in ClaimPcs => \A c \in Blocks, y \in Names : dirent'[c][y] # ObjIno(u)
    BY <2>1 DEF WorkInv, Unnamed
  <2> QED
    BY <2>1, <2>2, <2>3, <2>4, <2>5, <2>6, WorkOther
<1>15. WorkInv(t)' /\ pc'[t] \notin ClaimPcs
  BY <1>2, WorkDone
<1>16. ClaimsApart'
  <2>1. ClaimPcs \subseteq ObjPcs
    BY DEF ClaimPcs, DelPcs, ObjPcs, CreatePcs, UnlinkPcs
  <2> QED
    BY <1>2, <1>14, <1>15, <2>1, ClaimsKept
<1> QED
  BY <1>10, <1>11, <1>12, <1>13, <1>14, <1>15, <1>16 DEF NameInv

(* A create ends with the new object bound, and never in the branch where the
   parent is not in the store. *)
LEMMA NameParentSave ==
  ASSUME TypeInv, TypeInv', LockInv, BlockInv, RoomInv, TreeInv, TreeInv', NameInv,
         NEW t \in Tasks, ParentSave(t)
  PROVE  NameInv'
<1>1. /\ pc[t] = "c_save" /\ Save(inode[arg[t].dir]) /\ Finish(t)
      /\ UNCHANGED <<dirent, imap>>
  BY DEF ParentSave
<1>2. /\ TaskInv(t) /\ WorkInv(t) /\ arg[t].dir \in Addrs /\ arg[t].obj \in Addrs
      /\ arg[t].obj # None
  BY <1>1, ObjType, FSAssumption DEF DirPcs, ObjPcs, CreatePcs, TreeInv, NameInv
<1>3. OpenDir(arg[t].dir) /\ ~Cached(arg[t].obj)
  BY <1>1, <1>2 DEF TaskInv, DirPcs, CreatePcs
<1>4. SaveFinds(inode[arg[t].dir]) /\ \A k \in Inos : Same(istore'[k], istore[k])
  BY <1>1, <1>2, <1>3, SaveOpen
<1>5. UNCHANGED inode /\ dentry' = [dentry EXCEPT ![arg[t].dir][arg[t].name] = arg[t].obj]
  BY <1>4 DEF ParentSave
<1>6. \A u \in Tasks : u # t => arg[u].obj # arg[t].obj
  BY <1>2, ObjDistinct
<1>7. Entry(t) = ObjIno(t) /\ Live(ObjIno(t)) /\ Same(inode[arg[t].obj], istore[ObjIno(t)])
  BY <1>1, <1>2 DEF WorkInv, NamedPcs
<1>8. Entry(t) # 0 /\ inode'[arg[t].obj].ino = Entry(t) /\ Same(inode'[arg[t].obj], istore[Entry(t)])
  BY <1>5, <1>7, LayoutAssumption DEF Live, Inos, ObjIno
<1>9. pc[t] \in CreatePcs
  BY <1>1 DEF CreatePcs
<1> QED
  BY <1>1, <1>2, <1>3, <1>4, <1>5, <1>6, <1>8, <1>9, NameBind

(* A lookup ends with the inode of the name bound to it. *)
LEMMA NameGetInode ==
  ASSUME TypeInv, TypeInv', BlockInv, TreeInv, TreeInv', NameInv, NEW t \in Tasks, GetInode(t)
  PROVE  NameInv'
<1>1. /\ pc[t] = "l_get" /\ Finish(t)
      /\ UNCHANGED <<dirent, imap, istore>>
  BY DEF GetInode, fs
<1>2. PICK o \in Addrs :
        /\ Allocatable(o)
        /\ inode' = [inode EXCEPT ![o] = istore[arg[t].ino]]
        /\ dentry' = [dentry EXCEPT ![arg[t].dir][arg[t].name] = o]
  BY DEF GetInode
<1>3. ~Cached(o) /\ \A u \in Tasks : arg[u].obj # o
  BY <1>2, AllocatableFree
<1>4. /\ \A a \in Addrs : a # o => inode'[a] = inode[a]
      /\ inode'[o] = istore[arg[t].ino]
  BY <1>2 DEF TypeInv, TypeOK
<1>5. WorkInv(t) /\ arg[t].ino \in Inos
  BY <1>1 DEF NameInv, TypeInv, ArgsOK, LookupPcs
<1>6. Entry(t) = arg[t].ino /\ Entry(t) # 0
  BY <1>1, <1>5, LayoutAssumption DEF WorkInv, LookupPcs, Inos
<1>7. arg[t].name \in Names /\ inode[arg[t].dir].blk \in Blocks
  BY <1>1, ObjType DEF Inode, LookupPcs, DirPcs
<1>8. Live(Entry(t))
  BY <1>6, <1>7 DEF NameInv, NamesInv, Entry
<1>9. inode'[o].ino = Entry(t) /\ Same(inode'[o], istore[Entry(t)])
  BY <1>4, <1>6, <1>8 DEF Live, Same
<1>10. \A k \in Inos : Same(istore'[k], istore[k])
  BY <1>1 DEF Same
<1>11. pc[t] \in LookupPcs
  BY <1>1 DEF LookupPcs
<1> QED
  BY <1>1, <1>2, <1>3, <1>4, <1>6, <1>9, <1>10, <1>11, NameBind

(* A name is unbound. *)
LEMMA NameUnbind ==
  ASSUME TypeInv, TypeInv', TreeInv, NameInv, NEW d \in Addrs, NEW x \in Names, NEW o \in Addrs,
         dentry[d][x] = o, \A y \in Names : dentry[o][y] = None,
         dentry' = [dentry EXCEPT ![d][x] = None],
         \A a \in Addrs : a # o => inode'[a] = inode[a],
         UNCHANGED <<dirent, imap, istore>>,
         \A u \in Tasks :
           \/ pc'[u] = pc[u] /\ arg'[u] = arg[u] /\ arg[u].obj # o /\ arg[u].dir # o
           \/ arg[u].dir = d /\ arg[u].name = x /\ pc'[u] = "idle"
  PROVE  NameInv'
<1>1. \A e \in Addrs, y \in Names : dentry'[e][y] = IF e = d /\ y = x THEN None ELSE dentry[e][y]
  BY DEF TypeInv, TypeOK
<1>2. None \notin Addrs /\ o # RootAddr
  BY FSAssumption DEF TreeInv, DentryInv
<1>3. \A a \in Addrs : HasDentry(a)' => HasDentry(a) /\ a # o
  <2>1. \A e \in Addrs, y \in Names : dentry[e][y] = o => e = d /\ y = x
    BY DEF TreeInv, DentryInv
  <2> QED
    BY <1>1, <1>2, <2>1 DEF HasDentry
<1>4. \A a \in Addrs : OpenDir(a)' => OpenDir(a) /\ a # o /\ inode'[a] = inode[a]
  BY <1>2, <1>3 DEF OpenDir
<1>5. \A k, b : Live(k)' = Live(k) /\ DirAt(k, b)' = DirAt(k, b)
  BY DEF Live, DirAt
<1>6. StoreInv'
  BY <1>2, <1>5, FSAssumption DEF NameInv, StoreInv
<1>7. NamesInv'
  BY DEF NameInv, NamesInv, NamesInjective, Live, DirAt
<1>8. DirsApart'
  BY <1>4 DEF NameInv, DirsApart
<1>9. BoundInv'
  <2> SUFFICES ASSUME NEW e \in Addrs, NEW y \in Names, dentry'[e][y] \in Addrs PROVE Bound(e, y)'
    BY DEF BoundInv
  <2>1. dentry'[e][y] = dentry[e][y] /\ ~(e = d /\ y = x) /\ dentry[e][y] \in Addrs
    BY <1>1, <1>2
  <2>2. Bound(e, y) /\ e # o /\ dentry[e][y] # o
    BY <1>2, <2>1 DEF NameInv, BoundInv, TreeInv, DentryInv
  <2>3. inode'[e].blk = inode[e].blk /\ Same(inode'[dentry[e][y]], inode[dentry[e][y]])
    BY <2>1, <2>2 DEF Same
  <2>4. \A u \in Tasks : pc[u] \in UnlinkPcs /\ arg[u].dir = e /\ arg[u].name = y =>
                           pc'[u] \in UnlinkPcs /\ arg'[u] = arg[u]
    BY <2>1
  <2>5. \A k : Same(istore'[k], istore[k])
    BY DEF Same
  <2> QED
    BY <2>1, <2>2, <2>3, <2>4, <2>5, BoundOther
<1>10. ASSUME NEW u \in Tasks, pc'[u] # "idle"
       PROVE  /\ WorkInv(u)' /\ pc'[u] = pc[u]
              /\ pc[u] \in ObjPcs => ObjIno(u)' = ObjIno(u)
  <2>1. pc'[u] = pc[u] /\ arg'[u] = arg[u] /\ WorkInv(u) /\ arg[u].obj # o /\ arg[u].dir # o
    BY <1>10 DEF NameInv
  <2>2. pc[u] \in DirPcs => Entry(u)' = Entry(u)
    BY <2>1, ObjType DEF Entry
  <2>3. pc[u] \in ObjPcs => Same(inode'[arg[u].obj], inode[arg[u].obj])
    BY <2>1, ObjType DEF Same
  <2>4. pc[u] \in FreshPcs => ObjIno(u) \notin imap'
    BY <2>1 DEF WorkInv
  <2>5. Same(istore'[ObjIno(u)], istore[ObjIno(u)])
    BY DEF Same
  <2>6. pc[u] \in ClaimPcs => \A c \in Blocks, y \in Names : dirent'[c][y] # ObjIno(u)
    BY <2>1 DEF WorkInv, Unnamed
  <2> QED
    BY <2>1, <2>2, <2>3, <2>4, <2>5, <2>6, WorkOther
<1>11. \A u \in Tasks : WorkInv(u)'
  BY <1>10, WorkDone
<1>12. ClaimsApart'
  <2>1. ClaimPcs \subseteq ObjPcs /\ "idle" \notin ClaimPcs
    BY DEF ClaimPcs, DelPcs, ObjPcs, CreatePcs, UnlinkPcs
  <2> QED
    BY <1>10, <2>1 DEF NameInv, ClaimsApart
<1> QED
  BY <1>6, <1>7, <1>8, <1>9, <1>11, <1>12 DEF NameInv

(* An unlink ends with its name unbound. *)
LEMMA NameUnlinkEnd ==
  ASSUME TypeInv, TypeInv', LockInv, TreeInv, NameInv, NEW t \in Tasks, UnlinkEnd(t)
  PROVE  NameInv'
<1> DEFINE d == arg[t].dir
           x == arg[t].name
           o == arg[t].obj
<1>1. /\ d \in Addrs /\ x \in Names /\ o \in Addrs
      /\ dentry[d][x] = o
      /\ \A y \in Names : dentry[o][y] = None
      /\ \A u \in Tasks : u # t => arg[u].obj # o /\ arg[u].dir # o
      /\ inode' = [inode EXCEPT ![o] = ZeroInode]
  BY UnlinkAlone
<1>2. /\ dentry' = [dentry EXCEPT ![d][x] = None] /\ Finish(t)
      /\ UNCHANGED <<dirent, imap, istore>>
  BY DEF UnlinkEnd, fs
<1>3. \A a \in Addrs : a # o => inode'[a] = inode[a]
  BY <1>1 DEF TypeInv, TypeOK
<1>4. \A u \in Tasks :
        \/ pc'[u] = pc[u] /\ arg'[u] = arg[u] /\ arg[u].obj # o /\ arg[u].dir # o
        \/ arg[u].dir = d /\ arg[u].name = x /\ pc'[u] = "idle"
  BY <1>1, <1>2, TaskDone
<1> HIDE DEF d, x, o
<1> QED
  BY <1>1, <1>2, <1>3, <1>4, NameUnbind, ZenonT(40)

(* Nothing that NameInv speaks of has changed. *)
LEMMA NameSame ==
  ASSUME NameInv, UNCHANGED <<imap, istore, dirent, inode, dentry, pc, arg>>
  PROVE  NameInv'
<1>1. StoreInv'
  BY DEF NameInv, StoreInv, Live
<1>2. NamesInv'
  BY DEF NameInv, NamesInv, NamesInjective, Live, DirAt
<1>3. BoundInv'
  BY DEF NameInv, BoundInv, Bound
<1>4. DirsApart'
  BY DEF NameInv, DirsApart, OpenDir, HasDentry
<1>5. \A t \in Tasks : WorkInv(t)'
  <2> SUFFICES ASSUME NEW t \in Tasks PROVE WorkInv(t)'
    OBVIOUS
  <2>1. WorkInv(t) /\ ObjIno(t)' = ObjIno(t) /\ Entry(t)' = Entry(t)
    BY DEF NameInv, ObjIno, Entry
  <2> QED
    BY <2>1 DEF WorkInv, Live, Unnamed
<1>6. ClaimsApart'
  BY DEF NameInv, ClaimsApart, ObjIno
<1> QED
  BY <1>1, <1>2, <1>3, <1>4, <1>5, <1>6 DEF NameInv

(* The shrinker, the flusher and a remount leave the names alone. *)
LEMMA NameEnvironment ==
  ASSUME Quiet, TypeInv, TypeInv', TreeInv, NameInv, Environment
  PROVE  NameInv'
<1>1. ASSUME NEW d \in Addrs, NEW x \in Names, Shrink(d, x) PROVE NameInv'
  <2> DEFINE o == dentry[d][x]
  <2>1. /\ o \in Addrs
        /\ \A t \in Tasks : o # arg[t].obj /\ o # arg[t].dir
        /\ \A y \in Names : dentry[o][y] = None
        /\ dentry' = [dentry EXCEPT ![d][x] = None]
        /\ inode' = [inode EXCEPT ![o] = ZeroInode]
        /\ UNCHANGED <<pc, arg, dirent, imap, istore>>
    BY <1>1 DEF Shrink, fs
  <2>2. \A a \in Addrs : a # o => inode'[a] = inode[a]
    BY <2>1 DEF TypeInv, TypeOK
  <2>3. dentry[d][x] = o
    OBVIOUS
  <2> HIDE DEF o
  <2>4. \A u \in Tasks :
          \/ pc'[u] = pc[u] /\ arg'[u] = arg[u] /\ arg[u].obj # o /\ arg[u].dir # o
          \/ arg[u].dir = d /\ arg[u].name = x /\ pc'[u] = "idle"
    BY <2>1
  <2> QED
    BY <2>1, <2>2, <2>3, <2>4, NameUnbind
<1>2. CASE Writeback
  BY <1>2, NameSame DEF Writeback
<1>3. CASE Remount
  <2>1. /\ \A t \in Tasks : pc'[t] = "idle"
        /\ \A d \in Addrs, x \in Names : dentry'[d][x] = None
        /\ UNCHANGED dirent /\ istore' = istore
        /\ imap' = FillImap(istore)
        /\ inode'[RootAddr] = istore[RootIno]
        /\ \A a \in Addrs : a # RootAddr => inode'[a] = ZeroInode
    BY <1>3, FSAssumption DEF Remount, Mount, NoDentries
  <2>2. \A k, b : Live(k)' = Live(k) /\ DirAt(k, b)' = DirAt(k, b)
    BY <2>1 DEF Live, DirAt
  <2>3. StoreInv'
    BY <2>1, <2>2 DEF NameInv, StoreInv, Same
  <2>4. NamesInv'
    BY <2>1 DEF NameInv, NamesInv, NamesInjective, Live, DirAt
  <2>5. BoundInv'
    BY <2>1, FSAssumption DEF BoundInv
  <2>6. DirsApart'
    BY <2>1 DEF DirsApart, OpenDir, ZeroInode
  <2>7. \A t \in Tasks : WorkInv(t)' /\ pc'[t] \notin ClaimPcs
    BY <2>1, WorkDone
  <2> QED
    BY <2>3, <2>4, <2>5, <2>6, <2>7 DEF NameInv, ClaimsApart
<1>4. ~Crash
  BY DEF Quiet, Crash, TypeInv, TypeOK
<1> QED
  BY <1>1, <1>2, <1>3, <1>4 DEF Environment

(* NameInv is inductive in the quiet system. *)
LEMMA NameStep ==
  ASSUME Quiet
  PROVE  BaseInv /\ BaseInv' /\ TreeInv /\ TreeInv' /\ NameInv /\ [Next]_vars => NameInv'
<1> SUFFICES ASSUME BaseInv, BaseInv', TreeInv, TreeInv', NameInv, [Next]_vars PROVE NameInv'
  OBVIOUS
<1> USE DEF BaseInv
<1>1. CASE UNCHANGED vars
  BY <1>1, NameSame DEF vars, fs
<1>2. ASSUME NEW t \in Tasks, Call(t) PROVE NameInv'
  BY <1>2, NameCall, NameUnlinkCall DEF Call, WriteCall, Quiet
<1>3. CASE Next
  BY <1>2, <1>3, QuietNext, NameMove, NameFail, NameNewInode, NameGetBlock, NameAdd, NameAddName,
     NameCountChild, NameParentSave, NameUnlinkSave, NameDel, NameUnlinkEnd, NameGetInode,
     NameEnvironment
<1> QED
  BY <1>1, <1>3

(* The image mkfs makes has one name. *)
LEMMA NameInit == Init => NameInv
<1> SUFFICES ASSUME Init PROVE NameInv
  OBVIOUS
<1>1. /\ \A t \in Tasks : pc[t] = "idle"
      /\ \A d \in Addrs, x \in Names : dentry[d][x] = None
      /\ inode[RootAddr] = istore[RootIno]
      /\ \A a \in Addrs : a # RootAddr => inode[a] = ZeroInode
      /\ imap = FillImap(istore) /\ istore = MkfsInodeStore /\ dirent = MkfsDirents
  BY FSAssumption DEF Init, NoDentries
<1>2. RootIno \in Inos /\ WelcomeIno \in Inos /\ RootIno # 0 /\ RootIno # WelcomeIno
  BY LayoutAssumption DEF Inos, RootIno, WelcomeIno
<1>3. /\ istore[RootIno] = [mode |-> "dir", ino |-> RootIno, blk |-> RootBlk, n |-> 1]
      /\ istore[WelcomeIno] = [mode |-> "reg", ino |-> WelcomeIno, blk |-> WelcomeBlk, n |-> 1]
      /\ \A k \in Inos : k # RootIno /\ k # WelcomeIno => istore[k] = ZeroInode
  BY <1>1, <1>2 DEF MkfsInodeStore
<1>4. Live(RootIno) /\ Live(WelcomeIno) /\ DirAt(RootIno, RootBlk)
  BY <1>2, <1>3 DEF Live, DirAt
<1>5. StoreInv
  BY <1>1, <1>3, <1>4 DEF StoreInv, Same, RootBlk, ZeroInode, Live
<1>6. NamesInv
  <2>1. \A b \in Blocks, x \in Names :
          dirent[b][x] = IF b = RootBlk /\ x = Welcome THEN WelcomeIno ELSE 0
    BY <1>1 DEF MkfsDirents
  <2> QED
    BY <1>2, <1>4, <2>1 DEF NamesInv, NamesInjective
<1>7. BoundInv
  BY <1>1, FSAssumption DEF BoundInv
<1>8. DirsApart
  BY <1>1 DEF DirsApart, OpenDir, ZeroInode
<1>9. \A t \in Tasks : WorkInv(t) /\ pc[t] \notin ClaimPcs
  BY <1>1 DEF WorkInv, CreatePcs, UnlinkPcs, LookupPcs, NamedPcs, FreshPcs, AddPcs, ClaimPcs, DelPcs
<1> QED
  BY <1>5, <1>6, <1>7, <1>8, <1>9 DEF NameInv, ClaimsApart
-----------------------------------------------------------------------------
(* Everything so far, together. *)
QuietInv == BaseInv /\ TreeInv /\ NameInv

(* The image of mkfs, mounted, satisfies it. *)
LEMMA QuietInit == Init => QuietInv
<1>1. Init => LockInv
  BY FSAssumption
  DEF Init, LockInv, ChildrenLockSound, MgmtLockGuards, Guarded, Returned, ChildrenPcs, MgmtPcs,
      CreatePcs, Locks
<1>2. Init => NoWriter
  BY DEF Init, NoWriter, NoArg
<1> QED
  BY <1>1, <1>2, TypeInit, QuietLockInit, BlockInit, RoomInit, TreeInit, NameInit
  DEF QuietInv, BaseInv

(* QuietInv is inductive in the quiet system. *)
LEMMA QuietStep ==
  ASSUME Quiet
  PROVE  QuietInv /\ [Next]_vars => QuietInv'
<1> SUFFICES ASSUME QuietInv, [Next]_vars PROVE QuietInv'
  OBVIOUS
<1>1. TypeInv'
  BY TypeStep DEF QuietInv, BaseInv
<1>2. QuietLockInv'
  BY <1>1, QuietLockStep DEF QuietInv, BaseInv, Quiet
<1>3. LockInv' /\ NoWriter' /\ BlockInv' /\ RoomInv'
  BY <1>1, LockStep, NoWriterStep, BlockStep, RoomStep DEF QuietInv, BaseInv, Quiet
<1>4. TreeInv'
  BY <1>1, TreeStep DEF QuietInv, BaseInv
<1>5. BaseInv'
  BY <1>1, <1>2, <1>3 DEF BaseInv
<1>6. NameInv'
  BY <1>4, <1>5, NameStep DEF QuietInv
<1> QED
  BY <1>4, <1>5, <1>6 DEF QuietInv

(* Whatever creates, mkdirs, unlinks, lookups, remounts and the dentry shrinker
   do to each other, a name that can be found in a directory is that of an
   inode in the store, and the object bound to it has that inode's number,
   mode and block. *)
THEOREM NamesAreReal ==
  ASSUME Quiet
  PROVE  Spec => []NamesResolve
<1>1. QuietInv => NamesResolve
  <2> SUFFICES ASSUME QuietInv PROVE NamesResolve
    OBVIOUS
  <2>1. TypeInv /\ TreeInv /\ NameInv
    BY DEF QuietInv, BaseInv
  <2>2. \A b \in Blocks, x \in Names : dirent[b][x] # 0 => istore[dirent[b][x]].ino = dirent[b][x]
    BY <2>1 DEF NameInv, NamesInv, Live
  <2>3. ASSUME NEW d \in Addrs, NEW x \in Names, dentry[d][x] \in Addrs, dirent[inode[d].blk][x] # 0
        PROVE  /\ inode[dentry[d][x]].ino = dirent[inode[d].blk][x]
               /\ inode[dentry[d][x]].mode = istore[inode[dentry[d][x]].ino].mode
               /\ inode[dentry[d][x]].blk = istore[inode[dentry[d][x]].ino].blk
    BY <2>1, <2>3, BoundNamed DEF Same
  <2> QED
    BY <2>2, <2>3 DEF NamesResolve
<1>2. QuietInv /\ [Next]_vars => QuietInv'
  BY QuietStep
<1> QED
  BY <1>1, <1>2, QuietInit, PTL DEF Spec

(* No inode has two names: a number that unlink gives back is handed out again
   only when no name has it. *)
THEOREM OneNameEach ==
  ASSUME Quiet
  PROVE  Spec => []NamesInjective
<1>1. QuietInv => NamesInjective
  BY DEF QuietInv, NameInv, NamesInv
<1>2. QuietInv /\ [Next]_vars => QuietInv'
  BY QuietStep
<1> QED
  BY <1>1, <1>2, QuietInit, PTL DEF Spec
=============================================================================
