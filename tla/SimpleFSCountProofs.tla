------------------------ MODULE SimpleFSCountProofs -------------------------
(***************************************************************************)
(* What the quiet system counts and what it has on disk: the inodes of the *)
(* super block, the children of a directory, and the records that survive  *)
(* in the inode store on disk.  All of it rests on QuietInv, which says    *)
(* whose the names and the inodes are.                                     *)
(***************************************************************************)
EXTENDS SimpleFSQuietProofs

(* The inodes in the store. *)
LiveSet == {k \in Inos : istore[k].ino # 0}

(* Between the test of simplefs_create_fs_object against the maximum and
   simplefs_inode_add. *)
NewPcs == {"c_new"} \cup FreshPcs

CountInv ==
  /\ inodes_count = Cardinality(LiveSet)
  /\ inodes_count <= MaxObjects
  /\ \A t \in Tasks : pc[t] \in NewPcs => inodes_count < MaxObjects

(* The disk has every inode but the one that a create has yet to save. *)
DiskInv ==
  \A k \in Inos :
    Live(k) /\ (\A t \in Tasks : pc[t] \in AddedPcs => ObjIno(t) # k) => istoreDisk[k] = istore[k]

-----------------------------------------------------------------------------
(* What no step of another task does to a task: move it, or write to the
   object it creates. *)
LEMMA Others ==
  ASSUME Quiet, QuietInv, NEW t \in Tasks,
         \/ Call(t) \/ MoveStep(t) \/ (\E ls : Fail(t, ls))
         \/ NewInode(t) \/ GetFreeBlock(t) \/ InodeAdd(t) \/ AddName(t) \/ CountChild(t)
         \/ ParentSave(t) \/ UnlinkSave(t) \/ InodeDel(t) \/ UnlinkEnd(t) \/ GetInode(t),
         NEW u \in Tasks, u # t
  PROVE  /\ pc'[u] = pc[u] /\ arg'[u] = arg[u]
         /\ pc[u] \in CreatePcs /\ pc[u] \in ObjPcs => inode'[arg[u].obj] = inode[arg[u].obj]
<1>0. TypeInv /\ LockInv /\ TreeInv /\ NameInv /\ RoomInv /\ TaskInv(t) /\ TaskInv(u)
  BY DEF QuietInv, BaseInv, TreeInv
<1>1. pc'[u] = pc[u] /\ arg'[u] = arg[u]
  <2>1. CASE MoveStep(t)
    BY <1>0, <2>1, Moves DEF TypeInv, TypeOK, Goto, TaskInv
  <2>2. CASE Call(t)
    BY <1>0, <2>2 DEF TypeInv, TypeOK, Goto, Call, CreateCall, UnlinkCall, LookupCall, WriteCall
  <2>3. CASE (\E ls : Fail(t, ls)) \/ ParentSave(t) \/ UnlinkEnd(t) \/ GetInode(t)
    BY <1>0, <2>3, TaskDone DEF Fail, ParentSave, UnlinkEnd, GetInode
  <2>4. CASE NewInode(t)
    BY <1>0, <2>4 DEF TypeInv, TypeOK, Goto, NewInode
  <2>5. CASE GetFreeBlock(t) \/ InodeAdd(t) \/ AddName(t) \/ CountChild(t) \/ UnlinkSave(t) \/ InodeDel(t)
    BY <1>0, <2>5
    DEF TypeInv, TypeOK, Goto, GetFreeBlock, InodeAdd, AddName, CountChild, Lock, UnlinkSave, InodeDel
  <2> QED
    BY <2>1, <2>2, <2>3, <2>4, <2>5
<1>2. ASSUME NEW a \in Addrs, inode'[a] # inode[a]
      PROVE  Cached(a) \/ a = arg[t].obj \/ Allocatable(a)
  <2>0. inode \in [Addrs -> Inode]
    BY <1>0 DEF TypeInv, TypeOK
  <2>1. CASE MoveStep(t)
    BY <1>0, <1>2, <2>1, Moves DEF TaskInv
  <2>2. CASE Call(t)
    <3>1. PICK d \in Addrs, x \in Names : UnlinkCall(t, d, x)
      BY <1>2, <2>2 DEF Call, CreateCall, LookupCall, WriteCall
    <3>2. a = d /\ dentry[d][x] \in Addrs
      BY <1>2, <2>0, <3>1 DEF UnlinkCall
    <3> QED
      BY <1>0, <3>2 DEF TreeInv, DentryInv, OpenDir, Cached
  <2>3. CASE \E ls : Fail(t, ls)
    BY <1>2, <2>3 DEF Fail, Forget
  <2>4. CASE NewInode(t) \/ GetInode(t)
    BY <1>2, <2>0, <2>4 DEF NewInode, GetInode
  <2>5. CASE GetFreeBlock(t) \/ UnlinkEnd(t)
    BY <1>2, <2>0, <2>5 DEF GetFreeBlock, UnlinkEnd
  <2>6. CASE CountChild(t)
    <3>1. a = arg[t].dir
      BY <1>2, <2>0, <2>6 DEF CountChild
    <3>2. pc[t] \in DirPcs
      BY <2>6 DEF CountChild, Lock, DirPcs, CreatePcs
    <3> QED
      BY <1>0, <3>1, <3>2 DEF TaskInv, OpenDir, Cached
  <2>7. CASE ParentSave(t)
    BY <1>2, <2>7 DEF ParentSave, Forget
  <2>8. CASE InodeAdd(t) \/ AddName(t) \/ UnlinkSave(t) \/ InodeDel(t)
    BY <1>2, <2>8 DEF InodeAdd, AddName, UnlinkSave, InodeDel
  <2> QED
    BY <2>1, <2>2, <2>3, <2>4, <2>5, <2>6, <2>7, <2>8
<1>3. ASSUME pc[u] \in CreatePcs, pc[u] \in ObjPcs PROVE inode'[arg[u].obj] = inode[arg[u].obj]
  <2>1. arg[u].obj \in Addrs /\ arg[u].obj # None
    BY <1>0, <1>3, ObjType, FSAssumption
  <2>2. ~Cached(arg[u].obj)
    BY <1>0, <1>3, <2>1 DEF TaskInv
  <2>3. arg[u].obj # arg[t].obj
    BY <1>0, <2>1, ObjDistinct
  <2>4. ~Allocatable(arg[u].obj)
    BY <1>0, <2>1, AllocatableFree
  <2> QED
    BY <1>2, <2>1, <2>2, <2>3, <2>4
<1> QED
  BY <1>1, <1>3

-----------------------------------------------------------------------------
(* The inodes can be counted. *)
LEMMA LiveFinite == IsFiniteSet(LiveSet) /\ Cardinality(LiveSet) \in Nat
<1>1. IsFiniteSet(Inos)
  BY FS_Interval, LayoutAssumption DEF Inos
<1>2. LiveSet \subseteq Inos
  BY DEF LiveSet
<1> QED
  BY <1>1, <1>2, FS_Subset, FS_CardinalityType

(* A step that adds and deletes no inode. *)
LEMMA CountKeep ==
  ASSUME CountInv, UNCHANGED inodes_count, \A k \in Inos : istore'[k].ino = istore[k].ino,
         \A u \in Tasks : pc'[u] \in NewPcs => pc[u] \in NewPcs \/ inodes_count < MaxObjects
  PROVE  CountInv'
<1>1. LiveSet' = LiveSet
  BY DEF LiveSet
<1> QED
  BY <1>1 DEF CountInv

(* simplefs_inode_add counts the inode that it adds: the number was free, and
   the test against the maximum still holds, since no other create runs. *)
LEMMA CountAdd ==
  ASSUME QuietInv, CountInv, NEW t \in Tasks, InodeAdd(t)
  PROVE  CountInv'
<1> DEFINE i == ObjIno(t)
<1>0. TypeInv /\ LockInv /\ RoomInv /\ NameInv /\ WorkInv(t) /\ StoreInv
  BY DEF QuietInv, BaseInv, NameInv
<1>1. /\ pc[t] = "a_add" /\ istore' = Put(istore, i, inode[arg[t].obj])
      /\ inodes_count' = Inc(inodes_count) /\ Goto(t, "c_name")
  BY DEF InodeAdd, ObjIno
<1>2. i \notin imap /\ i \in 0 .. ImapBits
  BY <1>0, <1>1, ObjType DEF WorkInv, FreshPcs, AddPcs, ObjIno, Inode, ObjPcs, CreatePcs
<1>3. i \in Inos
  <2>1. i # 0
    BY <1>0, <1>2, LiveBits
  <2> QED
    BY <1>2, <2>1, LayoutAssumption DEF Inos
<1>4. i \notin LiveSet
  BY <1>0, <1>2, <1>3, LiveBits DEF LiveSet
<1>5. inode[arg[t].obj].ino = i /\ i # 0
  BY <1>3, LayoutAssumption DEF ObjIno, Inos
<1> HIDE DEF i
<1>6. LiveSet' = LiveSet \cup {i}
  BY <1>1, <1>3, <1>5 DEF LiveSet, Put
<1>7. Cardinality(LiveSet') = Cardinality(LiveSet) + 1
  BY <1>4, <1>6, LiveFinite, FS_AddElement
<1>8. inodes_count < MaxObjects
  BY <1>1 DEF CountInv, NewPcs, FreshPcs, AddPcs
<1>9. inodes_count \in Nat /\ MaxObjects \in Nat /\ Word \in Nat /\ Word > MaxObjects
  BY <1>0, LayoutAssumption DEF TypeInv, TypeOK
<1>10. inodes_count' = inodes_count + 1
  BY <1>1, <1>8, <1>9 DEF Inc
<1>11. ASSUME NEW u \in Tasks, pc'[u] \in NewPcs PROVE FALSE
  <2>1. pc'[u] = IF u = t THEN "c_name" ELSE pc[u]
    BY <1>0, <1>1 DEF Goto, TypeInv, TypeOK
  <2>2. u # t /\ pc[u] \in ChildrenPcs
    BY <1>11, <2>1 DEF NewPcs, FreshPcs, AddPcs, ChildrenPcs, CreatePcs
  <2>3. pc[t] \in ChildrenPcs
    BY <1>1 DEF ChildrenPcs, CreatePcs
  <2> QED
    BY <1>0, <2>2, <2>3, OneCreator
<1>12. inodes_count = Cardinality(LiveSet)
  BY DEF CountInv
<1>13. inodes_count' = Cardinality(LiveSet') /\ inodes_count' <= MaxObjects
  BY <1>7, <1>8, <1>9, <1>10, <1>12
<1> QED
  BY <1>11, <1>13 DEF CountInv

(* simplefs_inode_del counts down for an inode that was there. *)
LEMMA CountDel ==
  ASSUME QuietInv, CountInv, NEW t \in Tasks, InodeDel(t)
  PROVE  CountInv'
<1> DEFINE i == ObjIno(t)
<1>0. TypeInv /\ NameInv /\ WorkInv(t) /\ StoreInv
  BY DEF QuietInv, BaseInv, NameInv
<1>1. /\ pc[t] = "d_del" /\ istore' = Put(istore, i, ZeroInode)
      /\ inodes_count' = Dec(inodes_count) /\ Goto(t, "u_end")
  BY DEF InodeDel, ObjIno
<1>2. Live(i)
  BY <1>0, <1>1 DEF WorkInv, ClaimPcs, DelPcs
<1> HIDE DEF i
<1>3. i \in LiveSet
  BY <1>2, LayoutAssumption DEF LiveSet, Live, Inos
<1>4. LiveSet' = LiveSet \ {i}
  BY <1>1 DEF LiveSet, Put, ZeroInode
<1>5. Cardinality(LiveSet') = Cardinality(LiveSet) - 1 /\ Cardinality(LiveSet) # 0
  <2>1. Cardinality(LiveSet') = Cardinality(LiveSet) - 1
    BY <1>3, <1>4, LiveFinite, FS_RemoveElement
  <2>2. Cardinality(LiveSet) # 0
    BY <1>3, LiveFinite, FS_EmptySet
  <2> QED
    BY <2>1, <2>2
<1>6. inodes_count = Cardinality(LiveSet) /\ inodes_count \in Nat /\ MaxObjects \in Nat
      /\ inodes_count <= MaxObjects
  BY LiveFinite, LayoutAssumption DEF CountInv
<1>7. inodes_count' = inodes_count - 1
  BY <1>1, <1>5, <1>6 DEF Dec
<1>8. \A u \in Tasks : pc'[u] \in NewPcs => pc[u] \in NewPcs
  <2>1. \A u \in Tasks : pc'[u] = IF u = t THEN "u_end" ELSE pc[u]
    BY <1>0, <1>1 DEF Goto, TypeInv, TypeOK
  <2> QED
    BY <2>1 DEF NewPcs, FreshPcs, AddPcs
<1>9. inodes_count' = Cardinality(LiveSet') /\ inodes_count' <= MaxObjects
  BY <1>5, <1>6, <1>7
<1>10. \A u \in Tasks : pc'[u] \in NewPcs => inodes_count' < MaxObjects
  BY <1>6, <1>7, <1>8 DEF CountInv
<1> QED
  BY <1>9, <1>10 DEF CountInv

-----------------------------------------------------------------------------
(* The steps that write nothing to the inode store. *)
CalmStep(t) ==
  \/ Call(t) \/ MoveStep(t) \/ (\E ls : Fail(t, ls) /\ pc[t] \in CreatePcs \ AddedPcs)
  \/ NewInode(t) \/ GetFreeBlock(t) \/ AddName(t) \/ CountChild(t) \/ UnlinkEnd(t) \/ GetInode(t)

(* They leave the count in the super block alone, too. *)
LEMMA Calm ==
  ASSUME QuietInv, NEW t \in Tasks, CalmStep(t)
  PROVE  UNCHANGED <<inodes_count, istore, istoreDisk>>
<1>1. TypeInv /\ TaskInv(t)
  BY DEF QuietInv, BaseInv, TreeInv
<1>2. CASE MoveStep(t)
  BY <1>1, <1>2, Moves DEF TaskInv, fs
<1>3. CASE Call(t)
  BY <1>3 DEF Call, CreateCall, UnlinkCall, LookupCall, WriteCall, fs
<1>4. CASE \E ls : Fail(t, ls) /\ pc[t] \in CreatePcs \ AddedPcs
  BY <1>4 DEF Fail, fs
<1> QED
  BY <1>2, <1>3, <1>4
  DEF CalmStep, NewInode, GetFreeBlock, AddName, CountChild, UnlinkEnd, GetInode, fs

(* simplefs_inode_save of the directory a call works in. *)
LEMMA Saves ==
  ASSUME QuietInv, NEW t \in Tasks, ParentSave(t) \/ UnlinkSave(t)
  PROVE  /\ arg[t].dir \in Addrs /\ OpenDir(arg[t].dir)
         /\ istore' = Put(istore, inode[arg[t].dir].ino, inode[arg[t].dir])
         /\ istoreDisk' = istore'
         /\ \A k \in Inos : Same(istore'[k], istore[k])
         /\ UNCHANGED <<inodes_count, dirent, inode>>
<1>1. TypeInv /\ TreeInv /\ RoomInv /\ NameInv /\ TaskInv(t)
  BY DEF QuietInv, BaseInv, TreeInv
<1>2. Save(inode[arg[t].dir]) /\ pc[t] \in {"c_save", "u_save"}
  BY DEF ParentSave, UnlinkSave
<1>3. arg[t].dir \in Addrs /\ OpenDir(arg[t].dir)
  BY <1>1, <1>2, ObjType DEF TaskInv, DirPcs, CreatePcs, UnlinkPcs
<1>4. /\ SaveFinds(inode[arg[t].dir])
      /\ istore' = Put(istore, inode[arg[t].dir].ino, inode[arg[t].dir])
      /\ istoreDisk' = istore'
      /\ \A k \in Inos : Same(istore'[k], istore[k])
  BY <1>1, <1>2, <1>3, SaveOpen
<1>5. UNCHANGED <<inodes_count, dirent, inode>>
  BY <1>4 DEF ParentSave, UnlinkSave
<1> QED
  BY <1>3, <1>4, <1>5

(* Where a step leaves the task that takes it. *)
LEMMA OwnPc ==
  ASSUME QuietInv, NEW t \in Tasks, CalmStep(t) \/ ParentSave(t) \/ UnlinkSave(t)
  PROVE  /\ pc'[t] \in NewPcs => pc[t] \in NewPcs \/ inodes_count < MaxObjects
         /\ pc[t] \in AddedPcs => pc'[t] \in AddedPcs \/ ParentSave(t)
<1> USE DEF NewPcs, FreshPcs, AddPcs, AddedPcs, NamedPcs
<1>1. TypeInv /\ TaskInv(t) /\ pc \in [Tasks -> Pcs]
  BY DEF QuietInv, BaseInv, TreeInv, TypeInv, TypeOK
<1>2. CASE MoveStep(t)
  <2>1. CASE Count(t) /\ Goto(t, "c_new")
    <3>1. ~(inodes_count >= MaxObjects)
      BY <1>1, <2>1 DEF Count, Fail, Finish, Goto
    <3>2. inodes_count < MaxObjects
      BY <1>1, <3>1, LayoutAssumption DEF TypeInv, TypeOK
    <3> QED
      BY <2>1, <3>2 DEF Count
  <2>2. CASE TakeStep(t)
    BY <1>1, <2>2
    DEF TakeStep, Take, Lock, Goto, CreateLock, CountLock, BlockLock, AddLock, AddSbLock,
        ParentSaveLock, UnlinkSaveLock, DelLock, DelSbLock, WriteSaveLock, GetInodeLock
  <2> QED
    BY <1>2, <2>1, <2>2 DEF MoveStep
<1>3. CASE Call(t)
  BY <1>1, <1>3 DEF Call, CreateCall, UnlinkCall, LookupCall, WriteCall, Goto
<1>4. CASE (\E ls : Fail(t, ls) /\ pc[t] \in CreatePcs \ AddedPcs) \/ ParentSave(t) \/ UnlinkEnd(t) \/ GetInode(t)
  <2>1. pc'[t] = "idle"
    BY <1>1, <1>4, TaskDone DEF Fail, ParentSave, UnlinkEnd, GetInode
  <2>2. pc[t] \in AddedPcs => ParentSave(t)
    BY <1>4 DEF UnlinkEnd, GetInode
  <2> QED
    BY <2>1, <2>2
<1>5. CASE NewInode(t)
  BY <1>1, <1>5 DEF NewInode, Goto
<1>6. CASE GetFreeBlock(t) \/ AddName(t) \/ CountChild(t) \/ UnlinkSave(t)
  BY <1>1, <1>6 DEF GetFreeBlock, AddName, CountChild, Lock, UnlinkSave, Goto
<1> QED
  BY <1>2, <1>3, <1>4, <1>5, <1>6 DEF CalmStep

(* What the steps of a task are, with those that write to the inode store. *)
LEMMA CountNext ==
  ASSUME Quiet, QuietInv, Next
  PROVE  \/ \E t \in Tasks : \/ CalmStep(t) \/ ParentSave(t) \/ UnlinkSave(t)
                             \/ InodeAdd(t) \/ InodeDel(t)
         \/ Environment
BY QuietNext DEF QuietInv, CalmStep

(* CountInv is inductive. *)
LEMMA CountStep ==
  ASSUME Quiet
  PROVE  QuietInv /\ CountInv /\ [Next]_vars => CountInv'
<1> SUFFICES ASSUME QuietInv, CountInv, [Next]_vars PROVE CountInv'
  OBVIOUS
<1>1. ASSUME NEW t \in Tasks, CalmStep(t) \/ ParentSave(t) \/ UnlinkSave(t) PROVE CountInv'
  <2>1. UNCHANGED inodes_count /\ \A k \in Inos : istore'[k].ino = istore[k].ino
    BY <1>1, Calm, Saves DEF Same
  <2>2. \A u \in Tasks : u # t => pc'[u] = pc[u]
    BY <1>1, Others DEF CalmStep
  <2> QED
    BY <1>1, <2>1, <2>2, OwnPc, CountKeep
<1>2. ASSUME Environment PROVE CountInv'
  <2>1. ~Crash
    BY DEF Quiet, Crash, QuietInv, BaseInv, TypeInv, TypeOK
  <2>2. UNCHANGED <<inodes_count, istore>>
    BY <1>2, <2>1 DEF Environment, Shrink, Writeback, Remount, Mount, fs
  <2>3. \A u \in Tasks : pc'[u] = pc[u] \/ pc'[u] = "idle"
    BY <1>2, <2>1 DEF Environment, Shrink, Writeback, Remount, Mount
  <2>4. "idle" \notin NewPcs
    BY DEF NewPcs, FreshPcs, AddPcs
  <2> QED
    BY <2>2, <2>3, <2>4, CountKeep
<1>3. CASE UNCHANGED vars
  BY <1>3, CountKeep DEF vars, fs
<1> QED
  BY <1>1, <1>2, <1>3, CountNext, CountAdd, CountDel

(* A step after which the tasks that have an unsaved inode still have it. *)
LEMMA DiskKeep ==
  ASSUME DiskInv, UNCHANGED <<istore, istoreDisk>>,
         \A u \in Tasks : pc[u] \in AddedPcs => pc'[u] \in AddedPcs /\ ObjIno(u)' = ObjIno(u)
  PROVE  DiskInv'
<1>1. \A k : Live(k)' = Live(k)
  BY DEF Live
<1> QED
  BY <1>1 DEF DiskInv

(* DiskInv is inductive. *)
LEMMA DiskStep ==
  ASSUME Quiet
  PROVE  QuietInv /\ DiskInv /\ [Next]_vars => DiskInv'
<1> SUFFICES ASSUME QuietInv, DiskInv, [Next]_vars PROVE DiskInv'
  OBVIOUS
<1>0. TypeInv /\ RoomInv /\ StoreInv /\ \A t \in Tasks : TaskInv(t) /\ WorkInv(t)
  BY DEF QuietInv, BaseInv, TreeInv, NameInv
<1>a. AddedPcs \subseteq CreatePcs /\ AddedPcs \subseteq ObjPcs
  BY DEF AddedPcs, NamedPcs, CreatePcs, ObjPcs
<1>1. ASSUME NEW t \in Tasks, CalmStep(t) PROVE DiskInv'
  <2>1. ASSUME NEW u \in Tasks, u # t, pc[u] \in AddedPcs
        PROVE  pc'[u] \in AddedPcs /\ ObjIno(u)' = ObjIno(u)
    BY <1>1, <1>a, <2>1, Others DEF CalmStep, ObjIno
  <2>2. ASSUME pc[t] \in AddedPcs PROVE pc'[t] \in AddedPcs /\ ObjIno(t)' = ObjIno(t)
    <3>1. CASE MoveStep(t) \/ AddName(t)
      <4>1. UNCHANGED <<inode, arg>>
        BY <1>0, <3>1, Moves DEF AddName, TaskInv
      <4>2. ~ParentSave(t)
        BY <3>1, <4>1, <1>0, <2>2, TaskDone, FSAssumption, ObjType, <1>a DEF ParentSave
      <4> QED
        BY <1>1, <2>2, <4>1, <4>2, OwnPc DEF ObjIno
    <3>2. CASE CountChild(t)
      <4>1. /\ UNCHANGED arg /\ pc'[t] = "c_save_lock"
            /\ \A a \in Addrs : inode'[a].ino = inode[a].ino
        BY <1>0, <3>2 DEF CountChild, Lock, Goto, TypeInv, TypeOK
      <4> QED
        BY <1>0, <1>a, <2>2, <4>1, ObjType DEF ObjIno, AddedPcs, NamedPcs
    <3> QED
      BY <1>1, <2>2, <3>1, <3>2
      DEF CalmStep, Call, CreateCall, UnlinkCall, LookupCall, WriteCall, NewInode, GetFreeBlock,
          UnlinkEnd, GetInode, AddedPcs, NamedPcs
  <2> QED
    BY <1>1, <2>1, <2>2, Calm, DiskKeep
<1>2. ASSUME NEW t \in Tasks, ParentSave(t) \/ UnlinkSave(t) PROVE DiskInv'
  BY <1>2, Saves DEF DiskInv
<1>3. ASSUME NEW t \in Tasks, InodeAdd(t) \/ InodeDel(t) PROVE DiskInv'
  <2> DEFINE i == ObjIno(t)
  <2>1. /\ UNCHANGED <<istoreDisk, inode, arg>>
        /\ istore' = Put(istore, i, IF InodeAdd(t) THEN inode[arg[t].obj] ELSE ZeroInode)
    BY <1>3 DEF InodeAdd, InodeDel, ObjIno
  <2>2. pc'[t] = IF InodeAdd(t) THEN "c_name" ELSE "u_end"
    BY <1>0, <1>3 DEF InodeAdd, InodeDel, Goto, TypeInv, TypeOK
  <2>3. pc[t] \notin AddedPcs
    BY <1>3 DEF InodeAdd, InodeDel, AddedPcs, NamedPcs
  <2>4. \A u \in Tasks : u # t => pc'[u] = pc[u]
    BY <1>3, Others
  <2>5. \A u \in Tasks : ObjIno(u)' = ObjIno(u)
    BY <2>1 DEF ObjIno
  <2> SUFFICES ASSUME NEW k \in Inos, Live(k)',
                      \A u \in Tasks : pc'[u] \in AddedPcs => ObjIno(u)' # k
               PROVE  istoreDisk'[k] = istore'[k]
    BY DEF DiskInv
  <2>6. k # i
    <3>1. CASE InodeAdd(t)
      BY <2>2, <2>5, <3>1 DEF AddedPcs
    <3>2. CASE ~InodeAdd(t)
      <4>1. k = i => istore'[k] = ZeroInode
        BY <2>1, <3>2 DEF Put
      <4>2. istore'[k].ino = k /\ k # 0
        BY LayoutAssumption DEF Live, Inos
      <4> QED
        BY <4>1, <4>2 DEF ZeroInode
    <3> QED
      BY <3>1, <3>2
  <2> HIDE DEF i
  <2>7. istore'[k] = istore[k]
    BY <2>1, <2>6 DEF Put
  <2>8. istore[k].ino = k
    BY <2>7 DEF Live
  <2>9. \A u \in Tasks : pc[u] \in AddedPcs => ObjIno(u) # k
    BY <2>3, <2>4, <2>5
  <2> QED
    BY <2>1, <2>7, <2>8, <2>9 DEF DiskInv, Live
<1>4. ASSUME Environment PROVE DiskInv'
  <2>1. ~Crash
    BY <1>0 DEF Quiet, Crash, TypeInv, TypeOK
  <2>2. CASE Writeback \/ Remount
    BY <2>2 DEF DiskInv, Writeback, Remount, Mount
  <2>3. CASE \E d \in Addrs, x \in Names : Shrink(d, x)
    <3>1. PICK d \in Addrs, x \in Names : Shrink(d, x)
      BY <2>3
    <3>2. /\ UNCHANGED <<istore, istoreDisk, pc, arg>>
          /\ \A u \in Tasks : arg[u].obj # dentry[d][x]
          /\ \A a \in Addrs : a # dentry[d][x] => inode'[a] = inode[a]
      BY <1>0, <3>1 DEF Shrink, fs, TypeInv, TypeOK
    <3>3. \A u \in Tasks : pc[u] \in AddedPcs => ObjIno(u)' = ObjIno(u)
      BY <1>0, <1>a, <3>2, ObjType DEF ObjIno
    <3> QED
      BY <3>2, <3>3, DiskKeep
  <2> QED
    BY <1>4, <2>1, <2>2, <2>3 DEF Environment
<1>5. CASE UNCHANGED vars
  BY <1>5, DiskKeep DEF vars, fs, ObjIno
<1> QED
  BY <1>1, <1>2, <1>3, <1>4, <1>5, CountNext

-----------------------------------------------------------------------------
(* The inode of a name that is bound is not one that a create has yet to save. *)
LEMMA Settled ==
  ASSUME QuietInv, NEW d \in Addrs, NEW x \in Names, dentry[d][x] \in Addrs,
         dirent[inode[d].blk][x] # 0, NEW u \in Tasks, pc[u] \in AddedPcs
  PROVE  ObjIno(u) # inode[dentry[d][x]].ino
<1> SUFFICES ASSUME ObjIno(u) = inode[dentry[d][x]].ino PROVE FALSE
  OBVIOUS
<1>0. TypeInv /\ TreeInv /\ NameInv /\ TaskInv(u) /\ WorkInv(u)
  BY DEF QuietInv, BaseInv, TreeInv, NameInv
<1>1. dirent[inode[d].blk][x] = ObjIno(u) /\ inode[d].blk \in Blocks /\ OpenDir(d)
  BY <1>0, BoundNamed DEF TypeInv, TypeOK, Inode, TreeInv, DentryInv
<1>2. CASE pc[u] = "c_name"
  BY <1>0, <1>1, <1>2 DEF WorkInv, ClaimPcs, Unnamed
<1>3. CASE pc[u] \in NamedPcs
  <2>1. /\ arg[u].dir \in Addrs /\ arg[u].name \in Names /\ inode[arg[u].dir].blk \in Blocks
        /\ pc[u] \in CreatePcs /\ pc[u] \in DirPcs
    BY <1>0, <1>3, ObjType DEF NamedPcs, DirPcs, CreatePcs, Inode
  <2>2. Entry(u) = ObjIno(u)
    BY <1>0, <1>3 DEF WorkInv
  <2>3. inode[arg[u].dir].blk = inode[d].blk /\ arg[u].name = x
    BY <1>0, <1>1, <2>1, <2>2 DEF NameInv, NamesInv, NamesInjective, Entry
  <2>4. arg[u].dir = d
    BY <1>0, <1>1, <2>1, <2>3 DEF NameInv, DirsApart, TaskInv
  <2>5. dentry[d][x] = None
    BY <1>0, <2>1, <2>3, <2>4 DEF TaskInv
  <2> QED
    BY <2>5, FSAssumption
<1> QED
  BY <1>2, <1>3 DEF AddedPcs

(* mkfs counts the two inodes it makes. *)
LEMMA CountInit == Init => CountInv /\ DiskInv
<1> SUFFICES ASSUME Init PROVE CountInv /\ DiskInv
  OBVIOUS
<1>1. DiskInv
  BY DEF Init, DiskInv
<1>2. LiveSet = {RootIno, WelcomeIno}
  <2>1. \A k \in Inos : istore[k].ino # 0 <=> k = RootIno \/ k = WelcomeIno
    BY DEF Init, MkfsInodeStore, ZeroInode, RootIno, WelcomeIno
  <2>2. RootIno \in Inos /\ WelcomeIno \in Inos
    BY LayoutAssumption DEF Inos, RootIno, WelcomeIno
  <2> QED
    BY <2>1, <2>2 DEF LiveSet
<1>3. Cardinality(LiveSet) = 2
  <2>1. Cardinality({RootIno}) = 1 /\ IsFiniteSet({RootIno})
    BY FS_Singleton
  <2>2. WelcomeIno \notin {RootIno} /\ {RootIno, WelcomeIno} = {RootIno} \cup {WelcomeIno}
    BY DEF RootIno, WelcomeIno
  <2>3. Cardinality({RootIno} \cup {WelcomeIno}) = Cardinality({RootIno}) + 1
    BY <2>1, <2>2, FS_AddElement
  <2> QED
    BY <1>2, <2>1, <2>2, <2>3
<1>4. inodes_count = 2 /\ inodes_count <= MaxObjects
  BY LayoutAssumption DEF Init, MkfsInodesCount, WelcomeBlk
<1>5. \A t \in Tasks : pc[t] \notin NewPcs
  BY DEF Init, NewPcs, FreshPcs, AddPcs
<1> QED
  BY <1>1, <1>3, <1>4, <1>5 DEF CountInv

(* The count in the super block is the number of inodes in the store, and imap
   has a bit for each: the test against the maximum in create and the count in
   simplefs_inode_add are three steps apart, and still they agree. *)
THEOREM Accounted ==
  ASSUME Quiet
  PROVE  Spec => []StoreAccounted
<1>1. QuietInv /\ CountInv => StoreAccounted
  BY DEF QuietInv, NameInv, StoreInv, CountInv, LiveSet, StoreAccounted
<1>2. QuietInv /\ [Next]_vars => QuietInv'
  BY QuietStep
<1>3. QuietInv /\ CountInv /\ [Next]_vars => CountInv'
  BY CountStep
<1> QED
  BY <1>1, <1>2, <1>3, QuietInit, CountInit, PTL DEF Spec

(* A file whose create has returned, or that a lookup has found, is in the
   inode store on disk: each create saves its parent, and with it the whole
   store, before it binds the name. *)
THEOREM Durable ==
  ASSUME Quiet
  PROVE  Spec => []CreateDurable
<1>1. QuietInv /\ DiskInv => CreateDurable
  <2> SUFFICES ASSUME QuietInv, DiskInv, NEW d \in Addrs, NEW x \in Names,
                      dentry[d][x] \in Addrs, dirent[inode[d].blk][x] # 0
               PROVE  /\ istoreDisk[inode[dentry[d][x]].ino].ino = inode[dentry[d][x]].ino
                      /\ istoreDisk[inode[dentry[d][x]].ino].blk = inode[dentry[d][x]].blk
    BY DEF CreateDurable
  <2>1. /\ Live(inode[dentry[d][x]].ino)
        /\ Same(inode[dentry[d][x]], istore[inode[dentry[d][x]].ino])
    BY BoundNamed DEF QuietInv, BaseInv
  <2>2. istoreDisk[inode[dentry[d][x]].ino] = istore[inode[dentry[d][x]].ino]
    BY <2>1, Settled DEF DiskInv, Live
  <2> QED
    BY <2>1, <2>2 DEF Same
<1>2. QuietInv /\ [Next]_vars => QuietInv'
  BY QuietStep
<1>3. QuietInv /\ DiskInv /\ [Next]_vars => DiskInv'
  BY DiskStep
<1> QED
  BY <1>1, <1>2, <1>3, QuietInit, CountInit, PTL DEF Spec
-----------------------------------------------------------------------------
(***************************************************************************)
(* dir_children_count.  The number of names in a directory is kept in      *)
(* three places, which a call updates one after the other: the names       *)
(* themselves, the count in the directory's object, and its record in the  *)
(* inode store.  Each is right except while the one call that works in the *)
(* directory is between two of the updates.                                *)
(***************************************************************************)
Listed(b) == {x \in Names : dirent[b][x] # 0}

Kids(b) == Cardinality(Listed(b))

(* The names and the record of the directory differ. *)
CountingPcs == {"c_parent"} \cup UnsavedPcs

DirKids(k) ==
  DirAt(k, istore[k].blk) /\ (\A t \in Tasks : pc[t] \in CountingPcs => inode[arg[t].dir].ino # k)
    => istore[k].n = Kids(istore[k].blk)

OpenKids(d) ==
  OpenDir(d) /\ (\A t \in Tasks : pc[t] \in UnsavedPcs => arg[t].dir # d)
    => inode[d].n = istore[inode[d].ino].n

TaskKids(t) ==
  /\ pc[t] = "c_parent" => inode[arg[t].dir].n + 1 = Kids(inode[arg[t].dir].blk)
  /\ pc[t] \in UnsavedPcs => inode[arg[t].dir].n = Kids(inode[arg[t].dir].blk)
  /\ pc[t] \in FreshPcs => inode[arg[t].obj].n = 0
  /\ pc[t] \in AddedPcs => inode[arg[t].obj].n = istore[ObjIno(t)].n

ChildInv ==
  /\ \A k \in Inos : DirKids(k)
  /\ \A d \in Addrs : OpenKids(d)
  /\ \A t \in Tasks : TaskKids(t)

-----------------------------------------------------------------------------
(* A directory has no more names than there are inodes. *)
LEMMA KidsBound ==
  ASSUME QuietInv, NEW b \in Blocks
  PROVE  /\ IsFiniteSet(Listed(b))
         /\ Kids(b) \in Nat /\ Kids(b) <= Cardinality(LiveSet)
<1> DEFINE f == [x \in Listed(b) |-> dirent[b][x]]
<1>1. \A x \in Listed(b) : dirent[b][x] \in LiveSet
  BY LayoutAssumption DEF QuietInv, NameInv, NamesInv, Live, LiveSet, Listed, Inos
<1>2. \A x, y \in Listed(b) : dirent[b][x] = dirent[b][y] => x = y
  BY DEF QuietInv, NameInv, NamesInv, NamesInjective, Listed
<1>3. f \in Injection(Listed(b), LiveSet)
  BY <1>1, <1>2 DEF Injection, IsInjective
<1> QED
  BY <1>3, LiveFinite, FS_Injection, FS_CardinalityType DEF Kids

(* An entry is written or cleared. *)
LEMMA KidsChange ==
  ASSUME QuietInv, NEW b \in Blocks, NEW x \in Names, NEW i,
         dirent' = [dirent EXCEPT ![b][x] = i]
  PROVE  /\ \A c \in Blocks : c # b => Kids(c)' = Kids(c)
         /\ dirent[b][x] = 0 /\ i # 0 => Kids(b)' = Kids(b) + 1
         /\ dirent[b][x] # 0 /\ i = 0 => Kids(b)' = Kids(b) - 1 /\ Kids(b) # 0
<1>0. dirent \in [Blocks -> [Names -> 0 .. ImapBits]]
  BY DEF QuietInv, BaseInv, TypeInv, TypeOK
<1>1. \A c \in Blocks, y \in Names : dirent'[c][y] = IF c = b /\ y = x THEN i ELSE dirent[c][y]
  BY <1>0
<1>2. \A c \in Blocks : c # b => Listed(c)' = Listed(c)
  BY <1>1 DEF Listed
<1>3. IsFiniteSet(Listed(b)) /\ Cardinality(Listed(b)) \in Nat
  BY KidsBound DEF Kids
<1>4. ASSUME dirent[b][x] = 0, i # 0 PROVE Kids(b)' = Kids(b) + 1
  <2>1. Listed(b)' = Listed(b) \cup {x} /\ x \notin Listed(b)
    BY <1>1, <1>4 DEF Listed
  <2> QED
    BY <1>3, <2>1, FS_AddElement DEF Kids
<1>5. ASSUME dirent[b][x] # 0, i = 0 PROVE Kids(b)' = Kids(b) - 1 /\ Kids(b) # 0
  <2>1. Listed(b)' = Listed(b) \ {x} /\ x \in Listed(b)
    BY <1>1, <1>5 DEF Listed
  <2>2. Cardinality(Listed(b)) # 0
    BY <1>3, <2>1, FS_EmptySet
  <2> QED
    BY <1>3, <2>1, <2>2, FS_RemoveElement DEF Kids
<1> QED
  BY <1>2, <1>4, <1>5 DEF Kids

(* Two open directories are two inodes. *)
LEMMA OpenApart ==
  ASSUME QuietInv, NEW d \in Addrs, NEW e \in Addrs, OpenDir(d), OpenDir(e),
         inode[d].ino = inode[e].ino
  PROVE  d = e
<1>1. TypeInv /\ TreeInv /\ NameInv
  BY DEF QuietInv, BaseInv
<1>2. Same(inode[d], istore[inode[d].ino]) /\ Same(inode[e], istore[inode[e].ino])
  BY <1>1, OpenLive
<1> QED
  BY <1>1, <1>2 DEF Same, NameInv, DirsApart

(* Two directories have two blocks. *)
LEMMA DirsDistinct ==
  ASSUME QuietInv, NEW k, NEW j, NEW b, DirAt(k, b), DirAt(j, b)
  PROVE  j = k
<1>1. istore[k] \in Records /\ istore[j] \in Records /\ istore[k].blk # 0 /\ istore[j].blk = istore[k].blk
  BY DEF DirAt, Live, Records, QuietInv, NameInv, StoreInv
<1>2. istore[k].ino = istore[j].ino
  BY <1>1 DEF QuietInv, BaseInv, BlockInv, UniqueBlocks
<1> QED
  BY <1>2 DEF DirAt, Live

(* In a directory in which no call counts, the count in memory and the one in
   the store are the number of names. *)
LEMMA KidsOpen ==
  ASSUME QuietInv, ChildInv, NEW d \in Addrs, OpenDir(d),
         \A u \in Tasks : pc[u] \in CountingPcs => arg[u].dir # d
  PROVE  /\ inode[d].n = Kids(inode[d].blk)
         /\ inode[d].n = istore[inode[d].ino].n
<1>1. TypeInv /\ TreeInv /\ NameInv
  BY DEF QuietInv, BaseInv
<1>2. /\ Live(inode[d].ino) /\ Same(inode[d], istore[inode[d].ino])
      /\ DirAt(inode[d].ino, inode[d].blk)
  BY <1>1, OpenLive
<1>3. ASSUME NEW u \in Tasks, pc[u] \in CountingPcs PROVE inode[arg[u].dir].ino # inode[d].ino
  <2>1. arg[u].dir \in Addrs /\ OpenDir(arg[u].dir)
    BY <1>1, <1>3, ObjType
    DEF TreeInv, TaskInv, DirPcs, CountingPcs, UnsavedPcs, CreatePcs, UnlinkPcs
  <2> QED
    BY <1>3, <2>1, OpenApart
<1>4. inode[d].n = istore[inode[d].ino].n
  BY DEF ChildInv, OpenKids, CountingPcs
<1>5. istore[inode[d].ino].n = Kids(istore[inode[d].ino].blk)
  BY <1>2, <1>3 DEF ChildInv, DirKids, Live, Same
<1> QED
  BY <1>2, <1>4, <1>5 DEF Same

-----------------------------------------------------------------------------
TaskStep(t) == CalmStep(t) \/ ParentSave(t) \/ UnlinkSave(t) \/ InodeAdd(t) \/ InodeDel(t)

(* A step of a task leaves the directories of the others alone. *)
LEMMA DirsSteady ==
  ASSUME Quiet, QuietInv, TreeInv', NEW t \in Tasks, TaskStep(t), NEW u \in Tasks, u # t,
         pc[u] \in DirPcs
  PROVE  /\ pc'[u] = pc[u] /\ arg'[u] = arg[u]
         /\ arg[u].dir \in Addrs /\ OpenDir(arg[u].dir)
         /\ inode'[arg[u].dir] = inode[arg[u].dir]
<1> DEFINE a == arg[u].dir
<1>0. TypeInv /\ TreeInv /\ TaskInv(t) /\ TaskInv(u) /\ inode \in [Addrs -> Inode]
  BY DEF QuietInv, BaseInv, TreeInv, TypeInv, TypeOK
<1>1. pc'[u] = pc[u] /\ arg'[u] = arg[u]
  BY Others DEF TaskStep, CalmStep
<1>2. a \in Addrs /\ a # None /\ OpenDir(a)
  BY <1>0, ObjType, FSAssumption DEF TaskInv
<1>3. a # arg[t].dir /\ a # arg'[t].dir
  BY <1>0, <1>1, <1>2 DEF TreeInv, OwnDirs
<1>4. Cached(a) /\ inode[a].mode = "dir"
  BY <1>2 DEF OpenDir, Cached
<1> HIDE DEF a
<1>5. inode'[a] = inode[a]
  <2>1. CASE MoveStep(t)
    BY <1>0, <2>1, Moves DEF TaskInv
  <2>2. CASE Call(t)
    <3>1. CASE UNCHANGED inode
      BY <3>1
    <3>2. CASE \E d \in Addrs, x \in Names : UnlinkCall(t, d, x)
      <4>1. PICK d \in Addrs, x \in Names : UnlinkCall(t, d, x)
        BY <3>2
      <4>2. arg'[t].dir = d
        BY <1>0, <4>1 DEF UnlinkCall, NoArg, TypeInv, TypeOK
      <4> QED
        BY <1>0, <1>2, <1>3, <4>1, <4>2 DEF UnlinkCall
    <3> QED
      BY <2>2, <3>1, <3>2 DEF Call, CreateCall, LookupCall, WriteCall
  <2>3. CASE \E ls : Fail(t, ls)
    BY <1>2, <1>4, <2>3 DEF Fail, Forget, Cached
  <2>4. CASE NewInode(t) \/ GetInode(t)
    BY <1>0, <1>2, <1>4, <2>4 DEF NewInode, GetInode, Allocatable, Cached
  <2>5. CASE GetFreeBlock(t)
    <3>1. arg[t].obj # a
      <4>1. pc[t] \in CreatePcs /\ arg[t].obj \in Addrs
        BY <1>0, <2>5, ObjType DEF GetFreeBlock, CreatePcs, ObjPcs
      <4>2. arg[t].obj # None
        BY <4>1, FSAssumption
      <4> QED
        BY <1>0, <1>4, <4>1, <4>2 DEF TaskInv
    <3> QED
      BY <1>0, <1>2, <2>5, <3>1 DEF GetFreeBlock
  <2>6. CASE UnlinkEnd(t)
    <3>1. arg[t].obj # a
      BY <1>0, <1>4, <2>6 DEF UnlinkEnd, TaskInv, UnlinkPcs
    <3> QED
      BY <1>0, <1>2, <2>6, <3>1 DEF UnlinkEnd
  <2>7. CASE CountChild(t)
    BY <1>0, <1>2, <1>3, <2>7 DEF CountChild
  <2>8. CASE ParentSave(t) \/ UnlinkSave(t)
    BY <2>8, Saves
  <2>9. CASE InodeAdd(t) \/ AddName(t) \/ InodeDel(t)
    BY <2>9 DEF InodeAdd, AddName, InodeDel
  <2> QED
    BY <2>1, <2>2, <2>3, <2>4, <2>5, <2>6, <2>7, <2>8, <2>9 DEF TaskStep, CalmStep
<1> QED
  BY <1>1, <1>2, <1>5 DEF a

(* What the other tasks know stays true, if their directories have the same
   names and the store the same counts for the inodes they create. *)
LEMMA KidsOther ==
  ASSUME Quiet, QuietInv, TreeInv', ChildInv, NEW t \in Tasks, TaskStep(t), NEW u \in Tasks, u # t,
         pc[u] \in CountingPcs => Kids(inode[arg[u].dir].blk)' = Kids(inode[arg[u].dir].blk),
         pc[u] \in AddedPcs => istore'[ObjIno(u)].n = istore[ObjIno(u)].n
  PROVE  TaskKids(u)'
<1>1. pc'[u] = pc[u] /\ arg'[u] = arg[u]
      /\ (pc[u] \in CreatePcs /\ pc[u] \in ObjPcs => inode'[arg[u].obj] = inode[arg[u].obj])
  BY Others DEF TaskStep, CalmStep
<1>2. pc[u] \in DirPcs => inode'[arg[u].dir] = inode[arg[u].dir]
  BY DirsSteady
<1>3. /\ CountingPcs \subseteq DirPcs
      /\ FreshPcs \cup AddedPcs \subseteq CreatePcs /\ FreshPcs \cup AddedPcs \subseteq ObjPcs
  BY DEF CountingPcs, UnsavedPcs, FreshPcs, AddPcs, AddedPcs, NamedPcs, DirPcs, ObjPcs, CreatePcs, UnlinkPcs
<1>4. TaskKids(u)
  BY DEF ChildInv
<1>5. pc[u] \in CountingPcs =>
        /\ inode'[arg'[u].dir].n = inode[arg[u].dir].n
        /\ Kids(inode[arg[u].dir].blk)' = Kids(inode[arg[u].dir].blk)
  BY <1>1, <1>2, <1>3
<1>6. pc[u] \in AddedPcs => ObjIno(u)' = ObjIno(u) /\ istore'[ObjIno(u)'].n = istore[ObjIno(u)].n
  BY <1>1, <1>3 DEF ObjIno
<1>7. pc[u] \in FreshPcs \cup AddedPcs => inode'[arg'[u].obj].n = inode[arg[u].obj].n
  BY <1>1, <1>3
<1>8. pc'[u] = "c_parent" => inode'[arg'[u].dir].n + 1 = Kids(inode[arg[u].dir].blk)'
  BY <1>1, <1>4, <1>5 DEF TaskKids, CountingPcs
<1>9. pc'[u] \in UnsavedPcs => inode'[arg'[u].dir].n = Kids(inode[arg[u].dir].blk)'
  BY <1>1, <1>4, <1>5 DEF TaskKids, CountingPcs
<1> QED
  BY <1>1, <1>4, <1>6, <1>7, <1>8, <1>9 DEF TaskKids

(* A step that writes no name and nothing to the inode store. *)
LEMMA ChildKeep ==
  ASSUME ChildInv, UNCHANGED <<dirent, istore>>,
         \A u \in Tasks : TaskKids(u)',
         \A a \in Addrs : OpenDir(a)' =>
           \/ OpenDir(a) /\ inode'[a] = inode[a]
           \/ inode'[a].n = istore[inode'[a].ino].n
           \/ \E u \in Tasks : pc'[u] \in UnsavedPcs /\ arg'[u].dir = a,
         \A u \in Tasks : pc[u] \in CountingPcs =>
           /\ pc'[u] \in CountingPcs
           /\ pc[u] \in UnsavedPcs => pc'[u] \in UnsavedPcs
           /\ arg'[u].dir = arg[u].dir /\ inode'[arg[u].dir].ino = inode[arg[u].dir].ino
  PROVE  ChildInv'
<1>1. \A b : Kids(b)' = Kids(b)
  BY DEF Kids, Listed
<1>2. ASSUME NEW k \in Inos PROVE DirKids(k)'
  <2>1. DirKids(k)
    BY DEF ChildInv
  <2>2. DirAt(k, istore[k].blk)' = DirAt(k, istore[k].blk)
    BY DEF DirAt, Live
  <2>3. (\A u \in Tasks : pc'[u] \in CountingPcs => inode'[arg'[u].dir].ino # k)
          => \A u \in Tasks : pc[u] \in CountingPcs => inode[arg[u].dir].ino # k
    OBVIOUS
  <2>4. Kids(istore[k].blk)' = Kids(istore[k].blk)
    BY DEF Kids, Listed
  <2> QED
    BY <2>1, <2>2, <2>3, <2>4 DEF DirKids
<1>3. ASSUME NEW a \in Addrs PROVE OpenKids(a)'
  <2> SUFFICES ASSUME OpenDir(a)', \A u \in Tasks : pc'[u] \in UnsavedPcs => arg'[u].dir # a
               PROVE  inode'[a].n = istore'[inode'[a].ino].n
    BY DEF OpenKids
  <2>1. \A u \in Tasks : pc[u] \in UnsavedPcs => arg[u].dir # a
    BY DEF CountingPcs
  <2> QED
    BY <2>1 DEF ChildInv, OpenKids
<1> QED
  BY <1>2, <1>3 DEF ChildInv

(* The same for a step of a task, which answers only for itself. *)
LEMMA ChildOwn ==
  ASSUME Quiet, QuietInv, TreeInv', ChildInv, NEW t \in Tasks, TaskStep(t),
         UNCHANGED <<dirent, istore>>,
         TaskKids(t)',
         \A a \in Addrs : OpenDir(a)' =>
           \/ OpenDir(a) /\ inode'[a] = inode[a]
           \/ inode'[a].n = istore[inode'[a].ino].n
           \/ pc'[t] \in UnsavedPcs /\ arg'[t].dir = a,
         pc[t] \in CountingPcs =>
           /\ pc'[t] \in CountingPcs
           /\ pc[t] \in UnsavedPcs => pc'[t] \in UnsavedPcs
           /\ arg'[t].dir = arg[t].dir /\ inode'[arg[t].dir].ino = inode[arg[t].dir].ino
  PROVE  ChildInv'
<1>1. ASSUME NEW u \in Tasks, u # t
      PROVE  /\ TaskKids(u)'
             /\ pc[u] \in CountingPcs =>
                  /\ pc'[u] = pc[u] /\ arg'[u] = arg[u]
                  /\ inode'[arg[u].dir] = inode[arg[u].dir]
  <2>1. pc[u] \in CountingPcs => pc[u] \in DirPcs
    BY DEF CountingPcs, UnsavedPcs, DirPcs, CreatePcs, UnlinkPcs
  <2>2. pc[u] \in CountingPcs =>
          /\ pc'[u] = pc[u] /\ arg'[u] = arg[u]
          /\ inode'[arg[u].dir] = inode[arg[u].dir]
    BY <1>1, <2>1, DirsSteady
  <2>3. pc[u] \in CountingPcs => Kids(inode[arg[u].dir].blk)' = Kids(inode[arg[u].dir].blk)
    BY <2>2 DEF Kids, Listed
  <2>4. TaskKids(u)'
    BY <1>1, <2>3, KidsOther
  <2> QED
    BY <2>2, <2>4
<1>2. \A u \in Tasks : TaskKids(u)'
  BY <1>1
<1>3. \A u \in Tasks : pc[u] \in CountingPcs =>
        /\ pc'[u] \in CountingPcs
        /\ pc[u] \in UnsavedPcs => pc'[u] \in UnsavedPcs
        /\ arg'[u].dir = arg[u].dir /\ inode'[arg[u].dir].ino = inode[arg[u].dir].ino
  BY <1>1
<1> QED
  BY <1>2, <1>3, ChildKeep

(* A task that is done counts nothing. *)
LEMMA KidsDone ==
  ASSUME NEW t, pc'[t] \notin CountingPcs \cup FreshPcs \cup AddedPcs
  PROVE  TaskKids(t)'
BY DEF TaskKids, CountingPcs

(* A call that begins, a lock that is taken, a create that gives up. *)
LEMMA ChildMove ==
  ASSUME Quiet, QuietInv, QuietInv', ChildInv, NEW t \in Tasks,
         \/ MoveStep(t) \/ (\E ls : Fail(t, ls) /\ pc[t] \in CreatePcs \ AddedPcs)
         \/ Call(t) /\ UNCHANGED dirent
  PROVE  ChildInv'
<1>0. TypeInv /\ TreeInv /\ TreeInv' /\ TaskInv(t) /\ TaskKids(t)
  BY DEF QuietInv, BaseInv, TreeInv, ChildInv
<1>1. TaskStep(t)
  BY DEF TaskStep, CalmStep
<1>2. CASE MoveStep(t)
  <2>1. UNCHANGED <<dirent, istore, inode, dentry, arg>> /\ pc[t] \notin {"idle", "c_name", "c_parent"}
    BY <1>0, <1>2, Moves DEF TaskInv, fs
  <2>2. PICK to \in Pcs : Goto(t, to) /\ Alike(pc[t], to)
    BY <1>0, <1>2, Moves DEF TaskInv
  <2>3. pc'[t] = to
    BY <1>0, <2>2 DEF Goto, TypeInv, TypeOK
  <2>4. /\ pc[t] \in UnsavedPcs <=> to \in UnsavedPcs
        /\ pc[t] \in CountingPcs <=> to \in CountingPcs
        /\ pc[t] \in FreshPcs <=> to \in FreshPcs
        /\ pc[t] \in AddedPcs <=> to \in AddedPcs
        /\ to # "c_parent"
    BY <2>1, <2>2 DEF Alike, CountingPcs, AddedPcs
  <2>6. ObjIno(t)' = ObjIno(t)
    BY <2>1 DEF ObjIno
  <2>7. Kids(inode[arg[t].dir].blk)' = Kids(inode[arg[t].dir].blk)
    BY <2>1 DEF Kids, Listed
  <2>8. TaskKids(t)'
    BY <1>0, <2>1, <2>3, <2>4, <2>6, <2>7 DEF TaskKids
  <2>9. \A a : OpenDir(a)' = OpenDir(a)
    BY <2>1 DEF OpenDir, HasDentry
  <2> QED
    BY <1>0, <1>1, <2>1, <2>3, <2>4, <2>8, <2>9, ChildOwn
<1>3. CASE Call(t) /\ UNCHANGED dirent
  <2>1. UNCHANGED <<istore, inode, dentry>> /\ pc[t] = "idle" /\ pc'[t] \in {"c_lock", "l_lock"}
    <3>1. ~\E d \in Addrs, x \in Names : UnlinkCall(t, d, x)
      <4> SUFFICES ASSUME NEW d \in Addrs, NEW x \in Names, UnlinkCall(t, d, x) PROVE FALSE
        OBVIOUS
      <4>1. dirent' = [dirent EXCEPT ![inode[d].blk][x] = 0] /\ ~DirBusy(d) /\ dentry[d][x] \in Addrs
        BY DEF UnlinkCall
      <4>2. inode[d].blk \in Blocks
        BY <1>0 DEF TypeInv, TypeOK, Inode
      <4>3. dirent[inode[d].blk][x] # 0
        BY <4>1 DEF QuietInv, NameInv, BoundInv, Bound, DirBusy
      <4>4. dirent'[inode[d].blk][x] = 0
        BY <1>0, <4>1, <4>2 DEF TypeInv, TypeOK
      <4> QED
        BY <1>3, <4>3, <4>4
    <3> QED
      BY <1>0, <1>3, <3>1
      DEF Call, CreateCall, LookupCall, WriteCall, fs, Quiet, Goto, TypeInv, TypeOK
  <2>2. pc[t] \notin CountingPcs /\ pc'[t] \notin CountingPcs \cup FreshPcs \cup AddedPcs
    BY <2>1 DEF CountingPcs, UnsavedPcs, FreshPcs, AddPcs, AddedPcs, NamedPcs
  <2>3. \A a : OpenDir(a)' = OpenDir(a)
    BY <2>1 DEF OpenDir, HasDentry
  <2> QED
    BY <1>0, <1>1, <1>3, <2>1, <2>2, <2>3, KidsDone, ChildOwn
<1>4. CASE \E ls : Fail(t, ls) /\ pc[t] \in CreatePcs \ AddedPcs
  <2>1. Finish(t) /\ UNCHANGED <<dirent, istore, dentry>> /\ inode' = Forget(t, arg[t].obj)
    BY <1>4 DEF Fail, fs
  <2>2. pc'[t] \notin CountingPcs \cup FreshPcs \cup AddedPcs
    BY <1>0, <2>1, TaskDone DEF CountingPcs, UnsavedPcs, FreshPcs, AddPcs, AddedPcs, NamedPcs
  <2>3. pc[t] \notin CountingPcs
    BY <1>4 DEF CountingPcs, UnsavedPcs, AddedPcs, NamedPcs, CreatePcs
  <2>4. \A a \in Addrs : OpenDir(a)' => OpenDir(a) /\ inode'[a] = inode[a]
    BY <2>1 DEF OpenDir, HasDentry, Forget
  <2> QED
    BY <1>0, <1>1, <2>1, <2>2, <2>3, <2>4, KidsDone, ChildOwn
<1> QED
  BY <1>2, <1>3, <1>4

(* The new object of a create, until simplefs_inode_add, is an empty one. *)
LEMMA ChildNew ==
  ASSUME Quiet, QuietInv, QuietInv', ChildInv, NEW t \in Tasks, NewInode(t) \/ GetFreeBlock(t)
  PROVE  ChildInv'
<1>0. TypeInv /\ TreeInv /\ TreeInv' /\ TaskInv(t) /\ TaskKids(t) /\ inode \in [Addrs -> Inode]
  BY DEF QuietInv, BaseInv, TreeInv, ChildInv, TypeInv, TypeOK
<1>1. TaskStep(t)
  BY DEF TaskStep, CalmStep
<1>2. /\ UNCHANGED <<dirent, istore, dentry>>
      /\ pc[t] \in {"c_new", "c_block"} /\ pc'[t] \in {"c_block_lock", "a_mgmt"}
  BY <1>0 DEF NewInode, GetFreeBlock, fs, Goto, TypeInv, TypeOK
<1>3. PICK o \in Addrs : /\ ~Cached(o)
                         /\ \A a \in Addrs : a # o => inode'[a] = inode[a]
                         /\ arg'[t].obj = o /\ inode'[o].n = 0
  <2>1. CASE NewInode(t)
    <3>1. PICK o \in Addrs, i \in 0 .. ImapBits :
            /\ Allocatable(o)
            /\ inode' = [inode EXCEPT ![o] = [mode |-> arg[t].mode, ino |-> i,
                                              blk |-> Leftover(o), n |-> 0]]
            /\ arg' = [arg EXCEPT ![t].obj = o]
      BY <2>1 DEF NewInode
    <3>2. ~Cached(o)
      BY <1>0, <3>1, AllocatableFree
    <3>3. inode'[o].n = 0 /\ \A a \in Addrs : a # o => inode'[a] = inode[a]
      BY <1>0, <3>1
    <3>4. arg'[t].obj = o
      BY <1>0, <3>1 DEF TypeInv, TypeOK, Args
    <3> QED
      BY <3>2, <3>3, <3>4
  <2>2. CASE GetFreeBlock(t)
    <3>1. pc[t] = "c_block" /\ UNCHANGED arg
      BY <2>2 DEF GetFreeBlock
    <3>2. arg[t].obj \in Addrs /\ arg[t].obj # None
      BY <1>0, <3>1, ObjType, FSAssumption DEF ObjPcs, CreatePcs
    <3>3. ~Cached(arg[t].obj)
      BY <1>0, <3>1, <3>2 DEF TaskInv, CreatePcs
    <3>4. inode[arg[t].obj].n = 0
      BY <1>0, <3>1 DEF TaskKids, FreshPcs
    <3>5. /\ \A a \in Addrs : a # arg[t].obj => inode'[a] = inode[a]
          /\ inode'[arg[t].obj].n = inode[arg[t].obj].n
      BY <1>0, <2>2, <3>2 DEF GetFreeBlock, Inode
    <3> QED
      BY <3>1, <3>2, <3>3, <3>4, <3>5
  <2> QED
    BY <2>1, <2>2
<1>4. \A a \in Addrs : OpenDir(a)' => OpenDir(a) /\ inode'[a] = inode[a]
  BY <1>2, <1>3 DEF OpenDir, HasDentry, Cached
<1>5. TaskKids(t)'
  BY <1>2, <1>3 DEF TaskKids, UnsavedPcs, AddedPcs, NamedPcs
<1>6. pc[t] \notin CountingPcs
  BY <1>2 DEF CountingPcs, UnsavedPcs
<1> QED
  BY <1>0, <1>1, <1>2, <1>4, <1>5, <1>6, ChildOwn

(* dir_children_count++ counts the name that was just written, and does not
   overflow. *)
LEMMA ChildCount ==
  ASSUME Quiet, QuietInv, QuietInv', CountInv, ChildInv, NEW t \in Tasks, CountChild(t)
  PROVE  ChildInv'
<1> DEFINE d == arg[t].dir
<1>0. TypeInv /\ TreeInv /\ TreeInv' /\ TaskInv(t) /\ TaskKids(t) /\ inode \in [Addrs -> Inode]
  BY DEF QuietInv, BaseInv, TreeInv, ChildInv, TypeInv, TypeOK
<1>1. TaskStep(t)
  BY DEF TaskStep, CalmStep
<1>2. /\ UNCHANGED <<dirent, istore, dentry, arg>>
      /\ pc[t] = "c_parent" /\ pc'[t] = "c_save_lock"
      /\ inode' = [inode EXCEPT ![d].n = Inc(@)]
  BY <1>0 DEF CountChild, fs, Lock, Goto, TypeInv, TypeOK
<1>3. /\ d \in Addrs /\ arg[t].obj \in Addrs /\ arg[t].obj # None
      /\ inode[d] \in Inode /\ inode[d].blk \in Blocks
  BY <1>0, <1>2, ObjType, FSAssumption DEF DirPcs, ObjPcs, CreatePcs, Inode
<1>4. arg[t].obj # d
  <2>1. OpenDir(d) /\ ~Cached(arg[t].obj)
    BY <1>0, <1>2, <1>3 DEF TaskInv, DirPcs, CreatePcs
  <2> QED
    BY <2>1 DEF OpenDir, Cached
<1>5. inode[d].n + 1 = Kids(inode[d].blk)
  BY <1>0, <1>2 DEF TaskKids
<1> HIDE DEF d
<1>6. Inc(inode[d].n) = inode[d].n + 1
  <2>1. Kids(inode[d].blk) \in Nat /\ Kids(inode[d].blk) <= MaxObjects
    BY <1>3, KidsBound, LiveFinite, LayoutAssumption DEF CountInv
  <2>2. inode[d].n \in Nat /\ Word \in Nat /\ Word > MaxObjects /\ MaxObjects \in Nat
    BY <1>3, LayoutAssumption DEF Inode
  <2> QED
    BY <1>5, <2>1, <2>2 DEF Inc
<1>7. /\ \A a \in Addrs : a # d => inode'[a] = inode[a]
      /\ inode'[d].n = inode[d].n + 1 /\ inode'[d].ino = inode[d].ino /\ inode'[d].blk = inode[d].blk
  BY <1>0, <1>2, <1>3, <1>6 DEF Inode
<1>8. Kids(inode[arg[t].dir].blk)' = Kids(inode[d].blk)
  BY <1>2, <1>7 DEF Kids, Listed, d
<1>9. TaskKids(t)'
  <2>1. inode'[arg'[t].dir].n = Kids(inode[arg[t].dir].blk)'
    BY <1>2, <1>5, <1>7, <1>8 DEF d
  <2>2. inode'[arg'[t].obj] = inode[arg[t].obj] /\ inode[arg[t].obj].n = istore[ObjIno(t)].n
    BY <1>0, <1>2, <1>3, <1>4, <1>7 DEF TaskKids, AddedPcs, NamedPcs
  <2>3. inode'[arg'[t].obj].n = istore'[ObjIno(t)'].n
    BY <1>2, <2>2 DEF ObjIno
  <2> QED
    BY <1>2, <2>1, <2>3 DEF TaskKids, FreshPcs, AddPcs
<1>10. \A a \in Addrs : OpenDir(a)' =>
         \/ OpenDir(a) /\ inode'[a] = inode[a]
         \/ pc'[t] \in UnsavedPcs /\ arg'[t].dir = a
  BY <1>2, <1>7 DEF OpenDir, HasDentry, UnsavedPcs, d
<1>11. pc'[t] \in CountingPcs /\ pc[t] \notin UnsavedPcs
  BY <1>2 DEF CountingPcs, UnsavedPcs
<1>12. arg'[t].dir = arg[t].dir /\ inode'[arg[t].dir].ino = inode[arg[t].dir].ino
  BY <1>2, <1>7 DEF d
<1> QED
  BY <1>0, <1>1, <1>2, <1>9, <1>10, <1>11, <1>12, ChildOwn

(* A lookup reads the count from the store; an unlink ends. *)
LEMMA ChildBind ==
  ASSUME Quiet, QuietInv, QuietInv', ChildInv, NEW t \in Tasks, GetInode(t) \/ UnlinkEnd(t)
  PROVE  ChildInv'
<1>0. /\ TypeInv /\ LockInv /\ TreeInv /\ TreeInv' /\ NameInv /\ TaskInv(t) /\ WorkInv(t)
      /\ inode \in [Addrs -> Inode] /\ dentry \in [Addrs -> [Names -> Addrs \cup {None}]]
  BY DEF QuietInv, BaseInv, TreeInv, NameInv, TypeInv, TypeOK
<1>1. TaskStep(t)
  BY DEF TaskStep, CalmStep
<1>2. Finish(t) /\ UNCHANGED <<dirent, istore>> /\ pc[t] \in {"l_get", "u_end"}
  BY DEF GetInode, UnlinkEnd, fs
<1>3. pc[t] \notin CountingPcs /\ pc'[t] \notin CountingPcs \cup FreshPcs \cup AddedPcs
  BY <1>0, <1>2, TaskDone DEF CountingPcs, UnsavedPcs, FreshPcs, AddPcs, AddedPcs, NamedPcs
<1>4. CASE GetInode(t)
  <2>1. PICK o \in Addrs :
          /\ inode' = [inode EXCEPT ![o] = istore[arg[t].ino]]
          /\ dentry' = [dentry EXCEPT ![arg[t].dir][arg[t].name] = o]
    BY <1>4 DEF GetInode
  <2>2. pc[t] = "l_get" /\ arg[t].dir \in Addrs /\ arg[t].name \in Names /\ arg[t].ino \in Inos
    BY <1>0, <1>4, ObjType DEF GetInode, DirPcs, LookupPcs, TypeInv, ArgsOK
  <2>3. Live(arg[t].ino)
    <3>1. Entry(t) = arg[t].ino /\ inode[arg[t].dir].blk \in Blocks
      BY <1>0, <2>2 DEF WorkInv, LookupPcs, Inode
    <3>2. arg[t].ino # 0
      BY <2>2, LayoutAssumption DEF Inos
    <3> QED
      BY <1>0, <2>2, <3>1, <3>2 DEF NameInv, NamesInv, Entry
  <2>4. inode'[o].n = istore[inode'[o].ino].n
    BY <1>0, <2>1, <2>3 DEF Live
  <2>5. \A a \in Addrs : a # o => (HasDentry(a)' => HasDentry(a)) /\ inode'[a] = inode[a]
    BY <1>0, <2>1, <2>2 DEF HasDentry
  <2>6. \A a \in Addrs : OpenDir(a)' => (OpenDir(a) /\ inode'[a] = inode[a]) \/ inode'[a].n = istore[inode'[a].ino].n
    BY <2>4, <2>5 DEF OpenDir
  <2> QED
    BY <1>0, <1>1, <1>2, <1>3, <2>6, KidsDone, ChildOwn
<1>5. CASE UnlinkEnd(t)
  <2>1. /\ arg[t].dir \in Addrs /\ arg[t].name \in Names /\ arg[t].obj \in Addrs
        /\ inode' = [inode EXCEPT ![arg[t].obj] = ZeroInode]
        /\ dentry' = [dentry EXCEPT ![arg[t].dir][arg[t].name] = None]
    BY <1>0, <1>5, UnlinkAlone DEF UnlinkEnd
  <2>2. \A a \in Addrs : HasDentry(a)' => HasDentry(a)
    BY <1>0, <2>1, FSAssumption DEF HasDentry
  <2>3. \A a \in Addrs : inode'[a] = inode[a] \/ inode'[a] = ZeroInode
    BY <1>0, <2>1
  <2>4. \A a \in Addrs : OpenDir(a)' => OpenDir(a) /\ inode'[a] = inode[a]
    BY <2>2, <2>3 DEF OpenDir, ZeroInode
  <2> QED
    BY <1>0, <1>1, <1>2, <1>3, <2>4, KidsDone, ChildOwn
<1> QED
  BY <1>4, <1>5

-----------------------------------------------------------------------------
(* A call writes or clears an entry in its directory, and is the one that will
   bring the counts up to date. *)
LEMMA ChildEntry ==
  ASSUME Quiet, QuietInv, TreeInv', ChildInv, NEW t \in Tasks, TaskStep(t),
         NEW d \in Addrs, NEW x \in Names, NEW i, OpenDir(d),
         dirent' = [dirent EXCEPT ![inode[d].blk][x] = i], UNCHANGED <<istore, dentry>>,
         \A a \in Addrs : a # d => inode'[a] = inode[a],
         Same(inode'[d], inode[d]),
         inode'[d] = inode[d] \/ pc'[t] \in UnsavedPcs,
         arg'[t].dir = d, pc'[t] \in CountingPcs, pc[t] \notin CountingPcs, TaskKids(t)'
  PROVE  ChildInv'
<1> DEFINE b == inode[d].blk
<1>0. TypeInv /\ TreeInv /\ NameInv
  BY DEF QuietInv, BaseInv
<1>1. DirAt(inode[d].ino, b) /\ b \in Blocks
  BY <1>0, OpenLive
<1>2. \A c \in Blocks : c # b => Kids(c)' = Kids(c)
  BY <1>1, KidsChange
<1>3. ASSUME NEW u \in Tasks, u # t
      PROVE  /\ pc'[u] = pc[u] /\ arg'[u] = arg[u]
             /\ pc[u] \in CountingPcs =>
                  /\ arg[u].dir # d /\ arg[u].dir \in Addrs /\ OpenDir(arg[u].dir)
                  /\ inode'[arg[u].dir] = inode[arg[u].dir]
  <2>1. pc'[u] = pc[u] /\ arg'[u] = arg[u]
    BY <1>3, Others DEF TaskStep, CalmStep
  <2>2. pc[u] \in CountingPcs => pc[u] \in DirPcs
    BY DEF CountingPcs, UnsavedPcs, DirPcs, CreatePcs, UnlinkPcs
  <2>3. d # None
    BY FSAssumption
  <2>4. arg[u].dir # d
    BY <1>3, <2>1, <2>3 DEF TreeInv, OwnDirs
  <2> QED
    BY <1>3, <2>1, <2>2, <2>4, DirsSteady
<1> HIDE DEF b
<1>4. \A u \in Tasks : TaskKids(u)'
  <2> SUFFICES ASSUME NEW u \in Tasks, u # t PROVE TaskKids(u)'
    OBVIOUS
  <2>1. ASSUME pc[u] \in CountingPcs
        PROVE  Kids(inode[arg[u].dir].blk)' = Kids(inode[arg[u].dir].blk)
    <3>1. /\ inode'[arg'[u].dir] = inode[arg[u].dir]
          /\ arg[u].dir # d /\ arg[u].dir \in Addrs /\ OpenDir(arg[u].dir)
      BY <1>3, <2>1
    <3>2. inode[arg[u].dir].blk # b /\ inode[arg[u].dir].blk \in Blocks
      BY <1>0, <3>1, OpenLive DEF NameInv, DirsApart, b
    <3>3. Kids(inode[arg[u].dir].blk)' = Cardinality({y \in Names : dirent'[inode[arg[u].dir].blk][y] # 0})
      BY <3>1 DEF Kids, Listed
    <3>4. \A c : Kids(c)' = Cardinality({y \in Names : dirent'[c][y] # 0})
      BY DEF Kids, Listed
    <3> QED
      BY <1>2, <3>2, <3>3, <3>4
  <2> QED
    BY <2>1, KidsOther
<1>5. ASSUME NEW k \in Inos PROVE DirKids(k)'
  <2> SUFFICES ASSUME DirAt(k, istore[k].blk)',
                      \A u \in Tasks : pc'[u] \in CountingPcs => inode'[arg'[u].dir].ino # k
               PROVE  istore[k].n = Kids(istore[k].blk)'
    BY DEF DirKids
  <2>1. DirAt(k, istore[k].blk) /\ istore[k].blk \in Blocks
    BY <1>0 DEF DirAt, Live, TypeInv, TypeOK, Inode
  <2>2. inode[d].ino # k
    BY DEF Same
  <2>3. istore[k].blk # b
    BY <1>1, <2>1, <2>2, DirsDistinct
  <2>4. \A u \in Tasks : pc[u] \in CountingPcs => inode[arg[u].dir].ino # k
    BY <1>3
  <2>5. istore[k].n = Kids(istore[k].blk)
    BY <2>1, <2>4 DEF ChildInv, DirKids
  <2>6. Kids(istore[k].blk)' = Kids(istore[k].blk)
    <3>1. \A c : Kids(c)' = Cardinality({y \in Names : dirent'[c][y] # 0})
      BY DEF Kids, Listed
    <3>2. Kids(istore[k].blk)' = Cardinality({y \in Names : dirent'[istore[k].blk][y] # 0})
      BY DEF Kids, Listed
    <3> QED
      BY <1>2, <2>1, <2>3, <3>1, <3>2
  <2> QED
    BY <2>5, <2>6
<1>6. ASSUME NEW a \in Addrs PROVE OpenKids(a)'
  <2> SUFFICES ASSUME OpenDir(a)', \A u \in Tasks : pc'[u] \in UnsavedPcs => arg'[u].dir # a
               PROVE  inode'[a].n = istore[inode'[a].ino].n
    BY DEF OpenKids
  <2>1. inode'[a] = inode[a]
    OBVIOUS
  <2>2. OpenDir(a)
    BY <2>1 DEF OpenDir, HasDentry
  <2>3. \A u \in Tasks : pc[u] \in UnsavedPcs => arg[u].dir # a
    BY <1>3 DEF CountingPcs
  <2> QED
    BY <2>1, <2>2, <2>3 DEF ChildInv, OpenKids
<1> QED
  BY <1>4, <1>5, <1>6 DEF ChildInv

(* The new name makes one more than the directory's object counts. *)
LEMMA ChildAddName ==
  ASSUME Quiet, QuietInv, QuietInv', ChildInv, NEW t \in Tasks, AddName(t)
  PROVE  ChildInv'
<1> DEFINE d == arg[t].dir
           x == arg[t].name
           i == ObjIno(t)
<1>0. TypeInv /\ TreeInv /\ TreeInv' /\ NameInv /\ TaskInv(t) /\ WorkInv(t) /\ TaskKids(t)
  BY DEF QuietInv, BaseInv, TreeInv, NameInv, ChildInv
<1>1. /\ TaskStep(t) /\ UNCHANGED <<istore, dentry, inode, arg>>
      /\ pc[t] = "c_name" /\ pc'[t] = "c_parent"
      /\ dirent' = [dirent EXCEPT ![inode[d].blk][x] = i]
  BY <1>0 DEF AddName, TaskStep, CalmStep, Goto, TypeInv, TypeOK, ObjIno
<1>2. /\ d \in Addrs /\ d # None /\ x \in Names /\ OpenDir(d)
      /\ inode[d] \in Inode /\ inode[d].blk \in Blocks
  BY <1>0, <1>1, ObjType, FSAssumption DEF DirPcs, CreatePcs, TaskInv, Inode
<1>3. dirent[inode[d].blk][x] = 0 /\ i # 0
  <2>1. Entry(t) = 0 /\ Live(i)
    BY <1>0, <1>1 DEF WorkInv, CreatePcs, NamedPcs, ClaimPcs
  <2> QED
    BY <2>1, LayoutAssumption DEF Entry, Live, Inos
<1>4. inode[d].n = Kids(inode[d].blk)
  <2>1. pc[t] \notin CountingPcs
    BY <1>1 DEF CountingPcs, UnsavedPcs
  <2>2. \A u \in Tasks : pc[u] \in CountingPcs => arg[u].dir # d
    BY <1>0, <1>2, <2>1 DEF TreeInv, OwnDirs
  <2> QED
    BY <1>2, <2>2, KidsOpen
<1>5. TaskKids(t)'
  <2>1. Kids(inode[d].blk)' = Kids(inode[d].blk) + 1
    <3> HIDE DEF d, x, i
    <3>1. \A b : Kids(b)' = Cardinality({y \in Names : dirent'[b][y] # 0})
      BY DEF Kids, Listed
    <3>2. Kids(inode[d].blk)' = Cardinality({y \in Names : dirent'[inode[d].blk][y] # 0})
      BY <1>1 DEF Kids, Listed, d
    <3>3. \A b \in Blocks : b = inode[d].blk => Kids(b)' = Kids(b) + 1
      BY <1>1, <1>2, <1>3, KidsChange
    <3> QED
      BY <1>2, <3>1, <3>2, <3>3
  <2>2. inode'[arg'[t].dir].n + 1 = Kids(inode[arg[t].dir].blk)'
    BY <1>1, <1>4, <2>1
  <2>3. inode'[arg'[t].obj].n = istore'[ObjIno(t)'].n
    BY <1>0, <1>1 DEF TaskKids, AddedPcs, ObjIno
  <2> QED
    BY <1>1, <2>2, <2>3 DEF TaskKids, UnsavedPcs, FreshPcs, AddPcs
<1>6. pc'[t] \in CountingPcs /\ pc[t] \notin CountingPcs
  BY <1>1 DEF CountingPcs, UnsavedPcs
<1>7. Same(inode'[d], inode[d]) /\ arg'[t].dir = d
  BY <1>1 DEF Same
<1> HIDE DEF d, x, i
<1> QED
  BY <1>0, <1>1, <1>2, <1>5, <1>6, <1>7, ChildEntry

(* unlink clears a name that is there, and the count goes down with it. *)
LEMMA ChildUnlink ==
  ASSUME Quiet, QuietInv, QuietInv', ChildInv, NEW t \in Tasks, NEW d \in Addrs, NEW x \in Names,
         UnlinkCall(t, d, x)
  PROVE  ChildInv'
<1>0. TypeInv /\ TreeInv /\ TreeInv' /\ NameInv /\ inode \in [Addrs -> Inode] /\ inode[d] \in Inode
  BY DEF QuietInv, BaseInv, TypeInv, TypeOK
<1>1. /\ UNCHANGED <<istore, dentry>>
      /\ pc[t] = "idle" /\ ~DirBusy(d) /\ dentry[d][x] \in Addrs
      /\ dirent' = [dirent EXCEPT ![inode[d].blk][x] = 0]
      /\ inode' = [inode EXCEPT ![d].n = Dec(@)]
  BY DEF UnlinkCall
<1>2. TaskStep(t) /\ pc'[t] = "u_save_lock" /\ arg'[t].dir = d
  BY <1>0 DEF UnlinkCall, TaskStep, CalmStep, Call, Goto, NoArg, TypeInv, TypeOK
<1>3. OpenDir(d) /\ inode[d].blk \in Blocks /\ inode[d].n \in Nat
  BY <1>0, <1>1 DEF TreeInv, DentryInv, Inode
<1>4. dirent[inode[d].blk][x] # 0
  BY <1>0, <1>1 DEF NameInv, BoundInv, Bound, DirBusy
<1>5. inode[d].n = Kids(inode[d].blk)
  <2>1. \A u \in Tasks : arg[u].dir # d
    BY <1>1 DEF DirBusy
  <2> QED
    BY <1>3, <2>1, KidsOpen
<1>6. /\ \A b \in Blocks : b = inode[d].blk => Kids(b)' = Kids(b) - 1
      /\ Kids(inode[d].blk) # 0
  BY <1>1, <1>3, <1>4, KidsChange
<1>7. /\ \A a \in Addrs : a # d => inode'[a] = inode[a]
      /\ inode'[d].n = inode[d].n - 1
      /\ inode'[d].ino = inode[d].ino /\ inode'[d].mode = inode[d].mode /\ inode'[d].blk = inode[d].blk
  BY <1>0, <1>1, <1>3, <1>5, <1>6 DEF Inode, Dec
<1>8. Kids(inode[arg[t].dir].blk)' = Kids(inode[d].blk) - 1
  <2>1. \A b : Kids(b)' = Cardinality({y \in Names : dirent'[b][y] # 0})
    BY DEF Kids, Listed
  <2>2. Kids(inode[arg[t].dir].blk)' = Cardinality({y \in Names : dirent'[inode[d].blk][y] # 0})
    BY <1>2, <1>7 DEF Kids, Listed
  <2> QED
    BY <1>3, <1>6, <2>1, <2>2
<1>9. TaskKids(t)'
  <2>1. inode'[arg'[t].dir].n = Kids(inode[arg[t].dir].blk)'
    BY <1>2, <1>5, <1>7, <1>8
  <2> QED
    BY <1>2, <2>1 DEF TaskKids, FreshPcs, AddPcs, AddedPcs, NamedPcs
<1>10. pc'[t] \in CountingPcs /\ pc[t] \notin CountingPcs /\ pc'[t] \in UnsavedPcs
  BY <1>1, <1>2 DEF CountingPcs, UnsavedPcs
<1>11. Same(inode'[d], inode[d])
  BY <1>7 DEF Same
<1> QED
  BY <1>0, <1>1, <1>2, <1>3, <1>7, <1>9, <1>10, <1>11, ChildEntry

-----------------------------------------------------------------------------
(* Nor is an open directory one that a create has yet to save. *)
LEMMA OpenSettled ==
  ASSUME QuietInv, NEW d \in Addrs, OpenDir(d), NEW u \in Tasks, pc[u] \in AddedPcs
  PROVE  ObjIno(u) # inode[d].ino
<1>0. TypeInv /\ TreeInv /\ NameInv /\ WorkInv(u)
  BY DEF QuietInv, BaseInv, NameInv
<1>1. CASE d = RootAddr
  <2>1. inode[d].ino = RootIno
    BY <1>0, <1>1 DEF NameInv, StoreInv, Same, Live
  <2>2. CASE pc[u] = "c_name"
    BY <1>0, <2>1, <2>2 DEF WorkInv, ClaimPcs, Unnamed
  <2>3. CASE pc[u] \in NamedPcs
    <3>1. Entry(u) = ObjIno(u) /\ Live(ObjIno(u))
      BY <1>0, <2>3 DEF WorkInv
    <3>2. arg[u].name \in Names /\ inode[arg[u].dir].blk \in Blocks
      BY <1>0, <2>3, ObjType DEF NamedPcs, DirPcs, CreatePcs, Inode
    <3>3. ObjIno(u) # 0
      BY <3>1, LayoutAssumption DEF Live, Inos
    <3> QED
      BY <1>0, <2>1, <3>1, <3>2, <3>3 DEF NameInv, NamesInv, Entry
  <2> QED
    BY <2>2, <2>3 DEF AddedPcs
<1>2. CASE d # RootAddr
  <2>1. PICK e \in Addrs, x \in Names : dentry[e][x] = d /\ dirent[inode[e].blk][x] # 0
    BY <1>0, <1>2, DirNamed
  <2> QED
    BY <2>1, Settled
<1> QED
  BY <1>1, <1>2

(* simplefs_inode_save brings the record of the directory up to date. *)
LEMMA ChildSave ==
  ASSUME Quiet, QuietInv, QuietInv', ChildInv, NEW t \in Tasks, ParentSave(t) \/ UnlinkSave(t)
  PROVE  ChildInv'
<1> DEFINE d == arg[t].dir
           i == inode[d].ino
<1>0. TypeInv /\ TreeInv /\ TreeInv' /\ NameInv /\ TaskInv(t) /\ TaskKids(t)
  BY DEF QuietInv, BaseInv, TreeInv, ChildInv
<1>1. /\ d \in Addrs /\ OpenDir(d)
      /\ istore' = Put(istore, i, inode[d])
      /\ \A k \in Inos : Same(istore'[k], istore[k])
      /\ UNCHANGED <<dirent, inode>>
  BY Saves
<1>2. TaskStep(t) /\ pc[t] \in {"c_save", "u_save"} /\ pc'[t] \in {"idle", "d_mgmt"}
  BY <1>0, TaskDone DEF TaskStep, ParentSave, UnlinkSave, Goto, TypeInv, TypeOK
<1>3. pc[t] \in UnsavedPcs /\ pc'[t] \notin CountingPcs \cup FreshPcs \cup AddedPcs
  BY <1>2 DEF CountingPcs, UnsavedPcs, FreshPcs, AddPcs, AddedPcs, NamedPcs
<1>4. inode[d].n = Kids(inode[d].blk)
  BY <1>0, <1>3 DEF TaskKids
<1>5. Live(i) /\ i \in Inos
  BY <1>0, <1>1, OpenLive DEF Live
<1>6. OpenDir(d) /\ \A u \in Tasks : pc[u] \in AddedPcs => ObjIno(u) # i
  BY <1>1, OpenSettled
<1>7. \A u \in Tasks : u # t => pc'[u] = pc[u] /\ arg'[u] = arg[u]
  BY <1>2, Others DEF TaskStep, CalmStep
<1> HIDE DEF i
<1>8. istore'[i] = inode[d] /\ \A k \in Inos : k # i => istore'[k] = istore[k]
  BY <1>1, <1>5 DEF Put
<1>9. ASSUME NEW u \in Tasks, u # t PROVE TaskKids(u)'
  <2>1. pc[u] \in CountingPcs => Kids(inode[arg[u].dir].blk)' = Kids(inode[arg[u].dir].blk)
    BY <1>1, <1>7, <1>9 DEF Kids, Listed
  <2>2. pc[u] \in AddedPcs => ObjIno(u) \in Inos
    BY DEF QuietInv, NameInv, WorkInv, AddedPcs, ClaimPcs, Live
  <2>3. pc[u] \in AddedPcs => istore'[ObjIno(u)].n = istore[ObjIno(u)].n
    BY <1>6, <1>8, <2>2
  <2> QED
    BY <1>0, <1>2, <1>9, <2>1, <2>3, KidsOther
<1>10. ASSUME NEW k \in Inos PROVE DirKids(k)'
  <2> SUFFICES ASSUME DirAt(k, istore[k].blk)',
                      \A u \in Tasks : pc'[u] \in CountingPcs => inode'[arg'[u].dir].ino # k
               PROVE  istore'[k].n = Kids(istore[k].blk)'
    BY DEF DirKids
  <2>1. Kids(istore[k].blk)' = Cardinality({x \in Names : dirent[istore'[k].blk][x] # 0})
    BY <1>1 DEF Kids, Listed
  <2>2. CASE k = i
    BY <1>4, <1>8, <2>1, <2>2 DEF Kids, Listed
  <2>3. CASE k # i
    <3>1. \A u \in Tasks : pc[u] \in CountingPcs => inode[arg[u].dir].ino # k
      BY <1>1, <1>7, <2>3 DEF i
    <3>2. istore'[k] = istore[k]
      BY <1>8, <2>3
    <3>3. DirAt(k, istore[k].blk)
      BY <3>2 DEF DirAt, Live
    <3>4. istore[k].n = Kids(istore[k].blk)
      BY <3>1, <3>3 DEF ChildInv, DirKids
    <3> QED
      BY <2>1, <3>2, <3>4 DEF Kids, Listed
  <2> QED
    BY <2>2, <2>3
<1>11. ASSUME NEW a \in Addrs PROVE OpenKids(a)'
  <2> SUFFICES ASSUME OpenDir(a)', \A u \in Tasks : pc'[u] \in UnsavedPcs => arg'[u].dir # a
               PROVE  inode[a].n = istore'[inode[a].ino].n
    BY <1>1 DEF OpenKids
  <2>1. CASE a = d
    BY <1>8, <2>1 DEF i
  <2>2. CASE a # d /\ OpenDir(a)
    <3>1. inode[a].ino # i
      BY <1>1, <2>2, OpenApart DEF i
    <3>2. inode[a].ino \in Inos
      BY <1>0, <2>2, OpenLive DEF Live
    <3>3. \A u \in Tasks : pc[u] \in UnsavedPcs => arg[u].dir # a
      BY <1>7, <2>2
    <3>4. inode[a].n = istore[inode[a].ino].n
      BY <2>2, <3>3 DEF ChildInv, OpenKids
    <3> QED
      BY <1>8, <3>1, <3>2, <3>4
  <2>3. CASE ~OpenDir(a)
    <3>1. ParentSave(t) /\ a = arg[t].obj
      <4>1. UnlinkSave(t) => UNCHANGED dentry
        BY DEF UnlinkSave
      <4>2. ParentSave(t) => UNCHANGED dentry \/ dentry' = [dentry EXCEPT ![d][arg[t].name] = arg[t].obj]
        BY DEF ParentSave
      <4>3. arg[t].name \in Names /\ dentry \in [Addrs -> [Names -> Addrs \cup {None}]]
        BY <1>0, ObjType DEF TypeInv, TypeOK
      <4>4. HasDentry(a)' /\ ~HasDentry(a)
        BY <1>1, <2>3 DEF OpenDir, HasDentry
      <4>5. \E e \in Addrs, x \in Names : dentry'[e][x] = a /\ dentry[e][x] # a
        BY <4>4 DEF HasDentry
      <4>6. ~UNCHANGED dentry
        BY <4>5
      <4>7. dentry' = [dentry EXCEPT ![d][arg[t].name] = arg[t].obj] /\ ParentSave(t)
        BY <4>1, <4>2, <4>6
      <4> HIDE DEF d
      <4> QED
        BY <1>1, <4>3, <4>5, <4>7
    <3>2. pc[t] \in AddedPcs
      BY <3>1 DEF ParentSave, AddedPcs, NamedPcs
    <3>3. inode[a].n = istore[inode[a].ino].n /\ inode[a].ino = ObjIno(t)
      BY <1>0, <3>1, <3>2 DEF TaskKids, ObjIno
    <3>4. ObjIno(t) # i /\ ObjIno(t) \in Inos
      BY <1>6, <3>2 DEF QuietInv, NameInv, WorkInv, AddedPcs, ClaimPcs, Live
    <3> QED
      BY <1>8, <3>3, <3>4
  <2> QED
    BY <2>1, <2>2, <2>3
<1>12. TaskKids(t)'
  BY <1>3, KidsDone
<1> QED
  BY <1>9, <1>10, <1>11, <1>12 DEF ChildInv

(* One slot of the store changes, of an inode that is no open directory. *)
LEMMA ChildSlot ==
  ASSUME Quiet, QuietInv, TreeInv', ChildInv, NEW t \in Tasks, TaskStep(t),
         UNCHANGED <<dirent, inode, dentry>>,
         NEW i, NEW rec, istore' = Put(istore, i, rec),
         pc[t] \notin CountingPcs, TaskKids(t)',
         \A a \in Addrs : OpenDir(a) => inode[a].ino # i,
         \A u \in Tasks : u # t /\ pc[u] \in AddedPcs => ObjIno(u) # i,
         i \in Inos => DirKids(i)'
  PROVE  ChildInv'
<1>0. TypeInv /\ TreeInv /\ NameInv
  BY DEF QuietInv, BaseInv
<1>1. \A u \in Tasks : u # t => pc'[u] = pc[u] /\ arg'[u] = arg[u]
  BY Others DEF TaskStep, CalmStep
<1>2. \A k \in Inos : k # i => istore'[k] = istore[k]
  BY DEF Put
<1>3. ASSUME NEW u \in Tasks, u # t PROVE TaskKids(u)'
  <2>1. pc[u] \in CountingPcs => Kids(inode[arg[u].dir].blk)' = Kids(inode[arg[u].dir].blk)
    BY <1>1, <1>3 DEF Kids, Listed
  <2>2. pc[u] \in AddedPcs => ObjIno(u) \in Inos
    BY DEF QuietInv, NameInv, WorkInv, AddedPcs, ClaimPcs, Live
  <2>3. pc[u] \in AddedPcs => istore'[ObjIno(u)].n = istore[ObjIno(u)].n
    BY <1>2, <1>3, <2>2
  <2> QED
    BY <1>3, <2>1, <2>3, KidsOther
<1>4. ASSUME NEW k \in Inos, k # i PROVE DirKids(k)'
  <2> SUFFICES ASSUME DirAt(k, istore[k].blk)',
                      \A u \in Tasks : pc'[u] \in CountingPcs => inode'[arg'[u].dir].ino # k
               PROVE  istore'[k].n = Kids(istore[k].blk)'
    BY DEF DirKids
  <2>1. istore'[k] = istore[k]
    BY <1>2, <1>4
  <2>2. \A u \in Tasks : pc[u] \in CountingPcs => inode[arg[u].dir].ino # k
    BY <1>1
  <2>3. DirAt(k, istore[k].blk)
    BY <2>1 DEF DirAt, Live
  <2>4. istore[k].n = Kids(istore[k].blk)
    BY <2>2, <2>3 DEF ChildInv, DirKids
  <2> QED
    BY <2>1, <2>4 DEF Kids, Listed
<1>5. ASSUME NEW a \in Addrs PROVE OpenKids(a)'
  <2> SUFFICES ASSUME OpenDir(a)', \A u \in Tasks : pc'[u] \in UnsavedPcs => arg'[u].dir # a
               PROVE  inode[a].n = istore'[inode[a].ino].n
    BY DEF OpenKids
  <2>1. OpenDir(a)
    BY DEF OpenDir, HasDentry
  <2>2. inode[a].ino \in Inos /\ inode[a].ino # i
    BY <1>0, <2>1, OpenLive DEF Live
  <2>3. \A u \in Tasks : pc[u] \in UnsavedPcs => arg[u].dir # a
    BY <1>1 DEF CountingPcs
  <2>4. inode[a].n = istore[inode[a].ino].n
    BY <2>1, <2>3 DEF ChildInv, OpenKids
  <2> QED
    BY <1>2, <2>2, <2>4
<1> QED
  BY <1>3, <1>4, <1>5 DEF ChildInv

(* A new directory is added with a count of zero and a block in which there is
   no name: the block was free, so no directory had it. *)
LEMMA ChildAdd ==
  ASSUME Quiet, QuietInv, QuietInv', ChildInv, NEW t \in Tasks, InodeAdd(t)
  PROVE  ChildInv'
<1> DEFINE rec == inode[arg[t].obj]
<1>i. PICK i : i = ObjIno(t)
  OBVIOUS
<1>0. /\ TypeInv /\ TreeInv /\ TreeInv' /\ RoomInv /\ NameInv /\ StoreInv
      /\ WorkInv(t) /\ TaskKids(t)
  BY DEF QuietInv, BaseInv, NameInv, ChildInv
<1>1. /\ TaskStep(t) /\ pc[t] = "a_add" /\ pc'[t] = "c_name"
      /\ istore' = Put(istore, i, rec) /\ UNCHANGED <<dirent, inode, dentry, arg>>
  BY <1>0, <1>i DEF InodeAdd, TaskStep, ObjIno, Goto, TypeInv, TypeOK
<1>2. arg[t].obj \in Addrs /\ rec \in Inode
  BY <1>0, <1>1, ObjType DEF ObjPcs, CreatePcs
<1>3. i \notin imap /\ rec.blk # 0 /\ rec.n = 0 /\ rec.ino = i
  BY <1>0, <1>1, <1>i DEF WorkInv, TaskKids, FreshPcs, AddPcs, ObjIno
<1>4. ~Live(i)
  BY <1>0, <1>3, LiveBits DEF Live
<1>5. Listed(rec.blk) = {}
  <2> SUFFICES ASSUME NEW x \in Names, dirent[rec.blk][x] # 0 PROVE FALSE
    BY DEF Listed
  <2>1. rec.blk \in Blocks
    BY <1>2 DEF Inode
  <2>2. PICK k \in Inos : DirAt(k, rec.blk)
    BY <1>0, <2>1 DEF NameInv, NamesInv
  <2>3. istore[k] \in Records /\ rec \in Records /\ istore[k].blk = rec.blk
    BY <1>2, <2>2 DEF DirAt, Records
  <2>4. istore[k].ino = rec.ino
    BY <1>3, <2>3 DEF QuietInv, BaseInv, BlockInv, UniqueBlocks
  <2>5. k = i /\ Live(k)
    BY <1>3, <2>2, <2>4 DEF DirAt, Live
  <2> QED
    BY <1>4, <2>5
<1>6. ASSUME i \in Inos PROVE DirKids(i)' /\ istore'[i] = rec
  <2>1. istore'[i] = rec
    BY <1>1, <1>6 DEF Put
  <2>2. Cardinality(Listed(rec.blk)) = 0
    BY <1>5, FS_EmptySet
  <2>3. \A k : Kids(istore[k].blk)' = Cardinality({x \in Names : dirent[istore'[k].blk][x] # 0})
    BY <1>1 DEF Kids, Listed
  <2>4. \A k : istore'[k] = rec => Kids(istore[k].blk)' = 0
    BY <2>2, <2>3 DEF Listed
  <2> QED
    BY <1>3, <2>1, <2>4 DEF DirKids
<1>7. TaskKids(t)'
  <2>1. i \in Inos
    <3>1. i # 0
      BY <1>0, <1>3, LiveBits
    <3> QED
      BY <1>2, <1>3, <3>1, LayoutAssumption DEF Inode, Inos
  <2>2. inode'[arg'[t].obj].n = istore'[ObjIno(t)'].n
    BY <1>1, <1>6, <1>i, <2>1 DEF ObjIno
  <2> QED
    BY <1>1, <2>2 DEF TaskKids, UnsavedPcs, FreshPcs, AddPcs
<1>8. \A a \in Addrs : OpenDir(a) => inode[a].ino # i
  BY <1>0, <1>4, OpenLive
<1>9. \A u \in Tasks : pc[u] \in AddedPcs => ObjIno(u) # i
  BY <1>4 DEF QuietInv, NameInv, WorkInv, AddedPcs, ClaimPcs
<1>10. pc[t] \notin CountingPcs
  BY <1>1 DEF CountingPcs, UnsavedPcs
<1> HIDE DEF rec
<1> QED
  BY <1>0, <1>1, <1>6, <1>7, <1>8, <1>9, <1>10, ChildSlot

(* The inode that is deleted is no directory, and nobody else's. *)
LEMMA ChildDel ==
  ASSUME Quiet, QuietInv, QuietInv', ChildInv, NEW t \in Tasks, InodeDel(t)
  PROVE  ChildInv'
<1>i. PICK i : i = ObjIno(t)
  OBVIOUS
<1>0. TypeInv /\ TreeInv /\ TreeInv' /\ NameInv /\ TaskInv(t) /\ WorkInv(t)
  BY DEF QuietInv, BaseInv, TreeInv, NameInv
<1>1. /\ TaskStep(t) /\ pc[t] = "d_del" /\ pc'[t] = "u_end"
      /\ istore' = Put(istore, i, ZeroInode) /\ UNCHANGED <<dirent, inode, dentry>>
  BY <1>0, <1>i DEF InodeDel, TaskStep, ObjIno, Goto, TypeInv, TypeOK
<1>2. Live(i) /\ Unnamed(i) /\ istore[i].mode # "dir"
  BY <1>0, <1>1, <1>i DEF WorkInv, ClaimPcs, DelPcs, TaskInv, UnlinkPcs, Same
<1>3. \A a \in Addrs : OpenDir(a) => inode[a].ino # i
  BY <1>0, <1>2, OpenLive DEF DirAt
<1>4. ASSUME NEW u \in Tasks, u # t, pc[u] \in AddedPcs PROVE ObjIno(u) # i
  <2>1. WorkInv(u)
    BY DEF QuietInv, NameInv
  <2>2. CASE pc[u] = "c_name"
    BY <1>0, <1>1, <1>4, <1>i, <2>2 DEF NameInv, ClaimsApart, ClaimPcs, DelPcs
  <2>3. CASE pc[u] \in NamedPcs
    <3>1. arg[u].name \in Names /\ inode[arg[u].dir].blk \in Blocks
      BY <1>0, <2>3, ObjType DEF NamedPcs, DirPcs, CreatePcs, Inode
    <3>2. Entry(u) = ObjIno(u)
      BY <2>1, <2>3 DEF WorkInv
    <3> QED
      BY <1>2, <3>1, <3>2 DEF Entry, Unnamed
  <2> QED
    BY <1>4, <2>2, <2>3 DEF AddedPcs
<1>5. TaskKids(t)' /\ pc[t] \notin CountingPcs
  BY <1>1, KidsDone DEF CountingPcs, UnsavedPcs, FreshPcs, AddPcs, AddedPcs, NamedPcs
<1>6. i \in Inos => DirKids(i)'
  BY <1>1 DEF Put, DirKids, DirAt, ZeroInode
<1> QED
  BY <1>0, <1>1, <1>3, <1>4, <1>5, <1>6, ChildSlot

-----------------------------------------------------------------------------
(* What happens outside the tasks. *)
LEMMA ChildEnvironment ==
  ASSUME Quiet, QuietInv, ChildInv, Environment
  PROVE  ChildInv'
<1>0. /\ TypeInv /\ TreeInv /\ NameInv /\ inode \in [Addrs -> Inode]
      /\ dentry \in [Addrs -> [Names -> Addrs \cup {None}]]
  BY DEF QuietInv, BaseInv, TypeInv, TypeOK
<1>1. CASE Writeback
  <2>1. UNCHANGED <<dirent, istore, inode, dentry, pc, arg>>
    BY <1>1 DEF Writeback
  <2>2. \A u \in Tasks : TaskKids(u)'
    BY <2>1 DEF ChildInv, TaskKids, Kids, Listed, ObjIno
  <2>3. \A a : OpenDir(a)' = OpenDir(a)
    BY <2>1 DEF OpenDir, HasDentry
  <2> QED
    BY <2>1, <2>2, <2>3, ChildKeep
<1>2. CASE \E d \in Addrs, x \in Names : Shrink(d, x)
  <2>1. PICK d \in Addrs, x \in Names : Shrink(d, x)
    BY <1>2
  <2> DEFINE o == dentry[d][x]
  <2>2. /\ UNCHANGED <<dirent, istore, pc, arg>>
        /\ o \in Addrs /\ \A u \in Tasks : o # arg[u].obj /\ o # arg[u].dir
        /\ dentry' = [dentry EXCEPT ![d][x] = None]
        /\ inode' = [inode EXCEPT ![o] = ZeroInode]
    BY <2>1 DEF Shrink, fs
  <2> HIDE DEF o
  <2>3. inode'[o] = ZeroInode /\ \A a \in Addrs : a # o => inode'[a] = inode[a]
    BY <1>0, <2>2
  <2>4. \A a \in Addrs : HasDentry(a)' => HasDentry(a)
    BY <1>0, <2>2, FSAssumption DEF HasDentry
  <2>5. \A a \in Addrs : OpenDir(a)' => OpenDir(a) /\ inode'[a] = inode[a]
    BY <2>3, <2>4 DEF OpenDir, ZeroInode
  <2>6. ASSUME NEW u \in Tasks
        PROVE  /\ pc[u] \in DirPcs => inode'[arg[u].dir] = inode[arg[u].dir]
               /\ pc[u] \in ObjPcs => inode'[arg[u].obj] = inode[arg[u].obj]
    BY <1>0, <2>2, <2>3, ObjType
  <2>7. /\ CountingPcs \subseteq DirPcs
        /\ FreshPcs \cup AddedPcs \subseteq ObjPcs
    BY DEF CountingPcs, UnsavedPcs, FreshPcs, AddPcs, AddedPcs, NamedPcs, DirPcs, ObjPcs, CreatePcs, UnlinkPcs
  <2>8. ASSUME NEW u \in Tasks PROVE TaskKids(u)'
    <3>1. TaskKids(u) /\ pc'[u] = pc[u] /\ arg'[u] = arg[u]
      BY <2>2 DEF ChildInv
    <3>2. pc[u] \in CountingPcs => /\ Kids(inode[arg[u].dir].blk)' = Kids(inode[arg[u].dir].blk)
                                   /\ inode'[arg'[u].dir].n = inode[arg[u].dir].n
      BY <2>2, <2>6, <2>7 DEF Kids, Listed
    <3>3. pc[u] \in AddedPcs => inode'[arg'[u].obj].n = istore'[ObjIno(u)'].n
      BY <2>2, <2>6, <2>7, <3>1 DEF ObjIno, TaskKids
    <3>4. pc[u] \in FreshPcs => inode'[arg'[u].obj].n = 0
      BY <2>6, <2>7, <3>1 DEF TaskKids
    <3>5. /\ pc[u] = "c_parent" => inode'[arg'[u].dir].n + 1 = Kids(inode[arg[u].dir].blk)'
          /\ pc[u] \in UnsavedPcs => inode'[arg'[u].dir].n = Kids(inode[arg[u].dir].blk)'
      BY <3>1, <3>2 DEF TaskKids, CountingPcs
    <3> QED
      BY <3>1, <3>3, <3>4, <3>5 DEF TaskKids
  <2>9. \A u \in Tasks : pc[u] \in CountingPcs => inode'[arg[u].dir] = inode[arg[u].dir]
    BY <2>6, <2>7
  <2> QED
    BY <2>2, <2>5, <2>8, <2>9, ChildKeep
<1>3. CASE Remount
  <2>1. /\ UNCHANGED <<dirent, istore>>
        /\ \A t \in Tasks : pc[t] = "idle" /\ pc'[t] = "idle"
        /\ dentry' = NoDentries
        /\ inode' = [a \in Addrs |-> IF a = RootAddr THEN istore[RootIno] ELSE ZeroInode]
    BY <1>3 DEF Remount, Mount
  <2>2. "idle" \notin CountingPcs \cup FreshPcs \cup AddedPcs
    BY DEF CountingPcs, UnsavedPcs, FreshPcs, AddPcs, AddedPcs, NamedPcs
  <2>3. \A u \in Tasks : TaskKids(u)' /\ pc[u] \notin CountingPcs
    BY <2>1, <2>2, KidsDone
  <2>4. \A a \in Addrs : OpenDir(a)' => inode'[a].n = istore[inode'[a].ino].n
    <3>1. istore[RootIno].ino = RootIno
      BY <1>0 DEF NameInv, StoreInv, Live
    <3>2. \A a \in Addrs : OpenDir(a)' => a = RootAddr
      BY <2>1 DEF OpenDir, ZeroInode
    <3> QED
      BY <2>1, <3>1, <3>2
  <2> QED
    BY <2>1, <2>3, <2>4, ChildKeep
<1>4. ~Crash
  BY <1>0 DEF Quiet, Crash, TypeInv, TypeOK
<1> QED
  BY <1>1, <1>2, <1>3, <1>4 DEF Environment

(* ChildInv is inductive. *)
LEMMA ChildStep ==
  ASSUME Quiet
  PROVE  QuietInv /\ QuietInv' /\ CountInv /\ ChildInv /\ [Next]_vars => ChildInv'
<1> SUFFICES ASSUME QuietInv, QuietInv', CountInv, ChildInv, [Next]_vars PROVE ChildInv'
  OBVIOUS
<1>1. CASE UNCHANGED vars
  <2>1. UNCHANGED <<dirent, istore, inode, dentry, pc, arg>>
    BY <1>1 DEF vars, fs
  <2>2. \A u \in Tasks : TaskKids(u)'
    BY <2>1 DEF ChildInv, TaskKids, Kids, Listed, ObjIno
  <2>3. \A a : OpenDir(a)' = OpenDir(a)
    BY <2>1 DEF OpenDir, HasDentry
  <2> QED
    BY <2>1, <2>2, <2>3, ChildKeep
<1>2. ASSUME NEW t \in Tasks, Call(t) PROVE ChildInv'
  <2>1. CASE UNCHANGED dirent
    BY <1>2, <2>1, ChildMove
  <2>2. CASE \E d \in Addrs, x \in Names : UnlinkCall(t, d, x)
    BY <2>2, ChildUnlink
  <2> QED
    BY <1>2, <2>1, <2>2 DEF Call, CreateCall, LookupCall, WriteCall, fs
<1>3. CASE Next
  BY <1>2, <1>3, CountNext, ChildMove, ChildNew, ChildCount, ChildBind, ChildAddName, ChildSave,
     ChildAdd, ChildDel, ChildEnvironment DEF CalmStep
<1> QED
  BY <1>1, <1>3

(* The root directory that mkfs makes counts its one name. *)
LEMMA ChildInit == Init => ChildInv
<1> SUFFICES ASSUME Init PROVE ChildInv
  OBVIOUS
<1>1. /\ \A t \in Tasks : pc[t] = "idle"
      /\ inode[RootAddr] = istore[RootIno]
      /\ \A a \in Addrs : a # RootAddr => inode[a] = ZeroInode
      /\ istore = MkfsInodeStore /\ dirent = MkfsDirents
  BY FSAssumption DEF Init
<1>2. RootIno \in Inos /\ WelcomeIno \in Inos /\ RootIno # WelcomeIno
  BY LayoutAssumption DEF Inos, RootIno, WelcomeIno
<1>3. /\ istore[RootIno] = [mode |-> "dir", ino |-> RootIno, blk |-> RootBlk, n |-> 1]
      /\ istore[WelcomeIno] = [mode |-> "reg", ino |-> WelcomeIno, blk |-> WelcomeBlk, n |-> 1]
      /\ \A k \in Inos : k # RootIno /\ k # WelcomeIno => istore[k] = ZeroInode
  BY <1>1, <1>2 DEF MkfsInodeStore
<1>4. Kids(RootBlk) = 1
  <2>1. RootBlk \in Blocks /\ Welcome \in Names /\ WelcomeIno # 0
    BY LayoutAssumption DEF Blocks, RootBlk, WelcomeBlk, WelcomeIno
  <2>2. Listed(RootBlk) = {Welcome}
    BY <1>1, <2>1 DEF Listed, MkfsDirents
  <2> QED
    BY <2>2, FS_Singleton DEF Kids
<1>5. \A k \in Inos : DirKids(k)
  BY <1>3, <1>4 DEF DirKids, DirAt, ZeroInode
<1>6. \A a \in Addrs : OpenKids(a)
  BY <1>1, <1>3 DEF OpenKids, OpenDir, ZeroInode
<1>7. \A t \in Tasks : TaskKids(t)
  BY <1>1 DEF TaskKids, UnsavedPcs, FreshPcs, AddPcs, AddedPcs, NamedPcs
<1> QED
  BY <1>5, <1>6, <1>7 DEF ChildInv

(* dir_children_count of a directory in which nobody works is the number of
   its names, and that is what the inode store on disk says: for any number of
   tasks, names and directories. *)
THEOREM ChildrenCountRight ==
  ASSUME Quiet
  PROVE  Spec => []ChildrenCounted
<1>1. QuietInv /\ DiskInv /\ ChildInv => ChildrenCounted
  <2> SUFFICES ASSUME QuietInv, DiskInv, ChildInv, NEW d \in Addrs, OpenDir(d), ~DirBusy(d)
               PROVE  /\ inode[d].n = Kids(inode[d].blk)
                      /\ istoreDisk[inode[d].ino].n = inode[d].n
    BY DEF ChildrenCounted, Kids, Listed
  <2>1. inode[d].n = Kids(inode[d].blk) /\ inode[d].n = istore[inode[d].ino].n
    BY KidsOpen DEF DirBusy
  <2>2. Live(inode[d].ino)
    BY OpenLive DEF QuietInv, BaseInv
  <2>3. istoreDisk[inode[d].ino] = istore[inode[d].ino]
    BY <2>2, OpenSettled DEF DiskInv, Live
  <2> QED
    BY <2>1, <2>3
<1>2. QuietInv /\ [Next]_vars => QuietInv'
  BY QuietStep
<1>3. QuietInv /\ CountInv /\ [Next]_vars => CountInv'
  BY CountStep
<1>4. QuietInv /\ DiskInv /\ [Next]_vars => DiskInv'
  BY DiskStep
<1>5. QuietInv /\ QuietInv' /\ CountInv /\ ChildInv /\ [Next]_vars => ChildInv'
  BY ChildStep
<1> QED
  BY <1>1, <1>2, <1>3, <1>4, <1>5, QuietInit, CountInit, ChildInit, PTL DEF Spec
=============================================================================
