--------------------------- MODULE SimpleFSProofs ---------------------------
(***************************************************************************)
(* What SimpleFS guarantees for any number of tasks, names, blocks and     *)
(* inodes, with interrupted lock waits and any number of power cuts.       *)
(***************************************************************************)
EXTENDS SimpleFS, TLAPS

(***************************************************************************)
(* Type correctness is not inductive by itself: a step reads the objects   *)
(* its task was given, so the program counters say which ones it has.      *)
(***************************************************************************)
DirPcs == CreatePcs \cup UnlinkPcs \cup LookupPcs

ObjPcs == (CreatePcs \ {"c_lock", "c_count_lock", "c_count", "c_new"}) \cup UnlinkPcs \cup WritePcs

ArgsOK ==
  \A t \in Tasks :
    /\ pc[t] \in DirPcs => arg[t].dir \in Addrs
    /\ pc[t] \in ObjPcs => arg[t].obj \in Addrs
    /\ pc[t] \in LookupPcs => arg[t].ino \in Inos

TypeInv == TypeOK /\ ArgsOK

-----------------------------------------------------------------------------
(* The values the model starts from and resets to have their types. *)
LEMMA LayoutTypes ==
  /\ ZeroInode \in Inode
  /\ NoArg \in Args
  /\ MkfsInodeStore \in [Inos -> Inode]
  /\ MkfsDirents \in [Blocks -> [Names -> 0 .. ImapBits]]
  /\ MkfsInodesCount \in 0 .. (Word - 1)
  /\ MkfsFreeBlocks \subseteq Blocks
  /\ RootIno \in Inos
  /\ NoDentries \in [Addrs -> [Names -> Addrs \cup {None}]]
<1>1. ZeroInode \in Inode
  BY LayoutAssumption DEF ZeroInode, Inode, Modes, Blocks, WelcomeBlk
<1>2. NoArg \in Args
  BY LayoutAssumption DEF NoArg, Args, Modes
<1>3. MkfsInodeStore \in [Inos -> Inode]
  BY <1>1, LayoutAssumption
  DEF MkfsInodeStore, Inos, Inode, Modes, Blocks, RootIno, RootBlk, WelcomeIno, WelcomeBlk
<1>4. MkfsDirents \in [Blocks -> [Names -> 0 .. ImapBits]]
  BY LayoutAssumption DEF MkfsDirents, WelcomeIno
<1>5. MkfsInodesCount \in 0 .. (Word - 1) /\ RootIno \in Inos
  BY LayoutAssumption DEF MkfsInodesCount, RootIno, Inos, WelcomeBlk, WelcomeIno
<1>6. MkfsFreeBlocks \subseteq Blocks
  BY DEF MkfsFreeBlocks
<1>7. NoDentries \in [Addrs -> [Names -> Addrs \cup {None}]]
  BY DEF NoDentries
<1> QED
  BY <1>1, <1>2, <1>3, <1>4, <1>5, <1>6, <1>7

(* fill_imap sets bits of the word only. *)
LEMMA FillImapType ==
  ASSUME NEW store \in [Inos -> Inode]
  PROVE  FillImap(store) \subseteq 0 .. ImapBits
BY LayoutAssumption DEF FillImap, Inode

(* The counters stay in their word. *)
LEMMA CounterTypes ==
  ASSUME NEW n \in 0 .. (Word - 1)
  PROVE  Inc(n) \in 0 .. (Word - 1) /\ Dec(n) \in 0 .. (Word - 1)
BY LayoutAssumption DEF Inc, Dec

(* A change of one directory entry leaves directory blocks. *)
LEMMA DirentType ==
  ASSUME dirent \in [Blocks -> [Names -> 0 .. ImapBits]],
         NEW b \in Blocks, NEW x \in Names, NEW i \in 0 .. ImapBits
  PROVE  [dirent EXCEPT ![b][x] = i] \in [Blocks -> [Names -> 0 .. ImapBits]]
OBVIOUS

(* A change of one dentry leaves dentries. *)
LEMMA DentryType ==
  ASSUME dentry \in [Addrs -> [Names -> Addrs \cup {None}]],
         NEW d \in Addrs, NEW x \in Names, NEW o \in Addrs \cup {None}
  PROVE  [dentry EXCEPT ![d][x] = o] \in [Addrs -> [Names -> Addrs \cup {None}]]
OBVIOUS

(* A write to the inode store leaves an inode store. *)
LEMMA PutType ==
  ASSUME NEW store \in [Inos -> Inode], NEW i, NEW rec \in Inode
  PROVE  Put(store, i, rec) \in [Inos -> Inode]
BY DEF Put

(* So does simplefs_inode_save. *)
LEMMA SaveType ==
  ASSUME NEW rec \in Inode, istore \in [Inos -> Inode], istoreDisk \in [Inos -> Inode],
         Save(rec)
  PROVE  istore' \in [Inos -> Inode] /\ istoreDisk' \in [Inos -> Inode]
BY PutType DEF Save, SyncStore

-----------------------------------------------------------------------------
(* The image mkfs makes is well typed. *)
LEMMA TypeInit == Init => TypeInv
<1> SUFFICES ASSUME Init PROVE TypeInv
  OBVIOUS
<1>1. TypeOK
  BY LayoutTypes, FillImapType, FSAssumption DEF Init, TypeOK, Pcs
<1>2. ArgsOK
  BY DEF Init, ArgsOK, DirPcs, ObjPcs, CreatePcs, UnlinkPcs, LookupPcs, WritePcs
<1> QED
  BY <1>1, <1>2 DEF TypeInv

(* Taking a lock moves a task on between points where it has the same objects. *)
LEMMA TypeTake ==
  ASSUME TypeInv, NEW t \in Tasks, NEW from, NEW l \in Locks, NEW to \in Pcs,
         Take(t, from, l, to),
         to \in DirPcs => from \in DirPcs,
         to \in ObjPcs => from \in ObjPcs,
         to \in LookupPcs => from \in LookupPcs
  PROVE  TypeInv'
<1>1. TypeOK'
  BY DEF TypeInv, TypeOK, Take, Lock, Goto, fs
<1>2. ArgsOK'
  BY DEF TypeInv, TypeOK, ArgsOK, Take, Lock, Goto, fs
<1> QED
  BY <1>1, <1>2 DEF TypeInv

(* So does a step that only moves a task on. *)
LEMMA TypeGoto ==
  ASSUME TypeInv, NEW t \in Tasks, NEW to \in Pcs, Goto(t, to),
         UNCHANGED <<fs, inode, dentry, lock, arg, crashes>>,
         to \in DirPcs => pc[t] \in DirPcs,
         to \in ObjPcs => pc[t] \in ObjPcs,
         to \in LookupPcs => pc[t] \in LookupPcs
  PROVE  TypeInv'
BY DEF TypeInv, TypeOK, ArgsOK, Goto, fs

(* A task that returns needs nothing. *)
LEMMA TypeFinish ==
  ASSUME TypeInv, NEW t \in Tasks, Finish(t)
  PROVE  pc' \in [Tasks -> Pcs] /\ arg' \in [Tasks -> Args] /\ ArgsOK'
<1>1. pc' \in [Tasks -> Pcs] /\ arg' \in [Tasks -> Args]
  BY LayoutTypes DEF TypeInv, TypeOK, Finish, Goto, Pcs
<1>2. ArgsOK'
  BY DEF TypeInv, TypeOK, ArgsOK, Finish, Goto, DirPcs, ObjPcs, CreatePcs, UnlinkPcs,
         LookupPcs, WritePcs
<1> QED
  BY <1>1, <1>2

(* Dropping locks and objects keeps the types. *)
LEMMA ReleaseTypes ==
  ASSUME TypeInv, NEW ls, NEW t, NEW o
  PROVE  /\ Unlocked(ls) \in [Locks -> Tasks \cup {None}]
         /\ Forget(t, o) \in [Addrs -> Inode]
BY LayoutTypes DEF TypeInv, TypeOK, Unlocked, Forget

(* An early return. *)
LEMMA TypeFail ==
  ASSUME TypeInv, NEW t \in Tasks, NEW ls, Fail(t, ls)
  PROVE  TypeInv'
<1>1. Finish(t) /\ lock' = Unlocked(ls) /\ inode' = Forget(t, arg[t].obj)
      /\ UNCHANGED <<fs, dentry, crashes>>
  BY DEF Fail
<1> QED
  BY <1>1, TypeFinish, ReleaseTypes DEF TypeInv, TypeOK, fs

(* Mounting a well typed inode store. *)
LEMMA TypeMount ==
  ASSUME TypeInv, NEW store \in [Inos -> Inode], Mount(store),
         lock' \in [Locks -> Tasks \cup {None}], crashes' \in 0 .. MaxCrashes
  PROVE  TypeInv'
<1>1. TypeOK'
  BY LayoutTypes, FillImapType DEF TypeInv, TypeOK, Mount, Pcs
<1>2. ArgsOK'
  BY DEF Mount, ArgsOK, DirPcs, ObjPcs, CreatePcs, UnlinkPcs, LookupPcs, WritePcs
<1> QED
  BY <1>1, <1>2 DEF TypeInv
-----------------------------------------------------------------------------
(* The steps of a system call that only take a lock. *)
TakeStep(t) ==
  \/ CreateLock(t) \/ CountLock(t) \/ BlockLock(t) \/ AddLock(t) \/ AddSbLock(t)
  \/ ParentSaveLock(t) \/ UnlinkSaveLock(t) \/ DelLock(t) \/ DelSbLock(t)
  \/ WriteSaveLock(t) \/ GetInodeLock(t)

(* The steps that give up. *)
FailStep(t) ==
  \/ CreateLockIntr(t) \/ CountLockIntr(t) \/ NewInodeFails(t) \/ BlockLockIntr(t)
  \/ NoFreeBlock(t) \/ CountChildIntr(t) \/ ParentSaveIntr(t) \/ WriteSizeIntr(t)
  \/ WriteSaveIntr(t) \/ GetInodeIntr(t)

(* The steps that go on although a lock was not taken. *)
GoOnStep(t) == AddIntr(t) \/ UnlinkSaveIntr(t) \/ DelIntr(t)

(* Lock by lock, the point reached needs no object that was not there. *)
LEMMA TypeTakeStep ==
  ASSUME TypeInv, NEW t \in Tasks, TakeStep(t)
  PROVE  TypeInv'
<1> USE DEF Locks, Pcs, DirPcs, ObjPcs, CreatePcs, UnlinkPcs, WritePcs, LookupPcs
<1>1. CASE CreateLock(t)
  BY <1>1, TypeTake DEF CreateLock
<1>2. CASE CountLock(t)
  BY <1>2, TypeTake DEF CountLock
<1>3. CASE BlockLock(t)
  BY <1>3, TypeTake DEF BlockLock
<1>4. CASE AddLock(t)
  BY <1>4, TypeTake DEF AddLock
<1>5. CASE AddSbLock(t)
  BY <1>5, TypeTake DEF AddSbLock
<1>6. CASE ParentSaveLock(t)
  BY <1>6, TypeTake DEF ParentSaveLock
<1>7. CASE UnlinkSaveLock(t)
  BY <1>7, TypeTake DEF UnlinkSaveLock
<1>8. CASE DelLock(t)
  BY <1>8, TypeTake DEF DelLock
<1>9. CASE DelSbLock(t)
  BY <1>9, TypeTake DEF DelSbLock
<1>10. CASE WriteSaveLock(t)
  BY <1>10, TypeTake DEF WriteSaveLock
<1>11. CASE GetInodeLock(t)
  BY <1>11, TypeTake DEF GetInodeLock
<1> QED
  BY <1>1, <1>2, <1>3, <1>4, <1>5, <1>6, <1>7, <1>8, <1>9, <1>10, <1>11 DEF TakeStep

(* Every error path is an early return. *)
LEMMA TypeFailStep ==
  ASSUME TypeInv, NEW t \in Tasks, FailStep(t)
  PROVE  TypeInv'
BY TypeFail DEF FailStep, CreateLockIntr, CountLockIntr, NewInodeFails, BlockLockIntr, NoFreeBlock, CountChildIntr, ParentSaveIntr, WriteSizeIntr, WriteSaveIntr, GetInodeIntr

(* An ignored interrupt leaves the locals as they are. *)
LEMMA TypeGoOnStep ==
  ASSUME TypeInv, NEW t \in Tasks, GoOnStep(t)
  PROVE  TypeInv'
<1> USE DEF Pcs, DirPcs, ObjPcs, CreatePcs, UnlinkPcs, WritePcs, LookupPcs
<1>1. CASE AddIntr(t)
  BY <1>1, TypeGoto DEF AddIntr, Interrupted
<1>2. CASE UnlinkSaveIntr(t)
  BY <1>2, TypeGoto DEF UnlinkSaveIntr, Interrupted
<1>3. CASE DelIntr(t)
  BY <1>3, TypeGoto DEF DelIntr, Interrupted
<1> QED
  BY <1>1, <1>2, <1>3 DEF GoOnStep
(* A system call is entered with the objects it will use. *)
LEMMA TypeCall ==
  ASSUME TypeInv, NEW t \in Tasks, Call(t)
  PROVE  TypeInv'
<1>1. CASE \E d \in Addrs, x \in Names, m \in {"dir", "reg"} : CreateCall(t, d, x, m)
  <2>1. PICK d \in Addrs, x \in Names, m \in {"dir", "reg"} : CreateCall(t, d, x, m)
    BY <1>1
  <2>2. [NoArg EXCEPT !.dir = d, !.name = x, !.mode = m] \in Args
    BY LayoutTypes DEF Args, Modes
  <2>3. TypeOK'
    BY <2>1, <2>2 DEF TypeInv, TypeOK, CreateCall, Goto, fs, Pcs, CreatePcs
  <2>4. ArgsOK'
    BY <2>1, LayoutTypes DEF TypeInv, TypeOK, ArgsOK, Args, CreateCall, Goto, fs, DirPcs, ObjPcs, Pcs, CreatePcs, UnlinkPcs, WritePcs, LookupPcs
  <2> QED
    BY <2>3, <2>4 DEF TypeInv
<1>2. CASE \E d \in Addrs, x \in Names : UnlinkCall(t, d, x)
  <2>1. PICK d \in Addrs, x \in Names : UnlinkCall(t, d, x)
    BY <1>2
  <2>2. dentry[d][x] \in Addrs
    BY <2>1 DEF UnlinkCall
  <2>3. [NoArg EXCEPT !.dir = d, !.name = x, !.obj = dentry[d][x]] \in Args
    BY <2>2, LayoutTypes DEF Args
  <2>4. inode' \in [Addrs -> Inode]
    BY <2>1, CounterTypes DEF TypeInv, TypeOK, UnlinkCall, Inode
  <2>5. dirent' \in [Blocks -> [Names -> 0 .. ImapBits]]
    BY <2>1, DirentType, LayoutAssumption DEF TypeInv, TypeOK, UnlinkCall, Inode
  <2>6. TypeOK'
    BY <2>1, <2>3, <2>4, <2>5 DEF TypeInv, TypeOK, UnlinkCall, Goto, Pcs, UnlinkPcs
  <2>7. ArgsOK'
    BY <2>1, <2>2, LayoutTypes DEF TypeInv, TypeOK, ArgsOK, Args, UnlinkCall, Goto, DirPcs, ObjPcs, Pcs, CreatePcs, UnlinkPcs, WritePcs, LookupPcs
  <2> QED
    BY <2>6, <2>7 DEF TypeInv
<1>3. CASE \E d \in Addrs, x \in Names : LookupCall(t, d, x)
  <2>1. PICK d \in Addrs, x \in Names : LookupCall(t, d, x)
    BY <1>3
  <2> DEFINE i == dirent[inode[d].blk][x]
  <2>2. i \in Inos
    BY <2>1, LayoutAssumption DEF TypeInv, TypeOK, LookupCall, Inode, Inos
  <2>3. [NoArg EXCEPT !.dir = d, !.name = x, !.ino = i] \in Args
    <3> i \in 0 .. ImapBits
      BY <2>2, LayoutAssumption DEF Inos
    <3> HIDE DEF i
    <3> QED
      BY LayoutTypes DEF Args
  <2>4. TypeOK'
    BY <2>1, <2>3 DEF TypeInv, TypeOK, LookupCall, Goto, fs, Pcs, LookupPcs
  <2>5. ArgsOK'
    BY <2>1, <2>2, LayoutTypes DEF TypeInv, TypeOK, ArgsOK, Args, LookupCall, Goto, fs, DirPcs, ObjPcs, Pcs, CreatePcs, UnlinkPcs, WritePcs, LookupPcs
  <2> QED
    BY <2>4, <2>5 DEF TypeInv
<1>4. CASE \E o \in Addrs, s \in Sizes : WriteCall(t, o, s)
  <2>1. PICK o \in Addrs, s \in Sizes : WriteCall(t, o, s)
    BY <1>4
  <2>2. [NoArg EXCEPT !.obj = o, !.size = s] \in Args
    BY LayoutTypes, FSAssumption DEF Args
  <2>3. TypeOK'
    BY <2>1, <2>2 DEF TypeInv, TypeOK, WriteCall, Goto, fs, Pcs, WritePcs
  <2>4. ArgsOK'
    BY <2>1, LayoutTypes DEF TypeInv, TypeOK, ArgsOK, Args, WriteCall, Goto, fs, DirPcs, ObjPcs, Pcs, CreatePcs, UnlinkPcs, WritePcs, LookupPcs
  <2> QED
    BY <2>3, <2>4 DEF TypeInv
<1> QED
  BY <1>1, <1>2, <1>3, <1>4 DEF Call
(* The steps that do the work of a call: each keeps what it writes in type. *)
WorkStep(t) ==
  \/ Count(t) \/ NewInode(t) \/ GetFreeBlock(t) \/ InodeAdd(t) \/ AddName(t)
  \/ CountChild(t) \/ ParentSave(t) \/ UnlinkSave(t) \/ InodeDel(t) \/ UnlinkEnd(t)
  \/ WriteSize(t) \/ WriteSave(t) \/ GetInode(t)

(* A record read through a pointer the task has is an inode record. *)
LEMMA ObjType ==
  ASSUME TypeInv, NEW t \in Tasks
  PROVE  /\ pc[t] \in ObjPcs => arg[t].obj \in Addrs /\ inode[arg[t].obj] \in Inode
         /\ pc[t] \in DirPcs => arg[t].dir \in Addrs /\ inode[arg[t].dir] \in Inode
         /\ arg[t].name \in Names /\ arg[t].mode \in Modes /\ arg[t].size \in 0 .. (Word - 1)
         /\ pc[t] \in LookupPcs => istore[arg[t].ino] \in Inode
BY DEF TypeInv, TypeOK, ArgsOK, Args

(* The steps of create that change the file system keep the types. *)
LEMMA TypeCreate ==
  ASSUME TypeInv, NEW t \in Tasks,
         Count(t) \/ NewInode(t) \/ GetFreeBlock(t) \/ InodeAdd(t) \/ AddName(t) \/ CountChild(t)
  PROVE  TypeInv'
<1>1. CASE Count(t)
  <2>1. CASE inodes_count >= MaxObjects
    BY <1>1, <2>1, TypeFail DEF Count
  <2>2. CASE ~(inodes_count >= MaxObjects)
    <3>1. TypeOK'
      BY <1>1, <2>2, ReleaseTypes DEF Count, TypeInv, TypeOK, Goto, fs, Pcs, CreatePcs
    <3>2. ArgsOK'
      BY <1>1, <2>2 DEF Count, TypeInv, TypeOK, ArgsOK, Goto, fs, DirPcs, ObjPcs, Pcs, CreatePcs, UnlinkPcs, WritePcs, LookupPcs
    <3> QED
      BY <3>1, <3>2 DEF TypeInv
  <2> QED
    BY <2>1, <2>2
<1>2. CASE NewInode(t)
  <2>1. PICK o \in Addrs, i \in 0 .. ImapBits :
          /\ inode' = [inode EXCEPT ![o] = [mode |-> arg[t].mode, ino |-> i,
                                            blk |-> Leftover(o), n |-> 0]]
          /\ arg' = [arg EXCEPT ![t].obj = o]
    BY <1>2 DEF NewInode
  <2>a. Leftover(o) \in Blocks
    BY <2>1, LayoutAssumption DEF Leftover, TypeInv, TypeOK, Inode, Blocks, WelcomeBlk
  <2>2. [mode |-> arg[t].mode, ino |-> i, blk |-> Leftover(o), n |-> 0] \in Inode
    BY <2>a, ObjType, LayoutAssumption DEF Inode, WelcomeBlk
  <2>3. inode' \in [Addrs -> Inode]
    BY <2>1, <2>2 DEF TypeInv, TypeOK
  <2>4. arg' \in [Tasks -> Args]
    BY <2>1 DEF TypeInv, TypeOK, Args
  <2>5. TypeOK'
    BY <1>2, <2>3, <2>4 DEF TypeInv, TypeOK, NewInode, Goto, fs, Pcs, CreatePcs
  <2>6. ArgsOK'
    BY <1>2, <2>1 DEF NewInode, TypeInv, TypeOK, ArgsOK, Args, Goto, fs, DirPcs, ObjPcs, Pcs, CreatePcs, UnlinkPcs, WritePcs, LookupPcs
  <2> QED
    BY <2>5, <2>6 DEF TypeInv
<1>3. CASE GetFreeBlock(t)
  <2>1. PICK i \in Blocks : /\ free_blocks' = TakeBlock(free_blocks, i)
                            /\ inode' = [inode EXCEPT ![arg[t].obj].blk = i]
    BY <1>3 DEF GetFreeBlock
  <2>2. inode' \in [Addrs -> Inode]
    BY <2>1 DEF TypeInv, TypeOK, Inode
  <2>3. free_blocks' \subseteq Blocks
    BY <2>1 DEF TypeInv, TypeOK, TakeBlock
  <2>4. TypeOK'
    BY <1>3, <2>2, <2>3, ReleaseTypes DEF TypeInv, TypeOK, GetFreeBlock, Goto, Pcs, CreatePcs
  <2>5. ArgsOK'
    BY <1>3 DEF GetFreeBlock, TypeInv, TypeOK, ArgsOK, Goto, DirPcs, ObjPcs, Pcs, CreatePcs, UnlinkPcs, WritePcs, LookupPcs
  <2> QED
    BY <2>4, <2>5 DEF TypeInv
<1>4. CASE InodeAdd(t)
  <2> DEFINE rec == inode[arg[t].obj]
  <2>1. rec \in Inode
    BY <1>4, ObjType DEF InodeAdd, ObjPcs, CreatePcs
  <2>2. istore' \in [Inos -> Inode]
    BY <1>4, <2>1, PutType DEF InodeAdd, TypeInv, TypeOK
  <2>3. inodes_count' \in 0 .. (Word - 1)
    BY <1>4, CounterTypes DEF InodeAdd, TypeInv, TypeOK
  <2>4. imap' \subseteq 0 .. ImapBits
    BY <1>4, <2>1 DEF InodeAdd, TypeInv, TypeOK, Inode
  <2>5. TypeOK'
    BY <1>4, <2>2, <2>3, <2>4, ReleaseTypes DEF TypeInv, TypeOK, InodeAdd, Goto, Pcs, CreatePcs
  <2>6. ArgsOK'
    BY <1>4 DEF InodeAdd, TypeInv, TypeOK, ArgsOK, Goto, DirPcs, ObjPcs, Pcs, CreatePcs, UnlinkPcs, WritePcs, LookupPcs
  <2> QED
    BY <2>5, <2>6 DEF TypeInv
<1>5. CASE AddName(t)
  <2>1. inode[arg[t].dir] \in Inode /\ inode[arg[t].obj] \in Inode /\ arg[t].name \in Names
    BY <1>5, ObjType DEF AddName, ObjPcs, DirPcs, CreatePcs
  <2>2. dirent' \in [Blocks -> [Names -> 0 .. ImapBits]]
    BY <1>5, <2>1, DirentType DEF AddName, TypeInv, TypeOK, Inode
  <2>3. TypeOK'
    BY <1>5, <2>2 DEF TypeInv, TypeOK, AddName, Goto, Pcs, CreatePcs
  <2>4. ArgsOK'
    BY <1>5 DEF AddName, TypeInv, TypeOK, ArgsOK, Goto, DirPcs, ObjPcs, Pcs, CreatePcs, UnlinkPcs, WritePcs, LookupPcs
  <2> QED
    BY <2>3, <2>4 DEF TypeInv
<1>6. CASE CountChild(t)
  <2>1. inode' \in [Addrs -> Inode]
    BY <1>6, CounterTypes, ZenonT(40) DEF CountChild, TypeInv, TypeOK, Inode
  <2>2. TypeOK'
    BY <1>6, <2>1 DEF TypeInv, TypeOK, CountChild, Lock, Goto, fs, Pcs, CreatePcs
  <2>3. ArgsOK'
    BY <1>6 DEF CountChild, TypeInv, TypeOK, ArgsOK, Lock, Goto, fs, DirPcs, ObjPcs, Pcs, CreatePcs, UnlinkPcs, WritePcs, LookupPcs
  <2> QED
    BY <2>2, <2>3 DEF TypeInv
<1> QED
  BY <1>1, <1>2, <1>3, <1>4, <1>5, <1>6
(* So do the other steps: the saves, unlink, write and lookup. *)
LEMMA TypeWork ==
  ASSUME TypeInv, NEW t \in Tasks, WorkStep(t)
  PROVE  TypeInv'
<1>1. CASE ParentSave(t)
  <2> DEFINE parent == inode[arg[t].dir]
  <2>1. /\ parent \in Inode
        /\ arg[t].dir \in Addrs /\ arg[t].obj \in Addrs /\ arg[t].name \in Names
    BY <1>1, ObjType DEF ParentSave, DirPcs, ObjPcs, CreatePcs
  <2>2. istore' \in [Inos -> Inode] /\ istoreDisk' \in [Inos -> Inode]
    BY <1>1, <2>1, SaveType DEF ParentSave, TypeInv, TypeOK
  <2>3. inode' \in [Addrs -> Inode]
    BY <1>1, ReleaseTypes DEF ParentSave, TypeInv, TypeOK
  <2>4. dentry' \in [Addrs -> [Names -> Addrs \cup {None}]]
    <3>1. dentry' = dentry \/ dentry' = [dentry EXCEPT ![arg[t].dir][arg[t].name] = arg[t].obj]
      BY <1>1 DEF ParentSave
    <3>2. [dentry EXCEPT ![arg[t].dir][arg[t].name] = arg[t].obj]
            \in [Addrs -> [Names -> Addrs \cup {None}]]
      BY <2>1, DentryType DEF TypeInv, TypeOK
    <3> QED
      BY <3>1, <3>2 DEF TypeInv, TypeOK
  <2>5. Finish(t) /\ lock' = Unlocked({"sb", "mgmt", "children"})
        /\ UNCHANGED <<inodes_count, free_blocks, imap, dirent, crashes>>
    BY <1>1 DEF ParentSave
  <2> QED
    BY <2>2, <2>3, <2>4, <2>5, TypeFinish, ReleaseTypes DEF TypeInv, TypeOK
<1>2. CASE UnlinkSave(t)
  <2>1. inode[arg[t].dir] \in Inode
    BY <1>2, ObjType DEF UnlinkSave, DirPcs, UnlinkPcs
  <2>2. istore' \in [Inos -> Inode] /\ istoreDisk' \in [Inos -> Inode]
    BY <1>2, <2>1, SaveType DEF UnlinkSave, TypeInv, TypeOK
  <2>3. TypeOK'
    BY <1>2, <2>2, ReleaseTypes DEF TypeInv, TypeOK, UnlinkSave, Goto, Pcs, UnlinkPcs
  <2>4. ArgsOK'
    BY <1>2 DEF UnlinkSave, TypeInv, TypeOK, ArgsOK, Goto, DirPcs, ObjPcs, Pcs, CreatePcs, UnlinkPcs, WritePcs, LookupPcs
  <2> QED
    BY <2>3, <2>4 DEF TypeInv
<1>3. CASE InodeDel(t)
  <2>1. istore' \in [Inos -> Inode]
    BY <1>3, LayoutTypes, PutType DEF InodeDel, TypeInv, TypeOK
  <2>2. inodes_count' \in 0 .. (Word - 1) /\ imap' \subseteq 0 .. ImapBits
    BY <1>3, CounterTypes DEF InodeDel, TypeInv, TypeOK
  <2>3. TypeOK'
    BY <1>3, <2>1, <2>2, ReleaseTypes DEF TypeInv, TypeOK, InodeDel, Goto, Pcs, UnlinkPcs
  <2>4. ArgsOK'
    BY <1>3 DEF InodeDel, TypeInv, TypeOK, ArgsOK, Goto, DirPcs, ObjPcs, Pcs, CreatePcs, UnlinkPcs, WritePcs, LookupPcs
  <2> QED
    BY <2>3, <2>4 DEF TypeInv
<1>4. CASE UnlinkEnd(t)
  <2>1. inode' \in [Addrs -> Inode]
    <3>1. \/ inode' = [inode EXCEPT ![arg[t].obj] = ZeroInode]
          \/ \E m \in Modes : inode' = [inode EXCEPT ![arg[t].obj].mode = m]
      BY <1>4 DEF UnlinkEnd
    <3>2. CASE inode' = [inode EXCEPT ![arg[t].obj] = ZeroInode]
      BY <3>2, LayoutTypes DEF TypeInv, TypeOK
    <3>3. CASE \E m \in Modes : inode' = [inode EXCEPT ![arg[t].obj].mode = m]
      <4>1. PICK m \in Modes : inode' = [inode EXCEPT ![arg[t].obj].mode = m]
        BY <3>3
      <4> QED
        BY <4>1 DEF TypeInv, TypeOK, Inode
    <3> QED
      BY <3>1, <3>2, <3>3
  <2>2. dentry' \in [Addrs -> [Names -> Addrs \cup {None}]]
    BY <1>4 DEF UnlinkEnd, TypeInv, TypeOK
  <2>3. Finish(t) /\ UNCHANGED <<fs, lock, crashes>>
    BY <1>4 DEF UnlinkEnd
  <2> QED
    BY <2>1, <2>2, <2>3, TypeFinish DEF TypeInv, TypeOK, fs
<1>5. CASE WriteSize(t)
  <2>1. inode' \in [Addrs -> Inode]
    <3>1. inode' = [inode EXCEPT ![arg[t].obj].n = arg[t].size] /\ arg[t].size \in 0 .. (Word - 1)
      BY <1>5, ObjType DEF WriteSize
    <3> QED
      BY <3>1 DEF TypeInv, TypeOK, Inode
  <2>2. TypeOK'
    BY <1>5, <2>1 DEF TypeInv, TypeOK, WriteSize, Lock, Goto, fs, Pcs, WritePcs
  <2>3. ArgsOK'
    BY <1>5 DEF WriteSize, TypeInv, TypeOK, ArgsOK, Lock, Goto, fs, DirPcs, ObjPcs, Pcs, CreatePcs, UnlinkPcs, WritePcs, LookupPcs
  <2> QED
    BY <2>2, <2>3 DEF TypeInv
<1>6. CASE WriteSave(t)
  <2>1. inode[arg[t].obj] \in Inode
    BY <1>6, ObjType DEF WriteSave, ObjPcs, WritePcs
  <2>2. istore' \in [Inos -> Inode] /\ istoreDisk' \in [Inos -> Inode]
    BY <1>6, <2>1, SaveType DEF WriteSave, TypeInv, TypeOK
  <2>3. Finish(t) /\ lock' = Unlocked({"sb", "mgmt"}) /\ inode' = Forget(t, arg[t].obj)
        /\ UNCHANGED <<inodes_count, free_blocks, imap, dirent, dentry, crashes>>
    BY <1>6 DEF WriteSave
  <2> QED
    BY <2>2, <2>3, TypeFinish, ReleaseTypes DEF TypeInv, TypeOK
<1>7. CASE GetInode(t)
  <2>1. PICK o \in Addrs : /\ inode' = [inode EXCEPT ![o] = istore[arg[t].ino]]
                           /\ dentry' = [dentry EXCEPT ![arg[t].dir][arg[t].name] = o]
    BY <1>7 DEF GetInode
  <2>2. inode' \in [Addrs -> Inode]
    BY <1>7, <2>1, ObjType DEF GetInode, TypeInv, TypeOK, LookupPcs
  <2>3. dentry' \in [Addrs -> [Names -> Addrs \cup {None}]]
    BY <2>1, ObjType DEF TypeInv, TypeOK
  <2>4. Finish(t) /\ lock' = Unlocked({"mgmt"}) /\ UNCHANGED <<fs, crashes>>
    BY <1>7 DEF GetInode
  <2> QED
    BY <2>2, <2>3, <2>4, TypeFinish, ReleaseTypes DEF TypeInv, TypeOK, fs
<1> QED
  BY <1>1, <1>2, <1>3, <1>4, <1>5, <1>6, <1>7, TypeCreate DEF WorkStep

(* Writeback, the shrinker, umount and a power cut keep the types. *)
LEMMA TypeEnvironment ==
  ASSUME TypeInv, Environment
  PROVE  TypeInv'
<1>1. CASE \E d \in Addrs, x \in Names : Shrink(d, x)
  <2>1. PICK d \in Addrs, x \in Names : Shrink(d, x)
    BY <1>1
  <2>2. inode' \in [Addrs -> Inode] /\ dentry' \in [Addrs -> [Names -> Addrs \cup {None}]]
    BY <2>1, LayoutTypes DEF Shrink, TypeInv, TypeOK
  <2> QED
    BY <2>1, <2>2 DEF Shrink, TypeInv, TypeOK, ArgsOK, fs
<1>2. CASE Writeback
  BY <1>2 DEF Writeback, TypeInv, TypeOK, ArgsOK
<1>3. CASE Remount
  BY <1>3, TypeMount DEF Remount, TypeInv, TypeOK
<1>4. CASE Crash
  <2>1. crashes' \in 0 .. MaxCrashes
    BY <1>4, FSAssumption DEF Crash, TypeInv, TypeOK
  <2> QED
    BY <1>4, <2>1, TypeMount DEF Crash, TypeInv, TypeOK
<1> QED
  BY <1>1, <1>2, <1>3, <1>4 DEF Environment

(* The kinds of step a task takes. *)
LEMMA NextKinds ==
  ASSUME Next
  PROVE  \/ \E t \in Tasks : Call(t) \/ TakeStep(t) \/ FailStep(t) \/ GoOnStep(t) \/ WorkStep(t)
         \/ Environment
BY DEF Next, Step, Signal, TakeStep, FailStep, GoOnStep, WorkStep

(* TypeInv is inductive. *)
LEMMA TypeStep == TypeInv /\ [Next]_vars => TypeInv'
<1>1. ASSUME TypeInv, Next PROVE TypeInv'
  BY <1>1, NextKinds, TypeCall, TypeTakeStep, TypeFailStep, TypeGoOnStep, TypeWork,
     TypeEnvironment
<1>2. ASSUME TypeInv, UNCHANGED vars PROVE TypeInv'
  BY <1>2 DEF TypeInv, TypeOK, ArgsOK, vars, fs
<1> QED
  BY <1>1, <1>2

(* Every variable of the model of simple.c keeps its type: no interleaving,
   interrupt or power cut drives a counter, an inode number or a block number
   out of its range, or makes a step use an object it was not given. *)
THEOREM TypeCorrect == Spec => []TypeOK
<1>1. TypeInv => TypeOK
  BY DEF TypeInv
<1> QED
  BY <1>1, TypeInit, TypeStep, PTL DEF Spec
-----------------------------------------------------------------------------
(***************************************************************************)
(* Data blocks.  UniqueBlocks needs to know why the block handed out is    *)
(* nobody's: by HeldTaken, a block in any record there is, is one the free *)
(* map no longer offers.  Nothing puts a bit back, so that stays true of   *)
(* records that turn up again after a crash or a late save.                *)
(***************************************************************************)
BlockInv == UniqueBlocks /\ HeldTaken

(* Every task with an object is working in a directory: none is writing. *)
NoWriter == \A t \in Tasks : arg[t].dir = None => arg[t].obj = None

(* r says nothing about blocks that a record there is does not say. *)
Known(r) == r.blk = 0 \/ \E s \in Records : s.ino = r.ino /\ s.blk = r.blk

(* What there is, is known. *)
LEMMA KnownRecords ==
  /\ Known(ZeroInode)
  /\ \A k \in Inos : Known(istore[k]) /\ Known(istoreDisk[k])
  /\ \A a \in Addrs : Known(inode[a])
BY DEF Known, Records, ZeroInode

(* A step after which every record was known before, and which frees no
   block. *)
KnownStep ==
  /\ \A k \in Inos : Known(istore'[k]) /\ Known(istoreDisk'[k])
  /\ \A a \in Addrs : Known(inode'[a])
  /\ free_blocks' \subseteq free_blocks

(* A step that leaves all records alone. *)
LEMMA BlocksSame ==
  ASSUME UNCHANGED <<istore, istoreDisk, inode, free_blocks>>
  PROVE  KnownStep
BY KnownRecords DEF KnownStep

(* simplefs_inode_save copies a record that exists. *)
LEMMA SaveKnown ==
  ASSUME NEW rec, Known(rec), Save(rec), TypeInv
  PROVE  \A k \in Inos : Known(istore'[k]) /\ Known(istoreDisk'[k])
<1>1. CASE UNCHANGED <<istore, istoreDisk>>
  BY <1>1, KnownRecords
<1>2. CASE \E k \in Inos : istore' = Put(istore, k, rec) /\ istoreDisk' = istore'
  BY <1>2, KnownRecords DEF Put
<1> QED
  BY <1>1, <1>2 DEF Save, SyncStore

(* Dropping an object invents no record. *)
LEMMA ForgetKnown ==
  ASSUME NEW t, NEW o, inode' = Forget(t, o)
  PROVE  \A a \in Addrs : Known(inode'[a])
BY KnownRecords DEF Forget

(* Such a step keeps the blocks of all records out of the free map. *)
LEMMA KnownHeld ==
  ASSUME TypeInv', HeldTaken, KnownStep
  PROVE  HeldTaken'
<1> SUFFICES ASSUME NEW r \in Records', r.blk >= FirstBlk
             PROVE  ~FreeAt(free_blocks', r.blk)
  BY DEF HeldTaken
<1>1. Known(r)
  BY DEF Records, KnownStep
<1>2. PICK p \in Records : p.ino = r.ino /\ p.blk = r.blk
  BY <1>1 DEF Known, FirstBlk
<1>3. ~FreeAt(free_blocks, r.blk)
  BY <1>2 DEF HeldTaken
<1> QED
  BY <1>3 DEF FreeAt, KnownStep

(* It keeps the blocks apart. *)
LEMMA KnownUnique ==
  ASSUME UniqueBlocks, KnownStep
  PROVE  UniqueBlocks'
<1> SUFFICES ASSUME NEW r \in Records', NEW s \in Records', r.blk # 0, r.blk = s.blk
             PROVE  r.ino = s.ino
  BY DEF UniqueBlocks
<1>1. Known(r) /\ Known(s)
  BY DEF Records, KnownStep
<1>2. PICK p \in Records : p.ino = r.ino /\ p.blk = r.blk
  BY <1>1 DEF Known
<1>3. PICK q \in Records : q.ino = s.ino /\ q.blk = s.blk
  BY <1>1 DEF Known
<1> QED
  BY <1>2, <1>3 DEF UniqueBlocks

(* simplefs_sb_get_a_freeblock hands out a block that no record has. *)
LEMMA FreshBlock ==
  ASSUME TypeInv, TypeInv', HeldTaken, NEW t \in Tasks, GetFreeBlock(t)
  PROVE  HeldTaken' /\ (UniqueBlocks => UniqueBlocks')
<1>1. PICK i \in Blocks :
        /\ FirstFree(free_blocks, i)
        /\ free_blocks' = TakeBlock(free_blocks, i)
        /\ inode' = [inode EXCEPT ![arg[t].obj].blk = i]
  BY DEF GetFreeBlock
<1>2. i >= FirstBlk /\ FreeAt(free_blocks, i)
  BY <1>1, LayoutAssumption DEF FirstFree, FirstBlk
<1>3. arg[t].obj \in Addrs
  BY ObjType DEF GetFreeBlock, ObjPcs, CreatePcs
<1> DEFINE new == inode'[arg[t].obj]
<1>4. \A r \in Records' : r \in Records \/ r = new
  BY <1>1, <1>3 DEF Records, GetFreeBlock, TypeInv, TypeOK
<1>5. new.blk = i
  BY <1>1, <1>3 DEF TypeInv, TypeOK, Inode
<1>6. \A r \in Records : r.blk # i
  BY <1>2 DEF HeldTaken
<1>7. ASSUME UniqueBlocks PROVE UniqueBlocks'
  <2> SUFFICES ASSUME NEW r \in Records', NEW s \in Records', r.blk # 0, r.blk = s.blk
               PROVE  r.ino = s.ino
    BY DEF UniqueBlocks
  <2> HIDE DEF new
  <2> QED
    BY <1>4, <1>5, <1>6, <1>7 DEF UniqueBlocks
<1>8. HeldTaken'
  <2> SUFFICES ASSUME NEW r \in Records', r.blk >= FirstBlk
               PROVE  ~FreeAt(free_blocks', r.blk)
    BY DEF HeldTaken
  <2>1. CASE r \in Records
    BY <1>1, <2>1 DEF HeldTaken, FreeAt, TakeBlock
  <2>2. CASE r = new
    BY <1>1, <1>5, <2>2 DEF FreeAt, TakeBlock
  <2> QED
    BY <1>4, <2>1, <2>2
<1> QED
  BY <1>7, <1>8

(* A recycled object shows a block that its old record had, or none; without
   writes, none. *)
LEMMA RecycledBlock ==
  ASSUME TypeInv, TypeInv', HeldTaken, NEW t \in Tasks, NewInode(t)
  PROVE  HeldTaken' /\ (NoWriter => KnownStep)
<1>1. PICK o \in Addrs, i \in 0 .. ImapBits :
        /\ Allocatable(o)
        /\ inode' = [inode EXCEPT ![o] = [mode |-> arg[t].mode, ino |-> i,
                                          blk |-> Leftover(o), n |-> 0]]
  BY DEF NewInode
<1>2. UNCHANGED <<istore, istoreDisk, free_blocks>>
  BY DEF NewInode, fs
<1>3. inode'[o].blk = Leftover(o) /\ \A a \in Addrs : a # o => inode'[a] = inode[a]
  BY <1>1 DEF TypeInv, TypeOK
<1>4. \A r \in Records' : r \in Records \/ r = inode'[o]
  BY <1>2, <1>3 DEF Records
<1>5. Leftover(o) = inode[o].blk \/ Leftover(o) = 0
  BY DEF Leftover
<1>6. HeldTaken'
  <2> SUFFICES ASSUME NEW r \in Records', r.blk >= FirstBlk
               PROVE  ~FreeAt(free_blocks', r.blk)
    BY DEF HeldTaken
  <2>1. \E s \in Records : s.blk = r.blk
    <3>1. CASE r = inode'[o]
      <4>1. inode[o] \in Records
        BY DEF Records
      <4>2. r.blk = inode[o].blk
        BY <1>3, <1>5, <3>1 DEF FirstBlk
      <4> QED
        BY <4>1, <4>2
    <3> QED
      BY <1>4, <3>1
  <2> QED
    BY <1>2, <2>1 DEF HeldTaken
<1>7. ASSUME NoWriter PROVE KnownStep
  <2>1. \A u \in Tasks : arg[u].obj # o
    BY <1>1, <1>7, FSAssumption DEF NoWriter, Allocatable
  <2>2. inode'[o].blk = 0
    BY <1>3, <2>1 DEF Leftover
  <2>3. \A a \in Addrs : Known(inode'[a])
    BY <1>3, <2>2, KnownRecords DEF Known
  <2> QED
    BY <1>2, <2>3, KnownRecords DEF KnownStep
<1> QED
  BY <1>6, <1>7

(* No other step of a call makes a record with a block of its own. *)
LEMMA BlockWork ==
  ASSUME TypeInv, NEW t \in Tasks, WorkStep(t)
  PROVE  KnownStep \/ GetFreeBlock(t) \/ NewInode(t)
<1>1. CASE Count(t)
  <2>1. CASE inodes_count >= MaxObjects
    BY <1>1, <2>1, KnownRecords, ForgetKnown DEF KnownStep, Count, Fail, fs
  <2>2. CASE ~(inodes_count >= MaxObjects)
    BY <1>1, <2>2, BlocksSame DEF Count, fs
  <2> QED
    BY <2>1, <2>2
<1>2. CASE InodeAdd(t)
  <2>1. \A k \in Inos : Known(istore'[k])
    BY <1>2, KnownRecords, ObjType DEF InodeAdd, Put, ObjPcs, CreatePcs
  <2> QED
    BY <1>2, <2>1, KnownRecords DEF KnownStep, InodeAdd
<1>3. CASE AddName(t)
  BY <1>3, BlocksSame DEF AddName
<1>4. CASE CountChild(t)
  <2>1. \A a \in Addrs : inode'[a].blk = inode[a].blk /\ inode'[a].ino = inode[a].ino
    BY <1>4 DEF CountChild, TypeInv, TypeOK, Inode
  <2>2. \A a \in Addrs : Known(inode'[a])
    BY <2>1, KnownRecords DEF Known
  <2> QED
    BY <1>4, <2>2, KnownRecords DEF KnownStep, CountChild, fs
<1>5. CASE ParentSave(t)
  <2>1. Known(inode[arg[t].dir])
    BY <1>5, ObjType, KnownRecords DEF ParentSave, DirPcs, CreatePcs
  <2>2. \A a \in Addrs : Known(inode'[a])
    BY <1>5, ForgetKnown, KnownRecords DEF ParentSave
  <2> QED
    BY <1>5, <2>1, <2>2, SaveKnown DEF KnownStep, ParentSave
<1>6. CASE UnlinkSave(t)
  <2>1. Known(inode[arg[t].dir])
    BY <1>6, ObjType, KnownRecords DEF UnlinkSave, DirPcs, UnlinkPcs
  <2> QED
    BY <1>6, <2>1, SaveKnown, KnownRecords DEF KnownStep, UnlinkSave
<1>7. CASE InodeDel(t)
  <2>1. \A k \in Inos : Known(istore'[k])
    BY <1>7, KnownRecords DEF InodeDel, Put
  <2> QED
    BY <1>7, <2>1, KnownRecords DEF KnownStep, InodeDel
<1>8. CASE UnlinkEnd(t)
  <2>1. \/ inode' = [inode EXCEPT ![arg[t].obj] = ZeroInode]
        \/ \E m \in Modes : inode' = [inode EXCEPT ![arg[t].obj].mode = m]
    BY <1>8 DEF UnlinkEnd
  <2>2. \A a \in Addrs :
          \/ inode'[a] = ZeroInode
          \/ inode'[a].blk = inode[a].blk /\ inode'[a].ino = inode[a].ino
    <3>1. CASE inode' = [inode EXCEPT ![arg[t].obj] = ZeroInode]
      BY <3>1 DEF TypeInv, TypeOK
    <3>2. ASSUME NEW m \in Modes, inode' = [inode EXCEPT ![arg[t].obj].mode = m]
          PROVE  \A a \in Addrs : inode'[a].blk = inode[a].blk /\ inode'[a].ino = inode[a].ino
      BY <3>2 DEF TypeInv, TypeOK, Inode
    <3> QED
      BY <2>1, <3>1, <3>2
  <2>3. \A a \in Addrs : Known(inode'[a])
    BY <2>2, KnownRecords DEF Known
  <2> QED
    BY <1>8, <2>3, KnownRecords DEF KnownStep, UnlinkEnd, fs
<1>9. CASE WriteSize(t)
  <2>1. \A a \in Addrs : inode'[a].blk = inode[a].blk /\ inode'[a].ino = inode[a].ino
    BY <1>9 DEF WriteSize, TypeInv, TypeOK, Inode
  <2>2. \A a \in Addrs : Known(inode'[a])
    BY <2>1, KnownRecords DEF Known
  <2> QED
    BY <1>9, <2>2, KnownRecords DEF KnownStep, WriteSize, fs
<1>10. CASE WriteSave(t)
  <2>1. Known(inode[arg[t].obj])
    BY <1>10, ObjType, KnownRecords DEF WriteSave, ObjPcs, WritePcs
  <2>2. \A a \in Addrs : Known(inode'[a])
    BY <1>10, ForgetKnown DEF WriteSave
  <2> QED
    BY <1>10, <2>1, <2>2, SaveKnown DEF KnownStep, WriteSave
<1>11. CASE GetInode(t)
  <2>1. arg[t].ino \in Inos
    BY <1>11 DEF GetInode, TypeInv, ArgsOK, LookupPcs
  <2>2. \A a \in Addrs : inode'[a] = inode[a] \/ inode'[a] = istore[arg[t].ino]
    BY <1>11 DEF GetInode, TypeInv, TypeOK
  <2>3. \A a \in Addrs : Known(inode'[a])
    BY <2>1, <2>2, KnownRecords
  <2> QED
    BY <1>11, <2>3, KnownRecords DEF KnownStep, GetInode, fs
<1> QED
  BY <1>1, <1>2, <1>3, <1>4, <1>5, <1>6, <1>7, <1>8, <1>9, <1>10, <1>11 DEF WorkStep

(* Neither do calls, lock steps, error paths and what happens outside. *)
LEMMA BlockKinds ==
  ASSUME TypeInv, [Next]_vars
  PROVE  KnownStep \/ \E t \in Tasks : GetFreeBlock(t) \/ NewInode(t)
<1>1. ASSUME NEW t \in Tasks, Call(t) PROVE KnownStep
  <2>1. CASE UNCHANGED <<istore, istoreDisk, inode, free_blocks>>
    BY <2>1, BlocksSame
  <2>2. CASE \E d \in Addrs, x \in Names : UnlinkCall(t, d, x)
    <3>1. PICK d \in Addrs, x \in Names : UnlinkCall(t, d, x)
      BY <2>2
    <3>2. \A a \in Addrs : inode'[a].blk = inode[a].blk /\ inode'[a].ino = inode[a].ino
      BY <3>1 DEF UnlinkCall, TypeInv, TypeOK, Inode
    <3>3. \A a \in Addrs : Known(inode'[a])
      BY <3>2, KnownRecords DEF Known
    <3> QED
      BY <3>1, <3>3, KnownRecords DEF KnownStep, UnlinkCall
  <2> QED
    BY <1>1, <2>1, <2>2 DEF Call, CreateCall, LookupCall, WriteCall, fs
<1>2. ASSUME NEW t \in Tasks, TakeStep(t) PROVE KnownStep
  BY <1>2, BlocksSame
  DEF TakeStep, Take, fs, CreateLock, CountLock, BlockLock, AddLock, AddSbLock, ParentSaveLock,
      UnlinkSaveLock, DelLock, DelSbLock, WriteSaveLock, GetInodeLock
<1>3. ASSUME NEW t \in Tasks, FailStep(t) PROVE KnownStep
  <2>1. PICK ls : Fail(t, ls)
    BY <1>3 DEF FailStep, CreateLockIntr, CountLockIntr, NewInodeFails, BlockLockIntr,
                NoFreeBlock, CountChildIntr, ParentSaveIntr, WriteSizeIntr, WriteSaveIntr,
                GetInodeIntr
  <2> QED
    BY <2>1, KnownRecords, ForgetKnown DEF KnownStep, Fail, fs
<1>4. ASSUME NEW t \in Tasks, GoOnStep(t) PROVE KnownStep
  BY <1>4, BlocksSame DEF GoOnStep, AddIntr, UnlinkSaveIntr, DelIntr, fs
<1>5. ASSUME NEW t \in Tasks, WorkStep(t) PROVE KnownStep \/ GetFreeBlock(t) \/ NewInode(t)
  BY <1>5, BlockWork
<1>6. ASSUME Environment PROVE KnownStep
  <2>1. ASSUME NEW d \in Addrs, NEW x \in Names, Shrink(d, x) PROVE KnownStep
    <3>1. \A a \in Addrs : inode'[a] = inode[a] \/ inode'[a] = ZeroInode
      BY <2>1 DEF Shrink, TypeInv, TypeOK
    <3> QED
      BY <2>1, <3>1, KnownRecords DEF KnownStep, Shrink, fs
  <2>2. CASE Writeback
    BY <2>2, KnownRecords DEF KnownStep, Writeback
  <2>3. ASSUME NEW store, Mount(store), store = istore \/ store = istoreDisk PROVE KnownStep
    <3>1. \A k \in Inos : Known(store[k])
      BY <2>3, KnownRecords
    <3>2. \A a \in Addrs : Known(inode'[a])
      BY <2>3, <3>1, KnownRecords, LayoutTypes DEF Mount
    <3> QED
      BY <2>3, <3>1, <3>2 DEF KnownStep, Mount
  <2> QED
    BY <1>6, <2>1, <2>2, <2>3 DEF Environment, Remount, Crash
<1>7. CASE UNCHANGED vars
  BY <1>7, BlocksSame DEF vars, fs
<1> QED
  BY <1>1, <1>2, <1>3, <1>4, <1>5, <1>6, <1>7, NextKinds

(* HeldTaken is inductive. *)
LEMMA HeldStep == TypeInv /\ TypeInv' /\ HeldTaken /\ [Next]_vars => HeldTaken'
BY BlockKinds, KnownHeld, FreshBlock, RecycledBlock

(* So is UniqueBlocks with it, where nothing is written. *)
LEMMA BlockStep ==
  TypeInv /\ TypeInv' /\ NoWriter /\ BlockInv /\ [Next]_vars => BlockInv'
BY BlockKinds, HeldStep, KnownUnique, FreshBlock, RecycledBlock DEF BlockInv

(* Without write calls there is no writer. *)
LEMMA NoWriterStep ==
  ASSUME "write" \notin Ops
  PROVE  TypeInv /\ NoWriter /\ [Next]_vars => NoWriter'
<1> SUFFICES ASSUME TypeInv, NoWriter, [Next]_vars PROVE NoWriter'
  OBVIOUS
<1>0. arg \in [Tasks -> Args] /\ NoArg.obj = None
  BY DEF TypeInv, TypeOK, NoArg
<1>1. ASSUME NEW t \in Tasks, Call(t) PROVE NoWriter'
  <2>1. CASE \E d \in Addrs, x \in Names : UnlinkCall(t, d, x)
    BY <1>0, <2>1, FSAssumption DEF UnlinkCall, NoWriter, NoArg
  <2>2. CASE \E d \in Addrs, x \in Names : LookupCall(t, d, x)
    BY <1>0, <2>2 DEF LookupCall, NoWriter, NoArg
  <2>3. CASE \E d \in Addrs, x \in Names, m \in {"dir", "reg"} : CreateCall(t, d, x, m)
    BY <1>0, <2>3 DEF CreateCall, NoWriter, NoArg
  <2> QED
    BY <1>1, <2>1, <2>2, <2>3 DEF Call, WriteCall
<1>2. ASSUME NEW t \in Tasks, Finish(t) PROVE NoWriter'
  BY <1>0, <1>2 DEF Finish, NoWriter
<1>3. ASSUME UNCHANGED arg PROVE NoWriter'
  BY <1>3 DEF NoWriter
<1>4. ASSUME NEW t \in Tasks, NewInode(t) PROVE NoWriter'
  <2>1. arg[t].dir \in Addrs
    BY <1>4, ObjType DEF NewInode, DirPcs, CreatePcs
  <2>2. PICK o \in Addrs : arg' = [arg EXCEPT ![t].obj = o]
    BY <1>4 DEF NewInode
  <2> QED
    BY <1>0, <2>1, <2>2, FSAssumption DEF NoWriter, Args
<1>5. ASSUME NEW t \in Tasks, TakeStep(t) \/ FailStep(t) \/ GoOnStep(t) PROVE NoWriter'
  <2>1. UNCHANGED arg \/ Finish(t)
    BY <1>5
    DEF TakeStep, Take, CreateLock, CountLock, BlockLock, AddLock, AddSbLock, ParentSaveLock,
        UnlinkSaveLock, DelLock, DelSbLock, WriteSaveLock, GetInodeLock,
        FailStep, Fail, CreateLockIntr, CountLockIntr, NewInodeFails, BlockLockIntr,
        NoFreeBlock, CountChildIntr, ParentSaveIntr, WriteSizeIntr, WriteSaveIntr, GetInodeIntr,
        GoOnStep, AddIntr, UnlinkSaveIntr, DelIntr
  <2> QED
    BY <1>2, <1>3, <2>1
<1>6. ASSUME NEW t \in Tasks, WorkStep(t) PROVE NoWriter'
  <2>1. UNCHANGED arg \/ Finish(t) \/ NewInode(t)
    BY <1>6
    DEF WorkStep, Count, Fail, GetFreeBlock, InodeAdd, AddName, CountChild, ParentSave,
        UnlinkSave, InodeDel, UnlinkEnd, WriteSize, WriteSave, GetInode
  <2> QED
    BY <1>2, <1>3, <1>4, <2>1
<1>7. ASSUME Environment PROVE NoWriter'
  <2>1. UNCHANGED arg \/ arg' = [t \in Tasks |-> NoArg]
    BY <1>7 DEF Environment, Shrink, Writeback, Remount, Crash, Mount
  <2> QED
    BY <1>0, <1>3, <2>1 DEF NoWriter
<1> QED
  BY <1>1, <1>3, <1>5, <1>6, <1>7, NextKinds DEF vars

(* The image mkfs makes gives its two inodes a block each. *)
LEMMA BlockInit == Init => BlockInv
<1> SUFFICES ASSUME Init PROVE BlockInv
  OBVIOUS
<1> DEFINE root == [mode |-> "dir", ino |-> RootIno, blk |-> RootBlk, n |-> 1]
           file == [mode |-> "reg", ino |-> WelcomeIno, blk |-> WelcomeBlk, n |-> 1]
<1>1. \A k \in Inos : MkfsInodeStore[k] = root \/ MkfsInodeStore[k] = file \/ MkfsInodeStore[k] = ZeroInode
  BY DEF MkfsInodeStore
<1>2. \A r \in Records : r = root \/ r = file \/ r = ZeroInode
  BY <1>1, LayoutTypes DEF Records, Init
<1>3. UniqueBlocks
  BY <1>2 DEF UniqueBlocks, ZeroInode, RootIno, RootBlk, WelcomeIno, WelcomeBlk
<1>4. HeldTaken
  BY <1>2 DEF HeldTaken, FreeAt, Init, MkfsFreeBlocks, FirstBlk, ZeroInode, RootBlk, WelcomeBlk
<1> QED
  BY <1>3, <1>4 DEF BlockInv

(* simplefs_sb_get_a_freeblock never hands out a block that any copy of any
   inode record names: for any bit maps and shift semantics, any interleaving
   of tasks, interrupted lock waits, writes to freed inodes and power cuts. *)
THEOREM BlocksHeld == Spec => []HeldTaken
<1>1. Init => HeldTaken
  BY BlockInit DEF BlockInv
<1> QED
  BY <1>1, TypeInit, TypeStep, HeldStep, PTL DEF Spec

(* Where nothing is written, no data block ever has two inode numbers, in any
   copy of their records: for any bit maps and shift semantics, any
   interleaving of tasks, interrupted lock waits and power cuts. *)
THEOREM BlocksUnique ==
  ASSUME "write" \notin Ops
  PROVE  Spec => []UniqueBlocks
<1>1. Init => NoWriter
  BY DEF Init, NoWriter, NoArg
<1>2. BlockInv => UniqueBlocks
  BY DEF BlockInv
<1> QED
  BY <1>1, <1>2, TypeInit, TypeStep, NoWriterStep, BlockInit, BlockStep, PTL DEF Spec
-----------------------------------------------------------------------------
(***************************************************************************)
(* Locks.  The children lock and the mgmt lock are released by their       *)
(* holders only, so they exclude even when lock waits are interrupted.     *)
(* Of the sb lock that is false, and of the mgmt lock it is false that it  *)
(* is always given back.                                                   *)
(***************************************************************************)
LockInv == ChildrenLockSound /\ MgmtLockGuards

(* One task moves from one point to another and takes or drops locks. *)
LEMMA LockMove ==
  ASSUME TypeInv, LockInv, NEW t \in Tasks, NEW to \in Pcs, Goto(t, to),
         lock' \in [Locks -> Tasks \cup {None}],
         \/ lock'["children"] = lock["children"] /\ (to \in ChildrenPcs <=> pc[t] \in ChildrenPcs)
         \/ lock["children"] = None /\ lock'["children"] = t /\ to \in ChildrenPcs
         \/ pc[t] \in ChildrenPcs /\ lock'["children"] = None /\ to \notin ChildrenPcs,
         \/ lock'["mgmt"] = lock["mgmt"] /\ (to \in MgmtPcs => pc[t] \in MgmtPcs)
         \/ lock["mgmt"] = None /\ lock'["mgmt"] = t
         \/ pc[t] \in MgmtPcs /\ lock'["mgmt"] = None /\ to \notin MgmtPcs
  PROVE  LockInv'
<1>1. Guarded("children", ChildrenPcs)' /\ Returned("children", ChildrenPcs)'
  BY FSAssumption DEF LockInv, ChildrenLockSound, Guarded, Returned, Goto, TypeInv, TypeOK, Locks
<1>2. Guarded("mgmt", MgmtPcs)'
  BY FSAssumption DEF LockInv, MgmtLockGuards, Guarded, Goto, TypeInv, TypeOK, Locks
<1> QED
  BY <1>1, <1>2 DEF LockInv, ChildrenLockSound, MgmtLockGuards, Guarded, Returned

(* An early return drops the locks of the point it returns from. *)
LEMMA LockFail ==
  ASSUME TypeInv, LockInv, NEW t \in Tasks, NEW ls, Fail(t, ls),
         "children" \in ls <=> pc[t] \in ChildrenPcs,
         "mgmt" \in ls => pc[t] \in MgmtPcs
  PROVE  LockInv'
<1>1. Goto(t, "idle") /\ lock' = Unlocked(ls)
  BY DEF Fail, Finish
<1>2. lock' \in [Locks -> Tasks \cup {None}]
  BY <1>1, ReleaseTypes
<1>3. /\ lock'["children"] = IF "children" \in ls THEN None ELSE lock["children"]
      /\ lock'["mgmt"] = IF "mgmt" \in ls THEN None ELSE lock["mgmt"]
  BY <1>1 DEF Unlocked, Locks
<1>4. "idle" \in Pcs /\ "idle" \notin ChildrenPcs /\ "idle" \notin MgmtPcs
  BY DEF Pcs, ChildrenPcs, CreatePcs, MgmtPcs
<1> QED
  BY <1>1, <1>2, <1>3, <1>4, LockMove

(* Every error path of the code drops what it should, of these two locks. *)
LEMMA LockFailStep ==
  ASSUME TypeInv, LockInv, NEW t \in Tasks, FailStep(t)
  PROVE  LockInv'
<1> USE DEF Interrupted, ChildrenPcs, MgmtPcs, CreatePcs
<1>1. CASE CreateLockIntr(t)
  BY <1>1, LockFail DEF CreateLockIntr
<1>2. CASE CountLockIntr(t)
  BY <1>2, LockFail DEF CountLockIntr
<1>3. CASE NewInodeFails(t)
  BY <1>3, LockFail DEF NewInodeFails
<1>4. CASE BlockLockIntr(t)
  BY <1>4, LockFail DEF BlockLockIntr
<1>5. CASE NoFreeBlock(t)
  BY <1>5, LockFail DEF NoFreeBlock
<1>6. CASE CountChildIntr(t)
  BY <1>6, LockFail DEF CountChildIntr
<1>7. CASE ParentSaveIntr(t)
  BY <1>7, LockFail DEF ParentSaveIntr
<1>8. CASE WriteSizeIntr(t)
  BY <1>8, LockFail DEF WriteSizeIntr
<1>9. CASE WriteSaveIntr(t)
  BY <1>9, LockFail DEF WriteSaveIntr
<1>10. CASE GetInodeIntr(t)
  BY <1>10, LockFail DEF GetInodeIntr
<1> QED
  BY <1>1, <1>2, <1>3, <1>4, <1>5, <1>6, <1>7, <1>8, <1>9, <1>10 DEF FailStep

(* Taking a lock leads into its section. *)
LEMMA LockTakeStep ==
  ASSUME TypeInv, TypeInv', LockInv, NEW t \in Tasks, TakeStep(t)
  PROVE  LockInv'
<1> USE DEF Pcs, Locks, ChildrenPcs, MgmtPcs, CreatePcs, UnlinkPcs, WritePcs, LookupPcs
<1>0. /\ lock' \in [Locks -> Tasks \cup {None}]
      /\ lock \in [Locks -> Tasks \cup {None}]
  BY DEF TypeInv, TypeOK
<1>1. CASE CreateLock(t)
  BY <1>0, <1>1, LockMove DEF CreateLock, Take, Lock
<1>2. CASE CountLock(t)
  BY <1>0, <1>2, LockMove DEF CountLock, Take, Lock
<1>3. CASE BlockLock(t)
  BY <1>0, <1>3, LockMove DEF BlockLock, Take, Lock
<1>4. CASE AddLock(t)
  BY <1>0, <1>4, LockMove DEF AddLock, Take, Lock
<1>5. CASE AddSbLock(t)
  BY <1>0, <1>5, LockMove DEF AddSbLock, Take, Lock
<1>6. CASE ParentSaveLock(t)
  BY <1>0, <1>6, LockMove DEF ParentSaveLock, Take, Lock
<1>7. CASE UnlinkSaveLock(t)
  BY <1>0, <1>7, LockMove DEF UnlinkSaveLock, Take, Lock
<1>8. CASE DelLock(t)
  BY <1>0, <1>8, LockMove DEF DelLock, Take, Lock
<1>9. CASE DelSbLock(t)
  BY <1>0, <1>9, LockMove DEF DelSbLock, Take, Lock
<1>10. CASE WriteSaveLock(t)
  BY <1>0, <1>10, LockMove DEF WriteSaveLock, Take, Lock
<1>11. CASE GetInodeLock(t)
  BY <1>0, <1>11, LockMove DEF GetInodeLock, Take, Lock
<1> QED
  BY <1>1, <1>2, <1>3, <1>4, <1>5, <1>6, <1>7, <1>8, <1>9, <1>10, <1>11 DEF TakeStep
(* The steps that do the work drop the locks they hold, as they leave. *)
LEMMA LockWork ==
  ASSUME TypeInv, TypeInv', LockInv, NEW t \in Tasks, WorkStep(t)
  PROVE  LockInv'
<1> USE DEF Pcs, Locks, ChildrenPcs, MgmtPcs, CreatePcs, UnlinkPcs, WritePcs, LookupPcs
<1>0. /\ lock' \in [Locks -> Tasks \cup {None}]
      /\ lock \in [Locks -> Tasks \cup {None}]
  BY DEF TypeInv, TypeOK
<1>1. CASE Count(t)
  BY <1>0, <1>1, LockMove DEF Count, Fail, Finish, Unlocked
<1>2. CASE NewInode(t)
  BY <1>0, <1>2, LockMove DEF NewInode
<1>3. CASE GetFreeBlock(t)
  BY <1>0, <1>3, LockMove DEF GetFreeBlock, Unlocked
<1>4. CASE InodeAdd(t)
  BY <1>0, <1>4, LockMove DEF InodeAdd, Unlocked
<1>5. CASE AddName(t)
  BY <1>0, <1>5, LockMove DEF AddName
<1>6. CASE CountChild(t)
  BY <1>0, <1>6, LockMove DEF CountChild, Lock
<1>7. CASE ParentSave(t)
  BY <1>0, <1>7, LockMove DEF ParentSave, Finish, Unlocked
<1>8. CASE UnlinkSave(t)
  BY <1>0, <1>8, LockMove DEF UnlinkSave, Unlocked
<1>9. CASE InodeDel(t)
  BY <1>0, <1>9, LockMove DEF InodeDel, Unlocked
<1>10. CASE UnlinkEnd(t)
  BY <1>0, <1>10, LockMove DEF UnlinkEnd, Finish
<1>11. CASE WriteSize(t)
  BY <1>0, <1>11, LockMove DEF WriteSize, Lock
<1>12. CASE WriteSave(t)
  BY <1>0, <1>12, LockMove DEF WriteSave, Finish, Unlocked
<1>13. CASE GetInode(t)
  BY <1>0, <1>13, LockMove DEF GetInode, Finish, Unlocked
<1> QED
  BY <1>1, <1>2, <1>3, <1>4, <1>5, <1>6, <1>7, <1>8, <1>9, <1>10, <1>11, <1>12, <1>13
  DEF WorkStep

(* Calls, ignored interrupts and outside events move no task across the edge
   of a section with its lock; a power cut ends all sections at once. *)
LEMMA LockStep == TypeInv /\ TypeInv' /\ LockInv /\ [Next]_vars => LockInv'
<1> SUFFICES ASSUME TypeInv, TypeInv', LockInv, [Next]_vars PROVE LockInv'
  OBVIOUS
<1> USE DEF Pcs, Locks, ChildrenPcs, MgmtPcs, CreatePcs, UnlinkPcs, WritePcs, LookupPcs
<1>0. lock' \in [Locks -> Tasks \cup {None}]
  BY DEF TypeInv, TypeOK
<1>1. ASSUME NEW t \in Tasks, Call(t) PROVE LockInv'
  <2>1. pc[t] = "idle" /\ UNCHANGED lock
    BY <1>1 DEF Call, CreateCall, UnlinkCall, LookupCall, WriteCall
  <2>2. \E to \in {"c_lock", "u_save_lock", "l_lock", "w_size"} : Goto(t, to)
    BY <1>1 DEF Call, CreateCall, UnlinkCall, LookupCall, WriteCall
  <2> QED
    BY <1>0, <2>1, <2>2, LockMove
<1>2. ASSUME NEW t \in Tasks, GoOnStep(t) PROVE LockInv'
  BY <1>0, <1>2, LockMove DEF GoOnStep, AddIntr, UnlinkSaveIntr, DelIntr, Interrupted
<1>3. ASSUME UNCHANGED <<lock, pc>> PROVE LockInv'
  BY <1>3 DEF LockInv, ChildrenLockSound, MgmtLockGuards, Guarded, Returned
<1>4. ASSUME Environment PROVE LockInv'
  <2>1. CASE Remount
    BY <2>1 DEF Remount, Mount, LockInv, ChildrenLockSound, MgmtLockGuards, Guarded, Returned
  <2>2. CASE Crash
    BY <2>2, FSAssumption DEF Crash, Mount, LockInv, ChildrenLockSound, MgmtLockGuards, Guarded, Returned
  <2> QED
    BY <1>3, <1>4, <2>1, <2>2 DEF Environment, Shrink, Writeback
<1>5. ASSUME NEW t \in Tasks, TakeStep(t) \/ FailStep(t) \/ WorkStep(t) PROVE LockInv'
  BY <1>5, LockTakeStep, LockFailStep, LockWork
<1> QED
  BY <1>1, <1>2, <1>3, <1>4, <1>5, NextKinds DEF vars

(* The children lock is held by the task inside create and by no other, and
   is given back on each of its error paths; so creates, and with them the
   reads of imap and free_blocks, never overlap, whatever is interrupted. *)
THEOREM ChildrenLock == Spec => []ChildrenLockSound
<1>1. Init => LockInv
  BY FSAssumption
  DEF Init, LockInv, ChildrenLockSound, MgmtLockGuards, Guarded, Returned, ChildrenPcs, MgmtPcs,
      CreatePcs, Locks
<1>2. LockInv => ChildrenLockSound
  BY DEF LockInv
<1> QED
  BY <1>1, <1>2, TypeInit, TypeStep, LockStep, PTL DEF Spec

(* Whoever is in a critical section of simplefs_inodes_mgmt_lock holds it:
   the error path that leaks it never lets a second task in. *)
THEOREM MgmtLock == Spec => []MgmtLockGuards
<1>1. Init => LockInv
  BY FSAssumption
  DEF Init, LockInv, ChildrenLockSound, MgmtLockGuards, Guarded, Returned, ChildrenPcs, MgmtPcs,
      CreatePcs, Locks
<1>2. LockInv => MgmtLockGuards
  BY DEF LockInv
<1> QED
  BY <1>1, <1>2, TypeInit, TypeStep, LockStep, PTL DEF Spec
=============================================================================
