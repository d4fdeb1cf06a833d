------------------------- MODULE SimpleFSRoomProofs -------------------------
(***************************************************************************)
(* Why simplefs never asks for a bit of a full inode map, although nothing *)
(* in simplefs_create_fs_object tests for it: a new inode number is used   *)
(* only after a data block was found for it, data blocks are never given   *)
(* back, and there are fewer of them than bits.                            *)
(***************************************************************************)
EXTENDS SimpleFSProofs, FiniteSetTheorems

(* The blocks that simplefs_sb_get_a_freeblock can still find. *)
Freeable(free) == {i \in FirstBlk .. (MaxObjects - 1) : FreeAt(free, i)}

(***************************************************************************)
(* The hypothesis about the build: mkfs leaves fewer blocks to be found    *)
(* than bits besides the three it uses (bit 0, the root, the welcome       *)
(* file).  It holds on a 64 bit kernel, where imap has a bit for each      *)
(* block (WideMap below), and with 32 bits where a shift by 32 or more     *)
(* gives zero, so that only the blocks 4 to 31 are ever found.             *)
(***************************************************************************)
BitsSuffice == 3 + Cardinality(Freeable(MkfsFreeBlocks)) < ImapBits

(* Between simplefs_sb_get_a_freeblock and simplefs_inode_add. *)
AddPcs == {"a_mgmt", "a_sb", "a_add"}

(* A slot of the inode store is empty or holds its own inode number. *)
SlotsOwn(store) == \A k \in Inos : store[k].ino \in {0, k}

(* The inodes in a store, extra ones to come, and the blocks still to be found
   are together no more than what mkfs left. *)
Room(store, extra) ==
  Cardinality(FillImap(store)) + extra + Cardinality(Freeable(free_blocks))
    <= 3 + Cardinality(Freeable(MkfsFreeBlocks))

(***************************************************************************)
(* The count must hold of the disk too, which a power cut brings back, and *)
(* it allows for the one inode whose block is already taken.               *)
(***************************************************************************)
RoomInv ==
  /\ SlotsOwn(istore) /\ SlotsOwn(istoreDisk)
  /\ imap \subseteq FillImap(istore)
  /\ Room(istore, 0) /\ Room(istoreDisk, 0)
  /\ \A t \in Tasks : pc[t] \in AddPcs => Room(istore, 1)

-----------------------------------------------------------------------------
(* The sets that are counted are finite. *)
LEMMA FreeableFinite ==
  ASSUME NEW free
  PROVE  IsFiniteSet(Freeable(free)) /\ Cardinality(Freeable(free)) \in Nat
<1>1. IsFiniteSet(FirstBlk .. (MaxObjects - 1))
  BY FS_Interval, LayoutAssumption DEF FirstBlk
<1>2. Freeable(free) \in SUBSET (FirstBlk .. (MaxObjects - 1))
  BY DEF Freeable
<1>3. IsFiniteSet(Freeable(free))
  BY <1>1, <1>2, FS_Subset
<1> QED
  BY <1>3, FS_CardinalityType

(* So is the set of the bits that fill_imap sets. *)
LEMMA FillImapFinite ==
  ASSUME NEW store \in [Inos -> Inode]
  PROVE  IsFiniteSet(FillImap(store)) /\ Cardinality(FillImap(store)) \in Nat
<1>1. IsFiniteSet(0 .. ImapBits)
  BY FS_Interval, LayoutAssumption
<1>2. FillImap(store) \in SUBSET (0 .. ImapBits)
  BY FillImapType
<1>3. IsFiniteSet(FillImap(store))
  BY <1>1, <1>2, FS_Subset
<1> QED
  BY <1>3, FS_CardinalityType

(* A smaller store leaves more room. *)
LEMMA RoomSmaller ==
  ASSUME NEW s \in [Inos -> Inode], NEW u \in [Inos -> Inode], FillImap(u) \subseteq FillImap(s),
         NEW f, NEW k \in {0, 1},
         Cardinality(FillImap(s)) + k + Cardinality(Freeable(f))
           <= 3 + Cardinality(Freeable(MkfsFreeBlocks))
  PROVE  Cardinality(FillImap(u)) + k + Cardinality(Freeable(f))
           <= 3 + Cardinality(Freeable(MkfsFreeBlocks))
<1>1. Cardinality(FillImap(u)) <= Cardinality(FillImap(s))
  BY FillImapFinite, FS_Subset
<1>2. /\ Cardinality(FillImap(u)) \in Nat /\ Cardinality(FillImap(s)) \in Nat
      /\ Cardinality(Freeable(f)) \in Nat
      /\ Cardinality(Freeable(MkfsFreeBlocks)) \in Nat
  BY FillImapFinite, FreeableFinite
<1> QED
  BY <1>1, <1>2

(* A step that adds no inode to the stores and takes no block, and after which
   a task adds an inode only if one was about to. *)
LEMMA RoomKeep ==
  ASSUME TypeInv, TypeInv', RoomInv, SlotsOwn(istore'), SlotsOwn(istoreDisk'),
         imap' \subseteq FillImap(istore'),
         FillImap(istore') \subseteq FillImap(istore) \/ (FillImap(istore') \subseteq FillImap(istoreDisk)
                                                           /\ \A t \in Tasks : pc'[t] \notin AddPcs),
         \/ FillImap(istoreDisk') \subseteq FillImap(istore)
         \/ FillImap(istoreDisk') \subseteq FillImap(istoreDisk),
         UNCHANGED free_blocks,
         \A t \in Tasks : pc'[t] \in AddPcs => pc[t] \in AddPcs
  PROVE  RoomInv'
<1>0. /\ istore \in [Inos -> Inode] /\ istore' \in [Inos -> Inode]
      /\ istoreDisk \in [Inos -> Inode] /\ istoreDisk' \in [Inos -> Inode]
  BY DEF TypeInv, TypeOK
<1>1. Room(istore, 0)'
  BY <1>0, RoomSmaller DEF RoomInv, Room
<1>2. Room(istoreDisk, 0)'
  BY <1>0, RoomSmaller DEF RoomInv, Room
<1>3. ASSUME NEW t \in Tasks, pc'[t] \in AddPcs PROVE Room(istore, 1)'
  BY <1>0, <1>3, RoomSmaller DEF RoomInv, Room
<1> QED
  BY <1>1, <1>2, <1>3 DEF RoomInv, SlotsOwn

(* The same when the stores and the map are left alone. *)
LEMMA RoomSame ==
  ASSUME TypeInv, TypeInv', RoomInv, UNCHANGED <<istore, istoreDisk, imap, free_blocks>>,
         \A t \in Tasks : pc'[t] \in AddPcs => pc[t] \in AddPcs
  PROVE  RoomInv'
BY RoomKeep DEF RoomInv

(* simplefs_inode_save changes no inode number. *)
LEMMA RoomSave ==
  ASSUME TypeInv, TypeInv', RoomInv, NEW rec \in Inode, Save(rec), UNCHANGED <<imap, free_blocks>>,
         \A t \in Tasks : pc'[t] \in AddPcs => pc[t] \in AddPcs
  PROVE  RoomInv'
<1>1. CASE UNCHANGED <<istore, istoreDisk>>
  BY <1>1, RoomSame
<1>2. ASSUME NEW k \in Inos, FoundAt(istore, rec.ino, k), istore' = Put(istore, k, rec),
             istoreDisk' = istore'
      PROVE  RoomInv'
  <2>1. \A j \in Inos : istore'[j].ino = istore[j].ino
    BY <1>2 DEF Put, FoundAt
  <2>2. SlotsOwn(istore')
    BY <2>1 DEF RoomInv, SlotsOwn
  <2>3. FillImap(istore') = FillImap(istore)
    BY <2>1 DEF FillImap
  <2> QED
    BY <1>2, <2>2, <2>3, RoomKeep DEF RoomInv
<1> QED
  BY <1>1, <1>2 DEF Save, SyncStore

(* Of the tasks in create, only one is past its first lock. *)
LEMMA OneCreator ==
  ASSUME LockInv, NEW t \in Tasks, NEW u \in Tasks,
         pc[t] \in ChildrenPcs, pc[u] \in ChildrenPcs
  PROVE  t = u
BY DEF LockInv, ChildrenLockSound, Guarded

(* simplefs_sb_get_a_freeblock takes a block for the inode to come. *)
LEMMA RoomTake ==
  ASSUME TypeInv, TypeInv', RoomInv, NEW t \in Tasks, GetFreeBlock(t)
  PROVE  RoomInv'
<1>1. PICK i \in Blocks : FirstFree(free_blocks, i) /\ free_blocks' = TakeBlock(free_blocks, i)
  BY DEF GetFreeBlock
<1>2. /\ i \in Freeable(free_blocks)
      /\ Freeable(free_blocks') \subseteq Freeable(free_blocks) \ {i}
  BY <1>1 DEF FirstFree, Freeable, FreeAt, TakeBlock
<1> DEFINE F == Freeable(free_blocks)
           G == Freeable(free_blocks')
<1>3. IsFiniteSet(F) /\ Cardinality(F) \in Nat /\ Cardinality(G) \in Nat
  BY FreeableFinite
<1>4. i \in F /\ G \in SUBSET (F \ {i})
  BY <1>2
<1> HIDE DEF F, G
<1>5. IsFiniteSet(F \ {i}) /\ Cardinality(F \ {i}) = Cardinality(F) - 1
  BY <1>3, <1>4, FS_RemoveElement
<1>6. Cardinality(G) + 1 <= Cardinality(F)
  BY <1>3, <1>4, <1>5, FS_Subset
<1>7. /\ Cardinality(FillImap(istore)) \in Nat /\ Cardinality(FillImap(istoreDisk)) \in Nat
      /\ Cardinality(Freeable(MkfsFreeBlocks)) \in Nat
  BY FillImapFinite, FreeableFinite DEF TypeInv, TypeOK
<1>8. /\ UNCHANGED <<istore, istoreDisk, imap>>
      /\ Room(istore, 0) /\ Room(istoreDisk, 0)
  BY DEF GetFreeBlock, RoomInv
<1>9. Room(istore, 0)' /\ Room(istore, 1)' /\ Room(istoreDisk, 0)'
  BY <1>3, <1>6, <1>7, <1>8 DEF Room, F, G
<1> QED
  BY <1>8, <1>9 DEF RoomInv, SlotsOwn

(* simplefs_inode_add uses the number the block was taken for. *)
LEMMA RoomAdd ==
  ASSUME TypeInv, TypeInv', LockInv, RoomInv, NEW t \in Tasks, InodeAdd(t)
  PROVE  RoomInv'
<1> DEFINE rec == inode[arg[t].obj]
<1>1. /\ istore' = Put(istore, rec.ino, rec)
      /\ imap' = imap \cup {rec.ino}
      /\ pc[t] = "a_add" /\ pc' = [pc EXCEPT ![t] = "c_name"]
      /\ UNCHANGED <<istoreDisk, free_blocks>>
  BY DEF InodeAdd, Goto
<1>2. rec \in Inode
  BY <1>1, ObjType DEF ObjPcs, CreatePcs
<1>3. rec.ino \in 0 .. ImapBits
  BY <1>2 DEF Inode
<1> HIDE DEF rec
<1>4. SlotsOwn(istore')
  BY <1>1 DEF Put, SlotsOwn, RoomInv
<1>5. FillImap(istore') \subseteq FillImap(istore) \cup {rec.ino}
  BY <1>1 DEF FillImap, Put
<1>6. imap' \subseteq FillImap(istore')
  <2>1. imap \subseteq {0} \cup {k \in Inos : istore[k].ino # 0}
    BY DEF RoomInv, FillImap, SlotsOwn
  <2>2. \A k \in Inos : istore[k].ino # 0 => istore'[k].ino = k
    BY <1>1 DEF Put, RoomInv, SlotsOwn
  <2>3. \A k \in Inos : k # 0
    BY LayoutAssumption DEF Inos
  <2>4. {0} \cup {k \in Inos : istore[k].ino # 0} \subseteq FillImap(istore')
    BY <2>2, <2>3 DEF FillImap
  <2>5. rec.ino \in FillImap(istore')
    <3>1. CASE rec.ino = 0
      BY <3>1 DEF FillImap
    <3>2. CASE rec.ino # 0
      <4>1. rec.ino \in Inos
        BY <1>3, <3>2, LayoutAssumption DEF Inos
      <4>2. istore'[rec.ino].ino = rec.ino
        BY <1>1, <4>1 DEF Put
      <4> QED
        BY <3>2, <4>1, <4>2 DEF FillImap
    <3> QED
      BY <3>1, <3>2
  <2> QED
    BY <1>1, <2>1, <2>4, <2>5
<1> DEFINE A == FillImap(istore)
           B == FillImap(istore')
<1>7. IsFiniteSet(A) /\ Cardinality(A) \in Nat /\ Cardinality(B) \in Nat
  BY FillImapFinite DEF TypeInv, TypeOK
<1>8. B \in SUBSET (A \cup {rec.ino})
  BY <1>5
<1> HIDE DEF A, B
<1>9. IsFiniteSet(A \cup {rec.ino}) /\ Cardinality(A \cup {rec.ino}) <= Cardinality(A) + 1
  BY <1>7, FS_AddElement
<1>10. Cardinality(B) <= Cardinality(A) + 1
  <2>1. Cardinality(B) <= Cardinality(A \cup {rec.ino})
    BY <1>8, <1>9, FS_Subset
  <2>2. Cardinality(A \cup {rec.ino}) \in Nat
    BY <1>9, FS_CardinalityType
  <2> QED
    BY <1>7, <1>9, <2>1, <2>2
<1>11. Room(istore, 1)
  BY <1>1 DEF RoomInv, AddPcs
<1>12. Cardinality(Freeable(free_blocks)) \in Nat /\ Cardinality(Freeable(MkfsFreeBlocks)) \in Nat
  BY FreeableFinite
<1>13. Room(istore, 0)'
  BY <1>1, <1>7, <1>10, <1>11, <1>12 DEF Room, A, B
<1>14. \A u \in Tasks : pc'[u] \notin AddPcs
  <2>1. \A u \in Tasks : pc[u] \in AddPcs => u = t
    BY <1>1, OneCreator DEF AddPcs, ChildrenPcs, CreatePcs
  <2> QED
    BY <1>1, <2>1 DEF AddPcs, TypeInv, TypeOK
<1>15. Room(istoreDisk, 0)'
  BY <1>1 DEF RoomInv, Room
<1> QED
  BY <1>1, <1>4, <1>6, <1>13, <1>14, <1>15 DEF RoomInv, SlotsOwn

(* simplefs_inode_del clears a slot and its bit. *)
LEMMA RoomDel ==
  ASSUME TypeInv, TypeInv', RoomInv, NEW t \in Tasks, InodeDel(t)
  PROVE  RoomInv'
<1> DEFINE i == inode[arg[t].obj].ino
<1>1. /\ istore' = Put(istore, i, ZeroInode)
      /\ imap' = imap \ {i}
      /\ pc[t] = "d_del" /\ pc' = [pc EXCEPT ![t] = "u_end"]
      /\ UNCHANGED <<istoreDisk, free_blocks>>
  BY DEF InodeDel, Goto
<1> HIDE DEF i
<1>2. \A k \in Inos : istore'[k] = IF k = i THEN ZeroInode ELSE istore[k]
  BY <1>1 DEF Put
<1>3. ZeroInode.ino = 0
  BY DEF ZeroInode
<1>4. SlotsOwn(istore')
  BY <1>2, <1>3 DEF RoomInv, SlotsOwn
<1>5. FillImap(istore') \subseteq FillImap(istore)
  BY <1>2, <1>3 DEF FillImap
<1>6. imap' \subseteq FillImap(istore')
  <2>1. imap \subseteq {0} \cup {k \in Inos : istore[k].ino # 0}
    BY DEF RoomInv, FillImap, SlotsOwn
  <2>2. \A k \in Inos : istore[k].ino # 0 /\ k # i => istore'[k].ino = k /\ k # 0
    BY <1>2, LayoutAssumption DEF RoomInv, SlotsOwn, Inos
  <2>3. {0} \cup {k \in Inos : istore[k].ino # 0 /\ k # i} \subseteq FillImap(istore')
    BY <2>2 DEF FillImap
  <2> QED
    BY <1>1, <2>1, <2>3
<1>7. \A u \in Tasks : pc'[u] \in AddPcs => pc[u] \in AddPcs
  BY <1>1 DEF AddPcs, TypeInv, TypeOK
<1> QED
  BY <1>1, <1>4, <1>5, <1>6, <1>7, RoomKeep DEF RoomInv

(* Every step keeps the count: only create's two steps change it for worse. *)
LEMMA RoomStep ==
  TypeInv /\ TypeInv' /\ LockInv /\ RoomInv /\ [Next]_vars => RoomInv'
<1> SUFFICES ASSUME TypeInv, TypeInv', LockInv, RoomInv, [Next]_vars PROVE RoomInv'
  OBVIOUS
<1>0. pc \in [Tasks -> Pcs]
  BY DEF TypeInv, TypeOK
<1>1. ASSUME NEW t \in Tasks, Call(t) PROVE RoomInv'
  <2>1. UNCHANGED <<istore, istoreDisk, imap, free_blocks>>
    BY <1>1 DEF Call, CreateCall, UnlinkCall, LookupCall, WriteCall, fs
  <2>2. \E to \in {"c_lock", "u_save_lock", "l_lock", "w_size"} : Goto(t, to)
    BY <1>1 DEF Call, CreateCall, UnlinkCall, LookupCall, WriteCall
  <2> QED
    BY <1>0, <2>1, <2>2, RoomSame DEF AddPcs, Goto
<1>2. ASSUME NEW t \in Tasks, TakeStep(t) PROVE RoomInv'
  <2>1. UNCHANGED <<istore, istoreDisk, imap, free_blocks>>
    BY <1>2
    DEF TakeStep, Take, fs, CreateLock, CountLock, BlockLock, AddLock, AddSbLock, ParentSaveLock,
        UnlinkSaveLock, DelLock, DelSbLock, WriteSaveLock, GetInodeLock
  <2>2. \A u \in Tasks : pc'[u] \in AddPcs => pc[u] \in AddPcs
    BY <1>0, <1>2
    DEF TakeStep, Take, Lock, Goto, AddPcs, CreateLock, CountLock, BlockLock, AddLock, AddSbLock,
        ParentSaveLock, UnlinkSaveLock, DelLock, DelSbLock, WriteSaveLock, GetInodeLock
  <2> QED
    BY <2>1, <2>2, RoomSame
<1>3. ASSUME NEW t \in Tasks, FailStep(t) PROVE RoomInv'
  <2>1. PICK ls : Fail(t, ls)
    BY <1>3 DEF FailStep, CreateLockIntr, CountLockIntr, NewInodeFails, BlockLockIntr,
                NoFreeBlock, CountChildIntr, ParentSaveIntr, WriteSizeIntr, WriteSaveIntr,
                GetInodeIntr
  <2> QED
    BY <1>0, <2>1, RoomSame DEF Fail, Finish, Goto, AddPcs, fs
<1>4. ASSUME NEW t \in Tasks, GoOnStep(t) PROVE RoomInv'
  BY <1>0, <1>4, RoomSame DEF GoOnStep, AddIntr, UnlinkSaveIntr, DelIntr, Goto, AddPcs, fs
<1>5. ASSUME NEW t \in Tasks, WorkStep(t) PROVE RoomInv'
  <2>1. CASE Count(t) \/ NewInode(t) \/ AddName(t) \/ CountChild(t) \/ UnlinkEnd(t)
             \/ WriteSize(t) \/ GetInode(t)
    <3>1. UNCHANGED <<istore, istoreDisk, imap, free_blocks>>
      BY <2>1 DEF Count, Fail, NewInode, AddName, CountChild, UnlinkEnd, WriteSize, GetInode, fs
    <3>2. \E to \in {"idle", "c_new", "c_block_lock", "c_parent", "c_save_lock", "w_save_lock"} :
            Goto(t, to)
      BY <2>1 DEF Count, Fail, Finish, NewInode, AddName, CountChild, Lock, UnlinkEnd, WriteSize,
                  GetInode
    <3> QED
      BY <1>0, <3>1, <3>2, RoomSame DEF Goto, AddPcs
  <2>2. CASE GetFreeBlock(t)
    BY <2>2, RoomTake
  <2>3. CASE InodeAdd(t)
    BY <2>3, RoomAdd
  <2>4. CASE ParentSave(t)
    <3>1. inode[arg[t].dir] \in Inode
      BY <2>4, ObjType DEF ParentSave, DirPcs, CreatePcs
    <3> QED
      BY <1>0, <2>4, <3>1, RoomSave DEF ParentSave, Finish, Goto, AddPcs
  <2>5. CASE UnlinkSave(t)
    <3>1. inode[arg[t].dir] \in Inode
      BY <2>5, ObjType DEF UnlinkSave, DirPcs, UnlinkPcs
    <3> QED
      BY <1>0, <2>5, <3>1, RoomSave DEF UnlinkSave, Goto, AddPcs
  <2>6. CASE InodeDel(t)
    BY <2>6, RoomDel
  <2>7. CASE WriteSave(t)
    <3>1. inode[arg[t].obj] \in Inode
      BY <2>7, ObjType DEF WriteSave, ObjPcs, WritePcs
    <3> QED
      BY <1>0, <2>7, <3>1, RoomSave DEF WriteSave, Finish, Goto, AddPcs
  <2> QED
    BY <1>5, <2>1, <2>2, <2>3, <2>4, <2>5, <2>6, <2>7 DEF WorkStep
<1>6. ASSUME Environment PROVE RoomInv'
  <2>1. ASSUME NEW d \in Addrs, NEW x \in Names, Shrink(d, x) PROVE RoomInv'
    BY <2>1, RoomSame DEF Shrink, fs
  <2>2. CASE Writeback
    BY <2>2, RoomKeep DEF Writeback, RoomInv
  <2>3. ASSUME NEW store, Mount(store), store = istore \/ store = istoreDisk PROVE RoomInv'
    <3>1. \A t \in Tasks : pc'[t] \notin AddPcs
      BY <2>3 DEF Mount, AddPcs
    <3> QED
      BY <2>3, <3>1, RoomKeep DEF Mount, RoomInv
  <2> QED
    BY <1>6, <2>1, <2>2, <2>3 DEF Environment, Remount, Crash
<1>7. CASE UNCHANGED vars
  BY <1>7, RoomSame DEF vars, fs
<1> QED
  BY <1>1, <1>2, <1>3, <1>4, <1>5, <1>6, <1>7, NextKinds

(* mkfs uses three bits: bit 0, the root and the welcome file. *)
LEMMA RoomInit == Init => RoomInv
<1> SUFFICES ASSUME Init PROVE RoomInv
  OBVIOUS
<1>1. \A k \in Inos : MkfsInodeStore[k].ino = IF k = RootIno \/ k = WelcomeIno THEN k ELSE 0
  BY DEF MkfsInodeStore, ZeroInode, RootIno, WelcomeIno
<1>2. SlotsOwn(MkfsInodeStore)
  BY <1>1 DEF SlotsOwn
<1>3. FillImap(MkfsInodeStore) \in SUBSET (0 .. 2)
  BY <1>1 DEF FillImap, RootIno, WelcomeIno
<1>4. IsFiniteSet(0 .. 2) /\ Cardinality(0 .. 2) = 3
  <2>1. IsFiniteSet(0 .. 2) /\ Cardinality(0 .. 2) = IF 0 > 2 THEN 0 ELSE 2 - 0 + 1
    BY 0 \in Int, 2 \in Int, FS_Interval
  <2> QED
    BY <2>1
<1>5. Cardinality(FillImap(MkfsInodeStore)) <= 3
  BY <1>3, <1>4, FS_Subset
<1>6. /\ Cardinality(FillImap(MkfsInodeStore)) \in Nat
      /\ Cardinality(Freeable(MkfsFreeBlocks)) \in Nat
  BY FillImapFinite, FreeableFinite, LayoutTypes
<1>7. /\ istore = MkfsInodeStore /\ istoreDisk = MkfsInodeStore
      /\ imap = FillImap(MkfsInodeStore) /\ free_blocks = MkfsFreeBlocks
      /\ \A t \in Tasks : pc[t] = "idle"
  BY DEF Init
<1>8. Room(istore, 0) /\ Room(istoreDisk, 0)
  BY <1>5, <1>6, <1>7 DEF Room
<1> QED
  BY <1>2, <1>7, <1>8 DEF RoomInv, AddPcs

(* Fewer inodes than bits leave a bit clear. *)
LEMMA RoomLeft ==
  ASSUME BitsSuffice, TypeInv, RoomInv
  PROVE  \E n \in 0 .. (ImapBits - 1) : n \notin imap
<1> SUFFICES ASSUME 0 .. (ImapBits - 1) \subseteq imap PROVE FALSE
  OBVIOUS
<1> DEFINE W == 0 .. (ImapBits - 1)
           A == FillImap(istore)
<1>1. Cardinality(W) = ImapBits
  BY FS_Interval, LayoutAssumption
<1>2. W \in SUBSET A
  BY DEF RoomInv
<1>3. IsFiniteSet(A) /\ Cardinality(A) \in Nat
  BY FillImapFinite DEF TypeInv, TypeOK
<1>4. Cardinality(A) + 0 + Cardinality(Freeable(free_blocks))
        <= 3 + Cardinality(Freeable(MkfsFreeBlocks))
  BY DEF RoomInv, Room
<1> HIDE DEF W, A
<1>5. Cardinality(W) <= Cardinality(A)
  BY <1>2, <1>3, FS_Subset
<1>6. Cardinality(Freeable(free_blocks)) \in Nat /\ Cardinality(Freeable(MkfsFreeBlocks)) \in Nat
  BY FreeableFinite
<1> QED
  BY <1>1, <1>3, <1>4, <1>5, <1>6, LayoutAssumption DEF BitsSuffice

(* ffz(imap) in simplefs_create_fs_object is never given a full map: through
   interrupted calls, which take a block for nothing, writes to deleted files
   and power cuts, which bring old inodes back, the blocks run out first. *)
THEOREM FfzHasRoom ==
  ASSUME BitsSuffice
  PROVE  Spec => []ImapHasRoom
<1>1. TypeInv /\ RoomInv => ImapHasRoom
  BY RoomLeft DEF ImapHasRoom
<1>2. Init => LockInv
  BY FSAssumption
  DEF Init, LockInv, ChildrenLockSound, MgmtLockGuards, Guarded, Returned, ChildrenPcs, MgmtPcs,
      CreatePcs, Locks
<1> QED
  BY <1>1, <1>2, TypeInit, TypeStep, LockStep, RoomInit, RoomStep, PTL DEF Spec

(* Where imap is as wide as free_blocks, the hypothesis is met, whatever the
   build makes of the shifts. *)
LEMMA WideMap ==
  ASSUME MaxObjects <= ImapBits
  PROVE  BitsSuffice
<1> DEFINE S == 4 .. (MaxObjects - 1)
           F == Freeable(MkfsFreeBlocks)
<1>1. F \in SUBSET S
  BY LayoutAssumption DEF Freeable, MkfsFreeBlocks, FreeAt, WelcomeBlk, FirstBlk
<1>2. IsFiniteSet(S) /\ Cardinality(S) = MaxObjects - 4
  BY FS_Interval, LayoutAssumption DEF WelcomeBlk
<1>3. Cardinality(F) \in Nat
  BY FreeableFinite
<1> HIDE DEF F, S
<1>4. Cardinality(F) <= MaxObjects - 4
  BY <1>1, <1>2, FS_Subset
<1>5. 3 + Cardinality(F) < ImapBits
  BY <1>3, <1>4, LayoutAssumption
<1> QED
  BY <1>5 DEF BitsSuffice, F

-----------------------------------------------------------------------------
(***************************************************************************)
(* Late saves.  simplefs_inode_save writes only where it finds the number, *)
(* and a number is found only in its own slot, while its bit is set.       *)
(***************************************************************************)
Marked(store, map) == \A k \in Inos : store[k].ino # 0 => store[k].ino \in map

(* Marked is inductive where slots hold their own numbers. *)
LEMMA MarkStep ==
  TypeInv /\ RoomInv /\ Marked(istore, imap) /\ [Next]_vars => Marked(istore, imap)'
<1> SUFFICES ASSUME TypeInv, RoomInv, Marked(istore, imap), [Next]_vars
             PROVE  Marked(istore', imap')
  BY DEF Marked
<1>1. CASE UNCHANGED <<istore, imap>>
  BY <1>1 DEF Marked
<1>2. ASSUME NEW rec, Save(rec), UNCHANGED imap PROVE Marked(istore', imap')
  BY <1>2 DEF Save, Put, FoundAt, Marked
<1>3. ASSUME NEW t \in Tasks, InodeAdd(t) PROVE Marked(istore', imap')
  BY <1>3 DEF InodeAdd, Put, Marked
<1>4. ASSUME NEW t \in Tasks, InodeDel(t) PROVE Marked(istore', imap')
  <2>1. PICK i : istore' = Put(istore, i, ZeroInode) /\ imap' = imap \ {i}
    BY <1>4 DEF InodeDel
  <2>2. \A k \in Inos : istore[k].ino # 0 => istore[k].ino = k
    BY DEF RoomInv, SlotsOwn
  <2> QED
    BY <2>1, <2>2 DEF Put, ZeroInode, Marked
<1>5. ASSUME NEW store, Mount(store) PROVE Marked(istore', imap')
  BY <1>5 DEF Mount, FillImap, Marked
<1>6. ASSUME NEW t \in Tasks, Call(t) \/ TakeStep(t) \/ FailStep(t) \/ GoOnStep(t)
      PROVE  UNCHANGED <<istore, imap>>
  BY <1>6
  DEF Call, CreateCall, UnlinkCall, LookupCall, WriteCall,
      TakeStep, Take, CreateLock, CountLock, BlockLock, AddLock, AddSbLock, ParentSaveLock,
      UnlinkSaveLock, DelLock, DelSbLock, WriteSaveLock, GetInodeLock,
      FailStep, Fail, CreateLockIntr, CountLockIntr, NewInodeFails, BlockLockIntr,
      NoFreeBlock, CountChildIntr, ParentSaveIntr, WriteSizeIntr, WriteSaveIntr, GetInodeIntr,
      GoOnStep, AddIntr, UnlinkSaveIntr, DelIntr, fs
<1>7. ASSUME NEW t \in Tasks, WorkStep(t) PROVE Marked(istore', imap')
  <2>1. \/ UNCHANGED <<istore, imap>> \/ InodeAdd(t) \/ InodeDel(t)
        \/ UNCHANGED imap /\ \E a : Save(inode[a])
    BY <1>7
    DEF WorkStep, Count, Fail, NewInode, GetFreeBlock, AddName, CountChild, ParentSave,
        UnlinkSave, UnlinkEnd, WriteSize, WriteSave, GetInode, fs
  <2> QED
    BY <1>1, <1>2, <1>3, <1>4, <2>1
<1>8. ASSUME Environment PROVE Marked(istore', imap')
  BY <1>1, <1>5, <1>8 DEF Environment, Shrink, Writeback, Remount, Crash, fs
<1> QED
  BY <1>1, <1>6, <1>7, <1>8, NextKinds DEF vars, fs

(* simplefs_inode_save never brings a deleted inode back, however late it
   comes: every inode in the store is in its own slot and has its bit in imap,
   so ffz never gives its number to another, through interrupted calls, writes
   to deleted files and power cuts. *)
THEOREM LiveInodesMarked == Spec => []LiveMarked
<1>1. TypeInv /\ RoomInv /\ Marked(istore, imap) => LiveMarked
  BY DEF RoomInv, SlotsOwn, Marked, LiveMarked
<1>2. Init => LockInv
  BY FSAssumption
  DEF Init, LockInv, ChildrenLockSound, MgmtLockGuards, Guarded, Returned, ChildrenPcs, MgmtPcs,
      CreatePcs, Locks
<1>3. Init => Marked(istore, imap)
  BY DEF Init, FillImap, Marked
<1> QED
  BY <1>1, <1>2, <1>3, TypeInit, TypeStep, LockStep, RoomInit, RoomStep, MarkStep, PTL DEF Spec
=============================================================================
