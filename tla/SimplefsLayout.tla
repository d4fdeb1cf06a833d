--------------------------- MODULE SimplefsLayout ---------------------------
(***************************************************************************)
(* The on-disk layout of simplefs (simplefs/simple.h), the image that      *)
(* mkfs-simplefs writes, and the two bit maps new objects are numbered     *)
(* from: free_blocks in the super block and imap in simplefs_sb_info.      *)
(*                                                                         *)
(* Block 0 is the super block, block 1 the inode store, block 2 the data   *)
(* of the root directory and block 3 that of the welcome file.             *)
(***************************************************************************)
EXTENDS Naturals

CONSTANTS
  MaxObjects,  \* SIMPLEFS_MAX_FILESYSTEM_OBJECTS_SUPPORTED, the bits of free_blocks: 64
  ImapBits,    \* the bits of the unsigned long imap: 32 or 64
  Shl,         \* Shl[i] is the set of bits of "1 << i" widened to 64 bits
  Word,        \* the number of values of a uint64_t
  Names,       \* file names
  Welcome      \* "vanakkam", the name of the file mkfs creates

RootIno    == 1   \* SIMPLEFS_ROOTDIR_INODE_NUMBER
RootBlk    == 2   \* SIMPLEFS_ROOTDIR_DATABLOCK_NUMBER
WelcomeIno == 2   \* WELCOMEFILE_INODE_NUMBER
WelcomeBlk == 3   \* WELCOMEFILE_DATABLOCK_NUMBER
FirstBlk   == 3   \* where the search of simplefs_sb_get_a_freeblock starts

Blocks == 0 .. (MaxObjects - 1)
Inos   == 1 .. ImapBits      \* ImapBits itself: what ffz returns for a full map

(***************************************************************************)
(* "1 << i" shifts an int.  Below the sign bit it is the one bit i, which  *)
(* is all the proofs use; from the sign bit on the result depends on the   *)
(* build, and Shl says which one is meant.                                 *)
(***************************************************************************)
ASSUME LayoutAssumption ==
  /\ MaxObjects \in Nat /\ MaxObjects > WelcomeBlk
  /\ ImapBits \in Nat /\ ImapBits > WelcomeIno
  /\ Word \in Nat /\ Word > MaxObjects
  /\ Shl \in [Blocks -> SUBSET Blocks]
  /\ Welcome \in Names

(***************************************************************************)
(* struct simplefs_inode.  n is the union of file_size and                 *)
(* dir_children_count; a slot of the inode store that holds no inode is    *)
(* all zeroes.  Sizes are told apart and never computed with: the 41 bytes *)
(* of the welcome file are the size 1.                                     *)
(***************************************************************************)
Modes == {"none", "dir", "reg"}

Inode == [mode : Modes, ino : 0 .. ImapBits, blk : Blocks, n : 0 .. (Word - 1)]

ZeroInode == [mode |-> "none", ino |-> 0, blk |-> 0, n |-> 0]

(***************************************************************************)
(* The image mkfs-simplefs leaves: ~0 & ~(1 << 3) marks every block free   *)
(* but that of the welcome file, blocks 0 to 2 included.                   *)
(***************************************************************************)
MkfsFreeBlocks == Blocks \ Shl[WelcomeBlk]

MkfsInodesCount == 2

MkfsInodeStore ==
  [k \in Inos |->
     CASE k = RootIno    -> [mode |-> "dir", ino |-> RootIno, blk |-> RootBlk, n |-> 1]
       [] k = WelcomeIno -> [mode |-> "reg", ino |-> WelcomeIno, blk |-> WelcomeBlk, n |-> 1]
       [] OTHER          -> ZeroInode]

MkfsDirents ==
  [d \in Blocks |-> [x \in Names |->
     IF d = RootBlk /\ x = Welcome THEN WelcomeIno ELSE 0]]

(* The loop of simplefs_sb_get_a_freeblock stops at i, or at no block. *)
FreeAt(free, i) == free \cap Shl[i] # {}

FirstFree(free, i) ==
  /\ i \in FirstBlk .. (MaxObjects - 1)
  /\ FreeAt(free, i)
  /\ \A j \in FirstBlk .. (i - 1) : ~FreeAt(free, j)

NoneFree(free) == \A j \in FirstBlk .. (MaxObjects - 1) : ~FreeAt(free, j)

(* free_blocks &= ~(1 << i).  A version that forgets it comes first. *)
BlockNotTaken(free, i) == free

TakeBlock(free, i) == free \ Shl[i]

(* n is what ffz(map) returns: the first bit of the word that is clear. *)
Ffz(map, n) ==
  /\ n \in 0 .. ImapBits
  /\ \A m \in 0 .. (n - 1) : m \in map
  /\ n < ImapBits => n \notin map

(* fill_imap: bit 0 is reserved, then one bit per inode found in the store.
   Versions that forget the store, or its first slot, come first. *)
ImapNotFilled(store) == {0, RootIno}

ImapFilledLate(store) == {0} \cup {store[k].ino : k \in {j \in Inos : j > 1 /\ store[j].ino # 0}}

FillImap(store) == {0} \cup {store[k].ino : k \in {j \in Inos : store[j].ino # 0}}
=============================================================================
