# A verification project for simplefs and its neighbours

This directory models `simplefs`, the small Linux file system of this repository,
and the two other kernel modules beside it that have a behaviour of their own, the
`globalfifo` device and `hook`, in TLA+: modules translated from the C sources, TLC
configurations that check them on small instances, and theorems that TLAPS proves for
every instance. `PROJECT.json` maps each
definition to the lines it models and lists runs, mutants, findings, hazards and
theorems.

    tlc -workers 2 -config MCSimpleFS_quiet.cfg MCSimpleFS
    tlapm SimpleFSProofs.tla

A call of `tlapm` checks the proofs of one module; section 4 lists the eight that have any.

## 1. The system

The repository holds one file system and a few unrelated kernel exercises.

| Part | State it keeps | Operations | What makes it correct |
|---|---|---|---|
| Layout and bit maps (`simple.h`, `simple.c`) | `free_blocks` in the super block, `imap` in memory | find and take a free block, `ffz(imap)`, `fill_imap` at mount | a block or inode number is given out once, whatever the width of an `int` |
| Super block and inode store (`simple.c`) | blocks 0 and 1, their buffers, `inodes_count` | `inode_add`, `inode_del`, `inode_save`, `get_a_freeblock`, `get_objects_count`, `get_inode` | count, bit map and store agree; what returned is on disk; locks exclude and are given back |
| create, mkdir, unlink | directory blocks, child counts, dentries | `create_fs_object`, `unlink` | names lead to live inodes, one name each; counts match names |
| lookup and inode objects | slab objects behind `i_private` | `lookup`, `dentry_release`, `destory_inode` | the object of a name is what the store says |
| read, write | file blocks, `file_size`, positions | `read`, `write` | sizes do not get ahead of the data; what was acknowledged is on disk; a file stays in its block |
| Directory cache | `d_fsdata`: used and free lists over the 15 slots of a block | `iterate`, `dir_cache_build`, `cache_entry_insert` | the cache says what the block says |
| Mount, umount | `simplefs_sb_info` | `fill_super`, `kill_superblock` | what was there is found again |
| `mkfs-simplefs` | the image | four writes | the image is one the module can mount |
| `globalfifo` | a 10-byte buffer, a semaphore, two wait queues | read, write, ioctl, poll, open, release, load, unload | bytes in order, no lost wakeup, no stale queue entry |
| `hook` | a jump over the start of `ipv4_conntrack_in`, a stub, a pointer | load, unload, every packet | each packet gets to the original function, once |
| `app/lock.cpp` | two mutexes, two counters | `func1`, `func2` | (demonstrates a deadlock) |
| `mm/mm_debug.c`, `mm_spinlock` | one shared buffer; nothing | proc read/write; a leak | see section 5 |

**How the parts interact.** The VFS calls into the module with the `i_mutex` of a
directory held for create, unlink and lookup, and with nothing held for write. Inside,
three global mutexes are nested: `simplefs_directory_children_update_lock` around the
whole of create, `simplefs_inodes_mgmt_lock` around changes of inodes and
`simplefs_sb_lock` around changes of the super block and saves of the inode store. All
three are taken with `mutex_lock_interruptible`. The inode store is one block: saving one
record syncs all of them. The super block and directory blocks are synced with every
change, the inode store only in `simplefs_inode_save`. Reads take no lock at all, and the
bytes of a write are copied and synced before it takes its first one.

`globalfifo` and `hook` share nothing with the file system. In `globalfifo` callers meet in
one buffer under one semaphore, sleep on two queues and wake each other. `hook` changes
kernel text that other CPUs execute.

**What is hard.** Interleavings of create, unlink and write between their lock waits;
lock waits that a signal interrupts, at thirteen places; objects freed while a
writer holds them; a power cut between two syncs; counters and shifts at the edge of
their width; directories that are full, or used before they are listed; two unlocked
looks at a file's size; a sleep between `up` and `down` of a semaphore; a wait queue
changed under the other queue's lock; code that is patched while packets run through it.
`PROJECT.json` lists each hazard with its line and the properties that would catch it, or why none does.

## 2. Modules

| Module | Models |
|---|---|
| `SimplefsLayout` | constants, inode records, the image of mkfs, the two bit maps |
| `SimpleFS` | the kernel module: tasks, locks, store, disk, objects, dentries; all properties of it |
| `MCSimpleFS` | `1 << i` on ARM, symmetry; one `.cfg` per run |
| `SimpleFSProofs` | theorems about `SimpleFS` with signals and power cuts: types, blocks, locks |
| `SimpleFSRoomProofs` | the same: `imap` is never full when a bit is needed; late saves |
| `SimpleFSQuietProofs` | theorems about `SimpleFS` without signals: locks, names |
| `SimpleFSCountProofs` | the same: counts, durability |
| `DirMap` | abstract: a directory is a map from names to inode numbers |
| `DirCache` | the slots of one directory block and the cache over them; implements `DirMap` |
| `SimplefsFile` | contents, size and positions of one file, its readers and writers |
| `BoundedFifo` | abstract: a queue of at most `Size` bytes |
| `GlobalFifo` | the `globalfifo` device; implements `BoundedFifo` |
| `Hook` | the `hook` module against packets on several CPUs |
| `DirCacheProofs`, `SimplefsFileProofs`, `GlobalFifoProofs`, `HookProofs` | theorems about these modules |
| `MCDirCache`, `MCSimplefsFile`, `MCGlobalFifo`, `MCHook` | their instances for TLC |

No module composes `SimpleFS` with `DirCache` or `SimplefsFile`: the three look at the same
code at different grain. `SimpleFS` keeps the names of a directory as a function, which is
what `DirCache` is shown to implement, and sizes without contents.

### SimpleFS

*State.* `inodes_count`, `free_blocks`, `imap` are the fields of that name (bit maps as
sets of one bits). `istore` is the buffer of block 1 and `istoreDisk` what the disk has;
`dirent[b][x]` is the inode number of name `x` in directory block `b`. `inode[a]` is the
`struct simplefs_inode` at address `a`, `dentry[d][x]` the object bound to name `x` of
directory `d`. `lock` has the holder of each mutex, `pc` and `arg` the point and the locals of
each task.

*Steps.* A system call is cut where another task can be seen to come in: at each
`mutex_lock_interruptible`, and between critical sections. A critical section is one
step. That is sound for the children lock and the inode lock, which exclude (theorems
`ChildrenLock`, `MgmtLock`). It is an under-approximation for the super block lock: once a
task has unlocked it for another (run `sb_lock`), two bodies under it could overlap,
and the model shows that they can be entered together and no torn update beyond that.

| Code | Actions |
|---|---|
| `simplefs_create_fs_object` | `CreateCall`, `CreateLock`, `CountLock`, `Count`, `NewInode`, `BlockLock`, `GetFreeBlock` or `NoFreeBlock`, `AddLock`, `AddSbLock`, `InodeAdd`, `AddName`, `CountChild`, `ParentSaveLock`, `ParentSave`, in this order |
| `simplefs_unlink` | `UnlinkCall`, `UnlinkSaveLock`, `UnlinkSave`, `DelLock`, `DelSbLock`, `InodeDel`, `UnlinkEnd` |
| `simplefs_write` | `WriteCall`, `WriteSize`, `WriteSaveLock`, `WriteSave` |
| `simplefs_lookup`, `simplefs_get_inode` | `LookupCall`, `GetInodeLock`, `GetInode` |
| interrupted waits | the actions named `...Intr` |
| failing `new_inode` | `NewInodeFails` |
| kernel, power | `Writeback`, `Shrink`, `Remount`, `Crash` |

*The kernel around it* is modelled from how the code uses it. `mutex_lock_interruptible`
returns `-EINTR` only when the lock is taken (a free mutex is taken on the fast path,
whatever signals are pending). `mutex_unlock` frees the mutex whoever calls it. The slab
allocator may hand out any object no live inode owns, also one that a writer of a deleted
file still points at: `unlink` drops a reference that the VFS drops again, so the object
is freed under the writer. Freeing overwrites the first word, the mode, with anything.
Allocating clears nothing: a recycled object keeps its old block number from line 773 to 802
(`Leftover`). An object that nothing points at is forgotten, which keeps the state space finite
and hides nothing a task could read.

*Edges.* Inode number 0 indexes the record before the block; a write there is lost to
the file system and a directory entry with number 0 is no entry. Counters wrap at `Word`.
`1 << i` shifts an `int`; its set of bits is the constant `Shl`, left open in the proofs
and given as `ArmShl` (the committed build is for ARM) in the runs.

### DirCache and DirMap

`slot` is the data block; `cache` is `d_fsdata`, two sequences of entries or null. The
directory's `i_mutex` lets one call in at a time, so a call is one action: `Iterate`
(`simplefs_iterate`), `Lookup`, `Create`, `Unlink`, `Release`. `oops` stands for a kernel
that stopped. `NoMemory` lets allocations fail; the history variable `short` remembers a
build that did not get to the end of the block for that reason.

A listing goes through an open file, whose `pos` is 0 until the first entry was handed to
`dir_emit` and never again before the file is closed (there is no `llseek`). The caller
gives it room for some number of entries out of `Rooms`; `dir_emit` refuses what does not fit,
the code does not look at its answer (line 442), and the next call returns at once (line 438).
The history variable `cut` has the files that lost entries in this way.

`DirCache` implements `DirMap` with its `ok` as "neither `oops` nor `short`": `BlockMap` reads
the map off the block, `at` is `pos`, and what each call reports is compared too. `DirMap`
promises no more of listings than the code does: the first one through a file that has
anything to list is all of the map or as many of its entries as there is room for, and every
later one is empty. Nothing is promised of a directory after `ok` has become false, and the
three properties next to the refinement say what still holds of the cache then.

### SimplefsFile

`block` is the buffer of the data block and `blockDisk` what the disk has; `file_size` is the
field in memory and `recDisk` the one in the record on disk; `mgmt` is
`simplefs_inodes_mgmt_lock`; `pos` and `mode` belong to each task's open file.
`simplefs_read` (lines 497 to 542) is `ReadCall`, `ReadSize`, `ReadCopy`: it compares the
position with the size, may sleep in `sb_bread`, takes the size again and copies from the
start of the block. `simplefs_write` (585 to 664) is `WriteCall`, `WriteCopy`, `WriteSync`,
`WriteSize`, `WriteSave` with two interrupted waits. `Reclaim` drops a clean buffer, `Crash`
cuts the power and mounts again; there may be any number of either.

Assumed of the kernel: calls through one open file follow one another; the position of a
file moves by what `*ppos` was moved only when the call succeeds (Linux 3.14 and later);
the file operations have no `llseek`, so nothing else moves it, and `O_APPEND` and
`O_TRUNC` are without effect. `pread` and `pwrite` are left out: they choose a position and
would make every hole a caller's own. Bytes are told apart only as `junk` (from before the
file), `old` and `new`. A record that is no longer in the store (`-EIO`) is `SimpleFS`'s
subject. `overshot` records that a read left a position beyond the end of the file, which
it can because its count does not depend on the position; a write from there leaves a
hole that shows junk, to `read` as well. `WrittenBelowSize` and `ReadsWritten` are therefore
about the time before that. It takes a file open for both reading and writing: theorem
`SeparateFilesSafe` has no exception where there is none.

### GlobalFifo and BoundedFifo

`mem`, `current_len`, `sem`, `r_wait`, `w_wait` are the fields of `struct globalfifo_dev`,
`asleep` are the tasks in `schedule()` that nobody woke. Each `down` is a step; what is done
under the semaphore up to `up` or `schedule` is a step. `ReadCall` .. `ReadRemoved` are
`globalfifo_read`, `WriteCall` .. `WriteOut` `globalfifo_write`, `Clear` the ioctl `FIFO_CLEAR`
(other commands return `-EINVAL` and are no step), `Poll` `globalfifo_poll`, with the loop of
`select` around it, which is not this repository's. `ReadSignalled`, `WriteSignalled` and
`PollTimeout` may come at any moment of a sleep. Copies may fail at any byte.

Two things in this driver can break the kernel, and are modelled up to the point where they
do; `oops` is set and nothing happens afterwards. A reader takes itself off `r_wait` under
the lock of `w_wait`, so between `ReadOut` and `ReadRemoved` any other use of `r_wait` works on
a list that is being changed. And `cdev_add` comes before the initialisation of the semaphore:
an early `down` follows null pointers. When `cdev_add` fails that is printed and ignored
(`dev = "deaf"`). The overlapping `memcpy` of at most ten bytes arrives whole.

`Contents`, the first `current_len` bytes of `mem`, is the queue of `BoundedFifo`; `moved`, the
last call that handed bytes over or threw them away, with the bytes, is compared as well. So a
step that empties the buffer is a step of the queue only if it is `FIFO_CLEAR` or the loading
of the module.

### Hook

Addresses are numbers and jumps relative, as in the code. `text` is what stands at the
start of `ipv4_conntrack_in` and of the stub. `LoadStub`, `LoadPtr`, `LoadJump` are the steps of
`hook_conn_init` that change something, `UnloadTarget` and `UnloadStub` those of
`hook_conn_exit`. `text_poke_smp` stops all CPUs; packets are handled in softirqs, which end
before a CPU stops, so a poke comes only when no CPU is in a call. Everything is about
x86, for which the opcode is written: where `kallsyms_lookup_name` does not find
`text_poke_smp`, as on ARM, loading returns -1 before anything was changed. The first
five bytes of the hooked function are taken to be the nop the kernel keeps there for
tracing, and distances to fit 32 bits. The three addresses may be any that lie more than a
jump apart, in any order (`HookAssumption`). Unloading writes each of the two jumps to the other's
place; the model follows it, and the next packet leaves the code (`Runs` is false).

## 3. Runs

| Run | Asks | Result |
|---|---|---|
| `quiet` | two tasks, nested directories, shrinking caches, writeback, remounts; no signals | names, store, counts, durability, locks consistent |
| `faults` | the same with signals and a power cut, maps with one bit to spare | types, unique blocks, the children lock and room in `imap` survive |
| `race` | writes against deletion and reuse, with signals | no block still named by a record is given out, no late save revives an inode, the inode lock still excludes |
| `live` | fair scheduling, no signals | every call returns |
| `dir` | more names than slots, no listing, failing allocations | the cache is never wrong while the kernel runs, no entry is overwritten; a map until something fails, listed once per open file and as far as there is room |
| `file` | two open files over one block, signals, failing copies, power cuts | no junk below a size and reads return what was written, until a position overshoots; sizes are saved, acknowledged bytes on disk |
| `fifo` | readers, writers, select, `FIFO_CLEAR`, signals, load and unload | a bounded queue, which only `FIFO_CLEAR` and loading empty at once; no reader's waking is lost; queues clean; calls end |
| `hook` | packets on three CPUs through loading and unloading | every call runs the original once and returns; no stray jump before the unloading |

Each of the following shows that the code does not do what a comment, a test or the
README of the file system says. The quotes are under "findings" in `PROJECT.json`.

| Run | Shows |
|---|---|
| `sb_lock` | an interrupted `get_a_freeblock` unlocks the super block lock under its holder |
| `name_first` | a name is on disk before its inode |
| `cut` | a directory that does not fit the caller's buffer is never listed to its end |
| `file_limit` | a write at the end of a full block makes the file longer than its block |

`TypeOK`, `HeldTaken`, `LiveMarked`, `ChildrenLockSound`, `MgmtLockGuards` and `ImapHasRoom` hold
with signals, power cuts and writes, `UniqueBlocks` with signals and power cuts. `NamesResolve`, `NamesInjective`, `StoreAccounted`, `ChildrenCounted` and `CreateDurable` are
claims of the quiet system only. What becomes of them, and of `LocksReturned`, otherwise
can be seen by checking them under the constants of `faults` (two directories) or `race`:

* A signal between the two locks of `inode_add` or `inode_del` (lines 229 and 280) leaves
  the inode lock held for good; the create itself waits for it next, at line 842.
* A create whose `inode_add` was interrupted goes on and leaves a name without an inode.
  Deleting it decrements `inodes_count` once too often, below zero in the end.
* A write that waits while its file is deleted and the inode number given to a new file
  saves the old record over the new one (line 657). The new file's block is lost; by
  `HeldTaken` neither that one nor the old one is given to a third file. `LiveMarked` says that
  a late save cannot bring the deleted file itself back: it writes only where it finds the number.
* A write may point at an object that was freed and allocated anew. When the new create is
  interrupted before line 802, the object pairs a new inode number with an old block number,
  and once another create has used the number, the write saves the pair. With three tasks under
  the constants of `race` (and eight blocks and bits) TLC finds two inodes of the store with one
  block, after 36 steps. So `UniqueBlocks` is a claim of runs without writes.

The models contain more behaviour that a user of this code should know of, and no run is
about it:

* On ARM, taking block 31 takes blocks 31 to 63, for `1 << 31` is sign-extended.
* A successful unlink does not give its block back (line 291).
* A name used in a directory that was never listed follows a null pointer, for only
  `simplefs_iterate` builds the cache (line 976); `simple-test.sh` (lines 52 to 54) does so right
  after `mkdir`.
* A create in a full directory writes its record over slot 0 and then stops the kernel
  (`Create` in `DirCache`); the entry that was there is lost.
* A cache whose build ran out of memory (line 427) hides names that are in the block, so
  that they can be created twice.
* A file read in pieces repeats its start, as `read` copies from the start of the block
  whatever the position (line 528). Read through a file that is also open for writing, it moves
  the position past the end, and the next write leaves a hole with whatever the block held.
* A reader of `globalfifo` that was woken may find that another was faster, and a blocking
  read returns 0 bytes.
* `FIFO_CLEAR` wakes no writer: one that slept because the buffer was full sleeps on over
  an empty buffer until somebody else has written and somebody has read that.
* `mkfs` seeks over the rest of the blocks it writes: on a device that held an older file
  system, old records stay there.

**Bounds.** In `SimpleFS` two tasks are enough for every pairwise race; a lock wait involves
one holder and one waiter. Two names and four or five objects let a directory be nested, a
name be created again after its deletion, and a freed object be recycled while a third is
live. `MaxObjects`, `ImapBits`, `IntBits` are scaled together so that blocks run out (6 or 7
blocks, of which 4 are used by mkfs, and one bit more in `imap` than can be used): both the
full and the nearly full map are reached. `faults` has room for two new objects, so that a
create in a subdirectory meets a deletion in the root, and leaves writes to `race`, which
has room for one. `Word` is just above `MaxObjects`, so counters wrap in a few steps.
`MaxCrashes` is 1: a second power cut finds the same kind of disk as the first. `Sizes` has
one member: sizes do not influence what these runs check. Tasks and all objects but the
root are interchangeable and used as a symmetry set in every passing `SimpleFS` run without
liveness.

For `DirCache` three slots give each list a first, a middle and a last entry, and the fourth
name finds the directory full; names and inode numbers are interchangeable. One open file lists
into a buffer for one entry, which cuts off the rest of a larger directory, or for all; calls
through several files do not share a position. A file's block
has three bytes and `MaxPos` is 4, so that positions lie inside, at and past the end; one byte
is there at first, and lengths are 1 and 2. `globalfifo`'s buffer has two bytes, a write
brings one or two, a read asks for one or for more than there is; of two tasks one may
sleep as reader, writer or in `select` while the other plays every other part, one after
the other. The addresses in `hook` only have to lie apart; the run has the stub first and the
hooked function last. Three CPUs let one be in each of
the three pieces of code.

**Deadlock** is checked in every run: in `SimpleFS`, `SimplefsFile` and `GlobalFifo` a task can
always make a call or wait with somebody else able to move; `DirCache`, `GlobalFifo` and `Hook`
step for ever in `Stopped` once the kernel has stopped.

**Fairness.** `FairSpec` of `SimpleFS` and of `GlobalFifo` assumes strong fairness of each task's
`Step`, its progress in a system call. The kernel schedules a runnable task again and
again, and a kernel mutex or semaphore queues its waiters in order, so a task that waits
while the lock is freed again and again does get it. `GlobalFifo` also assumes that `insmod`
comes to its end, and `Hook` weak fairness of each CPU's next instruction. Nothing is assumed
of calls, packets, signals, timeouts, writeback, unloading or power cuts.

**Mutants.** Next to a definition stands, under a name that says what is wrong with it, a
faulty version that no specification uses: a block not taken, a lock kept on an error
path, a slot numbered one too late, a sync forgotten. For each property of each passing run
one of them makes TLC report that property.

## 4. Proofs

Every safety invariant, action property and refinement that a passing run checks is also
proved, for every value of the constants that the named assumptions allow: any numbers of
tasks, CPUs, names, objects, blocks, slots and bytes. The assumptions are those on the
constants (`LayoutAssumption`, `FSAssumption`, `DirAssumption`, `FileAssumption`,
`FifoAssumption`, `HookAssumption`), which TLC evaluates in every run. They say that the maps
have room for what mkfs puts there, that a word counts past `MaxObjects`, that `Shl` is a
function from blocks to sets of blocks, that `None` is no task and no object, that the buffer
and the block are there, and that the three functions `hook` deals with begin more than a
jump apart. Some theorems have a hypothesis of their own, given below.

Each proof has the same shape: the invariant is strengthened until it is inductive, one
lemma per action (or per group of actions that touch the same state) shows that it is kept,
and the theorem combines these with `PTL`. The strengthened invariants were first checked
with TLC on the constants of the runs.

### SimpleFS with signals and power cuts

* **`TypeCorrect`** (`SimpleFSProofs`): inductive is `TypeInv`, `TypeOK` with `ArgsOK`: the
  program counter says which objects a task was given, and steps read them.
* **`BlocksHeld`**: `HeldTaken` is inductive: a block that any record mentions (in the buffer, on
  disk, in memory) is one the free map no longer offers. No step sets a bit of `free_blocks`, and
  every step but `GetFreeBlock` and `NewInode` only copies records that exist (`KnownStep`, lemma
  `BlockKinds`); `NewInode` shows at most a block the recycled object had. So it survives power
  cuts, recycled objects and late saves. That blocks are never given back is what makes it hold.
* **`BlocksUnique`**, hypothesis: no writes. Inductive is `BlockInv`, `UniqueBlocks` with
  `HeldTaken`, from which a new block is nobody's, and `NoWriter`, from which a recycled object is
  seen by nobody before it has its block. Section 3 says what happens with writes.
* **`ChildrenLock`** and **`MgmtLock`**: inductive is `LockInv`. The two locks are dropped
  only at points where their task holds them (lemma `LockMove`).
* **`FfzHasRoom`** (`SimpleFSRoomProofs`): create looks for a zero bit of `imap` without
  testing that there is one. `RoomInv` counts: the inodes in the store, the one whose block
  is taken and which is yet to be added, and the blocks still to be found are together no more
  than what mkfs left. It is stated of the disk as well, which a power cut brings back.
  Hypothesis: `BitsSuffice`, mkfs leaves fewer blocks to be found than `imap` has bits besides
  its own three. On a 64 bit kernel it holds by lemma `WideMap`; on ARM only blocks 4 to 31
  are ever found, 3 + 28 < 32.
* **`LiveInodesMarked`**: `RoomInv` has that a slot is empty or holds its own number; with it,
  `Marked` (a number in the store has its bit) is inductive. A save changes no number.

### SimpleFS without signals

* **`LocksGivenBack`** and **`SbLock`** (`SimpleFSQuietProofs`), hypothesis `~Signals`, power
  cuts allowed: a task holds a lock exactly at the points that need it (`QuietLockInv`). Both
  directions are needed at once, as the code unlocks without asking whose lock it is.
  `SbLock` says that the interrupted path shown by run `sb_lock` is the only thing wrong with
  the super block lock.

The others have the hypothesis `Quiet`: no signals, no power cut, no writes, and enough bits in
`imap` (here the last one may be used). It is what run `quiet` instantiates. `NamesResolve` needs
the first three of them: an interrupted `inode_add` leaves a name without inode, a power cut
comes between a name and the save of its inode, and a late write saves an old record over a
new inode (section 3). With any one of the three allowed, TLC finds `NamesResolve` violated.

* **`NamesAreReal`**, **`OneNameEach`** (`SimpleFSQuietProofs`): inductive is `QuietInv`, in three
  layers. `BaseInv` is all of the above. `TreeInv` describes the tree in memory: each task
  works in an open directory of its own, on an object of its own; an object has one dentry.
  `NameInv` relates names to inodes: `StoreInv` (`imap` is what `fill_imap` would make of the
  store), `NamesInv` (names in blocks lead to live inodes, one each), `BoundInv` (a bound name
  is on disk with the same record, or being removed), `DirsApart` (two open directories have two
  blocks), `WorkInv` (what each point of a call has achieved so far) and `ClaimsApart` (no two
  tasks are about to name or delete the same inode). The delicate moment is an inode that is in
  the store and has no name yet, or no longer; `ClaimsApart` gives it to one task.
* **`Accounted`** (`SimpleFSCountProofs`): inductive with `CountInv`, which adds that after its
  test against the maximum a create still finds the count below it. Only the children lock,
  held all the way to `inode_add`, makes that true.
* **`Durable`**: inductive with `DiskInv`: the disk has every inode except the one a create has
  added and not saved yet.
* **`ChildrenCountRight`**: inductive with `ChildInv`: the count of names, the count in the object
  and the count in the store agree but for the one task between changing a name and saving
  the directory; that no count wraps follows from there being no more names than inodes.

### The other components

* **`DirCacheProofs`**: inductive is `DirInv`: `CacheSound`, `CacheMirrorsBlock` and `NamesUnique`
  (no two slots have one name, where builds were complete). **`Soundness`**, **`Coverage`**,
  **`TypeCorrect`** are its parts; **`NoOverwrite`** is an action property: the free list has no
  slot with an entry. **`Refinement`** shows each call a step of `DirMap`; `NamesUnique` is what
  makes `BlockMap` a map, and `CacheMirrorsBlock` what makes a listing all of it. The lemmas say what insertion and removal do to a list and what a
  build returns, by the count of slots it got to. A built list is described by its members and
  its order, not by recursion, so that it can be reasoned about.
* **`SimplefsFileProofs`**: `TypeInv`, `DataInv` (what is written on disk is in the buffer, and
  what a writer has copied stays where its next step needs it), `SolidInv` (sizes, writers'
  positions and readers' counts do not reach past what is on disk) and `SizeInv` (the inode lock
  excludes; sizes differ only while it is held). **`NoHoles`**, **`ReadsAreWritten`**,
  **`SizesSaved`** and **`AcknowledgedOnDisk`** follow; the first two except the states after
  `overshot`. **`SeparateFilesSafe`**, hypothesis: no open file is for both reading and writing,
  excepts none. `SolidInv` speaks of the disk and not of the
  buffer, since a power cut may come at any step.
* **`GlobalFifoProofs`**: `TypeInv`, `SemInv` (the semaphore is held exactly between `down` and
  `up`), `QueueInv` (the program counter says on which queues a task is) and `WokenInv`.
  **`NoLostWakeup`** and **`NoStaleEntry`** are parts of it, **`NoLostRoom`** the action property
  about writers, and **`Refinement`** shows each step a step of `BoundedFifo` or a stutter.
* **`HookProofs`**: `HookInv` says what each stage of loading and unloading has written to the two
  places (`TextOK`) and where a CPU in a call can be by then (`OnTheWay`). **`NoStrayJump`** rests
  on lemma `Offsets`: the two relative displacements lead to the hook and to the rest of the
  function, forwards or backwards, wherever the three functions are.

### Model-checked only

Liveness, `CallsReturn` of `SimpleFS` and of `Hook` and `CallsEnd` of `GlobalFifo`, is outside this
prover. The four runs that expect a violation are counterexamples and need no proof.

## 5. Not modelled

* Of `simplefs`: failing reads of the device where the code says `BUG_ON`; the null pointer that
  `kmem_cache_alloc` may return at lines 484 and 773, which is followed unseen; an image that is
  not simplefs, failing allocations at mount, module load and unload; the super block's
  buffer being recycled after `fill_super` released it (line 1208); what the record in
  front of the first one overwrites; a mutex whose count was raised twice by two wrong
  unlocks; `pread` and `pwrite`; access times and permissions.
* Of `mkfs-simplefs`: an image half written, or written over an older one. The module's
  checks at mount do not tell such an image from a good one, and nothing it does then has
  a right answer to compare with.
* `app/lock.cpp` demonstrates a deadlock of two threads on two mutexes; it promises nothing.
  `mm/mm_debug.c` prints one unprotected buffer, and promises nothing either; its buffer is
  freed before the proc entry that uses it is removed. `mm_spinlock` leaks memory for
  kmemleak to find and keeps no state.
* `*.mod.c` and `*.cmd` are generated. The scripts hold no logic; `simple-test.sh` is used as
  a statement of what the file system should do.

## 6. Plan

1. `SimplefsLayout`, `SimpleFS`, `SimpleFSProofs`, `DirMap`, `DirCache`: done.
2. `BoundedFifo`, `GlobalFifo`, `SimplefsFile`, `Hook`: done.
3. Theorems about every component and both refinements: done.
4. Left: weaken `Quiet`. Without signals and power cuts, TLC finds no state in which writes
   violate `StoreAccounted` or `NamesInjective` (six blocks, four objects): a late write replaces
   a record by another of the same number. The theorems `Accounted` and `OneNameEach` exclude
   writes because they rest on `QuietInv`, which a late write does violate. With power cuts, what
   is left of `NamesResolve` (a name leads to its inode, or to one that was never saved) could be
   stated and proved.
