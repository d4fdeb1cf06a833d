------------------------------ MODULE DirCache ------------------------------
(***************************************************************************)
(* One directory of simplefs: its data block, an array of                  *)
(* simplefs_dir_record, and the cache over it that hangs off d_fsdata, two *)
(* lists of entries that say which slots are used and which are free.      *)
(*                                                                         *)
(* The i_mutex of the directory lets one call in at a time, so a call is   *)
(* one action.  oops stands for a kernel that stopped: a BUG_ON, or a      *)
(* pointer followed to nowhere.  Of the position of an open file of the    *)
(* directory only whether it is 0 is ever looked at.                       *)
(***************************************************************************)
EXTENDS Naturals, Sequences, FiniteSets

CONSTANTS
  Names,     \* names used in the directory
  DirInos,   \* inode numbers its entries may have
  Slots,     \* records in a block: 4096 / sizeof(struct simplefs_dir_record), 15
  NoName,    \* the name in a record that was cleared
  Files,     \* open files of the directory: what a process lists it through
  Rooms,     \* numbers of entries that may fit into the buffer of one listing call
  NoMemory   \* TRUE: an allocation may fail

ASSUME DirAssumption ==
  /\ Slots \in Nat \ {0}
  /\ 0 \notin DirInos
  /\ NoName \notin Names
  /\ Rooms \subseteq Nat
  /\ NoMemory \in BOOLEAN

VARIABLES
  slot,      \* the data block
  cache,     \* d_fsdata: a record of two lists, or Null
  oops,      \* the kernel stopped
  short,     \* history: some build did not get to the end of the block
  pos,       \* per file: "closed", or whether its f_pos is still 0
  cut,       \* history: the open files whose listing lost entries
  result     \* what the last call reported

vars == <<slot, cache, oops, short, pos, cut, result>>

(* What belongs to the open files *)
files == <<pos, cut>>

SlotNos == 0 .. (Slots - 1)

(* A record whose inode_no is 0 is free. *)
Zero    == [name |-> NoName, ino |-> 0]
Record  == [name : Names, ino : DirInos] \cup {Zero}

(* struct simplefs_cache_entry; the record is stale while the entry is free. *)
Entry   == [no : SlotNos, rec : Record]

Null    == [used |-> <<>>, free |-> <<>>, null |-> TRUE]
Cache   == [used : Seq(Entry), free : Seq(Entry), null : {FALSE}]

Reports(op, recs) == result' = [op |-> op, entries |-> {<<r.name, r.ino>> : r \in recs}]

Stops == oops' = TRUE /\ UNCHANGED <<cache, short, pos, cut, result>>

Runs == ~oops

-----------------------------------------------------------------------------
(* used_cache_entry_get: p is the first entry of the list with the name. *)
FirstWith(list, x, p) ==
  /\ p \in DOMAIN list
  /\ list[p].rec.name = x
  /\ \A q \in 1 .. (p - 1) : list[q].rec.name # x

Absent(list, x) == \A p \in DOMAIN list : list[p].rec.name # x

(* As in SimpleFS, an operator whose name says what is wrong with it is the
   faulty version of the one that follows, and is used in no specification. *)

(* list_del of the first free entry *)
StillFree(list) == list

Taken(list) == Tail(list)

(* cache_entry_insert: p is before the first entry with a higher number. *)
AtTheEnd(list, e, p) == p = Len(list) + 1

BeforeHigher(list, e, p) ==
  /\ \A q \in 1 .. (p - 1) : ~(e.no < list[q].no)
  /\ p \in DOMAIN list => e.no < list[p].no

With(list, e, p) == SubSeq(list, 1, p - 1) \o <<e>> \o SubSeq(list, p, Len(list))

Without(list, p) == SubSeq(list, 1, p - 1) \o SubSeq(list, p + 1, Len(list))

(* list_add to the free list *)
FreedNot(list, e) == list

Freed(list, e) == <<e>> \o list

(* The loop of dir_cache_build: the records it gets to before memory runs out *)
ReachedShort(n) == 0 .. (n - 2)

Reached(n) == 0 .. (n - 1)

(* The cache entry of record k *)
EntryNumberedFromOne(block, k) == [no |-> k + 1, rec |-> block[k]]

EntryOf(block, k) == [no |-> k, rec |-> block[k]]

(* list_add_tail of each record of K as the loop comes to it: in their order *)
InOrder(block, K) ==
  {[p \in DOMAIN g |-> EntryOf(block, g[p])] :
     g \in {h \in [1 .. Cardinality(K) -> K] :
              /\ \A p, q \in DOMAIN h : p < q => h[p] < h[q]
              /\ \A k \in K : \E p \in DOMAIN h : h[p] = k}}

(* dir_cache_build, out of memory after n records *)
Built(block, n) ==
  {[used |-> u, free |-> f, null |-> FALSE] :
     u \in InOrder(block, {k \in Reached(n) : block[k].ino # 0}),
     f \in InOrder(block, {k \in Reached(n) : block[k].ino = 0})}

-----------------------------------------------------------------------------
Init ==
  /\ slot \in [SlotNos -> Record]
  /\ \A k, l \in SlotNos : slot[k] # Zero /\ slot[l] # Zero =>
       k = l \/ (slot[k].name # slot[l].name /\ slot[k].ino # slot[l].ino)
  /\ cache = Null
  /\ oops = FALSE
  /\ short = FALSE
  /\ pos = [f \in Files |-> "closed"]
  /\ cut = {}
  /\ result = [op |-> "none", entries |-> {}]

(* A build that runs out of memory stops early, and nobody asks. *)
Builds ==
  \E n \in 0 .. Slots :
    /\ NoMemory \/ n = Slots
    /\ cache' \in Built(slot, n)
    /\ short' = (short \/ n # Slots)

(* opendir: a new open file is at its beginning. *)
Open(f) ==
  /\ Runs
  /\ pos[f] = "closed"
  /\ pos' = [pos EXCEPT ![f] = "zero"]
  /\ UNCHANGED <<slot, cache, oops, short, cut, result>>

(* closedir: there is no way back to 0 but this, dir_operations has no llseek. *)
Close(f) ==
  /\ Runs
  /\ pos[f] # "closed"
  /\ pos' = [pos EXCEPT ![f] = "closed"]
  /\ cut' = cut \ {f}
  /\ UNCHANGED <<slot, cache, oops, short, result>>

(* dir_emit into a buffer for n entries.  They are all of the same length, so
   that after one that did not fit no other does. *)
EmittedOneLess(list, n) == {list[p].rec : p \in {q \in DOMAIN list : q < n}}

Emitted(list, n) == {list[p].rec : p \in {q \in DOMAIN list : q <= n}}

(* What the calls for a listing leave in the buffer is seen with the file
   and the room they were given. *)
Lists(f, n, recs) ==
  result' = [op |-> "iterate", file |-> f, room |-> n,
             entries |-> {<<r.name, r.ino>> : r \in recs}]

(***************************************************************************)
(* simplefs_iterate, with room for n entries.  The cache is built if there *)
(* is none; the test for a failed allocation looks at another pointer.     *)
(* At a position that is not 0 nothing more is emitted.  At 0 every used   *)
(* entry is, and moves the position on, also when dir_emit said that it    *)
(* did not fit.                                                            *)
(***************************************************************************)
Iterate(f, n) ==
  /\ Runs
  /\ pos[f] # "closed"
  /\ \/ /\ \/ cache.null /\ Builds
           \/ ~cache.null /\ UNCHANGED <<cache, short>>
        /\ \/ /\ pos[f] = "moved"
              /\ Lists(f, n, {})
              /\ UNCHANGED files
           \/ /\ pos[f] = "zero"
              /\ Lists(f, n, Emitted(cache'.used, n))
              /\ pos' = [pos EXCEPT ![f] = IF cache'.used = <<>> THEN "zero" ELSE "moved"]
              /\ cut' = IF Len(cache'.used) > n THEN cut \cup {f} ELSE cut
        /\ UNCHANGED oops
     \/ NoMemory /\ cache.null /\ Stops
  /\ UNCHANGED slot

(* simplefs_lookup: without a cache there is no list to search. *)
Lookup(x) ==
  /\ Runs
  /\ \/ cache.null /\ Stops
     \/ /\ ~cache.null
        /\ \/ Absent(cache.used, x) /\ Reports("lookup", {})
           \/ \E p \in DOMAIN cache.used :
                FirstWith(cache.used, x, p) /\ Reports("lookup", {cache.used[p].rec})
        /\ UNCHANGED <<cache, oops, short, pos, cut>>
  /\ UNCHANGED slot

(***************************************************************************)
(* The part of simplefs_create_fs_object that adds the entry, of a name    *)
(* that lookup did not find.  With no free entry, list_first_entry takes   *)
(* the list head for one: its entry_no reads as 0, the record goes over    *)
(* slot 0 of the buffer and over the head of the used list, which is then  *)
(* walked.                                                                 *)
(***************************************************************************)
Create(x, i) ==
  /\ Runs
  /\ ~cache.null /\ Absent(cache.used, x)
  /\ \A k \in SlotNos : slot[k].ino # i
  /\ LET rec == [name |-> x, ino |-> i] IN
     \/ /\ cache.free = <<>>
        /\ slot' = [slot EXCEPT ![0] = rec]
        /\ Stops
     \/ /\ cache.free # <<>>
        /\ LET e == [no |-> Head(cache.free).no, rec |-> rec] IN
           /\ slot' = [slot EXCEPT ![e.no] = rec]
           /\ \E p \in 1 .. (Len(cache.used) + 1) :
                /\ BeforeHigher(cache.used, e, p)
                /\ cache' = [cache EXCEPT !.used = With(@, e, p), !.free = Taken(@)]
        /\ Reports("create", {rec})
        /\ UNCHANGED <<oops, short, pos, cut>>

(* The part of simplefs_unlink that removes the entry, of a name that lookup
   found: its slot is cleared, its entry goes to the head of the free list. *)
Unlink(x) ==
  /\ Runs
  /\ ~cache.null
  /\ \E p \in DOMAIN cache.used :
       /\ FirstWith(cache.used, x, p)
       /\ slot' = [slot EXCEPT ![cache.used[p].no] = Zero]
       /\ cache' = [cache EXCEPT !.used = Without(@, p), !.free = Freed(@, cache.used[p])]
       /\ Reports("unlink", {cache.used[p].rec})
  /\ UNCHANGED <<oops, short, pos, cut>>

(* simplefs_dentry_release: the dentry goes, which no file has open; the
   block stays. *)
Release ==
  /\ Runs
  /\ ~cache.null
  /\ \A f \in Files : pos[f] = "closed"
  /\ cache' = Null
  /\ UNCHANGED <<slot, oops, short, pos, cut, result>>

Stopped == oops /\ UNCHANGED vars

Next ==
  \/ Release \/ Stopped
  \/ \E f \in Files : Open(f) \/ Close(f)
  \/ \E f \in Files, n \in Rooms : Iterate(f, n)
  \/ \E x \in Names : Lookup(x) \/ Unlink(x)
  \/ \E x \in Names, i \in DirInos : Create(x, i)

Spec == Init /\ [][Next]_vars

-----------------------------------------------------------------------------
(* Every variable keeps its type: an entry of the cache has the number of a
   slot of the block and nothing past its end. *)
TypeOK ==
  /\ slot \in [SlotNos -> Record]
  /\ cache \in Cache \cup {Null}
  /\ oops \in BOOLEAN /\ short \in BOOLEAN
  /\ pos \in [Files -> {"closed", "zero", "moved"}]
  /\ cut \subseteq Files

(* dir_cache_build, cache_entry_insert, list_add to free: however much of the
   block a build got to, while the kernel runs no entry is wrong: a used one
   has what is in its slot, used ones are in the order of their slots, a free
   one has an empty slot, and no slot is free twice. *)
CacheSound ==
  Runs =>
    /\ \A p \in DOMAIN cache.used :
         cache.used[p].rec # Zero /\ slot[cache.used[p].no] = cache.used[p].rec
    /\ \A p, q \in DOMAIN cache.used : p < q => cache.used[p].no < cache.used[q].no
    /\ \A p \in DOMAIN cache.free : slot[cache.free[p].no] = Zero
    /\ \A p, q \in DOMAIN cache.free : p # q => cache.free[p].no # cache.free[q].no

(* The same and, where every build got to the end of the block: whatever was
   created and deleted in whatever order, the two lists cover the block. *)
CacheMirrorsBlock ==
  Runs /\ ~short /\ ~cache.null =>
    SlotNos = {cache.used[p].no : p \in DOMAIN cache.used}
                \cup {cache.free[p].no : p \in DOMAIN cache.free}

(* simplefs_create_fs_object: as long as the kernel runs, a new entry never
   goes over one that is there, not even through a cache that is short. *)
EntriesKept ==
  [][~oops' => \A k \in SlotNos : slot[k] # Zero => slot'[k] \in {slot[k], Zero}]_vars

(* The names in the block, each with its inode number. *)
BlockMap ==
  LET S == {slot[k].name : k \in {l \in SlotNos : slot[l] # Zero}}
  IN [x \in S |-> slot[CHOOSE k \in SlotNos : slot[k].name = x].ino]

Abstract == INSTANCE DirMap WITH map <- BlockMap, at <- pos, ok <- ~oops /\ ~short

(* What is found, added and removed through the cache is what a map from
   names to inode numbers would say, also after the cache was dropped and
   built again from the block, until the kernel stops or runs out of memory
   in a build.  So is what is listed by the first call through an open file
   that has anything to list: all of the map, or as many of its entries as
   the buffer has room for.  Every later call through that file lists
   nothing, whether or not something is left. *)
ImplementsDirMap == Abstract!Spec

(* simplefs_iterate's "reading pos to figure if we have filled in all data":
   a position that is not 0 says that every entry went into the buffer. *)
PosMeansAllFilled == \A f \in Files : pos[f] = "moved" => f \notin cut
=============================================================================
