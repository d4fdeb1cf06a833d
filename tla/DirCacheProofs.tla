--------------------------- MODULE DirCacheProofs ---------------------------
(***************************************************************************)
(* What the cache of a directory guarantees for a block of any number of   *)
(* slots and any numbers of names and inodes, also when builds run out of  *)
(* memory.                                                                 *)
(***************************************************************************)
EXTENDS DirCache, FiniteSetTheorems, FunctionTheorems, SequenceTheorems, TLAPS

(* Two entries of the block have different names, as long as every build got
   to its end: a create through a short cache may add a name again. *)
NamesUnique ==
  Runs /\ ~short => \A k, l \in SlotNos :
    slot[k] # Zero /\ slot[l] # Zero /\ slot[k].name = slot[l].name => k = l

DirInv == CacheSound /\ CacheMirrorsBlock /\ NamesUnique

-----------------------------------------------------------------------------
(* What the operations on lists return. *)

(* new is the list with e at place p, and what came from there on one up. *)
Inserted(list, e, p, new) ==
  /\ Len(new) = Len(list) + 1
  /\ \A k \in 1 .. (Len(list) + 1) :
       new[k] = IF k < p THEN list[k] ELSE IF k = p THEN e ELSE list[k - 1]

(* new is the list without its place p. *)
Removed(list, p, new) ==
  /\ Len(new) = Len(list) - 1
  /\ \A k \in 1 .. (Len(list) - 1) : new[k] = IF k < p THEN list[k] ELSE list[k + 1]

(* cache_entry_insert moves what comes after e up by one. *)
LEMMA WithList ==
  ASSUME NEW S, NEW list \in Seq(S), NEW e \in S, NEW p \in 1 .. (Len(list) + 1)
  PROVE  With(list, e, p) \in Seq(S) /\ Inserted(list, e, p, With(list, e, p))
<1> DEFINE n == Len(list)
           a == SubSeq(list, 1, p - 1)
           b == <<e>>
           c == SubSeq(list, p, n)
<1>1. n \in Nat /\ p \in Nat /\ p >= 1 /\ p <= n + 1
  BY LenProperties
<1>2. \A k \in 1 .. n : list[k] \in S
  BY ElementOfSeq
<1> HIDE DEF n
<1>3. a \in Seq(S) /\ Len(a) = p - 1 /\ \A k \in 1 .. (p - 1) : a[k] = list[k]
  <2>1. \A k \in 1 .. (p - 1) : list[k] \in S
    BY <1>1, <1>2
  <2>2. /\ a \in Seq(S) /\ Len(a) = IF 1 <= p - 1 THEN p - 1 - 1 + 1 ELSE 0
        /\ \A k \in 1 .. (p - 1 - 1 + 1) : a[k] = list[1 + k - 1]
    BY <1>1, <2>1, SubSeqProperties
  <2> HIDE DEF a
  <2>3. p - 1 - 1 + 1 = p - 1 /\ \A k \in 1 .. (p - 1) : 1 + k - 1 = k
    BY <1>1
  <2> QED
    BY <1>1, <2>2, <2>3
<1>4. b \in Seq(S) /\ Len(b) = 1 /\ b[1] = e
  OBVIOUS
<1>5. c \in Seq(S) /\ Len(c) = n - p + 1 /\ \A k \in 1 .. (n - p + 1) : c[k] = list[p + k - 1]
  <2>1. \A k \in p .. n : list[k] \in S
    BY <1>1, <1>2
  <2>2. /\ c \in Seq(S) /\ Len(c) = IF p <= n THEN n - p + 1 ELSE 0
        /\ \A k \in 1 .. (n - p + 1) : c[k] = list[p + k - 1]
    BY <1>1, <2>1, SubSeqProperties
  <2> HIDE DEF c
  <2> QED
    BY <1>1, <2>2
<1> HIDE DEF a, b, c
<1>6. /\ a \o b \in Seq(S) /\ Len(a \o b) = p
      /\ \A k \in 1 .. p : (a \o b)[k] = IF k <= p - 1 THEN a[k] ELSE b[k - (p - 1)]
  <2>1. /\ a \o b \in Seq(S) /\ Len(a \o b) = Len(a) + Len(b)
        /\ \A k \in 1 .. Len(a) + Len(b) :
             (a \o b)[k] = IF k <= Len(a) THEN a[k] ELSE b[k - Len(a)]
    BY <1>3, <1>4, ConcatProperties
  <2>2. Len(a) + Len(b) = p
    BY <1>1, <1>3, <1>4
  <2> QED
    BY <1>3, <2>1, <2>2
<1> DEFINE ab == a \o b
<1> HIDE DEF ab
<1>7. /\ ab \o c \in Seq(S) /\ Len(ab \o c) = n + 1
      /\ \A k \in 1 .. (n + 1) : (ab \o c)[k] = IF k <= p THEN ab[k] ELSE c[k - p]
  <2>1. /\ ab \o c \in Seq(S) /\ Len(ab \o c) = Len(ab) + Len(c)
        /\ \A k \in 1 .. Len(ab) + Len(c) :
             (ab \o c)[k] = IF k <= Len(ab) THEN ab[k] ELSE c[k - Len(ab)]
    <3>1. ab \in Seq(S) /\ c \in Seq(S)
      BY <1>5, <1>6 DEF ab
    <3> HIDE DEF ab
    <3> QED
      BY <3>1, ConcatProperties
  <2>2. Len(ab) = p /\ Len(ab) + Len(c) = n + 1
    BY <1>1, <1>5, <1>6 DEF ab
  <2> QED
    BY <2>1, <2>2
<1>8. ASSUME NEW k \in 1 .. (n + 1)
      PROVE  (ab \o c)[k] = IF k < p THEN list[k] ELSE IF k = p THEN e ELSE list[k - 1]
  <2>1. CASE k < p
    BY <1>1, <1>3, <1>6, <1>7, <2>1 DEF ab
  <2>2. CASE k = p
    BY <1>1, <1>4, <1>6, <1>7, <2>2 DEF ab
  <2>3. CASE k > p
    <3>1. k - p \in 1 .. (n - p + 1) /\ p + (k - p) - 1 = k - 1
      BY <1>1, <2>3
    <3>2. c[k - p] = list[p + (k - p) - 1]
      BY <1>5, <3>1
    <3>3. ~(k <= p) /\ ~(k < p) /\ k # p
      BY <1>1, <2>3
    <3> QED
      BY <1>7, <3>1, <3>2, <3>3
  <2>4. k < p \/ k = p \/ k > p
    BY <1>1
  <2> QED
    BY <2>1, <2>2, <2>3, <2>4
<1> QED
  BY <1>7, <1>8 DEF With, Inserted, ab, a, b, c, n

(* list_del moves what comes after p down by one. *)
LEMMA WithoutList ==
  ASSUME NEW S, NEW list \in Seq(S), NEW p \in 1 .. Len(list)
  PROVE  Without(list, p) \in Seq(S) /\ Removed(list, p, Without(list, p))
<1> DEFINE n == Len(list)
           a == SubSeq(list, 1, p - 1)
           c == SubSeq(list, p + 1, n)
<1>1. n \in Nat /\ p \in Nat /\ p >= 1 /\ p <= n
  BY LenProperties
<1>2. \A k \in 1 .. n : list[k] \in S
  BY ElementOfSeq
<1> HIDE DEF n
<1>3. a \in Seq(S) /\ Len(a) = p - 1 /\ \A k \in 1 .. (p - 1) : a[k] = list[k]
  <2>1. \A k \in 1 .. (p - 1) : list[k] \in S
    BY <1>1, <1>2
  <2>2. /\ a \in Seq(S) /\ Len(a) = IF 1 <= p - 1 THEN p - 1 - 1 + 1 ELSE 0
        /\ \A k \in 1 .. (p - 1 - 1 + 1) : a[k] = list[1 + k - 1]
    BY <1>1, <2>1, SubSeqProperties
  <2> HIDE DEF a
  <2>3. p - 1 - 1 + 1 = p - 1 /\ \A k \in 1 .. (p - 1) : 1 + k - 1 = k
    BY <1>1
  <2> QED
    BY <1>1, <2>2, <2>3
<1>4. c \in Seq(S) /\ Len(c) = n - p /\ \A k \in 1 .. (n - p) : c[k] = list[p + k]
  <2>1. \A k \in (p + 1) .. n : list[k] \in S
    BY <1>1, <1>2
  <2>2. /\ c \in Seq(S) /\ Len(c) = IF p + 1 <= n THEN n - (p + 1) + 1 ELSE 0
        /\ \A k \in 1 .. (n - (p + 1) + 1) : c[k] = list[p + 1 + k - 1]
    BY <1>1, <2>1, SubSeqProperties
  <2> HIDE DEF c
  <2>3. n - (p + 1) + 1 = n - p /\ \A k \in 1 .. (n - p) : p + 1 + k - 1 = p + k
    BY <1>1
  <2> QED
    BY <1>1, <2>2, <2>3
<1> HIDE DEF a, c
<1>5. /\ a \o c \in Seq(S) /\ Len(a \o c) = n - 1
      /\ \A k \in 1 .. (n - 1) : (a \o c)[k] = IF k <= p - 1 THEN a[k] ELSE c[k - (p - 1)]
  <2>1. /\ a \o c \in Seq(S) /\ Len(a \o c) = Len(a) + Len(c)
        /\ \A k \in 1 .. Len(a) + Len(c) :
             (a \o c)[k] = IF k <= Len(a) THEN a[k] ELSE c[k - Len(a)]
    BY <1>3, <1>4, ConcatProperties
  <2>2. Len(a) = p - 1 /\ Len(a) + Len(c) = n - 1
    BY <1>1, <1>3, <1>4
  <2> QED
    BY <2>1, <2>2
<1>6. ASSUME NEW k \in 1 .. (n - 1)
      PROVE  (a \o c)[k] = IF k < p THEN list[k] ELSE list[k + 1]
  <2>1. CASE k < p
    BY <1>1, <1>3, <1>5, <2>1
  <2>2. CASE ~(k < p)
    <3>1. k - (p - 1) \in 1 .. (n - p) /\ p + (k - (p - 1)) = k + 1
      BY <1>1, <2>2
    <3>2. c[k - (p - 1)] = list[p + (k - (p - 1))]
      BY <1>4, <3>1
    <3> QED
      BY <1>1, <1>5, <2>2, <3>1, <3>2
  <2> QED
    BY <2>1, <2>2
<1> QED
  BY <1>5, <1>6 DEF Without, Removed, a, c, n

(* list_add puts e in front. *)
LEMMA FreedList ==
  ASSUME NEW S, NEW list \in Seq(S), NEW e \in S
  PROVE  /\ Freed(list, e) \in Seq(S) /\ Len(Freed(list, e)) = Len(list) + 1
         /\ Freed(list, e)[1] = e
         /\ \A k \in 2 .. (Len(list) + 1) : Freed(list, e)[k] = list[k - 1]
<1> DEFINE b == <<e>>
<1>1. b \in Seq(S) /\ Len(b) = 1 /\ b[1] = e
  OBVIOUS
<1> HIDE DEF b
<1>2. Len(list) \in Nat
  BY LenProperties
<1>3. /\ b \o list \in Seq(S) /\ Len(b \o list) = Len(b) + Len(list)
      /\ \A k \in 1 .. Len(b) + Len(list) :
           (b \o list)[k] = IF k <= Len(b) THEN b[k] ELSE list[k - Len(b)]
  BY <1>1, ConcatProperties
<1>4. Len(b \o list) = Len(list) + 1
  BY <1>1, <1>2, <1>3
<1>5. (b \o list)[1] = e
  <2>1. 1 \in 1 .. Len(b) + Len(list) /\ 1 <= Len(b)
    BY <1>1, <1>2
  <2> QED
    BY <1>1, <1>3, <2>1
<1>6. ASSUME NEW k \in 2 .. (Len(list) + 1)
      PROVE  (b \o list)[k] = list[k - 1]
  <2>1. k \in 1 .. Len(b) + Len(list) /\ ~(k <= Len(b)) /\ k - Len(b) = k - 1
    BY <1>1, <1>2
  <2> QED
    BY <1>3, <2>1
<1> QED
  BY <1>3, <1>4, <1>5, <1>6 DEF Freed, b

(* What dir_cache_build makes of the records K: an entry for each, with what
   is in its slot, in the order of the slots *)
LEMMA InOrderList ==
  ASSUME NEW block \in [SlotNos -> Record], NEW K \in SUBSET SlotNos, NEW u \in InOrder(block, K)
  PROVE  /\ u \in Seq(Entry)
         /\ \A p \in DOMAIN u : u[p].no \in K /\ u[p].rec = block[u[p].no]
         /\ \A p, q \in DOMAIN u : p < q => u[p].no < u[q].no
         /\ \A k \in K : \E p \in DOMAIN u : u[p].no = k
<1> DEFINE n == Cardinality(K)
<1>1. n \in Nat
  <2>1. IsFiniteSet(SlotNos)
    BY FS_Interval, DirAssumption DEF SlotNos
  <2>2. IsFiniteSet(K)
    BY <2>1, FS_Subset
  <2> QED
    BY <2>2, FS_CardinalityType
<1> HIDE DEF n
<1>2. PICK h \in [1 .. n -> K] :
        /\ \A p, q \in DOMAIN h : p < q => h[p] < h[q]
        /\ \A k \in K : \E p \in DOMAIN h : h[p] = k
        /\ u = [p \in DOMAIN h |-> EntryOf(block, h[p])]
  BY DEF InOrder, n
<1>3. DOMAIN h = 1 .. n /\ DOMAIN u = 1 .. n
  BY <1>2
<1>4. \A p \in 1 .. n : u[p] = [no |-> h[p], rec |-> block[h[p]]] /\ h[p] \in K
  BY <1>2, <1>3 DEF EntryOf
<1>5. \A p \in 1 .. n : u[p].no = h[p] /\ u[p].rec = block[h[p]] /\ u[p] \in Entry
  <2> TAKE p \in 1 .. n
  <2>1. h[p] \in SlotNos /\ block[h[p]] \in Record
    BY <1>4
  <2>2. u[p] = [no |-> h[p], rec |-> block[h[p]]]
    BY <1>4
  <2>3. [no |-> h[p], rec |-> block[h[p]]] \in Entry
    BY <2>1 DEF Entry
  <2> QED
    BY <2>2, <2>3
<1>6. u \in Seq(Entry)
  <2>1. u = [p \in 1 .. n |-> EntryOf(block, h[p])]
    BY <1>2, <1>3
  <2>2. \A p \in 1 .. n : EntryOf(block, h[p]) \in Entry
    BY <1>4, <1>5 DEF EntryOf
  <2> QED
    BY <1>1, <2>1, <2>2, IsASeq
<1> QED
  BY <1>2, <1>3, <1>4, <1>5, <1>6

-----------------------------------------------------------------------------
(* A record is free exactly when its inode number is 0. *)
LEMMA RecordFacts ==
  \A r \in Record : /\ r.ino = 0 <=> r = Zero
                    /\ r # Zero => r.name \in Names /\ r.ino \in DirInos
                    /\ r = Zero => r.name \notin Names
BY DirAssumption DEF Record, Zero

(* What a build leaves *)
LEMMA BuildList ==
  ASSUME TypeOK, NEW n \in 0 .. Slots, NEW c \in Built(slot, n)
  PROVE  /\ c \in Cache
         /\ \A p \in DOMAIN c.used : slot[c.used[p].no] # Zero /\ slot[c.used[p].no] = c.used[p].rec
         /\ \A p, q \in DOMAIN c.used : p < q => c.used[p].no < c.used[q].no
         /\ \A p \in DOMAIN c.free : slot[c.free[p].no] = Zero
         /\ \A p, q \in DOMAIN c.free : p < q => c.free[p].no < c.free[q].no
         /\ n = Slots => SlotNos = {c.used[p].no : p \in DOMAIN c.used}
                                     \cup {c.free[p].no : p \in DOMAIN c.free}
<1> DEFINE U == {k \in Reached(n) : slot[k].ino # 0}
           F == {k \in Reached(n) : slot[k].ino = 0}
<1>1. PICK u \in InOrder(slot, U), f \in InOrder(slot, F) : c = [used |-> u, free |-> f, null |-> FALSE]
  BY DEF Built
<1>2. U \in SUBSET SlotNos /\ F \in SUBSET SlotNos
  <2>1. Reached(n) \subseteq SlotNos
    BY DirAssumption DEF Reached, SlotNos
  <2> QED
    BY <2>1
<1>3. \A k \in U : slot[k] # Zero
  BY <1>2, RecordFacts DEF TypeOK
<1>4. \A k \in F : slot[k] = Zero
  BY <1>2, RecordFacts DEF TypeOK
<1>5. n = Slots => SlotNos = U \cup F
  BY DEF Reached, SlotNos
<1> HIDE DEF U, F
<1>6. c.used = u /\ c.free = f
  BY <1>1
<1>7. /\ u \in Seq(Entry)
      /\ \A p \in DOMAIN u : u[p].no \in U /\ u[p].rec = slot[u[p].no]
      /\ \A p, q \in DOMAIN u : p < q => u[p].no < u[q].no
      /\ \A k \in U : \E p \in DOMAIN u : u[p].no = k
  BY <1>1, <1>2, InOrderList DEF TypeOK
<1>8. /\ f \in Seq(Entry)
      /\ \A p \in DOMAIN f : f[p].no \in F
      /\ \A p, q \in DOMAIN f : p < q => f[p].no < f[q].no
      /\ \A k \in F : \E p \in DOMAIN f : f[p].no = k
  BY <1>1, <1>2, InOrderList DEF TypeOK
<1>9. c \in Cache
  BY <1>1, <1>7, <1>8 DEF Cache
<1>10. n = Slots => SlotNos = {u[p].no : p \in DOMAIN u} \cup {f[p].no : p \in DOMAIN f}
  BY <1>2, <1>5, <1>7, <1>8
<1> QED
  BY <1>3, <1>4, <1>6, <1>7, <1>8, <1>9, <1>10

-----------------------------------------------------------------------------
(* The fields of a cache that exists *)
LEMMA CacheFields ==
  ASSUME TypeOK
  PROVE  /\ cache.used \in Seq(Entry) /\ cache.free \in Seq(Entry)
         /\ ~cache.null => cache \in Cache
         /\ cache.null => cache = Null
<1>1. CASE cache \in Cache
  BY <1>1 DEF Cache
<1>2. CASE cache = Null
  <2>1. cache.used = <<>> /\ cache.free = <<>> /\ cache.null = TRUE
    BY <1>2 DEF Null
  <2> QED
    BY <1>2, <2>1
<1> QED
  BY <1>1, <1>2 DEF TypeOK

(* What simplefs_create_fs_object makes of the block and of the lists *)
LEMMA CreateLists ==
  ASSUME TypeOK, NEW x \in Names, NEW i \in DirInos, Create(x, i), ~oops'
  PROVE  \E e \in Entry, p \in 1 .. (Len(cache.used) + 1) :
           /\ e = [no |-> cache.free[1].no, rec |-> [name |-> x, ino |-> i]]
           /\ cache.free # <<>> /\ 1 \in DOMAIN cache.free
           /\ BeforeHigher(cache.used, e, p)
           /\ slot' = [slot EXCEPT ![e.no] = e.rec]
           /\ cache' = [used |-> With(cache.used, e, p), free |-> Tail(cache.free), null |-> FALSE]
           /\ UNCHANGED <<oops, short>>
           /\ Reports("create", {e.rec})
<1> DEFINE rec == [name |-> x, ino |-> i]
           e == [no |-> Head(cache.free).no, rec |-> rec]
<1>1. /\ cache.free # <<>> /\ ~cache.null
      /\ slot' = [slot EXCEPT ![e.no] = rec]
      /\ \E p \in 1 .. (Len(cache.used) + 1) :
           /\ BeforeHigher(cache.used, e, p)
           /\ cache' = [cache EXCEPT !.used = With(@, e, p), !.free = Taken(@)]
      /\ Reports("create", {rec})
      /\ UNCHANGED <<oops, short>>
  BY DEF Create, Stops
<1>2. cache.free \in Seq(Entry) /\ cache \in Cache
  BY <1>1, CacheFields
<1>3. Head(cache.free) = cache.free[1] /\ 1 \in DOMAIN cache.free /\ Head(cache.free) \in Entry
  BY <1>1, <1>2
<1>4. rec \in Record
  BY DEF Record
<1>5. e \in Entry /\ e = [no |-> cache.free[1].no, rec |-> rec] /\ e.rec = rec
  BY <1>3, <1>4 DEF Entry
<1>6. PICK p \in 1 .. (Len(cache.used) + 1) :
           /\ BeforeHigher(cache.used, e, p)
           /\ cache' = [cache EXCEPT !.used = With(@, e, p), !.free = Taken(@)]
  BY <1>1
<1> HIDE DEF e
<1>7. cache' = [used |-> With(cache.used, e, p), free |-> Tail(cache.free), null |-> FALSE]
  BY <1>2, <1>6 DEF Cache, Taken
<1> QED
  BY <1>1, <1>3, <1>5, <1>6, <1>7

(* What simplefs_unlink makes of them *)
LEMMA UnlinkLists ==
  ASSUME TypeOK, NEW x \in Names, Unlink(x)
  PROVE  \E p \in DOMAIN cache.used :
           /\ FirstWith(cache.used, x, p)
           /\ p \in 1 .. Len(cache.used) /\ cache.used[p] \in Entry
           /\ slot' = [slot EXCEPT ![cache.used[p].no] = Zero]
           /\ cache' = [used |-> Without(cache.used, p), free |-> Freed(cache.free, cache.used[p]),
                        null |-> FALSE]
           /\ UNCHANGED <<oops, short>>
           /\ Reports("unlink", {cache.used[p].rec})
<1>1. cache \in Cache /\ cache.used \in Seq(Entry)
  BY CacheFields DEF Unlink
<1>2. PICK p \in DOMAIN cache.used :
           /\ FirstWith(cache.used, x, p)
           /\ slot' = [slot EXCEPT ![cache.used[p].no] = Zero]
           /\ cache' = [cache EXCEPT !.used = Without(@, p), !.free = Freed(@, cache.used[p])]
           /\ Reports("unlink", {cache.used[p].rec})
  BY DEF Unlink
<1>3. p \in 1 .. Len(cache.used) /\ cache.used[p] \in Entry
  BY <1>1, <1>2
<1>4. cache' = [used |-> Without(cache.used, p), free |-> Freed(cache.free, cache.used[p]), null |-> FALSE]
  BY <1>1, <1>2 DEF Cache
<1> QED
  BY <1>2, <1>3, <1>4 DEF Unlink

(* The actions by what they do *)
LEMMA NextKinds ==
  ASSUME [Next]_vars
  PROVE  \/ UNCHANGED <<slot, cache, oops, short>>
         \/ Release
         \/ Runs /\ cache.null /\ Builds /\ UNCHANGED <<slot, oops>>
         \/ oops' = TRUE /\ UNCHANGED <<cache, short>>
              /\ \/ UNCHANGED slot
                 \/ \E x \in Names, i \in DirInos : slot' = [slot EXCEPT ![0] = [name |-> x, ino |-> i]]
         \/ \E x \in Names : Unlink(x)
         \/ \E x \in Names, i \in DirInos : Create(x, i) /\ ~oops'
<1>1. ASSUME NEW f \in Files, NEW n \in Rooms, Iterate(f, n)
      PROVE  \/ UNCHANGED <<slot, cache, oops, short>>
             \/ Runs /\ cache.null /\ Builds /\ UNCHANGED <<slot, oops>>
             \/ oops' = TRUE /\ UNCHANGED <<cache, short, slot>>
  BY <1>1 DEF Iterate, Stops
<1>2. ASSUME NEW x \in Names, Lookup(x)
      PROVE  UNCHANGED <<slot, cache, oops, short>> \/ (oops' = TRUE /\ UNCHANGED <<cache, short, slot>>)
  BY <1>2 DEF Lookup, Stops
<1>3. ASSUME NEW x \in Names, NEW i \in DirInos, Create(x, i), oops'
      PROVE  /\ oops' = TRUE /\ UNCHANGED <<cache, short>>
             /\ slot' = [slot EXCEPT ![0] = [name |-> x, ino |-> i]]
  BY <1>3 DEF Create, Stops, Runs
<1>4. ASSUME NEW f \in Files, Open(f) \/ Close(f)
      PROVE  UNCHANGED <<slot, cache, oops, short>>
  BY <1>4 DEF Open, Close
<1> QED
  BY <1>1, <1>2, <1>3, <1>4 DEF Next, Stopped, vars

-----------------------------------------------------------------------------
(* Every variable has its type to begin with. *)
LEMMA TypeInit == Init => TypeOK
BY DEF Init, TypeOK

(* Every step keeps the types of what belongs to the open files. *)
FilesOK == pos \in [Files -> {"closed", "zero", "moved"}] /\ cut \subseteq Files

LEMMA FilesNext ==
  ASSUME FilesOK, [Next]_vars
  PROVE  FilesOK'
<1>1. CASE UNCHANGED <<pos, cut>>
  BY <1>1 DEF FilesOK
<1>2. ASSUME NEW f \in Files, Open(f) \/ Close(f)
      PROVE  FilesOK'
  BY <1>2 DEF Open, Close, FilesOK
<1>3. ASSUME NEW f \in Files, NEW n \in Rooms, Iterate(f, n)
      PROVE  FilesOK'
  <2>1. CASE UNCHANGED <<pos, cut>>
    BY <2>1 DEF FilesOK
  <2>2. CASE /\ pos' = [pos EXCEPT ![f] = IF cache'.used = <<>> THEN "zero" ELSE "moved"]
             /\ cut' = IF Len(cache'.used) > n THEN cut \cup {f} ELSE cut
    BY <2>2 DEF FilesOK
  <2> QED
    BY <1>3, <2>1, <2>2 DEF Iterate, Stops, files
<1>4. ASSUME NEW x \in Names, Lookup(x) \/ Unlink(x)
      PROVE  UNCHANGED <<pos, cut>>
  BY <1>4 DEF Lookup, Unlink, Stops
<1>5. ASSUME NEW x \in Names, NEW i \in DirInos, Create(x, i)
      PROVE  UNCHANGED <<pos, cut>>
  BY <1>5 DEF Create, Stops
<1>6. CASE Release \/ Stopped \/ UNCHANGED vars
  <2>1. UNCHANGED <<pos, cut>>
    BY <1>6 DEF Release, Stopped, vars
  <2> QED
    BY <1>1, <2>1
<1> QED
  BY <1>1, <1>2, <1>3, <1>4, <1>5, <1>6 DEF Next

(* Every step keeps the types. *)
LEMMA TypeNext == TypeOK /\ [Next]_vars => TypeOK'
<1> SUFFICES ASSUME TypeOK, [Next]_vars PROVE TypeOK'
  OBVIOUS
<1>0. FilesOK'
  BY FilesNext DEF TypeOK, FilesOK
<1>1. CASE UNCHANGED <<slot, cache, oops, short>>
  BY <1>0, <1>1 DEF TypeOK, FilesOK
<1>2. CASE Release
  BY <1>0, <1>2 DEF Release, TypeOK, FilesOK
<1>3. CASE Runs /\ cache.null /\ Builds /\ UNCHANGED <<slot, oops>>
  <2>1. PICK n \in 0 .. Slots : cache' \in Built(slot, n) /\ short' = (short \/ n # Slots)
    BY <1>3 DEF Builds
  <2>2. cache' \in Cache
    BY <2>1, BuildList
  <2>3. short' \in BOOLEAN
    BY <2>1
  <2> QED
    BY <1>0, <1>3, <2>2, <2>3 DEF TypeOK, FilesOK
<1>4. CASE /\ oops' = TRUE /\ UNCHANGED <<cache, short>>
           /\ \/ UNCHANGED slot
              \/ \E x \in Names, i \in DirInos : slot' = [slot EXCEPT ![0] = [name |-> x, ino |-> i]]
  <2>1. slot' \in [SlotNos -> Record]
    <3>1. \A x \in Names, i \in DirInos : [name |-> x, ino |-> i] \in Record
      BY DEF Record
    <3> QED
      BY <1>4, <3>1 DEF TypeOK
  <2> QED
    BY <1>0, <1>4, <2>1 DEF TypeOK, FilesOK
<1>5. ASSUME NEW x \in Names, Unlink(x)
      PROVE  TypeOK'
  <2>1. PICK p \in DOMAIN cache.used :
           /\ p \in 1 .. Len(cache.used) /\ cache.used[p] \in Entry
           /\ slot' = [slot EXCEPT ![cache.used[p].no] = Zero]
           /\ cache' = [used |-> Without(cache.used, p), free |-> Freed(cache.free, cache.used[p]),
                        null |-> FALSE]
           /\ UNCHANGED <<oops, short>>
    BY <1>5, UnlinkLists
  <2>2. Without(cache.used, p) \in Seq(Entry) /\ Freed(cache.free, cache.used[p]) \in Seq(Entry)
    BY <2>1, CacheFields, WithoutList, FreedList
  <2>3. cache' \in Cache
    BY <2>1, <2>2 DEF Cache
  <2>4. slot' \in [SlotNos -> Record]
    BY <2>1 DEF TypeOK, Record
  <2> QED
    BY <1>0, <2>1, <2>3, <2>4 DEF TypeOK, FilesOK
<1>6. ASSUME NEW x \in Names, NEW i \in DirInos, Create(x, i), ~oops'
      PROVE  TypeOK'
  <2>1. PICK e \in Entry, p \in 1 .. (Len(cache.used) + 1) :
           /\ cache.free # <<>>
           /\ slot' = [slot EXCEPT ![e.no] = e.rec]
           /\ cache' = [used |-> With(cache.used, e, p), free |-> Tail(cache.free), null |-> FALSE]
           /\ UNCHANGED <<oops, short>>
    BY <1>6, CreateLists
  <2>2. With(cache.used, e, p) \in Seq(Entry) /\ Tail(cache.free) \in Seq(Entry)
    BY <2>1, CacheFields, WithList
  <2>3. cache' \in Cache
    BY <2>1, <2>2 DEF Cache
  <2>4. slot' \in [SlotNos -> Record]
    BY <2>1 DEF TypeOK, Entry
  <2> QED
    BY <1>0, <2>1, <2>3, <2>4 DEF TypeOK, FilesOK
<1> QED
  BY <1>1, <1>2, <1>3, <1>4, <1>5, <1>6, NextKinds

(* A create: the new entry goes to its place, its slot was empty, and the
   rest of both lists stays. *)
LEMMA CreateShape ==
  ASSUME TypeOK, CacheSound, Runs, NEW x \in Names, NEW i \in DirInos, Create(x, i), ~oops'
  PROVE  \E e \in Entry :
           /\ e.rec = [name |-> x, ino |-> i] /\ e.rec # Zero
           /\ e.no = cache.free[1].no /\ 1 \in DOMAIN cache.free
           /\ slot[e.no] = Zero
           /\ slot' = [slot EXCEPT ![e.no] = e.rec]
           /\ \E p \in 1 .. (Len(cache.used) + 1) :
                /\ BeforeHigher(cache.used, e, p)
                /\ cache'.used \in Seq(Entry) /\ Len(cache'.used) = Len(cache.used) + 1
                /\ \A k \in 1 .. (Len(cache.used) + 1) :
                     cache'.used[k] = IF k < p THEN cache.used[k]
                                      ELSE IF k = p THEN e ELSE cache.used[k - 1]
           /\ cache'.free \in Seq(Entry) /\ Len(cache'.free) = Len(cache.free) - 1
           /\ \A k \in 1 .. (Len(cache.free) - 1) : cache'.free[k] = cache.free[k + 1]
<1>1. PICK e \in Entry, p \in 1 .. (Len(cache.used) + 1) :
           /\ e = [no |-> cache.free[1].no, rec |-> [name |-> x, ino |-> i]]
           /\ cache.free # <<>> /\ 1 \in DOMAIN cache.free
           /\ BeforeHigher(cache.used, e, p)
           /\ slot' = [slot EXCEPT ![e.no] = e.rec]
           /\ cache' = [used |-> With(cache.used, e, p), free |-> Tail(cache.free), null |-> FALSE]
           /\ UNCHANGED <<oops, short>>
           /\ Reports("create", {e.rec})
  BY CreateLists
<1>2. e.rec = [name |-> x, ino |-> i] /\ e.no = cache.free[1].no
  BY <1>1
<1>3. e.rec # Zero
  BY <1>2, DirAssumption DEF Zero
<1>4. slot[e.no] = Zero
  BY <1>1, <1>2 DEF CacheSound
<1>5. cache'.used = With(cache.used, e, p) /\ cache'.free = Tail(cache.free)
  BY <1>1
<1>6. cache.used \in Seq(Entry) /\ cache.free \in Seq(Entry)
  BY CacheFields
<1>7. /\ cache'.used \in Seq(Entry) /\ Len(cache'.used) = Len(cache.used) + 1
      /\ \A k \in 1 .. (Len(cache.used) + 1) :
           cache'.used[k] = IF k < p THEN cache.used[k] ELSE IF k = p THEN e ELSE cache.used[k - 1]
  <2>1. cache'.used \in Seq(Entry) /\ Inserted(cache.used, e, p, cache'.used)
    BY <1>5, <1>6, WithList
  <2> QED
    BY <2>1 DEF Inserted
<1>8. /\ cache'.free \in Seq(Entry) /\ Len(cache'.free) = Len(cache.free) - 1
      /\ \A k \in 1 .. Len(cache'.free) : cache'.free[k] = cache.free[k + 1]
  BY <1>1, <1>5, <1>6, HeadTailProperties
<1> QED
  BY <1>1, <1>2, <1>3, <1>4, <1>7, <1>8

(* An unlink: the entry of the name moves to the head of the free list. *)
LEMMA UnlinkShape ==
  ASSUME TypeOK, CacheSound, Runs, NEW x \in Names, Unlink(x)
  PROVE  \E p \in 1 .. Len(cache.used) :
           /\ cache.used[p].rec.name = x
           /\ slot' = [slot EXCEPT ![cache.used[p].no] = Zero]
           /\ cache'.used \in Seq(Entry) /\ Len(cache'.used) = Len(cache.used) - 1
           /\ \A k \in 1 .. (Len(cache.used) - 1) :
                cache'.used[k] = IF k < p THEN cache.used[k] ELSE cache.used[k + 1]
           /\ cache'.free \in Seq(Entry) /\ Len(cache'.free) = Len(cache.free) + 1
           /\ cache'.free[1] = cache.used[p]
           /\ \A k \in 2 .. (Len(cache.free) + 1) : cache'.free[k] = cache.free[k - 1]
<1>1. PICK p \in DOMAIN cache.used :
           /\ FirstWith(cache.used, x, p)
           /\ p \in 1 .. Len(cache.used) /\ cache.used[p] \in Entry
           /\ slot' = [slot EXCEPT ![cache.used[p].no] = Zero]
           /\ cache' = [used |-> Without(cache.used, p), free |-> Freed(cache.free, cache.used[p]),
                        null |-> FALSE]
  BY UnlinkLists
<1>2. cache'.used = Without(cache.used, p) /\ cache'.free = Freed(cache.free, cache.used[p])
  BY <1>1
<1>3. cache.used \in Seq(Entry) /\ cache.free \in Seq(Entry)
  BY CacheFields
<1>4. /\ cache'.used \in Seq(Entry) /\ Len(cache'.used) = Len(cache.used) - 1
      /\ \A k \in 1 .. (Len(cache.used) - 1) :
           cache'.used[k] = IF k < p THEN cache.used[k] ELSE cache.used[k + 1]
  <2>1. cache'.used \in Seq(Entry) /\ Removed(cache.used, p, cache'.used)
    BY <1>1, <1>2, <1>3, WithoutList
  <2> QED
    BY <2>1 DEF Removed
<1>5. /\ cache'.free \in Seq(Entry) /\ Len(cache'.free) = Len(cache.free) + 1
      /\ cache'.free[1] = cache.used[p]
      /\ \A k \in 2 .. (Len(cache.free) + 1) : cache'.free[k] = cache.free[k - 1]
  <2> DEFINE l == cache.free
             e == cache.used[p]
  <2>1. l \in Seq(Entry) /\ e \in Entry
    BY <1>1, <1>3
  <2> HIDE DEF l, e
  <2>2. Freed(l, e) \in Seq(Entry) /\ Len(Freed(l, e)) = Len(l) + 1
    BY <2>1, FreedList
  <2>3. Freed(l, e)[1] = e
    BY <2>1, FreedList
  <2>4. \A k \in 2 .. (Len(l) + 1) : Freed(l, e)[k] = l[k - 1]
    BY <2>1, FreedList
  <2> QED
    BY <1>2, <2>2, <2>3, <2>4 DEF l, e
<1> QED
  BY <1>1, <1>4, <1>5 DEF FirstWith

-----------------------------------------------------------------------------
(* The parts of CacheSound, of any two lists and any block *)
UsedSound(u, block) ==
  /\ \A p \in DOMAIN u : u[p].rec # Zero /\ block[u[p].no] = u[p].rec
  /\ \A p, q \in DOMAIN u : p < q => u[p].no < u[q].no

FreeSound(f, block) ==
  /\ \A p \in DOMAIN f : block[f[p].no] = Zero
  /\ \A p, q \in DOMAIN f : p # q => f[p].no # f[q].no

Covers(u, f) == SlotNos = {u[p].no : p \in DOMAIN u} \cup {f[p].no : p \in DOMAIN f}

(* The conjuncts of the invariant, by these names *)
LEMMA DirInvParts ==
  /\ CacheSound <=> (Runs => UsedSound(cache.used, slot) /\ FreeSound(cache.free, slot))
  /\ CacheMirrorsBlock <=> (Runs /\ ~short /\ ~cache.null => Covers(cache.used, cache.free))
BY DEF CacheSound, CacheMirrorsBlock, UsedSound, FreeSound, Covers

(* The same after a step *)
LEMMA DirInvPartsAfter ==
  /\ CacheSound' <=> (~oops' => UsedSound(cache'.used, slot') /\ FreeSound(cache'.free, slot'))
  /\ CacheMirrorsBlock' <=> (~oops' /\ ~short' /\ ~cache'.null => Covers(cache'.used, cache'.free))
BY DEF CacheSound, CacheMirrorsBlock, UsedSound, FreeSound, Covers, Runs

(* A create keeps the lists right: the entry that is inserted comes after
   lower and before higher numbers, and no other entry has its number. *)
LEMMA CreateSound ==
  ASSUME TypeOK, CacheSound, Runs, NEW x \in Names, NEW i \in DirInos, Create(x, i), ~oops'
  PROVE  /\ UsedSound(cache'.used, slot') /\ FreeSound(cache'.free, slot')
         /\ Covers(cache.used, cache.free) => Covers(cache'.used, cache'.free)
<1>1. PICK e \in Entry :
           /\ e.rec = [name |-> x, ino |-> i] /\ e.rec # Zero
           /\ e.no = cache.free[1].no /\ 1 \in DOMAIN cache.free
           /\ slot[e.no] = Zero
           /\ slot' = [slot EXCEPT ![e.no] = e.rec]
           /\ \E p \in 1 .. (Len(cache.used) + 1) :
                /\ BeforeHigher(cache.used, e, p)
                /\ cache'.used \in Seq(Entry) /\ Len(cache'.used) = Len(cache.used) + 1
                /\ \A k \in 1 .. (Len(cache.used) + 1) :
                     cache'.used[k] = IF k < p THEN cache.used[k]
                                      ELSE IF k = p THEN e ELSE cache.used[k - 1]
           /\ cache'.free \in Seq(Entry) /\ Len(cache'.free) = Len(cache.free) - 1
           /\ \A k \in 1 .. (Len(cache.free) - 1) : cache'.free[k] = cache.free[k + 1]
  BY CreateShape
<1> DEFINE u == cache.used
           f == cache.free
           v == cache'.used
           g == cache'.free
           n == Len(u)
           m == Len(f)
<1>2. PICK p \in 1 .. (n + 1) :
        /\ BeforeHigher(u, e, p)
        /\ v \in Seq(Entry) /\ Len(v) = n + 1
        /\ \A k \in 1 .. (n + 1) : v[k] = IF k < p THEN u[k] ELSE IF k = p THEN e ELSE u[k - 1]
  BY <1>1
<1>3. u \in Seq(Entry) /\ f \in Seq(Entry) /\ n \in Nat /\ m \in Nat
  BY CacheFields, LenProperties
<1>4. DOMAIN u = 1 .. n /\ DOMAIN v = 1 .. (n + 1) /\ DOMAIN f = 1 .. m /\ DOMAIN g = 1 .. (m - 1)
  BY <1>1, <1>2, <1>3
<1>5. UsedSound(u, slot) /\ FreeSound(f, slot)
  BY DirInvParts
<1>6. g \in Seq(Entry) /\ \A k \in 1 .. (m - 1) : g[k] = f[k + 1]
  BY <1>1
<1>7. e.no = f[1].no /\ 1 \in 1 .. m
  BY <1>1, <1>4
<1>8. /\ e.rec # Zero /\ slot[e.no] = Zero /\ e.no \in SlotNos
      /\ slot' = [slot EXCEPT ![e.no] = e.rec] /\ slot \in [SlotNos -> Record]
  BY <1>1 DEF TypeOK, Entry
<1> HIDE DEF u, f, v, g, n, m
<1>9. \A k \in 1 .. n : u[k] \in Entry /\ u[k].no \in SlotNos /\ u[k].rec # Zero /\ slot[u[k].no] = u[k].rec
  <2>1. \A r \in Entry : r.no \in SlotNos
    BY DEF Entry
  <2>2. \A k \in 1 .. n : u[k] \in Entry
    BY <1>3, ElementOfSeq DEF n
  <2> QED
    BY <1>4, <1>5, <2>1, <2>2 DEF UsedSound
<1>10. \A k \in 1 .. n : u[k].no # e.no
  BY <1>8, <1>9
<1>11. \A k \in 1 .. (n + 1) :
         /\ k < p => k \in 1 .. n /\ v[k] = u[k]
         /\ k = p => v[k] = e
         /\ k > p => k - 1 \in 1 .. n /\ v[k] = u[k - 1]
  BY <1>2, <1>3
<1>12. \A k \in 1 .. (n + 1) : v[k].rec # Zero /\ slot'[v[k].no] = v[k].rec
  <2> TAKE k \in 1 .. (n + 1)
  <2>1. v[k] = e \/ \E l \in 1 .. n : v[k] = u[l]
    <3>1. k < p \/ k = p \/ k > p
      BY <1>3
    <3> QED
      BY <1>11, <3>1
  <2>2. slot'[e.no] = e.rec /\ \A l \in 1 .. n : slot'[u[l].no] = slot[u[l].no]
    BY <1>8, <1>9, <1>10
  <2> QED
    BY <1>8, <1>9, <2>1, <2>2
<1>13. /\ \A k \in 1 .. n : k < p => u[k].no < e.no
       /\ \A k \in 1 .. n : k >= p => e.no < u[k].no
  <2>1. SlotNos \subseteq Int
    BY DirAssumption DEF SlotNos
  <2>2. ASSUME NEW k \in 1 .. n, k < p
        PROVE  u[k].no < e.no
    <3>1. k \in 1 .. (p - 1)
      BY <1>3, <2>2
    <3>2. ~(e.no < u[k].no)
      BY <1>2, <3>1 DEF BeforeHigher
    <3>3. u[k].no \in Int /\ e.no \in Int /\ u[k].no # e.no
      BY <1>8, <1>9, <1>10, <2>1
    <3> QED
      BY <3>2, <3>3
  <2>3. ASSUME NEW k \in 1 .. n, k >= p
        PROVE  e.no < u[k].no
    <3>1. p \in 1 .. n
      BY <1>3, <2>3
    <3>2. e.no < u[p].no
      BY <1>2, <1>4, <3>1 DEF BeforeHigher
    <3>3. p = k \/ u[p].no < u[k].no
      <4>1. p = k \/ p < k
        BY <1>3, <2>3
      <4> QED
        BY <1>4, <1>5, <3>1, <4>1 DEF UsedSound
    <3>4. u[k].no \in Int /\ u[p].no \in Int /\ e.no \in Int
      BY <1>8, <1>9, <2>1, <3>1
    <3> QED
      BY <3>2, <3>3, <3>4
  <2> QED
    BY <2>2, <2>3
<1>14. \A k, l \in 1 .. (n + 1) : k < l => v[k].no < v[l].no
  <2> TAKE k, l \in 1 .. (n + 1)
  <2> HAVE k < l
  <2>1. \A a, b \in 1 .. n : a < b => u[a].no < u[b].no
    BY <1>4, <1>5 DEF UsedSound
  <2>2. CASE l < p
    BY <1>3, <1>11, <2>1, <2>2
  <2>3. CASE l = p
    BY <1>3, <1>11, <1>13, <2>3
  <2>4. CASE k < p /\ l > p
    <3>1. v[k] = u[k] /\ k \in 1 .. n /\ v[l] = u[l - 1] /\ l - 1 \in 1 .. n /\ k < l - 1
      BY <1>3, <1>11, <2>4
    <3> QED
      BY <2>1, <3>1
  <2>5. CASE k = p /\ l > p
    <3>1. v[k] = e /\ v[l] = u[l - 1] /\ l - 1 \in 1 .. n /\ l - 1 >= p
      BY <1>3, <1>11, <2>5
    <3> QED
      BY <1>13, <3>1
  <2>6. CASE k > p
    <3>1. v[k] = u[k - 1] /\ v[l] = u[l - 1] /\ k - 1 \in 1 .. n /\ l - 1 \in 1 .. n /\ k - 1 < l - 1
      BY <1>3, <1>11, <2>6
    <3> QED
      BY <2>1, <3>1
  <2>7. l < p \/ l = p \/ (k < p /\ l > p) \/ (k = p /\ l > p) \/ k > p
    BY <1>3
  <2> QED
    BY <2>2, <2>3, <2>4, <2>5, <2>6, <2>7
<1>15. UsedSound(v, slot')
  BY <1>4, <1>12, <1>14 DEF UsedSound
<1>16. \A k \in 1 .. (m - 1) : k + 1 \in 1 .. m /\ k + 1 # 1 /\ g[k] = f[k + 1]
  BY <1>3, <1>6
<1>17. \A k \in 1 .. m : f[k].no \in SlotNos /\ slot[f[k].no] = Zero
  <2>1. \A r \in Entry : r.no \in SlotNos
    BY DEF Entry
  <2>2. \A k \in 1 .. m : f[k] \in Entry
    BY <1>3, ElementOfSeq DEF m
  <2> QED
    BY <1>4, <1>5, <2>1, <2>2 DEF FreeSound
<1>18. \A k, l \in 1 .. m : k # l => f[k].no # f[l].no
  BY <1>4, <1>5 DEF FreeSound
<1>19. \A k \in 1 .. (m - 1) : slot'[g[k].no] = Zero
  <2> TAKE k \in 1 .. (m - 1)
  <2>1. g[k].no # e.no
    BY <1>7, <1>16, <1>18
  <2> QED
    BY <1>8, <1>16, <1>17, <2>1
<1>20. \A k, l \in 1 .. (m - 1) : k # l => g[k].no # g[l].no
  <2> TAKE k, l \in 1 .. (m - 1)
  <2> HAVE k # l
  <2>1. k + 1 # l + 1
    BY <1>3
  <2> QED
    BY <1>16, <1>18, <2>1
<1>21. FreeSound(g, slot')
  BY <1>4, <1>19, <1>20 DEF FreeSound
<1>22. ASSUME Covers(u, f)
       PROVE  Covers(v, g)
  <2>1. ASSUME NEW k \in SlotNos
        PROVE  (\E q \in 1 .. (n + 1) : v[q].no = k) \/ (\E q \in 1 .. (m - 1) : g[q].no = k)
    <3>1. (\E q \in 1 .. n : u[q].no = k) \/ (\E q \in 1 .. m : f[q].no = k)
      BY <1>4, <1>22 DEF Covers
    <3>2. ASSUME NEW q \in 1 .. n, u[q].no = k
          PROVE  \E r \in 1 .. (n + 1) : v[r].no = k
      <4>1. CASE q < p
        <5>1. q \in 1 .. (n + 1)
          BY <1>3
        <5> QED
          BY <1>11, <3>2, <4>1, <5>1
      <4>2. CASE q >= p
        <5>1. q + 1 \in 1 .. (n + 1) /\ q + 1 > p /\ q + 1 - 1 = q
          BY <1>3, <4>2
        <5>2. v[q + 1] = u[q + 1 - 1]
          BY <1>11, <5>1
        <5> QED
          BY <3>2, <5>1, <5>2
      <4> QED
        BY <1>3, <4>1, <4>2
    <3>3. ASSUME NEW q \in 1 .. m, f[q].no = k
          PROVE  (\E r \in 1 .. (n + 1) : v[r].no = k) \/ (\E r \in 1 .. (m - 1) : g[r].no = k)
      <4>1. CASE q = 1
        BY <1>7, <1>11, <3>3, <4>1
      <4>2. CASE q # 1
        <5>1. q - 1 \in 1 .. (m - 1) /\ q - 1 + 1 = q
          BY <1>3, <4>2
        <5>2. g[q - 1] = f[q - 1 + 1]
          BY <1>16, <5>1
        <5> QED
          BY <3>3, <5>1, <5>2
      <4> QED
        BY <4>1, <4>2
    <3> QED
      BY <3>1, <3>2, <3>3
  <2>2. \A q \in 1 .. (n + 1) : v[q].no \in SlotNos
    <3>1. \A r \in Entry : r.no \in SlotNos
      BY DEF Entry
    <3>2. \A q \in 1 .. (n + 1) : v[q] \in Entry
      BY <1>2, ElementOfSeq
    <3> QED
      BY <3>1, <3>2
  <2>3. \A q \in 1 .. (m - 1) : g[q].no \in SlotNos
    BY <1>16, <1>17
  <2> QED
    BY <1>4, <2>1, <2>2, <2>3 DEF Covers
<1> QED
  BY <1>15, <1>21, <1>22 DEF u, v, f, g

(* An unlink keeps the lists right: no other entry has the slot it clears. *)
LEMMA UnlinkSound ==
  ASSUME TypeOK, CacheSound, Runs, NEW x \in Names, Unlink(x)
  PROVE  /\ UsedSound(cache'.used, slot') /\ FreeSound(cache'.free, slot')
         /\ Covers(cache.used, cache.free) => Covers(cache'.used, cache'.free)
<1> DEFINE u == cache.used
           f == cache.free
           v == cache'.used
           g == cache'.free
           n == Len(u)
           m == Len(f)
<1>1. PICK p \in 1 .. n :
        /\ slot' = [slot EXCEPT ![u[p].no] = Zero]
        /\ v \in Seq(Entry) /\ Len(v) = n - 1
        /\ \A k \in 1 .. (n - 1) : v[k] = IF k < p THEN u[k] ELSE u[k + 1]
        /\ g \in Seq(Entry) /\ Len(g) = m + 1
        /\ g[1] = u[p]
        /\ \A k \in 2 .. (m + 1) : g[k] = f[k - 1]
  BY UnlinkShape
<1>2. u \in Seq(Entry) /\ f \in Seq(Entry) /\ n \in Nat /\ m \in Nat
  BY CacheFields, LenProperties
<1>3. DOMAIN u = 1 .. n /\ DOMAIN v = 1 .. (n - 1) /\ DOMAIN f = 1 .. m /\ DOMAIN g = 1 .. (m + 1)
  BY <1>1, <1>2
<1>4. UsedSound(u, slot) /\ FreeSound(f, slot)
  BY DirInvParts
<1>5. slot \in [SlotNos -> Record]
  BY DEF TypeOK
<1>6. SlotNos \subseteq Int /\ \A r \in Entry : r.no \in SlotNos
  BY DirAssumption DEF SlotNos, Entry
<1>7. \A k \in 1 .. n : u[k] \in Entry
  BY <1>2, ElementOfSeq
<1>8. \A k \in 1 .. m : f[k] \in Entry
  BY <1>2, ElementOfSeq
<1> HIDE DEF u, f, v, g, n, m
<1>9. \A k \in 1 .. n : u[k].no \in SlotNos /\ u[k].rec # Zero /\ slot[u[k].no] = u[k].rec
  BY <1>3, <1>4, <1>6, <1>7 DEF UsedSound
<1>10. \A k, l \in 1 .. n : k < l => u[k].no < u[l].no
  BY <1>3, <1>4 DEF UsedSound
<1>11. \A k \in 1 .. n : k # p => u[k].no # u[p].no
  <2> TAKE k \in 1 .. n
  <2> HAVE k # p
  <2>1. u[k].no \in Int /\ u[p].no \in Int
    BY <1>6, <1>9
  <2>2. k < p \/ p < k
    BY <1>2
  <2>3. u[k].no < u[p].no \/ u[p].no < u[k].no
    BY <1>10, <2>2
  <2> QED
    BY <2>1, <2>3
<1>12. \A k \in 1 .. (n - 1) :
         /\ k < p => k \in 1 .. n /\ k # p /\ v[k] = u[k]
         /\ k >= p => k + 1 \in 1 .. n /\ k + 1 # p /\ v[k] = u[k + 1]
  BY <1>1, <1>2
<1>13. \A k \in 1 .. (n - 1) : \E l \in 1 .. n : l # p /\ v[k] = u[l]
  <2> TAKE k \in 1 .. (n - 1)
  <2>1. k < p \/ k >= p
    BY <1>2
  <2> QED
    BY <1>12, <2>1
<1>14. \A k \in 1 .. (n - 1) : v[k].rec # Zero /\ slot'[v[k].no] = v[k].rec
  <2> TAKE k \in 1 .. (n - 1)
  <2>1. PICK l \in 1 .. n : l # p /\ v[k] = u[l]
    BY <1>13
  <2>2. slot'[u[l].no] = slot[u[l].no]
    BY <1>1, <1>5, <1>9, <1>11, <2>1
  <2> QED
    BY <1>9, <2>1, <2>2
<1>15. \A k, l \in 1 .. (n - 1) : k < l => v[k].no < v[l].no
  <2> TAKE k, l \in 1 .. (n - 1)
  <2> HAVE k < l
  <2>1. CASE l < p
    BY <1>2, <1>10, <1>12, <2>1
  <2>2. CASE k < p /\ l >= p
    <3>1. v[k] = u[k] /\ k \in 1 .. n /\ v[l] = u[l + 1] /\ l + 1 \in 1 .. n /\ k < l + 1
      BY <1>2, <1>12, <2>2
    <3> QED
      BY <1>10, <3>1
  <2>3. CASE k >= p
    <3>1. v[k] = u[k + 1] /\ k + 1 \in 1 .. n /\ v[l] = u[l + 1] /\ l + 1 \in 1 .. n /\ k + 1 < l + 1
      BY <1>2, <1>12, <2>3
    <3> QED
      BY <1>10, <3>1
  <2>4. l < p \/ (k < p /\ l >= p) \/ k >= p
    BY <1>2
  <2> QED
    BY <2>1, <2>2, <2>3, <2>4
<1>16. UsedSound(v, slot')
  BY <1>3, <1>14, <1>15 DEF UsedSound
<1>17. \A k \in 1 .. m : f[k].no \in SlotNos /\ slot[f[k].no] = Zero /\ f[k].no # u[p].no
  <2>1. slot[u[p].no] # Zero
    BY <1>9
  <2> QED
    BY <1>3, <1>4, <1>6, <1>8, <2>1 DEF FreeSound
<1>18. \A k, l \in 1 .. m : k # l => f[k].no # f[l].no
  BY <1>3, <1>4 DEF FreeSound
<1>19. \A k \in 1 .. (m + 1) : /\ k = 1 => g[k] = u[p]
                               /\ k # 1 => k - 1 \in 1 .. m /\ g[k] = f[k - 1]
  BY <1>1, <1>2
<1>20. \A k \in 1 .. (m + 1) : slot'[g[k].no] = Zero
  <2>1. slot'[u[p].no] = Zero /\ \A k \in 1 .. m : slot'[f[k].no] = slot[f[k].no]
    BY <1>1, <1>5, <1>9, <1>17
  <2> QED
    BY <1>17, <1>19, <2>1
<1>21. \A k, l \in 1 .. (m + 1) : k # l => g[k].no # g[l].no
  <2> TAKE k, l \in 1 .. (m + 1)
  <2> HAVE k # l
  <2>1. CASE k = 1
    BY <1>17, <1>19, <2>1
  <2>2. CASE l = 1
    BY <1>17, <1>19, <2>2
  <2>3. CASE k # 1 /\ l # 1
    <3>1. k - 1 # l - 1
      BY <1>2
    <3> QED
      BY <1>18, <1>19, <2>3, <3>1
  <2> QED
    BY <2>1, <2>2, <2>3
<1>22. FreeSound(g, slot')
  BY <1>3, <1>20, <1>21 DEF FreeSound
<1>23. ASSUME Covers(u, f)
       PROVE  Covers(v, g)
  <2>1. ASSUME NEW k \in SlotNos
        PROVE  (\E q \in 1 .. (n - 1) : v[q].no = k) \/ (\E q \in 1 .. (m + 1) : g[q].no = k)
    <3>1. (\E q \in 1 .. n : u[q].no = k) \/ (\E q \in 1 .. m : f[q].no = k)
      BY <1>3, <1>23 DEF Covers
    <3>2. ASSUME NEW q \in 1 .. n, u[q].no = k
          PROVE  (\E r \in 1 .. (n - 1) : v[r].no = k) \/ (\E r \in 1 .. (m + 1) : g[r].no = k)
      <4>1. CASE q < p
        <5>1. q \in 1 .. (n - 1)
          BY <1>2, <4>1
        <5> QED
          BY <1>12, <3>2, <4>1, <5>1
      <4>2. CASE q = p
        <5>1. 1 \in 1 .. (m + 1)
          BY <1>2
        <5> QED
          BY <1>1, <3>2, <4>2, <5>1
      <4>3. CASE q > p
        <5>1. q - 1 \in 1 .. (n - 1) /\ q - 1 >= p /\ q - 1 + 1 = q
          BY <1>2, <4>3
        <5>2. v[q - 1] = u[q - 1 + 1]
          BY <1>12, <5>1
        <5> QED
          BY <3>2, <5>1, <5>2
      <4>4. q < p \/ q = p \/ q > p
        BY <1>2
      <4> QED
        BY <4>1, <4>2, <4>3, <4>4
    <3>3. ASSUME NEW q \in 1 .. m, f[q].no = k
          PROVE  \E r \in 1 .. (m + 1) : g[r].no = k
      <4>1. q + 1 \in 1 .. (m + 1) /\ q + 1 # 1 /\ q + 1 - 1 = q
        BY <1>2
      <4>2. g[q + 1] = f[q + 1 - 1]
        BY <1>19, <4>1
      <4> QED
        BY <3>3, <4>1, <4>2
    <3> QED
      BY <3>1, <3>2, <3>3
  <2>2. \A q \in 1 .. (n - 1) : v[q].no \in SlotNos
    BY <1>9, <1>13
  <2>3. \A q \in 1 .. (m + 1) : g[q].no \in SlotNos
    BY <1>9, <1>17, <1>19
  <2> QED
    BY <1>3, <2>1, <2>2, <2>3 DEF Covers
<1> QED
  BY <1>16, <1>22, <1>23 DEF u, v, f, g

-----------------------------------------------------------------------------
(* With a complete cache, what is in the block is in the used list. *)
LEMMA UsedCovers ==
  ASSUME TypeOK, CacheSound, Runs, Covers(cache.used, cache.free), NEW k \in SlotNos, slot[k] # Zero
  PROVE  \E p \in DOMAIN cache.used : cache.used[p].no = k /\ cache.used[p].rec = slot[k]
BY DirInvParts DEF Covers, UsedSound, FreeSound

(* A directory starts sound. *)
LEMMA DirInit == Init => DirInv
<1> SUFFICES ASSUME Init PROVE DirInv
  OBVIOUS
<1>1. cache.used = <<>> /\ cache.free = <<>> /\ cache.null
  BY DEF Init, Null
<1>2. DOMAIN cache.used = {} /\ DOMAIN cache.free = {}
  BY <1>1
<1>3. CacheSound
  BY <1>2 DEF CacheSound
<1>4. CacheMirrorsBlock
  BY <1>1 DEF CacheMirrorsBlock
<1>5. NamesUnique
  BY DEF Init, NamesUnique
<1> QED
  BY <1>3, <1>4, <1>5 DEF DirInv

(* A build, of however much of the block *)
LEMMA BuildSound ==
  ASSUME TypeOK, Builds
  PROVE  /\ UsedSound(cache'.used, slot) /\ FreeSound(cache'.free, slot)
         /\ ~cache'.null
         /\ ~short' => Covers(cache'.used, cache'.free)
         /\ ~short' => ~short
<1>1. PICK n \in 0 .. Slots : cache' \in Built(slot, n) /\ short' = (short \/ n # Slots)
  BY DEF Builds
<1> DEFINE c == cache'
<1>2. /\ c \in Cache
      /\ \A p \in DOMAIN c.used : slot[c.used[p].no] # Zero /\ slot[c.used[p].no] = c.used[p].rec
      /\ \A p, q \in DOMAIN c.used : p < q => c.used[p].no < c.used[q].no
      /\ \A p \in DOMAIN c.free : slot[c.free[p].no] = Zero
      /\ \A p, q \in DOMAIN c.free : p < q => c.free[p].no < c.free[q].no
      /\ n = Slots => SlotNos = {c.used[p].no : p \in DOMAIN c.used}
                                  \cup {c.free[p].no : p \in DOMAIN c.free}
  BY <1>1, BuildList
<1> HIDE DEF c
<1>3. UsedSound(c.used, slot)
  BY <1>2 DEF UsedSound
<1>4. \A p, q \in DOMAIN c.free : p # q => c.free[p].no # c.free[q].no
  <2> TAKE p, q \in DOMAIN c.free
  <2> HAVE p # q
  <2>1. c.free \in Seq(Entry)
    BY <1>2 DEF Cache
  <2>2. p \in Int /\ q \in Int /\ c.free[p].no \in Int /\ c.free[q].no \in Int
    <3>1. \A r \in Entry : r.no \in Int
      BY DirAssumption DEF Entry, SlotNos
    <3>2. p \in 1 .. Len(c.free) /\ q \in 1 .. Len(c.free) /\ Len(c.free) \in Nat
      BY <2>1
    <3>3. c.free[p] \in Entry /\ c.free[q] \in Entry
      BY <2>1, <3>2, ElementOfSeq
    <3> QED
      BY <3>1, <3>2, <3>3
  <2>3. p < q \/ q < p
    BY <2>2
  <2>4. c.free[p].no < c.free[q].no \/ c.free[q].no < c.free[p].no
    BY <1>2, <2>3
  <2> QED
    BY <2>2, <2>4
<1>5. FreeSound(c.free, slot)
  BY <1>2, <1>4 DEF FreeSound
<1>6. ~short' => Covers(c.used, c.free)
  BY <1>1, <1>2 DEF Covers
<1>7. ~c.null
  BY <1>2 DEF Cache
<1> QED
  BY <1>1, <1>3, <1>5, <1>6, <1>7 DEF c

(* Every step keeps the invariant. *)
LEMMA DirNext == TypeOK /\ DirInv /\ [Next]_vars => DirInv'
<1> SUFFICES ASSUME TypeOK, DirInv, [Next]_vars PROVE DirInv'
  OBVIOUS
<1>0. CacheSound /\ CacheMirrorsBlock /\ NamesUnique
  BY DEF DirInv
<1>1. CASE UNCHANGED <<slot, cache, oops, short>>
  BY <1>0, <1>1 DEF DirInv, CacheSound, CacheMirrorsBlock, NamesUnique, Runs
<1>2. CASE Release
  <2>1. cache'.used = <<>> /\ cache'.free = <<>> /\ cache'.null
    BY <1>2 DEF Release, Null
  <2>2. DOMAIN cache'.used = {} /\ DOMAIN cache'.free = {}
    BY <2>1
  <2>3. UsedSound(cache'.used, slot') /\ FreeSound(cache'.free, slot')
    BY <2>2 DEF UsedSound, FreeSound
  <2>4. NamesUnique'
    BY <1>0, <1>2 DEF Release, NamesUnique, Runs
  <2> QED
    BY <2>1, <2>3, <2>4, DirInvPartsAfter DEF DirInv
<1>3. CASE Runs /\ cache.null /\ Builds /\ UNCHANGED <<slot, oops>>
  <2>1. NamesUnique'
    BY <1>0, <1>3, BuildSound DEF NamesUnique, Runs
  <2> QED
    BY <1>3, <2>1, BuildSound, DirInvPartsAfter DEF DirInv
<1>4. CASE oops' = TRUE
  BY <1>4, DirInvPartsAfter DEF DirInv, NamesUnique, Runs
<1>5. ASSUME NEW x \in Names, Unlink(x)
      PROVE  DirInv'
  <2>1. Runs /\ ~cache.null
    BY <1>5 DEF Unlink
  <2>2. /\ UsedSound(cache'.used, slot') /\ FreeSound(cache'.free, slot')
        /\ Covers(cache.used, cache.free) => Covers(cache'.used, cache'.free)
    BY <1>0, <1>5, <2>1, UnlinkSound
  <2>3. UNCHANGED <<oops, short>>
    BY <1>5 DEF Unlink
  <2>4. PICK n \in SlotNos : slot' = [slot EXCEPT ![n] = Zero]
    <3>1. \A r \in Entry : r.no \in SlotNos
      BY DEF Entry
    <3> QED
      BY <1>5, <3>1, UnlinkLists
  <2>5. NamesUnique'
    BY <1>0, <2>1, <2>3, <2>4 DEF NamesUnique, TypeOK, Runs
  <2>6. CacheSound' /\ CacheMirrorsBlock'
    BY <1>0, <2>1, <2>2, <2>3, DirInvParts, DirInvPartsAfter
  <2> QED
    BY <2>5, <2>6 DEF DirInv
<1>6. ASSUME NEW x \in Names, NEW i \in DirInos, Create(x, i), ~oops'
      PROVE  DirInv'
  <2>1. Runs /\ ~cache.null /\ Absent(cache.used, x)
    BY <1>6 DEF Create
  <2>2. /\ UsedSound(cache'.used, slot') /\ FreeSound(cache'.free, slot')
        /\ Covers(cache.used, cache.free) => Covers(cache'.used, cache'.free)
    BY <1>0, <1>6, <2>1, CreateSound
  <2>3. UNCHANGED <<oops, short>>
    BY <1>6, CreateLists
  <2>4. PICK n \in SlotNos : slot' = [slot EXCEPT ![n] = [name |-> x, ino |-> i]]
    <3>1. PICK e \in Entry : slot' = [slot EXCEPT ![e.no] = e.rec] /\ e.rec = [name |-> x, ino |-> i]
      BY <1>0, <1>6, <2>1, CreateShape
    <3>2. e.no \in SlotNos
      BY DEF Entry
    <3> QED
      BY <3>1, <3>2
  <2>5. ASSUME ~short
        PROVE  \A k \in SlotNos : slot[k] # Zero => slot[k].name # x
    <3>1. Covers(cache.used, cache.free)
      BY <1>0, <2>1, <2>5, DirInvParts
    <3> QED
      BY <1>0, <2>1, <3>1, UsedCovers DEF Absent
  <2>6. NamesUnique'
    <3> SUFFICES ASSUME ~short, NEW k \in SlotNos, NEW l \in SlotNos,
                        slot'[k] # Zero, slot'[l] # Zero, slot'[k].name = slot'[l].name
                 PROVE  k = l
      BY <2>3 DEF NamesUnique, Runs
    <3>1. \A q \in SlotNos : slot'[q] = IF q = n THEN [name |-> x, ino |-> i] ELSE slot[q]
      BY <2>4 DEF TypeOK
    <3>2. slot'[n].name = x
      BY <3>1
    <3>3. CASE k = n /\ l # n
      BY <2>5, <3>1, <3>2, <3>3
    <3>4. CASE l = n /\ k # n
      BY <2>5, <3>1, <3>2, <3>4
    <3>5. CASE k # n /\ l # n
      BY <1>0, <2>1, <3>1, <3>5 DEF NamesUnique
    <3> QED
      BY <3>3, <3>4, <3>5
  <2>7. CacheSound' /\ CacheMirrorsBlock'
    BY <1>0, <2>1, <2>2, <2>3, DirInvParts, DirInvPartsAfter
  <2> QED
    BY <2>6, <2>7 DEF DirInv
<1> QED
  BY <1>1, <1>2, <1>3, <1>4, <1>5, <1>6, NextKinds

-----------------------------------------------------------------------------
(* Spec keeps the invariant. *)
LEMMA DirInvariant == Spec => [](TypeOK /\ DirInv)
<1>1. TypeOK /\ DirInv /\ [Next]_vars => (TypeOK /\ DirInv)'
  BY TypeNext, DirNext
<1>2. Init => TypeOK /\ DirInv
  BY TypeInit, DirInit
<1> QED
  BY <1>1, <1>2, PTL DEF Spec

(* Every variable keeps its type: an entry of the cache has the number of a
   slot of the block and nothing past its end. *)
THEOREM TypeCorrect == Spec => []TypeOK
BY DirInvariant, PTL

(* dir_cache_build, cache_entry_insert, list_add to free: no entry of the two
   lists is wrong, however much of the block a build got to. *)
THEOREM Soundness == Spec => []CacheSound
<1>1. DirInv => CacheSound
  BY DEF DirInv
<1> QED
  BY <1>1, DirInvariant, PTL

(* Where every build got to the end of the block, the two lists cover it. *)
THEOREM Coverage == Spec => []CacheMirrorsBlock
<1>1. DirInv => CacheMirrorsBlock
  BY DEF DirInv
<1> QED
  BY <1>1, DirInvariant, PTL

(* A step that does not stop the kernel writes to empty slots and clears
   others: it never puts one entry over another. *)
LEMMA KeptStep ==
  ASSUME TypeOK, DirInv, [Next]_vars, ~oops', NEW k \in SlotNos, slot[k] # Zero
  PROVE  slot'[k] \in {slot[k], Zero}
<1>1. CASE slot' = slot
  BY <1>1
<1>2. ASSUME NEW x \in Names, Unlink(x)
      PROVE  slot'[k] \in {slot[k], Zero}
  BY <1>2, UnlinkLists DEF TypeOK
<1>3. ASSUME NEW x \in Names, NEW i \in DirInos, Create(x, i)
      PROVE  slot'[k] \in {slot[k], Zero}
  <2>1. Runs /\ CacheSound
    BY <1>3 DEF Create, DirInv
  <2>2. PICK e \in Entry : slot' = [slot EXCEPT ![e.no] = e.rec] /\ slot[e.no] = Zero
    BY <1>3, <2>1, CreateShape
  <2>3. k # e.no
    BY <2>2
  <2> QED
    BY <2>2, <2>3 DEF TypeOK
<1> QED
  BY <1>1, <1>2, <1>3, NextKinds DEF Release

(* simplefs_create_fs_object: as long as the kernel runs, a new entry never
   goes over one that is there, not even through a cache that is short. *)
THEOREM NoOverwrite == Spec => EntriesKept
<1>1. TypeOK /\ DirInv /\ [Next]_vars =>
        [~oops' => \A k \in SlotNos : slot[k] # Zero => slot'[k] \in {slot[k], Zero}]_vars
  BY KeptStep
<1> QED
  BY <1>1, DirInvariant, PTL DEF Spec, EntriesKept

-----------------------------------------------------------------------------
(* The refinement of DirMap: what BlockMap is of any block *)
InUse(b)  == {k \in SlotNos : b[k] # Zero}
Unique(b) == \A k, l \in InUse(b) : b[k].name = b[l].name => k = l
MapOf(b)  == [x \in {b[k].name : k \in InUse(b)} |-> b[CHOOSE k \in SlotNos : b[k].name = x].ino]

(* Each name in the block has the inode number of its record. *)
LEMMA MapFacts ==
  ASSUME NEW b \in [SlotNos -> Record], Unique(b)
  PROVE  /\ DOMAIN MapOf(b) = {b[k].name : k \in InUse(b)}
         /\ \A k \in InUse(b) : /\ b[k].name \in Names /\ b[k].ino \in DirInos
                                /\ MapOf(b)[b[k].name] = b[k].ino
<1>1. DOMAIN MapOf(b) = {b[k].name : k \in InUse(b)}
  BY DEF MapOf
<1>2. ASSUME NEW k \in InUse(b)
      PROVE  /\ b[k].name \in Names /\ b[k].ino \in DirInos
             /\ MapOf(b)[b[k].name] = b[k].ino
  <2>1. k \in SlotNos /\ b[k] \in Record /\ b[k] # Zero
    BY DEF InUse
  <2>2. b[k].name \in Names /\ b[k].ino \in DirInos
    BY <2>1, RecordFacts
  <2> DEFINE l == CHOOSE q \in SlotNos : b[q].name = b[k].name
  <2>3. l \in SlotNos /\ b[l].name = b[k].name
    BY <2>1
  <2>4. MapOf(b)[b[k].name] = b[l].ino
    BY DEF MapOf
  <2> HIDE DEF l
  <2>5. b[l] # Zero
    BY <2>2, <2>3, RecordFacts
  <2>6. l \in InUse(b)
    BY <2>3, <2>5 DEF InUse
  <2>7. l = k
    BY <2>3, <2>6 DEF Unique
  <2> QED
    BY <2>2, <2>4, <2>7
<1> QED
  BY <1>1, <1>2

(* What is in the map is what is in the block. *)
LEMMA MapEntries ==
  ASSUME NEW b \in [SlotNos -> Record], Unique(b)
  PROVE  Abstract!Entries(MapOf(b)) = {<<b[k].name, b[k].ino>> : k \in InUse(b)}
<1> DEFINE m == MapOf(b)
<1>1. /\ DOMAIN m = {b[k].name : k \in InUse(b)}
      /\ \A k \in InUse(b) : m[b[k].name] = b[k].ino
  BY MapFacts
<1> HIDE DEF m
<1>2. {<<x, m[x]>> : x \in DOMAIN m} = {<<b[k].name, b[k].ino>> : k \in InUse(b)}
  BY <1>1
<1> QED
  BY <1>2 DEF Abstract!Entries, m

(* The state of the abstract directory, before and after a step *)
LEMMA AbstractState ==
  /\ BlockMap = MapOf(slot)
  /\ BlockMap' = MapOf(slot')
BY DEF BlockMap, MapOf, InUse

(* The names in the block are unique while nothing was lost. *)
LEMMA UniqueNames ==
  ASSUME NamesUnique, ~oops, ~short
  PROVE  Unique(slot)
BY DEF NamesUnique, Runs, Unique, InUse

(* The same after a step *)
LEMMA UniqueNamesAfter ==
  ASSUME NamesUnique', ~oops', ~short'
  PROVE  Unique(slot')
BY DEF NamesUnique, Runs, Unique, InUse

(* A create adds the name to the map. *)
LEMMA AddStep ==
  ASSUME TypeOK, TypeOK', DirInv, DirInv', ~oops, ~short, ~oops', ~short',
         NEW x \in Names, NEW i \in DirInos, Create(x, i)
  PROVE  Abstract!Add(x, i)
<1>1. Runs /\ CacheSound /\ NamesUnique /\ NamesUnique' /\ CacheMirrorsBlock
  BY DEF Runs, DirInv
<1>2. PICK e \in Entry :
           /\ e.rec = [name |-> x, ino |-> i] /\ e.rec # Zero
           /\ slot[e.no] = Zero
           /\ slot' = [slot EXCEPT ![e.no] = e.rec]
  BY <1>1, CreateShape
<1>3. e.no \in SlotNos
  BY DEF Entry
<1>4. slot \in [SlotNos -> Record] /\ slot' \in [SlotNos -> Record]
  BY DEF TypeOK
<1>5. Unique(slot) /\ Unique(slot')
  BY <1>1, UniqueNames, UniqueNamesAfter
<1>6. \A k \in SlotNos : slot'[k] = IF k = e.no THEN e.rec ELSE slot[k]
  BY <1>2, <1>4
<1>7. InUse(slot') = InUse(slot) \cup {e.no} /\ e.no \notin InUse(slot)
  BY <1>2, <1>3, <1>6 DEF InUse
<1>8. ASSUME NEW k \in InUse(slot)
      PROVE  slot'[k] = slot[k] /\ slot[k].name # x
  <2>1. Covers(cache.used, cache.free)
    BY <1>1, DirInvParts DEF Create
  <2>2. k \in SlotNos /\ slot[k] # Zero /\ k # e.no
    BY <1>7 DEF InUse
  <2>3. PICK p \in DOMAIN cache.used : cache.used[p].rec = slot[k]
    BY <1>1, <2>1, <2>2, UsedCovers
  <2> QED
    BY <1>6, <2>2, <2>3 DEF Create, Absent
<1> DEFINE m == MapOf(slot)
           n == MapOf(slot')
<1>9. /\ DOMAIN m = {slot[k].name : k \in InUse(slot)}
      /\ \A k \in InUse(slot) : m[slot[k].name] = slot[k].ino
  BY <1>4, <1>5, MapFacts
<1>10. /\ DOMAIN n = {slot'[k].name : k \in InUse(slot')}
       /\ \A k \in InUse(slot') : n[slot'[k].name] = slot'[k].ino
       /\ n = [y \in DOMAIN n |-> n[y]]
  <2>1. n = [y \in DOMAIN n |-> n[y]]
    BY DEF MapOf
  <2> QED
    BY <1>4, <1>5, <2>1, MapFacts
<1> HIDE DEF m, n
<1>11. slot'[e.no].name = x /\ slot'[e.no].ino = i
  BY <1>2, <1>3, <1>6
<1>12. DOMAIN n = DOMAIN m \cup {x}
  BY <1>7, <1>8, <1>9, <1>10, <1>11
<1>13. x \notin DOMAIN m
  BY <1>8, <1>9
<1>14. n[x] = i
  BY <1>7, <1>10, <1>11
<1>15. ASSUME NEW y \in DOMAIN m
       PROVE  n[y] = m[y]
  <2>1. PICK k \in InUse(slot) : y = slot[k].name
    BY <1>9
  <2> QED
    BY <1>7, <1>8, <1>9, <1>10, <2>1
<1>16. n = [y \in DOMAIN m \cup {x} |-> IF y = x THEN i ELSE m[y]]
  BY <1>10, <1>12, <1>13, <1>14, <1>15
<1>17. result' = [op |-> "create", entries |-> {<<x, i>>}]
  BY CreateLists DEF Reports
<1>18. pos' = pos
  BY DEF Create, Stops
<1> QED
  BY <1>13, <1>16, <1>17, <1>18, AbstractState DEF Abstract!Add, m, n

(* An unlink takes the name out of the map. *)
LEMMA RemoveStep ==
  ASSUME TypeOK, TypeOK', DirInv, DirInv', ~oops, ~short, ~oops', ~short',
         NEW x \in Names, Unlink(x)
  PROVE  Abstract!Remove(x)
<1>1. Runs /\ CacheSound /\ NamesUnique /\ NamesUnique'
  BY DEF Runs, DirInv
<1>2. PICK p \in DOMAIN cache.used :
           /\ FirstWith(cache.used, x, p)
           /\ cache.used[p] \in Entry
           /\ slot' = [slot EXCEPT ![cache.used[p].no] = Zero]
           /\ Reports("unlink", {cache.used[p].rec})
  BY UnlinkLists
<1> DEFINE h == cache.used[p].no
<1>3. /\ h \in SlotNos /\ slot[h] # Zero /\ slot[h] = cache.used[p].rec /\ slot[h].name = x
  BY <1>1, <1>2 DEF CacheSound, FirstWith, Entry
<1>4. slot \in [SlotNos -> Record] /\ slot' \in [SlotNos -> Record]
  BY DEF TypeOK
<1>5. slot' = [slot EXCEPT ![h] = Zero]
  BY <1>2
<1>6. result' = [op |-> "unlink", entries |-> {<<x, slot[h].ino>>}]
  BY <1>2, <1>3 DEF Reports
<1> HIDE DEF h
<1>7. Unique(slot) /\ Unique(slot')
  BY <1>1, UniqueNames, UniqueNamesAfter
<1>8. \A k \in SlotNos : slot'[k] = IF k = h THEN Zero ELSE slot[k]
  BY <1>4, <1>5
<1>9. InUse(slot') = InUse(slot) \ {h} /\ h \in InUse(slot)
  BY <1>3, <1>8 DEF InUse
<1>10. \A k \in InUse(slot') : slot'[k] = slot[k] /\ slot[k].name # x
  BY <1>3, <1>7, <1>8, <1>9 DEF Unique, InUse
<1> DEFINE m == MapOf(slot)
           n == MapOf(slot')
<1>11. /\ DOMAIN m = {slot[k].name : k \in InUse(slot)}
       /\ \A k \in InUse(slot) : m[slot[k].name] = slot[k].ino
  BY <1>4, <1>7, MapFacts
<1>12. /\ DOMAIN n = {slot'[k].name : k \in InUse(slot')}
       /\ \A k \in InUse(slot') : n[slot'[k].name] = slot'[k].ino
       /\ n = [y \in DOMAIN n |-> n[y]]
  <2>1. n = [y \in DOMAIN n |-> n[y]]
    BY DEF MapOf
  <2> QED
    BY <1>4, <1>7, <2>1, MapFacts
<1> HIDE DEF m, n
<1>13. x \in DOMAIN m /\ m[x] = slot[h].ino
  BY <1>3, <1>9, <1>11
<1>14. DOMAIN n = DOMAIN m \ {x}
  <2>1. ASSUME NEW y \in DOMAIN m, y # x
        PROVE  y \in DOMAIN n
    <3>1. PICK k \in InUse(slot) : y = slot[k].name
      BY <1>11
    <3>2. k \in InUse(slot')
      BY <1>3, <1>9, <2>1, <3>1
    <3> QED
      BY <1>10, <1>12, <3>1, <3>2
  <2>2. \A y \in DOMAIN n : y \in DOMAIN m /\ y # x
    BY <1>9, <1>10, <1>11, <1>12
  <2> QED
    BY <2>1, <2>2
<1>15. ASSUME NEW y \in DOMAIN n
       PROVE  n[y] = m[y]
  <2>1. PICK k \in InUse(slot') : y = slot'[k].name
    BY <1>12
  <2> QED
    BY <1>9, <1>10, <1>11, <1>12, <2>1
<1>16. n = [y \in DOMAIN m \ {x} |-> m[y]]
  BY <1>12, <1>14, <1>15
<1>17. pos' = pos
  BY DEF Unlink
<1> QED
  BY <1>6, <1>13, <1>16, <1>17, AbstractState DEF Abstract!Remove, m, n

(* The first m entries of a list of used ones *)
PairOf(r) == <<r.name, r.ino>>
Firsts(u, m) == {PairOf(u[p].rec) : p \in 1 .. m}

(* They are entries of the block and, as no two have the same name, m. *)
LEMMA FirstsCount ==
  ASSUME NEW b \in [SlotNos -> Record], Unique(b), NEW u \in Seq(Entry), UsedSound(u, b),
         NEW m \in Nat, m <= Len(u)
  PROVE  /\ Firsts(u, m) \subseteq {PairOf(b[k]) : k \in InUse(b)}
         /\ Cardinality(Firsts(u, m)) = m
<1>1. SlotNos \subseteq Int /\ \A e \in Entry : e.no \in SlotNos
  BY DirAssumption DEF SlotNos, Entry
<1>2. Len(u) \in Nat /\ DOMAIN u = 1 .. Len(u) /\ \A p \in 1 .. Len(u) : u[p] \in Entry
  BY LenProperties, ElementOfSeq
<1>3. \A p \in 1 .. m : p \in DOMAIN u /\ u[p].no \in SlotNos
  BY <1>1, <1>2
<1>4. \A p \in 1 .. m : u[p].no \in InUse(b) /\ u[p].rec = b[u[p].no]
  BY <1>3 DEF UsedSound, InUse
<1>5. ASSUME NEW p \in 1 .. m, NEW q \in 1 .. m, PairOf(u[p].rec) = PairOf(u[q].rec)
      PROVE  p = q
  <2>1. u[p].rec.name = u[q].rec.name
    BY <1>5 DEF PairOf
  <2>2. u[p].no = u[q].no
    BY <1>4, <2>1 DEF Unique
  <2>3. u[p].no \in Int /\ u[q].no \in Int
    BY <1>1, <1>3
  <2>4. ~(p < q) /\ ~(q < p)
    BY <1>3, <2>2, <2>3 DEF UsedSound
  <2> QED
    BY <2>4
<1> DEFINE f == [p \in 1 .. m |-> PairOf(u[p].rec)]
<1>6. f \in Bijection(1 .. m, Firsts(u, m))
  <2>1. f \in [1 .. m -> Firsts(u, m)]
    BY DEF Firsts
  <2>2. \A t \in Firsts(u, m) : \E p \in 1 .. m : f[p] = t
    BY DEF Firsts
  <2>3. \A p, q \in 1 .. m : f[p] = f[q] => p = q
    BY <1>5
  <2> HIDE DEF f
  <2> QED
    BY <2>1, <2>2, <2>3, Fun_IsBij
<1>7. Cardinality(Firsts(u, m)) = m
  <2>1. ExistsBijection(1 .. m, Firsts(u, m))
    BY <1>6 DEF ExistsBijection
  <2> QED
    BY <2>1, FS_CountingElements
<1> QED
  BY <1>4, <1>7 DEF Firsts

(* All of a complete list is all of the block. *)
LEMMA FirstsAll ==
  ASSUME NEW b \in [SlotNos -> Record], NEW u \in Seq(Entry), NEW f \in Seq(Entry),
         UsedSound(u, b), FreeSound(f, b), Covers(u, f)
  PROVE  Firsts(u, Len(u)) = {PairOf(b[k]) : k \in InUse(b)}
<1>1. DOMAIN u = 1 .. Len(u)
  OBVIOUS
<1>2. \A p \in DOMAIN u : u[p].no \in InUse(b) /\ b[u[p].no] = u[p].rec
  BY DEF UsedSound, Covers, InUse
<1>3. \A k \in InUse(b) : \E p \in DOMAIN u : u[p].no = k
  BY DEF FreeSound, Covers, InUse
<1> QED
  BY <1>1, <1>2, <1>3 DEF Firsts

(* dir_emit into a buffer: all of a list, or what there is room for *)
LEMMA EmittedFirsts ==
  ASSUME NEW u \in Seq(Entry), NEW n \in Nat
  PROVE  {<<r.name, r.ino>> : r \in Emitted(u, n)}
           = Firsts(u, IF Len(u) <= n THEN Len(u) ELSE n)
<1>1. DOMAIN u = 1 .. Len(u) /\ Len(u) \in Nat
  BY LenProperties
<1>2. {q \in DOMAIN u : q <= n} = 1 .. (IF Len(u) <= n THEN Len(u) ELSE n)
  BY <1>1
<1> QED
  BY <1>2 DEF Emitted, Firsts, PairOf

(* A listing through a file: of a complete cache, as much of the map as there
   is room for; nothing after that *)
LEMMA ListStep ==
  ASSUME TypeOK, TypeOK', DirInv, DirInv', ~oops, ~short, ~oops', ~short',
         NEW f \in Files, NEW n \in Rooms, Iterate(f, n)
  PROVE  Abstract!List(f, n) \/ Abstract!ListMore(f, n)
<1>1. CacheSound' /\ CacheMirrorsBlock' /\ NamesUnique
  BY DEF DirInv
<1>2. slot' = slot /\ BlockMap' = BlockMap
  BY AbstractState DEF Iterate
<1>3. CASE pos[f] = "moved" /\ Lists(f, n, {}) /\ UNCHANGED files
  BY <1>2, <1>3 DEF Lists, files, Abstract!ListMore
<1>4. CASE /\ pos[f] = "zero"
           /\ Lists(f, n, Emitted(cache'.used, n))
           /\ pos' = [pos EXCEPT ![f] = IF cache'.used = <<>> THEN "zero" ELSE "moved"]
  <2> DEFINE u == cache'.used
             g == cache'.free
  <2>1. ~cache'.null
    BY BuildSound DEF Iterate, Stops
  <2>2. UsedSound(u, slot) /\ FreeSound(g, slot) /\ Covers(u, g)
    BY <1>1, <1>2, <2>1, DirInvPartsAfter
  <2>3. u \in Seq(Entry) /\ g \in Seq(Entry)
    <3>1. cache' \in Cache
      BY <2>1 DEF TypeOK, Null
    <3> QED
      BY <3>1 DEF Cache
  <2>4. Lists(f, n, Emitted(u, n)) /\ pos' = [pos EXCEPT ![f] = IF u = <<>> THEN "zero" ELSE "moved"]
    BY <1>4
  <2> HIDE DEF u, g
  <2>5. n \in Nat /\ Len(u) \in Nat
    BY <2>3, DirAssumption, LenProperties
  <2>6. slot \in [SlotNos -> Record] /\ Unique(slot)
    BY <1>1, UniqueNames DEF TypeOK
  <2> DEFINE m == IF Len(u) <= n THEN Len(u) ELSE n
             E == Firsts(u, m)
             All == Abstract!Entries(BlockMap)
  <2>7. All = {PairOf(slot[k]) : k \in InUse(slot)}
    BY <2>6, MapEntries, AbstractState DEF PairOf
  <2>8. result' = [op |-> "iterate", file |-> f, room |-> n, entries |-> E]
    BY <2>3, <2>4, <2>5, EmittedFirsts DEF Lists
  <2>9. m \in Nat /\ m <= Len(u) /\ m <= n /\ (m = Len(u) \/ m = n)
    BY <2>5
  <2>10. Firsts(u, Len(u)) = All
    BY <2>2, <2>3, <2>6, <2>7, FirstsAll
  <2>11. All = {} <=> u = <<>>
    <3>1. u = <<>> <=> Len(u) = 0
      BY <2>3, EmptySeq
    <3>2. Len(u) = 0 <=> Firsts(u, Len(u)) = {}
      BY <2>5 DEF Firsts
    <3> QED
      BY <2>10, <3>1, <3>2
  <2> HIDE DEF m, All
  <2>12. E \subseteq All /\ Cardinality(E) = m
    BY <2>2, <2>3, <2>6, <2>7, <2>9, FirstsCount
  <2>13. E = All \/ Cardinality(E) = n
    BY <2>9, <2>10, <2>12
  <2>14. Cardinality(E) <= n
    BY <2>9, <2>12
  <2> HIDE DEF E
  <2>15. pos' = [pos EXCEPT ![f] = IF All = {} THEN "zero" ELSE "moved"]
    BY <2>4, <2>11
  <2>16. \E F \in SUBSET All :
           /\ Cardinality(F) <= n
           /\ F = All \/ Cardinality(F) = n
           /\ result' = [op |-> "iterate", file |-> f, room |-> n, entries |-> F]
    BY <2>8, <2>12, <2>13, <2>14
  <2>17. \A F : Abstract!Cardinality(F) = Cardinality(F)
    BY DEF Abstract!Cardinality, Cardinality
  <2> QED
    BY <1>2, <1>4, <2>15, <2>16, <2>17 DEF Abstract!List, All
<1> QED
  BY <1>3, <1>4 DEF Iterate, Stops

(* A lookup through a complete cache reports what the map has. *)
LEMMA FindStep ==
  ASSUME TypeOK, DirInv, ~oops, ~short, ~oops', ~short', NEW x \in Names, Lookup(x)
  PROVE  Abstract!Find(x)
<1>1. CacheSound /\ CacheMirrorsBlock /\ NamesUnique /\ Runs
  BY DEF DirInv, Runs
<1>2. /\ ~cache.null /\ slot' = slot /\ pos' = pos
      /\ \/ Absent(cache.used, x) /\ Reports("lookup", {})
         \/ \E p \in DOMAIN cache.used :
              FirstWith(cache.used, x, p) /\ Reports("lookup", {cache.used[p].rec})
  BY DEF Lookup, Stops
<1>3. Covers(cache.used, cache.free)
  BY <1>1, <1>2, DirInvParts
<1>4. Unique(slot) /\ slot \in [SlotNos -> Record]
  BY <1>1, UniqueNames DEF TypeOK
<1> DEFINE E == {<<slot[k].name, slot[k].ino>> : k \in InUse(slot)}
<1>5. Abstract!Entries(MapOf(slot)) = E
  BY <1>4, MapEntries
<1>6. CASE Absent(cache.used, x) /\ Reports("lookup", {})
  <2>1. \A k \in InUse(slot) : slot[k].name # x
    BY <1>1, <1>3, <1>6, UsedCovers DEF Absent, InUse
  <2>2. {e \in E : e[1] = x} = {}
    BY <2>1
  <2>3. result' = [op |-> "lookup", entries |-> {}]
    BY <1>6 DEF Reports
  <2> QED
    BY <1>2, <1>5, <2>2, <2>3, AbstractState DEF Abstract!Find
<1>7. ASSUME NEW p \in DOMAIN cache.used, FirstWith(cache.used, x, p),
             Reports("lookup", {cache.used[p].rec})
      PROVE  Abstract!Find(x)
  <2>1. cache.used \in Seq(Entry)
    BY CacheFields
  <2>2. cache.used[p] \in Entry
    BY <2>1
  <2> DEFINE h == cache.used[p].no
  <2>3. h \in SlotNos
    BY <2>2 DEF Entry
  <2>4. cache.used[p].rec = slot[h] /\ slot[h] # Zero /\ slot[h].name = x
    BY <1>1, <1>7 DEF CacheSound, FirstWith
  <2>5. result' = [op |-> "lookup", entries |-> {<<slot[h].name, slot[h].ino>>}]
    BY <1>7, <2>4 DEF Reports
  <2> HIDE DEF h
  <2>6. h \in InUse(slot)
    BY <2>3, <2>4 DEF InUse
  <2>7. \A k \in InUse(slot) : slot[k].name = x => k = h
    BY <1>4, <2>4, <2>6 DEF Unique
  <2>8. {e \in E : e[1] = x} = {<<slot[h].name, slot[h].ino>>}
    BY <2>4, <2>6, <2>7
  <2> QED
    BY <1>2, <1>5, <2>5, <2>8, AbstractState DEF Abstract!Find
<1> QED
  BY <1>2, <1>6, <1>7

(* What was lost stays lost. *)
LEMMA LostForGood ==
  ASSUME TypeOK, [Next]_vars, ~oops' /\ ~short'
  PROVE  ~oops /\ ~short
<1>1. Runs /\ Builds => (~short' => ~short)
  BY BuildSound
<1> QED
  BY <1>1, NextKinds, UnlinkLists, CreateLists DEF Release, Runs

(* Every step of the cache is a step of the map, or none. *)
LEMMA DirMapStep ==
  ASSUME TypeOK, TypeOK', DirInv, DirInv', [Next]_vars
  PROVE  [Abstract!Next]_(Abstract!vars)
<1>1. CASE oops' \/ short'
  BY <1>1 DEF Abstract!Next, Abstract!Lost
<1>2. CASE ~oops' /\ ~short'
  <2>1. ~oops /\ ~short
    BY <1>2, LostForGood
  <2>2. ASSUME NEW f \in Files, NEW n \in Rooms, Iterate(f, n)
        PROVE  Abstract!Next
    BY <1>2, <2>1, <2>2, ListStep DEF Abstract!Next, Abstract!Call
  <2>3. ASSUME NEW x \in Names, Lookup(x) \/ Unlink(x)
        PROVE  Abstract!Next
    BY <1>2, <2>1, <2>3, FindStep, RemoveStep DEF Abstract!Next, Abstract!Call
  <2>4. ASSUME NEW x \in Names, NEW i \in DirInos, Create(x, i)
        PROVE  Abstract!Next
    BY <1>2, <2>1, <2>4, AddStep DEF Abstract!Next, Abstract!Call
  <2>5. CASE Release \/ Stopped \/ UNCHANGED vars
    BY <2>5, AbstractState DEF Release, Stopped, vars, Abstract!vars
  <2>6. ASSUME NEW f \in Files, Open(f) \/ Close(f)
        PROVE  Abstract!Next
    <3>1. slot' = slot /\ BlockMap' = BlockMap
      BY <2>6, AbstractState DEF Open, Close
    <3>2. Abstract!Open(f) \/ Abstract!Close(f)
      BY <2>6, <3>1 DEF Open, Close, Abstract!Open, Abstract!Close
    <3> QED
      BY <1>2, <2>1, <3>2 DEF Abstract!Next, Abstract!Call
  <2> QED
    BY <2>2, <2>3, <2>4, <2>5, <2>6 DEF Next
<1> QED
  BY <1>1, <1>2

(* What is found, added and removed through the cache is what a map from
   names to inode numbers would say, until the kernel stops or runs out of
   memory in a build.  simplefs_iterate: the first listing through an open
   file is all of the map or as much of it as the buffer has room for, and
   the later ones are empty. *)
THEOREM Refinement == Spec => ImplementsDirMap
<1>1. Init => Abstract!Init
  <2> SUFFICES ASSUME Init PROVE Abstract!Init
    OBVIOUS
  <2>1. slot \in [SlotNos -> Record] /\ Unique(slot)
    BY TypeInit, DirInit, UniqueNames DEF DirInv, TypeOK, Init
  <2> DEFINE m == MapOf(slot)
  <2>2. /\ DOMAIN m = {slot[k].name : k \in InUse(slot)}
        /\ \A k \in InUse(slot) : /\ slot[k].name \in Names /\ slot[k].ino \in DirInos
                                  /\ m[slot[k].name] = slot[k].ino
    BY <2>1, MapFacts
  <2>3. m = [y \in DOMAIN m |-> m[y]]
    BY DEF MapOf
  <2> HIDE DEF m
  <2>4. DOMAIN m \in SUBSET Names /\ m \in [DOMAIN m -> DirInos]
    BY <2>2, <2>3
  <2>5. \E S \in SUBSET Names : m \in [S -> DirInos]
    BY <2>4
  <2> QED
    BY <2>5, AbstractState DEF Abstract!Init, Init, m
<1>2. TypeOK /\ TypeOK' /\ DirInv /\ DirInv' /\ [Next]_vars => [Abstract!Next]_(Abstract!vars)
  BY DirMapStep
<1> QED
  BY <1>1, <1>2, DirInvariant, PTL DEF Spec, ImplementsDirMap, Abstract!Spec
=============================================================================
