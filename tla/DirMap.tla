------------------------------- MODULE DirMap -------------------------------
(***************************************************************************)
(* What a directory promises: a map from names to inode numbers, listed    *)
(* once through each open file.  result is what the last call reported;    *)
(* nothing is promised once ok is FALSE.                                   *)
(***************************************************************************)
EXTENDS Naturals, FiniteSets

CONSTANTS Names, DirInos, Files, Rooms

VARIABLES
  map,       \* inode numbers by name
  at,        \* per file: "closed", "zero" (at its beginning) or "moved" (listed)
  result,
  ok

vars == <<map, at, result, ok>>

Entries(m) == {<<x, m[x]>> : x \in DOMAIN m}

Init ==
  /\ \E S \in SUBSET Names : map \in [S -> DirInos]
  /\ at = [f \in Files |-> "closed"]
  /\ result = [op |-> "none", entries |-> {}]
  /\ ok = TRUE

Open(f) ==
  /\ at[f] = "closed"
  /\ at' = [at EXCEPT ![f] = "zero"]
  /\ UNCHANGED <<map, result>>

Close(f) ==
  /\ at[f] # "closed"
  /\ at' = [at EXCEPT ![f] = "closed"]
  /\ UNCHANGED <<map, result>>

(* A listing with room for n entries reports entries of the map, all of them
   or as many as there is room for. *)
List(f, n) ==
  /\ at[f] = "zero"
  /\ \E E \in SUBSET Entries(map) :
       /\ Cardinality(E) <= n
       /\ E = Entries(map) \/ Cardinality(E) = n
       /\ result' = [op |-> "iterate", file |-> f, room |-> n, entries |-> E]
  /\ at' = [at EXCEPT ![f] = IF Entries(map) = {} THEN "zero" ELSE "moved"]
  /\ UNCHANGED map

(* A file that was listed has nothing more to report. *)
ListMore(f, n) ==
  /\ at[f] = "moved"
  /\ result' = [op |-> "iterate", file |-> f, room |-> n, entries |-> {}]
  /\ UNCHANGED <<map, at>>

Find(x) ==
  /\ result' = [op |-> "lookup", entries |-> {e \in Entries(map) : e[1] = x}]
  /\ UNCHANGED <<map, at>>

Add(x, i) ==
  /\ x \notin DOMAIN map
  /\ map' = [y \in DOMAIN map \cup {x} |-> IF y = x THEN i ELSE map[y]]
  /\ result' = [op |-> "create", entries |-> {<<x, i>>}]
  /\ UNCHANGED at

Remove(x) ==
  /\ x \in DOMAIN map
  /\ map' = [y \in DOMAIN map \ {x} |-> map[y]]
  /\ result' = [op |-> "unlink", entries |-> {<<x, map[x]>>}]
  /\ UNCHANGED at

Call ==
  \/ \E f \in Files : Open(f) \/ Close(f)
  \/ \E f \in Files, n \in Rooms : List(f, n) \/ ListMore(f, n)
  \/ \E x \in Names : Find(x) \/ Remove(x)
  \/ \E x \in Names, i \in DirInos : Add(x, i)

(* The directory is lost, for good. *)
Lost == ok' = FALSE

Next == (ok /\ ok' /\ Call) \/ Lost

Spec == Init /\ [][Next]_vars
=============================================================================
