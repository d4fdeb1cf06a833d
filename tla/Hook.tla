-------------------------------- MODULE Hook --------------------------------
(***************************************************************************)
(* The hook module: it puts a jump to its own function over the first      *)
(* bytes of ipv4_conntrack_in, and makes a stub the way back to the rest.  *)
(*                                                                         *)
(* Addresses are numbers and a jump is relative, as in the code.  Packets  *)
(* are received, and ipv4_conntrack_in is called, in softirqs: a CPU in a  *)
(* call is not stopped for a poke, which stops all CPUs, until it returns. *)
(***************************************************************************)
EXTENDS Integers

CONSTANTS
  Cpus,
  OPTSIZE,                \* the length of a jump
  ipv4_conntrack_in,      \* three addresses
  stub_ipv4_conntrack_in,
  hook_ipv4_conntrack_in

(* Three functions that do not overlap, each longer than a jump, at whatever
   addresses the kernel and the loader of modules chose: two of them begin
   more than a jump apart.  (Kernel and modules lie within the two gigabytes
   that the s32 of a displacement spans, so that none is cut off.) *)
Apart(x, y) == x + OPTSIZE < y \/ y + OPTSIZE < x

ASSUME HookAssumption ==
  /\ OPTSIZE \in Nat \ {0}
  /\ \A x \in {ipv4_conntrack_in, stub_ipv4_conntrack_in, hook_ipv4_conntrack_in} : x \in Nat \ {0}
  /\ Apart(ipv4_conntrack_in, stub_ipv4_conntrack_in)
  /\ Apart(ipv4_conntrack_in, hook_ipv4_conntrack_in)
  /\ Apart(stub_ipv4_conntrack_in, hook_ipv4_conntrack_in)

VARIABLES
  text,    \* what is at the start of the hooked function and of the stub
  ptr,     \* ptr_orig_conntrack_in
  phase,   \* how far the module is loaded or unloaded
  in,      \* CPUs in a call of ipv4_conntrack_in
  at,      \* the instruction a CPU is at
  ran      \* how often the hooked function's body ran in its last call

vars == <<text, ptr, phase, in, at, ran>>

Target == ipv4_conntrack_in
Stub   == stub_ipv4_conntrack_in
Body   == Target + OPTSIZE

(* The hooked function starts with a nop that is as long as a jump, which the
   kernel keeps there for tracing; the stub, before it is overwritten, prints
   a line and returns. *)
Nop    == [op |-> "nop", disp |-> 0]
Ret    == [op |-> "ret", disp |-> 0]
Jmp(d) == [op |-> "jmp", disp |-> d]

(* As elsewhere, an operator whose name says what is wrong with it is the
   faulty version of the next and is used in no specification. *)

jump_op == Jmp(hook_ipv4_conntrack_in - Target - OPTSIZE)

(* orig_offset, from the end of the jump in the stub *)
OrigOffsetFromStart == Target + OPTSIZE - Stub

OrigOffset == Target + OPTSIZE - (Stub + OPTSIZE)

saved_op == Jmp(OrigOffset)

(* text_poke_smp: with every CPU stopped *)
Poke(a, i) == in = {} /\ text' = [text EXCEPT ![a] = i]

(* A CPU that runs what is no code stops the machine. *)
Wild(c) == c \in in /\ at[c] \notin {Target, Body, Stub, hook_ipv4_conntrack_in}

Runs == \A c \in Cpus : ~Wild(c)

-----------------------------------------------------------------------------
Init ==
  /\ text = [a \in {Target, Stub} |-> IF a = Target THEN Nop ELSE Ret]
  /\ ptr = 0
  /\ phase = "new"
  /\ in = {}
  /\ at = [c \in Cpus |-> 0]
  /\ ran = [c \in Cpus |-> 1]

(* The replacing part of hook_conn_init; what precedes it may fail and has
   changed nothing. *)
LoadStubNot ==
  /\ phase = "new" /\ Runs
  /\ phase' = "stub"
  /\ UNCHANGED <<text, ptr, in, at, ran>>

LoadStub ==
  /\ phase = "new" /\ Runs
  /\ Poke(Stub, saved_op)
  /\ phase' = "stub"
  /\ UNCHANGED <<ptr, in, at, ran>>

LoadPtrToTarget ==
  /\ phase = "stub" /\ Runs
  /\ ptr' = Target
  /\ phase' = "ptr"
  /\ UNCHANGED <<text, in, at, ran>>

LoadPtr ==
  /\ phase = "stub" /\ Runs
  /\ ptr' = Stub
  /\ phase' = "ptr"
  /\ UNCHANGED <<text, in, at, ran>>

LoadJump ==
  /\ phase = "ptr" /\ Runs
  /\ Poke(Target, jump_op)
  /\ phase' = "loaded"
  /\ UNCHANGED <<ptr, in, at, ran>>

(* hook_conn_exit: saved_op is the stub's way back, and jump_op the target's
   way to the hook; each goes to the other's place. *)
UnloadTarget ==
  /\ phase = "loaded" /\ Runs
  /\ Poke(Target, saved_op)
  /\ phase' = "unhooked"
  /\ UNCHANGED <<ptr, in, at, ran>>

UnloadStub ==
  /\ phase = "unhooked" /\ Runs
  /\ Poke(Stub, jump_op)
  /\ phase' = "gone"
  /\ UNCHANGED <<ptr, in, at, ran>>

-----------------------------------------------------------------------------
(* A packet comes in. *)
Enter(c) ==
  /\ c \notin in /\ Runs
  /\ in' = in \cup {c}
  /\ at' = [at EXCEPT ![c] = Target]
  /\ ran' = [ran EXCEPT ![c] = 0]
  /\ UNCHANGED <<text, ptr, phase>>

Leave(c) == in' = in \ {c} /\ at' = [at EXCEPT ![c] = 0]

(* The start of the hooked function or of the stub *)
Execute(c) ==
  /\ c \in in /\ at[c] \in {Target, Stub} /\ Runs
  /\ LET i == text[at[c]] IN
     IF i.op = "ret" THEN Leave(c)
     ELSE at' = [at EXCEPT ![c] = @ + OPTSIZE + i.disp] /\ UNCHANGED in
  /\ UNCHANGED <<text, ptr, phase, ran>>

(* hook_ipv4_conntrack_in returns what ptr_orig_conntrack_in returns. *)
HookBody(c) ==
  /\ c \in in /\ at[c] = hook_ipv4_conntrack_in /\ Runs
  /\ at' = [at EXCEPT ![c] = ptr]
  /\ UNCHANGED <<text, ptr, phase, in, ran>>

OriginalBody(c) ==
  /\ c \in in /\ at[c] = Body /\ Runs
  /\ ran' = [ran EXCEPT ![c] = @ + 1]
  /\ Leave(c)
  /\ UNCHANGED <<text, ptr, phase>>

Step(c) == Execute(c) \/ HookBody(c) \/ OriginalBody(c)

Stopped == ~Runs /\ UNCHANGED vars

Next ==
  \/ LoadStub \/ LoadPtr \/ LoadJump \/ UnloadTarget \/ UnloadStub \/ Stopped
  \/ \E c \in Cpus : Enter(c) \/ Step(c)

Spec == Init /\ [][Next]_vars

(* A CPU executes one instruction after another. *)
FairSpec == Spec /\ \A c \in Cpus : WF_vars(Step(c))
-----------------------------------------------------------------------------
(* hook_conn_init, hook_ipv4_conntrack_in: whatever part of the loading is
   done when a packet comes in, a call that returned has run the original
   function's body, and once. *)
OriginalOnce == \A c \in Cpus : c \notin in => ran[c] = 1

(* orig_offset and hook_offset: before the module is unloaded no CPU leaves the
   hooked function, the stub and the hook, whenever it comes in. *)
StaysInside == phase \notin {"unhooked", "gone"} => Runs

(* A call returns: the way from the hooked function over the hook and the stub
   does not lead back to the jump. *)
CallsReturn == \A c \in Cpus : c \in in ~> c \notin in \/ ~Runs
=============================================================================
