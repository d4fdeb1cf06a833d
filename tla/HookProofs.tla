----------------------------- MODULE HookProofs -----------------------------
(***************************************************************************)
(* What the hook module guarantees for any number of CPUs and any three    *)
(* addresses that lie more than a jump apart, in whatever order.           *)
(***************************************************************************)
EXTENDS Hook, TLAPS

Phases == {"new", "stub", "ptr", "loaded", "unhooked", "gone"}

(* How far the loading is says what is at the two places that are written,
   and whether the way back is known. *)
TextOK ==
  /\ text \in [{Target, Stub} -> {Nop, Ret, jump_op, saved_op}]
  /\ phase \in {"new", "stub", "ptr"} => text[Target] = Nop
  /\ phase = "loaded"                 => text[Target] = jump_op
  /\ phase \in {"unhooked", "gone"}   => text[Target] = saved_op
  /\ phase = "new"                    => text[Stub] = Ret
  /\ phase \notin {"new", "gone"}     => text[Stub] = saved_op
  /\ phase = "gone"                   => text[Stub] = jump_op
  /\ phase \notin {"new", "stub"} => ptr = Stub

(* Where the swapped jump that unloading leaves at the hooked function leads. *)
Astray == Body + OrigOffset

(* A CPU in a call is on the way that the loading has laid by then.  After the
   unloading that way leads astray, which is nowhere unless the hook happens
   to be there: then it goes on over the stub, as before. *)
OnTheWay(c) ==
  /\ phase \in {"new", "stub", "ptr"} => at[c] \in {Target, Body}
  /\ phase = "loaded" => at[c] \in {Target, hook_ipv4_conntrack_in, Stub, Body}
  /\ phase \in {"unhooked", "gone"} =>
       \/ at[c] \in {Target, Astray}
       \/ Astray = hook_ipv4_conntrack_in /\ at[c] \in {Stub, Body}

(* The inductive invariant: the body runs as the last step of a call. *)
HookInv ==
  /\ phase \in Phases
  /\ in \subseteq Cpus
  /\ at \in [Cpus -> Int]
  /\ ran \in [Cpus -> Nat]
  /\ TextOK
  /\ \A c \in Cpus : IF c \in in THEN ran[c] = 0 /\ OnTheWay(c) ELSE ran[c] = 1

-----------------------------------------------------------------------------
(* The addresses are different numbers, and the two displacements lead where
   they are meant to: the hook and the rest of the hooked function. *)
LEMMA Offsets ==
  /\ Target \in Int /\ Stub \in Int /\ Body \in Int /\ hook_ipv4_conntrack_in \in Int
  /\ Target # Stub /\ Target # Body /\ Stub # Body
  /\ hook_ipv4_conntrack_in \notin {Target, Stub, Body}
  /\ Target + OPTSIZE + Nop.disp = Body
  /\ Target + OPTSIZE + jump_op.disp = hook_ipv4_conntrack_in
  /\ Stub + OPTSIZE + saved_op.disp = Body
  /\ Target + OPTSIZE + saved_op.disp = Astray
  /\ Astray \in Int /\ Astray \notin {Target, Stub, Body}
  /\ Astray = hook_ipv4_conntrack_in => Stub + OPTSIZE + jump_op.disp = Body
  /\ Nop.op # "ret" /\ jump_op.op # "ret" /\ saved_op.op # "ret"
BY HookAssumption
DEF Apart, Target, Stub, Body, Nop, jump_op, saved_op, Jmp, OrigOffset, Astray

(* Before anything is loaded the hooked function is as the kernel has it. *)
LEMMA HookInit == Init => HookInv
<1> SUFFICES ASSUME Init PROVE HookInv
  OBVIOUS
<1>1. TextOK
  BY Offsets DEF Init, TextOK
<1> QED
  BY <1>1 DEF Init, HookInv, Phases

(* Loading and unloading move the phase on; where text is written, nobody is
   in a call. *)
LEMMA HookModule ==
  ASSUME HookInv, LoadStub \/ LoadPtr \/ LoadJump \/ UnloadTarget \/ UnloadStub
  PROVE  HookInv'
<1>1. /\ phase' \in Phases /\ UNCHANGED <<in, at, ran>>
      /\ phase' # "ptr" => in = {}
      /\ phase' = "ptr" => phase = "stub"
  BY DEF HookInv, Phases, LoadStub, LoadPtr, LoadJump, UnloadTarget, UnloadStub, Poke
<1>2. TextOK'
  BY Offsets DEF HookInv, TextOK, LoadStub, LoadPtr, LoadJump, UnloadTarget, UnloadStub, Poke
<1> QED
  BY <1>1, <1>2 DEF HookInv, OnTheWay

(* A packet starts at the hooked function. *)
LEMMA HookEnter ==
  ASSUME HookInv, NEW c \in Cpus, Enter(c)
  PROVE  HookInv'
<1>1. TextOK'
  BY DEF HookInv, TextOK, Enter
<1>2. ASSUME NEW d \in Cpus, d \in in'
      PROVE  ran'[d] = 0 /\ OnTheWay(d)'
  BY <1>2, Offsets DEF HookInv, Enter, OnTheWay
<1> QED
  BY <1>1, <1>2, Offsets DEF HookInv, Enter

(* The instruction a CPU is at leads it on along the way, or out of it once
   its body has run. *)
LEMMA HookStep ==
  ASSUME HookInv, NEW c \in Cpus, Step(c)
  PROVE  HookInv'
<1>0. TextOK' /\ phase' = phase /\ Runs /\ c \in in
  BY DEF HookInv, TextOK, Step, Execute, HookBody, OriginalBody
<1>1. CASE Execute(c)
  <2>1. at[c] = Stub =>
          /\ phase \notin {"new", "stub", "ptr"}
          /\ phase # "loaded" => Astray = hook_ipv4_conntrack_in
          /\ text[Stub] = IF phase = "gone" THEN jump_op ELSE saved_op
    <3>1. at[c] = Stub =>
            /\ phase \notin {"new", "stub", "ptr"}
            /\ phase # "loaded" => Astray = hook_ipv4_conntrack_in
      BY <1>0, Offsets DEF HookInv, OnTheWay, Phases
    <3>2. phase = "gone" => text[Stub] = jump_op
      BY DEF HookInv, TextOK
    <3> QED
      BY <3>1, <3>2 DEF HookInv, TextOK
  <2>2. at[c] = Target =>
          /\ phase \in {"new", "stub", "ptr"} => text[Target] = Nop
          /\ phase = "loaded"                 => text[Target] = jump_op
          /\ phase \in {"unhooked", "gone"}   => text[Target] = saved_op
    BY DEF HookInv, TextOK
  <2>3. /\ in' = in
        /\ at' = [at EXCEPT ![c] = @ + OPTSIZE + text[at[c]].disp]
        /\ ran' = ran /\ at[c] \in {Target, Stub}
    BY <1>1, <2>1, <2>2, Offsets DEF HookInv, Phases, Execute
  <2>4. at'[c] \in Int /\ OnTheWay(c)'
    <3>1. CASE at[c] = Stub
      <4>1. at'[c] = Body
        BY <3>1, <2>1, <2>3, Offsets DEF HookInv
      <4> QED
        BY <3>1, <4>1, <1>0, <2>1, Offsets DEF HookInv, OnTheWay
    <3>2. CASE at[c] = Target
      BY <3>2, <1>0, <2>2, <2>3, Offsets DEF HookInv, OnTheWay, Phases
    <3> QED
      BY <3>1, <3>2, <2>3
  <2>5. \A d \in Cpus \ {c} : at'[d] = at[d] /\ (OnTheWay(d)' <=> OnTheWay(d))
    BY <1>0, <2>3 DEF HookInv, OnTheWay
  <2> QED
    BY <1>0, <2>3, <2>4, <2>5 DEF HookInv
<1>2. CASE HookBody(c)
  <2>1. /\ phase \notin {"new", "stub", "ptr"} /\ ptr = Stub
        /\ phase # "loaded" => Astray = hook_ipv4_conntrack_in
    BY <1>0, <1>2, Offsets DEF HookInv, TextOK, HookBody, OnTheWay, Phases
  <2>2. at'[c] = Stub /\ OnTheWay(c)'
    BY <1>0, <1>2, <2>1 DEF HookInv, HookBody, OnTheWay
  <2>3. \A d \in Cpus \ {c} : at'[d] = at[d] /\ (OnTheWay(d)' <=> OnTheWay(d))
    BY <1>0, <1>2 DEF HookInv, HookBody, OnTheWay
  <2> QED
    BY <1>0, <1>2, <2>2, <2>3, Offsets DEF HookInv, HookBody
<1>3. CASE OriginalBody(c)
  BY <1>0, <1>3 DEF HookInv, OriginalBody, Leave, OnTheWay
<1> QED
  BY <1>1, <1>2, <1>3 DEF Step

(* Every step keeps the invariant. *)
LEMMA HookNext == HookInv /\ [Next]_vars => HookInv'
<1> SUFFICES ASSUME HookInv, [Next]_vars PROVE HookInv'
  OBVIOUS
<1>1. CASE LoadStub \/ LoadPtr \/ LoadJump \/ UnloadTarget \/ UnloadStub
  BY <1>1, HookModule
<1>2. CASE \E c \in Cpus : Enter(c)
  BY <1>2, HookEnter
<1>3. CASE \E c \in Cpus : Step(c)
  BY <1>3, HookStep
<1>4. CASE Stopped \/ UNCHANGED vars
  BY <1>4 DEF Stopped, vars, HookInv, TextOK, OnTheWay
<1> QED
  BY <1>1, <1>2, <1>3, <1>4 DEF Next

(* Spec keeps HookInv. *)
LEMMA HookInvariant == Spec => []HookInv
BY HookInit, HookNext, PTL DEF Spec

(***************************************************************************)
(* hook_conn_init, hook_ipv4_conntrack_in: whatever part of the loading or *)
(* the unloading is done when a packet comes in, a call that returned has  *)
(* run the original function's body exactly once.                          *)
(***************************************************************************)
THEOREM OriginalRunsOnce == Spec => []OriginalOnce
<1>1. HookInv => OriginalOnce
  BY DEF HookInv, OriginalOnce
<1> QED
  BY <1>1, HookInvariant, PTL

(***************************************************************************)
(* orig_offset, hook_offset: until the module is unloaded no CPU leaves    *)
(* the hooked function, the stub and the hook.                             *)
(***************************************************************************)
THEOREM NoStrayJump == Spec => []StaysInside
<1>1. HookInv => StaysInside
  BY Offsets DEF HookInv, StaysInside, Runs, Wild, OnTheWay, Phases
<1> QED
  BY <1>1, HookInvariant, PTL
=============================================================================
