-------------------------- MODULE PeerDecisionProofs --------------------------
(***************************************************************************)
(* Proofs about PeerDecision, for any processes, devices, users and number *)
(* of threads.  What carries them: an entry, its copy in the cache and its *)
(* copy in a call under way are all what the peer's manager took down,     *)
(* which never changes; so a decision made from any of them is a decision  *)
(* about the peer itself.                                                  *)
(***************************************************************************)
EXTENDS PeerDecision, TLAPS

\* What the registry holds, and what was copied from it, is what managers took down.
CopiesOK ==
  /\ \A q \in registry : q \notin Remote /\ manager[q] # NoNode
  /\ \A q \in Proc : cache[q] # NoNode => q \notin Remote /\ cache[q] = manager[q]
  /\ \A t \in Thread : known[t] # NoNode =>
       at[t] = "deciding" /\ peer[t] \notin Remote /\ known[t] = manager[peer[t]]

\* Nothing is asked, decided or sent before Pub has its manager.  The call that goes on
\* to a descriptor is about a peer that can import, and there is a pool.
CallsOK ==
  /\ manager[Pub] = NoNode =>
       /\ \A t \in Thread : at[t] = "idle"
       /\ \A q \in Proc : decision[q] = "none"
       /\ inbox = {}
  /\ \A t \in Thread :
       /\ t \in publishing => pool # NoNode
       /\ at[t] = "describing" => Importable(peer[t]) /\ t \in publishing

\* A descriptor has the pool's device.
InboxOK ==
  \A m \in inbox : Importable(m.to) /\ pool # NoNode /\ m.device = pool.device

IInv ==
  /\ TypeOK
  /\ CopiesOK
  /\ CallsOK
  /\ DecisionIsRight
  /\ InboxOK
-----------------------------------------------------------------------------
USE DEF nodes, calls

\* The marker for "nothing known" is not a node.
LEMMA NoNodeIsNone == NoNode \notin Node
<1>1. NoNode.device \notin Device
  BY ConstantsOK DEF ConstantsOK, NoNode
<1> QED
  BY <1>1 DEF Node

\* What a manager took down, nobody changes.
LEMMA ManagersStay ==
  ASSUME TypeOK, Next, NEW q \in Proc, manager[q] # NoNode
  PROVE  manager'[q] = manager[q]
<1>1. ASSUME NEW p \in Proc, CreateEndpoint(p)
      PROVE  manager'[q] = manager[q]
  <2>1. manager \in [Proc -> Node \cup {NoNode}] /\ p # q
    BY <1>1 DEF CreateEndpoint, TypeOK
  <2>2. \E n : manager' = [manager EXCEPT ![p] = n]
    BY <1>1 DEF CreateEndpoint
  <2> QED
    BY <2>1, <2>2
<1>2. ASSUME ~\E p \in Proc : CreateEndpoint(p)
      PROVE  manager' = manager
  BY <1>2 DEF Next, Exit, SetDevice, Discover, Publish, Inside, RefreshTimesOut, Refresh,
     Decide, Describe, Import, Allocate, Purge
<1> QED
  BY <1>1, <1>2

\* Nor is a peer that can import ever one that cannot, once Pub has its manager.
LEMMA ImportableStays ==
  ASSUME TypeOK, Next, NEW q \in Proc, manager[q] # NoNode, manager[Pub] # NoNode
  PROVE  Importable(q)' <=> Importable(q)
<1>1. manager'[q] = manager[q] /\ manager'[Pub] = manager[Pub]
  BY ManagersStay, ConstantsOK DEF ConstantsOK
<1> QED
  BY <1>1 DEF Importable

\* The pool stays on the device it was made on.
LEMMA PoolStays ==
  ASSUME Next, pool # NoNode
  PROVE  pool' = pool
<1>1. Pools = {pool}
  BY DEF Pools
<1> QED
  BY <1>1 DEF Next, CreateEndpoint, Exit, SetDevice, Discover, Publish, Inside,
     RefreshTimesOut, Refresh, Decide, Describe, Import, Allocate, Purge

\* What is made of a pool, if anything, is a node.
LEMMA PoolsType ==
  ASSUME TypeOK
  PROVE  Pools \subseteq Node \cup {NoNode}
<1> QED
  BY ConstantsOK DEF ConstantsOK, Pools, Node, TypeOK

\* Types, over a step.
LEMMA TypeOKStep ==
  ASSUME TypeOK, Next
  PROVE  TypeOK'
<1> USE ConstantsOK, PoolsType DEF ConstantsOK, TypeOK
<1>1. ASSUME NEW p \in Proc, CreateEndpoint(p)
      PROVE  TypeOK'
  <2>1. pool' \in Node \cup {NoNode} /\ pool'.ipc \in BOOLEAN
    <3>1. pool' \in Node \cup {NoNode}
      BY <1>1 DEF CreateEndpoint
    <3>2. \A n \in Node : n.ipc \in BOOLEAN
      BY DEF Node
    <3>3. NoNode.ipc = FALSE
      BY DEF NoNode
    <3> QED
      BY <3>1, <3>2, <3>3
  <2>2. manager' \in [Proc -> Node \cup {NoNode}] /\ manager'[p] \in Node
    BY <1>1, <2>1 DEF CreateEndpoint, Node
  <2>3. cache' \in [Proc -> Node \cup {NoNode}] /\ registry' \in SUBSET Proc
    BY <1>1, <2>2 DEF CreateEndpoint
  <2> QED
    BY <1>1, <2>1, <2>2, <2>3 DEF CreateEndpoint
<1>2. ASSUME NEW p \in Proc, Exit(p)
      PROVE  TypeOK'
  BY <1>2 DEF Exit, Go, Done, Places, Decisions
<1>3. ASSUME NEW p \in Proc, NEW d \in Device, SetDevice(p, d)
      PROVE  TypeOK'
  BY <1>3 DEF SetDevice, Go, Done, Places, Decisions
<1>4. ASSUME NEW p \in Proc, NEW t \in Thread, Discover(t, p)
      PROVE  TypeOK'
  BY <1>4 DEF Discover, Go, Done, Places, Decisions
<1>5. ASSUME NEW p \in Proc, NEW t \in Thread, Publish(t, p)
      PROVE  TypeOK'
  BY <1>5 DEF Publish, Go, Done, Places, Decisions
<1>6. ASSUME NEW t \in Thread, Refresh(t)
      PROVE  TypeOK'
  BY <1>6 DEF Refresh, Go, Done, Places, Decisions
<1>7. ASSUME NEW t \in Thread, RefreshTimesOut(t)
      PROVE  TypeOK'
  BY <1>7 DEF RefreshTimesOut, Go, Done, Places, Decisions
<1>8. ASSUME NEW t \in Thread, Decide(t)
      PROVE  TypeOK'
  BY <1>8 DEF Decide, Store, Go, Done, Places, Decisions
<1>9. ASSUME NEW t \in Thread, Describe(t)
      PROVE  TypeOK'
  BY <1>9 DEF Describe, Go, Done, Places, Descriptor, Node, NoNode
<1>10. ASSUME NEW m \in inbox, Import(m)
      PROVE  TypeOK'
  BY <1>10 DEF Import, Go, Done, Places, Decisions
<1>11. ASSUME Allocate
      PROVE  TypeOK'
  BY <1>11 DEF Allocate, Go, Done, Places, Decisions
<1>12. ASSUME Purge
      PROVE  TypeOK'
  BY <1>12 DEF Purge, Go, Done, Places, Decisions
<1> QED
  BY <1>1, <1>2, <1>3, <1>4, <1>5, <1>6, <1>7, <1>8, <1>9, <1>10, <1>11, <1>12 DEF Next, Inside

\* What the registry holds and what was copied from it, over a step.
LEMMA CopiesStep ==
  ASSUME IInv, Next, TypeOK'
  PROVE  CopiesOK'
<1> USE ConstantsOK DEF ConstantsOK, IInv, TypeOK, CopiesOK
<1>1. ASSUME NEW p \in Proc, CreateEndpoint(p)
      PROVE  CopiesOK'
  <2>1. \A q \in Proc : manager[q] # NoNode => q # p /\ manager'[q] = manager[q]
    BY <1>1, ManagersStay DEF CreateEndpoint
  <2>2. manager'[p] # NoNode
    <3>1. \E d \in Device, u \in User, i \in BOOLEAN :
            manager'[p] = [device |-> d, uid |-> u, ipc |-> i]
      BY <1>1, PoolsType DEF CreateEndpoint, Node, NoNode
    <3> QED
      BY <3>1, NoNodeIsNone DEF Node
  <2>3. \A q \in registry' : q \notin Remote /\ manager'[q] # NoNode
    BY <1>1, <2>1, <2>2 DEF CreateEndpoint
  <2>4. \A q \in Proc : cache'[q] # NoNode => q \notin Remote /\ cache'[q] = manager'[q]
    BY <1>1, <2>1 DEF CreateEndpoint
  <2>5. known' = known /\ at' = at /\ peer' = peer
    BY <1>1 DEF CreateEndpoint
  <2>6. \A t \in Thread : known[t] # NoNode => peer[t] \in Proc
    OBVIOUS
  <2> QED
    BY <2>1, <2>3, <2>4, <2>5, <2>6
<1>2. ASSUME NEW t \in Thread, Refresh(t)
      PROVE  CopiesOK'
  BY <1>2 DEF Refresh, Go
<1>3. ASSUME NEW t \in Thread, RefreshTimesOut(t)
      PROVE  CopiesOK'
  BY <1>3 DEF RefreshTimesOut, Go
<1>4. ASSUME NEW t \in Thread, Decide(t)
      PROVE  CopiesOK'
  BY <1>4 DEF Decide, Go, Done
<1>5. ASSUME NEW t \in Thread, NEW q \in Proc, Discover(t, q) \/ Publish(t, q)
      PROVE  CopiesOK'
  BY <1>5 DEF Discover, Publish, Go
<1>6. ASSUME NEW t \in Thread, Describe(t)
      PROVE  CopiesOK'
  BY <1>6 DEF Describe, Go, Done
<1>7. ASSUME \/ \E p \in Proc : Exit(p) \/ \E d \in Device : SetDevice(p, d)
             \/ \E m \in inbox : Import(m)
             \/ Allocate \/ Purge
      PROVE  CopiesOK'
  BY <1>7 DEF Exit, SetDevice, Import, Allocate, Purge
<1> QED
  BY <1>1, <1>2, <1>3, <1>4, <1>5, <1>6, <1>7 DEF Next, Inside

\* A peer that can import is one after a step, too.
LEMMA ImportableLasts ==
  ASSUME IInv, Next, NEW q \in Proc, Importable(q)
  PROVE  Importable(q)'
<1>1. manager[q] \in Node /\ manager[q].device \in Device
  BY DEF IInv, TypeOK, Importable, Node
<1>2. manager[Pub] # NoNode
  BY <1>1, ConstantsOK DEF ConstantsOK, Importable, CanImport, NoNode
<1> QED
  BY <1>1, <1>2, ImportableStays DEF IInv, Importable

\* A decision stays right, and a new one is, over a step.
LEMMA DecisionStep ==
  ASSUME IInv, Next
  PROVE  DecisionIsRight'
<1> SUFFICES ASSUME NEW q \in Proc, decision'[q] # "none"
             PROVE  /\ q \notin Remote /\ manager'[q] # NoNode
                    /\ decision'[q] = "yes" <=> Importable(q)'
  BY DEF DecisionIsRight
<1>1. CASE decision'[q] = decision[q]
  <2>1. q \notin Remote /\ manager[q] # NoNode /\ (decision[q] = "yes" <=> Importable(q))
    BY <1>1 DEF IInv, DecisionIsRight
  <2>2. manager[Pub] # NoNode
    BY <1>1 DEF IInv, CallsOK
  <2> QED
    BY <1>1, <2>1, <2>2, ManagersStay, ImportableStays DEF IInv
<1>2. CASE decision'[q] # decision[q]
  <2>1. PICK t \in Thread : Decide(t)
    BY <1>2 DEF Next, CreateEndpoint, Exit, SetDevice, Discover, Publish, Inside,
       RefreshTimesOut, Refresh, Describe, Import, Allocate, Purge
  <2>2. q = peer[t] /\ known[t] # NoNode
    BY <1>2, <2>1 DEF Decide, Store, IInv, TypeOK
  <2>3. decision'[q] = IF CanImport(q, known[t]) THEN "yes" ELSE "no"
    BY <2>1, <2>2 DEF Decide, Store, IInv, TypeOK
  <2>4. q \notin Remote /\ known[t] = manager[q]
    BY <2>2 DEF IInv, CopiesOK
  <2>5. manager' = manager
    BY <2>1 DEF Decide
  <2> QED
    BY <2>2, <2>3, <2>4, <2>5 DEF Importable, CanImport
<1> QED
  BY <1>1, <1>2

\* The calls, over a step.
LEMMA CallsStep ==
  ASSUME IInv, Next
  PROVE  CallsOK'
<1>1. ASSUME manager'[Pub] = NoNode
      PROVE  /\ \A t \in Thread : at'[t] = "idle"
             /\ \A q \in Proc : decision'[q] = "none"
             /\ inbox' = {}
  <2>1. manager[Pub] = NoNode
    BY <1>1, ManagersStay, ConstantsOK DEF ConstantsOK, IInv
  <2>2. (\A t \in Thread : at[t] = "idle") /\ (\A q \in Proc : decision[q] = "none") /\ inbox = {}
    BY <2>1 DEF IInv, CallsOK
  <2> QED
    BY <2>1, <2>2 DEF Next, CreateEndpoint, Exit, SetDevice, Discover, Publish, Inside,
       RefreshTimesOut, Refresh, Decide, Describe, Import, Allocate, Purge
<1>2. ASSUME NEW t \in Thread, t \in publishing'
      PROVE  pool' # NoNode
  <2>1. t \in publishing \/ pool # NoNode
    BY <1>2 DEF Next, CreateEndpoint, Exit, SetDevice, Discover, Publish, Inside,
       RefreshTimesOut, Refresh, Decide, Describe, Done, Import, Allocate, Purge
  <2> QED
    BY <2>1, PoolStays DEF IInv, CallsOK
<1>3. ASSUME NEW t \in Thread, at'[t] = "describing"
      PROVE  Importable(peer[t])' /\ t \in publishing'
  <2>1. CASE at[t] = "describing"
    <3>1. t \in publishing /\ Importable(peer[t]) /\ peer[t] \in Proc
      BY <2>1 DEF IInv, TypeOK, CallsOK
    <3>2. peer'[t] = peer[t] /\ t \in publishing'
      BY <1>3, <2>1, <3>1 DEF Next, CreateEndpoint, Exit, SetDevice, Discover, Publish, Inside,
         RefreshTimesOut, Refresh, Decide, Describe, Done, Go, Import, Allocate, Purge,
         IInv, TypeOK
    <3> QED
      BY <3>1, <3>2, ImportableLasts DEF Importable, CanImport
  <2>2. CASE at[t] # "describing"
    <3>1. Decide(t) \/ \E q \in Proc : Publish(t, q)
      BY <1>3, <2>2 DEF Next, CreateEndpoint, Exit, SetDevice, Discover, Publish, Inside,
         RefreshTimesOut, Refresh, Decide, Describe, Done, Go, Import, Allocate, Purge,
         IInv, TypeOK
    <3>2. CASE Decide(t)
      <4>1. t \in publishing' /\ peer'[t] = peer[t] /\ CanImport(peer[t], known[t])
        BY <1>3, <3>2 DEF Decide, Go, Done, IInv, TypeOK
      <4>2. known[t] # NoNode /\ peer[t] \in Proc
        BY <3>2, <4>1 DEF CanImport, NoNode, Decide, IInv, TypeOK
      <4>3. Importable(peer[t])
        BY <4>1, <4>2 DEF IInv, CopiesOK, Importable, CanImport
      <4> QED
        BY <4>1, <4>2, <4>3, ImportableLasts DEF Importable, CanImport
    <3>3. ASSUME NEW q \in Proc, Publish(t, q)
          PROVE  Importable(peer[t])' /\ t \in publishing'
      <4>1. t \in publishing' /\ peer'[t] = q /\ decision[q] = "yes"
        BY <1>3, <3>3 DEF Publish, Go, Decisions, IInv, TypeOK
      <4>2. Importable(q)
        BY <4>1 DEF IInv, DecisionIsRight
      <4> QED
        BY <4>1, <4>2, ImportableLasts DEF Importable, CanImport
    <3> QED
      BY <3>1, <3>2, <3>3
  <2> QED
    BY <2>1, <2>2
<1> QED
  BY <1>1, <1>2, <1>3 DEF CallsOK

\* The descriptors on their way, over a step.
LEMMA InboxStep ==
  ASSUME IInv, Next
  PROVE  InboxOK'
<1> SUFFICES ASSUME NEW m \in inbox'
             PROVE  Importable(m.to)' /\ pool' # NoNode /\ m.device = pool'.device
  BY DEF InboxOK
<1>1. CASE m \in inbox
  <2>1. m.to \in Proc /\ Importable(m.to) /\ pool # NoNode /\ m.device = pool.device
    BY <1>1 DEF IInv, TypeOK, InboxOK, Descriptor
  <2> QED
    BY <2>1, ImportableLasts, PoolStays
<1>2. CASE m \notin inbox
  <2>1. PICK t \in Thread : Describe(t)
    BY <1>2 DEF Next, CreateEndpoint, Exit, SetDevice, Discover, Publish, Inside,
       RefreshTimesOut, Refresh, Decide, Import, Allocate, Purge
  <2>2. pool.ipc /\ m = [to |-> peer[t], device |-> pool.device]
    BY <1>2, <2>1 DEF Describe
  <2>3. pool # NoNode /\ m.to = peer[t] /\ m.device = pool.device
    BY <2>2 DEF NoNode
  <2>4. peer[t] \in Proc /\ Importable(peer[t])
    BY <2>1 DEF Describe, IInv, TypeOK, CallsOK
  <2> QED
    BY <2>3, <2>4, ImportableLasts, PoolStays
<1> QED
  BY <1>1, <1>2
-----------------------------------------------------------------------------

\* It starts so.
LEMMA InitInv == Init => IInv
<1> SUFFICES ASSUME Init
             PROVE  IInv
  OBVIOUS
<1>1. TypeOK
  BY ConstantsOK DEF ConstantsOK, Init, TypeOK, Decisions, Places
<1> QED
  BY <1>1 DEF Init, IInv, CopiesOK, CallsOK, DecisionIsRight, InboxOK

\* And every step keeps it so.
LEMMA StepInv == IInv /\ [Next]_vars => IInv'
<1> SUFFICES ASSUME IInv, [Next]_vars
             PROVE  IInv'
  OBVIOUS
<1>1. CASE Next
  BY <1>1, TypeOKStep, CopiesStep, CallsStep, DecisionStep, InboxStep DEF IInv
<1>2. CASE UNCHANGED vars
  BY <1>2 DEF vars, IInv, TypeOK, CopiesOK, CallsOK, DecisionIsRight, InboxOK,
     Importable, CanImport
<1> QED
  BY <1>1, <1>2

LEMMA Invariance == Spec => []IInv
  BY InitInv, StepInv, PTL DEF Spec

\* The state has its types, however many processes, devices and threads there are.
THEOREM TypeCorrect == Spec => []TypeOK
<1>1. IInv => TypeOK
  BY DEF IInv
<1> QED
  BY <1>1, Invariance, PTL

\* A decision that was kept is right for ever, although it is made from a copy of the
\* registry that may be old, by threads that do not wait for each other.
THEOREM DecisionsAreRight == Spec => []DecisionIsRight
<1>1. IInv => DecisionIsRight
  BY DEF IInv
<1> QED
  BY <1>1, Invariance, PTL

\* No descriptor is sent that the importing process drops, as long as the devices are
\* those that were registered.
THEOREM AdmittedAreImported == Spec => []AdmittedIsImported
<1>1. IInv => AdmittedIsImported
  <2> SUFFICES ASSUME IInv, NEW m \in inbox
               PROVE  /\ Importable(m.to)
                      /\ pool.device = manager[Pub].device /\ current[m.to] = manager[m.to].device
                           => m.device = current[m.to]
    BY DEF AdmittedIsImported
  <2>1. Importable(m.to) /\ m.device = pool.device
    BY DEF IInv, InboxOK
  <2>2. m.to = Pub \/ manager[m.to].device = manager[Pub].device
    BY <2>1 DEF Importable, CanImport
  <2> QED
    BY <2>1, <2>2
<1> QED
  BY <1>1, Invariance, PTL
-----------------------------------------------------------------------------
(* PeerDecision is a user of PeerRegistry: all it takes for granted of the *)
(* registry and of the copy in its process is what PeerRegistry promises,  *)
(* and HostEndpointRegistry keeps (PeersImplemented).                      *)

\* Pub knows those that are in its cache; what the others know is not modelled.
KnownTo == [p \in Proc |-> IF p = Pub THEN {q \in Proc : cache[q] # NoNode} ELSE {}]

Peers == INSTANCE PeerRegistry WITH
  entries <- registry, ended <- Proc \ alive, seen <- KnownTo

LEMMA PubIsProc == Pub \in Proc /\ Pub \notin Remote
BY ConstantsOK DEF ConstantsOK

\* Steps that leave the registry, its copy and the processes' lives alone.
LEMMA SilentStep ==
  ASSUME UNCHANGED <<registry, cache, alive>>
  PROVE  UNCHANGED Peers!peerVars
BY DEF Peers!peerVars, KnownTo

\* A manager that registers enters; one that fails to does nothing.
LEMMA EnterStep ==
  ASSUME TypeOK, NEW p \in Proc, CreateEndpoint(p)
  PROVE  [Peers!Next]_Peers!peerVars
<1>1. p \in alive /\ alive' = alive
  BY DEF CreateEndpoint
<1>2. CASE UNCHANGED <<registry, cache>>
  BY <1>1, <1>2, SilentStep
<1>3. CASE /\ registry' = registry \cup ({p} \ Remote)
           /\ cache' = IF p = Pub THEN [cache EXCEPT ![p] = manager'[p]] ELSE cache
  <2>1. CASE p \in Remote
    <3>1. registry' = registry /\ cache' = cache
      BY <1>3, <2>1, PubIsProc
    <3> QED
      BY <1>1, <3>1, SilentStep
  <2>2. CASE p \notin Remote /\ p # Pub
    <3>1. KnownTo' = [KnownTo EXCEPT ![p] = @ \cup {}]
      BY <1>3, <2>2 DEF KnownTo
    <3>2. Peers!Enter(p)
      BY <1>1, <1>3, <2>2, <3>1 DEF Peers!Enter, Peers!Sees
    <3> QED
      BY <3>2 DEF Peers!Next
  <2>3. CASE p = Pub
    <3>1. manager'[Pub] # NoNode
      <4>1. manager \in [Proc -> Node \cup {NoNode}] /\ current[Pub] \in Device
        BY PubIsProc DEF TypeOK
      <4>2. PICK u, i : manager' = [manager EXCEPT ![Pub] = [device |-> current[Pub], uid |-> u, ipc |-> i]]
        BY <2>3 DEF CreateEndpoint
      <4>3. manager'[Pub] = [device |-> current[Pub], uid |-> u, ipc |-> i]
        BY <4>1, <4>2, PubIsProc
      <4>4. manager'[Pub].device # None
        BY <4>1, <4>3, ConstantsOK DEF ConstantsOK
      <4> QED
        BY <4>4 DEF NoNode
    <3>2. \A q \in Proc : cache'[q] # NoNode <=> cache[q] # NoNode \/ q = Pub
      BY <1>3, <2>3, <3>1 DEF TypeOK
    <3>3. KnownTo' = [KnownTo EXCEPT ![p] = @ \cup {p}]
      <4>1. {q \in Proc : cache'[q] # NoNode} = {q \in Proc : cache[q] # NoNode} \cup {Pub}
        BY <3>2, PubIsProc
      <4> QED
        BY <2>3, <4>1 DEF KnownTo
    <3>4. Peers!Enter(p)
      BY <1>1, <1>3, <2>3, <3>3, PubIsProc DEF Peers!Enter, Peers!Sees
    <3> QED
      BY <3>4 DEF Peers!Next
  <2> QED
    BY <2>1, <2>2, <2>3
<1> QED
  BY <1>2, <1>3 DEF CreateEndpoint

\* A refresh is a look: an entry in the registry has a manager to copy.
LEMMA LookStep ==
  ASSUME TypeOK, CopiesOK, NEW t \in Thread, Refresh(t)
  PROVE  [Peers!Next]_Peers!peerVars
<1>1. /\ alive' = alive /\ registry' = registry
      /\ cache' = [q \in Proc |-> IF q \in registry THEN manager[q] ELSE cache[q]]
  BY DEF Refresh
<1>2. registry \subseteq Proc /\ \A q \in registry : manager[q] # NoNode
  BY DEF TypeOK, CopiesOK
<1>3. {q \in Proc : cache'[q] # NoNode} = {q \in Proc : cache[q] # NoNode} \cup registry
  BY <1>1, <1>2
<1>4. KnownTo' = [KnownTo EXCEPT ![Pub] = @ \cup registry]
  BY <1>3, PubIsProc DEF KnownTo
<1>5. Peers!Look(Pub)
  BY <1>1, <1>4 DEF Peers!Look, Peers!Sees
<1> QED
  BY <1>5, PubIsProc DEF Peers!Next

LEMMA ExitStep ==
  ASSUME NEW p \in Proc, Exit(p)
  PROVE  [Peers!Next]_Peers!peerVars
<1>1. alive' = alive \ {p} /\ cache' = cache /\ registry' \in {registry, registry \ {p}}
  BY DEF Exit
<1>2. KnownTo' = KnownTo
  BY <1>1 DEF KnownTo
<1>3. Proc \ alive' = (Proc \ alive) \cup {p}
  BY <1>1
<1>4. Peers!End(p)
  BY <1>1, <1>2, <1>3 DEF Peers!End, Peers!TakesOut
<1> QED
  BY <1>4 DEF Peers!Next

LEMMA PurgeStep ==
  ASSUME TypeOK, Purge
  PROVE  [Peers!Next]_Peers!peerVars
<1>1. alive' = alive /\ cache' = cache /\ registry' = registry \cap alive
  BY DEF Purge, nodes
<1>2. KnownTo' = KnownTo
  BY <1>1 DEF KnownTo
<1>3. registry \subseteq Proc
  BY DEF TypeOK
<1>4. Peers!Purge
  BY <1>1, <1>2, <1>3 DEF Peers!Purge, Peers!TakesOut
<1> QED
  BY <1>4 DEF Peers!Next

\* The registry that decisions are made from is the one HostEndpointRegistry is proved to
\* be: no step of PeerDecision takes more from it than PeerRegistry gives.
THEOREM PeersUsed == Spec => Peers!Spec
<1>1. Init => Peers!Init
  <2> SUFFICES ASSUME Init PROVE Peers!Init
    OBVIOUS
  <2>1. registry = {} /\ Proc \ alive = {} /\ \A q \in Proc : cache[q] = NoNode
    BY DEF Init
  <2> QED
    BY <2>1 DEF Peers!Init, KnownTo
<1>2. ASSUME IInv, [Next]_vars
      PROVE  [Peers!Next]_Peers!peerVars
  <2>1. TypeOK /\ CopiesOK
    BY <1>2 DEF IInv
  <2>2. CASE UNCHANGED vars
    BY <2>2, SilentStep DEF vars
  <2>3. ASSUME NEW p \in Proc, NEW d \in Device, SetDevice(p, d)
        PROVE  [Peers!Next]_Peers!peerVars
    BY <2>3, SilentStep DEF SetDevice
  <2>4. ASSUME NEW p \in Proc, NEW t \in Thread, Discover(t, p) \/ Publish(t, p)
        PROVE  [Peers!Next]_Peers!peerVars
    BY <2>4, SilentStep DEF Discover, Publish
  <2>5. ASSUME NEW t \in Thread, RefreshTimesOut(t) \/ Decide(t) \/ Describe(t)
        PROVE  [Peers!Next]_Peers!peerVars
    BY <2>5, SilentStep DEF RefreshTimesOut, Decide, Describe
  <2>6. ASSUME NEW m \in inbox, Import(m)
        PROVE  [Peers!Next]_Peers!peerVars
    BY <2>6, SilentStep DEF Import
  <2>7. CASE Allocate
    BY <2>7, SilentStep DEF Allocate
  <2> QED
    BY <1>2, <2>1, <2>2, <2>3, <2>4, <2>5, <2>6, <2>7, EnterStep, LookStep, ExitStep,
       PurgeStep DEF Next, Inside
<1>3. IInv /\ [Next]_vars => [Peers!Next]_Peers!peerVars
  BY <1>2
<1> QED
  BY <1>1, <1>3, Invariance, PTL DEF Spec, Peers!Spec
=============================================================================
