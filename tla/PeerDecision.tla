----------------------------- MODULE PeerDecision -----------------------------
(***************************************************************************)
(* Which peers a publisher sends CUDA descriptors to.  A process takes     *)
(* down its device and whether its pool can be shared when its endpoint    *)
(* manager is made, and registers its endpoint with them.  The publisher's *)
(* plugin decides about a peer when the middleware discovers it or when it *)
(* publishes to it, whichever comes first, on several threads, from its    *)
(* copy of the registry, and keeps the decision.  The peer looks at the    *)
(* devices again, in the thread that imports.                              *)
(*                                                                         *)
(* HostEndpointRegistry has the registry in detail; here it is the set of  *)
(* its active entries and, of its failures, what a caller sees: a call     *)
(* that did nothing.  A process has one endpoint, whose gid is not used    *)
(* again; its entry has what its manager took down.                        *)
(***************************************************************************)
EXTENDS Naturals, FiniteSets

CONSTANTS
  Proc,        \* processes
  Pub,         \* the publishing one, which has a subscription too
  Remote,      \* those on other hosts
  Device, User,
  Thread,      \* threads of Pub inside the plugin
  PubDevice,   \* the device Pub starts with
  PubUser,     \* and its uid
  MaxSwitch,   \* bound: changes of a current device
  None

ASSUME ConstantsOK ==
  /\ Pub \in Proc
  /\ Remote \subseteq Proc \ {Pub}
  /\ PubDevice \in Device /\ PubUser \in User
  /\ MaxSwitch \in Nat
  /\ None \notin Proc \cup Device

VARIABLES
  current,     \* [Proc -> Device] cudaGetDevice
  pool,        \* Pub's pool: its device and ipc_capable_, once it is made
  manager,     \* [Proc -> Node or NoNode] local_device_id_, local_uid_, local_ipc_capable_
  registry,    \* those with an active entry in the registry of Pub's host
  cache,       \* [Proc -> Node or NoNode] local_cache_ of Pub's manager
  decision,    \* [Proc -> Decisions] ipc_decision_cache_
  at,          \* [Thread -> Places]
  peer,        \* [Thread -> the peer its call is about]
  publishing,  \* the threads whose call is create_descriptor_with_endpoint
  known,       \* [Thread -> Node or NoNode] locality_info
  inbox,       \* descriptors on their way
  alive,
  switches

nodes == <<current, pool, manager, alive, switches>>
calls == <<at, peer, publishing, known>>
vars  == <<nodes, registry, cache, decision, calls, inbox>>

-----------------------------------------------------------------------------
Node       == [device : Device, uid : User, ipc : BOOLEAN]
NoNode     == [device |-> None, uid |-> None, ipc |-> FALSE]
Decisions  == {"none", "yes", "no"}
Places     == {"idle", "refreshing", "deciding", "describing"}
Descriptor == [to : Proc, device : Device]

\* The pool after is_pool_ipc_capable or an allocation: made on the current device,
\* or not at all and tried again the next time.
Pools ==
  IF pool # NoNode THEN {pool}
  ELSE {NoNode} \cup {[device |-> current[Pub], uid |-> PubUser, ipc |-> i] : i \in BOOLEAN}

\* Mutant: the uid is not compared.
CanImportAnyUser(q, info) ==
  info.ipc /\ (q = Pub \/ info.device = manager[Pub].device)

\* Mutant: the device is not compared.
CanImportAnyDevice(q, info) ==
  info.ipc /\ (q = Pub \/ info.uid = manager[Pub].uid)

\* can_import_descriptor, for what the cache says of q.
CanImport(q, info) ==
  /\ info.ipc
  /\ q = Pub \/ (info.device = manager[Pub].device /\ info.uid = manager[Pub].uid)

\* What is true of q, whatever is known of it: it maps what Pub exports.
Importable(q) ==
  /\ q \notin Remote /\ manager[q] # NoNode
  /\ manager[q].ipc
  /\ q # Pub => manager[q].device = manager[Pub].device /\ manager[q].uid = manager[Pub].uid

-----------------------------------------------------------------------------
Init ==
  /\ current \in {c \in [Proc -> Device] : c[Pub] = PubDevice}
  /\ pool = NoNode
  /\ manager = [p \in Proc |-> NoNode]
  /\ registry = {}
  /\ cache = [p \in Proc |-> NoNode]
  /\ decision = [p \in Proc |-> "none"]
  /\ at = [t \in Thread |-> "idle"]
  /\ peer = [t \in Thread |-> None]
  /\ publishing = {}
  /\ known = [t \in Thread |-> NoNode]
  /\ inbox = {}
  /\ alive = Proc
  /\ switches = 0

\* cudaSetDevice, by the process's own code.
SetDevice(p, d) ==
  /\ switches < MaxSwitch /\ d # current[p] /\ p \in alive
  /\ switches' = switches + 1
  /\ current' = [current EXCEPT ![p] = d]
  /\ UNCHANGED <<pool, manager, alive, registry, cache, decision, calls, inbox>>

\* An allocation of Pub's makes the pool.
Allocate ==
  /\ pool = NoNode
  /\ pool' \in Pools
  /\ UNCHANGED <<current, manager, alive, switches, registry, cache, decision, calls, inbox>>

\* on_creating_endpoint: get_endpoint_manager takes down the device and the pool's
\* capability for good; nobody looks at the result of register_endpoint, which may
\* have timed out or found the registry full.
CreateEndpoint(p) ==
  /\ manager[p] = NoNode /\ p \in alive
  /\ pool' \in IF p = Pub THEN Pools ELSE {pool}
  /\ \E u \in IF p = Pub THEN {PubUser} ELSE User,
        i \in IF p = Pub THEN {pool'.ipc} ELSE BOOLEAN :
       manager' = [manager EXCEPT ![p] = [device |-> current[p], uid |-> u, ipc |-> i]]
  /\ \/ /\ registry' = registry \cup ({p} \ Remote)
        /\ cache' = IF p = Pub THEN [cache EXCEPT ![p] = manager'[p]] ELSE cache
     \/ UNCHANGED <<registry, cache>>
  /\ UNCHANGED <<current, alive, switches, decision, calls, inbox>>

\* A peer ends.  Its entry goes with it, or when somebody purges the dead.
Exit(p) ==
  /\ p \in alive \ {Pub}
  /\ alive' = alive \ {p}
  /\ registry' \in {registry, registry \ {p}}
  /\ inbox' = {m \in inbox : m.to # p}
  /\ UNCHANGED <<current, pool, manager, switches, cache, decision, calls>>

Purge ==
  /\ registry \ alive # {}
  /\ registry' = registry \cap alive
  /\ UNCHANGED <<nodes, cache, decision, calls, inbox>>

-----------------------------------------------------------------------------
Go(t, place) == at' = [at EXCEPT ![t] = place]

\* on_discovering_endpoint, for a peer that has the backend.
Discover(t, q) ==
  /\ at[t] = "idle" /\ manager[Pub] # NoNode
  /\ pool' \in Pools /\ pool'.ipc
  /\ peer' = [peer EXCEPT ![t] = q]
  /\ Go(t, "refreshing")
  /\ UNCHANGED <<current, manager, alive, switches, registry, cache, decision, publishing,
                 known, inbox>>

\* Mutant: the peer's gid is not copied.
PublishNoGid(t, q) ==
  /\ at[t] = "idle" /\ manager[Pub] # NoNode
  /\ pool # NoNode
  /\ decision[q] # "no"
  /\ publishing' = publishing \cup {t}
  /\ Go(t, IF decision[q] = "none" THEN "refreshing" ELSE "describing")
  /\ UNCHANGED <<nodes, registry, cache, decision, peer, known, inbox>>

\* create_descriptor_with_endpoint for a CUDA buffer: by what was decided, else it
\* finds out as above.  After a "no" it is the host path at once.
Publish(t, q) ==
  /\ at[t] = "idle" /\ manager[Pub] # NoNode
  /\ pool # NoNode
  /\ decision[q] # "no"
  /\ peer' = [peer EXCEPT ![t] = q]
  /\ publishing' = publishing \cup {t}
  /\ Go(t, IF decision[q] = "none" THEN "refreshing" ELSE "describing")
  /\ UNCHANGED <<nodes, registry, cache, decision, known, inbox>>

\* refresh_from_remote, if it gets the semaphore in time, merges the active entries into
\* local_cache_, from which nothing is taken out; then query_endpoint_locality.  One
\* step, because the threads' merges commute.
Refresh(t) ==
  /\ at[t] = "refreshing"
  /\ cache' = [q \in Proc |-> IF q \in registry THEN manager[q] ELSE cache[q]]
  /\ known' = [known EXCEPT ![t] = cache'[peer[t]]]
  /\ Go(t, "deciding")
  /\ UNCHANGED <<nodes, registry, decision, peer, publishing, inbox>>

\* The refresh gave up: query_endpoint_locality finds what was there before.
RefreshTimesOut(t) ==
  /\ at[t] = "refreshing"
  /\ known' = [known EXCEPT ![t] = cache[peer[t]]]
  /\ Go(t, "deciding")
  /\ UNCHANGED <<nodes, registry, cache, decision, peer, publishing, inbox>>

Done(t) ==
  /\ Go(t, "idle")
  /\ peer' = [peer EXCEPT ![t] = None]
  /\ publishing' = publishing \ {t}

\* Mutant: a peer that was not found is decided about, too.
StoreMiss(q, info) ==
  decision' = [decision EXCEPT ![q] = IF CanImport(q, info) THEN "yes" ELSE "no"]

\* The decision is kept if the peer was found.
Store(q, info) ==
  decision' = IF info = NoNode THEN decision
              ELSE [decision EXCEPT ![q] = IF CanImport(q, info) THEN "yes" ELSE "no"]

\* A discovery ends here; a publication goes on with a descriptor or the host path.
Decide(t) ==
  /\ at[t] = "deciding"
  /\ Store(peer[t], known[t])
  /\ known' = [known EXCEPT ![t] = NoNode]
  /\ IF t \in publishing /\ CanImport(peer[t], known[t])
       THEN Go(t, "describing") /\ UNCHANGED <<peer, publishing>>
       ELSE Done(t)
  /\ UNCHANGED <<nodes, registry, cache, inbox>>

\* The rest of create_descriptor_with_endpoint: a descriptor with the pool's device, if
\* the pool's blocks can be exported (its steps are in CudaBlockLifetime).
Describe(t) ==
  /\ at[t] = "describing"
  /\ inbox' = IF pool.ipc /\ peer[t] \in alive
                THEN inbox \cup {[to |-> peer[t], device |-> pool.device]}
                ELSE inbox
  /\ Done(t)
  /\ UNCHANGED <<nodes, registry, cache, decision, known>>

\* from_descriptor_with_endpoint: a buffer if the device is the current one, else an
\* empty one; nobody is told.
Import(m) ==
  /\ inbox' = inbox \ {m}
  /\ UNCHANGED <<nodes, registry, cache, decision, calls>>

-----------------------------------------------------------------------------
Inside(t) == RefreshTimesOut(t) \/ Refresh(t) \/ Decide(t) \/ Describe(t)

Next ==
  \/ \E p \in Proc :
       \/ CreateEndpoint(p) \/ Exit(p)
       \/ \E d \in Device : SetDevice(p, d)
       \/ \E t \in Thread : Discover(t, p) \/ Publish(t, p)
  \/ \E t \in Thread : Inside(t)
  \/ \E m \in inbox : Import(m)
  \/ Allocate
  \/ Purge

Spec == Init /\ [][Next]_vars

\* A call goes on; Pub goes on publishing to every peer, whatever else its threads do;
\* the semaphore is obtained now and then.
FairSpec ==
  /\ Spec
  /\ \A t \in Thread : WF_vars(Inside(t)) /\ SF_vars(Refresh(t))
  /\ \A q \in Proc : SF_vars(\E t \in Thread : Publish(t, q))

-----------------------------------------------------------------------------
\* The variables have their types; a thread inside a call has a peer.
TypeOK ==
  /\ current \in [Proc -> Device]
  /\ pool \in Node \cup {NoNode}
  /\ manager \in [Proc -> Node \cup {NoNode}]
  /\ registry \in SUBSET Proc
  /\ cache \in [Proc -> Node \cup {NoNode}]
  /\ decision \in [Proc -> Decisions]
  /\ at \in [Thread -> Places]
  /\ peer \in [Thread -> Proc \cup {None}]
  /\ \A t \in Thread : at[t] # "idle" => peer[t] \in Proc
  /\ publishing \in SUBSET Thread
  /\ known \in [Thread -> Node \cup {NoNode}]
  /\ inbox \in SUBSET Descriptor
  /\ alive \in SUBSET Proc
  /\ switches \in 0 .. MaxSwitch

\* A decision, once kept, is right whatever the threads, refreshes that timed out and
\* dying peers do meanwhile: "yes" for a peer that can import, "no" for one of this
\* host that cannot.  So it need never be taken back.
DecisionIsRight ==
  \A q \in Proc : decision[q] # "none" =>
    /\ q \notin Remote /\ manager[q] # NoNode
    /\ decision[q] = "yes" <=> Importable(q)

\* A descriptor on its way will be imported, not dropped, unless the importing thread is
\* by now on another device than its process registered, or Pub's pool is on another
\* one than Pub registered: otherwise the three looks at a device agree.
AdmittedIsImported ==
  \A m \in inbox :
    /\ Importable(m.to)
    /\ pool.device = manager[Pub].device /\ current[m.to] = manager[m.to].device
         => m.device = current[m.to]

\* "a same-host peer gets a CUDA descriptor once it registers" (the comment in
\* create_descriptor_with_endpoint): however late it registers, whoever asked before,
\* and however often a refresh times out.  A peer whose registration failed is not in
\* the registry and is never served; it does not try again.
RegisteredIsServed ==
  \A q \in Proc :
    q \in registry /\ Importable(q) /\ manager[Pub] # NoNode /\ pool # NoNode /\ pool.ipc
      ~> q \notin alive \/ \E m \in inbox : m.to = q
=============================================================================
