----------------------- MODULE CudaBlockLifetimeProofs -----------------------
(***************************************************************************)
(* Proofs about CudaBlockLifetime, for every set of blocks, every finite   *)
(* set of subscriptions and every bound.  The inductive invariant says, on *)
(* top of the properties, what each of them rests on: that the scan of     *)
(* allocate and the recycler's queue hold only blocks nobody owns, that a  *)
(* descriptor in flight names a block with a history, and which writes are *)
(* over.  The last section has the refinement of BlockLease.               *)
(***************************************************************************)
EXTENDS CudaBlockLifetimeRefinement, FiniteSetTheorems, TLAPS

\* allocate holds the mutex while it looks at blocks, all of them free.
ScanOK ==
  /\ mutex = "unlocked" => todo = {}
  /\ candidate # NoBlock => candidate \in todo /\ candidate \in withMeta
  /\ \A b \in todo : phase[b] = "free"

\* The recycler's queue holds retiring blocks, none of them twice.
QueueOK ==
  /\ \A i \in 1 .. Len(retireQ) : phase[retireQ[i]] = "retiring"
  /\ \A i, j \in 1 .. Len(retireQ) : retireQ[i] = retireQ[j] => i = j

\* A block has metadata only once it exists, and an import or a cache only what the
\* block has.
RefcountOK ==
  /\ RefcountCountsHolders
  /\ \A b \in Block : phase[b] = "uncreated" => b \notin withMeta

MetaOK ==
  \A s \in Sub :
    /\ cachedMeta[s] \subseteq withMeta
    /\ status[s] # "idle" /\ s \in mapped => BlockOf(s) \in withMeta

\* The uids of a block, and the state of its write, as far as it got.
AllocationOK(b) ==
  /\ gen[b] <= allocs
  /\ phase[b] # "uncreated" => gen[b] > 0
  /\ currentUid[b] # 0 => currentUid[b] = gen[b]
  /\ currentUid[b] # 0 /\ b \in withMeta => uid[b] = gen[b]
  /\ b \in recorded => event[b] # "none"
  /\ phase[b] \in {"free", "uncreated"} /\ b \in recorded => write[b] # "queued"
  /\ stray[b] # "recorded"
  /\ publishing[b] # NoSub =>
       /\ phase[b] = "owned"
       /\ write[b] # "none"
       /\ currentUid[b] = gen[b]

BlockOK == \A b \in Block : AllocationOK(b)

\* What is known of a descriptor, on its way or being handled.
DescriptorOK(m) ==
  /\ m \in Descriptor
  /\ phase[m.block] # "uncreated"
  /\ m.uid <= allocs
  /\ gen[m.block] = m.uid =>
       /\ write[m.block] # "none"
       /\ m.to \in InProcess /\ m.block \in recorded => write[m.block] = "done"
       /\ m.block \in withMeta => uid[m.block] = m.uid

MessagesOK ==
  /\ \A m \in inbox : DescriptorOK(m)
  /\ \A s \in Sub : status[s] # "idle" => DescriptorOK(msg[s]) /\ msg[s].to = s

\* A pinned block has metadata, is of the generation it was counted for, and is
\* not the one allocate is about to take.
PinnedOK(s) ==
  /\ s \in mapped
  /\ BlockOf(s) \in withMeta
  /\ gen[BlockOf(s)] = msg[s].uid
  /\ candidate # BlockOf(s)

PinOK == \A s \in Sub : status[s] # "idle" /\ s \in pinned => PinnedOK(s)

\* Before the buffer is built nothing is read; after that, a pinned reader that
\* no event holds back has finished data in front of it.
ReaderOK(s) ==
  /\ status[s] \in {"idle", "counted", "fresh"} => read[s] = "none"
  /\ /\ status[s] \in {"held", "dropping"}
     /\ s \in pinned
     /\ s \notin blind
     /\ BlockOf(s) \in recorded
     /\ s \notin withEvent \/ read[s] \in {"running", "done"}
     => write[BlockOf(s)] = "done"

ReadOK == \A s \in Sub : ReaderOK(s)

IInv ==
  /\ TypeOK
  /\ ScanOK
  /\ QueueOK
  /\ RefcountOK
  /\ MetaOK
  /\ BlockOK
  /\ MessagesOK
  /\ PinOK
  /\ ReadOK
-----------------------------------------------------------------------------
USE DEF poolVars, scanVars, metaVars, gpuVars, msgVars, cacheVars, syncVars, subVars, deadVars

\* The holders of a block are finitely many.
LEMMA HoldersFinite ==
  ASSUME TypeOK, NEW b \in Block
  PROVE  IsFiniteSet(Holders(b)) /\ Cardinality(Holders(b)) \in Nat
<1>1. Holders(b) \in SUBSET Sub
  BY DEF Holders, TypeOK
<1>2. IsFiniteSet(Holders(b))
  BY <1>1, ConstantsOK, FS_Subset DEF ConstantsOK
<1> QED
  BY <1>2, FS_CardinalityType

\* Whoever handles a message is counted, so that giving back is possible.
LEMMA HolderIsCounted ==
  ASSUME IInv, NEW s \in Sub, status[s] # "idle"
  PROVE  /\ BlockOf(s) \in Block
         /\ s \in mapped => refcount[BlockOf(s)] > 0
<1>1. BlockOf(s) \in Block
  BY DEF IInv, MessagesOK, DescriptorOK, Descriptor, BlockOf
<1>2. s \in mapped => s \in Holders(BlockOf(s))
  BY DEF Holders
<1>3. s \in mapped => Cardinality(Holders(BlockOf(s))) # 0
  BY <1>1, <1>2, HoldersFinite, FS_EmptySet DEF IInv
<1>4. refcount[BlockOf(s)] = Cardinality(Holders(BlockOf(s))) + leaked[BlockOf(s)]
  BY <1>1 DEF IInv, RefcountOK, RefcountCountsHolders
<1>5. Cardinality(Holders(BlockOf(s))) \in Nat /\ leaked[BlockOf(s)] \in Nat
  BY <1>1, HoldersFinite DEF IInv, TypeOK
<1> HIDE DEF BlockOf, Holders
<1> QED
  BY <1>1, <1>3, <1>4, <1>5

\* A refcount of zero means that no living subscriber holds the block.
LEMMA ZeroMeansNobody ==
  ASSUME IInv, NEW b \in Block, refcount[b] = 0
  PROVE  Holders(b) = {}
<1>1. Cardinality(Holders(b)) = 0
  BY HoldersFinite DEF IInv, TypeOK, RefcountOK, RefcountCountsHolders
<1> QED
  BY <1>1, HoldersFinite, FS_EmptySet DEF IInv

-----------------------------------------------------------------------------
\* The initial state satisfies the invariant: nothing exists yet.
LEMMA InitInv == Init => IInv
<1> SUFFICES ASSUME Init PROVE IInv
  OBVIOUS
<1>1. TypeOK
  <2>1. /\ phase \in [Block -> Phases] /\ event \in [Block -> EventKinds]
        /\ timestamp \in [Block -> Stamps] /\ write \in [Block -> Writes]
        /\ status \in [Sub -> Statuses] /\ read \in [Sub -> Reads]
        /\ stray \in [Block -> Strays]
    BY DEF Init, Strays, Phases, EventKinds, Stamps, Writes, Statuses, Reads
  <2>2. /\ retireQ \in Seq(Block) /\ todo \in SUBSET Block /\ inbox \in SUBSET Descriptor
        /\ cached \in [Sub -> SUBSET Block] /\ cachedMeta \in [Sub -> SUBSET Block]
    BY DEF Init
  <2>3. /\ gen \in [Block -> Nat] /\ currentUid \in [Block -> Nat]
        /\ refcount \in [Block -> Nat] /\ uid \in [Block -> Nat]
        /\ leaked \in [Block -> Nat] /\ crashes \in Nat /\ allocs \in Nat
    BY DEF Init
  <2>4. /\ publishing \in [Block -> Sub \cup {NoSub}]
        /\ msg \in [Sub -> Descriptor \cup {NoMsg}]
        /\ candidate \in Block \cup {NoBlock}
    BY DEF Init
  <2>5. /\ withMeta \in SUBSET Block /\ mutex \in {"unlocked", "allocate"}
        /\ withEvent \in SUBSET Sub /\ pinned \in SUBSET Sub
        /\ recorded \in SUBSET Block /\ mapped \in SUBSET Sub /\ blind \in SUBSET Sub
    BY DEF Init
  <2> QED
    BY <2>1, <2>2, <2>3, <2>4, <2>5 DEF TypeOK
<1>2. ScanOK /\ QueueOK
  BY DEF Init, ScanOK, QueueOK
<1>3. ASSUME NEW b \in Block PROVE Cardinality(Holders(b)) = 0
  <2>1. Holders(b) = {}
    BY DEF Init, Holders
  <2> QED
    BY <2>1, FS_EmptySet
<1>4. RefcountOK
  BY <1>3 DEF Init, RefcountOK, RefcountCountsHolders
<1>5. BlockOK
  BY DEF Init, BlockOK, AllocationOK
<1>6. MetaOK /\ MessagesOK /\ PinOK /\ ReadOK
  BY DEF Init, MetaOK, MessagesOK, PinOK, ReadOK, ReaderOK
<1> QED
  BY <1>1, <1>2, <1>4, <1>5, <1>6 DEF IInv
-----------------------------------------------------------------------------
\* What assign_uid writes has its type, whichever of its branches it takes.
LEMMA AssignUidTypes ==
  ASSUME TypeOK, NEW b \in Block, NEW s \in Sub, AssignUid(b, s)
  PROVE  /\ publishing' \in [Block -> Sub \cup {NoSub}]
         /\ currentUid' \in [Block -> Nat]
         /\ uid' \in [Block -> Nat]
         /\ timestamp' \in [Block -> Stamps]
<1>1. gen \in [Block -> Nat] /\ currentUid \in [Block -> Nat] /\ uid \in [Block -> Nat]
  BY DEF TypeOK
<1>2. publishing \in [Block -> Sub \cup {NoSub}] /\ timestamp \in [Block -> Stamps]
  BY DEF TypeOK
<1>3. publishing' = [publishing EXCEPT ![b] = s]
  BY DEF AssignUid
<1>4. currentUid' = [currentUid EXCEPT ![b] = gen[b]] \/ currentUid' = currentUid
  BY DEF AssignUid
<1>5. uid' = [uid EXCEPT ![b] = gen[b]] \/ uid' = uid
  BY DEF AssignUid
<1>6. timestamp' = [timestamp EXCEPT ![b] = "in_grace"] \/ timestamp' = timestamp
  BY DEF AssignUid
<1>7. publishing' \in [Block -> Sub \cup {NoSub}]
  BY <1>2, <1>3
<1>8. currentUid' \in [Block -> Nat] /\ uid' \in [Block -> Nat]
  BY <1>1, <1>4, <1>5
<1>9. timestamp' \in [Block -> Stamps]
  BY <1>2, <1>6 DEF Stamps
<1> QED
  BY <1>7, <1>8, <1>9

\* Every step keeps the types; the one that could break them is giving back a
\* reference, and only a counted holder does.
LEMMA TypeOKStep == IInv /\ Next => TypeOK'
<1> SUFFICES ASSUME IInv, Next PROVE TypeOK'
  OBVIOUS
<1> USE DEF IInv, TypeOK, Phases, EventKinds, Stamps, Writes, Strays, Statuses, Reads
<1>1. CASE AllocateStart \/ ReadyInGrace \/ AllocateFails
  <2>1. CASE AllocateStart
    BY <2>1 DEF AllocateStart
  <2>2. CASE ReadyInGrace
    BY <2>2 DEF ReadyInGrace
  <2>3. CASE AllocateFails
    BY <2>3 DEF AllocateFails
  <2> QED
    BY <1>1, <2>1, <2>2, <2>3
<1>2. ASSUME NEW b \in Block,
             \/ ReadyLoadRefcount(b) \/ GraceElapses(b)
             \/ QueueWrite(b) \/ WriteCompletes(b) \/ StrayCompletes(b)
      PROVE  TypeOK'
  <2>1. CASE ReadyLoadRefcount(b)
    BY <2>1 DEF ReadyLoadRefcount
  <2>2. CASE GraceElapses(b)
    BY <2>2 DEF GraceElapses
  <2>3. CASE QueueWrite(b)
    BY <2>3 DEF QueueWrite
  <2>4. CASE WriteCompletes(b)
    BY <2>4 DEF WriteCompletes
  <2>5. CASE StrayCompletes(b)
    BY <2>5 DEF StrayCompletes
  <2> QED
    BY <1>2, <2>1, <2>2, <2>3, <2>4, <2>5
<1>3. ASSUME NEW b \in Block, Recycle(b) PROVE TypeOK'
  <2>1. timestamp' \in [Block -> Stamps] /\ UNCHANGED <<withMeta, refcount, uid>>
    BY <1>3 DEF Recycle
  <2>2. HandOut(b)
    BY <1>3 DEF Recycle
  <2>3. /\ phase' \in [Block -> Phases] /\ gen' \in [Block -> Nat] /\ allocs' \in Nat
        /\ currentUid' \in [Block -> Nat]
    BY <2>2 DEF HandOut
  <2>4. /\ event' \in [Block -> EventKinds] /\ write' \in [Block -> Writes]
        /\ recorded' \in SUBSET Block /\ stray' \in [Block -> Strays]
    BY <2>2 DEF HandOut, NewWrite
  <2>5. /\ mutex' = "unlocked" /\ todo' = {} /\ candidate' = NoBlock
        /\ UNCHANGED <<publishing, retireQ, inbox, subVars, deadVars>>
    BY <2>2 DEF HandOut
  <2> QED
    BY <2>1, <2>3, <2>4, <2>5
<1>4. ASSUME NEW b \in Block, CreateBlock(b) PROVE TypeOK'
  <2>1. withMeta' \in SUBSET Block /\ UNCHANGED metaVars
    BY <1>4 DEF CreateBlock
  <2>2. HandOut(b)
    BY <1>4 DEF CreateBlock
  <2>3. /\ phase' \in [Block -> Phases] /\ gen' \in [Block -> Nat] /\ allocs' \in Nat
        /\ currentUid' \in [Block -> Nat]
    BY <2>2 DEF HandOut
  <2>4. /\ event' \in [Block -> EventKinds] /\ write' \in [Block -> Writes]
        /\ recorded' \in SUBSET Block /\ stray' \in [Block -> Strays]
    BY <2>2 DEF HandOut, NewWrite
  <2>5. /\ mutex' = "unlocked" /\ todo' = {} /\ candidate' = NoBlock
        /\ UNCHANGED <<publishing, retireQ, inbox, subVars, deadVars>>
    BY <2>2 DEF HandOut
  <2> QED
    BY <2>1, <2>3, <2>4, <2>5
<1>5. ASSUME NEW b \in Block, NEW s \in Sub, AssignUid(b, s) PROVE TypeOK'
  <2>1. TypeOK
    OBVIOUS
  <2>2. /\ publishing' \in [Block -> Sub \cup {NoSub}] /\ currentUid' \in [Block -> Nat]
        /\ uid' \in [Block -> Nat] /\ timestamp' \in [Block -> Stamps]
    <3> HIDE DEF IInv, TypeOK, Stamps
    <3> QED
      BY <1>5, <2>1, AssignUidTypes
  <2> QED
    BY <1>5, <2>2 DEF AssignUid
<1>6. ASSUME NEW b \in Block, SendDescriptor(b) PROVE TypeOK'
  <2>1. [to |-> publishing[b], block |-> b, uid |-> currentUid[b]] \in Descriptor
    BY <1>6 DEF SendDescriptor, Descriptor
  <2> QED
    BY <1>6, <2>1 DEF SendDescriptor
<1>7. ASSUME NEW b \in Block, ExportThrows(b) \/ DropOwner(b) \/ DropOwnerAtOnce(b) PROVE TypeOK'
  <2>1. CASE ExportThrows(b)
    BY <2>1 DEF ExportThrows
  <2>2. CASE DropOwner(b)
    <3>1. retireQ' \in Seq(Block)
      BY <2>2 DEF DropOwner
    <3> QED
      BY <2>2, <3>1 DEF DropOwner
  <2>3. CASE DropOwnerAtOnce(b)
    BY <2>3 DEF DropOwnerAtOnce
  <2> QED
    BY <1>7, <2>1, <2>2, <2>3
<1>8. CASE Retire
  <2>1. Head(retireQ) \in Block /\ Tail(retireQ) \in Seq(Block)
    BY <1>8 DEF Retire
  <2> QED
    BY <1>8, <2>1 DEF Retire
<1>9. ASSUME NEW s \in Sub, NEW m \in inbox, ImportCount(s, m) PROVE TypeOK'
  <2>1. m \in Descriptor /\ m.block \in Block
    BY DEF Descriptor
  <2>2. refcount' \in [Block -> Nat] /\ status' \in [Sub -> Statuses]
    <3>1. refcount[m.block] + 1 \in Nat
      BY <2>1
    <3>2. refcount' = [refcount EXCEPT ![m.block] = IF s \in mapped' THEN @ + 1 ELSE @]
      BY <1>9 DEF ImportCount
    <3>3. status' = [status EXCEPT ![s] = "counted"]
      BY <1>9 DEF ImportCount
    <3> QED
      BY <2>1, <3>1, <3>2, <3>3
  <2>3. msg' \in [Sub -> Descriptor \cup {NoMsg}] /\ read' \in [Sub -> Reads]
    BY <1>9, <2>1 DEF ImportCount
  <2>4. /\ pinned' \in SUBSET Sub /\ withEvent' \in SUBSET Sub /\ inbox' \in SUBSET Descriptor
        /\ mapped' \in SUBSET Sub /\ blind' \in SUBSET Sub
    BY <1>9, <2>1 DEF ImportCount
  <2> QED
    BY <1>9, <2>2, <2>3, <2>4 DEF ImportCount
<1>10. ASSUME NEW s \in Sub, ImportFresh(s) \/ QueueRead(s) \/ ReadStarts(s) \/ ReadCompletes(s) \/ DropImport(s)
       PROVE  TypeOK'
  <2>1. CASE ImportFresh(s)
    BY <2>1 DEF ImportFresh
  <2>2. CASE QueueRead(s)
    BY <2>2 DEF QueueRead
  <2>3. CASE ReadStarts(s)
    BY <2>3 DEF ReadStarts
  <2>4. CASE ReadCompletes(s)
    BY <2>4 DEF ReadCompletes
  <2>5. CASE DropImport(s)
    BY <2>5 DEF DropImport
  <2> QED
    BY <1>10, <2>1, <2>2, <2>3, <2>4, <2>5
<1>11. ASSUME NEW s \in Sub, ImportMap(s) PROVE TypeOK'
  <2>1. cached' \in [Sub -> SUBSET Block] /\ cachedMeta' \in [Sub -> SUBSET Block]
    <3>1. BlockOf(s) \in Block
      BY <1>11, HolderIsCounted DEF ImportMap
    <3>2. cached' = [cached EXCEPT ![s] = @ \cup {BlockOf(s)}]
      BY <1>11 DEF ImportMap
    <3>3. cachedMeta' = cachedMeta \/ cachedMeta' = [cachedMeta EXCEPT ![s] = @ \cup {BlockOf(s)}]
      BY <1>11 DEF ImportMap
    <3>4. /\ cached[s] \cup {BlockOf(s)} \in SUBSET Block
          /\ cachedMeta[s] \cup {BlockOf(s)} \in SUBSET Block
      BY <3>1
    <3>5. cached \in [Sub -> SUBSET Block] /\ cachedMeta \in [Sub -> SUBSET Block]
      OBVIOUS
    <3> HIDE DEF BlockOf, IInv, TypeOK
    <3>6. cached' \in [Sub -> SUBSET Block]
      BY <3>2, <3>4, <3>5
    <3>7. cachedMeta' \in [Sub -> SUBSET Block]
      BY <3>3, <3>4, <3>5
    <3> QED
      BY <3>6, <3>7
  <2>2. withEvent' \in SUBSET Sub /\ blind' \in SUBSET Sub /\ status' \in [Sub -> Statuses]
    BY <1>11 DEF ImportMap
  <2> QED
    BY <1>11, <2>1, <2>2 DEF ImportMap
<1>12. ASSUME NEW s \in Sub, status[s] # "idle", Leave(s) PROVE TypeOK'
  <2>1. refcount' \in [Block -> Nat]
    BY <1>12, HolderIsCounted DEF Leave, Uncount
  <2>2. Forget(s)
    BY <1>12 DEF Leave
  <2>3. status' \in [Sub -> Statuses]
    BY <2>2 DEF Forget
  <2>4. /\ msg' \in [Sub -> Descriptor \cup {NoMsg}] /\ read' \in [Sub -> Reads]
        /\ withEvent' \in SUBSET Sub /\ pinned' \in SUBSET Sub
        /\ mapped' \in SUBSET Sub /\ blind' \in SUBSET Sub
    <3>1. CASE Clear(s)
      BY <3>1 DEF Clear
    <3>2. CASE UNCHANGED <<msgVars, syncVars, read, pinned>>
      BY <3>2
    <3>3. Clear(s) \/ UNCHANGED <<msgVars, syncVars, read, pinned>>
      BY <2>2 DEF Forget
    <3> HIDE DEF IInv, TypeOK, msgVars, syncVars
    <3> QED
      BY <3>1, <3>2, <3>3
  <2> QED
    BY <1>12, <2>1, <2>3, <2>4 DEF Leave
<1>13. ASSUME NEW s \in Sub, Crash(s) PROVE TypeOK'
  <2>1. leaked' \in [Block -> Nat]
    <3>1. CASE status[s] # "idle" /\ s \in mapped
      <4>1. BlockOf(s) \in Block
        BY <3>1, HolderIsCounted
      <4>2. leaked[BlockOf(s)] + 1 \in Nat
        BY <4>1
      <4>3. leaked' = [leaked EXCEPT ![BlockOf(s)] = @ + 1]
        BY <1>13, <3>1 DEF Crash
      <4> QED
        BY <4>1, <4>2, <4>3
    <3>2. CASE ~(status[s] # "idle" /\ s \in mapped)
      BY <1>13, <3>2 DEF Crash
    <3> QED
      BY <3>1, <3>2
  <2>2. /\ status' \in [Sub -> Statuses] /\ msg' \in [Sub -> Descriptor \cup {NoMsg}]
        /\ cached' \in [Sub -> SUBSET Block] /\ crashes' \in Nat
        /\ cachedMeta' \in [Sub -> SUBSET Block]
    BY <1>13 DEF Crash, Clear
  <2>3. /\ withEvent' \in SUBSET Sub /\ read' \in [Sub -> Reads] /\ pinned' \in SUBSET Sub
        /\ inbox' \in SUBSET Descriptor
        /\ mapped' \in SUBSET Sub /\ blind' \in SUBSET Sub
    BY <1>13 DEF Crash, Clear
  <2> QED
    BY <1>13, <2>1, <2>2, <2>3 DEF Crash
<1>14. ASSUME NEW m \in inbox, LoseDescriptor(m) PROVE TypeOK'
  BY <1>14 DEF LoseDescriptor
<1> QED
  BY <1>1, <1>2, <1>3, <1>4, <1>5, <1>6, <1>7, <1>8, <1>9, <1>10, <1>11, <1>12, <1>13, <1>14
  DEF Next, Allocator, Publisher, Subscriber, Import, ImportStale, ImportFails,
      DropImportAtOnce, ReleaseImport
-----------------------------------------------------------------------------
\* What the allocator leaves alone.
LEMMA AllocatorFrame ==
  Allocator => UNCHANGED <<publishing, retireQ, refcount, uid, inbox, subVars, deadVars>>
BY DEF Allocator, AllocateStart, ReadyInGrace, AllocateFails, ReadyLoadRefcount, Recycle,
       CreateBlock, HandOut

\* What the publisher leaves alone, allocation apart.
LEMMA PublisherFrame ==
  Publisher => UNCHANGED <<gen, withMeta, event, allocs, scanVars, refcount, subVars, deadVars>>
BY DEF Publisher, Retire, QueueWrite, WriteCompletes, StrayCompletes, GraceElapses,
       SendDescriptor, ExportThrows, DropOwner, DropOwnerAtOnce, AssignUid

\* What a subscriber leaves alone: it only ever writes the refcount of a block.
LEMMA SubscriberFrame ==
  ASSUME NEW s \in Sub, Subscriber(s)
  PROVE  UNCHANGED <<poolVars, scanVars, uid, timestamp, gpuVars>>
BY DEF Subscriber, Import, ImportCount, ImportFresh, ImportStale, ImportMap, ImportFails,
       QueueRead, ReadStarts, ReadCompletes, DropImport, DropImportAtOnce, ReleaseImport,
       Leave, Crash

\* allocate hands out no block but a free one, or one it has just created.
LEMMA HandedOutWasFree ==
  ASSUME IInv, NEW b \in Block, Recycle(b)
  PROVE  phase[b] = "free"
BY ConstantsOK DEF ConstantsOK, IInv, ScanOK, Recycle

\* The head of the recycler's queue is a retiring block.
LEMMA HeadIsRetiring ==
  ASSUME IInv, Retire
  PROVE  Head(retireQ) \in Block /\ phase[Head(retireQ)] = "retiring"
<1>1. retireQ \in Seq(Block) /\ retireQ # <<>>
  BY DEF IInv, TypeOK, Retire
<1>2. Len(retireQ) \in Nat \ {0} /\ Head(retireQ) = retireQ[1] /\ Head(retireQ) \in Block
  BY <1>1
<1> QED
  BY <1>2 DEF IInv, QueueOK
-----------------------------------------------------------------------------
\* The scan looks at free blocks only: nothing else frees or takes one while
\* allocate holds the mutex.
LEMMA ScanStep == IInv /\ Next => ScanOK'
<1> SUFFICES ASSUME IInv, Next PROVE ScanOK'
  OBVIOUS
<1> USE DEF IInv, ScanOK
<1>1. CASE AllocateStart \/ ReadyInGrace \/ AllocateFails
  BY <1>1 DEF AllocateStart, ReadyInGrace, AllocateFails, TypeOK
<1>2. ASSUME NEW b \in Block, ReadyLoadRefcount(b) PROVE ScanOK'
  BY <1>2 DEF ReadyLoadRefcount
<1>3. ASSUME NEW b \in Block, Recycle(b) \/ CreateBlock(b) PROVE ScanOK'
  BY <1>3 DEF Recycle, CreateBlock, HandOut
<1>4. CASE Publisher
  <2>1. UNCHANGED <<mutex, todo, candidate, withMeta>>
    BY <1>4, PublisherFrame
  <2>2. CASE Retire
    BY <2>1, <2>2 DEF Retire
  <2>3. ASSUME NEW b \in Block, DropOwner(b) PROVE ScanOK'
    BY <2>1, <2>3 DEF DropOwner, TypeOK
  <2>4. ASSUME NEW b \in Block, DropOwnerAtOnce(b) PROVE ScanOK'
    BY <2>1, <2>4 DEF DropOwnerAtOnce
  <2>5. CASE UNCHANGED phase
    BY <2>1, <2>5
  <2> QED
    BY <1>4, <2>2, <2>3, <2>4, <2>5
    DEF Publisher, QueueWrite, WriteCompletes, StrayCompletes, GraceElapses, SendDescriptor, ExportThrows, AssignUid
<1>5. ASSUME NEW s \in Sub, Subscriber(s) PROVE ScanOK'
  BY <1>5, SubscriberFrame
<1>6. ASSUME NEW m \in inbox, LoseDescriptor(m) PROVE ScanOK'
  BY <1>6 DEF LoseDescriptor
<1> QED
  BY <1>1, <1>2, <1>3, <1>4, <1>5, <1>6 DEF Next, Allocator

\* A block enters the recycler's queue when its buffer dies, and a buffer dies once.
LEMMA QueueStep == IInv /\ Next => QueueOK'
<1> SUFFICES ASSUME IInv, Next PROVE QueueOK'
  OBVIOUS
<1>1. /\ retireQ \in Seq(Block)
      /\ phase \in [Block -> Phases]
      /\ \A i \in 1 .. Len(retireQ) : retireQ[i] \in Block /\ phase[retireQ[i]] = "retiring"
      /\ \A i, j \in 1 .. Len(retireQ) : retireQ[i] = retireQ[j] => i = j
  BY DEF IInv, TypeOK, QueueOK
<1>2. CASE UNCHANGED <<phase, retireQ>>
  BY <1>2 DEF IInv, QueueOK
<1>3. ASSUME NEW b \in Block, phase[b] \in {"free", "uncreated"}, HandOut(b) PROVE QueueOK'
  BY <1>1, <1>3 DEF HandOut, QueueOK
<1>4. ASSUME NEW b \in Block, DropOwner(b) PROVE QueueOK'
  <2>1. /\ phase[b] = "owned"
        /\ phase' = [phase EXCEPT ![b] = "retiring"]
        /\ retireQ' = Append(retireQ, b)
    BY <1>4 DEF DropOwner
  <2>2. /\ Len(retireQ') = Len(retireQ) + 1 /\ Len(retireQ) \in Nat
        /\ \A i \in 1 .. Len(retireQ) : retireQ'[i] = retireQ[i]
        /\ retireQ'[Len(retireQ) + 1] = b
    BY <1>1, <2>1
  <2>3. \A i \in 1 .. Len(retireQ) : retireQ[i] # b
    BY <1>1, <2>1
  <2> QED
    BY <1>1, <2>1, <2>2, <2>3 DEF QueueOK
<1>5. CASE Retire
  <2>1. /\ retireQ # <<>>
        /\ phase' = [phase EXCEPT ![Head(retireQ)] = "free"]
        /\ retireQ' = Tail(retireQ)
    BY <1>5 DEF Retire
  <2>2. /\ Len(retireQ) \in Nat \ {0} /\ Head(retireQ) = retireQ[1]
        /\ Len(retireQ') = Len(retireQ) - 1
        /\ \A i \in 1 .. Len(retireQ') : retireQ'[i] = retireQ[i + 1]
    BY <1>1, <2>1
  <2>3. \A i \in 1 .. Len(retireQ') : i + 1 \in 1 .. Len(retireQ) /\ i + 1 # 1
    BY <2>2
  <2>4. \A i \in 1 .. Len(retireQ') : retireQ'[i] \in Block /\ retireQ'[i] # Head(retireQ)
    BY <1>1, <2>2, <2>3
  <2>5. \A i \in 1 .. Len(retireQ') : phase'[retireQ'[i]] = "retiring"
    BY <1>1, <2>1, <2>2, <2>3, <2>4
  <2>6. \A i, j \in 1 .. Len(retireQ') : retireQ'[i] = retireQ'[j] => i = j
    BY <1>1, <2>2, <2>3
  <2> QED
    BY <2>5, <2>6 DEF QueueOK
<1>6. CASE Allocator
  <2>1. ASSUME NEW b \in Block, Recycle(b) PROVE QueueOK'
    BY <1>3, <2>1, HandedOutWasFree DEF Recycle
  <2>2. ASSUME NEW b \in Block, CreateBlock(b) PROVE QueueOK'
    BY <1>3, <2>2 DEF CreateBlock
  <2> QED
    BY <1>2, <1>6, <2>1, <2>2
    DEF Allocator, AllocateStart, ReadyInGrace, AllocateFails, ReadyLoadRefcount
<1>7. CASE Publisher
  <2>1. ASSUME NEW b \in Block, DropOwnerAtOnce(b) PROVE QueueOK'
    BY <1>1, <2>1 DEF DropOwnerAtOnce, QueueOK
  <2> QED
    BY <1>2, <1>4, <1>5, <1>7, <2>1
    DEF Publisher, QueueWrite, WriteCompletes, StrayCompletes, GraceElapses, SendDescriptor, ExportThrows, AssignUid
<1>8. ASSUME NEW s \in Sub, Subscriber(s) PROVE QueueOK'
  BY <1>2, <1>8, SubscriberFrame
<1>9. ASSUME NEW m \in inbox, LoseDescriptor(m) PROVE QueueOK'
  BY <1>2, <1>9 DEF LoseDescriptor
<1> QED
  BY <1>6, <1>7, <1>8, <1>9 DEF Next

\* A block that any message names has been created.
LEMMA HeldBlockExists ==
  ASSUME IInv, NEW b \in Block, phase[b] = "uncreated"
  PROVE  Holders(b) = {}
<1>1. \A s \in Sub : status[s] # "idle" => phase[BlockOf(s)] # "uncreated"
  BY DEF IInv, MessagesOK, DescriptorOK, BlockOf
<1>2. mapped \in SUBSET Sub
  BY DEF IInv, TypeOK
<1> QED
  BY <1>1, <1>2 DEF Holders

\* A step that moves no subscription in or out of a block keeps its holders.
LEMMA HoldersKept ==
  ASSUME TypeOK, mapped' = mapped,
         \A s \in Sub : /\ status'[s] # "idle" <=> status[s] # "idle"
                        /\ status[s] # "idle" => msg'[s] = msg[s],
         NEW b \in Block
  PROVE  Holders(b)' = Holders(b)
BY DEF Holders, BlockOf, TypeOK

\* Giving back takes one holder from the block it names and none from another.
LEMMA HolderLeaves ==
  ASSUME IInv, NEW s \in Sub, status[s] # "idle",
         status' = [status EXCEPT ![s] = "idle"],
         mapped' \ {s} = mapped \ {s}, \A t \in Sub \ {s} : msg'[t] = msg[t],
         NEW b \in Block
  PROVE  Cardinality(Holders(b)') =
           IF s \in mapped /\ b = BlockOf(s) THEN Cardinality(Holders(b)) - 1 ELSE Cardinality(Holders(b))
<1>1. status \in [Sub -> Statuses] /\ mapped \in SUBSET Sub /\ TypeOK
  BY DEF IInv, TypeOK
<1>2. CASE s \in mapped /\ b = BlockOf(s)
  <2>1. Holders(b)' = Holders(b) \ {s} /\ s \in Holders(b)
    BY <1>1, <1>2 DEF Holders, BlockOf
  <2>2. IsFiniteSet(Holders(b))
    BY <1>1, HoldersFinite
  <2>3. Cardinality(Holders(b) \ {s}) = Cardinality(Holders(b)) - 1
    BY <2>1, <2>2, FS_RemoveElement
  <2> HIDE DEF BlockOf, Holders
  <2> QED
    BY <1>2, <2>1, <2>3
<1>3. CASE ~(s \in mapped /\ b = BlockOf(s))
  <2>1. Holders(b)' = Holders(b)
    BY <1>1, <1>3 DEF Holders, BlockOf
  <2> QED
    BY <1>3, <2>1
<1> QED
  BY <1>2, <1>3
-----------------------------------------------------------------------------
\* The refcount follows the holders: import_block adds one when it adds one, the
\* deleter and the cleanup take one away when one leaves, and a process that dies
\* leaves its reference behind as a leaked one.
LEMMA RefcountStep == IInv /\ Next => RefcountOK'
<1> SUFFICES ASSUME IInv, Next PROVE RefcountOK'
  OBVIOUS
<1>1. /\ phase \in [Block -> Phases] /\ refcount \in [Block -> Nat] /\ leaked \in [Block -> Nat]
      /\ withMeta \in SUBSET Block /\ status \in [Sub -> Statuses] /\ crashes \in Nat
      /\ msg \in [Sub -> Descriptor \cup {NoMsg}] /\ mapped \in SUBSET Sub /\ TypeOK
  BY DEF IInv, TypeOK
<1>2. ASSUME NEW b \in Block
      PROVE  /\ refcount[b] = Cardinality(Holders(b)) + leaked[b]
             /\ phase[b] = "uncreated" => b \notin withMeta
  BY DEF IInv, RefcountOK, RefcountCountsHolders
<1>3. ASSUME UNCHANGED <<withMeta, refcount, leaked>>,
             \A b \in Block : phase'[b] = "uncreated" => phase[b] = "uncreated",
             \A b \in Block : Holders(b)' = Holders(b)
      PROVE  RefcountOK'
  BY <1>2, <1>3 DEF RefcountOK, RefcountCountsHolders
<1>4. CASE Allocator
  <2>1. \A b \in Block : Holders(b)' = Holders(b)
    BY <1>1, <1>4, AllocatorFrame, HoldersKept
  <2>2. UNCHANGED <<refcount, leaked>>
    BY <1>4, AllocatorFrame
  <2>3. ASSUME NEW c \in Block, CreateBlock(c) PROVE RefcountOK'
    <3>1. phase[c] = "uncreated" /\ phase' = [phase EXCEPT ![c] = "owned"]
          /\ withMeta' \in {withMeta, withMeta \cup {c}}
      BY <2>3 DEF CreateBlock, HandOut
    <3>2. ASSUME NEW b \in Block
          PROVE  /\ refcount'[b] = Cardinality(Holders(b)') + leaked'[b]
                 /\ phase'[b] = "uncreated" => b \notin withMeta'
      BY <1>1, <1>2, <2>1, <2>2, <3>1
    <3> QED
      BY <3>2 DEF RefcountOK, RefcountCountsHolders
  <2>4. ASSUME NEW b \in Block, Recycle(b) PROVE RefcountOK'
    BY <1>1, <1>3, <2>1, <2>2, <2>4 DEF Recycle, HandOut
  <2>5. CASE UNCHANGED <<phase, withMeta>>
    BY <1>3, <2>1, <2>2, <2>5
  <2> QED
    BY <1>4, <2>3, <2>4, <2>5
    DEF Allocator, AllocateStart, ReadyInGrace, AllocateFails, ReadyLoadRefcount
<1>5. CASE Publisher
  <2>1. \A b \in Block : Holders(b)' = Holders(b)
    BY <1>1, <1>5, PublisherFrame, HoldersKept
  <2>2. \A b \in Block : phase'[b] = "uncreated" => phase[b] = "uncreated"
    BY <1>1, <1>5 DEF Publisher, Retire, QueueWrite, WriteCompletes, StrayCompletes, GraceElapses,
       SendDescriptor, ExportThrows, DropOwner,
       DropOwnerAtOnce, AssignUid
  <2> QED
    BY <1>3, <1>5, <2>1, <2>2, PublisherFrame
<1>6. ASSUME NEW s \in Sub, NEW m \in inbox, ImportCount(s, m) PROVE RefcountOK'
  <2>1. m \in Descriptor /\ m.block \in Block
    BY DEF IInv, TypeOK, Descriptor
  <2>2. /\ status[s] = "idle"
        /\ status' = [status EXCEPT ![s] = "counted"]
        /\ msg' = [msg EXCEPT ![s] = m]
        /\ refcount' = [refcount EXCEPT ![m.block] = IF s \in mapped' THEN @ + 1 ELSE @]
        /\ mapped' = mapped \cup {s} \/ mapped' = mapped \ {s}
        /\ UNCHANGED <<withMeta, phase, leaked>>
    BY <1>6 DEF ImportCount
  <2>3. Cardinality(Holders(m.block)') =
          IF s \in mapped' THEN Cardinality(Holders(m.block)) + 1 ELSE Cardinality(Holders(m.block))
    <3>1. CASE s \in mapped'
      <4>1. Holders(m.block)' = Holders(m.block) \cup {s} /\ s \notin Holders(m.block)
        BY <1>1, <2>1, <2>2, <3>1 DEF Holders, BlockOf
      <4> QED
        BY <1>1, <2>1, <3>1, <4>1, HoldersFinite, FS_AddElement
    <3>2. CASE s \notin mapped'
      <4>1. Holders(m.block)' = Holders(m.block)
        BY <1>1, <2>1, <2>2, <3>2 DEF Holders, BlockOf
      <4> QED
        BY <3>2, <4>1
    <3> QED
      BY <3>1, <3>2
  <2>4. ASSUME NEW b \in Block, b # m.block PROVE Holders(b)' = Holders(b)
    BY <1>1, <2>2, <2>4 DEF Holders, BlockOf
  <2>5. ASSUME NEW b \in Block PROVE refcount'[b] = Cardinality(Holders(b)') + leaked'[b]
    BY <1>1, <1>2, <2>1, <2>2, <2>3, <2>4, HoldersFinite
  <2> QED
    BY <1>2, <2>2, <2>5 DEF RefcountOK, RefcountCountsHolders
<1>7. ASSUME NEW s \in Sub,
             ImportFresh(s) \/ ImportMap(s) \/ QueueRead(s) \/ ReadStarts(s) \/ ReadCompletes(s) \/ DropImport(s)
      PROVE  RefcountOK'
  <2>1. \A t \in Sub : (status'[t] # "idle" <=> status[t] # "idle") /\ msg'[t] = msg[t]
    BY <1>1, <1>7 DEF ImportFresh, ImportMap, QueueRead, ReadStarts, ReadCompletes, DropImport
  <2>2. UNCHANGED <<withMeta, refcount, leaked, phase, mapped>>
    BY <1>7 DEF ImportFresh, ImportMap, QueueRead, ReadStarts, ReadCompletes, DropImport
  <2> QED
    BY <1>1, <1>3, <2>1, <2>2, HoldersKept
<1>8. ASSUME NEW s \in Sub, status[s] # "idle", Leave(s) PROVE RefcountOK'
  <2>1. /\ status' = [status EXCEPT ![s] = "idle"]
        /\ \A t \in Sub \ {s} : msg'[t] = msg[t]
        /\ mapped' \ {s} = mapped \ {s}
        /\ UNCHANGED <<withMeta, phase, leaked>>
    BY <1>1, <1>8 DEF Leave, Forget, Clear
  <2>2. refcount' = [refcount EXCEPT ![BlockOf(s)] = IF s \in mapped THEN @ - 1 ELSE @]
    BY <1>8 DEF Leave, Uncount
  <2>3. ASSUME NEW b \in Block
        PROVE  refcount'[b] = Cardinality(Holders(b)') + leaked'[b]
    <3>1. Cardinality(Holders(b)') =
            IF s \in mapped /\ b = BlockOf(s) THEN Cardinality(Holders(b)) - 1 ELSE Cardinality(Holders(b))
      BY <1>8, <2>1, HolderLeaves
    <3>2. BlockOf(s) \in Block /\ Cardinality(Holders(b)) \in Nat
      BY <1>1, <1>8, HolderIsCounted, HoldersFinite
    <3>3. refcount'[b] = IF s \in mapped /\ b = BlockOf(s) THEN refcount[b] - 1 ELSE refcount[b]
      BY <1>1, <2>2, <3>2
    <3>4. refcount[b] = Cardinality(Holders(b)) + leaked[b]
      BY <1>2
    <3> QED
      BY <1>1, <2>1, <3>1, <3>2, <3>3, <3>4
  <2> QED
    BY <1>2, <2>1, <2>3 DEF RefcountOK, RefcountCountsHolders
<1>9. ASSUME NEW s \in Sub, Crash(s) PROVE RefcountOK'
  <2>1. /\ status' = [status EXCEPT ![s] = "idle"]
        /\ \A t \in Sub \ {s} : msg'[t] = msg[t]
        /\ mapped' \ {s} = mapped \ {s}
        /\ UNCHANGED <<withMeta, phase, refcount>>
    BY <1>1, <1>9 DEF Crash, Clear
  <2>2. CASE status[s] = "idle"
    <3>1. UNCHANGED leaked /\ \A b \in Block : Holders(b)' = Holders(b)
      BY <1>1, <1>9, <2>1, <2>2 DEF Crash, Holders, BlockOf
    <3> QED
      BY <1>3, <2>1, <3>1
  <2>3. CASE status[s] # "idle"
    <3>1. leaked' = IF s \in mapped THEN [leaked EXCEPT ![BlockOf(s)] = @ + 1] ELSE leaked
      BY <1>9, <2>3 DEF Crash
    <3>2. ASSUME NEW b \in Block
          PROVE  refcount'[b] = Cardinality(Holders(b)') + leaked'[b]
      <4>1. Cardinality(Holders(b)') =
              IF s \in mapped /\ b = BlockOf(s) THEN Cardinality(Holders(b)) - 1 ELSE Cardinality(Holders(b))
        BY <2>1, <2>3, HolderLeaves
      <4>2. BlockOf(s) \in Block /\ Cardinality(Holders(b)) \in Nat
        BY <1>1, <2>3, HolderIsCounted, HoldersFinite
      <4>3. leaked'[b] = IF s \in mapped /\ b = BlockOf(s) THEN leaked[b] + 1 ELSE leaked[b]
        BY <1>1, <3>1, <4>2
      <4>4. refcount[b] = Cardinality(Holders(b)) + leaked[b]
        BY <1>2
      <4> QED
        BY <1>1, <2>1, <4>1, <4>2, <4>3, <4>4
    <3> QED
      BY <1>2, <2>1, <3>2 DEF RefcountOK, RefcountCountsHolders
  <2> QED
    BY <2>2, <2>3
<1>10. ASSUME NEW m \in inbox, LoseDescriptor(m) PROVE RefcountOK'
  BY <1>1, <1>3, <1>10, HoldersKept DEF LoseDescriptor
<1> QED
  BY <1>4, <1>5, <1>6, <1>7, <1>8, <1>9, <1>10
  DEF Next, Subscriber, Import, ImportStale, ImportFails, DropImportAtOnce, ReleaseImport
-----------------------------------------------------------------------------
\* An import gets only metadata that is there, and a cache what an import got.
LEMMA MetaStep == IInv /\ Next => MetaOK'
<1> SUFFICES ASSUME IInv, Next, NEW s \in Sub
             PROVE  /\ cachedMeta'[s] \subseteq withMeta'
                    /\ status'[s] # "idle" /\ s \in mapped' => BlockOf(s)' \in withMeta'
  BY DEF MetaOK
<1>1. /\ cachedMeta[s] \subseteq withMeta
      /\ status[s] # "idle" /\ s \in mapped => BlockOf(s) \in withMeta
  BY DEF IInv, MetaOK
<1>2. /\ status \in [Sub -> Statuses] /\ msg \in [Sub -> Descriptor \cup {NoMsg}]
      /\ mapped \in SUBSET Sub /\ cachedMeta \in [Sub -> SUBSET Block]
  BY DEF IInv, TypeOK
<1>3. CASE Allocator
  <2>1. UNCHANGED subVars
    BY <1>3, AllocatorFrame
  <2>2. withMeta \subseteq withMeta'
    BY <1>3 DEF Allocator, AllocateStart, ReadyInGrace, AllocateFails, ReadyLoadRefcount,
       Recycle, CreateBlock, HandOut
  <2> QED
    BY <1>1, <2>1, <2>2 DEF BlockOf
<1>4. CASE Publisher
  BY <1>1, <1>4, PublisherFrame DEF BlockOf
<1>5. ASSUME NEW t \in Sub, Subscriber(t)
      PROVE  /\ cachedMeta'[s] \subseteq withMeta'
             /\ status'[s] # "idle" /\ s \in mapped' => BlockOf(s)' \in withMeta'
  <2>1. UNCHANGED withMeta
    BY <1>5, SubscriberFrame
  <2>2. ASSUME UNCHANGED cacheVars,
               status'[s] # "idle" /\ s \in mapped' =>
                 status[s] # "idle" /\ s \in mapped /\ msg'[s] = msg[s]
        PROVE  /\ cachedMeta'[s] \subseteq withMeta'
               /\ status'[s] # "idle" /\ s \in mapped' => BlockOf(s)' \in withMeta'
    BY <1>1, <2>1, <2>2 DEF BlockOf
  <2>3. ASSUME NEW m \in inbox, ImportCount(t, m)
        PROVE  /\ cachedMeta'[s] \subseteq withMeta'
               /\ status'[s] # "idle" /\ s \in mapped' => BlockOf(s)' \in withMeta'
    <3>1. /\ status' = [status EXCEPT ![t] = "counted"] /\ msg' = [msg EXCEPT ![t] = m]
          /\ \/ MetaFound(t, m.block, TRUE) /\ mapped' = mapped \cup {t}
             \/ mapped' = mapped \ {t}
          /\ UNCHANGED cacheVars
      BY <2>3 DEF ImportCount
    <3>2. CASE s # t
      BY <1>2, <2>2, <3>1, <3>2
    <3>3. CASE s = t
      BY <1>1, <1>2, <2>1, <3>1, <3>3 DEF MetaFound, BlockOf
    <3> QED
      BY <3>2, <3>3
  <2>4. CASE ImportFresh(t) \/ QueueRead(t) \/ ReadStarts(t) \/ ReadCompletes(t) \/ DropImport(t)
    BY <1>2, <2>2, <2>4 DEF ImportFresh, QueueRead, ReadStarts, ReadCompletes, DropImport
  <2>5. CASE ImportMap(t)
    <3>1. /\ status[t] = "fresh" /\ status' = [status EXCEPT ![t] = "held"]
          /\ cachedMeta' = IF t \in mapped THEN [cachedMeta EXCEPT ![t] = @ \cup {BlockOf(t)}]
                                           ELSE cachedMeta
          /\ UNCHANGED <<msg, mapped>>
      BY <2>5 DEF ImportMap
    <3> QED
      BY <1>1, <1>2, <2>1, <3>1 DEF BlockOf
  <2>6. CASE Leave(t)
    BY <1>2, <2>2, <2>6 DEF Leave, Forget, Clear
  <2>7. CASE Crash(t)
    <3>1. /\ status' = [status EXCEPT ![t] = "idle"] /\ msg' = [msg EXCEPT ![t] = NoMsg]
          /\ mapped' = mapped \ {t} /\ cachedMeta' = [cachedMeta EXCEPT ![t] = {}]
      BY <2>7 DEF Crash, Clear
    <3> QED
      BY <1>1, <1>2, <2>1, <3>1 DEF BlockOf
  <2> QED
    BY <1>5, <2>3, <2>4, <2>5, <2>6, <2>7
    DEF Subscriber, Import, ImportStale, ImportFails, DropImportAtOnce, ReleaseImport
<1>6. ASSUME NEW m \in inbox, LoseDescriptor(m)
      PROVE  /\ cachedMeta'[s] \subseteq withMeta'
             /\ status'[s] # "idle" /\ s \in mapped' => BlockOf(s)' \in withMeta'
  BY <1>1, <1>6 DEF LoseDescriptor, BlockOf
<1> QED
  BY <1>3, <1>4, <1>5, <1>6 DEF Next
-----------------------------------------------------------------------------
\* The uids of a block agree as long as its allocation lasts, and a block is
\* freed only when its write is over.
LEMMA BlockStep == IInv /\ Next => BlockOK'
<1> SUFFICES ASSUME IInv, Next, NEW c \in Block PROVE AllocationOK(c)'
  BY DEF BlockOK
<1>1. /\ phase \in [Block -> Phases] /\ gen \in [Block -> Nat] /\ currentUid \in [Block -> Nat]
      /\ uid \in [Block -> Nat] /\ write \in [Block -> Writes] /\ allocs \in Nat
      /\ publishing \in [Block -> Sub \cup {NoSub}] /\ withMeta \in SUBSET Block
      /\ event \in [Block -> EventKinds] /\ recorded \in SUBSET Block /\ stray \in [Block -> Strays]
  BY DEF IInv, TypeOK
<1>2. AllocationOK(c)
  BY DEF IInv, BlockOK
<1> USE DEF AllocationOK
<1>3. CASE UNCHANGED <<phase, gen, withMeta, currentUid, event, publishing, allocs, uid, gpuVars>>
  BY <1>2, <1>3
<1>4. ASSUME NEW b \in Block, phase[b] \in {"free", "uncreated"}, HandOut(b), UNCHANGED uid,
             c # b => (c \in withMeta' <=> c \in withMeta)
      PROVE  AllocationOK(c)'
  <2>1. /\ phase' = [phase EXCEPT ![b] = "owned"] /\ gen' = [gen EXCEPT ![b] = allocs + 1]
        /\ allocs' = allocs + 1 /\ currentUid' = [currentUid EXCEPT ![b] = 0]
        /\ write' = [write EXCEPT ![b] = "none"] /\ recorded' = recorded \ {b}
        /\ UNCHANGED publishing
        /\ \E k \in EventKinds : event' = [event EXCEPT ![b] = k]
    BY <1>4 DEF HandOut, NewWrite
  <2>4. /\ stray' = IF write[b] # "queued" THEN stray
                    ELSE [stray EXCEPT ![b] = IF b \in recorded THEN "recorded" ELSE "unrecorded"]
    BY <1>4 DEF HandOut, NewWrite
  <2>2. CASE c = b
    <3>1. stray'[c] # "recorded"
      BY <1>1, <1>2, <1>4, <2>2, <2>4
    <3> QED
      BY <1>1, <1>2, <1>4, <2>1, <2>2, <3>1
  <2>3. CASE c # b
    <3>1. stray'[c] = stray[c]
      BY <1>1, <2>3, <2>4
    <3> QED
      BY <1>1, <1>2, <1>4, <2>1, <2>3, <3>1
  <2> QED
    BY <2>2, <2>3
<1>5. CASE Allocator
  <2>1. ASSUME NEW b \in Block, Recycle(b) PROVE AllocationOK(c)'
    BY <1>4, <2>1, HandedOutWasFree DEF Recycle
  <2>2. ASSUME NEW b \in Block, CreateBlock(b) PROVE AllocationOK(c)'
    BY <1>4, <2>2 DEF CreateBlock
  <2> QED
    BY <1>3, <1>5, <2>1, <2>2
    DEF Allocator, AllocateStart, ReadyInGrace, AllocateFails, ReadyLoadRefcount
<1>6. CASE Publisher
  <2>1. CASE Retire
    <3>1. /\ phase' = [phase EXCEPT ![Head(retireQ)] = "free"]
          /\ Head(retireQ) \in recorded => write[Head(retireQ)] # "queued"
          /\ UNCHANGED <<gen, withMeta, currentUid, event, publishing, allocs, uid, gpuVars>>
      BY <2>1 DEF Retire
    <3> QED
      BY <1>1, <1>2, <2>1, <3>1, HeadIsRetiring
  <2>2. ASSUME NEW b \in Block, QueueWrite(b) PROVE AllocationOK(c)'
    BY <1>1, <1>2, <2>2 DEF QueueWrite
  <2>3. ASSUME NEW b \in Block, WriteCompletes(b) PROVE AllocationOK(c)'
    BY <1>1, <1>2, <2>3 DEF WriteCompletes
  <2>9. ASSUME NEW b \in Block, StrayCompletes(b) PROVE AllocationOK(c)'
    BY <1>1, <1>2, <2>9 DEF StrayCompletes
  <2>4. ASSUME NEW b \in Block, GraceElapses(b) PROVE AllocationOK(c)'
    BY <1>3, <2>4 DEF GraceElapses
  <2>5. ASSUME NEW b \in Block, SendDescriptor(b) \/ ExportThrows(b) PROVE AllocationOK(c)'
    BY <1>1, <1>2, <2>5 DEF SendDescriptor, ExportThrows
  <2>6. ASSUME NEW b \in Block, DropOwner(b) PROVE AllocationOK(c)'
    BY <1>1, <1>2, <2>6 DEF DropOwner
  <2>8. ASSUME NEW b \in Block, DropOwnerAtOnce(b) PROVE AllocationOK(c)'
    BY <1>1, <1>2, <2>8 DEF DropOwnerAtOnce
  <2>7. ASSUME NEW b \in Block, NEW s \in Sub, AssignUid(b, s) PROVE AllocationOK(c)'
    <3>1. /\ phase[b] = "owned" /\ write[b] # "none"
          /\ publishing' = [publishing EXCEPT ![b] = s]
          /\ currentUid' = IF currentUid[b] = 0
                             THEN [currentUid EXCEPT ![b] = gen[b]] ELSE currentUid
          /\ UNCHANGED <<phase, gen, withMeta, event, allocs, gpuVars>>
      BY <2>7 DEF AssignUid
    <3>2. uid' = IF currentUid[b] = 0 /\ b \in withMeta
                   THEN [uid EXCEPT ![b] = gen[b]] ELSE uid
      BY <2>7 DEF AssignUid
    <3>3. CASE c = b
      BY <1>1, <1>2, <3>1, <3>2, <3>3
    <3>4. CASE c # b
      BY <1>1, <1>2, <3>1, <3>2, <3>4
    <3> QED
      BY <3>3, <3>4
  <2> QED
    BY <1>6, <2>1, <2>2, <2>3, <2>4, <2>5, <2>6, <2>7, <2>8, <2>9 DEF Publisher
<1>7. ASSUME NEW s \in Sub, Subscriber(s) PROVE AllocationOK(c)'
  BY <1>3, <1>7, SubscriberFrame
<1>8. ASSUME NEW m \in inbox, LoseDescriptor(m) PROVE AllocationOK(c)'
  BY <1>3, <1>8 DEF LoseDescriptor
<1> QED
  BY <1>5, <1>6, <1>7, <1>8 DEF Next

\* What is known of a descriptor stays true while it is on its way: the block it
\* names is never destroyed, and a new allocation has a uid of its own.
LEMMA DescriptorKept ==
  ASSUME IInv, Next, NEW m, DescriptorOK(m)
  PROVE  DescriptorOK(m)'
<1>1. /\ phase \in [Block -> Phases] /\ gen \in [Block -> Nat] /\ currentUid \in [Block -> Nat]
      /\ uid \in [Block -> Nat] /\ write \in [Block -> Writes] /\ allocs \in Nat
      /\ withMeta \in SUBSET Block
      /\ recorded \in SUBSET Block
  BY DEF IInv, TypeOK
<1>2. m \in Descriptor /\ m.block \in Block /\ m.uid \in Nat
  BY DEF DescriptorOK, Descriptor
<1> USE DEF DescriptorOK
<1>3. CASE UNCHANGED <<phase, gen, withMeta, allocs, uid, write, recorded>>
  BY <1>3
<1>4. ASSUME NEW b \in Block, HandOut(b), UNCHANGED uid,
             m.block # b => (m.block \in withMeta' <=> m.block \in withMeta)
      PROVE  DescriptorOK(m)'
  <2>1. /\ phase' = [phase EXCEPT ![b] = "owned"] /\ gen' = [gen EXCEPT ![b] = allocs + 1]
        /\ allocs' = allocs + 1 /\ write' = [write EXCEPT ![b] = "none"]
        /\ recorded' = recorded \ {b}
    BY <1>4 DEF HandOut, NewWrite
  <2>2. CASE m.block = b
    BY <1>1, <1>2, <2>1, <2>2
  <2>3. CASE m.block # b
    BY <1>1, <1>2, <1>4, <2>1, <2>3
  <2> QED
    BY <2>2, <2>3
<1>5. CASE Allocator
  BY <1>3, <1>4, <1>5
  DEF Allocator, AllocateStart, ReadyInGrace, AllocateFails, ReadyLoadRefcount, Recycle, CreateBlock
<1>6. CASE Publisher
  <2>1. UNCHANGED <<gen, withMeta, allocs>>
    BY <1>6, PublisherFrame
  <2>2. CASE Retire
    BY <1>1, <1>2, <2>1, <2>2 DEF Retire
  <2>3. ASSUME NEW b \in Block, QueueWrite(b) \/ WriteCompletes(b) PROVE DescriptorOK(m)'
    BY <1>1, <1>2, <2>1, <2>3 DEF QueueWrite, WriteCompletes
  <2>6. ASSUME NEW b \in Block, StrayCompletes(b) PROVE DescriptorOK(m)'
    BY <1>3, <2>1, <2>6 DEF StrayCompletes
  <2>4. ASSUME NEW b \in Block, DropOwner(b) \/ DropOwnerAtOnce(b) PROVE DescriptorOK(m)'
    BY <1>1, <1>2, <2>1, <2>4 DEF DropOwner, DropOwnerAtOnce
  <2>5. ASSUME NEW b \in Block, NEW s \in Sub, AssignUid(b, s) PROVE DescriptorOK(m)'
    <3>1. /\ UNCHANGED <<phase, write, recorded>>
          /\ uid' = IF currentUid[b] = 0 /\ b \in withMeta
                      THEN [uid EXCEPT ![b] = gen[b]] ELSE uid
      BY <2>5 DEF AssignUid
    <3> QED
      BY <1>1, <1>2, <2>1, <3>1
  <2> QED
    BY <1>3, <1>6, <2>1, <2>2, <2>3, <2>4, <2>5, <2>6
    DEF Publisher, GraceElapses, SendDescriptor, ExportThrows
<1>7. ASSUME NEW s \in Sub, Subscriber(s) PROVE DescriptorOK(m)'
  BY <1>3, <1>7, SubscriberFrame
<1>8. ASSUME NEW n \in inbox, LoseDescriptor(n) PROVE DescriptorOK(m)'
  BY <1>3, <1>8 DEF LoseDescriptor
<1> QED
  BY <1>5, <1>6, <1>7, <1>8 DEF Next

\* The only new descriptor is the one a publication sends, which is right when it
\* is sent; the only new message of a subscription comes from its inbox.
LEMMA MessagesStep == IInv /\ Next => MessagesOK'
<1> SUFFICES ASSUME IInv, Next PROVE MessagesOK'
  OBVIOUS
<1>0. ASSUME NEW m, DescriptorOK(m) PROVE DescriptorOK(m)'
  BY <1>0, DescriptorKept
<1>1. /\ \A m \in inbox : DescriptorOK(m)
      /\ \A s \in Sub : status[s] # "idle" => DescriptorOK(msg[s]) /\ msg[s].to = s
  BY DEF IInv, MessagesOK
<1>2. status \in [Sub -> Statuses] /\ msg \in [Sub -> Descriptor \cup {NoMsg}]
  BY DEF IInv, TypeOK
<1>3. ASSUME inbox' \subseteq inbox,
             \A s \in Sub : status'[s] # "idle" => status[s] # "idle" /\ msg'[s] = msg[s]
      PROVE  MessagesOK'
  BY <1>0, <1>1, <1>3 DEF MessagesOK, DescriptorOK
<1>4. CASE Allocator
  BY <1>3, <1>4, AllocatorFrame
<1>5. CASE Publisher
  <2>1. ASSUME NEW b \in Block, SendDescriptor(b) PROVE MessagesOK'
    <3>1. PICK d : d = [to |-> publishing[b], block |-> b, uid |-> currentUid[b]]
      OBVIOUS
    <3>2. /\ publishing[b] # NoSub
          /\ publishing[b] \in InProcess /\ b \in recorded => write[b] = "done"
          /\ inbox' = inbox \cup {d}
          /\ UNCHANGED <<phase, gen, withMeta, allocs, uid, write, recorded, status, msg>>
      BY <2>1, <3>1 DEF SendDescriptor
    <3>3. d \in Descriptor
      BY <3>1, <3>2 DEF IInv, TypeOK, Descriptor
    <3>4. AllocationOK(b) /\ gen[b] \in Nat
      BY DEF IInv, BlockOK, TypeOK
    <3>5. DescriptorOK(d)
      BY <3>1, <3>2, <3>3, <3>4 DEF DescriptorOK, AllocationOK
    <3> QED
      BY <1>0, <1>1, <3>2, <3>5 DEF MessagesOK, DescriptorOK
  <2>2. UNCHANGED <<status, msg>>
    BY <1>5, PublisherFrame
  <2> QED
    BY <1>3, <1>5, <2>1, <2>2 DEF Publisher, Retire, QueueWrite, WriteCompletes, StrayCompletes, GraceElapses,
       ExportThrows, DropOwner, DropOwnerAtOnce, AssignUid
<1>6. ASSUME NEW s \in Sub, NEW m \in inbox, ImportCount(s, m) PROVE MessagesOK'
  <2>1. /\ m.to = s /\ inbox' = inbox \ {m} /\ msg' = [msg EXCEPT ![s] = m]
        /\ status' = [status EXCEPT ![s] = "counted"]
    BY <1>6 DEF ImportCount
  <2> QED
    BY <1>0, <1>1, <1>2, <2>1 DEF MessagesOK, DescriptorOK
<1>7. ASSUME NEW s \in Sub,
             ImportFresh(s) \/ ImportMap(s) \/ QueueRead(s) \/ ReadStarts(s) \/ ReadCompletes(s) \/ DropImport(s)
      PROVE  MessagesOK'
  BY <1>2, <1>3, <1>7 DEF ImportFresh, ImportMap, QueueRead, ReadStarts, ReadCompletes, DropImport
<1>8. ASSUME NEW s \in Sub, Leave(s) PROVE MessagesOK'
  BY <1>2, <1>3, <1>8 DEF Leave, Forget, Clear
<1>9. ASSUME NEW s \in Sub, Crash(s) PROVE MessagesOK'
  BY <1>2, <1>3, <1>9 DEF Crash, Clear
<1>10. ASSUME NEW m \in inbox, LoseDescriptor(m) PROVE MessagesOK'
  BY <1>3, <1>10 DEF LoseDescriptor
<1> QED
  BY <1>4, <1>5, <1>6, <1>7, <1>8, <1>9, <1>10
  DEF Next, Subscriber, Import, ImportStale, ImportFails, DropImportAtOnce, ReleaseImport
-----------------------------------------------------------------------------
\* allocate hands out no block that is pinned: with metadata it takes only the
\* candidate, and without there is nothing pinned.
LEMMA HandedOutIsNotPinned ==
  ASSUME IInv, NEW b \in Block, Recycle(b) \/ CreateBlock(b),
         NEW s \in Sub, status[s] # "idle", s \in pinned
  PROVE  BlockOf(s) # b
<1>1. BlockOf(s) \in withMeta /\ candidate # BlockOf(s)
  BY DEF IInv, PinOK, PinnedOK
<1>2. CASE Recycle(b)
  BY <1>1, <1>2 DEF Recycle
<1>3. CASE CreateBlock(b)
  <2>1. phase[BlockOf(s)] # "uncreated"
    BY DEF IInv, MessagesOK, DescriptorOK, BlockOf
  <2> QED
    BY <1>3, <2>1 DEF CreateBlock
<1> QED
  BY <1>2, <1>3

\* A pinned block stays what it was: when allocate makes a block its candidate
\* the refcount is 0, so that nobody holds it, and who counts itself in later is
\* not pinned.
LEMMA PinStep == IInv /\ Next => PinOK'
<1> SUFFICES ASSUME IInv, Next, NEW s \in Sub, status'[s] # "idle", s \in pinned'
             PROVE  PinnedOK(s)'
  BY DEF PinOK
<1>1. /\ gen \in [Block -> Nat] /\ withMeta \in SUBSET Block /\ status \in [Sub -> Statuses]
      /\ msg \in [Sub -> Descriptor \cup {NoMsg}] /\ pinned \in SUBSET Sub
      /\ mapped \in SUBSET Sub
  BY DEF IInv, TypeOK
<1>2. status[s] # "idle" /\ s \in pinned => PinnedOK(s) /\ BlockOf(s) \in Block
  BY HolderIsCounted DEF IInv, PinOK
<1>3. ASSUME status[s] # "idle", s \in pinned, msg'[s] = msg[s], UNCHANGED <<gen, withMeta>>,
             candidate' # BlockOf(s), s \in mapped => s \in mapped'
      PROVE  PinnedOK(s)'
  BY <1>2, <1>3 DEF PinnedOK, BlockOf
<1>4. CASE Allocator
  <2>1. UNCHANGED <<status, msg, mapped, pinned>>
    BY <1>4, AllocatorFrame
  <2>2. status[s] # "idle" /\ s \in pinned /\ PinnedOK(s) /\ BlockOf(s) \in Block
    BY <1>2, <2>1
  <2>3. ASSUME NEW b \in Block, Recycle(b) \/ CreateBlock(b) PROVE PinnedOK(s)'
    <3>1. BlockOf(s) # b
      BY <2>2, <2>3, HandedOutIsNotPinned
    <3>2. /\ gen' = [gen EXCEPT ![b] = allocs + 1] /\ candidate' = NoBlock
          /\ withMeta \subseteq withMeta'
      BY <2>3 DEF Recycle, CreateBlock, HandOut
    <3> QED
      BY <1>1, <2>1, <2>2, <3>1, <3>2, ConstantsOK DEF ConstantsOK, PinnedOK, BlockOf
  <2>4. ASSUME NEW b \in Block, ReadyLoadRefcount(b) PROVE PinnedOK(s)'
    <3>1. CASE refcount[b] > 0
      BY <1>3, <2>1, <2>2, <2>4, <3>1 DEF ReadyLoadRefcount, PinnedOK
    <3>2. CASE ~(refcount[b] > 0)
      <4>1. refcount[b] = 0
        BY <2>4, <3>2 DEF ReadyLoadRefcount, IInv, TypeOK
      <4>2. BlockOf(s) # b
        BY <2>2, <4>1, ZeroMeansNobody DEF Holders, PinnedOK
      <4> QED
        BY <1>3, <2>1, <2>2, <2>4, <3>2, <4>2 DEF ReadyLoadRefcount
    <3> QED
      BY <3>1, <3>2
  <2>5. CASE AllocateStart \/ AllocateFails
    BY <1>3, <2>1, <2>2, <2>5 DEF AllocateStart, AllocateFails, PinnedOK
  <2>6. CASE ReadyInGrace
    BY <1>3, <2>1, <2>2, <2>6, ConstantsOK DEF ConstantsOK, ReadyInGrace
  <2> QED
    BY <1>4, <2>3, <2>4, <2>5, <2>6 DEF Allocator
<1>5. CASE Publisher
  BY <1>2, <1>3, <1>5, PublisherFrame DEF PinnedOK
<1>6. ASSUME NEW t \in Sub, Subscriber(t) PROVE PinnedOK(s)'
  <2>1. UNCHANGED <<gen, withMeta, candidate>>
    BY <1>6, SubscriberFrame
  <2>2. CASE status[s] # "idle" /\ s \in pinned /\ msg'[s] = msg[s] /\ (s \in mapped => s \in mapped')
    BY <1>2, <1>3, <2>1, <2>2 DEF PinnedOK
  <2>3. ASSUME NEW m \in inbox, ImportCount(t, m) PROVE PinnedOK(s)'
    <3>1. /\ msg' = [msg EXCEPT ![t] = m] /\ status' = [status EXCEPT ![t] = "counted"]
          /\ pinned' = IF t \in mapped' /\ gen[m.block] = m.uid /\ candidate # m.block
                         THEN pinned \cup {t} ELSE pinned \ {t}
          /\ mapped' = mapped \cup {t} \/ mapped' = mapped \ {t}
      BY <2>3 DEF ImportCount
    <3>2. CASE s = t
      <4>1. MetaOK'
        BY MetaStep
      <4> QED
        BY <1>1, <2>1, <3>1, <3>2, <4>1 DEF PinnedOK, BlockOf, MetaOK
    <3>3. CASE s # t
      BY <1>1, <2>2, <3>1, <3>3
    <3> QED
      BY <3>2, <3>3
  <2>4. CASE ImportFresh(t) \/ ImportMap(t) \/ QueueRead(t) \/ ReadStarts(t) \/ ReadCompletes(t) \/ DropImport(t)
    BY <1>1, <2>2, <2>4 DEF ImportFresh, ImportMap, QueueRead, ReadStarts, ReadCompletes, DropImport
  <2>5. CASE Leave(t)
    BY <1>1, <2>2, <2>5 DEF Leave, Forget, Clear
  <2>6. CASE Crash(t)
    BY <1>1, <2>2, <2>6 DEF Crash, Clear
  <2> QED
    BY <1>6, <2>3, <2>4, <2>5, <2>6
    DEF Subscriber, Import, ImportStale, ImportFails, DropImportAtOnce, ReleaseImport
<1>7. ASSUME NEW m \in inbox, LoseDescriptor(m) PROVE PinnedOK(s)'
  BY <1>2, <1>3, <1>7 DEF LoseDescriptor, PinnedOK
<1> QED
  BY <1>4, <1>5, <1>6, <1>7 DEF Next
-----------------------------------------------------------------------------
\* What a pinned reader has in front of it is written: either it waits for the
\* publisher's event, or the event was gone or its own process's when it looked,
\* and both mean that the write is over.
LEMMA ReadStep == IInv /\ Next => ReadOK'
<1> SUFFICES ASSUME IInv, Next, NEW s \in Sub PROVE ReaderOK(s)'
  BY DEF ReadOK
<1>1. /\ write \in [Block -> Writes] /\ event \in [Block -> EventKinds] /\ status \in [Sub -> Statuses] /\ read \in [Sub -> Reads]
      /\ msg \in [Sub -> Descriptor \cup {NoMsg}] /\ pinned \in SUBSET Sub
      /\ withEvent \in SUBSET Sub /\ blind \in SUBSET Sub /\ recorded \in SUBSET Block
  BY DEF IInv, TypeOK
<1>2. ReaderOK(s)
  BY DEF IInv, ReadOK
<1>3. ASSUME status[s] # "idle"
      PROVE  BlockOf(s) \in Block /\ DescriptorOK(msg[s]) /\ msg[s].to = s
  BY <1>3, HolderIsCounted DEF IInv, MessagesOK
<1>4. ASSUME status'[s] = status[s], msg'[s] = msg[s], read'[s] = read[s],
             s \in pinned' => s \in pinned, s \in withEvent' <=> s \in withEvent,
             s \in blind' <=> s \in blind,
             s \in pinned /\ status[s] # "idle" =>
               /\ BlockOf(s) \in recorded' => BlockOf(s) \in recorded
               /\ write[BlockOf(s)] = "done" => write'[BlockOf(s)] = "done"
      PROVE  ReaderOK(s)'
  BY <1>2, <1>4 DEF ReaderOK, BlockOf
<1>5. CASE Allocator
  <2>1. UNCHANGED subVars
    BY <1>5, AllocatorFrame
  <2>2. ASSUME NEW b \in Block, Recycle(b) \/ CreateBlock(b) PROVE ReaderOK(s)'
    <3>1. write' = [write EXCEPT ![b] = "none"] /\ recorded' = recorded \ {b}
      BY <2>2 DEF Recycle, CreateBlock, HandOut, NewWrite
    <3>2. s \in pinned /\ status[s] # "idle" => BlockOf(s) # b
      BY <2>2, HandedOutIsNotPinned
    <3>3. s \in pinned /\ status[s] # "idle" => write'[BlockOf(s)] = write[BlockOf(s)]
      BY <1>1, <1>3, <3>1, <3>2
    <3> QED
      BY <1>4, <2>1, <3>1, <3>3
  <2>3. CASE UNCHANGED <<write, recorded>>
    BY <1>4, <2>1, <2>3 DEF BlockOf
  <2> QED
    BY <1>5, <2>2, <2>3
    DEF Allocator, AllocateStart, ReadyInGrace, AllocateFails, ReadyLoadRefcount
<1>6. CASE Publisher
  <2>1. UNCHANGED subVars
    BY <1>6, PublisherFrame
  <2>2. ASSUME NEW b \in Block, write[b] = "done" PROVE write'[b] = "done"
    BY <1>1, <1>6, <2>2 DEF Publisher, Retire, QueueWrite, WriteCompletes, StrayCompletes,
       GraceElapses, SendDescriptor, ExportThrows, DropOwner, DropOwnerAtOnce, AssignUid
  <2>3. ASSUME NEW b \in Block, write[b] # "none", b \in recorded' PROVE b \in recorded
    BY <1>1, <1>6, <2>3 DEF Publisher, Retire, QueueWrite, WriteCompletes, StrayCompletes,
       GraceElapses, SendDescriptor, ExportThrows, DropOwner, DropOwnerAtOnce, AssignUid
  <2>4. s \in pinned /\ status[s] # "idle" => write[BlockOf(s)] # "none"
    BY <1>3 DEF IInv, PinOK, PinnedOK, DescriptorOK, BlockOf
  <2> QED
    BY <1>3, <1>4, <2>1, <2>2, <2>3, <2>4
<1>7. ASSUME NEW t \in Sub, Subscriber(t) PROVE ReaderOK(s)'
  <2>1. UNCHANGED <<write, recorded>>
    BY <1>7, SubscriberFrame
  <2>2. CASE /\ status'[s] = status[s] /\ msg'[s] = msg[s] /\ read'[s] = read[s]
             /\ s \in pinned' <=> s \in pinned
             /\ s \in withEvent' <=> s \in withEvent
             /\ s \in blind' <=> s \in blind
    BY <1>4, <2>1, <2>2
  <2>3. ASSUME status'[s] = "idle", read'[s] = "none" PROVE ReaderOK(s)'
    BY <2>3 DEF ReaderOK
  <2>4. ASSUME NEW m \in inbox, ImportCount(t, m) PROVE ReaderOK(s)'
    BY <1>1, <2>2, <2>4 DEF ImportCount, ReaderOK
  <2>5. CASE ImportFresh(t)
    BY <1>1, <1>2, <2>2, <2>5 DEF ImportFresh, ReaderOK
  <2>6. CASE ImportMap(t)
    <3>1. /\ status[t] = "fresh" /\ status' = [status EXCEPT ![t] = "held"]
          /\ IF EventOpens(msg[t])
               THEN \/ withEvent' = withEvent \cup {t} /\ UNCHANGED blind
                    \/ blind' = blind \cup {t} /\ UNCHANGED withEvent
               ELSE UNCHANGED <<withEvent, blind>>
          /\ UNCHANGED <<msg, read, pinned>>
      BY <2>6 DEF ImportMap
    <3>2. CASE s # t
      BY <1>1, <2>2, <3>1, <3>2
    <3>3. CASE s = t
      <4>1. read[s] = "none" /\ status'[s] = "held"
        BY <1>1, <1>2, <3>1, <3>3 DEF ReaderOK
      <4>2. ASSUME s \in pinned, s \notin withEvent', s \notin blind', BlockOf(s) \in recorded
            PROVE  write[BlockOf(s)] = "done"
        <5>1. ~EventOpens(msg[s]) /\ status[s] # "idle"
          BY <3>1, <3>3, <4>2
        <5>2. gen[BlockOf(s)] = msg[s].uid
          BY <4>2, <5>1 DEF IInv, PinOK, PinnedOK
        <5>3. /\ phase[BlockOf(s)] # "uncreated" /\ write[BlockOf(s)] # "none"
              /\ s \in InProcess => write[BlockOf(s)] = "done"
          BY <1>3, <4>2, <5>1, <5>2 DEF DescriptorOK, BlockOf
        <5>4. s \in InProcess \/ phase[BlockOf(s)] \notin {"owned", "retiring"}
          BY <1>3, <4>2, <5>1, <5>2 DEF EventOpens, BlockOf, IInv, BlockOK, AllocationOK
        <5>5. CASE phase[BlockOf(s)] \notin {"owned", "retiring"}
          <6>1. phase[BlockOf(s)] = "free"
            BY <1>3, <5>1, <5>3, <5>5 DEF IInv, TypeOK, Phases
          <6>2. write[BlockOf(s)] # "queued"
            BY <1>3, <4>2, <5>1, <6>1 DEF IInv, BlockOK, AllocationOK
          <6> QED
            BY <1>1, <1>3, <5>1, <5>3, <6>2 DEF Writes
        <5> QED
          BY <5>3, <5>4, <5>5
      <4> QED
        BY <2>1, <3>1, <4>1, <4>2 DEF ReaderOK, BlockOf
    <3> QED
      BY <3>2, <3>3
  <2>7. CASE QueueRead(t)
    BY <1>1, <1>2, <2>1, <2>2, <2>7 DEF QueueRead, ReaderOK, BlockOf
  <2>8. CASE ReadStarts(t)
    <3>1. /\ read[t] = "queued" /\ read' = [read EXCEPT ![t] = "running"]
          /\ t \in withEvent => WriteEventDone(t)
          /\ UNCHANGED <<status, msg, withEvent, blind, pinned>>
      BY <2>8 DEF ReadStarts
    <3>2. status[t] # "idle" /\ t \in pinned => gen[BlockOf(t)] = msg[t].uid
      BY DEF IInv, PinOK, PinnedOK
    <3>3. CASE s = t
      BY <1>1, <1>2, <2>1, <3>1, <3>2, <3>3 DEF ReaderOK, WriteEventDone, BlockOf
    <3>4. CASE s # t
      BY <1>1, <2>2, <3>1, <3>4
    <3> QED
      BY <3>3, <3>4
  <2>9. CASE ReadCompletes(t)
    BY <1>1, <1>2, <2>1, <2>2, <2>9 DEF ReadCompletes, ReaderOK, BlockOf
  <2>10. CASE DropImport(t)
    BY <1>1, <1>2, <2>1, <2>2, <2>10 DEF DropImport, ReaderOK, BlockOf
  <2>11. ASSUME Leave(t), read[t] \in {"none", "done"} PROVE ReaderOK(s)'
    <3>1. /\ status' = [status EXCEPT ![t] = "idle"] /\ read' = [read EXCEPT ![t] = "none"]
          /\ msg' = [msg EXCEPT ![t] = NoMsg] /\ withEvent' = withEvent \ {t}
          /\ pinned' = pinned \ {t} /\ blind' = blind \ {t}
      BY <2>11 DEF Leave, Forget, Clear
    <3> QED
      BY <1>1, <2>2, <2>3, <3>1
  <2>12. CASE ImportStale(t) \/ ImportFails(t) \/ DropImportAtOnce(t) \/ ReleaseImport(t)
    <3>1. ReaderOK(t)
      BY DEF IInv, ReadOK
    <3> QED
      BY <2>11, <2>12, <3>1
      DEF ImportStale, ImportFails, DropImportAtOnce, ReleaseImport, ReaderOK
  <2>13. CASE Crash(t)
    <3>1. /\ status' = [status EXCEPT ![t] = "idle"] /\ read' = [read EXCEPT ![t] = "none"]
          /\ msg' = [msg EXCEPT ![t] = NoMsg] /\ withEvent' = withEvent \ {t}
          /\ pinned' = pinned \ {t} /\ blind' = blind \ {t}
      BY <2>13 DEF Crash, Clear
    <3> QED
      BY <1>1, <2>2, <2>3, <3>1
  <2> QED
    BY <1>7, <2>4, <2>5, <2>6, <2>7, <2>8, <2>9, <2>10, <2>12, <2>13 DEF Subscriber, Import
<1>8. ASSUME NEW m \in inbox, LoseDescriptor(m) PROVE ReaderOK(s)'
  BY <1>4, <1>8 DEF LoseDescriptor
<1> QED
  BY <1>5, <1>6, <1>7, <1>8 DEF Next
-----------------------------------------------------------------------------
\* The invariant is inductive.
LEMMA NextInv == IInv /\ [Next]_vars => IInv'
<1> SUFFICES ASSUME IInv, [Next]_vars PROVE IInv'
  OBVIOUS
<1>1. CASE Next
  BY <1>1, TypeOKStep, ScanStep, QueueStep, RefcountStep, MetaStep, BlockStep, MessagesStep, PinStep,
     ReadStep DEF IInv
<1>2. CASE UNCHANGED vars
  <2>1. TypeOK' /\ ScanOK' /\ QueueOK' /\ BlockOK'
    BY <1>2 DEF vars, IInv, TypeOK, ScanOK, QueueOK, BlockOK, AllocationOK
  <2>5. MetaOK'
    BY <1>2 DEF vars, IInv, MetaOK, BlockOf
  <2>2. \A b \in Block : Holders(b)' = Holders(b)
    BY <1>2 DEF vars, Holders, BlockOf
  <2>3. RefcountOK'
    BY <1>2, <2>2 DEF vars, IInv, RefcountOK, RefcountCountsHolders
  <2>4. MessagesOK' /\ PinOK' /\ ReadOK'
    BY <1>2 DEF vars, IInv, MessagesOK, DescriptorOK, PinOK, PinnedOK, ReadOK, ReaderOK, BlockOf
  <2> QED
    BY <2>1, <2>3, <2>4, <2>5 DEF IInv
<1> QED
  BY <1>1, <1>2

\* So every reachable state satisfies it.
LEMMA Invariance == Spec => []IInv
BY InitInv, NextInv, PTL DEF Spec

\* The variables keep their types; no refcount in shared memory goes below zero.
THEOREM TypeCorrect == Spec => []TypeOK
<1>1. IInv => TypeOK
  BY DEF IInv
<1> QED
  BY <1>1, Invariance, PTL

\* The refcount of a block is the number of imports that have its metadata and were
\* not given back.
THEOREM RefcountExact == Spec => []RefcountCountsHolders
<1>1. IInv => RefcountCountsHolders
  BY DEF IInv, RefcountOK
<1> QED
  BY <1>1, Invariance, PTL

\* A block that a subscriber has pinned is not handed out again under it.
THEOREM NoReuseUnderPin == Spec => []PinnedBlockNotReused
<1>1. IInv => PinnedBlockNotReused
  BY DEF IInv, PinOK, PinnedOK, PinnedBlockNotReused
<1> QED
  BY <1>1, Invariance, PTL

\* A kernel that reads a pinned block reads what the allocation its message is about
\* has written, all of it and nothing else, unless the write has no recorded event,
\* an earlier write had none, or the process could not open it.
THEOREM CleanReads == Spec => []PinnedReadIsClean
<1>1. IInv => PinnedReadIsClean
  <2> SUFFICES ASSUME IInv, NEW s \in Sub, read[s] = "running", s \in pinned
               PROVE  /\ gen[BlockOf(s)] = msg[s].uid
                      /\ s \notin blind /\ BlockOf(s) \in Ordered => BlockOf(s) \in Whole
    BY DEF PinnedReadIsClean
  <2>1. /\ status[s] \in {"held", "dropping"}
        /\ s \notin blind /\ BlockOf(s) \in recorded => write[BlockOf(s)] = "done"
    BY DEF IInv, TypeOK, Statuses, ReadOK, ReaderOK
  <2>2. BlockOf(s) \in Block
    BY <2>1, HolderIsCounted
  <2>3. stray[BlockOf(s)] \in {"none", "unrecorded"}
    BY <2>2 DEF IInv, TypeOK, Strays, BlockOK, AllocationOK
  <2>4. gen[BlockOf(s)] = msg[s].uid
    BY <2>1 DEF IInv, PinOK, PinnedOK
  <2> QED
    BY <2>1, <2>2, <2>3, <2>4 DEF Ordered, Whole
<1> QED
  BY <1>1, Invariance, PTL

\* The uid comparison of import_block, where it has the metadata, accepts every pinned
\* message, and takes an earlier allocation's for the present one only before that
\* one is published.
THEOREM UidVerdict == Spec => []UidVerdictIsRight
<1>1. IInv => UidVerdictIsRight
  <2> SUFFICES ASSUME IInv, NEW s \in mapped, status[s] = "counted"
               PROVE  /\ s \in pinned => NotStale(s)
                      /\ NotStale(s) => \/ gen[BlockOf(s)] = msg[s].uid
                                        \/ currentUid[BlockOf(s)] = 0
    BY DEF UidVerdictIsRight
  <2>0. s \in Sub /\ BlockOf(s) \in withMeta
    BY DEF IInv, TypeOK, MetaOK
  <2>1. AllocationOK(BlockOf(s)) /\ DescriptorOK(msg[s])
    BY <2>0, HolderIsCounted DEF IInv, BlockOK, MessagesOK
  <2>2. s \in pinned => gen[BlockOf(s)] = msg[s].uid
    BY <2>0 DEF IInv, PinOK, PinnedOK
  <2> QED
    BY <2>0, <2>1, <2>2 DEF AllocationOK, DescriptorOK, NotStale, BlockOf
<1> QED
  BY <1>1, Invariance, PTL

(***************************************************************************)
(* CudaBlockLifetime implements BlockLease: the inductive invariant gives  *)
(* what each step of a lease requires.                                     *)
(***************************************************************************)

\* Nothing exists, so nothing is leased and nobody has a pin.
LEMMA InitLease == Init => Lease!Init
BY DEF Init, Lease!Init, Lease!NoPin, PinOf, Pins, Ordered, Whole, Blind, Readers

\* Whoever touches no message touches no pin and no reader.
LEMMA PinsFrame ==
  UNCHANGED <<status, msg, read, pinned, blind>> => UNCHANGED <<PinOf, Readers, Blind>>
BY DEF PinOf, Pins, Readers, Blind, BlockOf

\* A step that concerns the message of s alone changes at most the pin of s.
LEMMA OnePin ==
  ASSUME NEW s \in Sub,
         \A t \in Sub \ {s} : /\ status'[t] = status[t] /\ msg'[t] = msg[t]
                              /\ t \in pinned' <=> t \in pinned
  PROVE  PinOf' = [PinOf EXCEPT ![s] = PinOf'[s]]
BY DEF PinOf, Pins, BlockOf

\* Likewise its kernels.
LEMMA OneReader ==
  ASSUME NEW s \in Sub,
         \A t \in Sub \ {s} : read'[t] = read[t] /\ (t \in pinned' <=> t \in pinned)
  PROVE  Readers' = IF read'[s] = "running" /\ s \in pinned' THEN Readers \cup {s} ELSE Readers \ {s}
BY DEF Readers

\* Likewise whether it is blind.
LEMMA OneBlind ==
  ASSUME NEW s \in Sub,
         \A t \in Sub \ {s} : /\ status'[t] = status[t]
                              /\ t \in pinned' <=> t \in pinned
                              /\ t \in blind' <=> t \in blind,
         blind \in SUBSET Sub, blind' \in SUBSET Sub
  PROVE  Blind' = IF s \in blind' /\ Pins(s)' THEN Blind \cup {s} ELSE Blind \ {s}
BY DEF Blind, Pins

\* Handing a block out is a grant: nobody has it pinned.
LEMMA HandOutGrants ==
  ASSUME IInv, NEW b \in Block, Recycle(b) \/ CreateBlock(b)
  PROVE  Lease!Grant(b)
<1>1. ~Lease!Pinned(b)
  <2> SUFFICES ASSUME NEW s \in Sub, PinOf[s].block = b PROVE FALSE
    BY DEF Lease!Pinned
  <2>1. Pins(s) /\ BlockOf(s) = b
    BY ConstantsOK DEF ConstantsOK, PinOf
  <2> QED
    BY <2>1, HandedOutIsNotPinned DEF Pins
<1>2. /\ gen' = [gen EXCEPT ![b] = allocs + 1] /\ allocs' = allocs + 1
      /\ write' = [write EXCEPT ![b] = "none"] /\ recorded' = recorded \ {b}
      /\ \A c \in Block \ {b} : stray'[c] = stray[c]
      /\ UNCHANGED subVars
  BY DEF Recycle, CreateBlock, HandOut, NewWrite, IInv, TypeOK
<1>3. Ordered' = Ordered \ {b}
  BY <1>2 DEF Ordered, IInv, TypeOK
<1>4. Whole' = Whole \ {b}
  BY <1>2 DEF Whole, IInv, TypeOK
<1>5. UNCHANGED <<PinOf, Readers, Blind>>
  BY <1>2, PinsFrame
<1> QED
  BY <1>1, <1>2, <1>3, <1>4, <1>5 DEF Lease!Grant

\* Of the publisher's steps only those that write are ones of the lease.
LEMMA PublisherLease ==
  ASSUME IInv, Publisher
  PROVE  [Lease!Next]_(Lease!leaseVars)
<1>1. UNCHANGED <<gen, allocs, PinOf, Readers, Blind>>
  BY PublisherFrame, PinsFrame
<1>2. ASSUME NEW b \in Block, QueueWrite(b) \/ WriteCompletes(b) \/ StrayCompletes(b)
      PROVE  Lease!Fill(b)
  <2>1. /\ recorded \subseteq recorded' /\ recorded' \in SUBSET Block
        /\ write[b] = "done" => write'[b] = "done"
        /\ stray'[b] \in {stray[b], "none"}
        /\ stray[b] = "none" => stray'[b] = "none"
    BY <1>2 DEF QueueWrite, WriteCompletes, StrayCompletes, IInv, TypeOK
  <2>4. ASSUME NEW c \in Block \ {b}
        PROVE  write'[c] = write[c] /\ stray'[c] = stray[c] /\ (c \in recorded' <=> c \in recorded)
    BY <1>2 DEF QueueWrite, WriteCompletes, StrayCompletes, IInv, TypeOK
  <2>2. Ordered' \in {Ordered, Ordered \cup {b}}
    <3>1. ASSUME NEW c \in Block \ {b} PROVE c \in Ordered' <=> c \in Ordered
      <4>1. stray'[c] = stray[c] /\ (c \in recorded' <=> c \in recorded)
        BY <2>4
      <4> QED
        BY <4>1 DEF Ordered
    <3>2. b \in Ordered => b \in Ordered'
      BY <2>1 DEF Ordered
    <3>3. Ordered \subseteq Block /\ Ordered' \subseteq Block
      BY <2>1 DEF Ordered, IInv, TypeOK
    <3> HIDE DEF Ordered
    <3> QED
      BY <3>1, <3>2, <3>3
  <2>3. Whole' \in {Whole, Whole \cup {b}}
    <3>1. ASSUME NEW c \in Block \ {b} PROVE c \in Whole' <=> c \in Whole
      <4>1. stray'[c] = stray[c] /\ write'[c] = write[c]
        BY <2>4
      <4> QED
        BY <4>1 DEF Whole
    <3>2. b \in Whole => b \in Whole'
      BY <2>1 DEF Whole
    <3>3. Whole \subseteq Block /\ Whole' \subseteq Block
      BY DEF Whole
    <3> HIDE DEF Whole
    <3> QED
      BY <3>1, <3>2, <3>3
  <2> QED
    BY <1>1, <2>2, <2>3 DEF Lease!Fill
<1>4. CASE UNCHANGED gpuVars
  BY <1>1, <1>4 DEF Lease!leaseVars, Ordered, Whole
<1> QED
  BY <1>2, <1>4
  DEF Publisher, Retire, GraceElapses, SendDescriptor, ExportThrows, DropOwner,
      DropOwnerAtOnce, AssignUid, Lease!Next

\* What a subscriber does to a lease: a count in time is a pin, giving the count
\* back ends it with no kernel running, a dead process takes its kernels along.
LEMMA SubscriberLease ==
  ASSUME IInv, NEW s \in Sub, Subscriber(s)
  PROVE  [Lease!Next]_(Lease!leaseVars)
<1>1. UNCHANGED <<gen, allocs, Ordered, Whole>>
  BY SubscriberFrame DEF Ordered, Whole
<1>2. /\ status \in [Sub -> Statuses] /\ read \in [Sub -> Reads] /\ pinned \in SUBSET Sub
      /\ msg \in [Sub -> Descriptor \cup {NoMsg}] /\ gen \in [Block -> Nat]
      /\ blind \in SUBSET Sub
  BY DEF IInv, TypeOK
<1>3. /\ status[s] \in {"idle", "counted", "fresh"} => read[s] = "none"
      /\ Pins(s) => BlockOf(s) \in Block /\ gen[BlockOf(s)] = msg[s].uid
  BY HolderIsCounted DEF IInv, ReadOK, ReaderOK, PinOK, PinnedOK, Pins
<1>4. PinOf[s] = IF Pins(s) THEN [block |-> BlockOf(s), lease |-> msg[s].uid]
                            ELSE [block |-> NoBlock, lease |-> 0]
  BY DEF PinOf
<1>5. ASSUME UNCHANGED <<PinOf, Readers, Blind>> PROVE UNCHANGED Lease!leaseVars
  BY <1>1, <1>5 DEF Lease!leaseVars
<1>6. ASSUME NEW m \in inbox, ImportCount(s, m) PROVE [Lease!Next]_(Lease!leaseVars)
  <2>1. /\ status[s] = "idle" /\ status' = [status EXCEPT ![s] = "counted"]
        /\ msg' = [msg EXCEPT ![s] = m] /\ read' = [read EXCEPT ![s] = "none"]
        /\ pinned' = IF s \in mapped' /\ gen[m.block] = m.uid /\ candidate # m.block
                       THEN pinned \cup {s} ELSE pinned \ {s}
        /\ blind' = blind \ {s}
    BY <1>6 DEF ImportCount
  <2>2. UNCHANGED Readers
    BY <1>2, <1>3, <2>1 DEF Readers
  <2>3. PinOf' = [PinOf EXCEPT ![s] = PinOf'[s]]
    BY <1>2, <2>1, OnePin
  <2>4. ~Pins(s)
    BY <2>1 DEF Pins
  <2>7. UNCHANGED Blind
    <3>1. Blind' = Blind \ {s}
      BY <1>2, <2>1, OneBlind
    <3> QED
      BY <2>4, <3>1 DEF Blind
  <2>5. CASE s \in pinned'
    <3>1. gen[m.block] = m.uid
      BY <2>1, <2>5
    <3>2. m.block \in Block /\ gen[m.block] # 0
      BY <1>2 DEF IInv, MessagesOK, DescriptorOK, Descriptor, BlockOK, AllocationOK
    <3>3. PinOf'[s] = [block |-> m.block, lease |-> gen[m.block]]
      BY <1>2, <2>1, <2>5, <3>1 DEF PinOf, Pins, BlockOf
    <3>4. Lease!Pin(s, m.block)
      BY <1>1, <1>4, <2>2, <2>3, <2>4, <2>7, <3>2, <3>3 DEF Lease!Pin, Lease!NoPin
    <3> QED
      BY <3>2, <3>4 DEF Lease!Next
  <2>6. CASE s \notin pinned'
    <3>1. PinOf'[s] = PinOf[s]
      BY <1>4, <2>4, <2>6 DEF PinOf, Pins
    <3>2. UNCHANGED PinOf
      BY <2>3, <3>1 DEF PinOf
    <3> QED
      BY <1>5, <2>2, <2>7, <3>2
  <2> QED
    BY <2>5, <2>6
<1>7. CASE ImportFresh(s) \/ QueueRead(s) \/ DropImport(s)
  <2>1. /\ status[s] # "idle" /\ status'[s] # "idle"
        /\ \A t \in Sub \ {s} : status'[t] = status[t] /\ read'[t] = read[t]
        /\ read[s] = "running" <=> read'[s] = "running"
        /\ UNCHANGED <<msg, pinned, blind>>
    BY <1>2, <1>7 DEF ImportFresh, QueueRead, DropImport
  <2>2. UNCHANGED <<PinOf, Readers>>
    BY <2>1 DEF PinOf, Pins, Readers, BlockOf
  <2>3. UNCHANGED Blind
    BY <1>2, <2>1 DEF Blind, Pins
  <2> QED
    BY <1>5, <2>2, <2>3
<1>12. CASE ImportMap(s)
  <2>1. /\ status[s] = "fresh" /\ status' = [status EXCEPT ![s] = "held"]
        /\ blind' = blind \/ blind' = blind \cup {s}
        /\ UNCHANGED <<msg, pinned, read>>
    BY <1>12 DEF ImportMap
  <2>2. UNCHANGED <<PinOf, Readers>>
    BY <1>2, <2>1 DEF PinOf, Pins, Readers, BlockOf
  <2>3. s \notin Readers
    BY <1>3, <2>1 DEF Readers
  <2>4. Pins(s)' <=> Pins(s)
    BY <1>2, <2>1 DEF Pins
  <2>5. Blind' = IF s \in blind' /\ Pins(s)' THEN Blind \cup {s} ELSE Blind \ {s}
    BY <1>2, <2>1, OneBlind
  <2>6. CASE UNCHANGED Blind
    BY <1>5, <2>2, <2>6
  <2>7. CASE Blind' # Blind
    <3>1. Pins(s) /\ Blind' = Blind \cup {s}
      BY <2>1, <2>4, <2>5, <2>7 DEF Blind
    <3>2. PinOf[s] # [block |-> NoBlock, lease |-> 0]
      BY <1>3, <1>4, <3>1, ConstantsOK DEF ConstantsOK
    <3>3. Lease!GoBlind(s)
      BY <1>1, <2>2, <2>3, <3>1, <3>2 DEF Lease!GoBlind, Lease!NoPin
    <3> QED
      BY <3>3 DEF Lease!Next
  <2> QED
    BY <2>6, <2>7
<1>8. CASE ReadStarts(s)
  <2>1. /\ read[s] = "queued" /\ read' = [read EXCEPT ![s] = "running"]
        /\ s \in withEvent => WriteEventDone(s)
        /\ UNCHANGED <<status, msg, pinned, blind>>
    BY <1>8 DEF ReadStarts
  <2>2. UNCHANGED <<PinOf, Blind>>
    BY <2>1 DEF PinOf, Pins, Blind, BlockOf
  <2>3. CASE s \in pinned
    <3>1. status[s] \in {"held", "dropping"} /\ Pins(s)
      BY <1>2, <1>3, <2>1, <2>3 DEF Statuses, Pins
    <3>6. s \notin blind /\ BlockOf(s) \in recorded => write[BlockOf(s)] = "done"
      BY <1>3, <2>1, <2>3, <3>1 DEF IInv, ReadOK, ReaderOK, WriteEventDone
    <3>7. BlockOf(s) \in Block /\ stray[BlockOf(s)] \in {"none", "unrecorded"}
      BY <1>3, <3>1 DEF IInv, TypeOK, Strays, BlockOK, AllocationOK
    <3>2. s \notin Blind /\ BlockOf(s) \in Ordered => BlockOf(s) \in Whole
      BY <3>1, <3>6, <3>7 DEF Blind, Ordered, Whole
    <3>3. Readers' = Readers \cup {s}
      BY <1>2, <2>1, <2>3, OneReader
    <3>4. PinOf[s].block = BlockOf(s) /\ PinOf[s] # [block |-> NoBlock, lease |-> 0]
      BY <1>3, <1>4, <3>1, ConstantsOK DEF ConstantsOK
    <3>5. Lease!StartRead(s)
      BY <1>1, <2>2, <3>2, <3>3, <3>4 DEF Lease!StartRead, Lease!NoPin
    <3> QED
      BY <3>5 DEF Lease!Next
  <2>4. CASE s \notin pinned
    <3>1. UNCHANGED Readers
      BY <1>2, <2>1, <2>4 DEF Readers
    <3> QED
      BY <1>5, <2>2, <3>1
  <2> QED
    BY <2>3, <2>4
<1>9. CASE ReadCompletes(s)
  <2>1. read' = [read EXCEPT ![s] = "done"] /\ UNCHANGED <<status, msg, pinned, blind>>
    BY <1>9 DEF ReadCompletes
  <2>2. UNCHANGED <<PinOf, Blind>>
    BY <2>1 DEF PinOf, Pins, Blind, BlockOf
  <2>3. Readers' = Readers \ {s}
    BY <1>2, <2>1, OneReader
  <2>4. Lease!EndRead(s)
    BY <1>1, <2>2, <2>3 DEF Lease!EndRead
  <2> QED
    BY <2>4 DEF Lease!Next
<1>10. ASSUME Clear(s), status' = [status EXCEPT ![s] = "idle"]
       PROVE  /\ PinOf' = [PinOf EXCEPT ![s] = [block |-> NoBlock, lease |-> 0]]
              /\ Readers' = Readers \ {s}
              /\ Blind' = Blind \ {s}
  <2>1. /\ msg' = [msg EXCEPT ![s] = NoMsg] /\ read' = [read EXCEPT ![s] = "none"]
        /\ pinned' = pinned \ {s} /\ blind' = blind \ {s}
    BY <1>10 DEF Clear
  <2>5. Blind' = Blind \ {s}
    BY <1>2, <1>10, <2>1, OneBlind
  <2>2. PinOf'[s] = [block |-> NoBlock, lease |-> 0]
    BY <1>2, <1>10 DEF PinOf, Pins
  <2>3. PinOf' = [PinOf EXCEPT ![s] = PinOf'[s]]
    BY <1>2, <1>10, <2>1, OnePin
  <2>4. Readers' = Readers \ {s}
    BY <1>2, <2>1, OneReader
  <2> QED
    BY <2>2, <2>3, <2>4, <2>5
<1>11. CASE ImportStale(s) \/ ImportFails(s) \/ DropImportAtOnce(s) \/ ReleaseImport(s)
  <2>1. Leave(s) /\ read[s] \in {"none", "done"}
    BY <1>3, <1>11 DEF ImportStale, ImportFails, DropImportAtOnce, ReleaseImport
  <2>2. Clear(s) /\ status' = [status EXCEPT ![s] = "idle"]
    BY <2>1 DEF Leave, Forget
  <2>3. s \notin Readers
    BY <2>1 DEF Readers
  <2>4. Lease!Unpin(s)
    BY <1>1, <1>10, <2>2, <2>3 DEF Lease!Unpin, Lease!NoPin
  <2> QED
    BY <2>4 DEF Lease!Next
<1>13. CASE Crash(s)
  <2>1. Clear(s) /\ status' = [status EXCEPT ![s] = "idle"]
    BY <1>13 DEF Crash
  <2>2. Lease!Die(s)
    BY <1>1, <1>10, <2>1 DEF Lease!Die, Lease!NoPin
  <2> QED
    BY <2>2 DEF Lease!Next
<1> QED
  BY <1>6, <1>7, <1>8, <1>9, <1>11, <1>12, <1>13 DEF Subscriber, Import

\* Every step of the code is a step of a lease, or none that a lease shows.
LEMMA StepLease == IInv /\ [Next]_vars => [Lease!Next]_(Lease!leaseVars)
<1> SUFFICES ASSUME IInv, [Next]_vars PROVE [Lease!Next]_(Lease!leaseVars)
  OBVIOUS
<1>1. ASSUME UNCHANGED <<gen, allocs, gpuVars, subVars>> PROVE UNCHANGED Lease!leaseVars
  BY <1>1, PinsFrame DEF Lease!leaseVars, Ordered, Whole
<1>2. CASE Allocator
  <2>1. ASSUME NEW b \in Block, Recycle(b) \/ CreateBlock(b) PROVE Lease!Next
    BY <2>1, HandOutGrants DEF Lease!Next
  <2>2. CASE AllocateStart \/ ReadyInGrace \/ AllocateFails \/ \E b \in Block : ReadyLoadRefcount(b)
    BY <1>1, <2>2 DEF AllocateStart, ReadyInGrace, AllocateFails, ReadyLoadRefcount
  <2> QED
    BY <1>2, <2>1, <2>2 DEF Allocator
<1>3. CASE \E m \in inbox : LoseDescriptor(m)
  BY <1>1, <1>3 DEF LoseDescriptor
<1>4. CASE UNCHANGED vars
  BY <1>1, <1>4 DEF vars
<1> QED
  BY <1>2, <1>3, <1>4, PublisherLease, SubscriberLease DEF Next

\* The pool, the imports and the recyclers implement leases and pins, whatever the
\* number of blocks, subscriptions, allocations and deaths.
THEOREM LeaseImplemented == Spec => ImplementsLease
BY InitLease, StepLease, Invariance, PTL DEF Spec, ImplementsLease, Lease!Spec
=============================================================================
