------------------------- MODULE CudaBlockLifetime -------------------------
(***************************************************************************)
(* The life of the VMM blocks of one publisher process's CudaMemoryPool,   *)
(* across the processes that use them: allocation and recycling under the  *)
(* pool's mutex, publication of a descriptor, the import of a block by a   *)
(* subscriber through the shared-memory IPCMetadata, the GPU work on both  *)
(* sides, and the deferred release by each process's BufferRecycler.       *)
(*                                                                         *)
(* A step of the model is one access to state that another process or      *)
(* thread can see.  In particular is_block_ready is two steps (it loads    *)
(* the refcount, then the timestamp) and import_block is three (count,     *)
(* compare the uid, map), because those are what races with the other side.*)
(*                                                                         *)
(* The 64-bit random uid is the number of the allocation it stands for:    *)
(* fresh, never 0.  Two equal draws of uid_rng_ are left out.  The clock   *)
(* is abstracted to what is_block_ready tells apart: whether the block has *)
(* a publish timestamp and whether the grace period has passed since.      *)
(***************************************************************************)
EXTENDS Naturals, Sequences, FiniteSets

CONSTANTS
  Block,       \* the blocks the device has room for (block_id of the pool)
  Sub,         \* subscriptions, each in a process with its own import cache
  InProcess,   \* those in the publisher's own process
  MaxAlloc,    \* bound: how many allocations a behaviour makes
  MaxCrash,    \* bound: how many subscriber processes die
  NoBlock,     \* no candidate, no block
  NoSub        \* no publication in progress

ASSUME ConstantsOK ==
  /\ IsFiniteSet(Sub)
  /\ InProcess \subseteq Sub
  /\ MaxAlloc \in Nat
  /\ MaxCrash \in Nat
  /\ NoBlock \notin Block
  /\ NoSub \notin Sub

VARIABLES
  \* CudaMemoryPool and the CudaBuffers it handed out (publisher process)
  phase,       \* [Block -> Phases] where the block is
  gen,         \* [Block -> Nat] history: number of its latest allocation
  withMeta,    \* the blocks whose VmmBlock::ipc_meta is not null
  currentUid,  \* [Block -> Nat] VmmBlock::current_uid
  event,       \* [Block -> EventKinds] write_event_ of the owning CudaBuffer
  publishing,  \* [Block -> Sub \cup {NoSub}] create_descriptor in progress
  retireQ,     \* queue_ of the publisher's BufferRecycler
  allocs,      \* allocations made so far
  \* CudaMemoryPool::allocate in progress, under mutex_
  mutex,       \* mutex_ of the pool: "unlocked" or held by allocate
  todo,        \* blocks of the bucket the scan has not rejected yet
  candidate,   \* the block whose refcount was loaded as 0
  \* IPCMetadata, in shared memory
  refcount, uid, timestamp,
  \* the GPU's view of a block
  write,       \* [Block -> Writes] the write of its latest allocation
  recorded,    \* the blocks whose write event was recorded behind that write
  stray,       \* [Block -> Strays] history: a write of an earlier allocation that
               \* still runs, and whether an event was recorded behind it
  \* descriptors on their way
  inbox,
  \* a subscription and the message it is handling
  status,      \* [Sub -> Statuses]
  msg,         \* [Sub -> Descriptor \cup {NoMsg}]
  mapped,      \* those whose import has the block's IPCMetadata (ipc_meta)
  cached,      \* [Sub -> SUBSET Block] the process's import cache
  cachedMeta,  \* [Sub -> SUBSET Block] its entries with an ipc_meta that is not null
  withEvent,   \* those whose imported CudaBuffer has a write event
  blind,       \* those, as history, that could not open an event that was there
  read,        \* [Sub -> Reads] the GPU read queued through a ReadHandle
  pinned,      \* those, as history, that counted themselves before allocate had
               \* loaded the refcount for the block's next generation
  \* processes that died while they held a reference
  leaked, crashes

poolVars == <<phase, gen, withMeta, currentUid, event, publishing, retireQ, allocs>>
scanVars == <<mutex, todo, candidate>>
metaVars == <<refcount, uid, timestamp>>
gpuVars  == <<write, recorded, stray>>
msgVars  == <<msg, mapped>>
cacheVars == <<cached, cachedMeta>>
syncVars == <<withEvent, blind>>
subVars  == <<status, msgVars, cacheVars, syncVars, read, pinned>>
deadVars == <<leaked, crashes>>
vars == <<poolVars, scanVars, metaVars, gpuVars, inbox, subVars, deadVars>>

-----------------------------------------------------------------------------
Phases     == {"uncreated", "owned", "retiring", "free"}
EventKinds == {"interprocess", "local", "none"}
Stamps     == {"zero", "in_grace", "elapsed"}
Writes     == {"none", "queued", "done"}
Strays     == {"none", "recorded", "unrecorded"}
Statuses   == {"idle", "counted", "fresh", "held", "dropping"}
Reads      == {"none", "queued", "running", "done"}

\* CudaBufferDescriptor: which block, under which uid, for which endpoint.
Descriptor == [to : Sub, block : Block, uid : Nat]
NoMsg == [to |-> NoSub, block |-> NoBlock, uid |-> 0]

\* The block the message of s names.
BlockOf(s) == msg[s].block

\* Subscriptions that have counted themselves on b and not left yet.
Holders(b) == {s \in mapped : status[s] # "idle" /\ BlockOf(s) = b}

\* check_uid_staleness does not complain: there is no metadata, or it agrees.
NotStale(s) == s \in mapped => uid[BlockOf(s)] = msg[s].uid

\* Whether import_block has the metadata of b in the end: the cache has the pointer,
\* or null, of the import that filled the entry; otherwise shm_open or mmap may fail
\* even if the publisher has the segment.
MetaFound(s, b, found) ==
  IF b \in cached[s] THEN found <=> b \in cachedMeta[s] ELSE found => b \in withMeta

\* The write event that message m names is still there to be opened.  It lives
\* with the CudaBuffer of that allocation, and a process cannot open its own.
EventOpens(m) ==
  /\ gen[m.block] = m.uid
  /\ event[m.block] # "none"
  /\ phase[m.block] \in {"owned", "retiring"}
  /\ m.to \notin InProcess

\* The imported write event of s has completed, or was never recorded.
WriteEventDone(s) ==
  gen[BlockOf(s)] = msg[s].uid /\ BlockOf(s) \in recorded => write[BlockOf(s)] = "done"

\* Mutant: the deleter does not test for metadata.
UncountAlways(s) == refcount' = [refcount EXCEPT ![BlockOf(s)] = @ - 1]

\* refcount.fetch_sub(1) on the block of s, if the import has its metadata.
Uncount(s) ==
  refcount' = [refcount EXCEPT ![BlockOf(s)] = IF s \in mapped THEN @ - 1 ELSE @]

\* Nothing is left of the message of s.
Clear(s) ==
  /\ msg' = [msg EXCEPT ![s] = NoMsg]
  /\ mapped' = mapped \ {s}
  /\ withEvent' = withEvent \ {s}
  /\ blind' = blind \ {s}
  /\ read' = [read EXCEPT ![s] = "none"]
  /\ pinned' = pinned \ {s}

\* s is done with its message.  A kernel that still runs is not stopped by that:
\* it keeps reading the block the message named.
Forget(s) ==
  /\ status' = [status EXCEPT ![s] = "idle"]
  /\ IF read[s] \in {"none", "done"}
       THEN Clear(s)
       ELSE UNCHANGED <<msgVars, syncVars, read, pinned>>

\* The reference is given back and the message put aside.
Leave(s) ==
  /\ Uncount(s)
  /\ Forget(s)
  /\ UNCHANGED <<poolVars, scanVars, uid, timestamp, gpuVars, inbox, cacheVars, deadVars>>

-----------------------------------------------------------------------------
Init ==
  /\ phase = [b \in Block |-> "uncreated"]
  /\ gen = [b \in Block |-> 0]
  /\ withMeta = {}
  /\ currentUid = [b \in Block |-> 0]
  /\ event = [b \in Block |-> "interprocess"]
  /\ publishing = [b \in Block |-> NoSub]
  /\ retireQ = <<>>
  /\ allocs = 0
  /\ mutex = "unlocked"
  /\ todo = {}
  /\ candidate = NoBlock
  /\ refcount = [b \in Block |-> 0]
  /\ uid = [b \in Block |-> 0]
  /\ timestamp = [b \in Block |-> "zero"]
  /\ write = [b \in Block |-> "none"]
  /\ recorded = {}
  /\ stray = [b \in Block |-> "none"]
  /\ inbox = {}
  /\ status = [s \in Sub |-> "idle"]
  /\ msg = [s \in Sub |-> NoMsg]
  /\ mapped = {}
  /\ cached = [s \in Sub |-> {}]
  /\ cachedMeta = [s \in Sub |-> {}]
  /\ withEvent = {}
  /\ blind = {}
  /\ read = [s \in Sub |-> "none"]
  /\ pinned = {}
  /\ leaked = [b \in Block |-> 0]
  /\ crashes = 0

-----------------------------------------------------------------------------
(* CudaMemoryPool::allocate.  All blocks are of one size, one bucket.      *)

\* allocate takes mutex_ and starts on the bucket.
AllocateStart ==
  /\ mutex = "unlocked"
  /\ allocs < MaxAlloc
  /\ mutex' = "allocate"
  /\ todo' = {b \in Block : phase[b] = "free"}
  /\ UNCHANGED <<poolVars, candidate, metaVars, gpuVars, inbox, subVars, deadVars>>

\* Nothing is written under the new allocation.  A write of the last one that is
\* still queued, because nothing waited for it, goes on.
NewWrite(b) ==
  /\ write' = [write EXCEPT ![b] = "none"]
  /\ recorded' = recorded \ {b}
  /\ stray' = IF write[b] # "queued" THEN stray
              ELSE [stray EXCEPT ![b] = IF b \in recorded THEN "recorded" ELSE "unrecorded"]

\* Mutant: current_uid is not reset.
HandOutKeepsUid(b) ==
  /\ phase' = [phase EXCEPT ![b] = "owned"]
  /\ gen' = [gen EXCEPT ![b] = allocs + 1]
  /\ allocs' = allocs + 1
  /\ \E k \in EventKinds : event' = [event EXCEPT ![b] = k]
  /\ NewWrite(b)
  /\ mutex' = "unlocked"
  /\ todo' = {}
  /\ candidate' = NoBlock
  /\ UNCHANGED <<currentUid, publishing, retireQ, inbox, subVars, deadVars>>

\* The block leaves the pool in a new CudaBuffer with a write event of its own:
\* one other processes can open, a local one if that fails, or none at all.
HandOut(b) ==
  /\ phase' = [phase EXCEPT ![b] = "owned"]
  /\ gen' = [gen EXCEPT ![b] = allocs + 1]
  /\ allocs' = allocs + 1
  /\ currentUid' = [currentUid EXCEPT ![b] = 0]
  /\ \E k \in EventKinds : event' = [event EXCEPT ![b] = k]
  /\ NewWrite(b)
  /\ mutex' = "unlocked"
  /\ todo' = {}
  /\ candidate' = NoBlock
  /\ UNCHANGED <<publishing, retireQ, inbox, subVars, deadVars>>

\* Mutant: one reference is taken for the pool's own.
ReadyIgnoresOne(b) ==
  /\ b \in todo
  /\ candidate = NoBlock
  /\ b \in withMeta
  /\ IF refcount[b] > 1
       THEN todo' = todo \ {b} /\ UNCHANGED candidate
       ELSE candidate' = b /\ UNCHANGED todo
  /\ UNCHANGED <<poolVars, mutex, metaVars, gpuVars, inbox, subVars, deadVars>>

\* is_block_ready, first load: the refcount.
ReadyLoadRefcount(b) ==
  /\ b \in todo
  /\ candidate = NoBlock
  /\ b \in withMeta
  /\ IF refcount[b] > 0
       THEN todo' = todo \ {b} /\ UNCHANGED candidate
       ELSE candidate' = b /\ UNCHANGED todo
  /\ UNCHANGED <<poolVars, mutex, metaVars, gpuVars, inbox, subVars, deadVars>>

\* is_block_ready, second load: the timestamp and the clock say "not yet".
ReadyInGrace ==
  /\ candidate # NoBlock
  /\ timestamp[candidate] = "in_grace"
  /\ todo' = todo \ {candidate}
  /\ candidate' = NoBlock
  /\ UNCHANGED <<poolVars, mutex, metaVars, gpuVars, inbox, subVars, deadVars>>

\* ... or the block is ready, and is recycled.  IPCMetadata::uid stays.
Recycle(b) ==
  /\ \/ candidate = b /\ timestamp[b] # "in_grace"
     \/ candidate = NoBlock /\ b \in todo /\ b \notin withMeta
  /\ HandOut(b)
  /\ timestamp' = [timestamp EXCEPT ![b] = "zero"]
  /\ UNCHANGED <<withMeta, refcount, uid>>

\* No block of the bucket is ready: create_block.  The shared-memory segment
\* may fail to be made; the block is then used without IPCMetadata.
CreateBlock(b) ==
  /\ mutex = "allocate" /\ todo = {}
  /\ phase[b] = "uncreated"
  /\ withMeta' \in {withMeta, withMeta \cup {b}}
  /\ HandOut(b)
  /\ UNCHANGED metaVars

\* create_block throws: the device has no room for another block.
AllocateFails ==
  /\ mutex = "allocate" /\ todo = {}
  /\ mutex' = "unlocked"
  /\ UNCHANGED <<poolVars, todo, candidate, metaVars, gpuVars, inbox, subVars, deadVars>>

\* The grace period since assign_uid has passed.
GraceElapses(b) ==
  /\ timestamp[b] = "in_grace"
  /\ timestamp' = [timestamp EXCEPT ![b] = "elapsed"]
  /\ UNCHANGED <<poolVars, scanVars, refcount, uid, gpuVars, inbox, subVars, deadVars>>

-----------------------------------------------------------------------------
(* The publisher's use of a block.                                         *)

\* get_write_handle, a kernel, and the WriteHandle's end, which records the write
\* event after the kernel: unless there is none, the stream is not usable any more,
\* or cudaEventRecord fails, which is passed over.
QueueWrite(b) ==
  /\ phase[b] = "owned"
  /\ publishing[b] = NoSub
  /\ write[b] = "none"
  /\ write' = [write EXCEPT ![b] = "queued"]
  /\ \/ event[b] # "none" /\ recorded' = recorded \cup {b}
     \/ UNCHANGED recorded
  /\ UNCHANGED <<poolVars, scanVars, metaVars, stray, inbox, subVars, deadVars>>

WriteCompletes(b) ==
  /\ write[b] = "queued"
  /\ write' = [write EXCEPT ![b] = "done"]
  /\ UNCHANGED <<poolVars, scanVars, metaVars, recorded, stray, inbox, subVars, deadVars>>

\* The last write that an earlier allocation of the block left is over.
StrayCompletes(b) ==
  /\ stray[b] # "none"
  /\ stray' = [stray EXCEPT ![b] = "none"]
  /\ UNCHANGED <<poolVars, scanVars, metaVars, write, recorded, inbox, subVars, deadVars>>

\* create_descriptor_with_endpoint up to assign_uid, for the endpoint s: only
\* the first publication of an allocation draws a uid and stamps the block.
\* That the buffer was written before is the caller's part (README: Usage).
AssignUid(b, s) ==
  /\ mutex = "unlocked"                    \* find_block_for_va takes mutex_
  /\ phase[b] = "owned"
  /\ publishing[b] = NoSub
  /\ write[b] # "none"
  /\ publishing' = [publishing EXCEPT ![b] = s]
  /\ IF currentUid[b] = 0
       THEN currentUid' = [currentUid EXCEPT ![b] = gen[b]]
       ELSE UNCHANGED currentUid
  /\ IF currentUid[b] = 0 /\ b \in withMeta
       THEN /\ uid' = [uid EXCEPT ![b] = gen[b]]
            /\ timestamp' = [timestamp EXCEPT ![b] = "in_grace"]
       ELSE UNCHANGED <<uid, timestamp>>
  /\ UNCHANGED <<phase, gen, withMeta, event, retireQ, allocs, scanVars, refcount,
                 gpuVars, inbox, subVars, deadVars>>

\* The rest of it: the publisher waits for the write event when the endpoint is in
\* its own process (one that was not recorded is no wait), exports the event's
\* handle, if there is an event, and hands the descriptor over.
SendDescriptor(b) ==
  /\ publishing[b] # NoSub
  /\ publishing[b] \in InProcess /\ b \in recorded => write[b] = "done"
  /\ event[b] # "local"
  /\ inbox' = inbox \cup {[to |-> publishing[b], block |-> b, uid |-> currentUid[b]]}
  /\ publishing' = [publishing EXCEPT ![b] = NoSub]
  /\ UNCHANGED <<phase, gen, withMeta, currentUid, event, retireQ, allocs, scanVars,
                 metaVars, gpuVars, subVars, deadVars>>

\* cudaIpcGetEventHandle refuses a local event; CUDA_CHECK throws.
ExportThrows(b) ==
  /\ publishing[b] # NoSub
  /\ publishing[b] \in InProcess /\ b \in recorded => write[b] = "done"
  /\ event[b] = "local"
  /\ publishing' = [publishing EXCEPT ![b] = NoSub]
  /\ UNCHANGED <<phase, gen, withMeta, currentUid, event, retireQ, allocs, scanVars,
                 metaVars, gpuVars, inbox, subVars, deadVars>>

\* ~CudaBuffer: it owns its write event, so the pointer goes to the recycler.
DropOwner(b) ==
  /\ phase[b] = "owned" /\ event[b] # "none"
  /\ publishing[b] = NoSub
  /\ phase' = [phase EXCEPT ![b] = "retiring"]
  /\ retireQ' = Append(retireQ, b)
  /\ UNCHANGED <<gen, withMeta, currentUid, event, publishing, allocs, scanVars,
                 metaVars, gpuVars, inbox, subVars, deadVars>>

\* ~CudaBuffer without an event: the deleter runs at once.
DropOwnerAtOnce(b) ==
  /\ phase[b] = "owned" /\ event[b] = "none"
  /\ publishing[b] = NoSub
  /\ mutex = "unlocked"
  /\ phase' = [phase EXCEPT ![b] = "free"]
  /\ UNCHANGED <<gen, withMeta, currentUid, event, publishing, retireQ, allocs, scanVars,
                 metaVars, gpuVars, inbox, subVars, deadVars>>

\* Mutant: the events are destroyed without waiting for them.
RetireAtOnce ==
  /\ retireQ # <<>>
  /\ mutex = "unlocked"
  /\ phase' = [phase EXCEPT ![Head(retireQ)] = "free"]
  /\ retireQ' = Tail(retireQ)
  /\ UNCHANGED <<gen, withMeta, currentUid, event, publishing, allocs, scanVars,
                 metaVars, gpuVars, inbox, subVars, deadVars>>

\* Mutant: it waits for a kernel of the producer, which there may not be.
RetireAfterWrite ==
  /\ retireQ # <<>>
  /\ mutex = "unlocked"
  /\ write[Head(retireQ)] = "done"
  /\ phase' = [phase EXCEPT ![Head(retireQ)] = "free"]
  /\ retireQ' = Tail(retireQ)
  /\ UNCHANGED <<gen, withMeta, currentUid, event, publishing, allocs, scanVars,
                 metaVars, gpuVars, inbox, subVars, deadVars>>

\* BufferRecycler::run: wait for the write event, which is no wait if it was not
\* recorded, destroy it, run the deleter: CudaMemoryPool::free under mutex_.
Retire ==
  /\ retireQ # <<>>
  /\ mutex = "unlocked"
  /\ Head(retireQ) \in recorded => write[Head(retireQ)] # "queued"
  /\ phase' = [phase EXCEPT ![Head(retireQ)] = "free"]
  /\ retireQ' = Tail(retireQ)
  /\ UNCHANGED <<gen, withMeta, currentUid, event, publishing, allocs, scanVars,
                 metaVars, gpuVars, inbox, subVars, deadVars>>

-----------------------------------------------------------------------------
(* The subscriber: from_descriptor_with_endpoint and import_block.         *)

\* import_block finds or maps the metadata, and counts itself in if it has it.
ImportCount(s, m) ==
  /\ status[s] = "idle"
  /\ m \in inbox /\ m.to = s
  /\ inbox' = inbox \ {m}
  /\ msg' = [msg EXCEPT ![s] = m]
  /\ status' = [status EXCEPT ![s] = "counted"]
  /\ \/ MetaFound(s, m.block, TRUE) /\ mapped' = mapped \cup {s}
     \/ MetaFound(s, m.block, FALSE) /\ mapped' = mapped \ {s}
  /\ refcount' = [refcount EXCEPT ![m.block] = IF s \in mapped' THEN @ + 1 ELSE @]
  /\ pinned' = IF s \in mapped' /\ gen[m.block] = m.uid /\ candidate # m.block
                 THEN pinned \cup {s} ELSE pinned \ {s}
  /\ withEvent' = withEvent \ {s}
  /\ blind' = blind \ {s}
  /\ read' = [read EXCEPT ![s] = "none"]
  /\ UNCHANGED <<poolVars, scanVars, uid, timestamp, gpuVars, cacheVars, deadVars>>

\* check_uid_staleness passes.
ImportFresh(s) ==
  /\ status[s] = "counted"
  /\ NotStale(s)
  /\ status' = [status EXCEPT ![s] = "fresh"]
  /\ UNCHANGED <<poolVars, scanVars, metaVars, gpuVars, inbox, msgVars, cacheVars, syncVars,
                 read, pinned, deadVars>>

\* Mutant: the throw skips the fetch_sub.
ImportStaleKeepsCount(s) ==
  /\ status[s] = "counted"
  /\ ~NotStale(s)
  /\ Forget(s)
  /\ UNCHANGED <<poolVars, scanVars, metaVars, gpuVars, inbox, cacheVars, deadVars>>

\* check_uid_staleness throws: the reference is given back, the message dropped.
ImportStale(s) ==
  /\ status[s] = "counted"
  /\ ~NotStale(s)
  /\ Leave(s)

\* The block is mapped (or was, by an earlier import) and the buffer is built
\* around it, with the publisher's write event if that can still be opened; when
\* cudaIpcOpenEventHandle fails for whatever reason, the buffer does without.
ImportMap(s) ==
  /\ status[s] = "fresh"
  /\ cached' = [cached EXCEPT ![s] = @ \cup {BlockOf(s)}]
  /\ cachedMeta' = IF s \in mapped THEN [cachedMeta EXCEPT ![s] = @ \cup {BlockOf(s)}]
                                   ELSE cachedMeta
  /\ IF EventOpens(msg[s])
       THEN \/ withEvent' = withEvent \cup {s} /\ UNCHANGED blind
            \/ blind' = blind \cup {s} /\ UNCHANGED withEvent
       ELSE UNCHANGED syncVars
  /\ status' = [status EXCEPT ![s] = "held"]
  /\ UNCHANGED <<poolVars, scanVars, metaVars, gpuVars, inbox, msgVars, read, pinned, deadVars>>

\* Mutant: the cleanup unmaps the metadata without the fetch_sub.
ImportFailsKeepsCount(s) ==
  /\ status[s] = "fresh"
  /\ BlockOf(s) \notin cached[s]
  /\ Forget(s)
  /\ UNCHANGED <<poolVars, scanVars, metaVars, gpuVars, inbox, cacheVars, deadVars>>

\* On a cache miss a step of the import may fail: cleanup_failed_import.
ImportFails(s) ==
  /\ status[s] = "fresh"
  /\ BlockOf(s) \notin cached[s]
  /\ Leave(s)

\* get_read_handle on a usable stream, a kernel, and the ReadHandle's end,
\* which records a read event behind the kernel.
QueueRead(s) ==
  /\ status[s] = "held"
  /\ read[s] = "none"
  /\ read' = [read EXCEPT ![s] = "queued"]
  /\ UNCHANGED <<poolVars, scanVars, metaVars, gpuVars, inbox, status, msgVars, cacheVars,
                 syncVars, pinned, deadVars>>

\* The stream gets past the wait on the write event.
ReadStarts(s) ==
  /\ read[s] = "queued"
  /\ s \in withEvent => WriteEventDone(s)
  /\ read' = [read EXCEPT ![s] = "running"]
  /\ UNCHANGED <<poolVars, scanVars, metaVars, gpuVars, inbox, status, msgVars, cacheVars,
                 syncVars, pinned, deadVars>>

ReadCompletes(s) ==
  /\ read[s] = "running"
  /\ read' = [read EXCEPT ![s] = "done"]
  /\ UNCHANGED <<poolVars, scanVars, metaVars, gpuVars, inbox, status, msgVars, cacheVars,
                 syncVars, pinned, deadVars>>

\* Mutant: the deleter runs when the buffer is destroyed, not after its events.
DropImportReleases(s) ==
  /\ status[s] = "held"
  /\ s \in withEvent \/ read[s] # "none"
  /\ Leave(s)

\* ~CudaBuffer with an event to wait for: the recycler takes over.
DropImport(s) ==
  /\ status[s] = "held"
  /\ s \in withEvent \/ read[s] # "none"
  /\ status' = [status EXCEPT ![s] = "dropping"]
  /\ UNCHANGED <<poolVars, scanVars, metaVars, gpuVars, inbox, msgVars, cacheVars, syncVars,
                 read, pinned, deadVars>>

\* ~CudaBuffer without any: the deleter runs at once.
DropImportAtOnce(s) ==
  /\ status[s] = "held"
  /\ s \notin withEvent /\ read[s] = "none"
  /\ Leave(s)

\* BufferRecycler::run in the subscriber: wait for every event, then the deleter.
ReleaseImport(s) ==
  /\ status[s] = "dropping"
  /\ read[s] \in {"none", "done"}
  /\ s \in withEvent => WriteEventDone(s)
  /\ Leave(s)

\* The process dies, its GPU work with it, and is started again: its cache and
\* its messages are gone, its references in shared memory stay.
Crash(s) ==
  /\ s \notin InProcess
  /\ crashes < MaxCrash
  /\ crashes' = crashes + 1
  /\ leaked' = IF status[s] # "idle" /\ s \in mapped
                 THEN [leaked EXCEPT ![BlockOf(s)] = @ + 1]
                 ELSE leaked
  /\ status' = [status EXCEPT ![s] = "idle"]
  /\ Clear(s)
  /\ cached' = [cached EXCEPT ![s] = {}]
  /\ cachedMeta' = [cachedMeta EXCEPT ![s] = {}]
  /\ inbox' = {m \in inbox : m.to # s}
  /\ UNCHANGED <<poolVars, scanVars, metaVars, gpuVars>>

\* The middleware loses a descriptor (queue depth, best effort).
LoseDescriptor(m) ==
  /\ m \in inbox
  /\ inbox' = inbox \ {m}
  /\ UNCHANGED <<poolVars, scanVars, metaVars, gpuVars, subVars, deadVars>>

-----------------------------------------------------------------------------
Allocator ==
  \/ AllocateStart
  \/ ReadyInGrace
  \/ AllocateFails
  \/ \E b \in Block : ReadyLoadRefcount(b) \/ Recycle(b) \/ CreateBlock(b)

Publisher ==
  \/ Retire
  \/ \E b \in Block :
       \/ QueueWrite(b) \/ WriteCompletes(b) \/ StrayCompletes(b) \/ GraceElapses(b)
       \/ SendDescriptor(b) \/ ExportThrows(b) \/ DropOwner(b) \/ DropOwnerAtOnce(b)
       \/ \E s \in Sub : AssignUid(b, s)

Import(s) ==
  \/ \E m \in inbox : ImportCount(s, m)
  \/ ImportFresh(s) \/ ImportStale(s) \/ ImportMap(s) \/ ImportFails(s)

\* The import of s asks the publisher's dispatcher for the block's descriptor: it is
\* a cache miss.  recvmsg has no timeout, so the answer may never come.
AwaitsDescriptor(s) == status[s] = "fresh" /\ BlockOf(s) \notin cached[s]

Subscriber(s) ==
  \/ Import(s)
  \/ QueueRead(s) \/ ReadStarts(s) \/ ReadCompletes(s)
  \/ DropImport(s) \/ DropImportAtOnce(s) \/ ReleaseImport(s)
  \/ Crash(s)

Next ==
  \/ Allocator
  \/ Publisher
  \/ \E s \in Sub : Subscriber(s)
  \/ \E m \in inbox : LoseDescriptor(m)

Spec == Init /\ [][Next]_vars
-----------------------------------------------------------------------------
(* What the scheduling of the code provides: threads inside a call, the two *)
(* recyclers, GPU streams and the clock go on.  Allocating, writing,        *)
(* publishing and reading are the user's choice and need not happen; that   *)
(* the user lets go of a message it was given is assumed.  An import goes   *)
(* on unless it is one that waits for a descriptor.  Retire waits for       *)
(* a mutex that allocate takes again and again, so it needs that a waiting  *)
(* thread gets the mutex some time: strong fairness.                        *)
Fairness ==
  /\ WF_vars(ReadyInGrace) /\ WF_vars(AllocateFails) /\ SF_vars(Retire)
  /\ \A b \in Block :
       /\ WF_vars(ReadyLoadRefcount(b)) /\ WF_vars(Recycle(b)) /\ WF_vars(CreateBlock(b))
       /\ WF_vars(WriteCompletes(b)) /\ WF_vars(StrayCompletes(b)) /\ WF_vars(GraceElapses(b))
       /\ WF_vars(SendDescriptor(b)) /\ WF_vars(ExportThrows(b))
  /\ \A s \in Sub :
       /\ WF_vars(~AwaitsDescriptor(s) /\ Import(s))
       /\ WF_vars(ReadStarts(s)) /\ WF_vars(ReadCompletes(s))
       /\ WF_vars(DropImport(s) \/ DropImportAtOnce(s)) /\ WF_vars(ReleaseImport(s))

FairSpec == Spec /\ Fairness

-----------------------------------------------------------------------------
\* The variables have their types; a refcount never goes below zero.
TypeOK ==
  /\ phase \in [Block -> Phases]
  /\ gen \in [Block -> Nat]
  /\ withMeta \in SUBSET Block
  /\ currentUid \in [Block -> Nat]
  /\ event \in [Block -> EventKinds]
  /\ publishing \in [Block -> Sub \cup {NoSub}]
  /\ retireQ \in Seq(Block)
  /\ allocs \in Nat
  /\ mutex \in {"unlocked", "allocate"}
  /\ todo \in SUBSET Block
  /\ candidate \in Block \cup {NoBlock}
  /\ refcount \in [Block -> Nat]
  /\ uid \in [Block -> Nat]
  /\ timestamp \in [Block -> Stamps]
  /\ write \in [Block -> Writes]
  /\ recorded \in SUBSET Block
  /\ stray \in [Block -> Strays]
  /\ inbox \in SUBSET Descriptor
  /\ status \in [Sub -> Statuses]
  /\ msg \in [Sub -> Descriptor \cup {NoMsg}]
  /\ mapped \in SUBSET Sub
  /\ cached \in [Sub -> SUBSET Block]
  /\ cachedMeta \in [Sub -> SUBSET Block]
  /\ withEvent \in SUBSET Sub
  /\ blind \in SUBSET Sub
  /\ read \in [Sub -> Reads]
  /\ pinned \in SUBSET Sub
  /\ leaked \in [Block -> Nat]
  /\ crashes \in Nat

\* IPCMetadata::refcount is exactly the imports that have the metadata and have not
\* been released, in the processes that live and in those that died: no path of
\* import_block, of its cleanup, of the cache or of the deleters counts twice,
\* forgets or gives back too much.  An import whose process cannot map the metadata
\* goes on uncounted, and so does every later one its cache entry serves.
RefcountCountsHolders ==
  \A b \in Block : refcount[b] = Cardinality(Holders(b)) + leaked[b]

\* A subscriber that has counted itself before allocate looked at the refcount
\* keeps the block: until it lets go, the block is not handed out again.
PinnedBlockNotReused ==
  \A s \in Sub : status[s] # "idle" /\ s \in pinned => gen[BlockOf(s)] = msg[s].uid

\* The blocks whose reads are ordered after the write: its event was recorded, and
\* no earlier allocation left a write that nothing waits for.
Ordered == {b \in recorded : stray[b] # "unrecorded"}

\* The blocks whose data is what the present allocation wrote.
Whole == {b \in Block : write[b] = "done" /\ stray[b] = "none"}

\* The data of a pinned block is whole while a kernel of the subscriber reads it: no
\* later allocation has the block, no write of an earlier one is left, and the write
\* of this one has finished, whether its event was opened or was already gone, and
\* even if the buffers on both sides are destroyed while the kernels run.  The code
\* has no such order, and goes on, where no event was recorded behind a write or a
\* subscriber could not open one that was there: Ordered and blind.
PinnedReadIsClean ==
  \A s \in Sub :
    read[s] = "running" /\ s \in pinned =>
      /\ gen[BlockOf(s)] = msg[s].uid
      /\ s \notin blind /\ BlockOf(s) \in Ordered => BlockOf(s) \in Whole

\* What the uid comparison is worth to an import that has the metadata.  It never
\* rejects a message whose block is pinned; and it lets a message about an earlier
\* allocation pass only while the block's present allocation has not been published.
\* An import without the metadata compares nothing.
UidVerdictIsRight ==
  \A s \in mapped :
    status[s] = "counted" =>
      /\ s \in pinned => NotStale(s)
      /\ NotStale(s) => \/ gen[BlockOf(s)] = msg[s].uid
                        \/ currentUid[BlockOf(s)] = 0

\* is_block_ready(b), if nothing happens between its loads.
Ready(b) == b \in withMeta => refcount[b] = 0 /\ timestamp[b] # "in_grace"

\* A buffer the publisher has dropped returns to the pool, behind whatever the
\* recycler has queued before it.
DroppedBlockComesBack == \A b \in Block : phase[b] = "retiring" ~> phase[b] = "free"

\* The loop of ~CudaMemoryPool ends: once no buffer is out, there comes a moment
\* when every block is ready, unless one is allocated again.  An import that waits for
\* ever for its descriptor keeps its reference, and the publisher's process with it:
\* the property is about behaviours in which every such wait ends.
DestructorEnds ==
  (\A s \in Sub : []<>~AwaitsDescriptor(s)) =>
    ((\A b \in Block : phase[b] \in {"uncreated", "free"}) ~>
       \/ \A b \in Block : Ready(b)
       \/ \E b \in Block : phase[b] \in {"owned", "retiring"})

\* README.md: "The publisher's pool checks a shared-memory refcount before
\* recycling a block, ensuring all IPC subscribers have released their handles."
RecyclesOnlyUnreferenced ==
  [][\A b \in Block : phase[b] = "free" /\ phase'[b] = "owned" => refcount[b] = 0]_vars

\* Design document, CUDA buffer lifetime: "If a late subscriber still races with
\* reuse, it detects stale data on first access by comparing the descriptor UID
\* with the UID stored in shared memory."
LateImportIsDetected ==
  [][\A s \in Sub :
       status[s] = "counted" /\ status'[s] = "fresh" /\ s \in mapped
         => gen[BlockOf(s)] = msg[s].uid]_vars
=============================================================================
