# A verification project for rosidl_buffer_backends

`rosidl_buffer_backends` lets a ROS 2 message keep its payload in device memory
and hands it from publisher to subscriber without a copy: over CUDA virtual
memory blocks and IPC events (`cuda_buffer_backend`), over Qualcomm dma-bufs
(`qc_buffer_backend`), with tensor views on top (`torch_conversions`). The hard
part is not the copying that is saved but the question of *who may touch a piece
of memory when*, between processes that only share a few words of memory, a
socket and the order of a GPU's streams. That is what the modules here are about.

Paths below are relative to `src/`. The modules are plain TLA+, TLC checks
bounded instances, TLAPS checks the proofs.

## 1. Inventory

### 1.1 Parts, their state, their operations

| part | state | operations |
|---|---|---|
| `CudaMemoryPool` (`cuda_buffer/src/cuda_memory_pool.cpp`) | blocks, the free ones by size, `current_uid` of each; in shared memory per block `IPCMetadata`: refcount, uid, publish timestamp | `allocate` (scan with `is_block_ready`, else `create_block`), `free`, `assign_uid`, destructor that waits for every block |
| `CudaVmmIPCManager` (`cuda_buffer_ipc_manager.cpp`) | per process: import cache by (pid, block id), sockets of the registered blocks | `register_block`, `import_block` |
| `FDDispatcher` (same file) | epoll thread, socket -> descriptor map | `add_socket`, `remove_socket`, `handle_client`, `stop` |
| `CudaBuffer` (`cuda_buffer.cpp`, `cuda_buffer_handle.hpp`) | write event, handle state (unset, in use, finalized), read events | `get_read_handle`, `get_write_handle`, `finalize_write_handle`, the handles' `release`, destructor |
| `BufferRecycler` (`cuda_buffer.cpp:28`) | queue of destroyed buffers with their events, one thread | `enqueue`, `run` |
| `CudaBufferImpl` (`cuda_buffer_impl.hpp`, `cuda_buffer_api.hpp`) | a shared `CudaBuffer` and a size | allocate, `resize`, `clear`, `to_cpu`, `clone`, `from_input_buffer`, `from_output_buffer`, `to_buffer` |
| `HostEndpointManager` (`host_endpoint_manager.cpp`) | named shared segment of endpoint entries, named semaphore, local cache | constructor, `register_endpoint`, `refresh_from_remote`, `query_endpoint_locality`, destructor |
| `CudaBufferBackend` plugin (`cuda_buffer_backend_plugin.cpp`) | endpoint manager, decision cache per peer | `on_creating_endpoint`, `on_discovering_endpoint`, `create_descriptor_with_endpoint`, `from_descriptor_with_endpoint` |
| `FdBroker` (`qc_buffer/src/fd_broker.cpp`) | window of duplicated descriptors by uid, listening socket, worker thread, counter of connection threads | `register_buffer`, `worker_loop`, `handle_connection`, destructor |
| `QcBuffer`, `QcBufferImpl`, `RpcMemLoader` | a dma-buf and its descriptor, uid counter | allocate, move, `reset`, `clone`, `to_cpu` |
| `QcBufferBackend` plugin | none | `create_descriptor_with_endpoint`, `from_descriptor_with_endpoint` |
| `cuda_buffer_py` | Python wrappers that own handles | `from_input_buffer`, `to_buffer`, `close`, DLPack export |
| `torch_conversions` and plugins | registry of plugins by backend and device | `allocate_tensor_msg`, `from_input_tensor_msg`, `to_tensor_msg`, `validate_view` |

### 1.2 How they interact

A publisher allocates from the pool, takes the write handle, queues kernels,
ends the handle (the *write event* is recorded behind them) and publishes. The
middleware calls `create_descriptor_with_endpoint` once per peer: the block gets
a uid, its event is exported, its socket registered. The subscriber's
`from_descriptor_with_endpoint` maps the block's metadata, counts itself in the
shared refcount, compares the uid, fetches the block over the socket, opens the
event, and wraps everything in a `CudaBuffer` whose deleter takes the count
back. Reads are queued behind a wait for the write event and leave a *read
event* each. A destroyed buffer goes to its process's `BufferRecycler`, which
waits for the events and then calls the deleter: `free` in the publisher, the
count in a subscriber. `allocate` takes a block again when its refcount is 0 and
a grace period since its first publication has passed.

Which peers get a descriptor at all is decided from `HostEndpointManager`, in
which the processes of a host meet. On the Qualcomm side the descriptor holds a
uid, and the subscriber fetches the dma-buf from the publisher's `FdBroker`.

### 1.3 What is hard about it, and what makes it correct

* **Reuse of a block while somebody uses it.** Two processes, no lock, two loads
  in the pool and three steps in the import. Correct when a subscriber that
  counted itself in time keeps its block, when the count is exact on every
  failing path, and when a message about an earlier use is recognised.
* **GPU order.** A call returns long before the GPU gets there. Correct when a
  read waits for the write it is about, when no memory is given back under a
  kernel, when the write handle is not given out over a read.
* **Crashes.** References in shared memory, a held semaphore, entries of dead
  processes. Correct when what is left behind is exactly accounted for.
* **Names and numbers that are used again.** Shared segments, semaphores, file
  descriptors. Correct when nobody uses one after another owner has it.
* **Ends.** Three destructors wait for other threads or processes. Correct when
  what they wait for comes.
* **Integer widths and half-done stores** in the tensor messages. Correct when no
  message, whatever it says of itself, gives a view beyond its bytes, and when a
  message describes the bytes it holds.

`PROJECT.json` lists every hazard at its line, with the properties that cover it
or why none does.

## 2. The modules

| module | models | checked by |
|---|---|---|
| `CudaBlockLifetime` | pool, descriptors, imports, recyclers of both sides, crashes | runs `lifetime_*` |
| `CudaBlockLifetimeProofs` | proofs about it, the refinement of `BlockLease` included | TLAPS |
| `BlockLease` | what the pool and the importing processes promise one another, abstractly | through the next one |
| `CudaBlockLifetimeRefinement`, `MCCudaBlockLifetime` | that `CudaBlockLifetime` implements `BlockLease`; the bound on failures for TLC | run `lifetime_safety` |
| `CudaBufferEvents` | handles, events, GPU streams, `clone`, `resize`, recycler | run `events_copies` |
| `CudaBufferEventsProofs` | proofs about it | TLAPS |
| `CudaBufferOwners`, `MCCudaBufferOwners` | Python's wrappers, who owns a buffer, promotion, exceptions; that they keep the discipline `CudaBufferEvents` takes for granted | run `owners` |
| `CudaBufferOwnersProofs` | proofs about it | TLAPS |
| `PeerDecision` | which peers get a descriptor: discovery, decision cache, devices | run `peer_decisions` |
| `PeerDecisionProofs` | proofs about it | TLAPS |
| `HostEndpointRegistry`, `MCHostEndpointRegistry` | shared registry, its semaphore, their names | run `registry_safety` |
| `PeerRegistry` | what the registry of a host promises those who use it, abstractly | through the next one |
| `HostEndpointRegistryRefinement` | that `HostEndpointRegistry` keeps that promise | run `registry_safety` |
| `HostEndpointRegistryProofs` | proofs about the registry, the refinement included | TLAPS |
| `FdBroker` | dma-buf window, descriptor numbers, connections, destructor | run `broker_window` |
| `FdBrokerProofs` | proofs about it | TLAPS |
| `FdDispatcher` | sockets of the blocks, dispatcher thread, import cache, unload and load of the component | runs `dispatcher_*` |
| `FdDispatcherProofs` | proofs about it | TLAPS |
| `TensorMessage` | tensors in messages, C++ and Python: sizes, views, stores | run `tensor_views` |
| `TensorMessageProofs` | proofs about it | TLAPS |

`CudaBlockLifetime` and `CudaBufferEvents` share `CudaBuffer`: the first takes
from it only what crosses the process boundary (one write, one read, their
events), the second has all of its calls inside one process. `CudaBufferOwners`
is built on an instance of the second: a call of the bindings is a list of its
steps, and that every list keeps to its rules is a refinement
(`ImplementsEvents`). `PeerDecision` sees `HostEndpointRegistry` from a caller's
side: a set of active entries, and calls that may do nothing. `PeerRegistry` is that
side, stated once: `HostEndpointRegistry` implements it and `PeerDecision` uses it,
which are two theorems. `FdDispatcher` is
what lies below `ImportMap` and `ImportFails` of the first, and what happens to
the names of blocks when the component is loaded again.

### 2.1 CudaBlockLifetime

*State.* Per block where it is (`phase`: not created, owned by a `CudaBuffer`,
in the recycler's queue, free in the pool), the number of its latest allocation
(`gen`), its `IPCMetadata` (`refcount`, `uid`, `timestamp`), the state of the
GPU write of that allocation (`write`), of its event (`event`, and whether it was
recorded behind the write), and the write an earlier allocation may have left
running (`stray`). The scan of
`allocate` (`mutex`, `todo`, `candidate`). Per subscription the message it
handles, how far it got (`status`), whether its import has the block's metadata
(`mapped`), what the process's import cache has of either, whether it has the write
event and how far its GPU read is. `inbox` is the middleware: it loses messages and keeps no
order.

*Steps.* One access to state that others can see: `ReadyLoadRefcount` then
`ReadyInGrace` or `Recycle` are `is_block_ready`; `ImportCount`,
`ImportFresh`/`ImportStale`, `ImportMap`/`ImportFails` are `import_block`;
`AssignUid` and `SendDescriptor`/`ExportThrows` are
`create_descriptor_with_endpoint`. `DropOwner`, `Retire` and `DropImport`,
`ReleaseImport` are the destruction of a buffer on either side. Blocks without
metadata (the segment could not be made), without an event, with an event that
cannot be exported, imports that fail on a cache miss, and a subscriber that
dies at any point are all there. So is what the code passes over when it fails: a
subscriber's own `shm_open` or `mmap` (the import, and what its cache entry serves
later, is then neither counted nor compared), `cudaIpcOpenEventHandle` (the read
waits for nothing: `blind`), `cudaEventRecord` behind the write (nobody waits for
it, the recycler neither, and it may still run under the next allocation).

*Abstraction.* A uid is the number of the allocation; the clock is whether the
grace period has passed.

*Assumed.* The publisher's process does not die, a buffer is written before it
is published (README, Usage), streams are usable ones, uids are fresh, blocks
are of one size, one message at a time per subscription and each with its own
import cache, process ids are not used again, one publication per buffer at a
time.

*`pinned`* is history: the subscription counted itself while its message was
current and before `allocate` had loaded the refcount for the next use. That is
exactly the case in which the protocol has promised something.

| property | says |
|---|---|
| `RefcountCountsHolders` | the shared refcount is the imports that have the metadata and are not released, plus those of dead processes |
| `PinnedBlockNotReused` | a pinned block is not handed out again |
| `PinnedReadIsClean` | a kernel on a pinned block reads its allocation, and finished data |
| `UidVerdictIsRight` | with the metadata, the uid check never rejects a pinned block; it lets an old message pass only before the block's next publication |
| `ImplementsLease` | every step is one of leases and pins, or shows nothing of them |
| `DroppedBlockComesBack` | a dropped buffer's block returns to the pool |
| `DestructorEnds` | once no buffer is out, the pool's destructor finds every block ready |
| `RecyclesOnlyUnreferenced`, `LateImportIsDetected` | what the documentation says instead; both are violated (section 4) |

`PinnedReadIsClean` promises finished data where there is an order to wait for: an
event was recorded behind the write, no earlier allocation left a write without one
(`Ordered`), and the subscriber did not fail to open an event that was there
(`blind`). In each of these cases the code goes on and a pinned read may see
unfinished data, which TLC shows when the exception is left out.

*The abstract specification.* `BlockLease` has no counter, uid, timestamp, queue
or lock: a block nobody has pinned is granted to the next allocation, a
subscription pins the present lease, a kernel under a pin starts on whole data,
unless the lease has no order or the pin has gone blind,
and is over when the pin ends, unless its process dies. Under the mapping of
`CudaBlockLifetimeRefinement` a lease is an allocation (`gen`), a subscription
has a pin from an `ImportCount` that was in time until it has left, a block is
whole when its write is done and no earlier one is left, and ordered as above. `Recycle` and `CreateBlock` are `Grant`,
`QueueWrite`, `WriteCompletes` and `StrayCompletes` are `Fill`, an event that is not opened is `GoBlind`, `ImportCount` in time is `Pin`, `ReadStarts` and
`ReadCompletes` on a pinned block are `StartRead` and `EndRead`, the four ways to
give the count back are `Unpin`, `Crash` is `Die`; every other step is a stutter.
It says more than the invariants above: that a pin is taken only of the present
lease, and that no kernel of a live process outlives its pin.

*Runs.* `lifetime_safety`: one block used twice, a subscription in the
publisher's process and one in a process that may die once; of the failures the
code passes over, at most one is in a state at a time (`FewFaults`, since each doubles what
the others can meet; a block without an event counts as one): 2.0 million states. One
block is enough because blocks interact only through the recycler's queue, which
`events_copies` explores (there with every call of the buffers); two allocations give
a message about an earlier use; two subscriptions make counts that are not 0 or 1.
`lifetime_ends`: no crash, because a reference of a dead process keeps the
destructor waiting for ever, which is what the code does; here the failures come in
any number.

*Fairness* (only in `lifetime_ends`): threads inside a call, GPU streams
and the clock go on (weak fairness). `Retire` needs the pool's mutex, which
`allocate` takes again and again; that a waiting thread gets a mutex that is
free infinitely often is the scheduler's part (strong fairness). A subscriber
lets go of its messages. An import goes on except where it waits for a block's
descriptor: `recvmsg` has no timeout, so that wait may never end
(`AwaitsDescriptor`), and `DestructorEnds` is about the behaviours in which each
does. Nothing makes users allocate, publish or read.

### 2.2 CudaBufferEvents

*State.* A stream is the queue of kernels, records, waits and marks the GPU
works off in order; per buffer the state of its handle, whether the write event
exists and was recorded, and the read events; the read handles that are held;
the recycler's queue. `unrecorded` is history: the buffers for which
`cudaEventRecord` failed.

*Steps.* One per call (`GetWriteHandle`, `GetReadHandle`, `Finalize`, the
releases, `Clone`, `Resize`, `Destroy`), `QueueWrite` and `QueueRead` for kernels
launched while a handle is held, `Retire` for the recycler, `StreamStep` for the
GPU. A finalization, whichever call makes it, may fail to record the write event (a
stream of another device) and goes through all the same; a read event may fail to be
made or recorded; `GetReadHandleThrows` is a `cudaStreamWaitEvent` that fails when
the write handle has already been finalized. A call is atomic because what it reads it reads under the handle state's
mutex. The default stream is one on which nothing is recorded or waited for
(`cuda_is_stream_usable`); that the CUDA runtime may order it implicitly is not
relied on. Handles do not outlive their buffer, as the headers demand: `Drop` is
`Destroy` (`~CudaBuffer`) of a buffer no handle is held of, and
`CudaBufferOwners` is about who sees to that.

| property | says |
|---|---|
| `ReadsSeeWrites` | when a read kernel starts, every kernel written through the handle before its finalization is done |
| `FreedMemoryIsIdle` | no kernel an event stands for is queued for freed memory |
| `NoWriteOverReads` | the write handle is not given out over a read that left an event and still runs |
| `DroppedIsFreed` | streams do not wait in a circle and the recycler reaches every buffer |

`ReadsSeeWrites` has four exceptions, and each is a weakness of the protocol
that the model shows when it is left out: a kernel queued through a handle that
was finalized under it, a read handle older than the write handle (the code does
not refuse the write handle then), a buffer without an event, and one whose event
`cudaEventRecord` failed on: the readers' waits and the recycler's return at once.
`FreedMemoryIsIdle` excepts the last two (`Tracked`), and reads without a read event.

*Assumed.* `cudaEventQuery` and `cudaEventSynchronize` fail only when the context is
broken, and then nothing runs any more.

*Run `events_copies`*: two buffers, so that one is the copy of the other, two
usable streams and the default one, one read handle, two kernels, and liveness
(1.1 million states); the GPU and the recycler are fair, users are not. More handles
of one buffer at a time are in the run `owners`, whose steps are the same.

### 2.3 HostEndpointRegistry

*State.* What the two names lead to, every registry and semaphore that was ever
created under them, and per process where it is, which of them it has open, and
its local cache. *Steps* follow the calls of the constructor (`OpenShm`,
`OpenSem`, `Wait`, `Attach`, `Initialise`), of `register_endpoint` (`FindSlot` or
`RegistryFull`, `WriteSlot`, `Registered`), of `refresh_from_remote` (`Copy`,
`Merge`) and of the destructor (`ClearOwn`, `Detach`, `UnlinkShm`, `UnlinkSem`).
`Timeout` is `sem_timedwait` giving up, `Crash` a process killed anywhere. A
critical section is several steps because the semaphore of the name does not
always exclude: two semaphores can guard one registry.

| property | says |
|---|---|
| `SemaphoreAccounted` | a semaphore is free, or held by one process, or lost with one that died |
| `ImplementsPeers` | while a registry is used with one semaphore every step is one of `PeerRegistry`: a registration that returned true stays, entries are taken out only of those who have ended, a refresh misses nobody |
| `CleanExit` | nothing stays in `/dev/shm` after every process has left in order |

*Run `registry_safety`*: three processes (one leaves, one attaches before the
names go, one after), two entries (so a registry is full with a process left),
each name created twice, one crash: 1.4 million states under symmetry.

`PeerRegistry` has who is in a registry, who has ended, and whom each process knows
of; its steps are `Enter`, `Confirm`, `Look`, `End` and `Purge`. The mapping takes
the gids of the active entries for the first, those who have cleared their entry or
died for the second, and for the third the cache with what was copied and is not
merged yet. That a registration sticks (`RegistrationSticks`, proved as
`RegistrationsStick`) follows from it.

*Assumed.* A write of an entry and its copy are whole: two processes in one registry
under different semaphores may overwrite each other's entry, but do not mix two into
one. That happens only where `ImplementsPeers` promises nothing anyway.

### 2.4 FdBroker

*State.* The publisher's table of descriptor numbers, as the kernel fills it
(lowest free number first), the window, the worker, the connection threads, the
destructor, and the subscribers' calls.

*Steps.* `Publish` is `create_descriptor_with_endpoint` with `register_buffer`
under the mutex, eviction included; `WorkerChecks`, `Accept`, `AcceptFails` the
worker loop, which reads `server_fd_` without synchronisation; `RecvFails`,
`Miss`, `Find`, `Send`, `Finish` a connection; `StopRunning` to `TearDown` the
destructor. `dup` and `accept` fail when no number is left. Subscribers are in
other processes and may stop anywhere; the broker's 500 ms timeout is
`RecvFails`.

| property | says |
|---|---|
| `TypeOK` | types, and that `order_` and `table_` agree, within the capacity |
| `FdsAccounted` | every open number has one owner and stands for what the owner believes |
| `MappedIsDescribed` | a subscriber maps the dma-buf its descriptor names |
| `NothingOutlivesBroker` | when the members are destroyed no connection is served and nothing is open |
| `ExitEnds` | the destructor ends whatever the subscribers do |

*Run `broker_window`*: a window of one and two buffers (the second publication
evicts the first), two subscribers, five numbers in all, so the listening
socket, a buffer, the window and one connection fill the table: 1.5 million
states, with liveness. The broker's threads are fair, subscribers are not.

*Assumed.* `start()` succeeded (otherwise nothing is published), no publication
is under way while static objects are destroyed, process ids are not used again.

### 2.5 FdDispatcher

*State.* In the publisher's process the pool's blocks with their `exported_fd`
and segments, `registered_blocks_`, the dispatcher's map and epoll set, its
thread, and the descriptor table, in which other code opens and closes files
too. In one subscriber's process the calls of `import_block`, the import cache
and its mutex. An *epoch* is a load of the component: pool, manager and thread
end with an unload (the comment at `get_dispatcher`, and
`test_ipc_dispatcher_lifetime.cpp`, are about exactly that) and the next load
numbers its blocks from zero again, under the same process id. So names and
cache keys come back and stand for other blocks.

*Steps.* `OpenServer` and `AddSocket` are `register_block`; `RemoveErase` and
`RemoveClose` are the halves of `remove_socket`, between which the thread may
look; `EpollWait`, `Lookup`, `Accept`, `SendFd`, `Finish` are the thread, which
uses what it looked up after it has given `map_mutex_` back. `Drained`,
`CloseBlocks`, the removals, `Stop` and `Join` are `~CudaMemoryPool` and what is
destroyed after it. `Lock`, `Cached`, `OpenSegment`, `Count`, `CheckStale`,
`Connect`, `Receive` are `import_block`, each with its failure. `SendToGone` is
the SIGPIPE of `sendmsg` to a subscriber that died.

| property | says |
|---|---|
| `FdsAccounted` | every open number has one owner and stands for what the owner believes |
| `MappedIsNamed` | an import returns the memory its descriptor names, never that of the same block number in another epoch |
| `NothingOutlivesUnload` | after an unload no thread runs, no number is open, nobody waits |
| `ServedImportsEnd` | a connection on a watched socket is answered or ended |
| `UnloadEnds` | an unload ends, unless a dead process left a reference or a subscriber waits on a socket nobody watches |
| `ConnectionsAreServed` | what the design document says; violated (section 4) |

`MappedIsNamed` excepts an import without metadata (nothing is compared then)
and one that counted itself when the pool had looked at its refcounts for the
last time (`late`, and `lateEntry` for what such a call left in the cache). Both
are windows of the code.

*Run `dispatcher_epochs`*: one block, because blocks share nothing here but the
descriptor table, and the foreign file already competes for that; two calls of
one process, so that one waits for the cache the other holds and one hits what
the other entered; two epochs; four numbers, so that memory, socket, duplicate
and one connection fill the table unless the foreign file has taken a place:
487 000 states, with liveness.

*Fairness.* The thread, a registration, the destructor and the calls of
`import_block` go on, and subscribers drop what they imported. Nothing makes the
component be loaded or unloaded, or a descriptor arrive.

*Assumed.* One pool in the process at a time, the last look of the pool's
destructor at all its blocks is atomic, subscribers have numbers left or fail.
The thread's eventfd only shortens the second `epoll_wait` waits, and is left
out.

### 2.6 TensorMessage

*State.* One message (shape, strides, dtype, offset, size and backend of its
data), the state of its write handle if it is a CUDA buffer, the views of the tensors
that borrow its storage (equal ones count once), the process's language and the plugins it has. `content` is
history: the tensor whose bytes are in the storage, as long as this process
knows.

*Operators.* `ElementCount`, `ContiguousStrides`, `ByteCount`,
`NormalizedStrides`, `Span` and `ValidateView` are the C++ functions, with
`int64_t` up to `IntMax`, `size_t` up to twice that and one, and an exception as a
value; the ones with `Py` are the Python twins, in integers without a bound. A loop
over dimensions is a function of how many of them it has seen (`Products`,
`CheckedProducts`, `Spans`, `Reaches`). `Touched` is the reference: the bytes of a
view, element by element.

*Steps.* `AllocateTensorMsg`, `FromTensorMsg`, `Store`, the same with `Py`, and
`DropView`, in any legal order; `Reads` is a publication, a clone, or an input view
that comes to nothing: each finalizes the write handle under a live writable view, as
an input view does (`cuda_buffer.cpp:142`); `Receive` is a message of which nothing is known.
A call that throws and leaves everything as it was is no step. Stores are the
exception: what a failing one leaves behind is modelled. Backend plugins differ in
what `copy_to` needs (a write handle, once) and in which devices it serves.

| property | says |
|---|---|
| `TypeOK` | types; a write handle is open under a writable view only, and device memory has at most one such view, although its handle may be finalized long before it goes |
| `ViewsInStorage` | no view leaves the storage, however the message's numbers overflow |
| `ChecksAreExact` | both languages refuse exactly what does not fit |
| `StoredIsReadBack` | what is allocated has the bytes its shape needs, after a store the message describes the bytes it holds, at offset 0, and both languages view it |

`ChecksAreExact` excepts C++ with a dimension of 0: `validate_view` ends its loop
there, so that a negative number after it passes (`from_blob` refuses it, but on
CUDA the write handle is spent), and the product of the other dimensions may
overflow. `StoredIsReadBack` excepts stores that threw half way (`half`): C++
copies before it finds a dtype the message cannot name
(`torch_conversions.cpp:436`), Python describes before it finds out that there is
no plugin, no write handle or another device (`_core.py:171`). Each language
checks first what the other checks last.

*Run `tensor_views`*: two dimensions are what an accumulated product or span
needs to overflow at a later step; the numbers have four bits, so `SIZE_MAX` is 15 and
`INT64_MAX` 7, and the lengths 0, 1, 5 and -1 reach either side of each check (four
strides of five wrap to 4); the offsets
reach `SIZE_MAX`. Every such message is tried at three sizes on both backends with
every set of plugins; two different views at a time are enough for a writable one
next to one that reads: 1.2 million states.

*Assumed.* The pool is on device 0, and any device may be the current one, which is
what a CUDA device without an index means; `content` is unknown as soon as a
writable view is out; what Torch itself refuses (negative sizes, an empty
`frombuffer`).

### 2.7 PeerDecision

*State.* Per process its current device and what its endpoint manager took down
once and for all: device, user, whether the pool's blocks can be exported. The
publisher's pool, its copy of the registry (`cache`), its `decision` about each
peer, and its threads inside the plugin, each with the peer its call is about and
what it found (`known`). The registry is the set of its active entries.

*Steps.* `CreateEndpoint` is `on_creating_endpoint` with `get_endpoint_manager`,
whose registration may fail, which nobody looks at. `Discover` and `Publish` begin
`on_discovering_endpoint` and `create_descriptor_with_endpoint`, which go on with
`Refresh` or `RefreshTimesOut`, `Decide` and `Describe`; two threads may be
anywhere in them. `Import` is the peer's look at the device. Around them
`SetDevice`, `Allocate`, the `Exit` of a peer and the `Purge` of what it left.

| property | says |
|---|---|
| `DecisionIsRight` | what is in the decision cache is, and stays, the truth about the peer |
| `AdmittedIsImported` | a descriptor goes only to a peer that can import it, and names its device unless somebody changed device after the endpoints were made |
| `RegisteredIsServed` | a peer gets a descriptor once it is registered, whoever asked about it too early |

*Run `peer_decisions`*: the publisher's own subscription and one peer, two
devices, two users, two threads, one change of device; a second peer would share
nothing with the first but the threads. *Fairness*: a call goes on; the semaphore
is obtained now and then (strong fairness of `Refresh`, since timeouts come in
between); the publisher goes on publishing to every peer whatever its other
threads do. The last is what the comment in the code is about, and nothing makes
a peer register.

*Assumed.* The publisher's own endpoint exists before it discovers anyone, a
process has one endpoint and its gid is not used again, the publisher does not
end. A peer whose registration failed is never served: it does not try again.

### 2.8 CudaBufferOwners

*State.* All of `CudaBufferEvents`, and who refers to each buffer: the user, the
call under way, the wrapper of the write handle, the wrappers of read handles.
The call under way is the list of steps it has left. `copying` is how much of a
stream's queue has to be worked off before the host memory it reads may go, and
`abandoned`, as history, the streams with a transfer whose wait has thrown.

*Steps.* `FromBuffer`, `Promote`, `ToBuffer` and `Close` begin
`from_input_buffer` and `from_output_buffer` (for a CUDA buffer, or another one
that is promoted), `to_buffer`, and `close` or a wrapper that is collected; the
`Call...` steps work the list off, each with its failure: the read handle's
`cudaStreamWaitEvent` and the `cudaStreamSynchronize` at the end may throw, too, with
the transfer still queued. A step that throws
leaves `Unwinding`: the handle, if the call has one already, and the call's
reference. `LetGo` is the user's last reference, and whoever removes the last one
destroys the buffer, whatever handles say: that this is never too early is
`ImplementsEvents`, because `Destroy` of a buffer with an open handle is no step of
`CudaBufferEvents`.

| property | says |
|---|---|
| `OwnersExact` | between calls each open handle has a wrapper that owns its buffer, each wrapper a handle, and nothing is left that nobody refers to |
| `SourceOutlivesCopy` | after a call of the bindings returned, or threw in any step but the wait, no stream reads its host source any more |
| `ImplementsEvents` | every behaviour is one of `CudaBufferEvents` |

*Run `owners`*: one buffer, because a call is about one; a usable stream and the
default one, two read handles, which are symmetric, three kernels, of which a transfer
may be one: 3.1 million states.

`SourceOutlivesCopy` excepts the transfers that `abandoned` names. When the wait for
the write event (`cuda_buffer_py.cpp:226`) or the synchronize (`:166`, `:228`) throws,
the source goes with the exception, and the transfer may still be queued; TLC shows it
when the exception is left out.

*Assumed.* The interpreter's lock is held throughout a call, also while it waits
for the stream. A DLPack capsule is one more reference to a wrapper; argument
checks come before anything changes. Both are left out. No liveness: users need
not let go.

## 3. What is proved

Every theorem is for any values of the constants and needs `ConstantsOK` of its
module alone (`FdDispatcher` has a second assumption, `ObjectsDiffer`).

### 3.1 Blocks: `CudaBlockLifetimeProofs`

For any sets of blocks and subscriptions and any bounds:

| theorem | property |
|---|---|
| `TypeCorrect` | `TypeOK` |
| `RefcountExact` | `RefcountCountsHolders` |
| `NoReuseUnderPin` | `PinnedBlockNotReused` |
| `CleanReads` | `PinnedReadIsClean` |
| `UidVerdict` | `UidVerdictIsRight` |
| `LeaseImplemented` | `ImplementsLease` |

None of the four between the first and the last is inductive. The invariant `IInv` adds what carries them:

* `ScanOK`: outside `allocate` nothing is left to scan; a candidate is one of the
  blocks to scan and has metadata; the blocks to scan are free.
* `QueueOK`: the recycler's queue holds retiring blocks, none twice.
* `RefcountOK`: the exact count; no block has metadata before it exists.
* `MetaOK`: an import or a cache entry has metadata only of blocks that have it, so
  that the reference it gives back is one it took.
* `BlockOK`: how far the uid, the stamp and the write of the block's present
  allocation got; a free block whose event was recorded has no queued write, so that
  no allocation leaves a recorded one behind.
* `MessagesOK`: a descriptor names an allocation that happened, and if that is
  the present one it was written, and for a subscriber in the same process the
  write is done if its event was recorded.
* `PinOK`: a pinned block is of the generation it was counted for and is not the
  candidate.
* `ReadOK`: a pinned reader that no event holds back, and that did not fail to open
  one, has finished data if the event was recorded.

The proof has one step per action and below it one per part the action can
disturb. Every part was checked with TLC, as an invariant of `lifetime_safety`'s
instance, before it was proved. The proof has no bound on failures; only the run has.

The argument for `PinnedBlockNotReused` in a sentence: between the load of the
refcount and the hand-out nobody can be pinned to the candidate, because a pin
needs the count to be taken before the load, and the load saw zero.

`LeaseImplemented` rests on the same invariant: `PinOK` makes each hand-out a
`Grant`, `ReadOK` gives `StartRead` its whole data and `Unpin` its finished
kernels, `MessagesOK` gives `Pin` a lease that was granted. One lemma per kind of
actor (`HandOutGrants`, `PublisherLease`, `SubscriberLease`) maps the steps.

### 3.2 Handles and events: `CudaBufferEventsProofs`

| theorem | property |
|---|---|
| `TypeCorrect` | `TypeOK` |
| `ReadersSeeWrites` | `ReadsSeeWrites` |
| `FreedIsIdle` | `FreedMemoryIsIdle` |
| `WritesAfterReads` | `NoWriteOverReads` |

The invariant is about positions in the streams (`QueueOK`): a queued write stands
before the record of its event or its handle is still in use; a queued read that
has to wait stands behind its `Await` or the record is done; a read whose handle is
gone stands before its mark. `BufferOK` ties `state`, `recorded` and `writer`
together, `RetireOK` has each buffer in the recycler's queue once, `HandleOK` says
what a held read handle was ordered behind. Two facts carry all steps: a call only
adds to the ends of streams (`QueueOKStep`), and when the GPU takes an `Await` off
a stream there is nothing left to wait for (`StreamStepStep`), so that whoever
stood behind it needs it no longer. A record that fails puts the buffer among the
`unrecorded`, and what `QueueOK` says of queued writes is about the `Tracked` buffers.

### 3.3 Owners: `CudaBufferOwnersProofs`

| theorem | property |
|---|---|
| `TypeCorrect` | `TypeOK` |
| `OwnersAreExact` | `OwnersExact` |
| `SourcesOutliveCopies` | `SourceOutlivesCopy` |
| `EventsImplemented` | `ImplementsEvents` |
| `EventTheoremsHold` | `ReadsSeeWrites`, `FreedMemoryIsIdle` and `NoWriteOverReads` of `CudaBufferEvents`, for the bindings' behaviours |

What a call under way has, a reference, a write handle, a read handle, a transfer
to wait for, follows from what is left of its list (`Todos`, and the sets of lists
`WriteOpen`, `ReadOpen`, `Transfers`). `OwnersOK` says so together with
`OwnersExact`: each handle is the call's, by its list, or a wrapper's, and never
both. `Kinds` has for each list its first step and what is left after it, so that a
step of the call moves from one of the sets to another; `Throwing` has the same for
`Unwinding`. The steps that wait (`Waits`) are the throwing ones in which a transfer may be left,
and `AbandonsCopying` puts its stream on the list of `abandoned`. `IInv` contains the invariant of `CudaBufferEvents`, and the lemmas of
its proofs are used by name through an instance (`P`). That a step of the
bindings is one of `CudaBufferEvents` (`NextStep`) and that the invariant is kept are
proved at once, because `Drop` is allowed only when `OwnersOK` leaves no handle
(`DisownStep`). `ConstantsOK` of this module has one assumption more: the names of
owners and of readers differ.

### 3.4 Decisions: `PeerDecisionProofs`

| theorem | property |
|---|---|
| `TypeCorrect` | `TypeOK` |
| `DecisionsAreRight` | `DecisionIsRight` |
| `AdmittedAreImported` | `AdmittedIsImported` |
| `PeersUsed` | `PeerDecision` implements `PeerRegistry` |

`CopiesOK`, `CallsOK` and `InboxOK` say that an entry in the registry, its copy in
the publisher's cache and the copy a thread holds all are what the peer's manager
took down, or nothing. Since a manager never changes, it does not matter how old a
copy is when it is used.

`PeersUsed` closes the gap to the registry's own module: `PeerDecision` implements
`PeerRegistry`, so what it takes for granted of the registry is no more than
`PeersImplemented` (3.5) gives. The contents of an entry are what the manager took
down; `PeerRegistry` has only who is there.

### 3.5 The registry: `HostEndpointRegistryProofs`

| theorem | property |
|---|---|
| `TypeCorrect` | `TypeOK` |
| `SemaphoresAccounted` | `SemaphoreAccounted` |
| `RegistrationsStick` | `RegistrationSticks` |
| `PeersImplemented` | `ImplementsPeers` |
| `KnownPeersAreThere` | whom a process knows of has an entry still, or has ended |
| `NamesGo` | `CleanExit` |

`SemOK` is `SemaphoreAccounted` without cardinalities: at most one process is in a
critical section under a semaphore, and none when it is free or lost. From it, two
processes in a critical section of a registry that was used with one semaphore
(`OneSem`) are the same, so that what was read at the start of the section
(`FoundOK` of the free entry, `InitOK` of the version) is still so at its end.
`EntryOK`, `AskedOK` and `MemberOK` place each entry with its process, `ExitOK` has
the names taken away by the last to leave.

`PeersImplemented` has one lemma per kind of step. `MemberOK` makes `Registered` a
`Confirm`, `FoundOK` makes `WriteSlot` an `Enter` that overwrites nobody, and
`SeenOK`, a second invariant, makes a late initialisation wipe an empty registry and
a copy that has not been merged the only one. It is a theorem about each registry by
itself, up to the moment a second semaphore guards it. `KnownPeersAreThere` is
`PeerRegistry`'s own invariant, by its steps alone.

### 3.6 The broker: `FdBrokerProofs`

| theorem | property |
|---|---|
| `TypeCorrect` | `TypeOK`, with the agreement of `order_` and `table_` |
| `FdsAreAccounted` | `FdsAccounted` |
| `MappingsAreRight` | `MappedIsDescribed` |
| `BrokerOutlivesAll` | `NothingOutlivesBroker` |

`FdOK` is `FdsAccounted` without counting: owners and open numbers are one to one,
and each number stands for what its owner believes. Three lemmas, for a step that
opens a number with its owner, closes one, or hands one over (`Opens`, `Closes`,
`Replaces`), do the descriptor table's part of every action; `WindowGrows` and
`WindowSlides` do the window's. `ConnOK` says which thread of a connection holds
what, and that a reply is the dma-buf that was asked for because the temporary
duplicate is its owner's; `CountOK` has the counter of connections exact, so that
the destructor's wait for zero is a wait for all of them (`ExitOK`).

### 3.7 The dispatcher: `FdDispatcherProofs`

| theorem | property |
|---|---|
| `TypeCorrect` | `TypeOK` |
| `FdsAreAccounted` | `FdsAccounted` |
| `MappedIsTheNamed` | `MappedIsNamed` |
| `NothingIsLeftLoaded` | `NothingOutlivesUnload` |

`OwnedOK` and `InUseOK` are the two directions of `FdsAccounted`: what an owner has
is open and what it should be, what is open has an owner. The thread's numbers are
not among the owned ones, except its connection, since it uses them after it gave
`map_mutex_` back; `WorkOK` says what can have become of them. Either the map still
has the duplicate under the socket's number, or `remove_socket` is between its two
halves for that block, or the pool is being torn down, the number is no listening
socket any more and the duplicate's number stands for no memory. So `accept` finds a
connection only in the first two cases, and what is sent over it is the memory of
the block whose name was connected to, or another file, which CUDA refuses. That no
other block can be
behind the number rests on `PhaseOK`: while `remove_socket` runs nothing is
registered, and the thread is joined before the next load.

`CallOK` has the rest of `MappedIsNamed`: a call that the pool could see when it
counted (`Seen`) keeps the destructor in its loop (`DrainedStep`), so its segment,
the listening socket and the memory are of one epoch, which the uid comparison made
the descriptor's; `CacheOK` has the same of what such calls left in the cache.

Besides `ConstantsOK` the proof uses `ObjectsDiffer`: a closed or a foreign number
does not count as a block's memory, a socket or a connection.

### 3.8 Tensors: `TensorMessageProofs`

| theorem | property |
|---|---|
| `TypeCorrect` | `TypeOK` |
| `ViewsStayInStorage` | `ViewsInStorage` |
| `ChecksExact` | `ChecksAreExact` |
| `StoresAreReadBack` | `StoredIsReadBack` |

For integers of any width, any rank, any dimensions, strides and offsets that fit in
them, and any devices' answers. `ConstantsOK` has what C++ gives: no vector is longer
than `PTRDIFF_MAX`, a message's numbers fit their types; and that a tensor without
elements is not stored, which both functions check first. The run has two dimensions
of four bits.

*Loops.* What a loop over dimensions computes is proved by induction over them,
although the prover cannot instantiate the library's induction theorems. `HasLeast`
gives every nonempty set of numbers a least element, so `Induct` proves that a set is
all of `0..n`: a claim is given to it as the set of numbers for which it holds.
`Recursion` shows by it that a function with a given first value and step exists on
`0..n`, so that the `CHOOSE` behind a recursive function finds it; the `...Unfold`
lemmas (`ProductsUnfold`, `CheckedUnfold`, `SpansUnfold`, `ReachesUnfold`,
`StartsUnfold`) are its instances, and the rest of the proof uses only them.

*Arithmetic.* `TimesIsExact` and `PlusIsExact`: the test before a multiplication or an
addition throws exactly when the result would not fit. `CheckedIsProduct` and
`CheckedPasses` carry that through the loop of `element_count`: without a throw it is
the product, and for positive dimensions it throws only if the product does not fit.

*Views.* `SpanBoundsStarts`: when the loop of `validate_view` does not throw, no
element starts at its span or beyond. `SpanIsReach` and `SpanPasses`: it is Python's
span, and it does not throw if that fits. With `TouchedLast` (the last byte of the
span is touched) this makes both checks exact (`MetadataIsExact`, `ValidIsMetadata`).
The bound is the harder half: it needs that partial spans only grow, and that a
dimension of 0 leaves no element whatever else the message says (`ZeroEmpties`).

*Stores.* `ContiguousReach` and `ContiguousStarts`: a contiguous tensor touches each
of its bytes and none beyond, by a division with remainder in each dimension
(`Digits`). So what is described is what both languages read (`ContiguousIsRead`).

*Invariant.* None of the four but the checks is inductive. `IInv` adds `Fresh`
(before there is a message there is no view and no content), `StoredIs` (a message whose
content is known has the shape, the dtype and the contiguous strides of the content,
at offset 0, and the bytes for it), `AllocatedIs` (an allocated message
is contiguous and has exactly the bytes of its shape) and `Exclusive` (under a writable
view of device memory the write handle is given out, so no second one comes). TLC had checked it on the
run's instance before it was proved.

### 3.9 What is only model-checked

The liveness properties (fairness is out of the prover's reach):
`DroppedBlockComesBack`, `DestructorEnds`, `DroppedIsFreed`, `ExitEnds`,
`ServedImportsEnd`, `UnloadEnds` and `RegisteredIsServed`. Every other property of a
passing run is a theorem.

## 4. Where the code and its documentation disagree

Each has a run that ends in a counterexample.

1. `lifetime_recycle`: the refcount is loaded once per scan; a subscriber that
   counts itself between the loads of `is_block_ready` (`cuda_memory_pool.cpp:176`)
   is passed over, against `cuda_buffer_backend/README.md:334`.
2. `lifetime_late`: `allocate` (`cuda_memory_pool.cpp:152`) leaves the shared uid
   as it was, so a late import is not recognised until the next publication,
   against `cuda_buffer_backend_design.md:130`.
3. `dispatcher_served`: `add_socket` fails without a word
   (`cuda_buffer_ipc_manager.cpp:266`), the descriptor is published all the same,
   and an import that connects waits for ever, with the cache's mutex and its
   reference, so that the publisher's destructor waits too; against
   `cuda_buffer_backend_design.md:35-37`.

Smaller ones, without a run: the names are unlinked after the semaphore was given
back (`host_endpoint_manager.cpp:312`), so that a process can be left in a registry
nobody else can find, where `cuda_buffer_backend_design.md:98` has every process of
the host meet in one; with a stream pointer of 0
the Python functions record no event and wait for none (`cuda_is_stream_usable`,
`cuda_buffer_handle.hpp:39`), where `cuda_buffer_backend/README.md:293-296` promises
both (the Torch plugin maps 0 to `cudaStreamLegacy`, `cuda_conversion_plugin.cpp:187`); `cuda_buffer/__init__.py:64` says that only closing
the write handle finalizes the payload, but a read handle or a publication
finalizes it under the open handle (`cuda_buffer.cpp:142`); the design document's flow chart compares the uid
before it counts (`:112`), the code counts first, which is the order the proof
needs; `CudaBufferDescriptor.msg:25` calls the uid unique per publish, it is per
allocation; `cuda_buffer_backend/README.md:139-142` has write access excluded
after finalization, but a read handle taken before any write handle does not
exclude it; both plugins log "falling back to CPU" where they return an empty
buffer; `QcBufferDescriptor.msg:19` says the subscriber compares `getpid()`, it
does not; `qc_buffer_backend_plugin.cpp:81` keeps a dma-buf "until all subscribers have
taken it", the window evicts it after 64 newer ones; the dispatcher's `sendmsg` (`cuda_buffer_ipc_manager.cpp:376`) does not ask
for `MSG_NOSIGNAL`, so a subscriber that is gone ends the publisher, and the log
line after it is not reached; neither does the `send` of a Qualcomm subscriber
(`qc_buffer_backend_plugin.cpp:158`, `AskTooLate` in `FdBroker`), so a broker that
timed the connection out ends the subscriber, where `qc_buffer_backend_design.md:208`
promises a CPU copy at worst.

Two more that no document mentions: a Python call that throws after it took the
write handle leaves the buffer finalized, and the handle spent for good;
`from_input_buffer` of C++ does not wait for its transfer from the host, as the one
of Python does, so the caller has to keep the source.

## 5. Not modelled

`RpcMemLoader`, competing torch plugins, the vendor packages, tutorials and tests:
see the notes in `PROJECT.json`. Reuse of process ids, more than one size class of
blocks, interrupted system calls and the failure of the GPU itself are left out
everywhere.

Nine hazards of `PROJECT.json` have no property, because no property could hold there.
Four are done by the code: buffers without an order (no event, or one that was not
recorded), the two stores that throw half way, an entry lost under two semaphores. In
two a `SIGPIPE` ends the process, which the models have as a step. Two are outside
what the protocol promises: a descriptor that is published long after the block's
first publication is not protected by the grace period, and two publications of one
buffer at once may draw two uids. The last, the narrowing of a size in `rpcmem_alloc`,
needs a buffer of 2 GiB and lies in a part that keeps no state.

## 6. What could come next

1. Abstract specifications of the two descriptor servers, `FdBroker` and
   `FdDispatcher`: a subscriber gets the memory that was asked for, or nothing.
2. Several plugins for one backend or device in `torch_conversions`.
