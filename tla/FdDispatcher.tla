----------------------------- MODULE FdDispatcher -----------------------------
(***************************************************************************)
(* How a CUDA block gets from its publisher to another process: the pool's *)
(* CudaVmmIPCManager opens a socket per block, the FDDispatcher's thread   *)
(* answers each connection with the block's descriptor, import_block asks  *)
(* for it under the mutex of the import cache.  The publisher's component  *)
(* may be unloaded, which destroys pool, manager and thread, and loaded    *)
(* again in the same process: blocks are then numbered anew from zero, so  *)
(* the names of sockets and segments, and the keys of the subscribers'     *)
(* caches, stand for other blocks.                                         *)
(*                                                                         *)
(* A load of the component is an epoch; it stands for the uids given out   *)
(* in it.  What happens to one block within an epoch is the subject of     *)
(* CudaBlockLifetime.  Descriptor numbers are handed out by the kernel as  *)
(* in FdBroker, lowest free one first.                                     *)
(***************************************************************************)
EXTENDS Naturals, FiniteSets

CONSTANTS
  Block,      \* the block numbers of a pool
  Call,       \* threads of one subscriber process that import a descriptor
  Closed,     \* what a number stands for that is not open
  Foreign,    \* ... that other code of the publisher's process has opened
  NoFd,       \* -1
  NoBlock,    \* no registration, no removal is under way
  NoCall,     \* nobody has the import cache's mutex
  MaxEpoch,   \* bound: how often the component is loaded
  MaxForeign, \* bound: how many files other code has open at a time
  FdLimit     \* RLIMIT_NOFILE, of what is left to these parts

ASSUME ConstantsOK ==
  /\ MaxEpoch \in Nat /\ MaxForeign \in Nat
  /\ FdLimit \in Nat \ {0}
  /\ NoFd \notin 0..(FdLimit - 1)
  /\ NoBlock \notin Block
  /\ NoCall \notin Call
  /\ Closed # Foreign

VARIABLES
  \* the publisher's process
  phase,      \* what becomes of the pool
  epoch,      \* which load of the component it is
  fd,         \* [Fd -> Object] the process's descriptor table
  exported,   \* [Block -> Fd \cup {NoFd}] exported_fd of the blocks that exist
  segment,    \* the blocks whose metadata segment can be opened by name
  published,  \* <<epoch, block>> of the descriptors that are out
  \* CudaVmmIPCManager and FDDispatcher
  server,     \* [Block -> Fd \cup {NoFd}] server_socket of registered_blocks_
  adding,     \* the block between create_fd_server_socket and add_socket
  removing,   \* the block between the two halves of remove_socket
  removedFd,  \* the duped_fd that remove_socket took out of the map
  serves,     \* [Fd -> Fd \cup {NoFd}] socket_to_fd_
  polled,     \* the numbers epoll watches
  running,    \* running_
  worker,     \* where run is
  batch,      \* the events of the last epoll_wait that are still to be handled
  workFd,     \* server_socket of handle_client
  workDup,    \* its fd_to_serve
  workConn,   \* its client_socket
  \* connections, and the subscriber's process
  link,       \* [Call -> LinkStates] the publisher's end of a connection
  reply,      \* [Call -> Object] what came over it
  alive,      \* the subscriber process lives
  holder,     \* who has the import cache's mutex
  call,       \* [Call -> CallStates] where import_block is
  msg,        \* [Call -> <<epoch, block>>] the descriptor it has
  seg,        \* [Call -> Epoch0] the epoch of the segment it has open, 0 for none
  counted,    \* the calls that are in the refcount of that segment
  memory,     \* [Call -> Id] the memory it returned
  cacheMem,   \* [Block -> Id] va of the cache's entries
  cacheSeg,   \* [Block -> Epoch0] its ipc_meta, 0 for nullptr
  leaked,     \* <<epoch, block>> whose refcount a dead process is in
  \* history
  late,       \* the calls that counted when the pool had stopped looking
  lateEntry   \* the cache's entries made by such calls

poolVars   == <<phase, epoch, exported, segment, published>>
serverVars == <<server, adding, removing, removedFd>>
mapVars    == <<serves, polled, running>>
workVars   == <<worker, batch, workFd, workDup, workConn>>
linkVars   == <<link, reply>>
cacheVars  == <<cacheMem, cacheSeg, lateEntry>>
callVars   == <<alive, holder, call, msg, seg, counted, memory, leaked, late>>
publisherVars == <<poolVars, fd, serverVars, mapVars, workVars>>
vars == <<publisherVars, linkVars, cacheVars, callVars>>

-----------------------------------------------------------------------------
Fd     == 0..(FdLimit - 1)
Epoch0 == 0..MaxEpoch
Epoch  == 1..MaxEpoch
FdOrNone == Fd \cup {NoFd}
\* A block of an epoch; NoId is no entry in the cache, or no memory returned.
NoId == <<0, NoBlock>>
Id == (Epoch \X Block) \cup {NoId}

\* What a number stands for.
Memory(i) == <<"memory", i>>
Server(b) == <<"server", b>>
Conn(c)   == <<"conn", c>>
Opened == {Memory(i) : i \in Epoch \X Block} \cup {Server(b) : b \in Block}
          \cup {Conn(c) : c \in Call}
Object == {Closed, Foreign} \cup Opened

ASSUME ObjectsDiffer == Closed \notin Opened /\ Foreign \notin Opened

Phases     == {"unloaded", "loaded", "draining", "drained", "removing", "stopping", "killed"}
WorkerPCs  == {"none", "wait", "batch", "accept", "send", "finish", "ended"}
LinkStates == {"none", "backlog", "accepted"}
CallStates == {"idle", "lock", "find", "open", "check", "connect", "connected",
               "mapped", "done", "dead"}

Free == {n \in Fd : fd[n] = Closed}
Lowest == CHOOSE n \in Free : \A m \in Free : n <= m

EpochOf(c) == msg[c][1]
BlockOf(c) == msg[c][2]

\* The pool sees a reference in the metadata of its block b.
Referenced(b) ==
  \/ \E c \in counted : seg[c] = epoch /\ BlockOf(c) = b
  \/ <<epoch, b>> \in leaked

\* The connections that wait on the number n.
Waiting(n) == {c \in Call : link[c] = "backlog" /\ fd[n] = Server(BlockOf(c))}

-----------------------------------------------------------------------------
Init ==
  /\ phase = "unloaded" /\ epoch = 0
  /\ fd = [n \in Fd |-> Closed]
  /\ exported = [b \in Block |-> NoFd]
  /\ segment = {} /\ published = {}
  /\ server = [b \in Block |-> NoFd]
  /\ adding = NoBlock /\ removing = NoBlock /\ removedFd = NoFd
  /\ serves = [n \in Fd |-> NoFd] /\ polled = {} /\ running = FALSE
  /\ worker = "ended" /\ batch = {}
  /\ workFd = NoFd /\ workDup = NoFd /\ workConn = NoFd
  /\ link = [c \in Call |-> "none"] /\ reply = [c \in Call |-> Closed]
  /\ alive = TRUE /\ holder = NoCall
  /\ call = [c \in Call |-> "idle"]
  /\ msg = [c \in Call |-> NoId]
  /\ seg = [c \in Call |-> 0] /\ counted = {} /\ memory = [c \in Call |-> NoId]
  /\ cacheMem = [b \in Block |-> NoId] /\ cacheSeg = [b \in Block |-> 0]
  /\ leaked = {} /\ late = {} /\ lateEntry = {}

-----------------------------------------------------------------------------
(* The pool and its manager.                                               *)

\* FDDispatcher(): the thread runs, unless epoll or its eventfd failed.
StartDispatcher ==
  \/ running' = TRUE /\ worker' = "wait"
  \/ running' = FALSE /\ worker' = "none"

\* get_or_create_global_pool, CudaVmmIPCManager(), get_dispatcher: the weak cache
\* is empty, since the last manager is gone.
Load ==
  /\ phase = "unloaded" /\ epoch < MaxEpoch
  /\ phase' = "loaded"
  /\ epoch' = epoch + 1
  /\ StartDispatcher
  /\ UNCHANGED <<exported, segment, published, fd, serverVars, serves, polled,
                 batch, workFd, workDup, workConn, linkVars, cacheVars, callVars>>

\* create_block: the memory is exported; its segment may fail.
CreateBlock(b) ==
  /\ phase = "loaded"
  /\ exported[b] = NoFd /\ Free # {}
  /\ fd' = [fd EXCEPT ![Lowest] = Memory(<<epoch, b>>)]
  /\ exported' = [exported EXCEPT ![b] = Lowest]
  /\ segment' \in {segment, segment \cup {b}}
  /\ UNCHANGED <<phase, epoch, published, serverVars, mapVars, workVars,
                 linkVars, cacheVars, callVars>>

\* create_fd_server_socket in register_block; without a number it throws and
\* nothing is published.
OpenServer(b) ==
  /\ phase = "loaded" /\ adding = NoBlock
  /\ exported[b] # NoFd /\ server[b] = NoFd /\ Free # {}
  /\ fd' = [fd EXCEPT ![Lowest] = Server(b)]
  /\ server' = [server EXCEPT ![b] = Lowest]
  /\ adding' = b
  /\ UNCHANGED <<poolVars, removing, removedFd, mapVars, workVars,
                 linkVars, cacheVars, callVars>>

\* Mutant: when epoll refuses the socket the duplicate stays open.
AddSocketKeepsDup ==
  /\ adding # NoBlock
  /\ \/ UNCHANGED <<fd, serves, polled>>
     \/ /\ Free # {}
        /\ fd' = [fd EXCEPT ![Lowest] = fd[exported[adding]]]
        /\ UNCHANGED <<serves, polled>>
  /\ adding' = NoBlock
  /\ UNCHANGED <<poolVars, server, removing, removedFd, running, workVars,
                 linkVars, cacheVars, callVars>>

\* add_socket: dup, the map, epoll_ctl.  When one of them fails, or there is no
\* epoll, nothing is left of it and nobody is told.
AddSocket ==
  /\ adding # NoBlock
  /\ \/ UNCHANGED <<fd, serves, polled>>
     \/ /\ Free # {} /\ worker # "none"
        /\ fd' = [fd EXCEPT ![Lowest] = fd[exported[adding]]]
        /\ serves' = [serves EXCEPT ![server[adding]] = Lowest]
        /\ polled' = polled \cup {server[adding]}
  /\ adding' = NoBlock
  /\ UNCHANGED <<poolVars, server, removing, removedFd, running, workVars,
                 linkVars, cacheVars, callVars>>

\* create_descriptor_with_endpoint, once register_block has returned.
Publish(b) ==
  /\ phase = "loaded"
  /\ server[b] # NoFd /\ adding # b
  /\ <<epoch, b>> \notin published
  /\ published' = published \cup {<<epoch, b>>}
  /\ UNCHANGED <<phase, epoch, exported, segment, fd, serverVars, mapVars,
                 workVars, linkVars, cacheVars, callVars>>

\* The component is unloaded, and no buffer is left: ~CudaMemoryPool begins.
Unload ==
  /\ phase = "loaded" /\ adding = NoBlock
  /\ phase' = "draining"
  /\ UNCHANGED <<epoch, exported, segment, published, fd, serverVars, mapVars,
                 workVars, linkVars, cacheVars, callVars>>

\* Its loop finds every block ready.
Drained ==
  /\ phase = "draining"
  /\ \A b \in Block : ~Referenced(b)
  /\ phase' = "drained"
  /\ UNCHANGED <<epoch, exported, segment, published, fd, serverVars, mapVars,
                 workVars, linkVars, cacheVars, callVars>>

\* The rest of its body: segments are unlinked, exported_fd closed.
CloseBlocks ==
  /\ phase = "drained"
  /\ phase' = "removing"
  /\ segment' = {}
  /\ fd' = [n \in Fd |-> IF \E b \in Block : exported[b] = n THEN Closed ELSE fd[n]]
  /\ exported' = [b \in Block |-> NoFd]
  /\ UNCHANGED <<epoch, published, serverVars, mapVars, workVars,
                 linkVars, cacheVars, callVars>>

\* ~CudaVmmIPCManager calls remove_socket for each block: first the map,
RemoveErase(b) ==
  /\ phase = "removing" /\ removing = NoBlock /\ server[b] # NoFd
  /\ removing' = b
  /\ removedFd' = serves[server[b]]
  /\ serves' = [serves EXCEPT ![server[b]] = NoFd]
  /\ UNCHANGED <<poolVars, fd, server, adding, polled, running, workVars,
                 linkVars, cacheVars, callVars>>

\* then epoll and both numbers.  Closing the socket resets who waits on it.
RemoveClose ==
  /\ removing # NoBlock
  /\ fd' = [n \in Fd |-> IF n \in {server[removing], removedFd} THEN Closed ELSE fd[n]]
  /\ polled' = polled \ {server[removing]}
  /\ link' = [c \in Call |-> IF c \in Waiting(server[removing]) THEN "none" ELSE link[c]]
  /\ server' = [server EXCEPT ![removing] = NoFd]
  /\ removing' = NoBlock /\ removedFd' = NoFd
  /\ UNCHANGED <<poolVars, adding, serves, running, workVars, reply,
                 cacheVars, callVars>>

\* The last owner of the dispatcher goes: stop.
Stop ==
  /\ phase = "removing" /\ \A b \in Block : server[b] = NoFd
  /\ phase' = "stopping"
  /\ running' = FALSE
  /\ UNCHANGED <<epoch, exported, segment, published, fd, serverVars, serves,
                 polled, workVars, linkVars, cacheVars, callVars>>

\* Mutant: the thread is not joined.
Detach ==
  /\ phase = "stopping"
  /\ phase' = "unloaded"
  /\ UNCHANGED <<epoch, exported, segment, published, fd, serverVars, mapVars,
                 workVars, linkVars, cacheVars, callVars>>

\* dispatcher_thread_.join(), when there is a thread.
Join ==
  /\ phase = "stopping" /\ worker \in {"none", "ended"}
  /\ phase' = "unloaded"
  /\ UNCHANGED <<epoch, exported, segment, published, fd, serverVars, mapVars,
                 workVars, linkVars, cacheVars, callVars>>

\* Other code of the process opens and closes files.
ForeignOpens ==
  /\ phase # "killed" /\ Free # {}
  /\ Cardinality({n \in Fd : fd[n] = Foreign}) < MaxForeign
  /\ fd' = [fd EXCEPT ![Lowest] = Foreign]
  /\ UNCHANGED <<poolVars, serverVars, mapVars, workVars, linkVars, cacheVars, callVars>>

ForeignCloses(n) ==
  /\ fd[n] = Foreign
  /\ fd' = [fd EXCEPT ![n] = Closed]
  /\ UNCHANGED <<poolVars, serverVars, mapVars, workVars, linkVars, cacheVars,
                 callVars>>

-----------------------------------------------------------------------------
(* The dispatcher's thread.                                                *)

\* run, top of the loop: running_ is looked at, then epoll_wait reports sockets
\* on which connections wait.  It times out after a second and reports none.
EpollWait ==
  /\ worker = "wait"
  /\ \/ /\ ~running
        /\ worker' = "ended" /\ UNCHANGED batch
     \/ /\ running
        /\ batch' = {n \in polled : Waiting(n) # {}}
        /\ batch' # {}
        /\ worker' = "batch"
  /\ UNCHANGED <<poolVars, fd, serverVars, mapVars, workFd, workDup, workConn,
                 linkVars, cacheVars, callVars>>

\* Mutant: a socket that is gone from the map is served all the same.
LookupUnchecked(n) ==
  /\ worker = "batch" /\ n \in batch
  /\ batch' = batch \ {n}
  /\ worker' = "accept" /\ workFd' = n /\ workDup' = serves[n]
  /\ UNCHANGED <<poolVars, fd, serverVars, mapVars, workConn,
                 linkVars, cacheVars, callVars>>

\* The next event: the map is looked up under map_mutex_, and used after it.
Lookup(n) ==
  /\ worker = "batch" /\ n \in batch
  /\ batch' = batch \ {n}
  /\ IF serves[n] # NoFd
       THEN worker' = "accept" /\ workFd' = n /\ workDup' = serves[n]
       ELSE UNCHANGED <<worker, workFd, workDup>>
  /\ UNCHANGED <<poolVars, fd, serverVars, mapVars, workConn,
                 linkVars, cacheVars, callVars>>

BatchDone ==
  /\ worker = "batch" /\ batch = {}
  /\ worker' = "wait"
  /\ UNCHANGED <<poolVars, fd, serverVars, mapVars, batch, workFd, workDup, workConn,
                 linkVars, cacheVars, callVars>>

\* handle_client: accept, on whatever the number stands for by now.
Accept ==
  /\ worker = "accept"
  /\ IF Waiting(workFd) = {} \/ Free = {}
       THEN /\ worker' = "batch" /\ workFd' = NoFd /\ workDup' = NoFd
            /\ UNCHANGED <<fd, workConn, link>>
       ELSE \E c \in Waiting(workFd) :
            /\ fd' = [fd EXCEPT ![Lowest] = Conn(c)]
            /\ link' = [link EXCEPT ![c] = "accepted"]
            /\ workConn' = Lowest
            /\ worker' = "send"
            /\ UNCHANGED <<workFd, workDup>>
  /\ UNCHANGED <<poolVars, serverVars, mapVars, batch, reply, cacheVars, callVars>>

\* sendmsg refuses a number that was closed (the code logs that) ...
SendFd ==
  /\ worker = "send"
  /\ \E c \in Call :
       /\ fd[workConn] = Conn(c)
       /\ fd[workDup] # Closed => call[c] # "dead"
       /\ reply' = [reply EXCEPT ![c] = fd[workDup]]
  /\ worker' = "finish"
  /\ UNCHANGED <<poolVars, fd, serverVars, mapVars, batch, workFd, workDup,
                 workConn, link, cacheVars, callVars>>

\* ... and raises SIGPIPE when the subscriber is gone, which ends the process.
SendToGone ==
  /\ worker = "send"
  /\ fd[workDup] # Closed
  /\ \E c \in Call : fd[workConn] = Conn(c) /\ call[c] = "dead"
  /\ phase' = "killed"
  /\ fd' = [n \in Fd |-> Closed]
  /\ exported' = [b \in Block |-> NoFd] /\ server' = [b \in Block |-> NoFd]
  /\ serves' = [n \in Fd |-> NoFd] /\ polled' = {}
  /\ adding' = NoBlock /\ removing' = NoBlock /\ removedFd' = NoFd
  /\ worker' = "ended" /\ running' = FALSE /\ batch' = {}
  /\ workFd' = NoFd /\ workDup' = NoFd /\ workConn' = NoFd
  /\ link' = [c \in Call |-> "none"]
  /\ UNCHANGED <<epoch, segment, published, reply, cacheVars, callVars>>

\* Mutant: the connection is kept when nothing could be sent.
FinishSent ==
  /\ worker = "finish"
  /\ \E c \in Call :
       /\ fd[workConn] = Conn(c)
       /\ IF reply[c] = Closed
            THEN UNCHANGED <<fd, link>>
            ELSE /\ fd' = [fd EXCEPT ![workConn] = Closed]
                 /\ link' = [link EXCEPT ![c] = "none"]
  /\ worker' = "batch" /\ workFd' = NoFd /\ workDup' = NoFd /\ workConn' = NoFd
  /\ UNCHANGED <<poolVars, serverVars, mapVars, batch, reply, cacheVars, callVars>>

\* close(client_socket).
Finish ==
  /\ worker = "finish"
  /\ \E c \in Call :
       /\ fd[workConn] = Conn(c)
       /\ fd' = [fd EXCEPT ![workConn] = Closed]
       /\ link' = [link EXCEPT ![c] = "none"]
  /\ worker' = "batch" /\ workFd' = NoFd /\ workDup' = NoFd /\ workConn' = NoFd
  /\ UNCHANGED <<poolVars, serverVars, mapVars, batch, reply, cacheVars, callVars>>

-----------------------------------------------------------------------------
(* The subscriber: import_block and receive_fd_from_socket.                *)

\* The middleware hands a descriptor to from_descriptor_with_endpoint.  It may
\* be one of an earlier epoch, and one may go to several subscriptions.
Arrive(c, i) ==
  /\ alive /\ call[c] = "idle" /\ i \in published
  /\ call' = [call EXCEPT ![c] = "lock"]
  /\ msg' = [msg EXCEPT ![c] = i]
  /\ UNCHANGED <<publisherVars, linkVars, cacheVars, alive, holder, seg, counted,
                 memory, leaked, late>>

\* import_block takes the cache's mutex and keeps it to its end.
Lock(c) ==
  /\ call[c] = "lock" /\ holder = NoCall
  /\ call' = [call EXCEPT ![c] = "find"]
  /\ holder' = c
  /\ UNCHANGED <<publisherVars, linkVars, cacheVars, alive, msg, seg, counted,
                 memory, leaked, late>>

\* Nothing is left of a call: its descriptor, its reference, its connection.
Leave(c) ==
  /\ call' = [call EXCEPT ![c] = "done"]
  /\ msg' = [msg EXCEPT ![c] = NoId]
  /\ seg' = [seg EXCEPT ![c] = 0]
  /\ counted' = counted \ {c}
  /\ late' = late \ {c}
  /\ reply' = [reply EXCEPT ![c] = Closed]

\* import_block throws: the reference is given back, the caller gets an empty buffer.
Fail(c) == Leave(c) /\ holder' = NoCall /\ UNCHANGED memory

\* check_uid_staleness; without metadata there is nothing to compare.
Stale(c, e) == e # 0 /\ e # EpochOf(c)

\* Mutant: a cached block is not checked again.
CachedIsFresh(c) ==
  /\ call[c] = "find" /\ cacheMem[BlockOf(c)] # NoId
  /\ LET e == cacheSeg[BlockOf(c)]
     IN /\ call' = [call EXCEPT ![c] = "mapped"]
        /\ memory' = [memory EXCEPT ![c] = cacheMem[BlockOf(c)]]
        /\ seg' = [seg EXCEPT ![c] = e]
        /\ counted' = IF e = 0 THEN counted ELSE counted \cup {c}
        /\ holder' = NoCall
        /\ late' = IF BlockOf(c) \in lateEntry THEN late \cup {c} ELSE late
  /\ UNCHANGED <<publisherVars, linkVars, cacheVars, alive, msg, leaked>>

\* A cache hit: count in, compare, count out again if the entry is stale.  The
\* reference is in the segment the entry has, which may be of an earlier epoch.
Cached(c) ==
  /\ call[c] = "find" /\ cacheMem[BlockOf(c)] # NoId
  /\ LET e == cacheSeg[BlockOf(c)]
     IN IF Stale(c, e)
          THEN Fail(c)
          ELSE /\ call' = [call EXCEPT ![c] = "mapped"]
               /\ memory' = [memory EXCEPT ![c] = cacheMem[BlockOf(c)]]
               /\ seg' = [seg EXCEPT ![c] = e]
               /\ counted' = IF e = 0 THEN counted ELSE counted \cup {c}
               /\ holder' = NoCall
               /\ late' = IF BlockOf(c) \in lateEntry THEN late \cup {c} ELSE late
               /\ UNCHANGED <<msg, reply>>
  /\ UNCHANGED <<publisherVars, link, cacheVars, alive, leaked>>

\* A miss: shm_open by the block's name, which may fail.
OpenSegment(c) ==
  /\ call[c] = "find" /\ cacheMem[BlockOf(c)] = NoId
  /\ call' = [call EXCEPT ![c] = "open"]
  /\ \E e \in IF BlockOf(c) \in segment THEN {0, epoch} ELSE {0} :
       seg' = [seg EXCEPT ![c] = e]
  /\ UNCHANGED <<publisherVars, linkVars, cacheVars, alive, holder, msg, counted,
                 memory, leaked, late>>

\* The pool of the segment still looks at its refcounts.
Watched(e) == e = epoch /\ phase \in {"loaded", "draining"}

Count(c) ==
  /\ call[c] = "open"
  /\ call' = [call EXCEPT ![c] = "check"]
  /\ counted' = IF seg[c] = 0 THEN counted ELSE counted \cup {c}
  /\ late' = IF seg[c] # 0 /\ ~Watched(seg[c]) THEN late \cup {c} ELSE late
  /\ UNCHANGED <<publisherVars, linkVars, cacheVars, alive, holder, msg, seg,
                 memory, leaked>>

CheckStale(c) ==
  /\ call[c] = "check"
  /\ IF Stale(c, seg[c])
       THEN Fail(c)
       ELSE /\ call' = [call EXCEPT ![c] = "connect"]
            /\ UNCHANGED <<counted, seg, holder, msg, memory, late, reply>>
  /\ UNCHANGED <<publisherVars, link, cacheVars, alive, leaked>>

\* connect to the socket of the block's name.
Connect(c) ==
  /\ call[c] = "connect"
  /\ \E n \in Fd : fd[n] = Server(BlockOf(c))
  /\ call' = [call EXCEPT ![c] = "connected"]
  /\ link' = [link EXCEPT ![c] = "backlog"]
  /\ UNCHANGED <<publisherVars, reply, cacheVars, alive, holder, msg, seg, counted,
                 memory, leaked, late>>

\* Nobody listens, or this process has no number left.
ConnectFails(c) ==
  /\ call[c] = "connect"
  /\ Fail(c)
  /\ UNCHANGED <<publisherVars, link, cacheVars, alive, leaked>>

\* recvmsg delivers a descriptor of memory, which is mapped and enters the cache.
Receive(c) ==
  /\ call[c] = "connected"
  /\ \E i \in Epoch \X Block :
       /\ reply[c] = Memory(i)
       /\ memory' = [memory EXCEPT ![c] = i]
       /\ cacheMem' = [cacheMem EXCEPT ![BlockOf(c)] = i]
  /\ cacheSeg' = [cacheSeg EXCEPT ![BlockOf(c)] = seg[c]]
  /\ lateEntry' = IF c \in late THEN lateEntry \cup {BlockOf(c)} ELSE lateEntry
  /\ call' = [call EXCEPT ![c] = "mapped"]
  /\ holder' = NoCall
  /\ UNCHANGED <<publisherVars, linkVars, alive, msg, seg, counted, leaked, late>>

\* Mutant: cleanup_failed_import unmaps the metadata and forgets the refcount.
ReceiveFailsCounted(c) ==
  /\ call[c] = "connected"
  /\ reply[c] # Closed \/ link[c] = "none"
  /\ call' = [call EXCEPT ![c] = "done"]
  /\ holder' = NoCall
  /\ UNCHANGED <<publisherVars, linkVars, cacheVars, alive, msg, seg, counted, memory,
                 leaked, late>>

\* The connection ends without a descriptor, or CUDA refuses what came: a file
\* that is no memory, or the import, the reservation, the mapping fails.
ReceiveFails(c) ==
  /\ call[c] = "connected"
  /\ reply[c] # Closed \/ link[c] = "none"
  /\ Fail(c)
  /\ UNCHANGED <<publisherVars, link, cacheVars, alive, leaked>>

\* The imported buffer is dropped and its reference given back.
Drop(c) ==
  /\ call[c] = "mapped"
  /\ Leave(c)
  /\ memory' = [memory EXCEPT ![c] = NoId]
  /\ UNCHANGED <<publisherVars, link, cacheVars, alive, holder, leaked>>

\* The subscriber's process dies, with its cache and its ends of connections.
Die ==
  /\ alive
  /\ alive' = FALSE
  /\ call' = [c \in Call |-> "dead"]
  /\ leaked' = leaked \cup {<<seg[c], BlockOf(c)>> : c \in counted}
  /\ counted' = {} /\ seg' = [c \in Call |-> 0] /\ holder' = NoCall
  /\ memory' = [c \in Call |-> NoId] /\ late' = {} /\ lateEntry' = {}
  /\ cacheMem' = [b \in Block |-> NoId] /\ cacheSeg' = [b \in Block |-> 0]
  /\ reply' = [c \in Call |-> Closed]
  /\ UNCHANGED <<publisherVars, link, msg>>

-----------------------------------------------------------------------------
Publisher ==
  \/ Load \/ AddSocket \/ Unload \/ Drained \/ CloseBlocks \/ RemoveClose
  \/ Stop \/ Join \/ ForeignOpens
  \/ \E b \in Block : CreateBlock(b) \/ OpenServer(b) \/ Publish(b) \/ RemoveErase(b)
  \/ \E n \in Fd : ForeignCloses(n)

Worker ==
  \/ EpollWait \/ BatchDone \/ Accept \/ SendFd \/ SendToGone \/ Finish
  \/ \E n \in Fd : Lookup(n)

CallStep(c) ==
  \/ Lock(c) \/ Cached(c) \/ OpenSegment(c) \/ Count(c) \/ CheckStale(c)
  \/ Connect(c) \/ ConnectFails(c) \/ Receive(c) \/ ReceiveFails(c) \/ Drop(c)

Next ==
  \/ Publisher \/ Worker \/ Die
  \/ \E c \in Call : CallStep(c) \/ \E i \in Id : Arrive(c, i)

Spec == Init /\ [][Next]_vars

\* Threads inside a call go on, and subscribers drop what they imported.  Nothing
\* makes the component be loaded or unloaded, or descriptors arrive.
DestructorStep == Drained \/ CloseBlocks \/ RemoveClose \/ Stop \/ Join
                  \/ \E b \in Block : RemoveErase(b)
FairSpec ==
  /\ Spec
  /\ WF_vars(Worker) /\ WF_vars(AddSocket) /\ WF_vars(DestructorStep)
  /\ \A c \in Call : WF_vars(CallStep(c))

-----------------------------------------------------------------------------
\* The types, and that the thread never holds a number it did not look up.
TypeOK ==
  /\ phase \in Phases /\ epoch \in Epoch0
  /\ fd \in [Fd -> Object]
  /\ exported \in [Block -> FdOrNone] /\ server \in [Block -> FdOrNone]
  /\ segment \subseteq Block /\ published \subseteq Epoch \X Block
  /\ adding \in Block \cup {NoBlock} /\ removing \in Block \cup {NoBlock}
  /\ removedFd \in FdOrNone
  /\ serves \in [Fd -> FdOrNone] /\ polled \subseteq Fd /\ running \in BOOLEAN
  /\ worker \in WorkerPCs /\ batch \subseteq Fd
  /\ workFd \in FdOrNone /\ workDup \in FdOrNone /\ workConn \in FdOrNone
  /\ worker \in {"accept", "send", "finish"} => NoFd \notin {workFd, workDup}
  /\ worker \in {"send", "finish"} => workConn \in Fd
  /\ link \in [Call -> LinkStates] /\ reply \in [Call -> Object]
  /\ alive \in BOOLEAN /\ holder \in Call \cup {NoCall}
  /\ call \in [Call -> CallStates] /\ msg \in [Call -> Id] /\ memory \in [Call -> Id]
  /\ seg \in [Call -> Epoch0] /\ counted \subseteq Call
  /\ cacheMem \in [Block -> Id] /\ cacheSeg \in [Block -> Epoch0]
  /\ leaked \subseteq Epoch \X Block /\ late \subseteq Call /\ lateEntry \subseteq Block

\* Every open number of the process has one owner and stands for what the owner
\* believes: a block its memory, the manager its socket, the map the memory of
\* the block whose socket is its key, the thread its connection.
Owner(n) ==
  {<<"block", b>> : b \in {b \in Block : exported[b] = n}} \cup
  {<<"manager", b>> : b \in {b \in Block : server[b] = n}} \cup
  {<<"map", s>> : s \in {s \in Fd : serves[s] = n}} \cup
  (IF removedFd = n THEN {"remove_socket"} ELSE {}) \cup
  (IF workConn = n THEN {"thread"} ELSE {}) \cup
  (IF fd[n] = Foreign THEN {"other"} ELSE {})
FdsAccounted ==
  /\ \A n \in Fd : Cardinality(Owner(n)) = IF fd[n] = Closed THEN 0 ELSE 1
  /\ \A b \in Block :
       /\ exported[b] # NoFd => fd[exported[b]] = Memory(<<epoch, b>>)
       /\ server[b] # NoFd =>
            /\ fd[server[b]] = Server(b)
            /\ serves[server[b]] # NoFd => fd[serves[server[b]]] = Memory(<<epoch, b>>)

\* A call whose reference the pool could see when it was torn down returns the
\* memory its descriptor names, and never that of the same block number in another
\* epoch, whatever the cache holds and whoever listens on the name by now.
MappedIsNamed ==
  \A c \in Call : call[c] = "mapped" /\ seg[c] # 0 /\ c \notin late => memory[c] = msg[c]

\* The comment at get_dispatcher: "a weak cache lets the last manager stop and join
\* the worker before that library can be unloaded".  Then nothing runs, no number
\* of these parts is open and nobody is left in a backlog.
NothingOutlivesUnload ==
  phase = "unloaded" =>
    /\ worker \in {"none", "ended"} /\ polled = {}
    /\ \A n \in Fd : fd[n] \in {Closed, Foreign}
    /\ \A c \in Call : link[c] = "none"

\* A connection is answered or ended, if epoll watches its socket, or nothing
\* listens any more, and the process has a number left to accept it with.
Watches(c) == link[c] = "backlog" => \E n \in polled : c \in Waiting(n)
ServedImportsEnd ==
  \A c \in Call :
    call[c] = "connected" /\ Watches(c) ~> (call[c] # "connected" \/ Free = {})

\* ~CudaMemoryPool and what follows it end, unless a dead process left a reference,
\* or a subscriber waits for a connection nobody can accept.
UnloadEnds ==
  phase = "draining" ~>
    \/ phase \in {"unloaded", "killed"}
    \/ leaked # {} \/ Free = {}
    \/ \E c \in Call : call[c] = "connected" /\ ~Watches(c)

\* Design document: CudaVmmIPCManager "listens on per-block Unix-domain sockets and
\* serves the exported VMM FD via SCM_RIGHTS when a subscriber connects".
ConnectionsAreServed == \A c \in Call : call[c] = "connected" ~> call[c] # "connected"
=============================================================================
