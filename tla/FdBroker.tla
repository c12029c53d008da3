------------------------------- MODULE FdBroker -------------------------------
(***************************************************************************)
(* The FdBroker of a publisher process of the Qualcomm backend and the     *)
(* subscribers that fetch dma-bufs from it: allocation and publication of  *)
(* buffers, the window of duplicated descriptors, the worker thread, one   *)
(* detached thread per connection, and the destructor at process exit.     *)
(*                                                                         *)
(* File descriptors are modelled as the kernel hands them out: a table of  *)
(* small numbers in which open and dup take the lowest free one, so that a *)
(* number that was closed too early soon stands for something else.  What  *)
(* a number stands for is the listening socket, a connection, or the       *)
(* dma-buf of an allocation, which is its uid.                             *)
(***************************************************************************)
EXTENDS Naturals, Sequences, FiniteSets

CONSTANTS
  Conn,      \* calls of from_descriptor_with_endpoint in other processes
  Listen,    \* the broker's listening socket
  Closed,    \* what a number stands for that is not open
  NoFd,      \* -1
  NoReply,   \* nothing was sent on the connection
  StatusMiss,\* kStatusMiss was
  Capacity,  \* kCapacity
  MaxUid,    \* bound: how many buffers are allocated
  FdLimit    \* RLIMIT_NOFILE, of what the broker has to itself

ASSUME ConstantsOK ==
  /\ Capacity \in Nat \ {0}
  /\ MaxUid \in Nat
  /\ FdLimit \in Nat \ {0}
  /\ Closed # Listen /\ NoReply # StatusMiss
  /\ {Listen, Closed, NoReply, StatusMiss} \cap (Conn \cup 1..MaxUid) = {}
  /\ NoFd \notin 0..(FdLimit - 1)

VARIABLES
  fd,         \* [Fd -> Object] the publisher process's descriptor table
  nextUid,    \* counter of next_uid()
  buffer,     \* [Uid -> Fd \cup {NoFd}] fd_ of the live QcBuffers
  published,  \* the uids a descriptor went out for
  \* FdBroker
  table,      \* [Uid -> Fd \cup {NoFd}] dup_fd of table_
  order,      \* order_
  running,    \* running_
  serverFd,   \* server_fd_
  active,     \* active_connections_
  worker,     \* where worker_loop is
  acceptFd,   \* the number it called accept with
  exit,       \* where ~FdBroker is
  handler,    \* [Conn -> HandlerPCs] the publisher's end of a connection
  connFd,     \* [Conn -> Fd \cup {NoFd}] its conn_fd
  tmpFd,      \* [Conn -> Fd \cup {NoFd}] its tmp_fd
  \* the subscriber's end
  client,     \* [Conn -> ClientPCs]
  want,       \* [Conn -> Uid \cup {0}] the uid in its descriptor
  sent,       \* the connections the uid was sent on
  reply       \* [Conn -> what the broker sent]

fdVars     == <<fd>>
bufferVars == <<nextUid, buffer, published>>
windowVars == <<table, order>>
serverVars == <<running, serverFd, worker, acceptFd, exit>>
connVars   == <<active, handler, connFd, tmpFd>>
clientVars == <<client, want, sent, reply>>
vars == <<fdVars, bufferVars, windowVars, serverVars, connVars, clientVars>>

-----------------------------------------------------------------------------
Uid == 1..MaxUid
Fd  == 0..(FdLimit - 1)

HandlerPCs == {"none", "backlog", "recv", "send", "finish", "done"}
ClientPCs  == {"idle", "connected", "asked", "mapped", "empty", "killed"}
Serving    == {"recv", "send", "finish"}

Free == {n \in Fd : fd[n] = Closed}
\* The number open, dup and accept return, when there is one.
Lowest == CHOOSE n \in Free : \A m \in Free : n <= m

\* The broker's socket takes connections.
Listening == \E n \in Fd : fd[n] = Listen

Registered(u) == table[u] # NoFd

-----------------------------------------------------------------------------
\* start() has succeeded; a broker that did not start publishes nothing.
Init ==
  /\ fd = [n \in Fd |-> IF n = 0 THEN Listen ELSE Closed]
  /\ nextUid = 1
  /\ buffer = [u \in Uid |-> NoFd]
  /\ published = {}
  /\ table = [u \in Uid |-> NoFd]
  /\ order = <<>>
  /\ running = TRUE
  /\ serverFd = 0
  /\ active = 0
  /\ worker = "check"
  /\ acceptFd = NoFd
  /\ exit = "no"
  /\ handler = [c \in Conn |-> "none"]
  /\ connFd = [c \in Conn |-> NoFd]
  /\ tmpFd = [c \in Conn |-> NoFd]
  /\ client = [c \in Conn |-> "idle"]
  /\ want = [c \in Conn |-> 0]
  /\ sent = {}
  /\ reply = [c \in Conn |-> NoReply]

-----------------------------------------------------------------------------
(* The publisher's buffers.                                                *)

\* QcBuffer(byte_size): rpcmem_alloc and rpcmem_to_fd open a dma-buf.
Allocate ==
  /\ exit = "no"
  /\ nextUid <= MaxUid
  /\ Free # {}
  /\ fd' = [fd EXCEPT ![Lowest] = nextUid]
  /\ buffer' = [buffer EXCEPT ![nextUid] = Lowest]
  /\ nextUid' = nextUid + 1
  /\ UNCHANGED <<published, windowVars, serverVars, connVars, clientVars>>

\* The window takes u in and lets the oldest go when it is over capacity.  The
\* number for u is taken before the oldest is closed.
Insert(u) ==
  LET evicted == Head(order)
  IN IF Len(order) < Capacity
       THEN /\ table' = [table EXCEPT ![u] = Lowest]
            /\ order' = Append(order, u)
            /\ fd' = [fd EXCEPT ![Lowest] = fd[buffer[u]]]
       ELSE /\ table' = [table EXCEPT ![u] = Lowest, ![evicted] = NoFd]
            /\ order' = Append(Tail(order), u)
            /\ fd' = [fd EXCEPT ![Lowest] = fd[buffer[u]], ![table[evicted]] = Closed]

\* Mutant: register_buffer does not look whether it has the uid already.
PublishAgain(u) ==
  /\ exit = "no" /\ running
  /\ buffer[u] # NoFd
  /\ published' = published \cup {u}
  /\ IF Free = {}
       THEN UNCHANGED <<fdVars, windowVars>>
       ELSE Insert(u)
  /\ UNCHANGED <<nextUid, buffer, serverVars, connVars, clientVars>>

\* create_descriptor_with_endpoint and register_buffer, under mutex_.  When dup
\* fails the descriptor goes out all the same.
Publish(u) ==
  /\ exit = "no" /\ running
  /\ buffer[u] # NoFd
  /\ published' = published \cup {u}
  /\ IF Registered(u) \/ Free = {}
       THEN UNCHANGED <<fdVars, windowVars>>
       ELSE Insert(u)
  /\ UNCHANGED <<nextUid, buffer, serverVars, connVars, clientVars>>

\* ~QcBuffer: rpcmem_free closes the dma-buf's first descriptor.
Release(u) ==
  /\ buffer[u] # NoFd
  /\ fd' = [fd EXCEPT ![buffer[u]] = Closed]
  /\ buffer' = [buffer EXCEPT ![u] = NoFd]
  /\ UNCHANGED <<nextUid, published, windowVars, serverVars, connVars, clientVars>>

-----------------------------------------------------------------------------
(* worker_loop.                                                            *)

\* The loop's condition; then server_fd_ is read for the call of accept.  That
\* read is not synchronised with the destructor's write.
WorkerChecks ==
  /\ worker = "check"
  /\ worker' = IF running THEN "accept" ELSE "ended"
  /\ acceptFd' = IF running THEN serverFd ELSE NoFd
  /\ UNCHANGED <<fdVars, bufferVars, windowVars, running, serverFd, exit, connVars, clientVars>>

\* The number still stands for the listening socket.
AcceptsOnListen == acceptFd # NoFd /\ fd[acceptFd] = Listen

\* accept, the counter, and a detached thread for the connection.
Accept(c) ==
  /\ worker = "accept" /\ AcceptsOnListen
  /\ handler[c] = "backlog"
  /\ Free # {}
  /\ fd' = [fd EXCEPT ![Lowest] = c]
  /\ connFd' = [connFd EXCEPT ![c] = Lowest]
  /\ active' = active + 1
  /\ handler' = [handler EXCEPT ![c] = "recv"]
  /\ worker' = "check"
  /\ acceptFd' = NoFd
  /\ UNCHANGED <<bufferVars, windowVars, running, serverFd, exit, tmpFd, clientVars>>

\* accept fails: shut down, closed, the number of something else, or no number
\* is left for the connection.
AcceptFails ==
  /\ worker = "accept"
  /\ ~AcceptsOnListen \/ Free = {}
  /\ worker' = IF running THEN "check" ELSE "ended"
  /\ acceptFd' = NoFd
  /\ UNCHANGED <<fdVars, bufferVars, windowVars, running, serverFd, exit, connVars, clientVars>>

-----------------------------------------------------------------------------
(* handle_connection.                                                      *)

\* Mutant: the request has no timeout.
RecvWaits(c) ==
  /\ handler[c] = "recv"
  /\ c \notin sent /\ client[c] # "connected"
  /\ handler' = [handler EXCEPT ![c] = "finish"]
  /\ UNCHANGED <<fdVars, bufferVars, windowVars, serverVars, active, connFd, tmpFd, clientVars>>

\* The request does not come within 500 ms, or the subscriber has closed.
RecvFails(c) ==
  /\ handler[c] = "recv"
  /\ c \notin sent
  /\ handler' = [handler EXCEPT ![c] = "finish"]
  /\ UNCHANGED <<fdVars, bufferVars, windowVars, serverVars, active, connFd, tmpFd, clientVars>>

\* The request is read.  Under mutex_: the uid has left the window, or its descriptor cannot be duplicated.
Miss(c) ==
  /\ handler[c] = "recv" /\ c \in sent
  /\ ~Registered(want[c]) \/ Free = {}
  /\ reply' = [reply EXCEPT ![c] = StatusMiss]
  /\ handler' = [handler EXCEPT ![c] = "finish"]
  /\ UNCHANGED <<fdVars, bufferVars, windowVars, serverVars, active, connFd, tmpFd,
                 client, want, sent>>

\* Mutant: the table's own descriptor is sent, after the unlock.
FindBorrows(c) ==
  /\ handler[c] = "recv" /\ c \in sent
  /\ Registered(want[c]) /\ Free # {}
  /\ tmpFd' = [tmpFd EXCEPT ![c] = table[want[c]]]
  /\ handler' = [handler EXCEPT ![c] = "send"]
  /\ UNCHANGED <<fdVars, bufferVars, windowVars, serverVars, active, connFd, clientVars>>

\* The request is read.  Under mutex_: the descriptor is duplicated.
Find(c) ==
  /\ handler[c] = "recv" /\ c \in sent
  /\ Registered(want[c]) /\ Free # {}
  /\ tmpFd' = [tmpFd EXCEPT ![c] = Lowest]
  /\ fd' = [fd EXCEPT ![Lowest] = fd[table[want[c]]]]
  /\ handler' = [handler EXCEPT ![c] = "send"]
  /\ UNCHANGED <<bufferVars, windowVars, serverVars, active, connFd, clientVars>>

\* sendmsg passes what the number stands for now; nobody may be left to get it.
Send(c) ==
  /\ handler[c] = "send"
  /\ reply' = [reply EXCEPT ![c] = fd[tmpFd[c]]]
  /\ handler' = [handler EXCEPT ![c] = "finish"]
  /\ UNCHANGED <<fdVars, bufferVars, windowVars, serverVars, active, connFd, tmpFd,
                 client, want, sent>>

\* Mutant: tmp_fd stays open.
FinishKeepsTmp(c) ==
  /\ handler[c] = "finish"
  /\ fd' = [fd EXCEPT ![connFd[c]] = Closed]
  /\ connFd' = [connFd EXCEPT ![c] = NoFd]
  /\ tmpFd' = [tmpFd EXCEPT ![c] = NoFd]
  /\ active' = active - 1
  /\ handler' = [handler EXCEPT ![c] = "done"]
  /\ UNCHANGED <<bufferVars, windowVars, serverVars, clientVars>>

\* What every way out of handle_connection ends with.
Finish(c) ==
  /\ handler[c] = "finish"
  /\ fd' = [n \in Fd |-> IF n \in {connFd[c], tmpFd[c]} THEN Closed ELSE fd[n]]
  /\ connFd' = [connFd EXCEPT ![c] = NoFd]
  /\ tmpFd' = [tmpFd EXCEPT ![c] = NoFd]
  /\ active' = active - 1
  /\ handler' = [handler EXCEPT ![c] = "done"]
  /\ UNCHANGED <<bufferVars, windowVars, serverVars, clientVars>>

-----------------------------------------------------------------------------
(* ~FdBroker, when the process exits.  Its steps interleave with the worker *)
(* and with the connections; no publication is under way any more.          *)

StopRunning ==
  /\ exit = "no"
  /\ running' = FALSE
  /\ exit' = "stopped"
  /\ UNCHANGED <<fdVars, bufferVars, windowVars, serverFd, worker, acceptFd, connVars, clientVars>>

\* shutdown and close; connections that wait to be accepted are reset.
CloseServer ==
  /\ exit = "stopped"
  /\ fd' = [fd EXCEPT ![serverFd] = Closed]
  /\ handler' = [c \in Conn |-> IF handler[c] = "backlog" THEN "done" ELSE handler[c]]
  /\ exit' = "closed"
  /\ UNCHANGED <<bufferVars, windowVars, running, serverFd, worker, acceptFd, active,
                 connFd, tmpFd, clientVars>>

\* server_fd_ = -1, and the name is unlinked.
ForgetServer ==
  /\ exit = "closed"
  /\ serverFd' = NoFd
  /\ exit' = "unlinked"
  /\ UNCHANGED <<fdVars, bufferVars, windowVars, running, worker, acceptFd, connVars, clientVars>>

JoinWorker ==
  /\ exit = "unlinked"
  /\ worker = "ended"
  /\ exit' = "joined"
  /\ UNCHANGED <<fdVars, bufferVars, windowVars, running, serverFd, worker, acceptFd,
                 connVars, clientVars>>

\* Mutant: the destructor does not wait for the connections.
TearDownAtOnce ==
  /\ exit = "joined"
  /\ fd' = [n \in Fd |-> IF \E u \in Uid : table[u] = n THEN Closed ELSE fd[n]]
  /\ table' = [u \in Uid |-> NoFd]
  /\ order' = <<>>
  /\ exit' = "gone"
  /\ UNCHANGED <<bufferVars, running, serverFd, worker, acceptFd, connVars, clientVars>>

\* The connections are over: the window's descriptors are closed.
TearDown ==
  /\ exit = "joined"
  /\ active = 0
  /\ fd' = [n \in Fd |-> IF \E u \in Uid : table[u] = n THEN Closed ELSE fd[n]]
  /\ table' = [u \in Uid |-> NoFd]
  /\ order' = <<>>
  /\ exit' = "gone"
  /\ UNCHANGED <<bufferVars, running, serverFd, worker, acceptFd, connVars, clientVars>>

-----------------------------------------------------------------------------
(* from_descriptor_with_endpoint in a subscriber.                          *)

\* A subscriber takes up a descriptor that was published some time ago.  When nobody
\* listens it comes back with an empty buffer and nothing has changed.
Connect(c, u) ==
  /\ client[c] = "idle"
  /\ u \in published
  /\ Listening
  /\ want' = [want EXCEPT ![c] = u]
  /\ client' = [client EXCEPT ![c] = "connected"]
  /\ handler' = [handler EXCEPT ![c] = "backlog"]
  /\ UNCHANGED <<fdVars, bufferVars, windowVars, serverVars, active, connFd, tmpFd, sent, reply>>

\* send(sock, &uid, sizeof(uid), 0).
Ask(c) ==
  /\ client[c] = "connected"
  /\ handler[c] \in {"backlog"} \cup Serving
  /\ client' = [client EXCEPT ![c] = "asked"]
  /\ sent' = sent \cup {c}
  /\ UNCHANGED <<fdVars, bufferVars, windowVars, serverVars, connVars, want, reply>>

\* The same on a connection whose other end is closed: the call raises SIGPIPE,
\* which it does not ask to suppress, and the process ends.
AskTooLate(c) ==
  /\ client[c] = "connected"
  /\ handler[c] = "done"
  /\ client' = [client EXCEPT ![c] = "killed"]
  /\ UNCHANGED <<fdVars, bufferVars, windowVars, serverVars, connVars, want, sent, reply>>

\* The descriptor arrives and is mapped.
Map(c) ==
  /\ client[c] = "asked"
  /\ reply[c] \notin {NoReply, StatusMiss}
  /\ client' = [client EXCEPT ![c] = "mapped"]
  /\ UNCHANGED <<fdVars, bufferVars, windowVars, serverVars, connVars, want, sent, reply>>

\* An empty buffer: a miss, no answer within 500 ms, the connection is closed, the
\* descriptor is dropped by the kernel, or mmap fails and closes it.
ComeBackEmpty(c) ==
  /\ client[c] = "asked"
  /\ client' = [client EXCEPT ![c] = "empty"]
  /\ UNCHANGED <<fdVars, bufferVars, windowVars, serverVars, connVars, want, sent, reply>>

-----------------------------------------------------------------------------
Worker == WorkerChecks \/ AcceptFails \/ \E c \in Conn : Accept(c)
Handler(c) == RecvFails(c) \/ Miss(c) \/ Find(c) \/ Send(c) \/ Finish(c)
Destructor == CloseServer \/ ForgetServer \/ JoinWorker \/ TearDown

Client(c) ==
  \/ \E u \in published : Connect(c, u)
  \/ Ask(c) \/ AskTooLate(c) \/ Map(c) \/ ComeBackEmpty(c)

Next ==
  \/ Allocate
  \/ \E u \in Uid : Publish(u) \/ Release(u)
  \/ Worker
  \/ \E c \in Conn : Handler(c) \/ Client(c)
  \/ StopRunning \/ Destructor

Spec == Init /\ [][Next]_vars

\* The broker's threads run.  A subscriber may stop anywhere, or never ask.
Fairness ==
  /\ WF_vars(Worker)
  /\ WF_vars(Destructor)
  /\ \A c \in Conn : WF_vars(Handler(c))

FairSpec == Spec /\ Fairness

\* order_ and table_ hold the same uids, each once, within the capacity.
WindowConsistent ==
  /\ Len(order) <= Capacity
  /\ \A i, j \in 1..Len(order) : order[i] = order[j] => i = j
  /\ {order[i] : i \in 1..Len(order)} = {u \in Uid : Registered(u)}

-----------------------------------------------------------------------------
\* The variables have their types, the counter of connections stays a number, and the
\* window's two halves agree.
TypeOK ==
  /\ fd \in [Fd -> {Listen, Closed} \cup Conn \cup Uid]
  /\ nextUid \in 1..(MaxUid + 1)
  /\ buffer \in [Uid -> Fd \cup {NoFd}]
  /\ published \in SUBSET Uid
  /\ table \in [Uid -> Fd \cup {NoFd}]
  /\ order \in Seq(Uid) /\ WindowConsistent
  /\ running \in BOOLEAN
  /\ serverFd \in Fd \cup {NoFd}
  /\ active \in Nat
  /\ worker \in {"check", "accept", "ended"}
  /\ acceptFd \in Fd \cup {NoFd}
  /\ exit \in {"no", "stopped", "closed", "unlinked", "joined", "gone"}
  /\ handler \in [Conn -> HandlerPCs]
  /\ connFd \in [Conn -> Fd \cup {NoFd}]
  /\ tmpFd \in [Conn -> Fd \cup {NoFd}]
  /\ client \in [Conn -> ClientPCs]
  /\ want \in [Conn -> Uid \cup {0}]
  /\ sent \in SUBSET Conn
  /\ reply \in [Conn -> {NoReply, StatusMiss} \cup {Listen, Closed} \cup Conn \cup Uid]

\* Who is to close a number, and what it should stand for.
Owners ==
       {<<"buffer", u, buffer[u], u>> : u \in {v \in Uid : buffer[v] # NoFd}}
  \cup {<<"window", u, table[u], u>> : u \in {v \in Uid : Registered(v)}}
  \cup {<<"conn", c, connFd[c], c>> : c \in {d \in Conn : connFd[d] # NoFd}}
  \cup {<<"tmp", c, tmpFd[c], want[c]>> : c \in {d \in Conn : tmpFd[d] # NoFd}}
  \cup (IF exit \in {"no", "stopped"} THEN {<<"server", 0, serverFd, Listen>>} ELSE {})

\* Every open descriptor has exactly one owner, and stands for what its owner
\* believes: none is closed twice, none is closed under a thread that still uses
\* the number, none leaks, whatever path a connection or an eviction takes and
\* up to the limit of open files.
FdsAccounted ==
  /\ \A o \in Owners : fd[o[3]] = o[4]
  /\ Cardinality(Owners) = Cardinality({n \in Fd : fd[n] # Closed})
  /\ \A o, p \in Owners : o[3] = p[3] => o = p

\* A subscriber maps the allocation its descriptor is about, or nothing: not a
\* dma-buf that has the number of one that was evicted meanwhile.
MappedIsDescribed == \A c \in Conn : client[c] = "mapped" => reply[c] = want[c]

\* No connection is served any more when the broker's members are destroyed,
\* and only the buffers the user still holds are open then.
NothingOutlivesBroker ==
  exit = "gone" =>
    /\ \A c \in Conn : handler[c] \notin Serving
    /\ \A n \in Fd : fd[n] # Closed => \E u \in Uid : buffer[u] = n

\* The destructor ends, whatever the subscribers do.
ExitEnds == exit = "stopped" ~> exit = "gone"
=============================================================================
