--------------------------- MODULE FdDispatcherProofs ---------------------------
(***************************************************************************)
(* Proofs about FdDispatcher, for any blocks, calls, epochs and numbers.   *)
(* Every open number is somebody's; the thread may hold numbers that were  *)
(* closed under it, and the invariant says what can have become of them.   *)
(***************************************************************************)
EXTENDS FdDispatcher, FiniteSetTheorems, WellFoundedInduction, TLAPS

\* Who owns what: each number that is in use is open and stands for what it should ...
OwnedOK ==
  /\ \A b \in Block : exported[b] # NoFd => fd[exported[b]] = Memory(<<epoch, b>>)
  /\ \A b \in Block : server[b] # NoFd =>
       /\ fd[server[b]] = Server(b)
       /\ serves[server[b]] # NoFd =>
            /\ fd[serves[server[b]]] = Memory(<<epoch, b>>)
            /\ serves[server[b]] # exported[b]
            /\ b \notin {adding, removing}
  /\ \A s \in Fd : serves[s] # NoFd => \E b \in Block : server[b] = s
  /\ removedFd # NoFd => removing \in Block /\ fd[removedFd] = Memory(<<epoch, removing>>)
  /\ workConn # NoFd => \E c \in Call : fd[workConn] = Conn(c)

\* ... and each number that is open is in use.
InUse(n) ==
  /\ \A i \in Epoch \X Block : fd[n] = Memory(i) =>
       /\ i[1] = epoch
       /\ \/ exported[i[2]] = n
          \/ server[i[2]] # NoFd /\ serves[server[i[2]]] = n
          \/ removing = i[2] /\ removedFd = n
  /\ \A b \in Block : fd[n] = Server(b) => server[b] = n
  /\ \A c \in Call : fd[n] = Conn(c) => workConn = n
InUseOK == \A n \in Fd : InUse(n)

\* The pool's life, and what there is of the manager and its thread during it.
Up == {"loaded", "draining", "drained"}
PhaseOK ==
  /\ phase # "unloaded" => epoch \in Epoch
  /\ adding # NoBlock => phase = "loaded" /\ exported[adding] # NoFd /\ server[adding] # NoFd
  /\ removing # NoBlock => phase = "removing" /\ server[removing] # NoFd
  /\ removing = NoBlock => removedFd = NoFd
  /\ phase \notin Up => \A b \in Block : exported[b] = NoFd
  /\ phase \notin Up \cup {"removing"} => \A b \in Block : server[b] = NoFd
  /\ \A n \in polled : \E b \in Block : server[b] = n
  /\ phase = "unloaded" => worker \in {"none", "ended"}
  /\ phase \in {"unloaded", "removing", "stopping"} => segment = {}

\* The thread holds the number of a socket and the duplicate that is served there, as
\* long as nobody closed them.
WorkOK ==
  /\ workConn # NoFd <=> worker \in {"send", "finish"}
  /\ workFd # NoFd <=> worker \in {"accept", "send", "finish"}
  /\ workDup # NoFd <=> worker \in {"accept", "send", "finish"}
  /\ worker \in {"accept", "send"} =>
       \/ serves[workFd] = workDup
       \/ removing # NoBlock /\ server[removing] = workFd /\ removedFd = workDup
       \/ /\ phase \in {"removing", "stopping"}
          /\ \A b \in Block : fd[workFd] # Server(b)
          /\ \A i \in Epoch \X Block : fd[workDup] # Memory(i)
  /\ worker = "send" => \A c \in Call : fd[workConn] = Conn(c) =>
       /\ call[c] \in {"connected", "dead"} /\ reply[c] = Closed
       /\ \A i \in Epoch \X Block : fd[workDup] = Memory(i) => i[2] = BlockOf(c)

\* The two ends of a connection.
LinkInv(c) ==
  /\ link[c] = "backlog" =>
       /\ call[c] \in {"connected", "dead"} /\ reply[c] = Closed
       /\ BlockOf(c) \in Block /\ server[BlockOf(c)] # NoFd
  /\ link[c] = "accepted" <=> workConn # NoFd /\ fd[workConn] = Conn(c)
  /\ link[c] # "none" => call[c] \in {"connected", "mapped", "done", "dead"}
  /\ reply[c] # Closed => call[c] \in {"connected", "mapped"}
LinkOK == \A c \in Call : LinkInv(c)

\* A call that the pool can see in a refcount has the pool wait for it.
Counting == {"check", "connect", "connected"}
Seen(c) == call[c] \in Counting /\ c \in counted \ late
CallInv(c) ==
  /\ call[c] \in {"lock", "find", "open", "mapped"} \cup Counting => msg[c] \in Epoch \X Block
  /\ call[c] \in {"idle", "lock", "find", "done", "dead"} => seg[c] = 0
  /\ c \in counted <=> call[c] \in Counting \cup {"mapped"} /\ seg[c] # 0
  /\ call[c] \in {"connect", "connected", "mapped"} => seg[c] \in {0, EpochOf(c)}
  /\ Seen(c) => seg[c] = epoch /\ phase \in {"loaded", "draining", "killed"}
  /\ Seen(c) /\ call[c] = "connected" =>
       \A i \in Epoch \X Block : reply[c] = Memory(i) => i = msg[c]
  /\ call[c] = "mapped" /\ seg[c] # 0 /\ c \notin late => memory[c] = msg[c]
CallOK == \A c \in Call : CallInv(c)

CacheOK ==
  \A b \in Block : cacheMem[b] # NoId /\ cacheSeg[b] # 0 /\ b \notin lateEntry =>
    cacheMem[b] = <<cacheSeg[b], b>>

FdOK == OwnedOK /\ InUseOK
IInv == TypeOK /\ FdOK /\ PhaseOK /\ WorkOK /\ LinkOK /\ CallOK /\ CacheOK

-----------------------------------------------------------------------------
(* Numbers and what they stand for.                                        *)

LEMMA HasLeast ==
  ASSUME NEW T \in SUBSET Nat, T # {}
  PROVE  \E n \in T : \A m \in T : n <= m
<1> DEFINE R == OpToRel(<, Nat)
<1>1. IsWellFoundedOn(R, Nat)
  BY NatLessThanWellFounded
<1>2. \A m, n \in Nat : m < n => <<m, n>> \in R
  BY DEF OpToRel
<1> HIDE DEF R
<1>3. PICK n \in T : \A m \in T : ~(<<m, n>> \in R)
  BY <1>1, WFMin
<1>4. \A m \in T : ~(m < n)
  BY <1>2, <1>3
<1>5. \A m \in T : n <= m
  BY <1>4
<1> QED
  BY <1>5

LEMMA LowestIsFree == Free # {} => Lowest \in Fd /\ fd[Lowest] = Closed
<1>1. Free \in SUBSET Nat
  BY ConstantsOK DEF Free, Fd, ConstantsOK
<1>2. Free # {} => Lowest \in Free
  BY <1>1, HasLeast DEF Lowest
<1> QED
  BY <1>2 DEF Free

LEMMA Distinct ==
  /\ NoFd \notin Fd /\ NoBlock \notin Block /\ NoCall \notin Call /\ Closed # Foreign
  /\ Epoch \subseteq Epoch0 /\ 0 \in Epoch0 /\ 0 \notin Epoch
  /\ \A e \in Epoch0 : e # 0 => e \in Epoch
BY ConstantsOK DEF ConstantsOK, Fd, Epoch, Epoch0

LEMMA Ids ==
  /\ \A i \in Epoch \X Block : i[1] \in Epoch /\ i[2] \in Block /\ i = <<i[1], i[2]>>
  /\ \A e \in Epoch, b \in Block : <<e, b>> \in Epoch \X Block
  /\ \A e, b : <<e, b>>[1] = e /\ <<e, b>>[2] = b
  /\ NoId \notin Epoch \X Block /\ NoId \in Id /\ Epoch \X Block \subseteq Id
  /\ \A i \in Id : i = NoId \/ i \in Epoch \X Block
  /\ NoId[1] = 0 /\ NoId[2] = NoBlock
BY Distinct DEF NoId, Id

LEMMA Objects ==
  /\ Closed \in Object /\ Foreign \in Object
  /\ \A i \in Epoch \X Block : Memory(i) \in Object /\ Memory(i) # Closed /\ Memory(i) # Foreign
  /\ \A b \in Block : Server(b) \in Object /\ Server(b) # Closed /\ Server(b) # Foreign
  /\ \A c \in Call : Conn(c) \in Object /\ Conn(c) # Closed /\ Conn(c) # Foreign
  /\ \A i, j : Memory(i) = Memory(j) => i = j
  /\ \A b, d : Server(b) = Server(d) => b = d
  /\ \A c, d : Conn(c) = Conn(d) => c = d
  /\ \A i, b : Memory(i) # Server(b)
  /\ \A i, c : Memory(i) # Conn(c)
  /\ \A b, c : Server(b) # Conn(c)
  /\ \A x \in Object : \/ x \in {Closed, Foreign}
                       \/ \E i \in Epoch \X Block : x = Memory(i)
                       \/ \E b \in Block : x = Server(b)
                       \/ \E c \in Call : x = Conn(c)
<1>1. /\ \A i, j : Memory(i) = Memory(j) => i = j
      /\ \A b, d : Server(b) = Server(d) => b = d
      /\ \A c, d : Conn(c) = Conn(d) => c = d
  BY DEF Memory, Server, Conn
<1>2. /\ \A i, b : Memory(i) # Server(b)
      /\ \A i, c : Memory(i) # Conn(c)
      /\ \A b, c : Server(b) # Conn(c)
  BY DEF Memory, Server, Conn
<1>3. /\ \A i \in Epoch \X Block : Memory(i) \in Opened
      /\ \A b \in Block : Server(b) \in Opened
      /\ \A c \in Call : Conn(c) \in Opened
  BY DEF Opened
<1>4. \A x \in Opened : \/ \E i \in Epoch \X Block : x = Memory(i)
                        \/ \E b \in Block : x = Server(b)
                        \/ \E c \in Call : x = Conn(c)
  BY DEF Opened
<1> QED
  BY <1>1, <1>2, <1>3, <1>4, ObjectsDiffer DEF Object

\* A closed number is nobody's, nor one that other code has open.
LEMMA OthersAreNobodys ==
  ASSUME TypeOK, OwnedOK, PhaseOK, NEW n \in Fd, fd[n] \in {Closed, Foreign}
  PROVE  /\ \A b \in Block : exported[b] # n /\ server[b] # n
         /\ \A s \in Fd : serves[s] # n
         /\ removedFd # n /\ workConn # n
<1>1. ASSUME NEW b \in Block, exported[b] = n
      PROVE  FALSE
  <2>1. n # NoFd /\ epoch \in Epoch
    BY <1>1, Distinct DEF PhaseOK, Up
  <2>2. fd[n] = Memory(<<epoch, b>>) /\ <<epoch, b>> \in Epoch \X Block
    BY <1>1, <2>1 DEF OwnedOK
  <2> QED
    BY <2>2, Objects
<1>2. ASSUME NEW b \in Block, server[b] = n
      PROVE  FALSE
  <2>1. fd[n] = Server(b)
    BY <1>2, Distinct DEF OwnedOK
  <2> QED
    BY <2>1, Objects
<1>3. ASSUME NEW s \in Fd, serves[s] = n
      PROVE  FALSE
  <2>1. PICK b \in Block : server[b] = s
    BY <1>3, Distinct DEF OwnedOK
  <2>2. s # NoFd /\ n # NoFd
    BY Distinct
  <2>3. epoch \in Epoch
    BY <2>1, <2>2 DEF PhaseOK, Up
  <2>4. fd[n] = Memory(<<epoch, b>>) /\ <<epoch, b>> \in Epoch \X Block
    BY <1>3, <2>1, <2>2, <2>3 DEF OwnedOK
  <2> QED
    BY <2>4, Objects
<1>4. ASSUME removedFd = n
      PROVE  FALSE
  <2>1. removedFd # NoFd
    BY <1>4, Distinct
  <2>2. removing \in Block /\ fd[n] = Memory(<<epoch, removing>>)
    BY <1>4, <2>1 DEF OwnedOK
  <2>3. epoch \in Epoch
    BY <2>1, <2>2, Distinct DEF PhaseOK
  <2>4. <<epoch, removing>> \in Epoch \X Block
    BY <2>2, <2>3
  <2> QED
    BY <2>2, <2>4, Objects
<1>5. ASSUME workConn = n
      PROVE  FALSE
  <2>1. \E c \in Call : fd[n] = Conn(c)
    BY <1>5, Distinct DEF OwnedOK
  <2> QED
    BY <2>1, Objects
<1> QED
  BY <1>1, <1>2, <1>3, <1>4, <1>5

-----------------------------------------------------------------------------
(* What a step leaves alone.                                               *)

USE DEF poolVars, serverVars, mapVars, workVars, linkVars, cacheVars, callVars, publisherVars

LEMMA OwnedStays ==
  ASSUME FdOK, UNCHANGED <<exported, server, serves, removedFd, workConn, fd, epoch, adding, removing>>
  PROVE  FdOK'
<1>1. OwnedOK'
  BY DEF FdOK, OwnedOK
<1>2. InUseOK'
  BY DEF FdOK, InUseOK, InUse
<1> QED
  BY <1>1, <1>2 DEF FdOK

LEMMA WorkStays ==
  ASSUME WorkOK, UNCHANGED <<workVars, serves, removing, server, removedFd, fd, call, reply, msg>>,
         phase \in {"removing", "stopping"} => phase' \in {"removing", "stopping"}
  PROVE  WorkOK'
BY DEF WorkOK, BlockOf

LEMMA LinkStays ==
  ASSUME LinkOK, UNCHANGED <<link, call, reply, msg, server, workConn, fd>>
  PROVE  LinkOK'
BY DEF LinkOK, LinkInv, BlockOf

LEMMA CallStays ==
  ASSUME CallOK, UNCHANGED <<call, msg, seg, counted, late, reply, memory, epoch>>,
         \A c \in Call : Seen(c) => phase' \in {"loaded", "draining", "killed"}
  PROVE  CallOK'
<1>1. \A c \in Call : Seen(c)' <=> Seen(c)
  BY DEF Seen
<1> QED
  BY <1>1 DEF CallOK, CallInv, EpochOf

LEMMA CacheStays ==
  ASSUME CacheOK, UNCHANGED cacheVars
  PROVE  CacheOK'
BY DEF CacheOK


\* A number that is opened was nobody's.
LEMMA Opens ==
  ASSUME TypeOK, OwnedOK, PhaseOK, Free # {}, NEW x \in Object,
         fd' = [fd EXCEPT ![Lowest] = x]
  PROVE  /\ Lowest \in Fd /\ Lowest # NoFd /\ fd[Lowest] = Closed
         /\ fd' \in [Fd -> Object]
         /\ fd'[Lowest] = x /\ \A n \in Fd : n # Lowest => fd'[n] = fd[n]
         /\ \A b \in Block : exported[b] # Lowest /\ server[b] # Lowest
         /\ \A s \in Fd : serves[s] # Lowest
         /\ removedFd # Lowest /\ workConn # Lowest
<1>1. Lowest \in Fd /\ fd[Lowest] = Closed
  BY LowestIsFree
<1>2. Lowest # NoFd
  BY <1>1, Distinct
<1>3. fd \in [Fd -> Object]
  BY DEF TypeOK
<1>4. /\ \A b \in Block : exported[b] # Lowest /\ server[b] # Lowest
      /\ \A s \in Fd : serves[s] # Lowest
      /\ removedFd # Lowest /\ workConn # Lowest
  BY <1>1, OthersAreNobodys
<1> QED
  BY <1>1, <1>2, <1>3, <1>4

\* The values of the variables that hold numbers.
LEMMA Numbers ==
  ASSUME TypeOK
  PROVE  /\ \A b \in Block : exported[b] \in FdOrNone /\ server[b] \in FdOrNone
         /\ \A n \in Fd : serves[n] \in FdOrNone /\ fd[n] \in Object
         /\ removedFd \in FdOrNone
         /\ workFd \in FdOrNone /\ workDup \in FdOrNone /\ workConn \in FdOrNone
         /\ \A x \in FdOrNone : x # NoFd => x \in Fd
BY DEF TypeOK, FdOrNone

\* When no pool is there, nothing of it is open.
LEMMA NothingLoaded ==
  ASSUME IInv, phase \notin Up \cup {"removing"}
  PROVE  /\ \A b \in Block : exported[b] = NoFd /\ server[b] = NoFd
         /\ \A s \in Fd : serves[s] = NoFd
         /\ removing = NoBlock /\ removedFd = NoFd /\ adding = NoBlock
         /\ polled = {}
         /\ \A n \in Fd : /\ \A i \in Epoch \X Block : fd[n] # Memory(i)
                          /\ \A b \in Block : fd[n] # Server(b)
<1>1. \A b \in Block : exported[b] = NoFd /\ server[b] = NoFd
  BY DEF IInv, PhaseOK
<1>2. \A s \in Fd : serves[s] = NoFd
  BY <1>1, Distinct DEF IInv, FdOK, OwnedOK
<1>3. removing = NoBlock /\ removedFd = NoFd /\ adding = NoBlock
  BY DEF IInv, PhaseOK, Up
<1>4. polled = {}
  BY <1>1, Distinct DEF IInv, PhaseOK, TypeOK
<1>5. ASSUME NEW n \in Fd, NEW i \in Epoch \X Block
      PROVE  fd[n] # Memory(i)
  <2>1. n # NoFd /\ i[2] \in Block
    BY Distinct, Ids
  <2> QED
    BY <1>1, <1>3, <2>1 DEF IInv, FdOK, InUseOK, InUse
<1>6. ASSUME NEW n \in Fd, NEW b \in Block
      PROVE  fd[n] # Server(b)
  BY <1>1, Distinct DEF IInv, FdOK, InUseOK, InUse
<1> QED
  BY <1>1, <1>2, <1>3, <1>4, <1>5, <1>6

-----------------------------------------------------------------------------
(* The steps of the pool and its manager.                                  *)

LEMMA LoadStep == IInv /\ Load => IInv'
<1> SUFFICES ASSUME IInv, Load PROVE IInv'
  OBVIOUS
<1>1. phase = "unloaded" /\ phase' = "loaded" /\ epoch' = epoch + 1 /\ epoch < MaxEpoch
  BY DEF Load
<1>2. /\ \A b \in Block : exported[b] = NoFd /\ server[b] = NoFd
      /\ \A s \in Fd : serves[s] = NoFd
      /\ removing = NoBlock /\ removedFd = NoFd /\ adding = NoBlock
      /\ polled = {}
      /\ \A n \in Fd : /\ \A i \in Epoch \X Block : fd[n] # Memory(i)
                       /\ \A b \in Block : fd[n] # Server(b)
  BY <1>1, NothingLoaded DEF Up
<1>3. worker \in {"none", "ended"} /\ worker' \in {"wait", "none"} /\ running' \in BOOLEAN
  BY <1>1 DEF IInv, PhaseOK, Load, StartDispatcher
<1>4. workConn = NoFd /\ workFd = NoFd /\ workDup = NoFd
  BY <1>3 DEF IInv, WorkOK
<1>5. epoch' \in Epoch
  BY <1>1, ConstantsOK DEF IInv, TypeOK, Epoch0, Epoch, ConstantsOK
<1>6. TypeOK'
  BY <1>1, <1>3, <1>5, Distinct DEF IInv, TypeOK, Load, Phases, WorkerPCs
<1>7. FdOK'
  <2>1. OwnedOK'
    BY <1>2, <1>4 DEF OwnedOK, Load
  <2>2. InUseOK'
    BY <1>2, <1>4 DEF IInv, FdOK, InUseOK, InUse, Load
  <2> QED
    BY <2>1, <2>2 DEF FdOK
<1>8. PhaseOK'
  BY <1>1, <1>2, <1>3, <1>5 DEF PhaseOK, Load, Up
<1>9. WorkOK'
  BY <1>3, <1>4 DEF WorkOK, Load
<1>10. LinkOK'
  BY LinkStays DEF IInv, Load
<1>11. CallOK'
  <2>1. \A c \in Call : ~Seen(c)
    BY <1>1 DEF IInv, CallOK, CallInv
  <2>2. \A c \in Call : ~Seen(c)'
    BY <2>1 DEF Seen, Load
  <2> QED
    BY <2>2 DEF IInv, CallOK, CallInv, Load, EpochOf
<1>12. CacheOK'
  BY CacheStays DEF IInv, Load
<1> QED
  BY <1>6, <1>7, <1>8, <1>9, <1>10, <1>11, <1>12 DEF IInv

LEMMA CreateBlockStep == ASSUME IInv, NEW b \in Block, CreateBlock(b) PROVE IInv'
<1> DEFINE L == Lowest
<1>1. /\ phase = "loaded" /\ exported[b] = NoFd /\ Free # {}
      /\ fd' = [fd EXCEPT ![L] = Memory(<<epoch, b>>)]
      /\ exported' = [exported EXCEPT ![b] = L]
      /\ segment' \in SUBSET Block
  BY DEF CreateBlock, IInv, TypeOK
<1>2. <<epoch, b>> \in Epoch \X Block
  BY <1>1 DEF IInv, PhaseOK
<1>3. Memory(<<epoch, b>>) \in Object
  BY <1>2, Objects
<1>4. /\ L \in Fd /\ L # NoFd /\ fd[L] = Closed
      /\ fd' \in [Fd -> Object]
      /\ fd'[L] = Memory(<<epoch, b>>) /\ \A n \in Fd : n # L => fd'[n] = fd[n]
      /\ \A d \in Block : exported[d] # L /\ server[d] # L
      /\ \A s \in Fd : serves[s] # L
      /\ removedFd # L /\ workConn # L
  BY <1>1, <1>3, Opens DEF IInv, FdOK
<1>5. exported' \in [Block -> FdOrNone] /\ exported'[b] = L
      /\ \A d \in Block : d # b => exported'[d] = exported[d]
  BY <1>1, <1>4 DEF IInv, TypeOK, FdOrNone
<1> HIDE DEF L
<1>6. TypeOK'
  BY <1>1, <1>4, <1>5 DEF IInv, TypeOK, CreateBlock
<1>7. FdOK'
  <2>1. OwnedOK'
    BY <1>1, <1>4, <1>5, Numbers DEF IInv, FdOK, OwnedOK, CreateBlock
  <2>2. InUseOK'
    <3> SUFFICES ASSUME NEW n \in Fd PROVE InUse(n)'
      BY DEF InUseOK
    <3>1. CASE n = L
      BY <1>1, <1>2, <1>4, <1>5, <3>1, Ids, Objects DEF InUse, CreateBlock
    <3>2. CASE n # L
      BY <1>1, <1>4, <1>5, <3>2, Ids, Distinct DEF IInv, FdOK, InUseOK, InUse, CreateBlock
    <3> QED
      BY <3>1, <3>2
  <2> QED
    BY <2>1, <2>2 DEF FdOK
<1>8. PhaseOK'
  BY <1>1, <1>4, <1>5 DEF IInv, PhaseOK, CreateBlock, Up
<1>9. WorkOK'
  BY <1>1, <1>4, Numbers DEF IInv, PhaseOK, WorkOK, CreateBlock, BlockOf
<1>10. LinkOK'
  BY <1>1, <1>4, Numbers DEF IInv, LinkOK, LinkInv, CreateBlock, BlockOf
<1>11. CallOK'
  BY <1>1, CallStays DEF IInv, CreateBlock
<1>12. CacheOK'
  BY CacheStays DEF IInv, CreateBlock
<1> QED
  BY <1>6, <1>7, <1>8, <1>9, <1>10, <1>11, <1>12 DEF IInv

LEMMA OpenServerStep == ASSUME IInv, NEW b \in Block, OpenServer(b) PROVE IInv'
<1> DEFINE L == Lowest
<1>1. /\ phase = "loaded" /\ adding = NoBlock /\ exported[b] # NoFd /\ server[b] = NoFd
      /\ Free # {} /\ fd' = [fd EXCEPT ![L] = Server(b)]
      /\ server' = [server EXCEPT ![b] = L] /\ adding' = b
  BY DEF OpenServer
<1>2. Server(b) \in Object
  BY Objects
<1>3. /\ L \in Fd /\ L # NoFd /\ fd[L] = Closed
      /\ fd' \in [Fd -> Object]
      /\ fd'[L] = Server(b) /\ \A n \in Fd : n # L => fd'[n] = fd[n]
      /\ \A d \in Block : exported[d] # L /\ server[d] # L
      /\ \A s \in Fd : serves[s] # L
      /\ removedFd # L /\ workConn # L
  BY <1>1, <1>2, Opens DEF IInv, FdOK
<1>4. server' \in [Block -> FdOrNone] /\ server'[b] = L
      /\ \A d \in Block : d # b => server'[d] = server[d]
  BY <1>1, <1>3 DEF IInv, TypeOK, FdOrNone
<1> HIDE DEF L
<1>5. serves[L] = NoFd /\ removing = NoBlock
  BY <1>1, <1>3 DEF IInv, FdOK, OwnedOK, PhaseOK
<1>6. TypeOK'
  BY <1>1, <1>3, <1>4 DEF IInv, TypeOK, OpenServer
<1>7. FdOK'
  <2>1. OwnedOK'
    <3>1. ASSUME NEW d \in Block
          PROVE  /\ exported'[d] # NoFd => fd'[exported'[d]] = Memory(<<epoch', d>>)
                 /\ server'[d] # NoFd =>
                      /\ fd'[server'[d]] = Server(d)
                      /\ serves'[server'[d]] # NoFd =>
                           /\ fd'[serves'[server'[d]]] = Memory(<<epoch', d>>)
                           /\ serves'[server'[d]] # exported'[d]
                           /\ d \notin {adding', removing'}
      <4>1. CASE d = b
        BY <1>1, <1>3, <1>4, <1>5, <4>1, Numbers DEF IInv, FdOK, OwnedOK, OpenServer
      <4>2. CASE d # b
        BY <1>1, <1>3, <1>4, <1>5, <4>2, Numbers, Distinct DEF IInv, FdOK, OwnedOK, OpenServer
      <4> QED
        BY <4>1, <4>2
    <3>2. \A s \in Fd : serves[s] # NoFd => \E d \in Block : server'[d] = s
      BY <1>1, <1>4, Distinct DEF IInv, FdOK, OwnedOK
    <3>3. /\ removedFd # NoFd => removing \in Block /\ fd'[removedFd] = Memory(<<epoch, removing>>)
          /\ workConn # NoFd => \E c \in Call : fd'[workConn] = Conn(c)
      BY <1>3, Numbers DEF IInv, FdOK, OwnedOK
    <3> QED
      BY <3>1, <3>2, <3>3 DEF OwnedOK, OpenServer
  <2>2. InUseOK'
    <3> SUFFICES ASSUME NEW n \in Fd PROVE InUse(n)'
      BY DEF InUseOK
    <3>1. CASE n = L
      BY <1>1, <1>3, <1>4, <3>1, Objects DEF InUse, OpenServer
    <3>2. CASE n # L
      BY <1>1, <1>3, <1>4, <3>2, Ids, Distinct DEF IInv, FdOK, InUseOK, InUse, OpenServer
    <3> QED
      BY <3>1, <3>2
  <2> QED
    BY <2>1, <2>2 DEF FdOK
<1>8. PhaseOK'
  BY <1>1, <1>3, <1>4, <1>5, Distinct DEF IInv, TypeOK, PhaseOK, OpenServer, Up
<1>9. WorkOK'
  BY <1>1, <1>3, <1>5, Numbers DEF IInv, WorkOK, OpenServer, BlockOf
<1>10. LinkOK'
  BY <1>1, <1>3, <1>4, Numbers DEF IInv, LinkOK, LinkInv, OpenServer, BlockOf
<1>11. CallOK'
  BY <1>1, CallStays DEF IInv, OpenServer
<1>12. CacheOK'
  BY CacheStays DEF IInv, OpenServer
<1> QED
  BY <1>6, <1>7, <1>8, <1>9, <1>10, <1>11, <1>12 DEF IInv

\* add_socket that failed has only given up.
LEMMA AddSocketFails ==
  ASSUME IInv, AddSocket, UNCHANGED <<fd, serves, polled>>
  PROVE  IInv'
<1>1. TypeOK'
  BY DEF IInv, TypeOK, AddSocket
<1>2. FdOK'
  BY Distinct DEF IInv, FdOK, OwnedOK, InUseOK, InUse, AddSocket
<1>3. PhaseOK'
  BY DEF IInv, PhaseOK, AddSocket
<1>4. WorkOK'
  BY WorkStays DEF IInv, AddSocket
<1>5. LinkOK'
  BY LinkStays DEF IInv, AddSocket
<1>6. CallOK'
  BY CallStays DEF IInv, CallOK, CallInv, AddSocket
<1>7. CacheOK'
  BY CacheStays DEF IInv, AddSocket
<1> QED
  BY <1>1, <1>2, <1>3, <1>4, <1>5, <1>6, <1>7 DEF IInv

LEMMA AddSocketStep == IInv /\ AddSocket => IInv'
<1> SUFFICES ASSUME IInv, AddSocket PROVE IInv'
  OBVIOUS
<1> DEFINE L == Lowest
           a == adding
           S == server[a]
<1>1. CASE UNCHANGED <<fd, serves, polled>>
  BY <1>1, AddSocketFails
<1>2. CASE /\ Free # {} /\ worker # "none"
           /\ fd' = [fd EXCEPT ![L] = fd[exported[a]]]
           /\ serves' = [serves EXCEPT ![S] = L]
           /\ polled' = polled \cup {S}
  <2>1. /\ a \in Block /\ phase = "loaded" /\ exported[a] # NoFd /\ S # NoFd /\ S \in Fd
        /\ removing = NoBlock /\ epoch \in Epoch /\ adding' = NoBlock /\ a # NoBlock
    BY Numbers, Distinct DEF AddSocket, IInv, TypeOK, PhaseOK
  <2>2. fd[exported[a]] = Memory(<<epoch, a>>) /\ serves[S] = NoFd
    BY <2>1 DEF IInv, FdOK, OwnedOK
  <2>3. <<epoch, a>> \in Epoch \X Block /\ Memory(<<epoch, a>>) \in Object
    BY <2>1, Ids, Objects
  <2>4. /\ L \in Fd /\ L # NoFd /\ fd[L] = Closed
        /\ fd' \in [Fd -> Object]
        /\ fd'[L] = Memory(<<epoch, a>>) /\ \A n \in Fd : n # L => fd'[n] = fd[n]
        /\ \A d \in Block : exported[d] # L /\ server[d] # L
        /\ \A s \in Fd : serves[s] # L
        /\ removedFd # L /\ workConn # L
    BY <1>2, <2>2, <2>3, Opens DEF IInv, FdOK
  <2>5. /\ serves' \in [Fd -> FdOrNone] /\ serves'[S] = L
        /\ \A s \in Fd : s # S => serves'[s] = serves[s]
    BY <1>2, <2>1, <2>4 DEF IInv, TypeOK, FdOrNone
  <2>6. \A d \in Block : d # a /\ server[d] # NoFd => server[d] # S
    <3>1. fd[S] = Server(a)
      BY <2>1 DEF IInv, FdOK, OwnedOK
    <3>2. \A d \in Block : server[d] # NoFd => fd[server[d]] = Server(d)
      BY DEF IInv, FdOK, OwnedOK
    <3> HIDE DEF S, a
    <3> QED
      BY <3>1, <3>2, Objects
  <2>7. polled' = polled \cup {S}
    BY <1>2
  <2>8. /\ UNCHANGED <<phase, epoch, exported, segment, published, server, removing, removedFd,
                       running, workVars, link, reply, cacheVars, callVars>>
    BY DEF AddSocket
  <2> HIDE DEF L, S, a
  <2>9. TypeOK'
    BY <2>1, <2>4, <2>5, <2>7, <2>8 DEF IInv, TypeOK
  <2>10. FdOK'
    <3>1. OwnedOK'
      <4>1. ASSUME NEW d \in Block
            PROVE  /\ exported'[d] # NoFd => fd'[exported'[d]] = Memory(<<epoch', d>>)
                   /\ server'[d] # NoFd =>
                        /\ fd'[server'[d]] = Server(d)
                        /\ serves'[server'[d]] # NoFd =>
                             /\ fd'[serves'[server'[d]]] = Memory(<<epoch', d>>)
                             /\ serves'[server'[d]] # exported'[d]
                             /\ d \notin {adding', removing'}
        <5>0. d \notin {adding', removing'}
          BY <2>1, <2>8, Distinct
        <5>1. CASE d = a
          BY <2>1, <2>4, <2>5, <2>8, <5>0, <5>1, Numbers DEF IInv, FdOK, OwnedOK, S
        <5>2. CASE d # a
          BY <2>4, <2>5, <2>6, <2>8, <5>0, <5>2, Numbers DEF IInv, FdOK, OwnedOK
        <5> QED
          BY <5>1, <5>2
      <4>2. \A s \in Fd : serves'[s] # NoFd => \E d \in Block : server[d] = s
        BY <2>1, <2>5 DEF IInv, FdOK, OwnedOK, S
      <4>3. /\ removedFd # NoFd => removing \in Block /\ fd'[removedFd] = Memory(<<epoch, removing>>)
            /\ workConn # NoFd => \E c \in Call : fd'[workConn] = Conn(c)
        BY <2>4, Numbers DEF IInv, FdOK, OwnedOK
      <4> QED
        BY <2>8, <4>1, <4>2, <4>3 DEF OwnedOK
    <3>2. InUseOK'
      <4> SUFFICES ASSUME NEW n \in Fd PROVE InUse(n)'
        BY DEF InUseOK
      <4>1. CASE n = L
        BY <2>1, <2>4, <2>5, <2>8, <2>3, <4>1, Objects, Ids DEF InUse, S
      <4>2. CASE n # L
        BY <2>2, <2>4, <2>5, <2>8, <4>2, Numbers, Ids, Distinct DEF IInv, FdOK, InUseOK, InUse
      <4> QED
        BY <4>1, <4>2
    <3> QED
      BY <3>1, <3>2 DEF FdOK
  <2>11. PhaseOK'
    BY <2>1, <2>7, <2>8 DEF IInv, PhaseOK, S
  <2>12. WorkOK'
    BY <2>1, <2>2, <2>4, <2>5, <2>8, Numbers DEF IInv, WorkOK, BlockOf
  <2>13. LinkOK'
    BY <2>4, <2>8, Numbers DEF IInv, LinkOK, LinkInv, BlockOf
  <2>14. CallOK'
    BY <2>8, CallStays DEF IInv, CallOK, CallInv
  <2>15. CacheOK'
    BY <2>8, CacheStays DEF IInv
  <2> QED
    BY <2>9, <2>10, <2>11, <2>12, <2>13, <2>14, <2>15 DEF IInv
<1> QED
  BY <1>1, <1>2 DEF AddSocket

LEMMA PublishStep == ASSUME IInv, NEW b \in Block, Publish(b) PROVE IInv'
<1>1. <<epoch, b>> \in Epoch \X Block
  BY DEF Publish, IInv, PhaseOK
<1>2. TypeOK'
  BY <1>1 DEF IInv, TypeOK, Publish
<1>3. FdOK'
  BY OwnedStays DEF IInv, Publish
<1>4. PhaseOK'
  BY DEF IInv, PhaseOK, Publish
<1>5. WorkOK'
  BY WorkStays DEF IInv, Publish
<1>6. LinkOK'
  BY LinkStays DEF IInv, Publish
<1>7. CallOK'
  BY CallStays DEF IInv, Publish
<1>8. CacheOK'
  BY CacheStays DEF IInv, Publish
<1> QED
  BY <1>2, <1>3, <1>4, <1>5, <1>6, <1>7, <1>8 DEF IInv

LEMMA UnloadStep == IInv /\ Unload => IInv'
<1> SUFFICES ASSUME IInv, Unload PROVE IInv'
  OBVIOUS
<1>1. TypeOK'
  BY DEF IInv, TypeOK, Unload, Phases
<1>2. FdOK'
  BY OwnedStays DEF IInv, Unload
<1>3. PhaseOK'
  BY DEF IInv, PhaseOK, Unload, Up
<1>4. WorkOK'
  BY WorkStays DEF IInv, Unload
<1>5. LinkOK'
  BY LinkStays DEF IInv, Unload
<1>6. CallOK'
  BY CallStays DEF IInv, Unload
<1>7. CacheOK'
  BY CacheStays DEF IInv, Unload
<1> QED
  BY <1>1, <1>2, <1>3, <1>4, <1>5, <1>6, <1>7 DEF IInv

\* The destructor waits for every call it can see.
LEMMA DrainedStep == IInv /\ Drained => IInv'
<1> SUFFICES ASSUME IInv, Drained PROVE IInv'
  OBVIOUS
<1>1. TypeOK'
  BY DEF IInv, TypeOK, Drained, Phases
<1>2. FdOK'
  BY OwnedStays DEF IInv, Drained
<1>3. PhaseOK'
  BY DEF IInv, PhaseOK, Drained, Up
<1>4. WorkOK'
  BY WorkStays DEF IInv, Drained
<1>5. LinkOK'
  BY LinkStays DEF IInv, Drained
<1>6. CallOK'
  <2>1. ASSUME NEW c \in Call, Seen(c)
        PROVE  FALSE
    <3>1. seg[c] = epoch /\ c \in counted /\ msg[c] \in Epoch \X Block
      BY <2>1 DEF IInv, CallOK, CallInv, Seen, Counting
    <3>2. BlockOf(c) \in Block
      BY <3>1, Ids DEF BlockOf
    <3> QED
      BY <3>1, <3>2 DEF Drained, Referenced
  <2> QED
    BY <2>1, CallStays DEF IInv, Drained
<1>7. CacheOK'
  BY CacheStays DEF IInv, Drained
<1> QED
  BY <1>1, <1>2, <1>3, <1>4, <1>5, <1>6, <1>7 DEF IInv

LEMMA CloseBlocksStep == IInv /\ CloseBlocks => IInv'
<1> SUFFICES ASSUME IInv, CloseBlocks PROVE IInv'
  OBVIOUS
<1>1. /\ phase = "drained" /\ phase' = "removing" /\ segment' = {}
      /\ exported' = [b \in Block |-> NoFd]
      /\ UNCHANGED <<epoch, published, serverVars, mapVars, workVars, linkVars, cacheVars, callVars>>
  BY DEF CloseBlocks
<1>2. removing = NoBlock /\ removedFd = NoFd /\ adding = NoBlock /\ epoch \in Epoch
      /\ running \in BOOLEAN
  BY <1>1 DEF IInv, PhaseOK, TypeOK
<1>3. /\ fd' \in [Fd -> Object]
      /\ \A n \in Fd : IF \E b \in Block : exported[b] = n THEN fd'[n] = Closed ELSE fd'[n] = fd[n]
  BY Objects DEF CloseBlocks, IInv, TypeOK
\* Only memory is closed, and not the duplicates.
<1>4. \A n \in Fd : (\E b \in Block : exported[b] = n) => \E b \in Block : fd[n] = Memory(<<epoch, b>>)
  BY Distinct DEF IInv, FdOK, OwnedOK
<1>5. \A n \in Fd : (\E b \in Block : fd[n] = Server(b)) \/ (\E c \in Call : fd[n] = Conn(c))
        => fd'[n] = fd[n]
  <2>1. ASSUME NEW n \in Fd, \E b \in Block : exported[b] = n
        PROVE  /\ \A b \in Block : fd[n] # Server(b)
               /\ \A c \in Call : fd[n] # Conn(c)
    <3>1. PICK b \in Block : fd[n] = Memory(<<epoch, b>>)
      BY <1>4, <2>1
    <3> QED
      BY <3>1, Objects
  <2> QED
    BY <1>3, <2>1
<1>6. ASSUME NEW b \in Block, server[b] # NoFd, serves[server[b]] # NoFd
      PROVE  fd'[serves[server[b]]] = Memory(<<epoch, b>>)
  <2> DEFINE n == serves[server[b]]
  <2>1. n \in Fd
    BY <1>6, Numbers DEF IInv
  <2>2. fd[n] = Memory(<<epoch, b>>) /\ n # exported[b]
    BY <1>6 DEF IInv, FdOK, OwnedOK
  <2> HIDE DEF n
  <2>3. ASSUME NEW d \in Block, exported[d] = n
        PROVE  FALSE
    <3>1. fd[n] = Memory(<<epoch, d>>)
      BY <2>1, <2>3, Distinct DEF IInv, FdOK, OwnedOK
    <3>2. d = b
      BY <2>2, <3>1, Objects, Ids
    <3> QED
      BY <2>2, <2>3, <3>2
  <2>4. fd'[n] = Memory(<<epoch, b>>)
    BY <1>3, <2>1, <2>2, <2>3
  <2> QED
    BY <2>4 DEF n
<1>7. TypeOK'
  BY <1>1, <1>3 DEF IInv, TypeOK, Phases, FdOrNone
<1>8. FdOK'
  <2>1. OwnedOK'
    <3>1. \A d \in Block : server[d] # NoFd => fd'[server[d]] = Server(d)
      BY <1>5, Numbers DEF IInv, FdOK, OwnedOK
    <3>2. workConn # NoFd => \E c \in Call : fd'[workConn] = Conn(c)
      BY <1>5, Numbers DEF IInv, FdOK, OwnedOK
    <3> QED
      BY <1>1, <1>2, <1>6, <3>1, <3>2, Distinct DEF IInv, FdOK, OwnedOK
  <2>2. InUseOK'
    <3> SUFFICES ASSUME NEW n \in Fd PROVE InUse(n)'
      BY DEF InUseOK
    <3>1. CASE \E b \in Block : exported[b] = n
      BY <1>3, <3>1, Objects DEF InUse
    <3>2. CASE ~\E b \in Block : exported[b] = n
      BY <1>1, <1>3, <3>2, Ids DEF IInv, FdOK, InUseOK, InUse
    <3> QED
      BY <3>1, <3>2
  <2> QED
    BY <2>1, <2>2 DEF FdOK
<1>9. PhaseOK'
  BY <1>1, <1>2 DEF IInv, PhaseOK, Up
<1>10. WorkOK'
  <2>1. worker \in {"accept", "send"} => serves[workFd] = workDup
    BY <1>1, <1>2 DEF IInv, WorkOK
  <2>2. \A c \in Call : workConn # NoFd /\ fd'[workConn] = Conn(c) => fd[workConn] = Conn(c)
    BY <1>3, Numbers, Objects DEF IInv
  <2>3. \A i \in Epoch \X Block : workDup # NoFd /\ fd'[workDup] = Memory(i) => fd[workDup] = Memory(i)
    BY <1>3, Numbers, Objects DEF IInv
  <2> QED
    BY <1>1, <2>1, <2>2, <2>3 DEF IInv, WorkOK, BlockOf
<1>11. LinkOK'
  <2>1. workConn # NoFd => fd'[workConn] = fd[workConn]
    BY <1>5, Numbers DEF IInv, FdOK, OwnedOK
  <2> QED
    BY <1>1, <2>1 DEF IInv, LinkOK, LinkInv, BlockOf
<1>12. CallOK'
  BY <1>1, CallStays DEF IInv, CallOK, CallInv
<1>13. CacheOK'
  BY <1>1, CacheStays DEF IInv
<1> QED
  BY <1>7, <1>8, <1>9, <1>10, <1>11, <1>12, <1>13 DEF IInv

LEMMA RemoveEraseStep == ASSUME IInv, NEW b \in Block, RemoveErase(b) PROVE IInv'
<1> DEFINE S == server[b]
<1>1. /\ phase = "removing" /\ removing = NoBlock /\ S # NoFd /\ S \in Fd /\ b # NoBlock
      /\ removing' = b /\ removedFd' = serves[S]
      /\ serves' = [serves EXCEPT ![S] = NoFd]
      /\ UNCHANGED <<poolVars, fd, server, adding, polled, running, workVars,
                     linkVars, cacheVars, callVars>>
  BY Numbers, Distinct DEF RemoveErase, IInv
<1>2. /\ serves' \in [Fd -> FdOrNone] /\ serves'[S] = NoFd
      /\ \A s \in Fd : s # S => serves'[s] = serves[s]
  BY <1>1 DEF IInv, TypeOK, FdOrNone
<1>3. adding = NoBlock
  BY <1>1 DEF IInv, PhaseOK
<1>4. \A d \in Block : d # b /\ server[d] # NoFd => server[d] # S
  <2>1. \A d \in Block : server[d] # NoFd => fd[server[d]] = Server(d)
    BY DEF IInv, FdOK, OwnedOK
  <2> QED
    BY <1>1, <2>1, Objects
<1>5. TypeOK'
  BY <1>1, <1>2, Numbers DEF IInv, TypeOK
<1>6. FdOK'
  <2>1. OwnedOK'
    <3>1. ASSUME NEW d \in Block, server[d] # NoFd, serves'[server[d]] # NoFd
          PROVE  /\ fd[serves'[server[d]]] = Memory(<<epoch, d>>)
                 /\ serves'[server[d]] # exported[d]
                 /\ d \notin {adding, b}
      <4>1. d # b
        BY <1>2, <3>1
      <4>2. server[d] \in Fd /\ serves'[server[d]] = serves[server[d]]
        BY <1>2, <1>4, <3>1, <4>1, Numbers DEF IInv
      <4> QED
        BY <1>3, <3>1, <4>1, <4>2, Distinct DEF IInv, FdOK, OwnedOK
    <3>2. \A s \in Fd : serves'[s] # NoFd => \E d \in Block : server[d] = s
      BY <1>2 DEF IInv, FdOK, OwnedOK
    <3>3. serves[S] # NoFd => fd[serves[S]] = Memory(<<epoch, b>>)
      BY <1>1 DEF IInv, FdOK, OwnedOK
    <3>4. /\ \A d \in Block : exported[d] # NoFd => fd[exported[d]] = Memory(<<epoch, d>>)
          /\ \A d \in Block : server[d] # NoFd => fd[server[d]] = Server(d)
          /\ workConn # NoFd => \E c \in Call : fd[workConn] = Conn(c)
      BY DEF IInv, FdOK, OwnedOK
    <3> HIDE DEF S
    <3> QED
      BY <1>1, <3>1, <3>2, <3>3, <3>4 DEF OwnedOK
  <2>2. InUseOK'
    BY <1>1, <1>2, <1>4, Numbers, Ids, Distinct DEF IInv, FdOK, InUseOK, InUse
  <2> QED
    BY <2>1, <2>2 DEF FdOK
<1>7. PhaseOK'
  BY <1>1 DEF IInv, PhaseOK
<1>8. WorkOK'
  <2>1. ASSUME worker \in {"accept", "send"}, serves[workFd] = workDup
        PROVE  \/ serves'[workFd] = workDup
               \/ server[b] = workFd /\ removedFd' = workDup
    <3>1. workFd \in Fd
      BY <2>1, Numbers DEF IInv, WorkOK
    <3> QED
      BY <1>1, <1>2, <2>1, <3>1
  <2> HIDE DEF S
  <2> QED
    BY <1>1, <2>1 DEF IInv, WorkOK, BlockOf
<1>9. LinkOK'
  BY <1>1, LinkStays DEF IInv
<1>10. CallOK'
  BY <1>1, CallStays DEF IInv, CallOK, CallInv
<1>11. CacheOK'
  BY <1>1, CacheStays DEF IInv
<1> QED
  BY <1>5, <1>6, <1>7, <1>8, <1>9, <1>10, <1>11 DEF IInv

LEMMA RemoveCloseStep == IInv /\ RemoveClose => IInv'
<1> SUFFICES ASSUME IInv, RemoveClose PROVE IInv'
  OBVIOUS
<1> DEFINE r == removing
           S == server[r]
           D == removedFd
<1>1. /\ r # NoBlock /\ r \in Block /\ phase = "removing" /\ S # NoFd /\ S \in Fd
      /\ adding = NoBlock /\ epoch \in Epoch /\ \A b \in Block : exported[b] = NoFd
  BY Numbers DEF RemoveClose, IInv, TypeOK, PhaseOK, Up
<1>2. /\ fd' = [n \in Fd |-> IF n \in {S, D} THEN Closed ELSE fd[n]]
      /\ polled' = polled \ {S}
      /\ server' = [server EXCEPT ![r] = NoFd]
      /\ removing' = NoBlock /\ removedFd' = NoFd
      /\ link' = [c \in Call |-> IF c \in Waiting(S) THEN "none" ELSE link[c]]
      /\ UNCHANGED <<poolVars, adding, serves, running, workVars, reply, cacheVars, callVars>>
  BY DEF RemoveClose
<1>3. fd[S] = Server(r) /\ serves[S] = NoFd /\ (D # NoFd => fd[D] = Memory(<<epoch, r>>))
  BY <1>1 DEF IInv, FdOK, OwnedOK
<1>4. \A d \in Block : d # r /\ server[d] # NoFd => server[d] # S
  <2>1. \A d \in Block : server[d] # NoFd => fd[server[d]] = Server(d)
    BY DEF IInv, FdOK, OwnedOK
  <2> HIDE DEF S
  <2> QED
    BY <1>3, <2>1, Objects
<1> HIDE DEF D, S, r
<1>5. /\ fd' \in [Fd -> Object] /\ fd'[S] = Closed
      /\ D # NoFd => D \in Fd /\ fd'[D] = Closed
      /\ \A n \in Fd : n \notin {S, D} => fd'[n] = fd[n]
      /\ \A n \in Fd : fd'[n] = fd[n] \/ fd'[n] = Closed
  BY <1>1, <1>2, Numbers, Objects DEF IInv, TypeOK, D
<1>6. /\ server' \in [Block -> FdOrNone] /\ server'[r] = NoFd
      /\ \A d \in Block : d # r => server'[d] = server[d]
  BY <1>1, <1>2 DEF IInv, TypeOK, FdOrNone
<1>7. /\ \A n \in Fd, c \in Call : fd[n] = Conn(c) => fd'[n] = fd[n]
      /\ \A n \in Fd, d \in Block : d # r /\ fd[n] = Server(d) => fd'[n] = fd[n]
      /\ \A n \in Fd : \A i : i # <<epoch, r>> /\ fd[n] = Memory(i) => fd'[n] = fd[n]
  <2>1. \A n \in Fd, c \in Call : fd[n] = Conn(c) => n \notin {S, D}
    BY <1>3, Objects, Distinct
  <2>2. \A n \in Fd, d \in Block : d # r /\ fd[n] = Server(d) => n \notin {S, D}
    BY <1>3, Objects, Distinct
  <2>3. \A n \in Fd : \A i : i # <<epoch, r>> /\ fd[n] = Memory(i) => n \notin {S, D}
    BY <1>3, Objects, Distinct
  <2> QED
    BY <1>5, <2>1, <2>2, <2>3
<1>8. link' \in [Call -> LinkStates]
  BY <1>2 DEF IInv, TypeOK, LinkStates
<1>9. TypeOK'
  BY <1>2, <1>5, <1>6, <1>8 DEF IInv, TypeOK, FdOrNone
<1>10. FdOK'
  <2>1. OwnedOK'
    <3>1. ASSUME NEW d \in Block
          PROVE  /\ exported'[d] # NoFd => fd'[exported'[d]] = Memory(<<epoch', d>>)
                 /\ server'[d] # NoFd =>
                      /\ fd'[server'[d]] = Server(d)
                      /\ serves'[server'[d]] # NoFd =>
                           /\ fd'[serves'[server'[d]]] = Memory(<<epoch', d>>)
                           /\ serves'[server'[d]] # exported'[d]
                           /\ d \notin {adding', removing'}
      <4>1. CASE d = r
        BY <1>1, <1>2, <1>6, <4>1
      <4>2. CASE d # r
        <5>1. server'[d] # NoFd => fd'[server[d]] = Server(d)
          BY <1>6, <1>7, <4>2, Numbers DEF IInv, FdOK, OwnedOK
        <5>2. <<epoch, d>> # <<epoch, r>> /\ d \notin {adding', removing'}
          BY <1>1, <1>2, <4>2, Distinct
        <5>3. server'[d] # NoFd /\ serves[server[d]] # NoFd =>
                /\ fd'[serves[server[d]]] = Memory(<<epoch, d>>)
                /\ serves[server[d]] # exported[d]
          BY <1>1, <1>6, <1>7, <4>2, <5>2, Numbers DEF IInv, FdOK, OwnedOK
        <5> QED
          BY <1>1, <1>2, <1>6, <4>2, <5>1, <5>2, <5>3
      <4> QED
        BY <4>1, <4>2
    <3>2. \A s \in Fd : serves[s] # NoFd => \E d \in Block : server'[d] = s
      BY <1>3, <1>6 DEF IInv, FdOK, OwnedOK, S
    <3>3. workConn # NoFd => \E c \in Call : fd'[workConn] = Conn(c)
      BY <1>7, Numbers DEF IInv, FdOK, OwnedOK
    <3> QED
      BY <1>2, <3>1, <3>2, <3>3 DEF OwnedOK
  <2>2. InUseOK'
    <3> SUFFICES ASSUME NEW n \in Fd PROVE InUse(n)'
      BY DEF InUseOK
    <3>1. CASE fd'[n] = Closed
      BY <3>1, Objects DEF InUse
    <3>2. CASE fd'[n] = fd[n] /\ fd[n] # Closed
      <4>1. n # S /\ n # D /\ n # NoFd
        BY <1>5, <3>2, Distinct
      <4>2. InUse(n)
        BY DEF IInv, FdOK, InUseOK
      <4>3. ASSUME NEW i \in Epoch \X Block, fd[n] = Memory(i)
            PROVE  i[1] = epoch /\ server'[i[2]] # NoFd /\ serves[server'[i[2]]] = n
        BY <1>1, <1>3, <1>6, <4>1, <4>2, <4>3, Ids DEF InUse, S, D
      <4>4. ASSUME NEW b \in Block, fd[n] = Server(b)
            PROVE  server'[b] = n
        BY <1>6, <4>1, <4>2, <4>4 DEF InUse, S
      <4> QED
        BY <1>2, <3>2, <4>2, <4>3, <4>4 DEF InUse
    <3> QED
      BY <1>5, <3>1, <3>2
  <2> QED
    BY <2>1, <2>2 DEF FdOK
<1>11. PhaseOK'
  BY <1>1, <1>2, <1>6 DEF IInv, PhaseOK, S
<1>12. WorkOK'
  <2>1. \A c \in Call : workConn # NoFd /\ fd'[workConn] = Conn(c) => fd[workConn] = Conn(c)
    BY <1>5, Numbers, Objects DEF IInv
  <2>2. /\ \A i \in Epoch \X Block : workDup # NoFd /\ fd'[workDup] = Memory(i) => fd[workDup] = Memory(i)
        /\ \A b \in Block : workFd # NoFd /\ fd'[workFd] = Server(b) => fd[workFd] = Server(b)
    BY <1>5, Numbers, Objects DEF IInv
  <2>3. S = workFd /\ D = workDup /\ workDup # NoFd =>
          /\ \A b \in Block : fd'[workFd] # Server(b)
          /\ \A i \in Epoch \X Block : fd'[workDup] # Memory(i)
    BY <1>5, Objects
  <2>4. worker \in {"accept", "send"} =>
          \/ serves[workFd] = workDup
          \/ S = workFd /\ D = workDup
          \/ /\ \A b \in Block : fd[workFd] # Server(b)
             /\ \A i \in Epoch \X Block : fd[workDup] # Memory(i)
    BY DEF IInv, WorkOK, S, D, r
  <2>5. worker \in {"accept", "send"} => workFd # NoFd /\ workDup # NoFd
    BY DEF IInv, WorkOK
  <2>6. worker \in {"accept", "send"} =>
          \/ serves[workFd] = workDup
          \/ /\ \A b \in Block : fd'[workFd] # Server(b)
             /\ \A i \in Epoch \X Block : fd'[workDup] # Memory(i)
    BY <2>2, <2>3, <2>4, <2>5
  <2>7. worker = "send" => \A c \in Call : fd'[workConn] = Conn(c) =>
          /\ call[c] \in {"connected", "dead"} /\ reply[c] = Closed
          /\ \A i \in Epoch \X Block : fd'[workDup] = Memory(i) => i[2] = BlockOf(c)
    BY <2>1, <2>2, <2>5 DEF IInv, WorkOK
  <2> QED
    BY <1>1, <1>2, <2>6, <2>7 DEF IInv, WorkOK, BlockOf
<1>13. LinkOK'
  <2>1. \A c \in Call : \/ link'[c] = link[c]
                        \/ link[c] = "backlog" /\ link'[c] = "none"
    <3>1. \A c \in Waiting(S) : link[c] = "backlog"
      BY DEF Waiting
    <3> QED
      BY <1>2, <3>1
  <2>2. ASSUME NEW c \in Call, link'[c] = "backlog"
        PROVE  link[c] = "backlog" /\ server'[BlockOf(c)] # NoFd
    <3>1. link[c] = "backlog"
      BY <2>1, <2>2
    <3>2. BlockOf(c) \in Block /\ server[BlockOf(c)] # NoFd
      BY <3>1 DEF IInv, LinkOK, LinkInv
    <3>3. c \notin Waiting(S)
      BY <1>2, <2>2
    <3>4. BlockOf(c) # r
      BY <1>3, <3>1, <3>3 DEF Waiting
    <3> QED
      BY <1>6, <3>1, <3>2, <3>4
  <2>3. workConn # NoFd => fd'[workConn] = fd[workConn]
    BY <1>7, Numbers DEF IInv, FdOK, OwnedOK
  <2> QED
    BY <1>2, <2>1, <2>2, <2>3 DEF IInv, LinkOK, LinkInv, BlockOf
<1>14. CallOK'
  BY <1>1, <1>2, CallStays DEF IInv, CallOK, CallInv
<1>15. CacheOK'
  BY <1>2, CacheStays DEF IInv
<1> QED
  BY <1>9, <1>10, <1>11, <1>12, <1>13, <1>14, <1>15 DEF IInv

LEMMA StopStep == IInv /\ Stop => IInv'
<1> SUFFICES ASSUME IInv, Stop PROVE IInv'
  OBVIOUS
<1>1. phase = "removing" /\ (\A b \in Block : server[b] = NoFd) /\ removing = NoBlock
  BY DEF Stop, IInv, PhaseOK, TypeOK
<1>2. TypeOK'
  BY DEF IInv, TypeOK, Stop, Phases
<1>3. FdOK'
  BY OwnedStays DEF IInv, Stop
<1>4. PhaseOK'
  BY <1>1 DEF IInv, PhaseOK, Stop, Up
<1>5. WorkOK'
  BY WorkStays DEF IInv, Stop
<1>6. LinkOK'
  BY LinkStays DEF IInv, Stop
<1>7. CallOK'
  BY <1>1, CallStays DEF IInv, CallOK, CallInv, Stop
<1>8. CacheOK'
  BY CacheStays DEF IInv, Stop
<1> QED
  BY <1>2, <1>3, <1>4, <1>5, <1>6, <1>7, <1>8 DEF IInv

LEMMA JoinStep == IInv /\ Join => IInv'
<1> SUFFICES ASSUME IInv, Join PROVE IInv'
  OBVIOUS
<1>1. phase = "stopping" /\ worker \in {"none", "ended"}
  BY DEF Join
<1>2. TypeOK'
  BY DEF IInv, TypeOK, Join, Phases
<1>3. FdOK'
  BY OwnedStays DEF IInv, Join
<1>4. PhaseOK'
  BY <1>1 DEF IInv, PhaseOK, Join, Up
<1>5. WorkOK'
  BY <1>1 DEF IInv, WorkOK, Join
<1>6. LinkOK'
  BY LinkStays DEF IInv, Join
<1>7. CallOK'
  BY <1>1, CallStays DEF IInv, CallOK, CallInv, Join
<1>8. CacheOK'
  BY CacheStays DEF IInv, Join
<1> QED
  BY <1>2, <1>3, <1>4, <1>5, <1>6, <1>7, <1>8 DEF IInv

\* Other code of the process opens a file ...
LEMMA ForeignOpensStep == IInv /\ ForeignOpens => IInv'
<1> SUFFICES ASSUME IInv, ForeignOpens PROVE IInv'
  OBVIOUS
<1> DEFINE L == Lowest
<1>1. /\ Free # {} /\ fd' = [fd EXCEPT ![L] = Foreign]
      /\ UNCHANGED <<poolVars, serverVars, mapVars, workVars, linkVars, cacheVars, callVars>>
  BY DEF ForeignOpens
<1>2. /\ L \in Fd /\ L # NoFd /\ fd[L] = Closed
      /\ fd' \in [Fd -> Object]
      /\ fd'[L] = Foreign /\ \A n \in Fd : n # L => fd'[n] = fd[n]
      /\ \A d \in Block : exported[d] # L /\ server[d] # L
      /\ \A s \in Fd : serves[s] # L
      /\ removedFd # L /\ workConn # L
  BY <1>1, Objects, Opens DEF IInv, FdOK
<1> HIDE DEF L
<1>3. TypeOK'
  BY <1>1, <1>2 DEF IInv, TypeOK
<1>4. FdOK'
  <2>1. OwnedOK'
    BY <1>1, <1>2, Numbers DEF IInv, FdOK, OwnedOK
  <2>2. InUseOK'
    <3> SUFFICES ASSUME NEW n \in Fd PROVE InUse(n)'
      BY DEF InUseOK
    <3>1. CASE n = L
      BY <1>2, <3>1, Objects DEF InUse
    <3>2. CASE n # L
      BY <1>1, <1>2, <3>2 DEF IInv, FdOK, InUseOK, InUse
    <3> QED
      BY <3>1, <3>2
  <2> QED
    BY <2>1, <2>2 DEF FdOK
<1>5. PhaseOK'
  BY <1>1 DEF IInv, PhaseOK
<1>6. WorkOK'
  <2>1. \A n \in Fd : /\ \A i \in Epoch \X Block : fd'[n] = Memory(i) => fd[n] = Memory(i)
                      /\ \A b \in Block : fd'[n] = Server(b) => fd[n] = Server(b)
                      /\ \A c \in Call : fd'[n] = Conn(c) => fd[n] = Conn(c)
    BY <1>2, Objects
  <2> QED
    BY <1>1, <2>1, Numbers DEF IInv, WorkOK, BlockOf
<1>7. LinkOK'
  BY <1>1, <1>2, Numbers DEF IInv, LinkOK, LinkInv, BlockOf
<1>8. CallOK'
  BY <1>1, CallStays DEF IInv, CallOK, CallInv
<1>9. CacheOK'
  BY <1>1, CacheStays DEF IInv
<1> QED
  BY <1>3, <1>4, <1>5, <1>6, <1>7, <1>8, <1>9 DEF IInv

\* ... and closes it.
LEMMA ForeignClosesStep == ASSUME IInv, NEW m \in Fd, ForeignCloses(m) PROVE IInv'
<1>1. /\ fd[m] = Foreign /\ fd' = [fd EXCEPT ![m] = Closed]
      /\ UNCHANGED <<poolVars, serverVars, mapVars, workVars, linkVars, cacheVars, callVars>>
  BY DEF ForeignCloses
<1>2. /\ \A d \in Block : exported[d] # m /\ server[d] # m
      /\ \A s \in Fd : serves[s] # m
      /\ removedFd # m /\ workConn # m
  BY <1>1, OthersAreNobodys DEF IInv, FdOK
<1>3. /\ fd' \in [Fd -> Object]
      /\ fd'[m] = Closed /\ \A n \in Fd : n # m => fd'[n] = fd[n]
  BY <1>1, Objects DEF IInv, TypeOK
<1>4. TypeOK'
  BY <1>1, <1>3 DEF IInv, TypeOK
<1>5. FdOK'
  <2>1. OwnedOK'
    BY <1>1, <1>2, <1>3, Numbers DEF IInv, FdOK, OwnedOK
  <2>2. InUseOK'
    <3> SUFFICES ASSUME NEW n \in Fd PROVE InUse(n)'
      BY DEF InUseOK
    <3>1. CASE n = m
      BY <1>3, <3>1, Objects DEF InUse
    <3>2. CASE n # m
      BY <1>1, <1>3, <3>2 DEF IInv, FdOK, InUseOK, InUse
    <3> QED
      BY <3>1, <3>2
  <2> QED
    BY <2>1, <2>2 DEF FdOK
<1>6. PhaseOK'
  BY <1>1 DEF IInv, PhaseOK
<1>7. WorkOK'
  <2>1. \A n \in Fd : /\ \A i \in Epoch \X Block : fd'[n] = Memory(i) => fd[n] = Memory(i)
                      /\ \A b \in Block : fd'[n] = Server(b) => fd[n] = Server(b)
                      /\ \A c \in Call : fd'[n] = Conn(c) => fd[n] = Conn(c)
    BY <1>3, Objects
  <2> QED
    BY <1>1, <2>1, Numbers DEF IInv, WorkOK, BlockOf
<1>8. LinkOK'
  BY <1>1, <1>2, <1>3, Numbers DEF IInv, LinkOK, LinkInv, BlockOf
<1>9. CallOK'
  BY <1>1, CallStays DEF IInv, CallOK, CallInv
<1>10. CacheOK'
  BY <1>1, CacheStays DEF IInv
<1> QED
  BY <1>4, <1>5, <1>6, <1>7, <1>8, <1>9, <1>10 DEF IInv

LEMMA PublisherStep == IInv /\ Publisher => IInv'
<1> SUFFICES ASSUME IInv, Publisher PROVE IInv'
  OBVIOUS
<1>1. ASSUME NEW b \in Block, CreateBlock(b) \/ OpenServer(b) \/ Publish(b) \/ RemoveErase(b)
      PROVE  IInv'
  BY <1>1, CreateBlockStep, OpenServerStep, PublishStep, RemoveEraseStep
<1>2. ASSUME NEW n \in Fd, ForeignCloses(n)
      PROVE  IInv'
  BY <1>2, ForeignClosesStep
<1> QED
  BY <1>1, <1>2, LoadStep, AddSocketStep, UnloadStep, DrainedStep, CloseBlocksStep,
     RemoveCloseStep, StopStep, JoinStep, ForeignOpensStep DEF Publisher

-----------------------------------------------------------------------------
(* The steps of the dispatcher's thread.                                   *)

LEMMA EpollWaitStep == IInv /\ EpollWait => IInv'
<1> SUFFICES ASSUME IInv, EpollWait PROVE IInv'
  OBVIOUS
<1>1. /\ worker = "wait" /\ worker' \in {"batch", "ended"} /\ batch' \in SUBSET Fd
      /\ worker' = "ended" => ~running
  BY DEF EpollWait, IInv, TypeOK
<1>2. TypeOK'
  BY <1>1 DEF IInv, TypeOK, EpollWait, WorkerPCs
<1>3. FdOK'
  BY OwnedStays DEF IInv, EpollWait
<1>4. PhaseOK'
  BY <1>1 DEF IInv, PhaseOK, EpollWait
<1>5. WorkOK'
  BY <1>1 DEF IInv, WorkOK, EpollWait
<1>6. LinkOK'
  BY LinkStays DEF IInv, EpollWait
<1>7. CallOK'
  BY CallStays DEF IInv, CallOK, CallInv, EpollWait
<1>8. CacheOK'
  BY CacheStays DEF IInv, EpollWait
<1> QED
  BY <1>2, <1>3, <1>4, <1>5, <1>6, <1>7, <1>8 DEF IInv

LEMMA LookupStep == ASSUME IInv, NEW n \in Fd, Lookup(n) PROVE IInv'
<1>1. /\ worker = "batch" /\ batch' \in SUBSET Fd
      /\ \/ /\ serves[n] # NoFd /\ worker' = "accept" /\ workFd' = n /\ workDup' = serves[n]
         \/ UNCHANGED <<worker, workFd, workDup>>
  BY DEF Lookup, IInv, TypeOK
<1>2. n # NoFd /\ n \in FdOrNone /\ serves[n] \in FdOrNone
  BY Distinct, Numbers DEF IInv, FdOrNone
<1>3. TypeOK'
  BY <1>1, <1>2 DEF IInv, TypeOK, Lookup, WorkerPCs
<1>4. FdOK'
  BY OwnedStays DEF IInv, Lookup
<1>5. PhaseOK'
  BY <1>1 DEF IInv, PhaseOK, Lookup
<1>6. WorkOK'
  BY <1>1, <1>2 DEF IInv, WorkOK, Lookup
<1>7. LinkOK'
  BY LinkStays DEF IInv, Lookup
<1>8. CallOK'
  BY CallStays DEF IInv, CallOK, CallInv, Lookup
<1>9. CacheOK'
  BY CacheStays DEF IInv, Lookup
<1> QED
  BY <1>3, <1>4, <1>5, <1>6, <1>7, <1>8, <1>9 DEF IInv

LEMMA BatchDoneStep == IInv /\ BatchDone => IInv'
<1> SUFFICES ASSUME IInv, BatchDone PROVE IInv'
  OBVIOUS
<1>1. TypeOK'
  BY DEF IInv, TypeOK, BatchDone, WorkerPCs
<1>2. FdOK'
  BY OwnedStays DEF IInv, BatchDone
<1>3. PhaseOK'
  BY DEF IInv, PhaseOK, BatchDone
<1>4. WorkOK'
  BY DEF IInv, WorkOK, BatchDone
<1>5. LinkOK'
  BY LinkStays DEF IInv, BatchDone
<1>6. CallOK'
  BY CallStays DEF IInv, CallOK, CallInv, BatchDone
<1>7. CacheOK'
  BY CacheStays DEF IInv, BatchDone
<1> QED
  BY <1>1, <1>2, <1>3, <1>4, <1>5, <1>6, <1>7 DEF IInv

\* The thread takes a connection, or finds none where it looks.
LEMMA AcceptNothing ==
  ASSUME IInv, Accept, UNCHANGED <<fd, workConn, link>>, worker' = "batch",
         workFd' = NoFd, workDup' = NoFd
  PROVE  IInv'
<1>1. worker = "accept"
  BY DEF Accept
<1>2. workConn = NoFd
  BY <1>1 DEF IInv, WorkOK
<1>3. TypeOK'
  BY DEF IInv, TypeOK, Accept, WorkerPCs, FdOrNone
<1>4. FdOK'
  BY OwnedStays DEF IInv, Accept
<1>5. PhaseOK'
  BY <1>1 DEF IInv, PhaseOK, Accept
<1>6. WorkOK'
  BY <1>2 DEF WorkOK, Accept
<1>7. LinkOK'
  BY LinkStays DEF IInv, Accept
<1>8. CallOK'
  BY CallStays DEF IInv, CallOK, CallInv, Accept
<1>9. CacheOK'
  BY CacheStays DEF IInv, Accept
<1> QED
  BY <1>3, <1>4, <1>5, <1>6, <1>7, <1>8, <1>9 DEF IInv

LEMMA AcceptStep == IInv /\ Accept => IInv'
<1> SUFFICES ASSUME IInv, Accept PROVE IInv'
  OBVIOUS
<1> DEFINE L == Lowest
<1>1. CASE Waiting(workFd) = {} \/ Free = {}
  BY <1>1, AcceptNothing DEF Accept
<1>2. CASE ~(Waiting(workFd) = {} \/ Free = {})
  <2>1. PICK c \in Waiting(workFd) :
          /\ fd' = [fd EXCEPT ![L] = Conn(c)]
          /\ link' = [link EXCEPT ![c] = "accepted"]
          /\ workConn' = L /\ worker' = "send"
          /\ UNCHANGED <<workFd, workDup>>
    BY <1>2 DEF Accept
  <2>2. /\ worker = "accept" /\ Free # {}
        /\ UNCHANGED <<poolVars, serverVars, mapVars, batch, reply, cacheVars, callVars>>
    BY <1>2 DEF Accept
  <2>3. c \in Call /\ link[c] = "backlog" /\ fd[workFd] = Server(BlockOf(c))
    BY DEF Waiting
  <2>4. /\ L \in Fd /\ L # NoFd /\ fd[L] = Closed
        /\ fd' \in [Fd -> Object]
        /\ fd'[L] = Conn(c) /\ \A n \in Fd : n # L => fd'[n] = fd[n]
        /\ \A d \in Block : exported[d] # L /\ server[d] # L
        /\ \A s \in Fd : serves[s] # L
        /\ removedFd # L /\ workConn # L
    BY <2>1, <2>2, <2>3, Objects, Opens DEF IInv, FdOK
  <2> HIDE DEF L
  <2>5. /\ workConn = NoFd /\ workFd # NoFd /\ workDup # NoFd
        /\ workFd \in Fd /\ workDup \in Fd
    BY <2>2, Numbers DEF IInv, WorkOK
  <2>6. /\ link' \in [Call -> LinkStates] /\ link'[c] = "accepted"
        /\ \A d \in Call : d # c => link'[d] = link[d]
    BY <2>1, <2>3 DEF IInv, TypeOK, LinkStates
  <2>7. \A n \in Fd, d \in Call : fd[n] # Conn(d)
    BY <2>5, Distinct DEF IInv, FdOK, InUseOK, InUse
  <2>8. call[c] \in {"connected", "dead"} /\ reply[c] = Closed /\ BlockOf(c) \in Block
    BY <2>3 DEF IInv, LinkOK, LinkInv
  \* What the duplicate stands for: it was found under the socket's number.
  <2>9. \/ serves[workFd] = workDup
        \/ removing # NoBlock /\ server[removing] = workFd /\ removedFd = workDup
    BY <2>2, <2>3, <2>8 DEF IInv, WorkOK
  <2>10. server[BlockOf(c)] = workFd
    BY <2>3, <2>5, <2>8 DEF IInv, FdOK, InUseOK, InUse
  <2>11. ASSUME NEW i \in Epoch \X Block, fd[workDup] = Memory(i)
         PROVE  i[2] = BlockOf(c)
    <3>1. CASE serves[workFd] = workDup
      <4>1. fd[workDup] = Memory(<<epoch, BlockOf(c)>>)
        BY <2>5, <2>8, <2>10, <3>1 DEF IInv, FdOK, OwnedOK
      <4>2. i = <<epoch, BlockOf(c)>>
        BY <2>11, <4>1, Objects
      <4> QED
        BY <4>2
    <3>2. CASE removing # NoBlock /\ server[removing] = workFd /\ removedFd = workDup
      <4>1. removing \in Block /\ fd[workDup] = Memory(<<epoch, removing>>)
        BY <2>5, <3>2 DEF IInv, FdOK, OwnedOK
      <4>2. fd[workFd] = Server(removing)
        BY <2>5, <3>2, <4>1 DEF IInv, FdOK, OwnedOK
      <4>3. removing = BlockOf(c)
        BY <2>3, <4>2, Objects
      <4>4. i = <<epoch, removing>>
        BY <2>11, <4>1, Objects
      <4> QED
        BY <4>3, <4>4
    <3> QED
      BY <2>9, <2>11, <3>1, <3>2
  <2>12. TypeOK'
    BY <2>1, <2>2, <2>4, <2>5, <2>6 DEF IInv, TypeOK, WorkerPCs, FdOrNone
  <2>13. FdOK'
    <3>1. OwnedOK'
      BY <2>1, <2>2, <2>3, <2>4, Numbers DEF IInv, FdOK, OwnedOK
    <3>2. InUseOK'
      <4> SUFFICES ASSUME NEW n \in Fd PROVE InUse(n)'
        BY DEF InUseOK
      <4>1. CASE n = L
        BY <2>1, <2>2, <2>4, <4>1, Objects DEF InUse
      <4>2. CASE n # L
        BY <2>1, <2>2, <2>4, <2>7, <4>2 DEF IInv, FdOK, InUseOK, InUse
      <4> QED
        BY <4>1, <4>2
    <3> QED
      BY <3>1, <3>2 DEF FdOK
  <2>14. PhaseOK'
    BY <2>1, <2>2 DEF IInv, PhaseOK
  <2>15. WorkOK'
    <3>1. workDup # L
      BY <2>4, <2>5, <2>9
    <3> QED
      BY <2>1, <2>2, <2>4, <2>5, <2>8, <2>11, <3>1, Objects DEF IInv, WorkOK, BlockOf
  <2>16. LinkOK'
    BY <2>1, <2>2, <2>4, <2>5, <2>6, <2>8, Objects DEF IInv, LinkOK, LinkInv, BlockOf
  <2>17. CallOK'
    BY <2>2, CallStays DEF IInv, CallOK, CallInv
  <2>18. CacheOK'
    BY <2>2, CacheStays DEF IInv
  <2> QED
    BY <2>12, <2>13, <2>14, <2>15, <2>16, <2>17, <2>18 DEF IInv
<1> QED
  BY <1>1, <1>2

LEMMA SendFdStep == IInv /\ SendFd => IInv'
<1> SUFFICES ASSUME IInv, SendFd PROVE IInv'
  OBVIOUS
<1>1. PICK c \in Call : /\ fd[workConn] = Conn(c)
                        /\ fd[workDup] # Closed => call[c] # "dead"
                        /\ reply' = [reply EXCEPT ![c] = fd[workDup]]
  BY DEF SendFd
<1>2. /\ worker = "send" /\ worker' = "finish"
      /\ UNCHANGED <<poolVars, fd, serverVars, mapVars, batch, workFd, workDup, workConn,
                     link, cacheVars, callVars>>
  BY DEF SendFd
<1>3. workConn # NoFd /\ workDup \in Fd /\ fd[workDup] \in Object
  BY <1>2, Numbers DEF IInv, WorkOK
<1>4. /\ reply' \in [Call -> Object] /\ reply'[c] = fd[workDup]
      /\ \A d \in Call : d # c => reply'[d] = reply[d]
  BY <1>1, <1>3 DEF IInv, TypeOK
<1>5. call[c] \in {"connected", "dead"} /\ link[c] = "accepted"
  BY <1>1, <1>2, <1>3 DEF IInv, WorkOK, LinkOK, LinkInv
<1>6. TypeOK'
  BY <1>2, <1>4 DEF IInv, TypeOK, WorkerPCs
<1>7. FdOK'
  BY <1>2, OwnedStays DEF IInv
<1>8. PhaseOK'
  BY <1>2 DEF IInv, PhaseOK
<1>9. WorkOK'
  BY <1>2 DEF IInv, WorkOK
<1>10. LinkOK'
  BY <1>1, <1>2, <1>4, <1>5 DEF IInv, LinkOK, LinkInv, BlockOf
<1>11. CallOK'
  <2>1. ASSUME Seen(c), call[c] = "connected", NEW i \in Epoch \X Block, fd[workDup] = Memory(i)
        PROVE  i = msg[c]
    <3>1. i[2] = BlockOf(c)
      BY <1>1, <1>2, <2>1 DEF IInv, WorkOK
    <3>2. i[1] = epoch
      BY <1>3, <2>1 DEF IInv, FdOK, InUseOK, InUse
    <3>3. seg[c] = epoch /\ seg[c] # 0 /\ seg[c] = EpochOf(c) /\ msg[c] \in Epoch \X Block
      BY <2>1 DEF IInv, CallOK, CallInv, Seen, Counting
    <3> QED
      BY <3>1, <3>2, <3>3 DEF BlockOf, EpochOf
  <2>2. \A d \in Call : Seen(d)' <=> Seen(d)
    BY <1>2 DEF Seen
  <2> SUFFICES ASSUME NEW d \in Call PROVE CallInv(d)'
    BY DEF CallOK
  <2>3. CallInv(d)
    BY DEF IInv, CallOK
  <2>4. CASE d = c
    BY <1>2, <1>4, <2>1, <2>2, <2>3, <2>4 DEF CallInv, EpochOf
  <2>5. CASE d # c
    BY <1>2, <1>4, <2>2, <2>3, <2>5 DEF CallInv, EpochOf
  <2> QED
    BY <2>4, <2>5
<1>12. CacheOK'
  BY <1>2, CacheStays DEF IInv
<1> QED
  BY <1>6, <1>7, <1>8, <1>9, <1>10, <1>11, <1>12 DEF IInv

\* The process is killed: the kernel closes everything.
LEMMA SendToGoneStep == IInv /\ SendToGone => IInv'
<1> SUFFICES ASSUME IInv, SendToGone PROVE IInv'
  OBVIOUS
<1>1. phase # "unloaded" /\ epoch \in Epoch
  BY DEF SendToGone, IInv, PhaseOK
<1>2. TypeOK'
  BY Objects DEF IInv, TypeOK, SendToGone, Phases, WorkerPCs, FdOrNone, LinkStates
<1>3. FdOK'
  <2>1. OwnedOK'
    BY DEF OwnedOK, SendToGone
  <2>2. InUseOK'
    BY Objects DEF InUseOK, InUse, SendToGone
  <2> QED
    BY <2>1, <2>2 DEF FdOK
<1>4. PhaseOK'
  BY <1>1 DEF PhaseOK, SendToGone
<1>5. WorkOK'
  BY DEF WorkOK, SendToGone
<1>6. LinkOK'
  BY DEF IInv, LinkOK, LinkInv, SendToGone
<1>7. CallOK'
  BY CallStays DEF IInv, SendToGone
<1>8. CacheOK'
  BY CacheStays DEF IInv, SendToGone
<1> QED
  BY <1>2, <1>3, <1>4, <1>5, <1>6, <1>7, <1>8 DEF IInv

LEMMA FinishStep == IInv /\ Finish => IInv'
<1> SUFFICES ASSUME IInv, Finish PROVE IInv'
  OBVIOUS
<1> DEFINE w == workConn
<1>1. PICK c \in Call : /\ fd[w] = Conn(c)
                        /\ fd' = [fd EXCEPT ![w] = Closed]
                        /\ link' = [link EXCEPT ![c] = "none"]
  BY DEF Finish
<1>2. /\ worker = "finish" /\ worker' = "batch"
      /\ workFd' = NoFd /\ workDup' = NoFd /\ workConn' = NoFd
      /\ UNCHANGED <<poolVars, serverVars, mapVars, batch, reply, cacheVars, callVars>>
  BY DEF Finish
<1>3. w \in Fd /\ w # NoFd
  BY <1>2, Numbers DEF IInv, WorkOK
<1>4. /\ fd' \in [Fd -> Object] /\ fd'[w] = Closed
      /\ \A n \in Fd : n # w => fd'[n] = fd[n]
  BY <1>1, <1>3, Objects DEF IInv, TypeOK
<1>5. /\ link' \in [Call -> LinkStates] /\ link'[c] = "none"
      /\ \A d \in Call : d # c => link'[d] = link[d]
  BY <1>1 DEF IInv, TypeOK, LinkStates
<1>6. \A n \in Fd, d \in Call : n # w => fd[n] # Conn(d)
  BY DEF IInv, FdOK, InUseOK, InUse
<1>7. \A d \in Call : fd[w] = Conn(d) => d = c
  BY <1>1, Objects
<1>8. /\ \A n \in Fd, d \in Block : fd[n] = Server(d) => n # w
      /\ \A n \in Fd : \A i : fd[n] = Memory(i) => n # w
  BY <1>1, Objects
<1> HIDE DEF w
<1>9. TypeOK'
  BY <1>2, <1>4, <1>5 DEF IInv, TypeOK, WorkerPCs, FdOrNone
<1>10. FdOK'
  <2>1. OwnedOK'
    <3>1. ASSUME NEW d \in Block
          PROVE  /\ exported[d] # NoFd => fd'[exported[d]] = Memory(<<epoch, d>>)
                 /\ server[d] # NoFd =>
                      /\ fd'[server[d]] = Server(d)
                      /\ serves[server[d]] # NoFd =>
                           /\ fd'[serves[server[d]]] = Memory(<<epoch, d>>)
                           /\ serves[server[d]] # exported[d]
                           /\ d \notin {adding, removing}
      BY <1>4, <1>8, Numbers DEF IInv, FdOK, OwnedOK
    <3>2. /\ \A s \in Fd : serves[s] # NoFd => \E b \in Block : server[b] = s
          /\ removedFd # NoFd => removing \in Block /\ fd'[removedFd] = Memory(<<epoch, removing>>)
      BY <1>4, <1>8, Numbers DEF IInv, FdOK, OwnedOK
    <3> QED
      BY <1>2, <3>1, <3>2 DEF OwnedOK
  <2>2. InUseOK'
    <3> SUFFICES ASSUME NEW n \in Fd PROVE InUse(n)'
      BY DEF InUseOK
    <3>1. CASE n = w
      BY <1>4, <3>1, Objects DEF InUse
    <3>2. CASE n # w
      BY <1>2, <1>4, <1>6, <3>2 DEF IInv, FdOK, InUseOK, InUse
    <3> QED
      BY <3>1, <3>2
  <2> QED
    BY <2>1, <2>2 DEF FdOK
<1>11. PhaseOK'
  BY <1>2 DEF IInv, PhaseOK
<1>12. WorkOK'
  BY <1>2 DEF WorkOK
<1>13. LinkOK'
  <2>1. \A d \in Call : link'[d] # "accepted"
    BY <1>3, <1>5, <1>7 DEF IInv, LinkOK, LinkInv, w
  <2> QED
    BY <1>2, <1>5, <2>1 DEF IInv, LinkOK, LinkInv, BlockOf
<1>14. CallOK'
  BY <1>2, CallStays DEF IInv, CallOK, CallInv
<1>15. CacheOK'
  BY <1>2, CacheStays DEF IInv
<1> QED
  BY <1>9, <1>10, <1>11, <1>12, <1>13, <1>14, <1>15 DEF IInv

LEMMA WorkerStep == IInv /\ Worker => IInv'
<1> SUFFICES ASSUME IInv, Worker PROVE IInv'
  OBVIOUS
<1>1. ASSUME NEW n \in Fd, Lookup(n)
      PROVE  IInv'
  BY <1>1, LookupStep
<1> QED
  BY <1>1, EpollWaitStep, BatchDoneStep, AcceptStep, SendFdStep, SendToGoneStep, FinishStep
     DEF Worker

-----------------------------------------------------------------------------
(* The steps of the subscriber.                                            *)

\* A call that is not about to get its answer changes nothing for the publisher.
LEMMA PublisherStays ==
  ASSUME IInv, NEW c \in Call, UNCHANGED publisherVars,
         call[c] \notin {"connected", "dead"} \/ reply[c] # Closed \/ link[c] # "accepted",
         \A d \in Call : d # c => call'[d] = call[d] /\ reply'[d] = reply[d] /\ msg'[d] = msg[d]
  PROVE  FdOK' /\ PhaseOK' /\ WorkOK'
<1>1. FdOK'
  BY OwnedStays DEF IInv
<1>2. PhaseOK'
  BY DEF IInv, PhaseOK
<1>3. WorkOK'
  <2>1. worker = "send" => fd[workConn] # Conn(c)
    <3>1. worker = "send" /\ fd[workConn] = Conn(c) =>
            call[c] \in {"connected", "dead"} /\ reply[c] = Closed /\ workConn # NoFd
      BY DEF IInv, WorkOK
    <3>2. workConn # NoFd /\ fd[workConn] = Conn(c) => link[c] = "accepted"
      BY DEF IInv, LinkOK, LinkInv
    <3> QED
      BY <3>1, <3>2
  <2> QED
    BY <2>1 DEF IInv, WorkOK, BlockOf
<1> QED
  BY <1>1, <1>2, <1>3

\* Nor for the other calls.
LEMMA OthersStay ==
  ASSUME IInv, NEW c \in Call, UNCHANGED publisherVars,
         \A d \in Call : d # c =>
           /\ link'[d] = link[d] /\ reply'[d] = reply[d] /\ call'[d] = call[d]
           /\ msg'[d] = msg[d] /\ seg'[d] = seg[d] /\ memory'[d] = memory[d]
           /\ d \in counted' <=> d \in counted
           /\ d \in late' <=> d \in late,
         LinkInv(c)', CallInv(c)'
  PROVE  LinkOK' /\ CallOK'
<1>1. ASSUME NEW d \in Call, d # c
      PROVE  LinkInv(d)'
  BY <1>1 DEF IInv, LinkOK, LinkInv, BlockOf
<1>2. ASSUME NEW d \in Call, d # c
      PROVE  CallInv(d)'
  <2>1. Seen(d)' <=> Seen(d)
    BY <1>2 DEF Seen
  <2> QED
    BY <1>2, <2>1 DEF IInv, CallOK, CallInv, EpochOf
<1> QED
  BY <1>1, <1>2 DEF LinkOK, CallOK

\* What a call that leaves is left with.
LEMMA LeavesStep ==
  ASSUME IInv, NEW c \in Call, Leave(c), UNCHANGED <<publisherVars, link, cacheVars, alive, leaked>>,
         call[c] \in {"find", "check", "connect", "connected", "mapped"},
         call[c] # "connected" \/ reply[c] # Closed \/ link[c] = "none",
         holder' \in {holder, NoCall},
         memory' \in [Call -> Id], \A d \in Call : d # c => memory'[d] = memory[d]
  PROVE  IInv'
<1>1. /\ call' \in [Call -> CallStates] /\ call'[c] = "done"
      /\ msg' \in [Call -> Id]
      /\ seg' \in [Call -> Epoch0] /\ seg'[c] = 0
      /\ counted' \in SUBSET Call /\ c \notin counted' /\ late' \in SUBSET Call
      /\ reply' \in [Call -> Object] /\ reply'[c] = Closed
  BY Ids, Objects, Distinct DEF Leave, IInv, TypeOK, CallStates
<1>2. \A d \in Call : d # c =>
        /\ reply'[d] = reply[d] /\ call'[d] = call[d]
        /\ msg'[d] = msg[d] /\ seg'[d] = seg[d]
        /\ d \in counted' <=> d \in counted
        /\ d \in late' <=> d \in late
  BY DEF Leave, IInv, TypeOK
<1>3. TypeOK'
  BY <1>1 DEF IInv, TypeOK
<1>4. FdOK' /\ PhaseOK' /\ WorkOK'
  BY <1>2, PublisherStays
<1>5. LinkInv(c)'
  <2>1. LinkInv(c)
    BY DEF IInv, LinkOK
  <2>2. link[c] # "backlog"
    BY <2>1 DEF LinkInv
  <2> QED
    BY <1>1, <2>1, <2>2 DEF LinkInv
<1>6. CallInv(c)'
  BY <1>1 DEF CallInv, Seen, Counting
<1>7. LinkOK' /\ CallOK'
  BY <1>2, <1>5, <1>6, OthersStay
<1>8. CacheOK'
  BY CacheStays DEF IInv
<1> QED
  BY <1>3, <1>4, <1>7, <1>8 DEF IInv

LEMMA ArriveStep == ASSUME IInv, NEW c \in Call, NEW i \in Id, Arrive(c, i) PROVE IInv'
<1>1. /\ call[c] = "idle" /\ i \in Epoch \X Block
      /\ UNCHANGED <<publisherVars, linkVars, cacheVars, alive, holder, seg, counted,
                     memory, leaked, late>>
  BY DEF Arrive, IInv, TypeOK
<1>2. /\ call' \in [Call -> CallStates] /\ call'[c] = "lock"
      /\ msg' \in [Call -> Id] /\ msg'[c] = i
      /\ \A d \in Call : d # c => call'[d] = call[d] /\ msg'[d] = msg[d]
  BY DEF Arrive, IInv, TypeOK, CallStates
<1>3. TypeOK'
  BY <1>1, <1>2 DEF IInv, TypeOK
<1>4. FdOK' /\ PhaseOK' /\ WorkOK'
  BY <1>1, <1>2, PublisherStays
<1>5. LinkInv(c)'
  BY <1>1, <1>2 DEF IInv, LinkOK, LinkInv
<1>6. CallInv(c)'
  BY <1>1, <1>2 DEF IInv, CallOK, CallInv, Seen, Counting
<1>7. LinkOK' /\ CallOK'
  BY <1>1, <1>2, <1>5, <1>6, OthersStay
<1>8. CacheOK'
  BY <1>1, CacheStays DEF IInv
<1> QED
  BY <1>3, <1>4, <1>7, <1>8 DEF IInv

LEMMA LockStep == ASSUME IInv, NEW c \in Call, Lock(c) PROVE IInv'
<1>1. /\ call[c] = "lock" /\ holder' = c
      /\ UNCHANGED <<publisherVars, linkVars, cacheVars, alive, msg, seg, counted,
                     memory, leaked, late>>
  BY DEF Lock
<1>2. /\ call' \in [Call -> CallStates] /\ call'[c] = "find"
      /\ \A d \in Call : d # c => call'[d] = call[d]
  BY DEF Lock, IInv, TypeOK, CallStates
<1>3. TypeOK'
  BY <1>1, <1>2 DEF IInv, TypeOK
<1>4. FdOK' /\ PhaseOK' /\ WorkOK'
  BY <1>1, <1>2, PublisherStays
<1>5. LinkInv(c)'
  BY <1>1, <1>2 DEF IInv, LinkOK, LinkInv
<1>6. CallInv(c)'
  BY <1>1, <1>2 DEF IInv, CallOK, CallInv, Seen, Counting
<1>7. LinkOK' /\ CallOK'
  BY <1>1, <1>2, <1>5, <1>6, OthersStay
<1>8. CacheOK'
  BY <1>1, CacheStays DEF IInv
<1> QED
  BY <1>3, <1>4, <1>7, <1>8 DEF IInv

\* The cache's entry is of the epoch of its metadata, which is the descriptor's.
LEMMA CachedStep == ASSUME IInv, NEW c \in Call, Cached(c) PROVE IInv'
<1> DEFINE b == BlockOf(c)
           e == cacheSeg[b]
<1>1. /\ call[c] = "find" /\ cacheMem[b] # NoId
      /\ UNCHANGED <<publisherVars, link, cacheVars, alive, leaked>>
  BY DEF Cached
<1>2. msg[c] \in Epoch \X Block /\ b \in Block /\ msg[c] = <<EpochOf(c), b>>
  BY <1>1, Ids DEF IInv, CallOK, CallInv, BlockOf, EpochOf
<1>3. cacheMem[b] \in Id /\ e \in Epoch0
  BY <1>2 DEF IInv, TypeOK
<1>4. CASE Stale(c, e)
  <2>1. Fail(c)
    BY <1>4 DEF Cached
  <2>2. /\ Leave(c) /\ holder' = NoCall /\ memory' \in [Call -> Id]
        /\ \A d \in Call : d # c => memory'[d] = memory[d]
    BY <2>1 DEF Fail, IInv, TypeOK
  <2> QED
    BY <1>1, <2>2, LeavesStep
<1>5. CASE ~Stale(c, e)
  <2>1. /\ call' = [call EXCEPT ![c] = "mapped"]
        /\ memory' = [memory EXCEPT ![c] = cacheMem[b]]
        /\ seg' = [seg EXCEPT ![c] = e]
        /\ counted' = IF e = 0 THEN counted ELSE counted \cup {c}
        /\ holder' = NoCall
        /\ late' = IF b \in lateEntry THEN late \cup {c} ELSE late
        /\ UNCHANGED <<msg, reply>>
    BY <1>5 DEF Cached
  <2>2. e = 0 \/ e = EpochOf(c)
    BY <1>5 DEF Stale
  <2>3. e # 0 /\ b \notin lateEntry => cacheMem[b] = msg[c]
    BY <1>1, <1>2, <2>2 DEF IInv, CacheOK
  <2>4. c \notin counted
    BY <1>1 DEF IInv, CallOK, CallInv, Counting
  <2> HIDE DEF b, e
  <2>5. /\ call' \in [Call -> CallStates] /\ call'[c] = "mapped"
        /\ memory' \in [Call -> Id] /\ memory'[c] = cacheMem[b]
        /\ seg' \in [Call -> Epoch0] /\ seg'[c] = e
        /\ counted' \in SUBSET Call /\ late' \in SUBSET Call
        /\ \A d \in Call : d # c =>
             /\ call'[d] = call[d] /\ memory'[d] = memory[d] /\ seg'[d] = seg[d]
             /\ d \in counted' <=> d \in counted
             /\ d \in late' <=> d \in late
    BY <1>3, <2>1 DEF IInv, TypeOK, CallStates
  <2>6. TypeOK'
    BY <1>1, <2>1, <2>5 DEF IInv, TypeOK
  <2>7. FdOK' /\ PhaseOK' /\ WorkOK'
    BY <1>1, <2>1, <2>5, PublisherStays
  <2>8. LinkInv(c)'
    BY <1>1, <2>1, <2>5 DEF IInv, LinkOK, LinkInv
  <2>9. CallInv(c)'
    <3>1. c \in counted' <=> e # 0
      BY <2>1, <2>4
    <3>2. c \notin late' => b \notin lateEntry
      BY <2>1
    <3> QED
      BY <1>2, <2>1, <2>2, <2>3, <2>5, <3>1, <3>2 DEF CallInv, Seen, Counting, EpochOf
  <2>10. LinkOK' /\ CallOK'
    BY <1>1, <2>1, <2>5, <2>8, <2>9, OthersStay
  <2>11. CacheOK'
    BY <1>1, CacheStays DEF IInv
  <2> QED
    BY <2>6, <2>7, <2>10, <2>11 DEF IInv
<1> QED
  BY <1>4, <1>5

LEMMA OpenSegmentStep == ASSUME IInv, NEW c \in Call, OpenSegment(c) PROVE IInv'
<1>1. /\ call[c] = "find"
      /\ UNCHANGED <<publisherVars, linkVars, cacheVars, alive, holder, msg, counted,
                     memory, leaked, late>>
  BY DEF OpenSegment
<1>2. \E e \in Epoch0 : seg' = [seg EXCEPT ![c] = e]
  BY Distinct DEF OpenSegment, IInv, TypeOK
<1>3. /\ call' \in [Call -> CallStates] /\ call'[c] = "open"
      /\ seg' \in [Call -> Epoch0]
      /\ \A d \in Call : d # c => call'[d] = call[d] /\ seg'[d] = seg[d]
  BY <1>2 DEF OpenSegment, IInv, TypeOK, CallStates
<1>4. TypeOK'
  BY <1>1, <1>3 DEF IInv, TypeOK
<1>5. FdOK' /\ PhaseOK' /\ WorkOK'
  BY <1>1, <1>3, PublisherStays
<1>6. LinkInv(c)'
  BY <1>1, <1>3 DEF IInv, LinkOK, LinkInv
<1>7. CallInv(c)'
  BY <1>1, <1>3 DEF IInv, CallOK, CallInv, Seen, Counting
<1>8. LinkOK' /\ CallOK'
  BY <1>1, <1>3, <1>6, <1>7, OthersStay
<1>9. CacheOK'
  BY <1>1, CacheStays DEF IInv
<1> QED
  BY <1>4, <1>5, <1>8, <1>9 DEF IInv

LEMMA CountStep == ASSUME IInv, NEW c \in Call, Count(c) PROVE IInv'
<1>1. /\ call[c] = "open"
      /\ counted' = IF seg[c] = 0 THEN counted ELSE counted \cup {c}
      /\ late' = IF seg[c] # 0 /\ ~Watched(seg[c]) THEN late \cup {c} ELSE late
      /\ UNCHANGED <<publisherVars, linkVars, cacheVars, alive, holder, msg, seg,
                     memory, leaked>>
  BY DEF Count
<1>2. /\ call' \in [Call -> CallStates] /\ call'[c] = "check"
      /\ counted' \in SUBSET Call /\ late' \in SUBSET Call
      /\ \A d \in Call : d # c =>
           /\ call'[d] = call[d]
           /\ d \in counted' <=> d \in counted
           /\ d \in late' <=> d \in late
  BY <1>1 DEF Count, IInv, TypeOK, CallStates
<1>3. TypeOK'
  BY <1>1, <1>2 DEF IInv, TypeOK
<1>4. FdOK' /\ PhaseOK' /\ WorkOK'
  BY <1>1, <1>2, PublisherStays
<1>5. LinkInv(c)'
  BY <1>1, <1>2 DEF IInv, LinkOK, LinkInv
<1>6. CallInv(c)'
  <2>1. c \notin counted /\ msg[c] \in Epoch \X Block
    BY <1>1 DEF IInv, CallOK, CallInv, Counting
  <2>2. c \in counted' <=> seg[c] # 0
    BY <1>1, <2>1
  <2>3. c \in counted' /\ c \notin late' => seg[c] = epoch /\ phase \in {"loaded", "draining"}
    BY <1>1, <2>1 DEF Watched
  <2> QED
    BY <1>1, <1>2, <2>1, <2>2, <2>3 DEF CallInv, Seen, Counting
<1>7. LinkOK' /\ CallOK'
  BY <1>1, <1>2, <1>5, <1>6, OthersStay
<1>8. CacheOK'
  BY <1>1, CacheStays DEF IInv
<1> QED
  BY <1>3, <1>4, <1>7, <1>8 DEF IInv

LEMMA CheckStaleStep == ASSUME IInv, NEW c \in Call, CheckStale(c) PROVE IInv'
<1>1. CASE Stale(c, seg[c])
  <2>1. /\ call[c] = "check" /\ Fail(c)
        /\ UNCHANGED <<publisherVars, link, cacheVars, alive, leaked>>
    BY <1>1 DEF CheckStale
  <2>2. /\ Leave(c) /\ holder' = NoCall /\ memory' \in [Call -> Id]
        /\ \A d \in Call : d # c => memory'[d] = memory[d]
    BY <2>1 DEF Fail, IInv, TypeOK
  <2> QED
    BY <2>1, <2>2, LeavesStep
<1>2. CASE ~Stale(c, seg[c])
  <2>1. /\ call[c] = "check" /\ call' = [call EXCEPT ![c] = "connect"]
        /\ UNCHANGED <<publisherVars, linkVars, cacheVars, alive, holder, msg, seg, counted,
                       memory, leaked, late>>
    BY <1>2 DEF CheckStale
  <2>2. seg[c] \in {0, EpochOf(c)}
    BY <1>2 DEF Stale
  <2>3. /\ call' \in [Call -> CallStates] /\ call'[c] = "connect"
        /\ \A d \in Call : d # c => call'[d] = call[d]
    BY <2>1 DEF IInv, TypeOK, CallStates
  <2>4. TypeOK'
    BY <2>1, <2>3 DEF IInv, TypeOK
  <2>5. FdOK' /\ PhaseOK' /\ WorkOK'
    BY <2>1, <2>3, PublisherStays
  <2>6. LinkInv(c)'
    BY <2>1, <2>3 DEF IInv, LinkOK, LinkInv
  <2>7. CallInv(c)'
    BY <2>1, <2>2, <2>3 DEF IInv, CallOK, CallInv, Seen, Counting, EpochOf
  <2>8. LinkOK' /\ CallOK'
    BY <2>1, <2>3, <2>6, <2>7, OthersStay
  <2>9. CacheOK'
    BY <2>1, CacheStays DEF IInv
  <2> QED
    BY <2>4, <2>5, <2>8, <2>9 DEF IInv
<1> QED
  BY <1>1, <1>2

\* Whoever listens on the name has the block's number.
LEMMA ConnectStep == ASSUME IInv, NEW c \in Call, Connect(c) PROVE IInv'
<1>1. /\ call[c] = "connect"
      /\ UNCHANGED <<publisherVars, reply, cacheVars, alive, holder, msg, seg, counted,
                     memory, leaked, late>>
  BY DEF Connect
<1>2. PICK n \in Fd : fd[n] = Server(BlockOf(c))
  BY DEF Connect
<1>3. /\ call' \in [Call -> CallStates] /\ call'[c] = "connected"
      /\ link' \in [Call -> LinkStates] /\ link'[c] = "backlog"
      /\ \A d \in Call : d # c => call'[d] = call[d] /\ link'[d] = link[d]
  BY DEF Connect, IInv, TypeOK, CallStates, LinkStates
<1>4. BlockOf(c) \in Block
  BY <1>1, Ids DEF IInv, CallOK, CallInv, Counting, BlockOf
<1>5. server[BlockOf(c)] # NoFd
  BY <1>2, <1>4, Distinct DEF IInv, FdOK, InUseOK, InUse
<1>6. TypeOK'
  BY <1>1, <1>3 DEF IInv, TypeOK
<1>7. FdOK' /\ PhaseOK' /\ WorkOK'
  BY <1>1, <1>3, PublisherStays
<1>8. LinkInv(c)'
  BY <1>1, <1>3, <1>4, <1>5 DEF IInv, LinkOK, LinkInv, BlockOf
<1>9. CallInv(c)'
  <2>1. \A i \in Epoch \X Block : reply[c] # Memory(i)
    BY <1>1, Objects DEF IInv, LinkOK, LinkInv
  <2> QED
    BY <1>1, <1>3, <2>1 DEF IInv, CallOK, CallInv, Seen, Counting, EpochOf
<1>10. LinkOK' /\ CallOK'
  BY <1>1, <1>3, <1>8, <1>9, OthersStay
<1>11. CacheOK'
  BY <1>1, CacheStays DEF IInv
<1> QED
  BY <1>6, <1>7, <1>10, <1>11 DEF IInv

LEMMA FailsStep ==
  ASSUME IInv, NEW c \in Call, ConnectFails(c) \/ ReceiveFails(c) \/ Drop(c)
  PROVE  IInv'
<1>1. /\ Leave(c) /\ UNCHANGED <<publisherVars, link, cacheVars, alive, leaked>>
      /\ call[c] \in {"connect", "connected", "mapped"}
      /\ call[c] # "connected" \/ reply[c] # Closed \/ link[c] = "none"
      /\ holder' \in {holder, NoCall}
  BY DEF ConnectFails, ReceiveFails, Drop, Fail
<1>2. memory' = memory \/ memory' = [memory EXCEPT ![c] = NoId]
  BY DEF ConnectFails, ReceiveFails, Drop, Fail
<1>3. memory' \in [Call -> Id] /\ \A d \in Call : d # c => memory'[d] = memory[d]
  BY <1>2, Ids DEF IInv, TypeOK
<1> QED
  BY <1>1, <1>3, LeavesStep

\* The memory enters the cache with the segment the call has counted in.
LEMMA ReceiveStep == ASSUME IInv, NEW c \in Call, Receive(c) PROVE IInv'
<1> DEFINE b == BlockOf(c)
<1>1. PICK i \in Epoch \X Block :
        /\ reply[c] = Memory(i)
        /\ memory' = [memory EXCEPT ![c] = i]
        /\ cacheMem' = [cacheMem EXCEPT ![b] = i]
  BY DEF Receive
<1>2. /\ call[c] = "connected"
      /\ cacheSeg' = [cacheSeg EXCEPT ![b] = seg[c]]
      /\ lateEntry' = IF c \in late THEN lateEntry \cup {b} ELSE lateEntry
      /\ holder' = NoCall
      /\ UNCHANGED <<publisherVars, linkVars, alive, msg, seg, counted, leaked, late>>
  BY DEF Receive
<1>3. msg[c] \in Epoch \X Block /\ b \in Block /\ msg[c] = <<EpochOf(c), b>>
  BY <1>2, Ids DEF IInv, CallOK, CallInv, Counting, BlockOf, EpochOf
<1>4. reply[c] # Closed /\ i \in Id
  BY <1>1, Objects, Ids
<1>5. seg[c] # 0 /\ c \notin late => i = msg[c]
  BY <1>1, <1>2 DEF IInv, CallOK, CallInv, Seen, Counting
<1>6. seg[c] \in {0, EpochOf(c)} /\ seg[c] \in Epoch0 /\ (c \in counted <=> seg[c] # 0)
  BY <1>2 DEF IInv, TypeOK, CallOK, CallInv, Counting
<1> HIDE DEF b
<1>7. /\ call' \in [Call -> CallStates] /\ call'[c] = "mapped"
      /\ memory' \in [Call -> Id] /\ memory'[c] = i
      /\ \A d \in Call : d # c => call'[d] = call[d] /\ memory'[d] = memory[d]
  BY <1>1, <1>4 DEF Receive, IInv, TypeOK, CallStates
<1>8. /\ cacheMem' \in [Block -> Id] /\ cacheMem'[b] = i
      /\ cacheSeg' \in [Block -> Epoch0] /\ cacheSeg'[b] = seg[c]
      /\ lateEntry' \in SUBSET Block
      /\ \A d \in Block : d # b =>
           /\ cacheMem'[d] = cacheMem[d] /\ cacheSeg'[d] = cacheSeg[d]
           /\ d \in lateEntry' <=> d \in lateEntry
  BY <1>1, <1>2, <1>3, <1>4, <1>6 DEF IInv, TypeOK
<1>9. TypeOK'
  BY <1>2, <1>7, <1>8 DEF IInv, TypeOK
<1>10. FdOK' /\ PhaseOK' /\ WorkOK'
  BY <1>2, <1>4, <1>7, PublisherStays
<1>11. LinkInv(c)'
  <2>1. LinkInv(c)
    BY DEF IInv, LinkOK
  <2> QED
    BY <1>2, <1>4, <1>7, <2>1 DEF LinkInv
<1>12. CallInv(c)'
  BY <1>2, <1>3, <1>5, <1>6, <1>7 DEF CallInv, Seen, Counting, EpochOf
<1>13. LinkOK' /\ CallOK'
  BY <1>2, <1>7, <1>11, <1>12, OthersStay
<1>14. CacheOK'
  <2>1. seg[c] # 0 /\ b \notin lateEntry' => i = <<seg[c], b>>
    BY <1>2, <1>3, <1>5, <1>6
  <2> QED
    BY <1>8, <2>1 DEF IInv, CacheOK
<1> QED
  BY <1>9, <1>10, <1>13, <1>14 DEF IInv

LEMMA DieStep == IInv /\ Die => IInv'
<1> SUFFICES ASSUME IInv, Die PROVE IInv'
  OBVIOUS
<1>1. \A c \in counted : <<seg[c], BlockOf(c)>> \in Epoch \X Block
  <2> SUFFICES ASSUME NEW c \in counted PROVE <<seg[c], BlockOf(c)>> \in Epoch \X Block
    OBVIOUS
  <2>1. c \in Call /\ seg[c] \in Epoch0
    BY DEF IInv, TypeOK
  <2>2. seg[c] # 0 /\ msg[c] \in Epoch \X Block
    BY <2>1 DEF IInv, CallOK, CallInv, Counting
  <2> QED
    BY <2>1, <2>2, Distinct, Ids DEF BlockOf
<1>2. leaked' \in SUBSET (Epoch \X Block)
  BY <1>1 DEF Die, IInv, TypeOK
<1>3. TypeOK'
  BY <1>2, Ids, Objects, Distinct DEF IInv, TypeOK, Die, CallStates
<1>4. FdOK'
  BY OwnedStays DEF IInv, Die
<1>5. PhaseOK'
  BY DEF IInv, PhaseOK, Die
<1>6. WorkOK'
  BY DEF IInv, WorkOK, Die, BlockOf
<1>7. LinkOK'
  BY DEF IInv, LinkOK, LinkInv, Die, BlockOf
<1>8. CallOK'
  BY DEF CallOK, CallInv, Die, Seen, Counting
<1>9. CacheOK'
  BY DEF CacheOK, Die
<1> QED
  BY <1>3, <1>4, <1>5, <1>6, <1>7, <1>8, <1>9 DEF IInv

LEMMA CallStepStep == ASSUME IInv, NEW c \in Call, CallStep(c) PROVE IInv'
BY LockStep, CachedStep, OpenSegmentStep, CountStep, CheckStaleStep, ConnectStep, FailsStep,
   ReceiveStep DEF CallStep

-----------------------------------------------------------------------------
LEMMA InitIInv == Init => IInv
<1> SUFFICES ASSUME Init PROVE IInv
  OBVIOUS
<1>1. TypeOK
  BY Ids, Objects, Distinct DEF Init, TypeOK, Phases, WorkerPCs, FdOrNone, LinkStates, CallStates
<1>2. FdOK
  <2>1. OwnedOK
    BY DEF Init, OwnedOK
  <2>2. InUseOK
    BY Objects DEF Init, InUseOK, InUse
  <2> QED
    BY <2>1, <2>2 DEF FdOK
<1>3. PhaseOK
  BY DEF Init, PhaseOK
<1>4. WorkOK
  BY DEF Init, WorkOK
<1>5. LinkOK
  BY DEF Init, LinkOK, LinkInv
<1>6. CallOK
  BY DEF Init, CallOK, CallInv, Seen, Counting
<1>7. CacheOK
  BY DEF Init, CacheOK
<1> QED
  BY <1>1, <1>2, <1>3, <1>4, <1>5, <1>6, <1>7 DEF IInv

LEMMA NextIInv == IInv /\ [Next]_vars => IInv'
<1> SUFFICES ASSUME IInv, [Next]_vars PROVE IInv'
  OBVIOUS
<1>1. ASSUME NEW c \in Call, CallStep(c)
      PROVE  IInv'
  BY <1>1, CallStepStep
<1>2. ASSUME NEW c \in Call, NEW i \in Id, Arrive(c, i)
      PROVE  IInv'
  BY <1>2, ArriveStep
<1>3. CASE UNCHANGED vars
  <2>1. TypeOK'
    BY <1>3 DEF IInv, TypeOK, vars
  <2>2. FdOK' /\ PhaseOK'
    BY <1>3, OwnedStays DEF IInv, PhaseOK, vars
  <2>3. WorkOK' /\ LinkOK'
    BY <1>3, WorkStays, LinkStays DEF IInv, vars
  <2>4. CallOK' /\ CacheOK'
    BY <1>3, CallStays, CacheStays DEF IInv, CallOK, CallInv, vars
  <2> QED
    BY <2>1, <2>2, <2>3, <2>4 DEF IInv
<1> QED
  BY <1>1, <1>2, <1>3, PublisherStep, WorkerStep, DieStep DEF Next

THEOREM Inductive == Spec => []IInv
BY InitIInv, NextIInv, PTL DEF Spec

\* TypeOK of the run, for any parameters: in particular no descriptor number of the
\* thread is the invalid one when it uses it.
THEOREM TypeCorrect == Spec => []TypeOK
<1>1. IInv => TypeOK
  BY DEF IInv
<1> QED
  BY <1>1, Inductive, PTL

-----------------------------------------------------------------------------
(* Each number has one owner.                                              *)

LEMMA InOwner ==
  ASSUME NEW n, NEW x
  PROVE  x \in Owner(n) <=>
           \/ \E b \in Block : exported[b] = n /\ x = <<"block", b>>
           \/ \E b \in Block : server[b] = n /\ x = <<"manager", b>>
           \/ \E s \in Fd : serves[s] = n /\ x = <<"map", s>>
           \/ removedFd = n /\ x = "remove_socket"
           \/ workConn = n /\ x = "thread"
           \/ fd[n] = Foreign /\ x = "other"
BY DEF Owner

LEMMA ClosedHasNoOwner ==
  ASSUME IInv, NEW n \in Fd, fd[n] = Closed
  PROVE  Owner(n) = {}
<1>1. /\ \A b \in Block : exported[b] # n /\ server[b] # n
      /\ \A s \in Fd : serves[s] # n
      /\ removedFd # n /\ workConn # n /\ fd[n] # Foreign
  BY OthersAreNobodys, Distinct DEF IInv, FdOK
<1>2. \A x : x \notin Owner(n)
  BY <1>1, InOwner
<1> QED
  BY <1>2

\* The memory of a block is open for the pool, for the map and for remove_socket under
\* numbers of their own.
LEMMA MemoryHasOneOwner ==
  ASSUME IInv, NEW n \in Fd, NEW i \in Epoch \X Block, fd[n] = Memory(i)
  PROVE  \E y : Owner(n) = {y}
<1> DEFINE b == i[2]
           S == server[b]
<1>1. b \in Block /\ i = <<epoch, b>> /\ n # NoFd /\ fd[n] # Foreign
  BY Ids, Objects, Distinct DEF IInv, FdOK, InUseOK, InUse
<1>2. ASSUME NEW d \in Block
      PROVE  (exported[d] = n => d = b) /\ server[d] # n
  <2>1. exported[d] = n => fd[n] = Memory(<<epoch, d>>)
    BY <1>1 DEF IInv, FdOK, OwnedOK
  <2>2. exported[d] = n => <<epoch, d>> = i
    BY <2>1, Objects
  <2>3. server[d] = n => fd[n] = Server(d)
    BY <1>1 DEF IInv, FdOK, OwnedOK
  <2> QED
    BY <2>2, <2>3, Objects
<1>3. ASSUME NEW s \in Fd, serves[s] = n
      PROVE  s = S /\ exported[b] # n /\ removedFd # n
  <2>1. PICK d \in Block : server[d] = s
    BY <1>1, <1>3 DEF IInv, FdOK, OwnedOK
  <2>2. /\ fd[n] = Memory(<<epoch, d>>) /\ exported[d] # n /\ d # removing
    BY <1>1, <1>3, <2>1, Distinct DEF IInv, FdOK, OwnedOK
  <2>3. <<epoch, d>> = i
    BY <2>2, Objects
  <2>4. d = b
    BY <2>3
  <2>5. removedFd = n => <<epoch, removing>> = i
    BY <1>1, Objects DEF IInv, FdOK, OwnedOK
  <2> QED
    BY <2>1, <2>2, <2>4, <2>5
<1>4. removedFd = n => exported[b] # n
  BY <1>1 DEF IInv, PhaseOK, Up
<1>5. workConn # n
  BY <1>1, Objects DEF IInv, FdOK, OwnedOK
<1>6. \/ exported[b] = n
      \/ S \in Fd /\ serves[S] = n
      \/ removedFd = n
  BY <1>1, Numbers DEF IInv, FdOK, InUseOK, InUse
<1> HIDE DEF b, S
<1>7. CASE exported[b] = n
  <2>1. \A x : x \in Owner(n) <=> x = <<"block", b>>
    BY <1>1, <1>2, <1>3, <1>4, <1>5, <1>7, InOwner
  <2>2. Owner(n) = {<<"block", b>>}
    BY <2>1
  <2> QED
    BY <2>2
<1>8. CASE S \in Fd /\ serves[S] = n
  <2>1. \A x : x \in Owner(n) <=> x = <<"map", S>>
    BY <1>1, <1>2, <1>3, <1>5, <1>8, InOwner
  <2>2. Owner(n) = {<<"map", S>>}
    BY <2>1
  <2> QED
    BY <2>2
<1>9. CASE removedFd = n
  <2>1. \A x : x \in Owner(n) <=> x = "remove_socket"
    BY <1>1, <1>2, <1>3, <1>4, <1>5, <1>9, InOwner
  <2>2. Owner(n) = {"remove_socket"}
    BY <2>1
  <2> QED
    BY <2>2
<1> QED
  BY <1>6, <1>7, <1>8, <1>9

LEMMA OpenHasOneOwner ==
  ASSUME IInv, NEW n \in Fd, fd[n] # Closed
  PROVE  \E y : Owner(n) = {y}
<1>0. n # NoFd /\ fd[n] \in Object
  BY Distinct, Numbers DEF IInv
\* No two of the table's objects are the same, so the other owners are excluded.
<1>1. /\ \A b \in Block : exported[b] = n => fd[n] = Memory(<<epoch, b>>)
      /\ \A b \in Block : server[b] = n => fd[n] = Server(b)
      /\ removedFd = n => fd[n] = Memory(<<epoch, removing>>)
      /\ workConn = n => \E c \in Call : fd[n] = Conn(c)
  <2>1. OwnedOK
    BY DEF IInv, FdOK
  <2>2. ASSUME NEW b \in Block
        PROVE  /\ exported[b] = n => fd[n] = Memory(<<epoch, b>>)
               /\ server[b] = n => fd[n] = Server(b)
    BY <1>0, <2>1 DEF OwnedOK
  <2>3. /\ removedFd = n => fd[n] = Memory(<<epoch, removing>>)
        /\ workConn = n => \E c \in Call : fd[n] = Conn(c)
    BY <1>0, <2>1 DEF OwnedOK
  <2> QED
    BY <2>2, <2>3
<1>2. \A s \in Fd : serves[s] = n => \E b \in Block : fd[n] = Memory(<<epoch, b>>)
  BY <1>0, Distinct DEF IInv, FdOK, OwnedOK
<1>3. CASE fd[n] = Foreign
  <2>1. /\ \A b \in Block : exported[b] # n /\ server[b] # n
        /\ \A s \in Fd : serves[s] # n
        /\ removedFd # n /\ workConn # n
    BY <1>3, OthersAreNobodys DEF IInv, FdOK
  <2>2. \A x : x \in Owner(n) <=> x = "other"
    BY <1>3, <2>1, InOwner
  <2>3. Owner(n) = {"other"}
    BY <2>2
  <2> QED
    BY <2>3
<1>4. ASSUME NEW i \in Epoch \X Block, fd[n] = Memory(i)
      PROVE  \E y : Owner(n) = {y}
  BY <1>4, MemoryHasOneOwner
<1>5. ASSUME NEW b \in Block, fd[n] = Server(b)
      PROVE  \E y : Owner(n) = {y}
  <2>1. /\ server[b] = n /\ \A d \in Block : exported[d] # n /\ (server[d] = n => d = b)
        /\ \A s \in Fd : serves[s] # n
        /\ removedFd # n /\ workConn # n /\ fd[n] # Foreign
    <3>1. server[b] = n
      BY <1>5 DEF IInv, FdOK, InUseOK, InUse
    <3>2. ASSUME NEW d \in Block
          PROVE  exported[d] # n /\ (server[d] = n => d = b)
      <4>1. exported[d] # n
        <5>1. exported[d] = n => fd[n] = Memory(<<epoch, d>>)
          BY <1>1
        <5> QED
          BY <1>5, <5>1, Objects
      <4>2. ASSUME server[d] = n
            PROVE  d = b
        <5>1. fd[n] = Server(d)
          BY <1>1, <4>2
        <5> QED
          BY <1>5, <5>1, Objects
      <4> QED
        BY <4>1, <4>2
    <3>3. ASSUME NEW s \in Fd
          PROVE  serves[s] # n
      BY <1>2, <1>5, Objects
    <3>4. removedFd # n /\ workConn # n /\ fd[n] # Foreign
      BY <1>1, <1>5, Objects
    <3> QED
      BY <3>1, <3>2, <3>3, <3>4
  <2>2. \A x : x \in Owner(n) <=> x = <<"manager", b>>
    BY <2>1, InOwner
  <2>3. Owner(n) = {<<"manager", b>>}
    BY <2>2
  <2> QED
    BY <2>3
<1>6. ASSUME NEW c \in Call, fd[n] = Conn(c)
      PROVE  \E y : Owner(n) = {y}
  <2>1. /\ workConn = n /\ \A d \in Block : exported[d] # n /\ server[d] # n
        /\ \A s \in Fd : serves[s] # n
        /\ removedFd # n /\ fd[n] # Foreign
    <3>1. workConn = n
      BY <1>6 DEF IInv, FdOK, InUseOK, InUse
    <3>2. ASSUME NEW d \in Block
          PROVE  exported[d] # n /\ server[d] # n
      <4>1. exported[d] # n
        <5>1. exported[d] = n => fd[n] = Memory(<<epoch, d>>)
          BY <1>1
        <5> QED
          BY <1>6, <5>1, Objects
      <4>2. server[d] = n => fd[n] = Server(d)
        BY <1>1
      <4> QED
        BY <1>6, <4>1, <4>2, Objects
    <3>3. ASSUME NEW s \in Fd
          PROVE  serves[s] # n
      BY <1>2, <1>6, Objects
    <3>4. removedFd # n /\ fd[n] # Foreign
      BY <1>1, <1>6, Objects
    <3> QED
      BY <3>1, <3>2, <3>3, <3>4
  <2>2. \A x : x \in Owner(n) <=> x = "thread"
    BY <2>1, InOwner
  <2>3. Owner(n) = {"thread"}
    BY <2>2
  <2> QED
    BY <2>3
<1> QED
  BY <1>0, <1>3, <1>4, <1>5, <1>6, Objects

\* For any number of blocks, calls, epochs and descriptors: whatever the thread holds
\* when remove_socket closes what it looked up, and whatever was opened under the same
\* number since, no number is leaked, owned twice or mistaken for another's.
THEOREM FdsAreAccounted == Spec => []FdsAccounted
<1>1. ASSUME IInv, NEW n \in Fd
      PROVE  Cardinality(Owner(n)) = IF fd[n] = Closed THEN 0 ELSE 1
  <2>1. CASE fd[n] = Closed
    BY <1>1, <2>1, ClosedHasNoOwner, FS_EmptySet
  <2>2. CASE fd[n] # Closed
    <3>1. PICK y : Owner(n) = {y}
      BY <1>1, <2>2, OpenHasOneOwner
    <3> QED
      BY <2>2, <3>1, FS_Singleton
  <2> QED
    BY <2>1, <2>2
<1>2. IInv => FdsAccounted
  BY <1>1 DEF FdsAccounted, IInv, FdOK, OwnedOK
<1> QED
  BY <1>2, Inductive, PTL

\* A call the pool could see has the memory its descriptor names: the connection may be
\* answered by a thread that looked the descriptor up before remove_socket, the cache
\* may hold an earlier load's block of the same number.
THEOREM MappedIsTheNamed == Spec => []MappedIsNamed
<1>1. IInv => MappedIsNamed
  BY DEF IInv, CallOK, CallInv, MappedIsNamed
<1> QED
  BY <1>1, Inductive, PTL

\* The comment at get_dispatcher holds for every schedule of thread, destructor and
\* subscribers: an unloaded component leaves no thread, socket, number or connection.
THEOREM NothingIsLeftLoaded == Spec => []NothingOutlivesUnload
<1>1. ASSUME IInv, phase = "unloaded"
      PROVE  /\ worker \in {"none", "ended"} /\ polled = {}
             /\ \A n \in Fd : fd[n] \in {Closed, Foreign}
             /\ \A c \in Call : link[c] = "none"
  <2>1. worker \in {"none", "ended"}
    BY <1>1 DEF IInv, PhaseOK
  <2>2. workConn = NoFd
    BY <1>1, <2>1 DEF IInv, WorkOK
  <2>3. /\ \A b \in Block : server[b] = NoFd
        /\ polled = {}
        /\ \A n \in Fd : /\ \A i \in Epoch \X Block : fd[n] # Memory(i)
                         /\ \A b \in Block : fd[n] # Server(b)
    BY <1>1, NothingLoaded DEF Up
  <2>4. \A n \in Fd, c \in Call : fd[n] # Conn(c)
    BY <1>1, <2>2, Distinct DEF IInv, FdOK, InUseOK, InUse
  <2>5. \A n \in Fd : fd[n] \in {Closed, Foreign}
    BY <1>1, <2>3, <2>4, Numbers, Objects DEF IInv
  <2>6. ASSUME NEW c \in Call
        PROVE  link[c] = "none"
    <3>1. link[c] \in LinkStates
      BY <1>1 DEF IInv, TypeOK
    <3>2. link[c] # "backlog" /\ link[c] # "accepted"
      BY <1>1, <2>2, <2>3 DEF IInv, LinkOK, LinkInv
    <3> QED
      BY <3>1, <3>2 DEF LinkStates
  <2> QED
    BY <2>1, <2>3, <2>5, <2>6
<1>2. IInv => NothingOutlivesUnload
  BY <1>1 DEF NothingOutlivesUnload
<1> QED
  BY <1>2, Inductive, PTL
=============================================================================
