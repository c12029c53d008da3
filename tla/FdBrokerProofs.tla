---------------------------- MODULE FdBrokerProofs ----------------------------
(***************************************************************************)
(* Proofs about FdBroker, for any capacity of the window, any number of    *)
(* buffers, connections and descriptors.  A descriptor number is somebody's *)
(* as long as it is open, and nobody else's; every step opens a number     *)
(* with its owner, closes one with its owner, or leaves both alone.        *)
(***************************************************************************)
EXTENDS FdBroker, FiniteSetTheorems, WellFoundedInduction, TLAPS

\* Owners, by what they are.
BufferOwners == {<<"buffer", u, buffer[u], u>> : u \in {v \in Uid : buffer[v] # NoFd}}
WindowOwners == {<<"window", u, table[u], u>> : u \in {v \in Uid : Registered(v)}}
ConnOwners   == {<<"conn", c, connFd[c], c>> : c \in {d \in Conn : connFd[d] # NoFd}}
TmpOwners    == {<<"tmp", c, tmpFd[c], want[c]>> : c \in {d \in Conn : tmpFd[d] # NoFd}}
ServerOwners == IF exit \in {"no", "stopped"} THEN {<<"server", 0, serverFd, Listen>>} ELSE {}

\* FdsAccounted without counting.
FdOK ==
  /\ \A o \in Owners : o[3] \in Fd /\ fd[o[3]] = o[4] /\ o[4] # Closed
  /\ \A o, p \in Owners : o[3] = p[3] => o = p
  /\ \A n \in Fd : fd[n] # Closed => \E o \in Owners : o[3] = n

\* The counter counts the connections' threads.
Served == {c \in Conn : handler[c] \in Serving}
CountOK == IsFiniteSet(Served) /\ active = Cardinality(Served)

\* The two ends of a connection.
ConnOK ==
  \A c \in Conn :
    /\ connFd[c] # NoFd <=> handler[c] \in Serving
    /\ tmpFd[c] # NoFd => handler[c] \in {"send", "finish"} /\ c \in sent
    /\ handler[c] = "send" => tmpFd[c] # NoFd
    /\ IF client[c] = "idle" THEN handler[c] = "none" /\ c \notin sent ELSE want[c] \in Uid
    /\ reply[c] # NoReply => handler[c] \in {"finish", "done"}
    /\ reply[c] \in {NoReply, StatusMiss, want[c]}
    /\ client[c] = "mapped" => reply[c] \notin {NoReply, StatusMiss}

\* The destructor: what it has done stays done.
ExitOK ==
  /\ running <=> exit = "no"
  /\ exit \in {"joined", "gone"} => worker = "ended"
  /\ exit = "gone" => (\A u \in Uid : table[u] = NoFd) /\ Served = {}
  /\ \A u \in Uid : nextUid <= u => buffer[u] = NoFd

IInv == TypeOK /\ FdOK /\ CountOK /\ ConnOK /\ ExitOK

-----------------------------------------------------------------------------
(* Numbers.                                                                *)

LEMMA HasLeast ==
  ASSUME NEW T \in SUBSET Nat, T # {}
  PROVE  \E n \in T : \A m \in T : n <= m
<1> DEFINE R == OpToRel(<, Nat)
<1>1. IsWellFoundedOn(R, Nat)
  BY NatLessThanWellFounded
<1>2. \A m, n \in Nat : m < n => <<m, n>> \in R
  BY DEF OpToRel
<1> HIDE DEF R
<1>3. PICK n \in T : \A m \in T : ~(<<m, n>> \in R)
  BY <1>1, WFMin
<1>4. n \in Nat /\ \A m \in T : m \in Nat /\ ~(m < n)
  BY <1>2, <1>3
<1>5. \A m \in T : n <= m
  BY <1>4
<1> QED
  BY <1>5

LEMMA LowestIsFree == Free # {} => Lowest \in Free /\ Lowest \in Fd /\ fd[Lowest] = Closed
<1>1. Free \in SUBSET Nat
  BY ConstantsOK DEF Free, Fd, ConstantsOK
<1>2. Free # {} => Lowest \in Free
  BY <1>1, HasLeast DEF Lowest
<1> QED
  BY <1>2 DEF Free

LEMMA Distinct ==
  /\ NoFd \notin Fd
  /\ Closed \notin Uid \cup Conn \cup {Listen} /\ Listen \notin Uid \cup Conn
  /\ NoReply \notin Uid \cup {StatusMiss} /\ StatusMiss \notin Uid
BY ConstantsOK DEF ConstantsOK, Fd, Uid

\* A number is opened for a new owner ...
LEMMA Opens ==
  ASSUME TypeOK, FdOK, NEW n \in Fd, fd[n] = Closed, NEW o, o[3] = n, o[4] # Closed,
         fd' = [fd EXCEPT ![n] = o[4]], Owners' = Owners \cup {o}
  PROVE  FdOK'
<1>1. \A m \in Fd : fd'[m] = IF m = n THEN o[4] ELSE fd[m]
  BY DEF TypeOK
<1>2. \A p \in Owners : p[3] # n
  BY DEF FdOK
<1> QED
  BY <1>1, <1>2 DEF FdOK

\* ... or closed with its owner ...
LEMMA Closes ==
  ASSUME FdOK, NEW C \in SUBSET Owners, Owners' = Owners \ C,
         \A n \in Fd : fd'[n] = IF \E o \in C : o[3] = n THEN Closed ELSE fd[n]
  PROVE  FdOK'
<1>1. \A o \in Owners' : o \in Owners /\ fd'[o[3]] = fd[o[3]]
  BY DEF FdOK
<1>2. \A n \in Fd : fd'[n] # Closed => \E o \in Owners' : o[3] = n
  BY DEF FdOK
<1> QED
  BY <1>1, <1>2 DEF FdOK

\* ... or both at once, for two owners.
LEMMA Replaces ==
  ASSUME TypeOK, FdOK, NEW n \in Fd, fd[n] = Closed, NEW o, o[3] = n, o[4] # Closed,
         NEW old \in Owners,
         fd' = [fd EXCEPT ![n] = o[4], ![old[3]] = Closed],
         Owners' = (Owners \ {old}) \cup {o}
  PROVE  FdOK'
<1>1. \A p \in Owners : p[3] # n
  BY DEF FdOK
<1>2. \A m \in Fd : fd'[m] = IF m = old[3] THEN Closed ELSE IF m = n THEN o[4] ELSE fd[m]
  BY <1>1 DEF TypeOK
<1>3. \A p \in Owners' : p[3] \in Fd /\ fd'[p[3]] = p[4] /\ p[4] # Closed
  BY <1>1, <1>2 DEF FdOK
<1>4. \A p, q \in Owners' : p[3] = q[3] => p = q
  BY <1>1 DEF FdOK
<1>5. \A m \in Fd : fd'[m] # Closed => \E p \in Owners' : p[3] = m
  BY <1>2 DEF FdOK
<1> QED
  BY <1>3, <1>4, <1>5 DEF FdOK

LEMMA OwnersAre == Owners = BufferOwners \cup WindowOwners \cup ConnOwners \cup TmpOwners \cup ServerOwners
BY DEF Owners, BufferOwners, WindowOwners, ConnOwners, TmpOwners, ServerOwners

\* What is known of a number from its owner.
LEMMA OwnedFds ==
  ASSUME FdOK
  PROVE  /\ \A u \in Uid : buffer[u] # NoFd => buffer[u] \in Fd /\ fd[buffer[u]] = u
         /\ \A u \in Uid : table[u] # NoFd => table[u] \in Fd /\ fd[table[u]] = u
         /\ \A c \in Conn : connFd[c] # NoFd => connFd[c] \in Fd /\ fd[connFd[c]] = c
         /\ \A c \in Conn : tmpFd[c] # NoFd => tmpFd[c] \in Fd /\ fd[tmpFd[c]] = want[c]
         /\ exit \in {"no", "stopped"} => serverFd \in Fd /\ fd[serverFd] = Listen
<1>1. \A u \in Uid : buffer[u] # NoFd => <<"buffer", u, buffer[u], u>> \in Owners
  BY DEF Owners
<1>2. \A u \in Uid : table[u] # NoFd => <<"window", u, table[u], u>> \in Owners
  BY DEF Owners, Registered
<1>3. \A c \in Conn : connFd[c] # NoFd => <<"conn", c, connFd[c], c>> \in Owners
  BY DEF Owners
<1>4. \A c \in Conn : tmpFd[c] # NoFd => <<"tmp", c, tmpFd[c], want[c]>> \in Owners
  BY DEF Owners
<1>5. exit \in {"no", "stopped"} => <<"server", 0, serverFd, Listen>> \in Owners
  BY DEF Owners
<1> QED
  BY <1>1, <1>2, <1>3, <1>4, <1>5 DEF FdOK

-----------------------------------------------------------------------------
(* Steps.                                                                  *)

USE DEF fdVars, bufferVars, windowVars, serverVars, connVars, clientVars

LEMMA OwnersStay ==
  ASSUME UNCHANGED <<buffer, table, connFd, tmpFd>>, exit \in {"no", "stopped"} => serverFd' = serverFd,
         (exit \in {"no", "stopped"})' = (exit \in {"no", "stopped"}),
         \A c \in Conn : tmpFd[c] # NoFd => want'[c] = want[c]
  PROVE  Owners' = Owners
<1>1. BufferOwners' = BufferOwners /\ WindowOwners' = WindowOwners /\ ConnOwners' = ConnOwners
  BY DEF BufferOwners, WindowOwners, ConnOwners, Registered
<1>2. TmpOwners' = TmpOwners
  BY DEF TmpOwners
<1>3. ServerOwners' = ServerOwners
  BY DEF ServerOwners
<1> QED
  BY <1>1, <1>2, <1>3 DEF Owners, BufferOwners, WindowOwners, ConnOwners, TmpOwners, ServerOwners

\* A step that neither opens nor closes.
LEMMA FdsStay ==
  ASSUME FdOK, UNCHANGED <<fd, buffer, table, connFd, tmpFd>>,
         exit \in {"no", "stopped"} => serverFd' = serverFd,
         (exit \in {"no", "stopped"})' = (exit \in {"no", "stopped"}),
         \A c \in Conn : tmpFd[c] # NoFd => want'[c] = want[c]
  PROVE  FdOK'
<1>1. Owners' = Owners
  BY OwnersStay
<1> QED
  BY <1>1 DEF FdOK

LEMMA WindowStays ==
  ASSUME WindowConsistent, UNCHANGED <<table, order>>
  PROVE  WindowConsistent'
BY DEF WindowConsistent, Registered

LEMMA CountStays ==
  ASSUME CountOK, active' = active, \A c \in Conn : handler'[c] \in Serving <=> handler[c] \in Serving
  PROVE  CountOK' /\ Served' = Served
<1>1. Served' = Served
  BY DEF Served
<1> QED
  BY <1>1 DEF CountOK

\* A uid comes into the window, and perhaps another one leaves.
LEMMA WindowGrows ==
  ASSUME TypeOK, NEW u \in Uid, ~Registered(u), NEW n \in Fd,
         table' = [table EXCEPT ![u] = n], order' = Append(order, u), Len(order) < Capacity
  PROVE  table' \in [Uid -> Fd \cup {NoFd}] /\ order' \in Seq(Uid) /\ WindowConsistent'
<1>1. order \in Seq(Uid) /\ order' \in Seq(Uid) /\ Len(order') = Len(order) + 1
  BY DEF TypeOK
<1>2. /\ \A i \in 1 .. Len(order) : order'[i] = order[i] /\ order[i] \in Uid /\ Registered(order[i])
      /\ order'[Len(order')] = u
  BY <1>1 DEF TypeOK, WindowConsistent
<1>3. \A v \in Uid : table'[v] # NoFd <=> v = u \/ Registered(v)
  BY Distinct DEF Registered, TypeOK
<1>4. \A i, j \in 1 .. Len(order') : order'[i] = order'[j] => i = j
  BY <1>1, <1>2 DEF TypeOK, WindowConsistent
<1>5. \A v \in Uid : Registered(v) => \E i \in 1 .. Len(order) : order[i] = v
  BY DEF TypeOK, WindowConsistent
<1>6. {order'[i] : i \in 1 .. Len(order')} = {v \in Uid : table'[v] # NoFd}
  <2>1. ASSUME NEW i \in 1 .. Len(order')
        PROVE  order'[i] \in Uid /\ table'[order'[i]] # NoFd
    BY <1>1, <1>2, <1>3, <2>1
  <2>2. ASSUME NEW v \in Uid, table'[v] # NoFd
        PROVE  \E i \in 1 .. Len(order') : order'[i] = v
    <3>1. CASE v = u
      BY <1>1, <1>2, <3>1
    <3>2. CASE Registered(v)
      BY <1>1, <1>2, <1>5, <3>2
    <3> QED
      BY <1>3, <2>2, <3>1, <3>2
  <2> QED
    BY <2>1, <2>2
<1>7. Len(order') <= Capacity
  BY <1>1, ConstantsOK DEF ConstantsOK
<1> QED
  BY <1>1, <1>4, <1>6, <1>7 DEF WindowConsistent, Registered, TypeOK

LEMMA WindowSlides ==
  ASSUME TypeOK, NEW u \in Uid, ~Registered(u), NEW n \in Fd, Len(order) >= Capacity,
         table' = [table EXCEPT ![u] = n, ![Head(order)] = NoFd], order' = Append(Tail(order), u)
  PROVE  /\ Head(order) \in Uid /\ Registered(Head(order)) /\ Head(order) # u
         /\ table' \in [Uid -> Fd \cup {NoFd}] /\ order' \in Seq(Uid) /\ WindowConsistent'
<1>1. order \in Seq(Uid) /\ Len(order) = Capacity /\ Capacity \in Nat \ {0}
  BY ConstantsOK DEF ConstantsOK, TypeOK, WindowConsistent
<1>2. \A i \in 1 .. Len(order) : order[i] \in Uid /\ Registered(order[i])
  BY DEF TypeOK, WindowConsistent
<1>3. Head(order) = order[1] /\ Head(order) \in Uid /\ Registered(Head(order)) /\ Head(order) # u
  BY <1>1, <1>2
<1>4. order' \in Seq(Uid) /\ Len(order') = Len(order)
  BY <1>1
<1>5. /\ \A i \in 1 .. Len(order) - 1 : order'[i] = order[i + 1]
      /\ order'[Len(order)] = u
  BY <1>1
<1>6. \A v \in Uid : table'[v] # NoFd <=> v = u \/ (Registered(v) /\ v # Head(order))
  BY <1>3, Distinct DEF Registered, TypeOK
<1>7. \A i, j \in 1 .. Len(order) : order[i] = order[j] => i = j
  BY DEF TypeOK, WindowConsistent
<1>8. \A i, j \in 1 .. Len(order') : order'[i] = order'[j] => i = j
  <2> SUFFICES ASSUME NEW i \in 1 .. Len(order), NEW j \in 1 .. Len(order), order'[i] = order'[j]
               PROVE  i = j
    BY <1>4
  <2>1. CASE i < Len(order) /\ j < Len(order)
    BY <1>1, <1>5, <1>7, <2>1
  <2>2. CASE i = Len(order) /\ j < Len(order)
    BY <1>1, <1>2, <1>5, <2>2
  <2>3. CASE i < Len(order) /\ j = Len(order)
    BY <1>1, <1>2, <1>5, <2>3
  <2> QED
    BY <1>1, <2>1, <2>2, <2>3
<1>9. {order'[i] : i \in 1 .. Len(order')} = {v \in Uid : table'[v] # NoFd}
  <2>1. ASSUME NEW i \in 1 .. Len(order')
        PROVE  order'[i] \in Uid /\ table'[order'[i]] # NoFd
    <3>1. CASE i = Len(order)
      BY <1>5, <1>6, <3>1
    <3>2. CASE i # Len(order)
      <4>1. i \in 1 .. Len(order) - 1 /\ i + 1 \in 1 .. Len(order) /\ i + 1 # 1 /\ 1 \in 1 .. Len(order)
        BY <1>1, <1>4, <3>2
      <4>2. order[i + 1] # order[1]
        BY <1>7, <4>1
      <4> QED
        BY <1>2, <1>3, <1>5, <1>6, <4>1, <4>2
    <3> QED
      BY <3>1, <3>2
  <2>2. ASSUME NEW v \in Uid, table'[v] # NoFd
        PROVE  \E i \in 1 .. Len(order') : order'[i] = v
    <3>1. CASE v = u
      BY <1>1, <1>4, <1>5, <3>1
    <3>2. CASE Registered(v) /\ v # Head(order)
      <4>1. PICK i \in 1 .. Len(order) : order[i] = v
        BY <3>2 DEF TypeOK, WindowConsistent
      <4>2. i # 1 /\ i - 1 \in 1 .. Len(order) - 1 /\ (i - 1) + 1 = i
        BY <1>1, <1>3, <3>2, <4>1
      <4>3. order'[i - 1] = v
        BY <1>5, <4>1, <4>2
      <4>4. i - 1 \in 1 .. Len(order')
        BY <1>1, <1>4, <4>2
      <4> QED
        BY <4>3, <4>4
    <3> QED
      BY <1>6, <2>2, <3>1, <3>2
  <2>3. {order'[i] : i \in 1 .. Len(order')} \subseteq {v \in Uid : table'[v] # NoFd}
    BY <2>1
  <2>4. \A v \in {w \in Uid : table'[w] # NoFd} : v \in {order'[i] : i \in 1 .. Len(order')}
    BY <2>2
  <2> QED
    BY <2>3, <2>4
<1>10. table' \in [Uid -> Fd \cup {NoFd}]
  BY <1>3 DEF TypeOK
<1> QED
  BY <1>1, <1>3, <1>4, <1>8, <1>9, <1>10 DEF WindowConsistent, Registered

\* One lemma per step of the system.
LEMMA AllocateKeeps ==
  ASSUME IInv, Allocate
  PROVE  IInv'
<1>a. TypeOK /\ FdOK /\ CountOK /\ ConnOK /\ ExitOK
  BY DEF IInv
<1>b. Lowest \in Fd /\ fd[Lowest] = Closed /\ nextUid \in Uid
  BY <1>a, LowestIsFree, ConstantsOK DEF Allocate, TypeOK, Uid, ConstantsOK
<1>1. TypeOK'
  <2>1. WindowConsistent'
    BY <1>a, WindowStays DEF Allocate, TypeOK
  <2>2. fd' \in [Fd -> {Listen, Closed} \cup Conn \cup Uid]
    BY <1>a, <1>b DEF Allocate, TypeOK
  <2>3. nextUid' \in 1 .. (MaxUid + 1)
    BY <1>a, ConstantsOK DEF Allocate, TypeOK, ConstantsOK
  <2> QED
    BY <1>a, <1>b, <2>1, <2>2, <2>3 DEF Allocate, TypeOK
<1>2. FdOK'
  <2> DEFINE new == <<"buffer", nextUid, Lowest, nextUid>>
  <2>1. BufferOwners' = BufferOwners \cup {new}
    BY <1>a, <1>b, Distinct DEF Allocate, BufferOwners, ExitOK, TypeOK
  <2>2. WindowOwners' = WindowOwners /\ ConnOwners' = ConnOwners
    BY DEF Allocate, WindowOwners, ConnOwners, Registered
  <2>3. TmpOwners' = TmpOwners /\ ServerOwners' = ServerOwners
    BY DEF Allocate, TmpOwners, ServerOwners
  <2>4. Owners' = Owners \cup {new}
    BY <2>1, <2>2, <2>3 DEF Owners, BufferOwners, WindowOwners, ConnOwners, TmpOwners, ServerOwners
  <2> QED
    BY <1>a, <1>b, <2>4, Opens, Distinct DEF Allocate
<1>3. CountOK' /\ Served' = Served
  BY <1>a, CountStays DEF Allocate, Serving, TypeOK
<1>4. ConnOK'
  BY <1>a, Distinct DEF Allocate, ConnOK, TypeOK, Serving
<1>5. ExitOK'
  BY <1>a, <1>b, <1>3 DEF Allocate, ExitOK, TypeOK, Uid
<1> QED
  BY <1>1, <1>2, <1>3, <1>4, <1>5 DEF IInv

LEMMA PublishKeeps ==
  ASSUME IInv, NEW u \in Uid, Publish(u)
  PROVE  IInv'
<1>a. TypeOK /\ FdOK /\ CountOK /\ ConnOK /\ ExitOK
  BY DEF IInv
<1>b. buffer[u] \in Fd /\ fd[buffer[u]] = u
  BY <1>a, OwnedFds DEF Publish
<1>c. UNCHANGED <<nextUid, buffer, running, serverFd, worker, acceptFd, exit, active, handler, connFd,
                  tmpFd, client, want, sent, reply>> /\ published' = published \cup {u} /\ exit = "no"
  BY DEF Publish
<1>d. \/ UNCHANGED <<fd, table, order>>
      \/ ~Registered(u) /\ Lowest \in Fd /\ fd[Lowest] = Closed /\ Insert(u)
  BY LowestIsFree DEF Publish
<1>1. TypeOK'
  <2>1. CASE UNCHANGED <<fd, table, order>>
    BY <1>a, <1>c, <2>1 DEF TypeOK, WindowConsistent, Registered
  <2>2. CASE ~Registered(u) /\ Lowest \in Fd /\ fd[Lowest] = Closed /\ Insert(u) /\ Len(order) < Capacity
    <3>1. table' \in [Uid -> Fd \cup {NoFd}] /\ order' \in Seq(Uid) /\ WindowConsistent'
      BY <1>a, <2>2, WindowGrows DEF Insert
    <3>2. fd' \in [Fd -> {Listen, Closed} \cup Conn \cup Uid]
      BY <1>a, <1>b, <2>2 DEF Insert, TypeOK
    <3> QED
      BY <1>a, <1>c, <3>1, <3>2 DEF TypeOK
  <2>3. CASE ~Registered(u) /\ Lowest \in Fd /\ fd[Lowest] = Closed /\ Insert(u) /\ ~(Len(order) < Capacity)
    <3>0. Len(order) >= Capacity
      BY <1>a, <2>3, ConstantsOK DEF TypeOK, ConstantsOK
    <3>1. table' \in [Uid -> Fd \cup {NoFd}] /\ order' \in Seq(Uid) /\ WindowConsistent'
      BY <1>a, <2>3, <3>0, WindowSlides DEF Insert
    <3>2. fd' \in [Fd -> {Listen, Closed} \cup Conn \cup Uid]
      BY <1>a, <1>b, <2>3 DEF Insert, TypeOK
    <3> QED
      BY <1>a, <1>c, <3>1, <3>2 DEF TypeOK
  <2> QED
    BY <1>d, <2>1, <2>2, <2>3
<1>2. FdOK'
  <2> DEFINE new == <<"window", u, Lowest, u>>
             old == <<"window", Head(order), table[Head(order)], Head(order)>>
  <2>1. CASE UNCHANGED <<fd, table, order>>
    BY <1>a, <1>c, <2>1, FdsStay
  <2>2. ConnOwners' = ConnOwners /\ TmpOwners' = TmpOwners /\ BufferOwners' = BufferOwners /\ ServerOwners' = ServerOwners
    BY <1>c DEF ConnOwners, TmpOwners, BufferOwners, ServerOwners
  <2>3. CASE ~Registered(u) /\ Lowest \in Fd /\ fd[Lowest] = Closed /\ Insert(u) /\ Len(order) < Capacity
    <3>1. table' = [table EXCEPT ![u] = Lowest] /\ fd' = [fd EXCEPT ![Lowest] = u]
      BY <1>b, <2>3 DEF Insert
    <3>2. WindowOwners' = WindowOwners \cup {new}
      BY <1>a, <2>3, <3>1, Distinct DEF WindowOwners, Registered, TypeOK
    <3>3. Owners' = Owners \cup {new}
      BY <2>2, <3>2 DEF Owners, BufferOwners, WindowOwners, ConnOwners, TmpOwners, ServerOwners
    <3> QED
      BY <1>a, <2>3, <3>1, <3>3, Opens, Distinct
  <2>4. CASE ~Registered(u) /\ Lowest \in Fd /\ fd[Lowest] = Closed /\ Insert(u) /\ ~(Len(order) < Capacity)
    <3>1. table' = [table EXCEPT ![u] = Lowest, ![Head(order)] = NoFd]
          /\ fd' = [fd EXCEPT ![Lowest] = u, ![old[3]] = Closed] /\ order' = Append(Tail(order), u)
      BY <1>b, <2>4 DEF Insert
    <3>2. Len(order) >= Capacity
      BY <1>a, <2>4, ConstantsOK DEF TypeOK, ConstantsOK
    <3>3. Head(order) \in Uid /\ Registered(Head(order)) /\ Head(order) # u
      BY <1>a, <2>4, <3>1, <3>2, WindowSlides
    <3>4. old \in WindowOwners
      BY <3>3 DEF WindowOwners
    <3>5. WindowOwners' = (WindowOwners \ {old}) \cup {new}
      BY <1>a, <2>4, <3>1, <3>3, Distinct DEF WindowOwners, Registered, TypeOK
    <3>6. Owners' = (Owners \ {old}) \cup {new}
      BY <2>2, <3>5 DEF Owners, BufferOwners, WindowOwners, ConnOwners, TmpOwners, ServerOwners
    <3>7. old \in Owners
      BY <3>4, OwnersAre
    <3> QED
      BY <1>a, <2>4, <3>1, <3>6, <3>7, Replaces, Distinct
  <2> QED
    BY <1>d, <2>1, <2>3, <2>4
<1>3. CountOK' /\ Served' = Served
  BY <1>a, <1>c, CountStays
<1>4. ConnOK'
  BY <1>a, <1>c DEF ConnOK
<1>5. ExitOK'
  BY <1>a, <1>c, <1>3 DEF ExitOK
<1> QED
  BY <1>1, <1>2, <1>3, <1>4, <1>5 DEF IInv

LEMMA ReleaseKeeps ==
  ASSUME IInv, NEW u \in Uid, Release(u)
  PROVE  IInv'
<1>a. TypeOK /\ FdOK /\ CountOK /\ ConnOK /\ ExitOK
  BY DEF IInv
<1>b. buffer[u] \in Fd /\ fd[buffer[u]] = u
  BY <1>a, OwnedFds DEF Release
<1>1. TypeOK'
  BY <1>a, WindowStays DEF Release, TypeOK, HandlerPCs, ClientPCs
<1>2. FdOK'
  <2> DEFINE old == <<"buffer", u, buffer[u], u>>
  <2>1. BufferOwners' = BufferOwners \ {old}
    BY <1>a, <1>b DEF Release, BufferOwners, TypeOK
  <2>2. WindowOwners' = WindowOwners /\ ConnOwners' = ConnOwners
    BY DEF Release, WindowOwners, ConnOwners, Registered
  <2>3. TmpOwners' = TmpOwners /\ ServerOwners' = ServerOwners
    BY DEF Release, TmpOwners, ServerOwners
  <2>4. old \in BufferOwners
    BY DEF Release, BufferOwners
  <2>5. Owners' = Owners \ {old}
    BY <2>1, <2>2, <2>3 DEF Owners, BufferOwners, WindowOwners, ConnOwners, TmpOwners, ServerOwners
  <2>6. \A n \in Fd : fd'[n] = IF \E o \in {old} : o[3] = n THEN Closed ELSE fd[n]
    BY <1>a, <1>b DEF Release, TypeOK
  <2> QED
    BY <1>a, <2>4, <2>5, <2>6, Closes, OwnersAre
<1>3. CountOK' /\ Served' = Served
  BY <1>a, CountStays DEF Release, Serving, TypeOK
<1>4. ConnOK'
  BY <1>a, Distinct DEF Release, ConnOK, TypeOK, Serving
<1>5. ExitOK'
  BY <1>a, <1>3 DEF Release, ExitOK, TypeOK
<1> QED
  BY <1>1, <1>2, <1>3, <1>4, <1>5 DEF IInv

LEMMA WorkerChecksKeeps ==
  ASSUME IInv, WorkerChecks
  PROVE  IInv'
<1>a. TypeOK /\ FdOK /\ CountOK /\ ConnOK /\ ExitOK
  BY DEF IInv
<1>1. TypeOK'
  BY <1>a, WindowStays DEF WorkerChecks, TypeOK, HandlerPCs, ClientPCs
<1>2. FdOK'
  BY <1>a, FdsStay DEF WorkerChecks, ConnOK
<1>3. CountOK' /\ Served' = Served
  BY <1>a, CountStays DEF WorkerChecks, Serving, TypeOK
<1>4. ConnOK'
  BY <1>a, Distinct DEF WorkerChecks, ConnOK, TypeOK, Serving
<1>5. ExitOK'
  BY <1>a, <1>3 DEF WorkerChecks, ExitOK, TypeOK
<1> QED
  BY <1>1, <1>2, <1>3, <1>4, <1>5 DEF IInv

LEMMA AcceptFailsKeeps ==
  ASSUME IInv, AcceptFails
  PROVE  IInv'
<1>a. TypeOK /\ FdOK /\ CountOK /\ ConnOK /\ ExitOK
  BY DEF IInv
<1>1. TypeOK'
  BY <1>a, WindowStays DEF AcceptFails, TypeOK, HandlerPCs, ClientPCs
<1>2. FdOK'
  BY <1>a, FdsStay DEF AcceptFails, ConnOK
<1>3. CountOK' /\ Served' = Served
  BY <1>a, CountStays DEF AcceptFails, Serving, TypeOK
<1>4. ConnOK'
  BY <1>a, Distinct DEF AcceptFails, ConnOK, TypeOK, Serving
<1>5. ExitOK'
  BY <1>a, <1>3 DEF AcceptFails, ExitOK, TypeOK
<1> QED
  BY <1>1, <1>2, <1>3, <1>4, <1>5 DEF IInv

LEMMA AcceptKeeps ==
  ASSUME IInv, NEW c \in Conn, Accept(c)
  PROVE  IInv'
<1>a. TypeOK /\ FdOK /\ CountOK /\ ConnOK /\ ExitOK
  BY DEF IInv
<1>b. Lowest \in Fd /\ fd[Lowest] = Closed /\ connFd[c] = NoFd /\ c \notin Served
  BY <1>a, LowestIsFree DEF Accept, ConnOK, Served, Serving
<1>1. TypeOK'
  <2>1. WindowConsistent'
    BY <1>a, WindowStays DEF Accept, TypeOK
  <2> QED
    BY <1>a, <1>b, <2>1 DEF Accept, TypeOK, HandlerPCs
<1>2. FdOK'
  <2> DEFINE new == <<"conn", c, Lowest, c>>
  <2>1. ConnOwners' = ConnOwners \cup {new}
    BY <1>a, <1>b, Distinct DEF Accept, ConnOwners, TypeOK
  <2>2. BufferOwners' = BufferOwners /\ WindowOwners' = WindowOwners
    BY DEF Accept, BufferOwners, WindowOwners, Registered
  <2>3. TmpOwners' = TmpOwners /\ ServerOwners' = ServerOwners
    BY DEF Accept, TmpOwners, ServerOwners
  <2>4. Owners' = Owners \cup {new}
    BY <2>1, <2>2, <2>3 DEF Owners, BufferOwners, WindowOwners, ConnOwners, TmpOwners, ServerOwners
  <2> QED
    BY <1>a, <1>b, <2>4, Opens, Distinct DEF Accept
<1>3. CountOK'
  <2>1. Served' = Served \cup {c}
    BY <1>a DEF Accept, Served, Serving, TypeOK
  <2> QED
    BY <1>a, <1>b, <2>1, FS_AddElement DEF Accept, CountOK
<1>4. ConnOK'
  BY <1>a, <1>b, Distinct DEF Accept, ConnOK, TypeOK, Serving
<1>5. ExitOK'
  <2>1. exit \notin {"joined", "gone"}
    BY <1>a DEF Accept, ExitOK
  <2> QED
    BY <1>a, <2>1 DEF Accept, ExitOK
<1> QED
  BY <1>1, <1>2, <1>3, <1>4, <1>5 DEF IInv

LEMMA RecvFailsKeeps ==
  ASSUME IInv, NEW c \in Conn, RecvFails(c)
  PROVE  IInv'
<1>a. TypeOK /\ FdOK /\ CountOK /\ ConnOK /\ ExitOK
  BY DEF IInv
<1>1. TypeOK'
  BY <1>a, WindowStays DEF RecvFails, TypeOK, HandlerPCs, ClientPCs
<1>2. FdOK'
  BY <1>a, FdsStay DEF RecvFails, ConnOK
<1>3. CountOK' /\ Served' = Served
  BY <1>a, CountStays DEF RecvFails, Serving, TypeOK
<1>4. ConnOK'
  BY <1>a, Distinct DEF RecvFails, ConnOK, TypeOK, Serving
<1>5. ExitOK'
  BY <1>a, <1>3 DEF RecvFails, ExitOK, TypeOK
<1> QED
  BY <1>1, <1>2, <1>3, <1>4, <1>5 DEF IInv

LEMMA MissKeeps ==
  ASSUME IInv, NEW c \in Conn, Miss(c)
  PROVE  IInv'
<1>a. TypeOK /\ FdOK /\ CountOK /\ ConnOK /\ ExitOK
  BY DEF IInv
<1>1. TypeOK'
  BY <1>a, WindowStays DEF Miss, TypeOK, HandlerPCs, ClientPCs
<1>2. FdOK'
  BY <1>a, FdsStay DEF Miss, ConnOK
<1>3. CountOK' /\ Served' = Served
  BY <1>a, CountStays DEF Miss, Serving, TypeOK
<1>4. ConnOK'
  BY <1>a, Distinct DEF Miss, ConnOK, TypeOK, Serving
<1>5. ExitOK'
  BY <1>a, <1>3 DEF Miss, ExitOK, TypeOK
<1> QED
  BY <1>1, <1>2, <1>3, <1>4, <1>5 DEF IInv

LEMMA FindKeeps ==
  ASSUME IInv, NEW c \in Conn, Find(c)
  PROVE  IInv'
<1>a. TypeOK /\ FdOK /\ CountOK /\ ConnOK /\ ExitOK
  BY DEF IInv
<1>b. Lowest \in Fd /\ fd[Lowest] = Closed /\ tmpFd[c] = NoFd /\ want[c] \in Uid
  BY <1>a, LowestIsFree DEF Find, ConnOK
<1>c. table[want[c]] \in Fd /\ fd[table[want[c]]] = want[c]
  BY <1>a, <1>b, OwnedFds DEF Find, Registered
<1>1. TypeOK'
  <2>1. WindowConsistent'
    BY <1>a, WindowStays DEF Find, TypeOK
  <2> QED
    BY <1>a, <1>b, <1>c, <2>1 DEF Find, TypeOK, HandlerPCs
<1>2. FdOK'
  <2> DEFINE new == <<"tmp", c, Lowest, want[c]>>
  <2>1. TmpOwners' = TmpOwners \cup {new}
    BY <1>a, <1>b, Distinct DEF Find, TmpOwners, TypeOK
  <2>2. BufferOwners' = BufferOwners /\ WindowOwners' = WindowOwners
    BY DEF Find, BufferOwners, WindowOwners, Registered
  <2>3. ConnOwners' = ConnOwners /\ ServerOwners' = ServerOwners
    BY DEF Find, ConnOwners, ServerOwners
  <2>4. Owners' = Owners \cup {new}
    BY <2>1, <2>2, <2>3 DEF Owners, BufferOwners, WindowOwners, ConnOwners, TmpOwners, ServerOwners
  <2> QED
    BY <1>a, <1>b, <1>c, <2>4, Opens, Distinct DEF Find
<1>3. CountOK' /\ Served' = Served
  BY <1>a, CountStays DEF Find, Serving, TypeOK
<1>4. ConnOK'
  BY <1>a, <1>b, Distinct DEF Find, ConnOK, TypeOK, Serving
<1>5. ExitOK'
  BY <1>a, <1>3 DEF Find, ExitOK, TypeOK
<1> QED
  BY <1>1, <1>2, <1>3, <1>4, <1>5 DEF IInv

LEMMA SendKeeps ==
  ASSUME IInv, NEW c \in Conn, Send(c)
  PROVE  IInv'
<1>a. TypeOK /\ FdOK /\ CountOK /\ ConnOK /\ ExitOK
  BY DEF IInv
<1>b. tmpFd[c] \in Fd /\ fd[tmpFd[c]] = want[c]
  BY <1>a, OwnedFds DEF Send, ConnOK
<1>1. TypeOK'
  <2>1. WindowConsistent'
    BY <1>a, WindowStays DEF Send, TypeOK
  <2> QED
    BY <1>a, <1>b, <2>1 DEF Send, TypeOK, HandlerPCs
<1>2. FdOK'
  BY <1>a, FdsStay DEF Send, ConnOK
<1>3. CountOK' /\ Served' = Served
  BY <1>a, CountStays DEF Send, Serving, TypeOK
<1>4. ConnOK'
  BY <1>a, <1>b, Distinct DEF Send, ConnOK, TypeOK, Serving
<1>5. ExitOK'
  BY <1>a, <1>3 DEF Send, ExitOK, TypeOK
<1> QED
  BY <1>1, <1>2, <1>3, <1>4, <1>5 DEF IInv

LEMMA FinishKeeps ==
  ASSUME IInv, NEW c \in Conn, Finish(c)
  PROVE  IInv'
<1>a. TypeOK /\ FdOK /\ CountOK /\ ConnOK /\ ExitOK
  BY DEF IInv
<1>b. connFd[c] \in Fd /\ fd[connFd[c]] = c /\ c \in Served
      /\ (tmpFd[c] # NoFd => tmpFd[c] \in Fd)
  BY <1>a, OwnedFds DEF Finish, ConnOK, Served, Serving
<1>1. TypeOK'
  <2>1. WindowConsistent'
    BY <1>a, WindowStays DEF Finish, TypeOK
  <2>2. active - 1 \in Nat
    BY <1>a, <1>b, FS_EmptySet, FS_CardinalityType DEF CountOK
  <2>3. fd' \in [Fd -> {Listen, Closed} \cup Conn \cup Uid]
    BY <1>a DEF Finish, TypeOK
  <2> QED
    BY <1>a, <2>1, <2>2, <2>3 DEF Finish, TypeOK, HandlerPCs
<1>2. FdOK'
  <2> DEFINE conn == <<"conn", c, connFd[c], c>>
             tmp == <<"tmp", c, tmpFd[c], want[c]>>
             old == {conn} \cup (IF tmpFd[c] # NoFd THEN {tmp} ELSE {})
  <2>1. ConnOwners' = ConnOwners \ {conn} /\ conn \in ConnOwners
    BY <1>a, <1>b, Distinct DEF Finish, ConnOwners, TypeOK
  <2>2. /\ TmpOwners' = TmpOwners \ {tmp}
        /\ IF tmpFd[c] # NoFd THEN tmp \in TmpOwners ELSE tmp \notin TmpOwners
    BY <1>a DEF Finish, TmpOwners, TypeOK
  <2>3. BufferOwners' = BufferOwners /\ WindowOwners' = WindowOwners /\ ServerOwners' = ServerOwners
    BY DEF Finish, BufferOwners, WindowOwners, ServerOwners, Registered
  <2>4. /\ \A o \in BufferOwners \cup WindowOwners \cup ServerOwners : o # conn /\ o # tmp
        /\ \A o \in ConnOwners : o # tmp
        /\ \A o \in TmpOwners : o # conn
    BY DEF BufferOwners, WindowOwners, ServerOwners, ConnOwners, TmpOwners
  <2>5. Owners' = BufferOwners \cup WindowOwners \cup (ConnOwners \ {conn}) \cup (TmpOwners \ {tmp}) \cup ServerOwners
    BY <2>1, <2>2, <2>3 DEF Owners, BufferOwners, WindowOwners, ConnOwners, TmpOwners, ServerOwners
  <2>6. \A n \in Fd : fd'[n] = IF \E o \in old : o[3] = n THEN Closed ELSE fd[n]
    <3>1. \A n \in Fd : fd'[n] = IF n \in {connFd[c], tmpFd[c]} THEN Closed ELSE fd[n]
      BY DEF Finish
    <3>2. \A n \in Fd : (\E o \in old : o[3] = n) <=> n \in {connFd[c], tmpFd[c]}
      <4>1. conn[3] = connFd[c] /\ tmp[3] = tmpFd[c]
        OBVIOUS
      <4>2. CASE tmpFd[c] # NoFd
        BY <4>1, <4>2
      <4>3. CASE tmpFd[c] = NoFd
        BY <4>1, <4>3, Distinct
      <4> QED
        BY <4>2, <4>3
    <3> QED
      BY <3>1, <3>2
  <2> HIDE DEF conn, tmp
  <2>7. old \in SUBSET Owners
    BY <2>1, <2>2, OwnersAre
  <2>8. Owners' = Owners \ old
    BY <2>2, <2>4, <2>5, OwnersAre
  <2> QED
    BY <1>a, <2>6, <2>7, <2>8, Closes
<1>3. CountOK'
  <2>1. Served' = Served \ {c}
    BY <1>a DEF Finish, Served, Serving, TypeOK
  <2> QED
    BY <1>a, <1>b, <2>1, FS_RemoveElement DEF Finish, CountOK
<1>4. ConnOK'
  BY <1>a, Distinct DEF Finish, ConnOK, TypeOK, Serving
<1>5. ExitOK'
  <2>1. Served # {}
    BY <1>b
  <2> QED
    BY <1>a, <2>1 DEF Finish, ExitOK
<1> QED
  BY <1>1, <1>2, <1>3, <1>4, <1>5 DEF IInv

LEMMA StopRunningKeeps ==
  ASSUME IInv, StopRunning
  PROVE  IInv'
<1>a. TypeOK /\ FdOK /\ CountOK /\ ConnOK /\ ExitOK
  BY DEF IInv
<1>1. TypeOK'
  BY <1>a, WindowStays DEF StopRunning, TypeOK
<1>2. FdOK'
  BY <1>a, FdsStay DEF StopRunning, ConnOK
<1>3. CountOK' /\ Served' = Served
  BY <1>a, CountStays DEF StopRunning, Serving, TypeOK
<1>4. ConnOK'
  BY <1>a, Distinct DEF StopRunning, ConnOK, TypeOK, Serving
<1>5. ExitOK'
  BY <1>a, <1>3 DEF StopRunning, ExitOK, TypeOK
<1> QED
  BY <1>1, <1>2, <1>3, <1>4, <1>5 DEF IInv

LEMMA CloseServerKeeps ==
  ASSUME IInv, CloseServer
  PROVE  IInv'
<1>a. TypeOK /\ FdOK /\ CountOK /\ ConnOK /\ ExitOK
  BY DEF IInv
<1>1. TypeOK'
  <2>1. WindowConsistent'
    BY <1>a, WindowStays DEF CloseServer, TypeOK
  <2>2. handler' \in [Conn -> HandlerPCs]
    BY <1>a DEF CloseServer, TypeOK, HandlerPCs
  <2>3. fd' \in [Fd -> {Listen, Closed} \cup Conn \cup Uid]
    BY <1>a DEF CloseServer, TypeOK
  <2> QED
    BY <1>a, <2>1, <2>2, <2>3 DEF CloseServer, TypeOK
<1>2. FdOK'
  <2> DEFINE old == <<"server", 0, serverFd, Listen>>
  <2>0. serverFd \in Fd /\ fd[serverFd] = Listen
    BY <1>a, OwnedFds DEF CloseServer
  <2>1. ServerOwners = {old} /\ ServerOwners' = {}
    BY DEF CloseServer, ServerOwners
  <2>2. BufferOwners' = BufferOwners /\ WindowOwners' = WindowOwners /\ ConnOwners' = ConnOwners /\ TmpOwners' = TmpOwners
    BY DEF CloseServer, BufferOwners, WindowOwners, ConnOwners, TmpOwners, Registered
  <2>3. \A o \in BufferOwners \cup WindowOwners \cup ConnOwners \cup TmpOwners : o # old
    BY DEF BufferOwners, WindowOwners, ConnOwners, TmpOwners
  <2>4. Owners' = BufferOwners \cup WindowOwners \cup ConnOwners \cup TmpOwners
    BY <2>1, <2>2 DEF Owners, BufferOwners, WindowOwners, ConnOwners, TmpOwners, ServerOwners
  <2>5. Owners' = Owners \ {old} /\ old \in Owners
    BY <2>1, <2>3, <2>4, OwnersAre
  <2>6. \A n \in Fd : fd'[n] = IF \E o \in {old} : o[3] = n THEN Closed ELSE fd[n]
    BY <1>a, <2>0 DEF CloseServer, TypeOK
  <2> QED
    BY <1>a, <2>5, <2>6, Closes
<1>3. CountOK' /\ Served' = Served
  BY <1>a, CountStays DEF CloseServer, Serving, TypeOK
<1>4. ConnOK'
  BY <1>a DEF CloseServer, ConnOK, TypeOK, Serving
<1>5. ExitOK'
  BY <1>a, <1>3 DEF CloseServer, ExitOK, TypeOK
<1> QED
  BY <1>1, <1>2, <1>3, <1>4, <1>5 DEF IInv

LEMMA ForgetServerKeeps ==
  ASSUME IInv, ForgetServer
  PROVE  IInv'
<1>a. TypeOK /\ FdOK /\ CountOK /\ ConnOK /\ ExitOK
  BY DEF IInv
<1>1. TypeOK'
  BY <1>a, WindowStays DEF ForgetServer, TypeOK, HandlerPCs, ClientPCs
<1>2. FdOK'
  BY <1>a, FdsStay DEF ForgetServer
<1>3. CountOK' /\ Served' = Served
  BY <1>a, CountStays DEF ForgetServer, Serving, TypeOK
<1>4. ConnOK'
  BY <1>a, Distinct DEF ForgetServer, ConnOK, TypeOK, Serving
<1>5. ExitOK'
  BY <1>a, <1>3 DEF ForgetServer, ExitOK, TypeOK
<1> QED
  BY <1>1, <1>2, <1>3, <1>4, <1>5 DEF IInv

LEMMA JoinWorkerKeeps ==
  ASSUME IInv, JoinWorker
  PROVE  IInv'
<1>a. TypeOK /\ FdOK /\ CountOK /\ ConnOK /\ ExitOK
  BY DEF IInv
<1>1. TypeOK'
  BY <1>a, WindowStays DEF JoinWorker, TypeOK, HandlerPCs, ClientPCs
<1>2. FdOK'
  BY <1>a, FdsStay DEF JoinWorker, ConnOK
<1>3. CountOK' /\ Served' = Served
  BY <1>a, CountStays DEF JoinWorker, Serving, TypeOK
<1>4. ConnOK'
  BY <1>a, Distinct DEF JoinWorker, ConnOK, TypeOK, Serving
<1>5. ExitOK'
  BY <1>a, <1>3 DEF JoinWorker, ExitOK, TypeOK
<1> QED
  BY <1>1, <1>2, <1>3, <1>4, <1>5 DEF IInv

LEMMA TearDownKeeps ==
  ASSUME IInv, TearDown
  PROVE  IInv'
<1>a. TypeOK /\ FdOK /\ CountOK /\ ConnOK /\ ExitOK
  BY DEF IInv
<1>b. Served = {}
  BY <1>a, FS_EmptySet DEF TearDown, CountOK
<1>1. TypeOK'
  <2>1. WindowConsistent'
    BY ConstantsOK DEF TearDown, WindowConsistent, Registered, ConstantsOK
  <2> QED
    BY <1>a, <2>1 DEF TearDown, TypeOK
<1>2. FdOK'
  <2>1. WindowOwners' = {}
    BY DEF TearDown, WindowOwners, Registered
  <2>2. BufferOwners' = BufferOwners /\ ServerOwners' = ServerOwners /\ ConnOwners' = ConnOwners /\ TmpOwners' = TmpOwners
    BY DEF TearDown, BufferOwners, ServerOwners, ConnOwners, TmpOwners
  <2>3. \A o \in BufferOwners \cup ServerOwners \cup ConnOwners \cup TmpOwners : o \notin WindowOwners
    BY DEF BufferOwners, WindowOwners, ConnOwners, TmpOwners, ServerOwners
  <2>4. Owners' = BufferOwners \cup ServerOwners \cup ConnOwners \cup TmpOwners
    BY <2>1, <2>2 DEF Owners, BufferOwners, WindowOwners, ConnOwners, TmpOwners, ServerOwners
  <2>5. Owners' = Owners \ WindowOwners /\ WindowOwners \in SUBSET Owners
    BY <2>3, <2>4, OwnersAre
  <2>6. \A n \in Fd : (\E u \in Uid : table[u] = n) <=> \E o \in WindowOwners : o[3] = n
    <3>1. ASSUME NEW n \in Fd, NEW u \in Uid, table[u] = n
          PROVE  \E o \in WindowOwners : o[3] = n
      <4>1. <<"window", u, table[u], u>> \in WindowOwners
        BY <3>1, Distinct DEF WindowOwners, Registered
      <4> QED
        BY <3>1, <4>1
    <3>2. \A o \in WindowOwners : \E u \in Uid : table[u] = o[3]
      BY DEF WindowOwners
    <3> QED
      BY <3>1, <3>2
  <2>7. \A n \in Fd : fd'[n] = IF \E o \in WindowOwners : o[3] = n THEN Closed ELSE fd[n]
    BY <2>6 DEF TearDown
  <2> QED
    BY <1>a, <2>5, <2>7, Closes
<1>3. CountOK' /\ Served' = Served
  BY <1>a, CountStays DEF TearDown, Serving, TypeOK
<1>4. ConnOK'
  BY <1>a, Distinct DEF TearDown, ConnOK, TypeOK, Serving
<1>5. ExitOK'
  BY <1>a, <1>b, <1>3 DEF TearDown, ExitOK
<1> QED
  BY <1>1, <1>2, <1>3, <1>4, <1>5 DEF IInv

LEMMA ConnectKeeps ==
  ASSUME IInv, NEW c \in Conn, NEW u \in Uid, Connect(c, u)
  PROVE  IInv'
<1>a. TypeOK /\ FdOK /\ CountOK /\ ConnOK /\ ExitOK
  BY DEF IInv
<1>1. TypeOK'
  BY <1>a, WindowStays DEF Connect, TypeOK, HandlerPCs, ClientPCs
<1>2. FdOK'
  BY <1>a, FdsStay DEF Connect, ConnOK
<1>3. CountOK' /\ Served' = Served
  BY <1>a, CountStays DEF Connect, ConnOK, Serving, TypeOK
<1>4. ConnOK'
  BY <1>a, Distinct DEF Connect, ConnOK, TypeOK, Serving
<1>5. ExitOK'
  BY <1>a, <1>3 DEF Connect, ExitOK, TypeOK
<1> QED
  BY <1>1, <1>2, <1>3, <1>4, <1>5 DEF IInv

LEMMA AskKeeps ==
  ASSUME IInv, NEW c \in Conn, Ask(c)
  PROVE  IInv'
<1>a. TypeOK /\ FdOK /\ CountOK /\ ConnOK /\ ExitOK
  BY DEF IInv
<1>1. TypeOK'
  BY <1>a, WindowStays DEF Ask, TypeOK, HandlerPCs, ClientPCs
<1>2. FdOK'
  BY <1>a, FdsStay DEF Ask, ConnOK
<1>3. CountOK' /\ Served' = Served
  BY <1>a, CountStays DEF Ask, Serving, TypeOK
<1>4. ConnOK'
  BY <1>a, Distinct DEF Ask, ConnOK, TypeOK, Serving
<1>5. ExitOK'
  BY <1>a, <1>3 DEF Ask, ExitOK, TypeOK
<1> QED
  BY <1>1, <1>2, <1>3, <1>4, <1>5 DEF IInv

LEMMA AskTooLateKeeps ==
  ASSUME IInv, NEW c \in Conn, AskTooLate(c)
  PROVE  IInv'
<1>a. TypeOK /\ FdOK /\ CountOK /\ ConnOK /\ ExitOK
  BY DEF IInv
<1>1. TypeOK'
  BY <1>a, WindowStays DEF AskTooLate, TypeOK, HandlerPCs, ClientPCs
<1>2. FdOK'
  BY <1>a, FdsStay DEF AskTooLate, ConnOK
<1>3. CountOK' /\ Served' = Served
  BY <1>a, CountStays DEF AskTooLate, Serving, TypeOK
<1>4. ConnOK'
  BY <1>a, Distinct DEF AskTooLate, ConnOK, TypeOK, Serving
<1>5. ExitOK'
  BY <1>a, <1>3 DEF AskTooLate, ExitOK, TypeOK
<1> QED
  BY <1>1, <1>2, <1>3, <1>4, <1>5 DEF IInv

LEMMA MapKeeps ==
  ASSUME IInv, NEW c \in Conn, Map(c)
  PROVE  IInv'
<1>a. TypeOK /\ FdOK /\ CountOK /\ ConnOK /\ ExitOK
  BY DEF IInv
<1>1. TypeOK'
  BY <1>a, WindowStays DEF Map, TypeOK, HandlerPCs, ClientPCs
<1>2. FdOK'
  BY <1>a, FdsStay DEF Map, ConnOK
<1>3. CountOK' /\ Served' = Served
  BY <1>a, CountStays DEF Map, Serving, TypeOK
<1>4. ConnOK'
  BY <1>a, Distinct DEF Map, ConnOK, TypeOK, Serving
<1>5. ExitOK'
  BY <1>a, <1>3 DEF Map, ExitOK, TypeOK
<1> QED
  BY <1>1, <1>2, <1>3, <1>4, <1>5 DEF IInv

LEMMA ComeBackEmptyKeeps ==
  ASSUME IInv, NEW c \in Conn, ComeBackEmpty(c)
  PROVE  IInv'
<1>a. TypeOK /\ FdOK /\ CountOK /\ ConnOK /\ ExitOK
  BY DEF IInv
<1>1. TypeOK'
  BY <1>a, WindowStays DEF ComeBackEmpty, TypeOK, HandlerPCs, ClientPCs
<1>2. FdOK'
  BY <1>a, FdsStay DEF ComeBackEmpty, ConnOK
<1>3. CountOK' /\ Served' = Served
  BY <1>a, CountStays DEF ComeBackEmpty, Serving, TypeOK
<1>4. ConnOK'
  BY <1>a, Distinct DEF ComeBackEmpty, ConnOK, TypeOK, Serving
<1>5. ExitOK'
  BY <1>a, <1>3 DEF ComeBackEmpty, ExitOK, TypeOK
<1> QED
  BY <1>1, <1>2, <1>3, <1>4, <1>5 DEF IInv

-----------------------------------------------------------------------------
LEMMA Initially == Init => IInv
<1> SUFFICES ASSUME Init PROVE IInv
  OBVIOUS
<1>0. 0 \in Fd
  BY ConstantsOK DEF Fd, ConstantsOK
<1>1. TypeOK
  <2>1. WindowConsistent
    BY ConstantsOK DEF Init, WindowConsistent, Registered, ConstantsOK
  <2>2. nextUid \in 1 .. (MaxUid + 1)
    BY ConstantsOK DEF Init, ConstantsOK
  <2> QED
    BY <1>0, <2>1, <2>2 DEF Init, TypeOK, HandlerPCs, ClientPCs
<1>2. FdOK
  <2>1. Owners = {<<"server", 0, 0, Listen>>}
    BY DEF Init, Owners, Registered
  <2> QED
    BY <1>0, <2>1, Distinct DEF Init, FdOK
<1>3. CountOK /\ Served = {}
  <2>1. Served = {}
    BY DEF Init, Served, Serving
  <2> QED
    BY <2>1, FS_EmptySet DEF Init, CountOK
<1>4. ConnOK
  BY DEF Init, ConnOK, Serving
<1>5. ExitOK
  BY DEF Init, ExitOK
<1> QED
  BY <1>1, <1>2, <1>3, <1>4, <1>5 DEF IInv

LEMMA Stutters == IInv /\ UNCHANGED vars => IInv'
<1> SUFFICES ASSUME IInv, UNCHANGED vars PROVE IInv'
  OBVIOUS
<1>a. TypeOK /\ FdOK /\ CountOK /\ ConnOK /\ ExitOK
  BY DEF IInv
<1>1. TypeOK'
  BY <1>a, WindowStays DEF vars, TypeOK
<1>2. FdOK'
  BY <1>a, FdsStay DEF vars
<1>3. CountOK' /\ Served' = Served
  BY <1>a, CountStays DEF vars
<1>4. ConnOK'
  BY <1>a DEF vars, ConnOK
<1>5. ExitOK'
  BY <1>a, <1>3 DEF vars, ExitOK
<1> QED
  BY <1>1, <1>2, <1>3, <1>4, <1>5 DEF IInv

LEMMA Inductive == IInv /\ [Next]_vars => IInv'
<1> SUFFICES ASSUME IInv, [Next]_vars PROVE IInv'
  OBVIOUS
<1>1. CASE UNCHANGED vars
  BY <1>1, Stutters
<1>2. CASE Allocate \/ \E u \in Uid : Publish(u) \/ Release(u)
  BY <1>2, AllocateKeeps, PublishKeeps, ReleaseKeeps
<1>3. CASE Worker
  BY <1>3, WorkerChecksKeeps, AcceptFailsKeeps, AcceptKeeps DEF Worker
<1>4. CASE StopRunning \/ Destructor
  BY <1>4, StopRunningKeeps, CloseServerKeeps, ForgetServerKeeps, JoinWorkerKeeps, TearDownKeeps DEF Destructor
<1>5. ASSUME NEW c \in Conn, Handler(c)
      PROVE  IInv'
  BY <1>5, RecvFailsKeeps, MissKeeps, FindKeeps, SendKeeps, FinishKeeps DEF Handler
<1>6. ASSUME NEW c \in Conn, Client(c)
      PROVE  IInv'
  <2>1. CASE \E u \in published : Connect(c, u)
    <3>1. published \subseteq Uid
      BY DEF IInv, TypeOK
    <3> QED
      BY <2>1, <3>1, ConnectKeeps
  <2> QED
    BY <1>6, <2>1, AskKeeps, AskTooLateKeeps, MapKeeps, ComeBackEmptyKeeps DEF Client
<1> QED
  BY <1>1, <1>2, <1>3, <1>4, <1>5, <1>6 DEF Next

LEMMA Invariant == Spec => []IInv
BY Initially, Inductive, PTL DEF Spec

-----------------------------------------------------------------------------
\* The variables keep their types: the window never goes over its capacity, holds no uid
\* twice, and table_ and order_ agree; the counter of connections never goes below zero.
THEOREM TypeCorrect == Spec => []TypeOK
<1>1. IInv => TypeOK
  BY DEF IInv
<1> QED
  BY <1>1, Invariant, PTL

\* Every open number has exactly one owner and stands for what it believes, for any window,
\* any number of connections and any limit of open files.
THEOREM FdsAreAccounted == Spec => []FdsAccounted
<1>1. ASSUME IInv
      PROVE  Cardinality(Owners) = Cardinality({n \in Fd : fd[n] # Closed})
  <2> DEFINE open == {n \in Fd : fd[n] # Closed}
             number == [o \in Owners |-> o[3]]
  <2>1. IsFiniteSet(open)
    <3>1. IsFiniteSet(Fd)
      BY ConstantsOK, FS_Interval DEF Fd, ConstantsOK
    <3> QED
      BY <3>1, FS_Subset
  <2>2. number \in Injection(Owners, open) /\ number \in Surjection(Owners, open)
    <3>1. \A o \in Owners : o[3] \in open
      BY <1>1 DEF IInv, FdOK
    <3>2. \A o, p \in Owners : o[3] = p[3] => o = p
      BY <1>1 DEF IInv, FdOK
    <3>3. \A n \in open : \E o \in Owners : o[3] = n
      BY <1>1 DEF IInv, FdOK
    <3> HIDE DEF open
    <3>4. number \in [Owners -> open]
      BY <3>1
    <3>5. IsInjective(number)
      BY <3>2 DEF IsInjective
    <3>6. \A n \in open : \E o \in Owners : number[o] = n
      BY <3>3
    <3> QED
      BY <3>4, <3>5, <3>6 DEF Injection, Surjection
  <2> HIDE DEF number, open
  <2>3. Cardinality(Owners) = Cardinality(open)
    BY <2>1, <2>2, FS_Injection
  <2> QED
    BY <2>3 DEF open
<1>2. IInv => FdsAccounted
  BY <1>1 DEF IInv, FdOK, FdsAccounted
<1> QED
  BY <1>2, Invariant, PTL

\* Whatever is evicted, released, closed and numbered anew between a publication and its
\* fetch, a subscriber that maps something maps the buffer its descriptor is about.
THEOREM MappingsAreRight == Spec => []MappedIsDescribed
<1>1. IInv => MappedIsDescribed
  BY DEF IInv, ConnOK, MappedIsDescribed
<1> QED
  BY <1>1, Invariant, PTL

\* The destructor waits for the last connection, and closes all that is not the user's.
THEOREM BrokerOutlivesAll == Spec => []NothingOutlivesBroker
<1>1. ASSUME IInv, exit = "gone"
      PROVE  /\ \A c \in Conn : handler[c] \notin Serving
             /\ \A n \in Fd : fd[n] # Closed => \E u \in Uid : buffer[u] = n
  <2>1. Served = {} /\ \A u \in Uid : table[u] = NoFd
    BY <1>1 DEF IInv, ExitOK
  <2>2. \A c \in Conn : handler[c] \notin Serving /\ connFd[c] = NoFd /\ tmpFd[c] = NoFd
    BY <1>1, <2>1 DEF IInv, ConnOK, Served, Serving
  <2>3. Owners = BufferOwners
    BY <1>1, <2>1, <2>2 DEF Owners, BufferOwners, Registered
  <2>4. \A o \in BufferOwners : \E u \in Uid : buffer[u] = o[3]
    BY DEF BufferOwners
  <2> QED
    BY <1>1, <2>2, <2>3, <2>4 DEF IInv, FdOK
<1>2. IInv => NothingOutlivesBroker
  BY <1>1 DEF NothingOutlivesBroker
<1> QED
  BY <1>2, Invariant, PTL
=============================================================================
