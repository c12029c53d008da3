---------------------- MODULE HostEndpointRegistryProofs ----------------------
(***************************************************************************)
(* Proofs about HostEndpointRegistry, for any processes, entries, crashes  *)
(* and any number of registries and semaphores under the two names.  What  *)
(* a process does to a registry is safe from others only while the         *)
(* registry is used with one semaphore (OneSem): two processes that are    *)
(* both in a critical section of such a registry are the same process.     *)
(* All the parts of IInv were checked by TLC on the instance of            *)
(* MCHostEndpointRegistry first.                                           *)
(***************************************************************************)
EXTENDS HostEndpointRegistryRefinement, FiniteSetTheorems, TLAPS

\* Where a process has both names open.
Attached == Waiting \cup InCS \cup {"up", "merging"}

\* A process works on a registry and a semaphore that were created, and that were used
\* together at least by itself.
PlaceOK ==
  /\ shmName <= shms /\ semName <= sems
  /\ \A p \in Proc :
       /\ pc[p] \in Attached \cup {"opened"} => myShm[p] \in 1 .. shms
       /\ pc[p] \in Attached => mySem[p] \in 1 .. sems /\ mySem[p] \in semsOf[myShm[p]]
       /\ pc[p] = "found" => slot[p] \in Slot

\* The process is in a critical section under s.
Holds(p, s) == pc[p] \in InCS /\ mySem[p] = s

\* SemaphoreAccounted without counting.
SemOK ==
  \A s \in Sems :
    /\ \A p, q \in Proc : Holds(p, s) /\ Holds(q, s) => p = q
    /\ value[s] = 1 \/ s \in stuck => \A p \in Proc : ~Holds(p, s)
    /\ value[s] = 1 => s \notin stuck
    /\ value[s] = 0 => s <= sems /\ (s \in stuck \/ \E p \in Proc : Holds(p, s))

\* An active entry has a gid.
EntryOK == \A r \in Shms : \A i \in active[r] : gid[r][i] \in Proc

\* Where a process is before its constructor has returned.
Early == {"off", "opened", "attached", "initialising", "fresh"}

\* A process registers once, after that.
AskedOK ==
  /\ joined \subseteq asked
  /\ \A p \in Proc :
       /\ p \in asked => pc[p] \notin Early
       /\ pc[p] \in {"registering", "searching", "found", "written"} =>
            p \in asked /\ p \notin joined

\* Nobody initialises a registry that somebody works with.
InitOK ==
  \A p \in Proc :
    /\ pc[p] \in Attached \ {"attached", "initialising", "fresh"} => version[myShm[p]] = 1
    /\ pc[p] = "fresh" /\ OneSem(myShm[p]) => version[myShm[p]] = 0

\* The entry that was found is nobody else's.
FoundOK ==
  \A p \in Proc :
    pc[p] = "found" /\ OneSem(myShm[p]) /\ slot[p] \in active[myShm[p]]
      => gid[myShm[p]][slot[p]] = p

\* Where a process is that has registered and not begun to clear its entry.
Kept == {"up", "refreshing", "copying", "merging", "leaving", "clearing"}
Listed(p) == (p \in joined /\ pc[p] \in Kept) \/ pc[p] = "written"
Entry(p, r, i) == i \in active[r] /\ gid[r][i] = p

\* Who has registered is in its registry.
MemberOK ==
  \A p \in Proc :
    Listed(p) /\ OneSem(myShm[p]) => \E i \in Slot : Entry(p, myShm[p], i)

\* As long as nobody dies or gives up, an active entry's process will clear it, and
\* there is somebody to take each name away.
ExitOK ==
  gaveUp = {} /\ (\A p \in Proc : pc[p] # "dead") =>
    /\ \A r \in Shms : \A i \in active[r] :
         /\ gid[r][i] \in asked
         /\ myShm[gid[r][i]] = r
         /\ pc[gid[r][i]] \in Kept \cup {"registering", "searching", "found", "written"}
    /\ shmName # 0 => \E p \in Proc : pc[p] \notin {"off", "gone", "unlinkSem"}
    /\ semName # 0 => \E p \in Proc : pc[p] \notin {"off", "gone"}

IInv ==
  /\ TypeOK /\ PlaceOK /\ SemOK /\ EntryOK /\ AskedOK
  /\ InitOK /\ FoundOK /\ MemberOK /\ ExitOK

-----------------------------------------------------------------------------
USE DEF files, regs, mine, hist, Go, Post, Shms, Sems, Waiting, InCS, Places, Attached, Early, Kept

\* A step that takes and gives back no semaphore.
LEMMA SemaphoresStay ==
  ASSUME TypeOK, TypeOK', SemOK, value' = value, stuck' = stuck, sems <= sems',
         \A q \in Proc, s \in Sems : Holds(q, s)' <=> Holds(q, s)
  PROVE  SemOK'
BY DEF TypeOK, SemOK

\* sem_post.
LEMMA SemaphoreBack ==
  ASSUME TypeOK, TypeOK', SemOK, NEW p \in Proc, Holds(p, mySem[p]), mySem[p] \in Sems,
         value' = [value EXCEPT ![mySem[p]] = 1], stuck' = stuck, sems' = sems,
         \A q \in Proc, s \in Sems : Holds(q, s)' <=> Holds(q, s) /\ q # p
  PROVE  SemOK'
<1>1. \A s \in Sems : s # mySem[p] => value'[s] = value[s]
  BY DEF TypeOK
<1>2. value'[mySem[p]] = 1
  BY DEF TypeOK
<1>3. \A q \in Proc, s \in Sems : s = mySem[p] => ~Holds(q, s)'
  BY DEF SemOK
<1>4. mySem[p] \notin stuck
  <2>1. PICK s \in Sems : s = mySem[p]
    OBVIOUS
  <2>2. s \notin stuck
    BY <2>1 DEF SemOK
  <2> QED
    BY <2>1, <2>2
<1>5. \A s \in Sems, q \in Proc : s # mySem[p] => (Holds(q, s)' <=> Holds(q, s))
  BY DEF Holds
<1> QED
  BY <1>1, <1>2, <1>3, <1>4, <1>5 DEF SemOK

\* A step that takes nobody's entry away.
LEMMA MembersStay ==
  ASSUME TypeOK, TypeOK', MemberOK,
         \A q \in Proc : Listed(q)' => Listed(q) /\ myShm'[q] = myShm[q] /\ myShm[q] \in Shms,
         \A r \in Shms : semsOf[r] \subseteq semsOf'[r],
         \A q \in Proc, i \in Slot :
           Listed(q)' /\ OneSem(myShm[q]) /\ Entry(q, myShm[q], i) => Entry(q, myShm[q], i)'
  PROVE  MemberOK'
<1> SUFFICES ASSUME NEW q \in Proc, Listed(q)', OneSem(myShm[q])'
             PROVE  \E i \in Slot : Entry(q, myShm[q], i)'
  BY DEF MemberOK
<1>1. Listed(q) /\ myShm'[q] = myShm[q] /\ myShm[q] \in Shms
  OBVIOUS
<1>2. OneSem(myShm[q])
  BY <1>1 DEF OneSem
<1>3. PICK i \in Slot : Entry(q, myShm[q], i)
  BY <1>1, <1>2 DEF MemberOK
<1>4. Entry(q, myShm[q], i)'
  BY <1>1, <1>2, <1>3
<1> QED
  BY <1>4

-----------------------------------------------------------------------------
\* One step per action, and under it one per conjunct.
LEMMA StepPreserves ==
  ASSUME IInv, NEW p \in Proc,
         OpenShm(p) \/ OpenSem(p) \/ Wait(p) \/ Timeout(p) \/ Attach(p) \/ Initialise(p) \/ Register(p) \/ FindSlot(p) \/ RegistryFull(p) \/ WriteSlot(p) \/ Registered(p) \/ Refresh(p) \/ Copy(p) \/ Merge(p) \/ Leave(p) \/ ClearOwn(p) \/ Detach(p) \/ UnlinkShm(p) \/ UnlinkSem(p) \/ Crash(p)
  PROVE  IInv'
<1>a. TypeOK /\ PlaceOK /\ SemOK /\ EntryOK /\ AskedOK /\ InitOK /\ FoundOK /\ MemberOK /\ ExitOK
  BY DEF IInv
<1>b. ASSUME pc[p] \in InCS, Post(p)
      PROVE  /\ value' = [value EXCEPT ![mySem[p]] = 1] /\ value' \in [Sems -> {0, 1}]
             /\ mySem[p] \in Sems /\ Holds(p, mySem[p])
  <2>1. mySem[p] \in Sems /\ Holds(p, mySem[p])
    BY <1>a, <1>b DEF TypeOK, PlaceOK, Holds
  <2>2. value[mySem[p]] = 0
    BY <1>a, <2>1 DEF TypeOK, SemOK
  <2> QED
    BY <1>a, <1>b, <2>1, <2>2 DEF TypeOK
<1>c. \A r \in Shms : Alive(r) \subseteq active[r]
  BY DEF Alive
<1>1. CASE OpenShm(p)
  <2>1. TypeOK'
    BY <1>a, <1>1, ConstantsOK DEF OpenShm, TypeOK, PlaceOK, ConstantsOK
  <2>2. PlaceOK'
    BY <1>a, <1>1, ConstantsOK DEF OpenShm, PlaceOK, TypeOK, ConstantsOK
  <2>3. SemOK'
    <3>1. \A q \in Proc, s \in Sems : Holds(q, s)' <=> Holds(q, s)
      BY <1>a, <1>1 DEF OpenShm, Holds, TypeOK
    <3>2. value' = value /\ stuck' = stuck /\ sems <= sems'
      BY <1>a, <1>1 DEF OpenShm, TypeOK
    <3> QED
      BY <1>a, <2>1, <3>1, <3>2, SemaphoresStay
  <2>4. EntryOK'
    BY <1>a, <1>1 DEF OpenShm, EntryOK, TypeOK, PlaceOK
  <2>5. AskedOK'
    BY <1>a, <1>1 DEF OpenShm, AskedOK, TypeOK
  <2>6. InitOK'
    BY <1>a, <1>1 DEF OpenShm, InitOK, TypeOK, PlaceOK, OneSem, AskedOK
  <2>7. FoundOK'
    BY <1>a, <1>1 DEF OpenShm, FoundOK, TypeOK, PlaceOK, OneSem, EntryOK
  <2>8. MemberOK'
    <3>1. \A q \in Proc : Listed(q)' => Listed(q) /\ myShm'[q] = myShm[q] /\ myShm[q] \in Shms
      BY <1>a, <1>1 DEF OpenShm, Listed, TypeOK, PlaceOK, AskedOK
    <3>2. \A r \in Shms : semsOf[r] \subseteq semsOf'[r]
      BY <1>a, <1>1 DEF OpenShm, TypeOK
    <3>3. \A q \in Proc, i \in Slot :
              Listed(q)' /\ OneSem(myShm[q]) /\ Entry(q, myShm[q], i) => Entry(q, myShm[q], i)'
      BY <1>a, <1>1, <3>1 DEF OpenShm, Entry, Listed, TypeOK, PlaceOK
    <3> QED
      BY <1>a, <2>1, <3>1, <3>2, <3>3, MembersStay
  <2>9. ExitOK'
    BY <1>a, <1>1 DEF OpenShm, ExitOK, TypeOK, PlaceOK, AskedOK
  <2> QED
    BY <2>1, <2>2, <2>3, <2>4, <2>5, <2>6, <2>7, <2>8, <2>9 DEF IInv
<1>2. CASE OpenSem(p)
  <2>1. TypeOK'
    BY <1>a, <1>2, ConstantsOK DEF OpenSem, TypeOK, PlaceOK, ConstantsOK
  <2>2. PlaceOK'
    BY <1>a, <1>2, ConstantsOK DEF OpenSem, PlaceOK, TypeOK, ConstantsOK
  <2>3. SemOK'
    <3>1. \A q \in Proc, s \in Sems : Holds(q, s)' <=> Holds(q, s)
      BY <1>a, <1>2 DEF OpenSem, Holds, TypeOK
    <3> QED
      BY <1>a, <1>2, <2>1, <3>1, SemaphoresStay, ConstantsOK DEF OpenSem, TypeOK, ConstantsOK
  <2>4. EntryOK'
    BY <1>a, <1>2 DEF OpenSem, EntryOK, TypeOK, PlaceOK
  <2>5. AskedOK'
    BY <1>a, <1>2 DEF OpenSem, AskedOK, TypeOK
  <2>6. InitOK'
    <3>1. \A r \in Shms : semsOf[r] \subseteq semsOf'[r]
      BY <1>a, <1>2 DEF OpenSem, TypeOK
    <3>2. \A q \in Proc : pc'[q] \in Attached \ {"attached"} => pc[q] = pc'[q] /\ myShm[q] \in Shms
      BY <1>a, <1>2 DEF OpenSem, TypeOK, PlaceOK
    <3>3. \A r \in Shms : OneSem(r)' => OneSem(r)
      BY <3>1 DEF OneSem
    <3> QED
      BY <1>a, <1>2, <3>2, <3>3 DEF OpenSem, InitOK
  <2>7. FoundOK'
    BY <1>a, <1>2 DEF OpenSem, FoundOK, TypeOK, PlaceOK, OneSem, EntryOK
  <2>8. MemberOK'
    <3>1. \A q \in Proc : Listed(q)' => Listed(q) /\ myShm'[q] = myShm[q] /\ myShm[q] \in Shms
      BY <1>a, <1>2 DEF OpenSem, Listed, TypeOK, PlaceOK, AskedOK
    <3>2. \A r \in Shms : semsOf[r] \subseteq semsOf'[r]
      BY <1>a, <1>2 DEF OpenSem, TypeOK
    <3>3. \A q \in Proc, i \in Slot :
              Listed(q)' /\ OneSem(myShm[q]) /\ Entry(q, myShm[q], i) => Entry(q, myShm[q], i)'
      BY <1>a, <1>2, <3>1 DEF OpenSem, Entry, Listed, TypeOK, PlaceOK
    <3> QED
      BY <1>a, <2>1, <3>1, <3>2, <3>3, MembersStay
  <2>9. ExitOK'
    BY <1>a, <1>2 DEF OpenSem, ExitOK, TypeOK, PlaceOK, AskedOK
  <2> QED
    BY <2>1, <2>2, <2>3, <2>4, <2>5, <2>6, <2>7, <2>8, <2>9 DEF IInv
<1>3. CASE Wait(p)
  <2>1. TypeOK'
    BY <1>a, <1>3 DEF Wait, TypeOK, PlaceOK, Enters
  <2>2. PlaceOK'
    BY <1>a, <1>3 DEF Wait, PlaceOK, TypeOK, Enters
  <2>3. SemOK'
    BY <1>a, <1>3 DEF Wait, SemOK, TypeOK, PlaceOK, Holds, Enters
  <2>4. EntryOK'
    BY <1>a, <1>3 DEF Wait, EntryOK, TypeOK, PlaceOK
  <2>5. AskedOK'
    BY <1>a, <1>3 DEF Wait, AskedOK, TypeOK, Enters
  <2>6. InitOK'
    BY <1>a, <1>3 DEF Wait, InitOK, TypeOK, PlaceOK, OneSem, SemOK, Holds, Enters, AskedOK
  <2>7. FoundOK'
    BY <1>a, <1>3 DEF Wait, FoundOK, TypeOK, PlaceOK, OneSem, SemOK, Holds, Enters, EntryOK
  <2>8. MemberOK'
    <3>1. \A q \in Proc : Listed(q)' => Listed(q) /\ myShm'[q] = myShm[q] /\ myShm[q] \in Shms
      BY <1>a, <1>3 DEF Wait, Listed, TypeOK, PlaceOK, AskedOK, Enters
    <3>2. \A r \in Shms : semsOf[r] \subseteq semsOf'[r]
      BY <1>a, <1>3 DEF Wait, TypeOK
    <3>3. \A q \in Proc, i \in Slot :
              Listed(q)' /\ OneSem(myShm[q]) /\ Entry(q, myShm[q], i) => Entry(q, myShm[q], i)'
      BY <1>a, <1>3, <3>1 DEF Wait, Entry, Listed, TypeOK, PlaceOK
    <3> QED
      BY <1>a, <2>1, <3>1, <3>2, <3>3, MembersStay
  <2>9. ExitOK'
    <3>1. \A q \in Proc : \/ pc'[q] = pc[q]
                          \/ pc[q] \in Waiting /\ pc'[q] \in InCS /\ (pc[q] = "leaving" => pc'[q] = "clearing")
                               /\ (pc[q] = "refreshing" => pc'[q] = "copying") /\ (pc[q] = "registering" => pc'[q] = "searching")
      BY <1>a, <1>3 DEF Wait, TypeOK, Enters
    <3>2. UNCHANGED <<files, regs, mine, hist>>
      BY <1>3 DEF Wait
    <3>3. \A q \in asked : pc[q] # "attached"
      BY <1>a DEF AskedOK, TypeOK
    <3>4. asked \subseteq Proc
      BY <1>a DEF TypeOK
    <3> HIDE <1>3
    <3> QED
      BY <1>a, <3>1, <3>2, <3>3, <3>4 DEF ExitOK
  <2> QED
    BY <2>1, <2>2, <2>3, <2>4, <2>5, <2>6, <2>7, <2>8, <2>9 DEF IInv
<1>4. CASE Timeout(p)
  <2>1. TypeOK'
    BY <1>a, <1>4 DEF Timeout, TypeOK, PlaceOK, GivesUp
  <2>2. PlaceOK'
    BY <1>a, <1>4 DEF Timeout, PlaceOK, TypeOK, GivesUp
  <2>3. SemOK'
    <3>1. \A q \in Proc, s \in Sems : Holds(q, s)' <=> Holds(q, s)
      BY <1>a, <1>4 DEF Timeout, Holds, TypeOK, GivesUp
    <3> QED
      BY <1>a, <1>4, <2>1, <3>1, SemaphoresStay DEF Timeout, TypeOK
  <2>4. EntryOK'
    BY <1>a, <1>4 DEF Timeout, EntryOK, TypeOK, PlaceOK
  <2>5. AskedOK'
    BY <1>a, <1>4 DEF Timeout, AskedOK, TypeOK, GivesUp
  <2>6. InitOK'
    BY <1>a, <1>4 DEF Timeout, InitOK, TypeOK, PlaceOK, OneSem, GivesUp, AskedOK
  <2>7. FoundOK'
    BY <1>a, <1>4 DEF Timeout, FoundOK, TypeOK, PlaceOK, OneSem, GivesUp, EntryOK
  <2>8. MemberOK'
    <3>1. \A q \in Proc : Listed(q)' => Listed(q) /\ myShm'[q] = myShm[q] /\ myShm[q] \in Shms
      BY <1>a, <1>4 DEF Timeout, Listed, TypeOK, PlaceOK, AskedOK, GivesUp
    <3>2. \A r \in Shms : semsOf[r] \subseteq semsOf'[r]
      BY <1>a, <1>4 DEF Timeout, TypeOK
    <3>3. \A q \in Proc, i \in Slot :
              Listed(q)' /\ OneSem(myShm[q]) /\ Entry(q, myShm[q], i) => Entry(q, myShm[q], i)'
      BY <1>a, <1>4, <3>1 DEF Timeout, Entry, Listed, TypeOK, PlaceOK
    <3> QED
      BY <1>a, <2>1, <3>1, <3>2, <3>3, MembersStay
  <2>9. ExitOK'
    BY <1>a, <1>4 DEF Timeout, ExitOK, TypeOK, PlaceOK, GivesUp, AskedOK
  <2> QED
    BY <2>1, <2>2, <2>3, <2>4, <2>5, <2>6, <2>7, <2>8, <2>9 DEF IInv
<1>5. CASE Attach(p)
  <2>a. /\ pc[p] = "initialising"
        /\ \/ pc' = [pc EXCEPT ![p] = "fresh"] /\ version[myShm[p]] = 0 /\ value' = value
           \/ pc' = [pc EXCEPT ![p] = "up"] /\ version[myShm[p]] # 0 /\ Post(p)
    BY <1>5 DEF Attach
  <2>b. /\ active' \in [Shms -> SUBSET Slot]
        /\ \A r \in Shms : \A i \in Slot :
             /\ i \in active'[r] => i \in active[r]
             /\ i \in active[r] /\ ~Exited(gid[r][i]) => i \in active'[r]
    <3>1. CASE version[myShm[p]] = 0
      BY <1>a, <1>5, <3>1 DEF Attach, TypeOK
    <3>2. CASE version[myShm[p]] # 0
      <4>1. active' = [active EXCEPT ![myShm[p]] = Alive(myShm[p])]
        BY <1>5, <3>2 DEF Attach
      <4>2. /\ Alive(myShm[p]) \subseteq active[myShm[p]]
            /\ \A i \in active[myShm[p]] : ~Exited(gid[myShm[p]][i]) => i \in Alive(myShm[p])
        BY DEF Alive
      <4> QED
        BY <1>a, <4>1, <4>2 DEF TypeOK
    <3> QED
      BY <3>1, <3>2
  <2>c. UNCHANGED <<files, shms, version, gid, sems, mine, hist>>
    BY <1>5 DEF Attach
  <2>1. TypeOK'
    BY <1>a, <1>b, <2>a, <2>b, <2>c DEF TypeOK
  <2>2. PlaceOK'
    BY <1>a, <2>a, <2>c DEF PlaceOK, TypeOK
  <2>3. SemOK'
    <3>1. CASE pc' = [pc EXCEPT ![p] = "fresh"] /\ value' = value
      <4>1. \A q \in Proc, s \in Sems : Holds(q, s)' <=> Holds(q, s)
        BY <1>a, <2>a, <2>c, <3>1 DEF Holds, TypeOK
      <4> QED
        BY <1>a, <2>1, <2>c, <3>1, <4>1, SemaphoresStay DEF TypeOK
    <3>2. CASE pc' = [pc EXCEPT ![p] = "up"] /\ Post(p)
      <4>1. \A q \in Proc, s \in Sems : Holds(q, s)' <=> Holds(q, s) /\ q # p
        BY <1>a, <2>a, <2>c, <3>2 DEF Holds, TypeOK
      <4> QED
        BY <1>a, <1>b, <2>1, <2>a, <2>c, <3>2, <4>1, SemaphoreBack
    <3> QED
      BY <2>a, <3>1, <3>2
  <2>4. EntryOK'
    BY <1>a, <2>b, <2>c DEF EntryOK, TypeOK
  <2>5. AskedOK'
    BY <1>a, <2>a, <2>c DEF AskedOK, TypeOK
  <2>6. InitOK'
    BY <1>a, <2>a, <2>c DEF InitOK, TypeOK, PlaceOK, OneSem
  <2>7. FoundOK'
    BY <1>a, <2>a, <2>b, <2>c DEF FoundOK, TypeOK, PlaceOK, OneSem
  <2>8. MemberOK'
    <3>1. \A q \in Proc : Listed(q)' => Listed(q) /\ myShm'[q] = myShm[q] /\ myShm[q] \in Shms
      BY <1>a, <2>a, <2>c DEF Listed, TypeOK, PlaceOK, AskedOK
    <3>2. \A r \in Shms : semsOf[r] \subseteq semsOf'[r]
      BY <2>c
    <3>3. \A q \in Proc : Listed(q)' => ~Exited(q)
      BY <3>1 DEF Listed, Exited
    <3>4. \A q \in Proc, i \in Slot :
            Listed(q)' /\ OneSem(myShm[q]) /\ Entry(q, myShm[q], i) => Entry(q, myShm[q], i)'
      BY <1>a, <2>b, <2>c, <3>1, <3>3 DEF Entry
    <3> QED
      BY <1>a, <2>1, <3>1, <3>2, <3>4, MembersStay
  <2>9. ExitOK'
    <3> SUFFICES ASSUME gaveUp = {}, \A q \in Proc : pc'[q] # "dead"
                 PROVE  ExitOK'
      BY <2>c DEF ExitOK
    <3>1. \A q \in Proc : pc[q] # "dead" /\ (pc[q] \notin {"off", "gone", "unlinkSem"} => pc'[q] \notin {"off", "gone", "unlinkSem"})
                 /\ (pc[q] \notin {"off", "gone"} => pc'[q] \notin {"off", "gone"})
      BY <1>a, <2>a DEF TypeOK
    <3>2. \A r \in Shms : \A i \in active'[r] :
            /\ gid[r][i] \in asked /\ myShm[gid[r][i]] = r
            /\ pc[gid[r][i]] \in Kept \cup {"registering", "searching", "found", "written"}
      <4>1. \A r \in Shms : \A i \in active[r] :
              /\ gid[r][i] \in asked /\ myShm[gid[r][i]] = r
              /\ pc[gid[r][i]] \in Kept \cup {"registering", "searching", "found", "written"}
        BY <1>a, <3>1 DEF ExitOK
      <4>2. \A r \in Shms : active'[r] \subseteq active[r]
        BY <2>b
      <4> QED
        BY <4>1, <4>2
    <3>3. \A q \in asked : pc[q] # "initialising" /\ pc'[q] = pc[q]
      BY <1>a, <2>a DEF AskedOK, TypeOK
    <3> QED
      BY <1>a, <2>c, <3>1, <3>2, <3>3 DEF ExitOK
  <2> QED
    BY <2>1, <2>2, <2>3, <2>4, <2>5, <2>6, <2>7, <2>8, <2>9 DEF IInv
<1>6. CASE Initialise(p)
  <2>1. TypeOK'
    BY <1>a, <1>b, <1>6 DEF Initialise, TypeOK, PlaceOK
  <2>2. PlaceOK'
    BY <1>a, <1>6 DEF Initialise, PlaceOK, TypeOK
  <2>3. SemOK'
    <3>1. \A q \in Proc, s \in Sems : Holds(q, s)' <=> Holds(q, s) /\ q # p
      BY <1>a, <1>6 DEF Initialise, Holds, TypeOK
    <3> QED
      BY <1>a, <1>b, <1>6, <2>1, <3>1, SemaphoreBack DEF Initialise
  <2>4. EntryOK'
    BY <1>a, <1>6 DEF Initialise, EntryOK, TypeOK, PlaceOK
  <2>5. AskedOK'
    BY <1>a, <1>6 DEF Initialise, AskedOK, TypeOK
  <2>6. InitOK'
    BY <1>a, <1>6 DEF Initialise, InitOK, TypeOK, PlaceOK, OneSem, SemOK, Holds, AskedOK
  <2>7. FoundOK'
    BY <1>a, <1>6 DEF Initialise, FoundOK, TypeOK, PlaceOK, OneSem, SemOK, Holds, EntryOK
  <2>8. MemberOK'
    <3>1. \A q \in Proc : Listed(q)' => Listed(q) /\ myShm'[q] = myShm[q] /\ myShm[q] \in Shms
      BY <1>a, <1>6 DEF Initialise, Listed, TypeOK, PlaceOK, AskedOK
    <3>2. \A r \in Shms : semsOf[r] \subseteq semsOf'[r]
      BY <1>6 DEF Initialise
    <3>3. \A q \in Proc : Listed(q)' /\ OneSem(myShm[q]) => myShm[q] # myShm[p]
      <4> SUFFICES ASSUME NEW q \in Proc, Listed(q)', OneSem(myShm[q]), myShm[q] = myShm[p] PROVE FALSE
        OBVIOUS
      <4>1. version[myShm[q]] = 1
        BY <1>a, <3>1 DEF InitOK, Listed
      <4>2. version[myShm[p]] = 0
        BY <1>a, <1>6 DEF Initialise, InitOK
      <4> QED
        BY <4>1, <4>2
    <3>4. \A q \in Proc, i \in Slot :
            Listed(q)' /\ OneSem(myShm[q]) /\ Entry(q, myShm[q], i) => Entry(q, myShm[q], i)'
      BY <1>a, <1>6, <3>1, <3>3 DEF Initialise, Entry, TypeOK
    <3> QED
      BY <1>a, <2>1, <3>1, <3>2, <3>4, MembersStay
  <2>9. ExitOK'
    BY <1>a, <1>6 DEF Initialise, ExitOK, TypeOK, PlaceOK, AskedOK
  <2> QED
    BY <2>1, <2>2, <2>3, <2>4, <2>5, <2>6, <2>7, <2>8, <2>9 DEF IInv
<1>7. CASE Register(p)
  <2>1. TypeOK'
    BY <1>a, <1>7 DEF Register, TypeOK, PlaceOK
  <2>2. PlaceOK'
    BY <1>a, <1>7 DEF Register, PlaceOK, TypeOK
  <2>3. SemOK'
    <3>1. \A q \in Proc, s \in Sems : Holds(q, s)' <=> Holds(q, s)
      BY <1>a, <1>7 DEF Register, Holds, TypeOK
    <3> QED
      BY <1>a, <1>7, <2>1, <3>1, SemaphoresStay DEF Register, TypeOK
  <2>4. EntryOK'
    BY <1>a, <1>7 DEF Register, EntryOK, TypeOK, PlaceOK
  <2>5. AskedOK'
    BY <1>a, <1>7 DEF Register, AskedOK, TypeOK
  <2>6. InitOK'
    BY <1>a, <1>7 DEF Register, InitOK, TypeOK, PlaceOK, OneSem, AskedOK
  <2>7. FoundOK'
    BY <1>a, <1>7 DEF Register, FoundOK, TypeOK, PlaceOK, OneSem, EntryOK
  <2>8. MemberOK'
    <3>1. \A q \in Proc : Listed(q)' => Listed(q) /\ myShm'[q] = myShm[q] /\ myShm[q] \in Shms
      BY <1>a, <1>7 DEF Register, Listed, TypeOK, PlaceOK, AskedOK
    <3>2. \A r \in Shms : semsOf[r] \subseteq semsOf'[r]
      BY <1>a, <1>7 DEF Register, TypeOK
    <3>3. \A q \in Proc, i \in Slot :
              Listed(q)' /\ OneSem(myShm[q]) /\ Entry(q, myShm[q], i) => Entry(q, myShm[q], i)'
      BY <1>a, <1>7, <3>1 DEF Register, Entry, Listed, TypeOK, PlaceOK
    <3> QED
      BY <1>a, <2>1, <3>1, <3>2, <3>3, MembersStay
  <2>9. ExitOK'
    BY <1>a, <1>7 DEF Register, ExitOK, TypeOK, PlaceOK, AskedOK
  <2> QED
    BY <2>1, <2>2, <2>3, <2>4, <2>5, <2>6, <2>7, <2>8, <2>9 DEF IInv
<1>8. CASE FindSlot(p)
  <2>1. TypeOK'
    BY <1>a, <1>8, ConstantsOK DEF FindSlot, TypeOK, PlaceOK, ConstantsOK
  <2>2. PlaceOK'
    BY <1>a, <1>8 DEF FindSlot, PlaceOK, TypeOK
  <2>3. SemOK'
    <3>1. UNCHANGED <<value, stuck, sems>>
      BY <1>8 DEF FindSlot
    <3>2. \A q \in Proc, s \in Sems : Holds(q, s)' <=> Holds(q, s)
      BY <1>a, <1>8 DEF FindSlot, Holds, TypeOK
    <3>3. sems <= sems'
      BY <1>a, <3>1 DEF TypeOK
    <3> QED
      BY <1>a, <2>1, <3>1, <3>2, <3>3, SemaphoresStay
  <2>4. EntryOK'
    BY <1>a, <1>8 DEF FindSlot, EntryOK, TypeOK, PlaceOK
  <2>5. AskedOK'
    BY <1>a, <1>8 DEF FindSlot, AskedOK, TypeOK
  <2>6. InitOK'
    BY <1>a, <1>8 DEF FindSlot, InitOK, TypeOK, PlaceOK, OneSem, SemOK, Holds, AskedOK
  <2>7. FoundOK'
    BY <1>a, <1>8, ConstantsOK DEF FindSlot, FoundOK, TypeOK, PlaceOK, OneSem, SemOK, Holds, Used, EntryOK, ConstantsOK
  <2>8. MemberOK'
    <3>1. \A q \in Proc : Listed(q)' => Listed(q) /\ myShm'[q] = myShm[q] /\ myShm[q] \in Shms
      BY <1>a, <1>8 DEF FindSlot, Listed, TypeOK, PlaceOK, AskedOK
    <3>2. \A r \in Shms : semsOf[r] \subseteq semsOf'[r]
      BY <1>a, <1>8 DEF FindSlot, TypeOK
    <3>3. \A q \in Proc, i \in Slot :
              Listed(q)' /\ OneSem(myShm[q]) /\ Entry(q, myShm[q], i) => Entry(q, myShm[q], i)'
      BY <1>a, <1>8, <3>1 DEF FindSlot, Entry, Listed, TypeOK, PlaceOK
    <3> QED
      BY <1>a, <2>1, <3>1, <3>2, <3>3, MembersStay
  <2>9. ExitOK'
    BY <1>a, <1>8 DEF FindSlot, ExitOK, TypeOK, PlaceOK, AskedOK
  <2> QED
    BY <2>1, <2>2, <2>3, <2>4, <2>5, <2>6, <2>7, <2>8, <2>9 DEF IInv
<1>9. CASE RegistryFull(p)
  <2>1. TypeOK'
    BY <1>a, <1>b, <1>9 DEF RegistryFull, TypeOK, PlaceOK
  <2>2. PlaceOK'
    BY <1>a, <1>9 DEF RegistryFull, PlaceOK, TypeOK
  <2>3. SemOK'
    <3>1. \A q \in Proc, s \in Sems : Holds(q, s)' <=> Holds(q, s) /\ q # p
      BY <1>a, <1>9 DEF RegistryFull, Holds, TypeOK
    <3> QED
      BY <1>a, <1>b, <1>9, <2>1, <3>1, SemaphoreBack DEF RegistryFull
  <2>4. EntryOK'
    BY <1>a, <1>9 DEF RegistryFull, EntryOK, TypeOK, PlaceOK
  <2>5. AskedOK'
    BY <1>a, <1>9 DEF RegistryFull, AskedOK, TypeOK
  <2>6. InitOK'
    BY <1>a, <1>9 DEF RegistryFull, InitOK, TypeOK, PlaceOK, OneSem, SemOK, Holds, AskedOK
  <2>7. FoundOK'
    BY <1>a, <1>9 DEF RegistryFull, FoundOK, TypeOK, PlaceOK, OneSem, SemOK, Holds, EntryOK
  <2>8. MemberOK'
    <3>1. \A q \in Proc : Listed(q)' => Listed(q) /\ myShm'[q] = myShm[q] /\ myShm[q] \in Shms
      BY <1>a, <1>9 DEF RegistryFull, Listed, TypeOK, PlaceOK, AskedOK
    <3>2. \A r \in Shms : semsOf[r] \subseteq semsOf'[r]
      BY <1>a, <1>9 DEF RegistryFull, TypeOK
    <3>3. \A q \in Proc, i \in Slot :
              Listed(q)' /\ OneSem(myShm[q]) /\ Entry(q, myShm[q], i) => Entry(q, myShm[q], i)'
      BY <1>a, <1>9, <3>1 DEF RegistryFull, Entry, Listed, TypeOK, PlaceOK
    <3> QED
      BY <1>a, <2>1, <3>1, <3>2, <3>3, MembersStay
  <2>9. ExitOK'
    BY <1>a, <1>9 DEF RegistryFull, ExitOK, TypeOK, PlaceOK, AskedOK
  <2> QED
    BY <2>1, <2>2, <2>3, <2>4, <2>5, <2>6, <2>7, <2>8, <2>9 DEF IInv
<1>10. CASE WriteSlot(p)
  <2>1. TypeOK'
    BY <1>a, <1>10 DEF WriteSlot, TypeOK, PlaceOK
  <2>2. PlaceOK'
    BY <1>a, <1>10 DEF WriteSlot, PlaceOK, TypeOK
  <2>3. SemOK'
    <3>1. \A q \in Proc, s \in Sems : Holds(q, s)' <=> Holds(q, s)
      BY <1>a, <1>10 DEF WriteSlot, Holds, TypeOK
    <3> QED
      BY <1>a, <1>10, <2>1, <3>1, SemaphoresStay DEF WriteSlot, TypeOK
  <2>4. EntryOK'
    BY <1>a, <1>10 DEF WriteSlot, EntryOK, TypeOK, PlaceOK
  <2>5. AskedOK'
    BY <1>a, <1>10 DEF WriteSlot, AskedOK, TypeOK
  <2>6. InitOK'
    BY <1>a, <1>10 DEF WriteSlot, InitOK, TypeOK, PlaceOK, OneSem, SemOK, Holds, AskedOK
  <2>7. FoundOK'
    BY <1>a, <1>10 DEF WriteSlot, FoundOK, TypeOK, PlaceOK, OneSem, SemOK, Holds, EntryOK
  <2>8. MemberOK'
    <3> SUFFICES ASSUME NEW q \in Proc, Listed(q)', OneSem(myShm[q])
                 PROVE  \E i \in Slot : Entry(q, myShm[q], i)'
      BY <1>10 DEF WriteSlot, MemberOK, OneSem
    <3>1. slot[p] \in Slot /\ slot' = slot /\ myShm[p] \in Shms
      BY <1>a, <1>10 DEF WriteSlot, TypeOK, PlaceOK
    <3>2. Entry(p, myShm[p], slot[p])'
      BY <1>a, <1>10, <3>1 DEF WriteSlot, Entry, TypeOK
    <3>3. CASE q # p
      <4>1. Listed(q) /\ myShm[q] \in Shms
        BY <1>a, <1>10, <3>3 DEF WriteSlot, Listed, TypeOK, PlaceOK
      <4>2. PICK i \in Slot : Entry(q, myShm[q], i)
        BY <1>a, <4>1 DEF MemberOK
      <4>3. myShm[q] = myShm[p] => i # slot[p]
        BY <1>a, <1>10, <3>3, <4>2 DEF WriteSlot, FoundOK, Entry
      <4>4. Entry(q, myShm[q], i)'
        BY <1>a, <1>10, <3>1, <4>1, <4>2, <4>3 DEF WriteSlot, Entry, TypeOK
      <4> QED
        BY <1>10, <4>4
    <3>4. CASE q = p
      BY <3>1, <3>2, <3>4
    <3> QED
      BY <3>3, <3>4
  <2>9. ExitOK'
    BY <1>a, <1>10 DEF WriteSlot, ExitOK, TypeOK, PlaceOK, AskedOK
  <2> QED
    BY <2>1, <2>2, <2>3, <2>4, <2>5, <2>6, <2>7, <2>8, <2>9 DEF IInv
<1>11. CASE Registered(p)
  <2>1. TypeOK'
    BY <1>a, <1>b, <1>11 DEF Registered, TypeOK, PlaceOK
  <2>2. PlaceOK'
    BY <1>a, <1>11 DEF Registered, PlaceOK, TypeOK
  <2>3. SemOK'
    <3>1. \A q \in Proc, s \in Sems : Holds(q, s)' <=> Holds(q, s) /\ q # p
      BY <1>a, <1>11 DEF Registered, Holds, TypeOK
    <3> QED
      BY <1>a, <1>b, <1>11, <2>1, <3>1, SemaphoreBack DEF Registered
  <2>4. EntryOK'
    BY <1>a, <1>11 DEF Registered, EntryOK, TypeOK, PlaceOK
  <2>5. AskedOK'
    BY <1>a, <1>11 DEF Registered, AskedOK, TypeOK
  <2>6. InitOK'
    BY <1>a, <1>11 DEF Registered, InitOK, TypeOK, PlaceOK, OneSem, SemOK, Holds, AskedOK
  <2>7. FoundOK'
    BY <1>a, <1>11 DEF Registered, FoundOK, TypeOK, PlaceOK, OneSem, SemOK, Holds, EntryOK
  <2>8. MemberOK'
    <3>1. \A q \in Proc : Listed(q)' => Listed(q) /\ myShm'[q] = myShm[q] /\ myShm[q] \in Shms
      BY <1>a, <1>11 DEF Registered, Listed, TypeOK, PlaceOK, AskedOK
    <3>2. \A r \in Shms : semsOf[r] \subseteq semsOf'[r]
      BY <1>a, <1>11 DEF Registered, TypeOK
    <3>3. \A q \in Proc, i \in Slot :
              Listed(q)' /\ OneSem(myShm[q]) /\ Entry(q, myShm[q], i) => Entry(q, myShm[q], i)'
      BY <1>a, <1>11, <3>1 DEF Registered, Entry, Listed, TypeOK, PlaceOK
    <3> QED
      BY <1>a, <2>1, <3>1, <3>2, <3>3, MembersStay
  <2>9. ExitOK'
    BY <1>a, <1>11 DEF Registered, ExitOK, TypeOK, PlaceOK, AskedOK
  <2> QED
    BY <2>1, <2>2, <2>3, <2>4, <2>5, <2>6, <2>7, <2>8, <2>9 DEF IInv
<1>12. CASE Refresh(p)
  <2>1. TypeOK'
    BY <1>a, <1>12 DEF Refresh, TypeOK, PlaceOK
  <2>2. PlaceOK'
    BY <1>a, <1>12 DEF Refresh, PlaceOK, TypeOK
  <2>3. SemOK'
    <3>1. \A q \in Proc, s \in Sems : Holds(q, s)' <=> Holds(q, s)
      BY <1>a, <1>12 DEF Refresh, Holds, TypeOK
    <3> QED
      BY <1>a, <1>12, <2>1, <3>1, SemaphoresStay DEF Refresh, TypeOK
  <2>4. EntryOK'
    BY <1>a, <1>12 DEF Refresh, EntryOK, TypeOK, PlaceOK
  <2>5. AskedOK'
    BY <1>a, <1>12 DEF Refresh, AskedOK, TypeOK
  <2>6. InitOK'
    BY <1>a, <1>12 DEF Refresh, InitOK, TypeOK, PlaceOK, OneSem, AskedOK
  <2>7. FoundOK'
    BY <1>a, <1>12 DEF Refresh, FoundOK, TypeOK, PlaceOK, OneSem, EntryOK
  <2>8. MemberOK'
    <3>1. \A q \in Proc : Listed(q)' => Listed(q) /\ myShm'[q] = myShm[q] /\ myShm[q] \in Shms
      BY <1>a, <1>12 DEF Refresh, Listed, TypeOK, PlaceOK, AskedOK
    <3>2. \A r \in Shms : semsOf[r] \subseteq semsOf'[r]
      BY <1>a, <1>12 DEF Refresh, TypeOK
    <3>3. \A q \in Proc, i \in Slot :
              Listed(q)' /\ OneSem(myShm[q]) /\ Entry(q, myShm[q], i) => Entry(q, myShm[q], i)'
      BY <1>a, <1>12, <3>1 DEF Refresh, Entry, Listed, TypeOK, PlaceOK
    <3> QED
      BY <1>a, <2>1, <3>1, <3>2, <3>3, MembersStay
  <2>9. ExitOK'
    BY <1>a, <1>12 DEF Refresh, ExitOK, TypeOK, PlaceOK, AskedOK
  <2> QED
    BY <2>1, <2>2, <2>3, <2>4, <2>5, <2>6, <2>7, <2>8, <2>9 DEF IInv
<1>13. CASE Copy(p)
  <2>1. TypeOK'
    <3>1. Members(myShm[p]) \subseteq Proc
      BY <1>a, <1>13 DEF Copy, Members, EntryOK, PlaceOK, TypeOK
    <3> QED
      BY <1>a, <1>b, <1>13, <3>1 DEF Copy, TypeOK
  <2>2. PlaceOK'
    BY <1>a, <1>13 DEF Copy, PlaceOK, TypeOK
  <2>3. SemOK'
    <3>1. \A q \in Proc, s \in Sems : Holds(q, s)' <=> Holds(q, s) /\ q # p
      BY <1>a, <1>13 DEF Copy, Holds, TypeOK
    <3> QED
      BY <1>a, <1>b, <1>13, <2>1, <3>1, SemaphoreBack DEF Copy
  <2>4. EntryOK'
    BY <1>a, <1>13 DEF Copy, EntryOK, TypeOK, PlaceOK
  <2>5. AskedOK'
    BY <1>a, <1>13 DEF Copy, AskedOK, TypeOK
  <2>6. InitOK'
    BY <1>a, <1>13 DEF Copy, InitOK, TypeOK, PlaceOK, OneSem, AskedOK
  <2>7. FoundOK'
    BY <1>a, <1>13 DEF Copy, FoundOK, TypeOK, PlaceOK, OneSem, EntryOK
  <2>8. MemberOK'
    <3>1. \A q \in Proc : Listed(q)' => Listed(q) /\ myShm'[q] = myShm[q] /\ myShm[q] \in Shms
      BY <1>a, <1>13 DEF Copy, Listed, TypeOK, PlaceOK, AskedOK
    <3>2. \A r \in Shms : semsOf[r] \subseteq semsOf'[r]
      BY <1>a, <1>13 DEF Copy, TypeOK
    <3>3. \A q \in Proc, i \in Slot :
              Listed(q)' /\ OneSem(myShm[q]) /\ Entry(q, myShm[q], i) => Entry(q, myShm[q], i)'
      BY <1>a, <1>13, <3>1 DEF Copy, Entry, Listed, TypeOK, PlaceOK
    <3> QED
      BY <1>a, <2>1, <3>1, <3>2, <3>3, MembersStay
  <2>9. ExitOK'
    BY <1>a, <1>13 DEF Copy, ExitOK, TypeOK, PlaceOK, AskedOK
  <2> QED
    BY <2>1, <2>2, <2>3, <2>4, <2>5, <2>6, <2>7, <2>8, <2>9 DEF IInv
<1>14. CASE Merge(p)
  <2>1. TypeOK'
    BY <1>a, <1>14 DEF Merge, TypeOK, PlaceOK
  <2>2. PlaceOK'
    BY <1>a, <1>14 DEF Merge, PlaceOK, TypeOK
  <2>3. SemOK'
    <3>1. \A q \in Proc, s \in Sems : Holds(q, s)' <=> Holds(q, s)
      BY <1>a, <1>14 DEF Merge, Holds, TypeOK
    <3> QED
      BY <1>a, <1>14, <2>1, <3>1, SemaphoresStay DEF Merge, TypeOK
  <2>4. EntryOK'
    BY <1>a, <1>14 DEF Merge, EntryOK, TypeOK, PlaceOK
  <2>5. AskedOK'
    BY <1>a, <1>14 DEF Merge, AskedOK, TypeOK
  <2>6. InitOK'
    BY <1>a, <1>14 DEF Merge, InitOK, TypeOK, PlaceOK, OneSem, AskedOK
  <2>7. FoundOK'
    BY <1>a, <1>14 DEF Merge, FoundOK, TypeOK, PlaceOK, OneSem, EntryOK
  <2>8. MemberOK'
    <3>1. \A q \in Proc : Listed(q)' => Listed(q) /\ myShm'[q] = myShm[q] /\ myShm[q] \in Shms
      BY <1>a, <1>14 DEF Merge, Listed, TypeOK, PlaceOK, AskedOK
    <3>2. \A r \in Shms : semsOf[r] \subseteq semsOf'[r]
      BY <1>a, <1>14 DEF Merge, TypeOK
    <3>3. \A q \in Proc, i \in Slot :
              Listed(q)' /\ OneSem(myShm[q]) /\ Entry(q, myShm[q], i) => Entry(q, myShm[q], i)'
      BY <1>a, <1>14, <3>1 DEF Merge, Entry, Listed, TypeOK, PlaceOK
    <3> QED
      BY <1>a, <2>1, <3>1, <3>2, <3>3, MembersStay
  <2>9. ExitOK'
    BY <1>a, <1>14 DEF Merge, ExitOK, TypeOK, PlaceOK, AskedOK
  <2> QED
    BY <2>1, <2>2, <2>3, <2>4, <2>5, <2>6, <2>7, <2>8, <2>9 DEF IInv
<1>15. CASE Leave(p)
  <2>1. TypeOK'
    BY <1>a, <1>15 DEF Leave, TypeOK, PlaceOK
  <2>2. PlaceOK'
    BY <1>a, <1>15 DEF Leave, PlaceOK, TypeOK
  <2>3. SemOK'
    <3>1. \A q \in Proc, s \in Sems : Holds(q, s)' <=> Holds(q, s)
      BY <1>a, <1>15 DEF Leave, Holds, TypeOK
    <3> QED
      BY <1>a, <1>15, <2>1, <3>1, SemaphoresStay DEF Leave, TypeOK
  <2>4. EntryOK'
    BY <1>a, <1>15 DEF Leave, EntryOK, TypeOK, PlaceOK
  <2>5. AskedOK'
    BY <1>a, <1>15 DEF Leave, AskedOK, TypeOK
  <2>6. InitOK'
    BY <1>a, <1>15 DEF Leave, InitOK, TypeOK, PlaceOK, OneSem, AskedOK
  <2>7. FoundOK'
    BY <1>a, <1>15 DEF Leave, FoundOK, TypeOK, PlaceOK, OneSem, EntryOK
  <2>8. MemberOK'
    <3>1. \A q \in Proc : Listed(q)' => Listed(q) /\ myShm'[q] = myShm[q] /\ myShm[q] \in Shms
      BY <1>a, <1>15 DEF Leave, Listed, TypeOK, PlaceOK, AskedOK
    <3>2. \A r \in Shms : semsOf[r] \subseteq semsOf'[r]
      BY <1>a, <1>15 DEF Leave, TypeOK
    <3>3. \A q \in Proc, i \in Slot :
              Listed(q)' /\ OneSem(myShm[q]) /\ Entry(q, myShm[q], i) => Entry(q, myShm[q], i)'
      BY <1>a, <1>15, <3>1 DEF Leave, Entry, Listed, TypeOK, PlaceOK
    <3> QED
      BY <1>a, <2>1, <3>1, <3>2, <3>3, MembersStay
  <2>9. ExitOK'
    BY <1>a, <1>15 DEF Leave, ExitOK, TypeOK, PlaceOK, AskedOK
  <2> QED
    BY <2>1, <2>2, <2>3, <2>4, <2>5, <2>6, <2>7, <2>8, <2>9 DEF IInv
<1>16. CASE ClearOwn(p)
  <2>1. TypeOK'
    BY <1>a, <1>c, <1>16 DEF ClearOwn, TypeOK, PlaceOK
  <2>2. PlaceOK'
    BY <1>a, <1>c, <1>16 DEF ClearOwn, PlaceOK, TypeOK
  <2>3. SemOK'
    <3>1. \A q \in Proc, s \in Sems : Holds(q, s)' <=> Holds(q, s)
      BY <1>a, <1>16 DEF ClearOwn, Holds, TypeOK
    <3> QED
      BY <1>a, <1>16, <2>1, <3>1, SemaphoresStay DEF ClearOwn, TypeOK
  <2>4. EntryOK'
    BY <1>a, <1>c, <1>16 DEF ClearOwn, EntryOK, TypeOK, PlaceOK
  <2>5. AskedOK'
    BY <1>a, <1>c, <1>16 DEF ClearOwn, AskedOK, TypeOK
  <2>6. InitOK'
    BY <1>a, <1>c, <1>16 DEF ClearOwn, InitOK, TypeOK, PlaceOK, OneSem, SemOK, Holds, AskedOK
  <2>7. FoundOK'
    BY <1>a, <1>c, <1>16 DEF ClearOwn, FoundOK, TypeOK, PlaceOK, OneSem, SemOK, Holds, Alive, EntryOK
  <2>8. MemberOK'
    <3>1. \A q \in Proc : Listed(q)' => Listed(q) /\ q # p /\ myShm'[q] = myShm[q] /\ myShm[q] \in Shms
      BY <1>a, <1>16 DEF ClearOwn, Listed, TypeOK, PlaceOK
    <3>2. \A r \in Shms : semsOf[r] \subseteq semsOf'[r]
      BY <1>16 DEF ClearOwn
    <3>3. \A q \in Proc : Listed(q)' => ~Exited(q)
      BY <3>1 DEF Listed, Exited
    <3>4. \A r \in Shms : \A i \in active[r] : gid[r][i] # p /\ ~Exited(gid[r][i]) => i \in active'[r]
      BY <1>a, <1>16 DEF ClearOwn, Alive, TypeOK
    <3>5. \A q \in Proc, i \in Slot :
            Listed(q)' /\ OneSem(myShm[q]) /\ Entry(q, myShm[q], i) => Entry(q, myShm[q], i)'
      BY <1>16, <3>1, <3>3, <3>4 DEF ClearOwn, Entry
    <3> QED
      BY <1>a, <2>1, <3>1, <3>2, <3>5, MembersStay
  <2>9. ExitOK'
    BY <1>a, <1>c, <1>16 DEF ClearOwn, ExitOK, TypeOK, PlaceOK, Alive, AskedOK
  <2> QED
    BY <2>1, <2>2, <2>3, <2>4, <2>5, <2>6, <2>7, <2>8, <2>9 DEF IInv
<1>17. CASE Detach(p)
  <2>1. TypeOK'
    BY <1>a, <1>b, <1>17 DEF Detach, TypeOK, PlaceOK
  <2>2. PlaceOK'
    BY <1>a, <1>17 DEF Detach, PlaceOK, TypeOK
  <2>3. SemOK'
    <3>1. \A q \in Proc, s \in Sems : Holds(q, s)' <=> Holds(q, s) /\ q # p
      BY <1>a, <1>17 DEF Detach, Holds, TypeOK
    <3> QED
      BY <1>a, <1>b, <1>17, <2>1, <3>1, SemaphoreBack DEF Detach
  <2>4. EntryOK'
    BY <1>a, <1>17 DEF Detach, EntryOK, TypeOK, PlaceOK
  <2>5. AskedOK'
    BY <1>a, <1>17 DEF Detach, AskedOK, TypeOK
  <2>6. InitOK'
    BY <1>a, <1>17 DEF Detach, InitOK, TypeOK, PlaceOK, OneSem, AskedOK
  <2>7. FoundOK'
    BY <1>a, <1>17 DEF Detach, FoundOK, TypeOK, PlaceOK, OneSem, EntryOK
  <2>8. MemberOK'
    <3>1. \A q \in Proc : Listed(q)' => Listed(q) /\ myShm'[q] = myShm[q] /\ myShm[q] \in Shms
      BY <1>a, <1>17 DEF Detach, Listed, TypeOK, PlaceOK, AskedOK
    <3>2. \A r \in Shms : semsOf[r] \subseteq semsOf'[r]
      BY <1>a, <1>17 DEF Detach, TypeOK
    <3>3. \A q \in Proc, i \in Slot :
              Listed(q)' /\ OneSem(myShm[q]) /\ Entry(q, myShm[q], i) => Entry(q, myShm[q], i)'
      BY <1>a, <1>17, <3>1 DEF Detach, Entry, Listed, TypeOK, PlaceOK
    <3> QED
      BY <1>a, <2>1, <3>1, <3>2, <3>3, MembersStay
  <2>9. ExitOK'
    <3> SUFFICES ASSUME gaveUp = {}, \A q \in Proc : pc'[q] # "dead"
                 PROVE  ExitOK'
      BY <1>17 DEF Detach, ExitOK
    <3>1. \A q \in Proc : pc[q] # "dead"
      BY <1>a, <1>17 DEF Detach, TypeOK
    <3>2. \A r \in Shms : \A i \in active[r] :
            /\ gid[r][i] \in asked /\ gid[r][i] \in Proc /\ myShm[gid[r][i]] = r
            /\ pc[gid[r][i]] \in Kept \cup {"registering", "searching", "found", "written"}
            /\ gid[r][i] # p
      BY <1>a, <1>17, <3>1 DEF Detach, ExitOK, TypeOK
    <3>3. /\ pc' = [pc EXCEPT ![p] = "unlinkShm"] \/ pc' = [pc EXCEPT ![p] = "gone"]
          /\ pc'[p] = "gone" => active[myShm[p]] # {}
          /\ myShm[p] \in Shms
      <4>1. pc[p] = "cleared" /\ myShm[p] \in Shms
        BY <1>a, <1>17 DEF Detach, PlaceOK, TypeOK
      <4>2. pc' = [pc EXCEPT ![p] = IF active[myShm[p]] = {} THEN "unlinkShm" ELSE "gone"]
        BY <1>17 DEF Detach
      <4> QED
        BY <1>a, <4>1, <4>2 DEF TypeOK
    <3>4. UNCHANGED <<gid, active, shmName, semName, gaveUp, asked, myShm>>
      BY <1>17 DEF Detach
    <3>5. \E q \in Proc : pc'[q] \notin {"off", "gone", "unlinkSem"}
      <4>1. CASE pc'[p] = "unlinkShm"
        BY <4>1
      <4>2. CASE pc'[p] = "gone"
        <5>1. PICK i \in active[myShm[p]] : TRUE
          BY <3>3, <4>2
        <5>2. gid[myShm[p]][i] \in Proc \ {p}
          BY <3>2, <3>3
        <5>3. pc'[gid[myShm[p]][i]] \in Kept \cup {"registering", "searching", "found", "written"}
          BY <1>a, <3>2, <3>3, <5>2 DEF TypeOK
        <5> QED
          BY <5>2, <5>3
      <4> QED
        BY <1>a, <3>3, <4>1, <4>2 DEF TypeOK
    <3>6. \A q \in Proc : q # p => pc'[q] = pc[q]
      BY <1>a, <3>3 DEF TypeOK
    <3> QED
      BY <3>2, <3>4, <3>5, <3>6 DEF ExitOK
  <2> QED
    BY <2>1, <2>2, <2>3, <2>4, <2>5, <2>6, <2>7, <2>8, <2>9 DEF IInv
<1>18. CASE UnlinkShm(p)
  <2>1. TypeOK'
    BY <1>a, <1>18, ConstantsOK DEF UnlinkShm, TypeOK, PlaceOK, ConstantsOK
  <2>2. PlaceOK'
    BY <1>a, <1>18 DEF UnlinkShm, PlaceOK, TypeOK
  <2>3. SemOK'
    <3>1. \A q \in Proc, s \in Sems : Holds(q, s)' <=> Holds(q, s)
      BY <1>a, <1>18 DEF UnlinkShm, Holds, TypeOK
    <3> QED
      BY <1>a, <1>18, <2>1, <3>1, SemaphoresStay DEF UnlinkShm, TypeOK
  <2>4. EntryOK'
    BY <1>a, <1>18 DEF UnlinkShm, EntryOK, TypeOK, PlaceOK
  <2>5. AskedOK'
    BY <1>a, <1>18 DEF UnlinkShm, AskedOK, TypeOK
  <2>6. InitOK'
    BY <1>a, <1>18 DEF UnlinkShm, InitOK, TypeOK, PlaceOK, OneSem, AskedOK
  <2>7. FoundOK'
    BY <1>a, <1>18 DEF UnlinkShm, FoundOK, TypeOK, PlaceOK, OneSem, EntryOK
  <2>8. MemberOK'
    <3>1. \A q \in Proc : Listed(q)' => Listed(q) /\ myShm'[q] = myShm[q] /\ myShm[q] \in Shms
      BY <1>a, <1>18 DEF UnlinkShm, Listed, TypeOK, PlaceOK, AskedOK
    <3>2. \A r \in Shms : semsOf[r] \subseteq semsOf'[r]
      BY <1>a, <1>18 DEF UnlinkShm, TypeOK
    <3>3. \A q \in Proc, i \in Slot :
              Listed(q)' /\ OneSem(myShm[q]) /\ Entry(q, myShm[q], i) => Entry(q, myShm[q], i)'
      BY <1>a, <1>18, <3>1 DEF UnlinkShm, Entry, Listed, TypeOK, PlaceOK
    <3> QED
      BY <1>a, <2>1, <3>1, <3>2, <3>3, MembersStay
  <2>9. ExitOK'
    BY <1>a, <1>18 DEF UnlinkShm, ExitOK, TypeOK, PlaceOK, AskedOK
  <2> QED
    BY <2>1, <2>2, <2>3, <2>4, <2>5, <2>6, <2>7, <2>8, <2>9 DEF IInv
<1>19. CASE UnlinkSem(p)
  <2>1. TypeOK'
    BY <1>a, <1>19, ConstantsOK DEF UnlinkSem, TypeOK, PlaceOK, ConstantsOK
  <2>2. PlaceOK'
    BY <1>a, <1>19 DEF UnlinkSem, PlaceOK, TypeOK
  <2>3. SemOK'
    <3>1. \A q \in Proc, s \in Sems : Holds(q, s)' <=> Holds(q, s)
      BY <1>a, <1>19 DEF UnlinkSem, Holds, TypeOK
    <3> QED
      BY <1>a, <1>19, <2>1, <3>1, SemaphoresStay DEF UnlinkSem, TypeOK
  <2>4. EntryOK'
    BY <1>a, <1>19 DEF UnlinkSem, EntryOK, TypeOK, PlaceOK
  <2>5. AskedOK'
    BY <1>a, <1>19 DEF UnlinkSem, AskedOK, TypeOK
  <2>6. InitOK'
    BY <1>a, <1>19 DEF UnlinkSem, InitOK, TypeOK, PlaceOK, OneSem, AskedOK
  <2>7. FoundOK'
    BY <1>a, <1>19 DEF UnlinkSem, FoundOK, TypeOK, PlaceOK, OneSem, EntryOK
  <2>8. MemberOK'
    <3>1. \A q \in Proc : Listed(q)' => Listed(q) /\ myShm'[q] = myShm[q] /\ myShm[q] \in Shms
      BY <1>a, <1>19 DEF UnlinkSem, Listed, TypeOK, PlaceOK, AskedOK
    <3>2. \A r \in Shms : semsOf[r] \subseteq semsOf'[r]
      BY <1>a, <1>19 DEF UnlinkSem, TypeOK
    <3>3. \A q \in Proc, i \in Slot :
              Listed(q)' /\ OneSem(myShm[q]) /\ Entry(q, myShm[q], i) => Entry(q, myShm[q], i)'
      BY <1>a, <1>19, <3>1 DEF UnlinkSem, Entry, Listed, TypeOK, PlaceOK
    <3> QED
      BY <1>a, <2>1, <3>1, <3>2, <3>3, MembersStay
  <2>9. ExitOK'
    BY <1>a, <1>19 DEF UnlinkSem, ExitOK, TypeOK, PlaceOK, AskedOK
  <2> QED
    BY <2>1, <2>2, <2>3, <2>4, <2>5, <2>6, <2>7, <2>8, <2>9 DEF IInv
<1>20. CASE Crash(p)
  <2>1. TypeOK'
    <3>1. stuck' \in SUBSET Sems
      <4>1. pc[p] \in InCS => mySem[p] \in Sems
        BY <1>a DEF PlaceOK, TypeOK
      <4>2. stuck' = IF pc[p] \in InCS THEN stuck \cup {mySem[p]} ELSE stuck
        BY <1>20 DEF Crash
      <4> QED
        BY <1>a, <4>1, <4>2 DEF TypeOK
    <3>2. crashes' \in Nat /\ pc' \in [Proc -> Places]
      BY <1>a, <1>20 DEF Crash, TypeOK
    <3> QED
      BY <1>a, <1>20, <3>1, <3>2 DEF Crash, TypeOK
  <2>2. PlaceOK'
    BY <1>a, <1>20 DEF Crash, PlaceOK, TypeOK
  <2>3. SemOK'
    BY <1>a, <1>20 DEF Crash, SemOK, TypeOK, PlaceOK, Holds
  <2>4. EntryOK'
    BY <1>a, <1>20 DEF Crash, EntryOK, TypeOK, PlaceOK
  <2>5. AskedOK'
    BY <1>a, <1>20 DEF Crash, AskedOK, TypeOK
  <2>6. InitOK'
    BY <1>a, <1>20 DEF Crash, InitOK, TypeOK, PlaceOK, OneSem, SemOK, Holds, AskedOK
  <2>7. FoundOK'
    BY <1>a, <1>20 DEF Crash, FoundOK, TypeOK, PlaceOK, OneSem, SemOK, Holds, EntryOK
  <2>8. MemberOK'
    <3>1. \A q \in Proc : Listed(q)' => Listed(q) /\ myShm'[q] = myShm[q] /\ myShm[q] \in Shms
      BY <1>a, <1>20 DEF Crash, Listed, TypeOK, PlaceOK, AskedOK
    <3>2. \A r \in Shms : semsOf[r] \subseteq semsOf'[r]
      BY <1>a, <1>20 DEF Crash, TypeOK
    <3>3. \A q \in Proc, i \in Slot :
              Listed(q)' /\ OneSem(myShm[q]) /\ Entry(q, myShm[q], i) => Entry(q, myShm[q], i)'
      BY <1>a, <1>20, <3>1 DEF Crash, Entry, Listed, TypeOK, PlaceOK
    <3> QED
      BY <1>a, <2>1, <3>1, <3>2, <3>3, MembersStay
  <2>9. ExitOK'
    BY <1>a, <1>20 DEF Crash, ExitOK, TypeOK, PlaceOK, AskedOK
  <2> QED
    BY <2>1, <2>2, <2>3, <2>4, <2>5, <2>6, <2>7, <2>8, <2>9 DEF IInv
<1> QED
  BY <1>1, <1>2, <1>3, <1>4, <1>5, <1>6, <1>7, <1>8, <1>9, <1>10, <1>11, <1>12, <1>13, <1>14, <1>15, <1>16, <1>17, <1>18, <1>19, <1>20

-----------------------------------------------------------------------------
LEMMA Initially == Init => IInv
<1> SUFFICES ASSUME Init PROVE IInv
  OBVIOUS
<1>1. TypeOK
  BY ConstantsOK DEF Init, TypeOK, ConstantsOK
<1>2. PlaceOK /\ EntryOK /\ AskedOK /\ InitOK /\ FoundOK
  BY <1>1 DEF Init, PlaceOK, EntryOK, AskedOK, InitOK, FoundOK, TypeOK
<1>3. SemOK
  BY DEF Init, SemOK, Holds
<1>4. MemberOK
  BY DEF Init, MemberOK, Listed
<1>5. ExitOK
  BY DEF Init, ExitOK
<1> QED
  BY <1>1, <1>2, <1>3, <1>4, <1>5 DEF IInv

LEMMA Stutters == IInv /\ UNCHANGED vars => IInv'
<1> SUFFICES ASSUME IInv, UNCHANGED vars PROVE IInv'
  OBVIOUS
<1>1. TypeOK' /\ PlaceOK' /\ EntryOK'
  BY DEF IInv, vars, TypeOK, PlaceOK, EntryOK
<1>2. SemOK' /\ AskedOK'
  BY DEF IInv, vars, SemOK, Holds, AskedOK
<1>3. InitOK' /\ FoundOK'
  BY DEF IInv, vars, InitOK, FoundOK, OneSem
<1>4. MemberOK'
  BY DEF IInv, vars, MemberOK, Listed, Entry, OneSem
<1>5. ExitOK'
  BY DEF IInv, vars, ExitOK
<1> QED
  BY <1>1, <1>2, <1>3, <1>4, <1>5 DEF IInv

LEMMA Inductive == IInv /\ [Next]_vars => IInv'
BY StepPreserves, Stutters DEF Next

LEMMA Invariant == Spec => []IInv
BY Initially, Inductive, PTL DEF Spec

-----------------------------------------------------------------------------
\* The variables keep their types: sem_post never raises a semaphore above one, and
\* every registry and semaphore used was created.
THEOREM TypeCorrect == Spec => []TypeOK
<1>1. IInv => TypeOK
  BY DEF IInv
<1> QED
  BY <1>1, Invariant, PTL

\* No path through the manager's critical sections posts twice or forgets to, and no two
\* processes are in one at once, for any processes, registries and crashes.
THEOREM SemaphoresAccounted == Spec => []SemaphoreAccounted
<1>1. ASSUME IInv, NEW s \in 1 .. sems
      PROVE  value[s] + Cardinality({p \in Proc : pc[p] \in InCS /\ mySem[p] = s})
               + (IF s \in stuck THEN 1 ELSE 0) = 1
  <2> DEFINE holders == {p \in Proc : pc[p] \in InCS /\ mySem[p] = s}
  <2>1. s \in Sems /\ value[s] \in {0, 1}
    BY <1>1, ConstantsOK DEF IInv, TypeOK, ConstantsOK
  <2>2. \A p \in Proc : p \in holders <=> Holds(p, s)
    BY DEF Holds
  <2>3. CASE value[s] = 1
    <3>1. holders = {} /\ s \notin stuck
      BY <1>1, <2>1, <2>2, <2>3 DEF IInv, SemOK
    <3>2. Cardinality(holders) = 0
      BY <3>1, FS_EmptySet
    <3> QED
      BY <2>3, <3>1, <3>2
  <2>4. CASE value[s] = 0 /\ s \in stuck
    <3>1. holders = {}
      BY <1>1, <2>1, <2>2, <2>4 DEF IInv, SemOK
    <3>2. Cardinality(holders) = 0
      BY <3>1, FS_EmptySet
    <3> QED
      BY <2>4, <3>2
  <2>5. CASE value[s] = 0 /\ s \notin stuck
    <3>1. PICK p \in Proc : Holds(p, s)
      BY <1>1, <2>1, <2>5 DEF IInv, SemOK
    <3>2. holders = {p}
      BY <1>1, <2>1, <2>2, <3>1 DEF IInv, SemOK
    <3>3. Cardinality(holders) = 1
      BY <3>2, FS_Singleton
    <3> QED
      BY <2>5, <3>3
  <2> QED
    BY <2>1, <2>3, <2>4, <2>5
<1>2. IInv => SemaphoreAccounted
  BY <1>1 DEF SemaphoreAccounted
<1> QED
  BY <1>2, Invariant, PTL

\* Whatever others initialise, purge, register or clear meanwhile: a registration that
\* succeeded stays, while its registry is used with one semaphore.
THEOREM RegistrationsStick == Spec => []RegistrationSticks
<1>1. ASSUME IInv, NEW p \in joined, pc[p] \in Kept, Cardinality(semsOf[myShm[p]]) = 1
      PROVE  p \in Members(myShm[p])
  <2>1. p \in Proc /\ myShm[p] \in Shms
    BY <1>1 DEF IInv, TypeOK, PlaceOK
  <2>2. IsFiniteSet(semsOf[myShm[p]])
    <3>1. IsFiniteSet(1 .. MaxSem)
      BY ConstantsOK, FS_Interval DEF ConstantsOK
    <3>2. semsOf[myShm[p]] \in SUBSET (1 .. MaxSem)
      BY <1>1, <2>1 DEF IInv, TypeOK
    <3> QED
      BY <3>1, <3>2, FS_Subset
  <2>3. OneSem(myShm[p])
    BY <1>1, <2>2, FS_Singleton DEF OneSem
  <2>4. PICK i \in Slot : Entry(p, myShm[p], i)
    BY <1>1, <2>1, <2>3 DEF IInv, MemberOK, Listed
  <2> QED
    BY <2>4 DEF Entry, Members
<1>2. IInv => RegistrationSticks
  BY <1>1 DEF RegistrationSticks
<1> QED
  BY <1>2, Invariant, PTL

\* When all have left in good order, both names are gone: no interleaving of
\* constructors and destructors leaves one of them to nobody.
THEOREM NamesGo == Spec => []CleanExit
<1>1. IInv => CleanExit
  BY DEF IInv, ExitOK, CleanExit
<1> QED
  BY <1>1, Invariant, PTL
-----------------------------------------------------------------------------
(* Each registry is a PeerRegistry while it is used with one semaphore.    *)

\* Where a process is that has ended, for its peers.
Over == {"gone", "dead", "cleared", "unlinkShm", "unlinkSem"}

\* Nobody registers before the registry is initialised; a process knows of nobody before
\* its constructor has returned, and has copied nobody but on its way to the merge.
SeenOK ==
  /\ \A r \in Shms : version[r] = 0 => active[r] = {}
  /\ \A p \in Proc :
       /\ pc[p] \in Early => cache[p] = {}
       /\ pc[p] \notin {"merging", "dead"} => copied[p] = {}

LEMMA SeenInit == Init => SeenOK
BY DEF Init, SeenOK

LEMMA SeenStep ==
  ASSUME IInv, SeenOK, [Next]_vars
  PROVE  SeenOK'
<1>1. \A r \in Shms : version'[r] = 0 => active'[r] = {}
  <2>1. CASE UNCHANGED <<version, active>>
    BY <2>1 DEF SeenOK
  <2>2. ASSUME NEW p \in Proc, Attach(p)
        PROVE  \A r \in Shms : version'[r] = 0 => active'[r] = {}
    BY <2>2 DEF Attach, SeenOK, Alive, IInv, TypeOK
  <2>3. ASSUME NEW p \in Proc, Initialise(p)
        PROVE  \A r \in Shms : version'[r] = 0 => active'[r] = {}
    BY <2>3 DEF Initialise, SeenOK, IInv, TypeOK
  <2>4. ASSUME NEW p \in Proc, WriteSlot(p)
        PROVE  \A r \in Shms : version'[r] = 0 => active'[r] = {}
    <3>1. version[myShm[p]] = 1
      BY <2>4 DEF WriteSlot, IInv, InitOK
    <3> QED
      BY <2>4, <3>1 DEF WriteSlot, SeenOK, IInv, TypeOK
  <2>5. ASSUME NEW p \in Proc, ClearOwn(p)
        PROVE  \A r \in Shms : version'[r] = 0 => active'[r] = {}
    BY <2>5 DEF ClearOwn, SeenOK, Alive, IInv, TypeOK
  <2>6. \/ UNCHANGED <<version, active>>
        \/ \E p \in Proc : Attach(p) \/ Initialise(p) \/ WriteSlot(p) \/ ClearOwn(p)
    BY DEF Next, vars, OpenShm, OpenSem, Wait, Timeout, Register, FindSlot, RegistryFull,
       Registered, Refresh, Copy, Merge, Leave, Detach, UnlinkShm, UnlinkSem, Crash
  <2> QED
    BY <2>1, <2>2, <2>3, <2>4, <2>5, <2>6
<1>2. ASSUME NEW p \in Proc
      PROVE  /\ pc'[p] \in Early => cache'[p] = {}
             /\ pc'[p] \notin {"merging", "dead"} => copied'[p] = {}
  <2>1. /\ pc \in [Proc -> Places]
        /\ cache \in [Proc -> SUBSET Proc] /\ copied \in [Proc -> SUBSET Proc]
    BY DEF IInv, TypeOK
  <2>2. /\ pc[p] \in Early => cache[p] = {}
        /\ pc[p] \notin {"merging", "dead"} => copied[p] = {}
    BY DEF SeenOK
  <2>3. CASE UNCHANGED <<pc, cache, copied>>
    BY <2>2, <2>3
  <2>4. ASSUME NEW q \in Proc, Registered(q) \/ Copy(q) \/ Merge(q)
        PROVE  /\ pc'[p] \in Early => cache'[p] = {}
               /\ pc'[p] \notin {"merging", "dead"} => copied'[p] = {}
    BY <2>1, <2>2, <2>4 DEF Registered, Copy, Merge
  <2>5. ASSUME NEW q \in Proc,
               \/ OpenShm(q) \/ OpenSem(q) \/ Wait(q) \/ Timeout(q) \/ Attach(q)
               \/ Initialise(q) \/ Register(q) \/ FindSlot(q) \/ RegistryFull(q)
               \/ WriteSlot(q) \/ Refresh(q) \/ Leave(q) \/ ClearOwn(q) \/ Detach(q)
               \/ UnlinkShm(q) \/ UnlinkSem(q) \/ Crash(q)
        PROVE  /\ pc'[p] \in Early => cache'[p] = {}
               /\ pc'[p] \notin {"merging", "dead"} => copied'[p] = {}
    <3>1. UNCHANGED <<cache, copied>> /\ \A o \in Proc \ {q} : pc'[o] = pc[o]
      BY <2>1, <2>5 DEF OpenShm, OpenSem, Wait, Timeout, Attach, Initialise, Register,
         FindSlot, RegistryFull, WriteSlot, Refresh, Leave, ClearOwn, Detach, UnlinkShm,
         UnlinkSem, Crash
    <3>2. /\ pc'[q] \in Early => pc[q] \in Early
          /\ pc'[q] \notin {"merging", "dead"} => pc[q] \notin {"merging", "dead"}
      BY <2>1, <2>5 DEF OpenShm, OpenSem, Wait, Timeout, Attach, Initialise, Register,
         FindSlot, RegistryFull, WriteSlot, Refresh, Leave, ClearOwn, Detach, UnlinkShm,
         UnlinkSem, Crash, Enters, GivesUp
    <3> QED
      BY <2>2, <3>1, <3>2
  <2> QED
    BY <2>3, <2>4, <2>5 DEF Next, vars
<1> QED
  BY <1>1, <1>2 DEF SeenOK

LEMMA SeenInvariant == Spec => [](IInv /\ SeenOK)
<1>1. Init => IInv /\ SeenOK
  BY Initially, SeenInit
<1>2. (IInv /\ SeenOK) /\ [Next]_vars => (IInv /\ SeenOK)'
  BY Inductive, SeenStep
<1> QED
  BY <1>1, <1>2, PTL DEF Spec

\* Who has ended, when p goes from one place to another.
LEMMA EndedStays ==
  ASSUME pc \in [Proc -> Places], NEW p \in Proc, NEW place, Go(p, place),
         pc[p] \in Over <=> place \in Over
  PROVE  Ended' = Ended
BY DEF Ended, Exited, Over

LEMMA EndedGrows ==
  ASSUME pc \in [Proc -> Places], NEW p \in Proc, NEW place, Go(p, place), place \in Over
  PROVE  Ended' = Ended \cup {p}
BY DEF Ended, Exited, Over

LEMMA SeenStays ==
  ASSUME NEW r \in Shms, UNCHANGED <<myShm, cache, copied>>
  PROVE  Seen(r)' = Seen(r)
BY DEF Seen

\* What p sees more, it sees in its own registry.
LEMMA SeenGrows ==
  ASSUME NEW r \in Shms, NEW p \in Proc, NEW S, TypeOK, myShm' = myShm,
         \A q \in Proc \ {p} : cache'[q] = cache[q] /\ copied'[q] = copied[q],
         cache'[p] \cup copied'[p] = cache[p] \cup copied[p] \cup S
  PROVE  /\ myShm[p] = r => Peers(r)!Sees(p, S)
         /\ myShm[p] # r => Seen(r)' = Seen(r)
<1>1. CASE myShm[p] = r
  <2>1. Seen(r)' = [Seen(r) EXCEPT ![p] = @ \cup S]
    BY <1>1 DEF Seen
  <2> QED
    BY <1>1, <2>1 DEF Peers!Sees
<1>2. CASE myShm[p] # r
  BY <1>2 DEF Seen
<1> QED
  BY <1>1, <1>2

LEMMA MembersFrame ==
  ASSUME NEW r \in Shms, gid'[r] = gid[r], active'[r] = active[r]
  PROVE  Members(r)' = Members(r)
BY DEF Members

LEMMA SilentStep ==
  ASSUME NEW r \in Shms, Members(r)' = Members(r), Ended' = Ended, Seen(r)' = Seen(r)
  PROVE  PeerStep(r)
BY DEF PeerStep

\* Steps that say nothing to the peers.
LEMMA QuietSteps ==
  ASSUME IInv, NEW r \in Shms, NEW p \in Proc,
         \/ OpenSem(p) \/ Wait(p) \/ Register(p) \/ FindSlot(p) \/ RegistryFull(p)
         \/ Refresh(p) \/ Leave(p) \/ Detach(p) \/ UnlinkShm(p) \/ UnlinkSem(p)
  PROVE  PeerStep(r)
<1>1. UNCHANGED <<gid, active, myShm, cache, copied>>
  BY DEF OpenSem, Wait, Register, FindSlot, RegistryFull, Refresh, Leave, Detach,
     UnlinkShm, UnlinkSem
<1>2. PICK place : Go(p, place) /\ (pc[p] \in Over <=> place \in Over)
  BY DEF OpenSem, Wait, Register, FindSlot, RegistryFull, Refresh, Leave, Detach,
     UnlinkShm, UnlinkSem, Over, Enters
<1>3. Ended' = Ended
  BY <1>2, EndedStays DEF IInv, TypeOK
<1>4. Seen(r)' = Seen(r) /\ Members(r)' = Members(r)
  BY <1>1, SeenStays, MembersFrame
<1> QED
  BY <1>3, <1>4 DEF PeerStep

\* A process that opens the registry knows of nobody.
LEMMA OpenShmStep ==
  ASSUME IInv, SeenOK, NEW r \in Shms, NEW p \in Proc, OpenShm(p)
  PROVE  PeerStep(r)
<1>1. /\ UNCHANGED <<gid, active, cache, copied>> /\ Go(p, "opened") /\ pc[p] = "off"
      /\ \A q \in Proc \ {p} : myShm'[q] = myShm[q]
  BY DEF OpenShm, IInv, TypeOK
<1>2. cache[p] = {} /\ copied[p] = {}
  BY <1>1 DEF SeenOK
<1>3. Seen(r)' = Seen(r)
  BY <1>1, <1>2 DEF Seen
<1>4. Ended' = Ended
  BY <1>1, EndedStays DEF IInv, TypeOK, Over
<1>5. Members(r)' = Members(r)
  BY <1>1, MembersFrame
<1> QED
  BY <1>3, <1>4, <1>5 DEF PeerStep

\* A process ends here, with or without its entry.
LEMMA EndStep ==
  ASSUME IInv, NEW r \in Shms, NEW p \in Proc, NEW place \in Over, Go(p, place),
         UNCHANGED <<myShm, cache, copied>>,
         Members(r)' \subseteq Members(r), Members(r) \ Members(r)' \subseteq Ended'
  PROVE  PeerStep(r)
<1>1. Ended' = Ended \cup {p}
  BY EndedGrows DEF IInv, TypeOK
<1>2. Seen(r)' = Seen(r)
  BY SeenStays
<1>3. Peers(r)!End(p)
  BY <1>1, <1>2 DEF Peers!End, Peers!TakesOut
<1> QED
  BY <1>3 DEF PeerStep, Peers!Next

LEMMA TimeoutStep ==
  ASSUME IInv, NEW r \in Shms, NEW p \in Proc, Timeout(p)
  PROVE  PeerStep(r)
<1>1. UNCHANGED <<gid, active, myShm, cache, copied>> /\ Go(p, GivesUp[pc[p]]) /\ pc[p] \in Waiting
  BY DEF Timeout
<1>2. Members(r)' = Members(r)
  BY <1>1, MembersFrame
<1>3. CASE pc[p] = "leaving"
  <2>1. Go(p, "gone") /\ "gone" \in Over
    BY <1>1, <1>3 DEF GivesUp, Over
  <2> QED
    BY <1>1, <1>2, <2>1, EndStep
<1>4. CASE pc[p] # "leaving"
  <2>1. pc[p] \notin Over /\ GivesUp[pc[p]] \notin Over
    BY <1>1, <1>4 DEF GivesUp, Over
  <2>2. Ended' = Ended
    BY <1>1, <2>1, EndedStays DEF IInv, TypeOK
  <2> QED
    BY <1>1, <1>2, <2>2, SeenStays DEF PeerStep
<1> QED
  BY <1>3, <1>4

LEMMA CrashStep ==
  ASSUME IInv, NEW r \in Shms, NEW p \in Proc, Crash(p)
  PROVE  PeerStep(r)
<1>1. UNCHANGED <<gid, active, myShm, cache, copied>> /\ Go(p, "dead")
  BY DEF Crash
<1>2. Members(r)' = Members(r)
  BY <1>1, MembersFrame
<1> QED
  BY <1>1, <1>2, EndStep DEF Over

\* What a purge takes out has ended.
LEMMA AttachStep ==
  ASSUME IInv, NEW r \in Shms, NEW p \in Proc, Attach(p)
  PROVE  PeerStep(r)
<1>1. UNCHANGED <<gid, myShm, cache, copied>> /\ pc[p] = "initialising"
  BY DEF Attach
<1>2. Ended' = Ended
  BY EndedStays DEF Attach, IInv, TypeOK, Over
<1>3. Seen(r)' = Seen(r)
  BY <1>1, SeenStays
<1>4. active'[r] = active[r] \/ active'[r] = Alive(r)
  <2>1. \/ active' = active
        \/ active' = [active EXCEPT ![myShm[p]] = Alive(myShm[p])]
    BY DEF Attach
  <2>2. active \in [Shms -> SUBSET Slot]
    BY DEF IInv, TypeOK
  <2>3. myShm[p] # r => active'[r] = active[r]
    BY <2>1, <2>2
  <2>4. myShm[p] = r => active'[r] = active[r] \/ active'[r] = Alive(r)
    BY <2>1, <2>2
  <2> QED
    BY <2>3, <2>4
<1>5. Members(r)' \subseteq Members(r)
  BY <1>1, <1>4 DEF Members, Alive
<1>6. ASSUME NEW q \in Members(r) \ Members(r)'
      PROVE  q \in Ended
  <2>1. PICK i \in active[r] : q = gid[r][i] /\ i \notin active'[r]
    BY <1>1, <1>6 DEF Members
  <2>2. Exited(q)
    BY <1>4, <2>1 DEF Alive
  <2>3. q \in Proc
    BY <2>1 DEF IInv, EntryOK
  <2> QED
    BY <2>2, <2>3 DEF Ended
<1>7. Peers(r)!Purge
  BY <1>2, <1>3, <1>5, <1>6 DEF Peers!Purge, Peers!TakesOut
<1> QED
  BY <1>7 DEF PeerStep, Peers!Next

\* With one semaphore, the registry that is initialised has no entry yet.
LEMMA InitialiseStep ==
  ASSUME IInv, SeenOK, NEW r \in Shms, OneSem(r), NEW p \in Proc, Initialise(p)
  PROVE  PeerStep(r)
<1>1. UNCHANGED <<myShm, cache, copied>> /\ Go(p, "up") /\ pc[p] = "fresh"
  BY DEF Initialise
<1>2. Ended' = Ended
  BY <1>1, EndedStays DEF IInv, TypeOK, Over
<1>3. Seen(r)' = Seen(r)
  BY <1>1, SeenStays
<1>4. Members(r)' = Members(r)
  <2>1. CASE myShm[p] = r
    <3>1. active[r] = {}
      BY <1>1, <2>1 DEF IInv, InitOK, SeenOK
    <3>2. active'[r] = {}
      BY <2>1 DEF Initialise, IInv, TypeOK
    <3> QED
      BY <3>1, <3>2 DEF Members
  <2>2. CASE myShm[p] # r
    BY <2>2, MembersFrame DEF Initialise, IInv, TypeOK
  <2> QED
    BY <2>1, <2>2
<1> QED
  BY <1>2, <1>3, <1>4 DEF PeerStep

\* With one semaphore, the entry that is written is nobody else's.
LEMMA WriteSlotStep ==
  ASSUME IInv, NEW r \in Shms, OneSem(r), NEW p \in Proc, WriteSlot(p)
  PROVE  PeerStep(r)
<1>1. UNCHANGED <<myShm, cache, copied>> /\ Go(p, "written") /\ pc[p] = "found"
  BY DEF WriteSlot
<1>2. Ended' = Ended
  BY <1>1, EndedStays DEF IInv, TypeOK, Over
<1>3. Seen(r)' = Seen(r)
  BY <1>1, SeenStays
<1>4. CASE myShm[p] # r
  <2>1. Members(r)' = Members(r)
    BY <1>4, MembersFrame DEF WriteSlot, IInv, TypeOK
  <2> QED
    BY <1>2, <1>3, <2>1 DEF PeerStep
<1>5. CASE myShm[p] = r
  <2> DEFINE i == slot[p]
  <2>1. i \in Slot /\ (i \in active[r] => gid[r][i] = p)
    BY <1>1, <1>5 DEF IInv, PlaceOK, FoundOK
  <2>2. /\ active'[r] = active[r] \cup {i} /\ gid'[r][i] = p
        /\ \A j \in Slot \ {i} : gid'[r][j] = gid[r][j]
    BY <1>5, <2>1 DEF WriteSlot, IInv, TypeOK
  <2>3. active[r] \subseteq Slot
    BY DEF IInv, TypeOK
  <2> HIDE DEF i
  <2>4. Members(r)' = Members(r) \cup {p}
    <3>1. ASSUME NEW q \in Members(r)
          PROVE  q \in Members(r)'
      <4>1. PICK j \in active[r] : q = gid[r][j]
        BY <3>1 DEF Members
      <4>2. gid'[r][j] = q
        BY <2>1, <2>2, <2>3, <4>1
      <4> QED
        BY <2>2, <4>1, <4>2 DEF Members
    <3>2. p \in Members(r)'
      BY <2>2 DEF Members
    <3>3. ASSUME NEW q \in Members(r)'
          PROVE  q = p \/ q \in Members(r)
      <4>1. PICK j \in active'[r] : q = gid'[r][j]
        BY <3>3 DEF Members
      <4>2. CASE j = i
        BY <2>2, <4>1, <4>2
      <4>3. CASE j # i
        BY <2>2, <2>3, <4>1, <4>3 DEF Members
      <4> QED
        BY <4>2, <4>3
    <3> QED
      BY <3>1, <3>2, <3>3
  <2>5. p \notin Ended
    BY <1>1 DEF Ended, Exited
  <2>6. Peers(r)!Sees(p, {})
    BY <1>1, <1>5, SeenGrows DEF IInv
  <2>7. Peers(r)!Enter(p)
    BY <1>2, <2>4, <2>5, <2>6 DEF Peers!Enter
  <2> QED
    BY <2>7 DEF PeerStep, Peers!Next
<1> QED
  BY <1>4, <1>5

\* Who is told that it is registered is.
LEMMA RegisteredStep ==
  ASSUME IInv, SeenOK, NEW r \in Shms, OneSem(r), NEW p \in Proc, Registered(p)
  PROVE  PeerStep(r)
<1>1. /\ UNCHANGED <<gid, active, myShm, copied>> /\ Go(p, "up") /\ pc[p] = "written"
      /\ cache' = [cache EXCEPT ![p] = @ \cup {p}]
  BY DEF Registered
<1>2. Ended' = Ended
  BY <1>1, EndedStays DEF IInv, TypeOK, Over
<1>3. Members(r)' = Members(r)
  BY <1>1, MembersFrame
<1>4. /\ \A q \in Proc \ {p} : cache'[q] = cache[q] /\ copied'[q] = copied[q]
      /\ cache'[p] \cup copied'[p] = cache[p] \cup copied[p] \cup {p}
  BY <1>1 DEF IInv, TypeOK
<1>5. CASE myShm[p] # r
  <2>1. Seen(r)' = Seen(r)
    BY <1>1, <1>4, <1>5, SeenGrows DEF IInv
  <2> QED
    BY <1>2, <1>3, <2>1 DEF PeerStep
<1>6. CASE myShm[p] = r
  <2>1. Peers(r)!Sees(p, {p})
    BY <1>1, <1>4, <1>6, SeenGrows DEF IInv
  <2>2. PICK i \in Slot : Entry(p, r, i)
    BY <1>1, <1>6 DEF IInv, MemberOK, Listed
  <2>3. p \in Members(r)
    BY <2>2 DEF Entry, Members
  <2>4. Peers(r)!Confirm(p)
    BY <1>2, <1>3, <2>1, <2>3 DEF Peers!Confirm
  <2> QED
    BY <2>4 DEF PeerStep, Peers!Next
<1> QED
  BY <1>5, <1>6

\* The copy sees all who are there, and the merge nobody more.
LEMMA CopyStep ==
  ASSUME IInv, SeenOK, NEW r \in Shms, NEW p \in Proc, Copy(p)
  PROVE  PeerStep(r)
<1>1. /\ UNCHANGED <<gid, active, myShm, cache>> /\ Go(p, "merging") /\ pc[p] = "copying"
      /\ copied' = [copied EXCEPT ![p] = Members(myShm[p])]
  BY DEF Copy
<1>2. Ended' = Ended
  BY <1>1, EndedStays DEF IInv, TypeOK, Over
<1>3. Members(r)' = Members(r)
  BY <1>1, MembersFrame
<1>4. copied[p] = {}
  BY <1>1 DEF SeenOK
<1>5. /\ \A q \in Proc \ {p} : cache'[q] = cache[q] /\ copied'[q] = copied[q]
      /\ cache'[p] \cup copied'[p] = cache[p] \cup copied[p] \cup Members(myShm[p])
  BY <1>1, <1>4 DEF IInv, TypeOK
<1>6. CASE myShm[p] # r
  <2>1. Seen(r)' = Seen(r)
    BY <1>1, <1>5, <1>6, SeenGrows DEF IInv
  <2> QED
    BY <1>2, <1>3, <2>1 DEF PeerStep
<1>7. CASE myShm[p] = r
  <2>1. Peers(r)!Sees(p, Members(r))
    BY <1>1, <1>5, <1>7, SeenGrows DEF IInv
  <2>2. Peers(r)!Look(p)
    BY <1>2, <1>3, <2>1 DEF Peers!Look
  <2> QED
    BY <2>2 DEF PeerStep, Peers!Next
<1> QED
  BY <1>6, <1>7

LEMMA MergeStep ==
  ASSUME IInv, NEW r \in Shms, NEW p \in Proc, Merge(p)
  PROVE  PeerStep(r)
<1>1. /\ UNCHANGED <<gid, active, myShm>> /\ Go(p, "up") /\ pc[p] = "merging"
      /\ cache' = [cache EXCEPT ![p] = @ \cup copied[p]]
      /\ copied' = [copied EXCEPT ![p] = {}]
  BY DEF Merge
<1>2. Ended' = Ended
  BY <1>1, EndedStays DEF IInv, TypeOK, Over
<1>3. Members(r)' = Members(r)
  BY <1>1, MembersFrame
<1>4. \A q \in Proc : cache'[q] \cup copied'[q] = cache[q] \cup copied[q]
  BY <1>1 DEF IInv, TypeOK
<1>5. Seen(r)' = Seen(r)
  BY <1>1, <1>4 DEF Seen
<1> QED
  BY <1>2, <1>3, <1>5 DEF PeerStep

\* A destructor takes out its own entry and those of the dead.
LEMMA ClearOwnStep ==
  ASSUME IInv, NEW r \in Shms, NEW p \in Proc, ClearOwn(p)
  PROVE  PeerStep(r)
<1>1. UNCHANGED <<gid, myShm, cache, copied>> /\ Go(p, "cleared")
  BY DEF ClearOwn
<1>2. \/ active'[r] = active[r]
      \/ active'[r] = {i \in Alive(r) : gid[r][i] # p}
  BY DEF ClearOwn, IInv, TypeOK
<1>3. Members(r)' \subseteq Members(r)
  BY <1>1, <1>2 DEF Members, Alive
<1>4. Ended' = Ended \cup {p}
  BY <1>1, EndedGrows DEF IInv, TypeOK, Over
<1>5. ASSUME NEW q \in Members(r) \ Members(r)'
      PROVE  q \in Ended'
  <2>1. PICK i \in active[r] : q = gid[r][i] /\ i \notin active'[r]
    BY <1>1, <1>5 DEF Members
  <2>2. Exited(q) \/ q = p
    BY <1>2, <2>1 DEF Alive
  <2>3. q \in Proc
    BY <2>1 DEF IInv, EntryOK
  <2> QED
    BY <1>4, <2>2, <2>3 DEF Ended
<1> QED
  BY <1>1, <1>3, <1>5, EndStep DEF Over

\* One step per action.
LEMMA StepOfPeers ==
  ASSUME IInv, SeenOK, [Next]_vars, NEW r \in Shms, OneSem(r)'
  PROVE  OneSem(r) /\ PeerStep(r)
<1>1. OneSem(r)
  <2>1. semsOf[r] \subseteq semsOf'[r]
    <3>1. UNCHANGED semsOf \/ \E p \in Proc : OpenSem(p)
      BY DEF Next, vars, OpenShm, Wait, Timeout, Attach, Initialise, Register, FindSlot,
         RegistryFull, WriteSlot, Registered, Refresh, Copy, Merge, Leave, ClearOwn, Detach,
         UnlinkShm, UnlinkSem, Crash
    <3>2. semsOf \in [Shms -> SUBSET Sems]
      BY DEF IInv, TypeOK
    <3>3. ASSUME NEW p \in Proc, OpenSem(p)
          PROVE  semsOf[r] \subseteq semsOf'[r]
      <4>1. semsOf' = [semsOf EXCEPT ![myShm[p]] = @ \cup {semName'}]
        BY <3>3 DEF OpenSem
      <4> QED
        BY <3>2, <4>1
    <3> QED
      BY <3>1, <3>3
  <2> QED
    BY <2>1 DEF OneSem
<1>2. CASE UNCHANGED vars
  <2>1. UNCHANGED <<gid, active, pc, myShm, cache, copied>>
    BY <1>2 DEF vars
  <2>2. Members(r)' = Members(r) /\ Seen(r)' = Seen(r)
    BY <2>1, MembersFrame, SeenStays
  <2>3. Ended' = Ended
    BY <2>1 DEF Ended, Exited
  <2> QED
    BY <1>1, <2>2, <2>3, SilentStep
<1>3. CASE Next
  BY <1>1, <1>3, QuietSteps, OpenShmStep, TimeoutStep, CrashStep, AttachStep,
     InitialiseStep, WriteSlotStep, RegisteredStep, CopyStep, MergeStep, ClearOwnStep
     DEF Next
<1> QED
  BY <1>2, <1>3

\* Whatever the processes do in and around their critical sections, each registry does
\* what PeerRegistry promises, from its creation until it is used with a second semaphore.
THEOREM PeersImplemented == Spec => (\A r \in Shms : Peers(r)!Init) /\ ImplementsPeers
<1>1. ASSUME Init, NEW r \in Shms
      PROVE  Peers(r)!Init
  BY <1>1 DEF Init, Peers!Init, Members, Ended, Exited, Seen
<1>2. Init => \A r \in Shms : Peers(r)!Init
  BY <1>1
<1>3. IInv /\ SeenOK /\ [Next]_vars => [\A r \in Shms : OneSem(r)' => PeerStep(r)]_vars
  BY StepOfPeers
<1> QED
  BY <1>2, <1>3, SeenInvariant, PTL DEF Spec, ImplementsPeers

\* PeerRegistry's own invariant: whom somebody knows of has an entry still, or has ended.
Known(r) == \A p \in Proc : Seen(r)[p] \subseteq Members(r) \cup Ended

LEMMA SeesOnly ==
  ASSUME NEW r \in Shms, NEW p \in Proc, NEW S, Peers(r)!Sees(p, S), NEW q \in Proc
  PROVE  Seen(r)'[q] \subseteq Seen(r)[q] \cup S
<1>1. Seen(r)' = [Seen(r) EXCEPT ![p] = @ \cup S]
  BY DEF Peers!Sees
<1>2. DOMAIN Seen(r) = Proc
  BY DEF Seen
<1> QED
  BY <1>1, <1>2

LEMMA KnownStep ==
  ASSUME NEW r \in Shms, Known(r), PeerStep(r)
  PROVE  Known(r)'
<1>1. ASSUME NEW p \in Proc, Peers(r)!Enter(p)
      PROVE  Known(r)'
  <2>1. Members(r)' = Members(r) \cup {p} /\ Ended' = Ended
    BY <1>1 DEF Peers!Enter
  <2>2. Peers(r)!Sees(p, {}) \/ Peers(r)!Sees(p, {p})
    BY <1>1 DEF Peers!Enter
  <2>3. \A q \in Proc : Seen(r)'[q] \subseteq Seen(r)[q] \cup {p}
    BY <2>2, SeesOnly
  <2> QED
    BY <2>1, <2>3 DEF Known
<1>2. ASSUME NEW p \in Proc, Peers(r)!Confirm(p)
      PROVE  Known(r)'
  <2>1. Members(r)' = Members(r) /\ Ended' = Ended /\ p \in Members(r)
    BY <1>2 DEF Peers!Confirm
  <2>2. Peers(r)!Sees(p, {p})
    BY <1>2 DEF Peers!Confirm
  <2>3. \A q \in Proc : Seen(r)'[q] \subseteq Seen(r)[q] \cup {p}
    BY <2>2, SeesOnly
  <2> QED
    BY <2>1, <2>3 DEF Known
<1>3. ASSUME NEW p \in Proc, Peers(r)!Look(p)
      PROVE  Known(r)'
  <2>1. Members(r)' = Members(r) /\ Ended' = Ended
    BY <1>3 DEF Peers!Look
  <2>2. Peers(r)!Sees(p, Members(r))
    BY <1>3 DEF Peers!Look
  <2>3. \A q \in Proc : Seen(r)'[q] \subseteq Seen(r)[q] \cup Members(r)
    BY <2>2, SeesOnly
  <2> QED
    BY <2>1, <2>3 DEF Known
<1>4. ASSUME NEW p \in Proc, Peers(r)!End(p)
      PROVE  Known(r)'
  <2>1. /\ Seen(r)' = Seen(r) /\ Ended \subseteq Ended'
        /\ Members(r) \ Members(r)' \subseteq Ended'
    BY <1>4 DEF Peers!End, Peers!TakesOut
  <2> QED
    BY <2>1 DEF Known
<1>5. CASE Peers(r)!Purge
  <2>1. /\ Seen(r)' = Seen(r) /\ Ended' = Ended
        /\ Members(r) \ Members(r)' \subseteq Ended
    BY <1>5 DEF Peers!Purge, Peers!TakesOut
  <2> QED
    BY <2>1 DEF Known
<1>6. CASE UNCHANGED <<Members(r), Ended, Seen(r)>>
  BY <1>6 DEF Known
<1> QED
  BY <1>1, <1>2, <1>3, <1>4, <1>5, <1>6 DEF PeerStep, Peers!Next

\* What a process has in its cache of a peer is not out of date in a way that matters:
\* the peer is registered still, or it has ended.
THEOREM KnownPeersAreThere == Spec => [](\A r \in Shms : OneSem(r) => Known(r))
<1>1. ASSUME Init, NEW r \in Shms
      PROVE  Known(r)
  BY <1>1 DEF Init, Known, Seen
<1>2. ASSUME \A r \in Shms : OneSem(r) => Known(r),
             \A r \in Shms : OneSem(r)' => OneSem(r) /\ PeerStep(r)
      PROVE  \A r \in Shms : OneSem(r)' => Known(r)'
  BY <1>2, KnownStep
<1>3. Init => \A r \in Shms : OneSem(r) => Known(r)
  BY <1>1
<1>4. /\ IInv /\ SeenOK /\ [Next]_vars
      /\ \A r \in Shms : OneSem(r) => Known(r)
      => (\A r \in Shms : OneSem(r) => Known(r))'
  BY <1>2, StepOfPeers
<1> QED
  BY <1>3, <1>4, SeenInvariant, PTL DEF Spec
=============================================================================
