------------------------ MODULE HostEndpointRegistry ------------------------
(***************************************************************************)
(* HostEndpointManager: the processes of one host and domain meet in a     *)
(* registry in POSIX shared memory, guarded by a named semaphore.  Both    *)
(* are found by name and outlive their names: a process that has opened    *)
(* them keeps using what it opened after another has unlinked the name and *)
(* a third has created the name anew.                                      *)
(*                                                                         *)
(* Each process has one manager (get_instance) and creates one endpoint;   *)
(* the process stands for the endpoint's gid and for the instance_id.  A   *)
(* process of the model lives once.  That the pid of a dead process is     *)
(* given to another one is left out.  A critical section is as many steps  *)
(* as it needs to show what happens when two processes are in one.         *)
(***************************************************************************)
EXTENDS Naturals, FiniteSets

CONSTANTS
  Proc,        \* processes
  Slot,        \* entries of a registry: MAX_ENDPOINTS of them
  MaxShm,      \* bound: how many registries are created under the name
  MaxSem,      \* bound: how many semaphores are created under the name
  MaxCrash,    \* bound: how many processes die
  NoProc,      \* no gid in a slot yet
  NoSlot

ASSUME ConstantsOK ==
  /\ IsFiniteSet(Proc) /\ IsFiniteSet(Slot)
  /\ MaxShm \in Nat /\ MaxSem \in Nat /\ MaxCrash \in Nat
  /\ NoProc \notin Proc
  /\ NoSlot \notin Slot

VARIABLES
  \* the names in the file system: which object they lead to, 0 if there is none
  shmName, semName,
  \* EndpointRegistry objects 1 .. shms
  shms,        \* how many were created
  version,     \* [1 .. MaxShm -> {0, 1}] version: 0 until it is initialised
  gid,         \* [1 .. MaxShm -> [Slot -> Proc \cup {NoProc}]] entries[i].gid
  active,      \* [1 .. MaxShm -> SUBSET Slot] entries[i].active
  \* semaphores 1 .. sems
  sems,
  value,       \* [1 .. MaxSem -> {0, 1}]
  \* a process
  pc,          \* [Proc -> Places]
  myShm,       \* [Proc -> 0 .. MaxShm] shm_ptr_
  mySem,       \* [Proc -> 0 .. MaxSem] shm_mutex_
  slot,        \* [Proc -> Slot \cup {NoSlot}] the entry register_endpoint found
  copied,      \* [Proc -> SUBSET Proc] updates of refresh_from_remote
  cache,       \* [Proc -> SUBSET Proc] keys of local_cache_
  \* history
  asked,       \* those that have called register_endpoint
  joined,      \* those to which it returned true
  semsOf,      \* [1 .. MaxShm -> SUBSET 1 .. MaxSem] semaphores a registry was used with
  stuck,       \* semaphores whose holder died
  gaveUp,      \* processes whose sem_timedwait failed
  crashes

files == <<shmName, semName>>
regs  == <<version, gid, active>>
mine  == <<myShm, mySem, slot, copied, cache>>
hist  == <<asked, joined, semsOf, stuck, gaveUp, crashes>>
vars  == <<files, shms, regs, sems, value, pc, mine, hist>>

-----------------------------------------------------------------------------
Waiting  == {"attached", "registering", "refreshing", "leaving"}
InCS     == {"initialising", "fresh", "searching", "found", "written", "copying", "clearing", "cleared"}
Places   == {"off", "opened", "up", "merging", "unlinkShm", "unlinkSem", "gone", "dead"}
              \cup Waiting \cup InCS

\* The critical section a wait leads to.
Enters == [attached |-> "initialising", registering |-> "searching",
           refreshing |-> "copying", leaving |-> "clearing"]

\* Where a call goes on when sem_timedwait gives up: the constructor throws (and
\* is called again by the next user of the manager), the others return; the
\* destructor leaves its entry behind.
GivesUp == [attached |-> "off", registering |-> "up", refreshing |-> "up", leaving |-> "gone"]

Shms == 1 .. MaxShm
Sems == 1 .. MaxSem

\* kill(pid, 0) fails with ESRCH.
Exited(p) == pc[p] \in {"gone", "dead"}

Used(r) == {i \in Slot : gid[r][i] # NoProc}

\* purge_dead_entries: what it leaves active.
Alive(r) == {i \in active[r] : ~Exited(gid[r][i])}

\* The endpoints that are registered in r.
Members(r) == {gid[r][i] : i \in active[r]}

Go(p, place) == pc' = [pc EXCEPT ![p] = place]

\* sem_post.
Post(p) == value' = [value EXCEPT ![mySem[p]] = @ + 1]

-----------------------------------------------------------------------------
Init ==
  /\ shmName = 0 /\ semName = 0
  /\ shms = 0
  /\ version = [r \in Shms |-> 0]
  /\ gid = [r \in Shms |-> [i \in Slot |-> NoProc]]
  /\ active = [r \in Shms |-> {}]
  /\ sems = 0
  /\ value = [s \in Sems |-> 1]
  /\ pc = [p \in Proc |-> "off"]
  /\ myShm = [p \in Proc |-> 0]
  /\ mySem = [p \in Proc |-> 0]
  /\ slot = [p \in Proc |-> NoSlot]
  /\ copied = [p \in Proc |-> {}]
  /\ cache = [p \in Proc |-> {}]
  /\ asked = {} /\ joined = {}
  /\ semsOf = [r \in Shms |-> {}]
  /\ stuck = {}
  /\ gaveUp = {}
  /\ crashes = 0

-----------------------------------------------------------------------------
\* shm_open(O_CREAT), ftruncate, mmap.
OpenShm(p) ==
  /\ pc[p] = "off"
  /\ IF shmName = 0
       THEN /\ shms < MaxShm
            /\ shms' = shms + 1
            /\ shmName' = shms + 1
       ELSE UNCHANGED <<shms, shmName>>
  /\ myShm' = [myShm EXCEPT ![p] = shmName']
  /\ Go(p, "opened")
  /\ UNCHANGED <<semName, regs, sems, value, mySem, slot, copied, cache, hist>>

\* sem_open(O_CREAT, 1).
OpenSem(p) ==
  /\ pc[p] = "opened"
  /\ IF semName = 0
       THEN /\ sems < MaxSem
            /\ sems' = sems + 1
            /\ semName' = sems + 1
       ELSE UNCHANGED <<sems, semName>>
  /\ mySem' = [mySem EXCEPT ![p] = semName']
  /\ semsOf' = [semsOf EXCEPT ![myShm[p]] = @ \cup {semName'}]
  /\ Go(p, "attached")
  /\ UNCHANGED <<shmName, shms, regs, value, myShm, slot, copied, cache,
                 asked, joined, stuck, gaveUp, crashes>>

\* sem_timedwait succeeds.
Wait(p) ==
  /\ pc[p] \in Waiting
  /\ value[mySem[p]] = 1
  /\ value' = [value EXCEPT ![mySem[p]] = 0]
  /\ Go(p, Enters[pc[p]])
  /\ UNCHANGED <<files, shms, regs, sems, mine, hist>>

\* ... or two seconds pass while somebody else has the semaphore.
Timeout(p) ==
  /\ pc[p] \in Waiting
  /\ value[mySem[p]] = 0
  /\ gaveUp' = gaveUp \cup {p}
  /\ Go(p, GivesUp[pc[p]])
  /\ UNCHANGED <<files, shms, regs, sems, value, mine, asked, joined, semsOf, stuck, crashes>>

\* The constructor's critical section: the first to come initialises the registry,
\* the others purge it.
Attach(p) ==
  /\ pc[p] = "initialising"
  /\ IF version[myShm[p]] = 0
       THEN /\ Go(p, "fresh")
            /\ UNCHANGED <<active, value>>
       ELSE /\ active' = [active EXCEPT ![myShm[p]] = Alive(myShm[p])]
            /\ Post(p)
            /\ Go(p, "up")
  /\ UNCHANGED <<files, shms, version, gid, sems, mine, hist>>

Initialise(p) ==
  /\ pc[p] = "fresh"
  /\ version' = [version EXCEPT ![myShm[p]] = 1]
  /\ gid' = [gid EXCEPT ![myShm[p]] = [i \in Slot |-> NoProc]]
  /\ active' = [active EXCEPT ![myShm[p]] = {}]
  /\ Post(p)
  /\ Go(p, "up")
  /\ UNCHANGED <<files, shms, sems, mine, hist>>

-----------------------------------------------------------------------------
\* register_endpoint, from on_creating_endpoint, which ignores its result.
Register(p) ==
  /\ pc[p] = "up"
  /\ p \notin asked
  /\ asked' = asked \cup {p}
  /\ Go(p, "registering")
  /\ UNCHANGED <<files, shms, regs, sems, value, mine, joined, semsOf, stuck, gaveUp, crashes>>

\* Mutant: any used entry will do, active or not.
FindSlotInUse(p) ==
  /\ pc[p] = "searching"
  /\ LET r == myShm[p]
     IN \E i \in Slot :
          /\ i \in IF Used(r) # {} THEN Used(r) ELSE Slot
          /\ slot' = [slot EXCEPT ![p] = i]
  /\ Go(p, "found")
  /\ UNCHANGED <<files, shms, regs, sems, value, myShm, mySem, copied, cache, hist>>

\* The slot with this gid, else an inactive one, else the next (which of them does
\* not matter).
FindSlot(p) ==
  /\ pc[p] = "searching"
  /\ LET r == myShm[p]
         same == {i \in Slot : gid[r][i] = p}
         idle == Used(r) \ active[r]
     IN \E i \in Slot :
          /\ i \in IF same # {} THEN same ELSE IF idle # {} THEN idle ELSE Slot \ Used(r)
          /\ slot' = [slot EXCEPT ![p] = i]
  /\ Go(p, "found")
  /\ UNCHANGED <<files, shms, regs, sems, value, myShm, mySem, copied, cache, hist>>

\* Mutant: the early return of a full registry skips the sem_post.
RegistryFullKeepsSem(p) ==
  /\ pc[p] = "searching"
  /\ Used(myShm[p]) = Slot /\ active[myShm[p]] = Slot
  /\ \A i \in Slot : gid[myShm[p]][i] # p
  /\ Go(p, "up")
  /\ UNCHANGED <<files, shms, regs, sems, value, mine, hist>>

\* Mutant: no early return, the entry after the last one is written.
RegistryFullFallsThrough(p) ==
  /\ pc[p] = "searching"
  /\ Used(myShm[p]) = Slot /\ active[myShm[p]] = Slot
  /\ \A i \in Slot : gid[myShm[p]][i] # p
  /\ slot' = [slot EXCEPT ![p] = NoSlot]
  /\ Go(p, "found")
  /\ UNCHANGED <<files, shms, regs, sems, value, myShm, mySem, copied, cache, hist>>

\* Every entry is in use, if only by a process that has died: it returns false.
RegistryFull(p) ==
  /\ pc[p] = "searching"
  /\ Used(myShm[p]) = Slot /\ active[myShm[p]] = Slot
  /\ \A i \in Slot : gid[myShm[p]][i] # p
  /\ Post(p)
  /\ Go(p, "up")
  /\ UNCHANGED <<files, shms, regs, sems, mine, hist>>

WriteSlot(p) ==
  /\ pc[p] = "found"
  /\ gid' = [gid EXCEPT ![myShm[p]][slot[p]] = p]
  /\ active' = [active EXCEPT ![myShm[p]] = @ \cup {slot[p]}]
  /\ Go(p, "written")
  /\ UNCHANGED <<files, shms, version, sems, value, mine, hist>>

\* sem_post, then the entry in the process's own cache.
Registered(p) ==
  /\ pc[p] = "written"
  /\ Post(p)
  /\ cache' = [cache EXCEPT ![p] = @ \cup {p}]
  /\ joined' = joined \cup {p}
  /\ Go(p, "up")
  /\ UNCHANGED <<files, shms, regs, sems, myShm, mySem, slot, copied,
                 asked, semsOf, stuck, gaveUp, crashes>>

-----------------------------------------------------------------------------
\* refresh_from_remote: a copy under the semaphore, merged under cache_mutex_.
Refresh(p) ==
  /\ pc[p] = "up"
  /\ Go(p, "refreshing")
  /\ UNCHANGED <<files, shms, regs, sems, value, mine, hist>>

Copy(p) ==
  /\ pc[p] = "copying"
  /\ copied' = [copied EXCEPT ![p] = Members(myShm[p])]
  /\ Post(p)
  /\ Go(p, "merging")
  /\ UNCHANGED <<files, shms, regs, sems, myShm, mySem, slot, cache, hist>>

Merge(p) ==
  /\ pc[p] = "merging"
  /\ cache' = [cache EXCEPT ![p] = @ \cup copied[p]]
  /\ copied' = [copied EXCEPT ![p] = {}]
  /\ Go(p, "up")
  /\ UNCHANGED <<files, shms, regs, sems, value, myShm, mySem, slot, hist>>

-----------------------------------------------------------------------------
\* The destructor, at the end of the process.
Leave(p) ==
  /\ pc[p] = "up"
  /\ Go(p, "leaving")
  /\ UNCHANGED <<files, shms, regs, sems, value, mine, hist>>

\* Its own entries, then those of the dead.
ClearOwn(p) ==
  /\ pc[p] = "clearing"
  /\ active' = [active EXCEPT ![myShm[p]] = {i \in Alive(myShm[p]) : gid[myShm[p]][i] # p}]
  /\ Go(p, "cleared")
  /\ UNCHANGED <<files, shms, version, gid, sems, value, mine, hist>>

\* has_active_entries, sem_post, sem_close, munmap.
Detach(p) ==
  /\ pc[p] = "cleared"
  /\ Post(p)
  /\ Go(p, IF active[myShm[p]] = {} THEN "unlinkShm" ELSE "gone")
  /\ UNCHANGED <<files, shms, regs, sems, mine, hist>>

\* Mutant: the semaphore's name is forgotten.
UnlinkShmOnly(p) ==
  /\ pc[p] = "unlinkShm"
  /\ shmName' = 0
  /\ Go(p, "gone")
  /\ UNCHANGED <<semName, shms, regs, sems, value, mine, hist>>

\* shm_unlink takes away what the name leads to by now, and so does sem_unlink.
UnlinkShm(p) ==
  /\ pc[p] = "unlinkShm"
  /\ shmName' = 0
  /\ Go(p, "unlinkSem")
  /\ UNCHANGED <<semName, shms, regs, sems, value, mine, hist>>

UnlinkSem(p) ==
  /\ pc[p] = "unlinkSem"
  /\ semName' = 0
  /\ Go(p, "gone")
  /\ UNCHANGED <<shmName, shms, regs, sems, value, mine, hist>>

\* The process is killed; what it holds is never released.
Crash(p) ==
  /\ pc[p] \notin {"off", "gone", "dead"}
  /\ crashes < MaxCrash
  /\ crashes' = crashes + 1
  /\ stuck' = IF pc[p] \in InCS THEN stuck \cup {mySem[p]} ELSE stuck
  /\ Go(p, "dead")
  /\ UNCHANGED <<files, shms, regs, sems, value, mine, asked, joined, semsOf, gaveUp>>

-----------------------------------------------------------------------------
Next ==
  \E p \in Proc :
    \/ OpenShm(p) \/ OpenSem(p) \/ Wait(p) \/ Timeout(p)
    \/ Attach(p) \/ Initialise(p)
    \/ Register(p) \/ FindSlot(p) \/ RegistryFull(p) \/ WriteSlot(p) \/ Registered(p)
    \/ Refresh(p) \/ Copy(p) \/ Merge(p)
    \/ Leave(p) \/ ClearOwn(p) \/ Detach(p) \/ UnlinkShm(p) \/ UnlinkSem(p)
    \/ Crash(p)

Spec == Init /\ [][Next]_vars

-----------------------------------------------------------------------------
\* The variables have their types; a semaphore that starts at 1 never goes above.
TypeOK ==
  /\ shmName \in 0 .. MaxShm /\ semName \in 0 .. MaxSem
  /\ shms \in 0 .. MaxShm /\ sems \in 0 .. MaxSem
  /\ version \in [Shms -> {0, 1}]
  /\ gid \in [Shms -> [Slot -> Proc \cup {NoProc}]]
  /\ active \in [Shms -> SUBSET Slot]
  /\ value \in [Sems -> {0, 1}]
  /\ pc \in [Proc -> Places]
  /\ myShm \in [Proc -> 0 .. MaxShm] /\ mySem \in [Proc -> 0 .. MaxSem]
  /\ slot \in [Proc -> Slot \cup {NoSlot}]
  /\ copied \in [Proc -> SUBSET Proc] /\ cache \in [Proc -> SUBSET Proc]
  /\ asked \in SUBSET Proc /\ joined \in SUBSET Proc
  /\ semsOf \in [Shms -> SUBSET Sems]
  /\ stuck \in SUBSET Sems
  /\ gaveUp \in SUBSET Proc
  /\ crashes \in Nat

\* A semaphore is free, or one live process is in the critical section under it,
\* or its holder died there: no return of register_endpoint, of the constructor or
\* of the destructor forgets the sem_post or posts twice.
SemaphoreAccounted ==
  \A s \in 1 .. sems :
    value[s] + Cardinality({p \in Proc : pc[p] \in InCS /\ mySem[p] = s})
      + (IF s \in stuck THEN 1 ELSE 0) = 1

\* A registration lasts: as long as all who attached to a registry use the same
\* semaphore, an endpoint whose register_endpoint returned true is active in it
\* until its own process leaves, whoever initialises, purges, registers or leaves.
RegistrationSticks ==
  \A p \in joined :
    pc[p] \in {"up", "refreshing", "copying", "merging", "leaving", "clearing"}
      /\ Cardinality(semsOf[myShm[p]]) = 1
        => p \in Members(myShm[p])

\* Nothing stays in /dev/shm when all processes have left in good order: the last
\* to leave unlinks both names, even if others come and go in the meantime.
CleanExit ==
  (\A p \in Proc : pc[p] \in {"off", "gone"}) /\ gaveUp = {}
    => shmName = 0 /\ semName = 0
=============================================================================
