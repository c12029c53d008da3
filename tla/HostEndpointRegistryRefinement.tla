-------------------- MODULE HostEndpointRegistryRefinement --------------------
(***************************************************************************)
(* Each registry of HostEndpointRegistry is a PeerRegistry, until it is    *)
(* used with a second semaphore.  What a process has copied but not merged *)
(* yet it has seen; from the moment it has cleared its entry it has ended. *)
(***************************************************************************)
EXTENDS HostEndpointRegistry

\* Registry r was used with one semaphore at most.
OneSem(r) == \A s, t \in semsOf[r] : s = t

Ended == {p \in Proc : Exited(p) \/ pc[p] \in {"cleared", "unlinkShm", "unlinkSem"}}

Seen(r) == [p \in Proc |-> IF myShm[p] = r THEN cache[p] \cup copied[p] ELSE {}]

Peers(r) == INSTANCE PeerRegistry WITH
  entries <- Members(r), ended <- Ended, seen <- Seen(r)

PeerStep(r) == Peers(r)!Next \/ UNCHANGED <<Members(r), Ended, Seen(r)>>

\* Every step of every process, in whatever critical sections the others are, is one
\* that PeerRegistry allows: nobody's entry is overwritten, wiped by a late
\* initialisation or purged before its process is done, a process that was told it is
\* registered is, and a refresh misses nobody.
ImplementsPeers ==
  [][\A r \in Shms : OneSem(r)' => PeerStep(r)]_vars
=============================================================================
