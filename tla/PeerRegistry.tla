----------------------------- MODULE PeerRegistry -----------------------------
(***************************************************************************)
(* What the registry of a host promises the plugins that use it, without a *)
(* word about shared memory, entries or semaphores: a process enters once  *)
(* it has registered, stays until it has ended, and whoever looks sees all *)
(* who are there and forgets nobody it has seen.  A call that gives up is  *)
(* none of these steps.                                                    *)
(*                                                                         *)
(* HostEndpointRegistryRefinement has the registry that does this, as long *)
(* as it is used with one semaphore; PeerDecision is a user of it, and     *)
(* relies on no more.                                                      *)
(***************************************************************************)

CONSTANT Proc

VARIABLES
  entries,  \* who has an active entry
  ended,    \* who does not need one any more
  seen      \* [Proc -> SUBSET Proc] whom a process knows of

peerVars == <<entries, ended, seen>>

Init ==
  /\ entries = {}
  /\ ended = {}
  /\ seen = [p \in Proc |-> {}]

Sees(p, S) == seen' = [seen EXCEPT ![p] = @ \cup S]

\* p gets an entry; it may know of itself at once.
Enter(p) ==
  /\ p \notin ended
  /\ entries' = entries \cup {p}
  /\ Sees(p, {}) \/ Sees(p, {p})
  /\ UNCHANGED ended

\* p is told that it has one.
Confirm(p) ==
  /\ p \in entries
  /\ Sees(p, {p})
  /\ UNCHANGED <<entries, ended>>

Look(p) ==
  /\ Sees(p, entries)
  /\ UNCHANGED <<entries, ended>>

\* Only entries of processes that have ended are taken out, some of them or all.
TakesOut(gone) == entries' \subseteq entries /\ entries \ entries' \subseteq gone

End(p) ==
  /\ ended' = ended \cup {p}
  /\ TakesOut(ended')
  /\ UNCHANGED seen

Purge ==
  /\ TakesOut(ended)
  /\ UNCHANGED <<ended, seen>>

Next ==
  \/ \E p \in Proc : Enter(p) \/ Confirm(p) \/ Look(p) \/ End(p)
  \/ Purge

Spec == Init /\ [][Next]_peerVars
=============================================================================
