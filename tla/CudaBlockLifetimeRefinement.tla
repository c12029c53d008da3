--------------------- MODULE CudaBlockLifetimeRefinement ---------------------
(***************************************************************************)
(* CudaBlockLifetime implements BlockLease.  A subscription has pinned a   *)
(* block from its count, if that was in time, until it has given the count *)
(* back; a lease is an allocation, and its number what the uid stands for. *)
(***************************************************************************)
EXTENDS CudaBlockLifetime

Pins(s) == status[s] # "idle" /\ s \in pinned

\* The pins of the subscriptions, as block and lease.
PinOf == [s \in Sub |-> IF Pins(s) THEN [block |-> BlockOf(s), lease |-> msg[s].uid]
                                   ELSE [block |-> NoBlock, lease |-> 0]]

Blind   == {s \in blind : Pins(s)}
Readers == {s \in Sub : read[s] = "running" /\ s \in pinned}

Lease == INSTANCE BlockLease WITH
  issued <- allocs, lease <- gen, ordered <- Ordered, whole <- Whole,
  pin <- PinOf, blind <- Blind, reading <- Readers

\* Every behaviour of the pool, the imports and the recyclers is one of leases and
\* pins: no step of any process takes a pinned block away, pins another lease than
\* the message's, starts a kernel on unfinished data it could have waited for, or leaves
\* one running when the reference is given back.
ImplementsLease == Lease!Spec
=============================================================================
