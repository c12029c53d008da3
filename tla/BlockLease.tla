----------------------------- MODULE BlockLease -----------------------------
(***************************************************************************)
(* What CudaMemoryPool and the processes that import its blocks promise    *)
(* one another, without a word about how: a block is leased to one         *)
(* allocation at a time, a subscription can pin the lease its message is   *)
(* about, a pinned block is not leased again, and a kernel under a pin     *)
(* starts when the data is whole and ends before the pin does.  A lease is *)
(* ordered from when its writes are ones a reader can wait for; a pin may  *)
(* turn out blind, unable to wait: then the kernel starts on what there is.*)
(*                                                                         *)
(* CudaBlockLifetimeRefinement shows that CudaBlockLifetime does this with *)
(* a shared counter, a uid, a timestamp, two queues and no lock.           *)
(***************************************************************************)
EXTENDS Naturals

CONSTANTS Block, Sub, NoBlock

VARIABLES
  issued,   \* how many leases were granted
  lease,    \* [Block -> Nat] the latest lease of a block, 0 before the first
  ordered,  \* the blocks whose present lease has writes a reader can wait for
  whole,    \* the blocks whose data has been written under the present lease
  pin,      \* [Sub -> the block and lease it has pinned]
  blind,    \* the subscriptions that cannot wait under their pin
  reading   \* the subscriptions with a kernel running under a pin

leaseVars == <<issued, lease, ordered, whole, pin, blind, reading>>

NoPin == [block |-> NoBlock, lease |-> 0]

Pinned(b) == \E s \in Sub : pin[s].block = b

Init ==
  /\ issued = 0
  /\ lease = [b \in Block |-> 0]
  /\ ordered = {}
  /\ whole = {}
  /\ pin = [s \in Sub |-> NoPin]
  /\ blind = {}
  /\ reading = {}

\* A block nobody has pinned goes to a new allocation.
Grant(b) ==
  /\ ~Pinned(b)
  /\ issued' = issued + 1
  /\ lease' = [lease EXCEPT ![b] = issued + 1]
  /\ ordered' = ordered \ {b}
  /\ whole' = whole \ {b}
  /\ UNCHANGED <<pin, blind, reading>>

\* The writes under the lease get on: an event is put behind them, they complete.
Fill(b) ==
  /\ ordered' \in {ordered, ordered \cup {b}}
  /\ whole' \in {whole, whole \cup {b}}
  /\ UNCHANGED <<issued, lease, pin, blind, reading>>

\* s pins the present lease of b.
Pin(s, b) ==
  /\ pin[s] = NoPin
  /\ lease[b] # 0
  /\ pin' = [pin EXCEPT ![s] = [block |-> b, lease |-> lease[b]]]
  /\ UNCHANGED <<issued, lease, ordered, whole, blind, reading>>

\* s finds that there is nothing it could wait for.
GoBlind(s) ==
  /\ pin[s] # NoPin
  /\ s \notin reading
  /\ blind' = blind \cup {s}
  /\ UNCHANGED <<issued, lease, ordered, whole, pin, reading>>

StartRead(s) ==
  /\ pin[s] # NoPin
  /\ s \notin blind /\ pin[s].block \in ordered => pin[s].block \in whole
  /\ reading' = reading \cup {s}
  /\ UNCHANGED <<issued, lease, ordered, whole, pin, blind>>

EndRead(s) ==
  /\ reading' = reading \ {s}
  /\ UNCHANGED <<issued, lease, ordered, whole, pin, blind>>

\* s lets go; its kernels are done.
Unpin(s) ==
  /\ s \notin reading
  /\ pin' = [pin EXCEPT ![s] = NoPin]
  /\ blind' = blind \ {s}
  /\ UNCHANGED <<issued, lease, ordered, whole, reading>>

\* The process of s dies, and its kernels with it.
Die(s) ==
  /\ pin' = [pin EXCEPT ![s] = NoPin]
  /\ blind' = blind \ {s}
  /\ reading' = reading \ {s}
  /\ UNCHANGED <<issued, lease, ordered, whole>>

Next ==
  \/ \E b \in Block : Grant(b) \/ Fill(b)
  \/ \E s \in Sub :
       \/ GoBlind(s) \/ StartRead(s) \/ EndRead(s) \/ Unpin(s) \/ Die(s)
       \/ \E b \in Block : Pin(s, b)

Spec == Init /\ [][Next]_leaseVars
=============================================================================
