--------------------------- MODULE CudaBufferEvents ---------------------------
(***************************************************************************)
(* The event protocol of CudaBuffer: what its read and write handles put   *)
(* on CUDA streams, when the one write handle is finalized, which events   *)
(* the destructor leaves to the BufferRecycler, and how clone and resize   *)
(* use all of it.                                                          *)
(*                                                                         *)
(* A stream is a queue of kernels, event records and waits that the GPU    *)
(* takes in order.  The write event of a buffer is recorded at most once,  *)
(* so its state is whether it was recorded and whether the record is still *)
(* in a queue.  A call is one step: what it reads of the handle state it   *)
(* reads under the state's mutex, and finalization is for ever.            *)
(*                                                                         *)
(* A buffer is one allocation from the pool (CudaBlockLifetime has imported*)
(* buffers).  A kernel is queued through a handle that is still held, and a*)
(* buffer is destroyed when no handle of it is ("must not outlive").       *)
(***************************************************************************)
EXTENDS Naturals, Sequences, SequencesExt, FiniteSets

CONSTANTS
  Buffer,      \* allocations
  Stream,      \* streams that cuda_is_stream_usable accepts
  NullStream,  \* the default stream, on which nothing is recorded or waited for
  Reader,      \* bound: read handles, each acquired once
  MaxKernel,   \* bound: kernels a behaviour queues
  NoStream, NoBuffer

ASSUME ConstantsOK ==
  /\ IsFiniteSet(Reader)
  /\ MaxKernel \in Nat
  /\ NullStream \notin Stream
  /\ NoStream \notin Stream \cup {NullStream}
  /\ NoBuffer \notin Buffer

VARIABLES
  phase,       \* [Buffer -> Phases]
  hasEvent,    \* the buffers with a write event
  state,       \* [Buffer -> States] handle_state_, "unset" as long as it is null
  writer,      \* [Buffer -> stream of its WriteHandle, if one is held]
  recorded,    \* the buffers whose write event was recorded
  readEvents,  \* [Buffer -> SUBSET Reader] read_events_
  reads,       \* [Reader -> buffer and stream of the ReadHandle, if it is held]
  handles,     \* the read handles acquired so far
  queue,       \* [AnyStream -> Seq(Op)]
  retireQ,     \* queue_ of the recycler
  kernels,     \* kernels queued so far
  unrecorded,  \* history: buffers whose write event cudaEventRecord failed to record
  unmarked     \* history: read handles that ended without a read event

vars == <<phase, hasEvent, state, writer, recorded, readEvents, reads, handles,
          queue, retireQ, kernels, unrecorded, unmarked>>

-----------------------------------------------------------------------------
AnyStream == Stream \cup {NullStream}
Phases    == {"absent", "live", "retiring", "freed"}
States    == {"unset", "in_use", "finalized"}

\* What a queue holds.  A write is "late" if its handle was already finalized, a
\* read is "early" if its handle is older than the write handle.
Kinds == {"write", "late_write", "read", "early_read", "record", "wait", "mark"}
Op == [kind : Kinds, buf : Buffer, by : Reader \cup {NoStream}]

Write(b)   == [kind |-> IF state[b] = "in_use" THEN "write" ELSE "late_write", buf |-> b, by |-> NoStream]
Record(b)  == [kind |-> "record", buf |-> b, by |-> NoStream]
Await(b)   == [kind |-> "wait", buf |-> b, by |-> NoStream]
Read(b, r) == [kind |-> "read", buf |-> b, by |-> r]
Mark(b, r) == [kind |-> "mark", buf |-> b, by |-> r]

NoHandle == [buf |-> NoBuffer, stream |-> NoStream, early |-> FALSE]
Handle == [buf : Buffer, stream : AnyStream, early : BOOLEAN]

\* Appends ops to stream s of q.
Push(q, s, ops) == [q EXCEPT ![s] = @ \o ops]

Pending(op) == \E s \in AnyStream : Contains(queue[s], op)

WriteEventDone(b) == ~Pending(Record(b))

\* Mutant: every read event is destroyed, whatever cudaEventQuery says.
ReapedAll(b) == {}

\* reap_completed_read_events: what it leaves of the read events of b.
Reaped(b) == {r \in readEvents[b] : Pending(Mark(b, r))}

\* Mutant: it does not look whether there is an event.
RecordableAlways(b) == state[b] = "in_use" /\ writer[b] \in Stream

\* finalize_write_handle_locked has something to record, and somewhere to.
Recordable(b) == state[b] = "in_use" /\ writer[b] \in Stream /\ b \in hasEvent

\* It records, if cudaEventRecord is ok (it is not on a stream of another device); if
\* not, the handle is finalized all the same.  Here on the queues, and on the event.
Records(b, ok) == Recordable(b) /\ ok
Finalized(b, ok) == IF Records(b, ok) THEN Push(queue, writer[b], <<Record(b)>>) ELSE queue
Outcome(b, ok) ==
  /\ recorded' = IF Records(b, ok) THEN recorded \cup {b} ELSE recorded
  /\ unrecorded' = IF Records(b, ~ok) THEN unrecorded \cup {b} ELSE unrecorded

\* Mutant: the write event is looked at before the write handle is finalized.
AwaitsRecorded(b, s, ok) == IF s \in Stream /\ b \in recorded THEN <<Await(b)>> ELSE <<>>

\* The wait a ReadHandle for b puts on stream s: none if the event was not recorded.
Awaits(b, s, ok) ==
  IF s \in Stream /\ b \in hasEvent /\ (b \in recorded \/ Records(b, ok)) THEN <<Await(b)>> ELSE <<>>

Free(r) == r \notin handles

-----------------------------------------------------------------------------
Init ==
  /\ phase = [b \in Buffer |-> "absent"]
  /\ hasEvent = {}
  /\ state = [b \in Buffer |-> "unset"]
  /\ writer = [b \in Buffer |-> NoStream]
  /\ recorded = {}
  /\ readEvents = [b \in Buffer |-> {}]
  /\ reads = [r \in Reader |-> NoHandle]
  /\ handles = {}
  /\ queue = [s \in AnyStream |-> <<>>]
  /\ retireQ = <<>>
  /\ kernels = 0
  /\ unrecorded = {}
  /\ unmarked = {}

\* allocate_buffer_internal: the write event may fail to be made.
Allocate(b) ==
  /\ phase[b] = "absent"
  /\ phase' = [phase EXCEPT ![b] = "live"]
  /\ hasEvent' \in {hasEvent, hasEvent \cup {b}}
  /\ UNCHANGED <<state, writer, recorded, readEvents, reads, handles, queue, retireQ, kernels, unrecorded, unmarked>>

\* get_write_handle.
GetWriteHandle(b, s) ==
  /\ phase[b] = "live"
  /\ state[b] = "unset"
  /\ Reaped(b) = {}
  /\ readEvents' = [readEvents EXCEPT ![b] = {}]
  /\ state' = [state EXCEPT ![b] = "in_use"]
  /\ writer' = [writer EXCEPT ![b] = s]
  /\ UNCHANGED <<phase, hasEvent, recorded, reads, handles, queue, retireQ, kernels, unrecorded, unmarked>>

\* It throws: a handle is in use or was, or read events exist.  It has reaped.
GetWriteHandleThrows(b) ==
  /\ phase[b] = "live"
  /\ state[b] # "unset" \/ Reaped(b) # {}
  /\ readEvents' = [readEvents EXCEPT ![b] = Reaped(b)]
  /\ UNCHANGED <<phase, hasEvent, state, writer, recorded, reads, handles, queue, retireQ, kernels, unrecorded, unmarked>>

\* finalize_write_handle, when the buffer is published.
Finalize(b) ==
  /\ phase[b] = "live"
  /\ state[b] = "in_use"
  /\ \E ok \in BOOLEAN : queue' = Finalized(b, ok) /\ Outcome(b, ok)
  /\ state' = [state EXCEPT ![b] = "finalized"]
  /\ UNCHANGED <<phase, hasEvent, writer, readEvents, reads, handles, retireQ, kernels, unmarked>>

\* get_read_handle: reap, finalize the write handle if it is in use, wait for the
\* write event on the reader's stream.
GetReadHandle(b, s, r) ==
  /\ phase[b] = "live"
  /\ Free(r)
  /\ handles' = handles \cup {r}
  /\ readEvents' = [readEvents EXCEPT ![b] = Reaped(b)]
  /\ \E ok \in BOOLEAN :
       queue' = Push(Finalized(b, ok), s, Awaits(b, s, ok)) /\ Outcome(b, ok)
  /\ state' = [state EXCEPT ![b] = IF @ = "in_use" THEN "finalized" ELSE @]
  /\ reads' = [reads EXCEPT ![r] = [buf |-> b, stream |-> s, early |-> state[b] = "unset"]]
  /\ UNCHANGED <<phase, hasEvent, writer, retireQ, kernels, unmarked>>

\* ... or cudaStreamWaitEvent fails: there is no handle, but the write is finalized.
GetReadHandleThrows(b, s) ==
  /\ phase[b] = "live"
  /\ s \in Stream /\ b \in hasEvent
  /\ readEvents' = [readEvents EXCEPT ![b] = Reaped(b)]
  /\ \E ok \in BOOLEAN : queue' = Finalized(b, ok) /\ Outcome(b, ok)
  /\ state' = [state EXCEPT ![b] = IF @ = "in_use" THEN "finalized" ELSE @]
  /\ UNCHANGED <<phase, hasEvent, writer, reads, handles, retireQ, kernels, unmarked>>

\* A kernel launched on the pointer of the write handle.
QueueWrite(b) ==
  /\ writer[b] # NoStream
  /\ kernels < MaxKernel
  /\ kernels' = kernels + 1
  /\ queue' = Push(queue, writer[b], <<Write(b)>>)
  /\ UNCHANGED <<phase, hasEvent, state, writer, recorded, readEvents, reads, handles, retireQ, unrecorded, unmarked>>

QueueRead(r) ==
  /\ reads[r] # NoHandle
  /\ kernels < MaxKernel
  /\ kernels' = kernels + 1
  /\ queue' = Push(queue, reads[r].stream,
       <<[Read(reads[r].buf, r) EXCEPT !.kind = IF reads[r].early THEN "early_read" ELSE "read"]>>)
  /\ UNCHANGED <<phase, hasEvent, state, writer, recorded, readEvents, reads, handles, retireQ, unrecorded, unmarked>>

\* WriteHandle::release.
ReleaseWrite(b) ==
  /\ writer[b] # NoStream
  /\ \E ok \in BOOLEAN : queue' = Finalized(b, ok) /\ Outcome(b, ok)
  /\ state' = [state EXCEPT ![b] = "finalized"]
  /\ writer' = [writer EXCEPT ![b] = NoStream]
  /\ UNCHANGED <<phase, hasEvent, readEvents, reads, handles, retireQ, kernels, unmarked>>

\* ReadHandle::release on a usable stream: a read event behind the kernels.
ReleaseRead(r) ==
  /\ reads[r].stream \in Stream
  /\ queue' = Push(queue, reads[r].stream, <<Mark(reads[r].buf, r)>>)
  /\ readEvents' = [readEvents EXCEPT ![reads[r].buf] = @ \cup {r}]
  /\ reads' = [reads EXCEPT ![r] = NoHandle]
  /\ UNCHANGED <<phase, hasEvent, state, writer, recorded, handles, retireQ, kernels, unrecorded, unmarked>>

\* ... or nothing: on the default stream, or if no event can be made or recorded.
ReleaseReadUnmarked(r) ==
  /\ reads[r] # NoHandle
  /\ reads' = [reads EXCEPT ![r] = NoHandle]
  /\ unmarked' = unmarked \cup {r}
  /\ UNCHANGED <<phase, hasEvent, state, writer, recorded, readEvents, handles, queue,
                 retireQ, kernels, unrecorded>>

-----------------------------------------------------------------------------
\* No handle of b is held.
Unused(b) == writer[b] = NoStream /\ \A r \in Reader : reads[r].buf # b

\* The copy of b into a new buffer c that clone and resize make on stream s, with
\* a write handle for c that ends before the read handle r for b does: each of the
\* three events may fail to be recorded.  A copy that throws half-way is what its
\* parts are on their own, down to Drop(c).
Copy(b, c, s, r) ==
  /\ phase[b] = "live" /\ phase[c] = "absent"
  /\ Free(r)
  /\ kernels < MaxKernel
  /\ kernels' = kernels + 1
  /\ handles' = handles \cup {r}
  /\ hasEvent' \in {hasEvent, hasEvent \cup {c}}
  /\ \E ok, okC, marks \in BOOLEAN :
       LET recordable == s \in Stream /\ c \in hasEvent'
           mark == s \in Stream /\ marks
           from == [Read(b, r) EXCEPT !.kind = IF state[b] = "unset" THEN "early_read" ELSE "read"]
           to   == [Write(c) EXCEPT !.kind = "write"]
       IN /\ queue' = Push(Finalized(b, ok), s,
                        Awaits(b, s, ok) \o <<from, to>>
                          \o (IF recordable /\ okC THEN <<Record(c)>> ELSE <<>>)
                          \o (IF mark THEN <<Mark(b, r)>> ELSE <<>>))
          /\ recorded' = recorded \cup
               {x \in {b, c} : IF x = b THEN Records(b, ok) ELSE recordable /\ okC}
          /\ unrecorded' = unrecorded \cup
               {x \in {b, c} : IF x = b THEN Records(b, ~ok) ELSE recordable /\ ~okC}
          /\ readEvents' = [readEvents EXCEPT ![b] = Reaped(b) \cup (IF mark THEN {r} ELSE {})]
          /\ unmarked' = IF mark THEN unmarked ELSE unmarked \cup {r}
  /\ state' = [state EXCEPT ![b] = IF @ = "in_use" THEN "finalized" ELSE @, ![c] = "finalized"]
  /\ UNCHANGED <<writer, reads>>

Clone(b, c, s, r) ==
  /\ Copy(b, c, s, r)
  /\ phase' = [phase EXCEPT ![c] = "live"]
  /\ UNCHANGED retireQ

\* resize also destroys b, whose read event may be the one of its own copy.
Resize(b, c, s, r) ==
  /\ Unused(b)
  /\ Copy(b, c, s, r)
  /\ IF b \in hasEvent \/ readEvents'[b] # {}
       THEN /\ phase' = [phase EXCEPT ![b] = "retiring", ![c] = "live"]
            /\ retireQ' = Append(retireQ, b)
       ELSE /\ phase' = [phase EXCEPT ![b] = "freed", ![c] = "live"]
            /\ UNCHANGED retireQ

\* Mutant: only the write event is looked at.
DestroyWithoutReads(b) ==
  /\ phase[b] = "live"
  /\ IF b \in hasEvent
       THEN /\ phase' = [phase EXCEPT ![b] = "retiring"]
            /\ retireQ' = Append(retireQ, b)
       ELSE /\ phase' = [phase EXCEPT ![b] = "freed"]
            /\ UNCHANGED retireQ
  /\ UNCHANGED <<hasEvent, state, writer, recorded, readEvents, reads, handles, queue,
                 kernels, unrecorded, unmarked>>

\* Mutant: the recycler has room for one entry.
DestroyOverwrites(b) ==
  /\ phase[b] = "live"
  /\ IF b \in hasEvent \/ readEvents[b] # {}
       THEN /\ phase' = [phase EXCEPT ![b] = "retiring"]
            /\ retireQ' = <<b>>
       ELSE /\ phase' = [phase EXCEPT ![b] = "freed"]
            /\ UNCHANGED retireQ
  /\ UNCHANGED <<hasEvent, state, writer, recorded, readEvents, reads, handles, queue,
                 kernels, unrecorded, unmarked>>

\* ~CudaBuffer: to the recycler with its events, if there is one.
Destroy(b) ==
  /\ phase[b] = "live"
  /\ IF b \in hasEvent \/ readEvents[b] # {}
       THEN /\ phase' = [phase EXCEPT ![b] = "retiring"]
            /\ retireQ' = Append(retireQ, b)
       ELSE /\ phase' = [phase EXCEPT ![b] = "freed"]
            /\ UNCHANGED retireQ
  /\ UNCHANGED <<hasEvent, state, writer, recorded, readEvents, reads, handles, queue,
                 kernels, unrecorded, unmarked>>

Drop(b) == Unused(b) /\ Destroy(b)

\* BufferRecycler::run: wait for the events of the oldest entry, destroy them,
\* give the memory back to the pool.
Retire ==
  /\ retireQ # <<>>
  /\ WriteEventDone(Head(retireQ))
  /\ Reaped(Head(retireQ)) = {}
  /\ phase' = [phase EXCEPT ![Head(retireQ)] = "freed"]
  /\ readEvents' = [readEvents EXCEPT ![Head(retireQ)] = {}]
  /\ retireQ' = Tail(retireQ)
  /\ UNCHANGED <<hasEvent, state, writer, recorded, reads, handles, queue, kernels, unrecorded, unmarked>>

\* The GPU is done with the first operation of stream s.
StreamStep(s) ==
  /\ queue[s] # <<>>
  /\ Head(queue[s]).kind = "wait" => WriteEventDone(Head(queue[s]).buf)
  /\ queue' = [queue EXCEPT ![s] = Tail(@)]
  /\ UNCHANGED <<phase, hasEvent, state, writer, recorded, readEvents, reads, handles,
                 retireQ, kernels, unrecorded, unmarked>>

Next ==
  \/ \E b \in Buffer :
       \/ Allocate(b) \/ GetWriteHandleThrows(b) \/ Finalize(b)
       \/ QueueWrite(b) \/ ReleaseWrite(b) \/ Drop(b)
       \/ \E s \in AnyStream :
            \/ GetWriteHandle(b, s) \/ GetReadHandleThrows(b, s)
            \/ \E r \in Reader :
                 \/ GetReadHandle(b, s, r)
                 \/ \E c \in Buffer : Clone(b, c, s, r) \/ Resize(b, c, s, r)
  \/ \E r \in Reader : QueueRead(r) \/ ReleaseRead(r) \/ ReleaseReadUnmarked(r)
  \/ \E s \in AnyStream : StreamStep(s)
  \/ Retire

Spec == Init /\ [][Next]_vars

\* The GPU and the recycler's thread go on; calls are the user's choice.
FairSpec == Spec /\ (\A s \in AnyStream : WF_vars(StreamStep(s))) /\ WF_vars(Retire)

-----------------------------------------------------------------------------
\* The kernels that are queued.
Queued(s) == {queue[s][i] : i \in DOMAIN queue[s]}
AllQueued == UNION {Queued(s) : s \in AnyStream}

\* The variables have their types; a stream holds what the handles put there.
TypeOK ==
  /\ phase \in [Buffer -> Phases]
  /\ hasEvent \in SUBSET Buffer
  /\ state \in [Buffer -> States]
  /\ writer \in [Buffer -> AnyStream \cup {NoStream}]
  /\ recorded \in SUBSET hasEvent
  /\ unrecorded \in SUBSET hasEvent
  /\ readEvents \in [Buffer -> SUBSET Reader]
  /\ reads \in [Reader -> Handle \cup {NoHandle}]
  /\ handles \in SUBSET Reader
  /\ queue \in [AnyStream -> Seq(Op)]
  /\ retireQ \in Seq(Buffer)
  /\ kernels \in 0 .. MaxKernel
  /\ unmarked \in SUBSET handles

\* The buffers whose write event, once the handle is finalized, stands for the write.
Tracked == hasEvent \ unrecorded

\* A reader sees what was written: when a read kernel is next on a usable stream,
\* every kernel that was queued through the write handle, on a usable stream and
\* before the handle was finalized, has completed, however the two streams, the
\* releases, the publication and the copies fall.  It takes a read handle that is
\* not older than the write handle, and a buffer with a write event that
\* cudaEventRecord did not fail on: the code goes on when it does.
ReadsSeeWrites ==
  \A s, t \in Stream :
    queue[s] # <<>> /\ Head(queue[s]).kind = "read" /\ Head(queue[s]).buf \in Tracked
      => ~\E op \in Queued(t) : op.kind = "write" /\ op.buf = Head(queue[s]).buf
                                  /\ (s = t => op # Head(queue[s]))

\* Memory is given back to the pool only when the GPU is done with it: no kernel
\* that a read event or the write event stands for is queued for a freed buffer.
\* Of a kernel whose event could not be made or recorded nobody knows.
FreedMemoryIsIdle ==
  \A s \in Stream : \A op \in Queued(s) :
    phase[op.buf] = "freed" =>
      /\ op.kind = "write" => op.buf \notin Tracked
      /\ op.kind \in {"read", "early_read"} => op.by \in unmarked

\* A buffer gets its write handle only when no read of it that left a read event
\* is still queued, although completed events are forgotten at every call.
NoWriteOverReads ==
  [][\A b \in Buffer : writer[b] = NoStream /\ writer'[b] # NoStream =>
       \A s \in Stream : \A op \in Queued(s) :
         op.buf = b /\ op.kind \in {"read", "early_read"} =>
           op.by \in unmarked \/ reads[op.by] # NoHandle]_vars

\* Streams never wait for one another in a circle, and the recycler gets to every
\* buffer: a destroyed buffer is given back.
DroppedIsFreed == \A b \in Buffer : phase[b] = "retiring" ~> phase[b] = "freed"
=============================================================================
