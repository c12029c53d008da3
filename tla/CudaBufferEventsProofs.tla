------------------------ MODULE CudaBufferEventsProofs ------------------------
(***************************************************************************)
(* Proofs about CudaBufferEvents, for any buffers, streams and handles.    *)
(* What carries them is where an operation stands in its stream: a write   *)
(* before the record of its buffer's event, a read behind a wait for it,   *)
(* unless there is nothing left to wait for, and a read whose handle is    *)
(* gone before its mark.                                                   *)
(***************************************************************************)
EXTENDS CudaBufferEvents, SequenceTheorems, TLAPS

\* How far the calls on a buffer have come.
BufferOK ==
  \A b \in Buffer :
    /\ phase[b] = "absent" => state[b] = "unset" /\ b \notin hasEvent
    /\ state[b] = "unset" => b \notin recorded /\ writer[b] = NoStream
    /\ state[b] = "in_use" => b \notin recorded /\ writer[b] # NoStream
    /\ writer[b] # NoStream => phase[b] = "live"
    /\ phase[b] = "freed" => readEvents[b] = {} /\ ~Pending(Record(b))

\* A buffer is in the recycler's queue once, and nothing else is there.
RetireOK ==
  /\ \A i \in 1 .. Len(retireQ) : phase[retireQ[i]] = "retiring"
  /\ \A i, j \in 1 .. Len(retireQ) : retireQ[i] = retireQ[j] => i = j

\* The write of b is over, or stream s waits for it before position n.
Ordered(b, s, n) ==
  /\ state[b] = "finalized"
  /\ ~Pending(Record(b)) \/ \E j \in 1 .. n - 1 : queue[s][j] = Await(b)

\* A read handle is of a live buffer, and what is queued through it is ordered.
HeldOK(r) ==
  reads[r] # NoHandle =>
    /\ r \in handles
    /\ phase[reads[r].buf] = "live"
    /\ ~reads[r].early /\ reads[r].stream \in Stream /\ reads[r].buf \in hasEvent =>
         Ordered(reads[r].buf, reads[r].stream, Len(queue[reads[r].stream]) + 1)

HandleOK == \A r \in Reader : HeldOK(r)

\* An operation is about a buffer that was allocated.
OpOK(s, i) == phase[queue[s][i].buf] # "absent"

\* A write stands before the record of its event, or the handle is still in use.
WriteOK(s, i) ==
  LET b == queue[s][i].buf
  IN queue[s][i].kind = "write" =>
       \/ state[b] = "in_use" /\ writer[b] = s
       \/ /\ state[b] = "finalized"
          /\ s \in Stream /\ b \in Tracked =>
               \E j \in i + 1 .. Len(queue[s]) : queue[s][j] = Record(b)

RecordOK(s, i) ==
  queue[s][i].kind = "record" => queue[s][i].buf \in recorded

ReadOK(s, i) ==
  queue[s][i].kind = "read" /\ s \in Stream /\ queue[s][i].buf \in hasEvent =>
    Ordered(queue[s][i].buf, s, i)

\* A read has left no mark, its handle is still held, or the mark stands behind it.
MarkedOK(s, i) ==
  LET r == queue[s][i].by
      b == queue[s][i].buf
  IN queue[s][i].kind \in {"read", "early_read"} /\ s \in Stream =>
       \/ r \in unmarked
       \/ r \in Reader /\ reads[r] # NoHandle /\ reads[r].buf = b /\ reads[r].stream = s
       \/ \E j \in i + 1 .. Len(queue[s]) : queue[s][j] = Mark(b, r)

\* A mark that is queued is the one of a read event that is kept.
MarkOK(s, i) ==
  queue[s][i].kind = "mark" => queue[s][i].by \in readEvents[queue[s][i].buf]

QueueOK ==
  \A s \in AnyStream : \A i \in 1 .. Len(queue[s]) :
    OpOK(s, i) /\ WriteOK(s, i) /\ RecordOK(s, i) /\ ReadOK(s, i) /\ MarkedOK(s, i) /\ MarkOK(s, i)

IInv ==
  /\ TypeOK
  /\ BufferOK
  /\ RetireOK
  /\ HandleOK
  /\ QueueOK
-----------------------------------------------------------------------------
Queues == [AnyStream -> Seq(Op)]

\* q with nothing changed and perhaps something added at the ends is p.
Grown(q, p) ==
  \A t \in AnyStream :
    /\ Len(p[t]) \in Nat /\ Len(q[t]) \in Nat /\ Len(q[t]) <= Len(p[t])
    /\ \A i \in 1 .. Len(q[t]) : p[t][i] = q[t][i]

\* What Push does, operation by operation.
LEMMA PushFacts ==
  ASSUME NEW q \in Queues, NEW s \in AnyStream, NEW ops \in Seq(Op)
  PROVE  /\ Push(q, s, ops) \in Queues
         /\ Grown(q, Push(q, s, ops))
         /\ \A t \in AnyStream : t # s => Push(q, s, ops)[t] = q[t]
         /\ Len(Push(q, s, ops)[s]) = Len(q[s]) + Len(ops)
         /\ \A i \in 1 .. Len(ops) : Push(q, s, ops)[s][Len(q[s]) + i] = ops[i]
<1> DEFINE p == Push(q, s, ops)
<1>1. q[s] \in Seq(Op) /\ p[s] = q[s] \o ops /\ \A t \in AnyStream : t # s => p[t] = q[t]
  BY DEF Push, Queues
<1>2. /\ q[s] \o ops \in Seq(Op)
      /\ Len(q[s] \o ops) = Len(q[s]) + Len(ops)
      /\ \A i \in 1 .. Len(q[s]) + Len(ops) :
           (q[s] \o ops)[i] = IF i <= Len(q[s]) THEN q[s][i] ELSE ops[i - Len(q[s])]
  BY <1>1, ConcatProperties
<1>3. Len(q[s]) \in Nat /\ Len(ops) \in Nat /\ \A t \in AnyStream : Len(q[t]) \in Nat
  BY LenProperties DEF Queues
<1>4. p \in Queues
  BY <1>1, <1>2 DEF Push, Queues
<1>5. Grown(q, p)
  <2> SUFFICES ASSUME NEW t \in AnyStream
               PROVE  /\ Len(p[t]) \in Nat /\ Len(q[t]) \in Nat /\ Len(q[t]) <= Len(p[t])
                      /\ \A i \in 1 .. Len(q[t]) : p[t][i] = q[t][i]
    BY DEF Grown
  <2>1. CASE t = s
    BY <2>1, <1>1, <1>2, <1>3
  <2>2. CASE t # s
    BY <2>2, <1>1, <1>3
  <2> QED
    BY <2>1, <2>2
<1>6. \A i \in 1 .. Len(ops) : p[s][Len(q[s]) + i] = ops[i]
  BY <1>1, <1>2, <1>3
<1> QED
  BY <1>1, <1>2, <1>4, <1>5, <1>6

LEMMA GrownTwice ==
  ASSUME NEW q, NEW p, NEW o, Grown(q, p), Grown(p, o)
  PROVE  Grown(q, o)
<1> QED
  BY DEF Grown

LEMMA PushOne ==
  ASSUME NEW q \in Queues, NEW s \in AnyStream, NEW op \in Op
  PROVE  /\ Push(q, s, <<op>>) \in Queues
         /\ Grown(q, Push(q, s, <<op>>))
         /\ \A t \in AnyStream : t # s => Push(q, s, <<op>>)[t] = q[t]
         /\ Len(Push(q, s, <<op>>)[s]) = Len(q[s]) + 1
         /\ Push(q, s, <<op>>)[s][Len(q[s]) + 1] = op
         /\ \A t \in AnyStream : \A i \in Len(q[t]) + 1 .. Len(Push(q, s, <<op>>)[t]) :
              t = s /\ i = Len(q[s]) + 1 /\ Push(q, s, <<op>>)[t][i] = op
<1> DEFINE ops == <<op>>
<1>1. ops \in Seq(Op) /\ Len(ops) = 1 /\ ops[1] = op
  OBVIOUS
<1> HIDE DEF ops
<1>2. /\ Push(q, s, ops) \in Queues
      /\ Grown(q, Push(q, s, ops))
      /\ \A t \in AnyStream : t # s => Push(q, s, ops)[t] = q[t]
      /\ Len(Push(q, s, ops)[s]) = Len(q[s]) + Len(ops)
      /\ \A i \in 1 .. Len(ops) : Push(q, s, ops)[s][Len(q[s]) + i] = ops[i]
  BY <1>1, PushFacts
<1>3. /\ Len(Push(q, s, ops)[s]) = Len(q[s]) + 1
      /\ Push(q, s, ops)[s][Len(q[s]) + 1] = op
  BY <1>1, <1>2
<1>4. Len(q[s]) \in Nat
  BY LenProperties DEF Queues
<1>5. \A t \in AnyStream : \A i \in Len(q[t]) + 1 .. Len(Push(q, s, ops)[t]) :
        t = s /\ i = Len(q[s]) + 1 /\ Push(q, s, ops)[t][i] = op
  BY <1>2, <1>3, <1>4 DEF Grown
<1> QED
  BY <1>2, <1>3, <1>5 DEF ops

\* What finalize_write_handle_locked puts on a stream: the record, or nothing.
LEMMA FinalizedFacts ==
  ASSUME TypeOK, NEW b \in Buffer, NEW ok \in BOOLEAN
  PROVE  /\ Finalized(b, ok) \in Queues
         /\ Grown(queue, Finalized(b, ok))
         /\ Records(b, ok) => Finalized(b, ok)[writer[b]][Len(queue[writer[b]]) + 1] = Record(b)
                            /\ Len(Finalized(b, ok)[writer[b]]) = Len(queue[writer[b]]) + 1
                            /\ writer[b] \in Stream
         /\ \A t \in AnyStream : \A i \in Len(queue[t]) + 1 .. Len(Finalized(b, ok)[t]) :
              Records(b, ok) /\ t = writer[b] /\ i = Len(queue[t]) + 1 /\ Finalized(b, ok)[t][i] = Record(b)
<1>1. queue \in Queues
  BY DEF TypeOK, Queues
<1>2. CASE ~Records(b, ok)
  <2>1. Grown(queue, queue)
    BY <1>1, LenProperties DEF Grown, Queues
  <2>2. \A t \in AnyStream : Len(queue[t]) \in Nat
    BY <1>1, LenProperties DEF Queues
  <2> QED
    BY <1>1, <1>2, <2>1, <2>2 DEF Finalized
<1>3. CASE Records(b, ok)
  <2>1. writer[b] \in AnyStream /\ writer[b] \in Stream
    BY <1>3 DEF Records, Recordable, AnyStream
  <2>2. Record(b) \in Op
    BY DEF Record, Op, Kinds
  <2>3. Finalized(b, ok) = Push(queue, writer[b], <<Record(b)>>)
    BY <1>3 DEF Finalized
  <2> QED
    BY <1>1, <1>3, <2>1, <2>2, <2>3, PushOne
<1> QED
  BY <1>2, <1>3

LEMMA PushNone ==
  ASSUME NEW q \in Queues, NEW s \in AnyStream
  PROVE  Push(q, s, <<>>) = q
<1> QED
  BY ConcatEmptySeq DEF Push, Queues

-----------------------------------------------------------------------------
\* A step that adds to streams, or leaves them, and takes nothing back of what the
\* invariant says of the operations that are there.
Extends ==
  /\ Grown(queue, queue')
  /\ recorded \subseteq recorded' /\ unrecorded \subseteq unrecorded' /\ unmarked \subseteq unmarked'
  /\ \A b \in Buffer :
       /\ phase[b] # "absent" => phase'[b] # "absent" /\ (b \in hasEvent' <=> b \in hasEvent)
       /\ state[b] = "finalized" => state'[b] = "finalized"
       /\ state[b] = "in_use" =>
            \/ state'[b] = "in_use" /\ writer'[b] = writer[b]
            \/ /\ state'[b] = "finalized"
               /\ writer[b] \in Stream /\ b \in Tracked' =>
                    \E j \in Len(queue[writer[b]]) + 1 .. Len(queue'[writer[b]]) :
                      queue'[writer[b]][j] = Record(b)
       /\ phase[b] # "absent" /\ state[b] # "in_use" /\ ~Pending(Record(b)) => ~Pending(Record(b))'
       /\ \A r \in readEvents[b] : r \in readEvents'[b] \/ ~Pending(Mark(b, r))
  /\ \A r \in Reader : reads[r] # NoHandle =>
       \/ reads'[r] = reads[r]
       \/ r \in unmarked'
       \/ \E j \in Len(queue[reads[r].stream]) + 1 .. Len(queue'[reads[r].stream]) :
            queue'[reads[r].stream][j] = Mark(reads[r].buf, r)

\* What was ordered still is.
LEMMA OrderedStays ==
  ASSUME Extends, NEW b \in Buffer, NEW s \in AnyStream, NEW n \in 1 .. Len(queue[s]) + 1,
         Ordered(b, s, n), phase[b] # "absent"
  PROVE  Ordered(b, s, n)'
<1>1. state'[b] = "finalized" /\ (~Pending(Record(b)) => ~Pending(Record(b))')
  BY DEF Extends, Ordered
<1>2. \A j \in 1 .. n - 1 : queue'[s][j] = queue[s][j] /\ Len(queue[s]) \in Nat
  BY DEF Extends, Grown
<1>3. Await(b)' = Await(b)
  BY DEF Await
<1> QED
  BY <1>1, <1>2, <1>3 DEF Ordered

\* The operations that were there are still all right.
LEMMA OldOps ==
  ASSUME IInv, Extends, NEW s \in AnyStream, NEW i \in 1 .. Len(queue[s])
  PROVE  (OpOK(s, i) /\ WriteOK(s, i) /\ RecordOK(s, i) /\ ReadOK(s, i) /\ MarkedOK(s, i)
            /\ MarkOK(s, i))'
<1> DEFINE op == queue[s][i]
<1>1. /\ Len(queue[s]) \in Nat /\ Len(queue'[s]) \in Nat /\ Len(queue[s]) <= Len(queue'[s])
      /\ \A j \in 1 .. Len(queue[s]) : queue'[s][j] = queue[s][j]
  BY DEF Extends, Grown
<1>2. op \in Op /\ op.buf \in Buffer /\ queue'[s][i] = op
  <2>1. queue[s] \in Seq(Op)
    BY DEF IInv, TypeOK
  <2>2. op \in Op
    BY <2>1, ElementOfSeq
  <2> QED
    BY <1>1, <2>2 DEF Op
<1>3. OpOK(s, i) /\ WriteOK(s, i) /\ RecordOK(s, i) /\ ReadOK(s, i) /\ MarkedOK(s, i) /\ MarkOK(s, i)
  BY DEF IInv, QueueOK
<1>4. \A j \in i + 1 .. Len(queue[s]) : j \in i + 1 .. Len(queue'[s]) /\ queue'[s][j] = queue[s][j]
  BY <1>1
<1>5. \A j \in Len(queue[s]) + 1 .. Len(queue'[s]) : j \in i + 1 .. Len(queue'[s])
  BY <1>1
<1>6. OpOK(s, i)'
  BY <1>2, <1>3 DEF OpOK, Extends
<1>7. WriteOK(s, i)'
  <2> SUFFICES ASSUME op.kind = "write"
               PROVE  \/ state'[op.buf] = "in_use" /\ writer'[op.buf] = s
                      \/ /\ state'[op.buf] = "finalized"
                         /\ s \in Stream /\ op.buf \in Tracked' =>
                              \E j \in i + 1 .. Len(queue'[s]) : queue'[s][j] = Record(op.buf)
    BY <1>2 DEF WriteOK, Record
  <2>1. op.buf \in Tracked' => op.buf \in Tracked
    BY <1>2, <1>3 DEF OpOK, Extends, Tracked
  <2>2. CASE state[op.buf] = "in_use" /\ writer[op.buf] = s
    BY <2>1, <2>2, <1>2, <1>5 DEF Extends
  <2>3. CASE state[op.buf] = "finalized" /\ (s \in Stream /\ op.buf \in Tracked =>
                \E j \in i + 1 .. Len(queue[s]) : queue[s][j] = Record(op.buf))
    BY <2>1, <2>3, <1>2, <1>4 DEF Extends
  <2> QED
    BY <2>2, <2>3, <1>3 DEF WriteOK
<1>8. RecordOK(s, i)'
  BY <1>2, <1>3 DEF RecordOK, Extends
<1>9. ReadOK(s, i)'
  <2> SUFFICES ASSUME op.kind = "read", s \in Stream, op.buf \in hasEvent'
               PROVE  Ordered(op.buf, s, i)'
    BY <1>2 DEF ReadOK
  <2>1. op.buf \in hasEvent /\ phase[op.buf] # "absent"
    BY <1>2, <1>3 DEF OpOK, Extends
  <2> QED
    BY <2>1, <1>1, <1>2, <1>3, OrderedStays DEF ReadOK
<1>10. MarkedOK(s, i)'
  <2> SUFFICES ASSUME op.kind \in {"read", "early_read"}, s \in Stream
               PROVE  \/ op.by \in unmarked'
                      \/ /\ op.by \in Reader /\ reads'[op.by] # NoHandle
                         /\ reads'[op.by].buf = op.buf /\ reads'[op.by].stream = s
                      \/ \E j \in i + 1 .. Len(queue'[s]) : queue'[s][j] = Mark(op.buf, op.by)
    BY <1>2 DEF MarkedOK, Mark
  <2>1. CASE op.by \in unmarked
    BY <2>1 DEF Extends
  <2>2. CASE /\ op.by \in Reader /\ reads[op.by] # NoHandle
             /\ reads[op.by].buf = op.buf /\ reads[op.by].stream = s
    BY <2>2, <1>5 DEF Extends
  <2>3. CASE \E j \in i + 1 .. Len(queue[s]) : queue[s][j] = Mark(op.buf, op.by)
    BY <2>3, <1>4
  <2> QED
    BY <2>1, <2>2, <2>3, <1>3 DEF MarkedOK
<1>11. MarkOK(s, i)'
  <2> SUFFICES ASSUME op.kind = "mark"
               PROVE  op.by \in readEvents'[op.buf]
    BY <1>2 DEF MarkOK
  <2>1. op = Mark(op.buf, op.by)
    BY <1>2 DEF Mark, Op
  <2>2. Pending(Mark(op.buf, op.by))
    BY <2>1 DEF Pending, Contains
  <2> QED
    BY <2>2, <1>2, <1>3 DEF MarkOK, Extends
<1> QED
  BY <1>6, <1>7, <1>8, <1>9, <1>10, <1>11

\* It remains to look at what a step adds.
NewOpsOK ==
  \A s \in AnyStream : \A i \in Len(queue[s]) + 1 .. Len(queue'[s]) :
    (OpOK(s, i) /\ WriteOK(s, i) /\ RecordOK(s, i) /\ ReadOK(s, i) /\ MarkedOK(s, i) /\ MarkOK(s, i))'

LEMMA QueueOKStep ==
  ASSUME IInv, Extends, NewOpsOK
  PROVE  QueueOK'
<1> SUFFICES ASSUME NEW s \in AnyStream, NEW i \in 1 .. Len(queue'[s])
             PROVE  (OpOK(s, i) /\ WriteOK(s, i) /\ RecordOK(s, i) /\ ReadOK(s, i)
                       /\ MarkedOK(s, i) /\ MarkOK(s, i))'
  BY DEF QueueOK, AnyStream
<1>1. Len(queue[s]) \in Nat /\ Len(queue'[s]) \in Nat
  BY DEF Extends, Grown
<1>2. CASE i \in 1 .. Len(queue[s])
  BY <1>2, OldOps
<1>3. CASE i \notin 1 .. Len(queue[s])
  <2>1. i \in Len(queue[s]) + 1 .. Len(queue'[s])
    BY <1>1, <1>3
  <2> QED
    BY <2>1 DEF NewOpsOK
<1> QED
  BY <1>2, <1>3

\* What a step does not add waits in a queue exactly if it did.
LEMMA NothingElsePends ==
  ASSUME NEW K, Grown(queue, queue'),
         \A t \in AnyStream : \A i \in Len(queue[t]) + 1 .. Len(queue'[t]) : queue'[t][i].kind \in K
  PROVE  \A o : o.kind \notin K => (Pending(o)' <=> Pending(o))
<1> SUFFICES ASSUME NEW o, o.kind \notin K
             PROVE  (\E t \in AnyStream : \E i \in 1 .. Len(queue'[t]) : queue'[t][i] = o)
                      <=> (\E t \in AnyStream : \E i \in 1 .. Len(queue[t]) : queue[t][i] = o)
  BY DEF Pending, Contains, AnyStream
<1>1. \A t \in AnyStream : \A i \in 1 .. Len(queue'[t]) :
        queue'[t][i] = o => i \in 1 .. Len(queue[t])
  <2> SUFFICES ASSUME NEW t \in AnyStream, NEW i \in 1 .. Len(queue'[t]), queue'[t][i] = o,
                      i \notin 1 .. Len(queue[t])
               PROVE  FALSE
    OBVIOUS
  <2>1. i \in Len(queue[t]) + 1 .. Len(queue'[t])
    BY DEF Grown
  <2> QED
    BY <2>1
<1>2. \A t \in AnyStream : \A i \in 1 .. Len(queue[t]) :
        i \in 1 .. Len(queue'[t]) /\ queue'[t][i] = queue[t][i]
  BY DEF Grown
<1> QED
  BY <1>1, <1>2

\* A step that leaves the streams alone.
LEMMA NothingQueued ==
  ASSUME TypeOK, queue' = queue
  PROVE  /\ Grown(queue, queue') /\ NewOpsOK
         /\ \A op : Pending(op)' <=> Pending(op)
<1>1. \A s \in AnyStream : Len(queue[s]) \in Nat
  BY LenProperties DEF TypeOK
<1> QED
  BY <1>1 DEF Grown, NewOpsOK, Pending, Contains

\* What remains to be seen of a step that finalizes the write handle of b if it is in use
\* and puts more on streams: that every other record it queues is of a new buffer.
LEMMA Finalizing ==
  ASSUME IInv, NEW b \in Buffer, NEW ok \in BOOLEAN, Grown(Finalized(b, ok), queue'),
         state'[b] = (IF state[b] = "in_use" THEN "finalized" ELSE state[b]),
         \A t \in AnyStream : \A i \in Len(Finalized(b, ok)[t]) + 1 .. Len(queue'[t]) :
           queue'[t][i].kind = "record" => phase[queue'[t][i].buf] = "absent"
  PROVE  /\ Grown(queue, queue')
         /\ Records(b, ok) =>
               \E j \in Len(queue[writer[b]]) + 1 .. Len(queue'[writer[b]]) :
                 queue'[writer[b]][j] = Record(b)
         /\ \A c \in Buffer :
              phase[c] # "absent" /\ state[c] # "in_use" /\ ~Pending(Record(c)) => ~Pending(Record(c))'
<1>1. /\ Finalized(b, ok) \in Queues /\ Grown(queue, Finalized(b, ok))
      /\ Records(b, ok) => Finalized(b, ok)[writer[b]][Len(queue[writer[b]]) + 1] = Record(b)
                         /\ Len(Finalized(b, ok)[writer[b]]) = Len(queue[writer[b]]) + 1
                         /\ writer[b] \in Stream
      /\ \A t \in AnyStream : \A i \in Len(queue[t]) + 1 .. Len(Finalized(b, ok)[t]) :
           Records(b, ok) /\ t = writer[b] /\ i = Len(queue[t]) + 1 /\ Finalized(b, ok)[t][i] = Record(b)
  BY FinalizedFacts DEF IInv
<1>2. Grown(queue, queue')
  BY <1>1, GrownTwice
<1>3. ASSUME Records(b, ok)
      PROVE  \E j \in Len(queue[writer[b]]) + 1 .. Len(queue'[writer[b]]) :
               queue'[writer[b]][j] = Record(b)
  <2>1. writer[b] \in AnyStream
    BY <1>3 DEF Records, Recordable, AnyStream
  <2> QED
    BY <2>1, <1>1, <1>2, <1>3 DEF Grown
<1>4. ASSUME NEW c \in Buffer, phase[c] # "absent", state[c] # "in_use", ~Pending(Record(c)), Pending(Record(c))'
      PROVE  FALSE
  <2>1. PICK t \in AnyStream : \E i \in 1 .. Len(queue'[t]) : queue'[t][i] = Record(c)
    BY <1>4 DEF Pending, Contains, Record, AnyStream
  <2>2. PICK i \in 1 .. Len(queue'[t]) : queue'[t][i] = Record(c)
    BY <2>1
  <2>3. Record(c).kind = "record" /\ Record(c).buf = c
    BY DEF Record
  <2>4. i \notin 1 .. Len(queue[t])
    BY <1>2, <1>4, <2>2 DEF Grown, Pending, Contains
  <2>5. CASE i \in 1 .. Len(Finalized(b, ok)[t])
    <3>1. i \in Len(queue[t]) + 1 .. Len(Finalized(b, ok)[t])
      BY <2>4, <2>5, <1>1 DEF Grown
    <3>2. Records(b, ok) /\ queue'[t][i] = Record(b)
      BY <3>1, <2>5, <1>1 DEF Grown
    <3>3. b = c
      BY <3>2, <2>2 DEF Record
    <3> QED
      BY <3>2, <3>3, <1>4 DEF Records, Recordable
  <2>6. CASE i \notin 1 .. Len(Finalized(b, ok)[t])
    <3>1. i \in Len(Finalized(b, ok)[t]) + 1 .. Len(queue'[t])
      BY <2>6, <1>1 DEF Grown
    <3> QED
      BY <3>1, <2>2, <2>3, <1>4
  <2> QED
    BY <2>5, <2>6
<1> QED
  BY <1>2, <1>3, <1>4

-----------------------------------------------------------------------------
LEMMA AllocateStep ==
  ASSUME IInv, NEW b \in Buffer, Allocate(b)
  PROVE  BufferOK' /\ RetireOK' /\ HandleOK' /\ Extends /\ NewOpsOK
<1> USE DEF IInv, Allocate
<1>1. Grown(queue, queue') /\ NewOpsOK /\ \A op : Pending(op)' <=> Pending(op)
  BY NothingQueued
<1>2. /\ phase[b] = "absent" /\ phase' = [phase EXCEPT ![b] = "live"]
      /\ \A c \in Buffer : c # b => phase'[c] = phase[c] /\ (c \in hasEvent' <=> c \in hasEvent)
      /\ phase'[b] = "live"
  BY DEF TypeOK
<1>3. Extends
  BY <1>1, <1>2 DEF Extends
<1>4. BufferOK'
  BY <1>1, <1>2 DEF BufferOK, Record
<1>5. RetireOK'
  BY <1>2 DEF RetireOK, TypeOK
<1>6. HandleOK'
  BY <1>1, <1>2 DEF HandleOK, HeldOK, Ordered, Await, Record
<1> QED
  BY <1>1, <1>3, <1>4, <1>5, <1>6

LEMMA GetWriteHandleStep ==
  ASSUME IInv, NEW b \in Buffer, NEW s \in AnyStream, GetWriteHandle(b, s)
  PROVE  BufferOK' /\ RetireOK' /\ HandleOK' /\ Extends /\ NewOpsOK
<1> USE DEF IInv, GetWriteHandle
<1>1. Grown(queue, queue') /\ NewOpsOK /\ \A op : Pending(op)' <=> Pending(op)
  BY NothingQueued
<1>2. /\ \A c \in Buffer : c # b => /\ state'[c] = state[c] /\ writer'[c] = writer[c]
                                   /\ readEvents'[c] = readEvents[c]
      /\ state'[b] = "in_use" /\ writer'[b] = s /\ readEvents'[b] = {}
  BY DEF TypeOK
<1>3. s # NoStream
  BY ConstantsOK DEF ConstantsOK, AnyStream
<1>4. \A r \in readEvents[b] : ~Pending(Mark(b, r))
  BY DEF Reaped
<1>5. Extends
  BY <1>1, <1>2, <1>4 DEF Extends
<1>6. BufferOK'
  BY <1>1, <1>2, <1>3 DEF BufferOK, Record
<1>7. RetireOK'
  BY DEF RetireOK
<1>8. HandleOK'
  BY <1>1, <1>2 DEF HandleOK, HeldOK, Ordered, Await, Record
<1> QED
  BY <1>1, <1>5, <1>6, <1>7, <1>8

LEMMA GetWriteHandleThrowsStep ==
  ASSUME IInv, NEW b \in Buffer, GetWriteHandleThrows(b)
  PROVE  BufferOK' /\ RetireOK' /\ HandleOK' /\ Extends /\ NewOpsOK
<1> USE DEF IInv, GetWriteHandleThrows
<1>1. Grown(queue, queue') /\ NewOpsOK /\ \A op : Pending(op)' <=> Pending(op)
  BY NothingQueued
<1>2. \A c \in Buffer : c # b => readEvents'[c] = readEvents[c]
  BY DEF TypeOK
<1>3. readEvents'[b] = Reaped(b)
  BY DEF TypeOK
<1>4. Extends
  BY <1>1, <1>2, <1>3 DEF Extends, Reaped
<1>5. BufferOK'
  BY <1>1, <1>2 DEF BufferOK, Record
<1>6. RetireOK' /\ HandleOK'
  BY <1>1 DEF RetireOK, HandleOK, HeldOK, Ordered, Await, Record
<1> QED
  BY <1>1, <1>4, <1>5, <1>6

LEMMA ReleaseReadUnmarkedStep ==
  ASSUME IInv, NEW r \in Reader, ReleaseReadUnmarked(r)
  PROVE  BufferOK' /\ RetireOK' /\ HandleOK' /\ Extends /\ NewOpsOK
<1> USE DEF IInv, ReleaseReadUnmarked
<1>1. Grown(queue, queue') /\ NewOpsOK /\ \A op : Pending(op)' <=> Pending(op)
  BY NothingQueued
<1>2. reads'[r] = NoHandle /\ \A q \in Reader : q # r => reads'[q] = reads[q]
  BY DEF TypeOK
<1>3. Extends
  BY <1>1, <1>2 DEF Extends
<1>4. BufferOK' /\ RetireOK'
  BY <1>1 DEF BufferOK, RetireOK, Record
<1>5. HandleOK'
  BY <1>1, <1>2 DEF HandleOK, HeldOK, Ordered, Await, Record
<1> QED
  BY <1>1, <1>3, <1>4, <1>5

\* A buffer that goes has no handle any more, so it is in use by none.
LEMMA DropStep ==
  ASSUME IInv, NEW b \in Buffer, Drop(b)
  PROVE  BufferOK' /\ RetireOK' /\ HandleOK' /\ Extends /\ NewOpsOK
<1> USE DEF IInv, Drop, Destroy, Unused
<1>1. Grown(queue, queue') /\ NewOpsOK /\ \A op : Pending(op)' <=> Pending(op)
  BY NothingQueued
<1>2. /\ phase[b] = "live" /\ phase'[b] \in {"retiring", "freed"}
      /\ \A c \in Buffer : c # b => phase'[c] = phase[c]
  BY DEF TypeOK
<1>3. Extends
  BY <1>1, <1>2 DEF Extends
<1>4. BufferOK'
  <2>1. phase'[b] = "freed" => b \notin hasEvent /\ readEvents[b] = {}
    BY DEF TypeOK
  <2>2. b \notin hasEvent => ~Pending(Record(b))
    <3> SUFFICES ASSUME NEW t \in AnyStream, NEW i \in 1 .. Len(queue[t]), queue[t][i] = Record(b)
                 PROVE  b \in hasEvent
      BY DEF Pending, Contains
    <3>1. RecordOK(t, i)
      BY DEF QueueOK
    <3>2. recorded \subseteq hasEvent
      BY DEF TypeOK
    <3> QED
      BY <3>1, <3>2 DEF RecordOK, Record
  <2> QED
    BY <1>1, <1>2, <2>1, <2>2 DEF BufferOK, Record
<1>5. RetireOK'
  <2>1. \A i \in 1 .. Len(retireQ) : retireQ[i] # b /\ retireQ[i] \in Buffer
    BY <1>2, ElementOfSeq DEF RetireOK, TypeOK
  <2>2. CASE retireQ' = retireQ
    BY <1>2, <2>1, <2>2 DEF RetireOK
  <2>3. CASE retireQ' = Append(retireQ, b) /\ phase'[b] = "retiring"
    <3>1. /\ Len(retireQ) \in Nat /\ Len(retireQ') = Len(retireQ) + 1
          /\ retireQ'[Len(retireQ) + 1] = b
          /\ \A i \in 1 .. Len(retireQ) : retireQ'[i] = retireQ[i]
      BY <2>3, AppendProperties, LenProperties DEF TypeOK
    <3> QED
      BY <1>2, <2>1, <2>3, <3>1 DEF RetireOK
  <2> QED
    BY <2>2, <2>3 DEF TypeOK
<1>6. HandleOK'
  BY <1>1, <1>2 DEF HandleOK, HeldOK, Ordered, Await, Record, TypeOK, Handle
<1> QED
  BY <1>1, <1>3, <1>4, <1>5, <1>6

LEMMA RetireStep ==
  ASSUME IInv, Retire
  PROVE  BufferOK' /\ RetireOK' /\ HandleOK' /\ Extends /\ NewOpsOK
<1> DEFINE b == Head(retireQ)
<1> USE DEF IInv, Retire
<1>1. Grown(queue, queue') /\ NewOpsOK /\ \A op : Pending(op)' <=> Pending(op)
  BY NothingQueued
<1>2. /\ b \in Buffer /\ b = retireQ[1] /\ Len(retireQ) \in Nat \ {0}
      /\ Len(retireQ') = Len(retireQ) - 1
      /\ \A i \in 1 .. Len(retireQ') : retireQ'[i] = retireQ[i + 1]
  BY HeadTailProperties, EmptySeq DEF TypeOK
<1>3. phase[b] = "retiring"
  BY <1>2 DEF RetireOK
<1>4. /\ phase'[b] = "freed" /\ readEvents'[b] = {}
      /\ \A c \in Buffer : c # b => phase'[c] = phase[c] /\ readEvents'[c] = readEvents[c]
  BY <1>2 DEF TypeOK
<1>5. \A r \in readEvents[b] : ~Pending(Mark(b, r))
  BY DEF Reaped
<1>6. Extends
  BY <1>1, <1>2, <1>3, <1>4, <1>5 DEF Extends
<1>7. BufferOK'
  BY <1>1, <1>2, <1>3, <1>4 DEF BufferOK, Record, WriteEventDone
<1>8. RetireOK'
  <2>1. \A i \in 1 .. Len(retireQ) : retireQ[i] \in Buffer /\ (i # 1 => retireQ[i] # b)
    BY <1>2, ElementOfSeq DEF RetireOK, TypeOK
  <2> QED
    BY <1>2, <1>4, <2>1 DEF RetireOK
<1>9. HandleOK'
  BY <1>1, <1>2, <1>3, <1>4 DEF HandleOK, HeldOK, Ordered, Await, Record, TypeOK, Handle
<1> QED
  BY <1>1, <1>6, <1>7, <1>8, <1>9

LEMMA GrownSelf ==
  ASSUME NEW q \in Queues
  PROVE  Grown(q, q)
<1> QED
  BY LenProperties DEF Grown, Queues

\* A handle that is held, and whose buffer lives on, is still all right.
LEMMA HeldStays ==
  ASSUME IInv, Extends, NEW r \in Reader, reads'[r] = reads[r], handles \subseteq handles',
         reads[r] # NoHandle => phase'[reads[r].buf] = "live"
  PROVE  HeldOK(r)'
<1> SUFFICES ASSUME reads[r] # NoHandle
             PROVE  HeldOK(r)'
  BY DEF HeldOK, NoHandle
<1> DEFINE b == reads[r].buf
<1> DEFINE s == reads[r].stream
<1>1. b \in Buffer /\ s \in AnyStream
  BY DEF IInv, TypeOK, Handle
<1>2. r \in handles' /\ phase[b] = "live" /\ phase'[b] = "live"
  BY DEF IInv, HandleOK, HeldOK
<1>3. b \in hasEvent' <=> b \in hasEvent
  BY <1>1, <1>2 DEF Extends
<1>4. Len(queue[s]) \in Nat /\ Len(queue'[s]) \in Nat /\ Len(queue[s]) <= Len(queue'[s])
  BY <1>1 DEF Extends, Grown
<1>5. ASSUME ~reads[r].early, s \in Stream, b \in hasEvent
      PROVE  Ordered(b, s, Len(queue[s]) + 1)'
  <2>1. Ordered(b, s, Len(queue[s]) + 1)
    BY <1>5 DEF IInv, HandleOK, HeldOK
  <2>2. state'[b] = "finalized" /\ (~Pending(Record(b)) => ~Pending(Record(b))')
    BY <2>1, <1>1, <1>2 DEF Extends, Ordered
  <2>3. \A j \in 1 .. Len(queue[s]) : j \in 1 .. Len(queue'[s]) /\ queue'[s][j] = queue[s][j]
    BY <1>1, <1>4 DEF Extends, Grown
  <2>4. ~Pending(Record(b)) \/ \E j \in 1 .. Len(queue[s]) : queue[s][j] = Await(b)
    BY <2>1, <1>4 DEF Ordered
  <2>5. ~Pending(Record(b))' \/ \E j \in 1 .. Len(queue'[s]) : queue'[s][j] = Await(b)
    BY <2>2, <2>3, <2>4
  <2> QED
    BY <2>2, <2>5, <1>4 DEF Ordered, Await
<1> QED
  BY <1>2, <1>3, <1>5 DEF HeldOK

\* A new record, or a wait, or a mark, is all right if its buffer says so.
LEMMA NewRecord ==
  ASSUME NEW s, NEW i, NEW b \in Buffer, queue'[s][i] = Record(b), phase'[b] # "absent", b \in recorded'
  PROVE  (OpOK(s, i) /\ WriteOK(s, i) /\ RecordOK(s, i) /\ ReadOK(s, i) /\ MarkedOK(s, i)
            /\ MarkOK(s, i))'
<1> QED
  BY DEF Record, OpOK, WriteOK, RecordOK, ReadOK, MarkedOK, MarkOK

LEMMA NewAwait ==
  ASSUME NEW s, NEW i, NEW b \in Buffer, queue'[s][i] = Await(b), phase'[b] # "absent"
  PROVE  (OpOK(s, i) /\ WriteOK(s, i) /\ RecordOK(s, i) /\ ReadOK(s, i) /\ MarkedOK(s, i)
            /\ MarkOK(s, i))'
<1> QED
  BY DEF Await, OpOK, WriteOK, RecordOK, ReadOK, MarkedOK, MarkOK

LEMMA NewMark ==
  ASSUME NEW s, NEW i, NEW b \in Buffer, NEW r, queue'[s][i] = Mark(b, r), phase'[b] # "absent",
         r \in readEvents'[b]
  PROVE  (OpOK(s, i) /\ WriteOK(s, i) /\ RecordOK(s, i) /\ ReadOK(s, i) /\ MarkedOK(s, i)
            /\ MarkOK(s, i))'
<1> QED
  BY DEF Mark, OpOK, WriteOK, RecordOK, ReadOK, MarkedOK, MarkOK

LEMMA FinalizeStep ==
  ASSUME IInv, NEW b \in Buffer, Finalize(b) \/ ReleaseWrite(b)
  PROVE  BufferOK' /\ RetireOK' /\ HandleOK' /\ Extends /\ NewOpsOK
<1> USE DEF IInv, Finalize, ReleaseWrite
<1>0. PICK ok \in BOOLEAN : queue' = Finalized(b, ok) /\ Outcome(b, ok)
  OBVIOUS
<1>1. /\ queue' = Finalized(b, ok) /\ phase[b] = "live" /\ phase' = phase /\ reads' = reads
      /\ hasEvent' = hasEvent /\ readEvents' = readEvents /\ handles' = handles
      /\ retireQ' = retireQ /\ unmarked' = unmarked
      /\ recorded' = IF Records(b, ok) THEN recorded \cup {b} ELSE recorded
      /\ unrecorded' = IF Records(b, ~ok) THEN unrecorded \cup {b} ELSE unrecorded
  BY <1>0 DEF BufferOK, Outcome
<1>2. /\ state'[b] = "finalized" /\ state[b] # "unset"
      /\ \A c \in Buffer : c # b => state'[c] = state[c] /\ writer'[c] = writer[c]
      /\ writer'[b] \in {NoStream, writer[b]}
  BY DEF TypeOK, BufferOK
<1>3. /\ Finalized(b, ok) \in Queues
      /\ Records(b, ok) => writer[b] \in Stream
      /\ \A t \in AnyStream : \A i \in Len(queue[t]) + 1 .. Len(Finalized(b, ok)[t]) :
           Records(b, ok) /\ t = writer[b] /\ i = Len(queue[t]) + 1 /\ Finalized(b, ok)[t][i] = Record(b)
  BY FinalizedFacts
<1>4. Grown(Finalized(b, ok), queue') /\ \A t \in AnyStream : Len(Finalized(b, ok)[t]) \in Nat
  BY <1>1, <1>3, GrownSelf, LenProperties DEF Queues
<1>5. state'[b] = IF state[b] = "in_use" THEN "finalized" ELSE state[b]
  BY <1>2 DEF TypeOK, States
<1>6. /\ Grown(queue, queue')
      /\ Records(b, ok) =>
            \E j \in Len(queue[writer[b]]) + 1 .. Len(queue'[writer[b]]) :
              queue'[writer[b]][j] = Record(b)
      /\ \A c \in Buffer :
           phase[c] # "absent" /\ state[c] # "in_use" /\ ~Pending(Record(c)) => ~Pending(Record(c))'
  BY <1>1, <1>4, <1>5, Finalizing
<1>7. Extends
  <2>1. state[b] = "in_use" /\ writer[b] \in Stream /\ b \in Tracked' => Records(b, ok)
    BY <1>1 DEF Records, Recordable, Tracked
  <2> QED
    BY <1>1, <1>2, <1>6, <2>1 DEF Extends
<1>8. NewOpsOK
  <2> SUFFICES ASSUME NEW s \in AnyStream, NEW i \in Len(queue[s]) + 1 .. Len(queue'[s])
               PROVE  (OpOK(s, i) /\ WriteOK(s, i) /\ RecordOK(s, i) /\ ReadOK(s, i)
                         /\ MarkedOK(s, i) /\ MarkOK(s, i))'
    BY DEF NewOpsOK, AnyStream
  <2>1. queue'[s][i] = Record(b) /\ b \in recorded' /\ phase'[b] # "absent"
    BY <1>1, <1>3
  <2> QED
    BY <2>1, NewRecord
<1>9. BufferOK'
  <2>1. \A c \in Buffer : phase[c] = "freed" => ~Pending(Record(c))'
    BY <1>6 DEF BufferOK
  <2> QED
    BY <1>1, <1>2, <2>1 DEF BufferOK, Record
<1>10. RetireOK'
  BY <1>1 DEF RetireOK
<1>11. HandleOK'
  BY <1>1, <1>7, HeldStays DEF HandleOK, HeldOK
<1> QED
  BY <1>7, <1>8, <1>9, <1>10, <1>11

\* A kernel written through the handle is all right as long as the handle is in use.
LEMMA QueueWriteStep ==
  ASSUME IInv, NEW b \in Buffer, QueueWrite(b)
  PROVE  BufferOK' /\ RetireOK' /\ HandleOK' /\ Extends /\ NewOpsOK
<1> USE DEF IInv, QueueWrite
<1>1. writer[b] \in AnyStream /\ queue \in Queues /\ Write(b) \in Op /\ phase[b] = "live" /\ state[b] # "unset"
  BY DEF TypeOK, Queues, BufferOK, Write, Op, Kinds
<1>2. /\ Grown(queue, queue')
      /\ \A t \in AnyStream : \A i \in Len(queue[t]) + 1 .. Len(queue'[t]) :
           t = writer[b] /\ queue'[t][i] = Write(b)
      /\ \A t \in AnyStream : Len(queue[t]) \in Nat
  BY <1>1, PushOne, LenProperties DEF Queues
<1>3. \A op : op.kind # "write" /\ op.kind # "late_write" => (Pending(op)' <=> Pending(op))
  <2>1. Write(b).kind \in {"write", "late_write"}
    BY DEF Write
  <2>2. \A o : o.kind \notin {"write", "late_write"} => (Pending(o)' <=> Pending(o))
    BY <2>1, <1>2, NothingElsePends
  <2> QED
    BY <2>2
<1>4. \A c \in Buffer : Pending(Record(c))' <=> Pending(Record(c))
  BY <1>3 DEF Record
<1>5. Extends
  BY <1>2, <1>4 DEF Extends
<1>6. NewOpsOK
  <2> SUFFICES ASSUME NEW s \in AnyStream, NEW i \in Len(queue[s]) + 1 .. Len(queue'[s])
               PROVE  (OpOK(s, i) /\ WriteOK(s, i) /\ RecordOK(s, i) /\ ReadOK(s, i)
                         /\ MarkedOK(s, i) /\ MarkOK(s, i))'
    BY DEF NewOpsOK, AnyStream
  <2>1. queue'[s][i] = Write(b) /\ s = writer[b] /\ phase'[b] # "absent"
    BY <1>1, <1>2
  <2>2. Write(b).buf = b /\ Write(b).kind = IF state[b] = "in_use" THEN "write" ELSE "late_write"
    BY DEF Write
  <2>3. (OpOK(s, i) /\ RecordOK(s, i) /\ ReadOK(s, i) /\ MarkedOK(s, i) /\ MarkOK(s, i))'
    BY <2>1, <2>2 DEF OpOK, RecordOK, ReadOK, MarkedOK, MarkOK
  <2>4. WriteOK(s, i)'
    BY <2>1, <2>2 DEF WriteOK
  <2> QED
    BY <2>3, <2>4
<1>7. BufferOK' /\ RetireOK'
  BY <1>4 DEF BufferOK, RetireOK, Record
<1>8. HandleOK'
  BY <1>5, HeldStays DEF HandleOK, HeldOK
<1> QED
  BY <1>5, <1>6, <1>7, <1>8

\* A kernel that reads through a handle is ordered as the handle is, and unmarked as long
\* as the handle is held.
LEMMA QueueReadStep ==
  ASSUME IInv, NEW r \in Reader, QueueRead(r)
  PROVE  BufferOK' /\ RetireOK' /\ HandleOK' /\ Extends /\ NewOpsOK
<1> USE DEF IInv, QueueRead
<1>0. PICK b \in Buffer, s \in AnyStream, early \in BOOLEAN :
        reads[r] = [buf |-> b, stream |-> s, early |-> early]
  BY DEF TypeOK, Handle
<1>1. queue \in Queues /\ phase[b] = "live"
  BY <1>0 DEF TypeOK, Queues, HandleOK, HeldOK
<1>2. PICK op \in Op : /\ op.buf = b /\ op.by = r
                       /\ op.kind \in {"read", "early_read"} /\ (op.kind = "read" <=> ~early)
                       /\ queue' = Push(queue, s, <<op>>)
  <2>1. CASE early
    BY <1>0, <2>1 DEF Read, Op, Kinds
  <2>2. CASE ~early
    BY <1>0, <2>2 DEF Read, Op, Kinds
  <2> QED
    BY <2>1, <2>2
<1>3. /\ Grown(queue, queue')
      /\ \A t \in AnyStream : \A i \in Len(queue[t]) + 1 .. Len(queue'[t]) :
           t = s /\ i = Len(queue[s]) + 1 /\ queue'[t][i] = op
      /\ \A t \in AnyStream : Len(queue[t]) \in Nat
  <2>1. Grown(queue, queue')
    BY <1>1, <1>2, PushOne
  <2>2. \A t \in AnyStream : \A i \in Len(queue[t]) + 1 .. Len(queue'[t]) :
          t = s /\ i = Len(queue[s]) + 1 /\ queue'[t][i] = op
    BY <1>1, <1>2, PushOne
  <2> QED
    BY <2>1, <2>2, <1>1, LenProperties DEF Queues
<1>4. \A o : o.kind \notin {"read", "early_read"} => (Pending(o)' <=> Pending(o))
  BY <1>2, <1>3, NothingElsePends
<1>5. \A c \in Buffer : Pending(Record(c))' <=> Pending(Record(c))
  BY <1>4 DEF Record
<1>6. Extends
  BY <1>3, <1>5 DEF Extends
<1>7. NewOpsOK
  <2> SUFFICES ASSUME NEW t \in AnyStream, NEW i \in Len(queue[t]) + 1 .. Len(queue'[t])
               PROVE  (OpOK(t, i) /\ WriteOK(t, i) /\ RecordOK(t, i) /\ ReadOK(t, i)
                         /\ MarkedOK(t, i) /\ MarkOK(t, i))'
    BY DEF NewOpsOK, AnyStream
  <2>1. t = s /\ i = Len(queue[s]) + 1 /\ queue'[t][i] = op /\ phase'[b] # "absent"
    BY <1>1, <1>3
  <2>2. (OpOK(t, i) /\ WriteOK(t, i) /\ RecordOK(t, i) /\ MarkOK(t, i))'
    BY <1>2, <2>1 DEF OpOK, WriteOK, RecordOK, MarkOK
  <2>3. MarkedOK(t, i)'
    BY <1>0, <1>2, <2>1 DEF MarkedOK
  <2>4. ReadOK(t, i)'
    <3> SUFFICES ASSUME op.kind = "read", s \in Stream, b \in hasEvent
                 PROVE  Ordered(b, s, i)'
      BY <1>2, <2>1 DEF ReadOK
    <3>1. Ordered(b, s, i)
      BY <1>0, <1>1, <1>2, <2>1 DEF HandleOK, HeldOK
    <3>2. i \in 1 .. Len(queue[s]) + 1
      BY <1>3, <2>1
    <3> QED
      BY <3>1, <3>2, <1>1, <1>6, OrderedStays
  <2> QED
    BY <2>2, <2>3, <2>4
<1>8. BufferOK' /\ RetireOK'
  BY <1>5 DEF BufferOK, RetireOK, Record
<1>9. HandleOK'
  BY <1>6, HeldStays DEF HandleOK, HeldOK
<1> QED
  BY <1>6, <1>7, <1>8, <1>9

LEMMA ReleaseReadStep ==
  ASSUME IInv, NEW r \in Reader, ReleaseRead(r)
  PROVE  BufferOK' /\ RetireOK' /\ HandleOK' /\ Extends /\ NewOpsOK
<1> USE DEF IInv, ReleaseRead
<1>1. reads[r] # NoHandle
  BY ConstantsOK DEF ConstantsOK, NoHandle
<1>0. PICK b \in Buffer, s \in Stream : reads[r].buf = b /\ reads[r].stream = s
  BY <1>1 DEF TypeOK, Handle
<1>2. s \in AnyStream /\ queue \in Queues /\ phase[b] = "live"
  BY <1>0, <1>1 DEF TypeOK, Queues, HandleOK, HeldOK, AnyStream
<1>3. Mark(b, r) \in Op /\ queue' = Push(queue, s, <<Mark(b, r)>>)
  BY <1>0, <1>2 DEF Mark, Op, Kinds
<1>a. s \in Stream /\ readEvents' = [readEvents EXCEPT ![b] = @ \cup {r}]
      /\ reads' = [reads EXCEPT ![r] = NoHandle]
  BY <1>0
<1>4. /\ Grown(queue, queue')
      /\ \A t \in AnyStream : \A i \in Len(queue[t]) + 1 .. Len(queue'[t]) :
           t = s /\ i = Len(queue[s]) + 1 /\ queue'[t][i] = Mark(b, r)
      /\ \A t \in AnyStream : Len(queue[t]) \in Nat
      /\ Len(queue'[s]) = Len(queue[s]) + 1 /\ queue'[s][Len(queue[s]) + 1] = Mark(b, r)
  <2>1. Grown(queue, queue') /\ Len(queue'[s]) = Len(queue[s]) + 1
        /\ queue'[s][Len(queue[s]) + 1] = Mark(b, r)
    BY <1>2, <1>3, PushOne
  <2>2. \A t \in AnyStream : \A i \in Len(queue[t]) + 1 .. Len(queue'[t]) :
          t = s /\ i = Len(queue[s]) + 1 /\ queue'[t][i] = Mark(b, r)
    BY <1>2, <1>3, PushOne
  <2> QED
    BY <2>1, <2>2, <1>2, LenProperties DEF Queues
<1>b. Mark(b, r).kind = "mark"
  BY DEF Mark
<1>5. \A o : o.kind # "mark" => (Pending(o)' <=> Pending(o))
  <2>1. \A t \in AnyStream : \A i \in Len(queue[t]) + 1 .. Len(queue'[t]) :
          queue'[t][i].kind \in {"mark"}
    BY <1>4, <1>b
  <2>2. \A o : o.kind \notin {"mark"} => (Pending(o)' <=> Pending(o))
    BY <1>4, <2>1, NothingElsePends
  <2> QED
    BY <2>2
<1>6. \A c \in Buffer : Pending(Record(c))' <=> Pending(Record(c))
  BY <1>5 DEF Record
<1>7. /\ r \in readEvents'[b] /\ \A c \in Buffer : readEvents[c] \subseteq readEvents'[c]
      /\ \A c \in Buffer : c # b => readEvents'[c] = readEvents[c]
      /\ reads'[r] = NoHandle /\ \A q \in Reader : q # r => reads'[q] = reads[q]
  BY <1>2, <1>a DEF TypeOK
<1>8. Extends
  BY <1>0, <1>4, <1>6, <1>7 DEF Extends
<1>9. NewOpsOK
  <2> SUFFICES ASSUME NEW t \in AnyStream, NEW i \in Len(queue[t]) + 1 .. Len(queue'[t])
               PROVE  (OpOK(t, i) /\ WriteOK(t, i) /\ RecordOK(t, i) /\ ReadOK(t, i)
                         /\ MarkedOK(t, i) /\ MarkOK(t, i))'
    BY DEF NewOpsOK, AnyStream
  <2>1. queue'[t][i] = Mark(b, r) /\ phase'[b] # "absent" /\ r \in readEvents'[b]
    BY <1>2, <1>4, <1>7
  <2> QED
    BY <2>1, <1>2, NewMark
<1>10. BufferOK' /\ RetireOK'
  BY <1>2, <1>6, <1>7 DEF BufferOK, RetireOK, Record
<1>11. HandleOK'
  <2>1. ASSUME NEW q \in Reader, q # r
        PROVE  HeldOK(q)'
    BY <2>1, <1>7, <1>8, HeldStays DEF HandleOK, HeldOK
  <2> QED
    BY <2>1, <1>7 DEF HandleOK, HeldOK, NoHandle
<1> QED
  BY <1>8, <1>9, <1>10, <1>11

-----------------------------------------------------------------------------
\* A push that is made under a condition: p is q, or q with op at the end of s.
PushedIf(q, p, s, op, A) ==
  /\ Grown(q, p)
  /\ A => Len(p[s]) = Len(q[s]) + 1 /\ p[s][Len(q[s]) + 1] = op
  /\ ~A => p = q
  /\ \A t \in AnyStream : \A i \in Len(q[t]) + 1 .. Len(p[t]) :
       A /\ t = s /\ i = Len(q[s]) + 1 /\ p[t][i] = op

LEMMA PushIf ==
  ASSUME NEW q \in Queues, NEW s \in AnyStream, NEW op \in Op, NEW A \in BOOLEAN, NEW p,
         p = Push(q, s, IF A THEN <<op>> ELSE <<>>)
  PROVE  p \in Queues /\ PushedIf(q, p, s, op, A)
<1> USE DEF PushedIf
<1>1. CASE A
  <2>1. p = Push(q, s, <<op>>)
    BY <1>1
  <2> QED
    BY <1>1, <2>1, PushOne
<1>2. CASE ~A
  <2>1. p = q
    BY <1>2, PushNone
  <2>2. \A t \in AnyStream : Len(q[t]) \in Nat
    BY LenProperties DEF Queues
  <2> QED
    BY <1>2, <2>1, <2>2, GrownSelf
<1> QED
  BY <1>1, <1>2

LEMMA PushTwice ==
  ASSUME NEW q \in Queues, NEW s \in AnyStream, NEW a \in Seq(Op), NEW o \in Seq(Op)
  PROVE  Push(q, s, a \o o) = Push(Push(q, s, a), s, o)
<1>1. q[s] \in Seq(Op)
  BY DEF Queues
<1>2. ASSUME NEW u \in Seq(Op)
      PROVE  (u \o a) \o o = u \o (a \o o)
  BY ConcatAssociative
<1> QED
  BY <1>1, <1>2 DEF Push, Queues

\* What has to hold for a read handle of b to wait for the write event.
Waits(b, s, ok) == s \in Stream /\ b \in hasEvent /\ (b \in recorded \/ Records(b, ok))

\* What get_read_handle puts on streams, q, and what follows if p has no more records of
\* buffers that were there: what is queued on s behind q is ordered after the write of b.
LEMMA Readying ==
  ASSUME IInv, NEW b \in Buffer, NEW s \in AnyStream, NEW ok \in BOOLEAN, NEW q, phase[b] = "live",
         q = Push(Finalized(b, ok), s, Awaits(b, s, ok)), Grown(q, queue'),
         state'[b] = (IF state[b] = "in_use" THEN "finalized" ELSE state[b]),
         \A t \in AnyStream : \A i \in Len(q[t]) + 1 .. Len(queue'[t]) :
           queue'[t][i].kind = "record" => phase[queue'[t][i].buf] = "absent"
  PROVE  /\ q \in Queues
         /\ Grown(queue, q)
         /\ Grown(queue, queue')
         /\ Records(b, ok) =>
               \E j \in Len(queue[writer[b]]) + 1 .. Len(queue'[writer[b]]) :
                 queue'[writer[b]][j] = Record(b)
         /\ \A c \in Buffer :
              phase[c] # "absent" /\ state[c] # "in_use" /\ ~Pending(Record(c)) => ~Pending(Record(c))'
         /\ \A t \in AnyStream : \A i \in Len(queue[t]) + 1 .. Len(q[t]) :
              q[t][i] = Await(b) \/ (Records(b, ok) /\ q[t][i] = Record(b))
         /\ s \in Stream /\ b \in hasEvent /\ state[b] # "unset" =>
              \A n \in Nat : n > Len(q[s]) => Ordered(b, s, n)'
<1> DEFINE f == Finalized(b, ok)
<1>1. /\ f \in Queues /\ Grown(queue, f)
      /\ \A t \in AnyStream : \A i \in Len(queue[t]) + 1 .. Len(f[t]) :
           Records(b, ok) /\ t = writer[b] /\ i = Len(queue[t]) + 1 /\ f[t][i] = Record(b)
  BY FinalizedFacts DEF IInv
<1> HIDE DEF f
<1>2. Await(b) \in Op /\ Waits(b, s, ok) \in BOOLEAN
  BY DEF Await, Op, Kinds, Waits
<1>3. q = Push(f, s, IF Waits(b, s, ok) THEN <<Await(b)>> ELSE <<>>)
  BY DEF Awaits, Waits, f
<1>4. /\ q \in Queues /\ Grown(f, q)
      /\ Waits(b, s, ok) => Len(q[s]) = Len(f[s]) + 1 /\ q[s][Len(f[s]) + 1] = Await(b)
      /\ \A t \in AnyStream : \A i \in Len(f[t]) + 1 .. Len(q[t]) :
           Waits(b, s, ok) /\ t = s /\ i = Len(f[s]) + 1 /\ q[t][i] = Await(b)
  <2>1. q \in Queues /\ PushedIf(f, q, s, Await(b), Waits(b, s, ok))
    BY <1>1, <1>2, <1>3, PushIf
  <2> QED
    BY <2>1 DEF PushedIf
<1>5. Grown(queue, q) /\ Grown(f, queue') /\ Grown(queue, queue')
  BY <1>1, <1>4, GrownTwice
<1>6. Await(b).kind = "wait"
  BY DEF Await
<1>7. \A t \in AnyStream : \A i \in Len(f[t]) + 1 .. Len(queue'[t]) :
        queue'[t][i].kind = "record" => phase[queue'[t][i].buf] = "absent"
  <2> SUFFICES ASSUME NEW t \in AnyStream, NEW i \in Len(f[t]) + 1 .. Len(queue'[t]),
                      queue'[t][i].kind = "record"
               PROVE  phase[queue'[t][i].buf] = "absent"
    OBVIOUS
  <2>1. CASE i \in Len(q[t]) + 1 .. Len(queue'[t])
    BY <2>1
  <2>2. CASE i \notin Len(q[t]) + 1 .. Len(queue'[t])
    <3>1. i \in Len(f[t]) + 1 .. Len(q[t]) /\ i \in 1 .. Len(q[t])
      BY <2>2, <1>4, <1>5 DEF Grown
    <3>2. queue'[t][i] = q[t][i] /\ q[t][i] = Await(b)
      BY <3>1, <1>4 DEF Grown
    <3> QED
      BY <3>2, <1>6
  <2> QED
    BY <2>1, <2>2
<1>8. /\ Records(b, ok) =>
               \E j \in Len(queue[writer[b]]) + 1 .. Len(queue'[writer[b]]) :
                 queue'[writer[b]][j] = Record(b)
      /\ \A c \in Buffer :
              phase[c] # "absent" /\ state[c] # "in_use" /\ ~Pending(Record(c)) => ~Pending(Record(c))'
  BY <1>5, <1>7, Finalizing DEF f
<1>9. \A t \in AnyStream : \A i \in Len(queue[t]) + 1 .. Len(q[t]) :
        q[t][i] = Await(b) \/ (Records(b, ok) /\ q[t][i] = Record(b))
  <2> SUFFICES ASSUME NEW t \in AnyStream, NEW i \in Len(queue[t]) + 1 .. Len(q[t])
               PROVE  q[t][i] = Await(b) \/ (Records(b, ok) /\ q[t][i] = Record(b))
    OBVIOUS
  <2>1. CASE i \in Len(f[t]) + 1 .. Len(q[t])
    BY <2>1, <1>4
  <2>2. CASE i \notin Len(f[t]) + 1 .. Len(q[t])
    <3>1. i \in Len(queue[t]) + 1 .. Len(f[t]) /\ i \in 1 .. Len(f[t])
      BY <2>2, <1>1, <1>4 DEF Grown
    <3>2. q[t][i] = f[t][i]
      BY <3>1, <1>4 DEF Grown
    <3>3. Records(b, ok) /\ f[t][i] = Record(b)
      BY <3>1, <1>1
    <3> QED
      BY <3>2, <3>3
  <2> QED
    BY <2>1, <2>2
<1>10. ASSUME s \in Stream, b \in hasEvent, state[b] # "unset", NEW n \in Nat, n > Len(q[s])
       PROVE  Ordered(b, s, n)'
  <2>1. state'[b] = "finalized"
    BY <1>10 DEF IInv, TypeOK, States
  <2>2. CASE Waits(b, s, ok)
    <3>1. Len(f[s]) + 1 \in 1 .. n - 1 /\ Len(f[s]) + 1 \in 1 .. Len(q[s])
      BY <2>2, <1>4, <1>10 DEF Grown
    <3>2. queue'[s][Len(f[s]) + 1] = Await(b)
      BY <2>2, <3>1, <1>4 DEF Grown
    <3> QED
      BY <2>1, <3>1, <3>2 DEF Ordered, Await
  <2>3. CASE ~Waits(b, s, ok)
    <3>1. b \notin recorded /\ ~Records(b, ok)
      BY <2>3, <1>10 DEF Waits
    <3> SUFFICES ASSUME NEW t \in AnyStream, NEW i \in 1 .. Len(queue'[t]), queue'[t][i] = Record(b)
                 PROVE  FALSE
      BY <2>1 DEF Ordered, Pending, Contains, Record, AnyStream
    <3>2. Record(b).kind = "record" /\ Record(b).buf = b
      BY DEF Record
    <3>3. CASE i \in 1 .. Len(queue[t])
      BY <3>1, <3>2, <3>3, <1>5 DEF Grown, IInv, QueueOK, RecordOK
    <3>4. CASE i \in Len(queue[t]) + 1 .. Len(q[t])
      <4>1. i \in 1 .. Len(q[t])
        BY <3>4, <1>5 DEF Grown
      <4>2. q[t][i] = Await(b)
        BY <3>1, <3>4, <1>9
      <4> QED
        BY <4>1, <4>2, <3>2, <1>6 DEF Grown
    <3>5. CASE i \in Len(q[t]) + 1 .. Len(queue'[t])
      BY <3>2, <3>5
    <3> QED
      BY <3>3, <3>4, <3>5, <1>5 DEF Grown
  <2> QED
    BY <2>2, <2>3
<1> QED
  BY <1>4, <1>5, <1>8, <1>9, <1>10

\* A read handle is ordered after the write it has finalized.
LEMMA GetReadHandleStep ==
  ASSUME IInv, NEW b \in Buffer, NEW s \in AnyStream, NEW r \in Reader, GetReadHandle(b, s, r)
  PROVE  BufferOK' /\ RetireOK' /\ HandleOK' /\ Extends /\ NewOpsOK
<1> USE DEF IInv, GetReadHandle
<1>0. PICK ok \in BOOLEAN :
        queue' = Push(Finalized(b, ok), s, Awaits(b, s, ok)) /\ Outcome(b, ok)
  OBVIOUS
<1>1. /\ phase[b] = "live" /\ reads[r] = NoHandle
      /\ queue' = Push(Finalized(b, ok), s, Awaits(b, s, ok))
      /\ phase' = phase /\ hasEvent' = hasEvent /\ writer' = writer
      /\ retireQ' = retireQ /\ unmarked' = unmarked
      /\ recorded' = IF Records(b, ok) THEN recorded \cup {b} ELSE recorded
      /\ unrecorded' = IF Records(b, ~ok) THEN unrecorded \cup {b} ELSE unrecorded
  BY <1>0 DEF Free, HandleOK, HeldOK, Outcome
<1>2. /\ state'[b] = (IF state[b] = "in_use" THEN "finalized" ELSE state[b])
      /\ readEvents'[b] = Reaped(b)
      /\ reads'[r] = [buf |-> b, stream |-> s, early |-> state[b] = "unset"]
      /\ reads'[r].buf = b /\ reads'[r].stream = s /\ (reads'[r].early <=> state[b] = "unset")
      /\ \A c \in Buffer : c # b => state'[c] = state[c] /\ readEvents'[c] = readEvents[c]
      /\ \A q \in Reader : q # r => reads'[q] = reads[q]
  BY DEF TypeOK
<1>3. queue' \in Queues
  <2>1. Finalized(b, ok) \in Queues
    BY FinalizedFacts
  <2>2. Await(b) \in Op /\ Waits(b, s, ok) \in BOOLEAN
    BY DEF Await, Op, Kinds, Waits
  <2>3. queue' = Push(Finalized(b, ok), s, IF Waits(b, s, ok) THEN <<Await(b)>> ELSE <<>>)
    BY <1>1 DEF Awaits, Waits
  <2> QED
    BY <2>1, <2>2, <2>3, PushIf
<1>4. Grown(queue', queue') /\ \A t \in AnyStream : Len(queue'[t]) \in Nat
  BY <1>3, GrownSelf, LenProperties DEF Queues
<1>5. \A t \in AnyStream : \A i \in Len(queue'[t]) + 1 .. Len(queue'[t]) : FALSE
  BY <1>4
<1>6. /\ Grown(queue, queue')
      /\ Records(b, ok) =>
            \E j \in Len(queue[writer[b]]) + 1 .. Len(queue'[writer[b]]) :
              queue'[writer[b]][j] = Record(b)
      /\ \A c \in Buffer :
           phase[c] # "absent" /\ state[c] # "in_use" /\ ~Pending(Record(c)) => ~Pending(Record(c))'
      /\ \A t \in AnyStream : \A i \in Len(queue[t]) + 1 .. Len(queue'[t]) :
           queue'[t][i] = Await(b) \/ (Records(b, ok) /\ queue'[t][i] = Record(b))
      /\ s \in Stream /\ b \in hasEvent /\ state[b] # "unset" =>
           \A n \in Nat : n > Len(queue'[s]) => Ordered(b, s, n)'
  BY <1>1, <1>2, <1>4, <1>5, Readying
<1>7. Extends
  <2>1. \A e \in readEvents[b] : e \in readEvents'[b] \/ ~Pending(Mark(b, e))
    BY <1>2 DEF Reaped
  <2>2. state[b] = "in_use" /\ writer[b] \in Stream /\ b \in Tracked' => Records(b, ok)
    BY <1>1 DEF Records, Recordable, Tracked
  <2> QED
    BY <1>1, <1>2, <1>6, <2>1, <2>2 DEF Extends
<1>8. NewOpsOK
  <2> SUFFICES ASSUME NEW t \in AnyStream, NEW i \in Len(queue[t]) + 1 .. Len(queue'[t])
               PROVE  (OpOK(t, i) /\ WriteOK(t, i) /\ RecordOK(t, i) /\ ReadOK(t, i)
                         /\ MarkedOK(t, i) /\ MarkOK(t, i))'
    BY DEF NewOpsOK, AnyStream
  <2>1. CASE queue'[t][i] = Await(b)
    BY <2>1, <1>1, NewAwait
  <2>2. CASE Records(b, ok) /\ queue'[t][i] = Record(b)
    BY <2>2, <1>1, NewRecord
  <2> QED
    BY <2>1, <2>2, <1>6
<1>9. BufferOK'
  <2>1. \A c \in Buffer : phase[c] = "freed" => ~Pending(Record(c))'
    BY <1>6 DEF BufferOK
  <2>2. (b \in recorded' => b \in recorded \/ state[b] = "in_use") /\ state'[b] # "in_use"
    BY <1>1, <1>2 DEF Records, Recordable
  <2>3. \A c \in Buffer : c # b => (c \in recorded' <=> c \in recorded)
    BY <1>1
  <2>4. state'[b] = "unset" => state[b] = "unset"
    BY <1>2
  <2> QED
    BY <1>1, <1>2, <2>1, <2>2, <2>3, <2>4 DEF BufferOK, Record
<1>10. RetireOK'
  BY <1>1 DEF RetireOK
<1>11. HandleOK'
  <2>1. ASSUME NEW q \in Reader, q # r
        PROVE  HeldOK(q)'
    BY <2>1, <1>1, <1>2, <1>7, HeldStays DEF HandleOK, HeldOK
  <2>2. HeldOK(r)'
    <3> SUFFICES ASSUME state[b] # "unset", s \in Stream, b \in hasEvent
                 PROVE  \A n \in Nat : n > Len(queue'[s]) => Ordered(b, s, n)'
      <4>1. Len(queue'[s]) + 1 \in Nat /\ Len(queue'[s]) + 1 > Len(queue'[s])
        BY <1>4
      <4>2. (s \in Stream /\ b \in hasEvent /\ state[b] # "unset") => Ordered(b, s, Len(queue[s]) + 1)'
        BY <4>1 DEF Ordered, Await, Record
      <4> QED
        BY <1>1, <1>2, <4>2 DEF HeldOK, Ordered, Await, Record
    <3> QED
      BY <1>6
  <2> QED
    BY <2>1, <2>2 DEF HandleOK
<1> QED
  BY <1>7, <1>8, <1>9, <1>10, <1>11

\* One that throws leaves what finalizing leaves.
LEMMA GetReadHandleThrowsStep ==
  ASSUME IInv, NEW b \in Buffer, NEW s \in AnyStream, GetReadHandleThrows(b, s)
  PROVE  BufferOK' /\ RetireOK' /\ HandleOK' /\ Extends /\ NewOpsOK
<1> USE DEF IInv, GetReadHandleThrows
<1>0. PICK ok \in BOOLEAN : queue' = Finalized(b, ok) /\ Outcome(b, ok)
  OBVIOUS
<1>1. /\ phase[b] = "live" /\ phase' = phase /\ reads' = reads /\ writer' = writer
      /\ hasEvent' = hasEvent /\ handles' = handles /\ retireQ' = retireQ /\ unmarked' = unmarked
      /\ recorded' = IF Records(b, ok) THEN recorded \cup {b} ELSE recorded
      /\ unrecorded' = IF Records(b, ~ok) THEN unrecorded \cup {b} ELSE unrecorded
  BY <1>0 DEF Outcome
<1>2. /\ state'[b] = (IF state[b] = "in_use" THEN "finalized" ELSE state[b])
      /\ readEvents'[b] = Reaped(b)
      /\ \A c \in Buffer : c # b => state'[c] = state[c] /\ readEvents'[c] = readEvents[c]
  BY DEF TypeOK
<1>3. /\ Finalized(b, ok) \in Queues
      /\ \A t \in AnyStream : \A i \in Len(queue[t]) + 1 .. Len(Finalized(b, ok)[t]) :
           Records(b, ok) /\ t = writer[b] /\ i = Len(queue[t]) + 1 /\ Finalized(b, ok)[t][i] = Record(b)
  BY FinalizedFacts
<1>4. Grown(Finalized(b, ok), queue') /\ \A t \in AnyStream : Len(Finalized(b, ok)[t]) \in Nat
  BY <1>0, <1>3, GrownSelf, LenProperties DEF Queues
<1>5. /\ Grown(queue, queue')
      /\ Records(b, ok) =>
            \E j \in Len(queue[writer[b]]) + 1 .. Len(queue'[writer[b]]) :
              queue'[writer[b]][j] = Record(b)
      /\ \A c \in Buffer :
           phase[c] # "absent" /\ state[c] # "in_use" /\ ~Pending(Record(c)) => ~Pending(Record(c))'
  BY <1>0, <1>2, <1>4, Finalizing
<1>6. Extends
  <2>1. \A e \in readEvents[b] : e \in readEvents'[b] \/ ~Pending(Mark(b, e))
    BY <1>2 DEF Reaped
  <2>2. state[b] = "in_use" /\ writer[b] \in Stream /\ b \in Tracked' => Records(b, ok)
    BY <1>1 DEF Records, Recordable, Tracked
  <2> QED
    BY <1>1, <1>2, <1>5, <2>1, <2>2 DEF Extends
<1>7. NewOpsOK
  <2> SUFFICES ASSUME NEW t \in AnyStream, NEW i \in Len(queue[t]) + 1 .. Len(queue'[t])
               PROVE  (OpOK(t, i) /\ WriteOK(t, i) /\ RecordOK(t, i) /\ ReadOK(t, i)
                         /\ MarkedOK(t, i) /\ MarkOK(t, i))'
    BY DEF NewOpsOK, AnyStream
  <2>1. queue'[t][i] = Record(b) /\ b \in recorded' /\ phase'[b] # "absent"
    BY <1>0, <1>1, <1>3
  <2> QED
    BY <2>1, NewRecord
<1>8. BufferOK'
  <2>1. \A c \in Buffer : phase[c] = "freed" => ~Pending(Record(c))'
    BY <1>5 DEF BufferOK
  <2>2. (b \in recorded' => b \in recorded \/ state[b] = "in_use") /\ state'[b] # "in_use"
    BY <1>1, <1>2 DEF Records, Recordable
  <2>3. \A c \in Buffer : c # b => (c \in recorded' <=> c \in recorded)
    BY <1>1
  <2>4. state'[b] = "unset" => state[b] = "unset"
    BY <1>2
  <2> QED
    BY <1>1, <1>2, <2>1, <2>2, <2>3, <2>4 DEF BufferOK, Record
<1>9. RetireOK'
  BY <1>1 DEF RetireOK
<1>10. HandleOK'
  BY <1>1, <1>6, HeldStays DEF HandleOK, HeldOK
<1> QED
  BY <1>6, <1>7, <1>8, <1>9, <1>10

\* The two kernels of a copy, q1, the record, q2, and the mark, p, that may follow them.
CopyPushed(q, q1, q2, p, s, from, to, rec, mark, A, B) ==
  /\ Grown(q, q1)
  /\ \A t \in AnyStream : t # s => q1[t] = q[t]
  /\ Len(q1[s]) = Len(q[s]) + 2
  /\ q1[s][Len(q[s]) + 1] = from /\ q1[s][Len(q[s]) + 2] = to
  /\ PushedIf(q1, q2, s, rec, A)
  /\ PushedIf(q2, p, s, mark, B)

LEMMA CopyOps ==
  ASSUME NEW s \in AnyStream, NEW from, NEW to, NEW rec, NEW mark,
         NEW A, NEW B, NEW q, NEW q1, NEW q2, NEW p,
         CopyPushed(q, q1, q2, p, s, from, to, rec, mark, A, B)
  PROVE  /\ Grown(q, p)
         /\ Len(q[s]) + 2 \in 1 .. Len(p[s])
         /\ p[s][Len(q[s]) + 1] = from /\ p[s][Len(q[s]) + 2] = to
         /\ A => \E j \in Len(q[s]) + 3 .. Len(p[s]) : p[s][j] = rec
         /\ B => \E j \in Len(q[s]) + 3 .. Len(p[s]) : p[s][j] = mark
         /\ \A t \in AnyStream : \A i \in Len(q[t]) + 1 .. Len(p[t]) :
              /\ t = s
              /\ \/ i = Len(q[s]) + 1 \/ i = Len(q[s]) + 2
                 \/ A /\ p[s][i] = rec
                 \/ B /\ p[s][i] = mark
<1>1. /\ Grown(q, q1)
      /\ \A t \in AnyStream : t # s => q1[t] = q[t]
      /\ Len(q1[s]) = Len(q[s]) + 2
      /\ q1[s][Len(q[s]) + 1] = from /\ q1[s][Len(q[s]) + 2] = to
  BY DEF CopyPushed
<1>5. /\ Grown(q1, q2)
      /\ A => Len(q2[s]) = Len(q1[s]) + 1 /\ q2[s][Len(q1[s]) + 1] = rec
      /\ ~A => q2 = q1
      /\ \A t \in AnyStream : \A i \in Len(q1[t]) + 1 .. Len(q2[t]) :
           A /\ t = s /\ i = Len(q1[s]) + 1 /\ q2[t][i] = rec
  BY DEF PushedIf, CopyPushed
<1>6. /\ Grown(q2, p)
      /\ B => Len(p[s]) = Len(q2[s]) + 1 /\ p[s][Len(q2[s]) + 1] = mark
      /\ ~B => p = q2
      /\ \A t \in AnyStream : \A i \in Len(q2[t]) + 1 .. Len(p[t]) :
           B /\ t = s /\ i = Len(q2[s]) + 1 /\ p[t][i] = mark
  BY DEF PushedIf, CopyPushed
<1>7. Grown(q1, p) /\ Grown(q, p)
  BY <1>1, <1>5, <1>6, GrownTwice
<1>8. /\ Len(q[s]) + 2 \in 1 .. Len(p[s])
      /\ p[s][Len(q[s]) + 1] = from /\ p[s][Len(q[s]) + 2] = to
  <2>1. Len(q[s]) \in Nat /\ Len(q1[s]) <= Len(p[s]) /\ Len(p[s]) \in Nat
    BY <1>7 DEF Grown
  <2>2. Len(q[s]) + 1 \in 1 .. Len(q1[s]) /\ Len(q[s]) + 2 \in 1 .. Len(q1[s])
    BY <2>1, <1>1
  <2>3. \A i \in 1 .. Len(q1[s]) : p[s][i] = q1[s][i]
    BY <1>7 DEF Grown
  <2>4. /\ p[s][Len(q[s]) + 1] = q1[s][Len(q[s]) + 1]
        /\ p[s][Len(q[s]) + 2] = q1[s][Len(q[s]) + 2]
    BY <2>2, <2>3
  <2> QED
    BY <2>1, <2>4, <1>1
<1>9. A => \E j \in Len(q[s]) + 3 .. Len(p[s]) : p[s][j] = rec
  <2> SUFFICES ASSUME A
               PROVE  Len(q[s]) + 3 \in Len(q[s]) + 3 .. Len(p[s]) /\ p[s][Len(q[s]) + 3] = rec
    OBVIOUS
  <2>1. Len(q[s]) \in Nat /\ Len(q2[s]) = Len(q[s]) + 3 /\ q2[s][Len(q[s]) + 3] = rec
    BY <1>1, <1>5 DEF Grown
  <2> QED
    BY <2>1, <1>6 DEF Grown
<1>10. B => \E j \in Len(q[s]) + 3 .. Len(p[s]) : p[s][j] = mark
  <2> SUFFICES ASSUME B
               PROVE  /\ Len(q2[s]) + 1 \in Len(q[s]) + 3 .. Len(p[s])
                      /\ p[s][Len(q2[s]) + 1] = mark
    OBVIOUS
  <2> QED
    BY <1>1, <1>5, <1>6, <1>7 DEF Grown
<1>11. ASSUME NEW t \in AnyStream, NEW i \in Len(q[t]) + 1 .. Len(p[t])
       PROVE  /\ t = s
              /\ \/ i = Len(q[s]) + 1 \/ i = Len(q[s]) + 2
                 \/ A /\ p[s][i] = rec
                 \/ B /\ p[s][i] = mark
  <2>1. CASE i \in Len(q2[t]) + 1 .. Len(p[t])
    BY <2>1, <1>6
  <2>2. CASE i \in Len(q1[t]) + 1 .. Len(q2[t])
    <3>1. A /\ t = s /\ q2[t][i] = rec /\ i \in 1 .. Len(q2[t])
      BY <2>2, <1>5 DEF Grown
    <3> QED
      BY <3>1, <1>6 DEF Grown
  <2>3. CASE i \in Len(q[t]) + 1 .. Len(q1[t])
    <3>1. t = s
      BY <2>3, <1>1 DEF Grown
    <3> QED
      BY <2>3, <3>1, <1>1, <1>7 DEF Grown
  <2>4. Len(q[t]) \in Nat /\ Len(q1[t]) \in Nat /\ Len(q2[t]) \in Nat /\ Len(p[t]) \in Nat
    BY <1>1, <1>5, <1>6 DEF Grown
  <2>5. \/ i \in Len(q2[t]) + 1 .. Len(p[t])
        \/ i \in Len(q1[t]) + 1 .. Len(q2[t])
        \/ i \in Len(q[t]) + 1 .. Len(q1[t])
    BY <2>4
  <2> QED
    BY <2>1, <2>2, <2>3, <2>5
<1> QED
  BY <1>7, <1>8, <1>9, <1>10, <1>11

\* How a copy ends: which of its events are recorded, A the one of the new buffer and B
\* the one of the read.
Copied(b, c, s, r, ok, A, B) ==
  /\ queue' = Push(Finalized(b, ok), s,
        Awaits(b, s, ok)
          \o <<[Read(b, r) EXCEPT !.kind = IF state[b] = "unset" THEN "early_read" ELSE "read"],
               [Write(c) EXCEPT !.kind = "write"]>>
          \o (IF A THEN <<Record(c)>> ELSE <<>>)
          \o (IF B THEN <<Mark(b, r)>> ELSE <<>>))
  /\ recorded' = recorded \cup {x \in {b, c} : IF x = b THEN Records(b, ok) ELSE A}
  /\ unrecorded \subseteq unrecorded'
  /\ Records(b, ~ok) => b \in unrecorded'
  /\ s \in Stream /\ c \in hasEvent' /\ ~A => c \in unrecorded'
  /\ unrecorded' \subseteq unrecorded \cup (hasEvent' \cap {b, c})
  /\ A => s \in Stream /\ c \in hasEvent'
  /\ B => s \in Stream
  /\ readEvents' = [readEvents EXCEPT ![b] = Reaped(b) \cup (IF B THEN {r} ELSE {})]
  /\ unmarked' = IF B THEN unmarked ELSE unmarked \cup {r}

LEMMA CopyOutcome ==
  ASSUME IInv, NEW b \in Buffer, NEW c \in Buffer, NEW s \in AnyStream, NEW r \in Reader,
         Copy(b, c, s, r)
  PROVE  b # c /\ \E ok, A, B \in BOOLEAN : Copied(b, c, s, r, ok, A, B)
<1>0. b # c /\ hasEvent \subseteq hasEvent'
  BY DEF Copy
<1> DEFINE A(okC) == (s \in Stream /\ c \in hasEvent') /\ okC
<1> DEFINE B(marks) == s \in Stream /\ marks
<1>1. PICK ok \in BOOLEAN, okC \in BOOLEAN, marks \in BOOLEAN :
        /\ queue' = Push(Finalized(b, ok), s,
             Awaits(b, s, ok)
               \o <<[Read(b, r) EXCEPT !.kind = IF state[b] = "unset" THEN "early_read" ELSE "read"],
                    [Write(c) EXCEPT !.kind = "write"]>>
               \o (IF A(okC) THEN <<Record(c)>> ELSE <<>>)
               \o (IF B(marks) THEN <<Mark(b, r)>> ELSE <<>>))
        /\ recorded' = recorded \cup {x \in {b, c} : IF x = b THEN Records(b, ok) ELSE A(okC)}
        /\ unrecorded' = unrecorded \cup {x \in {b, c} : IF x = b THEN Records(b, ~ok) ELSE A(~okC)}
        /\ readEvents' = [readEvents EXCEPT ![b] = Reaped(b) \cup (IF B(marks) THEN {r} ELSE {})]
        /\ unmarked' = IF B(marks) THEN unmarked ELSE unmarked \cup {r}
  BY DEF Copy
<1>2. /\ unrecorded \subseteq unrecorded'
      /\ Records(b, ~ok) => b \in unrecorded'
      /\ s \in Stream /\ c \in hasEvent' /\ ~A(okC) => c \in unrecorded'
      /\ A(okC) => s \in Stream /\ c \in hasEvent'
      /\ B(marks) => s \in Stream
  BY <1>0, <1>1
<1>3. unrecorded' \subseteq unrecorded \cup (hasEvent' \cap {b, c})
  BY <1>0, <1>1 DEF Records, Recordable
<1>4. A(okC) \in BOOLEAN /\ B(marks) \in BOOLEAN
  OBVIOUS
<1>5. Copied(b, c, s, r, ok, A(okC), B(marks))
  BY <1>1, <1>2, <1>3 DEF Copied
<1> HIDE DEF A, B
<1> QED
  BY <1>0, <1>4, <1>5

\* What clone and resize put on streams, behind what get_read_handle puts there, q: the
\* two kernels at n, and behind them the record of the new buffer and the mark.
LEMMA CopyQueue ==
  ASSUME IInv, NEW b \in Buffer, NEW c \in Buffer, NEW s \in AnyStream, NEW r \in Reader,
         NEW ok \in BOOLEAN, NEW A \in BOOLEAN, NEW B \in BOOLEAN, Copied(b, c, s, r, ok, A, B)
  PROVE  \E q \in Queues, from \in Op, to \in Op :
           /\ q = Push(Finalized(b, ok), s, Awaits(b, s, ok))
           /\ from.kind = (IF state[b] = "unset" THEN "early_read" ELSE "read")
           /\ from.buf = b /\ from.by = r
           /\ to.kind = "write" /\ to.buf = c
           /\ queue' \in Queues /\ Grown(q, queue')
           /\ Len(q[s]) + 2 \in 1 .. Len(queue'[s])
           /\ queue'[s][Len(q[s]) + 1] = from /\ queue'[s][Len(q[s]) + 2] = to
           /\ A =>
                \E j \in Len(q[s]) + 3 .. Len(queue'[s]) : queue'[s][j] = Record(c)
           /\ B => \E j \in Len(q[s]) + 3 .. Len(queue'[s]) : queue'[s][j] = Mark(b, r)
           /\ \A t \in AnyStream : \A i \in Len(q[t]) + 1 .. Len(queue'[t]) :
                /\ t = s
                /\ \/ i = Len(q[s]) + 1 \/ i = Len(q[s]) + 2
                   \/ A /\ queue'[s][i] = Record(c)
                   \/ B /\ queue'[s][i] = Mark(b, r)
<1>1. PICK q : q = Push(Finalized(b, ok), s, Awaits(b, s, ok))
  OBVIOUS
<1>2. q \in Queues
  <2>1. Finalized(b, ok) \in Queues
    BY FinalizedFacts DEF IInv
  <2>2. Await(b) \in Op /\ Waits(b, s, ok) \in BOOLEAN
    BY DEF Await, Op, Kinds, Waits
  <2>3. q = Push(Finalized(b, ok), s, IF Waits(b, s, ok) THEN <<Await(b)>> ELSE <<>>)
    BY <1>1 DEF Awaits, Waits
  <2> QED
    BY <2>1, <2>2, <2>3, PushIf
<1>3. PICK from \in Op : from = [Read(b, r) EXCEPT !.kind = IF state[b] = "unset" THEN "early_read" ELSE "read"]
  <2>1. CASE state[b] = "unset"
    BY <2>1 DEF Read, Op, Kinds
  <2>2. CASE state[b] # "unset"
    BY <2>2 DEF Read, Op, Kinds
  <2> QED
    BY <2>1, <2>2
<1>4. /\ from.kind = (IF state[b] = "unset" THEN "early_read" ELSE "read")
      /\ from.buf = b /\ from.by = r
  BY <1>3 DEF Read
<1>5. PICK to \in Op : to = [Write(c) EXCEPT !.kind = "write"]
  BY DEF Write, Op, Kinds
<1>6. to.kind = "write" /\ to.buf = c
  BY <1>5 DEF Write
<1> DEFINE rec == IF A THEN <<Record(c)>> ELSE <<>>
<1> DEFINE mark == IF B THEN <<Mark(b, r)>> ELSE <<>>
<1>10. Record(c) \in Op /\ Mark(b, r) \in Op
  BY DEF Record, Mark, Op, Kinds
<1> DEFINE pair == <<from, to>>
<1>11. /\ pair \in Seq(Op)
       /\ Len(pair) = 2 /\ pair[1] = from /\ pair[2] = to
  OBVIOUS
<1>12. rec \in Seq(Op) /\ mark \in Seq(Op) /\ Awaits(b, s, ok) \in Seq(Op) /\ Finalized(b, ok) \in Queues
  <2>1. rec \in Seq(Op)
    BY <1>10
  <2>2. mark \in Seq(Op)
    BY <1>10
  <2>3. Await(b) \in Op
    BY DEF Await, Op, Kinds
  <2>4. Awaits(b, s, ok) \in Seq(Op)
    BY <2>3 DEF Awaits
  <2> QED
    BY <2>1, <2>2, <2>4, FinalizedFacts DEF IInv
<1>13. queue' = Push(Finalized(b, ok), s, Awaits(b, s, ok) \o pair \o rec \o mark)
  BY <1>3, <1>5 DEF Copied
<1>a. rec = IF A THEN <<Record(c)>> ELSE <<>>
  OBVIOUS
<1>b. mark = IF B THEN <<Mark(b, r)>> ELSE <<>>
  OBVIOUS
<1> HIDE DEF rec, mark, pair
<1>14. PICK q1 : q1 = Push(q, s, pair)
  OBVIOUS
<1>15. PICK q2 : q2 = Push(q1, s, rec)
  OBVIOUS
<1>16. queue' = Push(q2, s, mark)
  <2>1. Awaits(b, s, ok) \o pair \in Seq(Op)
    BY <1>11, <1>12, ConcatProperties
  <2>2. Awaits(b, s, ok) \o pair \o rec \in Seq(Op)
    BY <2>1, <1>12, ConcatProperties
  <2>3. q1 = Push(Finalized(b, ok), s, Awaits(b, s, ok) \o pair)
    BY <1>1, <1>11, <1>12, <1>14, PushTwice
  <2>4. q2 = Push(Finalized(b, ok), s, Awaits(b, s, ok) \o pair \o rec)
    BY <2>1, <2>3, <1>12, <1>15, PushTwice
  <2> QED
    BY <2>2, <2>4, <1>12, <1>13, PushTwice
<1>17. /\ q1 \in Queues /\ Grown(q, q1)
       /\ \A t \in AnyStream : t # s => q1[t] = q[t]
       /\ Len(q1[s]) = Len(q[s]) + 2
       /\ q1[s][Len(q[s]) + 1] = from /\ q1[s][Len(q[s]) + 2] = to
  <2>1. /\ q1 \in Queues /\ Grown(q, q1)
        /\ \A t \in AnyStream : t # s => q1[t] = q[t]
        /\ Len(q1[s]) = Len(q[s]) + Len(pair)
        /\ \A i \in 1 .. Len(pair) : q1[s][Len(q[s]) + i] = pair[i]
    BY <1>2, <1>11, <1>14, PushFacts
  <2> QED
    BY <2>1, <1>11
<1>18. q2 \in Queues /\ PushedIf(q1, q2, s, Record(c), A)
  BY <1>a, <1>10, <1>15, <1>17, PushIf
<1>19. queue' \in Queues /\ PushedIf(q2, queue', s, Mark(b, r), B)
  BY <1>b, <1>10, <1>16, <1>18, PushIf
<1>20. /\ Grown(q, queue')
       /\ Len(q[s]) + 2 \in 1 .. Len(queue'[s])
       /\ queue'[s][Len(q[s]) + 1] = from /\ queue'[s][Len(q[s]) + 2] = to
       /\ A => \E j \in Len(q[s]) + 3 .. Len(queue'[s]) : queue'[s][j] = Record(c)
       /\ B => \E j \in Len(q[s]) + 3 .. Len(queue'[s]) : queue'[s][j] = Mark(b, r)
       /\ \A t \in AnyStream : \A i \in Len(q[t]) + 1 .. Len(queue'[t]) :
            /\ t = s
            /\ \/ i = Len(q[s]) + 1 \/ i = Len(q[s]) + 2
               \/ A /\ queue'[s][i] = Record(c)
               \/ B /\ queue'[s][i] = Mark(b, r)
  <2>1. CopyPushed(q, q1, q2, queue', s, from, to, Record(c), Mark(b, r), A, B)
    BY <1>17, <1>18, <1>19 DEF CopyPushed
  <2> QED
    BY <2>1, CopyOps
<1> QED
  BY <1>1, <1>2, <1>4, <1>6, <1>19, <1>20

\* What clone and resize have in common.
LEMMA CopyStep ==
  ASSUME IInv, NEW b \in Buffer, NEW c \in Buffer, NEW s \in AnyStream, NEW r \in Reader,
         Copy(b, c, s, r), phase'[b] # "absent", phase'[c] = "live",
         \A d \in Buffer : d \notin {b, c} => phase'[d] = phase[d]
  PROVE  /\ Extends /\ NewOpsOK
         /\ \A d \in Buffer :
              phase[d] # "absent" /\ state[d] # "in_use" /\ ~Pending(Record(d)) => ~Pending(Record(d))'
         /\ \A d \in Buffer : d \notin {b, c} =>
              state'[d] = state[d] /\ readEvents'[d] = readEvents[d] /\ (d \in recorded' <=> d \in recorded)
         /\ state'[b] = IF state[b] = "in_use" THEN "finalized" ELSE state[b]
         /\ b \in recorded' => b \in recorded \/ state[b] = "in_use"
         /\ b # c /\ state'[c] = "finalized"
<1> USE DEF IInv
<1>0. PICK ok \in BOOLEAN, A \in BOOLEAN, B \in BOOLEAN : Copied(b, c, s, r, ok, A, B)
  BY CopyOutcome
<1>1. /\ phase[b] = "live" /\ phase[c] = "absent" /\ b # c /\ reads' = reads /\ writer' = writer
      /\ hasEvent \subseteq hasEvent' /\ hasEvent' \subseteq hasEvent \cup {c}
      /\ unmarked' = IF B THEN unmarked ELSE unmarked \cup {r}
      /\ unrecorded \subseteq unrecorded' /\ (Records(b, ~ok) => b \in unrecorded')
      /\ A => s \in Stream /\ c \in hasEvent'
      /\ s \in Stream /\ c \in hasEvent' /\ ~A => c \in unrecorded'
  BY <1>0 DEF Copy, Copied
<1>2. /\ state'[b] = IF state[b] = "in_use" THEN "finalized" ELSE state[b]
      /\ state'[c] = "finalized"
      /\ readEvents'[b] = Reaped(b) \cup (IF B THEN {r} ELSE {})
      /\ \A d \in Buffer : d \notin {b, c} => state'[d] = state[d]
      /\ \A d \in Buffer : d # b => readEvents'[d] = readEvents[d]
  BY <1>0, <1>1 DEF Copy, Copied, TypeOK
<1>3. /\ recorded \subseteq recorded'
      /\ b \in recorded' <=> b \in recorded \/ Records(b, ok)
      /\ A => c \in recorded'
      /\ \A d \in Buffer : d \notin {b, c} => (d \in recorded' <=> d \in recorded)
  BY <1>0, <1>1 DEF Copied
<1>4. PICK q \in Queues, from \in Op, to \in Op :
           /\ q = Push(Finalized(b, ok), s, Awaits(b, s, ok))
           /\ from.kind = (IF state[b] = "unset" THEN "early_read" ELSE "read")
           /\ from.buf = b /\ from.by = r
           /\ to.kind = "write" /\ to.buf = c
           /\ queue' \in Queues /\ Grown(q, queue')
           /\ Len(q[s]) + 2 \in 1 .. Len(queue'[s])
           /\ queue'[s][Len(q[s]) + 1] = from /\ queue'[s][Len(q[s]) + 2] = to
           /\ A =>
                \E j \in Len(q[s]) + 3 .. Len(queue'[s]) : queue'[s][j] = Record(c)
           /\ B => \E j \in Len(q[s]) + 3 .. Len(queue'[s]) : queue'[s][j] = Mark(b, r)
           /\ \A t \in AnyStream : \A i \in Len(q[t]) + 1 .. Len(queue'[t]) :
                /\ t = s
                /\ \/ i = Len(q[s]) + 1 \/ i = Len(q[s]) + 2
                   \/ A /\ queue'[s][i] = Record(c)
                   \/ B /\ queue'[s][i] = Mark(b, r)
  BY <1>0, CopyQueue
<1>5. \A t \in AnyStream : \A i \in Len(q[t]) + 1 .. Len(queue'[t]) :
        queue'[t][i].kind = "record" => phase[queue'[t][i].buf] = "absent"
  <2>1. from.kind # "record" /\ to.kind # "record" /\ Mark(b, r).kind # "record" /\ Record(c).buf = c
    BY <1>4 DEF Mark, Record
  <2> QED
    BY <2>1, <1>1, <1>4
<1>6. /\ Grown(queue, q)
      /\ Grown(queue, queue')
      /\ Records(b, ok) =>
            \E j \in Len(queue[writer[b]]) + 1 .. Len(queue'[writer[b]]) :
              queue'[writer[b]][j] = Record(b)
      /\ \A d \in Buffer :
           phase[d] # "absent" /\ state[d] # "in_use" /\ ~Pending(Record(d)) => ~Pending(Record(d))'
      /\ \A t \in AnyStream : \A i \in Len(queue[t]) + 1 .. Len(q[t]) :
           q[t][i] = Await(b) \/ (Records(b, ok) /\ q[t][i] = Record(b))
      /\ s \in Stream /\ b \in hasEvent /\ state[b] # "unset" =>
           \A n \in Nat : n > Len(q[s]) => Ordered(b, s, n)'
  <2>1. /\ phase[b] = "live"
        /\ q \in Queues /\ queue' \in Queues /\ Grown(q, queue')
        /\ q = Push(Finalized(b, ok), s, Awaits(b, s, ok))
        /\ state'[b] = IF state[b] = "in_use" THEN "finalized" ELSE state[b]
    BY <1>1, <1>2, <1>4
  <2> QED
    BY <2>1, <1>5, Readying
<1>7. state[c] = "unset"
  BY <1>1 DEF BufferOK
<1>8. Extends
  <2>1. \A e \in readEvents[b] : e \in readEvents'[b] \/ ~Pending(Mark(b, e))
    BY <1>2 DEF Reaped
  <2>2. \A d \in Buffer : phase[d] # "absent" => phase'[d] # "absent" /\ (d \in hasEvent' <=> d \in hasEvent)
    BY <1>1
  <2>3. \A d \in Buffer : state[d] = "finalized" => state'[d] = "finalized"
    BY <1>2, <1>7
  <2>4. \A d \in Buffer : state[d] = "in_use" =>
            \/ state'[d] = "in_use" /\ writer'[d] = writer[d]
            \/ /\ state'[d] = "finalized"
               /\ writer[d] \in Stream /\ d \in Tracked' =>
                    \E j \in Len(queue[writer[d]]) + 1 .. Len(queue'[writer[d]]) :
                      queue'[writer[d]][j] = Record(d)
    <3>1. state[b] = "in_use" /\ writer[b] \in Stream /\ b \in Tracked' => Records(b, ok)
      BY <1>1 DEF Records, Recordable, Tracked
    <3> QED
      BY <1>1, <1>2, <1>6, <1>7, <3>1
  <2>5. \A d \in Buffer : \A e \in readEvents[d] : e \in readEvents'[d] \/ ~Pending(Mark(d, e))
    BY <1>2, <2>1
  <2> QED
    BY <1>1, <1>3, <1>6, <2>2, <2>3, <2>4, <2>5 DEF Extends
<1>9. NewOpsOK
  <2> SUFFICES ASSUME NEW t \in AnyStream, NEW i \in Len(queue[t]) + 1 .. Len(queue'[t])
               PROVE  (OpOK(t, i) /\ WriteOK(t, i) /\ RecordOK(t, i) /\ ReadOK(t, i)
                         /\ MarkedOK(t, i) /\ MarkOK(t, i))'
    BY DEF NewOpsOK, AnyStream
  <2>1. CASE queue'[t][i] = Await(b)
    BY <2>1, NewAwait
  <2>2. CASE Records(b, ok) /\ queue'[t][i] = Record(b)
    BY <2>2, <1>3, NewRecord
  <2>3. CASE A /\ queue'[t][i] = Record(c)
    BY <2>3, <1>3, NewRecord
  <2>4. CASE B /\ queue'[t][i] = Mark(b, r)
    <3>1. r \in readEvents'[b]
      BY <2>4, <1>2
    <3> QED
      BY <2>4, <3>1, NewMark
  <2>5. CASE t = s /\ i = Len(q[s]) + 1
    <3>1. queue'[t][i] = from /\ i \in Nat /\ i > Len(q[s]) /\ i + 2 = Len(q[s]) + 3
      BY <2>5, <1>4 DEF Grown
    <3>2. (OpOK(t, i) /\ WriteOK(t, i) /\ RecordOK(t, i) /\ MarkOK(t, i))'
      BY <3>1, <1>4 DEF OpOK, WriteOK, RecordOK, MarkOK
    <3>3. ReadOK(t, i)'
      <4> SUFFICES ASSUME from.kind = "read", s \in Stream, b \in hasEvent'
                   PROVE  Ordered(b, t, i)'
        BY <3>1, <2>5, <1>4 DEF ReadOK
      <4>1. b \in hasEvent /\ state[b] # "unset"
        BY <1>1, <1>4
      <4> QED
        BY <4>1, <3>1, <2>5, <1>6
    <3>4. MarkedOK(t, i)'
      <4>1. CASE ~B
        <5>1. r \in unmarked'
          BY <4>1, <1>1
        <5> QED
          BY <5>1, <3>1, <1>4 DEF MarkedOK
      <4>2. CASE B
        <5>1. PICK j \in Len(q[s]) + 3 .. Len(queue'[s]) : queue'[s][j] = Mark(b, r)
          BY <4>2, <1>4
        <5>2. j \in i + 1 .. Len(queue'[s])
          BY <2>5, <1>4 DEF Grown
        <5> QED
          BY <5>1, <5>2, <3>1, <2>5, <1>4 DEF MarkedOK, Mark
      <4> QED
        BY <4>1, <4>2
    <3> QED
      BY <3>2, <3>3, <3>4
  <2>6. CASE t = s /\ i = Len(q[s]) + 2
    <3>1. queue'[t][i] = to
      BY <2>6, <1>4
    <3>2. (OpOK(t, i) /\ RecordOK(t, i) /\ ReadOK(t, i) /\ MarkedOK(t, i) /\ MarkOK(t, i))'
      BY <3>1, <1>4 DEF OpOK, RecordOK, ReadOK, MarkedOK, MarkOK
    <3>3. WriteOK(t, i)'
      <4> SUFFICES ASSUME s \in Stream, c \in Tracked'
                   PROVE  \E j \in i + 1 .. Len(queue'[s]) : queue'[s][j] = Record(c)
        BY <3>1, <2>6, <1>2, <1>4 DEF WriteOK, Record
      <4>0. A
        BY <1>1 DEF Tracked
      <4>1. PICK j \in Len(q[s]) + 3 .. Len(queue'[s]) : queue'[s][j] = Record(c)
        BY <4>0, <1>4
      <4>2. j \in i + 1 .. Len(queue'[s])
        BY <2>6, <1>4 DEF Grown
      <4> QED
        BY <4>1, <4>2
    <3> QED
      BY <3>2, <3>3
  <2>7. CASE i \in Len(queue[t]) + 1 .. Len(q[t])
    <3>1. queue'[t][i] = q[t][i]
      <4>1. Grown(q, queue') /\ Grown(queue, q)
        BY <1>4, <1>6
      <4> QED
        BY <4>1, <2>7 DEF Grown
    <3> QED
      BY <3>1, <2>1, <2>2, <2>7, <1>6
  <2>8. CASE i \in Len(q[t]) + 1 .. Len(queue'[t])
    BY <2>3, <2>4, <2>5, <2>6, <2>8, <1>4
  <2>9. i \in Len(queue[t]) + 1 .. Len(q[t]) \/ i \in Len(q[t]) + 1 .. Len(queue'[t])
    BY <1>4, <1>6 DEF Grown
  <2> QED
    BY <2>7, <2>8, <2>9
<1>10. b \in recorded' => b \in recorded \/ state[b] = "in_use"
  BY <1>3 DEF Records, Recordable
<1> QED
  BY <1>1, <1>2, <1>3, <1>6, <1>8, <1>9, <1>10

LEMMA CloneStep ==
  ASSUME IInv, NEW b \in Buffer, NEW c \in Buffer, NEW s \in AnyStream, NEW r \in Reader,
         Clone(b, c, s, r)
  PROVE  BufferOK' /\ RetireOK' /\ HandleOK' /\ Extends /\ NewOpsOK
<1> USE DEF IInv
<1>1. /\ phase[b] = "live" /\ phase[c] = "absent" /\ writer' = writer /\ reads' = reads
      /\ handles \subseteq handles' /\ retireQ' = retireQ
      /\ hasEvent \subseteq hasEvent' /\ hasEvent' \subseteq hasEvent \cup {c}
      /\ \A d \in Buffer : phase'[d] = IF d = c THEN "live" ELSE phase[d]
  BY DEF Clone, Copy, TypeOK
<1>2. /\ Extends /\ NewOpsOK
      /\ \A d \in Buffer :
           phase[d] # "absent" /\ state[d] # "in_use" /\ ~Pending(Record(d)) => ~Pending(Record(d))'
      /\ \A d \in Buffer : d \notin {b, c} =>
           state'[d] = state[d] /\ readEvents'[d] = readEvents[d] /\ (d \in recorded' <=> d \in recorded)
      /\ state'[b] = IF state[b] = "in_use" THEN "finalized" ELSE state[b]
      /\ b \in recorded' => b \in recorded \/ state[b] = "in_use"
      /\ b # c /\ state'[c] = "finalized"
  BY <1>1, CopyStep DEF Clone
<1>3. BufferOK'
  <2>1. \A d \in Buffer : phase[d] = "freed" => ~Pending(Record(d))'
    BY <1>2 DEF BufferOK
  <2>2. writer[c] = NoStream
    BY <1>1 DEF BufferOK
  <2>3. ASSUME NEW d \in Buffer, d \notin {b, c}
        PROVE  /\ phase'[d] = "absent" => state'[d] = "unset" /\ d \notin hasEvent'
               /\ state'[d] = "unset" => d \notin recorded' /\ writer'[d] = NoStream
               /\ state'[d] = "in_use" => d \notin recorded' /\ writer'[d] # NoStream
               /\ writer'[d] # NoStream => phase'[d] = "live"
               /\ phase'[d] = "freed" => readEvents'[d] = {} /\ ~Pending(Record(d))'
    BY <2>1, <2>3, <1>1, <1>2 DEF BufferOK
  <2> QED
    BY <2>2, <2>3, <1>1, <1>2 DEF BufferOK, Record
<1>4. RetireOK'
  BY <1>1, ElementOfSeq DEF RetireOK, TypeOK
<1>5. HandleOK'
  BY <1>1, <1>2, HeldStays DEF HandleOK, HeldOK, TypeOK, Handle
<1> QED
  BY <1>2, <1>3, <1>4, <1>5

\* What was never recorded is in no queue.
LEMMA NotRecorded ==
  ASSUME IInv, NEW b \in Buffer, b \notin hasEvent
  PROVE  ~Pending(Record(b))
<1> SUFFICES ASSUME NEW t \in AnyStream, NEW i \in 1 .. Len(queue[t]), queue[t][i] = Record(b)
             PROVE  FALSE
  BY DEF Pending, Contains
<1> QED
  BY DEF IInv, QueueOK, RecordOK, Record, TypeOK

LEMMA ResizeStep ==
  ASSUME IInv, NEW b \in Buffer, NEW c \in Buffer, NEW s \in AnyStream, NEW r \in Reader,
         Resize(b, c, s, r)
  PROVE  BufferOK' /\ RetireOK' /\ HandleOK' /\ Extends /\ NewOpsOK
<1> USE DEF IInv
<1>1. /\ phase[b] = "live" /\ phase[c] = "absent" /\ writer' = writer /\ reads' = reads
      /\ handles \subseteq handles'
      /\ hasEvent \subseteq hasEvent' /\ hasEvent' \subseteq hasEvent \cup {c}
      /\ writer[b] = NoStream /\ \A q \in Reader : reads[q].buf # b
  BY DEF Resize, Copy, Unused
<1>2. /\ b # c /\ phase'[c] = "live"
      /\ \A d \in Buffer : d \notin {b, c} => phase'[d] = phase[d]
      /\ \/ phase'[b] = "retiring" /\ retireQ' = Append(retireQ, b)
         \/ phase'[b] = "freed" /\ retireQ' = retireQ /\ b \notin hasEvent /\ readEvents'[b] = {}
  BY <1>1 DEF Resize, TypeOK
<1>3. /\ Extends /\ NewOpsOK
      /\ \A d \in Buffer :
           phase[d] # "absent" /\ state[d] # "in_use" /\ ~Pending(Record(d)) => ~Pending(Record(d))'
      /\ \A d \in Buffer : d \notin {b, c} =>
           state'[d] = state[d] /\ readEvents'[d] = readEvents[d] /\ (d \in recorded' <=> d \in recorded)
      /\ state'[b] = IF state[b] = "in_use" THEN "finalized" ELSE state[b]
      /\ b \in recorded' => b \in recorded \/ state[b] = "in_use"
      /\ b # c /\ state'[c] = "finalized"
  BY <1>2, CopyStep DEF Resize
<1>4. state[b] # "in_use"
  BY <1>1 DEF BufferOK
<1>5. BufferOK'
  <2>1. \A d \in Buffer : phase[d] = "freed" => ~Pending(Record(d))'
    BY <1>3 DEF BufferOK
  <2>2. writer[c] = NoStream
    BY <1>1 DEF BufferOK
  <2>3. ASSUME NEW d \in Buffer, d \notin {b, c}
        PROVE  /\ phase'[d] = "absent" => state'[d] = "unset" /\ d \notin hasEvent'
               /\ state'[d] = "unset" => d \notin recorded' /\ writer'[d] = NoStream
               /\ state'[d] = "in_use" => d \notin recorded' /\ writer'[d] # NoStream
               /\ writer'[d] # NoStream => phase'[d] = "live"
               /\ phase'[d] = "freed" => readEvents'[d] = {} /\ ~Pending(Record(d))'
    BY <2>1, <2>3, <1>1, <1>2, <1>3 DEF BufferOK
  <2>4. phase'[b] = "freed" => readEvents'[b] = {} /\ ~Pending(Record(b))'
    BY <1>1, <1>2, <1>3, <1>4, NotRecorded
  <2>5. state'[b] = "unset" => b \notin recorded'
    BY <1>3, <1>4 DEF BufferOK
  <2> QED
    BY <2>2, <2>3, <2>4, <2>5, <1>1, <1>2, <1>3, <1>4 DEF BufferOK, Record
<1>6. RetireOK'
  <2>1. \A i \in 1 .. Len(retireQ) : retireQ[i] \notin {b, c} /\ retireQ[i] \in Buffer
    BY <1>1, ElementOfSeq DEF RetireOK, TypeOK
  <2>2. CASE retireQ' = retireQ
    BY <1>2, <2>1, <2>2 DEF RetireOK
  <2>3. CASE retireQ' = Append(retireQ, b) /\ phase'[b] = "retiring"
    <3>1. /\ Len(retireQ) \in Nat /\ Len(retireQ') = Len(retireQ) + 1
          /\ retireQ'[Len(retireQ) + 1] = b
          /\ \A i \in 1 .. Len(retireQ) : retireQ'[i] = retireQ[i]
      BY <2>3, AppendProperties, LenProperties DEF TypeOK
    <3> QED
      BY <1>2, <2>1, <2>3, <3>1 DEF RetireOK
  <2> QED
    BY <2>2, <2>3, <1>2
<1>7. HandleOK'
  <2> SUFFICES ASSUME NEW q \in Reader
               PROVE  HeldOK(q)'
    BY DEF HandleOK
  <2>1. reads[q] # NoHandle => phase'[reads[q].buf] = "live"
    BY <1>1, <1>2 DEF HandleOK, HeldOK, TypeOK, Handle
  <2> QED
    BY <2>1, <1>1, <1>3, HeldStays
<1> QED
  BY <1>3, <1>5, <1>6, <1>7

\* The GPU takes the first operation of a stream.  What was ordered by a wait that is
\* taken is so because there is nothing left to wait for.
LEMMA StreamStepStep ==
  ASSUME IInv, NEW s \in AnyStream, StreamStep(s)
  PROVE  BufferOK' /\ RetireOK' /\ HandleOK' /\ QueueOK'
<1> USE DEF IInv, StreamStep
<1>1. /\ queue[s] \in Seq(Op) /\ queue[s] # <<>> /\ queue'[s] = Tail(queue[s])
      /\ \A t \in AnyStream : t # s => queue'[t] = queue[t]
      /\ \A t \in AnyStream : Len(queue[t]) \in Nat
  BY LenProperties DEF TypeOK
<1>a. /\ phase' = phase /\ hasEvent' = hasEvent /\ state' = state /\ writer' = writer
      /\ recorded' = recorded /\ readEvents' = readEvents /\ reads' = reads
      /\ handles' = handles /\ retireQ' = retireQ /\ unmarked' = unmarked
      /\ unrecorded' = unrecorded /\ Tracked' = Tracked
      /\ Head(queue[s]).kind = "wait" => WriteEventDone(Head(queue[s]).buf)
  BY DEF Tracked
<1> HIDE DEF StreamStep
<1>2. /\ Len(queue[s]) \in Nat \ {0} /\ Len(queue'[s]) = Len(queue[s]) - 1
      /\ \A i \in 1 .. Len(queue'[s]) : queue'[s][i] = queue[s][i + 1]
      /\ Head(queue[s]) = queue[s][1]
  <2>1. PICK q \in Seq(Op) : q = queue[s]
    BY <1>1
  <2>2. /\ Len(q) \in Nat \ {0} /\ Len(Tail(q)) = Len(q) - 1
        /\ \A i \in 1 .. Len(Tail(q)) : Tail(q)[i] = q[i + 1]
        /\ Head(q) = q[1]
    BY <1>1, <2>1, HeadTailProperties, EmptySeq, LenProperties
  <2> QED
    BY <1>1, <2>1, <2>2
<1>3. \A op : Pending(op)' => Pending(op)
  <2> SUFFICES ASSUME NEW op, NEW t \in AnyStream, NEW i \in 1 .. Len(queue'[t]), queue'[t][i] = op
               PROVE  \E u \in AnyStream : \E j \in 1 .. Len(queue[u]) : queue[u][j] = op
    BY DEF Pending, Contains, AnyStream
  <2>1. CASE t # s
    BY <2>1, <1>1
  <2>2. CASE t = s
    BY <2>2, <1>2
  <2> QED
    BY <2>1, <2>2
<1>4. \A b \in Buffer : ~Pending(Record(b)) => ~Pending(Record(b))'
  BY <1>3 DEF Record
<1>5. BufferOK' /\ RetireOK'
  BY <1>a, <1>4 DEF BufferOK, RetireOK, Record
<1>6. ASSUME NEW b \in Buffer, NEW n \in 1 .. Len(queue[s]), Ordered(b, s, n + 1)
      PROVE  Ordered(b, s, n)'
  <2>1. state'[b] = "finalized"
    BY <1>a, <1>6 DEF Ordered
  <2>2. CASE ~Pending(Record(b))
    BY <2>1, <2>2, <1>4 DEF Ordered, Await, Record
  <2>3. CASE \E j \in 1 .. n : queue[s][j] = Await(b)
    <3>1. PICK j \in 1 .. n : queue[s][j] = Await(b)
      BY <2>3
    <3>2. CASE j = 1
      <4>1. WriteEventDone(b)
        BY <1>a, <3>1, <3>2, <1>2 DEF Await
      <4> QED
        BY <2>1, <4>1, <1>4 DEF WriteEventDone, Ordered, Await, Record
    <3>3. CASE j # 1
      <4>1. j - 1 \in 1 .. n - 1 /\ j - 1 \in 1 .. Len(queue'[s]) /\ (j - 1) + 1 = j
        BY <3>3, <1>2
      <4>2. queue'[s][j - 1] = Await(b)
        BY <4>1, <3>1, <1>2
      <4> QED
        BY <2>1, <4>1, <4>2 DEF Ordered, Await
    <3> QED
      BY <3>2, <3>3
  <2>4. (n + 1) - 1 = n
    OBVIOUS
  <2> QED
    BY <2>2, <2>3, <2>4, <1>6 DEF Ordered
<1>7. ASSUME NEW b \in Buffer, NEW t \in AnyStream, t # s, NEW n, Ordered(b, t, n)
      PROVE  Ordered(b, t, n)'
  BY <1>a, <1>1, <1>4, <1>7 DEF Ordered, Await, Record
<1>8. HandleOK'
  <2> SUFFICES ASSUME NEW r \in Reader, reads[r] # NoHandle
               PROVE  HeldOK(r)'
    BY <1>a DEF HandleOK, HeldOK
  <2>1. PICK b \in Buffer, t \in AnyStream : reads[r].buf = b /\ reads[r].stream = t
    BY DEF TypeOK, Handle
  <2>2. r \in handles /\ phase[b] = "live"
    BY <2>1 DEF HandleOK, HeldOK
  <2> SUFFICES ASSUME ~reads[r].early, t \in Stream, b \in hasEvent
               PROVE  Ordered(b, t, Len(queue[t]) + 1)'
    BY <1>a, <2>1, <2>2 DEF HeldOK, Ordered, Await, Record
  <2>3. Ordered(b, t, Len(queue[t]) + 1)
    BY <2>1 DEF HandleOK, HeldOK
  <2>4. CASE t # s
    <3>1. PICK n : n = Len(queue[t]) + 1
      OBVIOUS
    <3>2. Ordered(b, t, n)'
      BY <3>1, <2>3, <2>4, <1>7
    <3> QED
      BY <3>1, <3>2, <2>4, <1>1 DEF Ordered, Await, Record
  <2>5. CASE t = s
    <3>1. PICK n \in 1 .. Len(queue[s]) : n = Len(queue[s])
      BY <1>2
    <3>2. Ordered(b, s, n)'
      BY <3>1, <2>3, <2>5, <1>6
    <3>3. n = Len(queue'[s]) + 1
      BY <3>1, <1>2
    <3> QED
      BY <3>2, <3>3, <2>5 DEF Ordered, Await, Record
  <2> QED
    BY <2>4, <2>5
<1>9. ASSUME NEW t \in AnyStream, NEW i \in 1 .. Len(queue'[t])
      PROVE  (OpOK(t, i) /\ WriteOK(t, i) /\ RecordOK(t, i) /\ ReadOK(t, i) /\ MarkedOK(t, i)
                /\ MarkOK(t, i))'
  <2>1. CASE t # s
    <3>1. queue'[t] = queue[t] /\ i \in 1 .. Len(queue[t])
      BY <2>1, <1>1, <1>9
    <3>2. /\ OpOK(t, i) /\ WriteOK(t, i) /\ RecordOK(t, i) /\ ReadOK(t, i) /\ MarkedOK(t, i)
          /\ MarkOK(t, i)
      BY <3>1 DEF QueueOK
    <3>a. PICK op \in Op : queue[t][i] = op
      BY <3>1 DEF TypeOK
    <3>b. op.buf \in Buffer
      BY DEF Op
    <3>3. (OpOK(t, i) /\ WriteOK(t, i) /\ RecordOK(t, i) /\ MarkedOK(t, i) /\ MarkOK(t, i))'
      <4>1. (OpOK(t, i) /\ RecordOK(t, i) /\ MarkOK(t, i))'
        BY <1>a, <3>1, <3>2 DEF OpOK, RecordOK, MarkOK
      <4>2. WriteOK(t, i)'
        BY <1>a, <3>1, <3>2, <3>a DEF WriteOK, Record
      <4>3. MarkedOK(t, i)'
        BY <1>a, <3>1, <3>2, <3>a DEF MarkedOK, Mark
      <4> QED
        BY <4>1, <4>2, <4>3
    <3>4. ReadOK(t, i)'
      BY <1>a, <3>1, <3>2, <3>a, <3>b, <2>1, <1>7 DEF ReadOK, Ordered, Await, Record
    <3> QED
      BY <3>3, <3>4
  <2>2. CASE t = s
    <3>1. queue'[s][i] = queue[s][i + 1] /\ i + 1 \in 1 .. Len(queue[s]) /\ i \in 1 .. Len(queue[s])
      BY <2>2, <1>2, <1>9
    <3>2. /\ OpOK(s, i + 1) /\ WriteOK(s, i + 1) /\ RecordOK(s, i + 1) /\ ReadOK(s, i + 1)
          /\ MarkedOK(s, i + 1) /\ MarkOK(s, i + 1)
      BY <3>1 DEF QueueOK
    <3>3. PICK op \in Op : queue[s][i + 1] = op
      BY <3>1, <1>1 DEF TypeOK
    <3>4. op.buf \in Buffer
      BY DEF Op
    <3>a. queue'[s][i] = op
      BY <3>1, <3>3
    <3>5. \A j \in i + 2 .. Len(queue[s]) :
            j - 1 \in i + 1 .. Len(queue'[s]) /\ queue'[s][j - 1] = queue[s][j]
      BY <3>1, <1>2
    <3>6. (OpOK(s, i) /\ RecordOK(s, i) /\ MarkOK(s, i))'
      BY <1>a, <3>1, <3>2, <3>3 DEF OpOK, RecordOK, MarkOK
    <3>7. WriteOK(s, i)'
      <4> SUFFICES ASSUME op.kind = "write", ~(state[op.buf] = "in_use" /\ writer[op.buf] = s)
                   PROVE  /\ state[op.buf] = "finalized"
                          /\ s \in Stream /\ op.buf \in Tracked =>
                               \E j \in i + 1 .. Len(queue'[s]) : queue'[s][j] = Record(op.buf)
        BY <1>a, <3>a DEF WriteOK, Record
      <4>1. /\ state[op.buf] = "finalized"
            /\ s \in Stream /\ op.buf \in Tracked =>
                 \E j \in (i + 1) + 1 .. Len(queue[s]) : queue[s][j] = Record(op.buf)
        BY <3>2, <3>3 DEF WriteOK
      <4>2. (i + 1) + 1 = i + 2
        BY <3>1
      <4> QED
        BY <4>1, <4>2, <3>5
    <3>8. ReadOK(s, i)'
      <4> SUFFICES ASSUME op.kind = "read", s \in Stream, op.buf \in hasEvent
                   PROVE  Ordered(op.buf, s, i)'
        BY <1>a, <3>1, <3>3 DEF ReadOK
      <4>1. Ordered(op.buf, s, i + 1)
        BY <3>2, <3>3 DEF ReadOK
      <4> QED
        BY <4>1, <3>1, <3>4, <1>6
    <3>9. MarkedOK(s, i)'
      <4> SUFFICES ASSUME op.kind \in {"read", "early_read"}, s \in Stream, op.by \notin unmarked,
                          ~(/\ op.by \in Reader /\ reads[op.by] # NoHandle
                            /\ reads[op.by].buf = op.buf /\ reads[op.by].stream = s)
                   PROVE  \E j \in i + 1 .. Len(queue'[s]) : queue'[s][j] = Mark(op.buf, op.by)
        BY <1>a, <3>a DEF MarkedOK, Mark
      <4>1. \E j \in (i + 1) + 1 .. Len(queue[s]) : queue[s][j] = Mark(op.buf, op.by)
        BY <3>2, <3>3 DEF MarkedOK
      <4>2. (i + 1) + 1 = i + 2
        BY <3>1
      <4> QED
        BY <4>1, <4>2, <3>5
    <3> QED
      BY <3>6, <3>7, <3>8, <3>9, <2>2
  <2> QED
    BY <2>1, <2>2
<1>10. QueueOK'
  BY <1>9 DEF QueueOK, AnyStream
<1> QED
  BY <1>5, <1>8, <1>10
-----------------------------------------------------------------------------
LEMMA InitIInv ==
  ASSUME Init
  PROVE  IInv
<1> USE DEF Init
<1>1. \A s \in AnyStream : queue[s] = <<>> /\ Len(queue[s]) = 0
  OBVIOUS
<1>2. \A op : ~Pending(op)
  BY <1>1 DEF Pending, Contains
<1>3. TypeOK
  <2>1. queue \in [AnyStream -> Seq(Op)] /\ retireQ \in Seq(Buffer)
    OBVIOUS
  <2>2. writer \in [Buffer -> AnyStream \cup {NoStream}]
    OBVIOUS
  <2>3. kernels \in 0 .. MaxKernel
    BY ConstantsOK DEF ConstantsOK
  <2> QED
    BY <2>1, <2>2, <2>3 DEF TypeOK, Phases, States
<1>4. BufferOK
  BY DEF BufferOK
<1>5. RetireOK
  BY DEF RetireOK
<1>6. HandleOK
  BY DEF HandleOK, HeldOK
<1>7. QueueOK
  BY <1>1 DEF QueueOK
<1> QED
  BY <1>3, <1>4, <1>5, <1>6, <1>7 DEF IInv

\* What a copy does to the types.
LEMMA CopyTypes ==
  ASSUME IInv, NEW b \in Buffer, NEW c \in Buffer, NEW s \in AnyStream, NEW r \in Reader,
         Copy(b, c, s, r)
  PROVE  /\ hasEvent' \in SUBSET Buffer /\ state' \in [Buffer -> States] /\ recorded' \in SUBSET hasEvent'
         /\ unrecorded' \in SUBSET hasEvent'
         /\ readEvents' \in [Buffer -> SUBSET Reader] /\ handles' \in SUBSET Reader
         /\ queue' \in Queues /\ kernels' \in 0 .. MaxKernel /\ unmarked' \in SUBSET handles'
<1> USE DEF IInv, TypeOK
<1>0. PICK ok \in BOOLEAN, A \in BOOLEAN, B \in BOOLEAN : Copied(b, c, s, r, ok, A, B)
  BY CopyOutcome
<1>1. queue' \in Queues
  BY <1>0, CopyQueue
<1>2. hasEvent' \in SUBSET Buffer /\ handles' \in SUBSET Reader /\ unmarked' \in SUBSET handles'
  BY <1>0 DEF Copy, Copied
<1>3. state' \in [Buffer -> States]
  BY DEF Copy, States
<1>4. recorded' \in SUBSET hasEvent' /\ unrecorded' \in SUBSET hasEvent'
  BY <1>0 DEF Copy, Copied, Records, Recordable
<1>5. readEvents' \in [Buffer -> SUBSET Reader]
  <2>1. Reaped(b) \cup (IF B THEN {r} ELSE {}) \in SUBSET Reader
    BY DEF Reaped
  <2> QED
    BY <1>0, <2>1 DEF Copied
<1>6. kernels' \in 0 .. MaxKernel
  BY ConstantsOK DEF Copy, ConstantsOK
<1> QED
  BY <1>1, <1>2, <1>3, <1>4, <1>5, <1>6

LEMMA FinalizedTypes ==
  ASSUME IInv, NEW b \in Buffer, NEW ok \in BOOLEAN, hasEvent' = hasEvent, Outcome(b, ok)
  PROVE  /\ Finalized(b, ok) \in [AnyStream -> Seq(Op)]
         /\ recorded' \in SUBSET hasEvent' /\ unrecorded' \in SUBSET hasEvent'
<1> QED
  BY FinalizedFacts DEF IInv, TypeOK, Records, Recordable, Outcome, Queues

LEMMA ReapedTypes ==
  ASSUME TypeOK, NEW b \in Buffer
  PROVE  Reaped(b) \in SUBSET Reader
<1> QED
  BY DEF TypeOK, Reaped

LEMMA TypeOKStep ==
  ASSUME IInv, Next
  PROVE  TypeOK'
<1> USE DEF IInv, TypeOK
<1>1. ASSUME NEW b \in Buffer, Allocate(b)
      PROVE  TypeOK'
  BY <1>1 DEF Allocate, Phases
<1>2. ASSUME NEW b \in Buffer, NEW s \in AnyStream, GetWriteHandle(b, s)
      PROVE  TypeOK'
  BY <1>2 DEF GetWriteHandle, States
<1>3. ASSUME NEW b \in Buffer, GetWriteHandleThrows(b)
      PROVE  TypeOK'
  BY <1>3, ReapedTypes DEF GetWriteHandleThrows
<1>4. ASSUME NEW b \in Buffer, Finalize(b) \/ ReleaseWrite(b)
      PROVE  TypeOK'
  <2>1. PICK ok \in BOOLEAN : queue' = Finalized(b, ok) /\ Outcome(b, ok)
    BY <1>4 DEF Finalize, ReleaseWrite
  <2>2. /\ queue' \in [AnyStream -> Seq(Op)]
        /\ recorded' \in SUBSET hasEvent' /\ unrecorded' \in SUBSET hasEvent'
    BY <1>4, <2>1, FinalizedTypes DEF Finalize, ReleaseWrite
  <2>3. state' \in [Buffer -> States] /\ writer' \in [Buffer -> AnyStream \cup {NoStream}]
    BY <1>4 DEF Finalize, ReleaseWrite, States
  <2> QED
    BY <1>4, <2>2, <2>3 DEF Finalize, ReleaseWrite
<1>5. ASSUME NEW b \in Buffer, NEW s \in AnyStream, NEW r \in Reader, GetReadHandle(b, s, r)
      PROVE  TypeOK'
  <2>0. PICK ok \in BOOLEAN :
          queue' = Push(Finalized(b, ok), s, Awaits(b, s, ok)) /\ Outcome(b, ok)
    BY <1>5 DEF GetReadHandle
  <2>1. Await(b) \in Op /\ Waits(b, s, ok) \in BOOLEAN
    BY DEF Await, Op, Kinds, Waits
  <2>2. queue' = Push(Finalized(b, ok), s, IF Waits(b, s, ok) THEN <<Await(b)>> ELSE <<>>)
    BY <2>0 DEF Awaits, Waits
  <2>a. Finalized(b, ok) \in Queues
    BY FinalizedFacts
  <2>3. queue' \in [AnyStream -> Seq(Op)]
    BY <2>1, <2>2, <2>a, PushIf DEF Queues
  <2>4. state' \in [Buffer -> States] /\ readEvents' \in [Buffer -> SUBSET Reader]
    BY <1>5, ReapedTypes DEF GetReadHandle, States
  <2>5. reads' \in [Reader -> Handle \cup {NoHandle}]
    BY <1>5 DEF GetReadHandle, Handle
  <2>6. /\ recorded' \in SUBSET hasEvent' /\ unrecorded' \in SUBSET hasEvent'
        /\ handles' \in SUBSET Reader /\ unmarked' \in SUBSET handles'
    BY <1>5, <2>0, FinalizedTypes DEF GetReadHandle
  <2> QED
    BY <1>5, <2>3, <2>4, <2>5, <2>6 DEF GetReadHandle
<1>14. ASSUME NEW b \in Buffer, NEW s \in AnyStream, GetReadHandleThrows(b, s)
      PROVE  TypeOK'
  <2>1. PICK ok \in BOOLEAN : queue' = Finalized(b, ok) /\ Outcome(b, ok)
    BY <1>14 DEF GetReadHandleThrows
  <2>2. /\ queue' \in [AnyStream -> Seq(Op)]
        /\ recorded' \in SUBSET hasEvent' /\ unrecorded' \in SUBSET hasEvent'
    BY <1>14, <2>1, FinalizedTypes DEF GetReadHandleThrows
  <2>3. state' \in [Buffer -> States] /\ readEvents' \in [Buffer -> SUBSET Reader]
    BY <1>14, ReapedTypes DEF GetReadHandleThrows, States
  <2> QED
    BY <1>14, <2>2, <2>3 DEF GetReadHandleThrows
<1>6. ASSUME NEW b \in Buffer, QueueWrite(b)
      PROVE  TypeOK'
  <2>1. Write(b) \in Op /\ writer[b] \in AnyStream
    BY <1>6 DEF QueueWrite, Write, Op, Kinds
  <2>2. queue' \in [AnyStream -> Seq(Op)]
    BY <1>6, <2>1, PushOne DEF QueueWrite, Queues
  <2>3. kernels' \in 0 .. MaxKernel
    BY <1>6, ConstantsOK DEF QueueWrite, ConstantsOK
  <2> QED
    BY <1>6, <2>2, <2>3 DEF QueueWrite
<1>7. ASSUME NEW r \in Reader, QueueRead(r)
      PROVE  TypeOK'
  <2>1. PICK b \in Buffer, s \in AnyStream, early \in BOOLEAN :
          reads[r] = [buf |-> b, stream |-> s, early |-> early]
    BY <1>7 DEF QueueRead, Handle
  <2>2. PICK op \in Op : queue' = Push(queue, s, <<op>>)
    <3>1. CASE early
      <4>1. [Read(b, r) EXCEPT !.kind = "early_read"] \in Op
        BY DEF Read, Op, Kinds
      <4>2. queue' = Push(queue, s, <<[Read(b, r) EXCEPT !.kind = "early_read"]>>)
        BY <1>7, <2>1, <3>1 DEF QueueRead
      <4> QED
        BY <4>1, <4>2
    <3>2. CASE ~early
      <4>1. [Read(b, r) EXCEPT !.kind = "read"] \in Op
        BY DEF Read, Op, Kinds
      <4> QED
        BY <1>7, <2>1, <3>2, <4>1 DEF QueueRead, Read
    <3> QED
      BY <3>1, <3>2
  <2>3. queue' \in [AnyStream -> Seq(Op)]
    BY <2>2, PushOne DEF Queues
  <2>4. kernels' \in 0 .. MaxKernel
    BY <1>7, ConstantsOK DEF QueueRead, ConstantsOK
  <2> QED
    BY <1>7, <2>3, <2>4 DEF QueueRead
<1>8. ASSUME NEW r \in Reader, ReleaseRead(r)
      PROVE  TypeOK'
  <2>1. reads[r] # NoHandle
    BY <1>8, ConstantsOK DEF ReleaseRead, ConstantsOK, NoHandle
  <2>2. PICK b \in Buffer, s \in AnyStream : reads[r].buf = b /\ reads[r].stream = s
    BY <2>1 DEF Handle
  <2>3. Mark(b, r) \in Op /\ queue' = Push(queue, s, <<Mark(b, r)>>)
    BY <1>8, <2>2 DEF ReleaseRead, Mark, Op, Kinds
  <2>4. queue' \in [AnyStream -> Seq(Op)]
    BY <2>3, PushOne DEF Queues
  <2>5. readEvents' \in [Buffer -> SUBSET Reader] /\ reads' \in [Reader -> Handle \cup {NoHandle}]
    BY <1>8, <2>2 DEF ReleaseRead
  <2> QED
    BY <1>8, <2>4, <2>5 DEF ReleaseRead
<1>9. ASSUME NEW r \in Reader, ReleaseReadUnmarked(r)
      PROVE  TypeOK'
  BY <1>9 DEF ReleaseReadUnmarked, HandleOK, HeldOK
<1>10. ASSUME NEW b \in Buffer, NEW c \in Buffer, NEW s \in AnyStream, NEW r \in Reader,
              Clone(b, c, s, r) \/ Resize(b, c, s, r)
       PROVE  TypeOK'
  <2>1. Copy(b, c, s, r) /\ writer' = writer /\ reads' = reads
    BY <1>10 DEF Clone, Resize, Copy
  <2>2. /\ hasEvent' \in SUBSET Buffer /\ state' \in [Buffer -> States] /\ recorded' \in SUBSET hasEvent'
        /\ unrecorded' \in SUBSET hasEvent'
        /\ readEvents' \in [Buffer -> SUBSET Reader] /\ handles' \in SUBSET Reader
        /\ queue' \in Queues /\ kernels' \in 0 .. MaxKernel /\ unmarked' \in SUBSET handles'
    BY <2>1, CopyTypes
  <2>3. phase' \in [Buffer -> Phases] /\ retireQ' \in Seq(Buffer)
    <3>1. Append(retireQ, b) \in Seq(Buffer)
      BY AppendProperties
    <3> QED
      BY <1>10, <3>1 DEF Clone, Resize, Phases
  <2> QED
    BY <2>1, <2>2, <2>3 DEF Queues
<1>11. ASSUME NEW b \in Buffer, Drop(b)
       PROVE  TypeOK'
  <2>1. Append(retireQ, b) \in Seq(Buffer)
    BY AppendProperties
  <2>2. phase' \in [Buffer -> Phases] /\ retireQ' \in Seq(Buffer)
    BY <1>11, <2>1 DEF Drop, Destroy, Phases
  <2> QED
    BY <1>11, <2>2 DEF Drop, Destroy
<1>12. ASSUME Retire
       PROVE  TypeOK'
  BY <1>12, HeadTailProperties DEF Retire, Phases
<1>13. ASSUME NEW s \in AnyStream, StreamStep(s)
       PROVE  TypeOK'
  <2>1. PICK q \in Seq(Op) : q = queue[s] /\ q # <<>>
    BY <1>13 DEF StreamStep
  <2>2. Tail(q) \in Seq(Op)
    BY <2>1, HeadTailProperties
  <2> QED
    BY <1>13, <2>1, <2>2 DEF StreamStep
<1> QED
  BY <1>1, <1>2, <1>3, <1>4, <1>5, <1>6, <1>7, <1>8, <1>9, <1>10, <1>11, <1>12, <1>13, <1>14 DEF Next

LEMMA NextIInv ==
  ASSUME IInv, [Next]_vars
  PROVE  IInv'
<1>1. CASE UNCHANGED vars
  <2> USE <1>1 DEF vars, IInv
  <2>1. NewOpsOK /\ Grown(queue, queue') /\ \A op : Pending(op)' <=> Pending(op)
    BY NothingQueued
  <2>2. \A b \in Buffer : Pending(Record(b))' <=> Pending(Record(b))
    BY <2>1 DEF Record
  <2>3. TypeOK' /\ BufferOK' /\ RetireOK'
    BY <2>2 DEF TypeOK, BufferOK, RetireOK, Record
  <2>4. Extends
    BY <2>1, <2>2 DEF Extends
  <2>5. HandleOK'
    BY <2>4, HeldStays DEF HandleOK, HeldOK
  <2> QED
    BY <2>1, <2>3, <2>4, <2>5, QueueOKStep
<1>2. CASE Next
  <2>1. TypeOK'
    BY <1>2, TypeOKStep
  <2>2. ASSUME BufferOK' /\ RetireOK' /\ HandleOK' /\ Extends /\ NewOpsOK
        PROVE  IInv'
    BY <2>1, <2>2, QueueOKStep DEF IInv
  <2>3. ASSUME NEW s \in AnyStream, StreamStep(s)
        PROVE  IInv'
    BY <2>1, <2>3, StreamStepStep DEF IInv
  <2>4. ASSUME NEW b \in Buffer, NEW s \in AnyStream, NEW r \in Reader, NEW c \in Buffer,
               Clone(b, c, s, r) \/ Resize(b, c, s, r)
        PROVE  IInv'
    BY <2>2, <2>4, CloneStep, ResizeStep
  <2>5. ASSUME NEW b \in Buffer, NEW s \in AnyStream,
               \/ GetWriteHandle(b, s) \/ GetReadHandleThrows(b, s)
               \/ \E r \in Reader : GetReadHandle(b, s, r)
        PROVE  IInv'
    BY <2>2, <2>5, GetWriteHandleStep, GetReadHandleStep, GetReadHandleThrowsStep
  <2>6. ASSUME NEW b \in Buffer,
               \/ Allocate(b) \/ GetWriteHandleThrows(b) \/ Finalize(b)
               \/ QueueWrite(b) \/ ReleaseWrite(b) \/ Drop(b)
        PROVE  IInv'
    BY <2>2, <2>6, AllocateStep, GetWriteHandleThrowsStep, FinalizeStep, QueueWriteStep, DropStep
  <2>7. ASSUME NEW r \in Reader, QueueRead(r) \/ ReleaseRead(r) \/ ReleaseReadUnmarked(r)
        PROVE  IInv'
    BY <2>2, <2>7, QueueReadStep, ReleaseReadStep, ReleaseReadUnmarkedStep
  <2>8. ASSUME Retire
        PROVE  IInv'
    BY <2>2, <2>8, RetireStep
  <2> QED
    BY <1>2, <2>3, <2>4, <2>5, <2>6, <2>7, <2>8 DEF Next
<1> QED
  BY <1>1, <1>2

\* The invariant that carries the theorems below.
LEMMA IInvAlways == Spec => []IInv
<1>1. Init => IInv
  BY InitIInv
<1>2. IInv /\ [Next]_vars => IInv'
  BY NextIInv
<1> QED
  BY <1>1, <1>2, PTL DEF Spec

\* Every variable keeps its type, and an event is recorded only where there is one,
\* whatever the buffers, the streams and the handles.
THEOREM TypeCorrect == Spec => []TypeOK
<1>1. IInv => TypeOK
  BY DEF IInv
<1> QED
  BY <1>1, IInvAlways, PTL

\* A reader sees what was written: when a read kernel is next on its stream, no kernel
\* that was queued through the write handle, on any usable stream, is still queued,
\* unless cudaEventRecord failed on the buffer's write event.
THEOREM ReadersSeeWrites == Spec => []ReadsSeeWrites
<1>1. ASSUME IInv
      PROVE  ReadsSeeWrites
  <2> USE <1>1 DEF IInv
  <2> SUFFICES ASSUME NEW s \in Stream, NEW t \in Stream, queue[s] # <<>>,
                      Head(queue[s]).kind = "read", Head(queue[s]).buf \in Tracked,
                      NEW i \in DOMAIN queue[t], queue[t][i].kind = "write",
                      queue[t][i].buf = Head(queue[s]).buf
               PROVE  FALSE
    BY DEF ReadsSeeWrites, Queued
  <2>1. s \in AnyStream /\ t \in AnyStream
    BY DEF AnyStream
  <2>2. /\ queue[s] \in Seq(Op) /\ queue[t] \in Seq(Op)
        /\ i \in 1 .. Len(queue[t]) /\ Len(queue[t]) \in Nat
    BY <2>1, LenProperties DEF TypeOK
  <2>3. 1 \in 1 .. Len(queue[s]) /\ Head(queue[s]) = queue[s][1]
    BY <2>2, EmptySeq
  <2>a. PICK op \in Op : op = queue[s][1]
    BY <2>2, <2>3
  <2>4. PICK b \in Buffer : b = Head(queue[s]).buf
    BY <2>3, <2>a DEF Op
  <2>5. Ordered(b, s, 1)
    BY <2>1, <2>3, <2>4 DEF QueueOK, ReadOK, Tracked
  <2>6. state[b] = "finalized" /\ ~Pending(Record(b))
    BY <2>5 DEF Ordered
  <2>7. WriteOK(t, i)
    BY <2>1, <2>2 DEF QueueOK
  <2>8. \E j \in i + 1 .. Len(queue[t]) : queue[t][j] = Record(b)
    BY <2>4, <2>6, <2>7 DEF WriteOK
  <2>9. Pending(Record(b))
    BY <2>1, <2>2, <2>8 DEF Pending, Contains
  <2> QED
    BY <2>6, <2>9
<1> QED
  BY <1>1, IInvAlways, PTL

\* No kernel that an event stands for is queued for a buffer whose memory was given back.
THEOREM FreedIsIdle == Spec => []FreedMemoryIsIdle
<1>1. ASSUME IInv
      PROVE  FreedMemoryIsIdle
  <2> USE <1>1 DEF IInv
  <2> SUFFICES ASSUME NEW s \in Stream, NEW i \in DOMAIN queue[s], phase[queue[s][i].buf] = "freed"
               PROVE  /\ queue[s][i].kind = "write" => queue[s][i].buf \notin Tracked
                      /\ queue[s][i].kind \in {"read", "early_read"} => queue[s][i].by \in unmarked
    BY DEF FreedMemoryIsIdle, Queued
  <2>1. s \in AnyStream
    BY DEF AnyStream
  <2>2. queue[s] \in Seq(Op) /\ i \in 1 .. Len(queue[s]) /\ Len(queue[s]) \in Nat
    BY <2>1, LenProperties DEF TypeOK
  <2>3. PICK op \in Op : op = queue[s][i]
    BY <2>2
  <2>4. op.buf \in Buffer
    BY DEF Op
  <2>5. /\ ~Pending(Record(op.buf)) /\ readEvents[op.buf] = {} /\ writer[op.buf] = NoStream
        /\ state[op.buf] # "in_use"
    BY <2>3, <2>4 DEF BufferOK
  <2>6. op.kind = "write" => op.buf \notin Tracked
    <3> SUFFICES ASSUME op.kind = "write", op.buf \in Tracked
                 PROVE  Pending(Record(op.buf))
      BY <2>5
    <3>1. WriteOK(s, i)
      BY <2>1, <2>2 DEF QueueOK
    <3>2. \E j \in i + 1 .. Len(queue[s]) : queue[s][j] = Record(op.buf)
      BY <3>1, <2>3, <2>5 DEF WriteOK
    <3> QED
      BY <3>2, <2>1, <2>2 DEF Pending, Contains
  <2>7. op.kind \in {"read", "early_read"} => op.by \in unmarked
    <3> SUFFICES ASSUME op.kind \in {"read", "early_read"}, op.by \notin unmarked
                 PROVE  FALSE
      OBVIOUS
    <3>1. MarkedOK(s, i)
      BY <2>1, <2>2 DEF QueueOK
    <3>2. CASE op.by \in Reader /\ reads[op.by] # NoHandle /\ reads[op.by].buf = op.buf
      BY <3>2, <2>3 DEF HandleOK, HeldOK
    <3>3. CASE \E j \in i + 1 .. Len(queue[s]) : queue[s][j] = Mark(op.buf, op.by)
      <4>1. PICK j \in i + 1 .. Len(queue[s]) : queue[s][j] = Mark(op.buf, op.by)
        BY <3>3
      <4>2. MarkOK(s, j)
        BY <4>1, <2>1, <2>2 DEF QueueOK
      <4>3. op.by \in readEvents[op.buf]
        BY <4>1, <4>2 DEF MarkOK, Mark
      <4> QED
        BY <4>3, <2>5
    <3> QED
      BY <3>1, <3>2, <3>3, <2>3 DEF MarkedOK
  <2> QED
    BY <2>3, <2>6, <2>7
<1> QED
  BY <1>1, IInvAlways, PTL

\* Only get_write_handle gives a buffer a write handle.
LEMMA WriterStarts ==
  ASSUME TypeOK, [Next]_vars, NEW b \in Buffer, writer[b] = NoStream, writer'[b] # NoStream
  PROVE  \E s \in AnyStream : GetWriteHandle(b, s)
<1>1. writer' # writer
  OBVIOUS
<1>2. ASSUME NEW c \in Buffer, ReleaseWrite(c)
      PROVE  FALSE
  BY <1>2 DEF ReleaseWrite, TypeOK
<1>3. PICK c \in Buffer, s \in AnyStream : GetWriteHandle(c, s)
  <2>1. ASSUME NEW c \in Buffer,
               Allocate(c) \/ GetWriteHandleThrows(c) \/ Finalize(c) \/ QueueWrite(c) \/ Drop(c)
        PROVE  FALSE
    BY <1>1, <2>1 DEF Allocate, GetWriteHandleThrows, Finalize, QueueWrite, Drop, Destroy
  <2>2. ASSUME NEW c \in Buffer, NEW d \in Buffer, NEW s \in AnyStream, NEW r \in Reader,
               GetReadHandle(c, s, r) \/ Clone(c, d, s, r) \/ Resize(c, d, s, r)
        PROVE  FALSE
    BY <1>1, <2>2 DEF GetReadHandle, Clone, Resize, Copy
  <2>3. ASSUME NEW r \in Reader, QueueRead(r) \/ ReleaseRead(r) \/ ReleaseReadUnmarked(r)
        PROVE  FALSE
    BY <1>1, <2>3 DEF QueueRead, ReleaseRead, ReleaseReadUnmarked
  <2>4. ASSUME NEW c \in Buffer, NEW s \in AnyStream,
               GetReadHandleThrows(c, s) \/ StreamStep(s) \/ Retire
        PROVE  FALSE
    BY <1>1, <2>4 DEF GetReadHandleThrows, StreamStep, Retire
  <2>5. Next
    BY <1>1 DEF vars
  <2> QED
    BY <1>2, <2>1, <2>2, <2>3, <2>4, <2>5 DEF Next, AnyStream
<1>4. c = b
  BY <1>3 DEF GetWriteHandle, TypeOK
<1> QED
  BY <1>3, <1>4

\* A buffer gets its write handle only when no read of it that left a read event is
\* still queued: events are forgotten at every call, but only those that are over.
THEOREM WritesAfterReads == Spec => NoWriteOverReads
<1> DEFINE A(b) ==
      writer[b] = NoStream /\ writer'[b] # NoStream =>
        \A s \in Stream : \A op \in Queued(s) :
          op.buf = b /\ op.kind \in {"read", "early_read"} =>
            op.by \in unmarked \/ reads[op.by] # NoHandle
<1>1. ASSUME IInv, [Next]_vars, NEW b \in Buffer
      PROVE  A(b)
  <2> SUFFICES ASSUME writer[b] = NoStream, writer'[b] # NoStream, NEW s \in Stream, NEW i \in DOMAIN queue[s],
                      queue[s][i].buf = b, queue[s][i].kind \in {"read", "early_read"},
                      queue[s][i].by \notin unmarked, reads[queue[s][i].by] = NoHandle
               PROVE  FALSE
    BY DEF Queued
  <2> USE <1>1 DEF IInv
  <2>1. s \in AnyStream /\ i \in 1 .. Len(queue[s]) /\ Len(queue[s]) \in Nat
    BY LenProperties DEF TypeOK, AnyStream
  <2>2. PICK u \in AnyStream : GetWriteHandle(b, u)
    BY WriterStarts
  <2>3. MarkedOK(s, i)
    BY <2>1 DEF QueueOK
  <2>4. PICK j \in i + 1 .. Len(queue[s]) : queue[s][j] = Mark(b, queue[s][i].by)
    BY <2>3 DEF MarkedOK
  <2>5. MarkOK(s, j) /\ Pending(Mark(b, queue[s][i].by))
    BY <2>1, <2>4 DEF QueueOK, Pending, Contains
  <2>6. queue[s][i].by \in readEvents[b]
    BY <2>4, <2>5 DEF MarkOK, Mark
  <2>7. queue[s][i].by \in Reaped(b)
    BY <2>5, <2>6 DEF Reaped
  <2> QED
    BY <2>2, <2>7 DEF GetWriteHandle
<1>2. IInv /\ [Next]_vars => [\A b \in Buffer : A(b)]_vars
  BY <1>1
<1> QED
  BY <1>2, IInvAlways, PTL DEF Spec, NoWriteOverReads
=============================================================================
