--------------------------- MODULE CudaBufferOwners ---------------------------
(***************************************************************************)
(* Who keeps a CUDA buffer alive.  CudaBufferEvents assumes that a buffer  *)
(* is destroyed only when no handle of it is held; the Python bindings and *)
(* the handles of promoted buffers see to it by owning the buffer, here by *)
(* reference counting, through every exception.  A host source has to stay *)
(* until the GPU has read it, too.                                         *)
(*                                                                         *)
(* A call of the bindings is a list of steps of CudaBufferEvents, under    *)
(* the interpreter's lock: the GPU and the recycler go on meanwhile, other *)
(* Python code does not.  A C++ call is one of them that does not wait.    *)
(***************************************************************************)
EXTENDS Naturals, Sequences, FiniteSets

CONSTANTS Buffer, Stream, NullStream, Reader, MaxKernel, NoStream, NoBuffer  \* as there

VARIABLES phase, hasEvent, state, writer, recorded, readEvents, reads, handles,
          queue, retireQ, kernels, unrecorded, unmarked  \* as there

VARIABLES
  owners,    \* [Buffer -> SUBSET Owner]
  promoted,  \* the buffers made for a source that is not a CUDA buffer
  call,      \* the call under way
  copying,   \* [AnyStream -> the operations up to the last that reads host memory]
  abandoned  \* history: streams with a transfer whose call threw before it had waited

E == INSTANCE CudaBufferEvents

ASSUME ConstantsOK ==
  /\ E!ConstantsOK
  /\ NoStream \notin Reader
  /\ Reader \cap {"user", "call", "writer"} = {}

Owner    == {"user", "call", "writer"} \cup Reader
NoCall   == [todo |-> <<>>, buf |-> NoBuffer, stream |-> NoStream, by |-> NoStream, holder |-> "user"]
Micro    == {"allocate", "write", "copy", "cpp_copy", "release", "read", "sync",
             "wrap_write", "wrap_read", "release_read", "disown"}

buffers == <<phase, hasEvent, state, writer, recorded, readEvents, reads, handles,
             queue, retireQ, kernels, unrecorded, unmarked>>
vars == <<buffers, owners, promoted, call, copying, abandoned>>

-----------------------------------------------------------------------------
\* What the functions of the bindings do, in order.
OutputSteps  == <<"write", "wrap_write">>
InputSteps   == <<"read", "wrap_read">>
PromoteOutput == <<"allocate">> \o OutputSteps

\* Mutant: nobody waits for the transfer.
PromoteInputAtOnce == <<"allocate", "write", "copy", "release", "read", "wrap_read">>

PromoteInput == <<"allocate", "write", "copy", "release", "read", "sync", "wrap_read">>

\* from_input_buffer of C++: its caller keeps the source, and nobody waits.
CppPromoteInput == <<"allocate", "write", "cpp_copy", "release", "read", "wrap_read">>

\* Mutant: the owner is let go of first.
CloseOwnerFirst(release) == <<"disown", release>>

\* close, and the members of a wrapper as they are destroyed.
CloseSteps(release) == <<release, "disown">>

\* A handle that the call under way has, and no wrapper yet.
OwnWriter == call.holder = "call" /\ writer[call.buf] # NoStream /\ "writer" \notin owners[call.buf]
OwnReader == call.by \in Reader \ owners[call.buf] /\ reads[call.by] # E!NoHandle

\* Mutant: the reference of the call is not given back.
UnwindingLeaks ==
  (IF OwnWriter THEN <<"release">> ELSE <<>>) \o (IF OwnReader THEN <<"release_read">> ELSE <<>>)

\* What is left to do when a step throws: the destructors, the latest first.
Unwinding ==
  (IF OwnWriter THEN <<"release">> ELSE <<>>)
    \o (IF OwnReader THEN <<"release_read">> ELSE <<>>) \o <<"disown">>

-----------------------------------------------------------------------------
Init ==
  /\ E!Init
  /\ owners = [b \in Buffer |-> {}]
  /\ promoted = {}
  /\ call = NoCall
  /\ copying = [s \in E!AnyStream |-> 0]
  /\ abandoned = {}

Begin(steps, b, s, r, holder) ==
  /\ call = NoCall
  /\ call' = [todo |-> steps, buf |-> b, stream |-> s, by |-> r, holder |-> holder]

\* allocate_buffer.
AllocateBuffer(b) ==
  /\ call = NoCall
  /\ E!Allocate(b)
  /\ owners' = [owners EXCEPT ![b] = {"user"}]
  /\ UNCHANGED <<promoted, call, copying, abandoned>>

\* from_output_buffer and from_input_buffer for a CUDA buffer ...
FromBuffer(b, s, r) ==
  /\ "user" \in owners[b]
  /\ \/ Begin(OutputSteps, b, s, NoStream, "call")
     \/ r \notin handles /\ Begin(InputSteps, b, s, r, "call")
  /\ owners' = [owners EXCEPT ![b] = @ \cup {"call"}]
  /\ UNCHANGED <<buffers, promoted, copying, abandoned>>

\* ... and for another one, or for bytes.
Promote(b, s, r) ==
  /\ phase[b] = "absent"
  /\ \/ Begin(PromoteOutput, b, s, NoStream, "call")
     \/ /\ r \notin handles
        /\ \/ Begin(PromoteInput, b, s, r, "call")
           \/ Begin(CppPromoteInput, b, s, r, "call")
  /\ promoted' = promoted \cup {b}
  /\ UNCHANGED <<buffers, owners, copying, abandoned>>

\* to_buffer from bytes, through an open write handle, on its stream.
ToBuffer(b) ==
  /\ "writer" \in owners[b]
  /\ Begin(<<"copy", "sync", "disown">>, b, writer[b], NoStream, "call")
  /\ owners' = [owners EXCEPT ![b] = @ \cup {"call"}]
  /\ UNCHANGED <<buffers, promoted, copying, abandoned>>

\* close, the end of a with statement, or a wrapper that is collected.
Close(b) ==
  /\ \/ "writer" \in owners[b] /\ Begin(CloseSteps("release"), b, NoStream, NoStream, "writer")
     \/ \E r \in owners[b] \cap Reader : Begin(CloseSteps("release_read"), b, NoStream, r, r)
  /\ UNCHANGED <<buffers, owners, promoted, copying, abandoned>>

\* get_promoted_buffer of an open handle.
GetPromotedBuffer(b) ==
  /\ call = NoCall
  /\ b \in promoted
  /\ owners[b] \ {"user"} # {}
  /\ owners' = [owners EXCEPT ![b] = @ \cup {"user"}]
  /\ UNCHANGED <<buffers, promoted, call, copying, abandoned>>

\* owner no longer refers to b: the last one destroys the buffer, whatever handles say.
Disown(b, owner) ==
  /\ owners' = [owners EXCEPT ![b] = @ \ {owner}]
  /\ IF owners[b] = {owner} THEN E!Destroy(b) ELSE UNCHANGED buffers
  /\ UNCHANGED <<promoted, copying, abandoned>>

\* The user's last variable or message with b goes.
LetGo(b) ==
  /\ call = NoCall
  /\ "user" \in owners[b]
  /\ Disown(b, "user")
  /\ UNCHANGED call

\* The user's kernels, through open handles; a publication finalizes.
UserKernel(b) ==
  /\ call = NoCall
  /\ \/ E!QueueWrite(b)
     \/ \E r \in Reader : reads[r].buf = b /\ E!QueueRead(r)
     \/ "user" \in owners[b] /\ E!Finalize(b)
  /\ UNCHANGED <<owners, promoted, call, copying, abandoned>>

-----------------------------------------------------------------------------
Next1(step) == call.todo # <<>> /\ Head(call.todo) = step

\* The rest of the call, or nothing any more.
Rest   == call' = IF Len(call.todo) = 1 THEN NoCall ELSE [call EXCEPT !.todo = Tail(@)]
Throws == call' = [call EXCEPT !.todo = Unwinding]

CallAllocate ==
  /\ Next1("allocate") /\ Rest
  /\ E!Allocate(call.buf)
  /\ owners' = [owners EXCEPT ![call.buf] = {"call"}]
  /\ UNCHANGED <<promoted, copying, abandoned>>

\* The pool or the driver has no memory: nothing was made, nothing is left.
CallAllocateFails ==
  /\ Next1("allocate")
  /\ call' = NoCall
  /\ promoted' = promoted \ {call.buf}
  /\ UNCHANGED <<buffers, owners, copying, abandoned>>

CallWrite ==
  /\ Next1("write")
  /\ \/ Rest /\ E!GetWriteHandle(call.buf, call.stream)
     \/ Throws /\ E!GetWriteHandleThrows(call.buf)
  /\ UNCHANGED <<owners, promoted, copying, abandoned>>

\* cudaMemcpyAsync, which may read the source when the stream gets there.
CallCopy ==
  /\ Next1("copy") \/ Next1("cpp_copy")
  /\ Rest
  /\ E!QueueWrite(call.buf)
  /\ copying' = IF Next1("copy") THEN [copying EXCEPT ![writer[call.buf]] = Len(queue'[writer[call.buf]])]
                ELSE copying
  /\ abandoned' = IF Next1("copy") THEN abandoned \ {writer[call.buf]} ELSE abandoned
  /\ UNCHANGED <<owners, promoted>>

\* A throw that leaves a transfer of the call on its stream.
Abandons ==
  /\ Throws
  /\ abandoned' = IF copying[call.stream] # 0 THEN abandoned \cup {call.stream} ELSE abandoned

\* get_read_handle, whose cudaStreamWaitEvent may fail.
CallRead ==
  /\ Next1("read")
  /\ \/ Rest /\ E!GetReadHandle(call.buf, call.stream, call.by) /\ UNCHANGED abandoned
     \/ Abandons /\ E!GetReadHandleThrows(call.buf, call.stream)
  /\ UNCHANGED <<owners, promoted, copying>>

\* cudaStreamSynchronize, with the interpreter's lock; it may fail and wait for nothing.
CallSync ==
  /\ Next1("sync")
  /\ \/ Rest /\ queue[call.stream] = <<>> /\ UNCHANGED abandoned
     \/ Abandons
  /\ UNCHANGED <<buffers, owners, promoted, copying>>

\* The wrapper takes over the handle and the call's reference.
CallWrap ==
  /\ Next1("wrap_write") \/ Next1("wrap_read")
  /\ Rest
  /\ owners' = [owners EXCEPT ![call.buf] =
                  (@ \ {"call"}) \cup {IF Next1("wrap_write") THEN "writer" ELSE call.by}]
  /\ UNCHANGED <<buffers, promoted, copying, abandoned>>

\* cudaMemcpyAsync or cudaPointerGetAttributes fails.
CallThrows ==
  /\ Next1("copy") \/ Next1("cpp_copy") \/ Next1("wrap_write") \/ Next1("wrap_read")
  /\ Throws
  /\ UNCHANGED <<buffers, owners, promoted, copying, abandoned>>

CallRelease ==
  /\ \/ Next1("release") /\ E!ReleaseWrite(call.buf)
     \/ Next1("release_read") /\ (E!ReleaseRead(call.by) \/ E!ReleaseReadUnmarked(call.by))
  /\ Rest
  /\ UNCHANGED <<owners, promoted, copying, abandoned>>

CallDisown == Next1("disown") /\ Rest /\ Disown(call.buf, call.holder)

CallStep ==
  \/ CallAllocate \/ CallAllocateFails \/ CallWrite \/ CallCopy \/ CallRead \/ CallSync
  \/ CallWrap \/ CallThrows \/ CallRelease \/ CallDisown

GpuStep(s) ==
  /\ E!StreamStep(s)
  /\ copying' = [copying EXCEPT ![s] = IF @ = 0 THEN 0 ELSE @ - 1]
  /\ abandoned' = IF copying[s] = 1 THEN abandoned \ {s} ELSE abandoned
  /\ UNCHANGED <<owners, promoted, call>>

Recycle == E!Retire /\ UNCHANGED <<owners, promoted, call, copying, abandoned>>

Next ==
  \/ \E b \in Buffer :
       \/ AllocateBuffer(b) \/ ToBuffer(b) \/ Close(b) \/ GetPromotedBuffer(b)
       \/ LetGo(b) \/ UserKernel(b)
       \/ \E s \in E!AnyStream, r \in Reader : FromBuffer(b, s, r) \/ Promote(b, s, r)
  \/ CallStep
  \/ \E s \in E!AnyStream : GpuStep(s)
  \/ Recycle

Spec == Init /\ [][Next]_vars

-----------------------------------------------------------------------------
\* The variables have their types.
TypeOK ==
  /\ E!TypeOK
  /\ owners \in [Buffer -> SUBSET Owner]
  /\ promoted \in SUBSET Buffer
  /\ call.todo \in Seq(Micro)
  /\ call # NoCall => call.buf \in Buffer /\ call.todo # <<>> /\ call.holder \in Owner
  /\ copying \in [E!AnyStream -> Nat]
  /\ \A s \in E!AnyStream : copying[s] <= Len(queue[s])
  /\ abandoned \in SUBSET E!AnyStream

\* Between two calls, however the last one ended, each open handle has a wrapper that
\* owns its buffer, each wrapper an open handle, and a buffer that nobody refers to is gone:
\* no exception leaves a reference, a handle or a buffer behind.
OwnersExact ==
  /\ \A b \in Buffer : owners[b] # {} => phase[b] = "live"
  /\ call = NoCall =>
       \A b \in Buffer :
         /\ phase[b] = "live" => owners[b] # {}
         /\ "call" \notin owners[b]
         /\ "writer" \in owners[b] <=> writer[b] # NoStream
         /\ \A r \in Reader : r \in owners[b] <=> reads[r].buf = b

\* "The caller's CPU storage must remain alive until the transfer completes": once a
\* call has returned, or thrown in any other step, nothing on a stream reads its source
\* any more.  When the wait itself throws (cudaStreamWaitEvent before it, or
\* cudaStreamSynchronize), the source goes all the same: that transfer is excepted.
SourceOutlivesCopy ==
  \A s \in E!AnyStream \ abandoned : copying[s] # 0 => call # NoCall /\ call.stream = s

\* The users' discipline that CudaBufferEvents takes for granted: in particular a handle
\* does not outlive its buffer.
ImplementsEvents == E!Spec
=============================================================================
