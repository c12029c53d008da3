------------------------ MODULE CudaBufferOwnersProofs ------------------------
(***************************************************************************)
(* Proofs about CudaBufferOwners, for any buffers, streams and handles:    *)
(* the bindings keep to the rules of CudaBufferEvents, so that what is     *)
(* proved of its behaviours holds of theirs.  A call under way owns a      *)
(* reference and perhaps a handle; what it has depends on what is left of  *)
(* its list of steps.                                                      *)
(***************************************************************************)
EXTENDS CudaBufferOwners, SequenceTheorems, TLAPS

\* CudaBufferEvents with what is proved of it.
P == INSTANCE CudaBufferEventsProofs

\* What may be left of a call, by its next step.
WriteCopy    == <<"write", "copy", "release", "read", "sync", "wrap_read">>
WriteCppCopy == <<"write", "cpp_copy", "release", "read", "wrap_read">>
ToCopy       == <<"copy", "release", "read", "sync", "wrap_read">>
ToCppCopy    == <<"cpp_copy", "release", "read", "wrap_read">>
ReleaseSync  == <<"release", "read", "sync", "wrap_read">>
ReleaseWrap  == <<"release", "read", "wrap_read">>
ReadSync     == <<"read", "sync", "wrap_read">>
ToSync       == <<"sync", "wrap_read">>
WrapWrite    == <<"wrap_write">>
WrapRead     == <<"wrap_read">>
CopyOpen     == <<"copy", "sync", "disown">>
SyncOpen     == <<"sync", "disown">>
EndWrite     == <<"release", "disown">>
EndRead      == <<"release_read", "disown">>
End          == <<"disown">>

AtAllocate == {PromoteOutput, PromoteInput, CppPromoteInput}
AtWrite    == {OutputSteps, WriteCopy, WriteCppCopy}
AtRelease  == {ReleaseSync, ReleaseWrap}
AtRead     == {ReadSync, InputSteps}

Todos ==
  AtAllocate \cup AtWrite \cup AtRelease \cup AtRead
    \cup {ToCopy, ToCppCopy, ToSync, WrapWrite, WrapRead, CopyOpen, SyncOpen, EndWrite, EndRead, End}

\* A transfer may be on its way, for which the call will wait.
Transfers == {ReleaseSync, ReadSync, ToSync, SyncOpen}

\* The call has a write handle, or a read handle, that no wrapper has.
WriteOpen == AtRelease \cup {ToCopy, ToCppCopy, WrapWrite, EndWrite}
ReadOpen  == {ToSync, WrapRead, EndRead}

\* The call is to get a read handle, or has got it.
Reading == {PromoteInput, CppPromoteInput, WriteCopy, WriteCppCopy, ToCopy, ToCppCopy}
             \cup AtRelease \cup AtRead \cup ReadOpen

\* The call has its read handle yet to get, if it ever does.
Unread == AtAllocate \cup AtWrite \cup AtRelease \cup AtRead
            \cup {ToCopy, ToCppCopy, WrapWrite, CopyOpen, SyncOpen}

InCall == call # NoCall
Calls  == [todo : Todos, buf : Buffer, stream : E!AnyStream \cup {NoStream},
           by : Reader \cup {NoStream}, holder : {"call", "writer"} \cup Reader]

\* The call under way.
CallOK ==
  InCall =>
    /\ call \in Calls
    /\ call.todo \notin {EndWrite, EndRead, End} => call.stream \in E!AnyStream /\ call.holder = "call"
    /\ call.todo \in Reading => call.by \in Reader
    /\ call.todo \in Unread => call.by \notin handles
    /\ call.todo = EndWrite => call.holder \in {"call", "writer"}
    /\ call.todo = EndRead => call.holder \in {"call", call.by}
    /\ call.todo \in {ToCopy, CopyOpen} => writer[call.buf] = call.stream
    /\ call.holder # "call" => call.holder \in owners[call.buf]

\* Whom a buffer belongs to, and who has its handles.
Calling(b) == InCall /\ call.holder = "call" /\ call.buf = b
Closed(b, o) == InCall /\ call.holder = o /\ call.buf = b /\ call.todo = End
CallReads(b, r) == Calling(b) /\ call.by = r /\ call.todo \in ReadOpen

OwnersOK ==
  /\ owners \in [Buffer -> SUBSET Owner]
  /\ \A b \in Buffer :
       /\ owners[b] = {} <=> phase[b] # "live"
       /\ "call" \in owners[b] <=> Calling(b) /\ call.todo \notin AtAllocate
       /\ writer[b] # NoStream <=>
            \/ Calling(b) /\ call.todo \in WriteOpen
            \/ "writer" \in owners[b] /\ ~Closed(b, "writer")
       /\ Calling(b) /\ call.todo \in WriteOpen => "writer" \notin owners[b]
  /\ \A b \in Buffer, r \in Reader :
       /\ r \in owners[b] => r \in handles
       /\ reads[r].buf = b <=> CallReads(b, r) \/ (r \in owners[b] /\ ~Closed(b, r))
       /\ CallReads(b, r) => r \notin owners[b]

\* Transfers from the host.
CopyingOK ==
  /\ copying \in [E!AnyStream -> Nat]
  /\ abandoned \in SUBSET E!AnyStream
  /\ \A s \in E!AnyStream :
       /\ copying[s] <= Len(queue[s])
       /\ copying[s] # 0 /\ s \notin abandoned => InCall /\ call.stream = s /\ call.todo \in Transfers

IInv == P!IInv /\ promoted \in SUBSET Buffer /\ CallOK /\ OwnersOK /\ CopyingOK

-----------------------------------------------------------------------------
(* The lists of steps.                                                     *)

LEMMA Pair ==
  ASSUME NEW x, NEW y
  PROVE  <<x>> \o <<y>> = <<x, y>>
<1> DEFINE T == {x, y}
           p == <<x>> \o <<y>>
           q == <<x, y>>
<1>1. <<x>> \in Seq(T) /\ <<y>> \in Seq(T) /\ q \in Seq(T) /\ Len(q) = 2 /\ q[1] = x /\ q[2] = y
  OBVIOUS
<1>2. p \in Seq(T) /\ Len(p) = 2 /\ p[1] = x /\ p[2] = y
  BY <1>1, ConcatProperties
<1> HIDE DEF p, q
<1>3. \A i \in 1 .. 2 : p[i] = q[i]
  BY <1>1, <1>2
<1>4. p = q
  BY <1>1, <1>2, <1>3, SeqEqual
<1> QED
  BY <1>4 DEF p, q

LEMMA Triple ==
  ASSUME NEW x, NEW y, NEW z
  PROVE  <<x>> \o <<y, z>> = <<x, y, z>>
<1> DEFINE T == {x, y, z}
           p == <<x>> \o <<y, z>>
           q == <<x, y, z>>
<1>1. /\ <<x>> \in Seq(T) /\ <<y, z>> \in Seq(T) /\ q \in Seq(T) /\ Len(q) = 3
      /\ q[1] = x /\ q[2] = y /\ q[3] = z
  OBVIOUS
<1>2. p \in Seq(T) /\ Len(p) = 3 /\ p[1] = x /\ p[2] = y /\ p[3] = z
  BY <1>1, ConcatProperties
<1> HIDE DEF p, q
<1>3. \A i \in 1 .. 3 : p[i] = q[i]
  BY <1>1, <1>2
<1>4. p = q
  BY <1>1, <1>2, <1>3, SeqEqual
<1> QED
  BY <1>4 DEF p, q

LEMMA Unwinds ==
  /\ <<"release">> \o <<>> \o <<"disown">> = EndWrite
  /\ <<>> \o <<"release_read">> \o <<"disown">> = EndRead
  /\ <<>> \o <<>> \o <<"disown">> = End
<1>1. <<"release">> \o <<>> = <<"release">> /\ <<>> \o <<"release_read">> = <<"release_read">>
  OBVIOUS
<1>2. <<>> \o <<>> = <<>> /\ <<>> \o <<"disown">> = End
  BY DEF End
<1> QED
  BY <1>1, <1>2, Pair DEF EndWrite, EndRead

\* The first step of a list, and what is left then.
LEMMA Lists ==
  /\ PromoteOutput # <<>> /\ Head(PromoteOutput) = "allocate" /\ Len(PromoteOutput) # 1 /\ Tail(PromoteOutput) = OutputSteps
  /\ PromoteInput # <<>> /\ Head(PromoteInput) = "allocate" /\ Len(PromoteInput) # 1 /\ Tail(PromoteInput) = WriteCopy
  /\ CppPromoteInput # <<>> /\ Head(CppPromoteInput) = "allocate" /\ Len(CppPromoteInput) # 1 /\ Tail(CppPromoteInput) = WriteCppCopy
  /\ OutputSteps # <<>> /\ Head(OutputSteps) = "write" /\ Len(OutputSteps) # 1 /\ Tail(OutputSteps) = WrapWrite
  /\ WriteCopy # <<>> /\ Head(WriteCopy) = "write" /\ Len(WriteCopy) # 1 /\ Tail(WriteCopy) = ToCopy
  /\ WriteCppCopy # <<>> /\ Head(WriteCppCopy) = "write" /\ Len(WriteCppCopy) # 1 /\ Tail(WriteCppCopy) = ToCppCopy
  /\ ToCopy # <<>> /\ Head(ToCopy) = "copy" /\ Len(ToCopy) # 1 /\ Tail(ToCopy) = ReleaseSync
  /\ ToCppCopy # <<>> /\ Head(ToCppCopy) = "cpp_copy" /\ Len(ToCppCopy) # 1 /\ Tail(ToCppCopy) = ReleaseWrap
  /\ ReleaseSync # <<>> /\ Head(ReleaseSync) = "release" /\ Len(ReleaseSync) # 1 /\ Tail(ReleaseSync) = ReadSync
  /\ ReleaseWrap # <<>> /\ Head(ReleaseWrap) = "release" /\ Len(ReleaseWrap) # 1 /\ Tail(ReleaseWrap) = InputSteps
  /\ ReadSync # <<>> /\ Head(ReadSync) = "read" /\ Len(ReadSync) # 1 /\ Tail(ReadSync) = ToSync
  /\ InputSteps # <<>> /\ Head(InputSteps) = "read" /\ Len(InputSteps) # 1 /\ Tail(InputSteps) = WrapRead
  /\ ToSync # <<>> /\ Head(ToSync) = "sync" /\ Len(ToSync) # 1 /\ Tail(ToSync) = WrapRead
  /\ WrapWrite # <<>> /\ Head(WrapWrite) = "wrap_write" /\ Len(WrapWrite) = 1
  /\ WrapRead # <<>> /\ Head(WrapRead) = "wrap_read" /\ Len(WrapRead) = 1
  /\ CopyOpen # <<>> /\ Head(CopyOpen) = "copy" /\ Len(CopyOpen) # 1 /\ Tail(CopyOpen) = SyncOpen
  /\ SyncOpen # <<>> /\ Head(SyncOpen) = "sync" /\ Len(SyncOpen) # 1 /\ Tail(SyncOpen) = End
  /\ EndWrite # <<>> /\ Head(EndWrite) = "release" /\ Len(EndWrite) # 1 /\ Tail(EndWrite) = End
  /\ EndRead # <<>> /\ Head(EndRead) = "release_read" /\ Len(EndRead) # 1 /\ Tail(EndRead) = End
  /\ End # <<>> /\ Head(End) = "disown" /\ Len(End) = 1
<1>1. PromoteOutput # <<>> /\ Head(PromoteOutput) = "allocate" /\ Len(PromoteOutput) # 1 /\ Tail(PromoteOutput) = OutputSteps
  <2>1. PromoteOutput = <<"allocate", "write", "wrap_write">>
    BY Triple DEF PromoteOutput, OutputSteps
  <2> QED
    BY <2>1 DEF OutputSteps
<1>2. PromoteInput # <<>> /\ Head(PromoteInput) = "allocate" /\ Len(PromoteInput) # 1 /\ Tail(PromoteInput) = WriteCopy
  BY DEF PromoteInput, WriteCopy
<1>3. CppPromoteInput # <<>> /\ Head(CppPromoteInput) = "allocate" /\ Len(CppPromoteInput) # 1 /\ Tail(CppPromoteInput) = WriteCppCopy
  BY DEF CppPromoteInput, WriteCppCopy
<1>4. OutputSteps # <<>> /\ Head(OutputSteps) = "write" /\ Len(OutputSteps) # 1 /\ Tail(OutputSteps) = WrapWrite
  BY DEF OutputSteps, WrapWrite
<1>5. WriteCopy # <<>> /\ Head(WriteCopy) = "write" /\ Len(WriteCopy) # 1 /\ Tail(WriteCopy) = ToCopy
  BY DEF WriteCopy, ToCopy
<1>6. WriteCppCopy # <<>> /\ Head(WriteCppCopy) = "write" /\ Len(WriteCppCopy) # 1 /\ Tail(WriteCppCopy) = ToCppCopy
  BY DEF WriteCppCopy, ToCppCopy
<1>7. ToCopy # <<>> /\ Head(ToCopy) = "copy" /\ Len(ToCopy) # 1 /\ Tail(ToCopy) = ReleaseSync
  BY DEF ToCopy, ReleaseSync
<1>8. ToCppCopy # <<>> /\ Head(ToCppCopy) = "cpp_copy" /\ Len(ToCppCopy) # 1 /\ Tail(ToCppCopy) = ReleaseWrap
  BY DEF ToCppCopy, ReleaseWrap
<1>9. ReleaseSync # <<>> /\ Head(ReleaseSync) = "release" /\ Len(ReleaseSync) # 1 /\ Tail(ReleaseSync) = ReadSync
  BY DEF ReleaseSync, ReadSync
<1>10. ReleaseWrap # <<>> /\ Head(ReleaseWrap) = "release" /\ Len(ReleaseWrap) # 1 /\ Tail(ReleaseWrap) = InputSteps
  BY DEF ReleaseWrap, InputSteps
<1>11. ReadSync # <<>> /\ Head(ReadSync) = "read" /\ Len(ReadSync) # 1 /\ Tail(ReadSync) = ToSync
  BY DEF ReadSync, ToSync
<1>12. InputSteps # <<>> /\ Head(InputSteps) = "read" /\ Len(InputSteps) # 1 /\ Tail(InputSteps) = WrapRead
  BY DEF InputSteps, WrapRead
<1>13. ToSync # <<>> /\ Head(ToSync) = "sync" /\ Len(ToSync) # 1 /\ Tail(ToSync) = WrapRead
  BY DEF ToSync, WrapRead
<1>14. WrapWrite # <<>> /\ Head(WrapWrite) = "wrap_write" /\ Len(WrapWrite) = 1
  BY DEF WrapWrite
<1>15. WrapRead # <<>> /\ Head(WrapRead) = "wrap_read" /\ Len(WrapRead) = 1
  BY DEF WrapRead
<1>16. CopyOpen # <<>> /\ Head(CopyOpen) = "copy" /\ Len(CopyOpen) # 1 /\ Tail(CopyOpen) = SyncOpen
  BY DEF CopyOpen, SyncOpen
<1>17. SyncOpen # <<>> /\ Head(SyncOpen) = "sync" /\ Len(SyncOpen) # 1 /\ Tail(SyncOpen) = End
  BY DEF SyncOpen, End
<1>18. EndWrite # <<>> /\ Head(EndWrite) = "release" /\ Len(EndWrite) # 1 /\ Tail(EndWrite) = End
  BY DEF EndWrite, End
<1>19. EndRead # <<>> /\ Head(EndRead) = "release_read" /\ Len(EndRead) # 1 /\ Tail(EndRead) = End
  BY DEF EndRead, End
<1>20. End # <<>> /\ Head(End) = "disown" /\ Len(End) = 1
  BY DEF End
<1> QED
  BY <1>1, <1>2, <1>3, <1>4, <1>5, <1>6, <1>7, <1>8, <1>9, <1>10, <1>11, <1>12, <1>13, <1>14, <1>15, <1>16, <1>17, <1>18, <1>19, <1>20

\* A list by its first step, and what becomes of it.
Kind(t) ==
  /\ t # <<>>
  /\ t \in AtAllocate <=> Head(t) = "allocate"
  /\ t \in AtWrite <=> Head(t) = "write"
  /\ t \in {ToCopy, CopyOpen} <=> Head(t) = "copy"
  /\ t = ToCppCopy <=> Head(t) = "cpp_copy"
  /\ t \in AtRelease \cup {EndWrite} <=> Head(t) = "release"
  /\ t \in AtRead <=> Head(t) = "read"
  /\ t \in {ToSync, SyncOpen} <=> Head(t) = "sync"
  /\ t = WrapWrite <=> Head(t) = "wrap_write"
  /\ t = WrapRead <=> Head(t) = "wrap_read"
  /\ t = EndRead <=> Head(t) = "release_read"
  /\ t = End <=> Head(t) = "disown"
  /\ Len(t) = 1 <=> t \in {WrapWrite, WrapRead, End}
  /\ t \in AtAllocate => Tail(t) \in AtWrite
  /\ t \in AtWrite => Tail(t) \in {WrapWrite, ToCopy, ToCppCopy}
  /\ t = ToCopy => Tail(t) \in AtRelease \cap Transfers
  /\ t = ToCppCopy => Tail(t) \in AtRelease
  /\ t \in AtRelease => Tail(t) \in AtRead /\ (t \in Transfers => Tail(t) \in Transfers)
  /\ t \in AtRead => Tail(t) \in {ToSync, WrapRead} /\ (t \in Transfers => Tail(t) = ToSync)
  /\ t = ToSync => Tail(t) = WrapRead
  /\ t = CopyOpen => Tail(t) = SyncOpen
  /\ t \in {SyncOpen, EndWrite, EndRead} => Tail(t) = End

LEMMA Distinct ==
  /\ ToCopy # CopyOpen /\ ToSync # SyncOpen /\ EndWrite \notin AtRelease
  /\ ReleaseSync # ReleaseWrap /\ ReadSync # InputSteps
<1>1. ToCopy # CopyOpen
  BY DEF ToCopy, CopyOpen
<1>2. ToSync # SyncOpen
  BY DEF ToSync, SyncOpen
<1>3. EndWrite \notin AtRelease
  BY DEF EndWrite, AtRelease, ReleaseSync, ReleaseWrap
<1>4. ReleaseSync # ReleaseWrap
  BY DEF ReleaseSync, ReleaseWrap
<1>5. ReadSync # InputSteps
  BY DEF ReadSync, InputSteps
<1> QED
  BY <1>1, <1>2, <1>3, <1>4, <1>5

LEMMA Kinds == \A t \in Todos : Kind(t)
<1>1. Kind(PromoteOutput)
  BY Lists, Distinct DEF Kind, AtAllocate, AtWrite, AtRelease, AtRead, Transfers
<1>2. Kind(PromoteInput)
  BY Lists, Distinct DEF Kind, AtAllocate, AtWrite, AtRelease, AtRead, Transfers
<1>3. Kind(CppPromoteInput)
  BY Lists, Distinct DEF Kind, AtAllocate, AtWrite, AtRelease, AtRead, Transfers
<1>4. Kind(OutputSteps)
  BY Lists, Distinct DEF Kind, AtAllocate, AtWrite, AtRelease, AtRead, Transfers
<1>5. Kind(WriteCopy)
  BY Lists, Distinct DEF Kind, AtAllocate, AtWrite, AtRelease, AtRead, Transfers
<1>6. Kind(WriteCppCopy)
  BY Lists, Distinct DEF Kind, AtAllocate, AtWrite, AtRelease, AtRead, Transfers
<1>7. Kind(ToCopy)
  BY Lists, Distinct DEF Kind, AtAllocate, AtWrite, AtRelease, AtRead, Transfers
<1>8. Kind(ToCppCopy)
  BY Lists, Distinct DEF Kind, AtAllocate, AtWrite, AtRelease, AtRead, Transfers
<1>9. Kind(ReleaseSync)
  BY Lists, Distinct DEF Kind, AtAllocate, AtWrite, AtRelease, AtRead, Transfers
<1>10. Kind(ReleaseWrap)
  BY Lists, Distinct DEF Kind, AtAllocate, AtWrite, AtRelease, AtRead, Transfers
<1>11. Kind(ReadSync)
  BY Lists, Distinct DEF Kind, AtAllocate, AtWrite, AtRelease, AtRead, Transfers
<1>12. Kind(InputSteps)
  BY Lists, Distinct DEF Kind, AtAllocate, AtWrite, AtRelease, AtRead, Transfers
<1>13. Kind(ToSync)
  BY Lists, Distinct DEF Kind, AtAllocate, AtWrite, AtRelease, AtRead, Transfers
<1>14. Kind(WrapWrite)
  BY Lists, Distinct DEF Kind, AtAllocate, AtWrite, AtRelease, AtRead, Transfers
<1>15. Kind(WrapRead)
  BY Lists, Distinct DEF Kind, AtAllocate, AtWrite, AtRelease, AtRead, Transfers
<1>16. Kind(CopyOpen)
  BY Lists, Distinct DEF Kind, AtAllocate, AtWrite, AtRelease, AtRead, Transfers
<1>17. Kind(SyncOpen)
  BY Lists, Distinct DEF Kind, AtAllocate, AtWrite, AtRelease, AtRead, Transfers
<1>18. Kind(EndWrite)
  BY Lists, Distinct DEF Kind, AtAllocate, AtWrite, AtRelease, AtRead, Transfers
<1>19. Kind(EndRead)
  BY Lists, Distinct DEF Kind, AtAllocate, AtWrite, AtRelease, AtRead, Transfers
<1>20. Kind(End)
  BY Lists, Distinct DEF Kind, AtAllocate, AtWrite, AtRelease, AtRead, Transfers
<1> QED
  BY <1>1, <1>2, <1>3, <1>4, <1>5, <1>6, <1>7, <1>8, <1>9, <1>10, <1>11, <1>12, <1>13, <1>14, <1>15, <1>16, <1>17, <1>18, <1>19, <1>20 DEF Todos, AtAllocate, AtWrite, AtRelease, AtRead

LEMMA Readings ==
  /\ {PromoteOutput, OutputSteps, WrapWrite, CopyOpen, SyncOpen, EndWrite, End} \cap Reading = {}
  /\ \A t \in Todos \ {WrapWrite, WrapRead, End} : Tail(t) \in Reading => t \in Reading
<1>1. WrapWrite \notin Reading /\ End \notin Reading
  BY Lists DEF Reading, AtRelease, AtRead, ReadOpen
<1>2. SyncOpen \notin Reading /\ EndWrite \notin Reading
  BY Lists, Distinct DEF Reading, AtRelease, AtRead, ReadOpen
<1>3. OutputSteps \notin Reading
  <2>1. OutputSteps # WriteCopy /\ OutputSteps # WriteCppCopy
    BY DEF OutputSteps, WriteCopy, WriteCppCopy
  <2> QED
    BY <2>1, Lists DEF Reading, AtRelease, AtRead, ReadOpen
<1>4. PromoteOutput \notin Reading
  <2>1. Tail(PromoteOutput) # Tail(PromoteInput) /\ Tail(PromoteOutput) # Tail(CppPromoteInput)
    BY Lists DEF OutputSteps, WriteCopy, WriteCppCopy
  <2> QED
    BY <2>1, Lists DEF Reading, AtRelease, AtRead, ReadOpen
<1>5. CopyOpen \notin Reading
  BY Lists, Distinct DEF Reading, AtRelease, AtRead, ReadOpen
<1>6. ASSUME NEW t \in Todos \ {WrapWrite, WrapRead, End}, t \notin Reading
      PROVE  Tail(t) \notin Reading
  <2>1. t \in {PromoteOutput, OutputSteps, CopyOpen, SyncOpen, EndWrite}
    BY <1>6 DEF Todos, Reading, AtAllocate, AtWrite, ReadOpen
  <2> QED
    BY <1>1, <1>2, <1>3, <2>1, Lists
<1> QED
  BY <1>1, <1>2, <1>3, <1>4, <1>5, <1>6

\* Every one of these starts somewhere.
LEMMA Starts ==
  /\ {OutputSteps, InputSteps, PromoteOutput, PromoteInput, CppPromoteInput, CopyOpen, End} \subseteq Todos
  /\ CloseSteps("release") = EndWrite /\ CloseSteps("release_read") = EndRead
BY DEF Todos, AtAllocate, AtWrite, AtRead, CloseSteps, EndWrite, EndRead

LEMMA ListTypes == \A t \in Todos : t \in Seq(Micro)
<1>1. \A x \in {"allocate", "write", "copy", "cpp_copy", "release", "read", "sync", "wrap_write",
                "wrap_read", "release_read", "disown"} : x \in Micro
  BY DEF Micro
<1>2. PromoteInput \in Seq(Micro)
  BY <1>1 DEF PromoteInput
<1>3. CppPromoteInput \in Seq(Micro)
  BY <1>1 DEF CppPromoteInput
<1>4. OutputSteps \in Seq(Micro)
  BY <1>1 DEF OutputSteps
<1>5. WriteCopy \in Seq(Micro)
  BY <1>1 DEF WriteCopy
<1>6. WriteCppCopy \in Seq(Micro)
  BY <1>1 DEF WriteCppCopy
<1>7. ToCopy \in Seq(Micro)
  BY <1>1 DEF ToCopy
<1>8. ToCppCopy \in Seq(Micro)
  BY <1>1 DEF ToCppCopy
<1>9. ReleaseSync \in Seq(Micro)
  BY <1>1 DEF ReleaseSync
<1>10. ReleaseWrap \in Seq(Micro)
  BY <1>1 DEF ReleaseWrap
<1>11. ReadSync \in Seq(Micro)
  BY <1>1 DEF ReadSync
<1>12. InputSteps \in Seq(Micro)
  BY <1>1 DEF InputSteps
<1>13. ToSync \in Seq(Micro)
  BY <1>1 DEF ToSync
<1>14. WrapWrite \in Seq(Micro)
  BY <1>1 DEF WrapWrite
<1>15. WrapRead \in Seq(Micro)
  BY <1>1 DEF WrapRead
<1>16. CopyOpen \in Seq(Micro)
  BY <1>1 DEF CopyOpen
<1>17. SyncOpen \in Seq(Micro)
  BY <1>1 DEF SyncOpen
<1>18. EndWrite \in Seq(Micro)
  BY <1>1 DEF EndWrite
<1>19. EndRead \in Seq(Micro)
  BY <1>1 DEF EndRead
<1>20. End \in Seq(Micro)
  BY <1>1 DEF End
<1>21. PromoteOutput \in Seq(Micro)
  BY <1>1, Triple DEF PromoteOutput, OutputSteps
<1> QED
  BY <1>2, <1>3, <1>4, <1>5, <1>6, <1>7, <1>8, <1>9, <1>10, <1>11, <1>12, <1>13, <1>14, <1>15, <1>16, <1>17, <1>18, <1>19, <1>20, <1>21 DEF Todos, AtAllocate, AtWrite, AtRelease, AtRead

-----------------------------------------------------------------------------
(* The steps of CudaBufferEvents, and what they leave alone.               *)

LEMMA Same ==
  /\ E!AnyStream = P!AnyStream /\ E!NoHandle = P!NoHandle /\ E!vars = P!vars
  /\ \A b : E!Allocate(b) <=> P!Allocate(b)
  /\ \A b : E!QueueWrite(b) <=> P!QueueWrite(b)
  /\ \A b : E!Drop(b) <=> P!Drop(b)
  /\ \A b : E!GetWriteHandleThrows(b) <=> P!GetWriteHandleThrows(b)
  /\ \A b : E!Finalize(b) <=> P!Finalize(b)
  /\ \A b : E!ReleaseWrite(b) <=> P!ReleaseWrite(b)
  /\ \A b, s : E!GetWriteHandle(b, s) <=> P!GetWriteHandle(b, s)
  /\ \A b, s, r : E!GetReadHandle(b, s, r) <=> P!GetReadHandle(b, s, r)
  /\ \A b, s : E!GetReadHandleThrows(b, s) <=> P!GetReadHandleThrows(b, s)
  /\ \A b, c, s, r : E!Clone(b, c, s, r) <=> P!Clone(b, c, s, r)
  /\ \A b, c, s, r : E!Resize(b, c, s, r) <=> P!Resize(b, c, s, r)
  /\ \A r : E!QueueRead(r) <=> P!QueueRead(r)
  /\ \A r : E!ReleaseRead(r) <=> P!ReleaseRead(r)
  /\ \A r : E!ReleaseReadUnmarked(r) <=> P!ReleaseReadUnmarked(r)
  /\ \A s : E!StreamStep(s) <=> P!StreamStep(s)
  /\ E!Retire <=> P!Retire
  /\ E!Init <=> P!Init
  /\ E!TypeOK <=> P!TypeOK
<1>1. E!AnyStream = P!AnyStream /\ E!NoHandle = P!NoHandle /\ E!vars = P!vars
  BY DEF E!AnyStream, P!AnyStream, E!NoHandle, P!NoHandle, E!vars, P!vars
<1>2. \A b : E!Allocate(b) <=> P!Allocate(b)
  BY DEF E!Allocate, P!Allocate
<1>3. \A b : E!QueueWrite(b) <=> P!QueueWrite(b)
  BY DEF E!QueueWrite, P!QueueWrite, E!Push, P!Push, E!Write, P!Write
<1>4. \A b : E!Drop(b) <=> P!Drop(b)
  BY DEF E!Drop, P!Drop, E!Unused, P!Unused, E!Destroy, P!Destroy
<1>5. \A b : E!GetWriteHandleThrows(b) <=> P!GetWriteHandleThrows(b)
  BY DEF E!GetWriteHandleThrows, P!GetWriteHandleThrows, E!Reaped, P!Reaped, E!Pending, P!Pending, E!Mark, P!Mark, E!Contains, P!Contains, E!AnyStream, P!AnyStream
<1>6. \A b : E!Finalize(b) <=> P!Finalize(b)
  BY DEF E!Finalize, P!Finalize, E!Finalized, P!Finalized, E!Outcome, P!Outcome, E!Records, P!Records, E!Recordable, P!Recordable, E!Push, P!Push, E!Record, P!Record
<1>7. \A b : E!ReleaseWrite(b) <=> P!ReleaseWrite(b)
  BY DEF E!ReleaseWrite, P!ReleaseWrite, E!Finalized, P!Finalized, E!Outcome, P!Outcome, E!Records, P!Records, E!Recordable, P!Recordable, E!Push, P!Push, E!Record, P!Record
<1>8. \A b, s : E!GetWriteHandle(b, s) <=> P!GetWriteHandle(b, s)
  BY DEF E!GetWriteHandle, P!GetWriteHandle, E!Reaped, P!Reaped, E!Pending, P!Pending, E!Mark, P!Mark, E!Contains, P!Contains, E!AnyStream, P!AnyStream
<1>9. \A b, s, r : E!GetReadHandle(b, s, r) <=> P!GetReadHandle(b, s, r)
  BY DEF E!GetReadHandle, P!GetReadHandle, E!Reaped, P!Reaped, E!Pending, P!Pending, E!Mark, P!Mark, E!Contains, P!Contains, E!AnyStream, P!AnyStream, E!Finalized, P!Finalized, E!Outcome, P!Outcome, E!Records, P!Records, E!Recordable, P!Recordable, E!Push, P!Push, E!Record, P!Record, E!Awaits, P!Awaits, E!Await, P!Await, E!Free, P!Free
<1>19. \A b, s : E!GetReadHandleThrows(b, s) <=> P!GetReadHandleThrows(b, s)
  BY DEF E!GetReadHandleThrows, P!GetReadHandleThrows, E!Reaped, P!Reaped, E!Pending, P!Pending, E!Mark, P!Mark, E!Contains, P!Contains, E!AnyStream, P!AnyStream, E!Finalized, P!Finalized, E!Outcome, P!Outcome, E!Records, P!Records, E!Recordable, P!Recordable, E!Push, P!Push, E!Record, P!Record
<1>10. \A b, c, s, r : E!Clone(b, c, s, r) <=> P!Clone(b, c, s, r)
  BY DEF E!Clone, P!Clone, E!Copy, P!Copy, E!Reaped, P!Reaped, E!Pending, P!Pending, E!Mark, P!Mark, E!Contains, P!Contains, E!AnyStream, P!AnyStream, E!Finalized, P!Finalized, E!Outcome, P!Outcome, E!Records, P!Records, E!Recordable, P!Recordable, E!Push, P!Push, E!Record, P!Record, E!Awaits, P!Awaits, E!Await, P!Await, E!Free, P!Free, E!Read, P!Read, E!Write, P!Write
<1>11. \A b, c, s, r : E!Resize(b, c, s, r) <=> P!Resize(b, c, s, r)
  BY DEF E!Resize, P!Resize, E!Unused, P!Unused, E!Copy, P!Copy, E!Reaped, P!Reaped, E!Pending, P!Pending, E!Mark, P!Mark, E!Contains, P!Contains, E!AnyStream, P!AnyStream, E!Finalized, P!Finalized, E!Outcome, P!Outcome, E!Records, P!Records, E!Recordable, P!Recordable, E!Push, P!Push, E!Record, P!Record, E!Awaits, P!Awaits, E!Await, P!Await, E!Free, P!Free, E!Read, P!Read, E!Write, P!Write
<1>12. \A r : E!QueueRead(r) <=> P!QueueRead(r)
  BY DEF E!QueueRead, P!QueueRead, E!NoHandle, P!NoHandle, E!Push, P!Push, E!Read, P!Read
<1>13. \A r : E!ReleaseRead(r) <=> P!ReleaseRead(r)
  BY DEF E!ReleaseRead, P!ReleaseRead, E!NoHandle, P!NoHandle, E!Push, P!Push, E!Mark, P!Mark
<1>14. \A r : E!ReleaseReadUnmarked(r) <=> P!ReleaseReadUnmarked(r)
  BY DEF E!ReleaseReadUnmarked, P!ReleaseReadUnmarked, E!NoHandle, P!NoHandle
<1>15. \A s : E!StreamStep(s) <=> P!StreamStep(s)
  BY DEF E!StreamStep, P!StreamStep, E!WriteEventDone, P!WriteEventDone, E!Pending, P!Pending, E!Contains, P!Contains, E!Record, P!Record, E!AnyStream, P!AnyStream
<1>16. E!Retire <=> P!Retire
  BY DEF E!Retire, P!Retire, E!WriteEventDone, P!WriteEventDone, E!Pending, P!Pending, E!Contains, P!Contains, E!Record, P!Record, E!AnyStream, P!AnyStream, E!Reaped, P!Reaped, E!Mark, P!Mark
<1>17. E!Init <=> P!Init
  BY DEF E!Init, P!Init, E!AnyStream, P!AnyStream, E!NoHandle, P!NoHandle
<1>18. E!TypeOK <=> P!TypeOK
  BY DEF E!TypeOK, P!TypeOK, E!AnyStream, P!AnyStream, E!NoHandle, P!NoHandle, E!Handle, P!Handle, E!Op, P!Op, E!Kinds, P!Kinds, E!Phases, P!Phases, E!States, P!States
<1> QED
  BY <1>1, <1>2, <1>3, <1>4, <1>5, <1>6, <1>7, <1>8, <1>9, <1>10, <1>11, <1>12, <1>13, <1>14, <1>15, <1>16, <1>17, <1>18, <1>19

\* Nothing is taken off a stream.
Longer ==
  \A s \in E!AnyStream :
    Len(queue[s]) \in Nat /\ Len(queue'[s]) \in Nat /\ Len(queue[s]) <= Len(queue'[s])

LEMMA LongerIf ==
  ASSUME P!Grown(queue, queue')
  PROVE  Longer
BY Same DEF Longer, P!Grown

LEMMA Constants ==
  /\ P!ConstantsOK
  /\ NoStream \notin E!AnyStream /\ NoStream \notin Reader /\ NoBuffer \notin Buffer
  /\ "call" \notin Reader /\ "writer" \notin Reader /\ "user" \notin Reader
<1>1. E!ConstantsOK
  BY ConstantsOK DEF ConstantsOK
<1>2. P!ConstantsOK
  BY <1>1 DEF E!ConstantsOK, P!ConstantsOK, E!IsFiniteSet, P!IsFiniteSet
<1>3. NoStream \notin E!AnyStream /\ NoBuffer \notin Buffer
  BY <1>1 DEF E!ConstantsOK, E!AnyStream
<1>4. NoStream \notin Reader /\ "call" \notin Reader /\ "writer" \notin Reader /\ "user" \notin Reader
  BY ConstantsOK DEF ConstantsOK
<1> QED
  BY <1>2, <1>3, <1>4

LEMMA Types ==
  ASSUME P!IInv
  PROVE  /\ phase \in [Buffer -> {"absent", "live", "retiring", "freed"}]
         /\ writer \in [Buffer -> E!AnyStream \cup {NoStream}]
         /\ handles \in SUBSET Reader
         /\ \A r \in Reader : reads[r].buf \in Buffer \cup {NoBuffer}
         /\ \A r \in Reader : reads[r] = E!NoHandle <=> reads[r].buf \notin Buffer
         /\ \A r \in Reader : reads[r] # E!NoHandle => r \in handles
         /\ \A b \in Buffer : writer[b] # NoStream => phase[b] = "live"
         /\ \A b \in Buffer : phase[b] = "absent" => writer[b] = NoStream
         /\ queue \in [E!AnyStream -> Seq(P!Op)]
         /\ DOMAIN reads = Reader
<1> USE DEF P!IInv, P!TypeOK, P!Phases
<1>1. NoBuffer \notin Buffer
  BY Constants
<1>2. E!NoHandle = P!NoHandle /\ P!NoHandle.buf = NoBuffer
  BY Same DEF P!NoHandle
<1>3. \A r \in Reader : reads[r] # P!NoHandle => reads[r].buf \in Buffer
  BY DEF P!Handle
<1>4. \A r \in Reader : reads[r] # P!NoHandle => r \in handles
  BY DEF P!HandleOK, P!HeldOK
<1>5. \A b \in Buffer : writer[b] # NoStream => phase[b] = "live"
  BY DEF P!BufferOK
<1> QED
  BY <1>1, <1>2, <1>3, <1>4, <1>5, Same

\* Nothing happens to the buffers.
LEMMA Quiet ==
  ASSUME P!IInv, UNCHANGED buffers
  PROVE  Longer
BY Types, LenProperties DEF buffers, Longer

LEMMA Allocates ==
  ASSUME P!IInv, NEW b \in Buffer, E!Allocate(b)
  PROVE  /\ P!Next /\ Longer
         /\ phase[b] = "absent" /\ phase' = [phase EXCEPT ![b] = "live"]
         /\ UNCHANGED <<writer, reads, handles>>
<1>1. P!Allocate(b)
  BY Same
<1>2. P!Extends
  BY <1>1, P!AllocateStep, Constants
<1> QED
  BY <1>1, <1>2, LongerIf DEF P!Next, P!Allocate, P!Extends

LEMMA TakesWriteHandle ==
  ASSUME P!IInv, NEW b \in Buffer, NEW s \in E!AnyStream, E!GetWriteHandle(b, s)
  PROVE  /\ P!Next /\ Longer
         /\ writer[b] = NoStream /\ writer' = [writer EXCEPT ![b] = s]
         /\ UNCHANGED <<phase, reads, handles>>
<1>1. P!GetWriteHandle(b, s) /\ s \in P!AnyStream
  BY Same
<1>2. P!Extends
  BY <1>1, P!GetWriteHandleStep, Constants
<1>3. writer[b] = NoStream
  BY <1>1 DEF P!GetWriteHandle, P!IInv, P!BufferOK
<1> QED
  BY <1>1, <1>2, <1>3, LongerIf DEF P!Next, P!GetWriteHandle, P!Extends

LEMMA FailsToTakeIt ==
  ASSUME P!IInv, NEW b \in Buffer, E!GetWriteHandleThrows(b)
  PROVE  P!Next /\ Longer /\ UNCHANGED <<phase, writer, reads, handles>>
<1>1. P!GetWriteHandleThrows(b)
  BY Same
<1>2. P!Extends
  BY <1>1, P!GetWriteHandleThrowsStep, Constants
<1> QED
  BY <1>1, <1>2, LongerIf DEF P!Next, P!GetWriteHandleThrows, P!Extends

LEMMA Finalizes ==
  ASSUME P!IInv, NEW b \in Buffer, E!Finalize(b)
  PROVE  P!Next /\ Longer /\ UNCHANGED <<phase, writer, reads, handles>>
<1>1. P!Finalize(b)
  BY Same
<1>2. P!Extends
  BY <1>1, P!FinalizeStep, Constants
<1> QED
  BY <1>1, <1>2, LongerIf DEF P!Next, P!Finalize, P!Extends

LEMMA Writes ==
  ASSUME P!IInv, NEW b \in Buffer, E!QueueWrite(b)
  PROVE  P!Next /\ Longer /\ UNCHANGED <<phase, writer, reads, handles>>
<1>1. P!QueueWrite(b)
  BY Same
<1>2. P!Extends
  BY <1>1, P!QueueWriteStep, Constants
<1> QED
  BY <1>1, <1>2, LongerIf DEF P!Next, P!QueueWrite, P!Extends

LEMMA Reads ==
  ASSUME P!IInv, NEW r \in Reader, E!QueueRead(r)
  PROVE  P!Next /\ Longer /\ UNCHANGED <<phase, writer, reads, handles>>
<1>1. P!QueueRead(r)
  BY Same
<1>2. P!Extends
  BY <1>1, P!QueueReadStep, Constants
<1> QED
  BY <1>1, <1>2, LongerIf DEF P!Next, P!QueueRead, P!Extends

LEMMA GivesWriteHandleBack ==
  ASSUME P!IInv, NEW b \in Buffer, E!ReleaseWrite(b)
  PROVE  P!Next /\ Longer /\ writer' = [writer EXCEPT ![b] = NoStream]
         /\ UNCHANGED <<phase, reads, handles>>
<1>1. P!ReleaseWrite(b)
  BY Same
<1>2. P!Extends
  BY <1>1, P!FinalizeStep, Constants
<1> QED
  BY <1>1, <1>2, LongerIf DEF P!Next, P!ReleaseWrite, P!Extends

LEMMA TakesReadHandle ==
  ASSUME P!IInv, NEW b \in Buffer, NEW s \in E!AnyStream, NEW r \in Reader, E!GetReadHandle(b, s, r)
  PROVE  /\ P!Next /\ Longer /\ r \notin handles /\ handles' = handles \cup {r}
         /\ \A q \in Reader : reads'[q].buf = IF q = r THEN b ELSE reads[q].buf
         /\ UNCHANGED <<phase, writer>>
<1>1. P!GetReadHandle(b, s, r) /\ s \in P!AnyStream
  BY Same
<1>2. P!Extends
  BY <1>1, P!GetReadHandleStep, Constants
<1>3. \A q \in Reader : reads'[q].buf = IF q = r THEN b ELSE reads[q].buf
  BY <1>1, Types DEF P!GetReadHandle
<1> QED
  BY <1>1, <1>2, <1>3, LongerIf DEF P!Next, P!GetReadHandle, P!Free, P!Extends

LEMMA FailsToRead ==
  ASSUME P!IInv, NEW b \in Buffer, NEW s \in E!AnyStream, E!GetReadHandleThrows(b, s)
  PROVE  P!Next /\ Longer /\ UNCHANGED <<phase, writer, reads, handles>>
<1>1. P!GetReadHandleThrows(b, s) /\ s \in P!AnyStream
  BY Same
<1>2. P!Extends
  BY <1>1, P!GetReadHandleThrowsStep, Constants
<1> QED
  BY <1>1, <1>2, LongerIf DEF P!Next, P!GetReadHandleThrows, P!Extends

LEMMA GivesReadHandleBack ==
  ASSUME P!IInv, NEW r \in Reader, E!ReleaseRead(r) \/ E!ReleaseReadUnmarked(r)
  PROVE  /\ P!Next /\ Longer
         /\ \A q \in Reader : reads'[q].buf = IF q = r THEN NoBuffer ELSE reads[q].buf
         /\ UNCHANGED <<phase, writer, handles>>
<1>1. P!ReleaseRead(r) \/ P!ReleaseReadUnmarked(r)
  BY Same
<1>2. P!Extends
  BY <1>1, P!ReleaseReadStep, P!ReleaseReadUnmarkedStep, Constants
<1>3. reads' = [reads EXCEPT ![r] = P!NoHandle] /\ P!NoHandle.buf = NoBuffer
  BY <1>1 DEF P!ReleaseRead, P!ReleaseReadUnmarked, P!NoHandle
<1>4. \A q \in Reader : reads'[q].buf = IF q = r THEN NoBuffer ELSE reads[q].buf
  BY <1>3, Types
<1> QED
  BY <1>1, <1>2, <1>4, LongerIf DEF P!Next, P!ReleaseRead, P!ReleaseReadUnmarked, P!Extends

LEMMA Drops ==
  ASSUME P!IInv, NEW b \in Buffer, E!Destroy(b), writer[b] = NoStream,
         \A r \in Reader : reads[r].buf # b
  PROVE  /\ P!Next /\ Longer /\ phase'[b] # "live"
         /\ \A c \in Buffer : c # b => phase'[c] = phase[c]
         /\ UNCHANGED <<writer, reads, handles>>
<1>1. P!Drop(b)
  BY Same DEF E!Drop, E!Unused
<1>2. P!Extends
  BY <1>1, P!DropStep, Constants
<1> QED
  BY <1>1, <1>2, Types, LongerIf DEF P!Next, P!Drop, P!Destroy, P!Extends

LEMMA Recycles ==
  ASSUME P!IInv, E!Retire
  PROVE  /\ P!Next /\ Longer
         /\ \A b \in Buffer : phase'[b] = "live" <=> phase[b] = "live"
         /\ UNCHANGED <<writer, reads, handles>>
<1>1. P!Retire
  BY Same
<1>2. P!Extends
  BY <1>1, P!RetireStep, Constants
<1>3. Head(retireQ) \in Buffer /\ phase[Head(retireQ)] = "retiring"
  <2>1. retireQ \in Seq(Buffer) /\ retireQ # <<>>
    BY <1>1 DEF P!Retire, P!IInv, P!TypeOK
  <2>2. Len(retireQ) \in Nat \ {0} /\ Head(retireQ) = retireQ[1] /\ Head(retireQ) \in Buffer
    BY <2>1, HeadTailProperties, LenProperties, EmptySeq
  <2> QED
    BY <2>2 DEF P!IInv, P!RetireOK
<1>4. phase' = [phase EXCEPT ![Head(retireQ)] = "freed"]
  BY <1>1 DEF P!Retire
<1>5. \A b \in Buffer : phase'[b] = "live" <=> phase[b] = "live"
  BY <1>3, <1>4, Types
<1> QED
  BY <1>1, <1>2, <1>5, LongerIf DEF P!Next, P!Retire, P!Extends

\* The GPU takes one operation.
LEMMA GpuSteps ==
  ASSUME P!IInv, NEW s \in E!AnyStream, E!StreamStep(s)
  PROVE  /\ P!Next
         /\ Len(queue[s]) \in Nat \ {0} /\ Len(queue'[s]) = Len(queue[s]) - 1
         /\ \A t \in E!AnyStream : t # s => queue'[t] = queue[t]
         /\ UNCHANGED <<phase, writer, reads, handles>>
<1>1. P!StreamStep(s) /\ s \in P!AnyStream
  BY Same
<1>2. queue[s] # <<>> /\ queue' = [queue EXCEPT ![s] = Tail(queue[s])] /\ queue[s] \in Seq(P!Op)
  BY <1>1, Types DEF P!StreamStep
<1>3. Len(queue[s]) \in Nat \ {0} /\ Len(Tail(queue[s])) = Len(queue[s]) - 1
  BY <1>2, HeadTailProperties, LenProperties, EmptySeq
<1> QED
  BY <1>1, <1>2, <1>3, Types DEF P!Next, P!StreamStep

-----------------------------------------------------------------------------
(* The call under way.                                                     *)

LEMMA Begins ==
  ASSUME NEW t \in Todos, NEW b \in Buffer, NEW s \in E!AnyStream \cup {NoStream},
         NEW r \in Reader \cup {NoStream}, NEW o \in {"call", "writer"} \cup Reader,
         Begin(t, b, s, r, o)
  PROVE  /\ ~InCall /\ (InCall)' /\ call' \in Calls /\ Kind(t)
         /\ call'.todo = t /\ call'.buf = b /\ call'.stream = s /\ call'.by = r /\ call'.holder = o
<1>1. call = NoCall /\ call' = [todo |-> t, buf |-> b, stream |-> s, by |-> r, holder |-> o]
  BY DEF Begin
<1>2. Kind(t)
  BY Kinds
<1>3. call'.todo # NoCall.todo
  BY <1>1, <1>2 DEF Kind, NoCall
<1> QED
  BY <1>1, <1>2, <1>3 DEF InCall, Calls

LEMMA Stepping ==
  ASSUME CallOK, NEW x, Next1(x)
  PROVE  InCall /\ call \in Calls /\ call.todo \in Todos /\ Kind(call.todo) /\ Head(call.todo) = x
<1>1. InCall
  BY DEF Next1, InCall, NoCall
<1> QED
  BY <1>1, Kinds DEF CallOK, Calls, Next1

LEMMA Resting ==
  ASSUME CallOK, NEW x, Next1(x), Rest, call.todo \notin {WrapWrite, WrapRead, End}
  PROVE  /\ (InCall)' /\ call' \in Calls /\ Kind(call'.todo)
         /\ call'.todo = Tail(call.todo) /\ call'.buf = call.buf /\ call'.stream = call.stream
         /\ call'.by = call.by /\ call'.holder = call.holder
         /\ call'.todo \in Reading => call'.by \in Reader
<1>1. InCall /\ call \in Calls /\ call.todo \in Todos /\ Kind(call.todo)
  BY Stepping
<1>2. Tail(call.todo) \in Todos
  BY <1>1 DEF Kind, Todos, AtRelease
<1>3. call' = [call EXCEPT !.todo = Tail(call.todo)]
  BY <1>1 DEF Rest, Kind
<1>4. call' \in Calls /\ call'.todo = Tail(call.todo)
  BY <1>1, <1>2, <1>3 DEF Calls
<1>5. call'.todo # NoCall.todo
  BY <1>2, <1>4, Kinds DEF Kind, NoCall
<1>6. call'.todo \in Reading => call'.by \in Reader
  <2>1. call'.todo \in Reading => call.todo \in Reading
    BY <1>1, <1>4, Readings
  <2>2. call'.by = call.by
    BY <1>1, <1>3 DEF Calls
  <2> QED
    BY <1>1, <2>1, <2>2 DEF CallOK
<1> QED
  BY <1>1, <1>2, <1>3, <1>4, <1>5, <1>6, Kinds DEF InCall, Calls

LEMMA Finishing ==
  ASSUME CallOK, NEW x, Next1(x), Rest, call.todo \in {WrapWrite, WrapRead, End}
  PROVE  ~(InCall)'
BY Stepping DEF Rest, Kind, InCall

\* The steps that can throw.
Waits == {"read", "sync"}
Throwers == {"write", "copy", "cpp_copy", "wrap_write", "wrap_read"} \cup Waits

\* What a call has when a step of it throws.
LEMMA Throwing ==
  ASSUME IInv, NEW x \in Throwers, Next1(x), Throws
  PROVE  /\ InCall /\ (InCall)' /\ call' \in Calls /\ call.holder = "call"
         /\ Kind(call.todo) /\ Kind(call'.todo)
         /\ call.todo \in AtWrite \cup AtRead \cup {ToCopy, CopyOpen, ToCppCopy, ToSync, SyncOpen, WrapWrite, WrapRead}
         /\ call'.todo = IF call.todo \in WriteOpen THEN EndWrite
                         ELSE IF call.todo \in ReadOpen THEN EndRead ELSE End
         /\ call'.buf = call.buf /\ call'.stream = call.stream
         /\ call'.by = call.by /\ call'.holder = call.holder
         /\ call'.todo \in Reading => call'.by \in Reader
<1>1. InCall /\ call \in Calls /\ call.todo \in Todos /\ Kind(call.todo) /\ Head(call.todo) = x
  BY Stepping DEF IInv
<1>2. call.todo \in AtWrite \cup AtRead \cup {ToCopy, CopyOpen, ToCppCopy, ToSync, SyncOpen, WrapWrite, WrapRead}
  BY <1>1 DEF Kind, Throwers, Waits
<1>3. call.todo \notin {EndWrite, EndRead, End} /\ Kind(EndWrite) /\ Kind(EndRead) /\ Kind(End)
  BY <1>1, Lists, Kinds DEF Todos, Throwers, Waits
<1>4. call.holder = "call" /\ call.buf \in Buffer
  BY <1>1, <1>3 DEF IInv, CallOK, Calls
<1>5. Calling(call.buf)
  BY <1>1, <1>4 DEF Calling
<1>6. ~Closed(call.buf, "writer") /\ \A r \in Reader : ~Closed(call.buf, r)
  BY <1>3 DEF Closed
<1>7. OwnWriter <=> call.todo \in WriteOpen
  BY <1>4, <1>5, <1>6 DEF OwnWriter, IInv, OwnersOK
<1>8. OwnReader <=> call.todo \in ReadOpen
  <2>1. CASE call.todo \in ReadOpen
    <3>1. call.by \in Reader
      BY <1>1, <2>1 DEF IInv, CallOK, Reading
    <3>2. CallReads(call.buf, call.by)
      BY <1>5, <2>1 DEF CallReads
    <3>3. call.by \notin owners[call.buf] /\ reads[call.by].buf = call.buf
      BY <1>4, <3>1, <3>2 DEF IInv, OwnersOK
    <3> QED
      BY <1>4, <2>1, <3>1, <3>3, Types DEF OwnReader, IInv
  <2>2. CASE call.todo \notin ReadOpen
    <3>1. call.todo \in Unread
      BY <1>2, <2>2 DEF ReadOpen, Unread
    <3>2. call.by \notin handles
      BY <1>1, <3>1 DEF IInv, CallOK
    <3> QED
      BY <2>2, <3>2, Types DEF OwnReader, IInv
  <2> QED
    BY <2>1, <2>2
<1>9. ~(call.todo \in WriteOpen /\ call.todo \in ReadOpen)
  BY <1>1, <1>2, <1>3, Lists DEF Kind, WriteOpen, ReadOpen, AtRelease
<1>10. Unwinding = IF call.todo \in WriteOpen THEN EndWrite
                   ELSE IF call.todo \in ReadOpen THEN EndRead ELSE End
  BY <1>7, <1>8, <1>9, Unwinds DEF Unwinding
<1>11. call' = [call EXCEPT !.todo = Unwinding]
  BY DEF Throws
<1>12. Unwinding \in Todos
  BY <1>10 DEF Todos
<1>13. call' \in Calls /\ call'.todo = Unwinding
  BY <1>1, <1>11, <1>12 DEF Calls
<1>14. call'.todo # NoCall.todo
  BY <1>12, <1>13, Kinds DEF Kind, NoCall
<1>15. call'.todo \in Reading => call.by \in Reader
  <2>1. call'.todo \in Reading => call.todo \in Reading
    BY <1>10, <1>13, Readings DEF Reading
  <2> QED
    BY <1>1, <2>1 DEF IInv, CallOK
<1> QED
  BY <1>1, <1>2, <1>3, <1>4, <1>10, <1>11, <1>13, <1>14, <1>15 DEF InCall, Calls

LEMMA CopyingStays ==
  ASSUME CopyingOK, Longer, copying' = copying, abandoned' = abandoned,
         InCall /\ call.todo \in Transfers =>
           (InCall)' /\ call'.stream = call.stream /\ call'.todo \in Transfers
  PROVE  CopyingOK'
<1>1. \A s \in E!AnyStream : Len(queue[s]) \in Nat /\ Len(queue'[s]) \in Nat /\ copying[s] \in Nat
  BY DEF Longer, CopyingOK
<1> QED
  BY <1>1 DEF CopyingOK, Longer, InCall

-----------------------------------------------------------------------------
(* The steps, one by one.                                                  *)

\* A step is one of CudaBufferEvents or shows nothing to it.
EventStep == P!Next \/ UNCHANGED buffers
Kept == promoted \in SUBSET Buffer /\ CallOK /\ OwnersOK /\ CopyingOK

LEMMA AllocateBufferStep ==
  ASSUME IInv, NEW b \in Buffer, AllocateBuffer(b)
  PROVE  EventStep /\ Kept'
<1> USE DEF IInv, AllocateBuffer
<1>1. /\ P!Next /\ Longer /\ phase[b] = "absent" /\ phase' = [phase EXCEPT ![b] = "live"]
      /\ UNCHANGED <<writer, reads, handles>>
  BY Allocates
<1>2. ~InCall /\ ~(InCall)'
  BY DEF InCall
<1>3. OwnersOK'
  BY <1>1, <1>2, Types, Constants DEF OwnersOK, Owner, Calling, Closed, CallReads
<1>4. CopyingOK'
  BY <1>1, <1>2, CopyingStays
<1>5. CallOK'
  BY <1>2 DEF CallOK
<1> QED
  BY <1>1, <1>3, <1>4, <1>5 DEF EventStep, Kept

LEMMA FromBufferStep ==
  ASSUME IInv, NEW b \in Buffer, NEW s \in E!AnyStream, NEW r \in Reader, FromBuffer(b, s, r)
  PROVE  EventStep /\ Kept'
<1> USE DEF IInv, FromBuffer
<1>1. UNCHANGED buffers /\ Longer /\ UNCHANGED <<phase, writer, reads, handles>>
  BY Quiet DEF buffers
<1>2. PICK t \in {OutputSteps, InputSteps}, q \in {NoStream, r} :
        Begin(t, b, s, q, "call") /\ q \notin handles /\ (t = InputSteps => q = r)
  <2>1. OutputSteps # InputSteps /\ NoStream \notin handles
    BY Lists, Types, Constants
  <2>2. CASE Begin(OutputSteps, b, s, NoStream, "call")
    BY <2>1, <2>2
  <2>3. CASE r \notin handles /\ Begin(InputSteps, b, s, r, "call")
    BY <2>3
  <2> QED
    BY <2>2, <2>3
<1>3. /\ ~InCall /\ (InCall)' /\ call' \in Calls /\ Kind(t)
      /\ call'.todo = t /\ call'.buf = b /\ call'.stream = s /\ call'.by = q /\ call'.holder = "call"
  BY <1>2, Begins, Starts
<1>4. t \in AtWrite \cup AtRead /\ t \notin AtAllocate /\ t \notin WriteOpen /\ t \notin ReadOpen
      /\ t \notin {EndWrite, EndRead, End, ToCopy, CopyOpen} /\ (t \in AtRead => t = InputSteps)
  <2>1. Head(t) = "write" \/ Head(t) = "read"
    BY <1>2, Lists
  <2>2. t \in AtRead => Head(t) = "read"
    BY <1>3 DEF Kind
  <2> QED
    BY <1>2, <1>3, <2>1, <2>2, Lists DEF Kind, WriteOpen, ReadOpen
<1>5. OwnersOK'
  BY <1>1, <1>3, <1>4, Types, Constants DEF OwnersOK, Owner, Calling, Closed, CallReads
<1>6. CopyingOK'
  BY <1>1, <1>3, CopyingStays
<1>7. CallOK'
  BY <1>1, <1>2, <1>3, <1>4, Readings, Constants DEF CallOK
<1> QED
  BY <1>1, <1>5, <1>6, <1>7 DEF EventStep, Kept

LEMMA PromoteStep ==
  ASSUME IInv, NEW b \in Buffer, NEW s \in E!AnyStream, NEW r \in Reader, Promote(b, s, r)
  PROVE  EventStep /\ Kept'
<1> USE DEF IInv, Promote
<1>1. UNCHANGED buffers /\ Longer /\ UNCHANGED <<phase, writer, reads, handles>>
  BY Quiet DEF buffers
<1>2. PICK t \in AtAllocate, q \in {NoStream, r} :
        Begin(t, b, s, q, "call") /\ q \notin handles /\ (q = r \/ t = PromoteOutput)
  BY Types, Constants DEF AtAllocate
<1>3. /\ ~InCall /\ (InCall)' /\ call' \in Calls /\ Kind(t)
      /\ call'.todo = t /\ call'.buf = b /\ call'.stream = s /\ call'.by = q /\ call'.holder = "call"
  BY <1>2, Begins DEF Todos
<1>4. t \notin WriteOpen /\ t \notin ReadOpen /\ t \notin AtRead
      /\ t \notin {EndWrite, EndRead, End, ToCopy, CopyOpen}
  BY <1>2, <1>3 DEF Kind, WriteOpen, ReadOpen
<1>5. OwnersOK'
  BY <1>1, <1>2, <1>3, <1>4, Types, Constants DEF OwnersOK, Owner, Calling, Closed, CallReads
<1>6. CopyingOK'
  BY <1>1, <1>3, CopyingStays
<1>7. CallOK'
  BY <1>1, <1>2, <1>3, <1>4, Readings, Constants DEF CallOK
<1> QED
  BY <1>1, <1>5, <1>6, <1>7 DEF EventStep, Kept

LEMMA ToBufferStep ==
  ASSUME IInv, NEW b \in Buffer, ToBuffer(b)
  PROVE  EventStep /\ Kept'
<1> USE DEF IInv, ToBuffer
<1>1. UNCHANGED buffers /\ Longer /\ UNCHANGED <<phase, writer, reads, handles>>
  BY Quiet DEF buffers
<1>2. Begin(CopyOpen, b, writer[b], NoStream, "call") /\ CopyOpen \in Todos
  BY Starts DEF CopyOpen
<1>3. ~InCall
  BY <1>2 DEF Begin, InCall
<1>4. writer[b] \in E!AnyStream
  <2>1. ~Closed(b, "writer") /\ "writer" \in owners[b]
    BY <1>3 DEF Closed
  <2>2. writer[b] # NoStream
    BY <2>1 DEF OwnersOK
  <2> QED
    BY <2>2, Types
<1>5. /\ ~InCall /\ (InCall)' /\ call' \in Calls /\ Kind(CopyOpen)
      /\ call'.todo = CopyOpen /\ call'.buf = b /\ call'.stream = writer[b]
      /\ call'.by = NoStream /\ call'.holder = "call"
  BY <1>2, <1>4, Begins
<1>6. CopyOpen \notin WriteOpen /\ CopyOpen \notin ReadOpen /\ CopyOpen \notin AtRead
      /\ CopyOpen \notin AtAllocate /\ CopyOpen \notin {EndWrite, EndRead, End}
  BY Lists, Distinct DEF AtWrite, AtRead, AtAllocate, WriteOpen, ReadOpen, AtRelease
<1>7. OwnersOK'
  BY <1>1, <1>5, <1>6, Types, Constants DEF OwnersOK, Owner, Calling, Closed, CallReads
<1>8. CopyingOK'
  BY <1>1, <1>5, CopyingStays
<1>9. CallOK'
  BY <1>1, <1>4, <1>5, <1>6, Readings, Types, Constants DEF CallOK
<1> QED
  BY <1>1, <1>7, <1>8, <1>9 DEF EventStep, Kept

LEMMA CloseStep ==
  ASSUME IInv, NEW b \in Buffer, Close(b)
  PROVE  EventStep /\ Kept'
<1> USE DEF IInv, Close
<1>1. UNCHANGED buffers /\ Longer /\ UNCHANGED <<phase, writer, reads, handles>>
  BY Quiet DEF buffers
<1>2. PICK t \in {EndWrite, EndRead}, o \in {"writer"} \cup Reader, q \in {NoStream} \cup Reader :
        /\ Begin(t, b, NoStream, q, o) /\ o \in owners[b]
        /\ IF t = EndWrite THEN o = "writer" ELSE o = q /\ q \in Reader
  <2>1. EndWrite # EndRead
    BY Lists
  <2>2. CASE "writer" \in owners[b] /\ Begin(CloseSteps("release"), b, NoStream, NoStream, "writer")
    BY <2>2, Starts
  <2>3. CASE \E r \in owners[b] \cap Reader : Begin(CloseSteps("release_read"), b, NoStream, r, r)
    BY <2>1, <2>3, Starts
  <2> QED
    BY <2>2, <2>3
<1>3. /\ ~InCall /\ (InCall)' /\ call' \in Calls
      /\ call'.todo = t /\ call'.buf = b /\ call'.by = q /\ call'.holder = o /\ Kind(t)
  <2>1. t \in Todos /\ o \in {"call", "writer"} \cup Reader
    BY DEF Todos
  <2> HIDE DEF Close, IInv
  <2> QED
    BY <1>2, <2>1, Begins
<1>4. t \notin {End, ToCopy, CopyOpen} /\ t \notin AtRead /\ t \notin AtAllocate /\ t \notin Unread
      /\ (t = EndWrite => t \notin ReadOpen)
  <2>1. (t = EndWrite => Head(t) = "release") /\ (t = EndRead => Head(t) = "release_read")
    BY Lists
  <2>2. t \notin AtRelease
    BY <1>2, Distinct, <1>3, <2>1 DEF Kind
  <2> QED
    BY <1>2, <1>3, <2>1, <2>2, Lists DEF Kind, ReadOpen, Unread
<1>5. OwnersOK'
  BY <1>1, <1>2, <1>3, <1>4, Types, Constants DEF OwnersOK, Owner, Calling, Closed, CallReads
<1>6. CopyingOK'
  BY <1>1, <1>3, CopyingStays
<1>7. CallOK'
  <2>1. EndWrite # EndRead
    BY Lists
  <2> QED
    BY <2>1, <1>1, <1>2, <1>3, <1>4, Readings, Constants DEF CallOK
<1> QED
  BY <1>1, <1>5, <1>6, <1>7 DEF EventStep, Kept

LEMMA GetPromotedBufferStep ==
  ASSUME IInv, NEW b \in Buffer, GetPromotedBuffer(b)
  PROVE  EventStep /\ Kept'
<1> USE DEF IInv, GetPromotedBuffer
<1>1. UNCHANGED buffers /\ Longer /\ UNCHANGED <<phase, writer, reads, handles>>
  BY Quiet DEF buffers
<1>2. ~InCall /\ ~(InCall)'
  BY DEF InCall
<1>3. OwnersOK'
  BY <1>1, <1>2, Types, Constants DEF OwnersOK, Owner, Calling, Closed, CallReads
<1>4. CopyingOK'
  BY <1>1, <1>2, CopyingStays
<1>5. CallOK'
  BY <1>2 DEF CallOK
<1> QED
  BY <1>1, <1>3, <1>4, <1>5 DEF EventStep, Kept

\* Who lets go last destroys the buffer, which has no handle then.
LEMMA DisownStep ==
  ASSUME IInv, NEW b \in Buffer, NEW o, Disown(b, o), o \in owners[b],
         writer[b] # NoStream => \E p \in owners[b] : p # o,
         \A r \in Reader : reads[r].buf = b => \E p \in owners[b] : p # o
  PROVE  /\ EventStep /\ Longer /\ UNCHANGED <<writer, reads, handles, promoted, copying, abandoned>>
         /\ owners' = [owners EXCEPT ![b] = @ \ {o}]
         /\ phase'[b] = "live" <=> owners[b] # {o}
         /\ \A c \in Buffer : c # b => phase'[c] = phase[c]
<1> USE DEF IInv, Disown
<1>1. CASE owners[b] = {o}
  BY <1>1, Drops DEF EventStep
<1>2. CASE owners[b] # {o}
  <2>1. UNCHANGED buffers
    BY <1>2
  <2>2. phase[b] = "live"
    BY DEF OwnersOK
  <2> QED
    BY <1>2, <2>1, <2>2, Quiet DEF buffers, EventStep
<1> QED
  BY <1>1, <1>2

LEMMA LetGoStep ==
  ASSUME IInv, NEW b \in Buffer, LetGo(b)
  PROVE  EventStep /\ Kept'
<1> USE DEF IInv, LetGo
<1>1. ~InCall /\ ~(InCall)'
  BY DEF InCall
<1>2. /\ writer[b] # NoStream => "writer" \in owners[b]
      /\ \A r \in Reader : reads[r].buf = b => r \in owners[b]
  BY <1>1 DEF OwnersOK, Calling, CallReads
<1>3. /\ EventStep /\ Longer /\ UNCHANGED <<writer, reads, handles, promoted, copying, abandoned>>
      /\ owners' = [owners EXCEPT ![b] = @ \ {"user"}]
      /\ phase'[b] = "live" <=> owners[b] # {"user"}
      /\ \A c \in Buffer : c # b => phase'[c] = phase[c]
  BY <1>2, DisownStep, Constants
<1>4. OwnersOK'
  BY <1>1, <1>3, Types, Constants DEF OwnersOK, Owner, Calling, Closed, CallReads
<1>5. CopyingOK'
  BY <1>1, <1>3, CopyingStays
<1>6. CallOK'
  BY <1>1 DEF CallOK
<1> QED
  BY <1>3, <1>4, <1>5, <1>6 DEF EventStep, Kept

LEMMA UserKernelStep ==
  ASSUME IInv, NEW b \in Buffer, UserKernel(b)
  PROVE  EventStep /\ Kept'
<1> USE DEF IInv, UserKernel
<1>1. P!Next /\ Longer /\ UNCHANGED <<phase, writer, reads, handles>>
  BY Writes, Reads, Finalizes
<1>2. ~InCall /\ ~(InCall)'
  BY DEF InCall
<1>3. OwnersOK'
  BY <1>1, <1>2, Types, Constants DEF OwnersOK, Owner, Calling, Closed, CallReads
<1>4. CopyingOK'
  BY <1>1, <1>2, CopyingStays
<1>5. CallOK'
  BY <1>2 DEF CallOK
<1> QED
  BY <1>1, <1>3, <1>4, <1>5 DEF EventStep, Kept

LEMMA CallAllocateStep ==
  ASSUME IInv, CallAllocate
  PROVE  EventStep /\ Kept'
<1> USE DEF IInv, CallAllocate
<1>1. /\ InCall /\ call \in Calls /\ Kind(call.todo) /\ Head(call.todo) = "allocate"
  BY Stepping
<1>2. /\ call.todo \in AtAllocate /\ call.buf \in Buffer /\ call.holder = "call"
      /\ call.stream \in E!AnyStream /\ call.by \notin handles
      /\ call.todo \notin {WrapWrite, WrapRead, End}
  <2>1. call.todo \in AtAllocate /\ call.todo \notin {WrapWrite, WrapRead, End, EndWrite, EndRead}
    BY <1>1, Lists DEF Kind
  <2> QED
    BY <1>1, <2>1 DEF CallOK, Calls, Unread
<1>3. /\ (InCall)' /\ call' \in Calls /\ Kind(call'.todo)
      /\ call'.todo \in AtWrite /\ call'.buf = call.buf /\ call'.stream = call.stream
      /\ call'.by = call.by /\ call'.holder = call.holder
      /\ call'.todo \in Reading => call'.by \in Reader
  BY <1>1, <1>2, Resting DEF Kind
<1>4. /\ P!Next /\ Longer /\ phase[call.buf] = "absent" /\ phase' = [phase EXCEPT ![call.buf] = "live"]
      /\ UNCHANGED <<writer, reads, handles>>
  BY <1>2, Allocates
<1>5. /\ call'.todo \notin AtAllocate /\ call'.todo \notin WriteOpen /\ call'.todo \notin ReadOpen
      /\ call'.todo \notin AtRead /\ call'.todo \notin {EndWrite, EndRead, End, ToCopy, CopyOpen}
  BY <1>3, Lists DEF Kind, WriteOpen, ReadOpen
<1>6. /\ call.todo \notin WriteOpen /\ call.todo \notin ReadOpen /\ call.todo \notin Transfers
      /\ call.todo # End
  BY <1>1, Lists DEF Kind, WriteOpen, ReadOpen, Transfers
<1>7. owners' = [owners EXCEPT ![call.buf] = {"call"}] /\ owners[call.buf] = {}
  BY <1>2, <1>4 DEF OwnersOK
<1>8. OwnersOK'
  BY <1>1, <1>2, <1>3, <1>4, <1>5, <1>6, <1>7, Types, Constants
     DEF OwnersOK, Owner, Calling, Closed, CallReads
<1>9. CopyingOK'
  BY <1>4, <1>6, CopyingStays
<1>10. CallOK'
  BY <1>2, <1>3, <1>4, <1>5 DEF CallOK
<1> QED
  BY <1>4, <1>8, <1>9, <1>10 DEF EventStep, Kept

LEMMA CallAllocateFailsStep ==
  ASSUME IInv, CallAllocateFails
  PROVE  EventStep /\ Kept'
<1> USE DEF IInv, CallAllocateFails
<1>1. /\ InCall /\ call \in Calls /\ Kind(call.todo) /\ Head(call.todo) = "allocate"
  BY Stepping
<1>2. /\ call.todo \in AtAllocate /\ call.todo \notin WriteOpen /\ call.todo \notin ReadOpen
      /\ call.todo \notin Transfers /\ call.todo # End
  BY <1>1, Lists DEF Kind, WriteOpen, ReadOpen, Transfers
<1>3. ~(InCall)' /\ UNCHANGED buffers /\ Longer /\ UNCHANGED <<phase, writer, reads, handles>>
  BY Quiet DEF buffers, InCall
<1>4. OwnersOK'
  BY <1>2, <1>3 DEF OwnersOK, Calling, Closed, CallReads
<1>5. CopyingOK'
  BY <1>2, <1>3, CopyingStays
<1>6. CallOK'
  BY <1>3 DEF CallOK
<1> QED
  BY <1>3, <1>4, <1>5, <1>6 DEF EventStep, Kept

\* The call goes on, with what it had.
LEMMA Unmoved ==
  ASSUME IInv, UNCHANGED <<writer, reads, handles, owners>>,
         \A b \in Buffer : phase'[b] = "live" <=> phase[b] = "live",
         InCall, (InCall)', call.holder = "call",
         call'.buf = call.buf, call'.by = call.by, call'.holder = call.holder,
         call.todo \notin AtAllocate, call'.todo \notin AtAllocate,
         call'.todo \in WriteOpen <=> call.todo \in WriteOpen,
         call'.todo \in ReadOpen <=> call.todo \in ReadOpen
  PROVE  OwnersOK'
<1> USE DEF IInv
<1>1. \A b \in Buffer, o \in {"writer"} \cup Reader : ~Closed(b, o) /\ ~Closed(b, o)'
  BY Constants DEF Closed
<1>2. \A b \in Buffer : Calling(b)' <=> Calling(b)
  BY DEF Calling
<1>3. \A b \in Buffer, r \in Reader : CallReads(b, r)' <=> CallReads(b, r)
  BY <1>2 DEF CallReads
<1> QED
  BY <1>1, <1>2, <1>3 DEF OwnersOK

\* A wait that throws leaves its transfer behind.
LEMMA AbandonsCopying ==
  ASSUME IInv, Longer, Abandons, copying' = copying, call.stream \in E!AnyStream
  PROVE  CopyingOK'
<1>1. /\ abandoned' \in SUBSET E!AnyStream /\ abandoned \subseteq abandoned'
      /\ copying[call.stream] # 0 => call.stream \in abandoned'
  BY DEF Abandons, IInv, CopyingOK
<1>2. \A s \in E!AnyStream :
        /\ Len(queue[s]) \in Nat /\ Len(queue'[s]) \in Nat /\ Len(queue[s]) <= Len(queue'[s])
        /\ copying[s] \in Nat /\ copying[s] <= Len(queue[s])
        /\ copying[s] # 0 /\ s \notin abandoned => call.stream = s
  BY DEF Longer, IInv, CopyingOK
<1>3. \A s \in E!AnyStream :
        copying'[s] <= Len(queue'[s]) /\ (copying'[s] # 0 => s \in abandoned')
  BY <1>1, <1>2
<1>4. copying' \in [E!AnyStream -> Nat]
  BY DEF IInv, CopyingOK
<1> QED
  BY <1>1, <1>3, <1>4 DEF CopyingOK

\* A step throws, and changed nothing that concerns handles.
LEMMA ThrowStep ==
  ASSUME IInv, NEW x \in Throwers, Next1(x), Throws,
         Longer, UNCHANGED <<phase, writer, reads, handles, owners, copying>>,
         x \in Waits \/ abandoned' = abandoned
  PROVE  CallOK' /\ OwnersOK' /\ (x \notin Waits => CopyingOK')
<1>1. /\ InCall /\ (InCall)' /\ call' \in Calls /\ call.holder = "call"
      /\ Kind(call.todo) /\ Kind(call'.todo)
      /\ call.todo \in AtWrite \cup AtRead \cup {ToCopy, CopyOpen, ToCppCopy, ToSync, SyncOpen, WrapWrite, WrapRead}
      /\ call'.todo = IF call.todo \in WriteOpen THEN EndWrite
                      ELSE IF call.todo \in ReadOpen THEN EndRead ELSE End
      /\ call'.buf = call.buf /\ call'.stream = call.stream
      /\ call'.by = call.by /\ call'.holder = call.holder
      /\ call'.todo \in Reading => call'.by \in Reader
  BY Throwing
<1>2. /\ EndWrite \in WriteOpen \ ReadOpen /\ EndRead \in ReadOpen \ WriteOpen
      /\ End \notin ReadOpen \cup WriteOpen
      /\ {EndWrite, EndRead, End} \cap (AtAllocate \cup AtRead \cup Unread \cup {ToCopy, CopyOpen}) = {}
  <2>1. Kind(EndWrite) /\ Kind(EndRead) /\ Kind(End)
    BY Kinds DEF Todos
  <2>2. EndWrite \in WriteOpen \ ReadOpen /\ EndWrite \notin Unread
        /\ EndWrite \notin AtAllocate /\ EndWrite \notin AtRead /\ EndWrite \notin {ToCopy, CopyOpen}
    BY <2>1, Lists, Distinct DEF Kind, WriteOpen, ReadOpen, Unread
  <2>3. EndRead \in ReadOpen \ WriteOpen /\ EndRead \notin Unread
        /\ EndRead \notin AtAllocate /\ EndRead \notin AtRead /\ EndRead \notin {ToCopy, CopyOpen}
    BY <2>1, Lists DEF Kind, WriteOpen, ReadOpen, Unread
  <2>4. End \notin ReadOpen /\ End \notin WriteOpen /\ End \notin Unread
        /\ End \notin AtAllocate /\ End \notin AtRead /\ End \notin {ToCopy, CopyOpen}
    BY <2>1, Lists DEF Kind, WriteOpen, ReadOpen, Unread
  <2> QED
    BY <2>2, <2>3, <2>4
<1>3. call.todo \notin AtAllocate /\ (x \notin Waits => call.todo \notin Transfers)
  <2>1. Head(call.todo) = x
    BY DEF Next1
  <2> QED
    BY <1>1, <2>1, Lists, Distinct DEF Kind, Transfers, Throwers, Waits
<1>4. ~(call.todo \in WriteOpen /\ call.todo \in ReadOpen)
  BY <1>1, Lists DEF Kind, WriteOpen, ReadOpen
<1>5. OwnersOK'
  BY <1>1, <1>2, <1>3, <1>4, Unmoved
<1>7. x \notin Waits => CopyingOK'
  BY <1>3, CopyingStays DEF IInv
<1>6. CallOK'
  BY <1>1, <1>2, <1>3, <1>4 DEF CallOK
<1> QED
  BY <1>5, <1>6, <1>7

LEMMA CallWriteStep ==
  ASSUME IInv, CallWrite
  PROVE  EventStep /\ Kept'
<1> USE DEF IInv, CallWrite
<1>1. /\ InCall /\ call \in Calls /\ Kind(call.todo) /\ Head(call.todo) = "write"
  BY Stepping
<1>2. /\ call.todo \in AtWrite /\ call.buf \in Buffer /\ call.holder = "call"
      /\ call.stream \in E!AnyStream /\ call.by \notin handles
      /\ call.todo \notin {WrapWrite, WrapRead, End} /\ call.todo \notin AtAllocate
  <2>1. call.todo \in AtWrite /\ call.todo \notin {WrapWrite, WrapRead, End, EndWrite, EndRead}
        /\ call.todo \notin AtAllocate
    BY <1>1, Lists DEF Kind
  <2> QED
    BY <1>1, <2>1 DEF CallOK, Calls, Unread
<1>3. CASE Throws /\ E!GetWriteHandleThrows(call.buf)
  <2>1. P!Next /\ Longer /\ UNCHANGED <<phase, writer, reads, handles>>
    BY <1>2, <1>3, FailsToTakeIt
  <2>2. "write" \in Throwers \ Waits /\ Next1("write")
    BY DEF Throwers, Waits
  <2>3. CallOK' /\ OwnersOK' /\ CopyingOK'
    BY <1>3, <2>1, <2>2, ThrowStep
  <2> QED
    BY <2>1, <2>3 DEF EventStep, Kept
<1>4. CASE Rest /\ E!GetWriteHandle(call.buf, call.stream)
  <2>1. /\ (InCall)' /\ call' \in Calls /\ Kind(call'.todo)
        /\ call'.todo \in {WrapWrite, ToCopy, ToCppCopy} /\ call'.buf = call.buf
        /\ call'.stream = call.stream /\ call'.by = call.by /\ call'.holder = call.holder
        /\ call'.todo \in Reading => call'.by \in Reader
    BY <1>1, <1>2, <1>4, Resting DEF Kind
  <2>2. /\ P!Next /\ Longer /\ writer[call.buf] = NoStream
        /\ writer' = [writer EXCEPT ![call.buf] = call.stream]
        /\ UNCHANGED <<phase, reads, handles>>
    BY <1>2, <1>4, TakesWriteHandle
  <2>3. /\ call'.todo \in WriteOpen /\ call'.todo \notin ReadOpen /\ call'.todo \notin AtAllocate
        /\ call'.todo \notin AtRead /\ call'.todo \notin {EndWrite, EndRead, End}
    BY <2>1, Lists DEF Kind, WriteOpen, ReadOpen
  <2>4. /\ call.todo \notin WriteOpen /\ call.todo \notin ReadOpen /\ call.todo \notin Transfers
    BY <1>1, Lists DEF Kind, WriteOpen, ReadOpen, Transfers
  <2>5. \A b \in Buffer, o \in {"writer"} \cup Reader : ~Closed(b, o) /\ ~Closed(b, o)'
    BY <1>2, <2>3, Constants DEF Closed
  <2>6. "writer" \notin owners[call.buf]
    BY <1>2, <2>2, <2>5 DEF OwnersOK
  <2>7. \A b \in Buffer : Calling(b)' <=> Calling(b)
    BY <1>1, <2>1 DEF Calling
  <2>8. Calling(call.buf)
    BY <1>1, <1>2 DEF Calling
  <2>9. \A b \in Buffer : Calling(b) <=> b = call.buf
    BY <2>8 DEF Calling
  <2>10. \A b \in Buffer : writer'[b] = IF b = call.buf THEN call.stream ELSE writer[b]
    BY <2>2, Types
  <2>11. \A b \in Buffer, r \in Reader : ~CallReads(b, r) /\ ~CallReads(b, r)'
    BY <2>3, <2>4 DEF CallReads
  <2>12. OwnersOK'
    <3>1. \A b \in Buffer : writer'[b] # NoStream <=> b = call.buf \/ writer[b] # NoStream
      BY <1>2, <2>10, Constants
    <3>2. \A b \in Buffer : writer[b] # NoStream <=> "writer" \in owners[b]
      BY <2>4, <2>5, <2>9 DEF OwnersOK
    <3> QED
      BY <2>2, <2>3, <2>5, <2>6, <2>7, <2>9, <2>11, <3>1, <3>2, <1>2 DEF OwnersOK
  <2>13. CopyingOK'
    BY <2>2, <2>4, CopyingStays
  <2>14. CallOK'
    BY <1>2, <2>1, <2>2, <2>3, <2>10 DEF CallOK
  <2> QED
    BY <2>2, <2>12, <2>13, <2>14 DEF EventStep, Kept
<1> QED
  BY <1>3, <1>4

LEMMA CallCopyStep ==
  ASSUME IInv, CallCopy
  PROVE  EventStep /\ Kept'
<1> USE DEF IInv, CallCopy
<1>1. /\ InCall /\ call \in Calls /\ Kind(call.todo)
      /\ Head(call.todo) = "copy" \/ Head(call.todo) = "cpp_copy"
  BY Stepping
<1>2. /\ call.todo \in {ToCopy, CopyOpen, ToCppCopy} /\ call.buf \in Buffer /\ call.holder = "call"
      /\ call.stream \in E!AnyStream /\ call.by \notin handles
      /\ call.todo \notin {WrapWrite, WrapRead, End} /\ call.todo \notin AtAllocate
      /\ call.todo \notin ReadOpen /\ call.todo \notin Transfers
  <2>1. call.todo \in {ToCopy, CopyOpen, ToCppCopy} /\ call.todo \notin {WrapWrite, WrapRead, End}
        /\ call.todo \notin {EndWrite, EndRead} /\ call.todo \notin AtAllocate
    BY <1>1, Lists DEF Kind
  <2>2. call.todo \notin ReadOpen /\ call.todo \notin Transfers
    BY <1>1, Lists DEF Kind, ReadOpen, Transfers
  <2> QED
    BY <1>1, <2>1, <2>2 DEF CallOK, Calls, Unread
<1>3. /\ (InCall)' /\ call' \in Calls /\ Kind(call'.todo)
      /\ call'.todo = Tail(call.todo) /\ call'.buf = call.buf /\ call'.stream = call.stream
      /\ call'.by = call.by /\ call'.holder = call.holder
      /\ call'.todo \in Reading => call'.by \in Reader
  BY <1>2, Resting
<1>4. /\ call'.todo \in AtRelease \cup {SyncOpen}
      /\ call'.todo \in AtRelease <=> call.todo # CopyOpen
      /\ call.todo \in {ToCopy, CopyOpen} => call'.todo \in Transfers
  <2>1. SyncOpen \notin AtRelease /\ SyncOpen \in Transfers
    BY Lists, Kinds DEF Kind, Todos, Transfers
  <2> QED
    <3>1. CASE call.todo = ToCopy
      BY <1>1, <1>3, <2>1, <3>1, Distinct DEF Kind
    <3>2. CASE call.todo = CopyOpen
      BY <1>1, <1>3, <2>1, <3>2, Distinct DEF Kind
    <3>3. CASE call.todo = ToCppCopy
      <4>1. ToCppCopy \notin {ToCopy, CopyOpen}
        BY Lists
      <4> QED
        BY <1>1, <1>3, <3>3, <4>1 DEF Kind
    <3> QED
      BY <1>2, <3>1, <3>2, <3>3
<1>5. /\ call'.todo \notin ReadOpen /\ call'.todo \notin AtAllocate /\ call'.todo \notin AtRead
      /\ call'.todo \notin {EndWrite, EndRead, End, ToCopy, CopyOpen}
      /\ call'.todo \in WriteOpen <=> call'.todo \in AtRelease
  <2>1. CASE call'.todo \in AtRelease
    BY <1>3, <2>1, Lists, Distinct DEF Kind, ReadOpen, WriteOpen
  <2>2. CASE call'.todo = SyncOpen
    BY <1>3, <2>2, Lists, Distinct DEF Kind, ReadOpen, WriteOpen
  <2> QED
    BY <1>4, <2>1, <2>2
<1>6. call.todo \in WriteOpen <=> call.todo # CopyOpen
  <2>1. CopyOpen \notin WriteOpen
    <3>1. Kind(CopyOpen)
      BY Kinds DEF Todos
    <3> QED
      BY <3>1, Lists, Distinct DEF Kind, WriteOpen
  <2> QED
    BY <1>2, <2>1 DEF WriteOpen
<1>7. P!Next /\ Longer /\ UNCHANGED <<phase, writer, reads, handles>>
  BY <1>2, Writes
<1>8. OwnersOK'
  BY <1>1, <1>2, <1>3, <1>4, <1>5, <1>6, <1>7, Unmoved
<1>9. CallOK'
  BY <1>2, <1>3, <1>5, <1>7 DEF CallOK
<1>10. CASE Next1("cpp_copy")
  <2>1. copying' = copying /\ abandoned' = abandoned
    BY <1>10 DEF Next1
  <2>2. CopyingOK'
    BY <1>2, <1>7, <2>1, CopyingStays
  <2> QED
    BY <1>7, <1>8, <1>9, <2>2 DEF EventStep, Kept
<1>11. CASE Next1("copy")
  <2>1. call.todo \in {ToCopy, CopyOpen} /\ writer[call.buf] = call.stream
    <3>1. Head(call.todo) = "copy"
      BY <1>11 DEF Next1
    <3> QED
      BY <1>1, <3>1 DEF Kind, CallOK
  <2>2. /\ copying' = [copying EXCEPT ![call.stream] = Len(queue'[call.stream])]
        /\ abandoned' = abandoned \ {call.stream}
    BY <1>11, <2>1
  <2>3. \A s \in E!AnyStream :
          /\ Len(queue[s]) \in Nat /\ Len(queue'[s]) \in Nat /\ Len(queue[s]) <= Len(queue'[s])
          /\ copying[s] \in Nat /\ copying[s] <= Len(queue[s])
          /\ copying[s] # 0 => s \in abandoned
    BY <1>2, <1>7 DEF CopyingOK, Longer
  <2>4. CopyingOK'
    <3>1. \A s \in E!AnyStream :
            copying'[s] = IF s = call.stream THEN Len(queue'[s]) ELSE copying[s]
      BY <2>2 DEF CopyingOK
    <3>2. copying' \in [E!AnyStream -> Nat] /\ abandoned' \in SUBSET E!AnyStream
      <4>1. copying \in [E!AnyStream -> Nat] /\ abandoned \in SUBSET E!AnyStream
        BY DEF CopyingOK
      <4>2. Len(queue'[call.stream]) \in Nat
        BY <1>2, <2>3
      <4> HIDE DEF IInv, CallCopy
      <4> QED
        BY <2>2, <4>1, <4>2
    <3>3. \A s \in E!AnyStream :
            copying'[s] <= Len(queue'[s]) /\ (copying'[s] # 0 /\ s \notin abandoned' => call.stream = s)
      BY <2>2, <2>3, <3>1
    <3> QED
      BY <1>3, <1>4, <2>1, <3>2, <3>3 DEF CopyingOK
  <2> QED
    BY <1>7, <1>8, <1>9, <2>4 DEF EventStep, Kept
<1> QED
  BY <1>10, <1>11

LEMMA ReadStep ==
  ASSUME IInv, CallRead, Rest, E!GetReadHandle(call.buf, call.stream, call.by), abandoned' = abandoned
  PROVE  EventStep /\ Kept'
<1> USE DEF IInv
<1>0. Next1("read") /\ UNCHANGED <<owners, promoted, copying>>
  BY DEF CallRead
<1>1. /\ InCall /\ call \in Calls /\ Kind(call.todo) /\ Head(call.todo) = "read"
  BY <1>0, Stepping
<1>2. /\ call.todo \in AtRead /\ call.buf \in Buffer /\ call.holder = "call"
      /\ call.stream \in E!AnyStream /\ call.by \in Reader /\ call.by \notin handles
      /\ call.todo \notin {WrapWrite, WrapRead, End} /\ call.todo \notin AtAllocate
      /\ call.todo \notin WriteOpen /\ call.todo \notin ReadOpen
  <2>1. call.todo \in AtRead /\ call.todo \notin {WrapWrite, WrapRead, End, EndWrite, EndRead}
        /\ call.todo \notin AtAllocate
    BY <1>1, Lists DEF Kind
  <2>2. call.todo \notin WriteOpen /\ call.todo \notin ReadOpen
    BY <1>1, Lists DEF Kind, WriteOpen, ReadOpen
  <2> QED
    BY <1>1, <2>1, <2>2 DEF CallOK, Calls, Unread, Reading
<1>3. /\ (InCall)' /\ call' \in Calls /\ Kind(call'.todo)
      /\ call'.todo \in {ToSync, WrapRead} /\ call'.buf = call.buf /\ call'.stream = call.stream
      /\ call'.by = call.by /\ call'.holder = call.holder
      /\ call'.todo \in Reading => call'.by \in Reader
      /\ call.todo \in Transfers => call'.todo \in Transfers
  BY <1>0, <1>1, <1>2, Resting DEF Kind, Transfers
<1>4. /\ call'.todo \in ReadOpen /\ call'.todo \notin WriteOpen /\ call'.todo \notin AtAllocate
      /\ call'.todo \notin Unread /\ call'.todo \notin {EndWrite, EndRead, End, ToCopy, CopyOpen}
  <2>1. CASE call'.todo = ToSync
    BY <1>3, <2>1, Lists, Distinct DEF Kind, WriteOpen, ReadOpen, Unread
  <2>2. CASE call'.todo = WrapRead
    BY <1>3, <2>2, Lists DEF Kind, WriteOpen, ReadOpen, Unread
  <2> QED
    BY <1>3, <2>1, <2>2
<1>5. /\ P!Next /\ Longer /\ handles' = handles \cup {call.by}
      /\ \A q \in Reader : reads'[q].buf = IF q = call.by THEN call.buf ELSE reads[q].buf
      /\ UNCHANGED <<phase, writer>>
  BY <1>2, TakesReadHandle
<1>6. \A b \in Buffer, o \in {"writer"} \cup Reader : ~Closed(b, o) /\ ~Closed(b, o)'
  BY <1>2, <1>3, Constants DEF Closed
<1>7. \A b \in Buffer : (Calling(b) <=> b = call.buf) /\ (Calling(b)' <=> Calling(b))
  BY <1>1, <1>2, <1>3 DEF Calling
<1>8. \A b \in Buffer, r \in Reader :
        ~CallReads(b, r) /\ (CallReads(b, r)' <=> b = call.buf /\ r = call.by)
  BY <1>2, <1>3, <1>4, <1>7 DEF CallReads
<1>9. \A b \in Buffer : call.by \notin owners[b] /\ reads[call.by].buf # b
  BY <1>2, <1>8 DEF OwnersOK
<1>10. OwnersOK'
  <2>1. \A b \in Buffer :
          /\ owners[b] = {} <=> phase[b] # "live"
          /\ "call" \in owners[b] <=> b = call.buf
          /\ writer[b] # NoStream <=> "writer" \in owners[b]
    BY <1>2, <1>6, <1>7 DEF OwnersOK
  <2>2. \A b \in Buffer, r \in Reader :
          /\ r \in owners[b] => r \in handles
          /\ reads[r].buf = b <=> r \in owners[b]
    BY <1>6, <1>8 DEF OwnersOK
  <2>3. \A b \in Buffer, r \in Reader :
          reads'[r].buf = b <=> (b = call.buf /\ r = call.by) \/ r \in owners[b]
    BY <1>2, <1>5, <1>9, <2>2
  <2>4. owners \in [Buffer -> SUBSET Owner]
    BY DEF OwnersOK
  <2>5. owners' = owners
    BY <1>0
  <2> HIDE DEF IInv
  <2>6. \A b \in Buffer :
          /\ owners'[b] = {} <=> phase'[b] # "live"
          /\ "call" \in owners'[b] <=> Calling(b)' /\ call'.todo \notin AtAllocate
          /\ writer'[b] # NoStream <=>
               \/ Calling(b)' /\ call'.todo \in WriteOpen
               \/ "writer" \in owners'[b] /\ ~Closed(b, "writer")'
    BY <1>4, <1>5, <1>6, <1>7, <2>1, <2>5
  <2>7. \A b \in Buffer, r \in Reader :
          /\ r \in owners'[b] => r \in handles'
          /\ reads'[r].buf = b <=> CallReads(b, r)' \/ (r \in owners'[b] /\ ~Closed(b, r)')
          /\ CallReads(b, r)' => r \notin owners'[b]
    <3> SUFFICES ASSUME NEW b \in Buffer, NEW r \in Reader
                 PROVE  /\ r \in owners'[b] => r \in handles'
                        /\ reads'[r].buf = b <=>
                             CallReads(b, r)' \/ (r \in owners'[b] /\ ~Closed(b, r)')
                        /\ CallReads(b, r)' => r \notin owners'[b]
      OBVIOUS
    <3>1. r \in owners'[b] => r \in handles'
      BY <1>5, <2>2, <2>5
    <3>2. reads'[r].buf = b <=> CallReads(b, r)' \/ (r \in owners'[b] /\ ~Closed(b, r)')
      <4>1. CallReads(b, r)' <=> b = call.buf /\ r = call.by
        BY <1>8
      <4>2. ~Closed(b, r)'
        BY <1>6
      <4>3. reads'[r].buf = b <=> (b = call.buf /\ r = call.by) \/ r \in owners[b]
        BY <2>3
      <4> QED
        BY <2>5, <4>1, <4>2, <4>3
    <3>3. CallReads(b, r)' => r \notin owners'[b]
      <4>1. CallReads(b, r)' => r = call.by
        BY <1>8
      <4> QED
        BY <1>9, <2>5, <4>1
    <3> QED
      BY <3>1, <3>2, <3>3
  <2> QED
    BY <1>4, <2>4, <2>5, <2>6, <2>7 DEF OwnersOK
<1>11. CopyingOK'
  BY <1>0, <1>3, <1>5, CopyingStays
<1>12. CallOK'
  BY <1>0, <1>2, <1>3, <1>4 DEF CallOK
<1> QED
  BY <1>0, <1>5, <1>10, <1>11, <1>12 DEF EventStep, Kept

LEMMA CallReadStep ==
  ASSUME IInv, CallRead
  PROVE  EventStep /\ Kept'
<1>1. CASE Rest /\ E!GetReadHandle(call.buf, call.stream, call.by) /\ UNCHANGED abandoned
  BY <1>1, ReadStep
<1>2. CASE Abandons /\ E!GetReadHandleThrows(call.buf, call.stream)
  <2>1. Next1("read") /\ UNCHANGED <<owners, promoted, copying>> /\ "read" \in Throwers /\ "read" \in Waits
    BY DEF CallRead, Throwers, Waits
  <2>2. call.stream \in E!AnyStream /\ call.buf \in Buffer
    <3>1. InCall /\ call \in Calls /\ Kind(call.todo) /\ Head(call.todo) = "read"
      BY <2>1, Stepping DEF IInv
    <3>2. call.todo \notin {EndWrite, EndRead, End}
      BY <3>1, Lists
    <3> QED
      BY <3>1, <3>2 DEF IInv, CallOK, Calls
  <2>3. P!Next /\ Longer /\ UNCHANGED <<phase, writer, reads, handles>>
    BY <1>2, <2>2, FailsToRead DEF IInv
  <2>4. CallOK' /\ OwnersOK'
    BY <1>2, <2>1, <2>3, ThrowStep DEF Abandons
  <2>5. CopyingOK'
    BY <1>2, <2>1, <2>2, <2>3, AbandonsCopying
  <2> QED
    BY <2>1, <2>3, <2>4, <2>5 DEF EventStep, Kept, IInv
<1> QED
  BY <1>1, <1>2 DEF CallRead

LEMMA SyncStep ==
  ASSUME IInv, CallSync, Rest, queue[call.stream] = <<>>, abandoned' = abandoned
  PROVE  EventStep /\ Kept'
<1> USE DEF IInv, CallSync
<1>1. /\ InCall /\ call \in Calls /\ Kind(call.todo) /\ Head(call.todo) = "sync"
  BY Stepping
<1>2. /\ call.todo \in {ToSync, SyncOpen} /\ call.buf \in Buffer /\ call.holder = "call"
      /\ call.stream \in E!AnyStream /\ (call.todo = ToSync => call.by \in Reader)
      /\ call.todo \notin {WrapWrite, WrapRead, End} /\ call.todo \notin AtAllocate
      /\ call.todo \notin WriteOpen /\ (call.todo \in ReadOpen <=> call.todo = ToSync)
  <2>1. call.todo \in {ToSync, SyncOpen} /\ call.todo \notin {WrapWrite, WrapRead, End, EndWrite, EndRead}
        /\ call.todo \notin AtAllocate
    BY <1>1, Lists DEF Kind
  <2>2. call.todo \notin WriteOpen /\ (call.todo \in ReadOpen <=> call.todo = ToSync)
    BY <1>1, <2>1, Lists DEF Kind, WriteOpen, ReadOpen
  <2> QED
    BY <1>1, <2>1, <2>2 DEF CallOK, Calls, Reading
<1>3. /\ (InCall)' /\ call' \in Calls /\ Kind(call'.todo)
      /\ call'.todo = (IF call.todo = ToSync THEN WrapRead ELSE End)
      /\ call'.buf = call.buf /\ call'.stream = call.stream
      /\ call'.by = call.by /\ call'.holder = call.holder
      /\ call'.todo \in Reading => call'.by \in Reader
  BY <1>1, <1>2, Resting DEF Kind
<1>4. /\ call'.todo \notin WriteOpen /\ call'.todo \notin AtAllocate
      /\ call'.todo \in ReadOpen <=> call.todo = ToSync
      /\ call'.todo \notin Unread /\ call'.todo \notin {EndWrite, EndRead, ToCopy, CopyOpen}
      /\ call'.todo \in AtRead \cup ReadOpen => call.todo = ToSync
  <2>1. CASE call'.todo = WrapRead
    BY <1>2, <1>3, <2>1, Lists DEF Kind, WriteOpen, ReadOpen, Unread
  <2>2. CASE call'.todo = End
    BY <1>2, <1>3, <2>2, Lists DEF Kind, WriteOpen, ReadOpen, Unread
  <2> QED
    BY <1>3, <2>1, <2>2
<1>5. UNCHANGED buffers /\ Longer /\ UNCHANGED <<phase, writer, reads, handles, queue>>
  BY Quiet DEF buffers
<1>6. OwnersOK'
  BY <1>1, <1>2, <1>3, <1>4, <1>5, Unmoved
<1>7. CopyingOK'
  <2>1. Len(queue[call.stream]) = 0
    OBVIOUS
  <2>2. \A s \in E!AnyStream \ abandoned : copying[s] = 0
    BY <1>2, <2>1 DEF CopyingOK
  <2> QED
    BY <1>5, <2>2 DEF CopyingOK
<1>8. CallOK'
  BY <1>2, <1>3, <1>4, <1>5 DEF CallOK
<1> QED
  BY <1>5, <1>6, <1>7, <1>8 DEF EventStep, Kept

LEMMA CallSyncStep ==
  ASSUME IInv, CallSync
  PROVE  EventStep /\ Kept'
<1>1. CASE Rest /\ queue[call.stream] = <<>> /\ UNCHANGED abandoned
  BY <1>1, SyncStep
<1>2. CASE Abandons
  <2>1. Next1("sync") /\ UNCHANGED <<buffers, owners, promoted, copying>> /\ "sync" \in Throwers /\ "sync" \in Waits
    BY DEF CallSync, Throwers, Waits
  <2>2. call.stream \in E!AnyStream
    <3>1. InCall /\ call \in Calls /\ Kind(call.todo) /\ Head(call.todo) = "sync"
      BY <2>1, Stepping DEF IInv
    <3>2. call.todo \notin {EndWrite, EndRead, End}
      BY <3>1, Lists
    <3> QED
      BY <3>1, <3>2 DEF IInv, CallOK
  <2>3. Longer /\ UNCHANGED <<phase, writer, reads, handles>>
    BY <2>1, Quiet DEF buffers, IInv
  <2>4. CallOK' /\ OwnersOK'
    BY <1>2, <2>1, <2>3, ThrowStep DEF Abandons
  <2>5. CopyingOK'
    BY <1>2, <2>1, <2>2, <2>3, AbandonsCopying
  <2> QED
    BY <2>1, <2>3, <2>4, <2>5 DEF EventStep, Kept, IInv
<1> QED
  BY <1>1, <1>2 DEF CallSync

LEMMA CallWrapStep ==
  ASSUME IInv, CallWrap
  PROVE  EventStep /\ Kept'
<1> USE DEF IInv, CallWrap
<1>1. /\ InCall /\ call \in Calls /\ Kind(call.todo)
      /\ Head(call.todo) = "wrap_write" \/ Head(call.todo) = "wrap_read"
      /\ Next1("wrap_write") <=> Head(call.todo) = "wrap_write"
  BY Stepping DEF Next1, Kind
<1>2. /\ call.todo \in {WrapWrite, WrapRead} /\ call.buf \in Buffer /\ call.holder = "call"
      /\ call.todo \notin AtAllocate /\ call.todo \notin Transfers
      /\ call.todo # End /\ (call.todo = WrapRead => call.by \in Reader)
      /\ call.todo \in WriteOpen <=> call.todo = WrapWrite
      /\ call.todo \in ReadOpen <=> call.todo = WrapRead
      /\ Next1("wrap_write") <=> call.todo = WrapWrite
  <2>1. CASE call.todo = WrapWrite
    BY <1>1, <2>1, Lists DEF Kind, WriteOpen, ReadOpen, Transfers, CallOK, Calls
  <2>2. CASE call.todo = WrapRead
    BY <1>1, <2>2, Lists DEF Kind, WriteOpen, ReadOpen, Transfers, CallOK, Calls, Reading
  <2> QED
    BY <1>1, <2>1, <2>2 DEF Kind
<1>3. ~(InCall)'
  BY <1>1, <1>2, Finishing
<1>4. /\ UNCHANGED buffers /\ Longer /\ UNCHANGED <<phase, writer, reads, handles>>
      /\ UNCHANGED <<promoted, copying, abandoned>>
  BY Quiet DEF buffers
<1>5. \A b \in Buffer, o \in {"writer"} \cup Reader : ~Closed(b, o) /\ ~Closed(b, o)'
  BY <1>2, <1>3 DEF Closed
<1>6. \A b \in Buffer : (Calling(b) <=> b = call.buf) /\ ~Calling(b)'
  BY <1>1, <1>2, <1>3 DEF Calling
<1>7. \A b \in Buffer, r \in Reader :
        ~CallReads(b, r)' /\ (CallReads(b, r) <=> b = call.buf /\ r = call.by /\ call.todo = WrapRead)
  BY <1>2, <1>6 DEF CallReads
<1>8. PICK o \in {"writer"} \cup Reader :
        /\ owners' = [owners EXCEPT ![call.buf] = (owners[call.buf] \ {"call"}) \cup {o}]
        /\ o = IF call.todo = WrapWrite THEN "writer" ELSE call.by
  BY <1>2
<1>9. /\ owners' \in [Buffer -> SUBSET Owner]
      /\ \A b \in Buffer :
           owners'[b] = IF b = call.buf THEN (owners[b] \ {"call"}) \cup {o} ELSE owners[b]
  <2>1. owners \in [Buffer -> SUBSET Owner] /\ o \in Owner
    BY DEF OwnersOK, Owner
  <2> HIDE DEF IInv, CallWrap
  <2> QED
    BY <1>8, <2>1
<1>10. \A b \in Buffer :
         /\ owners'[b] = {} <=> phase[b] # "live"
         /\ "call" \notin owners'[b]
         /\ writer[b] # NoStream <=> "writer" \in owners'[b]
  <2>1. \A b \in Buffer :
          /\ owners[b] = {} <=> phase[b] # "live"
          /\ "call" \in owners[b] <=> b = call.buf
          /\ writer[b] # NoStream <=> "writer" \in owners[b] \/ (b = call.buf /\ call.todo = WrapWrite)
    BY <1>2, <1>5, <1>6 DEF OwnersOK
  <2>2. o # "call" /\ (o = "writer" <=> call.todo = WrapWrite)
    BY <1>2, <1>8, Constants
  <2> HIDE DEF IInv, CallWrap
  <2> QED
    BY <1>9, <2>1, <2>2, <1>2
<1>11. \A b \in Buffer, r \in Reader :
         /\ r \in owners'[b] => r \in handles
         /\ reads[r].buf = b <=> r \in owners'[b]
  <2>1. \A b \in Buffer, r \in Reader :
          /\ r \in owners[b] => r \in handles
          /\ reads[r].buf = b <=> r \in owners[b] \/ (b = call.buf /\ r = call.by /\ call.todo = WrapRead)
    BY <1>5, <1>7 DEF OwnersOK
  <2>2. \A r \in Reader : r # "call" /\ (r = o <=> r = call.by /\ call.todo = WrapRead)
    <3>1. WrapRead # WrapWrite
      BY Lists
    <3> QED
      BY <1>2, <1>8, <3>1, Constants
  <2>3. \A r \in Reader : r = o => r \in handles
    <3>1. \A r \in Reader : r = o => reads[r].buf = call.buf
      BY <1>2, <2>1, <2>2
    <3> QED
      BY <1>2, <3>1, Types
  <2> HIDE DEF IInv, CallWrap
  <2> QED
    BY <1>9, <2>1, <2>2, <2>3
<1>12. OwnersOK'
  BY <1>4, <1>5, <1>6, <1>7, <1>9, <1>10, <1>11 DEF OwnersOK
<1>13. CopyingOK'
  BY <1>2, <1>4, CopyingStays
<1>14. CallOK'
  BY <1>3 DEF CallOK
<1> QED
  BY <1>4, <1>12, <1>13, <1>14 DEF EventStep, Kept

LEMMA CallThrowsStep ==
  ASSUME IInv, CallThrows
  PROVE  EventStep /\ Kept'
<1>1. UNCHANGED buffers /\ Longer /\ UNCHANGED <<phase, writer, reads, handles>>
  BY Quiet DEF buffers, CallThrows, IInv
<1>2. PICK x \in Throwers \ Waits : Next1(x) /\ Throws
  BY DEF CallThrows, Throwers, Waits
<1>3. UNCHANGED <<owners, promoted, copying, abandoned>>
  BY DEF CallThrows
<1>4. CallOK' /\ OwnersOK' /\ CopyingOK'
  BY <1>1, <1>2, <1>3, ThrowStep
<1> QED
  BY <1>1, <1>3, <1>4 DEF EventStep, Kept, IInv

LEMMA CallReleaseWriteStep ==
  ASSUME IInv, CallRelease, Next1("release")
  PROVE  EventStep /\ Kept'
<1> USE DEF IInv
<1>1. /\ InCall /\ call \in Calls /\ Kind(call.todo) /\ Head(call.todo) = "release"
  BY Stepping
<1>2. /\ call.todo \in AtRelease \cup {EndWrite} /\ call.buf \in Buffer
      /\ call.holder \in {"call", "writer"} /\ (call.todo \in AtRelease => call.holder = "call")
      /\ call.todo \notin {WrapWrite, WrapRead, End} /\ call.todo \notin AtAllocate
      /\ call.todo \in WriteOpen /\ call.todo \notin ReadOpen
      /\ call.todo \in AtRelease => call.by \notin handles /\ call.stream \in E!AnyStream
  <2>1. /\ call.todo \in AtRelease \cup {EndWrite}
        /\ call.todo \notin {WrapWrite, WrapRead, End, EndRead} /\ call.todo \notin AtAllocate
    BY <1>1, Lists DEF Kind
  <2>2. call.todo \in WriteOpen /\ call.todo \notin ReadOpen
    BY <1>1, <2>1, Lists DEF Kind, WriteOpen, ReadOpen
  <2>3. CASE call.todo \in AtRelease
    <3>1. call.todo \notin {EndWrite, EndRead, End}
      BY <2>1, <2>3, Distinct
    <3> QED
      BY <1>1, <2>1, <2>2, <2>3, <3>1 DEF CallOK, Calls, Unread
  <2>4. CASE call.todo = EndWrite
    BY <1>1, <2>1, <2>2, <2>4, Distinct DEF CallOK, Calls
  <2> QED
    BY <2>1, <2>3, <2>4
<1>3. Rest /\ E!ReleaseWrite(call.buf) /\ UNCHANGED <<owners, promoted, copying, abandoned>>
  BY <1>1 DEF CallRelease, Next1
<1>4. /\ (InCall)' /\ call' \in Calls /\ Kind(call'.todo)
      /\ call'.todo = Tail(call.todo) /\ call'.buf = call.buf /\ call'.stream = call.stream
      /\ call'.by = call.by /\ call'.holder = call.holder
      /\ call'.todo \in Reading => call'.by \in Reader
  BY <1>2, <1>3, Resting
<1>5. /\ call.todo \in AtRelease => call'.todo \in AtRead
      /\ call.todo \in Transfers => call'.todo \in Transfers
      /\ call.todo = EndWrite => call'.todo = End
  <2>1. EndWrite \notin Transfers
    BY Lists, Distinct DEF Transfers, AtRelease
  <2> QED
    BY <1>1, <1>2, <1>4, <2>1 DEF Kind
<1>6. /\ call'.todo \notin WriteOpen /\ call'.todo \notin ReadOpen /\ call'.todo \notin AtAllocate
      /\ call'.todo \notin {EndWrite, EndRead, ToCopy, CopyOpen}
      /\ call'.todo = End <=> call.todo = EndWrite
      /\ call'.todo \in AtRead <=> call.todo \in AtRelease
      /\ call'.todo \in Unread => call.todo \in AtRelease
  <2>1. CASE call.todo \in AtRelease
    <3>1. Head(call'.todo) = "read"
      BY <1>4, <1>5, <2>1 DEF Kind
    <3>2. call'.todo \notin {EndWrite, EndRead, ToCopy, CopyOpen, End} /\ call.todo # EndWrite
      BY <2>1, <3>1, Lists, Distinct
    <3> QED
      BY <1>4, <1>5, <2>1, <3>1, <3>2, Lists DEF Kind, WriteOpen, ReadOpen
  <2>2. CASE call.todo = EndWrite
    <3>1. Head(call'.todo) = "disown" /\ call'.todo = End
      BY <1>5, <2>2, Lists
    <3>2. call'.todo \notin {EndWrite, EndRead, ToCopy, CopyOpen} /\ call.todo \notin AtRelease
      BY <2>2, <3>1, Lists, Distinct
    <3> QED
      BY <1>4, <2>2, <3>1, <3>2, Lists DEF Kind, WriteOpen, ReadOpen, Unread
  <2> QED
    BY <1>2, <2>1, <2>2
<1>7. P!Next /\ Longer /\ UNCHANGED <<phase, reads, handles>>
      /\ writer' = [writer EXCEPT ![call.buf] = NoStream]
  BY <1>2, <1>3, GivesWriteHandleBack
<1>8. \A b \in Buffer : writer'[b] = IF b = call.buf THEN NoStream ELSE writer[b]
  BY <1>7, Types
<1>9. \A b \in Buffer : Calling(b)' <=> Calling(b)
  BY <1>1, <1>4 DEF Calling
<1>10. \A b \in Buffer, r \in Reader :
         /\ ~CallReads(b, r) /\ ~CallReads(b, r)'
         /\ ~Closed(b, r) /\ ~Closed(b, r)'
  BY <1>2, <1>4, <1>6, Constants DEF CallReads, Closed
<1>11. \A b \in Buffer :
         /\ ~Closed(b, "writer")
         /\ Closed(b, "writer")' <=> b = call.buf /\ call.holder = "writer"
  BY <1>1, <1>2, <1>4, <1>6 DEF Closed
<1>12. /\ call.holder = "writer" => \A b \in Buffer : ~Calling(b)
       /\ call.holder = "call" => \A b \in Buffer : Calling(b) <=> b = call.buf
  BY <1>1 DEF Calling
<1>13. \A b \in Buffer : writer'[b] # NoStream <=> "writer" \in owners[b] /\ ~Closed(b, "writer")'
  <2>1. \A b \in Buffer :
          /\ writer[b] # NoStream <=> Calling(b) \/ "writer" \in owners[b]
          /\ Calling(b) => "writer" \notin owners[b]
    BY <1>2, <1>11 DEF OwnersOK
  <2>2. call.holder = "writer" => "writer" \in owners[call.buf]
    BY <1>1 DEF CallOK
  <2> QED
    BY <1>2, <1>8, <1>11, <1>12, <2>1, <2>2
<1>14. OwnersOK'
  <2>1. \A b \in Buffer :
          /\ owners[b] = {} <=> phase'[b] # "live"
          /\ "call" \in owners[b] <=> Calling(b)' /\ call'.todo \notin AtAllocate
          /\ writer'[b] # NoStream <=>
               \/ Calling(b)' /\ call'.todo \in WriteOpen
               \/ "writer" \in owners[b] /\ ~Closed(b, "writer")'
    BY <1>2, <1>6, <1>7, <1>9, <1>13 DEF OwnersOK
  <2>2. \A b \in Buffer, r \in Reader :
          /\ r \in owners[b] => r \in handles'
          /\ reads'[r].buf = b <=> r \in owners[b]
    BY <1>7, <1>10 DEF OwnersOK
  <2> QED
    BY <1>3, <1>6, <1>10, <2>1, <2>2 DEF OwnersOK
<1>15. CopyingOK'
  BY <1>3, <1>4, <1>5, <1>7, CopyingStays
<1>16. CallOK'
  <2>1. call.holder # "call" => call.holder \in owners[call.buf]
    BY <1>1 DEF CallOK
  <2> QED
    BY <1>2, <1>3, <1>4, <1>6, <1>7, <2>1 DEF CallOK
<1> QED
  BY <1>3, <1>7, <1>14, <1>15, <1>16 DEF EventStep, Kept

LEMMA CallReleaseReadStep ==
  ASSUME IInv, CallRelease, Next1("release_read")
  PROVE  EventStep /\ Kept'
<1> USE DEF IInv
<1>1. /\ InCall /\ call \in Calls /\ Kind(call.todo) /\ Head(call.todo) = "release_read"
  BY Stepping
<1>2. /\ call.todo = EndRead /\ call.buf \in Buffer /\ call.by \in Reader
      /\ call.holder \in {"call", call.by}
      /\ call.holder # "call" => call.holder \in owners[call.buf]
      /\ call.todo \notin {WrapWrite, WrapRead, End} /\ call.todo \notin AtAllocate
      /\ call.todo \notin WriteOpen /\ call.todo \in ReadOpen /\ call.todo \notin Transfers
  <2>1. call.todo = EndRead /\ call.todo \notin {WrapWrite, WrapRead, End} /\ call.todo \notin AtAllocate
    BY <1>1, Lists DEF Kind
  <2>2. call.todo \notin WriteOpen /\ call.todo \in ReadOpen /\ call.todo \notin Transfers
    BY <1>1, <2>1, Lists DEF Kind, WriteOpen, ReadOpen, Transfers
  <2> QED
    BY <1>1, <2>1, <2>2 DEF CallOK, Calls, Reading
<1>3. /\ Rest
      /\ E!ReleaseRead(call.by) \/ E!ReleaseReadUnmarked(call.by)
      /\ UNCHANGED <<owners, promoted, copying, abandoned>>
  <2>1. ~Next1("release")
    BY <1>1 DEF Next1
  <2> QED
    BY <2>1 DEF CallRelease
<1>4. /\ (InCall)' /\ call' \in Calls /\ Kind(call'.todo)
      /\ call'.todo = End /\ call'.buf = call.buf /\ call'.stream = call.stream
      /\ call'.by = call.by /\ call'.holder = call.holder
      /\ call'.todo \in Reading => call'.by \in Reader
  BY <1>1, <1>2, <1>3, Resting DEF Kind
<1>5. /\ call'.todo \notin WriteOpen /\ call'.todo \notin ReadOpen /\ call'.todo \notin AtAllocate
      /\ call'.todo \notin {EndWrite, EndRead, ToCopy, CopyOpen} /\ call'.todo \notin Unread
  BY <1>4, Lists DEF Kind, WriteOpen, ReadOpen, Unread
<1>6. /\ P!Next /\ Longer /\ UNCHANGED <<phase, writer, handles>>
      /\ \A q \in Reader : reads'[q].buf = IF q = call.by THEN NoBuffer ELSE reads[q].buf
  BY <1>2, <1>3, GivesReadHandleBack
<1>7. \A b \in Buffer :
        /\ Calling(b)' <=> Calling(b)
        /\ ~Closed(b, "writer") /\ ~Closed(b, "writer")'
  BY <1>1, <1>2, <1>4, Constants DEF Calling, Closed
<1>8. \A b \in Buffer, r \in Reader :
        /\ CallReads(b, r) <=> b = call.buf /\ r = call.by /\ call.holder = "call"
        /\ ~CallReads(b, r)' /\ ~Closed(b, r)
        /\ Closed(b, r)' <=> b = call.buf /\ r = call.by /\ call.holder = call.by
  BY <1>1, <1>2, <1>4, <1>5, Constants DEF Calling, CallReads, Closed
<1>9. \A b \in Buffer, r \in Reader :
        /\ r \in owners[b] => r \in handles
        /\ reads[r].buf = b <=> (b = call.buf /\ r = call.by /\ call.holder = "call") \/ r \in owners[b]
        /\ b = call.buf /\ r = call.by /\ call.holder = "call" => r \notin owners[b]
  BY <1>8 DEF OwnersOK
<1>10. reads[call.by].buf = call.buf
  BY <1>2, <1>9
<1>11. \A b \in Buffer, r \in Reader : reads'[r].buf = b <=> r \in owners[b] /\ ~Closed(b, r)'
  <2>1. NoBuffer \notin Buffer
    BY Constants
  <2>2. \A b \in Buffer : call.by \in owners[b] => b = call.buf /\ call.holder = call.by
    BY <1>2, <1>9, <1>10
  <2> QED
    BY <1>2, <1>6, <1>8, <1>9, <2>1, <2>2
<1>12. OwnersOK'
  <2>1. \A b \in Buffer :
          /\ owners[b] = {} <=> phase'[b] # "live"
          /\ "call" \in owners[b] <=> Calling(b)' /\ call'.todo \notin AtAllocate
          /\ writer'[b] # NoStream <=> "writer" \in owners[b]
    BY <1>2, <1>5, <1>6, <1>7 DEF OwnersOK
  <2> QED
    BY <1>3, <1>5, <1>6, <1>7, <1>8, <1>9, <1>11, <2>1 DEF OwnersOK
<1>13. CopyingOK'
  BY <1>2, <1>3, <1>6, CopyingStays
<1>14. CallOK'
  BY <1>2, <1>3, <1>4, <1>5 DEF CallOK
<1> QED
  BY <1>3, <1>6, <1>12, <1>13, <1>14 DEF EventStep, Kept

LEMMA CallDisownStep ==
  ASSUME IInv, CallDisown
  PROVE  EventStep /\ Kept'
<1> USE DEF IInv
<1>1. /\ InCall /\ call \in Calls /\ Kind(call.todo) /\ Head(call.todo) = "disown"
      /\ Next1("disown") /\ Rest /\ Disown(call.buf, call.holder)
  BY Stepping DEF CallDisown
<1>2. /\ call.todo = End /\ call.buf \in Buffer /\ call.holder \in {"call", "writer"} \cup Reader
      /\ call.todo \notin AtAllocate /\ call.todo \notin WriteOpen /\ call.todo \notin ReadOpen
      /\ call.todo \notin Transfers
  <2>1. call.todo \notin WriteOpen /\ call.todo \notin ReadOpen /\ call.todo \notin Transfers
    BY <1>1, Lists DEF Kind, WriteOpen, ReadOpen, Transfers
  <2> QED
    BY <1>1, <2>1, Lists DEF Kind, Calls
<1>3. ~(InCall)'
  BY <1>1, <1>2, Finishing
<1>4. \A b \in Buffer :
        /\ Calling(b) <=> b = call.buf /\ call.holder = "call"
        /\ \A o \in {"writer"} \cup Reader : Closed(b, o) <=> b = call.buf /\ call.holder = o
        /\ \A r \in Reader : ~CallReads(b, r)
  BY <1>1, <1>2 DEF Calling, Closed, CallReads
<1>5. \A b \in Buffer :
        /\ owners[b] = {} <=> phase[b] # "live"
        /\ "call" \in owners[b] <=> b = call.buf /\ call.holder = "call"
        /\ writer[b] # NoStream <=> "writer" \in owners[b] /\ ~(b = call.buf /\ call.holder = "writer")
        /\ \A r \in Reader :
             /\ r \in owners[b] => r \in handles
             /\ reads[r].buf = b <=> r \in owners[b] /\ ~(b = call.buf /\ call.holder = r)
  <2> SUFFICES ASSUME NEW b \in Buffer
               PROVE  /\ owners[b] = {} <=> phase[b] # "live"
                      /\ "call" \in owners[b] <=> b = call.buf /\ call.holder = "call"
                      /\ writer[b] # NoStream <=>
                           "writer" \in owners[b] /\ ~(b = call.buf /\ call.holder = "writer")
                      /\ \A r \in Reader :
                           /\ r \in owners[b] => r \in handles
                           /\ reads[r].buf = b <=>
                                r \in owners[b] /\ ~(b = call.buf /\ call.holder = r)
    OBVIOUS
  <2>1. /\ owners[b] = {} <=> phase[b] # "live"
        /\ "call" \in owners[b] <=> b = call.buf /\ call.holder = "call"
        /\ writer[b] # NoStream <=>
             "writer" \in owners[b] /\ ~(b = call.buf /\ call.holder = "writer")
    BY <1>2, <1>4 DEF OwnersOK
  <2>2. ASSUME NEW r \in Reader
        PROVE  /\ r \in owners[b] => r \in handles
               /\ reads[r].buf = b <=> r \in owners[b] /\ ~(b = call.buf /\ call.holder = r)
    BY <1>4 DEF OwnersOK
  <2> QED
    BY <2>1, <2>2
<1>6. call.holder \in owners[call.buf]
  BY <1>1, <1>2, <1>5 DEF CallOK
<1>7. /\ EventStep /\ Longer /\ UNCHANGED <<writer, reads, handles, promoted, copying, abandoned>>
      /\ owners' = [owners EXCEPT ![call.buf] = @ \ {call.holder}]
      /\ phase'[call.buf] = "live" <=> owners[call.buf] # {call.holder}
      /\ \A c \in Buffer : c # call.buf => phase'[c] = phase[c]
  <2>1. /\ writer[call.buf] # NoStream => \E p \in owners[call.buf] : p # call.holder
        /\ \A r \in Reader : reads[r].buf = call.buf => \E p \in owners[call.buf] : p # call.holder
    BY <1>2, <1>5
  <2> QED
    BY <1>1, <1>2, <1>6, <2>1, DisownStep
<1>8. /\ owners' \in [Buffer -> SUBSET Owner]
      /\ \A b \in Buffer :
           owners'[b] = IF b = call.buf THEN owners[b] \ {call.holder} ELSE owners[b]
  <2>1. owners \in [Buffer -> SUBSET Owner]
    BY DEF OwnersOK
  <2> HIDE DEF IInv
  <2> QED
    BY <1>7, <2>1
<1>9. \A b \in Buffer, o \in {"writer"} \cup Reader :
        ~Calling(b)' /\ ~Closed(b, o)' /\ (o \in Reader => ~CallReads(b, o)')
  BY <1>3 DEF Calling, Closed, CallReads
<1>10. \A b \in Buffer :
         /\ owners'[b] = {} <=> phase'[b] # "live"
         /\ "call" \notin owners'[b]
         /\ writer'[b] # NoStream <=> "writer" \in owners'[b]
  BY <1>2, <1>5, <1>6, <1>7, <1>8
<1>11. \A b \in Buffer, r \in Reader :
         /\ r \in owners'[b] => r \in handles'
         /\ reads'[r].buf = b <=> r \in owners'[b]
  BY <1>2, <1>5, <1>7, <1>8
<1>12. OwnersOK'
  BY <1>8, <1>9, <1>10, <1>11 DEF OwnersOK
<1>13. CopyingOK'
  BY <1>2, <1>7, CopyingStays
<1>14. CallOK'
  BY <1>3 DEF CallOK
<1> QED
  BY <1>7, <1>12, <1>13, <1>14 DEF EventStep, Kept

\* The GPU and the recycler, whatever call is under way.
LEMMA OwnersStay ==
  ASSUME IInv, UNCHANGED <<writer, reads, handles, owners, call>>,
         \A b \in Buffer : phase'[b] = "live" <=> phase[b] = "live"
  PROVE  CallOK' /\ OwnersOK'
<1>1. \A b \in Buffer :
        /\ Calling(b)' <=> Calling(b)
        /\ \A o : Closed(b, o)' <=> Closed(b, o)
        /\ \A r : CallReads(b, r)' <=> CallReads(b, r)
  BY DEF Calling, Closed, CallReads, InCall
<1>2. OwnersOK'
  BY <1>1 DEF IInv, OwnersOK
<1>3. CallOK'
  BY DEF IInv, CallOK, InCall
<1> QED
  BY <1>2, <1>3

LEMMA GpuStepStep ==
  ASSUME IInv, NEW s \in E!AnyStream, GpuStep(s)
  PROVE  EventStep /\ Kept'
<1>1. /\ P!Next
      /\ Len(queue[s]) \in Nat \ {0} /\ Len(queue'[s]) = Len(queue[s]) - 1
      /\ \A t \in E!AnyStream : t # s => queue'[t] = queue[t]
      /\ UNCHANGED <<phase, writer, reads, handles>>
  BY GpuSteps DEF IInv, GpuStep
<1>2. /\ copying' = [copying EXCEPT ![s] = IF @ = 0 THEN 0 ELSE @ - 1]
      /\ abandoned' = IF copying[s] = 1 THEN abandoned \ {s} ELSE abandoned
      /\ UNCHANGED <<owners, promoted, call>>
  BY DEF GpuStep
<1>3. CallOK' /\ OwnersOK'
  BY <1>1, <1>2, OwnersStay
<1>4. CopyingOK'
  BY <1>1, <1>2 DEF IInv, CopyingOK, InCall
<1> QED
  BY <1>1, <1>2, <1>3, <1>4 DEF EventStep, Kept, IInv

LEMMA RecycleStep ==
  ASSUME IInv, Recycle
  PROVE  EventStep /\ Kept'
<1>1. /\ P!Next /\ Longer
      /\ \A b \in Buffer : phase'[b] = "live" <=> phase[b] = "live"
      /\ UNCHANGED <<writer, reads, handles, owners, promoted, call, copying, abandoned>>
  BY Recycles DEF IInv, Recycle
<1>2. CallOK' /\ OwnersOK'
  BY <1>1, OwnersStay
<1>3. CopyingOK'
  BY <1>1, CopyingStays DEF IInv, InCall
<1> QED
  BY <1>1, <1>2, <1>3 DEF EventStep, Kept, IInv

-----------------------------------------------------------------------------
(* The invariant, and what follows from it.                                *)

LEMMA InitIInv == Init => IInv
<1> SUFFICES ASSUME Init PROVE IInv
  OBVIOUS
<1> USE DEF Init
<1>1. P!Init
  BY Same
<1>2. P!IInv
  BY <1>1, P!InitIInv, Constants
<1>3. ~InCall
  BY DEF InCall
<1>4. /\ \A b \in Buffer : phase[b] = "absent" /\ writer[b] = NoStream
      /\ \A r \in Reader : reads[r].buf = NoBuffer
      /\ \A s \in E!AnyStream : queue[s] = <<>>
  BY <1>1, Same DEF P!Init, P!NoHandle
<1>5. OwnersOK
  BY <1>3, <1>4, Constants DEF OwnersOK, Calling, Closed, CallReads
<1>6. CopyingOK
  BY <1>4 DEF CopyingOK
<1> QED
  BY <1>2, <1>3, <1>5, <1>6 DEF IInv, CallOK

LEMMA NextStep == IInv /\ [Next]_vars => EventStep /\ Kept'
<1> SUFFICES ASSUME IInv, [Next]_vars PROVE EventStep /\ Kept'
  OBVIOUS
<1>1. ASSUME NEW b \in Buffer, AllocateBuffer(b) PROVE EventStep /\ Kept'
  BY <1>1, AllocateBufferStep
<1>2. ASSUME NEW b \in Buffer, ToBuffer(b) PROVE EventStep /\ Kept'
  BY <1>2, ToBufferStep
<1>3. ASSUME NEW b \in Buffer, Close(b) PROVE EventStep /\ Kept'
  BY <1>3, CloseStep
<1>4. ASSUME NEW b \in Buffer, GetPromotedBuffer(b) PROVE EventStep /\ Kept'
  BY <1>4, GetPromotedBufferStep
<1>5. ASSUME NEW b \in Buffer, LetGo(b) PROVE EventStep /\ Kept'
  BY <1>5, LetGoStep
<1>6. ASSUME NEW b \in Buffer, UserKernel(b) PROVE EventStep /\ Kept'
  BY <1>6, UserKernelStep
<1>7. ASSUME NEW b \in Buffer, NEW s \in E!AnyStream, NEW r \in Reader, FromBuffer(b, s, r)
      PROVE  EventStep /\ Kept'
  BY <1>7, FromBufferStep
<1>8. ASSUME NEW b \in Buffer, NEW s \in E!AnyStream, NEW r \in Reader, Promote(b, s, r)
      PROVE  EventStep /\ Kept'
  BY <1>8, PromoteStep
<1>9. ASSUME CallStep PROVE EventStep /\ Kept'
  <2>1. CallRelease => EventStep /\ Kept'
    BY CallReleaseWriteStep, CallReleaseReadStep DEF CallRelease
  <2> QED
    BY <1>9, <2>1, CallAllocateStep, CallAllocateFailsStep, CallWriteStep, CallCopyStep, CallReadStep,
       CallSyncStep, CallWrapStep, CallThrowsStep, CallDisownStep DEF CallStep
<1>10. ASSUME NEW s \in E!AnyStream, GpuStep(s) PROVE EventStep /\ Kept'
  BY <1>10, GpuStepStep
<1>11. ASSUME Recycle PROVE EventStep /\ Kept'
  BY <1>11, RecycleStep
<1>12. ASSUME UNCHANGED vars PROVE EventStep /\ Kept'
  <2>1. UNCHANGED <<buffers, owners, promoted, call, copying, abandoned>>
        /\ UNCHANGED <<phase, writer, reads, handles, queue>>
    BY <1>12 DEF vars, buffers
  <2>2. CallOK' /\ OwnersOK'
    BY <2>1, OwnersStay
  <2>3. CopyingOK'
    BY <2>1, Quiet, CopyingStays DEF IInv, InCall
  <2> QED
    BY <2>1, <2>2, <2>3 DEF EventStep, Kept, IInv
<1> QED
  BY <1>1, <1>2, <1>3, <1>4, <1>5, <1>6, <1>7, <1>8, <1>9, <1>10, <1>11, <1>12 DEF Next

LEMMA NextIInv == IInv /\ [Next]_vars => IInv'
<1> SUFFICES ASSUME IInv, [Next]_vars PROVE IInv'
  OBVIOUS
<1>1. EventStep /\ Kept'
  BY NextStep
<1>2. [P!Next]_(P!vars)
  BY <1>1 DEF EventStep, P!vars, buffers
<1>3. P!IInv'
  BY <1>2, P!NextIInv, Constants DEF IInv
<1> QED
  BY <1>1, <1>3 DEF IInv, Kept

LEMMA IInvAlways == Spec => []IInv
BY InitIInv, NextIInv, PTL DEF Spec

\* The variables of a behaviour of the bindings have their types: what is left of a call
\* is a list of its steps, it has a buffer as long as it is under way, and no more of a
\* stream reads host memory than is queued there.
THEOREM TypeCorrect == Spec => []TypeOK
<1>1. IInv => TypeOK
  <2> SUFFICES ASSUME IInv PROVE TypeOK
    OBVIOUS
  <2>1. E!TypeOK
    BY Same DEF IInv, P!IInv
  <2>2. call.todo \in Seq(Micro)
    <3>1. CASE InCall
      BY <3>1, ListTypes DEF IInv, CallOK, Calls
    <3>2. CASE ~InCall
      <4>1. call.todo = <<>>
        BY <3>2 DEF InCall, NoCall
      <4> QED
        BY <4>1, EmptySeq
    <3> QED
      BY <3>1, <3>2
  <2>3. call # NoCall => call.buf \in Buffer /\ call.todo # <<>> /\ call.holder \in Owner
    BY Kinds DEF IInv, CallOK, Calls, InCall, Owner, Kind
  <2> QED
    BY <2>1, <2>2, <2>3 DEF IInv, TypeOK, OwnersOK, CopyingOK
<1> QED
  BY <1>1, IInvAlways, PTL

\* No exception of a binding leaves a reference, a handle or a buffer behind, and none is
\* lost: between two calls the owners of a buffer are exactly the wrappers of its open
\* handles and the user, and a buffer with no owner is gone.
THEOREM OwnersAreExact == Spec => []OwnersExact
<1>1. IInv => OwnersExact
  BY DEF IInv, OwnersOK, OwnersExact, Calling, Closed, CallReads, InCall
<1> QED
  BY <1>1, IInvAlways, PTL

\* Once a call of the bindings has returned, or thrown in any step but the wait for its
\* transfer, no transfer on any stream reads its source any more; while one does, it is
\* the call under way that waits for it.
THEOREM SourcesOutliveCopies == Spec => []SourceOutlivesCopy
<1>1. IInv => SourceOutlivesCopy
  BY DEF IInv, CopyingOK, SourceOutlivesCopy, InCall
<1> QED
  BY <1>1, IInvAlways, PTL

\* The bindings use a buffer as CudaBufferEvents says its users do: each of their steps is
\* one of its steps or none, so that a buffer is never destroyed under a handle.
THEOREM EventsImplemented == Spec => ImplementsEvents
<1>1. Init => E!Init
  BY DEF Init
<1>2. IInv /\ [Next]_vars => [E!Next]_(E!vars)
  <2>1. P!Next => E!Next
    BY Same DEF P!Next, E!Next
  <2> QED
    BY <2>1, NextStep DEF EventStep, E!vars, buffers
<1> QED
  BY <1>1, <1>2, IInvAlways, PTL DEF Spec, ImplementsEvents, E!Spec

LEMMA EventsBehaviour == Spec => P!Spec
<1>1. Init => P!Init
  BY Same DEF Init
<1>2. IInv /\ [Next]_vars => [P!Next]_(P!vars)
  BY NextStep DEF EventStep, P!vars, buffers
<1> QED
  BY <1>1, <1>2, IInvAlways, PTL DEF Spec, P!Spec

\* So what is proved of CudaBufferEvents holds of the bindings: readers see what was
\* written, memory is given back only when the GPU is done with it, and no write handle
\* is given out over reads.
THEOREM EventTheoremsHold ==
  Spec => []P!ReadsSeeWrites /\ []P!FreedMemoryIsIdle /\ P!NoWriteOverReads
BY EventsBehaviour, Constants, P!ReadersSeeWrites, P!FreedIsIdle, P!WritesAfterReads, PTL
=============================================================================
