----------------------------- MODULE TensorMessage -----------------------------
(***************************************************************************)
(* Tensors in messages (torch_conversions): a message has a shape, strides *)
(* a dtype, an offset, and bytes that may be a buffer of a backend.  It is *)
(* allocated by this process or received, viewed as a tensor, or a tensor  *)
(* is stored in it.  The library exists twice, in C++ and in Python; the   *)
(* process uses one of them, and what one stores the other reads.          *)
(*                                                                         *)
(* The greatest int64_t is IntMax here, the greatest size_t SizeMax.  A     *)
(* tensor is its shape, its dtype and its device; which bytes make it up   *)
(* is what Touched says.  The loops over dimensions are functions of how   *)
(* many dimensions they have seen.                                         *)
(***************************************************************************)
EXTENDS Integers, Sequences, FiniteSets, SequencesExt

CONSTANTS
  IntMax,      \* INT64_MAX
  Lengths,     \* dimensions and strides of messages
  Negatives,   \* n for -n, one of those too
  Offsets,     \* byte offsets of messages
  Sizes,       \* sizes of data of received messages
  MaxRank,     \* bound: how many dimensions a message has
  MaxBytes,    \* what can be allocated
  TensorDims,  \* dimensions of the tensors that are stored
  MaxViews,    \* bound: how many different views of the storage there are at a time
  Throws,      \* an exception
  Unknown      \* bytes that no call of this process has stored

\* SIZE_MAX.
SizeMax == 2 * IntMax + 1

\* A tensor that borrows the storage of a message.
View == [shape : Seq(Int), strides : Seq(Int), item : Nat, offset : Nat, out : BOOLEAN]

\* No vector has more than PTRDIFF_MAX bytes.  A tensor of no elements is not stored.
ASSUME ConstantsOK ==
  /\ IntMax \in Nat \ {0} /\ MaxRank \in Nat /\ MaxViews \in Nat
  /\ Lengths \subseteq 0..IntMax /\ Negatives \subseteq 1..(IntMax + 1)
  /\ Offsets \subseteq 0..SizeMax
  /\ MaxBytes \in 0..IntMax /\ Sizes \subseteq 0..IntMax
  /\ TensorDims \subseteq 1..IntMax
  /\ Throws \notin Int \cup Seq(Int)

VARIABLES
  lang,      \* the process's language
  installed, \* the backends whose plugin was registered
  origin,    \* where the message comes from, "none" before there is one, or
             \* "used" when a tensor was stored in it
  msg,       \* the message
  handle,    \* HandleState of its CUDA buffer
  views,     \* those of the tensors that borrow its storage
  content,   \* history: the tensor whose bytes are in the storage
  half       \* history: the last store threw when it had begun to change the message

vars == <<lang, installed, origin, msg, handle, views, content, half>>

-----------------------------------------------------------------------------
Backend == {"cpu", "cuda"}
Device  == {"cpu", "cuda0", "cuda1", "meta"}
NoDevice == "default"
\* The device type, named as the backend whose plugin serves it.
Type(d) == IF d \in {"cuda0", "cuda1"} THEN "cuda" ELSE d

\* "other" is a dtype of Torch that describe_dtype does not know, or a code of
\* a message that scalar_type does not know.
ItemSize == [byte |-> 1, short |-> 2, other |-> 2]
Dtype == DOMAIN ItemSize
Supported == {"byte", "short"}

Value == Lengths \cup {-n : n \in Negatives}
Values == SeqOf(Value, MaxRank)
Message == [shape : Values, strides : Values, dtype : Dtype, offset : Offsets,
            size : Sizes, backend : Backend]
AnyMessage == [shape : Seq(Int), strides : Seq(Int), dtype : Dtype, offset : 0..SizeMax,
               size : 0..IntMax, backend : Backend]
\* The tensors that are not empty; of others to_tensor_msg makes nothing.
TensorShape == SeqOf(TensorDims, MaxRank)
Tensor == [shape : TensorShape, dtype : Dtype, device : Device]
NoMessage == [shape |-> <<>>, strides |-> <<>>, dtype |-> "other", offset |-> 0,
              size |-> 0, backend |-> "cpu"]

\* The product of the first k elements of s, for every k.
Products(s) == LET p[k \in 0..Len(s)] == IF k = 0 THEN 1 ELSE p[k - 1] * s[k] IN p
NumElements(shape) == Products(shape)[Len(shape)]
Bytes(t) == NumElements(t.shape) * ItemSize[t.dtype]

-----------------------------------------------------------------------------
\* Mutant: the division test is forgotten.
TimesWraps(a, b, max) == IF Throws \in {a, b} THEN Throws ELSE (a * b) % (max + 1)

\* Arithmetic that throws where it would leave 0..max, and goes on throwing.
Times(a, b, max) ==
  IF Throws \in {a, b} THEN Throws
  ELSE IF b # 0 /\ a > max \div b THEN Throws ELSE a * b

Plus(a, b) ==
  IF Throws \in {a, b} THEN Throws
  ELSE IF a > SizeMax - b THEN Throws ELSE a + b

(* C++: the checks of torch_conversions.cpp.                               *)
CheckedProducts(s, max) ==
  LET p[k \in 0..Len(s)] ==
        IF k = 0 THEN 1 ELSE IF s[k] < 0 THEN Throws ELSE Times(p[k - 1], s[k], max)
  IN p

ElementCount(shape) == CheckedProducts(shape, SizeMax)[Len(shape)]

\* From the last dimension to the first; one product more than there are strides.
ContiguousStrides(shape) ==
  LET p == CheckedProducts(Reverse(shape), IntMax)
  IN IF p[Len(shape)] = Throws THEN Throws
     ELSE [k \in DOMAIN shape |-> p[Len(shape) - k]]

ByteCount(shape, dtype) == Times(ItemSize[dtype], ElementCount(shape), SizeMax)

NormalizedStrides(m) ==
  IF m.strides = <<>> THEN ContiguousStrides(m.shape)
  ELSE IF Len(m.strides) # Len(m.shape) THEN Throws ELSE m.strides

\* The loop of validate_view, which ends at the first dimension that is 0.
Spans(shape, strides) ==
  LET n[k \in 0..Len(shape)] ==
        IF k = 0 THEN 1
        ELSE IF n[k - 1] \in {0, Throws} THEN n[k - 1]
        ELSE IF shape[k] < 0 \/ strides[k] < 0 THEN Throws
        ELSE IF shape[k] = 0 THEN 0
        ELSE Plus(n[k - 1], Times(shape[k] - 1, strides[k], SizeMax))
  IN n

Span(shape, strides) == Spans(shape, strides)[Len(shape)]

ValidateView(m) ==
  LET strides  == NormalizedStrides(m)
      required == Plus(m.offset, Times(Span(m.shape, strides), ItemSize[m.dtype], SizeMax))
  IN /\ strides # Throws /\ m.dtype \in Supported
     /\ required # Throws /\ required <= m.size

(* Python: those of _core.py, in integers without a bound.                 *)
PyStrides(shape) ==
  [k \in DOMAIN shape |-> Products(Reverse(shape))[Len(shape) - k]]

PyNormalized(m) == IF m.strides = <<>> THEN PyStrides(m.shape) ELSE m.strides

\* How far the first k dimensions reach.
Reaches(shape, strides) ==
  LET n[k \in 0..Len(shape)] ==
        IF k = 0 THEN 1 ELSE n[k - 1] + (shape[k] - 1) * strides[k]
  IN n

PySpan(m) ==
  IF 0 \in Range(m.shape) THEN 0 ELSE Reaches(m.shape, PyNormalized(m))[Len(m.shape)]

\* Mutant: the offset counts elements.
PyOffsetInElements(m) ==
  /\ m.dtype \in Supported
  /\ Len(PyNormalized(m)) = Len(m.shape)
  /\ \A k \in DOMAIN m.shape : m.shape[k] >= 0 /\ PyNormalized(m)[k] >= 0
  /\ (m.offset + PySpan(m)) * ItemSize[m.dtype] <= m.size

PyMetadata(m) ==
  /\ m.dtype \in Supported
  /\ Len(PyNormalized(m)) = Len(m.shape)
  /\ \A k \in DOMAIN m.shape : m.shape[k] >= 0 /\ PyNormalized(m)[k] >= 0
  /\ m.offset + PySpan(m) * ItemSize[m.dtype] <= m.size

-----------------------------------------------------------------------------
(* Registries: for_backend and for_device find the plugin, if it is there. *)
Serves(b) == b \in installed

\* CUDA's plugin has priority 100, the CPU's has 0.
DefaultBackend ==
  IF Serves("cuda") THEN "cuda" ELSE IF Serves("cpu") THEN "cpu" ELSE Throws
PyDefaultBackend ==
  CHOOSE b \in installed : b = "cuda" \/ installed = {"cpu"}

\* A plugin is left out when its library, its runtime or its device is missing.
Init ==
  /\ lang \in {"cpp", "py"}
  /\ installed \in SUBSET Backend
  /\ origin = "none" /\ msg = NoMessage
  /\ handle = "unset" /\ views = {}
  /\ content = Unknown /\ half = FALSE

\* A message from a peer, or one whose fields the application has set: nothing is
\* known of what it says of itself.
Receive(m) ==
  /\ origin = "none"
  /\ origin' = "peer" /\ msg' = m
  /\ UNCHANGED <<lang, installed, handle, views, content, half>>

-----------------------------------------------------------------------------
(* allocate_tensor_msg.                                                    *)

\* Mutant: the offset of the earlier view stays.
DescribeKeepsOffset(m, shape, strides, dtype) ==
  [m EXCEPT !.shape = shape, !.strides = strides, !.dtype = dtype]

\* set_metadata, and what allocate_tensor_msg writes before the data.
Describe(m, shape, strides, dtype) ==
  [m EXCEPT !.shape = shape, !.strides = strides, !.dtype = dtype, !.offset = 0]

\* The plugins' allocate: b's storage of n bytes, if the device d is one of b's and,
\* for CUDA, the one of the pool.
CanAllocate(b, d, n) == n <= MaxBytes /\ Type(d) = b
CudaCanAllocate(d, n) == CanAllocate("cuda", d, n) /\ (n > 0 => d = "cuda0")

\* A CUDA device without an index is the current one, whichever that is.
DeviceOf(d, default) ==
  IF d # NoDevice THEN {d} ELSE {dev \in Device : Type(dev) = default}

Allocates(shape, strides, dtype, d, n) ==
  /\ Serves(Type(d))
  /\ CudaCanAllocate(d, n) \/ CanAllocate("cpu", d, n)
  /\ msg' = [Describe(NoMessage, shape, strides, dtype) EXCEPT !.size = n, !.backend = Type(d)]
  /\ origin' = "allocated"
  /\ UNCHANGED <<lang, installed, handle, views, content, half>>

AllocateTensorMsg(shape, dtype, d) ==
  /\ lang = "cpp" /\ origin = "none"
  /\ d = NoDevice => DefaultBackend # Throws
  /\ ContiguousStrides(shape) # Throws /\ dtype \in Supported
  /\ ByteCount(shape, dtype) # Throws
  /\ \E dev \in DeviceOf(d, DefaultBackend) :
       Allocates(shape, ContiguousStrides(shape), dtype, dev, ByteCount(shape, dtype))

\* The setters of the message check that its numbers fit into int64.
PyAllocateTensorMsg(shape, dtype, d) ==
  /\ lang = "py" /\ origin = "none"
  /\ dtype \in Supported
  /\ \A k \in DOMAIN shape : shape[k] >= 0 /\ PyStrides(shape)[k] <= IntMax
  /\ d = NoDevice => installed # {}
  /\ \E dev \in DeviceOf(d, PyDefaultBackend) :
       Allocates(shape, PyStrides(shape), dtype, dev, NumElements(shape) * ItemSize[dtype])

-----------------------------------------------------------------------------
(* Views.                                                                  *)

\* at::from_blob over the storage; it refuses negative sizes.
FromBlob(strides, out) ==
  /\ \A k \in DOMAIN msg.shape : msg.shape[k] >= 0
  /\ Cardinality(views) < MaxViews
  /\ views' = views \cup
       {[shape |-> msg.shape, strides |-> strides, item |-> ItemSize[msg.dtype],
         offset |-> msg.offset, out |-> out]}

\* torch.frombuffer refuses to make a tensor of no elements.
PyCpuView(out) == PySpan(msg) # 0 /\ FromBlob(PyNormalized(msg), out)

\* A read finalizes the write handle that is out: its view stays, and can be written to.
Finalizes == handle' = IF handle = "inuse" THEN "finalized" ELSE handle

\* The CUDA plugins hold a handle as long as the view is there.  A write handle is
\* given out once.
TakesHandle(out) ==
  \/ msg.backend = "cpu" /\ UNCHANGED handle
  \/ msg.backend = "cuda" /\ ~out /\ Finalizes
  \/ msg.backend = "cuda" /\ out /\ handle = "unset" /\ handle' = "inuse"

\* from_input_tensor_msg and from_output_tensor_msg; a clone is a Reads.
FromTensorMsg(out) ==
  /\ lang = "cpp"
  /\ msg.size # 0 /\ ValidateView(msg) /\ Serves(msg.backend)
  /\ TakesHandle(out) /\ FromBlob(NormalizedStrides(msg), out)
  /\ content' = IF out THEN Unknown ELSE content
  /\ UNCHANGED <<lang, installed, origin, msg, half>>

PyFromTensorMsg(out) ==
  /\ lang = "py"
  /\ msg.size # 0 /\ PyMetadata(msg) /\ Serves(msg.backend)
  /\ TakesHandle(out)
  /\ IF msg.backend = "cpu" THEN PyCpuView(out) ELSE FromBlob(PyNormalized(msg), out)
  /\ content' = IF out THEN Unknown ELSE content
  /\ UNCHANGED <<lang, installed, origin, msg, half>>

\* The write handle is taken, and closed again when there can be no tensor:
\* from_blob throws, or _check_device does, because another device is current.
FromOutputFails ==
  /\ msg.size # 0 /\ msg.backend = "cuda" /\ Serves("cuda")
  /\ \/ lang = "cpp" /\ ValidateView(msg) /\ \E k \in DOMAIN msg.shape : msg.shape[k] < 0
     \/ lang = "py" /\ PyMetadata(msg)
  /\ handle = "unset" /\ handle' = "finalized"
  /\ UNCHANGED <<lang, installed, origin, msg, views, content, half>>

\* The buffer is read and no view comes of it: it is published, an input view is
\* cloned, or there can be no tensor once the read handle is there.
Reads ==
  /\ msg.backend = "cuda" /\ handle = "inuse" /\ Finalizes
  /\ UNCHANGED <<lang, installed, origin, msg, views, content, half>>

\* Mutant: the lease does not close the handle.
DropViewKeepsLease(view) ==
  /\ views' = views \ {view}
  /\ UNCHANGED <<lang, installed, origin, msg, handle, content, half>>

\* The deleter of the last tensor that has this view lets the lease go, which
\* finalizes a write handle.
DropView(view) ==
  /\ views' = views \ {view}
  /\ IF view.out THEN Finalizes ELSE UNCHANGED handle
  /\ UNCHANGED <<lang, installed, origin, msg, content, half>>

-----------------------------------------------------------------------------
(* to_tensor_msg(msg, tensor).  to_tensor_msg(tensor) allocates, then this. *)

\* Whoever still has a writable view may write over what is stored.
Stored(t) == IF \E view \in views : view.out THEN Unknown ELSE t

\* The plugin that copies: the one of the storage for tensors on the CPU, the one
\* of the tensor's device for others.
Copier(t) == IF t.device = "cpu" THEN msg.backend ELSE Type(t.device)

\* CpuConversionPlugin::copy_to.
CpuCopies(t) == Copier(t) = "cpu" /\ msg.backend = "cpu" /\ UNCHANGED handle

\* CudaConversionPlugin::copy_to: device to host, or under a write handle.
CudaCopies(t) ==
  /\ Copier(t) = "cuda"
  /\ \/ msg.backend = "cpu" /\ UNCHANGED handle
     \/ /\ msg.backend = "cuda" /\ t.device # "cuda1"
        /\ handle = "unset" /\ handle' = "finalized"

\* The copy comes first.  A dtype the message cannot name is found afterwards, when
\* its bytes have replaced the old ones.
Store(t) ==
  /\ lang = "cpp" /\ origin # "none"
  /\ Bytes(t) <= msg.size /\ Serves(Copier(t))
  /\ CpuCopies(t) \/ CudaCopies(t)
  /\ content' = Stored(t)
  /\ half' = (t.dtype \notin Supported)
  /\ msg' = IF half' THEN msg
             ELSE Describe(msg, t.shape, ContiguousStrides(t.shape), t.dtype)
  /\ origin' = "used"
  /\ UNCHANGED <<lang, installed, views>>

\* The same in Python.
PyCpuCopies(t) == Serves("cpu") /\ Copier(t) = "cpu" /\ UNCHANGED handle

PyCudaCopies(t) ==
  /\ Serves("cuda") /\ Copier(t) = "cuda"
  /\ \/ msg.backend = "cpu" /\ UNCHANGED handle
     \/ /\ msg.backend = "cuda" /\ t.device # "cuda1"
        /\ handle = "unset" /\ handle' = "finalized"

\* What can go wrong after the message was described: there is no plugin; there is
\* no write handle, because it was given out before or a read is not over; it is
\* closed again, because another device is current or has the source.
PyCopyThrows(t) ==
  \/ ~Serves(Copier(t)) /\ UNCHANGED handle
  \/ /\ Serves("cuda") /\ Copier(t) = "cuda" /\ msg.backend = "cuda"
     /\ UNCHANGED handle \/ (handle = "unset" /\ handle' = "finalized")

\* dtype and size are checked, then the message is described, then copied to.
PyStore(t) ==
  /\ lang = "py" /\ origin # "none"
  /\ t.dtype \in Supported /\ Bytes(t) <= msg.size
  /\ msg' = Describe(msg, t.shape, PyStrides(t.shape), t.dtype)
  /\ \/ (PyCpuCopies(t) \/ PyCudaCopies(t)) /\ content' = Stored(t) /\ half' = FALSE
     \/ PyCopyThrows(t) /\ half' = TRUE /\ UNCHANGED content
  /\ origin' = "used"
  /\ UNCHANGED <<lang, installed, views>>

-----------------------------------------------------------------------------
\* How a message comes to be, once.
Comes ==
  /\ origin = "none"
  /\ \/ \E m \in Message : Receive(m)
     \/ \E shape \in Values, dtype \in Dtype, d \in Device \cup {NoDevice} :
          AllocateTensorMsg(shape, dtype, d) \/ PyAllocateTensorMsg(shape, dtype, d)

Next ==
  \/ Comes
  \/ \E out \in BOOLEAN : FromTensorMsg(out) \/ PyFromTensorMsg(out)
  \/ FromOutputFails \/ Reads
  \/ \E view \in views : DropView(view)
  \/ \E t \in Tensor : Store(t) \/ PyStore(t)

Spec == Init /\ [][Next]_vars

-----------------------------------------------------------------------------
\* What a view touches, byte by byte, in integers without a bound.
StartSets(shape, strides) ==
  LET set[k \in 0..Len(shape)] ==
        IF k = 0 THEN {0}
        ELSE {n + i * strides[k] : n \in set[k - 1], i \in 0..(shape[k] - 1)}
  IN set

Starts(shape, strides) == StartSets(shape, strides)[Len(shape)]

Touched(shape, strides, item, offset) ==
  {offset + n * item + b : n \in Starts(shape, strides), b \in 0..(item - 1)}

\* The types; that a write handle is open under a writable view only, so that dropping
\* the tensor finalizes it whatever was read in between; and that device memory has at
\* most one writable view, although a read or a publication may have finalized its
\* handle long before the view goes.
TypeOK ==
  /\ lang \in {"cpp", "py"} /\ installed \subseteq Backend
  /\ origin \in {"none", "peer", "allocated", "used"}
  /\ msg \in AnyMessage /\ views \in SUBSET View
  /\ handle \in {"unset", "inuse", "finalized"}
  /\ handle = "inuse" => msg.backend = "cuda" /\ \E view \in views : view.out
  /\ msg.backend = "cuda" => \A v, w \in views : v.out /\ w.out => v = w
  /\ content \in Tensor \cup {Unknown} /\ half \in BOOLEAN

\* No view reaches beyond the storage of its message, whatever the message says and
\* however the sizes overflow, nor has it a negative dimension.
ViewsInStorage ==
  \A view \in views :
    /\ \A k \in DOMAIN view.shape : view.shape[k] >= 0
    /\ Touched(view.shape, view.strides, view.item, view.offset) \subseteq 0..(msg.size - 1)

\* A view the message may have: its numbers make sense, and it lies in the storage.
Fits(m) ==
  LET strides == PyNormalized(m)
  IN /\ m.dtype \in Supported /\ Len(strides) = Len(m.shape)
     /\ \A k \in DOMAIN m.shape : m.shape[k] >= 0 /\ strides[k] >= 0
     /\ m.offset <= m.size
     /\ Touched(m.shape, strides, ItemSize[m.dtype], m.offset) \subseteq 0..(m.size - 1)

\* Neither language refuses a message that fits, or accepts one that does not, and
\* so they agree.  The exception is C++ and a dimension of 0: the loop ends there,
\* before a negative number that follows, and the product of the other dimensions
\* may overflow although there is no element.
ChecksAreExact ==
  /\ PyMetadata(msg) <=> Fits(msg)
  /\ 0 \notin Range(msg.shape) => (ValidateView(msg) <=> Fits(msg))

\* After a tensor was stored, and until somebody may have written, a message says
\* of its bytes what they are, and both languages can read it: an earlier offset,
\* stride or dtype is gone.  A store that threw half way is excepted: C++ has copied
\* a dtype it cannot name, Python has described what it could not copy.  What
\* allocate_tensor_msg returns can be viewed in both, too, and has the bytes its shape needs.
StoredIsReadBack ==
  /\ content # Unknown /\ ~half =>
       /\ msg.shape = content.shape /\ msg.dtype = content.dtype
       /\ ValidateView(msg) /\ PyMetadata(msg)
       /\ Touched(msg.shape, msg.strides, ItemSize[msg.dtype], msg.offset) = 0..(Bytes(content) - 1)
  /\ origin = "allocated" /\ msg.size # 0 =>
       /\ msg.size = NumElements(msg.shape) * ItemSize[msg.dtype]
       /\ ValidateView(msg) /\ PyMetadata(msg)
=============================================================================
