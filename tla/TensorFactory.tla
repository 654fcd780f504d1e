---------------------------- MODULE TensorFactory ----------------------------
(***************************************************************************)
(* How a tensor comes to be and what its consumers are told of it          *)
(* (_core/tensor.py, _dlpack/export.py): empty() resolves a layout, pads   *)
(* the allocation when the resource does not promise the alignment, and    *)
(* slides the tensor onto a boundary; Tensor() takes a buffer, a layout    *)
(* and an offset as they come; to_capsule negotiates a version, validates  *)
(* the consumer's stream and fills a DLTensor, whose fields have widths.   *)
(*                                                                         *)
(*   Ask, ResolveLayout, Allocate, Construct   empty(), empty_like()       *)
(*   View                                      Tensor() over its buffer    *)
(*   Export                                    __dlpack__()                *)
(*                                                                         *)
(* The steps of one call are steps here because each of them can refuse    *)
(* or fail, and what happened before stays.                                *)
(***************************************************************************)
EXTENDS Layouts, ElementTypes, FiniteSets

CONSTANTS
  Shapes,
  Objects,      \* what may be passed as dtype=; see ElementTypes
  Arrays,       \* what may be passed to empty_like(): shape, dtype and device
  Policies,     \* the policies that may be passed as layout=
  HandBuilt,    \* the layouts that may be passed as layout=, or to Tensor()
  Resources,    \* memory resources: device and guaranteed alignment
  Addresses,    \* bound: where an allocation may lie
  Offsets,      \* bound: the offsets that may be passed to Tensor()
  Calls         \* bound: the arguments that consumers pass to __dlpack__

\* What any dtype= has, as far as sizes go.
Countable(o) ==
  /\ o.isDType => o.value.bits \in Nat /\ o.value.lanes \in Nat
  /\ o.itemsize \in Nat

\* Extents that _check_shape lets through, Aligned and Permuted as their __post_init__
\* lets them through, and integers where Layout declares integers.
ASSUME FactoryAssumption ==
  /\ \A shape \in Shapes : shape \in Seq(Nat)
  /\ \A o \in Objects : Countable(o)
  /\ \A a \in Arrays : a.shape \in Seq(Nat) /\ Countable(a.dtype)
  /\ \A l \in Policies :
       /\ l.kind = "Aligned" => l.unit \in Nat \ {0} /\ l.base \in Nat \ {0}
       /\ Ordering(l).kind = "Permuted" => Ordering(l).permutation \in Seq(Nat)
  /\ \A l \in HandBuilt :
       /\ l.permutation \in Seq(Nat) /\ l.strides \in Seq(Int)
       /\ l.required \in Int /\ l.base \in Int
  /\ \A c \in Calls : c.version \in Seq(Int) /\ c.stream \in Seq(Int)
  /\ \A r \in Resources : r.guarantee \in Nat \ {0}
  /\ Addresses \subseteq Nat \ {0}
  /\ Offsets \subseteq Nat

VARIABLES
  pc,       \* "idle", "asked", "resolved", "allocated", "made", "viewed", "answered",
            \* and "refused", after ValueError or MemoryError
  request,  \* what empty() was asked for, and what the elements were to be
  layout,   \* `resolved`
  buffer,   \* the DeviceBuffer: its address and size, and `closed`
  pad,      \* the bytes it has more than the layout requires
  tensor,   \* the Tensor
  call,     \* the arguments of __dlpack__
  capsule   \* what it answered

vars == <<pc, request, layout, buffer, pad, tensor, call, capsule>>

NoRequest == [shape |-> <<>>]
NoBuffer == [ptr |-> 0, nbytes |-> -1, closed |-> FALSE]
NoTensor == [offset |-> -1]
NoCall == [copy |-> FALSE]
NoCapsule == [version |-> <<>>]

Init ==
  /\ pc = "idle"
  /\ request = NoRequest
  /\ layout = NoLayout
  /\ buffer = NoBuffer
  /\ pad = 0
  /\ tensor = NoTensor
  /\ call = NoCall
  /\ capsule = NoCapsule

-------------------------------------------------------------------------------
(***************************************************************************)
(* empty()                                                                 *)
(***************************************************************************)
IsPolicy(l) == l \in Policies

\* A slip: a resource may live anywhere.
AskAnywhere(shape, dtype, means, device, l, mr) ==
  /\ request' = [shape |-> shape, dtype |-> dtype, means |-> means, device |-> device,
                 layout |-> l, mr |-> mr]
  /\ \/ dtype # NoDType /\ pc' = "asked"
     \/ (dtype = NoDType \/ device # "cpu") /\ pc' = "refused"
  /\ UNCHANGED <<layout, buffer, pad, tensor, call, capsule>>

\* Coercion of the type, and the resource and stream that are given or the device's own.
\* A resource that is not given is among those that may be; a device that nothing serves
\* has none of either.
Ask(shape, dtype, means, device, l, mr) ==
  /\ request' = [shape |-> shape, dtype |-> dtype, means |-> means, device |-> device,
                 layout |-> l, mr |-> mr]
  /\ \/ dtype # NoDType /\ mr.device = device /\ pc' = "asked"
     \/ (dtype = NoDType \/ mr.device # device \/ device # "cpu") /\ pc' = "refused"
  /\ UNCHANGED <<layout, buffer, pad, tensor, call, capsule>>

EmptyOf(shape, object, device, l, mr) ==
  Ask(shape, FromAny(object), object.means, device, l, mr)

\* empty_like() with the overrides that were passed, each a sequence that may be empty;
\* an array that does not say where it is has the device NoDevice, and DeviceType knows
\* not every device that DLPack has.
NoDevice == "none"
DeviceTypes == {"cpu", "cuda", "cuda_host", "cuda_managed", "rocm", "rocm_host"}
EmptyLike(array, dtype, device, l, mr) ==
  LET like == IF dtype = <<>> THEN array.dtype ELSE dtype[1]
      on == IF device = <<>> THEN array.device ELSE device[1]
  IN Ask(array.shape, IF on \in DeviceTypes THEN DTypeLike(like) ELSE NoDType, like.means,
         on, l, mr)

\* What a policy makes is not validated here, what the caller made is.
Resolved(r) ==
  LET itemsize == ItemSize(r.dtype) IN
  IF IsPolicy(r.layout) THEN LayoutOf(r.layout, r.shape, itemsize, r.device)
  ELSE IF Validate(r.layout, r.shape, itemsize) THEN r.layout
  ELSE NoLayout

ResolveLayout ==
  /\ pc = "asked"
  /\ layout' = Resolved(request)
  /\ IF layout' = NoLayout THEN pc' = "refused" ELSE pc' = "resolved"
  /\ UNCHANGED <<request, buffer, pad, tensor, call, capsule>>

\* A slip: an alignment that was asked for is taken for granted.
PaddingNever(l, mr) == 0

\* One alignment span more, unless the resource promises the alignment.
Padding(l, mr) == IF l.required # 0 /\ mr.guarantee < l.base THEN l.base ELSE 0

\* DeviceBuffer(...) over a resource that keeps its promise.
Allocate(ptr) ==
  /\ pc = "resolved"
  /\ ptr % request.mr.guarantee = 0
  /\ pad' = Padding(layout, request.mr)
  /\ buffer' = [ptr |-> ptr, nbytes |-> layout.required + pad', closed |-> FALSE]
  /\ pc' = "allocated"
  /\ UNCHANGED <<request, layout, tensor, call, capsule>>

\* Or its stream is on another device.
AllocateFails ==
  /\ pc = "resolved"
  /\ pc' = "refused"
  /\ UNCHANGED <<request, layout, buffer, pad, tensor, call, capsule>>

\* _aligned_element_offset.
AlignedElementOffset(ptr, itemsize, alignment) ==
  LET misalignment == (-ptr) % alignment IN
  IF misalignment % itemsize = 0 THEN misalignment \div itemsize ELSE 0

Offset ==
  IF pad = 0 THEN 0
  ELSE AlignedElementOffset(buffer.ptr, ItemSize(request.dtype), layout.base)

\* Tensor.__init__ accepts its arguments.
Accepts(shape, dtype, l, offset) ==
  /\ Validate(l, shape, ItemSize(dtype))
  /\ offset * ItemSize(dtype) + l.required <= buffer.nbytes

Construct ==
  /\ pc = "allocated"
  /\ IF Accepts(request.shape, request.dtype, layout, Offset)
     THEN /\ tensor' = [shape |-> request.shape, dtype |-> request.dtype, layout |-> layout,
                        offset |-> Offset, readOnly |-> FALSE]
          /\ pc' = "made"
     ELSE pc' = "refused" /\ UNCHANGED tensor
  /\ UNCHANGED <<request, layout, buffer, pad, call, capsule>>
-------------------------------------------------------------------------------
(***************************************************************************)
(* Tensor() and __dlpack__()                                               *)
(***************************************************************************)
\* A tensor over the same buffer, with a layout and an offset of the program's own.
\* Bound: one, of the first tensor's element type.
View(shape, l, offset, readOnly) ==
  /\ pc = "made" /\ ~buffer.closed
  /\ Accepts(shape, request.dtype, l, offset)
  /\ tensor' = [shape |-> shape, dtype |-> request.dtype, layout |-> l, offset |-> offset,
                readOnly |-> readOnly]
  /\ pc' = "viewed"
  /\ UNCHANGED <<request, layout, buffer, pad, call, capsule>>

\* DeviceBuffer.free(), as far as exports can tell; see BufferExport.  Bound: of a
\* buffer with no view.
FreeBuffer ==
  /\ pc = "made"
  /\ ~buffer.closed
  /\ buffer' = [buffer EXCEPT !.closed = TRUE]
  /\ UNCHANGED <<pc, request, layout, pad, tensor, call, capsule>>

\* An optional argument is a sequence that may be empty.  DLPACK_VERSION of _abi.py.
DLPackVersion == <<1, 1>>
NotBelow(v, w) == v[1] > w[1] \/ (v[1] = w[1] /\ v[2] >= w[2])

Legacy == <<0>>
Refusal == <<-1>>

\* _negotiate_version: the version that is stamped, Legacy, or Refusal.
NegotiateVersion(maxVersion, readOnly) ==
  CASE maxVersion # <<>> /\ Len(maxVersion) # 2 -> Refusal
    [] Len(maxVersion) = 2 /\ maxVersion[1] >= 1 ->
         IF NotBelow(maxVersion, DLPackVersion) THEN DLPackVersion ELSE <<1, maxVersion[2]>>
    [] OTHER -> IF readOnly THEN Refusal ELSE Legacy

\* _validated_consumer_stream: the handles to order after, <<>> for none, or Refusal.
CudaLike == {"cuda", "cuda_host", "cuda_managed"}
ConsumerStream(device, stream) ==
  IF stream = <<-1>> THEN <<>> ELSE
  CASE device = "cpu" -> IF stream = <<>> THEN <<>> ELSE Refusal
    [] device \in CudaLike ->
         IF stream = <<>> THEN <<1>> ELSE IF stream[1] < 1 THEN Refusal ELSE stream
    [] OTHER ->
         IF stream = <<>> THEN <<0>>
         ELSE IF stream[1] < 0 \/ stream[1] \in {1, 2} THEN Refusal ELSE stream

\* The fields of DLDataType are 8, 8 and 16 bits wide, and ctypes drops what is above.
DLDataType(dtype) ==
  [code |-> dtype.code % 2^8, bits |-> dtype.bits % 2^8, lanes |-> dtype.lanes % 2^16]

\* A slip: the offset of the tensor is left to byte_offset, which is 0.
DLTensorAtBase(t) ==
  [ data    |-> IF Empty(t.shape) THEN 0 ELSE buffer.ptr,
    device  |-> request.mr.device,
    dtype   |-> DLDataType(t.dtype),
    shape   |-> t.shape,
    strides |-> t.layout.strides ]

\* _fill_dl_tensor; the data pointer 0 is NULL.
DLTensor(t) ==
  [ data    |-> IF Empty(t.shape) THEN 0 ELSE buffer.ptr + t.offset * ItemSize(t.dtype),
    device  |-> request.mr.device,
    dtype   |-> DLDataType(t.dtype),
    shape   |-> t.shape,
    strides |-> t.layout.strides ]

\* A slip: that the memory is gone is not asked.
AnswerOfFreed(t, c) ==
  LET version == NegotiateVersion(c.version, t.readOnly)
      consumer == ConsumerStream(request.mr.device, c.stream)
  IN IF (c.device # <<>> /\ c.device # <<request.mr.device>>) \/ c.copy
        \/ version = Refusal \/ consumer = Refusal
     THEN [version |-> Refusal]
     ELSE [ version  |-> version,
            readOnly |-> version # Legacy /\ t.readOnly,
            after    |-> consumer,
            tensor   |-> DLTensor(t) ]

\* to_capsule.
Answer(t, c) ==
  LET version == NegotiateVersion(c.version, t.readOnly)
      consumer == ConsumerStream(request.mr.device, c.stream)
  IN IF buffer.closed
        \/ (c.device # <<>> /\ c.device # <<request.mr.device>>) \/ c.copy
        \/ version = Refusal \/ consumer = Refusal
     THEN [version |-> Refusal]
     ELSE [ version  |-> version,
            readOnly |-> version # Legacy /\ t.readOnly,
            after    |-> consumer,
            tensor   |-> DLTensor(t) ]

Export(c) ==
  /\ pc \in {"made", "viewed"}
  /\ call' = c
  /\ capsule' = Answer(tensor, c)
  /\ pc' = "answered"
  /\ UNCHANGED <<request, layout, buffer, pad, tensor>>

\* The program lets go of everything, and starts over.
StartOver ==
  /\ pc \in {"answered", "refused"}
  /\ pc' = "idle"
  /\ request' = NoRequest
  /\ layout' = NoLayout
  /\ buffer' = NoBuffer
  /\ pad' = 0
  /\ tensor' = NoTensor
  /\ call' = NoCall
  /\ capsule' = NoCapsule
-------------------------------------------------------------------------------
\* An argument that may be left out.
Optional(S) == {<<>>} \cup {<<x>> : x \in S}

Called ==
  /\ pc = "idle"
  /\ \E l \in Policies \cup HandBuilt, mr \in Resources :
       LET devices == {r.device : r \in Resources} IN
       \/ \E shape \in Shapes, object \in Objects, device \in devices :
            EmptyOf(shape, object, device, l, mr)
       \/ \E array \in Arrays, object \in Optional(Objects), device \in Optional(devices) :
            EmptyLike(array, object, device, l, mr)

Next ==
  \/ Called
  \/ ResolveLayout
  \/ \E ptr \in Addresses : Allocate(ptr)
  \/ AllocateFails
  \/ Construct
  \/ FreeBuffer
  \/ \E shape \in Shapes, l \in HandBuilt \cup {layout}, offset \in Offsets, readOnly \in BOOLEAN :
       View(shape, l, offset, readOnly)
  \/ \E c \in Calls : Export(c)
  \/ StartOver

Spec == Init /\ [][Next]_vars
-------------------------------------------------------------------------------
(***************************************************************************)
(* Properties                                                              *)
(***************************************************************************)
Indices(extents) ==
  {i \in [DOMAIN extents -> 0..Max({0} \cup Range(extents))] :
     \A d \in DOMAIN extents : i[d] < extents[d]}
\* The position of an element, in elements from the first one.
Position(strides, i) == Sum([d \in DOMAIN i |-> strides[d] * i[d]])

Start(t) == buffer.ptr + t.offset * ItemSize(t.dtype)
AddressOf(t, i) == Start(t) + Position(t.layout.strides, i) * ItemSize(t.dtype)

\* Layout.validate and Tensor.__init__ together: whatever layout and offset were passed,
\* the elements of a tensor lie in its buffer, and no two of them in the same place.
ElementsApart ==
  pc \in {"made", "viewed"} =>
    /\ \A i \in Indices(tensor.shape) :
         /\ buffer.ptr <= AddressOf(tensor, i)
         /\ AddressOf(tensor, i) + ItemSize(tensor.dtype) <= buffer.ptr + buffer.nbytes
    /\ Cardinality({AddressOf(tensor, i) : i \in Indices(tensor.shape)}) =
         Cardinality(Indices(tensor.shape))

\* A program gets the elements it asked for, where it asked for them.  Whatever the
\* spelling of a type, and whoever's it is, memory is only taken for elements of that
\* type, and a consumer that knows only the struct is told of no other; what empty_like
\* has no name for has no encoding.  Bound: types of the machine's byte order, since
\* from_any asks for no other.
AsAsked ==
  /\ pc = "idle" => \A o \in Objects : DTypeLike(o) = o.means
  /\ buffer # NoBuffer => request.dtype = request.means /\ request.mr.device = request.device
  /\ (pc = "answered" /\ capsule.version # Refusal) =>
       capsule.tensor.dtype = request.means /\ capsule.tensor.device = request.device

\* empty() never takes memory for a tensor it then refuses to make: what a policy
\* resolves, and what validate let through, fits the buffer at the offset it is slid to.
NoLateRefusal ==
  pc = "allocated" => Accepts(request.shape, request.dtype, layout, Offset)

\* The promise of Aligned, in addresses: where the tensor starts on its boundary and
\* that is one of the lines' too, every line of the innermost dimension starts on a
\* `unit_stride_alignment` boundary, for any shape, order and size of an element.
LinesAligned ==
  pc = "made" /\ IsPolicy(request.layout) /\ tensor.shape # <<>> =>
    LET unit == UnitOf(request.layout, request.device)
        innermost == layout.permutation[Len(layout.permutation)]
    IN (layout.base % unit = 0 /\ Start(tensor) % layout.base = 0) =>
         \A i \in Indices(tensor.shape) :
           i[innermost] = 0 => AddressOf(tensor, i) % unit = 0

\* _aligned_element_offset, for sizes and alignments that are powers of two: empty()
\* starts a tensor on the base boundary of its layout, and where it does not, because
\* the resource returned a pointer between elements, no offset would have.
PowersOfTwo == {2^k : k \in 0..10}
StartAligned ==
  LET size == ItemSize(tensor.dtype) IN
  ( /\ pc = "made" /\ layout.required # 0
    /\ {size, layout.base, request.mr.guarantee} \subseteq PowersOfTwo ) =>
      \/ Start(tensor) % layout.base = 0
      \/ \A k \in 0..layout.base : (buffer.ptr + k * size) % layout.base # 0

\* What Aligned promises holds of addresses, and not only of strides and counts.
AlignmentKept == LinesAligned /\ StartAligned

\* A consumer that knows only the struct finds the tensor's elements: its address
\* arithmetic over data, strides and the size it computes from the data type gives every
\* element's address, and NULL stands for no elements.  What it was not told it cannot
\* get wrong: no read-only tensor leaves without the flag, no version leaves that the
\* consumer does not know, and it works unordered only if it declined or on the host.
ElementSeen(dl, i) == dl.data + Position(dl.strides, i) * ItemSize(dl.dtype)
CapsuleHonest ==
  (pc = "answered" /\ capsule.version # Refusal) =>
    LET dl == capsule.tensor IN
    /\ dl.data = 0 <=> Indices(dl.shape) = {}
    /\ Indices(dl.shape) = Indices(tensor.shape)
    /\ \A i \in Indices(dl.shape) : ElementSeen(dl, i) = AddressOf(tensor, i)
    /\ tensor.readOnly => capsule.readOnly
    /\ capsule.version # Legacy =>
         NotBelow(call.version, capsule.version) /\ NotBelow(DLPackVersion, capsule.version)
    /\ capsule.version = Legacy => call.version = <<>> \/ ~NotBelow(call.version, <<1, 0>>)
    /\ capsule.after = <<>> => call.stream = <<-1>> \/ request.mr.device = "cpu"

\* _check_dl_tensor of testing/_conformance.py: the exported DLDataType is the tensor's.
DTypeSurvives ==
  (pc = "answered" /\ capsule.version # Refusal) =>
    capsule.tensor.dtype = tensor.dtype
===============================================================================
