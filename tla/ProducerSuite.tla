---------------------------- MODULE ProducerSuite ----------------------------
(***************************************************************************)
(* The conformance suite for exports (testing/_conformance.py): what       *)
(* dlpack_conformance asks of the tensors of a device, case by case.  A    *)
(* case is a tensor that the suite makes and a call of __dlpack__; among   *)
(* the behaviours of TensorFactory are all of them, over any resource and  *)
(* any address.  The last case of the suite, that a capsule dropped        *)
(* unconsumed lets go of the tensor, is a property of BufferExport.        *)
(***************************************************************************)
EXTENDS TensorFactory

Float32 == DType(kDLFloat, 32)

\* Arguments of __dlpack__.
WithVersion(version) == [version |-> version, stream |-> <<>>, device |-> <<>>, copy |-> FALSE]
Current == WithVersion(DLPackVersion)
ForDevice(device) == [Current EXCEPT !.device = <<device>>]
WithCopy == [Current EXCEPT !.copy = TRUE]
Unordered == [Current EXCEPT !.stream = <<-1>>]

\* foreign_pair.
ForeignTo(device) == IF device = "cuda" THEN "cpu" ELSE "cuda"

\* A tensor of the suite.
Made(shape, l) == [shape |-> shape, layout |-> l, readOnly |-> FALSE, closed |-> FALSE]
ReadOnly(t) == [t EXCEPT !.readOnly = TRUE]
Freed(t) == [t EXCEPT !.closed = TRUE]
Plainest == Made(<<2, 3>>, RowMajor)
Padded == Made(<<4, 3>>, Aligned(RowMajor, 128, 256))
NoElements == Made(<<0, 3>>, RowMajor)

\* Which state of the factory is the tensor of a case, and the call of it.
Reached(t, c) ==
  /\ pc = "answered"
  /\ request.dtype = Float32 /\ request.shape = t.shape /\ request.layout = t.layout
  /\ tensor.shape = request.shape /\ tensor.layout = layout
  /\ tensor.readOnly = t.readOnly
  /\ buffer.closed = t.closed
  /\ call = c

\* _check_dl_tensor.
CheckDLTensor(dl, t) ==
  /\ dl.device = request.mr.device
  /\ dl.dtype = t.dtype
  /\ dl.shape = t.shape
  /\ dl.strides = t.layout.strides
  /\ IF Empty(t.shape) THEN dl.data = 0
     ELSE dl.data = buffer.ptr + t.offset * ItemSize(t.dtype)

\* _managed_versioned, _managed_legacy: what the capsule is named.
Versioned == capsule.version \notin {Refusal, Legacy}

Checked(version) ==
  /\ capsule.version = version
  /\ CheckDLTensor(capsule.tensor, tensor)

\* What the suite ensures, in its order.
DLPackConformance ==
  LET device == request.mr.device IN
  /\ Reached(Plainest, Current) => Checked(DLPackVersion) /\ ~capsule.readOnly
  /\ Reached(Plainest, WithVersion(<<1, 0>>)) => capsule.version = <<1, 0>>
  /\ Reached(Plainest, WithVersion(<<>>)) => Checked(Legacy)
  /\ Reached(Padded, Current) => Checked(DLPackVersion)
  /\ Reached(ReadOnly(Plainest), Current) => Versioned /\ capsule.readOnly
  /\ Reached(ReadOnly(Plainest), WithVersion(<<>>)) => capsule.version = Refusal
  /\ Reached(Plainest, ForDevice(device)) => Versioned
  /\ Reached(Plainest, ForDevice(ForeignTo(device))) => capsule.version = Refusal
  /\ Reached(Plainest, WithCopy) => capsule.version = Refusal
  /\ Reached(Plainest, WithVersion(<<1>>)) => capsule.version = Refusal
  /\ Reached(Plainest, Unordered) => Versioned
  /\ Reached(NoElements, Current) => Checked(DLPackVersion)
  /\ Reached(Freed(Plainest), WithVersion(<<>>)) => capsule.version = Refusal
-------------------------------------------------------------------------------
\* dlpack_conformance accepts the library's own producer, whatever resource is current
\* and wherever it allocates.
ProducerConforms == pc = "answered" => DLPackConformance
===============================================================================
