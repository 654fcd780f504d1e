--------------------------- MODULE MCTensorFactory ---------------------------
(***************************************************************************)
(* TensorFactory, with its suite, on small instances.                      *)
(***************************************************************************)
EXTENDS ProducerSuite

SomeShapes == {<<>>, <<3>>, <<2, 3>>, <<0, 3>>, <<2, 1, 3>>}
\* With the padded one of the suite.
AllShapes == SomeShapes \cup {<<4, 3>>}

\* What may be passed as a type.  A string that prints as itself is asked for by name.
Own(dtype) ==
  [isDType |-> TRUE, isString |-> FALSE, value |-> dtype, kind |-> "", itemsize |-> 0,
   prints |-> <<"DType">>, means |-> dtype]
Named(name) ==
  [isDType |-> FALSE, isString |-> TRUE, value |-> name, kind |-> "", itemsize |-> 0,
   prints |-> <<name>>, means |-> FromString(name)]
Foreign(kind, itemsize, prints, means) ==
  [isDType |-> FALSE, isString |-> FALSE, value |-> "", kind |-> kind, itemsize |-> itemsize,
   prints |-> prints, means |-> means]

\* A sub-byte element, float32, complex128, and the three bytes of a colour.
SomeDTypes == {Own(DType(kDLInt, 4)), Own(DType(kDLFloat, 32)), Own(DType(kDLComplex, 128)),
               Own([code |-> kDLUInt, bits |-> 8, lanes |-> 3])}
\* NumPy's, one of an extension of NumPy's that is opaque to it, a structure, a date, and
\* those of libraries whose types have nothing but a name.
OtherSpellings ==
  { Named("float32"), Named("int4"),
    Foreign("f", 4, <<"float32">>, DType(kDLFloat, 32)),
    Foreign("c", 16, <<"complex128">>, DType(kDLComplex, 128)),
    Foreign("V", 2, <<"bfloat16">>, DType(kDLBFloat, 16)),
    Foreign("V", 8, <<"[('r', '<f4'), ('g', '<f4')]">>, NoDType),
    Foreign("M", 8, <<"datetime64[ns]">>, NoDType),
    Foreign("", 0, <<"array_api_strict", "float32">>, DType(kDLFloat, 32)),
    Foreign("", 0, <<"torch", "float8_e5m2">>, NoDType) }
SomeObjects == SomeDTypes \cup OtherSpellings
\* NumPy's clongdouble, which from_any takes by its kind and its 32 bytes.
WideObjects == SomeDTypes \cup {Own(DType(kDLComplex, 256))}

\* Arrays of other libraries, one of them on a device that DeviceType does not have.
SomeArrays ==
  { [shape |-> <<2, 3>>, dtype |-> o, device |-> device] :
      o \in OtherSpellings, device \in {"cpu", "cuda", "metal", NoDevice} }
NoArrays == {}

SomePolicies ==
  { RowMajor, ColMajor, DeviceOptimal,
    Permuted(<<2, 1>>), Permuted(<<2, 3, 1>>),
    Aligned(ColMajor, 8, 16), Aligned(RowMajor, 128, 256),
    Aligned(Permuted(<<1, 3, 2>>), 12, 48),
    Aligned(Aligned(ColMajor, 64, 256), 16, 128) }

\* Dense, padded, overlapping, ragged, too small, and for nothing.
Built(permutation, strides, required, base) ==
  [permutation |-> permutation, strides |-> strides, required |-> required, base |-> base]
SomeHandBuilt ==
  { Built(<<1>>, <<1>>, 12, 1), Built(<<1>>, <<2>>, 48, 1),
    Built(<<1, 2>>, <<4, 1>>, 28, 4), Built(<<2, 1>>, <<1, 2>>, 24, 64),
    Built(<<1, 2>>, <<2, 1>>, 64, 1), Built(<<1, 2>>, <<3, 1>>, 20, 1),
    Built(<<1, 2, 3>>, <<5, 3, 1>>, 96, 1), Built(<<1, 2, 3>>, <<6, 2, 1>>, 48, 16),
    Built(<<>>, <<>>, 4, 1) }

\* BytearrayMemoryResource, a GPU runtime's, and one of a third party that promises little.
SomeResources ==
  { [device |-> "cpu", guarantee |-> 1], [device |-> "cuda", guarantee |-> 256],
    [device |-> "rocm", guarantee |-> 16] }

SomeAddresses == {1024, 1104, 1109}
SomeOffsets == {0, 3}

SomeCalls ==
  {WithVersion(v) : v \in {<<>>, <<1>>, <<0, 9>>, <<1, 0>>, <<2, 0>>}} \cup
  {[Current EXCEPT !.stream = s] : s \in {<<>>, <<-1>>, <<0>>, <<1>>}} \cup
  {ForDevice(device) : device \in {"cpu", "cuda", "rocm"}} \cup {WithCopy}
OneCall == {Unordered}
===============================================================================
