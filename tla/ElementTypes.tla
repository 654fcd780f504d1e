----------------------------- MODULE ElementTypes -----------------------------
(***************************************************************************)
(* Element types (_core/dtypes.py) and what empty_like makes of the types  *)
(* of other libraries (_core/tensor.py).  An element type is DLPack's      *)
(* triple of code, bits and lanes.                                         *)
(*                                                                         *)
(* What may be passed as dtype= is a record of what the code can ask it:   *)
(*   isDType, isString  which of the library's own spellings it is         *)
(*   value              the DType, the name, or nothing                    *)
(*   kind, itemsize     NumPy's attributes, "" and 0 where there are none  *)
(*   prints             str() of it, split at its dots                     *)
(*   means              what its elements are; the code cannot ask that    *)
(***************************************************************************)
EXTENDS Integers, Sequences

\* DLDataTypeCode.
kDLInt == 0
kDLUInt == 1
kDLFloat == 2
kDLBFloat == 4
kDLComplex == 5
kDLBool == 6

DType(code, bits) == [code |-> code, bits |-> bits, lanes |-> 1]
\* ValueError or TypeError.
NoDType == DType(-1, 0)

\* The aliases under their Array API names.
ALIASES ==
  [ bool |-> DType(kDLBool, 8),
    int8 |-> DType(kDLInt, 8), int16 |-> DType(kDLInt, 16),
    int32 |-> DType(kDLInt, 32), int64 |-> DType(kDLInt, 64),
    uint8 |-> DType(kDLUInt, 8), uint16 |-> DType(kDLUInt, 16),
    uint32 |-> DType(kDLUInt, 32), uint64 |-> DType(kDLUInt, 64),
    float16 |-> DType(kDLFloat, 16), float32 |-> DType(kDLFloat, 32), float64 |-> DType(kDLFloat, 64),
    bfloat16 |-> DType(kDLBFloat, 16),
    complex64 |-> DType(kDLComplex, 64), complex128 |-> DType(kDLComplex, 128) ]

FromString(name) == IF name \in DOMAIN ALIASES THEN ALIASES[name] ELSE NoDType

\* _NUMPY_KIND_TO_CODE.  A slip: the kinds without an entry are bytes.
KindToCode == [b |-> kDLBool, i |-> kDLInt, u |-> kDLUInt, f |-> kDLFloat, c |-> kDLComplex]
FromKindOrBytes(kind, itemsize) ==
  DType(IF kind \in DOMAIN KindToCode THEN KindToCode[kind] ELSE kDLUInt, 8 * itemsize)
FromKind(kind, itemsize) ==
  IF kind \in DOMAIN KindToCode THEN DType(KindToCode[kind], 8 * itemsize) ELSE NoDType

FromAny(object) ==
  IF object.isDType THEN object.value
  ELSE IF object.isString THEN FromString(object.value)
  ELSE IF object.kind # "" THEN FromKind(object.kind, object.itemsize)
  ELSE NoDType

\* _dtype_like: what from_any refuses may still print as a name.
DTypeLike(object) ==
  IF FromAny(object) # NoDType THEN FromAny(object) ELSE FromString(object.prints[Len(object.prints)])
===============================================================================
