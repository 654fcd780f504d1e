------------------------------- MODULE Layouts -------------------------------
(***************************************************************************)
(* The layouts of devmm (_core/layout.py): how a shape, the size of an     *)
(* element and a policy give element strides, a size in bytes and a base   *)
(* alignment, and what Layout.validate lets through of a layout that was   *)
(* built by hand.                                                          *)
(*                                                                         *)
(* A shape is the sequence of its extents; dimensions count from 1.  A     *)
(* permutation names the dimensions from the outermost to the innermost.   *)
(***************************************************************************)
EXTENDS Integers, Sequences, FiniteSetsExt, Functions

\* DType.itemsize: bytes per element, for all its lanes together.
ItemSize(dtype) == (dtype.bits * dtype.lanes + 7) \div 8

Gcd(a, b) == Max({d \in 1..b : a % d = 0 /\ b % d = 0})
\* The least multiple of m that is not below n.
CeilTo(n, m) == ((n + m - 1) \div m) * m
AtLeast1(n) == Max({n, 1})

\* The sum of a sequence of numbers.
Sum(f) ==
  LET upTo[n \in 0..Len(f)] == IF n = 0 THEN 0 ELSE upTo[n - 1] + f[n]
  IN upTo[Len(f)]
Empty(shape) == \E d \in DOMAIN shape : shape[d] = 0
IsPermutation(p, n) == Len(p) = n /\ Range(p) = 1..n

\* The distance of the last element from the first one, in elements, plus one.
Span(shape, strides) == 1 + Sum([d \in DOMAIN shape |-> strides[d] * (shape[d] - 1)])

NoLayout == [permutation |-> <<>>, strides |-> <<>>, required |-> -1, base |-> 0]
-------------------------------------------------------------------------------
(***************************************************************************)
(* Resolution                                                              *)
(***************************************************************************)
\* A slip: an extent of zero makes the strides outside of it zero.
StridesOfZero(permutation, shape, itemsize, unit) ==
  LET n == Len(shape)
      pitch[j \in 1..n] ==
        IF j = n
        THEN CeilTo(shape[permutation[n]], unit \div Gcd(itemsize, unit))
        ELSE pitch[j + 1] * shape[permutation[j]]
      Position(d) == CHOOSE j \in 1..n : permutation[j] = d
  IN [d \in 1..n |-> IF Position(d) = n THEN 1 ELSE pitch[Position(d) + 1]]

\* A slip: the innermost extent is padded as if an element were a byte.
StridesPaddedByCount(permutation, shape, itemsize, unit) ==
  LET n == Len(shape)
      pitch[j \in 1..n] ==
        IF j = n
        THEN CeilTo(AtLeast1(shape[permutation[n]]), AtLeast1(unit \div AtLeast1(itemsize)))
        ELSE pitch[j + 1] * AtLeast1(shape[permutation[j]])
      Position(d) == CHOOSE j \in 1..n : permutation[j] = d
  IN [d \in 1..n |-> IF Position(d) = n THEN 1 ELSE pitch[Position(d) + 1]]

\* _resolve, its strides: pitch[j] elements separate two neighbours in the dimension
\* outside of permutation[j].
Strides(permutation, shape, itemsize, unit) ==
  LET n == Len(shape)
      pitch[j \in 1..n] ==
        IF j = n
        THEN CeilTo(AtLeast1(shape[permutation[n]]), unit \div Gcd(itemsize, unit))
        ELSE pitch[j + 1] * AtLeast1(shape[permutation[j]])
      Position(d) == CHOOSE j \in 1..n : permutation[j] = d
  IN [d \in 1..n |-> IF Position(d) = n THEN 1 ELSE pitch[Position(d) + 1]]

\* _resolve.
Resolve(permutation, shape, itemsize, unit, base) ==
  LET strides == Strides(permutation, shape, itemsize, unit) IN
  [ permutation |-> permutation,
    strides     |-> strides,
    required    |-> IF Empty(shape) THEN 0 ELSE CeilTo(Span(shape, strides) * itemsize, base),
    base        |-> base ]

HostResident == {"cpu", "cuda_host", "rocm_host"}
CpuCacheline == 64
GpuUnit == 128
GpuBase == 256

RowMajor == [kind |-> "RowMajor"]
ColMajor == [kind |-> "ColMajor"]
Permuted(permutation) == [kind |-> "Permuted", permutation |-> permutation]
Aligned(inner, unit, base) == [kind |-> "Aligned", inner |-> inner, unit |-> unit, base |-> base]
DeviceOptimal == [kind |-> "DeviceOptimal"]

\* The policy whose order an Aligned takes over.  Bound: Aligned is nested twice.
Ordering(policy) ==
  IF policy.kind # "Aligned" THEN policy
  ELSE IF policy.inner.kind # "Aligned" THEN policy.inner
  ELSE policy.inner.inner

\* The permutation that a policy gives to a shape of n dimensions.
Order(policy, n) ==
  CASE Ordering(policy).kind = "ColMajor" -> [j \in 1..n |-> n + 1 - j]
    [] Ordering(policy).kind = "Permuted" -> Ordering(policy).permutation
    [] OTHER -> [j \in 1..n |-> j]

UnitOf(policy, device) ==
  CASE policy.kind = "Aligned" -> policy.unit
    [] policy.kind = "DeviceOptimal" -> IF device \in HostResident THEN CpuCacheline ELSE GpuUnit
    [] OTHER -> 1

BaseOf(policy, device) ==
  CASE policy.kind = "Aligned" -> policy.base
    [] policy.kind = "DeviceOptimal" -> IF device \in HostResident THEN CpuCacheline ELSE GpuBase
    [] OTHER -> 1

\* LayoutPolicy.__call__; NoLayout where Permuted raises ValueError.
LayoutOf(policy, shape, itemsize, device) ==
  LET permutation == Order(policy, Len(shape)) IN
  IF ~IsPermutation(permutation, Len(shape)) THEN NoLayout
  ELSE Resolve(permutation, shape, itemsize, UnitOf(policy, device), BaseOf(policy, device))
-------------------------------------------------------------------------------
(***************************************************************************)
(* Layouts that were built by hand                                         *)
(***************************************************************************)
\* The dimensions that are neighbours in a permutation, the outer one first.
Neighbours(permutation) ==
  {<<permutation[j], permutation[j + 1]>> : j \in 1..(Len(permutation) - 1)}

UnitInnermost(l) == l.permutation # <<>> => l.strides[l.permutation[Len(l.permutation)]] = 1

\* A slip: a pitch may be smaller than the extent it steps over.
ValidateOverlapping(l, shape, itemsize) ==
  /\ itemsize >= 1
  /\ Len(l.strides) = Len(shape)
  /\ IsPermutation(l.permutation, Len(shape))
  /\ \A d \in DOMAIN shape : l.strides[d] >= 1
  /\ l.required >= 0 /\ l.base >= 1
  /\ UnitInnermost(l)
  /\ \A p \in Neighbours(l.permutation) : l.strides[p[1]] % l.strides[p[2]] = 0
  /\ ~Empty(shape) => Span(shape, l.strides) * itemsize <= l.required

\* Layout.validate.
Validate(l, shape, itemsize) ==
  /\ itemsize >= 1
  /\ Len(l.strides) = Len(shape)
  /\ IsPermutation(l.permutation, Len(shape))
  /\ \A d \in DOMAIN shape : l.strides[d] >= 1
  /\ l.required >= 0 /\ l.base >= 1
  /\ UnitInnermost(l)
  /\ \A p \in Neighbours(l.permutation) :
       /\ l.strides[p[1]] % l.strides[p[2]] = 0
       /\ l.strides[p[1]] \div l.strides[p[2]] >= AtLeast1(shape[p[2]])
  /\ ~Empty(shape) => Span(shape, l.strides) * itemsize <= l.required
===============================================================================
