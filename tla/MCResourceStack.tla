--------------------------- MODULE MCResourceStack ----------------------------
(***************************************************************************)
(* ResourceStack on small instances.                                       *)
(***************************************************************************)
EXTENDS ResourceStack, TLC

CONSTANTS c1, c2, c3, a1, a2, a3

TwoCallers == {c1, c2}
ThreeCallers == {c1, c2, c3}
TwoAddrs == {a1, a2}
ThreeAddrs == {a1, a2, a3}

\* Callers and addresses are interchangeable: no definition tells them apart.
Symmetry == Permutations(Callers) \cup Permutations(Addrs)

\* Sizes: none, one and two bytes.
SizesSmall == {0, 1, 2}
===============================================================================
