----------------------------- MODULE MCGpuStreams -----------------------------
(***************************************************************************)
(* GpuStreams on small instances.                                          *)
(***************************************************************************)
EXTENDS GpuStreams, TLC

CONSTANTS t1, t2, d0, d1, h1, c1, b1, b2, e1, e2

OneThread == {t1}
TwoThreads == {t1, t2}
TwoDevices == {d0, d1}
OnlyD1 == {d1}
OneCreated == {<<d1, h1>>}
OneForeign == {<<d1, c1>>}
OneBlock == {b1}
TwoBlocks == {b1, b2}
OneEvent == {e1}
TwoEvents == {e1, e2}

\* No definition tells one thread from another.
Symmetry == Permutations(Threads)
===============================================================================
