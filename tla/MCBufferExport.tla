---------------------------- MODULE MCBufferExport ----------------------------
(***************************************************************************)
(* BufferExport on small instances.                                        *)
(***************************************************************************)
EXTENDS BufferExport, TLC

CONSTANTS t1, t2, k1, k2

TwoThreads == {t1, t2}
TwoExports == {k1, k2}

\* Threads and exports are interchangeable: no definition tells them apart.  Not
\* used where liveness is checked.
Symmetry == Permutations(Threads) \cup Permutations(Exports)
===============================================================================
