------------------------------- MODULE ByteSums -------------------------------
(***************************************************************************)
(* Sums of sizes over a finite set, as cardinalities.                      *)
(*                                                                         *)
(* Every counter devmm keeps (`LimitingAdaptor._used`,                     *)
(* `StatisticsAdaptor._current`) is compared in this project with a sum of *)
(* sizes over a set of calls or of blocks.  A sum is written here as the   *)
(* number of byte cells the sizes span, so that neither a fold nor a       *)
(* recursive operator stands between the models and the provers.           *)
(***************************************************************************)
EXTENDS Integers, FiniteSets

\* The cells <<x, 1>>, ..., <<x, f[x]>> of every x in S.  A size that is zero
\* or negative has no cell.
Cells(f, S) == UNION {{x} \X (1..f[x]) : x \in S}

\* The sum of f[x] over the x in S, for a finite S and f[x] in Nat.
Bytes(f, S) == Cardinality(Cells(f, S))
===============================================================================
