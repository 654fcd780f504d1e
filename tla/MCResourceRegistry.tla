-------------------------- MODULE MCResourceRegistry --------------------------
(***************************************************************************)
(* ResourceRegistry on a small instance.                                   *)
(***************************************************************************)
EXTENDS ResourceRegistry

CONSTANTS t1, t2, cpu, gpu, m1, m2, g1, r1, r2, chain1

TwoContexts == {t1, t2}
TwoDevices == {cpu, gpu}
\* Two resources of the cpu and one of the gpu.
ThreeResources == {m1, m2, g1}
MCDeviceOf == [m \in ThreeResources |-> IF m = g1 THEN gpu ELSE cpu]
TwoRuntimes == {r1, r2}
MCServes == [r \in TwoRuntimes |-> IF r = r1 THEN {cpu} ELSE {gpu}]
\* Both probes pass, or the one runtime that DEVMM_RUNTIME forces is all there is.
MCSelections == {<<r1, r2>>, <<r1>>}
OneChain == {chain1}
===============================================================================
