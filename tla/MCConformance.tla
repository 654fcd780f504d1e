---------------------------- MODULE MCConformance ----------------------------
(***************************************************************************)
(* Conformance on small instances.                                         *)
(***************************************************************************)
EXTENDS Conformance

TwoCallers == {"a", "b"}
OneTester == "a"

\* Environments: a driver with and without pools, the linker's own resolution or none,
\* libraries of several ages, and every kind of module named rmm.  A library that knows
\* the attribute has the calls it is about, and a module bears its own marker, if any.
OldLibrary == {"base"}
HalfLibrary == {"base", "malloc_async"}
NewLibrary == {"base", "malloc_async", "free_async", "pools"}
Wreck == {"malloc_async"}
Modules ==
  {[markers |-> m, target |-> p] : m \in SUBSET {"cuda", "rocm"}, p \in {"cuda", "rocm"}}
RmmModules == {NoModule} \cup {m \in Modules : m.markers = {} \/ m.target \in m.markers}
Libraries ==
  [ nvcuda : {{}, {"driver"}}, cudart13 : {{}, NewLibrary},
    cudart12 : {{}, OldLibrary, HalfLibrary, NewLibrary, Wreck},
    amdhip7 : {{}, OldLibrary, NewLibrary}, amdhip6 : {{}}, gone : {{}} ]
Environments ==
  [ found : {[cudart |-> f, amdhip |-> None] : f \in {None, "cudart12", "gone"}},
    libraries : Libraries, pools : BOOLEAN, rmm : RmmModules,
    plugins : {<<"cuda", "mine", "mine">>}, override : {None, "cuda"} ]

Defaults == DefaultResources(Environments)
ForcedOnOld == GpuRuntime(AsyncFamily(None, None, "True"), NativeGpuApi(HalfLibrary))

SomeLeaves ==
  { Logging(Bytearray(8)), NumpyHandlerLeaf, CupyAllocator, Logging(RmmLike(TRUE)),
    Recording(4), ForcedOnOld } \cup Defaults
Faults == { "none", "aliases", "crooked", "sharesZero", "nullZero", "trustsSigns",
            "trustsFrees", "freesTwice", "dropsOnRefusal", "forgetsNothing", "short" }
SomeSuspects ==
  { Bytearray(1), Malloc("posix", 1), Malloc("windows", 1), NumpyHandlerLeaf,
    CupyAllocator, ForcedOnOld } \cup Defaults \cup {ThirdParty(f) : f \in Faults}

\* Three of them lie on 256 bytes, and one on no boundary at all.
SomeBases == {20480, 40960, 61445, 81920}
TwoBases == {20480, 81920}
SomeSizes == {-1, 0, 3}
SomeAlignments == <<1, 8, 4096>>
SomeSweepSizes == <<1, 17, 4096>>
SomeGuaranteeSizes == <<1, 255>>
SomeBatchSizes == <<0, 7, 14>>
===============================================================================
