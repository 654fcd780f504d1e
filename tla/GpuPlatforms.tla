----------------------------- MODULE GpuPlatforms -----------------------------
(***************************************************************************)
(* Which resource a device gets when the program chose none: the probes    *)
(* and loaders of the built-in runtimes (_runtimes/_discovery.py), the     *)
(* tables of the two GPU platforms (_runtimes/cuda.py, _runtimes/rocm.py), *)
(* the loading of their native libraries and the recognition of an `rmm`   *)
(* module (_runtimes/_gpulib.py).                                          *)
(*                                                                         *)
(* All of it is a function of the environment, a record of                 *)
(*   found      what ctypes.util.find_library says of each alias           *)
(*   libraries  of each library's name, the parts of its platform's C      *)
(*              interface that it has, none if it cannot be loaded:        *)
(*                "base"    all but the pools                              *)
(*                "malloc_async", "free_async"                             *)
(*                "pools"   it knows the attribute memory_pools_attribute  *)
(*   pools      the driver's answer to that attribute                      *)
(*   rmm        the module of that name: the markers in its `rmm.mr`, and  *)
(*              the platform it really allocates on                        *)
(*   plugins    the names of the installed entry points                    *)
(*   override   DEVMM_RUNTIME                                              *)
(***************************************************************************)
EXTENDS Naturals, Sequences

None == "none"
NoModule == [markers |-> {}, target |-> None]
-------------------------------------------------------------------------------
(***************************************************************************)
(* The platforms: the driver's libraries, which a probe looks for, the     *)
(* runtime's, and the handles of the default streams                       *)
(***************************************************************************)
Platform(name, drivers, alias, libraries, legacy) ==
  [ name |-> name, drivers |-> drivers, alias |-> alias, libraries |-> libraries,
    handles |-> [default |-> 0, legacy |-> legacy, per_thread |-> 2] ]

\* Bound: of the versioned names two, newest first, and no unversioned one.
LibCudart == <<"cudart13", "cudart12">>
LibAmdhip == <<"amdhip7", "amdhip6">>

CUDA_PLATFORM == Platform("cuda", <<"nvcuda">>, "cudart", LibCudart, 1)
HIP_PLATFORM == Platform("rocm", LibAmdhip, "amdhip", LibAmdhip, 0)
CPU_PLATFORM == Platform("cpu", <<>>, None, <<>>, 0)

\* The runtimes that are built in, in the order they are preferred in.
BuiltinSpecs == <<"cpu", "cuda", "rocm">>
PlatformOf(name) ==
  CASE name = "cuda" -> CUDA_PLATFORM
    [] name = "rocm" -> HIP_PLATFORM
    [] name = "cpu" -> CPU_PLATFORM
-------------------------------------------------------------------------------
(***************************************************************************)
(* Libraries                                                               *)
(***************************************************************************)
\* _dlopen.
Loadable(env, name) == env.libraries[name] # {}

\* load_first_library.
LoadFirst(env, names) ==
  LET loadable == SelectSeq(names, LAMBDA name : Loadable(env, name))
  IN IF loadable = <<>> THEN None ELSE Head(loadable)

\* _library_candidates: the linker's own resolution goes first.
LibraryCandidates(env, platform) ==
  (IF env.found[platform.alias] = None THEN <<>> ELSE <<env.found[platform.alias]>>)
    \o platform.libraries

Unavailable == [status |-> "RuntimeUnavailableError", async |-> FALSE, pools |-> FALSE]

\* NativeGpuApi.__init__: every prototype is looked up, and one that is missing raises
\* what nobody expects; the pair for pools is bound whole or not at all.
NativeGpuApi(parts) ==
  [ status |-> IF "base" \in parts THEN "ok" ELSE "AttributeError",
    async |-> {"malloc_async", "free_async"} \subseteq parts,
    pools |-> "pools" \in parts ]

\* load_native_api.
LoadNativeApi(env, platform) ==
  LET name == LoadFirst(env, LibraryCandidates(env, platform))
  IN IF name = None THEN Unavailable ELSE NativeGpuApi(env.libraries[name])

\* NativeGpuApi.malloc_async and free_async report not_supported_status without a symbol.
AsyncSupported(api) == api.async

\* NativeGpuApi.get_device_attribute: a status and a value.
PoolsAttribute(env, api) ==
  IF api.pools THEN <<"success", env.pools>> ELSE <<"invalid value", FALSE>>

\* A slip: the driver is asked, and not through the library that will make the calls.
AsyncFamilyOfDriver(env, api, async) ==
  IF async = "auto" THEN env.pools ELSE async = "True"

\* GpuRuntimeMemoryResource.__init__: the probe of "auto", or what the program forces.
AsyncFamily(env, api, async) ==
  IF async = "auto"
  THEN PoolsAttribute(env, api)[1] = "success" /\ PoolsAttribute(env, api)[2]
  ELSE async = "True"
-------------------------------------------------------------------------------
(***************************************************************************)
(* The modules named rmm                                                   *)
(***************************************************************************)
\* _RMM_MARKERS: a platform's marker is there when any of its classes is.
MarkedFor(module) == module.markers

\* A slip: hipMM may keep RMM's names beside its own.
FirstMarkedPlatform(module) ==
  IF "cuda" \in MarkedFor(module) THEN "cuda"
  ELSE IF "rocm" \in MarkedFor(module) THEN "rocm" ELSE None

\* rmm_module_platform: exactly one.
RmmModulePlatform(module) ==
  IF \E name \in MarkedFor(module) : MarkedFor(module) = {name}
  THEN CHOOSE name \in MarkedFor(module) : TRUE
  ELSE None

\* import_rmm_for.
ImportRmmFor(env, name) == env.rmm # NoModule /\ RmmModulePlatform(env.rmm) = name
-------------------------------------------------------------------------------
(***************************************************************************)
(* The discovery                                                           *)
(***************************************************************************)
\* _cpu_probe, _cuda_probe and _rocm_probe; an entry point's is _entry_point_probe.
Probe(env, name) ==
  \/ name \notin {"cuda", "rocm"}
  \/ \E i \in DOMAIN PlatformOf(name).drivers : Loadable(env, PlatformOf(name).drivers[i])

\* _discovered_specs: whoever has a name first keeps it.
DiscoveredSpecs(env) ==
  LET upTo[i \in 0..Len(env.plugins)] ==
        IF i = 0 THEN BuiltinSpecs
        ELSE IF env.plugins[i] \in {upTo[i - 1][k] : k \in DOMAIN upTo[i - 1]}
        THEN upTo[i - 1]
        ELSE Append(upTo[i - 1], env.plugins[i])
  IN upTo[Len(env.plugins)]

\* runtime_names, from _selected_specs: the one that is forced, or those whose probe passes.
RuntimeNames(env) ==
  IF env.override # None
  THEN SelectSeq(DiscoveredSpecs(env), LAMBDA name : name = env.override)
  ELSE SelectSeq(DiscoveredSpecs(env), LAMBDA name : Probe(env, name))

\* _load_cuda and _load_rocm, up to what the constructor raises; the CPU's always loads,
\* and a plugin's is taken to.
LoadStatus(env, name) ==
  IF name \notin {"cuda", "rocm"} THEN "ok" ELSE LoadNativeApi(env, PlatformOf(name)).status

\* runtime_for, for a device of the platform of this name: the runtime is selected and
\* loads, and none before it raises what is not a RuntimeUnavailableError.  Plugins come
\* after the built-in runtimes.
Serves(env, name) ==
  \E i \in DOMAIN RuntimeNames(env) :
    /\ RuntimeNames(env)[i] = name
    /\ LoadStatus(env, name) = "ok"
    /\ \A k \in 1..(i - 1) : LoadStatus(env, RuntimeNames(env)[k]) # "AttributeError"
===============================================================================
