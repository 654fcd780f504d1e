# devmm in TLA+

devmm is a pure-Python library that allocates device memory through wrapped
allocators and exports every allocation through DLPack. This directory holds
TLA+ modules that model its core, TLC configurations that check them on small
instances, and theorems about them that the TLA+ proof system checks for
every value of the constants.

Paths below are relative to the repository (`src/devmm/...`).

## The system

| Component | State it keeps | Operations | What is hard |
|---|---|---|---|
| Memory resources: adaptors (`_core/memory_resource.py`) over leaves (`mrs/*`, `_runtimes/_gpulib.py`) | `_used`, `_current`/`_peak`/`_total`, the leaf's `_live` table, each under its own lock; the native heap | `allocate`, `deallocate`, the counters' readers | calls overlap between critical sections; a leaf fails after a reservation; a native free fails; callers free twice or with a wrong size |
| Buffer (`_core/buffer.py`) | the pointer and its `weakref.finalize` entry | `free`, `with`, byte copies, collection, exit | who gives the pointer back; use after free from another thread |
| DLPack export (`_dlpack/export.py`) | per export: capsule, struct with `manager_ctx`, `_Holder` | `to_capsule`, capsule destructor, deleter | capsule, consumer, collector and exit end in any order and on any thread |
| Registry (`_core/registry.py`) | `_registry` under `_lock`; a ContextVar of overrides | get, set, `using_memory_resource` | first lookups race; the default factory runs under the lock; overrides nest and are inherited |
| Discovery (`_runtimes/_discovery.py`) | the spec cache, `_loaded`, two locks | `runtime_for`, `available_runtimes` | loaders fail under locks; several locks are held at once |
| GPU runtime (`_runtimes/_gpulib.py`, `cuda.py`, `rocm.py`) | native streams, events and the active device | `create_stream`, `make_stream_wait`, `memcpy`, `activate_device` | ordering between streams; a status that fails half way |
| Layout and tensor (`_core/layout.py`, `_core/tensor.py`) | none: pure computations, then one allocation | policies, `validate`, `empty`, `empty_like` | overlap and bounds of strides; offsets for alignment |
| Integrations (`integrations/*`) | an `Installer` per library, NumPy's handler state, live pointers | install, uninstall, allocate and free on the library's behalf | handlers outlive installations; uninstalls out of order |
| Testing kit (`testing/*`) | a recorder's event list; the conformance checks | `RecordingMemoryResource`, `mr_conformance`, `dlpack_conformance` | it judges other resources: a check that passes what it should not |
| Value types (`device.py`, `dtypes.py`, `stream.py`, `_abi.py`) | none | parsing, conversion, struct layouts | types and devices of other libraries, which can be asked almost nothing; layout against the C headers (the repository checks it with an ABI oracle) |

The parts meet as follows. `empty` asks the registry for the current resource
of a device; the registry asks the discovery for the device's runtime when it
has none. A buffer allocates through the resource, which is a chain of
adaptors over a leaf; its finalizer calls `deallocate` on the same chain. An
export pins the tensor, and with it the buffer and the chain, until its
deleter is called. So `ResourceStack` is what a buffer calls,
`BufferExport` is the caller `ResourceStack` assumes when `Careless` is
FALSE (it gives back exactly what it was given, once: `OneRelease`), and
`ResourceRegistry` decides which chain a buffer gets and is interrupted by the
finalizers `BufferExport` describes. `TensorFactory` computes what `empty` asks
that chain for, and what an export says about it; `LeafResources` are the ends of
other chains, `GpuPlatforms` says which of them a device gets when nobody chose,
and `Conformance` is the judge of any of them. The integrations turn the arrow
round: `Integrations` composes the hooks that NumPy, CuPy, rmm and Numba call when
they want memory of devmm, which may itself want memory of them.

What every component has to get right:

* memory resources: the limit, the counters and the table agree with the
  memory that is really out, whatever overlaps and whatever fails;
* buffer and export: one release, never while somebody relies on the
  memory, and always in the end;
* registry and discovery: one default and one construction, answers that
  were true at one instant, scopes that nest, no deadlock;
* GPU runtime: work of one stream is ordered after another's, nothing leaks
  when a call fails; layout: every index stays in the allocation and no two
  share an element; integrations: a pointer is freed by the handler that
  allocated it; testing kit: its verdicts are right.

## Modules

| Module | Models | Checked by |
|---|---|---|
| `ResourceStack` | StatisticsAdaptor and LimitingAdaptor, in either order, over a leaf with a `_live` table | `MCResourceStack`, `Stack*.cfg` |
| `BoundedHeap` | abstract: blocks come and go whole and never exceed the limit | refined by `ResourceStack` |
| `ByteSums` | sums of sizes, as cardinalities | used by `ResourceStack` |
| `BufferExport` | a DeviceBuffer, its finalizer and its DLPack exports | `MCBufferExport`, `Export*.cfg` |
| `PinnedBlock` | abstract: an allocation with holders goes back once, after the last, and does | refined by `BufferExport` |
| `ResourceRegistry` | registry, overrides, discovery, loaders, and finalizers that interrupt | `MCResourceRegistry`, `Registry*.cfg` |
| `CurrentResource` | abstract: one atomic map of current resources, with scopes | refined by `ResourceRegistry` |
| `GpuStreams` | a GPU runtime: active devices, streams, events, stream-ordered memory, and the GPU that executes the queues | `MCGpuStreams`, `Gpu*.cfg` |
| `GpuPlatforms` | probes, loaders, the tables of the platforms, the recognition of an `rmm` module: which resource a device gets by default, as operators on an environment | used by `LeafResources` |
| `Layouts` | layout policies and `validate`, as operators | used by `TensorFactory` |
| `ElementTypes` | `DType`, its coercions, and what `empty_like` makes of foreign types, as operators | used by `TensorFactory` |
| `TensorFactory` | `empty()`, `empty_like()`, `Tensor()` and what `__dlpack__()` answers | `MCTensorFactory`, `Tensor*.cfg` |
| `ProducerSuite` | `dlpack_conformance`, as conditions on states of `TensorFactory` | `MCTensorFactory`, `TensorFactory.cfg` |
| `LeafResources` | the leaves over a bytearray, malloc, NumPy's handler, the GPU runtimes, CuPy and rmm, a `LoggingAdaptor` in front of one, and the recorder of the testing kit | extended by `Conformance` |
| `Conformance` | `mr_conformance` and the pytest mixin's tests, run against those leaves and against faulty resources of third parties | `MCConformance`, `Conformance.cfg` |
| `Installers` | `Installer`, `install` and `uninstall` and the hooks in force, for all four libraries | extended by the two below |
| `NumpyHandler` | NumPy's NEP-49 handler: what must hold of NumPy before it is touched, its states, capsules and callbacks | extended by `Integrations` |
| `DeviceHooks` | CuPy's and rmm's hooks with the guard against cycles, and the Numba plugin with its pointers, finalizers and resets | extended by `Integrations` |
| `Integrations` | a program that uses some of these libraries, and the properties of all of them together | `MCIntegrations`, `NumpyHandler.cfg` |
| `ResourceStackProofs`, `BufferExportProofs`, `ResourceRegistryProofs`, `GpuStreamsProofs`, `ConformanceProofs`, `SuiteProofs`, `IntegrationsProofs`, `TensorFactoryProofs` | the theorems | `tlapm` |

Definitions whose comment says "slips a maintainer could make" are broken
variants of single actions. No specification uses them; put in the place of
the action they are named after, each makes a property fail, which shows that
the property depends on the code it is about.

### ResourceStack

A step is one `with self._lock:` block or one native call: other threads can
observe the chain nowhere else. `pc[t]` says where caller `t` is; `size` and
`addr` are the locals of its call. `Reserve`/`Refuse` are the critical section
of `LimitingAdaptor.allocate`, `Rollback` its `except` clause, `NativeAlloc`,
`NativeFail` and `Track` the leaf's `allocate`, `Record` the tail of
`StatisticsAdaptor.allocate`. `Untrack`/`Reject` are the leaf's critical
section in `deallocate`, `NativeFree`/`NativeFreeFails` the native call after
it, `Release` and `Unrecord` the tails of the two adaptors, in the order
`LimitOutermost` gives. `heap` is the native allocator; a block whose free
failed stays in it. `handles` and `returned` are history: what callers hold,
and every pointer they ever saw.

`Careless` callers pass `deallocate` any pointer they ever saw with any size;
the others what they hold. `FreeMayFail` is a GPU runtime's free.

The order of the adaptors does not change what allocation does to the budget
and the leaf, so one sequence of allocation steps serves both.

### BufferExport

`finalizer` is the registry entry of `weakref.finalize`: popping it is atomic,
and only the actor that popped it goes on to `Deallocate`. `Free` is `free()`,
`free(stream)` and leaving a `with` block (which differ in the stream only);
`Collect` is the weak reference's callback, `AtExit` the exit handler.
`to_capsule` is `CheckOpen`, then the stream handoff, which runs for as long
as it likes, then `Build`. An export's `refs` counts its `_Holder`'s
references, `ctx` is `manager_ctx` in the struct; the struct lives in the block
the holder owns, so reading it after the holder is gone reads freed memory:
null, or the `manager_ctx` of a block built since in its place. The deleter's
three statements are three steps, for each of the call the protocol allows and
one stray call.

Liveness uses weak fairness of the collector, of calls of `deallocate` and
of deleters that have begun: CPython frees what is unreachable when its count
drops (or at the next collection), and a thread inside a call is scheduled.
Nothing is assumed of programs and consumers: the liveness of `PinnedBlock` only
speaks of memory everybody let go of.

### ResourceRegistry

A step is what a thread does between two points at which it takes or drops a
lock. `owner` holds the locks, which are not reentrant; `pc`, `op`, `dev`,
`todo` and `using` are the locals of the call a context is in. A lookup that
misses keeps `_lock` through the whole search and the loader, as the code does.
`Selections` is what the probes and `DEVMM_RUNTIME` may select at any time. A
block's token remembers the mapping it replaced; `inherited` is history: the
mapping a context began with. `Collect` interrupts a context anywhere (inside a
chain's critical section only if `CollectInside`), and until `Finalized` the
context does nothing else. Every context that can run does (weak fairness of
`Proceed`): the scheduler of the operating system and a lock that is free are
all that takes.

`MaxCalls` bounds the calls of a behaviour and `MaxNesting` the open blocks.

### GpuStreams

The GPU runs beside the threads. A native call appends to the queue of a stream
(a write or read of a buffer's bytes, the record of an event, a wait for one, a
stream-ordered free), and `Execute` takes the head of any queue whenever it
can; a wait at the head holds its stream up until the event has been passed.
Every native call is a step of a thread: `Begin...`, `Activate`, `Perform...`,
`Restore` are `device_activation` around `create_stream`, `allocate` and
`deallocate`; `CreateEvent`, `Record`, `Wait`, `Destroy` are `event_order`;
`Synchronize` ends `memcpy`, and the handoff of a device nobody serves. With
`CanFail` each of them may report an error instead, and the code's `finally`
and swallowed statuses decide what is left behind. `active[t]` is the native
active device of a thread, on which the meaning of a default stream's handle
depends (`Native`); `chosen` is what the program last selected.

`StreamDies` is the finalizer of a stream wrapper. It can only run when neither
a call nor a buffer's own finalizer refers to the wrapper; that the finalizer of
a buffer does hold its stream is what `StreamsOutlive` is about. `Pools` are the
devices on which `async_alloc="auto"` takes the stream-ordered pair; on the
others freeing waits for the device. `Unserved` lets the lookup of a runtime
fail, after which `to_capsule` synchronizes instead. `AlwaysHome` says that the
program selects a buffer's device before it exports or copies the buffer;
nothing in the library requires that, and `GpuElsewhere` shows what happens
without. A handle of the per-thread default stream means the stream of whatever
thread uses it, so a buffer on one is only freed in order by its own thread;
`AlwaysHome` asks that too, because without it `UsesPrecedeFree` fails. `unsynced` is
history: a copy whose `synchronize` failed raises while it is still queued, with the
host buffer it reads or writes dropped; `HostBytesSafe` is about all others.
`free(stream)` with a stream of the program's own is left out.

### Layouts and TensorFactory

`Resolve`, `LayoutOf` and `Validate` are the computations of
`_core/layout.py`; a layout is a record of permutation, strides, size and base
alignment. `FromAny` and `DTypeLike` are those of `_core/dtypes.py` and
`_dtype_like`; what can be passed as a type is a record of what the code can ask it
(whether it is a `DType` or a string, its kind and size, how it prints) and of
what its elements are, which the code cannot ask and `AsAsked` compares with.
The steps of `TensorFactory` are the steps of one `empty()` or `empty_like()`, an
optional `Tensor()` over its buffer with a layout and an offset of the
program's own, and one `__dlpack__()`: each can refuse or fail after the one
before has left something behind. There is no concurrency; what is explored is
the data, and the properties compare the computations with the addresses of the
elements, computed from nothing but indices, strides and the size of an element.
`DLTensor` keeps the widths of the fields (`% 2^8`, `% 2^16`). The program may
free the buffer before it asks for a capsule.

The cases of `dlpack_conformance` are all among these behaviours, so
`ProducerSuite` adds no step: it says, case by case, which answers the suite
accepts, and `ProducerConforms` that the library's own are among them, over any
resource and at any address. The suite's last case, a capsule dropped
unconsumed, is a property of `BufferExport`.

### GpuPlatforms

An environment says which libraries can be loaded and which symbols each has, what
`find_library` answers, what the driver says of memory pools, which module is named
`rmm`, which entry points are installed and what `DEVMM_RUNTIME` forces. Everything
between that and a default resource is a computation: `RuntimeNames` from the
probes, `LoadNativeApi` from the candidates of a platform's table, `Serves` from the
order in which `runtime_for` asks, and `DefaultCuda`, `DefaultHip` and
`DefaultMalloc` (in `LeafResources`) from the chains in `default_memory_resource`.
`ResourceRegistry` models when these run and under which locks, this module what
they answer.

### LeafResources and Conformance

A leaf's call is `Allocate` (or `Deallocate`), the library's allocator outside of
the lock (`Obtain`, or `ObtainRaises` where activation, CuPy or rmm can raise), the
critical section that enters the pointer (`Record`) or takes it out (`TakeOut`,
`RefuseFree`), the library's free after the lock (`Release` or `ReleaseRaises`), the
line of a `LoggingAdaptor` (`WriteLog`) and `Return`. How the leaves differ is
data: the alignment they move pointers to, whether `deallocate` compares sizes,
whether the library is told a size, which calls may raise, and whether the library
can serve the device at all, which `DefaultServes` asks of those that were chosen
`byDefault`. `blocks` are the library's books, with the bytes it was asked for;
`stranded` and `misfreed` are history. The recorder of the testing kit has no library
and works in one step, under its lock; `recorder` holds its cursor, freed set and
log, or the adaptor's lines. `LogTellsAll` replays the former (`Replay`) and counts the
latter (`LinesBalance`): for each address and size, or for each address alone where the
leaf does not compare sizes and a line may carry any.

A check of the suite is a program of instructions (take a block, give it back,
write, read, compare, count, make a fresh resource); `misuse` marks the calls of
which `_expect` wants a `ValueError`. `MRConformance` concatenates the checks as
`mr_conformance` does, `Tests` are the methods of the mixin, where that of requested
alignments is only run on resources that can have one. `verdict` is how it
ended. A behaviour is either one tester with such a program, or callers who pass
a leaf whatever pointer and size they like. A third party's resource works in one
step and has at most one fault; `SuiteSound` is about the verdicts on all of
them, and about what the suite leaves behind.

### Installers, NumpyHandler, DeviceHooks and Integrations

`inForce` is the hook each library has at the moment: NumPy's is a context
variable, so there is one per context and `set_handler` exchanges it in one step
(`Exchange`); the others have one for all, read and then replaced (`Capture`,
`Replace`). `Uninstall` is the critical section that spends the installer,
`Restore` what follows outside of the lock, in the context of whoever uninstalls.
`stack` and `tangled` are history: which hooks are in a slot and whether they
left it in LIFO order; `LastInForce` speaks of the slots where they did.

A hook of NumPy stands for its state, its struct and its capsule. `Referenced`
is CPython's count of the capsule: contexts, captured handlers in the closures of
installers, arrays, and calls in flight. When it is zero, `CapsuleDies` removes
the state from `_LIVE`, and nothing else in the code may. The callbacks are steps
between the critical sections of the state's lock, and the calls of the resource;
`refused` is history: the resource was given back a pointer or a size it had not
given out, an error the callbacks log and swallow. `RequireSupported`,
`MultiarrayUmath` and `LoadApi` are the guards of `_nep49.py` before all that, on any
NumPy there may be. `CaptureHandler` is a `NumpyHandlerMemoryResource`, which keeps a
reference to whatever capsule is in force when it is made, one of devmm's included.

A hook in CuPy or rmm stands for the chain of links that was passed to `install`,
from the outside in; `NoCycle` walks it as `ensure_no_cycle` does. What a hook asks
for memory (`Suppliers`) may be another library's hook, and `LoopsCrossLibraries` is
about the cycles that are left. Numba asks for its memory manager once, when it
makes a context (`CreateContext`), so an install or an uninstall after that changes
nothing before the next context. `allocations` is the plugin's mapping, `pointers`
the addresses of Numba's `MemoryPointer`s; `ResetContext` clears the mapping as
Numba's `reset` does, and `strays` counts the pointers whose entry is gone, by that
or because another stray's finalizer popped it. The latter Numba still uses, although
their blocks were freed: `PointersBacked` does not promise them any, but that at an
address there are never more pointers without an entry than there were resets.
`InstallNumPy` is for the resources that `install` does not refuse; what it refuses (a
chain that takes from NumPy's handler, a device that is not the CPU) it refuses before
any effect.

## Runs

| Run | Instance | Shows |
|---|---|---|
| `StackDisciplined` | 3 callers, 3 addresses, sizes 0, 1, 2, limit 3, at most 4 bytes ever (`MaxTotal`), limit outermost | handles, counters and peak in every interleaving; refinement of `BoundedHeap`, the limit with it |
| `StackCareless` | 3 careless callers, 2 addresses, sizes 0, 1, 2, limit 2, at most 3 bytes ever, limit inside, free may fail | limit, books and table survive double frees, wrong sizes and failed frees |
| `ExportRaces` | 2 threads, 2 exports, free, exit and stray deleters | one release, exact holders, only requests revoke |
| `ExportPinned` | 2 threads, 2 exports, no free, no exit, no stray deleters | refinement of `PinnedBlock` with its liveness: the memory goes back once, after its last holder, and does go back |
| `RegistryRaces` | 2 contexts, 2 devices, 3 resources, 2 runtimes, 1 chain, 3 calls, 2 nested blocks | lock order, single construction, scopes, termination, refinement of `CurrentResource` |
| `RegistryReentry` | the same, collections also inside critical sections | **finding**: a finalizer waits for its own thread's lock |
| `GpuHome` | 2 threads, 2 devices, one created and one foreign stream, per-thread default streams on one device, 1 buffer, 1 event, one device with pools, every call may fail, buffers used from their own device and those of a per-thread stream in their own thread | activation is undone, events and streams are returned or kept, consumers and copies read what was written, host buffers outlive the copies through them, frees overtake nothing |
| `GpuElsewhere` | 1 thread, the same, no failures, any active device | **finding**: the handoff may order nothing |
| `TensorFactory` | 6 shapes, 13 spellings of element types, arrays of other libraries on 4 devices (one unknown, one not told) with any overrides, 9 policies, 9 layouts built by hand, 3 resources, 3 addresses, 2 offsets, 13 kinds of `__dlpack__` call | elements have the type and the device that was asked for, lie apart and inside, alignment is reached, nothing is refused after the allocation, the struct tells the truth, the conformance suite accepts it |
| `TensorTruncated` | the same with NumPy's `clongdouble` | **finding**: 256 bits become 0 in the struct |
| `Conformance` | 2 callers with the leaves, logged ones and the default resources of every environment of the instance, 2 blocks, sizes -1, 0, 3, logs of 3 calls; 1 tester with 4 leaves and 11 resources of third parties, 4 places for blocks, alignments 1, 8, 4096 | every block has one owner and goes back as it was obtained, allocations lie apart, logs tell all and balance, a default resource can serve its device, the suite fails what is faulty and nothing else, and returns what it took |
| `NumpyHandler` | 2 contexts, 2 installations into NumPy, into Numba, or into CuPy and rmm, 2 addresses, 2 sizes, 2 resources, 2 resets of Numba's context, NumPys before, in and after the supported range, deallocations may raise | restores happen once and restore what they should, states outlive arrays and captures, tables and resources agree, a pointer has its block unless a reset is behind its loss, nothing is forgotten, every cycle of allocators has two libraries in it |

Why the bounds are enough. The interesting cases of the chain need two calls
between their critical sections, a third that observes, an address that is
freed and handed out again, and a budget that two calls together exceed: three
callers, two addresses and a limit of two or three bytes have all of them, and
`MaxTotal` leaves room for a reuse after the limit was reached. An export's
struct can be mistaken for one other export's, so two exports are needed; one
buffer is enough because buffers share nothing but the chain. Two contexts can
race for each of the three module locks while a finalizer of either wants a
chain's; three calls are a lookup on each side and an install, a block or a
collection between them (four calls were checked too: 543,909 states, no
error). For streams, the order of two streams and of two devices is what can go
wrong; one buffer, its own stream, the consumer's and the default streams of two
devices have all pairs, and a second thread changes devices or frees meanwhile.
The shapes include a scalar, an empty one, one with an extent of 1 and three
dimensions; the elements include one below a byte, one of three bytes and one of
16; the addresses include one that is aligned to everything, to 16, and to
nothing. A leaf's table can go wrong between two calls, at an address that is
freed and obtained again; the suite's longest check holds as many blocks as
`check_bookkeeping` has sizes, of which the instance keeps three, and one place
among the four is aligned to nothing, so that a leaf has to move its pointers.
The environments have each library loadable or not, old or new, under drivers of
either answer, with each module that calls itself `rmm`. Two hooks are the least
that can be in each other's way or make a cycle; two resets give three generations of
pointers at two addresses, so that one that lost its entry to an older one's finalizer can
do the same to a newer one.
The proofs cover every other size for the safety properties they state.

Deadlock is checked in the runs of `ResourceStack`, where some caller can
always go on. `BufferExport`, `ResourceRegistry`, `Integrations` and `Conformance`
may really stop (everything released, every call made, the suite over), so their
configurations switch the check off; `CallsEnd` and `LocksOrdered` say what a
deadlock would violate. In `GpuStreams` and
`TensorFactory` something can always happen, so the check stays on.

## What is proved

All theorems are for any sets of callers, threads, exports, contexts, devices,
runtimes, chains, streams, leaves, environments, hooks and addresses, any limit and any
number of steps. TLC checked each inductive invariant on an instance before it was
proved.

`ResourceStackProofs`: `TypeCorrect`; `TableIsSound`; and, if no size is negative,
`BooksAlwaysBalance`, `LimitIsRespected`, `PeakIsWithinLimit`, `HandlesAreValid`
(for callers that are not careless), `CountersStayOrdered` (for the same callers) and
`ChainImplementsBoundedHeap`. The heart
is `BooksBalance`: `_used` is the bytes out plus what is reserved and not yet
obtained, plus what is freed and not yet released. The check in `Reserve` bounds
`_used`, so it bounds the bytes out, but only together with the table: a free
could otherwise take a block away twice and the budget twice. So the inductive
invariant is the type invariant, `TableSound` and `BooksBalance` together.
Sums are cardinalities of sets of byte cells (`ByteSums`), whose algebra
the first lemmas derive from the library's theorems on finite sets.
`CountersOrdered` needs, besides the books, that the calls which allocated and have not
recorded it yet hold different blocks, so that their bytes together are no more than
are out (`UnrecordedAreOut`), and `current` is never below zero.

`BufferExportProofs`: `TypeCorrect`, `ReleasedOnce`, `HoldersAreExact`,
`OnlyRequestsTakeIt`, and `ExportsPinTheBlock`, the safety half of the
refinement. `OneRelease` is inductive with the fact that nobody is about to
deallocate while the finalizer is armed. `HoldersExact` needs, for every export,
the stage it is in (not made, in its capsule, with its consumer, in its
deleter, over), each with its count and its `manager_ctx`, and that no two
exports point to one holder; all of it under the condition that no deleter was
called twice, which is why a stray call is a step of the model and not a
separate model.

`ResourceRegistryProofs`: `TypeCorrect`; `LocksAreOrdered`, from an invariant that
says which lock is held at which place of which call, if the collector spares
critical sections; `MadeOnlyOnce`, from the lock that whoever loads or makes a
default holds; `RegistryImplements`, which needs that a lookup that went to the
registry has no override and that a device without a current resource was never
given a default; `ScopesAreExact`, from the invariant that the token of the i-th
block is exact for the i-1 blocks below it.

`GpuStreamsProofs`: `TypeCorrect`, `DevicesAreKept`, `NoEventLeaks`,
`StreamsOutliveBuffers`, `HostBytesAreSafe` and, under `AlwaysHome`, `ReadsFollow` and
`UsesAreFirst`. All rest on an invariant that says what the call of a thread has at hand
at each place (`Calls`). `DevicesAreKept` puts the calls under `device_activation` on
their stream's device, and those of handoffs and copies on the one the program selected,
which need not be the buffer's. The orderings are statements about queues of any length: a
write that a reader must not overtake is done, or it is before the reader in one queue,
or in a queue before the record of an event that the reader's queue waits for first; a
step of the GPU takes only heads, so nothing passes. Without `AlwaysHome`
`ReadsFollowWrites` is false (`GpuElsewhere`) and so is `UsesPrecedeFree`; with it they
hold whatever fails.

`ConformanceProofs`, about callers of a leaf: `BlocksHaveOneOwner` and
`AllocationsStayApart` suppose that the leaf is one its constructor makes, with an
alignment that it accepts, and that the library keeps its own blocks apart (`Setting`);
so does `LogsTellAll`, for finitely many callers; sizes may be negative. A block is free, in the hands of one call, in the table under the
address it was cut to, or stranded; that is inductive together with where in its block
an address was cut. For the recorder (`RecorderTold`), one line more replays to what one
step more makes of the table (`ReplayThenOne`), and every address in the log is behind
the cursor. For a `LoggingAdaptor` (`LinesTold`) each step takes one thing from one of
the sets that are counted and puts it into another: from a call to the table and to a
line to be written, from there to the log, from the table to a call, from a call to a
line or to what is stranded; that it was not there before follows from `Ownership`.
`DefaultsAlwaysServe` supposes that an environment's `rmm` is for
the platform its markers say, if it has any, and that a library which knows memory
pools has both asynchronous functions (`DefaultsAreDiscovered`); it then says that the
recognition in `GpuPlatforms` never chooses wrongly.

`SuiteProofs`, about the suite: `SuiteIsSound`, and `BlocksHaveOneOwnerAlways` and
`AllocationsStayApartAlways`, which carry the two theorems about callers over to what the
suite does, its misuses included. They suppose `SuiteSetting`: the sizes drawn are natural
numbers, those that the guarantee is tried with at least one, and the alignments such as
constructors accept (`SuiteDraws`); the resources tried are what the constructors make but
for the recorder, a device's default, a third party's that works, or one of a third party
with one of the faults that `Conformance` lists (`SuspectsAreKnown`); and the library's blocks do
not overlap, whatever the suite asks for (`SuiteBlocksApart`). How long a sweep or a batch
is, and so how long a program, is left open; so is whether a call finds memory.

The proof has two halves. For a resource without a fault, each check, and each test of the
mixin, is shown to lead from nothing held to nothing held (`Leads`, `Back`), which for
batches and sweeps is an induction over the sequence. `SoundRun` then
says between two instructions that what is left of the program leads on from what is held
now, where the slots and the leaf's table agree (`Stock`), and in a call how far it has
come (`Midway`). The ownership of blocks that
`ConformanceProofs` proves is part of it, for the suite's sizes and -1; it is what makes an
address that was freed unknown to the table, and the written patterns intact. For a resource
with a fault that the suite is about, `Betrays` says what one instruction makes of what is
known (an address that will be handed out again, a count that is off), and `Noticed` that
from the start on some instruction of the program is reached that cannot be passed; the
program consists of all checks, so that one is in it (`FaultyRun`). `FlawedRun` claims no more
than `SuiteJudges` of the rest: of the faults in `Unnoticed`, and of the tests of the mixin
one by one, nothing is promised but that a failure has a fault for its reason.

`IntegrationsProofs`: `RestoresHappenOnce`, `RestoresUndo`, `HandlersOutliveUninstall`,
`AllIsBacked`, `ReturnsAreExact`, `NothingIsLeft` and `LoopsLeadThroughTwo`, without any
hypothesis but that there are finitely many hooks (`DeviceAssumption`). That a
hook is in one place of one stack and that whoever is about to restore it is alone
(`InstallersInv`) carries the first two; for the second also that in a slot that was
left in LIFO order each hook's `previous` is the one below it (`ForceInv`). A handler outlives its uninstall because every reference to its capsule is
an array, a context, a closure or a call, and `CapsuleDies` wants none. For the memory of
NumPy (`MemoryInv`) every block is a live array's, is claimed by a `realloc` under way,
or is in the hands of one call, and the tables of the handlers list the first two: so
no size a callback looks up is wrong. For Numba's (`DeviceInv`) a block is under its
address in the mapping or in the hands of one call, which is why a stray finalizer may
take a later pointer's entry, and yet nothing is freed twice or forgotten. A stray that
takes an entry is over, and its victim is one in its place: so at an address there are no
more of them than resets there were (`StraysInv`). A hook's
chain was checked for the library that the hook is in, and what is in force in a library
is that library's (`LoopsInv`), so whom a hook asks for memory is in another library
(`OthersSupply`); whoever asks itself at the end of a path asks the first on it
(`AsksFirst`), which is an induction over its length.

`TensorFactoryProofs`, for shapes of any number of dimensions: `ElementsLieApart`,
`NothingRefusedLate`, `AlignedInMemory`, `CapsulesAreHonest`, `ProducersConform` and
`NothingElseIsMade`.
`FactoryInv` says of each step what it leaves: a request whose parts come from what was
passed, a layout that is what `Resolved` computes, a buffer with the padding that
`Padding` asks for, a tensor that its constructor accepted. The rest is about the
operators. `PitchesExist` shows that the recursion of `Strides` defines a function, and
`StridesStep`, `StepsNest` and `Resolves` that its strides are multiples of one another,
step over what lies inside of them, and are whole units outside of the innermost
dimension; `PolicyResolves` that `Validate` accepts every layout of a policy. From what
`Validate` accepts, `PositionsApart` concludes that different indices have different
positions: in the outermost dimension where they differ the stride is more than
everything inside of it can make up. Sums and pitches are recursive functions, so these
are inductions; each is done on the set of the numbers for which the claim holds, by the
least number outside of it (`LeastNumber`, `UpTo`). Three of the theorems suppose
something of the element types. `NothingRefusedLate` wants element types of at least one
byte: `DType(0, 0)` can be built, and is refused only after an allocation of no bytes.
`CapsulesAreHonest` wants types that fit the fields of `DLDataType`; `TensorTruncated`
shows what happens to others. `NothingElseIsMade`, which states `AsAsked`, wants that,
too, and that what the code recognises a type by does not deceive it (`TypesMean`): that
is a table, of which the run checks what an instance spells out, and the observations
below name two entries that do deceive; what follows for every call, resource and
capsule is proved. All suppose `FactoryAssumption`, which says what the constructors of
the code let through: extents and permutations that are natural numbers, alignments of
at least one, integers where the code declares them, and pointers that are not NULL.

`TypeOK` of `ResourceStack`, `BufferExport`, `ResourceRegistry` and `GpuStreams` is
what their theorems `TypeCorrect` state, for every instance.

Every invariant and every action property of a passing run is so stated by a theorem. Not
proved, only model-checked: the liveness properties (`CallsEnd`, the liveness of
`PinnedBlock`), which are out of the prover's reach, as is everything that depends on
ENABLED.

## Findings

The runs that expect a violation state a sentence of the repository that the
code does not keep; `PROJECT.json` quotes each with its line.

* A collection inside an adaptor's critical section can run a finalizer that
  waits for the same lock on the same thread.
* `make_stream_wait` does not activate the buffer's device: with another device
  active, event and default-stream handles name that device's, and the consumer
  reads before the producer wrote.
* A data type of 256 bits leaves the library as one of 0 bits.

Limits that the models show and no property asks against: a negative `nbytes`
passes `LimitingAdaptor`'s check and lends its budget to other threads until the
leaf rejects it (the runs and the proofs about the limit take sizes that are not
negative); the table of a leaf
cannot tell a double free from the owner's free once the address has been reused
for a block of the same size (callers that are not careless cannot do it), and
`free()` revokes exported memory that a consumer still holds (only a request
does: `OnlyRequestsRevoke`). A second call of a deleter reaches its guard only
through the block that the first call freed, and may find another export's
holder there; `OneRelease` holds all the same, `HoldersExact` until it happens.

Smaller observations made on the way, by component.

* Chain: with the statistics outermost the recorded peak can exceed the limit (a
  freed block's budget is granted again before it is taken off);
  `LimitingAdaptor.available_memory` reports its upstream's, not what the limit leaves;
  the lines that two threads write to a `LoggingAdaptor` about a reused address may be
  in the wrong order, although they balance.
* Discovery: loaders that fail run again at every lookup, although the comment above
  `_loaded` says that loaders run at most once; a native library that loads but lacks
  one of the base symbols raises `AttributeError`, which is no `RuntimeUnavailableError`
  and ends every `runtime_for` that comes to it, also for devices of the platforms after
  it (`Serves`); the probe of ROCm does not ask `find_library`, the loader does;
  `async_alloc="auto"` relies on a library that knows the attribute of pools having both
  asynchronous functions.
* Leaves: `BytearrayMemoryResource.deallocate` does not compare sizes, unlike the
  others, so that a `LoggingAdaptor` in front of it may tell of an allocation of 3 bytes
  and of a free of none; `RmmLikeMemoryResource.deallocate` strands a block whose release or whose
  stream's translation raises, since its entry is gone by then (`stranded`), and neither
  of its calls activates the device.
* Streams: a buffer on the per-thread default stream that another thread, the
  collector or the exit handler frees is freed on that thread's stream, after nothing;
  a `memcpy` whose `synchronize` fails leaves a staged host buffer in use.
* Tensors: `_aligned_element_offset` gives up for item sizes that do not divide the
  misalignment although a larger offset may exist (its docstring says otherwise, and
  `StartAligned` is stated for powers of two); `DType.from_any` does not ask for the byte
  order, so a type of the other order passes as the machine's, and takes NumPy's
  longdouble, of 16 bytes, for a 128-bit IEEE float.
* Integrations: NumPy's handler is a context variable, so `install` routes the
  allocations of the installing context and not those of "the process", and an
  `uninstall` from another context restores there and leaves the installing one as it
  was; two installs into CuPy, rmm or Numba that overlap capture the same predecessor; a
  cycle through two libraries (CuPy from rmm, rmm from CuPy) passes both guards; after a
  reset of Numba's context the finalizer of an old pointer may free the block of a new
  one at the same address; an install into Numba does not reach contexts that exist.
* Testing kit: the suite passes a resource whose blocks are one byte short
  (`Unnoticed`), and asks neither for concurrent calls nor for frees with a wrong size;
  the mixin tests requested alignments unconditionally, so that, other than with
  `mr_conformance`, a correct resource of a smaller, fixed alignment can fail it.

## Not modelled, and the plan

Not modelled: wording of messages, logging, `repr`s, the refusals of the CPU runtime
(which has no state: one no-op stream and `memmove`), parsing and pickling of devices
and streams, the byte layout of the C structs and the prototypes of native functions,
device counts, asynchronous exceptions at arbitrary bytecodes, third-party factories
that call back into the discovery (they wait for a lock that their own thread holds),
int64 overflow of strides, types of the other byte order.

Next: `free(stream)` with a stream of the program's own.
