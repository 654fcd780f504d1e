---------------------------- MODULE LeafResources ----------------------------
(***************************************************************************)
(* The leaf resources that stand on somebody else's allocator (mrs/cpu.py, *)
(* mrs/cuda.py, _runtimes/_gpulib.py), and the recorder of the testing kit *)
(* (testing/_recording.py).  A leaf asks its library for a block outside   *)
(* of its lock, enters the pointer in `_live` under it, and on the way     *)
(* back takes the entry out under the lock and gives the block back after  *)
(* it.  Callers overlap in between, and may pass any pointer and any size. *)
(*                                                                         *)
(*   allocate     Allocate, then Obtain and Record                         *)
(*   deallocate   Deallocate, then TakeOut and Release                      *)
(*                                                                         *)
(* The leaves differ in what they ask for, what they check and what they   *)
(* tell their library; the record `leaf` says how.  A LoggingAdaptor in    *)
(* front of one writes its line after the call (WriteLog).  The recorder   *)
(* has no library: it works in one step, under its lock.                   *)
(***************************************************************************)
EXTENDS Integers, FiniteSets, GpuPlatforms

CONSTANTS
  Callers,
  Bases,    \* bound: where the library's blocks may begin
  MaxLog    \* bound: the calls that a recorder or a LoggingAdaptor logs

ASSUME LeafAssumption ==
  /\ IsFiniteSet(Callers)
  /\ Bases \subseteq Nat \ {0}
  /\ MaxLog \in Nat

VARIABLES
  leaf,      \* the resource
  live,      \* `_live`: from a pointer to its size and its block
  call,      \* what each caller is doing
  blocks,    \* the blocks the library has given out, and the bytes it was asked for
  stranded,  \* history: the blocks that a failed deallocate left with the library, and
             \* the size it was called with
  misfreed,  \* history: the library was given back what it had not given out
  recorder   \* the recorder's `_cursor`, `_freed` and `calls`, or the adaptor's log

leafVars == <<leaf, live, call, blocks, stranded, misfreed, recorder>>

\* A function without, and with one more, point.
Without(f, x) == [y \in DOMAIN f \ {x} |-> f[y]]
With(f, x, v) == [y \in DOMAIN f \cup {x} |-> IF y = x THEN v ELSE f[y]]
Nothing == [x \in {} |-> 0]
AtLeast1(n) == IF n < 1 THEN 1 ELSE n
-------------------------------------------------------------------------------
(***************************************************************************)
(* The leaves                                                              *)
(*   alignment     what its constructor was given                          *)
(*   moves         pointers are moved up to that, inside a larger block    *)
(*   boundary      what the library's blocks are aligned to                *)
(*   guarantee     guaranteed_alignment()                                  *)
(*   checksSizes   deallocate refuses another size                         *)
(*   tellsSize     the library's free is told a size                       *)
(*   raises        the calls whose library may raise other errors          *)
(*   serves        the library can serve the device at all                 *)
(*   byDefault     default_memory_resource chose it                        *)
(*   logged        a LoggingAdaptor is in front of it                      *)
(***************************************************************************)
Plain(name, boundary) ==
  [ name |-> name, alignment |-> 1, moves |-> FALSE, boundary |-> boundary,
    guarantee |-> boundary, checksSizes |-> TRUE, tellsSize |-> FALSE, raises |-> {},
    serves |-> TRUE, byDefault |-> FALSE, logged |-> FALSE ]

\* BytearrayMemoryResource: dropping the entry frees the bytearray.
Bytearray(alignment) ==
  [Plain("bytearray", 1) EXCEPT !.alignment = alignment, !.moves = TRUE, !.checksSizes = FALSE]

\* _PosixFamily.alloc and _WindowsFamily.alloc: posix_memalign wants at least a pointer's size.
PosixBoundary(alignment) == IF alignment < 8 THEN 8 ELSE alignment
WindowsBoundary(alignment) == alignment

\* MallocMemoryResource, over the family of the operating system (_native_family).
Malloc(family, alignment) ==
  LET boundary == IF family = "windows" THEN WindowsBoundary(alignment)
                  ELSE PosixBoundary(alignment)
  IN [Plain(family, boundary) EXCEPT !.alignment = alignment, !.guarantee = alignment]

\* NumpyHandlerMemoryResource, over the callbacks it captured.
NumpyHandlerLeaf == [Plain("numpy", 1) EXCEPT !.tellsSize = TRUE]

\* GpuRuntimeMemoryResource: each native call is under device_activation, which may raise.
\* The asynchronous family needs a library that has it.
GpuRuntime(async, api) ==
  [Plain("gpu", 256) EXCEPT !.raises = {"allocate", "deallocate"},
                            !.serves = async => AsyncSupported(api)]

\* CupyAllocatorMemoryResource: dropping the entry drops CuPy's MemoryPointer.
CupyAllocator == [Plain("cupy", 256) EXCEPT !.raises = {"allocate"}]

\* RmmLikeMemoryResource: its inner resource, or the stream's translation, may raise.
RmmLike(serves) ==
  [Plain("rmm", 256) EXCEPT !.tellsSize = TRUE, !.raises = {"allocate", "deallocate"},
                            !.serves = serves]

\* RecordingMemoryResource.
Recording(guarantee) == Plain("recording", guarantee)

\* LoggingAdaptor.
Logging(l) == [l EXCEPT !.logged = TRUE]

\* A resource of somebody else's keeps no promise that is checked here.
Own == {"bytearray", "posix", "windows", "numpy", "gpu", "cupy", "rmm", "recording"}
Foreign == leaf.name \notin Own

Records == leaf.name = "recording"

\* default_memory_resource of the CPU's runtime: a line of the cache.
DefaultMalloc == Malloc("posix", 64)

\* default_memory_resource of the two GPU platforms: what a configured rmm gives for the
\* device, or else the runtime library.
DefaultCuda(env) ==
  LET api == LoadNativeApi(env, CUDA_PLATFORM) IN
  IF ImportRmmFor(env, "cuda") THEN RmmLike(env.rmm.target = "cuda")
  ELSE GpuRuntime(AsyncFamily(env, api, "auto"), api)
DefaultHip(env) ==
  LET api == LoadNativeApi(env, HIP_PLATFORM) IN
  IF ImportRmmFor(env, "rocm") THEN RmmLike(env.rmm.target = "rocm")
  ELSE GpuRuntime(AsyncFamily(env, api, "auto"), api)

\* The resources that devices get without anybody choosing, in some environments.
DefaultResources(environments) ==
  LET chosen == {DefaultMalloc} \cup
                {DefaultCuda(env) : env \in {e \in environments : Serves(e, "cuda")}} \cup
                {DefaultHip(env) : env \in {e \in environments : Serves(e, "rocm")}}
  IN {[l EXCEPT !.byDefault = TRUE] : l \in chosen}

\* A slip: the room to move the pointer up is forgotten.
RequestExact(l, n) == AtLeast1(n)

\* What the library is asked for; a block of no bytes might have no address of its own.
Request(l, n) == AtLeast1(n) + (IF l.moves THEN l.alignment - 1 ELSE 0)

\* Where in its block an allocation begins.
Placed(l, base) == IF l.moves THEN base + ((-base) % l.alignment) ELSE base

\* The size that the library's free is told.
ToldSize(l, n) == AtLeast1(n)
-------------------------------------------------------------------------------
(***************************************************************************)
(* Calls                                                                   *)
(***************************************************************************)
Idle == [pc |-> "idle"]
Called(op, ptr, n) == [pc |-> "called", op |-> op, ptr |-> ptr, n |-> n]
Returned(ptr) == [pc |-> "returned", ok |-> TRUE, ptr |-> ptr]
Raised(error) == [pc |-> "returned", ok |-> FALSE, error |-> error]
Answer(t, answer) == call' = [call EXCEPT ![t] = answer]
\* What succeeded goes back through the LoggingAdaptor, if there is one.
Done(op, ptr, n, result) ==
  IF leaf.logged THEN [pc |-> "unlogged", op |-> op, ptr |-> ptr, n |-> n, result |-> result]
  ELSE Returned(result)

FreshLeaf(l) ==
  /\ leaf = l
  /\ live = Nothing
  /\ call = [t \in Callers |-> Idle]
  /\ blocks = Nothing
  /\ stranded = {}
  /\ misfreed = FALSE
  /\ recorder = [cursor |-> l.guarantee, freed |-> {}, log |-> <<>>]

Calls(t, op, ptr, n) ==
  /\ call[t].pc = "idle"
  /\ Answer(t, Called(op, ptr, n))
  /\ UNCHANGED <<leaf, live, blocks, stranded, misfreed, recorder>>

Allocate(t, n) == Calls(t, "allocate", 0, n)
Deallocate(t, ptr, n) == Calls(t, "deallocate", ptr, n)

\* The caller takes the answer.
Return(t) ==
  /\ call[t].pc = "returned"
  /\ Answer(t, Idle)
  /\ UNCHANGED <<leaf, live, blocks, stranded, misfreed, recorder>>

In(t, op) == call[t].pc = "called" /\ call[t].op = op
-------------------------------------------------------------------------------
(***************************************************************************)
(* allocate                                                                *)
(***************************************************************************)
RefuseNegative(t) ==
  /\ In(t, "allocate")
  /\ call[t].n < 0
  /\ Answer(t, Raised("ValueError"))
  /\ UNCHANGED <<leaf, live, blocks, stranded, misfreed, recorder>>

\* The library's allocator, outside of the leaf's lock.
Obtain(t, base) ==
  /\ In(t, "allocate")
  /\ ~Records
  /\ leaf.serves
  /\ call[t].n >= 0
  /\ base \notin DOMAIN blocks
  /\ base % leaf.boundary = 0
  /\ blocks' = With(blocks, base, Request(leaf, call[t].n))
  /\ Answer(t, [pc |-> "obtained", n |-> call[t].n, base |-> base])
  /\ UNCHANGED <<leaf, live, stranded, misfreed, recorder>>

\* It has nothing left, or is of no use for this device.
ObtainFails(t) ==
  /\ In(t, "allocate")
  /\ ~Records
  /\ call[t].n >= 0
  /\ Answer(t, Raised(IF leaf.serves THEN "MemoryError" ELSE "unserved"))
  /\ UNCHANGED <<leaf, live, blocks, stranded, misfreed, recorder>>

\* device_activation, the translation of the stream, or the module itself: no block was
\* asked for.
ObtainRaises(t) ==
  /\ In(t, "allocate")
  /\ "allocate" \in leaf.raises
  /\ call[t].n >= 0
  /\ Answer(t, Raised("error"))
  /\ UNCHANGED <<leaf, live, blocks, stranded, misfreed, recorder>>

Record(t) ==
  /\ call[t].pc = "obtained"
  /\ LET ptr == Placed(leaf, call[t].base) IN
     /\ live' = With(live, ptr, [n |-> call[t].n, base |-> call[t].base])
     /\ Answer(t, Done("allocate", ptr, call[t].n, ptr))
  /\ UNCHANGED <<leaf, blocks, stranded, misfreed, recorder>>
-------------------------------------------------------------------------------
(***************************************************************************)
(* deallocate                                                              *)
(***************************************************************************)
\* `_live` does not have this pointer, or has it with another size.
Unknown(ptr) == ptr \notin DOMAIN live
Mismatch(ptr, n) == leaf.checksSizes /\ ~Unknown(ptr) /\ live[ptr].n # n

RefuseFree(t) ==
  /\ In(t, "deallocate")
  /\ ~Records
  /\ Unknown(call[t].ptr) \/ Mismatch(call[t].ptr, call[t].n)
  /\ Answer(t, Raised("ValueError"))
  /\ UNCHANGED <<leaf, live, blocks, stranded, misfreed, recorder>>

Removed(ptr, n) == [pc |-> "removed", ptr |-> ptr, n |-> n, base |-> live[ptr].base]

\* A slip: the entry is looked up under the lock, and left there.
TakeOutKeeping(t) ==
  /\ In(t, "deallocate")
  /\ ~Records
  /\ ~Unknown(call[t].ptr)
  /\ ~Mismatch(call[t].ptr, call[t].n)
  /\ Answer(t, Removed(call[t].ptr, call[t].n))
  /\ UNCHANGED <<leaf, live, blocks, stranded, misfreed, recorder>>

\* Under the lock: from here on a second free of the pointer is refused.
TakeOut(t) ==
  /\ In(t, "deallocate")
  /\ ~Records
  /\ ~Unknown(call[t].ptr)
  /\ ~Mismatch(call[t].ptr, call[t].n)
  /\ live' = Without(live, call[t].ptr)
  /\ Answer(t, Removed(call[t].ptr, call[t].n))
  /\ UNCHANGED <<leaf, blocks, stranded, misfreed, recorder>>

\* The library's free, outside of the lock.
Release(t) ==
  /\ call[t].pc = "removed"
  /\ LET base == call[t].base IN
     /\ misfreed' = \/ misfreed
                    \/ base \notin DOMAIN blocks
                    \/ leaf.tellsSize /\ ToldSize(leaf, call[t].n) # blocks[base]
     /\ blocks' = Without(blocks, base)
  /\ Answer(t, Done("deallocate", call[t].ptr, call[t].n, 0))
  /\ UNCHANGED <<leaf, live, stranded, recorder>>

\* A slip: the line is written whether or not the free raised.
ReleaseRaisesLogged(t) ==
  /\ call[t].pc = "removed"
  /\ "deallocate" \in leaf.raises
  /\ stranded' = stranded \cup {[base |-> call[t].base, n |-> call[t].n]}
  /\ Answer(t, Done("deallocate", call[t].ptr, call[t].n, 0))
  /\ UNCHANGED <<leaf, live, blocks, misfreed, recorder>>

\* The entry is gone, the block is not.
ReleaseRaises(t) ==
  /\ call[t].pc = "removed"
  /\ "deallocate" \in leaf.raises
  /\ stranded' = stranded \cup {[base |-> call[t].base, n |-> call[t].n]}
  /\ Answer(t, Raised("error"))
  /\ UNCHANGED <<leaf, live, blocks, misfreed, recorder>>
-------------------------------------------------------------------------------
(***************************************************************************)
(* The recorder                                                            *)
(***************************************************************************)
Logged(op, ptr, n) == Append(recorder.log, [op |-> op, ptr |-> ptr, n |-> n])

\* Where the cursor stands after an allocation; one of no bytes moves it, too.
Advanced(ptr, n) == ptr + AtLeast1(n)

RecordAllocation(t) ==
  /\ In(t, "allocate")
  /\ Records
  /\ call[t].n >= 0
  /\ Len(recorder.log) < MaxLog
  /\ LET ptr == recorder.cursor + ((-recorder.cursor) % leaf.guarantee) IN
     /\ live' = With(live, ptr, [n |-> call[t].n, base |-> ptr])
     /\ recorder' = [ recorder EXCEPT !.cursor = Advanced(ptr, call[t].n),
                                      !.log = Logged("allocate", ptr, call[t].n) ]
     /\ Answer(t, Returned(ptr))
  /\ UNCHANGED <<leaf, blocks, stranded, misfreed>>

Misuse(ptr, n) ==
  IF ~Unknown(ptr) THEN "size-mismatch"
  ELSE IF ptr \in recorder.freed THEN "double-free" ELSE "foreign-free"

\* A slip: a refused free forgets the allocation all the same.
RecordFreeForgetting(t) ==
  /\ In(t, "deallocate")
  /\ Records
  /\ Len(recorder.log) < MaxLog
  /\ LET ptr == call[t].ptr
         n == call[t].n
         good == ~Unknown(ptr) /\ ~Mismatch(ptr, n)
     IN
     /\ live' = Without(live, ptr)
     /\ recorder' = [ recorder EXCEPT !.log = Logged("deallocate", ptr, n),
                                      !.freed = IF good THEN @ \cup {ptr} ELSE @ ]
     /\ Answer(t, IF good THEN Returned(0) ELSE Raised(Misuse(ptr, n)))
  /\ UNCHANGED <<leaf, blocks, stranded, misfreed>>

\* What is refused is logged, too.
RecordFree(t) ==
  /\ In(t, "deallocate")
  /\ Records
  /\ Len(recorder.log) < MaxLog
  /\ LET ptr == call[t].ptr
         n == call[t].n
         good == ~Unknown(ptr) /\ ~Mismatch(ptr, n)
     IN
     /\ live' = IF good THEN Without(live, ptr) ELSE live
     /\ recorder' = [ recorder EXCEPT !.log = Logged("deallocate", ptr, n),
                                      !.freed = IF good THEN @ \cup {ptr} ELSE @ ]
     /\ Answer(t, IF good THEN Returned(0) ELSE Raised(Misuse(ptr, n)))
  /\ UNCHANGED <<leaf, blocks, stranded, misfreed>>
-------------------------------------------------------------------------------
(***************************************************************************)
(* The LoggingAdaptor                                                      *)
(***************************************************************************)
\* allocate and deallocate after the upstream's, in no order among the callers.  What
\* raised passes it by.
WriteLog(t) ==
  /\ call[t].pc = "unlogged"
  /\ Len(recorder.log) < MaxLog
  /\ recorder' = [recorder EXCEPT !.log = Logged(call[t].op, call[t].ptr, call[t].n)]
  /\ Answer(t, Returned(call[t].result))
  /\ UNCHANGED <<leaf, live, blocks, stranded, misfreed>>
-------------------------------------------------------------------------------
\* One step of a call, whose block may begin at one of the bases.
LeafStep(t, bases) ==
  \/ RefuseNegative(t)
  \/ \E base \in bases : Obtain(t, base)
  \/ ObtainFails(t)
  \/ ObtainRaises(t)
  \/ Record(t)
  \/ RefuseFree(t)
  \/ TakeOut(t)
  \/ Release(t)
  \/ ReleaseRaises(t)
  \/ RecordAllocation(t)
  \/ RecordFree(t)
  \/ WriteLog(t)
-------------------------------------------------------------------------------
(***************************************************************************)
(* Properties                                                              *)
(***************************************************************************)
\* The tables of the leaves against their libraries (_live of mrs/cpu.py, mrs/cuda.py and
\* _gpulib.py): whatever callers pass and however their calls overlap, every block of the
\* library has one owner -- an entry, a call between its lock and its library, or a
\* deallocate that failed -- and no entry outlives its block.  The library gets back what
\* it gave, once, with the size it was asked for.
Owners ==
  {<<"entry", ptr>> : ptr \in DOMAIN live} \cup
  {<<"caller", t>> : t \in {u \in Callers : call[u].pc \in {"obtained", "removed"}}}
BlockOf(owner) ==
  IF owner[1] = "entry" THEN live[owner[2]].base ELSE call[owner[2]].base
BlocksOwned ==
  ~Records /\ ~Foreign =>
    /\ ~misfreed
    /\ {BlockOf(o) : o \in Owners} = DOMAIN blocks \ {s.base : s \in stranded}
    /\ \A o, p \in Owners : o # p => BlockOf(o) # BlockOf(p)

\* What a caller was given lies in the block it was cut from, on the alignment the leaf
\* was asked for and the one it guarantees, and apart from all that others were given:
\* also allocations of no bytes, and also the recorder's invented ones.
Extent(ptr) == ptr..(ptr + AtLeast1(live[ptr].n) - 1)
AllocationsApart ==
  ~Foreign =>
    /\ \A ptr \in DOMAIN live :
         /\ ptr % leaf.alignment = 0 /\ ptr % leaf.guarantee = 0
         /\ ~Records =>
              LET base == live[ptr].base IN
              base <= ptr /\ ptr + AtLeast1(live[ptr].n) <= base + blocks[base]
    /\ \A p, q \in DOMAIN live : p # q => Extent(p) \cap Extent(q) = {}

\* The recorder's log is the record of what was asked for, and enough to tell what is
\* outstanding and what each refusal was about: replaying it, in the order of the log,
\* gives the table and the set of freed pointers, however the calls overlapped; and since
\* no address is used again, the log says of each pointer which allocation it was.
Replay ==
  LET after[i \in 0..Len(recorder.log)] ==
        IF i = 0 THEN [live |-> Nothing, freed |-> {}]
        ELSE LET before == after[i - 1]
                 entry == recorder.log[i]
             IN IF entry.op = "allocate"
                THEN [before EXCEPT !.live = With(@, entry.ptr, entry.n)]
                ELSE IF entry.ptr \in DOMAIN before.live /\ before.live[entry.ptr] = entry.n
                THEN [live |-> Without(before.live, entry.ptr),
                      freed |-> before.freed \cup {entry.ptr}]
                ELSE before
  IN after[Len(recorder.log)]
RecorderTellsAll ==
  /\ Replay.live = [ptr \in DOMAIN live |-> live[ptr].n]
  /\ Replay.freed = recorder.freed
  /\ \A i, j \in DOMAIN recorder.log :
       (i # j /\ recorder.log[i].op = "allocate" /\ recorder.log[j].op = "allocate") =>
          recorder.log[i].ptr # recorder.log[j].ptr

\* LoggingAdaptor: "Log every successful (de)allocation".  Its lines may come in another
\* order than the calls, but counted, with those still to be written, they balance: what
\* was allocated and not freed is in the table, in the hands of a call, or stranded.  A
\* leaf that does not check sizes lets any be logged; then the lines of a pointer balance.
Written(op, ptr, sizes) ==
  {i \in DOMAIN recorder.log : /\ recorder.log[i].op = op
                               /\ recorder.log[i].ptr = ptr /\ recorder.log[i].n \in sizes}
InCalls(pc, ptr, sizes) ==
  {t \in Callers : call[t].pc = pc /\ call[t].ptr = ptr /\ call[t].n \in sizes}
Unwritten(op, ptr, sizes) == {t \in InCalls("unlogged", ptr, sizes) : call[t].op = op}
Lines(op, ptr, sizes) ==
  Cardinality(Written(op, ptr, sizes)) + Cardinality(Unwritten(op, ptr, sizes))
Entries(ptr, sizes) == {p \in DOMAIN live : p = ptr /\ live[p].n \in sizes}
Strands(ptr, sizes) == {s \in stranded : Placed(leaf, s.base) = ptr /\ s.n \in sizes}
Outstanding(ptr, sizes) ==
  Cardinality(Entries(ptr, sizes)) + Cardinality(InCalls("removed", ptr, sizes)) +
  Cardinality(Strands(ptr, sizes))
LinesBalance ==
  LET told == {recorder.log[i] : i \in DOMAIN recorder.log}
      sizes == {live[p].n : p \in DOMAIN live} \cup {line.n : line \in told}
  IN \A ptr \in DOMAIN live \cup {line.ptr : line \in told},
        s \in (IF leaf.checksSizes THEN {{n} : n \in sizes} ELSE {Int}) :
       Lines("allocate", ptr, s) - Lines("deallocate", ptr, s) = Outstanding(ptr, s)

\* The logs of the recorder and of the adaptor tell all that happened, and nothing else.
LogTellsAll ==
  IF Records THEN RecorderTellsAll ELSE leaf.logged => LinesBalance

\* The default chain ("the async variant when the driver supports memory pools", "the
\* `rmm` module iff it [...] verifiably targets" the platform): what a device gets without
\* anybody choosing can serve it, in every environment.
DefaultServes ==
  leaf.byDefault =>
    \A t \in Callers : call[t].pc = "returned" /\ ~call[t].ok => call[t].error # "unserved"
===============================================================================
