---------------------------- MODULE NumpyHandler ----------------------------
(***************************************************************************)
(* The NEP-49 handler of integrations/numpy.py: NumPy takes the memory of  *)
(* its arrays from the hook in force in the context, and gives it back     *)
(* through the hook it came from, long after that was uninstalled.         *)
(*                                                                         *)
(*   LoadApi                     load_api of _nep49.py                     *)
(*   CaptureHandler              NumpyHandlerMemoryResource of mrs/cpu.py, *)
(*                               which calls the handler as NumPy would    *)
(*   Malloc, Record              _malloc_impl, _calloc_impl                *)
(*   Realloc, Grow, Record,      _realloc_impl                             *)
(*   Move, Release                                                         *)
(*   Free, Release               _free_impl                                *)
(*   CapsuleDies                 _destroy_handler_capsule                  *)
(*                                                                         *)
(* A hook stands for its _HandlerState, the struct and the capsule around  *)
(* it.  The resources of all hooks share one heap.  The zeroes of calloc   *)
(* and the bytes that realloc moves are left out, and NumPy's own hook is  *)
(* not devmm's concern.  An array stands also for the buffer that a        *)
(* NumpyHandlerMemoryResource gave out.                                    *)
(***************************************************************************)
EXTENDS Installers, FiniteSets

CONSTANTS
  Ptrs,        \* the addresses that blocks may have
  Sizes,       \* bound: the sizes of arrays
  FreeMayFail  \* deallocate of a resource may raise

ASSUME HandlerAssumption ==
  /\ Sizes \subseteq Nat
  /\ FreeMayFail \in BOOLEAN

VARIABLES
  numpy,    \* the NumPy that can be imported
  captured, \* the hooks whose capsule a NumpyHandlerMemoryResource holds
  live,     \* the hooks in _LIVE
  sizes,    \* the `sizes` of each hook's state
  heap,     \* the blocks that resources gave out: their size, and the hook that asked
  arrays,   \* NumPy's arrays: their pointer, size and handler
  lost,     \* the blocks whose deallocation raised
  refused   \* history: a resource was given back what it had not given out

memory == <<numpy, captured, live, sizes, heap, arrays, lost, refused>>

NoBlocks == [p \in {} |-> 0]

(***************************************************************************)
(* NumPy: its version, and where it keeps the extension that exports the   *)
(* function table                                                          *)
(***************************************************************************)
Absent == [version |-> <<>>, umath |-> None]
OneNumPy(version, umath) == [version |-> version, umath |-> umath]

SUPPORTED_NUMPY_RANGE == [low |-> <<1, 22>>, high |-> <<3, 0>>]
Before(v, w) == v[1] < w[1] \/ (v[1] = w[1] /\ v[2] < w[2])

\* require_supported_numpy; a version that cannot be parsed has no numbers.
RequireSupported(module) ==
  /\ Len(module.version) = 2
  /\ ~Before(module.version, SUPPORTED_NUMPY_RANGE.low)
  /\ Before(module.version, SUPPORTED_NUMPY_RANGE.high)

\* _multiarray_umath: by its name in NumPy 2 or by that in NumPy 1.
MultiarrayUmath(module) == module.umath \in {"numpy._core", "numpy.core"}

\* load_api raises nothing.
LoadApi == numpy # Absent /\ RequireSupported(numpy) /\ MultiarrayUmath(numpy)

InitHandlers(numpys) ==
  /\ numpy \in numpys
  /\ captured = {}
  /\ live = {}
  /\ sizes = [h \in Hooks |-> NoBlocks]
  /\ heap = NoBlocks
  /\ arrays = {}
  /\ lost = {}
  /\ refused = FALSE

Array(ptr, n, h) == [ptr |-> ptr, n |-> n, h |-> h]
\* A call of a hook: for n bytes at ptr, and in realloc the array and `old_size`.
Job(h, n, ptr) == [hook |-> h, n |-> n, ptr |-> ptr, array |-> {}, was |-> 0]
ReallocJob(a, n) ==
  [hook |-> a.h, n |-> n, ptr |-> a.ptr, array |-> {a}, was |-> sizes[a.h][a.ptr]]

OldPtr(j) == (CHOOSE a \in j.array : TRUE).ptr
\* Then the old block is what is left to release.
Moved(j) ==
  [j EXCEPT !.n = j.was, !.ptr = OldPtr(j), !.array = {Array(j.ptr, j.n, j.hook)}]

\* A resource gives out a block.
GiveOut(h, n, ptr) ==
  /\ ptr \notin DOMAIN heap
  /\ heap' = With(heap, ptr, [n |-> n, hook |-> h])

\* A call of a hook, and one that has a block of the resource's in hand.
InCallback(c) == pc[c] \in {"grow", "record", "move", "release"}
HasBlock(c) == pc[c] \in {"record", "move", "release"}
-------------------------------------------------------------------------------
(***************************************************************************)
(* Slips a maintainer could make in the actions below.                     *)
(***************************************************************************)
\* The recorded size is trusted less than the one that NumPy recomputed.
FreeBySize(c, a) ==
  /\ pc[c] = "idle"
  /\ a \in arrays
  /\ arrays' = arrays \ {a}
  /\ sizes' = [sizes EXCEPT ![a.h] = Without(@, a.ptr)]
  /\ \E n \in Sizes : Goto(c, "release", Job(a.h, n, a.ptr))
  /\ UNCHANGED <<hooks, history, numpy, captured, live, heap, lost, refused>>

\* A block that realloc got is recorded with the old size.
RecordOldSize(c) ==
  LET j == job[c] IN
  /\ pc[c] = "record"
  /\ sizes' = [sizes EXCEPT ![j.hook] = With(@, j.ptr, IF j.array = {} THEN j.n ELSE j.was)]
  /\ IF j.array = {}
     THEN arrays' = arrays \cup {Array(j.ptr, j.n, j.hook)} /\ Return(c)
     ELSE Goto(c, "move", j) /\ UNCHANGED arrays
  /\ UNCHANGED <<hooks, history, numpy, captured, live, heap, lost, refused>>

\* The old block is left to the resource's own care.
MoveKeeping(c) ==
  /\ pc[c] = "move"
  /\ sizes' = [sizes EXCEPT ![job[c].hook] = Without(@, OldPtr(job[c]))]
  /\ arrays' = arrays \cup Moved(job[c]).array
  /\ Return(c)
  /\ UNCHANGED <<hooks, history, numpy, captured, live, heap, lost, refused>>

\* The state goes when the hook is uninstalled, not when its capsule dies.
RestoreAndRetire(c) ==
  /\ Restore(c)
  /\ live' = live \ {job[c].hook}
  /\ UNCHANGED <<numpy, captured, sizes, heap, arrays, lost, refused>>
-------------------------------------------------------------------------------
(***************************************************************************)
(* Installation                                                            *)
(***************************************************************************)
\* load_api, the state, its capsule and the exchange, for a resource that install does not
\* refuse before: on the CPU, and with no NumpyHandlerMemoryResource in its chain.  Every
\* hook here is over the heap, which is such a one.
InstallNumPy(c, h) ==
  /\ LoadApi
  /\ Exchange(c, h)
  /\ live' = live \cup {h}
  /\ UNCHANGED <<numpy, captured, sizes, heap, arrays, lost, refused>>

\* The Installer's restore is set_handler of what was replaced, and no more.
EndUninstall(c) == Restore(c) /\ UNCHANGED memory

\* NumpyHandlerMemoryResource.__init__: the capsule that is in force is held from here on.
CaptureHandler(c) ==
  /\ LoadApi
  /\ pc[c] = "idle"
  /\ captured' = captured \cup ({inForce[Slot(NumPy, c)]} \cap Hooks)
  /\ UNCHANGED <<hooks, history, pc, job, numpy, live, sizes, heap, arrays, lost, refused>>

\* The program lets go of the resource.
DropCaptured(h) ==
  /\ h \in captured
  /\ captured' = captured \ {h}
  /\ UNCHANGED <<hooks, history, pc, job, numpy, live, sizes, heap, arrays, lost, refused>>

\* What holds the capsule of h: a context, a restore that can still run, a resource, an
\* array, or the resource of the buffer it stands for, and a call.
Referenced(h) ==
  \/ \E s \in Slots : inForce[s] = h
  \/ \E g \in held : previous[g] = h
  \/ h \in captured
  \/ \E c \in Contexts :
       \/ pc[c] \in {"replace", "restore"} /\ previous[job[c].hook] = h
       \/ InCallback(c) /\ job[c].hook = h
  \/ \E a \in arrays : a.h = h

\* _destroy_handler_capsule: the state is forgotten, with its table.
CapsuleDies(h) ==
  /\ h \in live
  /\ ~Referenced(h)
  /\ live' = live \ {h}
  /\ sizes' = [sizes EXCEPT ![h] = NoBlocks]
  /\ UNCHANGED <<hooks, history, pc, job, numpy, captured, heap, arrays, lost, refused>>
-------------------------------------------------------------------------------
(***************************************************************************)
(* The four callbacks                                                      *)
(***************************************************************************)
\* _malloc_impl and _calloc_impl, up to the resource's answer.  If it raises, NumPy is
\* given NULL and nothing changes.  NumPy calls the hook in force in its context, a
\* resource the one that it captured, in any.
Malloc(c, h, n, ptr) ==
  /\ pc[c] = "idle"
  /\ h \in {inForce[Slot(NumPy, c)]} \cup captured
  /\ h \in live
  /\ GiveOut(h, n, ptr)
  /\ Goto(c, "record", Job(h, n, ptr))
  /\ UNCHANGED <<hooks, history, numpy, captured, live, sizes, arrays, lost, refused>>

\* The tail of _allocate, under the state's lock.
Record(c) ==
  LET j == job[c] IN
  /\ pc[c] = "record"
  /\ sizes' = [sizes EXCEPT ![j.hook] = With(@, j.ptr, j.n)]
  /\ IF j.array = {}
     THEN arrays' = arrays \cup {Array(j.ptr, j.n, j.hook)} /\ Return(c)
     ELSE Goto(c, "move", j) /\ UNCHANGED arrays
  /\ UNCHANGED <<hooks, history, numpy, captured, live, heap, lost, refused>>

\* _realloc_impl up to the lookup; while it runs the array is nobody else's.
Realloc(c, a, n) ==
  /\ pc[c] = "idle"
  /\ a \in arrays
  /\ a.h \in live /\ a.ptr \in DOMAIN sizes[a.h]
  /\ arrays' = arrays \ {a}
  /\ Goto(c, "grow", ReallocJob(a, n))
  /\ UNCHANGED <<hooks, history, numpy, captured, live, sizes, heap, lost, refused>>

Grow(c, ptr) ==
  LET j == job[c] IN
  /\ pc[c] = "grow"
  /\ GiveOut(j.hook, j.n, ptr)
  /\ Goto(c, "record", [j EXCEPT !.ptr = ptr])
  /\ UNCHANGED <<hooks, history, numpy, captured, live, sizes, arrays, lost, refused>>

\* NULL: the old block stays the array's.
GrowFails(c) ==
  /\ pc[c] = "grow"
  /\ arrays' = arrays \cup job[c].array
  /\ Return(c)
  /\ UNCHANGED <<hooks, history, numpy, captured, live, sizes, heap, lost, refused>>

\* The bytes are moved and the old entry goes; the array has the new block.
Move(c) ==
  /\ pc[c] = "move"
  /\ sizes' = [sizes EXCEPT ![job[c].hook] = Without(@, OldPtr(job[c]))]
  /\ Goto(c, "release", Moved(job[c]))
  /\ UNCHANGED <<hooks, history, numpy, captured, live, heap, arrays, lost, refused>>

\* _free_impl: the table's size is what the resource is given.
Free(c, a) ==
  /\ pc[c] = "idle"
  /\ a \in arrays
  /\ arrays' = arrays \ {a}
  /\ IF a.h \in live /\ a.ptr \in DOMAIN sizes[a.h]
     THEN /\ sizes' = [sizes EXCEPT ![a.h] = Without(@, a.ptr)]
          /\ Goto(c, "release", Job(a.h, sizes[a.h][a.ptr], a.ptr))
     ELSE UNCHANGED <<sizes, pc, job>>
  /\ UNCHANGED <<hooks, history, numpy, captured, live, heap, lost, refused>>

\* _release.  An error of the resource is logged and swallowed.
Release(c) ==
  LET j == job[c] IN
  /\ pc[c] = "release"
  /\ IF j.ptr \in DOMAIN heap /\ heap[j.ptr].n = j.n
     THEN \/ heap' = Without(heap, j.ptr) /\ UNCHANGED <<lost, refused>>
          \/ FreeMayFail /\ lost' = lost \cup {j.ptr} /\ UNCHANGED <<heap, refused>>
     ELSE refused' = TRUE /\ UNCHANGED <<heap, lost>>
  /\ arrays' = arrays \cup j.array
  /\ Return(c)
  /\ UNCHANGED <<hooks, history, numpy, captured, live, sizes>>
-------------------------------------------------------------------------------
\* A step of a callback in context c.
HandlerStep(c) ==
  \/ \E h \in Hooks, n \in Sizes, ptr \in Ptrs : Malloc(c, h, n, ptr)
  \/ \E a \in arrays : Free(c, a) \/ \E n \in Sizes : Realloc(c, a, n)
  \/ \E ptr \in Ptrs : Grow(c, ptr)
  \/ GrowFails(c) \/ Record(c) \/ Move(c) \/ Release(c)
-------------------------------------------------------------------------------
(***************************************************************************)
(* Properties                                                              *)
(***************************************************************************)
\* "The state behind a capsule [...] is retired by the capsule's destructor, not by
\* `uninstall()`": whatever can still call a handler, or put it in force again, finds
\* its state in _LIVE, in any order of installs, uninstalls and arrays.
HandlersOutlive == \A h \in Hooks : library[h] = NumPy /\ Referenced(h) => h \in live

\* Every array has its block, of its size, from the handler it remembers, which knows
\* it by that size; no two arrays have one block.
ArraysBacked ==
  /\ \A a \in arrays :
       /\ a.ptr \in DOMAIN heap \ lost
       /\ heap[a.ptr] = [n |-> a.n, hook |-> a.h]
       /\ a.ptr \in DOMAIN sizes[a.h] /\ sizes[a.h][a.ptr] = a.n
  /\ \A a, b \in arrays : a.ptr = b.ptr => a = b

\* No block is forgotten: it is in the table of a handler that lives, or a call has it
\* in hand, or its resource refused to take it back and said so.
NothingStranded ==
  \A p \in DOMAIN heap \ lost :
    \/ \E h \in live : heap[p].hook = h /\ p \in DOMAIN sizes[h]
    \/ \E c \in Contexts : HasBlock(c) /\ job[c].ptr = p
===============================================================================
