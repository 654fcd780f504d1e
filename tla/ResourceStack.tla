---------------------------- MODULE ResourceStack -----------------------------
(***************************************************************************)
(* The allocator chain devmm builds under a buffer: StatisticsAdaptor and  *)
(* LimitingAdaptor (_core/memory_resource.py), in either order, over a     *)
(* leaf resource that tracks its live pointers: MallocMemoryResource       *)
(* (mrs/cpu.py) or, with FreeMayFail, GpuRuntimeMemoryResource             *)
(* (_runtimes/_gpulib.py), whose table logic is the same.                  *)
(*                                                                         *)
(* Any number of calls run at once, one per caller.  A step is what one    *)
(* `with self._lock` block, or one native call, does: those are the only   *)
(* points at which another thread can see the chain.                       *)
(*                                                                         *)
(*   allocate:    Reserve, NativeAlloc, Track, Record                      *)
(*                Refuse | Reserve, NativeFail, Rollback                   *)
(*   deallocate:  Untrack, NativeFree, then Release and Unrecord in the    *)
(*                order of the two adaptors                                *)
(*                Reject | Untrack, NativeFreeFails                        *)
(***************************************************************************)
EXTENDS ByteSums

CONSTANTS
  Callers,         \* the threads that call into the chain, one call at a time
  Addrs,           \* the addresses the native allocator can return
  Sizes,           \* the values of `nbytes` callers pass
  Limit,           \* LimitingAdaptor's limit_bytes
  MaxTotal,        \* bound: no call starts that could push `_total` past it
  LimitOutermost,  \* TRUE: Limiting(Statistics(leaf)); FALSE: Statistics(Limiting(leaf))
  FreeMayFail,     \* the native free can report an error (a GPU runtime's can)
  Careless         \* callers may pass deallocate any pointer they were ever
                   \* given, with any size; otherwise only what they hold

\* LimitingAdaptor.__init__ refuses a negative limit.
ASSUME ConstantsAssumption ==
  /\ IsFiniteSet(Callers)
  /\ Sizes \subseteq Int
  /\ Limit \in Nat
  /\ MaxTotal \in Nat
  /\ LimitOutermost \in BOOLEAN
  /\ FreeMayFail \in BOOLEAN
  /\ Careless \in BOOLEAN

VARIABLES
  pc,        \* where each caller's current call stands
  size,      \* the nbytes of that call
  addr,      \* the pointer of that call, once it has one
  heap,      \* the native allocator: the blocks it has handed out, address to size
  live,      \* the leaf's `_live` table, address to recorded size
  used,      \* LimitingAdaptor._used
  current,   \* StatisticsAdaptor._current
  peak,      \* StatisticsAdaptor._peak
  total,     \* StatisticsAdaptor._total
  handles,   \* history: the <<ptr, nbytes>> returned and not yet given back
  returned   \* history: every pointer ever returned

books == <<used, current, peak, total>>
owners == <<handles, returned>>
vars == <<pc, size, addr, heap, live, books, owners>>

PCs == {"idle", "native", "track", "record", "rollback",
        "free", "release", "unrecord",
        "MemoryError", "ValueError", "RuntimeError"}

NoAddr == "none"

Without(f, p) == [q \in DOMAIN f \ {p} |-> f[q]]
With(f, p, n) == [q \in DOMAIN f \cup {p} |-> IF q = p THEN n ELSE f[q]]

InPc(S) == {t \in Callers : pc[t] \in S}

\* The call of t moves on.
Goto(t, to) ==
  /\ pc' = [pc EXCEPT ![t] = to]
  /\ UNCHANGED <<size, addr>>

\* The call of t ends, normally or with an exception: its locals are gone.
Leave(t, to) ==
  /\ pc' = [pc EXCEPT ![t] = to]
  /\ size' = [size EXCEPT ![t] = 0]
  /\ addr' = [addr EXCEPT ![t] = NoAddr]
-------------------------------------------------------------------------------
Init ==
  /\ pc = [t \in Callers |-> "idle"]
  /\ size = [t \in Callers |-> 0]
  /\ addr = [t \in Callers |-> NoAddr]
  /\ heap = [p \in {} |-> 0]
  /\ live = [p \in {} |-> 0]
  /\ used = 0
  /\ current = 0
  /\ peak = 0
  /\ total = 0
  /\ handles = {}
  /\ returned = {}

(***************************************************************************)
(* Slips a maintainer could make in the actions below.  No specification   *)
(* uses them: each is put in place of the action it is named after, to     *)
(* show that a property notices.                                           *)
(***************************************************************************)
\* The check does not reserve: two allocations can pass it together.
ReserveUncharged(t, n) ==
  /\ pc[t] = "idle"
  /\ total + Bytes(size, InPc({"native", "track", "record"})) + n <= MaxTotal
  /\ used + n <= Limit
  /\ size' = [size EXCEPT ![t] = n]
  /\ pc' = [pc EXCEPT ![t] = "native"]
  /\ UNCHANGED <<addr, heap, live, books, owners>>

\* The check asks whether there is any budget, not whether there is enough.
ReserveOffByOne(t, n) ==
  /\ pc[t] = "idle"
  /\ total + Bytes(size, InPc({"native", "track", "record"})) + n <= MaxTotal
  /\ used < Limit
  /\ used' = used + n
  /\ size' = [size EXCEPT ![t] = n]
  /\ pc' = [pc EXCEPT ![t] = "native"]
  /\ UNCHANGED <<addr, heap, live, current, peak, total, owners>>

\* The error path forgets to give the reservation back.
RollbackForgotten(t) ==
  /\ pc[t] = "rollback"
  /\ Leave(t, IF size[t] < 0 THEN "ValueError" ELSE "MemoryError")
  /\ UNCHANGED <<heap, live, books, owners>>

\* The table holds the size that was requested natively, max(nbytes, 1).
TrackRounded(t) ==
  /\ pc[t] = "track"
  /\ live' = With(live, addr[t], IF size[t] = 0 THEN 1 ELSE size[t])
  /\ Goto(t, "record")
  /\ UNCHANGED <<heap, books, owners>>

\* The high-water mark is taken before the new bytes are added.
RecordLatePeak(t) ==
  /\ pc[t] = "record"
  /\ current' = current + size[t]
  /\ peak' = IF current > peak THEN current ELSE peak
  /\ total' = total + size[t]
  /\ handles' = handles \cup {<<addr[t], size[t]>>}
  /\ returned' = returned \cup {addr[t]}
  /\ Leave(t, "idle")
  /\ UNCHANGED <<heap, live, used>>

\* The entry is looked up, and removed only after the native free.
UntrackKeeps(t, p, n) ==
  /\ pc[t] = "idle"
  /\ IF Careless THEN p \in returned ELSE <<p, n>> \in handles
  /\ p \in DOMAIN live
  /\ live[p] = n
  /\ size' = [size EXCEPT ![t] = n]
  /\ addr' = [addr EXCEPT ![t] = p]
  /\ handles' = handles \ {<<p, n>>}
  /\ pc' = [pc EXCEPT ![t] = "free"]
  /\ UNCHANGED <<heap, live, books, returned>>

\* The statistics count a deallocation nowhere.
UnrecordForgotten(t) ==
  /\ pc[t] = "unrecord"
  /\ IF LimitOutermost THEN Goto(t, "release") ELSE Leave(t, "idle")
  /\ UNCHANGED <<heap, live, books, owners>>
-------------------------------------------------------------------------------
(***************************************************************************)
(* allocate(nbytes)                                                        *)
(***************************************************************************)
\* The first critical section of LimitingAdaptor.allocate, budget available.
Reserve(t, n) ==
  /\ pc[t] = "idle"
  /\ total + Bytes(size, InPc({"native", "track", "record"})) + n <= MaxTotal
  /\ used + n <= Limit
  /\ used' = used + n
  /\ size' = [size EXCEPT ![t] = n]
  /\ pc' = [pc EXCEPT ![t] = "native"]
  /\ UNCHANGED <<addr, heap, live, current, peak, total, owners>>

\* The same critical section, budget exhausted: it raises.
Refuse(t, n) ==
  /\ pc[t] = "idle"
  /\ used + n > Limit
  /\ Leave(t, "MemoryError")
  /\ UNCHANGED <<heap, live, books, owners>>

\* The leaf's native allocation succeeds, at any address that is not taken.
NativeAlloc(t, p) ==
  /\ pc[t] = "native"
  /\ size[t] >= 0
  /\ p \notin DOMAIN heap
  /\ heap' = With(heap, p, size[t])
  /\ addr' = [addr EXCEPT ![t] = p]
  /\ pc' = [pc EXCEPT ![t] = "track"]
  /\ UNCHANGED <<size, live, books, owners>>

\* The leaf rejects a negative size, or the native allocator has no memory.
NativeFail(t) ==
  /\ pc[t] = "native"
  /\ Goto(t, "rollback")
  /\ UNCHANGED <<heap, live, books, owners>>

\* The `except BaseException` clause of LimitingAdaptor.allocate.
Rollback(t) ==
  /\ pc[t] = "rollback"
  /\ used' = used - size[t]
  /\ Leave(t, IF size[t] < 0 THEN "ValueError" ELSE "MemoryError")
  /\ UNCHANGED <<heap, live, current, peak, total, owners>>

\* The leaf enters the new pointer in its table.
Track(t) ==
  /\ pc[t] = "track"
  /\ live' = With(live, addr[t], size[t])
  /\ Goto(t, "record")
  /\ UNCHANGED <<heap, books, owners>>

\* StatisticsAdaptor.allocate counts the success, and the pointer is returned.
Record(t) ==
  /\ pc[t] = "record"
  /\ current' = current + size[t]
  /\ peak' = IF current' > peak THEN current' ELSE peak
  /\ total' = total + size[t]
  /\ handles' = handles \cup {<<addr[t], size[t]>>}
  /\ returned' = returned \cup {addr[t]}
  /\ Leave(t, "idle")
  /\ UNCHANGED <<heap, live, used>>
-------------------------------------------------------------------------------
(***************************************************************************)
(* deallocate(ptr, nbytes)                                                 *)
(***************************************************************************)
\* The arguments a caller can come up with.
MayFree(p, n) == IF Careless THEN p \in returned ELSE <<p, n>> \in handles

\* The leaf's critical section: pointer and size are as recorded.
Untrack(t, p, n) ==
  /\ pc[t] = "idle"
  /\ MayFree(p, n)
  /\ p \in DOMAIN live
  /\ live[p] = n
  /\ live' = Without(live, p)
  /\ size' = [size EXCEPT ![t] = n]
  /\ addr' = [addr EXCEPT ![t] = p]
  /\ handles' = handles \ {<<p, n>>}
  /\ pc' = [pc EXCEPT ![t] = "free"]
  /\ UNCHANGED <<heap, books, returned>>

\* The same critical section: unknown pointer or wrong size.  It raises before
\* anything changes, and no adaptor counts the call.
Reject(t, p, n) ==
  /\ pc[t] = "idle"
  /\ MayFree(p, n)
  /\ p \in DOMAIN live => live[p] # n
  /\ handles' = handles \ {<<p, n>>}
  /\ Leave(t, "ValueError")
  /\ UNCHANGED <<heap, live, books, returned>>

\* The native free, after the table's lock was let go.
NativeFree(t) ==
  /\ pc[t] = "free"
  /\ heap' = Without(heap, addr[t])
  /\ Goto(t, IF LimitOutermost THEN "unrecord" ELSE "release")
  /\ UNCHANGED <<live, books, owners>>

\* The native free reports an error: check_status raises, through the adaptors.
NativeFreeFails(t) ==
  /\ FreeMayFail
  /\ pc[t] = "free"
  /\ Leave(t, "RuntimeError")
  /\ UNCHANGED <<heap, live, books, owners>>

\* The tail of LimitingAdaptor.deallocate.
Release(t) ==
  /\ pc[t] = "release"
  /\ used' = used - size[t]
  /\ IF LimitOutermost THEN Leave(t, "idle") ELSE Goto(t, "unrecord")
  /\ UNCHANGED <<heap, live, current, peak, total, owners>>

\* The tail of StatisticsAdaptor.deallocate.
Unrecord(t) ==
  /\ pc[t] = "unrecord"
  /\ current' = current - size[t]
  /\ IF LimitOutermost THEN Goto(t, "release") ELSE Leave(t, "idle")
  /\ UNCHANGED <<heap, live, used, peak, total, owners>>

\* The caller gets the exception.
Raise(t) ==
  /\ pc[t] \in {"MemoryError", "ValueError", "RuntimeError"}
  /\ Leave(t, "idle")
  /\ UNCHANGED <<heap, live, books, owners>>
-------------------------------------------------------------------------------
Next ==
  \E t \in Callers :
    \/ \E n \in Sizes : Reserve(t, n) \/ Refuse(t, n)
    \/ \E p \in Addrs : NativeAlloc(t, p)
    \/ NativeFail(t)
    \/ Rollback(t)
    \/ Track(t)
    \/ Record(t)
    \/ \E p \in Addrs, n \in Sizes : Untrack(t, p, n) \/ Reject(t, p, n)
    \/ NativeFree(t)
    \/ NativeFreeFails(t)
    \/ Release(t)
    \/ Unrecord(t)
    \/ Raise(t)

Spec == Init /\ [][Next]_vars
-------------------------------------------------------------------------------
(***************************************************************************)
(* Properties                                                              *)
(***************************************************************************)
\* Calls whose bytes `_used` counts although no block is out for them: reserved
\* and not yet obtained, and freed but not yet released.
ReservingPCs == {"native", "rollback"}
ReleasingPCs == IF LimitOutermost THEN {"unrecord", "release"} ELSE {"release"}
Reserving == InPc(ReservingPCs)
Releasing == InPc(ReleasingPCs)

\* Calls whose block is out but not yet counted by the statistics, and calls
\* whose block is gone but still counted.
UnrecordedPCs == {"track", "record"}
LingeringPCs == IF LimitOutermost THEN {"unrecord"} ELSE {"release", "unrecord"}
Unrecorded == InPc(UnrecordedPCs)
Lingering == InPc(LingeringPCs)

\* The bytes the native allocator has out, leaked blocks included.
BytesOf(blocks) == Bytes(blocks, DOMAIN blocks)
HeapBytes == BytesOf(heap)

\* Where a call knows its size, and where it has its pointer.
WithPointer == {"track", "record", "free", "release", "unrecord"}
InCall == WithPointer \cup {"native", "rollback"}

\* Types.  `used` and `current` are unbounded ints in the code.
TypeOK ==
  /\ pc \in [Callers -> PCs]
  /\ size \in [Callers -> Sizes \cup {0}]
  /\ addr \in [Callers -> Addrs \cup {NoAddr}]
  /\ \A t \in Callers : pc[t] \in InCall => size[t] \in Sizes
  /\ \A t \in Callers : pc[t] \in WithPointer => addr[t] \in Addrs
  /\ DOMAIN heap \subseteq Addrs /\ heap \in [DOMAIN heap -> Sizes]
  /\ DOMAIN live \subseteq Addrs /\ live \in [DOMAIN live -> Sizes]
  /\ used \in Int /\ current \in Int /\ peak \in Int /\ total \in Int
  /\ handles \subseteq Addrs \X Sizes
  /\ returned \subseteq Addrs

\* The docstring of LimitingAdaptor: the bytes concurrently allocated stay
\* within the limit.  Stated of the memory that is really out, at every
\* moment: while calls are half way, after failed frees, under double frees.
LimitRespected == HeapBytes <= Limit

\* Both counters equal the bytes that are out, up to the calls that are half
\* way: no path through an error, a rollback or a refused free loses or
\* counts twice a byte.  When every caller is idle they are equal exactly
\* (StatisticsAdaptor: "current_bytes equals the sum of live allocation sizes").
BooksBalance ==
  /\ used = HeapBytes + Bytes(size, Reserving) + Bytes(size, Releasing)
  /\ current + Bytes(size, Unrecorded) = HeapBytes + Bytes(size, Lingering)

\* Every entry of the `_live` table is a block that is out, with its size; a
\* block on its way into or out of the table is out, is in nobody else's
\* hands and is not in the table.  So the native free is only ever given a
\* block that is out, and never the same one twice, whatever callers pass.
TableSound ==
  /\ \A p \in DOMAIN live : p \in DOMAIN heap /\ live[p] = heap[p]
  /\ \A t \in InPc({"track", "free"}) :
       /\ addr[t] \in DOMAIN heap \ DOMAIN live
       /\ heap[addr[t]] = size[t]
       /\ \A u \in InPc({"track", "free"}) : u # t => addr[u] # addr[t]

\* Callers that give back exactly what they were given, once: everything they
\* hold is in the table with its size, and no call of theirs is rejected,
\* whatever the other callers do meanwhile and however addresses are reused.
HandlesValid ==
  /\ \A h \in handles : h[1] \in DOMAIN live /\ live[h[1]] = h[2]
  /\ \A t \in Callers : pc[t] # "ValueError"

\* The statistics as a reader at any moment sees them (three properties, each
\* read under the lock): never negative, and ordered as their names say.
CountersOrdered == 0 <= current /\ current <= peak /\ peak <= total

\* With the limit outermost the high-water mark can never exceed it: a freed
\* block is taken off `current_bytes` before its budget can be granted again.
PeakWithinLimit == peak <= Limit

\* The chain implements the abstract bounded heap.
Heap == INSTANCE BoundedHeap WITH blocks <- heap
ImplementsBoundedHeap == Heap!Spec
===============================================================================
