----------------------------- MODULE BufferExport -----------------------------
(***************************************************************************)
(* The life of one allocation: the DeviceBuffer that owns it               *)
(* (_core/buffer.py), the weakref.finalize that gives it back exactly      *)
(* once, and the DLPack exports that pin it (_dlpack/export.py).           *)
(*                                                                         *)
(* Actors: the threads that use the tensor, the collector that runs the    *)
(* finalizer of an unreachable buffer, the exit handler of weakref, and,   *)
(* for each export, the party that calls its deleter from any thread.      *)
(* A step ends wherever another thread can run: at a call that releases    *)
(* the GIL, at a call into the memory resource, between the statements of  *)
(* the deleter.                                                            *)
(*                                                                         *)
(*   free():        Free, Deallocate                                       *)
(*   collection:    Collect, Deallocate     exit: AtExit, Deallocate       *)
(*   to_capsule():  CheckOpen, Handoff | HandoffFails, Build | BuildFails  *)
(*   the capsule:   Consume, DropCapsule; the consumer: Release            *)
(*   the deleter:   ReadCtx, ClearCtx, DropHolder                          *)
(***************************************************************************)
EXTENDS Integers, FiniteSets

CONSTANTS
  Threads,       \* the Python threads that hold the tensor
  Exports,       \* the exports that can be made of it, each with its own struct
  ExplicitFree,  \* the program calls free(), or leaves a `with` block
  Exits,         \* the interpreter may exit
  SecondDeleter  \* a consumer may break the protocol and call a deleter again

ASSUME FlagsAssumption ==
  /\ ExplicitFree \in BOOLEAN
  /\ Exits \in BOOLEAN
  /\ SecondDeleter \in BOOLEAN

GC == "gc"
Exit == "exit"
Actors == Threads \cup {GC, Exit}

\* A null manager_ctx.
NoHolder == "null"

ASSUME NamesAssumption ==
  /\ GC \notin Threads
  /\ Exit \notin Threads
  /\ NoHolder \notin Exports
  /\ Threads \cap Exports = {}

VARIABLES
  pc,           \* what each actor is doing with the buffer
  building,     \* the export each thread is making
  userRef,      \* the program still refers to the tensor or its buffer
  finalizer,    \* "armed" while weakref.finalize has its registry entry
  cause,        \* history: on whose behalf the entry was taken out
  deallocs,     \* how often mr.deallocate has been called for the pointer
  capsule,      \* per export, the capsule and the name it bears
  consumer,     \* per export, the consumer that took the struct over
  refs,         \* per export, the reference count of its _Holder
  ctx,          \* per export, manager_ctx: the export whose holder it points to
  call,         \* per export, where each call of its deleter stands
  seen,         \* per export and call, the `ctx` local of the deleter
  interpreter   \* "running", "exiting", "finalized"

buffer == <<userRef, finalizer, cause, deallocs>>
structs == <<capsule, consumer, refs, ctx>>
deleter == <<call, seen>>
vars == <<pc, building, buffer, structs, deleter, interpreter>>

\* The one call the protocol allows, and the one it does not.
Calls == {"rightful", "stray"}

Running == interpreter = "running"
Goto(a, to) == pc' = [pc EXCEPT ![a] = to]

\* Strong references to the buffer: the program's, those of the frames of its
\* methods, and those of the exports' holders.
InMethod == {t \in Threads : pc[t] # "idle"}
Pinned == {k \in Exports : refs[k] > 0}
Reachable == userRef \/ InMethod # {} \/ Pinned # {}

\* The struct of k is still the capsule's or a consumer's to release.
Outstanding(k) == capsule[k] = "dltensor" \/ consumer[k] = "owns"
-------------------------------------------------------------------------------
Init ==
  /\ pc = [a \in Actors |-> "idle"]
  /\ building = [t \in Threads |-> NoHolder]
  /\ userRef = TRUE
  /\ finalizer = "armed"
  /\ cause = "nobody"
  /\ deallocs = 0
  /\ capsule = [k \in Exports |-> "none"]
  /\ consumer = [k \in Exports |-> "none"]
  /\ refs = [k \in Exports |-> 0]
  /\ ctx = [k \in Exports |-> NoHolder]
  /\ call = [k \in Exports |-> [c \in Calls |-> "none"]]
  /\ seen = [k \in Exports |-> [c \in Calls |-> NoHolder]]
  /\ interpreter = "running"

(***************************************************************************)
(* Slips a maintainer could make in the actions below.  No specification   *)
(* uses them: each is put in place of the action it is named after, to     *)
(* show that a property notices.                                           *)
(***************************************************************************)
\* free(stream) asks `closed` and calls the resource, but detaches nothing.
FreeAttached(t) ==
  /\ Running /\ ExplicitFree
  /\ pc[t] = "idle"
  /\ userRef
  /\ finalizer = "armed"
  /\ cause' = "user"
  /\ Goto(t, "deallocate")
  /\ UNCHANGED <<building, userRef, finalizer, deallocs, structs, deleter, interpreter>>

\* The extra reference to the holder is forgotten.
BuildUnpinned(t) ==
  LET k == building[t] IN
  /\ pc[t] = "build"
  /\ ctx' = [ctx EXCEPT ![k] = k]
  /\ capsule' = [capsule EXCEPT ![k] = "dltensor"]
  /\ building' = [building EXCEPT ![t] = NoHolder]
  /\ Goto(t, "idle")
  /\ UNCHANGED <<buffer, consumer, refs, deleter, interpreter>>

\* The capsule's destructor does not look at the name.
DropCapsuleAlways(k) ==
  /\ interpreter # "finalized"
  /\ capsule[k] \in {"dltensor", "used_dltensor"}
  /\ capsule' = [capsule EXCEPT ![k] = "gone"]
  /\ call' = [call EXCEPT ![k]["rightful"] = "enter"]
  /\ UNCHANGED <<pc, building, buffer, consumer, refs, ctx, seen, interpreter>>
-------------------------------------------------------------------------------
(***************************************************************************)
(* Releasing the allocation                                                *)
(***************************************************************************)
\* DeviceBuffer.free(), free(stream) and __exit__: the registry entry is popped
\* (finalize.__call__ or finalize.detach), and only its taker goes on.
Free(t) ==
  /\ Running /\ ExplicitFree
  /\ pc[t] = "idle"
  /\ userRef
  /\ finalizer = "armed"
  /\ finalizer' = "spent"
  /\ cause' = "user"
  /\ Goto(t, "deallocate")
  /\ UNCHANGED <<building, userRef, deallocs, structs, deleter, interpreter>>

\* The program drops its last reference.
DropRef ==
  /\ Running
  /\ userRef
  /\ userRef' = FALSE
  /\ UNCHANGED <<pc, building, finalizer, cause, deallocs, structs, deleter, interpreter>>

\* The buffer is unreachable: its weak reference dies and calls the finalizer,
\* which was given the pointer and not the buffer.
Collect ==
  /\ interpreter # "finalized"
  /\ ~Reachable
  /\ finalizer = "armed"
  /\ finalizer' = "spent"
  /\ cause' = "gc"
  /\ Goto(GC, "deallocate")
  /\ UNCHANGED <<building, userRef, deallocs, structs, deleter, interpreter>>

\* Whoever took the entry calls mr.deallocate(ptr, nbytes, stream).
Deallocate(a) ==
  /\ interpreter # "finalized"
  /\ pc[a] = "deallocate"
  /\ deallocs' = deallocs + 1
  /\ Goto(a, "idle")
  /\ UNCHANGED <<building, userRef, finalizer, cause, structs, deleter, interpreter>>

\* The interpreter exits: no thread but those of the consumers is left.
BeginExit ==
  /\ Running /\ Exits
  /\ \A a \in Actors : pc[a] = "idle"
  /\ interpreter' = "exiting"
  /\ UNCHANGED <<pc, building, buffer, structs, deleter>>

\* finalize._exitfunc calls every finalizer that is still alive.
AtExit ==
  /\ interpreter = "exiting"
  /\ finalizer = "armed"
  /\ finalizer' = "spent"
  /\ cause' = "exit"
  /\ Goto(Exit, "deallocate")
  /\ UNCHANGED <<building, userRef, deallocs, structs, deleter, interpreter>>

\* Py_IsInitialized becomes false; no Python code runs from here on, not even in
\* the thread of a consumer that was collecting the buffer.
Finalize ==
  /\ interpreter = "exiting"
  /\ finalizer = "spent"
  /\ pc[Exit] = "idle"
  /\ interpreter' = "finalized"
  /\ UNCHANGED <<pc, building, buffer, structs, deleter>>
-------------------------------------------------------------------------------
(***************************************************************************)
(* Using the buffer: to_capsule, and the byte helpers                      *)
(***************************************************************************)
\* to_capsule finds the buffer open and its arguments acceptable.
CheckOpen(t, k) ==
  /\ Running
  /\ pc[t] = "idle"
  /\ userRef
  /\ finalizer = "armed"
  /\ capsule[k] = "none"
  /\ \A u \in Threads : building[u] # k
  /\ building' = [building EXCEPT ![t] = k]
  /\ Goto(t, "handoff")
  /\ UNCHANGED <<buffer, structs, deleter, interpreter>>

\* The consumer's stream is ordered after the producer's, or none was given.
Handoff(t) ==
  /\ pc[t] = "handoff"
  /\ Goto(t, "build")
  /\ UNCHANGED <<building, buffer, structs, deleter, interpreter>>

\* The ordering fails: StreamError leaves to_capsule before anything is built.
HandoffFails(t) ==
  /\ pc[t] = "handoff"
  /\ building' = [building EXCEPT ![t] = NoHolder]
  /\ Goto(t, "idle")
  /\ UNCHANGED <<buffer, structs, deleter, interpreter>>

\* The block, its holder, the extra reference and the capsule.  Nothing else can
\* reach them before the capsule is returned.
Build(t) ==
  LET k == building[t] IN
  /\ pc[t] = "build"
  /\ ctx' = [ctx EXCEPT ![k] = k]
  /\ refs' = [refs EXCEPT ![k] = 1]
  /\ capsule' = [capsule EXCEPT ![k] = "dltensor"]
  /\ building' = [building EXCEPT ![t] = NoHolder]
  /\ Goto(t, "idle")
  /\ UNCHANGED <<buffer, consumer, deleter, interpreter>>

\* PyCapsule_New fails: the extra reference is given back, the holder dies.
BuildFails(t) ==
  /\ pc[t] = "build"
  /\ building' = [building EXCEPT ![t] = NoHolder]
  /\ Goto(t, "idle")
  /\ UNCHANGED <<buffer, structs, deleter, interpreter>>

\* copy_from_host and copy_to_host: the same check, then a memcpy.
BeginCopy(t) ==
  /\ Running
  /\ pc[t] = "idle"
  /\ userRef
  /\ finalizer = "armed"
  /\ Goto(t, "copy")
  /\ UNCHANGED <<building, buffer, structs, deleter, interpreter>>

EndCopy(t) ==
  /\ pc[t] = "copy"
  /\ Goto(t, "idle")
  /\ UNCHANGED <<building, buffer, structs, deleter, interpreter>>
-------------------------------------------------------------------------------
(***************************************************************************)
(* The capsule, its consumer and the deleter                               *)
(***************************************************************************)
\* A consumer takes the struct over and renames the capsule.
Consume(k) ==
  /\ interpreter # "finalized"
  /\ capsule[k] = "dltensor"
  /\ capsule' = [capsule EXCEPT ![k] = "used_dltensor"]
  /\ consumer' = [consumer EXCEPT ![k] = "owns"]
  /\ UNCHANGED <<pc, building, buffer, refs, ctx, deleter, interpreter>>

\* The capsule object dies; its destructor calls the deleter unless the name
\* says that a consumer took over.
DropCapsule(k) ==
  /\ interpreter # "finalized"
  /\ capsule[k] \in {"dltensor", "used_dltensor"}
  /\ capsule' = [capsule EXCEPT ![k] = "gone"]
  /\ call' = IF capsule[k] = "dltensor"
             THEN [call EXCEPT ![k]["rightful"] = "enter"]
             ELSE call
  /\ UNCHANGED <<pc, building, buffer, consumer, refs, ctx, seen, interpreter>>

\* The consumer is done with the memory and calls the deleter.
Release(k) ==
  /\ consumer[k] = "owns"
  /\ consumer' = [consumer EXCEPT ![k] = "released"]
  /\ call' = [call EXCEPT ![k]["rightful"] = "enter"]
  /\ UNCHANGED <<pc, building, buffer, capsule, refs, ctx, seen, interpreter>>

\* A consumer calls the deleter once more than the protocol allows.
ReleaseAgain(k) ==
  /\ SecondDeleter
  /\ consumer[k] = "released"
  /\ call[k]["stray"] = "none"
  /\ call' = [call EXCEPT ![k]["stray"] = "enter"]
  /\ UNCHANGED <<pc, building, buffer, structs, seen, interpreter>>

\* The block goes with its holder.  What is read through a pointer to it then is
\* null, or the manager_ctx of a block that was since built in its place.
BlockGone(k) == capsule[k] # "none" /\ refs[k] <= 0
Readable(k) == IF BlockGone(k) THEN Pinned \cup {NoHolder} ELSE {ctx[k]}

\* _release_managed: the guards.
ReadCtx(k, c) ==
  /\ call[k][c] = "enter"
  /\ IF interpreter = "finalized"
     THEN /\ call' = [call EXCEPT ![k][c] = "done"]
          /\ UNCHANGED seen
     ELSE \E h \in Readable(k) :
            /\ seen' = [seen EXCEPT ![k][c] = h]
            /\ call' = [call EXCEPT ![k][c] = IF h = NoHolder THEN "done" ELSE "clear"]
  /\ UNCHANGED <<pc, building, buffer, structs, interpreter>>

\* _release_managed: manager_ctx is cleared in the block it was read from.
ClearCtx(k, c) ==
  /\ interpreter # "finalized"
  /\ call[k][c] = "clear"
  /\ ctx' = [ctx EXCEPT ![seen[k][c]] = NoHolder]
  /\ call' = [call EXCEPT ![k][c] = "drop"]
  /\ UNCHANGED <<pc, building, buffer, capsule, consumer, refs, seen, interpreter>>

\* _release_managed: the reference taken in to_capsule is given back.
DropHolder(k, c) ==
  /\ interpreter # "finalized"
  /\ call[k][c] = "drop"
  /\ refs' = [refs EXCEPT ![seen[k][c]] = @ - 1]
  /\ call' = [call EXCEPT ![k][c] = "done"]
  /\ UNCHANGED <<pc, building, buffer, capsule, consumer, ctx, seen, interpreter>>
-------------------------------------------------------------------------------
Next ==
  \/ DropRef \/ Collect \/ BeginExit \/ AtExit \/ Finalize
  \/ \E a \in Actors : Deallocate(a)
  \/ \E t \in Threads :
       \/ Free(t)
       \/ \E k \in Exports : CheckOpen(t, k)
       \/ Handoff(t) \/ HandoffFails(t)
       \/ Build(t) \/ BuildFails(t)
       \/ BeginCopy(t) \/ EndCopy(t)
  \/ \E k \in Exports :
       \/ Consume(k) \/ DropCapsule(k) \/ Release(k) \/ ReleaseAgain(k)
       \/ \E c \in Calls : ReadCtx(k, c) \/ ClearCtx(k, c) \/ DropHolder(k, c)

Spec == Init /\ [][Next]_vars

\* Calls that have begun go on, and an unreachable buffer is collected some time.
\* Nothing obliges the program or a consumer to let go.
Fairness ==
  /\ WF_vars(Collect)
  /\ \A a \in Actors : WF_vars(Deallocate(a))
  /\ \A k \in Exports, c \in Calls :
       WF_vars(ReadCtx(k, c) \/ ClearCtx(k, c) \/ DropHolder(k, c))

FairSpec == Spec /\ Fairness
-------------------------------------------------------------------------------
(***************************************************************************)
(* Properties                                                              *)
(***************************************************************************)
PCs == {"idle", "deallocate", "handoff", "build", "copy"}
Stages == {"none", "enter", "clear", "drop", "done"}
Underway(k) == call[k]["rightful"] \in {"enter", "clear", "drop"}

\* Types.
TypeOK ==
  /\ pc \in [Actors -> PCs]
  /\ building \in [Threads -> Exports \cup {NoHolder}]
  /\ userRef \in BOOLEAN
  /\ finalizer \in {"armed", "spent"}
  /\ cause \in {"nobody", "user", "gc", "exit"}
  /\ deallocs \in Nat
  /\ capsule \in [Exports -> {"none", "dltensor", "used_dltensor", "gone"}]
  /\ consumer \in [Exports -> {"none", "owns", "released"}]
  /\ refs \in [Exports -> Int]
  /\ ctx \in [Exports -> Exports \cup {NoHolder}]
  /\ call \in [Exports -> [Calls -> Stages]]
  /\ seen \in [Exports -> [Calls -> Exports \cup {NoHolder}]]
  /\ interpreter \in {"running", "exiting", "finalized"}

\* Rule 3 of DeviceBuffer and the reason for weakref.finalize: however free(),
\* free(stream), `with`, the collector and the exit handler race, exactly one of
\* them gives the pointer back, and none does before the buffer reads `closed`,
\* whatever consumers do with deleters.  So the caller that ResourceStack sees gives back what it was given, once.
OneRelease ==
  deallocs + Cardinality({a \in Actors : pc[a] = "deallocate"})
    = IF finalizer = "armed" THEN 0 ELSE 1

\* No consumer has called a deleter a second time yet.
Disciplined == \A k \in Exports : call[k]["stray"] = "none"

\* As long as consumers keep to the protocol, the holder of an export is counted
\* exactly as long as its capsule or a consumer can reach the struct, or the
\* deleter is at work on it: never dropped twice, never left over.  (Past
\* Py_Finalize the deleter leaves it alone on purpose.)
HoldersExact ==
  Disciplined =>
    \A k \in Exports :
      /\ Outstanding(k) \/ Underway(k) => refs[k] = 1
      /\ ~Outstanding(k) /\ ~Underway(k) /\ interpreter # "finalized" => refs[k] = 0
      /\ Outstanding(k) => ctx[k] = k /\ ~Underway(k)

\* Dropping references never takes the memory away from a consumer, an
\* unconsumed capsule or a method at work: only free() or the end of the
\* interpreter does, while consumers keep to the protocol.
OnlyRequestsRevoke ==
  Disciplined /\ finalizer = "spent"
      /\ (InMethod # {} \/ \E k \in Exports : Outstanding(k))
    => cause \in {"user", "exit"}

\* The exports somebody still needs the memory for, whatever the counts say.
Held == {k \in Exports : Outstanding(k) \/ Underway(k)}

\* The buffer and its exports implement the promise of the lifetime diagram.
Block == INSTANCE PinnedBlock WITH
  Parties <- {"program"} \cup Threads \cup Exports,
  Owner <- "program",
  holders <- (IF userRef THEN {"program"} ELSE {}) \cup InMethod \cup Held,
  out <- deallocs = 0
ImplementsPinnedBlock == Block!Spec
===============================================================================
