-------------------------- MODULE BufferExportProofs --------------------------
(***************************************************************************)
(* Proofs about BufferExport, for any threads and exports.                 *)
(***************************************************************************)
EXTENDS BufferExport, FiniteSetTheorems, TLAPS

-------------------------------------------------------------------------------
(***************************************************************************)
(* Types                                                                   *)
(***************************************************************************)
LEMMA TypeInit == Init => TypeOK
BY FlagsAssumption DEF Init, TypeOK, PCs, Stages, Calls

\* An export is at hand wherever a thread is about to build one, and a holder
\* wherever a deleter is about to drop one.
Located ==
  /\ \A t \in Threads : pc[t] \in {"handoff", "build"} => building[t] \in Exports
  /\ \A k \in Exports, c \in Calls :
       call[k][c] \in {"clear", "drop"} => seen[k][c] \in Exports

LEMMA TypeStep == TypeOK /\ Located /\ [Next]_vars => TypeOK' /\ Located'
<1> SUFFICES ASSUME TypeOK, Located, [Next]_vars PROVE TypeOK' /\ Located'
  OBVIOUS
<1> USE NamesAssumption DEF TypeOK, Located, PCs, Stages, Calls, Actors, GC, Exit, Goto,
                            buffer, structs, deleter
<1>1. ASSUME NEW t \in Threads, Free(t) PROVE TypeOK' /\ Located'
  BY <1>1 DEF Free
<1>2. ASSUME DropRef PROVE TypeOK' /\ Located'
  BY <1>2 DEF DropRef
<1>3. ASSUME Collect PROVE TypeOK' /\ Located'
  BY <1>3 DEF Collect
<1>4. ASSUME NEW a \in Actors, Deallocate(a) PROVE TypeOK' /\ Located'
  BY <1>4 DEF Deallocate
<1>5. ASSUME BeginExit PROVE TypeOK' /\ Located'
  BY <1>5 DEF BeginExit
<1>6. ASSUME AtExit PROVE TypeOK' /\ Located'
  BY <1>6 DEF AtExit
<1>7. ASSUME Finalize PROVE TypeOK' /\ Located'
  BY <1>7 DEF Finalize
<1>8. ASSUME NEW t \in Threads, NEW k \in Exports, CheckOpen(t, k) PROVE TypeOK' /\ Located'
  BY <1>8 DEF CheckOpen
<1>9. ASSUME NEW t \in Threads, Handoff(t) PROVE TypeOK' /\ Located'
  BY <1>9 DEF Handoff
<1>10. ASSUME NEW t \in Threads, HandoffFails(t) PROVE TypeOK' /\ Located'
  BY <1>10 DEF HandoffFails
<1>11. ASSUME NEW t \in Threads, Build(t) PROVE TypeOK' /\ Located'
  BY <1>11 DEF Build
<1>12. ASSUME NEW t \in Threads, BuildFails(t) PROVE TypeOK' /\ Located'
  BY <1>12 DEF BuildFails
<1>13. ASSUME NEW t \in Threads, BeginCopy(t) PROVE TypeOK' /\ Located'
  BY <1>13 DEF BeginCopy
<1>14. ASSUME NEW t \in Threads, EndCopy(t) PROVE TypeOK' /\ Located'
  BY <1>14 DEF EndCopy
<1>15. ASSUME NEW k \in Exports, Consume(k) PROVE TypeOK' /\ Located'
  BY <1>15 DEF Consume
<1>16. ASSUME NEW k \in Exports, DropCapsule(k) PROVE TypeOK' /\ Located'
  BY <1>16 DEF DropCapsule
<1>17. ASSUME NEW k \in Exports, Release(k) PROVE TypeOK' /\ Located'
  BY <1>17 DEF Release
<1>18. ASSUME NEW k \in Exports, ReleaseAgain(k) PROVE TypeOK' /\ Located'
  BY <1>18 DEF ReleaseAgain
<1>19. ASSUME NEW k \in Exports, NEW c \in Calls, ReadCtx(k, c) PROVE TypeOK' /\ Located'
  <2>1. \A h \in Readable(k) : h \in Exports \cup {NoHolder}
    BY DEF Readable, Pinned
  <2>2. CASE interpreter = "finalized"
    <3>1. call' = [call EXCEPT ![k][c] = "done"] /\ UNCHANGED seen
      BY <1>19, <2>2 DEF ReadCtx
    <3>2. TypeOK'
      BY <1>19, <3>1 DEF ReadCtx
    <3>3. Located'
      BY <1>19, <3>1 DEF ReadCtx
    <3>. QED  BY <3>2, <3>3
  <2>3. CASE interpreter # "finalized"
    <3>1. PICK h \in Readable(k) :
            /\ seen' = [seen EXCEPT ![k][c] = h]
            /\ call' = [call EXCEPT ![k][c] = IF h = NoHolder THEN "done" ELSE "clear"]
      BY <1>19, <2>3 DEF ReadCtx
    <3>2. h \in Exports \cup {NoHolder}
      BY <2>1
    <3>3. TypeOK'
      BY <1>19, <3>1, <3>2 DEF ReadCtx
    <3>4. Located'
      BY <1>19, <3>1, <3>2 DEF ReadCtx
    <3>. QED  BY <3>3, <3>4
  <2>. QED  BY <2>2, <2>3
<1>20. ASSUME NEW k \in Exports, NEW c \in Calls, ClearCtx(k, c) PROVE TypeOK' /\ Located'
  BY <1>20 DEF ClearCtx
<1>21. ASSUME NEW k \in Exports, NEW c \in Calls, DropHolder(k, c) PROVE TypeOK' /\ Located'
  BY <1>21 DEF DropHolder
<1>22. ASSUME UNCHANGED vars PROVE TypeOK' /\ Located'
  <2>1. TypeOK'
    BY <1>22 DEF vars
  <2>2. Located'
    BY <1>22 DEF vars
  <2>. QED  BY <2>1, <2>2
<1> HIDE DEF TypeOK, Located
<1>. QED
  BY <1>1, <1>2, <1>3, <1>4, <1>5, <1>6, <1>7, <1>8, <1>9, <1>10, <1>11, <1>12,
     <1>13, <1>14, <1>15, <1>16, <1>17, <1>18, <1>19, <1>20, <1>21, <1>22
     DEF Next

LEMMA TypeAlways == Spec => [](TypeOK /\ Located)
<1>1. Init => Located
  BY NamesAssumption DEF Init, Located, Actors
<1>. QED  BY <1>1, TypeInit, TypeStep, PTL DEF Spec

\* Every variable keeps its type.
THEOREM TypeCorrect == Spec => []TypeOK
BY TypeAlways, PTL
-------------------------------------------------------------------------------
(***************************************************************************)
(* One release                                                             *)
(***************************************************************************)
\* Nobody, or just one, is on the way to mr.deallocate.
Quiet == \A a \in Actors : pc[a] # "deallocate"
Sole(a) ==
  /\ pc[a] = "deallocate"
  /\ \A b \in Actors \ {a} : pc[b] # "deallocate"

ReleaseInv ==
  /\ finalizer = "armed" => deallocs = 0 /\ Quiet
  /\ finalizer = "spent" => \/ deallocs = 1 /\ Quiet
                            \/ deallocs = 0 /\ \E a \in Actors : Sole(a)

LEMMA ReleaseInit == Init => ReleaseInv
BY DEF Init, ReleaseInv, Quiet, Actors

LEMMA ReleaseStep == TypeOK /\ ReleaseInv /\ [Next]_vars => ReleaseInv'
<1> SUFFICES ASSUME TypeOK, ReleaseInv, [Next]_vars PROVE ReleaseInv'
  OBVIOUS
<1>0. /\ pc \in [Actors -> PCs] /\ finalizer \in {"armed", "spent"}
      /\ Threads \subseteq Actors /\ GC \in Actors /\ Exit \in Actors
  BY DEF TypeOK, Actors
<1> USE <1>0 DEF ReleaseInv, Quiet, Sole, Goto, buffer, structs, deleter
<1>1. ASSUME NEW t \in Threads, Free(t) PROVE ReleaseInv'
  BY <1>1 DEF Free
<1>2. ASSUME DropRef PROVE ReleaseInv'
  BY <1>2 DEF DropRef
<1>3. ASSUME Collect PROVE ReleaseInv'
  BY <1>3 DEF Collect
<1>4. ASSUME NEW a \in Actors, Deallocate(a) PROVE ReleaseInv'
  BY <1>4 DEF Deallocate
<1>5. ASSUME BeginExit PROVE ReleaseInv'
  BY <1>5 DEF BeginExit
<1>6. ASSUME AtExit PROVE ReleaseInv'
  BY <1>6 DEF AtExit
<1>7. ASSUME Finalize PROVE ReleaseInv'
  BY <1>7 DEF Finalize
<1>8. ASSUME NEW t \in Threads, NEW k \in Exports, CheckOpen(t, k) PROVE ReleaseInv'
  BY <1>8 DEF CheckOpen
<1>9. ASSUME NEW t \in Threads, Handoff(t) PROVE ReleaseInv'
  BY <1>9 DEF Handoff
<1>10. ASSUME NEW t \in Threads, HandoffFails(t) PROVE ReleaseInv'
  BY <1>10 DEF HandoffFails
<1>11. ASSUME NEW t \in Threads, Build(t) PROVE ReleaseInv'
  BY <1>11 DEF Build
<1>12. ASSUME NEW t \in Threads, BuildFails(t) PROVE ReleaseInv'
  BY <1>12 DEF BuildFails
<1>13. ASSUME NEW t \in Threads, BeginCopy(t) PROVE ReleaseInv'
  BY <1>13 DEF BeginCopy
<1>14. ASSUME NEW t \in Threads, EndCopy(t) PROVE ReleaseInv'
  BY <1>14 DEF EndCopy
<1>15. ASSUME NEW k \in Exports, Consume(k) PROVE ReleaseInv'
  BY <1>15 DEF Consume
<1>16. ASSUME NEW k \in Exports, DropCapsule(k) PROVE ReleaseInv'
  BY <1>16 DEF DropCapsule
<1>17. ASSUME NEW k \in Exports, Release(k) PROVE ReleaseInv'
  BY <1>17 DEF Release
<1>18. ASSUME NEW k \in Exports, ReleaseAgain(k) PROVE ReleaseInv'
  BY <1>18 DEF ReleaseAgain
<1>19. ASSUME NEW k \in Exports, NEW c \in Calls, ReadCtx(k, c) PROVE ReleaseInv'
  BY <1>19 DEF ReadCtx
<1>20. ASSUME NEW k \in Exports, NEW c \in Calls, ClearCtx(k, c) PROVE ReleaseInv'
  BY <1>20 DEF ClearCtx
<1>21. ASSUME NEW k \in Exports, NEW c \in Calls, DropHolder(k, c) PROVE ReleaseInv'
  BY <1>21 DEF DropHolder
<1>22. ASSUME UNCHANGED vars PROVE ReleaseInv'
  BY <1>22 DEF vars
<1> HIDE DEF ReleaseInv
<1>. QED
  BY <1>1, <1>2, <1>3, <1>4, <1>5, <1>6, <1>7, <1>8, <1>9, <1>10, <1>11, <1>12,
     <1>13, <1>14, <1>15, <1>16, <1>17, <1>18, <1>19, <1>20, <1>21, <1>22
     DEF Next

\* Whatever races for it, the pointer is given back once, and only after the
\* buffer reads `closed`; no consumer can change that by misusing a deleter.
THEOREM ReleasedOnce == Spec => []OneRelease
<1>1. ReleaseInv /\ TypeOK => OneRelease
  <2> SUFFICES ASSUME ReleaseInv, TypeOK PROVE OneRelease
    OBVIOUS
  <2> DEFINE D == {a \in Actors : pc[a] = "deallocate"}
  <2>1. CASE Quiet /\ deallocs = IF finalizer = "armed" THEN 0 ELSE 1
    <3>1. D = {}
      BY <2>1 DEF Quiet
    <3>2. Cardinality(D) = 0
      BY <3>1, FS_EmptySet, Zenon
    <3>. QED  BY <2>1, <3>2 DEF OneRelease
  <2>2. CASE finalizer = "spent" /\ deallocs = 0 /\ \E a \in Actors : Sole(a)
    <3>1. PICK a \in Actors : Sole(a)
      BY <2>2
    <3>2. D = {a}
      BY <3>1 DEF Sole
    <3>3. Cardinality(D) = 1
      BY <3>2, FS_Singleton, Zenon
    <3>. QED  BY <2>2, <3>3 DEF OneRelease
  <2>. QED  BY <2>1, <2>2 DEF ReleaseInv, TypeOK
<1>. QED  BY <1>1, ReleaseInit, ReleaseStep, TypeAlways, PTL DEF Spec
-------------------------------------------------------------------------------
(***************************************************************************)
(* The holders                                                             *)
(***************************************************************************)
\* The stages of an export: not made; reachable through its capsule; through a
\* consumer; in the hands of the deleter; over.
Right(k) == call[k]["rightful"]

Unmade(k) ==
  /\ capsule[k] = "none" /\ consumer[k] = "none" /\ refs[k] = 0
  /\ Right(k) = "none"

InCapsule(k) ==
  /\ capsule[k] = "dltensor" /\ consumer[k] = "none" /\ refs[k] = 1
  /\ ctx[k] = k /\ Right(k) = "none"

InConsumer(k) ==
  /\ capsule[k] \in {"used_dltensor", "gone"} /\ consumer[k] = "owns" /\ refs[k] = 1
  /\ ctx[k] = k /\ Right(k) = "none"

InDeleter(k) ==
  /\ capsule[k] \in {"used_dltensor", "gone"} /\ consumer[k] # "owns" /\ refs[k] = 1
  /\ \/ Right(k) = "enter" /\ ctx[k] = k
     \/ Right(k) \in {"clear", "drop"} /\ seen[k]["rightful"] = k

Over(k) ==
  /\ capsule[k] \in {"used_dltensor", "gone"} /\ consumer[k] # "owns"
  /\ Right(k) = "done"
  /\ refs[k] = 0 \/ interpreter = "finalized"

Staged(k) == Unmade(k) \/ InCapsule(k) \/ InConsumer(k) \/ InDeleter(k) \/ Over(k)

\* No two threads are making the same export.
Separate ==
  \A t \in Threads :
    pc[t] \in {"handoff", "build"} =>
      /\ building[t] \in Exports
      /\ capsule[building[t]] = "none"
      /\ \A u \in Threads \ {t} : pc[u] \in {"handoff", "build"} => building[u] # building[t]

Protocol ==
  /\ Disciplined
  /\ Separate
  /\ \A k \in Exports : Staged(k)

\* Nothing is claimed once a consumer has broken the protocol.
HoldersInv == Disciplined => Protocol

LEMMA HoldersInit == Init => HoldersInv
BY DEF Init, HoldersInv, Protocol, Separate, Staged, Unmade, Right, Calls, Actors

LEMMA ProtocolStep ==
  ASSUME Disciplined', TypeOK, Located, Protocol, [Next]_vars
  PROVE  Protocol'
<1> USE NamesAssumption DEF Protocol, Disciplined, Separate, Staged, Unmade, InCapsule, InConsumer,
     InDeleter, Over, Right, TypeOK, Actors, Calls, Goto, buffer, structs, deleter
<1>1. ASSUME NEW t \in Threads, Free(t) PROVE Protocol'
  BY <1>1 DEF Free
<1>2. ASSUME DropRef PROVE Protocol'
  BY <1>2 DEF DropRef
<1>3. ASSUME Collect PROVE Protocol'
  BY <1>3 DEF Collect
<1>4. ASSUME NEW a \in Actors, Deallocate(a) PROVE Protocol'
  BY <1>4 DEF Deallocate
<1>5. ASSUME BeginExit PROVE Protocol'
  BY <1>5 DEF BeginExit, Running
<1>6. ASSUME AtExit PROVE Protocol'
  BY <1>6 DEF AtExit
<1>7. ASSUME Finalize PROVE Protocol'
  BY <1>7 DEF Finalize
<1>8. ASSUME NEW t \in Threads, NEW k \in Exports, CheckOpen(t, k) PROVE Protocol'
  <2>1. Separate'
    BY <1>8 DEF CheckOpen
  <2>2. \A j \in Exports : Staged(j)'
    BY <1>8 DEF CheckOpen
  <2>. QED  BY <1>8, <2>1, <2>2 DEF CheckOpen
<1>9. ASSUME NEW t \in Threads, Handoff(t) PROVE Protocol'
  BY <1>9 DEF Handoff
<1>10. ASSUME NEW t \in Threads, HandoffFails(t) PROVE Protocol'
  BY <1>10 DEF HandoffFails
<1>11. ASSUME NEW t \in Threads, Build(t) PROVE Protocol'
  BY <1>11 DEF Build
<1>12. ASSUME NEW t \in Threads, BuildFails(t) PROVE Protocol'
  BY <1>12 DEF BuildFails
<1>13. ASSUME NEW t \in Threads, BeginCopy(t) PROVE Protocol'
  BY <1>13 DEF BeginCopy
<1>14. ASSUME NEW t \in Threads, EndCopy(t) PROVE Protocol'
  BY <1>14 DEF EndCopy
<1>15. ASSUME NEW k \in Exports, Consume(k) PROVE Protocol'
  BY <1>15 DEF Consume
<1>16. ASSUME NEW k \in Exports, DropCapsule(k) PROVE Protocol'
  BY <1>16 DEF DropCapsule
<1>17. ASSUME NEW k \in Exports, Release(k) PROVE Protocol'
  BY <1>17 DEF Release
<1>18. ASSUME NEW k \in Exports, ReleaseAgain(k) PROVE Protocol'
  BY <1>18 DEF ReleaseAgain
<1>19. ASSUME NEW k \in Exports, NEW c \in Calls, ReadCtx(k, c) PROVE Protocol'
  <2>1. c = "rightful"
    BY <1>19 DEF ReadCtx
  <2>2. UNCHANGED <<pc, building, capsule, consumer, refs, ctx, interpreter>>
    BY <1>19 DEF ReadCtx
  <2>3. /\ call'[k]["rightful"] \in {"done", "clear"}
        /\ call'[k]["rightful"] = "done" => interpreter = "finalized"
        /\ call'[k]["rightful"] = "clear" => seen'[k]["rightful"] = k
    <3>1. CASE interpreter = "finalized"
      BY <1>19, <2>1, <3>1 DEF ReadCtx
    <3>2. CASE interpreter # "finalized"
      <4>1. capsule[k] # "none" /\ refs[k] = 1 /\ ctx[k] = k
        BY <1>19, <2>1 DEF ReadCtx
      <4>2. Readable(k) = {k} /\ k # NoHolder
        BY <4>1 DEF Readable, BlockGone
      <4>3. /\ seen' = [seen EXCEPT ![k]["rightful"] = k]
            /\ call' = [call EXCEPT ![k]["rightful"] = "clear"]
        BY <1>19, <2>1, <3>2, <4>2, Zenon DEF ReadCtx
      <4>. QED  BY <4>3
    <3>. QED  BY <3>1, <3>2
  <2>4. \A j \in Exports : call'[j]["stray"] = "none"
    BY <1>19, <2>1 DEF ReadCtx
  <2>5. \A j \in Exports \ {k} : call'[j] = call[j] /\ seen'[j] = seen[j]
    BY <1>19 DEF ReadCtx
  <2>6. Separate'
    BY <2>2
  <2>7. \A j \in Exports \ {k} : Staged(j)'
    BY <2>2, <2>5
  <2>8. Staged(k)'
    BY <1>19, <2>1, <2>2, <2>3 DEF ReadCtx
  <2>. QED  BY <2>4, <2>6, <2>7, <2>8
<1>20. ASSUME NEW k \in Exports, NEW c \in Calls, ClearCtx(k, c) PROVE Protocol'
  BY <1>20 DEF ClearCtx
<1>21. ASSUME NEW k \in Exports, NEW c \in Calls, DropHolder(k, c) PROVE Protocol'
  BY <1>21 DEF DropHolder
<1>22. ASSUME UNCHANGED vars PROVE Protocol'
  BY <1>22 DEF vars
<1> HIDE DEF Protocol
<1>. QED
  BY <1>1, <1>2, <1>3, <1>4, <1>5, <1>6, <1>7, <1>8, <1>9, <1>10, <1>11, <1>12,
     <1>13, <1>14, <1>15, <1>16, <1>17, <1>18, <1>19, <1>20, <1>21, <1>22
     DEF Next

\* A stray call is never undone.
LEMMA StrayStays == TypeOK /\ [Next]_vars /\ Disciplined' => Disciplined
<1> SUFFICES ASSUME TypeOK, [Next]_vars, Disciplined' PROVE Disciplined
  OBVIOUS
<1>1. CASE UNCHANGED call
  BY <1>1 DEF Disciplined
<1>2. ASSUME NEW k \in Exports, DropCapsule(k) PROVE Disciplined
  BY <1>2 DEF TypeOK, Disciplined, Calls, DropCapsule
<1>3. ASSUME NEW k \in Exports, Release(k) PROVE Disciplined
  BY <1>3 DEF TypeOK, Disciplined, Calls, Release
<1>4. ASSUME NEW k \in Exports, ReleaseAgain(k) PROVE Disciplined
  BY <1>4 DEF TypeOK, Disciplined, Calls, ReleaseAgain
<1>5. ASSUME NEW k \in Exports, NEW c \in Calls, ReadCtx(k, c) PROVE Disciplined
  BY <1>5 DEF TypeOK, Disciplined, Calls, ReadCtx
<1>6. ASSUME NEW k \in Exports, NEW c \in Calls, ClearCtx(k, c) PROVE Disciplined
  BY <1>6 DEF TypeOK, Disciplined, Calls, ClearCtx
<1>7. ASSUME NEW k \in Exports, NEW c \in Calls, DropHolder(k, c) PROVE Disciplined
  BY <1>7 DEF TypeOK, Disciplined, Calls, DropHolder
<1>. QED
  BY <1>1, <1>2, <1>3, <1>4, <1>5, <1>6, <1>7 DEF Next, vars, buffer, structs, deleter, Free, DropRef, Collect,
     Deallocate, BeginExit, AtExit, Finalize, CheckOpen, Handoff, HandoffFails, Build,
     BuildFails, BeginCopy, EndCopy, Consume

LEMMA HoldersAlways == Spec => []HoldersInv
<1>1. TypeOK /\ Located /\ HoldersInv /\ [Next]_vars => HoldersInv'
  BY ProtocolStep, StrayStays DEF HoldersInv
<1>. QED  BY <1>1, HoldersInit, TypeAlways, PTL DEF Spec

\* As long as consumers keep to the protocol, the reference that pins the memory
\* for an export is dropped exactly once, when nobody can reach the struct.
THEOREM HoldersAreExact == Spec => []HoldersExact
<1>1. HoldersInv => HoldersExact
  BY DEF HoldersInv, Protocol, HoldersExact, Outstanding, Underway, Staged, Unmade, InCapsule,
         InConsumer, InDeleter, Over, Right
<1>. QED  BY <1>1, HoldersAlways, PTL
-------------------------------------------------------------------------------
(***************************************************************************)
(* What takes the memory away                                              *)
(***************************************************************************)
\* Once the collector took the entry, nothing reaches the buffer any more, and
\* nothing will.
Unreached ==
  /\ ~userRef
  /\ \A t \in Threads : pc[t] = "idle"
  /\ \A k \in Exports : refs[k] <= 0

CauseInv ==
  /\ finalizer = "armed" <=> cause = "nobody"
  /\ cause = "gc" => Unreached

LEMMA CauseInit == Init => CauseInv
BY DEF Init, CauseInv

LEMMA CauseStep ==
  ASSUME TypeOK, Located, CauseInv, [Next]_vars
  PROVE  CauseInv'
<1> USE NamesAssumption DEF CauseInv, Unreached, TypeOK, Actors, GC, Exit, Goto, buffer,
                            structs, deleter, Located
<1>1. ASSUME NEW t \in Threads, Free(t) PROVE CauseInv'
  BY <1>1 DEF Free
<1>2. ASSUME DropRef PROVE CauseInv'
  BY <1>2 DEF DropRef
<1>3. ASSUME Collect PROVE CauseInv'
  BY <1>3 DEF Collect, Reachable, InMethod, Pinned
<1>4. ASSUME NEW a \in Actors, Deallocate(a) PROVE CauseInv'
  BY <1>4 DEF Deallocate
<1>5. ASSUME BeginExit PROVE CauseInv'
  BY <1>5 DEF BeginExit
<1>6. ASSUME AtExit PROVE CauseInv'
  BY <1>6 DEF AtExit
<1>7. ASSUME Finalize PROVE CauseInv'
  BY <1>7 DEF Finalize
<1>8. ASSUME NEW t \in Threads, NEW k \in Exports, CheckOpen(t, k) PROVE CauseInv'
  BY <1>8 DEF CheckOpen
<1>9. ASSUME NEW t \in Threads, Handoff(t) PROVE CauseInv'
  BY <1>9 DEF Handoff
<1>10. ASSUME NEW t \in Threads, HandoffFails(t) PROVE CauseInv'
  BY <1>10 DEF HandoffFails
<1>11. ASSUME NEW t \in Threads, Build(t) PROVE CauseInv'
  BY <1>11 DEF Build
<1>12. ASSUME NEW t \in Threads, BuildFails(t) PROVE CauseInv'
  BY <1>12 DEF BuildFails
<1>13. ASSUME NEW t \in Threads, BeginCopy(t) PROVE CauseInv'
  BY <1>13 DEF BeginCopy
<1>14. ASSUME NEW t \in Threads, EndCopy(t) PROVE CauseInv'
  BY <1>14 DEF EndCopy
<1>15. ASSUME NEW k \in Exports, Consume(k) PROVE CauseInv'
  BY <1>15 DEF Consume
<1>16. ASSUME NEW k \in Exports, DropCapsule(k) PROVE CauseInv'
  BY <1>16 DEF DropCapsule
<1>17. ASSUME NEW k \in Exports, Release(k) PROVE CauseInv'
  BY <1>17 DEF Release
<1>18. ASSUME NEW k \in Exports, ReleaseAgain(k) PROVE CauseInv'
  BY <1>18 DEF ReleaseAgain
<1>19. ASSUME NEW k \in Exports, NEW c \in Calls, ReadCtx(k, c) PROVE CauseInv'
  BY <1>19 DEF ReadCtx
<1>20. ASSUME NEW k \in Exports, NEW c \in Calls, ClearCtx(k, c) PROVE CauseInv'
  BY <1>20 DEF ClearCtx
<1>21. ASSUME NEW k \in Exports, NEW c \in Calls, DropHolder(k, c) PROVE CauseInv'
  BY <1>21 DEF DropHolder
<1>22. ASSUME UNCHANGED vars PROVE CauseInv'
  BY <1>22 DEF vars
<1> HIDE DEF CauseInv
<1>. QED
  BY <1>1, <1>2, <1>3, <1>4, <1>5, <1>6, <1>7, <1>8, <1>9, <1>10, <1>11, <1>12,
     <1>13, <1>14, <1>15, <1>16, <1>17, <1>18, <1>19, <1>20, <1>21, <1>22
     DEF Next

\* The collector takes memory from no consumer, no unconsumed capsule and no
\* method at work.
THEOREM OnlyRequestsTakeIt == Spec => []OnlyRequestsRevoke
<1>1. TypeOK /\ HoldersInv /\ CauseInv => OnlyRequestsRevoke
  <2> SUFFICES ASSUME TypeOK, HoldersInv, CauseInv, Disciplined, finalizer = "spent", cause = "gc"
               PROVE  InMethod = {} /\ \A k \in Exports : ~Outstanding(k)
    BY DEF TypeOK, OnlyRequestsRevoke, CauseInv
  <2>1. Unreached
    BY DEF CauseInv
  <2>2. InMethod = {}
    BY <2>1 DEF Unreached, InMethod
  <2>3. \A k \in Exports : ~Outstanding(k)
    BY <2>1 DEF Unreached, HoldersInv, Protocol, Staged, Unmade, InCapsule, InConsumer, InDeleter,
                Over, Outstanding
  <2>. QED  BY <2>2, <2>3
<1>2. TypeOK /\ Located /\ CauseInv /\ [Next]_vars => CauseInv'
  BY CauseStep
<1>. QED  BY <1>1, <1>2, CauseInit, HoldersAlways, TypeAlways, PTL DEF Spec
-------------------------------------------------------------------------------
(***************************************************************************)
(* Refinement                                                              *)
(***************************************************************************)
\* With neither free() nor an exit, only the collector takes the entry.
Unforced == interpreter = "running" /\ cause \in {"nobody", "gc"}

\* A buffer that is unreachable stays so.
LEMMA UnreachableStays ==
  ASSUME TypeOK, Located, [Next]_vars, ~Reachable
  PROVE  ~Reachable'
<1>0. ~userRef /\ (\A t \in Threads : pc[t] = "idle") /\ \A k \in Exports : ~(refs[k] > 0)
  BY DEF Reachable, InMethod, Pinned, TypeOK
<1> SUFFICES ~userRef' /\ (\A t \in Threads : pc'[t] = "idle")
              /\ \A k \in Exports : ~(refs'[k] > 0)
  BY DEF Reachable, InMethod, Pinned, TypeOK
<1> DEFINE Gone == ~userRef' /\ (\A t \in Threads : pc'[t] = "idle")
                   /\ \A k \in Exports : ~(refs'[k] > 0)
<1> USE <1>0, NamesAssumption DEF TypeOK, Located, Actors, GC, Exit, Goto, buffer,
                                  structs, deleter
<1>1. ASSUME NEW t \in Threads, Free(t) PROVE Gone
  BY <1>1 DEF Free
<1>2. ASSUME DropRef PROVE Gone
  BY <1>2 DEF DropRef
<1>3. ASSUME Collect PROVE Gone
  BY <1>3 DEF Collect
<1>4. ASSUME NEW a \in Actors, Deallocate(a) PROVE Gone
  BY <1>4 DEF Deallocate
<1>5. ASSUME BeginExit PROVE Gone
  BY <1>5 DEF BeginExit
<1>6. ASSUME AtExit PROVE Gone
  BY <1>6 DEF AtExit
<1>7. ASSUME Finalize PROVE Gone
  BY <1>7 DEF Finalize
<1>8. ASSUME NEW t \in Threads, NEW k \in Exports, CheckOpen(t, k) PROVE Gone
  BY <1>8 DEF CheckOpen
<1>9. ASSUME NEW t \in Threads, Handoff(t) PROVE Gone
  BY <1>9 DEF Handoff
<1>10. ASSUME NEW t \in Threads, HandoffFails(t) PROVE Gone
  BY <1>10 DEF HandoffFails
<1>11. ASSUME NEW t \in Threads, Build(t) PROVE Gone
  BY <1>11 DEF Build
<1>12. ASSUME NEW t \in Threads, BuildFails(t) PROVE Gone
  BY <1>12 DEF BuildFails
<1>13. ASSUME NEW t \in Threads, BeginCopy(t) PROVE Gone
  BY <1>13 DEF BeginCopy
<1>14. ASSUME NEW t \in Threads, EndCopy(t) PROVE Gone
  BY <1>14 DEF EndCopy
<1>15. ASSUME NEW k \in Exports, Consume(k) PROVE Gone
  BY <1>15 DEF Consume
<1>16. ASSUME NEW k \in Exports, DropCapsule(k) PROVE Gone
  BY <1>16 DEF DropCapsule
<1>17. ASSUME NEW k \in Exports, Release(k) PROVE Gone
  BY <1>17 DEF Release
<1>18. ASSUME NEW k \in Exports, ReleaseAgain(k) PROVE Gone
  BY <1>18 DEF ReleaseAgain
<1>19. ASSUME NEW k \in Exports, NEW c \in Calls, ReadCtx(k, c) PROVE Gone
  BY <1>19 DEF ReadCtx
<1>20. ASSUME NEW k \in Exports, NEW c \in Calls, ClearCtx(k, c) PROVE Gone
  BY <1>20 DEF ClearCtx
<1>21. ASSUME NEW k \in Exports, NEW c \in Calls, DropHolder(k, c) PROVE Gone
  BY <1>21 DEF DropHolder
<1>22. ASSUME UNCHANGED vars PROVE Gone
  BY <1>22 DEF vars
<1>. QED
  BY <1>1, <1>2, <1>3, <1>4, <1>5, <1>6, <1>7, <1>8, <1>9, <1>10, <1>11, <1>12,
     <1>13, <1>14, <1>15, <1>16, <1>17, <1>18, <1>19, <1>20, <1>21, <1>22
     DEF Next


LEMMA UnforcedStep ==
  ASSUME ~ExplicitFree, ~Exits, TypeOK, Unforced, [Next]_vars
  PROVE  Unforced'
<1> USE DEF Unforced, TypeOK, buffer, structs, deleter
<1>1. ASSUME NEW t \in Threads, Free(t) PROVE Unforced'
  BY <1>1 DEF Free
<1>2. ASSUME DropRef PROVE Unforced'
  BY <1>2 DEF DropRef
<1>3. ASSUME Collect PROVE Unforced'
  BY <1>3 DEF Collect
<1>4. ASSUME NEW a \in Actors, Deallocate(a) PROVE Unforced'
  BY <1>4 DEF Deallocate
<1>5. ASSUME BeginExit PROVE Unforced'
  BY <1>5 DEF BeginExit
<1>6. ASSUME AtExit PROVE Unforced'
  BY <1>6 DEF AtExit
<1>7. ASSUME Finalize PROVE Unforced'
  BY <1>7 DEF Finalize
<1>8. ASSUME NEW t \in Threads, NEW k \in Exports, CheckOpen(t, k) PROVE Unforced'
  BY <1>8 DEF CheckOpen
<1>9. ASSUME NEW t \in Threads, Handoff(t) PROVE Unforced'
  BY <1>9 DEF Handoff
<1>10. ASSUME NEW t \in Threads, HandoffFails(t) PROVE Unforced'
  BY <1>10 DEF HandoffFails
<1>11. ASSUME NEW t \in Threads, Build(t) PROVE Unforced'
  BY <1>11 DEF Build
<1>12. ASSUME NEW t \in Threads, BuildFails(t) PROVE Unforced'
  BY <1>12 DEF BuildFails
<1>13. ASSUME NEW t \in Threads, BeginCopy(t) PROVE Unforced'
  BY <1>13 DEF BeginCopy
<1>14. ASSUME NEW t \in Threads, EndCopy(t) PROVE Unforced'
  BY <1>14 DEF EndCopy
<1>15. ASSUME NEW k \in Exports, Consume(k) PROVE Unforced'
  BY <1>15 DEF Consume
<1>16. ASSUME NEW k \in Exports, DropCapsule(k) PROVE Unforced'
  BY <1>16 DEF DropCapsule
<1>17. ASSUME NEW k \in Exports, Release(k) PROVE Unforced'
  BY <1>17 DEF Release
<1>18. ASSUME NEW k \in Exports, ReleaseAgain(k) PROVE Unforced'
  BY <1>18 DEF ReleaseAgain
<1>19. ASSUME NEW k \in Exports, NEW c \in Calls, ReadCtx(k, c) PROVE Unforced'
  BY <1>19 DEF ReadCtx
<1>20. ASSUME NEW k \in Exports, NEW c \in Calls, ClearCtx(k, c) PROVE Unforced'
  BY <1>20 DEF ClearCtx
<1>21. ASSUME NEW k \in Exports, NEW c \in Calls, DropHolder(k, c) PROVE Unforced'
  BY <1>21 DEF DropHolder
<1>22. ASSUME UNCHANGED vars PROVE Unforced'
  BY <1>22 DEF vars
<1> HIDE DEF Unforced
<1>. QED
  BY <1>1, <1>2, <1>3, <1>4, <1>5, <1>6, <1>7, <1>8, <1>9, <1>10, <1>11, <1>12,
     <1>13, <1>14, <1>15, <1>16, <1>17, <1>18, <1>19, <1>20, <1>21, <1>22
     DEF Next

Holders == (IF userRef THEN {"program"} ELSE {}) \cup InMethod \cup Pinned

\* A step lets a holder share the block or let go of it, or gives it back.
LEMMA BlockMoves ==
  ASSUME ~ExplicitFree, ~Exits,
         TypeOK, Located, ReleaseInv, CauseInv, Unforced, [Next]_vars,
         Held = Pinned, Held' = Pinned'
  PROVE  [Block!Next]_<<Holders, deallocs = 0>>
<1>1. Holders' \in SUBSET ({"program"} \cup Threads \cup Exports)
  BY DEF Holders, InMethod, Pinned
<1>2. Holders = {} <=> ~Reachable
  BY DEF Holders, Reachable
<1>3. (Holders = {} <=> ~Reachable)'
  BY DEF Holders, Reachable
<1>4. CASE deallocs' = deallocs
  <2>1. CASE Reachable
    <3>1. Block!Share
      BY <1>1, <1>2, <1>4, <2>1 DEF Block!Share, Holders
    <3>. QED  BY <3>1 DEF Block!Next
  <2>2. CASE ~Reachable
    <3>1. Holders = {} /\ Holders' = {}
      BY <1>2, <1>3, <2>2, UnreachableStays
    <3>. QED  BY <1>4, <3>1
  <2>. QED  BY <2>1, <2>2
<1>5. CASE deallocs' # deallocs
  <2>1. PICK a \in Actors : Deallocate(a)
    BY <1>5 DEF Next, vars, buffer, structs, deleter, Free, DropRef, Collect, BeginExit,
       AtExit, Finalize, CheckOpen, Handoff, HandoffFails, Build, BuildFails, BeginCopy,
       EndCopy, Consume, DropCapsule, Release, ReleaseAgain, ReadCtx, ClearCtx, DropHolder
  <2>2. pc[a] = "deallocate" /\ deallocs' = deallocs + 1
    BY <2>1 DEF Deallocate
  <2>3. finalizer = "spent" /\ deallocs = 0
    BY <2>2 DEF ReleaseInv, Quiet, TypeOK
  <2>4. cause = "gc"
    BY <2>3 DEF CauseInv, Unforced
  <2>5. Holders = {}
    BY <2>4 DEF CauseInv, Unreached, Holders, InMethod, Pinned, TypeOK
  <2>6. Holders' = {}
    BY <1>2, <1>3, <2>5, UnreachableStays
  <2>7. Block!GiveBack
    BY <2>2, <2>3, <2>5, <2>6 DEF Block!GiveBack, Holders
  <2>. QED  BY <2>7 DEF Block!Next
<1>. QED  BY <1>4, <1>5

\* While consumers keep to the protocol and the interpreter runs, the exports that
\* are needed are those whose holder is counted.
LEMMA HeldArePinned ==
  TypeOK /\ HoldersInv /\ Disciplined /\ Unforced => Held = Pinned
<1> SUFFICES ASSUME TypeOK, HoldersInv, Disciplined, Unforced, NEW k \in Exports
             PROVE  k \in Held <=> k \in Pinned
  BY DEF Held, Pinned
<1>1. Staged(k)
  BY DEF HoldersInv, Protocol
<1>2. Outstanding(k) \/ Underway(k) <=> refs[k] > 0
  BY <1>1 DEF Staged, Unmade, InCapsule, InConsumer, InDeleter, Over, Right, Outstanding,
     Underway, Unforced, TypeOK
<1>. QED  BY <1>2 DEF Held, Pinned

LEMMA HeldArePinnedNext ==
  (TypeOK /\ HoldersInv /\ Disciplined /\ Unforced => Held = Pinned)'
BY HeldArePinned, PTL

LEMMA DisciplinedStep ==
  ASSUME ~SecondDeleter, TypeOK, Disciplined, [Next]_vars
  PROVE  Disciplined'
<1> SUFFICES ASSUME NEW j \in Exports
             PROVE  call'[j]["stray"] = "none"
  BY DEF Disciplined
<1> USE DEF Disciplined, TypeOK, Calls
<1>1. CASE UNCHANGED call
  BY <1>1
<1>2. ASSUME NEW k \in Exports, DropCapsule(k) PROVE call'[j]["stray"] = "none"
  BY <1>2 DEF DropCapsule
<1>3. ASSUME NEW k \in Exports, Release(k) PROVE call'[j]["stray"] = "none"
  BY <1>3 DEF Release
<1>4. ASSUME NEW k \in Exports, NEW c \in Calls, ReadCtx(k, c)
      PROVE  call'[j]["stray"] = "none"
  BY <1>4 DEF ReadCtx
<1>5. ASSUME NEW k \in Exports, NEW c \in Calls, ClearCtx(k, c)
      PROVE  call'[j]["stray"] = "none"
  BY <1>5 DEF ClearCtx
<1>6. ASSUME NEW k \in Exports, NEW c \in Calls, DropHolder(k, c)
      PROVE  call'[j]["stray"] = "none"
  BY <1>6 DEF DropHolder
<1>. QED
  BY <1>1, <1>2, <1>3, <1>4, <1>5, <1>6 DEF Next, vars, deleter, Free, DropRef, Collect,
     Deallocate, BeginExit, AtExit, Finalize, CheckOpen, Handoff, HandoffFails, Build,
     BuildFails, BeginCopy, EndCopy, Consume, ReleaseAgain

\* If no free(), no exit and no stray deleter call forces it, the memory goes back at
\* most once, and only after the program, every method at work and every export have
\* let go.  (That it does go back is left to the model checker.)
THEOREM ExportsPinTheBlock ==
  ASSUME ~ExplicitFree, ~Exits, ~SecondDeleter
  PROVE  Spec => Block!Safety
<1> DEFINE Users == (IF userRef THEN {"program"} ELSE {}) \cup InMethod \cup Held
<1>1. Init => Block!Init
  BY NamesAssumption DEF Init, Block!Init, InMethod, Held, Outstanding, Underway, Actors,
     Calls
<1>2. Init => Unforced /\ Disciplined
  BY DEF Init, Unforced, Disciplined, Calls
<1>3. TypeOK /\ Located /\ CauseInv /\ [Next]_vars => CauseInv'
  BY CauseStep
<1>4. TypeOK /\ Unforced /\ [Next]_vars => Unforced'
  BY UnforcedStep
<1>5. TypeOK /\ Disciplined /\ [Next]_vars => Disciplined'
  BY DisciplinedStep
<1>6. ASSUME TypeOK, Located, ReleaseInv, CauseInv, Unforced, HoldersInv, Disciplined,
             TypeOK', Unforced', HoldersInv', Disciplined', [Next]_vars
      PROVE  [Block!Next]_<<Users, deallocs = 0>>
  <2>1. Held = Pinned
    BY <1>6, HeldArePinned
  <2>2. Held' = Pinned'
    BY <1>6, HeldArePinnedNext
  <2>3. [Block!Next]_<<Holders, deallocs = 0>>
    BY <1>6, <2>1, <2>2, BlockMoves
  <2>4. Users = Holders /\ Users' = Holders'
    BY <2>1, <2>2 DEF Holders
  <2>. QED  BY <2>3, <2>4 DEF Block!Next, Block!Share, Block!GiveBack, Holders
<1>. QED
  BY <1>1, <1>2, <1>3, <1>4, <1>5, <1>6, TypeAlways, HoldersAlways, ReleaseInit,
     ReleaseStep, CauseInit, PTL DEF Spec, Block!Safety
===============================================================================
