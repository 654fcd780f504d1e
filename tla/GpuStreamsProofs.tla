--------------------------- MODULE GpuStreamsProofs ---------------------------
(***************************************************************************)
(* Proofs about GpuStreams, for any threads, devices, streams, buffers and *)
(* events, and queues of any length.                                       *)
(***************************************************************************)
EXTENDS GpuStreams, TLAPS
-------------------------------------------------------------------------------
(***************************************************************************)
(* Types, and what a thread holds at each native call                      *)
(***************************************************************************)
PCs == {"idle", "activate", "perform", "restore", "create_event", "record", "wait",
        "destroy", "synchronize"}
Kinds == {"none", "create", "allocate", "deallocate", "handoff", "copy", "upload"}
Jobs == [kind : Kinds, b : Blocks \cup {None}, s : Streams \cup {NoStream}]
Ops == {"write", "upload", "copy", "read", "free"} \X Blocks \cup {"record", "wait"} \X Events

TypeOK ==
  /\ active \in [Threads -> Devices]
  /\ chosen \in [Threads -> Devices]
  /\ strayed \subseteq Threads
  /\ pc \in [Threads -> PCs]
  /\ job \in [Threads -> Jobs]
  /\ saved \in [Threads -> Devices \cup {None}]
  /\ event \in [Threads -> Events \X Devices \cup {NoEvent}]
  /\ life \in [Streams -> {"none", "live", "destroyed"}]
  /\ queue \in [Streams -> Seq(Ops)]
  /\ events \in [Events -> {"none", "live", "lost"}]
  /\ fired \subseteq Events
  /\ block \in [Blocks -> {"none", "making", "live", "freeing", "freed", "lost"}]
  /\ at \in [Blocks -> Streams \cup {NoStream}]
  /\ place \in [Blocks -> Devices \cup {None}]
  /\ memory \in [Blocks -> {"blank", "written", "freed"}]
  /\ export \in [Blocks -> Streams \cup {NoStream}]
  /\ reads \in [Blocks -> {"none", "queued", "done"}]
  /\ early \subseteq {"read", "copy"} \X Blocks
  /\ late \subseteq Blocks
  /\ unsynced \subseteq Blocks

\* The operation that goes with each native call, with its block, its stream and,
\* between CreateEvent and Destroy, its event.
CallOK(t) ==
  /\ pc[t] = "idle" <=> job[t].kind = "none"
  /\ pc[t] \in {"activate", "perform", "restore"} <=>
       job[t].kind \in {"create", "allocate", "deallocate"}
  /\ pc[t] \in {"create_event", "record", "wait", "destroy"} => job[t].kind = "handoff"
  /\ job[t].kind \notin {"none", "create"} => job[t].b \in Blocks /\ at[job[t].b] \in Streams
  /\ job[t].kind # "none" => job[t].s \in Streams
  /\ event[t] # NoEvent <=> pc[t] \in {"record", "wait", "destroy"}
  /\ saved[t] # None => pc[t] \in {"perform", "restore"}
Calls ==
  /\ \A t \in Threads : CallOK(t)
  /\ \A b \in Blocks : block[b] # "none" => at[b] \in Streams

LEMMA StreamFacts ==
  /\ NoStream \notin Streams /\ NoEvent \notin Events \X Devices
  /\ \A s \in Streams : DeviceOf(s) \in Devices
  /\ \A b \in Blocks : b # None
BY GpuAssumption DEF Streams, NoStream, NoEvent, DeviceOf

LEMMA CallsInit == Init => TypeOK /\ Calls
<1> SUFFICES ASSUME Init PROVE TypeOK /\ Calls
  OBVIOUS
<1>1. TypeOK
  BY GpuAssumption DEF Init, TypeOK, PCs, Kinds, Jobs, NoJob
<1>2. Calls
  BY GpuAssumption DEF Init, Calls, CallOK, NoJob
<1>. QED  BY <1>1, <1>2

LEMMA AppendType ==
  ASSUME queue \in [Streams -> Seq(Ops)], NEW s, NEW op \in Ops, Append1(s, op)
  PROVE  queue' \in [Streams -> Seq(Ops)]
<1>1. CASE s \in Streams
  <2>1. Append(queue[s], op) \in Seq(Ops)
    BY <1>1
  <2>. QED  BY <1>1, <2>1 DEF Append1
<1>2. CASE s \notin Streams
  BY <1>2 DEF Append1
<1>. QED  BY <1>1, <1>2

\* What Undone may do to a block: only that of its own call changes.
LEMMA UndoneFacts ==
  ASSUME TypeOK, NEW t \in Threads, Undone(t)
  PROVE  /\ block' \in [Blocks -> {"none", "making", "live", "freeing", "freed", "lost"}]
         /\ \A b \in Blocks :
              \/ block'[b] = block[b]
              \/ b = job[t].b /\ job[t].kind = "allocate" /\ block'[b] = "none"
              \/ b = job[t].b /\ job[t].kind = "deallocate" /\ block'[b] = "lost"
<1> USE DEF TypeOK
<1>1. CASE job[t].kind = "allocate"
  BY <1>1 DEF Undone
<1>2. CASE job[t].kind = "deallocate"
  BY <1>2 DEF Undone
<1>3. CASE job[t].kind \notin {"allocate", "deallocate"}
  BY <1>3 DEF Undone
<1>. QED  BY <1>1, <1>2, <1>3

LEMMA TypeStep == TypeOK /\ Calls /\ [Next]_vars => TypeOK'
<1> SUFFICES ASSUME TypeOK, Calls, [Next]_vars PROVE TypeOK'
  OBVIOUS
<1> USE DEF TypeOK, Calls, CallOK, PCs, Kinds, Jobs, Ops, NoJob, Job,
        Goto, Start, End, threads, calls, gpu, buffers, data
<1>1. ASSUME NEW s \in Streams, Execute(s) PROVE TypeOK'
  BY <1>1 DEF Execute
<1>2. ASSUME NEW s \in Streams, StreamDies(s) PROVE TypeOK'
  BY <1>2 DEF StreamDies
<1>3. ASSUME NEW b \in Blocks, Compute(b) PROVE TypeOK'
  <2>1. <<"write", b>> \in Ops
    BY <1>3 DEF Compute
  <2>2. queue' \in [Streams -> Seq(Ops)]
    BY <1>3, <2>1, AppendType DEF Compute
  <2>. QED  BY <1>3, <2>2 DEF Compute
<1>4. ASSUME NEW b \in Blocks, Consume(b) PROVE TypeOK'
  <2>1. <<"read", b>> \in Ops
    BY <1>4 DEF Consume
  <2>2. queue' \in [Streams -> Seq(Ops)]
    BY <1>4, <2>1, AppendType DEF Consume
  <2>. QED  BY <1>4, <2>2 DEF Consume
<1>5. ASSUME NEW b \in Blocks, LetGo(b) PROVE TypeOK'
  BY <1>5 DEF LetGo
<1>6. ASSUME NEW t \in Threads, NEW d \in Devices, Select(t, d) PROVE TypeOK'
  BY <1>6 DEF Select
<1>7. ASSUME NEW t \in Threads, NEW s \in Streams, BeginCreate(t, s) PROVE TypeOK'
  BY <1>7 DEF BeginCreate
<1>8. ASSUME NEW t \in Threads, NEW b \in Blocks, NEW s \in Streams, BeginAllocate(t, b, s)
      PROVE  TypeOK'
  BY <1>8 DEF BeginAllocate
<1>9. ASSUME NEW t \in Threads, NEW b \in Blocks, NEW s \in Streams, BeginHandoff(t, b, s)
      PROVE  TypeOK'
  BY <1>9 DEF BeginHandoff
<1>10. ASSUME NEW t \in Threads, NEW b \in Blocks, BeginDeallocate(t, b) PROVE TypeOK'
  <2>1. at[b] \in Streams
    BY <1>10 DEF BeginDeallocate
  <2>. QED  BY <1>10, <2>1 DEF BeginDeallocate
<1>11. ASSUME NEW t \in Threads, NEW b \in Blocks, BeginCopy(t, b) PROVE TypeOK'
  <2>1. <<"copy", b>> \in Ops
    BY <1>11 DEF BeginCopy
  <2>2. queue' \in [Streams -> Seq(Ops)]
    BY <1>11, <2>1, AppendType DEF BeginCopy
  <2>3. at[b] \in Streams
    BY <1>11 DEF BeginCopy, Usable
  <2>. QED  BY <1>11, <2>2, <2>3 DEF BeginCopy
<1>12. ASSUME NEW t \in Threads, NEW b \in Blocks, BeginUpload(t, b) PROVE TypeOK'
  <2>1. <<"upload", b>> \in Ops
    BY <1>12 DEF BeginUpload
  <2>2. queue' \in [Streams -> Seq(Ops)]
    BY <1>12, <2>1, AppendType DEF BeginUpload
  <2>3. at[b] \in Streams
    BY <1>12 DEF BeginUpload, Usable
  <2>. QED  BY <1>12, <2>2, <2>3 DEF BeginUpload
<1>13. ASSUME NEW t \in Threads, Activate(t) PROVE TypeOK'
  <2>1. DeviceOf(job[t].s) \in Devices
    BY <1>13, StreamFacts DEF Activate
  <2>. QED  BY <1>13, <2>1 DEF Activate
<1>14. ASSUME NEW t \in Threads, ActivateFails(t) PROVE TypeOK'
  BY <1>14, UndoneFacts DEF ActivateFails
<1>15. ASSUME NEW t \in Threads, PerformCreate(t) PROVE TypeOK'
  BY <1>15 DEF PerformCreate
<1>16. ASSUME NEW t \in Threads, PerformAllocate(t) PROVE TypeOK'
  BY <1>16, ZenonT(40) DEF PerformAllocate
<1>17. ASSUME NEW t \in Threads, PerformDeallocate(t) PROVE TypeOK'
  <2>1. <<"free", job[t].b>> \in Ops
    BY <1>17 DEF PerformDeallocate
  <2>2. queue' \in [Streams -> Seq(Ops)] 
    BY <1>17, <2>1, AppendType DEF PerformDeallocate
  <2>3. memory' \in [Blocks -> {"blank", "written", "freed"}]
    BY <1>17 DEF PerformDeallocate
  <2>. QED  BY <1>17, <2>2, <2>3 DEF PerformDeallocate
<1>18. ASSUME NEW t \in Threads, PerformFails(t) PROVE TypeOK'
  BY <1>18, UndoneFacts DEF PerformFails
<1>19. ASSUME NEW t \in Threads, Restore(t) PROVE TypeOK'
  BY <1>19 DEF Restore
<1>20. ASSUME NEW t \in Threads, RestoreFails(t) PROVE TypeOK'
  BY <1>20 DEF RestoreFails
<1>21. ASSUME NEW t \in Threads, NEW e \in Events, CreateEvent(t, e) PROVE TypeOK'
  BY <1>21 DEF CreateEvent
<1>22. ASSUME NEW t \in Threads, CreateEventFails(t) PROVE TypeOK'
  BY <1>22 DEF CreateEventFails
<1>23. ASSUME NEW t \in Threads, Record(t) PROVE TypeOK'
  <2>1. <<"record", event[t][1]>> \in Ops
    BY <1>23 DEF Record
  <2>2. queue' \in [Streams -> Seq(Ops)]
    BY <1>23, <2>1, AppendType DEF Record
  <2>. QED  BY <1>23, <2>2 DEF Record
<1>24. ASSUME NEW t \in Threads, Wait(t) PROVE TypeOK'
  <2>1. <<"wait", event[t][1]>> \in Ops
    BY <1>24 DEF Wait
  <2>2. queue' \in [Streams -> Seq(Ops)]
    BY <1>24, <2>1, AppendType DEF Wait
  <2>. QED  BY <1>24, <2>2 DEF Wait
<1>25. ASSUME NEW t \in Threads, OrderFails(t) PROVE TypeOK'
  BY <1>25 DEF OrderFails
<1>26. ASSUME NEW t \in Threads, Destroy(t) PROVE TypeOK'
  BY <1>26 DEF Destroy
<1>27. ASSUME NEW t \in Threads, DestroyFails(t) PROVE TypeOK'
  BY <1>27 DEF DestroyFails
<1>28. ASSUME NEW t \in Threads, Synchronize(t) PROVE TypeOK'
  BY <1>28 DEF Synchronize
<1>29. ASSUME NEW t \in Threads, SynchronizeFails(t) PROVE TypeOK'
  BY <1>29, ZenonT(40) DEF SynchronizeFails
<1>30. ASSUME UNCHANGED vars PROVE TypeOK'
  BY <1>30 DEF vars
<1> HIDE DEF TypeOK, Calls
<1>. QED
  BY <1>1, <1>2, <1>3, <1>4, <1>5, <1>6, <1>7, <1>8, <1>9, <1>10, <1>11, <1>12, <1>13,
     <1>14, <1>15, <1>16, <1>17, <1>18, <1>19, <1>20, <1>21, <1>22, <1>23, <1>24, <1>25,
     <1>26, <1>27, <1>28, <1>29, <1>30
     DEF Next

LEMMA CallsStep == TypeOK /\ Calls /\ [Next]_vars => Calls'
<1> SUFFICES ASSUME TypeOK, Calls, [Next]_vars PROVE Calls'
  OBVIOUS
<1>0. /\ pc \in [Threads -> PCs] /\ job \in [Threads -> Jobs]
      /\ event \in [Threads -> Events \X Devices \cup {NoEvent}]
      /\ saved \in [Threads -> Devices \cup {None}] /\ active \in [Threads -> Devices]
      /\ at \in [Blocks -> Streams \cup {NoStream}]
      /\ block \in [Blocks -> {"none", "making", "live", "freeing", "freed", "lost"}]
  BY DEF TypeOK
<1> USE <1>0, StreamFacts, GpuAssumption DEF Calls, CallOK, PCs, Kinds, Jobs, NoJob, Job,
        Goto, Start, End, threads, calls, gpu, buffers, data
<1>1. ASSUME NEW s \in Streams, Execute(s) PROVE Calls'
  BY <1>1 DEF Execute
<1>2. ASSUME NEW s \in Streams, StreamDies(s) PROVE Calls'
  BY <1>2 DEF StreamDies
<1>3. ASSUME NEW b \in Blocks, Compute(b) PROVE Calls'
  BY <1>3 DEF Compute
<1>4. ASSUME NEW b \in Blocks, Consume(b) PROVE Calls'
  BY <1>4 DEF Consume
<1>5. ASSUME NEW b \in Blocks, LetGo(b) PROVE Calls'
  BY <1>5 DEF LetGo
<1>6. ASSUME NEW t \in Threads, NEW d \in Devices, Select(t, d) PROVE Calls'
  BY <1>6 DEF Select
<1>7. ASSUME NEW t \in Threads, NEW s \in Streams, BeginCreate(t, s) PROVE Calls'
  BY <1>7 DEF BeginCreate
<1>8. ASSUME NEW t \in Threads, NEW b \in Blocks, NEW s \in Streams, BeginAllocate(t, b, s)
      PROVE  Calls'
  BY <1>8 DEF BeginAllocate
<1>9. ASSUME NEW t \in Threads, NEW b \in Blocks, NEW s \in Streams, BeginHandoff(t, b, s)
      PROVE  Calls'
  BY <1>9 DEF BeginHandoff, Usable
<1>10. ASSUME NEW t \in Threads, NEW b \in Blocks, BeginDeallocate(t, b) PROVE Calls'
  BY <1>10 DEF BeginDeallocate
<1>11. ASSUME NEW t \in Threads, NEW b \in Blocks, BeginCopy(t, b) PROVE Calls'
  BY <1>11 DEF BeginCopy, Usable
<1>12. ASSUME NEW t \in Threads, NEW b \in Blocks, BeginUpload(t, b) PROVE Calls'
  BY <1>12 DEF BeginUpload, Usable
<1>13. ASSUME NEW t \in Threads, Activate(t) PROVE Calls'
  BY <1>13 DEF Activate
<1>14. ASSUME NEW t \in Threads, ActivateFails(t) PROVE Calls'
  BY <1>14, UndoneFacts, SMTT(30) DEF ActivateFails
<1>15. ASSUME NEW t \in Threads, PerformCreate(t) PROVE Calls'
  BY <1>15 DEF PerformCreate
<1>16. ASSUME NEW t \in Threads, PerformAllocate(t) PROVE Calls'
  BY <1>16 DEF PerformAllocate
<1>17. ASSUME NEW t \in Threads, PerformDeallocate(t) PROVE Calls'
  BY <1>17 DEF PerformDeallocate
<1>18. ASSUME NEW t \in Threads, PerformFails(t) PROVE Calls'
  BY <1>18, UndoneFacts DEF PerformFails
<1>19. ASSUME NEW t \in Threads, Restore(t) PROVE Calls'
  BY <1>19 DEF Restore
<1>20. ASSUME NEW t \in Threads, RestoreFails(t) PROVE Calls'
  BY <1>20 DEF RestoreFails
<1>21. ASSUME NEW t \in Threads, NEW e \in Events, CreateEvent(t, e) PROVE Calls'
  BY <1>21 DEF CreateEvent
<1>22. ASSUME NEW t \in Threads, CreateEventFails(t) PROVE Calls'
  BY <1>22 DEF CreateEventFails
<1>23. ASSUME NEW t \in Threads, Record(t) PROVE Calls'
  BY <1>23 DEF Record
<1>24. ASSUME NEW t \in Threads, Wait(t) PROVE Calls'
  BY <1>24 DEF Wait
<1>25. ASSUME NEW t \in Threads, OrderFails(t) PROVE Calls'
  BY <1>25 DEF OrderFails
<1>26. ASSUME NEW t \in Threads, Destroy(t) PROVE Calls'
  BY <1>26 DEF Destroy
<1>27. ASSUME NEW t \in Threads, DestroyFails(t) PROVE Calls'
  BY <1>27 DEF DestroyFails
<1>28. ASSUME NEW t \in Threads, Synchronize(t) PROVE Calls'
  BY <1>28 DEF Synchronize
<1>29. ASSUME NEW t \in Threads, SynchronizeFails(t) PROVE Calls'
  BY <1>29 DEF SynchronizeFails
<1>30. ASSUME UNCHANGED vars PROVE Calls'
  BY <1>30 DEF vars
<1> HIDE DEF Calls
<1>. QED
  BY <1>1, <1>2, <1>3, <1>4, <1>5, <1>6, <1>7, <1>8, <1>9, <1>10, <1>11, <1>12, <1>13,
     <1>14, <1>15, <1>16, <1>17, <1>18, <1>19, <1>20, <1>21, <1>22, <1>23, <1>24, <1>25,
     <1>26, <1>27, <1>28, <1>29, <1>30
     DEF Next
LEMMA CallsAlways == Spec => [](TypeOK /\ Calls)
BY CallsInit, TypeStep, CallsStep, PTL DEF Spec

\* Every variable keeps its type: a native call is made on a stream, and on a buffer, that
\* the code has at hand.
THEOREM TypeCorrect == Spec => []TypeOK
BY CallsAlways, PTL
-------------------------------------------------------------------------------
(***************************************************************************)
(* A buffer between its allocation and its release                         *)
(***************************************************************************)
Under(t) == pc[t] \in {"activate", "perform"}

\* A call that makes a buffer or takes one back has it to itself; one that hands it
\* on or copies it pins it.
Pins ==
  \A t \in Threads :
    /\ Under(t) /\ job[t].kind = "allocate" =>
         block[job[t].b] = "making" /\ at[job[t].b] = job[t].s
    /\ Under(t) /\ job[t].kind = "deallocate" =>
         block[job[t].b] = "freeing" /\ at[job[t].b] = job[t].s
    /\ job[t].kind \in {"handoff", "copy", "upload"} => block[job[t].b] = "live"
    /\ \A u \in Threads \ {t} :
         /\ Under(t) /\ job[t].kind \in {"allocate", "deallocate"}
         /\ Under(u) /\ job[u].kind \in {"allocate", "deallocate"}
         => job[t].b # job[u].b

LEMMA PinsInit == Init => Pins
<1> SUFFICES ASSUME Init PROVE Pins
  OBVIOUS
<1>1. \A t \in Threads : pc[t] = "idle" /\ job[t].kind = "none"
  BY DEF Init, NoJob
<1>. QED  BY <1>1 DEF Pins, Under

LEMMA PinsStep == TypeOK /\ Calls /\ Pins /\ [Next]_vars => Pins'
<1> SUFFICES ASSUME TypeOK, Calls, Pins, [Next]_vars PROVE Pins'
  OBVIOUS
<1>0. /\ pc \in [Threads -> PCs] /\ job \in [Threads -> Jobs]
      /\ at \in [Blocks -> Streams \cup {NoStream}]
      /\ block \in [Blocks -> {"none", "making", "live", "freeing", "freed", "lost"}]
      /\ \A t \in Threads : CallOK(t)
  BY DEF TypeOK, Calls
<1> USE <1>0, StreamFacts DEF Pins, Under, CallOK, PCs, Kinds, Jobs, NoJob, Job, Goto,
        Start, End,
        threads, calls, gpu, buffers, data
<1>1. ASSUME NEW s \in Streams, Execute(s) PROVE Pins'
  BY <1>1 DEF Execute
<1>2. ASSUME NEW s \in Streams, StreamDies(s) PROVE Pins'
  BY <1>2 DEF StreamDies
<1>3. ASSUME NEW b \in Blocks, Compute(b) PROVE Pins'
  BY <1>3 DEF Compute
<1>4. ASSUME NEW b \in Blocks, Consume(b) PROVE Pins'
  BY <1>4 DEF Consume
<1>5. ASSUME NEW b \in Blocks, LetGo(b) PROVE Pins'
  BY <1>5 DEF LetGo
<1>6. ASSUME NEW t \in Threads, NEW d \in Devices, Select(t, d) PROVE Pins'
  BY <1>6 DEF Select
<1>7. ASSUME NEW t \in Threads, NEW s \in Streams, BeginCreate(t, s) PROVE Pins'
  BY <1>7 DEF BeginCreate
<1>8. ASSUME NEW t \in Threads, NEW b \in Blocks, NEW s \in Streams, BeginAllocate(t, b, s)
      PROVE  Pins'
  BY <1>8 DEF BeginAllocate
<1>9. ASSUME NEW t \in Threads, NEW b \in Blocks, NEW s \in Streams, BeginHandoff(t, b, s)
      PROVE  Pins'
  BY <1>9 DEF BeginHandoff, Usable
<1>10. ASSUME NEW t \in Threads, NEW b \in Blocks, BeginDeallocate(t, b) PROVE Pins'
  BY <1>10 DEF BeginDeallocate
<1>11. ASSUME NEW t \in Threads, NEW b \in Blocks, BeginCopy(t, b) PROVE Pins'
  BY <1>11 DEF BeginCopy, Usable
<1>12. ASSUME NEW t \in Threads, NEW b \in Blocks, BeginUpload(t, b) PROVE Pins'
  BY <1>12 DEF BeginUpload, Usable
<1>13. ASSUME NEW t \in Threads, Activate(t) PROVE Pins'
  BY <1>13 DEF Activate
<1>14. ASSUME NEW t \in Threads, ActivateFails(t) PROVE Pins'
  BY <1>14, UndoneFacts DEF ActivateFails
<1>15. ASSUME NEW t \in Threads, PerformCreate(t) PROVE Pins'
  BY <1>15 DEF PerformCreate
<1>16. ASSUME NEW t \in Threads, PerformAllocate(t) PROVE Pins'
  BY <1>16 DEF PerformAllocate
<1>17. ASSUME NEW t \in Threads, PerformDeallocate(t) PROVE Pins'
  BY <1>17 DEF PerformDeallocate
<1>18. ASSUME NEW t \in Threads, PerformFails(t) PROVE Pins'
  BY <1>18, UndoneFacts DEF PerformFails
<1>19. ASSUME NEW t \in Threads, Restore(t) PROVE Pins'
  BY <1>19 DEF Restore
<1>20. ASSUME NEW t \in Threads, RestoreFails(t) PROVE Pins'
  BY <1>20 DEF RestoreFails
<1>21. ASSUME NEW t \in Threads, NEW e \in Events, CreateEvent(t, e) PROVE Pins'
  BY <1>21 DEF CreateEvent
<1>22. ASSUME NEW t \in Threads, CreateEventFails(t) PROVE Pins'
  BY <1>22 DEF CreateEventFails
<1>23. ASSUME NEW t \in Threads, Record(t) PROVE Pins'
  BY <1>23 DEF Record
<1>24. ASSUME NEW t \in Threads, Wait(t) PROVE Pins'
  BY <1>24 DEF Wait
<1>25. ASSUME NEW t \in Threads, OrderFails(t) PROVE Pins'
  BY <1>25 DEF OrderFails
<1>26. ASSUME NEW t \in Threads, Destroy(t) PROVE Pins'
  BY <1>26 DEF Destroy
<1>27. ASSUME NEW t \in Threads, DestroyFails(t) PROVE Pins'
  BY <1>27 DEF DestroyFails
<1>28. ASSUME NEW t \in Threads, Synchronize(t) PROVE Pins'
  BY <1>28 DEF Synchronize
<1>29. ASSUME NEW t \in Threads, SynchronizeFails(t) PROVE Pins'
  BY <1>29 DEF SynchronizeFails
<1>30. ASSUME UNCHANGED vars PROVE Pins'
  BY <1>30 DEF vars
<1> HIDE DEF Pins
<1>. QED
  BY <1>1, <1>2, <1>3, <1>4, <1>5, <1>6, <1>7, <1>8, <1>9, <1>10, <1>11, <1>12, <1>13,
     <1>14, <1>15, <1>16, <1>17, <1>18, <1>19, <1>20, <1>21, <1>22, <1>23, <1>24, <1>25,
     <1>26, <1>27, <1>28, <1>29, <1>30
     DEF Next

LEMMA PinsAlways == Spec => [](TypeOK /\ Calls /\ Pins)
BY CallsAlways, PinsInit, PinsStep, PTL DEF Spec
-------------------------------------------------------------------------------
(***************************************************************************)
(* The active device                                                       *)
(***************************************************************************)
\* Inside device_activation, `previous` is the device to go back to.
DevicesInv ==
  /\ \A t \in Threads :
       /\ pc[t] = "perform" => active[t] = DeviceOf(job[t].s)
       /\ t \notin strayed => chosen[t] = IF saved[t] = None THEN active[t] ELSE saved[t]
  /\ \A b \in Blocks : block[b] = "live" => place[b] = DeviceOf(at[b])

LEMMA DevicesInit == Init => DevicesInv
BY DEF Init, DevicesInv

LEMMA DevicesStep == TypeOK /\ Calls /\ Pins /\ DevicesInv /\ [Next]_vars => DevicesInv'
<1> SUFFICES ASSUME TypeOK, Calls, Pins, DevicesInv, [Next]_vars PROVE DevicesInv'
  OBVIOUS
<1>0. /\ active \in [Threads -> Devices] /\ chosen \in [Threads -> Devices]
      /\ strayed \subseteq Threads /\ saved \in [Threads -> Devices \cup {None}]
      /\ pc \in [Threads -> PCs] /\ job \in [Threads -> Jobs]
      /\ at \in [Blocks -> Streams \cup {NoStream}]
      /\ place \in [Blocks -> Devices \cup {None}]
      /\ block \in [Blocks -> {"none", "making", "live", "freeing", "freed", "lost"}]
      /\ None \notin Devices /\ \A t \in Threads : CallOK(t)
  BY GpuAssumption DEF TypeOK, Calls
<1> USE <1>0 DEF DevicesInv, CallOK, PCs, Kinds, Jobs, NoJob, Job, Goto, Start, End,
        threads, calls, gpu, buffers, data
<1>1. ASSUME NEW s \in Streams, Execute(s) PROVE DevicesInv'
  BY <1>1 DEF Execute
<1>2. ASSUME NEW s \in Streams, StreamDies(s) PROVE DevicesInv'
  BY <1>2 DEF StreamDies
<1>3. ASSUME NEW b \in Blocks, Compute(b) PROVE DevicesInv'
  BY <1>3 DEF Compute
<1>4. ASSUME NEW b \in Blocks, Consume(b) PROVE DevicesInv'
  BY <1>4 DEF Consume
<1>5. ASSUME NEW b \in Blocks, LetGo(b) PROVE DevicesInv'
  BY <1>5 DEF LetGo
<1>6. ASSUME NEW t \in Threads, NEW d \in Devices, Select(t, d) PROVE DevicesInv'
  BY <1>6 DEF Select
<1>7. ASSUME NEW t \in Threads, NEW s \in Streams, BeginCreate(t, s) PROVE DevicesInv'
  BY <1>7 DEF BeginCreate
<1>8. ASSUME NEW t \in Threads, NEW b \in Blocks, NEW s \in Streams, BeginAllocate(t, b, s)
      PROVE  DevicesInv'
  BY <1>8 DEF BeginAllocate
<1>9. ASSUME NEW t \in Threads, NEW b \in Blocks, NEW s \in Streams, BeginHandoff(t, b, s)
      PROVE  DevicesInv'
  BY <1>9 DEF BeginHandoff, Usable
<1>10. ASSUME NEW t \in Threads, NEW b \in Blocks, BeginDeallocate(t, b) PROVE DevicesInv'
  BY <1>10 DEF BeginDeallocate
<1>11. ASSUME NEW t \in Threads, NEW b \in Blocks, BeginCopy(t, b) PROVE DevicesInv'
  BY <1>11 DEF BeginCopy, Usable
<1>12. ASSUME NEW t \in Threads, NEW b \in Blocks, BeginUpload(t, b) PROVE DevicesInv'
  BY <1>12 DEF BeginUpload, Usable
<1>13. ASSUME NEW t \in Threads, Activate(t) PROVE DevicesInv'
  BY <1>13 DEF Activate
<1>14. ASSUME NEW t \in Threads, ActivateFails(t) PROVE DevicesInv'
  BY <1>14, UndoneFacts DEF ActivateFails
<1>15. ASSUME NEW t \in Threads, PerformCreate(t) PROVE DevicesInv'
  BY <1>15 DEF PerformCreate
<1>16. ASSUME NEW t \in Threads, PerformAllocate(t) PROVE DevicesInv'
  BY <1>16 DEF PerformAllocate, Pins, Under
<1>17. ASSUME NEW t \in Threads, PerformDeallocate(t) PROVE DevicesInv'
  BY <1>17 DEF PerformDeallocate
<1>18. ASSUME NEW t \in Threads, PerformFails(t) PROVE DevicesInv'
  BY <1>18, UndoneFacts DEF PerformFails
<1>19. ASSUME NEW t \in Threads, Restore(t) PROVE DevicesInv'
  BY <1>19 DEF Restore
<1>20. ASSUME NEW t \in Threads, RestoreFails(t) PROVE DevicesInv'
  BY <1>20 DEF RestoreFails
<1>21. ASSUME NEW t \in Threads, NEW e \in Events, CreateEvent(t, e) PROVE DevicesInv'
  BY <1>21 DEF CreateEvent
<1>22. ASSUME NEW t \in Threads, CreateEventFails(t) PROVE DevicesInv'
  BY <1>22 DEF CreateEventFails
<1>23. ASSUME NEW t \in Threads, Record(t) PROVE DevicesInv'
  BY <1>23 DEF Record
<1>24. ASSUME NEW t \in Threads, Wait(t) PROVE DevicesInv'
  BY <1>24 DEF Wait
<1>25. ASSUME NEW t \in Threads, OrderFails(t) PROVE DevicesInv'
  BY <1>25 DEF OrderFails
<1>26. ASSUME NEW t \in Threads, Destroy(t) PROVE DevicesInv'
  BY <1>26 DEF Destroy
<1>27. ASSUME NEW t \in Threads, DestroyFails(t) PROVE DevicesInv'
  BY <1>27 DEF DestroyFails
<1>28. ASSUME NEW t \in Threads, Synchronize(t) PROVE DevicesInv'
  BY <1>28 DEF Synchronize
<1>29. ASSUME NEW t \in Threads, SynchronizeFails(t) PROVE DevicesInv'
  BY <1>29 DEF SynchronizeFails
<1>30. ASSUME UNCHANGED vars PROVE DevicesInv'
  BY <1>30 DEF vars
<1> HIDE DEF DevicesInv
<1>. QED
  BY <1>1, <1>2, <1>3, <1>4, <1>5, <1>6, <1>7, <1>8, <1>9, <1>10, <1>11, <1>12, <1>13,
     <1>14, <1>15, <1>16, <1>17, <1>18, <1>19, <1>20, <1>21, <1>22, <1>23, <1>24, <1>25,
     <1>26, <1>27, <1>28, <1>29, <1>30
     DEF Next

\* device_activation: a call that creates a stream, allocates or deallocates is made on the
\* device of the stream, where the memory comes from.  Outside of it a thread is on the device
\* that the program selected in it, whichever call failed, unless it was the restore itself:
\* so are the native calls of a handoff and of memcpy, which is the buffer's device only if
\* the program selected that.
THEOREM DevicesAreKept == Spec => []DevicesKept
<1>1. TypeOK /\ Calls /\ DevicesInv => DevicesKept
  BY DEF TypeOK, Calls, CallOK, DevicesInv, DevicesKept
<1>. QED  BY <1>1, PinsAlways, DevicesInit, DevicesStep, PTL DEF Spec
-------------------------------------------------------------------------------
(***************************************************************************)
(* Events                                                                  *)
(***************************************************************************)
\* A thread holds a live event, which no other thread holds.
EventsInv ==
  /\ EventsReturned
  /\ \A t \in Threads : event[t] # NoEvent =>
       /\ events[event[t][1]] = "live"
       /\ \A u \in Threads \ {t} : event[u] # NoEvent => event[u][1] # event[t][1]

LEMMA EventsInit == Init => EventsInv
BY DEF Init, EventsInv, EventsReturned

LEMMA EventsStep == TypeOK /\ Calls /\ EventsInv /\ [Next]_vars => EventsInv'
<1> SUFFICES ASSUME TypeOK, Calls, EventsInv, [Next]_vars PROVE EventsInv'
  OBVIOUS
<1>0. /\ event \in [Threads -> Events \X Devices \cup {NoEvent}]
      /\ active \in [Threads -> Devices]
      /\ events \in [Events -> {"none", "live", "lost"}]
      /\ pc \in [Threads -> PCs] /\ \A t \in Threads : CallOK(t)
      /\ NoEvent \notin Events \X Devices
  BY StreamFacts DEF TypeOK, Calls
<1> USE <1>0 DEF EventsInv, EventsReturned, CallOK, PCs, Goto, Start, End, threads, calls,
        gpu,
        buffers, data
<1>1. ASSUME NEW s \in Streams, Execute(s) PROVE EventsInv'
  BY <1>1 DEF Execute
<1>2. ASSUME NEW s \in Streams, StreamDies(s) PROVE EventsInv'
  BY <1>2 DEF StreamDies
<1>3. ASSUME NEW b \in Blocks, Compute(b) PROVE EventsInv'
  BY <1>3 DEF Compute
<1>4. ASSUME NEW b \in Blocks, Consume(b) PROVE EventsInv'
  BY <1>4 DEF Consume
<1>5. ASSUME NEW b \in Blocks, LetGo(b) PROVE EventsInv'
  BY <1>5 DEF LetGo
<1>6. ASSUME NEW t \in Threads, NEW d \in Devices, Select(t, d) PROVE EventsInv'
  BY <1>6 DEF Select
<1>7. ASSUME NEW t \in Threads, NEW s \in Streams, BeginCreate(t, s) PROVE EventsInv'
  BY <1>7 DEF BeginCreate
<1>8. ASSUME NEW t \in Threads, NEW b \in Blocks, NEW s \in Streams, BeginAllocate(t, b, s)
      PROVE  EventsInv'
  BY <1>8 DEF BeginAllocate
<1>9. ASSUME NEW t \in Threads, NEW b \in Blocks, NEW s \in Streams, BeginHandoff(t, b, s)
      PROVE  EventsInv'
  BY <1>9 DEF BeginHandoff
<1>10. ASSUME NEW t \in Threads, NEW b \in Blocks, BeginDeallocate(t, b) PROVE EventsInv'
  BY <1>10 DEF BeginDeallocate
<1>11. ASSUME NEW t \in Threads, NEW b \in Blocks, BeginCopy(t, b) PROVE EventsInv'
  BY <1>11 DEF BeginCopy
<1>12. ASSUME NEW t \in Threads, NEW b \in Blocks, BeginUpload(t, b) PROVE EventsInv'
  BY <1>12 DEF BeginUpload
<1>13. ASSUME NEW t \in Threads, Activate(t) PROVE EventsInv'
  BY <1>13 DEF Activate
<1>14. ASSUME NEW t \in Threads, ActivateFails(t) PROVE EventsInv'
  BY <1>14 DEF ActivateFails
<1>15. ASSUME NEW t \in Threads, PerformCreate(t) PROVE EventsInv'
  BY <1>15 DEF PerformCreate
<1>16. ASSUME NEW t \in Threads, PerformAllocate(t) PROVE EventsInv'
  BY <1>16 DEF PerformAllocate
<1>17. ASSUME NEW t \in Threads, PerformDeallocate(t) PROVE EventsInv'
  BY <1>17 DEF PerformDeallocate
<1>18. ASSUME NEW t \in Threads, PerformFails(t) PROVE EventsInv'
  BY <1>18 DEF PerformFails
<1>19. ASSUME NEW t \in Threads, Restore(t) PROVE EventsInv'
  BY <1>19 DEF Restore
<1>20. ASSUME NEW t \in Threads, RestoreFails(t) PROVE EventsInv'
  BY <1>20 DEF RestoreFails
<1>21. ASSUME NEW t \in Threads, NEW e \in Events, CreateEvent(t, e) PROVE EventsInv'
  BY <1>21 DEF CreateEvent
<1>22. ASSUME NEW t \in Threads, CreateEventFails(t) PROVE EventsInv'
  BY <1>22 DEF CreateEventFails
<1>23. ASSUME NEW t \in Threads, Record(t) PROVE EventsInv'
  BY <1>23 DEF Record
<1>24. ASSUME NEW t \in Threads, Wait(t) PROVE EventsInv'
  BY <1>24 DEF Wait
<1>25. ASSUME NEW t \in Threads, OrderFails(t) PROVE EventsInv'
  BY <1>25 DEF OrderFails
<1>26. ASSUME NEW t \in Threads, Destroy(t) PROVE EventsInv'
  BY <1>26 DEF Destroy
<1>27. ASSUME NEW t \in Threads, DestroyFails(t) PROVE EventsInv'
  BY <1>27 DEF DestroyFails
<1>28. ASSUME NEW t \in Threads, Synchronize(t) PROVE EventsInv'
  BY <1>28 DEF Synchronize
<1>29. ASSUME NEW t \in Threads, SynchronizeFails(t) PROVE EventsInv'
  BY <1>29 DEF SynchronizeFails
<1>30. ASSUME UNCHANGED vars PROVE EventsInv'
  BY <1>30 DEF vars
<1> HIDE DEF EventsInv, EventsReturned
<1>. QED
  BY <1>1, <1>2, <1>3, <1>4, <1>5, <1>6, <1>7, <1>8, <1>9, <1>10, <1>11, <1>12, <1>13,
     <1>14, <1>15, <1>16, <1>17, <1>18, <1>19, <1>20, <1>21, <1>22, <1>23, <1>24, <1>25,
     <1>26, <1>27, <1>28, <1>29, <1>30
     DEF Next

LEMMA EventsAlways == Spec => [](TypeOK /\ Calls /\ EventsInv)
BY CallsAlways, EventsInit, EventsStep, PTL DEF Spec

\* event_order: whatever fails half way, an event that the driver still has is that of a
\* call under way.
THEOREM NoEventLeaks == Spec => []EventsReturned
<1>1. EventsInv => EventsReturned
  BY DEF EventsInv
<1>. QED  BY <1>1, EventsAlways, PTL
-------------------------------------------------------------------------------
(***************************************************************************)
(* The life of a stream                                                    *)
(***************************************************************************)
LifeInv ==
  /\ \A s \in Streams \ Created : life[s] = "live"
  /\ \A t \in Threads : job[t].kind \in {"allocate", "deallocate"} => life[job[t].s] = "live"
  /\ \A b \in Blocks : block[b] \in {"making", "live", "freeing"} => life[at[b]] = "live"

LEMMA LifeInit == Init => LifeInv
BY DEF Init, LifeInv, NoJob

LEMMA LifeStep == TypeOK /\ Calls /\ Pins /\ LifeInv /\ [Next]_vars => LifeInv'
<1> SUFFICES ASSUME TypeOK, Calls, Pins, LifeInv, [Next]_vars PROVE LifeInv'
  OBVIOUS
<1>0. /\ life \in [Streams -> {"none", "live", "destroyed"}]
      /\ pc \in [Threads -> PCs] /\ job \in [Threads -> Jobs]
      /\ at \in [Blocks -> Streams \cup {NoStream}]
      /\ block \in [Blocks -> {"none", "making", "live", "freeing", "freed", "lost"}]
      /\ \A t \in Threads : CallOK(t)
      /\ \A b \in Blocks : block[b] # "none" => at[b] \in Streams
  BY DEF TypeOK, Calls
<1> USE <1>0 DEF LifeInv, CallOK, PCs, Kinds, Jobs, NoJob, Job, Goto, Start, End,
        threads, calls, gpu, buffers, data
<1>1. ASSUME NEW s \in Streams, Execute(s) PROVE LifeInv'
  BY <1>1 DEF Execute
<1>2. ASSUME NEW s \in Streams, StreamDies(s) PROVE LifeInv'
  BY <1>2 DEF StreamDies, InUse
<1>3. ASSUME NEW b \in Blocks, Compute(b) PROVE LifeInv'
  BY <1>3 DEF Compute
<1>4. ASSUME NEW b \in Blocks, Consume(b) PROVE LifeInv'
  BY <1>4 DEF Consume
<1>5. ASSUME NEW b \in Blocks, LetGo(b) PROVE LifeInv'
  BY <1>5 DEF LetGo
<1>6. ASSUME NEW t \in Threads, NEW d \in Devices, Select(t, d) PROVE LifeInv'
  BY <1>6 DEF Select
<1>7. ASSUME NEW t \in Threads, NEW s \in Streams, BeginCreate(t, s) PROVE LifeInv'
  BY <1>7 DEF BeginCreate
<1>8. ASSUME NEW t \in Threads, NEW b \in Blocks, NEW s \in Streams, BeginAllocate(t, b, s)
      PROVE  LifeInv'
  <2>1. life[s] = "live"
    BY <1>8, GpuAssumption DEF BeginAllocate, Wrappable, IsDefault, IsPerThread
  <2>. QED  BY <1>8, <2>1 DEF BeginAllocate
<1>9. ASSUME NEW t \in Threads, NEW b \in Blocks, NEW s \in Streams, BeginHandoff(t, b, s)
      PROVE  LifeInv'
  BY <1>9 DEF BeginHandoff, Usable
<1>10. ASSUME NEW t \in Threads, NEW b \in Blocks, BeginDeallocate(t, b) PROVE LifeInv'
  BY <1>10 DEF BeginDeallocate
<1>11. ASSUME NEW t \in Threads, NEW b \in Blocks, BeginCopy(t, b) PROVE LifeInv'
  BY <1>11 DEF BeginCopy, Usable
<1>12. ASSUME NEW t \in Threads, NEW b \in Blocks, BeginUpload(t, b) PROVE LifeInv'
  BY <1>12 DEF BeginUpload, Usable
<1>13. ASSUME NEW t \in Threads, Activate(t) PROVE LifeInv'
  BY <1>13 DEF Activate
<1>14. ASSUME NEW t \in Threads, ActivateFails(t) PROVE LifeInv'
  BY <1>14, UndoneFacts DEF ActivateFails
<1>15. ASSUME NEW t \in Threads, PerformCreate(t) PROVE LifeInv'
  BY <1>15 DEF PerformCreate
<1>16. ASSUME NEW t \in Threads, PerformAllocate(t) PROVE LifeInv'
  BY <1>16 DEF PerformAllocate, Pins, Under
<1>17. ASSUME NEW t \in Threads, PerformDeallocate(t) PROVE LifeInv'
  BY <1>17 DEF PerformDeallocate
<1>18. ASSUME NEW t \in Threads, PerformFails(t) PROVE LifeInv'
  BY <1>18, UndoneFacts DEF PerformFails
<1>19. ASSUME NEW t \in Threads, Restore(t) PROVE LifeInv'
  BY <1>19 DEF Restore
<1>20. ASSUME NEW t \in Threads, RestoreFails(t) PROVE LifeInv'
  BY <1>20 DEF RestoreFails
<1>21. ASSUME NEW t \in Threads, NEW e \in Events, CreateEvent(t, e) PROVE LifeInv'
  BY <1>21 DEF CreateEvent
<1>22. ASSUME NEW t \in Threads, CreateEventFails(t) PROVE LifeInv'
  BY <1>22 DEF CreateEventFails
<1>23. ASSUME NEW t \in Threads, Record(t) PROVE LifeInv'
  BY <1>23 DEF Record
<1>24. ASSUME NEW t \in Threads, Wait(t) PROVE LifeInv'
  BY <1>24 DEF Wait
<1>25. ASSUME NEW t \in Threads, OrderFails(t) PROVE LifeInv'
  BY <1>25 DEF OrderFails
<1>26. ASSUME NEW t \in Threads, Destroy(t) PROVE LifeInv'
  BY <1>26 DEF Destroy
<1>27. ASSUME NEW t \in Threads, DestroyFails(t) PROVE LifeInv'
  BY <1>27 DEF DestroyFails
<1>28. ASSUME NEW t \in Threads, Synchronize(t) PROVE LifeInv'
  BY <1>28 DEF Synchronize
<1>29. ASSUME NEW t \in Threads, SynchronizeFails(t) PROVE LifeInv'
  BY <1>29 DEF SynchronizeFails
<1>30. ASSUME UNCHANGED vars PROVE LifeInv'
  BY <1>30 DEF vars
<1> HIDE DEF LifeInv
<1>. QED
  BY <1>1, <1>2, <1>3, <1>4, <1>5, <1>6, <1>7, <1>8, <1>9, <1>10, <1>11, <1>12, <1>13,
     <1>14, <1>15, <1>16, <1>17, <1>18, <1>19, <1>20, <1>21, <1>22, <1>23, <1>24, <1>25,
     <1>26, <1>27, <1>28, <1>29, <1>30
     DEF Next

\* The finalizer of a buffer holds its stream: the stream exists when the memory is given
\* back on it, and when a handoff or a copy enqueues on it.
THEOREM StreamsOutliveBuffers == Spec => []StreamsOutlive
<1>1. Pins /\ LifeInv /\ TypeOK /\ Calls => StreamsOutlive
  BY DEF Pins, LifeInv, StreamsOutlive, TypeOK, Calls, CallOK
<1>. QED  BY <1>1, PinsAlways, LifeInit, LifeStep, PTL DEF Spec
-------------------------------------------------------------------------------
(***************************************************************************)
(* Queues: what is enqueued on a stream, and where                         *)
(***************************************************************************)
On(q, s, i, k, x) == i \in DOMAIN q[s] /\ q[s][i] = <<k, x>>
In(q, s, k, x) == \E i \in Nat : On(q, s, i, k, x)

QueueType == queue \in [Streams -> Seq(Ops)]

LEMMA OnFacts ==
  ASSUME QueueType, NEW s \in Streams, NEW i, NEW k, NEW x, On(queue, s, i, k, x)
  PROVE  /\ i \in Nat /\ 1 <= i /\ i <= Len(queue[s])
         /\ <<k, x>> \in Ops
         /\ queue[s] # <<>>
         /\ Enqueued(<<k, x>>)
         /\ \A l, y : On(queue, s, i, l, y) => l = k /\ y = x
<1>1. queue[s] \in Seq(Ops) /\ i \in DOMAIN queue[s] /\ queue[s][i] = <<k, x>>
  BY DEF QueueType, On
<1>2. i \in Nat /\ 1 <= i /\ i <= Len(queue[s]) /\ <<k, x>> \in Ops
  BY <1>1
<1>3. queue[s] # <<>>
  BY <1>1
<1>4. Enqueued(<<k, x>>)
  BY <1>1 DEF Enqueued
<1>5. \A l, y : <<l, y>> = <<k, x>> => l = k /\ y = x
  OBVIOUS
<1>. QED  BY <1>1, <1>2, <1>3, <1>4, <1>5 DEF On

LEMMA InFacts ==
  ASSUME QueueType, NEW s \in Streams
  PROVE  \A k, x : In(queue, s, k, x) =>
           queue[s] # <<>> /\ <<k, x>> \in Ops /\ Enqueued(<<k, x>>)
BY OnFacts DEF In

LEMMA InEnqueued ==
  ASSUME QueueType
  PROVE  \A k, x : Enqueued(<<k, x>>) <=> \E s \in Streams : In(queue, s, k, x)
<1>1. ASSUME NEW k, NEW x, Enqueued(<<k, x>>)
      PROVE  \E s \in Streams : In(queue, s, k, x)
  <2>1. PICK s \in Streams : \E i \in DOMAIN queue[s] : queue[s][i] = <<k, x>>
    BY <1>1 DEF Enqueued
  <2>2. PICK i \in DOMAIN queue[s] : queue[s][i] = <<k, x>>
    BY <2>1
  <2>3. i \in Nat
    BY DEF QueueType
  <2>. QED  BY <2>2, <2>3 DEF In, On
<1>. QED  BY <1>1, InFacts

\* An append adds one item, behind all others.
LEMMA OnAppend ==
  ASSUME QueueType, NEW s \in Streams, NEW k, NEW x, <<k, x>> \in Ops, Append1(s, <<k, x>>)
  PROVE  /\ \A r \in Streams, i \in Nat : \A l, y :
              On(queue', r, i, l, y) <=>
                \/ On(queue, r, i, l, y)
                \/ r = s /\ i = Len(queue[s]) + 1 /\ l = k /\ y = x
         /\ Len(queue[s]) \in Nat
         /\ \A i \in Nat : \A l, y : On(queue, s, i, l, y) => i <= Len(queue[s])
<1> DEFINE op == <<k, x>>
<1>0. \A l, y : <<l, y>> = op <=> l = k /\ y = x
  OBVIOUS
<1>1. queue[s] \in Seq(Ops) /\ Len(queue[s]) \in Nat
  BY DEF QueueType
<1>2. queue' = [queue EXCEPT ![s] = Append(queue[s], op)]
  BY DEF Append1
<1>3. /\ DOMAIN Append(queue[s], op) = 1 .. Len(queue[s]) + 1
      /\ \A i \in 1 .. Len(queue[s]) + 1 :
           Append(queue[s], op)[i] = IF i <= Len(queue[s]) THEN queue[s][i] ELSE op
      /\ DOMAIN queue[s] = 1 .. Len(queue[s])
  BY <1>1
<1>4. queue'[s] = Append(queue[s], op) /\ \A r \in Streams \ {s} : queue'[r] = queue[r]
  BY <1>2 DEF QueueType
<1> HIDE DEF op
<1>5. ASSUME NEW i \in Nat, NEW y
      PROVE  (i \in DOMAIN queue'[s] /\ queue'[s][i] = y) <=>
               \/ i \in DOMAIN queue[s] /\ queue[s][i] = y
               \/ i = Len(queue[s]) + 1 /\ y = op
  BY <1>1, <1>3, <1>4
<1>6. ASSUME NEW r \in Streams \ {s}, NEW i \in Nat, NEW l, NEW y
      PROVE  On(queue', r, i, l, y) <=> On(queue, r, i, l, y)
  BY <1>4 DEF On
<1>7. \A i \in Nat : \A l, y : On(queue, s, i, l, y) => i <= Len(queue[s])
  BY <1>3, <1>1 DEF On
<1>8. ASSUME NEW i \in Nat, NEW l, NEW y
      PROVE  On(queue', s, i, l, y) <=>
               \/ On(queue, s, i, l, y)
               \/ i = Len(queue[s]) + 1 /\ l = k /\ y = x
  <2>1. (i \in DOMAIN queue'[s] /\ queue'[s][i] = <<l, y>>) <=>
          \/ i \in DOMAIN queue[s] /\ queue[s][i] = <<l, y>>
          \/ i = Len(queue[s]) + 1 /\ <<l, y>> = op
    BY <1>5
  <2>2. <<l, y>> = op <=> l = k /\ y = x
    BY <1>0
  <2>. QED  BY <2>1, <2>2, Zenon DEF On
<1>. QED  BY <1>1, <1>6, <1>7, <1>8

LEMMA InAppend ==
  ASSUME QueueType, NEW s, NEW k, NEW x, <<k, x>> \in Ops, Append1(s, <<k, x>>)
  PROVE  \A r \in Streams : \A l, y :
           In(queue', r, l, y) <=> In(queue, r, l, y) \/ (r = s /\ l = k /\ y = x)
<1>1. CASE s \in Streams
  <2>1. Len(queue[s]) + 1 \in Nat
    BY <1>1, OnAppend
  <2>2. On(queue', s, Len(queue[s]) + 1, k, x)
    BY <1>1, <2>1, OnAppend
  <2>. QED  BY <1>1, <2>1, <2>2, OnAppend DEF In
<1>2. CASE s \notin Streams
  <2>1. queue' = queue
    BY <1>2 DEF Append1, QueueType
  <2>. QED  BY <1>2, <2>1
<1>. QED  BY <1>1, <1>2

\* Taking the first item moves the others up.
LEMMA OnTail ==
  ASSUME QueueType, NEW s \in Streams, queue[s] # <<>>,
         queue' = [queue EXCEPT ![s] = Tail(@)]
  PROVE  /\ On(queue, s, 1, Head(queue[s])[1], Head(queue[s])[2])
         /\ \A i \in Nat : \A k, x : On(queue', s, i, k, x) <=> i # 0 /\ On(queue, s, i + 1, k, x)
         /\ \A r \in Streams \ {s}, i \in Nat : \A k, x :
              On(queue', r, i, k, x) <=> On(queue, r, i, k, x)
<1>1. queue[s] \in Seq(Ops) /\ Len(queue[s]) \in Nat /\ Len(queue[s]) # 0
  BY DEF QueueType
<1>2. queue'[s] = Tail(queue[s]) /\ \A r \in Streams \ {s} : queue'[r] = queue[r]
  BY DEF QueueType
<1>3. /\ DOMAIN Tail(queue[s]) = 1 .. Len(queue[s]) - 1
      /\ \A i \in 1 .. Len(queue[s]) - 1 : Tail(queue[s])[i] = queue[s][i + 1]
      /\ DOMAIN queue[s] = 1 .. Len(queue[s])
      /\ Head(queue[s]) = queue[s][1]
  BY <1>1
<1>4. On(queue, s, 1, Head(queue[s])[1], Head(queue[s])[2])
  <2>1. Head(queue[s]) \in Ops
    BY <1>1
  <2>2. Head(queue[s]) = <<Head(queue[s])[1], Head(queue[s])[2]>>
    BY <2>1 DEF Ops
  <2>. QED  BY <1>1, <1>3, <2>2 DEF On
<1>5. ASSUME NEW i \in Nat, NEW k, NEW x
      PROVE  On(queue', s, i, k, x) <=> i # 0 /\ On(queue, s, i + 1, k, x)
  <2>1. i \in 1 .. Len(queue[s]) - 1 <=> i # 0 /\ i + 1 \in 1 .. Len(queue[s])
    BY <1>1
  <2>2. i \in 1 .. Len(queue[s]) - 1 => Tail(queue[s])[i] = queue[s][i + 1]
    BY <1>3
  <2>. QED  BY <1>2, <1>3, <2>1, <2>2, Zenon DEF On
<1>6. ASSUME NEW r \in Streams \ {s}, NEW i \in Nat, NEW k, NEW x
      PROVE  On(queue', r, i, k, x) <=> On(queue, r, i, k, x)
  BY <1>2 DEF On
<1>. QED  BY <1>4, <1>5, <1>6

LEMMA InTail ==
  ASSUME QueueType, NEW s \in Streams, queue[s] # <<>>,
         queue' = [queue EXCEPT ![s] = Tail(@)]
  PROVE  /\ In(queue, s, Head(queue[s])[1], Head(queue[s])[2])
         /\ \A r \in Streams : \A k, x : In(queue', r, k, x) => In(queue, r, k, x)
<1>0. In(queue, s, Head(queue[s])[1], Head(queue[s])[2])
  <2>1. On(queue, s, 1, Head(queue[s])[1], Head(queue[s])[2])
    BY OnTail
  <2>. QED  BY <2>1 DEF In
<1>1. ASSUME NEW k, NEW x, In(queue', s, k, x) PROVE In(queue, s, k, x)
  <2>1. PICK i \in Nat : On(queue', s, i, k, x)
    BY <1>1 DEF In
  <2>2. On(queue, s, i + 1, k, x)
    BY <2>1, OnTail, Zenon
  <2>3. i + 1 \in Nat
    OBVIOUS
  <2>. QED  BY <2>2, <2>3 DEF In
<1>2. ASSUME NEW r \in Streams \ {s}, NEW k, NEW x, In(queue', r, k, x)
      PROVE  In(queue, r, k, x)
  BY <1>2, OnTail DEF In
<1>. QED  BY <1>0, <1>1, <1>2
-------------------------------------------------------------------------------
(***************************************************************************)
(* Host buffers                                                            *)
(***************************************************************************)
\* Native, of the device that is active.
Meant(t, d, s) ==
  CASE IsDefault(s) -> <<d, Default>>
    [] IsPerThread(s) -> <<d, t>>
    [] OTHER -> s

LEMMA NativeMeant == \A t, s : Native(t, s) = Meant(t, active[t], s)
BY DEF Native, Meant

\* The thread whose memcpy enqueued a copy waits for the stream it is on.
Staged(t, b, s) ==
  /\ job[t].kind \in {"copy", "upload"} /\ job[t].b = b
  /\ pc[t] = "synchronize"
  /\ Meant(t, active[t], at[b]) = s
HostInv ==
  \A b \in Blocks \ unsynced, s \in Streams :
    In(queue, s, "copy", b) \/ In(queue, s, "upload", b) =>
      \E t \in Threads : Staged(t, b, s)

LEMMA HostInit == Init => HostInv
<1> SUFFICES ASSUME Init PROVE HostInv
  OBVIOUS
<1>1. \A s \in Streams : \A k, x : ~In(queue, s, k, x)
  BY DEF Init, In, On
<1>. QED  BY <1>1 DEF HostInv

LEMMA HostStep == TypeOK /\ Calls /\ Pins /\ HostInv /\ [Next]_vars => HostInv'
<1> SUFFICES ASSUME TypeOK, Calls, Pins, HostInv, [Next]_vars PROVE HostInv'
  OBVIOUS
<1>0. /\ pc \in [Threads -> PCs] /\ job \in [Threads -> Jobs]
      /\ active \in [Threads -> Devices]
      /\ at \in [Blocks -> Streams \cup {NoStream}]
      /\ unsynced \subseteq Blocks /\ QueueType
      /\ \A t \in Threads : CallOK(t)
      /\ \A b \in Blocks : block[b] # "none" => at[b] \in Streams
  BY DEF TypeOK, Calls, QueueType
<1> USE <1>0, NativeMeant DEF HostInv, Staged, CallOK, PCs, Kinds, Jobs, NoJob, Job, Goto,
        Start, End,
        threads, calls, gpu, buffers, data
<1>1. ASSUME NEW s \in Streams, Execute(s) PROVE HostInv'
  <2>1. \A r \in Streams : \A l, y : In(queue', r, l, y) => In(queue, r, l, y)
    BY <1>1, InTail DEF Execute
  <2>. QED  BY <1>1, <2>1 DEF Execute
<1>2. ASSUME NEW s \in Streams, StreamDies(s) PROVE HostInv'
  BY <1>2 DEF StreamDies
<1>3. ASSUME NEW b \in Blocks, Compute(b) PROVE HostInv'
  <2>1. <<"write", b>> \in Ops
    BY <1>3 DEF Compute, Ops
  <2>2. \A r \in Streams : \A l, y :
          In(queue', r, l, y) <=> In(queue, r, l, y) \/ (r = at[b] /\ l = "write" /\ y = b)
    BY <1>3, <2>1, InAppend DEF Compute
  <2>. QED  BY <1>3, <2>2 DEF Compute
<1>4. ASSUME NEW b \in Blocks, Consume(b) PROVE HostInv'
  <2>1. <<"read", b>> \in Ops
    BY <1>4 DEF Consume, Ops
  <2>2. \A r \in Streams : \A l, y :
          In(queue', r, l, y) <=>
            In(queue, r, l, y) \/ (r = export[b] /\ l = "read" /\ y = b)
    BY <1>4, <2>1, InAppend DEF Consume
  <2>. QED  BY <1>4, <2>2 DEF Consume
<1>5. ASSUME NEW b \in Blocks, LetGo(b) PROVE HostInv'
  BY <1>5 DEF LetGo
<1>6. ASSUME NEW t \in Threads, NEW d \in Devices, Select(t, d) PROVE HostInv'
  BY <1>6 DEF Select
<1>7. ASSUME NEW t \in Threads, NEW s \in Streams, BeginCreate(t, s) PROVE HostInv'
  BY <1>7 DEF BeginCreate
<1>8. ASSUME NEW t \in Threads, NEW b \in Blocks, NEW s \in Streams, BeginAllocate(t, b, s)
      PROVE  HostInv'
  BY <1>8 DEF BeginAllocate, Pins
<1>9. ASSUME NEW t \in Threads, NEW b \in Blocks, NEW s \in Streams, BeginHandoff(t, b, s)
      PROVE  HostInv'
  BY <1>9 DEF BeginHandoff
<1>10. ASSUME NEW t \in Threads, NEW b \in Blocks, BeginDeallocate(t, b) PROVE HostInv'
  BY <1>10 DEF BeginDeallocate
<1>11. ASSUME NEW t \in Threads, NEW b \in Blocks, BeginCopy(t, b) PROVE HostInv'
  <2>1. <<"copy", b>> \in Ops
    BY <1>11 DEF BeginCopy, Ops
  <2>2. \A r \in Streams : \A l, y :
          In(queue', r, l, y) <=>
            In(queue, r, l, y) \/ (r = Native(t, at[b]) /\ l = "copy" /\ y = b)
    BY <1>11, <2>1, InAppend DEF BeginCopy
  <2>. QED  BY <1>11, <2>2 DEF BeginCopy
<1>12. ASSUME NEW t \in Threads, NEW b \in Blocks, BeginUpload(t, b) PROVE HostInv'
  <2>1. <<"upload", b>> \in Ops
    BY <1>12 DEF BeginUpload, Ops
  <2>2. \A r \in Streams : \A l, y :
          In(queue', r, l, y) <=>
            In(queue, r, l, y) \/ (r = Native(t, at[b]) /\ l = "upload" /\ y = b)
    BY <1>12, <2>1, InAppend DEF BeginUpload
  <2>. QED  BY <1>12, <2>2 DEF BeginUpload
<1>13. ASSUME NEW t \in Threads, Activate(t) PROVE HostInv'
  BY <1>13 DEF Activate
<1>14. ASSUME NEW t \in Threads, ActivateFails(t) PROVE HostInv'
  BY <1>14 DEF ActivateFails
<1>15. ASSUME NEW t \in Threads, PerformCreate(t) PROVE HostInv'
  BY <1>15 DEF PerformCreate
<1>16. ASSUME NEW t \in Threads, PerformAllocate(t) PROVE HostInv'
  BY <1>16 DEF PerformAllocate
<1>17. ASSUME NEW t \in Threads, PerformDeallocate(t) PROVE HostInv'
  <2>1. <<"free", job[t].b>> \in Ops
    BY <1>17 DEF PerformDeallocate, Ops
  <2>2. \A r \in Streams : \A l, y : In(queue', r, l, y) => In(queue, r, l, y) \/ l = "free"
    BY <1>17, <2>1, InAppend DEF PerformDeallocate
  <2>. QED  BY <1>17, <2>2 DEF PerformDeallocate
<1>18. ASSUME NEW t \in Threads, PerformFails(t) PROVE HostInv'
  BY <1>18 DEF PerformFails
<1>19. ASSUME NEW t \in Threads, Restore(t) PROVE HostInv'
  BY <1>19 DEF Restore
<1>20. ASSUME NEW t \in Threads, RestoreFails(t) PROVE HostInv'
  BY <1>20 DEF RestoreFails
<1>21. ASSUME NEW t \in Threads, NEW e \in Events, CreateEvent(t, e) PROVE HostInv'
  BY <1>21 DEF CreateEvent
<1>22. ASSUME NEW t \in Threads, CreateEventFails(t) PROVE HostInv'
  BY <1>22 DEF CreateEventFails
<1>23. ASSUME NEW t \in Threads, Record(t) PROVE HostInv'
  <2>1. <<"record", event[t][1]>> \in Ops
    BY <1>23, <1>0 DEF Record, Ops, TypeOK
  <2>2. \A r \in Streams : \A l, y :
          In(queue', r, l, y) <=>
            In(queue, r, l, y) \/ (r = Native(t, at[job[t].b]) /\ l = "record" /\ y = event[t][1])
    BY <1>23, <2>1, InAppend DEF Record
  <2>. QED  BY <1>23, <2>2 DEF Record
<1>24. ASSUME NEW t \in Threads, Wait(t) PROVE HostInv'
  <2>1. <<"wait", event[t][1]>> \in Ops
    BY <1>24, <1>0 DEF Wait, Ops, TypeOK
  <2>2. \A r \in Streams : \A l, y :
          In(queue', r, l, y) <=>
            In(queue, r, l, y) \/ (r = Native(t, job[t].s) /\ l = "wait" /\ y = event[t][1])
    BY <1>24, <2>1, InAppend DEF Wait
  <2>. QED  BY <1>24, <2>2 DEF Wait
<1>25. ASSUME NEW t \in Threads, OrderFails(t) PROVE HostInv'
  BY <1>25 DEF OrderFails
<1>26. ASSUME NEW t \in Threads, Destroy(t) PROVE HostInv'
  BY <1>26 DEF Destroy
<1>27. ASSUME NEW t \in Threads, DestroyFails(t) PROVE HostInv'
  BY <1>27 DEF DestroyFails
<1>28. ASSUME NEW t \in Threads, Synchronize(t) PROVE HostInv'
  <2>1. queue[Native(t, at[job[t].b])] = <<>>
    BY <1>28 DEF Synchronize
  <2>2. \A s \in Streams : \A k, x : In(queue, s, k, x) => s # Meant(t, active[t], at[job[t].b])
    <3>1. \A s \in Streams : queue[s] = <<>> => \A k, x : ~In(queue, s, k, x)
      BY <1>0, InFacts
    <3>. QED  BY <2>1, <3>1, NativeMeant
  <2>. QED  BY <1>28, <2>2 DEF Synchronize
<1>29. ASSUME NEW t \in Threads, SynchronizeFails(t) PROVE HostInv'
  BY <1>29 DEF SynchronizeFails
<1>30. ASSUME UNCHANGED vars PROVE HostInv'
  BY <1>30 DEF vars
<1> HIDE DEF HostInv
<1>. QED
  BY <1>1, <1>2, <1>3, <1>4, <1>5, <1>6, <1>7, <1>8, <1>9, <1>10, <1>11, <1>12, <1>13,
     <1>14, <1>15, <1>16, <1>17, <1>18, <1>19, <1>20, <1>21, <1>22, <1>23, <1>24, <1>25,
     <1>26, <1>27, <1>28, <1>29, <1>30
     DEF Next

\* memcpy: the GPU has no copy between a buffer and a host buffer to do that no call waits
\* for, unless the wait itself failed and the caller was told.
THEOREM HostBytesAreSafe == Spec => []HostBytesSafe
<1>1. TypeOK /\ HostInv => HostBytesSafe
  <2> SUFFICES ASSUME TypeOK, HostInv, NEW b \in Blocks,
                      Enqueued(<<"copy", b>>) \/ Enqueued(<<"upload", b>>), b \notin unsynced
               PROVE  \E t \in Threads : job[t].kind \in {"copy", "upload"} /\ job[t].b = b
    BY DEF HostBytesSafe
  <2>1. QueueType
    BY DEF TypeOK, QueueType
  <2>2. \E s \in Streams : In(queue, s, "copy", b) \/ In(queue, s, "upload", b)
    BY <2>1, InEnqueued
  <2>. QED  BY <2>2 DEF HostInv, Staged
<1>. QED  BY <1>1, PinsAlways, HostInit, HostStep, PTL DEF Spec
-------------------------------------------------------------------------------
(***************************************************************************)
(* A program that is at home                                               *)
(*                                                                         *)
(* From here on the program exports, copies and frees a buffer where its   *)
(* stream means what it meant to allocate (AlwaysHome).  Without that the  *)
(* two properties below are false.                                         *)
(***************************************************************************)
Own(t, s) == IsPerThread(s) => s[2] = t

\* The kinds of items that are about a buffer, and those that keep to its stream.
Accesses == {"write", "upload", "copy", "read", "free"}
Ordered == {"write", "upload", "copy", "free"}

\* A call is made where the handles mean the streams.
CallsHome ==
  \A t \in Threads :
    /\ job[t].kind \in {"handoff", "copy", "upload"} =>
         active[t] = DeviceOf(at[job[t].b]) /\ Own(t, at[job[t].b])
    /\ job[t].kind = "handoff" => active[t] = DeviceOf(job[t].s) /\ Own(t, job[t].s)
    /\ job[t].kind = "deallocate" => Own(t, job[t].s)

\* Nothing is enqueued on a buffer that was never handed out, and what keeps to its stream
\* is on it.
Fresh(b) == block[b] \in {"none", "making"}
OnStream ==
  \A b \in Blocks :
    /\ Fresh(b) => memory[b] = "blank" /\ export[b] = NoStream
    /\ \A s \in Streams :
         /\ \A k \in Accesses : In(queue, s, k, b) => ~Fresh(b)
         /\ \A k \in Ordered : In(queue, s, k, b) => s = at[b]

LEMMA NativeHome ==
  ASSUME NEW t \in Threads, NEW s \in Streams, active[t] = DeviceOf(s), Own(t, s)
  PROVE  Native(t, s) = s
<1>1. CASE s \in Created \cup Foreign
  BY <1>1, GpuAssumption DEF Native
<1>2. CASE s \notin Created \cup Foreign
  <2>1. s = <<s[1], s[2]>>
    BY <1>2 DEF Streams
  <2>. QED  BY <2>1, <1>2 DEF Native, Own, DeviceOf, IsDefault, IsPerThread, Streams
<1>. QED  BY <1>1, <1>2

LEMMA HomeInit == Init => CallsHome /\ OnStream
<1> SUFFICES ASSUME Init PROVE CallsHome /\ OnStream
  OBVIOUS
<1>1. \A s \in Streams : \A k, x : ~In(queue, s, k, x)
  BY DEF Init, In, On
<1>2. \A t \in Threads : job[t].kind = "none"
  BY DEF Init, NoJob
<1>3. \A b \in Blocks : memory[b] = "blank" /\ export[b] = NoStream
  BY DEF Init
<1>. QED  BY <1>1, <1>2, <1>3 DEF CallsHome, OnStream

LEMMA CallsHomeStep ==
  AlwaysHome /\ TypeOK /\ Calls /\ Pins /\ CallsHome /\ [Next]_vars => CallsHome'
<1> SUFFICES ASSUME AlwaysHome, TypeOK, Calls, Pins, CallsHome, [Next]_vars PROVE CallsHome'
  OBVIOUS
<1>0. /\ pc \in [Threads -> PCs] /\ job \in [Threads -> Jobs]
      /\ active \in [Threads -> Devices]
      /\ at \in [Blocks -> Streams \cup {NoStream}]
      /\ \A t \in Threads : CallOK(t)
      /\ \A b \in Blocks : block[b] # "none" => at[b] \in Streams
  BY DEF TypeOK, Calls
<1> USE <1>0 DEF CallsHome, CallOK, PCs, Kinds, Jobs, NoJob, Job, Goto, Start, End,
        threads, calls, gpu, buffers, data
<1>1. ASSUME NEW s \in Streams, Execute(s) PROVE CallsHome'
  BY <1>1 DEF Execute
<1>2. ASSUME NEW s \in Streams, StreamDies(s) PROVE CallsHome'
  BY <1>2 DEF StreamDies
<1>3. ASSUME NEW b \in Blocks, Compute(b) PROVE CallsHome'
  BY <1>3 DEF Compute
<1>4. ASSUME NEW b \in Blocks, Consume(b) PROVE CallsHome'
  BY <1>4 DEF Consume
<1>5. ASSUME NEW b \in Blocks, LetGo(b) PROVE CallsHome'
  BY <1>5 DEF LetGo
<1>6. ASSUME NEW t \in Threads, NEW d \in Devices, Select(t, d) PROVE CallsHome'
  BY <1>6 DEF Select
<1>7. ASSUME NEW t \in Threads, NEW s \in Streams, BeginCreate(t, s) PROVE CallsHome'
  BY <1>7 DEF BeginCreate
<1>8. ASSUME NEW t \in Threads, NEW b \in Blocks, NEW s \in Streams, BeginAllocate(t, b, s)
      PROVE  CallsHome'
  BY <1>8 DEF BeginAllocate, Pins
<1>9. ASSUME NEW t \in Threads, NEW b \in Blocks, NEW s \in Streams, BeginHandoff(t, b, s)
      PROVE  CallsHome'
  <2>1. Own(t, s)
    BY <1>9, GpuAssumption DEF Own, BeginHandoff, IsDefault, IsPerThread
  <2>2. active[t] = DeviceOf(at[b]) /\ active[t] = DeviceOf(s) /\ Own(t, at[b])
    BY <1>9 DEF BeginHandoff, AtHome, Own
  <2>. QED  BY <1>9, <2>1, <2>2 DEF BeginHandoff
<1>10. ASSUME NEW t \in Threads, NEW b \in Blocks, BeginDeallocate(t, b) PROVE CallsHome'
  <2>1. Own(t, at[b])
    BY <1>10 DEF Own, BeginDeallocate, FreesAtHome
  <2>. QED  BY <1>10, <2>1 DEF BeginDeallocate
<1>11. ASSUME NEW t \in Threads, NEW b \in Blocks, BeginCopy(t, b) PROVE CallsHome'
  BY <1>11 DEF BeginCopy, AtHome, Own
<1>12. ASSUME NEW t \in Threads, NEW b \in Blocks, BeginUpload(t, b) PROVE CallsHome'
  BY <1>12 DEF BeginUpload, AtHome, Own
<1>13. ASSUME NEW t \in Threads, Activate(t) PROVE CallsHome'
  BY <1>13 DEF Activate
<1>14. ASSUME NEW t \in Threads, ActivateFails(t) PROVE CallsHome'
  BY <1>14 DEF ActivateFails
<1>15. ASSUME NEW t \in Threads, PerformCreate(t) PROVE CallsHome'
  BY <1>15 DEF PerformCreate
<1>16. ASSUME NEW t \in Threads, PerformAllocate(t) PROVE CallsHome'
  BY <1>16 DEF PerformAllocate
<1>17. ASSUME NEW t \in Threads, PerformDeallocate(t) PROVE CallsHome'
  BY <1>17 DEF PerformDeallocate
<1>18. ASSUME NEW t \in Threads, PerformFails(t) PROVE CallsHome'
  BY <1>18 DEF PerformFails
<1>19. ASSUME NEW t \in Threads, Restore(t) PROVE CallsHome'
  BY <1>19 DEF Restore
<1>20. ASSUME NEW t \in Threads, RestoreFails(t) PROVE CallsHome'
  BY <1>20 DEF RestoreFails
<1>21. ASSUME NEW t \in Threads, NEW e \in Events, CreateEvent(t, e) PROVE CallsHome'
  BY <1>21 DEF CreateEvent
<1>22. ASSUME NEW t \in Threads, CreateEventFails(t) PROVE CallsHome'
  BY <1>22 DEF CreateEventFails
<1>23. ASSUME NEW t \in Threads, Record(t) PROVE CallsHome'
  BY <1>23 DEF Record
<1>24. ASSUME NEW t \in Threads, Wait(t) PROVE CallsHome'
  BY <1>24 DEF Wait
<1>25. ASSUME NEW t \in Threads, OrderFails(t) PROVE CallsHome'
  BY <1>25 DEF OrderFails
<1>26. ASSUME NEW t \in Threads, Destroy(t) PROVE CallsHome'
  BY <1>26 DEF Destroy
<1>27. ASSUME NEW t \in Threads, DestroyFails(t) PROVE CallsHome'
  BY <1>27 DEF DestroyFails
<1>28. ASSUME NEW t \in Threads, Synchronize(t) PROVE CallsHome'
  BY <1>28 DEF Synchronize
<1>29. ASSUME NEW t \in Threads, SynchronizeFails(t) PROVE CallsHome'
  BY <1>29 DEF SynchronizeFails
<1>30. ASSUME UNCHANGED vars PROVE CallsHome'
  BY <1>30 DEF vars
<1> HIDE DEF CallsHome
<1>. QED
  BY <1>1, <1>2, <1>3, <1>4, <1>5, <1>6, <1>7, <1>8, <1>9, <1>10, <1>11, <1>12, <1>13,
     <1>14, <1>15, <1>16, <1>17, <1>18, <1>19, <1>20, <1>21, <1>22, <1>23, <1>24, <1>25,
     <1>26, <1>27, <1>28, <1>29, <1>30
     DEF Next

LEMMA OnStreamStep ==
  AlwaysHome /\ TypeOK /\ Calls /\ Pins /\ DevicesInv /\ CallsHome /\ OnStream /\
    [Next]_vars => OnStream'
<1> SUFFICES ASSUME AlwaysHome, TypeOK, Calls, Pins, DevicesInv, CallsHome, OnStream,
                    [Next]_vars
             PROVE  OnStream'
  OBVIOUS
<1>0. /\ pc \in [Threads -> PCs] /\ job \in [Threads -> Jobs]
      /\ active \in [Threads -> Devices]
      /\ at \in [Blocks -> Streams \cup {NoStream}]
      /\ block \in [Blocks -> {"none", "making", "live", "freeing", "freed", "lost"}]
      /\ memory \in [Blocks -> {"blank", "written", "freed"}]
      /\ export \in [Blocks -> Streams \cup {NoStream}]
      /\ QueueType
      /\ \A t \in Threads : CallOK(t)
      /\ \A b \in Blocks : block[b] # "none" => at[b] \in Streams
  BY DEF TypeOK, Calls, QueueType
<1> USE <1>0 DEF OnStream, Fresh, Accesses, Ordered, CallOK, PCs, Kinds, Jobs, NoJob, Job,
        Goto, Start, End, threads, calls, gpu, buffers, data
<1>1. ASSUME NEW s \in Streams, Execute(s) PROVE OnStream'
  <2>1. /\ In(queue, s, Head(queue[s])[1], Head(queue[s])[2])
        /\ \A r \in Streams : \A l, y : In(queue', r, l, y) => In(queue, r, l, y)
    BY <1>1, InTail DEF Execute
  <2>2. \A b \in Blocks : memory'[b] # memory[b] => ~Fresh(b)
    BY <1>1, <2>1 DEF Execute
  <2>3. UNCHANGED <<block, at, export>>
    BY <1>1 DEF Execute
  <2>. QED  BY <2>1, <2>2, <2>3
<1>2. ASSUME NEW s \in Streams, StreamDies(s) PROVE OnStream'
  BY <1>2 DEF StreamDies
<1>3. ASSUME NEW b \in Blocks, Compute(b) PROVE OnStream'
  <2>1. <<"write", b>> \in Ops
    BY <1>3 DEF Compute, Ops
  <2>2. \A r \in Streams : \A l, y :
          In(queue', r, l, y) <=> In(queue, r, l, y) \/ (r = at[b] /\ l = "write" /\ y = b)
    BY <1>3, <2>1, InAppend DEF Compute
  <2>. QED  BY <1>3, <2>2 DEF Compute, Usable
<1>4. ASSUME NEW b \in Blocks, Consume(b) PROVE OnStream'
  <2>1. <<"read", b>> \in Ops
    BY <1>4 DEF Consume, Ops
  <2>2. \A r \in Streams : \A l, y :
          In(queue', r, l, y) <=>
            In(queue, r, l, y) \/ (r = export[b] /\ l = "read" /\ y = b)
    BY <1>4, <2>1, InAppend DEF Consume
  <2>. QED  BY <1>4, <2>2 DEF Consume
<1>5. ASSUME NEW b \in Blocks, LetGo(b) PROVE OnStream'
  BY <1>5 DEF LetGo
<1>6. ASSUME NEW t \in Threads, NEW d \in Devices, Select(t, d) PROVE OnStream'
  BY <1>6 DEF Select
<1>7. ASSUME NEW t \in Threads, NEW s \in Streams, BeginCreate(t, s) PROVE OnStream'
  BY <1>7 DEF BeginCreate
<1>8. ASSUME NEW t \in Threads, NEW b \in Blocks, NEW s \in Streams, BeginAllocate(t, b, s)
      PROVE  OnStream'
  BY <1>8 DEF BeginAllocate
<1>9. ASSUME NEW t \in Threads, NEW b \in Blocks, NEW s \in Streams, BeginHandoff(t, b, s)
      PROVE  OnStream'
  BY <1>9 DEF BeginHandoff
<1>10. ASSUME NEW t \in Threads, NEW b \in Blocks, BeginDeallocate(t, b) PROVE OnStream'
  BY <1>10 DEF BeginDeallocate
<1>11. ASSUME NEW t \in Threads, NEW b \in Blocks, BeginCopy(t, b) PROVE OnStream'
  <2>0. block[b] = "live" /\ at[b] \in Streams
    BY <1>11 DEF BeginCopy, Usable
  <2>1. <<"copy", b>> \in Ops
    BY <1>11 DEF BeginCopy, Ops
  <2>2. Native(t, at[b]) = at[b]
    BY <1>11, <2>0, NativeHome DEF BeginCopy, AtHome, Own
  <2>3. \A r \in Streams : \A l, y :
          In(queue', r, l, y) <=> In(queue, r, l, y) \/ (r = at[b] /\ l = "copy" /\ y = b)
    BY <1>11, <2>1, <2>2, InAppend DEF BeginCopy
  <2>. QED  BY <1>11, <2>0, <2>3 DEF BeginCopy
<1>12. ASSUME NEW t \in Threads, NEW b \in Blocks, BeginUpload(t, b) PROVE OnStream'
  <2>0. block[b] = "live" /\ at[b] \in Streams
    BY <1>12 DEF BeginUpload, Usable
  <2>1. <<"upload", b>> \in Ops
    BY <1>12 DEF BeginUpload, Ops
  <2>2. Native(t, at[b]) = at[b]
    BY <1>12, <2>0, NativeHome DEF BeginUpload, AtHome, Own
  <2>3. \A r \in Streams : \A l, y :
          In(queue', r, l, y) <=> In(queue, r, l, y) \/ (r = at[b] /\ l = "upload" /\ y = b)
    BY <1>12, <2>1, <2>2, InAppend DEF BeginUpload
  <2>. QED  BY <1>12, <2>0, <2>3 DEF BeginUpload
<1>13. ASSUME NEW t \in Threads, Activate(t) PROVE OnStream'
  BY <1>13 DEF Activate
<1>14. ASSUME NEW t \in Threads, ActivateFails(t) PROVE OnStream'
  BY <1>14, UndoneFacts DEF ActivateFails, Pins, Under
<1>15. ASSUME NEW t \in Threads, PerformCreate(t) PROVE OnStream'
  BY <1>15 DEF PerformCreate
<1>16. ASSUME NEW t \in Threads, PerformAllocate(t) PROVE OnStream'
  BY <1>16 DEF PerformAllocate
<1>17. ASSUME NEW t \in Threads, PerformDeallocate(t) PROVE OnStream'
  <2>0. /\ job[t].b \in Blocks /\ job[t].s = at[job[t].b] /\ job[t].s \in Streams
        /\ block[job[t].b] = "freeing"
    BY <1>17 DEF PerformDeallocate, Pins, Under
  <2>1. <<"free", job[t].b>> \in Ops
    BY <2>0 DEF Ops
  <2>2. Native(t, job[t].s) = job[t].s
    BY <1>17, <2>0, NativeHome DEF PerformDeallocate, DevicesInv, CallsHome
  <2>3. \A r \in Streams : \A l, y : In(queue', r, l, y) =>
          In(queue, r, l, y) \/ (r = at[job[t].b] /\ l = "free" /\ y = job[t].b)
    BY <1>17, <2>0, <2>1, <2>2, InAppend DEF PerformDeallocate
  <2>. QED  BY <1>17, <2>0, <2>3 DEF PerformDeallocate
<1>18. ASSUME NEW t \in Threads, PerformFails(t) PROVE OnStream'
  BY <1>18, UndoneFacts DEF PerformFails, Pins, Under
<1>19. ASSUME NEW t \in Threads, Restore(t) PROVE OnStream'
  BY <1>19 DEF Restore
<1>20. ASSUME NEW t \in Threads, RestoreFails(t) PROVE OnStream'
  BY <1>20 DEF RestoreFails
<1>21. ASSUME NEW t \in Threads, NEW e \in Events, CreateEvent(t, e) PROVE OnStream'
  BY <1>21 DEF CreateEvent
<1>22. ASSUME NEW t \in Threads, CreateEventFails(t) PROVE OnStream'
  BY <1>22 DEF CreateEventFails
<1>23. ASSUME NEW t \in Threads, Record(t) PROVE OnStream'
  <2>1. <<"record", event[t][1]>> \in Ops
    BY <1>23, <1>0 DEF Record, Ops, TypeOK
  <2>2. \A r \in Streams : \A l, y :
          In(queue', r, l, y) <=>
            In(queue, r, l, y) \/ (r = Native(t, at[job[t].b]) /\ l = "record" /\ y = event[t][1])
    BY <1>23, <2>1, InAppend DEF Record
  <2>. QED  BY <1>23, <2>2 DEF Record
<1>24. ASSUME NEW t \in Threads, Wait(t) PROVE OnStream'
  <2>1. <<"wait", event[t][1]>> \in Ops
    BY <1>24, <1>0 DEF Wait, Ops, TypeOK
  <2>2. \A r \in Streams : \A l, y :
          In(queue', r, l, y) <=>
            In(queue, r, l, y) \/ (r = Native(t, job[t].s) /\ l = "wait" /\ y = event[t][1])
    BY <1>24, <2>1, InAppend DEF Wait
  <2>. QED  BY <1>24, <2>2 DEF Wait
<1>25. ASSUME NEW t \in Threads, OrderFails(t) PROVE OnStream'
  BY <1>25 DEF OrderFails
<1>26. ASSUME NEW t \in Threads, Destroy(t) PROVE OnStream'
  BY <1>26 DEF Destroy, Pins
<1>27. ASSUME NEW t \in Threads, DestroyFails(t) PROVE OnStream'
  BY <1>27 DEF DestroyFails
<1>28. ASSUME NEW t \in Threads, Synchronize(t) PROVE OnStream'
  BY <1>28 DEF Synchronize, Pins
<1>29. ASSUME NEW t \in Threads, SynchronizeFails(t) PROVE OnStream'
  BY <1>29 DEF SynchronizeFails
<1>30. ASSUME UNCHANGED vars PROVE OnStream'
  BY <1>30 DEF vars
<1> HIDE DEF OnStream
<1>. QED
  BY <1>1, <1>2, <1>3, <1>4, <1>5, <1>6, <1>7, <1>8, <1>9, <1>10, <1>11, <1>12, <1>13,
     <1>14, <1>15, <1>16, <1>17, <1>18, <1>19, <1>20, <1>21, <1>22, <1>23, <1>24, <1>25,
     <1>26, <1>27, <1>28, <1>29, <1>30
     DEF Next

LEMMA HomeAlways ==
  ASSUME AlwaysHome
  PROVE  Spec => [](TypeOK /\ Calls /\ Pins /\ DevicesInv /\ CallsHome /\ OnStream)
<1>1. TypeOK /\ Calls /\ Pins /\ CallsHome /\ [Next]_vars => CallsHome'
  BY CallsHomeStep
<1>2. TypeOK /\ Calls /\ Pins /\ DevicesInv /\ CallsHome /\ OnStream /\ [Next]_vars => OnStream'
  BY OnStreamStep
<1>. QED
  BY <1>1, <1>2, PinsAlways, DevicesInit, DevicesStep, HomeInit, PTL DEF Spec
-------------------------------------------------------------------------------
(***************************************************************************)
(* Reads follow writes                                                     *)
(*                                                                         *)
(* While a buffer is blank, what is ordered after its first computation is *)
(* so in the queues: a copy has it before it on the same stream; a read    *)
(* has a wait before it on the consumer's stream, for an event that is     *)
(* recorded behind the computation only.                                   *)
(***************************************************************************)
Wrote(q, s, i, b) == On(q, s, i, "write", b) \/ On(q, s, i, "upload", b)
Behind(q, s, i, b) == \E j \in Nat : j < i /\ Wrote(q, s, j, b)
Computing(q, b) == \E s \in Streams : In(q, s, "write", b) \/ In(q, s, "upload", b)

\* Whoever waits for e waits for the computation of b.
RecordedAfter(q, f, e, b) ==
  /\ e \notin f
  /\ \A s \in Streams, i \in Nat : On(q, s, i, "record", e) => Behind(q, s, i, b)
CopiesBehind(q, b) ==
  \A s \in Streams, i \in Nat : On(q, s, i, "copy", b) => Behind(q, s, i, b)
ExportGuarded(q, f, c, b) ==
  c # NoStream => \E e \in Events : RecordedAfter(q, f, e, b) /\ In(q, c, "wait", e)
ReadsGuarded(q, f, b) ==
  \A s \in Streams, i \in Nat : On(q, s, i, "read", b) =>
    \E e \in Events : /\ RecordedAfter(q, f, e, b)
                      /\ \E j \in Nat : j < i /\ On(q, s, j, "wait", e)

\* An event that is about to be recorded is new.
Unrecorded(t) ==
  pc[t] = "record" =>
    /\ event[t][1] \notin fired
    /\ \A s \in Streams : /\ ~In(queue, s, "record", event[t][1])
                          /\ ~In(queue, s, "wait", event[t][1])

\* How far event_order has come.
HandoffOrdered(t) ==
  job[t].kind = "handoff" /\ memory[job[t].b] = "blank" =>
    /\ Computing(queue, job[t].b)
    /\ pc[t] \in {"wait", "destroy"} => RecordedAfter(queue, fired, event[t][1], job[t].b)
    /\ pc[t] = "destroy" => In(queue, job[t].s, "wait", event[t][1])

BlankOrdered(b) ==
  memory[b] = "blank" =>
    /\ CopiesBehind(queue, b)
    /\ ReadsGuarded(queue, fired, b)
    /\ ExportGuarded(queue, fired, export[b], b)

OrderInv ==
  /\ early = {}
  /\ \A t \in Threads : Unrecorded(t) /\ HandoffOrdered(t)
  /\ \A b \in Blocks : BlankOrdered(b)

LEMMA OrderInit == Init => OrderInv
<1> SUFFICES ASSUME Init PROVE OrderInv
  OBVIOUS
<1>1. \A s \in Streams : \A i, k, x : ~On(queue, s, i, k, x)
  BY DEF Init, On
<1>2. \A t \in Threads : pc[t] = "idle" /\ job[t].kind = "none"
  BY DEF Init, NoJob
<1>3. early = {} /\ \A b \in Blocks : export[b] = NoStream
  BY DEF Init
<1>. QED
  BY <1>1, <1>2, <1>3 DEF OrderInv, Unrecorded, HandoffOrdered, BlankOrdered, CopiesBehind,
     ReadsGuarded, ExportGuarded

\* What an append leaves ordered.
LEMMA AppendOrder ==
  ASSUME QueueType, NEW s \in Streams, NEW k, NEW x, <<k, x>> \in Ops, Append1(s, <<k, x>>),
         NEW b \in Blocks, fired' = fired
  PROVE  /\ \A r \in Streams : \A l, y : In(queue, r, l, y) => In(queue', r, l, y)
         /\ Computing(queue, b) => Computing(queue', b)
         /\ \A e : RecordedAfter(queue, fired, e, b) /\ ~(k = "record" /\ x = e)
                     => RecordedAfter(queue', fired', e, b)
         /\ /\ CopiesBehind(queue, b)
            /\ k = "copy" /\ x = b => In(queue, s, "write", b) \/ In(queue, s, "upload", b)
            => CopiesBehind(queue', b)
         /\ \A c \in Streams :
              ExportGuarded(queue, fired, c, b) /\ (k = "record" => ~In(queue, c, "wait", x))
                => ExportGuarded(queue', fired', c, b)
         /\ /\ ReadsGuarded(queue, fired, b)
            /\ k = "record" => \A r \in Streams : ~In(queue, r, "wait", x)
            /\ k = "read" /\ x = b => \E e \in Events : /\ RecordedAfter(queue, fired, e, b)
                                                        /\ In(queue, s, "wait", e)
            => ReadsGuarded(queue', fired', b)
<1> DEFINE n == Len(queue[s]) + 1
<1>1. /\ \A r \in Streams, i \in Nat : \A l, y :
           On(queue', r, i, l, y) <=>
             \/ On(queue, r, i, l, y)
             \/ r = s /\ i = n /\ l = k /\ y = x
      /\ n \in Nat
      /\ \A i \in Nat : \A l, y : On(queue, s, i, l, y) => i < n
  <2>1. Len(queue[s]) \in Nat
    BY OnAppend
  <2>. QED  BY <2>1, OnAppend
<1> HIDE DEF n
<1>2. \A r \in Streams : \A l, y : In(queue, r, l, y) => In(queue', r, l, y)
  BY <1>1 DEF In
<1>3. \A r \in Streams, i \in Nat : Behind(queue, r, i, b) => Behind(queue', r, i, b)
  BY <1>1 DEF Behind, Wrote
<1>4. ASSUME NEW e, RecordedAfter(queue, fired, e, b), ~(k = "record" /\ x = e)
      PROVE  RecordedAfter(queue', fired', e, b)
  BY <1>1, <1>3, <1>4 DEF RecordedAfter
<1>5. ASSUME CopiesBehind(queue, b),
             k = "copy" /\ x = b => In(queue, s, "write", b) \/ In(queue, s, "upload", b)
      PROVE  CopiesBehind(queue', b)
  <2>1. In(queue, s, "write", b) \/ In(queue, s, "upload", b) => Behind(queue, s, n, b)
    BY <1>1 DEF In, Behind, Wrote
  <2>. QED  BY <1>1, <1>3, <1>5, <2>1 DEF CopiesBehind
<1>6. ASSUME NEW c \in Streams, ExportGuarded(queue, fired, c, b),
             k = "record" => ~In(queue, c, "wait", x)
      PROVE  ExportGuarded(queue', fired', c, b)
  BY <1>2, <1>4, <1>6 DEF ExportGuarded
<1>7. ASSUME ReadsGuarded(queue, fired, b),
             k = "record" => \A r \in Streams : ~In(queue, r, "wait", x),
             k = "read" /\ x = b => \E e \in Events : /\ RecordedAfter(queue, fired, e, b)
                                                      /\ In(queue, s, "wait", e)
      PROVE  ReadsGuarded(queue', fired', b)
  <2> SUFFICES ASSUME NEW r \in Streams, NEW i \in Nat, On(queue', r, i, "read", b)
               PROVE  \E e \in Events : /\ RecordedAfter(queue', fired', e, b)
                                        /\ \E j \in Nat : j < i /\ On(queue', r, j, "wait", e)
    BY DEF ReadsGuarded
  <2>1. \E e \in Events : /\ RecordedAfter(queue, fired, e, b)
                          /\ \E j \in Nat : j < i /\ On(queue, r, j, "wait", e)
    <3>1. CASE On(queue, r, i, "read", b)
      BY <1>7, <3>1 DEF ReadsGuarded
    <3>2. CASE r = s /\ i = n /\ k = "read" /\ x = b
      BY <1>1, <1>7, <3>2 DEF In
    <3>. QED  BY <1>1, <3>1, <3>2
  <2>2. PICK e \in Events : /\ RecordedAfter(queue, fired, e, b)
                            /\ \E j \in Nat : j < i /\ On(queue, r, j, "wait", e)
    BY <2>1
  <2>3. ~(k = "record" /\ x = e)
    BY <1>7, <2>2 DEF In
  <2>4. RecordedAfter(queue', fired', e, b)
    BY <1>4, <2>2, <2>3
  <2>. QED  BY <1>1, <2>2, <2>4
<1>8. Computing(queue, b) => Computing(queue', b)
  BY <1>2 DEF Computing
<1>. QED  BY <1>2, <1>4, <1>5, <1>6, <1>7, <1>8

\* What an item that the GPU takes leaves ordered, of a buffer that it leaves blank.
LEMMA ExecuteOrder ==
  ASSUME TypeOK, NEW s \in Streams, Execute(s), NEW b \in Blocks, memory'[b] = "blank"
  PROVE  /\ memory[b] = "blank"
         /\ Computing(queue, b) => Computing(queue', b)
         /\ \A e : RecordedAfter(queue, fired, e, b) =>
              /\ RecordedAfter(queue', fired', e, b)
              /\ \A r \in Streams : In(queue, r, "wait", e) => In(queue', r, "wait", e)
         /\ CopiesBehind(queue, b) => CopiesBehind(queue', b)
         /\ ReadsGuarded(queue, fired, b) => ReadsGuarded(queue', fired', b)
<1> DEFINE kind == Head(queue[s])[1]
           x == Head(queue[s])[2]
<1>1. /\ QueueType /\ queue[s] # <<>> /\ queue' = [queue EXCEPT ![s] = Tail(@)]
      /\ kind = "wait" => x \in fired
      /\ fired' = IF kind = "record" THEN fired \cup {x} ELSE fired
      /\ memory[b] = "blank"
      /\ ~(kind \in {"write", "upload"} /\ x = b)
  BY DEF Execute, TypeOK, QueueType
<1>2. /\ On(queue, s, 1, kind, x)
      /\ \A i \in Nat : \A l, y : On(queue', s, i, l, y) <=> i # 0 /\ On(queue, s, i + 1, l, y)
      /\ \A r \in Streams \ {s}, i \in Nat : \A l, y :
           On(queue', r, i, l, y) <=> On(queue, r, i, l, y)
  BY <1>1, OnTail
<1>3. \A r \in Streams : \A i, l, y : On(queue, r, i, l, y) =>
        i \in Nat /\ 1 <= i /\ \A m, z : On(queue, r, i, m, z) => m = l /\ z = y
  BY <1>1, OnFacts
<1> HIDE DEF kind, x
<1>4. ASSUME NEW r \in Streams, NEW l, NEW y, NEW j \in Nat, On(queue, r, j, l, y),
             ~(r = s /\ l = kind /\ y = x)
      PROVE  IF r = s THEN j - 1 \in Nat /\ On(queue', r, j - 1, l, y)
                      ELSE On(queue', r, j, l, y)
  <2>1. CASE r # s
    BY <1>2, <1>4, <2>1
  <2>2. CASE r = s
    <3>1. j # 1 /\ 1 <= j
      BY <1>2, <1>3, <1>4, <2>2
    <3>2. j - 1 \in Nat /\ j - 1 # 0 /\ (j - 1) + 1 = j
      BY <3>1
    <3>. QED  BY <1>2, <1>4, <2>2, <3>2
  <2>. QED  BY <2>1, <2>2
<1>5. ASSUME NEW r \in Streams, NEW l, NEW y, In(queue, r, l, y),
             ~(r = s /\ l = kind /\ y = x)
      PROVE  In(queue', r, l, y)
  BY <1>4, <1>5 DEF In
\* An item and one before it move together.
<1>6. ASSUME NEW r \in Streams, NEW i \in Nat, NEW l, NEW y, On(queue', r, i, l, y)
      PROVE  \E m \in Nat :
               /\ On(queue, r, m, l, y) /\ m # 0
               /\ \A k, z : \A j \in Nat :
                    j < m /\ On(queue, r, j, k, z) /\ ~(r = s /\ k = kind /\ z = x) =>
                      \E h \in Nat : h < i /\ On(queue', r, h, k, z)
  <2>1. CASE r # s
    <3>1. On(queue, r, i, l, y)
      BY <1>2, <1>6, <2>1
    <3>. QED  BY <1>3, <1>4, <2>1, <3>1
  <2>2. CASE r = s
    <3>1. i + 1 \in Nat /\ i + 1 # 0 /\ On(queue, r, i + 1, l, y)
      BY <1>2, <1>6, <2>2
    <3>2. ASSUME NEW k, NEW z, NEW j \in Nat, j < i + 1, On(queue, r, j, k, z),
                 ~(r = s /\ k = kind /\ z = x)
          PROVE  \E h \in Nat : h < i /\ On(queue', r, h, k, z)
      <4>1. j - 1 \in Nat /\ On(queue', r, j - 1, k, z)
        BY <1>4, <2>2, <3>2
      <4>2. j - 1 < i
        BY <3>2, <4>1
      <4>. QED  BY <4>1, <4>2
    <3>. QED  BY <3>1, <3>2
  <2>. QED  BY <2>1, <2>2
<1>7. ASSUME NEW r \in Streams, NEW i \in Nat, NEW l, NEW y, On(queue', r, i, l, y),
             \A m \in Nat : On(queue, r, m, l, y) => Behind(queue, r, m, b)
      PROVE  Behind(queue', r, i, b)
  <2>1. PICK m \in Nat :
               /\ On(queue, r, m, l, y) /\ m # 0
               /\ \A k, z : \A j \in Nat :
                    j < m /\ On(queue, r, j, k, z) /\ ~(r = s /\ k = kind /\ z = x) =>
                      \E h \in Nat : h < i /\ On(queue', r, h, k, z)
    BY <1>6, <1>7
  <2>2. PICK j \in Nat : j < m /\ Wrote(queue, r, j, b)
    BY <1>7, <2>1 DEF Behind
  <2>3. CASE On(queue, r, j, "write", b)
    BY <1>1, <2>1, <2>2, <2>3 DEF Behind, Wrote
  <2>4. CASE On(queue, r, j, "upload", b)
    BY <1>1, <2>1, <2>2, <2>4 DEF Behind, Wrote
  <2>. QED  BY <2>2, <2>3, <2>4 DEF Wrote
<1>8. ASSUME NEW e, RecordedAfter(queue, fired, e, b)
      PROVE  /\ RecordedAfter(queue', fired', e, b)
             /\ \A r \in Streams : In(queue, r, "wait", e) => In(queue', r, "wait", e)
  <2>1. ~(kind = "record" /\ x = e)
    BY <1>2, <1>3, <1>8 DEF RecordedAfter, Behind, Wrote
  <2>2. e \notin fired /\ e \notin fired'
    BY <1>1, <1>8, <2>1 DEF RecordedAfter
  <2>3. \A r \in Streams, i \in Nat : On(queue', r, i, "record", e) => Behind(queue', r, i, b)
    BY <1>7, <1>8 DEF RecordedAfter
  <2>4. \A r \in Streams : In(queue, r, "wait", e) => In(queue', r, "wait", e)
    BY <1>1, <1>5, <2>2
  <2>. QED  BY <2>2, <2>3, <2>4 DEF RecordedAfter
<1>9. CopiesBehind(queue, b) => CopiesBehind(queue', b)
  BY <1>7 DEF CopiesBehind
<1>10. ASSUME ReadsGuarded(queue, fired, b) PROVE ReadsGuarded(queue', fired', b)
  <2> SUFFICES ASSUME NEW r \in Streams, NEW i \in Nat, On(queue', r, i, "read", b)
               PROVE  \E e \in Events : /\ RecordedAfter(queue', fired', e, b)
                                        /\ \E j \in Nat : j < i /\ On(queue', r, j, "wait", e)
    BY DEF ReadsGuarded
  <2>1. PICK m \in Nat :
               /\ On(queue, r, m, "read", b) /\ m # 0
               /\ \A k, z : \A j \in Nat :
                    j < m /\ On(queue, r, j, k, z) /\ ~(r = s /\ k = kind /\ z = x) =>
                      \E h \in Nat : h < i /\ On(queue', r, h, k, z)
    BY <1>6
  <2>2. PICK e \in Events : /\ RecordedAfter(queue, fired, e, b)
                            /\ \E j \in Nat : j < m /\ On(queue, r, j, "wait", e)
    BY <1>10, <2>1 DEF ReadsGuarded
  <2>3. e \notin fired
    BY <2>2 DEF RecordedAfter
  <2>4. \E h \in Nat : h < i /\ On(queue', r, h, "wait", e)
    BY <1>1, <2>1, <2>2, <2>3
  <2>5. RecordedAfter(queue', fired', e, b)
    BY <1>8, <2>2
  <2>. QED  BY <2>4, <2>5
<1>11. Computing(queue, b) => Computing(queue', b)
  BY <1>1, <1>5 DEF Computing
<1>. QED  BY <1>1, <1>8, <1>9, <1>10, <1>11

\* A step that orders nothing: it leaves the queues and the bytes alone, and the handoffs
\* that go on.
Aside ==
  /\ UNCHANGED <<queue, fired, memory, export, early>>
  /\ \A t \in Threads :
       job'[t].kind = "handoff" \/ pc'[t] = "record" =>
         UNCHANGED <<pc[t], job[t], event[t]>>

LEMMA OrderAside == ASSUME OrderInv, Aside PROVE OrderInv'
<1>1. early' = {}
  BY DEF OrderInv, Aside
<1>2. ASSUME NEW t \in Threads PROVE Unrecorded(t)' /\ HandoffOrdered(t)'
  BY DEF OrderInv, Aside, Unrecorded, HandoffOrdered
<1>3. ASSUME NEW b \in Blocks PROVE BlankOrdered(b)'
  BY DEF OrderInv, Aside, BlankOrdered
<1>. QED  BY <1>1, <1>2, <1>3 DEF OrderInv

\* The streams that a call passes by their handles are the ones it means.
LEMMA HomeCalls ==
  ASSUME TypeOK, Calls, Pins, DevicesInv, CallsHome, NEW t \in Threads
  PROVE  /\ job[t].kind \in {"handoff", "copy", "upload"} =>
              /\ job[t].b \in Blocks /\ at[job[t].b] \in Streams
              /\ Native(t, at[job[t].b]) = at[job[t].b]
         /\ job[t].kind = "handoff" => job[t].s \in Streams /\ Native(t, job[t].s) = job[t].s
         /\ job[t].kind = "deallocate" /\ pc[t] = "perform" =>
              /\ job[t].b \in Blocks /\ at[job[t].b] \in Streams
              /\ job[t].s = at[job[t].b] /\ Native(t, job[t].s) = at[job[t].b]
              /\ active[t] = DeviceOf(job[t].s)
              /\ block[job[t].b] = "freeing"
<1>0. CallOK(t)
  BY DEF Calls
<1>1. ASSUME job[t].kind \in {"handoff", "copy", "upload"}
      PROVE  /\ job[t].b \in Blocks /\ at[job[t].b] \in Streams
             /\ Native(t, at[job[t].b]) = at[job[t].b]
  BY <1>0, <1>1, NativeHome DEF CallOK, CallsHome
<1>2. ASSUME job[t].kind = "handoff"
      PROVE  job[t].s \in Streams /\ Native(t, job[t].s) = job[t].s
  BY <1>0, <1>2, NativeHome DEF CallOK, CallsHome
<1>3. ASSUME job[t].kind = "deallocate", pc[t] = "perform"
      PROVE  /\ job[t].b \in Blocks /\ at[job[t].b] \in Streams
             /\ job[t].s = at[job[t].b] /\ Native(t, job[t].s) = at[job[t].b]
             /\ active[t] = DeviceOf(job[t].s)
             /\ block[job[t].b] = "freeing"
  <2>1. /\ job[t].b \in Blocks /\ at[job[t].b] \in Streams
        /\ job[t].s = at[job[t].b] /\ block[job[t].b] = "freeing"
    BY <1>0, <1>3 DEF CallOK, Pins, Under
  <2>2. active[t] = DeviceOf(job[t].s) /\ Own(t, job[t].s)
    BY <1>3 DEF DevicesInv, CallsHome
  <2>. QED  BY <2>1, <2>2, NativeHome
<1>. QED  BY <1>1, <1>2, <1>3

LEMMA OrderStep ==
  ASSUME AlwaysHome, TypeOK, Calls, Pins, DevicesInv, EventsInv, CallsHome, OnStream, OrderInv,
         [Next]_vars
  PROVE  OrderInv'
<1>0. /\ pc \in [Threads -> PCs] /\ job \in [Threads -> Jobs]
      /\ event \in [Threads -> Events \X Devices \cup {NoEvent}]
      /\ at \in [Blocks -> Streams \cup {NoStream}]
      /\ memory \in [Blocks -> {"blank", "written", "freed"}]
      /\ export \in [Blocks -> Streams \cup {NoStream}]
      /\ QueueType
      /\ \A t \in Threads : CallOK(t)
      /\ \A b \in Blocks : block[b] # "none" => at[b] \in Streams
  BY DEF TypeOK, Calls, QueueType
<1> USE DEF threads, calls, gpu, buffers, data
<1>1. ASSUME NEW s \in Streams, Execute(s) PROVE OrderInv'
  <2>1. ASSUME NEW c \in Blocks, memory'[c] = "blank"
        PROVE  /\ memory[c] = "blank"
               /\ Computing(queue, c) => Computing(queue', c)
               /\ \A e : RecordedAfter(queue, fired, e, c) =>
                    /\ RecordedAfter(queue', fired', e, c)
                    /\ \A r \in Streams : In(queue, r, "wait", e) => In(queue', r, "wait", e)
               /\ CopiesBehind(queue, c) => CopiesBehind(queue', c)
               /\ ReadsGuarded(queue, fired, c) => ReadsGuarded(queue', fired', c)
    BY <1>1, <2>1, ExecuteOrder
  <2>2. /\ On(queue, s, 1, Head(queue[s])[1], Head(queue[s])[2])
        /\ In(queue, s, Head(queue[s])[1], Head(queue[s])[2])
        /\ \A r \in Streams : \A l, y : In(queue', r, l, y) => In(queue, r, l, y)
        /\ <<Head(queue[s])[1], Head(queue[s])[2]>> \in Ops
    BY <1>1, <1>0, InTail, OnTail, InFacts DEF Execute
  <2>3. early' = {}
    <3> SUFFICES ASSUME Head(queue[s])[1] \in {"read", "copy"},
                        memory[Head(queue[s])[2]] = "blank"
                 PROVE  FALSE
      BY <1>1 DEF Execute, OrderInv
    <3>1. Head(queue[s])[2] \in Blocks
      BY <2>2 DEF Ops
    <3>2. \E j \in Nat : \E k, x : j < 1 /\ On(queue, s, j, k, x)
      BY <2>2, <3>1 DEF OrderInv, BlankOrdered, CopiesBehind, ReadsGuarded, Behind, Wrote
    <3>3. \A j, k, x : On(queue, s, j, k, x) => 1 <= j
      BY <1>0, OnFacts
    <3>. QED  BY <3>2, <3>3
  <2>4. ASSUME NEW u \in Threads PROVE Unrecorded(u)'
    BY <1>1, <2>2 DEF Execute, OrderInv, Unrecorded
  <2>5. ASSUME NEW u \in Threads PROVE HandoffOrdered(u)'
    <3>1. /\ UNCHANGED <<job, pc, event>>
          /\ job[u].kind = "handoff" => job[u].b \in Blocks /\ job[u].s \in Streams
      BY <1>1, <1>0 DEF Execute, CallOK
    <3>. QED  BY <2>1, <3>1 DEF OrderInv, HandoffOrdered
  <2>6. ASSUME NEW c \in Blocks PROVE BlankOrdered(c)'
    <3> SUFFICES ASSUME memory'[c] = "blank" PROVE BlankOrdered(c)'
      BY DEF BlankOrdered
    <3>1. ExportGuarded(queue', fired', export'[c], c)
      <4>1. export' = export /\ ExportGuarded(queue, fired, export[c], c)
        BY <1>1, <2>1 DEF Execute, OrderInv, BlankOrdered
      <4>. QED  BY <1>0, <2>1, <4>1 DEF ExportGuarded
    <3>. QED  BY <2>1, <3>1 DEF OrderInv, BlankOrdered
  <2>. QED  BY <2>3, <2>4, <2>5, <2>6 DEF OrderInv
<1>2. ASSUME NEW s \in Streams, StreamDies(s) PROVE OrderInv'
  BY <1>2, <1>0, OrderAside DEF Aside, StreamDies, NoJob, Job, Goto, Start, End, CallOK
<1>3. ASSUME NEW b \in Blocks, Compute(b) PROVE OrderInv'
  <2>1. <<"write", b>> \in Ops
    BY DEF Ops
  <2>2. at[b] \in Streams /\ Append1(at[b], <<"write", b>>)
    BY <1>3, <1>0 DEF Compute, Usable
  <2>3. \A c \in Blocks :
          /\ \A r \in Streams : \A l, y : In(queue, r, l, y) => In(queue', r, l, y)
          /\ Computing(queue, c) => Computing(queue', c)
          /\ \A e : RecordedAfter(queue, fired, e, c) => RecordedAfter(queue', fired', e, c)
          /\ CopiesBehind(queue, c) => CopiesBehind(queue', c)
          /\ \A r \in Streams : ExportGuarded(queue, fired, r, c)
                                    => ExportGuarded(queue', fired', r, c)
          /\ ReadsGuarded(queue, fired, c) => ReadsGuarded(queue', fired', c)
    BY <1>3, <1>0, <2>1, <2>2, AppendOrder DEF Compute
  <2>4. \A r \in Streams : \A l, y :
          In(queue', r, l, y) /\ l \in {"record", "wait"} => In(queue, r, l, y)
    BY <1>0, <2>1, <2>2, InAppend
  <2>5. \A u \in Threads : Unrecorded(u)' /\ HandoffOrdered(u)'
    <3> SUFFICES ASSUME NEW u \in Threads PROVE Unrecorded(u)' /\ HandoffOrdered(u)'
      OBVIOUS
    <3>1. Unrecorded(u)'
      BY <1>3, <2>4 DEF Compute, OrderInv, Unrecorded
    <3>2. HandoffOrdered(u)'
      BY <1>3, <1>0, <2>3 DEF Compute, OrderInv, HandoffOrdered, CallOK
    <3>. QED  BY <3>1, <3>2
  <2>6. \A c \in Blocks : BlankOrdered(c)'
    <3> SUFFICES ASSUME NEW c \in Blocks, memory'[c] = "blank" PROVE BlankOrdered(c)'
      BY DEF BlankOrdered
    <3>1. export' = export /\ memory' = memory /\ BlankOrdered(c)
      BY <1>3 DEF Compute, OrderInv
    <3>2. ExportGuarded(queue', fired', export'[c], c)
      BY <1>0, <2>3, <3>1 DEF BlankOrdered, ExportGuarded
    <3>. QED  BY <2>3, <3>1, <3>2 DEF BlankOrdered
  <2>. QED  BY <1>3, <2>4, <2>5, <2>6 DEF Compute, OrderInv
<1>4. ASSUME NEW b \in Blocks, Consume(b) PROVE OrderInv'
  <2>1. <<"read", b>> \in Ops
    BY DEF Ops
  <2>2. export[b] \in Streams /\ Append1(export[b], <<"read", b>>)
    BY <1>4, <1>0 DEF Consume
  <2>3. \A c \in Blocks :
          /\ \A r \in Streams : \A l, y : In(queue, r, l, y) => In(queue', r, l, y)
          /\ Computing(queue, c) => Computing(queue', c)
          /\ \A e : RecordedAfter(queue, fired, e, c) => RecordedAfter(queue', fired', e, c)
          /\ CopiesBehind(queue, c) => CopiesBehind(queue', c)
          /\ \A r \in Streams : ExportGuarded(queue, fired, r, c)
                                    => ExportGuarded(queue', fired', r, c)
          /\ /\ ReadsGuarded(queue, fired, c)
             /\ c = b => \E e \in Events : /\ RecordedAfter(queue, fired, e, c)
                                           /\ In(queue, export[b], "wait", e)
             => ReadsGuarded(queue', fired', c)
    BY <1>4, <1>0, <2>1, <2>2, AppendOrder DEF Consume
  <2>4. \A r \in Streams : \A l, y :
          In(queue', r, l, y) /\ l \in {"record", "wait"} => In(queue, r, l, y)
    BY <1>0, <2>1, <2>2, InAppend
  <2>5. \A u \in Threads : Unrecorded(u)' /\ HandoffOrdered(u)'
    <3> SUFFICES ASSUME NEW u \in Threads PROVE Unrecorded(u)' /\ HandoffOrdered(u)'
      OBVIOUS
    <3>1. Unrecorded(u)'
      BY <1>4, <2>4 DEF Consume, OrderInv, Unrecorded
    <3>2. HandoffOrdered(u)'
      BY <1>4, <1>0, <2>3 DEF Consume, OrderInv, HandoffOrdered, CallOK
    <3>. QED  BY <3>1, <3>2
  <2>7. \A c \in Blocks : c = b /\ memory[c] = "blank" =>
          \E e \in Events : RecordedAfter(queue, fired, e, c) /\ In(queue, export[b], "wait", e)
    BY <1>4 DEF Consume, OrderInv, BlankOrdered, ExportGuarded
  <2>6. \A c \in Blocks : BlankOrdered(c)'
    <3> SUFFICES ASSUME NEW c \in Blocks, memory'[c] = "blank" PROVE BlankOrdered(c)'
      BY DEF BlankOrdered
    <3>1. export' = export /\ memory' = memory /\ BlankOrdered(c)
      BY <1>4 DEF Consume, OrderInv
    <3>2. ExportGuarded(queue', fired', export'[c], c)
      BY <1>0, <2>3, <3>1 DEF BlankOrdered, ExportGuarded
    <3>. QED  BY <2>3, <2>7, <3>1, <3>2 DEF BlankOrdered
  <2>. QED  BY <1>4, <2>4, <2>5, <2>6 DEF Consume, OrderInv
<1>5. ASSUME NEW b \in Blocks, LetGo(b) PROVE OrderInv'
  <2>1. \A c \in Blocks : BlankOrdered(c)'
    BY <1>5, <1>0 DEF LetGo, OrderInv, BlankOrdered, ExportGuarded
  <2>2. \A u \in Threads : Unrecorded(u)' /\ HandoffOrdered(u)'
    BY <1>5 DEF LetGo, OrderInv, Unrecorded, HandoffOrdered
  <2>. QED  BY <1>5, <2>1, <2>2 DEF LetGo, OrderInv
<1>6. ASSUME NEW t \in Threads, NEW d \in Devices, Select(t, d) PROVE OrderInv'
  BY <1>6, <1>0, OrderAside DEF Aside, Select, NoJob, Job, Goto, Start, End, CallOK
<1>7. ASSUME NEW t \in Threads, NEW s \in Streams, BeginCreate(t, s) PROVE OrderInv'
  BY <1>7, <1>0, OrderAside DEF Aside, BeginCreate, NoJob, Job, Goto, Start, End, CallOK
<1>8. ASSUME NEW t \in Threads, NEW b \in Blocks, NEW s \in Streams, BeginAllocate(t, b, s)
      PROVE  OrderInv'
  BY <1>8, <1>0, OrderAside DEF Aside, BeginAllocate, NoJob, Job, Goto, Start, End, CallOK
<1>9. ASSUME NEW t \in Threads, NEW b \in Blocks, NEW s \in Streams, BeginHandoff(t, b, s)
      PROVE  OrderInv'
  <2>1. memory[b] = "blank" => Computing(queue, b)
    <3>1. memory[b] = "blank" => Enqueued(<<"write", b>>) \/ Enqueued(<<"upload", b>>)
      BY <1>9 DEF BeginHandoff, Computed
    <3>. QED  BY <1>0, <3>1, InEnqueued DEF Computing
  <2>2. /\ UNCHANGED <<event, queue, fired, memory, export, early>>
        /\ \E to \in {"create_event", "synchronize"} : Start(t, to, Job("handoff", b, s))
    BY <1>9 DEF BeginHandoff
  <2>3. \A c \in Blocks : BlankOrdered(c)'
    BY <2>2 DEF OrderInv, BlankOrdered
  <2>4. ASSUME NEW u \in Threads PROVE Unrecorded(u)' /\ HandoffOrdered(u)'
    BY <1>0, <2>1, <2>2 DEF OrderInv, Unrecorded, HandoffOrdered, Start, Goto, Job
  <2>. QED  BY <2>2, <2>3, <2>4 DEF OrderInv
<1>10. ASSUME NEW t \in Threads, NEW b \in Blocks, BeginDeallocate(t, b) PROVE OrderInv'
  BY <1>10, <1>0, OrderAside
     DEF Aside, BeginDeallocate, NoJob, Job, Goto, Start, End, CallOK
<1>11. ASSUME NEW t \in Threads, NEW b \in Blocks, BeginCopy(t, b) PROVE OrderInv'
  <2>1. <<"copy", b>> \in Ops
    BY DEF Ops
  <2>2. at[b] \in Streams /\ Append1(at[b], <<"copy", b>>)
    <3>1. block[b] = "live" /\ at[b] \in Streams
      BY <1>11, <1>0 DEF BeginCopy, Usable
    <3>2. Native(t, at[b]) = at[b]
      BY <1>11, <3>1, NativeHome DEF BeginCopy, AtHome, Own
    <3>. QED  BY <1>11, <3>1, <3>2 DEF BeginCopy
  <2>3. \A c \in Blocks :
          /\ \A r \in Streams : \A l, y : In(queue, r, l, y) => In(queue', r, l, y)
          /\ Computing(queue, c) => Computing(queue', c)
          /\ \A e : RecordedAfter(queue, fired, e, c) => RecordedAfter(queue', fired', e, c)
          /\ /\ CopiesBehind(queue, c)
             /\ c = b => In(queue, at[b], "write", b) \/ In(queue, at[b], "upload", b)
             => CopiesBehind(queue', c)
          /\ \A r \in Streams : ExportGuarded(queue, fired, r, c)
                                    => ExportGuarded(queue', fired', r, c)
          /\ ReadsGuarded(queue, fired, c) => ReadsGuarded(queue', fired', c)
    BY <1>11, <1>0, <2>1, <2>2, AppendOrder DEF BeginCopy
  <2>4. \A r \in Streams : \A l, y :
          In(queue', r, l, y) /\ l \in {"record", "wait"} => In(queue, r, l, y)
    BY <1>0, <2>1, <2>2, InAppend
  <2>5. \A u \in Threads : Unrecorded(u)' /\ HandoffOrdered(u)'
    <3> SUFFICES ASSUME NEW u \in Threads PROVE Unrecorded(u)' /\ HandoffOrdered(u)'
      OBVIOUS
    <3>1. Unrecorded(u)'
      BY <1>11, <1>0, <2>4 DEF BeginCopy, OrderInv, Unrecorded, Start, Goto, Job
    <3>2. HandoffOrdered(u)'
      BY <1>11, <1>0, <2>3 DEF BeginCopy, OrderInv, HandoffOrdered, CallOK, Start, Goto, Job
    <3>. QED  BY <3>1, <3>2
  <2>7. memory[b] = "blank" => In(queue, at[b], "write", b) \/ In(queue, at[b], "upload", b)
    <3>1. memory[b] = "blank" => Enqueued(<<"write", b>>) \/ Enqueued(<<"upload", b>>)
      BY <1>11 DEF BeginCopy, Computed
    <3>. QED  BY <1>0, <3>1, InEnqueued DEF OnStream, Ordered
  <2>6. \A c \in Blocks : BlankOrdered(c)'
    <3> SUFFICES ASSUME NEW c \in Blocks, memory'[c] = "blank" PROVE BlankOrdered(c)'
      BY DEF BlankOrdered
    <3>1. export' = export /\ memory' = memory /\ BlankOrdered(c)
      BY <1>11 DEF BeginCopy, OrderInv
    <3>2. ExportGuarded(queue', fired', export'[c], c)
      BY <1>0, <2>3, <3>1 DEF BlankOrdered, ExportGuarded
    <3>. QED  BY <2>3, <2>7, <3>1, <3>2 DEF BlankOrdered
  <2>. QED  BY <1>11, <2>4, <2>5, <2>6 DEF BeginCopy, OrderInv
<1>12. ASSUME NEW t \in Threads, NEW b \in Blocks, BeginUpload(t, b) PROVE OrderInv'
  <2>1. <<"upload", b>> \in Ops
    BY DEF Ops
  <2>2. at[b] \in Streams /\ Append1(at[b], <<"upload", b>>)
    <3>1. block[b] = "live" /\ at[b] \in Streams
      BY <1>12, <1>0 DEF BeginUpload, Usable
    <3>2. Native(t, at[b]) = at[b]
      BY <1>12, <3>1, NativeHome DEF BeginUpload, AtHome, Own
    <3>. QED  BY <1>12, <3>1, <3>2 DEF BeginUpload
  <2>3. \A c \in Blocks :
          /\ \A r \in Streams : \A l, y : In(queue, r, l, y) => In(queue', r, l, y)
          /\ Computing(queue, c) => Computing(queue', c)
          /\ \A e : RecordedAfter(queue, fired, e, c) => RecordedAfter(queue', fired', e, c)
          /\ CopiesBehind(queue, c) => CopiesBehind(queue', c)
          /\ \A r \in Streams : ExportGuarded(queue, fired, r, c)
                                    => ExportGuarded(queue', fired', r, c)
          /\ ReadsGuarded(queue, fired, c) => ReadsGuarded(queue', fired', c)
    BY <1>12, <1>0, <2>1, <2>2, AppendOrder DEF BeginUpload
  <2>4. \A r \in Streams : \A l, y :
          In(queue', r, l, y) /\ l \in {"record", "wait"} => In(queue, r, l, y)
    BY <1>0, <2>1, <2>2, InAppend
  <2>5. \A u \in Threads : Unrecorded(u)' /\ HandoffOrdered(u)'
    <3> SUFFICES ASSUME NEW u \in Threads PROVE Unrecorded(u)' /\ HandoffOrdered(u)'
      OBVIOUS
    <3>1. Unrecorded(u)'
      BY <1>12, <1>0, <2>4 DEF BeginUpload, OrderInv, Unrecorded, Start, Goto, Job
    <3>2. HandoffOrdered(u)'
      BY <1>12, <1>0, <2>3
         DEF BeginUpload, OrderInv, HandoffOrdered, CallOK, Start, Goto, Job
    <3>. QED  BY <3>1, <3>2
  <2>6. \A c \in Blocks : BlankOrdered(c)'
    <3> SUFFICES ASSUME NEW c \in Blocks, memory'[c] = "blank" PROVE BlankOrdered(c)'
      BY DEF BlankOrdered
    <3>1. export' = export /\ memory' = memory /\ BlankOrdered(c)
      BY <1>12 DEF BeginUpload, OrderInv
    <3>2. ExportGuarded(queue', fired', export'[c], c)
      BY <1>0, <2>3, <3>1 DEF BlankOrdered, ExportGuarded
    <3>. QED  BY <2>3, <3>1, <3>2 DEF BlankOrdered
  <2>. QED  BY <1>12, <2>4, <2>5, <2>6 DEF BeginUpload, OrderInv
<1>13. ASSUME NEW t \in Threads, Activate(t) PROVE OrderInv'
  BY <1>13, <1>0, OrderAside DEF Aside, Activate, NoJob, Job, Goto, Start, End, CallOK
<1>14. ASSUME NEW t \in Threads, ActivateFails(t) PROVE OrderInv'
  BY <1>14, <1>0, OrderAside DEF Aside, ActivateFails, NoJob, Job, Goto, Start, End, CallOK
<1>15. ASSUME NEW t \in Threads, PerformCreate(t) PROVE OrderInv'
  BY <1>15, <1>0, OrderAside DEF Aside, PerformCreate, NoJob, Job, Goto, Start, End, CallOK
<1>16. ASSUME NEW t \in Threads, PerformAllocate(t) PROVE OrderInv'
  BY <1>16, <1>0, OrderAside
     DEF Aside, PerformAllocate, NoJob, Job, Goto, Start, End, CallOK
<1>17. ASSUME NEW t \in Threads, PerformDeallocate(t) PROVE OrderInv'
  <2> DEFINE b == job[t].b
  <2>0. /\ b \in Blocks /\ at[b] \in Streams /\ Native(t, job[t].s) = at[b]
        /\ pc[t] = "perform" /\ job[t].kind = "deallocate"
        /\ UNCHANGED <<job, event, fired, export, early>> /\ Goto(t, "restore")
    BY <1>17, HomeCalls DEF PerformDeallocate
  <2> HIDE DEF b
  <2>a. CASE Append1(at[b], <<"free", b>>) /\ UNCHANGED memory
    <3>1. <<"free", b>> \in Ops
      BY <2>0 DEF Ops
    <3>2. \A c \in Blocks :
            /\ \A r \in Streams : \A l, y : In(queue, r, l, y) => In(queue', r, l, y)
            /\ Computing(queue, c) => Computing(queue', c)
            /\ \A e : RecordedAfter(queue, fired, e, c) => RecordedAfter(queue', fired', e, c)
            /\ CopiesBehind(queue, c) => CopiesBehind(queue', c)
            /\ \A r \in Streams : ExportGuarded(queue, fired, r, c)
                                    => ExportGuarded(queue', fired', r, c)
            /\ ReadsGuarded(queue, fired, c) => ReadsGuarded(queue', fired', c)
      BY <1>0, <2>0, <2>a, <3>1, AppendOrder
    <3>3. \A r \in Streams : \A l, y : In(queue', r, l, y) /\ l # "free" => In(queue, r, l, y)
      BY <1>0, <2>0, <2>a, <3>1, InAppend
    <3>4. ASSUME NEW u \in Threads PROVE Unrecorded(u)'
      BY <1>0, <2>0, <3>3 DEF OrderInv, Unrecorded, Goto
    <3>5. ASSUME NEW u \in Threads PROVE HandoffOrdered(u)'
      BY <1>0, <2>0, <2>a, <3>2 DEF OrderInv, HandoffOrdered, Goto, CallOK
    <3>6. ASSUME NEW c \in Blocks PROVE BlankOrdered(c)'
      BY <1>0, <2>0, <2>a, <3>2 DEF OrderInv, BlankOrdered, ExportGuarded
    <3>. QED  BY <2>0, <3>4, <3>5, <3>6 DEF OrderInv
  <2>b. CASE memory' = [memory EXCEPT ![b] = "freed"] /\ UNCHANGED queue
    <3>1. \A c \in Blocks : memory'[c] = "blank" => memory[c] = "blank"
      BY <1>0, <2>0, <2>b
    <3>2. ASSUME NEW u \in Threads PROVE Unrecorded(u)'
      BY <1>0, <2>0, <2>b DEF OrderInv, Unrecorded, Goto
    <3>3. ASSUME NEW u \in Threads PROVE HandoffOrdered(u)'
      BY <1>0, <2>0, <2>b, <3>1 DEF OrderInv, HandoffOrdered, Goto, CallOK
    <3>4. ASSUME NEW c \in Blocks PROVE BlankOrdered(c)'
      BY <1>0, <2>0, <2>b, <3>1 DEF OrderInv, BlankOrdered
    <3>. QED  BY <2>0, <3>2, <3>3, <3>4 DEF OrderInv
  <2>. QED  BY <1>17, <2>0, <2>a, <2>b DEF PerformDeallocate, b
<1>18. ASSUME NEW t \in Threads, PerformFails(t) PROVE OrderInv'
  BY <1>18, <1>0, OrderAside DEF Aside, PerformFails, NoJob, Job, Goto, Start, End, CallOK
<1>19. ASSUME NEW t \in Threads, Restore(t) PROVE OrderInv'
  BY <1>19, <1>0, OrderAside DEF Aside, Restore, NoJob, Job, Goto, Start, End, CallOK
<1>20. ASSUME NEW t \in Threads, RestoreFails(t) PROVE OrderInv'
  BY <1>20, <1>0, OrderAside DEF Aside, RestoreFails, NoJob, Job, Goto, Start, End, CallOK
<1>21. ASSUME NEW t \in Threads, NEW e \in Events, CreateEvent(t, e) PROVE OrderInv'
  <2>1. \A r \in Streams : ~In(queue, r, "record", e) /\ ~In(queue, r, "wait", e)
    BY <1>21, <1>0, InEnqueued DEF CreateEvent
  <2>2. /\ UNCHANGED <<job, queue, memory, export, early>>
        /\ fired' = fired \ {e}
        /\ event' = [event EXCEPT ![t] = <<e, active[t]>>]
        /\ pc' = [pc EXCEPT ![t] = "record"]
    BY <1>21 DEF CreateEvent, Goto
  <2>3. \A f, c : RecordedAfter(queue, fired, f, c) => RecordedAfter(queue', fired', f, c)
    BY <2>2 DEF RecordedAfter
  <2>4. ASSUME NEW c \in Blocks PROVE BlankOrdered(c)'
    BY <2>2, <2>3 DEF OrderInv, BlankOrdered, CopiesBehind, ReadsGuarded, ExportGuarded
  <2>5. ASSUME NEW u \in Threads PROVE Unrecorded(u)'
    BY <1>0, <2>1, <2>2 DEF OrderInv, Unrecorded
  <2>6. ASSUME NEW u \in Threads PROVE HandoffOrdered(u)'
    BY <1>0, <2>2, <2>3 DEF OrderInv, HandoffOrdered
  <2>. QED  BY <2>2, <2>4, <2>5, <2>6 DEF OrderInv
<1>22. ASSUME NEW t \in Threads, CreateEventFails(t) PROVE OrderInv'
  BY <1>22, <1>0, OrderAside
     DEF Aside, CreateEventFails, NoJob, Job, Goto, Start, End, CallOK
<1>23. ASSUME NEW t \in Threads, Record(t) PROVE OrderInv'
  <2> DEFINE b == job[t].b
             f == event[t][1]
  <2>0. /\ b \in Blocks /\ at[b] \in Streams /\ Native(t, at[b]) = at[b]
        /\ pc[t] = "record" /\ job[t].kind = "handoff" /\ f \in Events
        /\ event[t] # NoEvent
    BY <1>23, <1>0, HomeCalls DEF Record, CallOK
  <2>1. /\ UNCHANGED <<job, event, fired, memory, export, early>> /\ Goto(t, "wait")
        /\ Append1(at[b], <<"record", f>>) /\ <<"record", f>> \in Ops
    BY <1>23, <2>0 DEF Record, Ops
  <2>2. f \notin fired /\ \A r \in Streams : ~In(queue, r, "record", f) /\ ~In(queue, r, "wait", f)
    BY <2>0 DEF OrderInv, Unrecorded
  <2>3. \A u \in Threads \ {t} : event[u] # NoEvent => event[u][1] # f
    BY <2>0 DEF EventsInv
  <2> HIDE DEF b, f
  <2>4. \A c \in Blocks :
          /\ \A r \in Streams : \A l, y : In(queue, r, l, y) => In(queue', r, l, y)
          /\ Computing(queue, c) => Computing(queue', c)
          /\ \A e : RecordedAfter(queue, fired, e, c) /\ e # f
                      => RecordedAfter(queue', fired', e, c)
          /\ CopiesBehind(queue, c) => CopiesBehind(queue', c)
          /\ \A r \in Streams : ExportGuarded(queue, fired, r, c)
                                  => ExportGuarded(queue', fired', r, c)
          /\ ReadsGuarded(queue, fired, c) => ReadsGuarded(queue', fired', c)
    BY <1>0, <2>0, <2>1, <2>2, AppendOrder
  <2>5. \A r \in Streams : \A l, y :
          In(queue', r, l, y) => In(queue, r, l, y) \/ (l = "record" /\ y = f)
    BY <1>0, <2>0, <2>1, InAppend
  \* The computation is on the buffer's stream, and the record goes behind it.
  <2>6. memory[b] = "blank" => RecordedAfter(queue', fired', f, b)
    <3> SUFFICES ASSUME memory[b] = "blank" PROVE RecordedAfter(queue', fired', f, b)
      OBVIOUS
    <3>1. In(queue, at[b], "write", b) \/ In(queue, at[b], "upload", b)
      <4>1. Computing(queue, b)
        BY <2>0 DEF OrderInv, HandoffOrdered, b
      <4>. QED  BY <2>0, <4>1 DEF Computing, OnStream, Ordered
    <3>2. PICK j \in Nat : Wrote(queue, at[b], j, b)
      BY <3>1 DEF In, Wrote
    <3>3. /\ \A r \in Streams, i \in Nat : \A l, y :
               On(queue', r, i, l, y) <=>
                 \/ On(queue, r, i, l, y)
                 \/ r = at[b] /\ i = Len(queue[at[b]]) + 1 /\ l = "record" /\ y = f
          /\ Len(queue[at[b]]) \in Nat
          /\ \A i \in Nat : \A l, y : On(queue, at[b], i, l, y) => i <= Len(queue[at[b]])
      BY <1>0, <2>0, <2>1, OnAppend
    <3>4. j < Len(queue[at[b]]) + 1 /\ Wrote(queue', at[b], j, b)
      BY <2>0, <3>2, <3>3 DEF Wrote
    <3>5. \A r \in Streams, i \in Nat : ~On(queue, r, i, "record", f)
      BY <2>2 DEF In
    <3>6. \A r \in Streams, i \in Nat :
            On(queue', r, i, "record", f) => Behind(queue', r, i, b)
      BY <3>3, <3>4, <3>5 DEF Behind
    <3>. QED  BY <2>1, <2>2, <3>6 DEF RecordedAfter
  <2>7. ASSUME NEW u \in Threads PROVE Unrecorded(u)'
    <3>1. CASE u = t
      BY <1>0, <2>1, <3>1 DEF Unrecorded, Goto
    <3>2. CASE u # t
      BY <1>0, <2>1, <2>3, <2>5, <3>2 DEF OrderInv, Unrecorded, Goto, CallOK
    <3>. QED  BY <3>1, <3>2
  <2>8. ASSUME NEW u \in Threads PROVE HandoffOrdered(u)'
    <3>1. CASE u = t
      <4>1. pc'[u] = "wait" /\ job'[u] = job[u] /\ memory' = memory /\ event' = event
        BY <1>0, <2>1, <3>1 DEF Goto
      <4>2. memory[b] = "blank" => Computing(queue, b)
        BY <2>0 DEF OrderInv, HandoffOrdered, b
      <4>. QED  BY <2>0, <2>4, <2>6, <3>1, <4>1, <4>2 DEF HandoffOrdered, b, f
    <3>2. CASE u # t
      BY <1>0, <2>1, <2>3, <2>4, <3>2 DEF OrderInv, HandoffOrdered, Goto, CallOK
    <3>. QED  BY <3>1, <3>2
  <2>9. ASSUME NEW c \in Blocks PROVE BlankOrdered(c)'
    BY <1>0, <2>1, <2>4 DEF OrderInv, BlankOrdered, ExportGuarded
  <2>. QED  BY <2>1, <2>7, <2>8, <2>9 DEF OrderInv
<1>24. ASSUME NEW t \in Threads, Wait(t) PROVE OrderInv'
  <2> DEFINE f == event[t][1]
  <2>0. /\ job[t].b \in Blocks /\ job[t].s \in Streams /\ Native(t, job[t].s) = job[t].s
        /\ pc[t] = "wait" /\ job[t].kind = "handoff" /\ f \in Events
        /\ event[t] # NoEvent
    BY <1>24, <1>0, HomeCalls DEF Wait, CallOK
  <2>1. /\ UNCHANGED <<job, event, fired, memory, export, early>> /\ Goto(t, "destroy")
        /\ Append1(job[t].s, <<"wait", f>>) /\ <<"wait", f>> \in Ops
    BY <1>24, <2>0 DEF Wait, Ops
  <2>2. \A u \in Threads \ {t} : event[u] # NoEvent => event[u][1] # f
    BY <2>0 DEF EventsInv
  <2> HIDE DEF f
  <2>3. \A c \in Blocks :
          /\ \A r \in Streams : \A l, y : In(queue, r, l, y) => In(queue', r, l, y)
          /\ Computing(queue, c) => Computing(queue', c)
          /\ \A e : RecordedAfter(queue, fired, e, c) => RecordedAfter(queue', fired', e, c)
          /\ CopiesBehind(queue, c) => CopiesBehind(queue', c)
          /\ \A r \in Streams : ExportGuarded(queue, fired, r, c)
                                  => ExportGuarded(queue', fired', r, c)
          /\ ReadsGuarded(queue, fired, c) => ReadsGuarded(queue', fired', c)
    BY <1>0, <2>0, <2>1, AppendOrder
  <2>4. \A r \in Streams : \A l, y :
          In(queue', r, l, y) <=>
            In(queue, r, l, y) \/ (r = job[t].s /\ l = "wait" /\ y = f)
    BY <1>0, <2>0, <2>1, InAppend
  <2>5. ASSUME NEW u \in Threads PROVE Unrecorded(u)'
    <3>1. CASE u = t
      BY <1>0, <2>1, <3>1 DEF Unrecorded, Goto
    <3>2. CASE u # t
      BY <1>0, <2>1, <2>2, <2>4, <3>2 DEF OrderInv, Unrecorded, Goto, CallOK
    <3>. QED  BY <3>1, <3>2
  <2>6. ASSUME NEW u \in Threads PROVE HandoffOrdered(u)'
    <3>1. CASE u = t
      <4>1. pc'[u] = "destroy" /\ job'[u] = job[u] /\ memory' = memory /\ event' = event
        BY <1>0, <2>1, <3>1 DEF Goto
      <4>2. memory[job[t].b] = "blank" =>
              Computing(queue, job[t].b) /\ RecordedAfter(queue, fired, f, job[t].b)
        BY <2>0 DEF OrderInv, HandoffOrdered, f
      <4>. QED  BY <2>0, <2>3, <2>4, <3>1, <4>1, <4>2 DEF HandoffOrdered, f
    <3>2. CASE u # t
      BY <1>0, <2>1, <2>3, <3>2 DEF OrderInv, HandoffOrdered, Goto, CallOK
    <3>. QED  BY <3>1, <3>2
  <2>7. ASSUME NEW c \in Blocks PROVE BlankOrdered(c)'
    BY <1>0, <2>1, <2>3 DEF OrderInv, BlankOrdered, ExportGuarded
  <2>. QED  BY <2>1, <2>5, <2>6, <2>7 DEF OrderInv
<1>25. ASSUME NEW t \in Threads, OrderFails(t) PROVE OrderInv'
  BY <1>25, <1>0, OrderAside DEF Aside, OrderFails, NoJob, Job, Goto, Start, End, CallOK
<1>26. ASSUME NEW t \in Threads, Destroy(t) PROVE OrderInv'
  <2>0. /\ job[t].b \in Blocks /\ job[t].s \in Streams
        /\ pc[t] = "destroy" /\ job[t].kind = "handoff" /\ event[t][1] \in Events
        /\ UNCHANGED <<queue, fired, memory, early>>
        /\ event' = [event EXCEPT ![t] = NoEvent]
        /\ export' = [export EXCEPT ![job[t].b] = job[t].s]
        /\ pc' = [pc EXCEPT ![t] = "idle"] /\ job' = [job EXCEPT ![t] = NoJob]
    BY <1>26, <1>0, HomeCalls DEF Destroy, CallOK, End, Start, Goto
  <2>1. memory[job[t].b] = "blank" =>
          /\ RecordedAfter(queue, fired, event[t][1], job[t].b)
          /\ In(queue, job[t].s, "wait", event[t][1])
    BY <2>0 DEF OrderInv, HandoffOrdered
  <2>2. ASSUME NEW u \in Threads PROVE Unrecorded(u)'
    BY <1>0, <2>0 DEF OrderInv, Unrecorded
  <2>3. ASSUME NEW u \in Threads PROVE HandoffOrdered(u)'
    BY <1>0, <2>0 DEF OrderInv, HandoffOrdered, NoJob
  <2>4. ASSUME NEW c \in Blocks PROVE BlankOrdered(c)'
    BY <1>0, <2>0, <2>1 DEF OrderInv, BlankOrdered, ExportGuarded
  <2>. QED  BY <2>0, <2>2, <2>3, <2>4 DEF OrderInv
<1>27. ASSUME NEW t \in Threads, DestroyFails(t) PROVE OrderInv'
  BY <1>27, <1>0, OrderAside DEF Aside, DestroyFails, NoJob, Job, Goto, Start, End, CallOK
<1>28. ASSUME NEW t \in Threads, Synchronize(t) PROVE OrderInv'
  <2>0. /\ pc[t] = "synchronize" /\ job[t].kind \in {"handoff", "copy", "upload"}
        /\ job[t].b \in Blocks /\ at[job[t].b] \in Streams /\ queue[at[job[t].b]] = <<>>
        /\ UNCHANGED <<event, queue, fired, memory, early>>
        /\ export' = IF job[t].kind = "handoff" THEN [export EXCEPT ![job[t].b] = job[t].s]
                                                 ELSE export
        /\ pc' = [pc EXCEPT ![t] = "idle"] /\ job' = [job EXCEPT ![t] = NoJob]
    BY <1>28, <1>0, HomeCalls DEF Synchronize, CallOK, End, Start, Goto, Jobs, Kinds
  \* The queue of the buffer's stream has run dry: the computation is done.
  <2>1. job[t].kind = "handoff" => memory[job[t].b] # "blank"
    <3>1. \A k, x : ~In(queue, at[job[t].b], k, x)
      BY <1>0, <2>0, InFacts
    <3>2. ~Computing(queue, job[t].b)
      BY <2>0, <3>1 DEF Computing, OnStream, Ordered
    <3>. QED  BY <3>2 DEF OrderInv, HandoffOrdered
  <2>2. ASSUME NEW u \in Threads PROVE Unrecorded(u)'
    BY <1>0, <2>0 DEF OrderInv, Unrecorded
  <2>3. ASSUME NEW u \in Threads PROVE HandoffOrdered(u)'
    BY <1>0, <2>0 DEF OrderInv, HandoffOrdered, NoJob
  <2>4. ASSUME NEW c \in Blocks PROVE BlankOrdered(c)'
    BY <1>0, <2>0, <2>1 DEF OrderInv, BlankOrdered
  <2>. QED  BY <2>0, <2>2, <2>3, <2>4 DEF OrderInv
<1>29. ASSUME NEW t \in Threads, SynchronizeFails(t) PROVE OrderInv'
  BY <1>29, <1>0, OrderAside
     DEF Aside, SynchronizeFails, NoJob, Job, Goto, Start, End, CallOK
<1>30. ASSUME UNCHANGED vars PROVE OrderInv'
  BY <1>30, OrderAside DEF Aside, vars, threads, calls, gpu, buffers, data
<1>. QED
  BY <1>1, <1>2, <1>3, <1>4, <1>5, <1>6, <1>7, <1>8, <1>9, <1>10, <1>11, <1>12, <1>13,
     <1>14, <1>15, <1>16, <1>17, <1>18, <1>19, <1>20, <1>21, <1>22, <1>23, <1>24, <1>25,
     <1>26, <1>27, <1>28, <1>29, <1>30
     DEF Next

\* event_order: of a program that selects a buffer's device before it exports or copies it,
\* no consumer's read, and no copy, meets bytes whose computation was enqueued before and is
\* not yet done.
THEOREM ReadsFollow == ASSUME AlwaysHome PROVE Spec => []ReadsFollowWrites
<1>1. TypeOK /\ Calls /\ Pins /\ DevicesInv /\ EventsInv /\ CallsHome /\ OnStream /\ OrderInv /\
      [Next]_vars => OrderInv'
  BY OrderStep
<1>2. OrderInv => ReadsFollowWrites
  BY DEF OrderInv, ReadsFollowWrites
<1>. QED  BY <1>1, <1>2, HomeAlways, EventsAlways, OrderInit, PTL DEF Spec
-------------------------------------------------------------------------------
(***************************************************************************)
(* Uses precede the free                                                   *)
(*                                                                         *)
(* What is enqueued on a buffer's own stream is before its free there, and *)
(* what a consumer enqueued is done before the export is given back, which *)
(* the free waits for.                                                     *)
(***************************************************************************)
Edits == {"write", "upload", "copy"}
Uses == Edits \cup {"read"}

ReadOnce(q, b) ==
  \A s, r \in Streams, i, j \in Nat :
    On(q, s, i, "read", b) /\ On(q, r, j, "read", b) => r = s /\ j = i
FreeLast(q, b) ==
  \A s \in Streams, i, j \in Nat, k \in Edits :
    On(q, s, i, "free", b) /\ On(q, s, j, k, b) => j < i

\* One call exports a buffer at a time.
HandoffAlone(t) ==
  job[t].kind = "handoff" =>
    /\ export[job[t].b] = NoStream
    /\ \A u \in Threads \ {t} : job[u].kind = "handoff" => job[u].b # job[t].b

FreedLast(b) ==
  /\ export[b] = NoStream => reads[b] = "none"
  /\ export[b] # NoStream => block[b] = "live"
  /\ memory[b] = "freed" =>
       block[b] = "freed" /\ \A s \in Streams, k \in Uses : ~In(queue, s, k, b)
  /\ \A s \in Streams : In(queue, s, "read", b) => reads[b] = "queued"
  /\ \A s \in Streams : In(queue, s, "free", b) => block[b] = "freed"
  /\ ReadOnce(queue, b)
  /\ FreeLast(queue, b)

FreeInv ==
  /\ late = {}
  /\ \A t \in Threads : HandoffAlone(t)
  /\ \A b \in Blocks : FreedLast(b)

LEMMA FreeInit == Init => FreeInv
<1> SUFFICES ASSUME Init PROVE FreeInv
  OBVIOUS
<1>1. \A s \in Streams : \A i, k, x : ~On(queue, s, i, k, x)
  BY DEF Init, On
<1>2. \A t \in Threads : job[t].kind = "none"
  BY DEF Init, NoJob
<1>3. /\ late = {}
      /\ \A b \in Blocks : export[b] = NoStream /\ reads[b] = "none" /\ memory[b] = "blank"
  BY DEF Init
<1>. QED  BY <1>1, <1>2, <1>3 DEF FreeInv, HandoffAlone, FreedLast, ReadOnce, FreeLast, In

LEMMA AppendFree ==
  ASSUME QueueType, NEW s \in Streams, NEW k, NEW x, <<k, x>> \in Ops, Append1(s, <<k, x>>),
         NEW b \in Blocks
  PROVE  /\ \A r \in Streams : \A l, y :
              In(queue', r, l, y) <=> In(queue, r, l, y) \/ (r = s /\ l = k /\ y = x)
         /\ /\ ReadOnce(queue, b)
            /\ k = "read" /\ x = b => \A r \in Streams : ~In(queue, r, "read", b)
            => ReadOnce(queue', b)
         /\ /\ FreeLast(queue, b)
            /\ k \in Edits /\ x = b => \A r \in Streams : ~In(queue, r, "free", b)
            => FreeLast(queue', b)
<1> DEFINE n == Len(queue[s]) + 1
<1>1. /\ \A r \in Streams, i \in Nat : \A l, y :
           On(queue', r, i, l, y) <=>
             \/ On(queue, r, i, l, y)
             \/ r = s /\ i = n /\ l = k /\ y = x
      /\ n \in Nat
      /\ \A i \in Nat : \A l, y : On(queue, s, i, l, y) => i < n
  <2>1. Len(queue[s]) \in Nat
    BY OnAppend
  <2>. QED  BY <2>1, OnAppend
<1>2. \A r \in Streams : \A l, y :
        In(queue', r, l, y) <=> In(queue, r, l, y) \/ (r = s /\ l = k /\ y = x)
  BY InAppend
<1> HIDE DEF n
<1>3. ASSUME ReadOnce(queue, b),
             k = "read" /\ x = b => \A r \in Streams : ~In(queue, r, "read", b)
      PROVE  ReadOnce(queue', b)
  BY <1>1, <1>3 DEF ReadOnce, In
<1>4. ASSUME FreeLast(queue, b),
             k \in Edits /\ x = b => \A r \in Streams : ~In(queue, r, "free", b)
      PROVE  FreeLast(queue', b)
  BY <1>1, <1>4 DEF FreeLast, In, Edits
<1>. QED  BY <1>2, <1>3, <1>4

LEMMA ExecuteFree ==
  ASSUME QueueType, NEW s \in Streams, Execute(s), NEW b \in Blocks
  PROVE  /\ \A r \in Streams : \A l, y : In(queue', r, l, y) => In(queue, r, l, y)
         /\ ReadOnce(queue, b) => ReadOnce(queue', b)
         /\ FreeLast(queue, b) => FreeLast(queue', b)
         /\ ReadOnce(queue, b) /\ Head(queue[s])[1] = "read" /\ Head(queue[s])[2] = b =>
              \A r \in Streams : ~In(queue', r, "read", b)
         /\ FreeLast(queue, b) /\ Head(queue[s])[1] = "free" /\ Head(queue[s])[2] = b =>
              \A k \in Edits : ~In(queue', s, k, b)
<1>1. /\ queue[s] # <<>> /\ queue' = [queue EXCEPT ![s] = Tail(@)]
      /\ \A r \in Streams : \A l, y : In(queue', r, l, y) => In(queue, r, l, y)
  BY InTail DEF Execute
<1> DEFINE kind == Head(queue[s])[1]
           x == Head(queue[s])[2]
<1>2. /\ On(queue, s, 1, kind, x)
      /\ \A i \in Nat : \A l, y : On(queue', s, i, l, y) <=> i # 0 /\ On(queue, s, i + 1, l, y)
      /\ \A r \in Streams \ {s}, i \in Nat : \A l, y :
           On(queue', r, i, l, y) <=> On(queue, r, i, l, y)
  BY <1>1, OnTail
<1> HIDE DEF kind, x
\* Where an item of the new queues was in the old ones.
<1> DEFINE was(r, i) == IF r = s THEN i + 1 ELSE i
<1>3. \A r \in Streams, i \in Nat : \A l, y : On(queue', r, i, l, y) =>
        /\ was(r, i) \in Nat /\ On(queue, r, was(r, i), l, y)
        /\ r = s => was(r, i) # 1
  BY <1>2
<1>4. \A r \in Streams, i, j \in Nat : /\ was(r, i) = was(r, j) => i = j
                                       /\ was(r, i) < was(r, j) => i < j
  OBVIOUS
<1> HIDE DEF was
<1>5. ASSUME ReadOnce(queue, b) PROVE ReadOnce(queue', b)
  BY <1>3, <1>4, <1>5 DEF ReadOnce
<1>6. ASSUME FreeLast(queue, b) PROVE FreeLast(queue', b)
  BY <1>3, <1>4, <1>6 DEF FreeLast
<1>7. ASSUME ReadOnce(queue, b), kind = "read", x = b,
             NEW r \in Streams, In(queue', r, "read", b)
      PROVE  FALSE
  BY <1>2, <1>3, <1>7 DEF ReadOnce, In
<1>8. ASSUME FreeLast(queue, b), kind = "free", x = b,
             NEW k \in Edits, In(queue', s, k, b)
      PROVE  FALSE
  <2>1. PICK i \in Nat : On(queue', s, i, k, b)
    BY <1>8 DEF In
  <2>2. i # 0 /\ i + 1 \in Nat /\ On(queue, s, i + 1, k, b)
    BY <1>2, <2>1
  <2>3. i + 1 < 1
    BY <1>2, <1>8, <2>2 DEF FreeLast
  <2>. QED  BY <2>3
<1>. QED  BY <1>1, <1>5, <1>6, <1>7, <1>8 DEF kind, x

\* A step that leaves the queues, the exports and the freed buffers alone.
AsideOfFree ==
  /\ UNCHANGED <<queue, memory, export, reads, late>>
  /\ \A b \in Blocks : /\ block[b] = "freed" => block'[b] = "freed"
                       /\ block[b] = "live" => block'[b] = "live" \/ export[b] = NoStream
  /\ \A t \in Threads : job'[t].kind = "handoff" => job'[t] = job[t]

LEMMA FreeAside == ASSUME FreeInv, AsideOfFree PROVE FreeInv'
<1>1. late' = {}
  BY DEF FreeInv, AsideOfFree
<1>2. ASSUME NEW t \in Threads PROVE HandoffAlone(t)'
  BY DEF FreeInv, AsideOfFree, HandoffAlone
<1>3. ASSUME NEW b \in Blocks PROVE FreedLast(b)'
  BY DEF FreeInv, AsideOfFree, FreedLast
<1>. QED  BY <1>1, <1>2, <1>3 DEF FreeInv

LEMMA FreeStep ==
  ASSUME AlwaysHome, TypeOK, Calls, Pins, DevicesInv, CallsHome, OnStream, FreeInv, [Next]_vars
  PROVE  FreeInv'
<1>0. /\ pc \in [Threads -> PCs] /\ job \in [Threads -> Jobs]
      /\ event \in [Threads -> Events \X Devices \cup {NoEvent}]
      /\ at \in [Blocks -> Streams \cup {NoStream}]
      /\ block \in [Blocks -> {"none", "making", "live", "freeing", "freed", "lost"}]
      /\ memory \in [Blocks -> {"blank", "written", "freed"}]
      /\ export \in [Blocks -> Streams \cup {NoStream}]
      /\ reads \in [Blocks -> {"none", "queued", "done"}]
      /\ QueueType
      /\ \A t \in Threads : CallOK(t)
      /\ \A b \in Blocks : block[b] # "none" => at[b] \in Streams
  BY DEF TypeOK, Calls, QueueType
<1> USE DEF threads, calls, gpu, buffers, data
<1>1. ASSUME NEW s \in Streams, Execute(s) PROVE FreeInv'
  <2> DEFINE kind == Head(queue[s])[1]
             x == Head(queue[s])[2]
  <2>1. \A c \in Blocks :
          /\ \A r \in Streams : \A l, y : In(queue', r, l, y) => In(queue, r, l, y)
          /\ ReadOnce(queue, c) => ReadOnce(queue', c)
          /\ FreeLast(queue, c) => FreeLast(queue', c)
          /\ ReadOnce(queue, c) /\ kind = "read" /\ x = c =>
               \A r \in Streams : ~In(queue', r, "read", c)
          /\ FreeLast(queue, c) /\ kind = "free" /\ x = c =>
               \A k \in Edits : ~In(queue', s, k, c)
    BY <1>1, <1>0, ExecuteFree
  <2>2. In(queue, s, kind, x) /\ <<kind, x>> \in Ops
    BY <1>1, <1>0, InTail, InFacts DEF Execute
  <2>3. /\ UNCHANGED <<job, block, at, export>>
        /\ memory' = IF kind \notin {"write", "upload", "free"} THEN memory
                     ELSE [memory EXCEPT ![x] = IF kind = "free" THEN "freed" ELSE "written"]
        /\ reads' = IF kind = "read" THEN [reads EXCEPT ![x] = "done"] ELSE reads
        /\ late' = IF kind \in Uses /\ memory[x] = "freed" THEN late \cup {x} ELSE late
    BY <1>1 DEF Execute, Uses, Edits
  <2>4. kind \in Uses \cup {"free"} => x \in Blocks
    BY <2>2 DEF Ops, Uses, Edits
  <2> HIDE DEF kind, x
  <2>5. late' = {}
    BY <2>2, <2>3, <2>4 DEF FreeInv, FreedLast
  <2>6. ASSUME NEW u \in Threads PROVE HandoffAlone(u)'
    BY <2>3 DEF FreeInv, HandoffAlone
  <2>7. ASSUME NEW c \in Blocks PROVE FreedLast(c)'
    <3>1. FreedLast(c)
      BY DEF FreeInv
    <3>2. CASE kind = "free" /\ x = c
      <4>1. block[c] = "freed" /\ export[c] = NoStream /\ reads[c] = "none"
        BY <2>2, <3>1, <3>2 DEF FreedLast
      <4>2. \A r \in Streams : ~In(queue, r, "read", c)
        BY <3>1, <4>1 DEF FreedLast
      <4>3. \A r \in Streams, k \in Edits : ~In(queue', r, k, c)
        <5>1. s = at[c] /\ \A r \in Streams, k \in Edits : In(queue, r, k, c) => r = at[c]
          BY <2>2, <3>2 DEF OnStream, Ordered, Edits
        <5>. QED  BY <2>1, <3>1, <3>2, <5>1 DEF FreedLast
      <4>4. \A r \in Streams, k \in Uses : ~In(queue', r, k, c)
        BY <2>1, <4>2, <4>3 DEF Uses
      <4>5. reads'[c] = reads[c]
        BY <2>3, <3>2
      <4>. QED  BY <1>0, <2>1, <2>3, <3>1, <4>1, <4>4, <4>5 DEF FreedLast, Uses
    <3>3. CASE kind = "read" /\ x = c
      <4>1. reads'[c] = "done" /\ memory'[c] = memory[c]
        BY <1>0, <2>3, <3>3
      <4>2. export[c] # NoStream
        BY <2>2, <3>1, <3>3 DEF FreedLast
      <4>. QED  BY <2>1, <2>3, <3>1, <3>3, <4>1, <4>2 DEF FreedLast
    <3>4. CASE kind \notin {"free", "read"} \/ x # c
      <4>1. /\ reads'[c] = reads[c]
            /\ memory'[c] = "freed" => memory[c] = "freed"
        BY <1>0, <2>3, <3>4
      <4>. QED  BY <2>1, <2>3, <3>1, <4>1 DEF FreedLast
    <3>. QED  BY <3>2, <3>3, <3>4
  <2>. QED  BY <2>5, <2>6, <2>7 DEF FreeInv
<1>2. ASSUME NEW s \in Streams, StreamDies(s) PROVE FreeInv'
  BY <1>2, <1>0, FreeAside DEF AsideOfFree, StreamDies, NoJob, Job, Goto, Start, End
<1>3. ASSUME NEW b \in Blocks, Compute(b) PROVE FreeInv'
  <2>1. /\ block[b] = "live" /\ at[b] \in Streams /\ Append1(at[b], <<"write", b>>)
        /\ UNCHANGED <<job, block, memory, export, reads, late>>
    BY <1>3, <1>0 DEF Compute, Usable
  <2>2. \A c \in Blocks :
          /\ \A r \in Streams : \A l, y :
               In(queue', r, l, y) <=>
                 In(queue, r, l, y) \/ (r = at[b] /\ l = "write" /\ y = b)
          /\ ReadOnce(queue, c) => ReadOnce(queue', c)
          /\ FreeLast(queue, c) /\ (c = b => \A r \in Streams : ~In(queue, r, "free", b))
               => FreeLast(queue', c)
    BY <1>0, <2>1, AppendFree DEF Ops
  <2>3. \A r \in Streams : ~In(queue, r, "free", b)
    BY <2>1 DEF FreeInv, FreedLast
  <2>4. \A c \in Blocks : FreedLast(c)'
    BY <2>1, <2>2, <2>3 DEF FreeInv, FreedLast, Uses, Edits
  <2>5. \A u \in Threads : HandoffAlone(u)'
    BY <1>0, <2>1 DEF FreeInv, HandoffAlone
  <2>. QED  BY <2>1, <2>4, <2>5 DEF FreeInv
<1>4. ASSUME NEW b \in Blocks, Consume(b) PROVE FreeInv'
  <2>1. /\ export[b] \in Streams /\ reads[b] = "none" /\ block[b] = "live"
        /\ Append1(export[b], <<"read", b>>) /\ <<"read", b>> \in Ops
        /\ reads' = [reads EXCEPT ![b] = "queued"]
        /\ UNCHANGED <<job, block, memory, export, late>>
    BY <1>4, <1>0 DEF Consume, FreeInv, FreedLast, Ops
  <2>2. \A r \in Streams : ~In(queue, r, "read", b) /\ ~In(queue, r, "free", b)
    BY <2>1 DEF FreeInv, FreedLast
  <2>3. \A c \in Blocks :
          /\ \A r \in Streams : \A l, y :
               In(queue', r, l, y) <=>
                 In(queue, r, l, y) \/ (r = export[b] /\ l = "read" /\ y = b)
          /\ ReadOnce(queue, c) => ReadOnce(queue', c)
          /\ FreeLast(queue, c) => FreeLast(queue', c)
    BY <1>0, <2>1, <2>2, AppendFree DEF Edits
  <2>4. \A u \in Threads : HandoffAlone(u)'
    BY <2>1 DEF FreeInv, HandoffAlone
  <2>5. \A c \in Blocks : FreedLast(c)'
    <3> SUFFICES ASSUME NEW c \in Blocks PROVE FreedLast(c)'
      OBVIOUS
    <3>1. FreedLast(c)
      BY DEF FreeInv
    <3>2. CASE c = b
      BY <1>0, <2>1, <2>2, <2>3, <3>1, <3>2, StreamFacts DEF FreedLast, Uses, Edits
    <3>3. CASE c # b
      BY <1>0, <2>1, <2>3, <3>1, <3>3 DEF FreedLast, Uses, Edits
    <3>. QED  BY <3>2, <3>3
  <2>. QED  BY <2>1, <2>4, <2>5 DEF FreeInv
<1>5. ASSUME NEW b \in Blocks, LetGo(b) PROVE FreeInv'
  <2>1. /\ UNCHANGED <<job, block, queue, memory, late>> /\ reads[b] # "queued"
        /\ export' = [export EXCEPT ![b] = NoStream]
        /\ reads' = [reads EXCEPT ![b] = "none"]
    BY <1>5 DEF LetGo
  <2>2. \A c \in Blocks : FreedLast(c)'
    BY <1>0, <2>1 DEF FreeInv, FreedLast
  <2>3. \A u \in Threads : HandoffAlone(u)'
    BY <1>0, <2>1 DEF FreeInv, HandoffAlone
  <2>. QED  BY <2>1, <2>2, <2>3 DEF FreeInv
<1>6. ASSUME NEW t \in Threads, NEW d \in Devices, Select(t, d) PROVE FreeInv'
  BY <1>6, <1>0, FreeAside DEF AsideOfFree, Select, NoJob, Job, Goto, Start, End
<1>7. ASSUME NEW t \in Threads, NEW s \in Streams, BeginCreate(t, s) PROVE FreeInv'
  BY <1>7, <1>0, FreeAside DEF AsideOfFree, BeginCreate, NoJob, Job, Goto, Start, End
<1>8. ASSUME NEW t \in Threads, NEW b \in Blocks, NEW s \in Streams, BeginAllocate(t, b, s)
      PROVE  FreeInv'
  BY <1>8, <1>0, FreeAside DEF AsideOfFree, BeginAllocate, NoJob, Job, Goto, Start, End
<1>9. ASSUME NEW t \in Threads, NEW b \in Blocks, NEW s \in Streams, BeginHandoff(t, b, s)
      PROVE  FreeInv'
  <2>1. /\ UNCHANGED <<block, queue, memory, export, reads, late>>
        /\ export[b] = NoStream /\ \A u \in Threads : job[u].kind = "handoff" => job[u].b # b
        /\ job' = [job EXCEPT ![t] = Job("handoff", b, s)]
    BY <1>9 DEF BeginHandoff, Start
  <2>2. \A c \in Blocks : FreedLast(c)'
    BY <2>1 DEF FreeInv, FreedLast
  <2>3. \A u \in Threads : HandoffAlone(u)'
    BY <1>0, <2>1 DEF FreeInv, HandoffAlone, Job
  <2>. QED  BY <2>1, <2>2, <2>3 DEF FreeInv
<1>10. ASSUME NEW t \in Threads, NEW b \in Blocks, BeginDeallocate(t, b) PROVE FreeInv'
  BY <1>10, <1>0, FreeAside DEF AsideOfFree, BeginDeallocate, NoJob, Job, Goto, Start, End
<1>11. ASSUME NEW t \in Threads, NEW b \in Blocks, BeginCopy(t, b) PROVE FreeInv'
  <2>0. block[b] = "live" /\ at[b] \in Streams
    BY <1>11, <1>0 DEF BeginCopy, Usable
  <2>1. /\ block[b] = "live" /\ at[b] \in Streams /\ Append1(at[b], <<"copy", b>>)
        /\ Start(t, "synchronize", Job("copy", b, at[b]))
        /\ UNCHANGED <<block, memory, export, reads, late>>
    <3>1. Native(t, at[b]) = at[b]
      BY <1>11, <2>0, NativeHome DEF BeginCopy, AtHome, Own
    <3>. QED  BY <1>11, <2>0, <3>1 DEF BeginCopy
  <2>2. \A c \in Blocks :
          /\ \A r \in Streams : \A l, y :
               In(queue', r, l, y) <=>
                 In(queue, r, l, y) \/ (r = at[b] /\ l = "copy" /\ y = b)
          /\ ReadOnce(queue, c) => ReadOnce(queue', c)
          /\ FreeLast(queue, c) /\ (c = b => \A r \in Streams : ~In(queue, r, "free", b))
               => FreeLast(queue', c)
    BY <1>0, <2>1, AppendFree DEF Ops
  <2>3. \A r \in Streams : ~In(queue, r, "free", b)
    BY <2>1 DEF FreeInv, FreedLast
  <2>4. \A c \in Blocks : FreedLast(c)'
    BY <2>1, <2>2, <2>3 DEF FreeInv, FreedLast, Uses, Edits
  <2>5. \A u \in Threads : HandoffAlone(u)'
    BY <1>0, <2>1 DEF FreeInv, HandoffAlone, Start, Job
  <2>. QED  BY <2>1, <2>4, <2>5 DEF FreeInv
<1>12. ASSUME NEW t \in Threads, NEW b \in Blocks, BeginUpload(t, b) PROVE FreeInv'
  <2>0. block[b] = "live" /\ at[b] \in Streams
    BY <1>12, <1>0 DEF BeginUpload, Usable
  <2>1. /\ block[b] = "live" /\ at[b] \in Streams /\ Append1(at[b], <<"upload", b>>)
        /\ Start(t, "synchronize", Job("upload", b, at[b]))
        /\ UNCHANGED <<block, memory, export, reads, late>>
    <3>1. Native(t, at[b]) = at[b]
      BY <1>12, <2>0, NativeHome DEF BeginUpload, AtHome, Own
    <3>. QED  BY <1>12, <2>0, <3>1 DEF BeginUpload
  <2>2. \A c \in Blocks :
          /\ \A r \in Streams : \A l, y :
               In(queue', r, l, y) <=>
                 In(queue, r, l, y) \/ (r = at[b] /\ l = "upload" /\ y = b)
          /\ ReadOnce(queue, c) => ReadOnce(queue', c)
          /\ FreeLast(queue, c) /\ (c = b => \A r \in Streams : ~In(queue, r, "free", b))
               => FreeLast(queue', c)
    BY <1>0, <2>1, AppendFree DEF Ops
  <2>3. \A r \in Streams : ~In(queue, r, "free", b)
    BY <2>1 DEF FreeInv, FreedLast
  <2>4. \A c \in Blocks : FreedLast(c)'
    BY <2>1, <2>2, <2>3 DEF FreeInv, FreedLast, Uses, Edits
  <2>5. \A u \in Threads : HandoffAlone(u)'
    BY <1>0, <2>1 DEF FreeInv, HandoffAlone, Start, Job
  <2>. QED  BY <2>1, <2>4, <2>5 DEF FreeInv
<1>13. ASSUME NEW t \in Threads, Activate(t) PROVE FreeInv'
  BY <1>13, <1>0, FreeAside DEF AsideOfFree, Activate, NoJob, Job, Goto, Start, End
<1>14. ASSUME NEW t \in Threads, ActivateFails(t) PROVE FreeInv'
  <2>1. \A b \in Blocks : block'[b] # block[b] => block[b] \in {"making", "freeing"}
    BY <1>14, <1>0, UndoneFacts DEF ActivateFails, Pins, Under
  <2>. QED  BY <1>14, <1>0, <2>1, FreeAside DEF AsideOfFree, ActivateFails, NoJob, Goto, Start, End
<1>15. ASSUME NEW t \in Threads, PerformCreate(t) PROVE FreeInv'
  BY <1>15, <1>0, FreeAside DEF AsideOfFree, PerformCreate, NoJob, Job, Goto, Start, End
<1>16. ASSUME NEW t \in Threads, PerformAllocate(t) PROVE FreeInv'
  BY <1>16, <1>0, FreeAside
     DEF AsideOfFree, Pins, Under, CallOK, PerformAllocate, NoJob, Job, Goto, Start, End
<1>17. ASSUME NEW t \in Threads, PerformDeallocate(t) PROVE FreeInv'
  <2> DEFINE b == job[t].b
  <2>0. /\ b \in Blocks /\ at[b] \in Streams /\ Native(t, job[t].s) = at[b]
        /\ DeviceOf(at[b]) = active[t] /\ block[b] = "freeing"
        /\ UNCHANGED <<job, export, reads, late>>
        /\ block' = [block EXCEPT ![b] = "freed"]
    BY <1>17, HomeCalls DEF PerformDeallocate
  <2>1. /\ export[b] = NoStream /\ reads[b] = "none" /\ memory[b] # "freed"
        /\ \A r \in Streams : ~In(queue, r, "read", b) /\ ~In(queue, r, "free", b)
    BY <2>0 DEF FreeInv, FreedLast
  <2> HIDE DEF b
  <2>2. \A u \in Threads : HandoffAlone(u)'
    BY <2>0 DEF FreeInv, HandoffAlone
  <2>a. CASE Append1(at[b], <<"free", b>>) /\ UNCHANGED memory
    <3>1. \A c \in Blocks :
            /\ \A r \in Streams : \A l, y :
                 In(queue', r, l, y) <=>
                   In(queue, r, l, y) \/ (r = at[b] /\ l = "free" /\ y = b)
            /\ ReadOnce(queue, c) => ReadOnce(queue', c)
            /\ FreeLast(queue, c) => FreeLast(queue', c)
      BY <1>0, <2>0, <2>a, AppendFree DEF Ops, Edits
    <3>2. ASSUME NEW c \in Blocks PROVE FreedLast(c)'
      BY <1>0, <2>0, <2>1, <2>a, <3>1 DEF FreeInv, FreedLast, Uses, Edits
    <3>. QED  BY <2>0, <2>2, <3>2 DEF FreeInv
  <2>b. CASE /\ \A s \in Streams : DeviceOf(s) = active[t] => queue[s] = <<>>
             /\ memory' = [memory EXCEPT ![b] = "freed"] /\ UNCHANGED queue
    <3>1. \A k, x : ~In(queue, at[b], k, x)
      BY <1>0, <2>0, <2>b, InFacts
    <3>2. \A s \in Streams, k \in Uses : ~In(queue, s, k, b)
      BY <2>0, <2>1, <3>1 DEF OnStream, Ordered, Uses, Edits
    <3>3. ASSUME NEW c \in Blocks PROVE FreedLast(c)'
      BY <1>0, <2>0, <2>1, <2>b, <3>2 DEF FreeInv, FreedLast
    <3>. QED  BY <2>0, <2>2, <3>3 DEF FreeInv
  <2>. QED  BY <1>17, <2>0, <2>a, <2>b DEF PerformDeallocate, b
<1>18. ASSUME NEW t \in Threads, PerformFails(t) PROVE FreeInv'
  <2>1. \A b \in Blocks : block'[b] # block[b] => block[b] \in {"making", "freeing"}
    BY <1>18, <1>0, UndoneFacts DEF PerformFails, Pins, Under
  <2>. QED  BY <1>18, <1>0, <2>1, FreeAside DEF AsideOfFree, PerformFails, NoJob, Goto, Start, End
<1>19. ASSUME NEW t \in Threads, Restore(t) PROVE FreeInv'
  BY <1>19, <1>0, FreeAside DEF AsideOfFree, Restore, NoJob, Job, Goto, Start, End
<1>20. ASSUME NEW t \in Threads, RestoreFails(t) PROVE FreeInv'
  BY <1>20, <1>0, FreeAside DEF AsideOfFree, RestoreFails, NoJob, Job, Goto, Start, End
<1>21. ASSUME NEW t \in Threads, NEW e \in Events, CreateEvent(t, e) PROVE FreeInv'
  BY <1>21, <1>0, FreeAside DEF AsideOfFree, CreateEvent, NoJob, Job, Goto, Start, End
<1>22. ASSUME NEW t \in Threads, CreateEventFails(t) PROVE FreeInv'
  BY <1>22, <1>0, FreeAside DEF AsideOfFree, CreateEventFails, NoJob, Job, Goto, Start, End
<1>23. ASSUME NEW t \in Threads, Record(t) PROVE FreeInv'
  <2>1. /\ job[t].kind = "handoff" /\ at[job[t].b] \in Streams /\ event[t][1] \in Events
        /\ Native(t, at[job[t].b]) = at[job[t].b]
    BY <1>23, <1>0, HomeCalls DEF Record, CallOK
  <2>2. /\ UNCHANGED <<job, block, memory, export, reads, late>>
        /\ Append1(at[job[t].b], <<"record", event[t][1]>>) /\ <<"record", event[t][1]>> \in Ops
    BY <1>23, <2>1 DEF Record, Ops
  <2>3. \A c \in Blocks :
          /\ \A r \in Streams : \A l, y :
               In(queue', r, l, y) => In(queue, r, l, y) \/ l = "record"
          /\ ReadOnce(queue, c) => ReadOnce(queue', c)
          /\ FreeLast(queue, c) => FreeLast(queue', c)
    BY <1>0, <2>1, <2>2, AppendFree DEF Edits
  <2>4. \A c \in Blocks : FreedLast(c)'
    BY <2>2, <2>3 DEF FreeInv, FreedLast, Uses, Edits
  <2>5. \A u \in Threads : HandoffAlone(u)'
    BY <2>2 DEF FreeInv, HandoffAlone
  <2>. QED  BY <2>2, <2>4, <2>5 DEF FreeInv
<1>24. ASSUME NEW t \in Threads, Wait(t) PROVE FreeInv'
  <2>1. /\ job[t].kind = "handoff" /\ job[t].s \in Streams /\ event[t][1] \in Events
        /\ Native(t, job[t].s) = job[t].s
    BY <1>24, <1>0, HomeCalls DEF Wait, CallOK
  <2>2. /\ UNCHANGED <<job, block, memory, export, reads, late>>
        /\ Append1(job[t].s, <<"wait", event[t][1]>>) /\ <<"wait", event[t][1]>> \in Ops
    BY <1>24, <2>1 DEF Wait, Ops
  <2>3. \A c \in Blocks :
          /\ \A r \in Streams : \A l, y :
               In(queue', r, l, y) => In(queue, r, l, y) \/ l = "wait"
          /\ ReadOnce(queue, c) => ReadOnce(queue', c)
          /\ FreeLast(queue, c) => FreeLast(queue', c)
    BY <1>0, <2>1, <2>2, AppendFree DEF Edits
  <2>4. \A c \in Blocks : FreedLast(c)'
    BY <2>2, <2>3 DEF FreeInv, FreedLast, Uses, Edits
  <2>5. \A u \in Threads : HandoffAlone(u)'
    BY <2>2 DEF FreeInv, HandoffAlone
  <2>. QED  BY <2>2, <2>4, <2>5 DEF FreeInv
<1>25. ASSUME NEW t \in Threads, OrderFails(t) PROVE FreeInv'
  BY <1>25, <1>0, FreeAside DEF AsideOfFree, OrderFails, NoJob, Job, Goto, Start, End
<1>26. ASSUME NEW t \in Threads, Destroy(t) PROVE FreeInv'
  <2>1. /\ UNCHANGED <<block, queue, memory, reads, late>>
        /\ job[t].kind \in {"handoff", "copy", "upload"} /\ job[t].b \in Blocks
        /\ export' = IF job[t].kind = "handoff" THEN [export EXCEPT ![job[t].b] = job[t].s]
                                                 ELSE export
        /\ job' = [job EXCEPT ![t] = NoJob] /\ job[t].s \in Streams
    BY <1>26, <1>0 DEF Destroy, CallOK, End, Start, Jobs, Kinds
  <2>2. job[t].kind = "handoff" =>
          export[job[t].b] = NoStream /\ block[job[t].b] = "live"
    BY DEF FreeInv, HandoffAlone, Pins
  <2>3. \A c \in Blocks : FreedLast(c)'
    <3> SUFFICES ASSUME NEW c \in Blocks PROVE FreedLast(c)'
      OBVIOUS
    <3>1. FreedLast(c)
      BY DEF FreeInv
    <3>2. /\ export'[c] = NoStream => export[c] = NoStream
          /\ export'[c] # NoStream => block[c] = "live"
      BY <1>0, <2>1, <2>2, <3>1, StreamFacts DEF FreedLast
    <3>. QED  BY <2>1, <3>1, <3>2 DEF FreedLast
  <2>4. \A u \in Threads : HandoffAlone(u)'
    BY <1>0, <2>1 DEF FreeInv, HandoffAlone, NoJob
  <2>. QED  BY <2>1, <2>3, <2>4 DEF FreeInv
<1>27. ASSUME NEW t \in Threads, DestroyFails(t) PROVE FreeInv'
  BY <1>27, <1>0, FreeAside DEF AsideOfFree, DestroyFails, NoJob, Job, Goto, Start, End
<1>28. ASSUME NEW t \in Threads, Synchronize(t) PROVE FreeInv'
  <2>1. /\ UNCHANGED <<block, queue, memory, reads, late>>
        /\ job[t].kind \in {"handoff", "copy", "upload"} /\ job[t].b \in Blocks
        /\ export' = IF job[t].kind = "handoff" THEN [export EXCEPT ![job[t].b] = job[t].s]
                                                 ELSE export
        /\ job' = [job EXCEPT ![t] = NoJob] /\ job[t].s \in Streams
    BY <1>28, <1>0 DEF Synchronize, CallOK, End, Start, Jobs, Kinds
  <2>2. job[t].kind = "handoff" =>
          export[job[t].b] = NoStream /\ block[job[t].b] = "live"
    BY DEF FreeInv, HandoffAlone, Pins
  <2>3. \A c \in Blocks : FreedLast(c)'
    <3> SUFFICES ASSUME NEW c \in Blocks PROVE FreedLast(c)'
      OBVIOUS
    <3>1. FreedLast(c)
      BY DEF FreeInv
    <3>2. /\ export'[c] = NoStream => export[c] = NoStream
          /\ export'[c] # NoStream => block[c] = "live"
      BY <1>0, <2>1, <2>2, <3>1, StreamFacts DEF FreedLast
    <3>. QED  BY <2>1, <3>1, <3>2 DEF FreedLast
  <2>4. \A u \in Threads : HandoffAlone(u)'
    BY <1>0, <2>1 DEF FreeInv, HandoffAlone, NoJob
  <2>. QED  BY <2>1, <2>3, <2>4 DEF FreeInv
<1>29. ASSUME NEW t \in Threads, SynchronizeFails(t) PROVE FreeInv'
  BY <1>29, <1>0, FreeAside DEF AsideOfFree, SynchronizeFails, NoJob, Job, Goto, Start, End
<1>30. ASSUME UNCHANGED vars PROVE FreeInv'
  BY <1>30, FreeAside DEF AsideOfFree, vars
<1>. QED
  BY <1>1, <1>2, <1>3, <1>4, <1>5, <1>6, <1>7, <1>8, <1>9, <1>10, <1>11, <1>12, <1>13,
     <1>14, <1>15, <1>16, <1>17, <1>18, <1>19, <1>20, <1>21, <1>22, <1>23, <1>24, <1>25,
     <1>26, <1>27, <1>28, <1>29, <1>30
     DEF Next

\* GpuRuntimeMemoryResource.deallocate: of a program that copies a buffer, and frees one of a
\* per-thread stream, where it made it, no work that was enqueued on the bytes comes to them
\* after they were given back.
THEOREM UsesAreFirst == ASSUME AlwaysHome PROVE Spec => []UsesPrecedeFree
<1>1. TypeOK /\ Calls /\ Pins /\ DevicesInv /\ CallsHome /\ OnStream /\ FreeInv /\ [Next]_vars
        => FreeInv'
  BY FreeStep
<1>2. FreeInv => UsesPrecedeFree
  BY DEF FreeInv, UsesPrecedeFree
<1>. QED  BY <1>1, <1>2, HomeAlways, FreeInit, PTL DEF Spec
===============================================================================
