------------------------------ MODULE GpuStreams ------------------------------
(***************************************************************************)
(* The GPU side of devmm (_runtimes/_gpulib.py): the active device that    *)
(* every native call depends on and device_activation flips, the streams a *)
(* runtime creates and destroys, the raw memory resource, the event        *)
(* sequence that orders a DLPack consumer's stream after the producer's,   *)
(* and the copies through a host buffer.                                   *)
(*                                                                         *)
(* The GPU runs beside the threads: a native call only appends to the      *)
(* queue of a stream, and Execute takes the head of any queue whenever it  *)
(* can.  Every native call is a step of its own, and any of them may       *)
(* report an error if CanFail.                                             *)
(*                                                                         *)
(*   create_stream, allocate, deallocate:                                  *)
(*       Begin..., Activate, Perform..., Restore  (device_activation)      *)
(*   to_capsule's handoff:                                                 *)
(*       BeginHandoff, CreateEvent, Record, Wait, Destroy (event_order)    *)
(*       BeginHandoff, Synchronize      (no runtime serves the device)     *)
(*   memcpy:  BeginCopy or BeginUpload, Synchronize                        *)
(*                                                                         *)
(* A handle that names a default stream means that of the calling thread's *)
(* active device, and the handle of the per-thread default stream means    *)
(* the calling thread's own there.                                         *)
(***************************************************************************)
EXTENDS Naturals, Sequences

CONSTANTS
  Threads,
  Devices,
  PerThread,   \* the devices on which the per-thread default stream is used
  Created,     \* the streams that stream_create can make, as <<device, handle>>
  Foreign,     \* the streams that consumers own
  Blocks,      \* the buffers that can be allocated
  Events,      \* bound: the events that can exist at a time
  FirstDevice, \* every thread's active device at first
  Pools,       \* the devices that support memory pools: there, the resource that
               \* async_alloc="auto" makes uses malloc_async and free_async
  Unserved,    \* a device may have no runtime when it is looked up
  CanFail,     \* native calls may report an error
  AlwaysHome   \* the program selects a buffer's device before it exports or copies it,
               \* and uses and frees one of a per-thread stream in its thread only

\* The handle of a default stream, on any device.
Default == "default"

\* A stream is named by what the handle means in the thread that wrapped it.
Streams == Devices \X {Default} \cup PerThread \X Threads \cup Created \cup Foreign
DeviceOf(s) == s[1]
IsDefault(s) == s[2] = Default
IsPerThread(s) == s[2] \in Threads

\* No device to restore, no buffer, no stream, no event.
None == "none"
NoStream == <<None, None>>
NoEvent == <<None, None>>

ASSUME GpuAssumption ==
  /\ FirstDevice \in Devices
  /\ None \notin Devices \cup Events \cup Blocks
  /\ \A s \in Created \cup Foreign : DeviceOf(s) \in Devices /\ ~IsDefault(s) /\ ~IsPerThread(s)
  /\ Default \notin Threads
  /\ PerThread \subseteq Devices
  /\ AlwaysHome \/ PerThread \in {{}, Devices}
  /\ Created \cap Foreign = {}
  /\ Pools \subseteq Devices
  /\ Unserved \in BOOLEAN
  /\ CanFail \in BOOLEAN
  /\ AlwaysHome \in BOOLEAN

VARIABLES
  active,   \* the native active device of each thread
  chosen,   \* history: the device the program last selected in it
  strayed,  \* history: the threads in which a restore failed since
  pc,       \* the next native call of each thread
  job,      \* the operation it is in: its kind, block and stream
  saved,    \* `previous` in device_activation, None if there is nothing to restore
  event,    \* the event of event_order
  life,     \* each stream: "none", "live", "destroyed"
  queue,    \* what the GPU has still to do for each stream
  events,   \* each event: "none", "live", or "lost" if its destruction failed
  fired,    \* the events whose record the GPU has passed
  block,    \* each buffer: "none", "making", "live", "freeing", "freed", "lost"
  at,       \* its stream, DeviceBuffer.stream
  place,    \* history: the device its memory was taken from
  memory,   \* its bytes: "blank", "written", "freed"
  export,   \* the consumer's stream that an export of it was ordered on
  reads,    \* the consumer's use of it: "none", "queued", "done"
  early,    \* history: the reads and copies of bytes that were not yet written
  late,     \* history: the buffers whose bytes were used after they were freed
  unsynced  \* history: the buffers of which a copy reported that it was not waited for

threads == <<active, chosen, strayed>>
calls == <<pc, job, saved, event>>
gpu == <<life, queue, events, fired>>
buffers == <<block, at, place>>
data == <<memory, export, reads, early, late, unsynced>>
vars == <<threads, calls, gpu, buffers, data>>

NoJob == [kind |-> "none", b |-> None, s |-> NoStream]
Job(kind, b, s) == [kind |-> kind, b |-> b, s |-> s]

\* The stream a native call by t really means when it passes the handle of s.
Native(t, s) ==
  CASE IsDefault(s) -> <<active[t], Default>>
    [] IsPerThread(s) -> <<active[t], t>>
    [] OTHER -> s

\* GpuRuntime.wrap_stream and default_stream in thread t: of a sentinel, of a raw handle
\* or an object that tells one, and of a stream of devmm's own.
Wrappable(t, s) ==
  \/ IsDefault(s) \/ s[2] = t
  \/ s \in Foreign
  \/ s \in Created /\ life[s] = "live"

Append1(s, op) == queue' = [queue EXCEPT ![s] = Append(@, op)]
Goto(t, to) == pc' = [pc EXCEPT ![t] = to]
Start(t, to, j) == Goto(t, to) /\ job' = [job EXCEPT ![t] = j]
\* The call returns or raises.
End(t) == Start(t, "idle", NoJob)

Enqueued(op) == \E s \in Streams : \E i \in DOMAIN queue[s] : queue[s][i] = op
\* A computation of b's bytes was enqueued.
Computed(b) == memory[b] = "written" \/ Enqueued(<<"write", b>>) \/ Enqueued(<<"upload", b>>)

\* Where the program exports or copies b, and where it frees it.
AtHome(t, b) ==
  AlwaysHome => active[t] = DeviceOf(at[b]) /\ (IsPerThread(at[b]) => at[b][2] = t)
FreesAtHome(t, b) == AlwaysHome /\ IsPerThread(at[b]) => at[b][2] = t

\* The caller of allocate has its buffer.
Usable(b) ==
  /\ block[b] = "live"
  /\ \A t \in Threads : ~(job[t].kind = "allocate" /\ job[t].b = b)

\* A slip: the finalizer of a buffer does not hold its stream.
InUseByCalls(s) == \E t \in Threads : job[t].kind # "none" /\ job[t].s = s

\* The finalizer of a stream runs when nothing refers to its wrapper: no call, and
\* no buffer, whose own finalizer holds the stream until it has run.
InUse(s) ==
  \/ \E t \in Threads : job[t].kind # "none" /\ job[t].s = s
  \/ \E b \in Blocks : at[b] = s /\ block[b] \in {"making", "live", "freeing"}
-------------------------------------------------------------------------------
Init ==
  /\ active = [t \in Threads |-> FirstDevice]
  /\ chosen = [t \in Threads |-> FirstDevice]
  /\ strayed = {}
  /\ pc = [t \in Threads |-> "idle"]
  /\ job = [t \in Threads |-> NoJob]
  /\ saved = [t \in Threads |-> None]
  /\ event = [t \in Threads |-> NoEvent]
  /\ life = [s \in Streams |-> IF s \in Created THEN "none" ELSE "live"]
  /\ queue = [s \in Streams |-> <<>>]
  /\ events = [e \in Events |-> "none"]
  /\ fired = {}
  /\ block = [b \in Blocks |-> "none"]
  /\ at = [b \in Blocks |-> NoStream]
  /\ place = [b \in Blocks |-> None]
  /\ memory = [b \in Blocks |-> "blank"]
  /\ export = [b \in Blocks |-> NoStream]
  /\ reads = [b \in Blocks |-> "none"]
  /\ early = {}
  /\ late = {}
  /\ unsynced = {}

\* What the operation leaves behind when its native call did not happen.
Undone(t) ==
  block' = CASE job[t].kind = "allocate" -> [block EXCEPT ![job[t].b] = "none"]
             [] job[t].kind = "deallocate" -> [block EXCEPT ![job[t].b] = "lost"]
             [] OTHER -> block

(***************************************************************************)
(* Slips a maintainer could make in the actions below.  No specification   *)
(* uses them: each is put in place of the action it is named after, to     *)
(* show that a property notices.                                           *)
(***************************************************************************)
\* The body of device_activation is not under `try`.
PerformFailsUncaught(t) ==
  /\ CanFail
  /\ pc[t] = "perform"
  /\ Undone(t)
  /\ saved' = [saved EXCEPT ![t] = None]
  /\ End(t)
  /\ UNCHANGED <<threads, event, gpu, at, place, data>>

\* free_async is given no stream.
PerformDeallocateUnordered(t) ==
  /\ pc[t] = "perform" /\ job[t].kind = "deallocate"
  /\ block' = [block EXCEPT ![job[t].b] = "freed"]
  /\ Append1(<<active[t], Default>>, <<"free", job[t].b>>)
  /\ Goto(t, "restore")
  /\ UNCHANGED <<threads, job, saved, event, life, events, fired, at, place, data>>

\* `previous` is restored although the device was current.
RestoreAlways(t) ==
  /\ pc[t] = "restore"
  /\ active' = [active EXCEPT ![t] = saved[t]]
  /\ saved' = [saved EXCEPT ![t] = None]
  /\ End(t)
  /\ UNCHANGED <<chosen, strayed, event, gpu, buffers, data>>

\* Waiter and source are swapped in the record.
RecordOnWaiter(t) ==
  /\ pc[t] = "record"
  /\ Append1(Native(t, job[t].s), <<"record", event[t][1]>>)
  /\ Goto(t, "wait")
  /\ UNCHANGED <<threads, job, saved, event, life, events, fired, buffers, data>>

\* The event is not destroyed on the way out.
OrderFailsLeaking(t) ==
  /\ CanFail
  /\ pc[t] \in {"record", "wait"}
  /\ event' = [event EXCEPT ![t] = NoEvent]
  /\ End(t)
  /\ UNCHANGED <<threads, saved, gpu, buffers, data>>
-------------------------------------------------------------------------------
(***************************************************************************)
(* The program and the GPU                                                 *)
(***************************************************************************)
\* The program, or a library of its, selects a device.
Select(t, d) ==
  /\ pc[t] = "idle"
  /\ active' = [active EXCEPT ![t] = d]
  /\ chosen' = [chosen EXCEPT ![t] = d]
  /\ strayed' = strayed \ {t}
  /\ UNCHANGED <<calls, gpu, buffers, data>>

\* A library enqueues a computation of b's bytes on b's stream, with the device of
\* that stream active.
Compute(b) ==
  /\ Usable(b) /\ ~Computed(b)
  /\ Append1(at[b], <<"write", b>>)
  /\ UNCHANGED <<threads, calls, life, events, fired, buffers, data>>

\* The consumer enqueues work that reads the export, on the stream it named.
Consume(b) ==
  /\ export[b] # NoStream
  /\ reads[b] = "none"
  /\ reads' = [reads EXCEPT ![b] = "queued"]
  /\ Append1(export[b], <<"read", b>>)
  /\ UNCHANGED <<threads, calls, life, events, fired, buffers, memory, export, early, late,
                 unsynced>>

\* It lets go of the export when that work is done, not sooner.
LetGo(b) ==
  /\ export[b] # NoStream
  /\ reads[b] # "queued"
  /\ export' = [export EXCEPT ![b] = NoStream]
  /\ reads' = [reads EXCEPT ![b] = "none"]
  /\ UNCHANGED <<threads, calls, gpu, buffers, memory, early, late, unsynced>>

\* The GPU takes the first item of a queue.  A wait holds its stream up until the
\* event it waits for has been passed.
Execute(s) ==
  LET kind == Head(queue[s])[1]
      x == Head(queue[s])[2]
  IN
  /\ queue[s] # <<>>
  /\ kind = "wait" => x \in fired
  /\ queue' = [queue EXCEPT ![s] = Tail(@)]
  /\ fired' = IF kind = "record" THEN fired \cup {x} ELSE fired
  /\ memory' = IF kind \notin {"write", "upload", "free"} THEN memory
               ELSE [memory EXCEPT ![x] = IF kind = "free" THEN "freed" ELSE "written"]
  /\ reads' = IF kind = "read" THEN [reads EXCEPT ![x] = "done"] ELSE reads
  /\ early' = IF kind \in {"read", "copy"} /\ memory[x] = "blank"
              THEN early \cup {<<kind, x>>} ELSE early
  /\ late' = IF kind \in {"write", "upload", "read", "copy"} /\ memory[x] = "freed"
             THEN late \cup {x} ELSE late
  /\ UNCHANGED <<threads, calls, life, events, buffers, export, unsynced>>
-------------------------------------------------------------------------------
(***************************************************************************)
(* device_activation, and the three operations that run under it           *)
(***************************************************************************)
\* GpuRuntime.create_stream.
BeginCreate(t, s) ==
  /\ pc[t] = "idle"
  /\ s \in Created
  /\ life[s] = "none"
  /\ \A u \in Threads : job[u].s # s
  /\ Start(t, "activate", Job("create", None, s))
  /\ UNCHANGED <<threads, saved, event, gpu, buffers, data>>

\* GpuRuntimeMemoryResource.allocate, for a DeviceBuffer on the resource's device.
BeginAllocate(t, b, s) ==
  /\ pc[t] = "idle"
  /\ block[b] = "none"
  /\ Wrappable(t, s)
  /\ block' = [block EXCEPT ![b] = "making"]
  /\ at' = [at EXCEPT ![b] = s]
  /\ Start(t, "activate", Job("allocate", b, s))
  /\ UNCHANGED <<threads, saved, event, gpu, place, data>>

\* GpuRuntimeMemoryResource.deallocate, once no export or call pins the buffer: the
\* table entry is gone before the first native call.
BeginDeallocate(t, b) ==
  /\ pc[t] = "idle"
  /\ block[b] = "live"
  /\ export[b] = NoStream
  /\ \A u \in Threads : job[u].b # b
  /\ FreesAtHome(t, b)
  /\ block' = [block EXCEPT ![b] = "freeing"]
  /\ Start(t, "activate", Job("deallocate", b, at[b]))
  /\ UNCHANGED <<threads, saved, event, gpu, at, place, data>>

\* device_activation: get_device, and set_device unless the device is current.
Activate(t) ==
  LET d == DeviceOf(job[t].s) IN
  /\ pc[t] = "activate"
  /\ saved' = [saved EXCEPT ![t] = IF active[t] = d THEN None ELSE active[t]]
  /\ active' = [active EXCEPT ![t] = d]
  /\ Goto(t, "perform")
  /\ UNCHANGED <<chosen, strayed, job, event, gpu, buffers, data>>

\* One of the two fails: the error leaves device_activation before its body.
ActivateFails(t) ==
  /\ CanFail
  /\ pc[t] = "activate"
  /\ Undone(t)
  /\ End(t)
  /\ UNCHANGED <<threads, saved, event, gpu, at, place, data>>

PerformCreate(t) ==
  /\ pc[t] = "perform" /\ job[t].kind = "create"
  /\ life' = [life EXCEPT ![job[t].s] = "live"]
  /\ Goto(t, "restore")
  /\ UNCHANGED <<threads, job, saved, event, queue, events, fired, buffers, data>>

PerformAllocate(t) ==
  /\ pc[t] = "perform" /\ job[t].kind = "allocate"
  /\ block' = [block EXCEPT ![job[t].b] = "live"]
  /\ place' = [place EXCEPT ![job[t].b] = active[t]]
  /\ Goto(t, "restore")
  /\ UNCHANGED <<threads, job, saved, event, gpu, at, data>>

\* free_async is ordered on the stream; free first waits for the active device.
PerformDeallocate(t) ==
  LET b == job[t].b IN
  /\ pc[t] = "perform" /\ job[t].kind = "deallocate"
  /\ block' = [block EXCEPT ![b] = "freed"]
  /\ IF active[t] \in Pools
     THEN /\ Append1(Native(t, job[t].s), <<"free", b>>)
          /\ UNCHANGED memory
     ELSE /\ \A s \in Streams : DeviceOf(s) = active[t] => queue[s] = <<>>
          /\ memory' = [memory EXCEPT ![b] = "freed"]
          /\ UNCHANGED queue
  /\ Goto(t, "restore")
  /\ UNCHANGED <<threads, job, saved, event, life, events, fired, at, place, export,
                 reads, early, late, unsynced>>

PerformFails(t) ==
  /\ CanFail
  /\ pc[t] = "perform"
  /\ Undone(t)
  /\ Goto(t, "restore")
  /\ UNCHANGED <<threads, job, saved, event, gpu, at, place, data>>

\* The `finally` of device_activation, if the device was switched.
Restore(t) ==
  /\ pc[t] = "restore"
  /\ active' = IF saved[t] = None THEN active ELSE [active EXCEPT ![t] = saved[t]]
  /\ saved' = [saved EXCEPT ![t] = None]
  /\ End(t)
  /\ UNCHANGED <<chosen, strayed, event, gpu, buffers, data>>

\* A failed restore is swallowed.
RestoreFails(t) ==
  /\ CanFail
  /\ pc[t] = "restore"
  /\ saved[t] # None
  /\ strayed' = strayed \cup {t}
  /\ saved' = [saved EXCEPT ![t] = None]
  /\ End(t)
  /\ UNCHANGED <<active, chosen, event, gpu, buffers, data>>

\* _destroy_native_stream, the finalizer of a stream that create_stream made.
\* Its status is ignored; what was enqueued still runs.
StreamDies(s) ==
  /\ s \in Created
  /\ life[s] = "live"
  /\ ~InUse(s)
  /\ life' = [life EXCEPT ![s] = "destroyed"]
  /\ UNCHANGED <<threads, calls, queue, events, fired, buffers, data>>
-------------------------------------------------------------------------------
(***************************************************************************)
(* The handoff to a consumer's stream, and memcpy                          *)
(***************************************************************************)
\* to_capsule, for a consumer that names its stream.
BeginHandoff(t, b, c) ==
  /\ pc[t] = "idle"
  /\ Usable(b) /\ Computed(b) /\ export[b] = NoStream
  /\ \A u \in Threads : job[u].kind = "handoff" => job[u].b # b
  /\ DeviceOf(c) = DeviceOf(at[b]) /\ (IsDefault(c) \/ c \in Foreign)
  /\ AtHome(t, b)
  /\ \E to \in {"create_event"} \cup (IF Unserved THEN {"synchronize"} ELSE {}) :
       Start(t, to, Job("handoff", b, c))
  /\ UNCHANGED <<threads, saved, event, gpu, buffers, data>>

\* event_order: the event belongs to the device that is active.
CreateEvent(t, e) ==
  /\ pc[t] = "create_event"
  /\ events[e] = "none"
  /\ ~Enqueued(<<"record", e>>) /\ ~Enqueued(<<"wait", e>>)
  /\ events' = [events EXCEPT ![e] = "live"]
  /\ fired' = fired \ {e}
  /\ event' = [event EXCEPT ![t] = <<e, active[t]>>]
  /\ Goto(t, "record")
  /\ UNCHANGED <<threads, job, saved, life, queue, buffers, data>>

CreateEventFails(t) ==
  /\ CanFail
  /\ pc[t] = "create_event"
  /\ End(t)
  /\ UNCHANGED <<threads, saved, event, gpu, buffers, data>>

\* The driver takes an event only on a stream of the event's device.
Recordable(t) == DeviceOf(Native(t, at[job[t].b])) = event[t][2]

Record(t) ==
  /\ pc[t] = "record"
  /\ Recordable(t)
  /\ Append1(Native(t, at[job[t].b]), <<"record", event[t][1]>>)
  /\ Goto(t, "wait")
  /\ UNCHANGED <<threads, job, saved, event, life, events, fired, buffers, data>>

Wait(t) ==
  /\ pc[t] = "wait"
  /\ Append1(Native(t, job[t].s), <<"wait", event[t][1]>>)
  /\ Goto(t, "destroy")
  /\ UNCHANGED <<threads, job, saved, event, life, events, fired, buffers, data>>

\* Recording or waiting fails: the event is destroyed, whatever that reports, and
\* StreamError leaves to_capsule.
OrderFails(t) ==
  /\ \/ CanFail /\ pc[t] \in {"record", "wait"}
     \/ pc[t] = "record" /\ ~Recordable(t)
  /\ \E outcome \in {"none"} \cup (IF CanFail THEN {"lost"} ELSE {}) :
       events' = [events EXCEPT ![event[t][1]] = outcome]
  /\ event' = [event EXCEPT ![t] = NoEvent]
  /\ End(t)
  /\ UNCHANGED <<threads, saved, life, queue, fired, buffers, data>>

\* The event goes, which does not disturb the wait; the capsule is built.
Destroy(t) ==
  /\ pc[t] = "destroy"
  /\ events' = [events EXCEPT ![event[t][1]] = "none"]
  /\ event' = [event EXCEPT ![t] = NoEvent]
  /\ export' = [export EXCEPT ![job[t].b] = job[t].s]
  /\ End(t)
  /\ UNCHANGED <<threads, saved, life, queue, fired, buffers, memory, reads, early, late,
                 unsynced>>

DestroyFails(t) ==
  /\ CanFail
  /\ pc[t] = "destroy"
  /\ events' = [events EXCEPT ![event[t][1]] = "lost"]
  /\ event' = [event EXCEPT ![t] = NoEvent]
  /\ End(t)
  /\ UNCHANGED <<threads, saved, life, queue, fired, buffers, data>>

\* A slip: no copy is waited for.
BeginCopyOrdered(t, b) ==
  /\ pc[t] = "idle"
  /\ Usable(b) /\ Computed(b)
  /\ ~Enqueued(<<"copy", b>>)
  /\ AtHome(t, b)
  /\ Append1(Native(t, at[b]), <<"copy", b>>)
  /\ UNCHANGED <<threads, calls, life, events, fired, buffers, data>>

\* GpuRuntime.memcpy from the buffer to a host buffer, on the buffer's stream.
\* Bound: one such copy of a buffer at a time.
BeginCopy(t, b) ==
  /\ pc[t] = "idle"
  /\ Usable(b) /\ Computed(b)
  /\ ~Enqueued(<<"copy", b>>)
  /\ AtHome(t, b)
  /\ Append1(Native(t, at[b]), <<"copy", b>>)
  /\ Start(t, "synchronize", Job("copy", b, at[b]))
  /\ UNCHANGED <<threads, saved, event, life, events, fired, buffers, data>>

\* GpuRuntime.memcpy from a host buffer, which the caller made for it.
BeginUpload(t, b) ==
  /\ pc[t] = "idle"
  /\ Usable(b) /\ ~Computed(b)
  /\ AtHome(t, b)
  /\ Append1(Native(t, at[b]), <<"upload", b>>)
  /\ Start(t, "synchronize", Job("upload", b, at[b]))
  /\ UNCHANGED <<threads, saved, event, life, events, fired, buffers, data>>

\* GpuStream.synchronize on the buffer's stream, by memcpy or by to_capsule.
Synchronize(t) ==
  LET b == job[t].b IN
  /\ pc[t] = "synchronize"
  /\ queue[Native(t, at[b])] = <<>>
  /\ export' = IF job[t].kind = "handoff" THEN [export EXCEPT ![b] = job[t].s] ELSE export
  /\ End(t)
  /\ UNCHANGED <<threads, saved, event, gpu, buffers, memory, reads, early, late, unsynced>>

\* The native synchronize reports an error, which the caller gets to see; the host
\* buffer goes with it.
SynchronizeFails(t) ==
  /\ CanFail
  /\ pc[t] = "synchronize"
  /\ unsynced' = IF job[t].kind = "handoff" THEN unsynced ELSE unsynced \cup {job[t].b}
  /\ End(t)
  /\ UNCHANGED <<threads, saved, event, gpu, buffers, memory, export, reads, early, late>>
-------------------------------------------------------------------------------
Next ==
  \/ \E s \in Streams : Execute(s) \/ StreamDies(s)
  \/ \E b \in Blocks : Compute(b) \/ Consume(b) \/ LetGo(b)
  \/ \E t \in Threads :
       \/ \E d \in Devices : Select(t, d)
       \/ \E s \in Streams :
            \/ BeginCreate(t, s)
            \/ \E b \in Blocks : BeginAllocate(t, b, s) \/ BeginHandoff(t, b, s)
       \/ \E b \in Blocks : BeginDeallocate(t, b) \/ BeginCopy(t, b) \/ BeginUpload(t, b)
       \/ Activate(t) \/ ActivateFails(t)
       \/ PerformCreate(t) \/ PerformAllocate(t) \/ PerformDeallocate(t) \/ PerformFails(t)
       \/ Restore(t) \/ RestoreFails(t)
       \/ \E e \in Events : CreateEvent(t, e)
       \/ CreateEventFails(t)
       \/ Record(t) \/ Wait(t) \/ OrderFails(t)
       \/ Destroy(t) \/ DestroyFails(t)
       \/ Synchronize(t) \/ SynchronizeFails(t)

Spec == Init /\ [][Next]_vars
-------------------------------------------------------------------------------
(***************************************************************************)
(* Properties                                                              *)
(***************************************************************************)
\* device_activation: the call that creates, allocates or deallocates is made on its
\* stream's device, and the memory comes from there.  Everywhere else, which is in the
\* program, in the calls of event_order and in those of memcpy, a thread is on the device
\* the program selected in it, whichever native call failed, unless a restore did.
DevicesKept ==
  /\ \A t \in Threads :
       /\ pc[t] = "perform" => active[t] = DeviceOf(job[t].s)
       /\ pc[t] \notin {"perform", "restore"} /\ t \notin strayed => active[t] = chosen[t]
  /\ \A b \in Blocks : block[b] = "live" => place[b] = DeviceOf(at[b])

\* event_order: whatever fails half way, no event outlives the call that created
\* it, if the driver lets it go.
EventsReturned ==
  \A e \in Events : events[e] = "live" => \E t \in Threads : event[t] # NoEvent /\ event[t][1] = e

\* The finalizer of a buffer holds the allocation stream: it still exists when the
\* memory is given back on it, and when it is recorded or waited for.
StreamsOutlive ==
  \A t \in Threads :
    /\ job[t].kind \in {"allocate", "deallocate"} => life[job[t].s] = "live"
    /\ job[t].kind \in {"handoff", "copy", "upload"} => life[at[job[t].b]] = "live"

\* The handoff does its work: what was enqueued on the buffer's stream before an
\* export is done before anything the consumer enqueues on its own stream after
\* it, and before a copy reads the bytes.
ReadsFollowWrites == early = {}

\* DeviceRuntime.make_stream_wait of _runtimes/base.py: "Make the raw consumer stream
\* wait on work enqueued on `producer`".
ConsumersWait == \A b \in Blocks : <<"read", b>> \notin early

\* Deallocation is ordered on the allocation stream, or waits for the device: it
\* never overtakes work that was enqueued on the bytes before.
UsesPrecedeFree == late = {}

\* memcpy: "the caller typically stages through a temporary host buffer that may die the
\* moment this call returns, so host-involving copies complete before returning".  The GPU
\* has no copy of a buffer to do that nobody waits for, unless its caller got an error.
HostBytesSafe ==
  \A b \in Blocks : Enqueued(<<"copy", b>>) \/ Enqueued(<<"upload", b>>) =>
    b \in unsynced \/ \E t \in Threads : job[t].kind \in {"copy", "upload"} /\ job[t].b = b
===============================================================================
