--------------------------- MODULE ResourceRegistry ---------------------------
(***************************************************************************)
(* The process-wide registry of current memory resources and its scoped    *)
(* overrides (_core/registry.py), the discovery and loading of runtimes    *)
(* that its lazy default goes through (_runtimes/_discovery.py), and the   *)
(* finalizers of collected buffers, which interrupt a thread wherever the  *)
(* collector strikes and take the locks of an allocator chain.             *)
(*                                                                         *)
(* All locks are threading.Lock: not reentrant.  A step is what a thread   *)
(* does between two points at which it takes or drops a lock.              *)
(*                                                                         *)
(*   get_current_memory_resource:                                          *)
(*     GetOverridden | GetBegin, GetHit                                    *)
(*     GetBegin, GetMiss, search, MakeDefault | DefaultFails               *)
(*   search (also runtime_for and available_runtimes on their own):        *)
(*     TakeSpecs, Select, then per runtime PassLoaded                      *)
(*     | LoadBegin, LoadDone | LoadUnavailable | LoadBreaks; or Exhausted  *)
(***************************************************************************)
EXTENDS Integers, Sequences

CONSTANTS
  Contexts,      \* the threads and tasks, each with its own contextvars context
  Devices,
  Resources,     \* the resources programs install or scope
  DeviceOf,      \* the device of each
  Runtimes,      \* the registered runtimes
  Serves,        \* the devices of each that have a type it supports
  Selections,    \* what `_selected_specs` can return: sequences of runtimes
  Chains,        \* the allocator chains, each with its locks
  MaxCalls,      \* bound: the calls the program makes altogether
  MaxNesting,    \* bound: the open `with` blocks of a context
  CollectInside  \* the collector may strike inside a chain's critical section

ASSUME RegistryAssumption ==
  /\ DeviceOf \in [Resources -> Devices]
  /\ Serves \in [Runtimes -> SUBSET Devices]
  /\ Selections \subseteq Seq(Runtimes)
  /\ Selections # {}
  /\ MaxCalls \in Nat
  /\ MaxNesting \in Nat
  /\ CollectInside \in BOOLEAN

\* The three module-level locks, and one per chain.
Locks == {"_lock", "_specs_lock", "_load_lock"} \cup Chains

Nobody == "nobody"
NoDevice == "nodevice"
NoChain == "nochain"

ASSUME NamesAssumption ==
  /\ Nobody \notin Contexts
  /\ NoDevice \notin Devices
  /\ NoChain \notin Chains
  /\ Chains \cap {"_lock", "_specs_lock", "_load_lock"} = {}

VARIABLES
  pc,          \* where each context's current call stands
  op,          \* what that call is
  dev,         \* its device
  todo,        \* the runtimes its search has not tried yet
  using,       \* the chain it allocates or frees through
  finalizing,  \* the chain the finalizer that interrupted it wants to lock
  owner,       \* who holds each lock
  registry,    \* _registry: the current resource of each device that has one
  overrides,   \* _overrides: per context, the override of each device
  blocks,      \* per context, the open `with` blocks and the tokens they hold
  inherited,   \* history: the overrides a context started out with
  loaded,      \* _loaded: the runtimes that have been constructed
  loads,       \* history: how often each has been constructed
  made,        \* history: how many defaults each device was given
  answer,      \* history: device and result of each context's last lookup
  calls        \* how many calls have begun

call == <<pc, op, dev, todo, using>>
scopes == <<overrides, blocks, inherited>>
runtimes == <<loaded, loads>>
resources == <<registry, made, answer>>
vars == <<call, finalizing, owner, scopes, runtimes, resources, calls>>

With(f, d, m) == [x \in DOMAIN f \cup {d} |-> IF x = d THEN m ELSE f[x]]
Nothing == [d \in {} |-> NoDevice]

\* The n-th default made for d.
Default(d, n) == <<d, n>>

\* The collector has not interrupted t, and t is in no call.
Runs(t) == finalizing[t] = NoChain
Idle(t) == pc[t] = "idle" /\ Runs(t)

\* t goes on at `to`, with the locks it has.
Goto(t, to) ==
  /\ pc' = [pc EXCEPT ![t] = to]
  /\ UNCHANGED <<op, dev, todo, using>>

\* The call of t ends, by a return or an exception.
Leave(t) ==
  /\ pc' = [pc EXCEPT ![t] = "idle"]
  /\ op' = [op EXCEPT ![t] = "none"]
  /\ dev' = [dev EXCEPT ![t] = NoDevice]
  /\ todo' = [todo EXCEPT ![t] = <<>>]
  /\ using' = [using EXCEPT ![t] = NoChain]

\* A call of t begins; the program makes finitely many.
Count == calls < MaxCalls /\ calls' = calls + 1

Free(l) == owner[l] = Nobody
Take(t, l) == Free(l) /\ owner' = [owner EXCEPT ![l] = t]
Drop(t, l) == owner' = [owner EXCEPT ![l] = Nobody]

\* An exception or a return leaves every `with` statement of the call.
DropAll(t) == owner' = [l \in Locks |-> IF owner[l] = t THEN Nobody ELSE owner[l]]
-------------------------------------------------------------------------------
Init ==
  /\ pc = [t \in Contexts |-> "idle"]
  /\ op = [t \in Contexts |-> "none"]
  /\ dev = [t \in Contexts |-> NoDevice]
  /\ todo = [t \in Contexts |-> <<>>]
  /\ using = [t \in Contexts |-> NoChain]
  /\ finalizing = [t \in Contexts |-> NoChain]
  /\ owner = [l \in Locks |-> Nobody]
  /\ registry = Nothing
  /\ overrides = [t \in Contexts |-> Nothing]
  /\ blocks = [t \in Contexts |-> <<>>]
  /\ inherited = [t \in Contexts |-> Nothing]
  /\ loaded = {}
  /\ loads = [r \in Runtimes |-> 0]
  /\ made = [d \in Devices |-> 0]
  /\ answer = [t \in Contexts |-> <<>>]
  /\ calls = 0

(***************************************************************************)
(* Slips a maintainer could make in the actions below.  No specification   *)
(* uses them: each is put in place of the action it is named after, to     *)
(* show that a property notices.                                           *)
(***************************************************************************)
\* The default factory runs after the lock was let go.
GetMissUnlocked(t) ==
  /\ Runs(t)
  /\ pc[t] = "registry"
  /\ Free("_lock")
  /\ dev[t] \notin DOMAIN registry
  /\ Goto(t, "specs")
  /\ UNCHANGED <<finalizing, owner, scopes, runtimes, resources, calls>>

\* Leaving a block removes the override instead of resetting the token.
ExitBlockForgets(t) ==
  /\ Idle(t)
  /\ blocks[t] # <<>>
  /\ LET d == DeviceOf[blocks[t][Len(blocks[t])].mr] IN
       overrides' = [overrides EXCEPT ![t] = [x \in DOMAIN @ \ {d} |-> @[x]]]
  /\ blocks' = [blocks EXCEPT ![t] = SubSeq(@, 1, Len(@) - 1)]
  /\ UNCHANGED <<call, finalizing, owner, inherited, runtimes, resources, calls>>

\* A runtime's default factory asks the registry for the current resource.
AdvanceConsulting(t) ==
  IF op[t] # "all" /\ dev[t] \in Serves[Head(todo[t])]
  THEN IF op[t] = "get" THEN Goto(t, "registry") ELSE Leave(t)
  ELSE /\ pc' = [pc EXCEPT ![t] = "search"]
       /\ todo' = [todo EXCEPT ![t] = Tail(@)]
       /\ UNCHANGED <<op, dev, using>>

\* The loader runs after the lock was let go.
LoadBeginUnlocked(t) ==
  /\ Runs(t)
  /\ pc[t] = "search"
  /\ todo[t] # <<>>
  /\ Free("_load_lock")
  /\ Head(todo[t]) \notin loaded
  /\ Goto(t, "loading")
  /\ UNCHANGED <<finalizing, owner, scopes, runtimes, resources, calls>>

\* The registry's lock is not a `with` statement, and an exception skips its release.
LoadBreaksHolding(t) ==
  /\ Runs(t)
  /\ pc[t] = "loading"
  /\ Drop(t, "_load_lock")
  /\ Leave(t)
  /\ UNCHANGED <<finalizing, scopes, runtimes, resources, calls>>
-------------------------------------------------------------------------------
(***************************************************************************)
(* get_current_memory_resource and set_current_memory_resource             *)
(***************************************************************************)
\* An override is in force: no lock is needed.
GetOverridden(t, d) ==
  /\ Idle(t)
  /\ Count
  /\ d \in DOMAIN overrides[t]
  /\ answer' = [answer EXCEPT ![t] = <<d, overrides[t][d]>>]
  /\ UNCHANGED <<call, finalizing, owner, scopes, runtimes, registry, made>>

GetBegin(t, d) ==
  /\ Idle(t)
  /\ Count
  /\ d \notin DOMAIN overrides[t]
  /\ pc' = [pc EXCEPT ![t] = "registry"]
  /\ op' = [op EXCEPT ![t] = "get"]
  /\ dev' = [dev EXCEPT ![t] = d]
  /\ UNCHANGED <<todo, using, finalizing, owner, scopes, runtimes, resources>>

\* Under _lock: the device has a current resource.
GetHit(t) ==
  /\ Runs(t)
  /\ pc[t] = "registry"
  /\ Free("_lock")
  /\ dev[t] \in DOMAIN registry
  /\ answer' = [answer EXCEPT ![t] = <<dev[t], registry[dev[t]]>>]
  /\ Leave(t)
  /\ UNCHANGED <<finalizing, owner, scopes, runtimes, registry, made, calls>>

\* Under _lock: it has none, and the default factory is called with the lock held.
GetMiss(t) ==
  /\ Runs(t)
  /\ pc[t] = "registry"
  /\ Take(t, "_lock")
  /\ dev[t] \notin DOMAIN registry
  /\ Goto(t, "specs")
  /\ UNCHANGED <<finalizing, scopes, runtimes, resources, calls>>

\* The runtime makes its default resource, which becomes the current one.
MakeDefault(t) ==
  LET d == dev[t]
      m == Default(d, made[d] + 1) IN
  /\ Runs(t)
  /\ pc[t] = "default"
  /\ made' = [made EXCEPT ![d] = @ + 1]
  /\ registry' = With(registry, d, m)
  /\ answer' = [answer EXCEPT ![t] = <<d, m>>]
  /\ DropAll(t)
  /\ Leave(t)
  /\ UNCHANGED <<finalizing, scopes, runtimes, calls>>

\* The runtime cannot make one (no such device index, no driver): nothing is cached.
DefaultFails(t) ==
  /\ Runs(t)
  /\ pc[t] = "default"
  /\ DropAll(t)
  /\ Leave(t)
  /\ UNCHANGED <<finalizing, scopes, runtimes, resources, calls>>

SetCurrent(t, m) ==
  /\ Idle(t)
  /\ Count
  /\ Free("_lock")
  /\ registry' = With(registry, DeviceOf[m], m)
  /\ UNCHANGED <<call, finalizing, owner, scopes, runtimes, made, answer>>
-------------------------------------------------------------------------------
(***************************************************************************)
(* using_memory_resource                                                   *)
(***************************************************************************)
\* The block's token remembers the whole mapping it replaces.
EnterBlock(t, m) ==
  /\ Idle(t)
  /\ Count
  /\ Len(blocks[t]) < MaxNesting
  /\ blocks' = [blocks EXCEPT ![t] = Append(@, [mr |-> m, token |-> overrides[t]])]
  /\ overrides' = [overrides EXCEPT ![t] = With(@, DeviceOf[m], m)]
  /\ UNCHANGED <<call, finalizing, owner, inherited, runtimes, resources>>

\* The innermost block ends, normally or with an exception: `reset(token)`.
ExitBlock(t) ==
  /\ Idle(t)
  /\ blocks[t] # <<>>
  /\ overrides' = [overrides EXCEPT ![t] = blocks[t][Len(blocks[t])].token]
  /\ blocks' = [blocks EXCEPT ![t] = SubSeq(@, 1, Len(@) - 1)]
  /\ UNCHANGED <<call, finalizing, owner, inherited, runtimes, resources, calls>>

\* A task starts with a copy of the context that creates it; u was not in use.
Spawn(t, u) ==
  /\ Idle(t) /\ Idle(u)
  /\ t # u
  /\ Count
  /\ blocks[u] = <<>>
  /\ overrides' = [overrides EXCEPT ![u] = overrides[t]]
  /\ inherited' = [inherited EXCEPT ![u] = overrides[t]]
  /\ UNCHANGED <<call, finalizing, owner, blocks, runtimes, resources>>
-------------------------------------------------------------------------------
(***************************************************************************)
(* runtime_for and available_runtimes                                      *)
(***************************************************************************)
\* runtime_for(d), as a tensor's stream default, a host copy or an export calls it.
FindBegin(t, d) ==
  /\ Idle(t)
  /\ Count
  /\ pc' = [pc EXCEPT ![t] = "specs"]
  /\ op' = [op EXCEPT ![t] = "find"]
  /\ dev' = [dev EXCEPT ![t] = d]
  /\ UNCHANGED <<todo, using, finalizing, owner, scopes, runtimes, resources>>

\* available_runtimes()
FindAllBegin(t) ==
  /\ Idle(t)
  /\ Count
  /\ pc' = [pc EXCEPT ![t] = "specs"]
  /\ op' = [op EXCEPT ![t] = "all"]
  /\ UNCHANGED <<dev, todo, using, finalizing, owner, scopes, runtimes, resources>>

\* _discovered_specs: the table is scanned, or found cached, under _specs_lock.
TakeSpecs(t) ==
  /\ Runs(t)
  /\ pc[t] = "specs"
  /\ Take(t, "_specs_lock")
  /\ Goto(t, "scan")
  /\ UNCHANGED <<finalizing, scopes, runtimes, resources, calls>>

\* _selected_specs: the override's runtime, or those whose probe passes.
Select(t) ==
  /\ Runs(t)
  /\ pc[t] = "scan"
  /\ Drop(t, "_specs_lock")
  /\ \E s \in Selections : todo' = [todo EXCEPT ![t] = s]
  /\ pc' = [pc EXCEPT ![t] = "search"]
  /\ UNCHANGED <<op, dev, using, finalizing, scopes, runtimes, resources, calls>>

\* The search has the runtime at the head of `todo`: a lookup is done when that
\* serves its device; a search for all runtimes goes on.
Advance(t) ==
  IF op[t] # "all" /\ dev[t] \in Serves[Head(todo[t])]
  THEN IF op[t] = "get" THEN Goto(t, "default") ELSE Leave(t)
  ELSE /\ pc' = [pc EXCEPT ![t] = "search"]
       /\ todo' = [todo EXCEPT ![t] = Tail(@)]
       /\ UNCHANGED <<op, dev, using>>

\* _load under _load_lock: the runtime is there already.
PassLoaded(t) ==
  /\ Runs(t)
  /\ pc[t] = "search"
  /\ todo[t] # <<>>
  /\ Free("_load_lock")
  /\ Head(todo[t]) \in loaded
  /\ Advance(t)
  /\ UNCHANGED <<finalizing, owner, scopes, runtimes, resources, calls>>

\* It is not: the loader runs with the lock held.
LoadBegin(t) ==
  /\ Runs(t)
  /\ pc[t] = "search"
  /\ todo[t] # <<>>
  /\ Take(t, "_load_lock")
  /\ Head(todo[t]) \notin loaded
  /\ Goto(t, "loading")
  /\ UNCHANGED <<finalizing, scopes, runtimes, resources, calls>>

LoadDone(t) ==
  LET r == Head(todo[t]) IN
  /\ Runs(t)
  /\ pc[t] = "loading"
  /\ loaded' = loaded \cup {r}
  /\ loads' = [loads EXCEPT ![r] = @ + 1]
  /\ Drop(t, "_load_lock")
  /\ Advance(t)
  /\ UNCHANGED <<finalizing, scopes, resources, calls>>

\* The loader raises RuntimeUnavailableError: the search goes on without it.
LoadUnavailable(t) ==
  /\ Runs(t)
  /\ pc[t] = "loading"
  /\ Drop(t, "_load_lock")
  /\ pc' = [pc EXCEPT ![t] = "search"]
  /\ todo' = [todo EXCEPT ![t] = Tail(@)]
  /\ UNCHANGED <<op, dev, using, finalizing, scopes, runtimes, resources, calls>>

\* The loader raises anything else: so does the call.
LoadBreaks(t) ==
  /\ Runs(t)
  /\ pc[t] = "loading"
  /\ DropAll(t)
  /\ Leave(t)
  /\ UNCHANGED <<finalizing, scopes, runtimes, resources, calls>>

\* No runtime is left: available_runtimes returns, the others raise.
Exhausted(t) ==
  /\ Runs(t)
  /\ pc[t] = "search"
  /\ todo[t] = <<>>
  /\ DropAll(t)
  /\ Leave(t)
  /\ UNCHANGED <<finalizing, scopes, runtimes, resources, calls>>
-------------------------------------------------------------------------------
(***************************************************************************)
(* Allocator chains and the collector                                      *)
(***************************************************************************)
\* An allocate or deallocate through chain c, up to one of its `with self._lock`.
ChainBegin(t, c) ==
  /\ Idle(t)
  /\ Count
  /\ pc' = [pc EXCEPT ![t] = "chain"]
  /\ op' = [op EXCEPT ![t] = "chain"]
  /\ using' = [using EXCEPT ![t] = c]
  /\ UNCHANGED <<dev, todo, finalizing, owner, scopes, runtimes, resources>>

ChainTake(t) ==
  /\ Runs(t)
  /\ pc[t] = "chain"
  /\ Take(t, using[t])
  /\ Goto(t, "inside")
  /\ UNCHANGED <<finalizing, scopes, runtimes, resources, calls>>

ChainDrop(t) ==
  /\ Runs(t)
  /\ pc[t] = "inside"
  /\ Drop(t, using[t])
  /\ Leave(t)
  /\ UNCHANGED <<finalizing, scopes, runtimes, resources, calls>>

\* A collection strikes in t and finds a buffer of chain c in a dead cycle; its
\* finalizer is mr.deallocate.  One collection runs at a time.
Collect(t, c) ==
  /\ \A u \in Contexts : Runs(u)
  /\ Count
  /\ pc[t] = "inside" => CollectInside
  /\ finalizing' = [finalizing EXCEPT ![t] = c]
  /\ UNCHANGED <<call, owner, scopes, runtimes, resources>>

\* The finalizer goes through the chain's critical section, and t goes on.
Finalized(t) ==
  /\ finalizing[t] # NoChain
  /\ Free(finalizing[t])
  /\ finalizing' = [finalizing EXCEPT ![t] = NoChain]
  /\ UNCHANGED <<call, owner, scopes, runtimes, resources, calls>>
-------------------------------------------------------------------------------
\* What t does on its own once it is in a call or interrupted.
Proceed(t) ==
  \/ GetHit(t) \/ GetMiss(t) \/ MakeDefault(t) \/ DefaultFails(t)
  \/ TakeSpecs(t) \/ Select(t)
  \/ PassLoaded(t) \/ LoadBegin(t)
  \/ LoadDone(t) \/ LoadUnavailable(t) \/ LoadBreaks(t)
  \/ Exhausted(t)
  \/ ChainTake(t) \/ ChainDrop(t)
  \/ Finalized(t)

Next ==
  \E t \in Contexts :
    \/ Proceed(t)
    \/ \E d \in Devices : GetOverridden(t, d) \/ GetBegin(t, d) \/ FindBegin(t, d)
    \/ FindAllBegin(t)
    \/ \E m \in Resources : SetCurrent(t, m) \/ EnterBlock(t, m)
    \/ ExitBlock(t)
    \/ \E u \in Contexts : Spawn(t, u)
    \/ \E c \in Chains : ChainBegin(t, c) \/ Collect(t, c)

Spec == Init /\ [][Next]_vars

\* A thread that can run does.
FairSpec == Spec /\ \A t \in Contexts : WF_vars(Proceed(t))
-------------------------------------------------------------------------------
(***************************************************************************)
(* Properties                                                              *)
(***************************************************************************)
PCs == {"idle", "registry", "default", "specs", "scan", "search", "loading",
        "chain", "inside"}
Mappings == UNION {[D -> Resources] : D \in SUBSET Devices}
Defaults == Devices \X Nat

\* Types.
TypeOK ==
  /\ pc \in [Contexts -> PCs]
  /\ op \in [Contexts -> {"none", "get", "find", "all", "chain"}]
  /\ dev \in [Contexts -> Devices \cup {NoDevice}]
  /\ todo \in [Contexts -> Seq(Runtimes)]
  /\ using \in [Contexts -> Chains \cup {NoChain}]
  /\ finalizing \in [Contexts -> Chains \cup {NoChain}]
  /\ owner \in [Locks -> Contexts \cup {Nobody}]
  /\ DOMAIN registry \subseteq Devices
  /\ \A d \in DOMAIN registry : registry[d] \in Resources \cup Defaults
  /\ overrides \in [Contexts -> Mappings]
  /\ blocks \in [Contexts -> Seq([mr : Resources, token : Mappings])]
  /\ inherited \in [Contexts -> Mappings]
  /\ loaded \subseteq Runtimes
  /\ loads \in [Runtimes -> Nat]
  /\ made \in [Devices -> Nat]
  /\ calls \in Nat

\* The lock t waits for, or will ask for next; and where each lock stands in the
\* order in which the code takes them.
Wants(t) ==
  IF finalizing[t] # NoChain THEN {finalizing[t]}
  ELSE CASE pc[t] = "registry" -> {"_lock"}
         [] pc[t] = "specs" -> {"_specs_lock"}
         [] pc[t] = "search" /\ todo[t] # <<>> -> {"_load_lock"}
         [] pc[t] = "chain" -> {using[t]}
         [] OTHER -> {}

Rank(l) == CASE l = "_lock" -> 0
             [] l = "_specs_lock" -> 1
             [] l = "_load_lock" -> 2
             [] OTHER -> 3

\* Nobody ever waits for a lock while it holds that lock or a later one, in the
\* middle of a default's construction, of a load or of a scan, and even when the
\* collector interrupts it there: so no set of threads can wait in a circle.
LocksOrdered ==
  \A t \in Contexts, l \in Locks :
    owner[l] = t => \A w \in Wants(t) : Rank(l) < Rank(w)

\* A runtime is constructed at most once and a device is given at most one
\* default, however many threads ask first.
MadeOnce ==
  /\ \A r \in Runtimes : loads[r] <= 1
  /\ \A d \in Devices : made[d] <= 1

\* In a context, the override of a device is the one of its innermost open block
\* for it, else the one the context started out with: leaving a block restores
\* what was in force before, and no other context's blocks are seen.
OpenFor(t, d) == {i \in 1..Len(blocks[t]) : DeviceOf[blocks[t][i].mr] = d}
ScopesExact ==
  \A t \in Contexts, d \in Devices :
    IF OpenFor(t, d) = {}
    THEN /\ d \in DOMAIN overrides[t] <=> d \in DOMAIN inherited[t]
         /\ d \in DOMAIN overrides[t] => overrides[t][d] = inherited[t][d]
    ELSE /\ d \in DOMAIN overrides[t]
         /\ \E i \in OpenFor(t, d) :
              /\ \A j \in OpenFor(t, d) : j <= i
              /\ overrides[t][d] = blocks[t][i].mr

\* Every call ends, whatever raises on its way and whatever it waits for.
CallsEnd == \A t \in Contexts : pc[t] # "idle" ~> pc[t] = "idle"

\* The registry implements the abstract map of current resources.
Current == INSTANCE CurrentResource WITH
  DefaultOf <- [d \in Devices |-> Default(d, 1)],
  current <- registry,
  scoped <- overrides
ImplementsCurrentResource == Current!Spec

\* The rule of DeviceBuffer that its finalizer is a "GC safety net [...] robust
\* against reference cycles": collecting one never leaves a thread waiting for a
\* lock it holds itself.
NobodyWedged ==
  \A t \in Contexts : finalizing[t] # NoChain => owner[finalizing[t]] # t
===============================================================================
