----------------------------- MODULE DeviceHooks -----------------------------
(***************************************************************************)
(* devmm in CuPy, in rmm and in Numba (integrations/cupy.py, rmm.py and    *)
(* numba.py, with the cycle guard of _support.py).                         *)
(*                                                                         *)
(*   InstallDevice     cupy.install and rmm.install up to the capture: the *)
(*                     resource must not consume the library's own         *)
(*                     allocator, and must live on a device of its own     *)
(*   InstallNumba      numba.install up to the capture                     *)
(*   Memalloc, Enter   DevmmEMMPlugin.memalloc                             *)
(*   Finalize, Stray   the finalizer of a MemoryPointer, up to the pop     *)
(*   FreeBuffer        DeviceBuffer.free, and the finalizers of the        *)
(*                     buffers that a reset context drops                  *)
(*                                                                         *)
(* Numba asks for a memory manager when it creates its context and keeps   *)
(* it: there is one context here, which can be reset.  It calls the        *)
(* plugin, whose mapping it clears at a reset, from any thread.            *)
(***************************************************************************)
EXTENDS Installers, FiniteSets

CONSTANTS
  Resources,   \* resources with memory of their own, for the registry
  Addresses,   \* where a block may lie on the device
  MaxResets    \* bound: how often Numba's context is reset

ASSUME DeviceAssumption ==
  /\ MaxResets \in Nat
  /\ IsFiniteSet(Hooks)
  /\ {"CuPy", "rmm", "Numba"} \subseteq Shared

VARIABLES
  chain,        \* of each hook in CuPy or rmm: its resource, from the outside in
  current,      \* the registry's resource for the device
  manager,      \* the memory manager of Numba's context, None before there is one
  blocks,       \* the blocks on the device, and the resource each came from
  allocations,  \* the plugin's mapping: from an address to the resource of the buffer
  pointers,     \* the addresses of Numba's pointers that have their entry, and
  strays,       \* how many others there are, which lost it by a reset or to a finalizer
  resets,       \* the resets so far
  misgiven      \* history: a resource was given what it had not given out

device ==
  <<chain, current, manager, blocks, allocations, pointers, strays, resets, misgiven>>
numbaVars == <<manager, blocks, allocations, pointers, strays, resets, misgiven>>

InitDevice ==
  /\ chain = [h \in Hooks |-> <<>>]
  /\ current \in Resources
  /\ manager = None
  /\ blocks = [p \in {} |-> None]
  /\ allocations = [p \in {} |-> None]
  /\ pointers = {}
  /\ strays = [p \in Addresses |-> 0]
  /\ resets = 0
  /\ misgiven = FALSE
-------------------------------------------------------------------------------
(***************************************************************************)
(* Chains and cycles                                                       *)
(***************************************************************************)
\* A link of a chain.  A leaf has memory of its own on a device, or takes it from CuPy,
\* from whatever is in force there at the time, or from a resource of rmm's: its own, or
\* a hook that was in force when the leaf was made.
Adaptor == [kind |-> "adaptor", device |-> None, of |-> None]
Leaf(kind, on, of) == [kind |-> kind, device |-> on, of |-> of]
RmmHooks == {h \in Hooks : home[h] = <<"rmm", Everybody>>}
Leaves ==
  {Leaf("memory", on, None) : on \in {"cpu", "cuda", "rocm"}} \cup {Leaf("cupy", "cuda", None)}
    \cup {Leaf("rmm", "cuda", of) : of \in RmmHooks \cup {Original}}
Chains == {<<leaf>> : leaf \in Leaves} \cup {<<Adaptor, leaf>> : leaf \in Leaves}

\* The kind of link that consumes a library's allocator, and the devices it serves.
Forbidden == [l \in {"CuPy", "rmm"} |-> IF l = "CuPy" THEN "cupy" ELSE "rmm"]
Served == [l \in {"CuPy", "rmm"} |-> IF l = "CuPy" THEN {"cuda"} ELSE {"cuda", "rocm"}]

\* A slip: the upstreams are not asked.
NoCycleAtHead(links, forbidden) == Head(links).kind # forbidden

\* ensure_no_cycle.
NoCycle(links, forbidden) == \A i \in DOMAIN links : links[i].kind # forbidden

\* The hook that the resource of h asks for memory.
Suppliers(h) ==
  IF chain[h] = <<>> THEN {}
  ELSE LET leaf == Last(chain[h]) IN
       Hooks \cap (CASE leaf.kind = "cupy" -> {inForce[<<"CuPy", Everybody>>]}
                     [] leaf.kind = "rmm" -> {leaf.of}
                     [] OTHER -> {})

\* cupy.install and rmm.install: what they refuse, they refuse before any effect.
InstallDevice(c, h, l, links) ==
  /\ l \in {"CuPy", "rmm"}
  /\ NoCycle(links, Forbidden[l])
  /\ Last(links).device \in Served[l]
  /\ Capture(c, h, l)
  /\ chain' = [chain EXCEPT ![h] = links]
  /\ UNCHANGED <<current, numbaVars>>

InstallNumba(c, h) ==
  /\ Capture(c, h, "Numba")
  /\ UNCHANGED device
-------------------------------------------------------------------------------
(***************************************************************************)
(* Numba's pointers                                                        *)
(***************************************************************************)
\* The program gives the registry another resource.
SetCurrent(mr) ==
  /\ current' = mr
  /\ UNCHANGED <<hooks, history, pc, job, chain, numbaVars>>

\* Numba makes its context, with the manager it was told of last.
CreateContext ==
  /\ manager = None
  /\ manager' = inForce[<<"Numba", Everybody>>]
  /\ UNCHANGED <<hooks, history, pc, job, chain, current, blocks, allocations, pointers,
                 strays, resets, misgiven>>

Buffers(s) == {[ptr |-> p, mr |-> allocations[p]] : p \in s}

\* memalloc up to the DeviceBuffer: from whatever resource is current now.
Memalloc(c, p) ==
  /\ pc[c] = "idle"
  /\ manager \in Hooks
  /\ p \notin DOMAIN blocks
  /\ blocks' = With(blocks, p, current)
  /\ Goto(c, "enter", [hook |-> manager, ptr |-> p, mr |-> current])
  /\ UNCHANGED <<hooks, history, chain, current, manager, allocations, pointers, strays,
                 resets, misgiven>>

\* The rest: the entry, and the pointer with its finalizer.
Enter(c) ==
  /\ pc[c] = "enter"
  /\ allocations' = With(allocations, job[c].ptr, job[c].mr)
  /\ pointers' = pointers \cup {job[c].ptr}
  /\ Return(c)
  /\ UNCHANGED <<hooks, history, chain, current, manager, blocks, strays, resets, misgiven>>

\* The entries of some addresses leave the mapping; their buffers are freed after it.
Pop(c, s) ==
  LET found == s \cap DOMAIN allocations IN
  /\ allocations' = [p \in DOMAIN allocations \ found |-> allocations[p]]
  /\ IF found = {} THEN UNCHANGED <<pc, job>>
     ELSE Goto(c, "free", [hook |-> manager, owed |-> Buffers(found)])

\* A slip: the entry is looked up, and stays.
FinalizeKeeping(c, p) ==
  /\ pc[c] = "idle"
  /\ p \in pointers
  /\ pointers' = pointers \ {p}
  /\ Goto(c, "free", [hook |-> manager, owed |-> Buffers({p} \cap DOMAIN allocations)])
  /\ UNCHANGED <<hooks, history, chain, current, manager, blocks, allocations, strays,
                 resets, misgiven>>

\* The finalizer of a pointer whose entry is in the mapping.
Finalize(c, p) ==
  /\ pc[c] = "idle"
  /\ p \in pointers
  /\ pointers' = pointers \ {p}
  /\ Pop(c, {p})
  /\ UNCHANGED <<hooks, history, chain, current, manager, blocks, strays, resets, misgiven>>

\* The same finalizer of one that lost its entry: if there is another one under its
\* address by now, that goes, and the pointer it was made for has lost it.
Stray(c, p) ==
  /\ pc[c] = "idle"
  /\ strays[p] > 0
  /\ pointers' = pointers \ {p}
  /\ strays' = [strays EXCEPT ![p] = @ - 1 + Cardinality(pointers \cap {p})]
  /\ Pop(c, {p})
  /\ UNCHANGED <<hooks, history, chain, current, manager, blocks, resets, misgiven>>

\* Numba resets its context and clears the mapping, while arrays still hold pointers.
ResetContext(c) ==
  /\ pc[c] = "idle"
  /\ manager \in Hooks
  /\ resets < MaxResets
  /\ resets' = resets + 1
  /\ pointers' = {}
  /\ strays' = [p \in Addresses |-> strays[p] + Cardinality(pointers \cap {p})]
  /\ Pop(c, Addresses)
  /\ UNCHANGED <<hooks, history, chain, current, manager, blocks, misgiven>>

\* A slip: the buffer is given to the resource that is current.
FreeToCurrent(c) ==
  /\ pc[c] = "free"
  /\ \E b \in job[c].owed :
       /\ blocks' = Without(blocks, b.ptr)
       /\ misgiven' = (misgiven \/ b.ptr \notin DOMAIN blocks \/ blocks[b.ptr] # current)
       /\ IF job[c].owed = {b} THEN Return(c)
          ELSE Goto(c, "free", [job[c] EXCEPT !.owed = @ \ {b}])
  /\ UNCHANGED <<hooks, history, chain, current, manager, allocations, pointers, strays, resets>>

\* A buffer goes back to the resource it came from.
FreeBuffer(c) ==
  /\ pc[c] = "free"
  /\ \E b \in job[c].owed :
       /\ blocks' = Without(blocks, b.ptr)
       /\ misgiven' = (misgiven \/ b.ptr \notin DOMAIN blocks \/ blocks[b.ptr] # b.mr)
       /\ IF job[c].owed = {b} THEN Return(c)
          ELSE Goto(c, "free", [job[c] EXCEPT !.owed = @ \ {b}])
  /\ UNCHANGED <<hooks, history, chain, current, manager, allocations, pointers, strays, resets>>
-------------------------------------------------------------------------------
\* A call of devmm's in context c, for the hook h if it is an install.
DeviceStep(c) ==
  \/ \E p \in Addresses : Memalloc(c, p) \/ Finalize(c, p) \/ Stray(c, p)
  \/ Enter(c)
  \/ ResetContext(c)
  \/ FreeBuffer(c)
-------------------------------------------------------------------------------
(***************************************************************************)
(* Properties                                                              *)
(***************************************************************************)
\* ensure_no_cycle refuses "the direct consume+provide composition" of one library with
\* itself, wherever in the chain.  It does not see more: CuPy's allocator in rmm and rmm's
\* resource in CuPy pass, one after the other, and no allocation of either ever ends.  But
\* every such loop leads through the hooks of two libraries.
Asks(h) ==
  LET within[n \in 0..Cardinality(Hooks)] ==
        IF n = 0 THEN {} ELSE within[n - 1] \cup UNION {Suppliers(g) : g \in within[n - 1] \cup {h}}
  IN within[Cardinality(Hooks)]
Loop(h) == {g \in Asks(h) : h \in Asks(g)}
LoopsCrossLibraries ==
  \A h \in Hooks : h \in Asks(h) => Cardinality({library[g] : g \in Loop(h)}) > 1

\* The plugin's mapping and the device: an entry has its block, from its own resource,
\* and so has a pointer that did not lose its entry.  A pointer of before a reset has lost
\* it, and its finalizer may take that of a later pointer at its address, which Numba still
\* uses and which has no block from then on.  But the harm does not spread: under an
\* address there are never more pointers without an entry than resets there were.
PointersBacked ==
  /\ \A p \in DOMAIN allocations : p \in DOMAIN blocks /\ allocations[p] = blocks[p]
  /\ pointers = DOMAIN allocations
  /\ \A p \in Addresses : strays[p] <= resets

\* A block on the device is in the mapping, or a call has it in hand.
DeviceNothingLeft ==
  \A p \in DOMAIN blocks :
    \/ p \in DOMAIN allocations
    \/ \E c \in Contexts :
         \/ pc[c] = "enter" /\ job[c].ptr = p
         \/ pc[c] = "free" /\ \E b \in job[c].owed : b.ptr = p
===============================================================================
