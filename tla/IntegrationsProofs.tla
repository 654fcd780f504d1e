--------------------------- MODULE IntegrationsProofs ---------------------------
(***************************************************************************)
(* Proofs about Integrations: for any number of contexts, installations,   *)
(* addresses and resets, and whatever libraries a program uses.            *)
(***************************************************************************)
EXTENDS Integrations, SequenceTheorems, FiniteSetTheorems, WellFoundedInduction, TLAPS

(***************************************************************************)
(* The invariants of the installers                                        *)
(***************************************************************************)
Places ==
  {"idle", "replace", "restore", "grow", "record", "move", "release", "enter", "free"}

InstallersTyped ==
  /\ inForce \in [Slots -> Hooks \cup {Original, None}]
  /\ library \in [Hooks -> Libraries \cup {None}]
  /\ previous \in [Hooks -> Hooks \cup {Original, None}]
  /\ installed \in [Hooks -> BOOLEAN]
  /\ held \subseteq Hooks
  /\ pc \in [Contexts -> Places]
  /\ DOMAIN job = Contexts
  /\ home \in [Hooks -> Slots \cup {<<None, None>>}]
  /\ stack \in [Slots -> Seq(Hooks)]
  /\ tangled \subseteq Slots
  /\ \A c \in Contexts : pc[c] \in {"replace", "restore"} => job[c].hook \in Hooks

Distinct(s) == \A i, k \in 1..Len(s) : s[i] = s[k] => i = k
Stacked(h, s) == h \in Range(stack[s])

\* A hook is in one place of one stack, its home's, from the moment that it is put there
\* until it is restored, and it is about to be restored after it was uninstalled.
StacksInv ==
  /\ \A s \in Slots : Distinct(stack[s])
  /\ \A s \in Slots, h \in Hooks : Stacked(h, s) => home[h] = s /\ library[h] # None
  /\ \A h \in Hooks : installed[h] => home[h] \in Slots /\ Stacked(h, home[h])
RestoresInv ==
  \A c \in Contexts : pc[c] = "restore" =>
    LET h == job[c].hook IN
    /\ home[h] \in Slots /\ Stacked(h, home[h])
    /\ ~installed[h]
    /\ \A d \in Contexts \ {c} : pc[d] = "restore" => job[d].hook # h
ReplacesInv ==
  \A c \in Contexts : pc[c] = "replace" =>
    LET h == job[c].hook IN
    /\ library[h] \in Shared
    /\ \A s \in Slots : ~Stacked(h, s)
    /\ \A d \in Contexts \ {c} : pc[d] = "replace" => job[d].hook # h

InstallersInv == InstallersTyped /\ StacksInv /\ RestoresInv /\ ReplacesInv

\* In a slot where hooks come and go in order, each captured the one below it.
ChainsInv ==
  \A s \in Slots \ tangled : \A i \in 1..Len(stack[s]) :
    previous[stack[s][i]] = IF i = 1 THEN Original ELSE stack[s][i - 1]
CapturesInv ==
  \A c \in Contexts : pc[c] = "replace" =>
    LET h == job[c].hook IN
    Slot(library[h], c) \notin tangled => previous[h] = job[c].top
ForceInv == LastInForce /\ ChainsInv /\ CapturesInv

(***************************************************************************)
(* The invariant of NumPy's memory                                         *)
(***************************************************************************)
Numbers == Sizes \cup {0}
Records == [ptr : Ptrs, n : Numbers, h : Hooks]
Calls == [hook : Hooks, n : Numbers, ptr : Ptrs, array : SUBSET Records, was : Numbers]
CallPlaces == {"grow", "record", "move", "release"}

\* A call of a hook knows at most one array, which is the hook's own.
OneArray(place, j) ==
  \/ j.array = {} /\ place \in {"record", "release"}
  \/ \E a \in j.array : j.array = {a} /\ (place # "release" => j.was = a.n)
CallOK(place, j) ==
  place \in CallPlaces =>
    /\ j \in Calls
    /\ \A a \in j.array : a.h = j.hook
    /\ OneArray(place, j)
CallsInv ==
  /\ arrays \subseteq Records
  /\ \A a \in arrays : library[a.h] = NumPy
  /\ live \subseteq Hooks
  /\ \A h \in live : library[h] = NumPy
  /\ \A c \in Contexts : CallOK(pc[c], job[c])
  /\ \A c \in Contexts : InCallback(c) => library[job[c].hook] = NumPy

\* The arrays that a call will hand back, and what it took out of the tables, or did not
\* put there yet.
Claimed(place, j) ==
  IF place \notin CallPlaces THEN {}
  ELSE IF place = "move" THEN j.array \cup {Array(j.ptr, j.n, j.hook)} ELSE j.array
InHand(place, j) ==
  IF place \in {"record", "release"} THEN {Array(j.ptr, j.n, j.hook)} ELSE {}
claims == [c \in Contexts |-> Claimed(pc[c], job[c])]
inHand == [c \in Contexts |-> InHand(pc[c], job[c])]

Kept(r) == r.ptr \in DOMAIN heap /\ r.ptr \notin lost /\ heap[r.ptr] = [n |-> r.n, hook |-> r.h]
Entered(r) == r.ptr \in DOMAIN sizes[r.h] /\ sizes[r.h][r.ptr] = r.n

BackedInv ==
  /\ \A r \in arrays : Kept(r) /\ Entered(r)
  /\ \A c \in Contexts : \A r \in claims[c] : Kept(r) /\ Entered(r)
  /\ \A c \in Contexts : \A r \in inHand[c] :
       Kept(r) /\ \A h \in Hooks : r.ptr \notin DOMAIN sizes[h]
ApartInv ==
  /\ \A r, q \in arrays : r.ptr = q.ptr => r = q
  /\ \A c \in Contexts : \A r \in claims[c] : \A q \in arrays : r.ptr # q.ptr
  /\ \A c, d \in Contexts : \A r \in claims[c], q \in claims[d] :
       r.ptr = q.ptr => c = d /\ r = q
  /\ \A c, d \in Contexts : \A r \in inHand[c], q \in inHand[d] : r.ptr = q.ptr => c = d
MovesInv ==
  \A c \in Contexts : pc[c] = "move" => \A a \in job[c].array : a.ptr # job[c].ptr
OwnedInv ==
  /\ \A h \in Hooks : \A p \in DOMAIN sizes[h] :
       \/ \E r \in arrays : r.ptr = p /\ r.h = h
       \/ \E c \in Contexts : \E r \in claims[c] : r.ptr = p /\ r.h = h
  /\ \A p \in DOMAIN heap : p \notin lost =>
       \/ \E h \in Hooks : p \in DOMAIN sizes[h]
       \/ \E c \in Contexts : \E r \in inHand[c] : r.ptr = p
BlocksInv == BackedInv /\ ApartInv /\ OwnedInv
MemoryInv ==
  /\ DOMAIN sizes = Hooks /\ lost \subseteq DOMAIN heap /\ ~refused
  /\ BlocksInv /\ MovesInv

(***************************************************************************)
(* The invariant of Numba's memory                                         *)
(***************************************************************************)
\* The buffers that a call has in hand.
Hand(place, j) ==
  IF place = "enter" THEN {[ptr |-> j.ptr, mr |-> j.mr]}
  ELSE IF place = "free" THEN j.owed ELSE {}
hands == [c \in Contexts |-> Hand(pc[c], job[c])]

MappingInv ==
  /\ \A p \in DOMAIN allocations : p \in DOMAIN blocks /\ allocations[p] = blocks[p]
  /\ DOMAIN allocations \subseteq Addresses
  /\ pointers = DOMAIN allocations
  /\ \A c \in Contexts : pc[c] = "enter" => job[c].ptr \in Addresses
OwesInv ==
  \A c \in Contexts :
    pc[c] = "free" => job[c] = [hook |-> job[c].hook, owed |-> job[c].owed]
StraysInv ==
  /\ resets \in Nat
  /\ strays \in [Addresses -> Nat]
  /\ \A p \in Addresses : strays[p] <= resets
HeldInv ==
  /\ \A c \in Contexts : \A b \in hands[c] :
       b.ptr \in DOMAIN blocks /\ blocks[b.ptr] = b.mr /\ b.ptr \notin DOMAIN allocations
  /\ \A c, d \in Contexts : \A b \in hands[c], q \in hands[d] :
       b.ptr = q.ptr => c = d /\ b = q
LeftInv ==
  \A p \in DOMAIN blocks :
    p \in DOMAIN allocations \/ \E c \in Contexts : \E b \in hands[c] : b.ptr = p
DeviceInv == MappingInv /\ OwesInv /\ StraysInv /\ HeldInv /\ LeftInv /\ ~misgiven
-------------------------------------------------------------------------------
(***************************************************************************)
(* Stacks: sequences in which nothing is twice                             *)
(***************************************************************************)
LEMMA RangeIs ==
  ASSUME NEW S, NEW s \in Seq(S), NEW x
  PROVE  x \in Range(s) <=> \E i \in 1..Len(s) : s[i] = x
<1>1. Range(s) = {s[i] : i \in 1..Len(s)}
  BY RangeEquality
<1>. QED  BY <1>1

LEMMA StackGrows ==
  ASSUME NEW S, NEW s \in Seq(S), Distinct(s), NEW h \in S, h \notin Range(s)
  PROVE  /\ Append(s, h) \in Seq(S)
         /\ Distinct(Append(s, h))
         /\ \A x : x \in Range(Append(s, h)) <=> x \in Range(s) \/ x = h
         /\ Len(Append(s, h)) = Len(s) + 1
         /\ \A i \in 1..Len(s) : Append(s, h)[i] = s[i]
         /\ Append(s, h)[Len(s) + 1] = h
<1> DEFINE t == Append(s, h)
<1>1. /\ t \in Seq(S) /\ Len(s) \in Nat /\ Len(t) = Len(s) + 1
      /\ \A i \in 1..Len(s) : t[i] = s[i]
      /\ t[Len(s) + 1] = h
  OBVIOUS
<1>2. \A x : x \in Range(s) <=> \E i \in 1..Len(s) : s[i] = x
  BY RangeIs
<1>3. \A x : x \in Range(t) <=> \E i \in 1..Len(t) : t[i] = x
  BY <1>1, RangeIs
<1> HIDE DEF t
<1>4. Distinct(t)
  BY <1>1, <1>2 DEF Distinct
<1>5. \A x : x \in Range(t) <=> x \in Range(s) \/ x = h
  BY <1>1, <1>2, <1>3
<1>. QED  BY <1>1, <1>4, <1>5 DEF t

LEMMA StackShrinks ==
  ASSUME NEW S, NEW s \in Seq(S), Distinct(s), NEW h, h \in Range(s)
  PROVE  /\ Unstacked(s, h) \in Seq(S)
         /\ Distinct(Unstacked(s, h))
         /\ \A x : x \in Range(Unstacked(s, h)) <=> x \in Range(s) /\ x # h
         /\ Len(s) \in Nat \ {0}
         /\ Len(Unstacked(s, h)) = Len(s) - 1
         /\ s[Len(s)] = h => \A i \in 1..(Len(s) - 1) : Unstacked(s, h)[i] = s[i]
<1> DEFINE places == {i \in DOMAIN s : s[i] = h}
           k == CHOOSE i \in places : TRUE
           low == SubSeq(s, 1, k - 1)
           high == SubSeq(s, k + 1, Len(s))
           t == Unstacked(s, h)
<1>1. /\ Len(s) \in Nat /\ DOMAIN s = 1..Len(s)
      /\ \A i \in 1..Len(s) : s[i] \in S
  BY LenProperties, ElementOfSeq
<1>2. \A x : x \in Range(s) <=> \E i \in 1..Len(s) : s[i] = x
  BY RangeIs
<1>3. k \in 1..Len(s) /\ s[k] = h /\ places # {}
  BY <1>1, <1>2
<1>4. t = low \o high
  BY <1>3 DEF Unstacked, RemoveAt
<1> HIDE DEF k, t
<1>5. /\ low \in Seq(S) /\ Len(low) = k - 1
      /\ \A i \in 1..(k - 1) : low[i] = s[i]
  <2>1. /\ 1 \in Int /\ k - 1 \in Int
        /\ \A i \in 1..(k - 1) : s[i] \in S
    BY <1>1, <1>3
  <2>2. /\ low \in Seq(S)
        /\ Len(low) = IF 1 <= k - 1 THEN (k - 1) - 1 + 1 ELSE 0
        /\ \A i \in 1..((k - 1) - 1 + 1) : low[i] = s[1 + i - 1]
    BY <2>1, SubSeqProperties
  <2>. QED  BY <2>2, <1>3
<1>6. /\ high \in Seq(S) /\ Len(high) = Len(s) - k
      /\ \A i \in 1..(Len(s) - k) : high[i] = s[k + i]
  <2>1. /\ k + 1 \in Int /\ Len(s) \in Int
        /\ \A i \in (k + 1)..Len(s) : s[i] \in S
    BY <1>1, <1>3
  <2>2. /\ high \in Seq(S)
        /\ Len(high) = IF k + 1 <= Len(s) THEN Len(s) - (k + 1) + 1 ELSE 0
        /\ \A i \in 1..(Len(s) - (k + 1) + 1) : high[i] = s[(k + 1) + i - 1]
    BY <2>1, SubSeqProperties
  <2>3. Len(high) = Len(s) - k
    BY <2>2, <1>1, <1>3
  <2>4. \A i \in 1..(Len(s) - k) :
          i \in 1..(Len(s) - (k + 1) + 1) /\ (k + 1) + i - 1 = k + i
    BY <1>1, <1>3
  <2>. QED  BY <2>2, <2>3, <2>4
<1> HIDE DEF low, high
<1>7. /\ t \in Seq(S) /\ Len(t) = Len(s) - 1
      /\ \A i \in 1..(Len(s) - 1) : t[i] = IF i < k THEN s[i] ELSE s[i + 1]
  <2>1. /\ t \in Seq(S) /\ Len(t) = Len(low) + Len(high)
        /\ \A i \in 1..(Len(low) + Len(high)) :
             t[i] = IF i <= Len(low) THEN low[i] ELSE high[i - Len(low)]
    BY <1>4, <1>5, <1>6, ConcatProperties
  <2>2. Len(low) + Len(high) = Len(s) - 1
    BY <1>1, <1>3, <1>5, <1>6
  <2>3. ASSUME NEW i \in 1..(Len(s) - 1) PROVE t[i] = IF i < k THEN s[i] ELSE s[i + 1]
    <3>1. CASE i < k
      <4>1. i \in 1..(k - 1) /\ i <= Len(low) /\ i \in 1..(Len(low) + Len(high))
        BY <3>1, <1>1, <1>3, <1>5, <2>2
      <4>. QED  BY <3>1, <4>1, <1>5, <2>1
    <3>2. CASE ~(i < k)
      <4>1. i - Len(low) \in 1..(Len(s) - k) /\ k + (i - Len(low)) = i + 1
        BY <3>2, <1>1, <1>3, <1>5
      <4>2. t[i] = high[i - Len(low)]
        BY <3>2, <1>1, <1>3, <1>5, <2>1, <2>2
      <4>. QED  BY <3>2, <4>1, <4>2, <1>6
    <3>. QED  BY <3>1, <3>2
  <2>. QED  BY <2>1, <2>2, <2>3
<1>8. \A x : x \in Range(t) <=> \E i \in 1..Len(t) : t[i] = x
  BY <1>7, RangeIs
<1>9. \A i, m \in 1..Len(s) : s[i] = s[m] => i = m
  BY DEF Distinct
<1>10. Distinct(t)
  <2>1. SUFFICES ASSUME NEW i \in 1..(Len(s) - 1), NEW m \in 1..(Len(s) - 1), t[i] = t[m]
                 PROVE  i = m
    BY <1>7 DEF Distinct
  <2> DEFINE at(j) == IF j < k THEN j ELSE j + 1
  <2>2. \A j \in 1..(Len(s) - 1) : at(j) \in 1..Len(s) /\ t[j] = s[at(j)]
    BY <1>1, <1>3, <1>7
  <2>3. at(i) = at(m)
    <3> HIDE DEF at
    <3>. QED  BY <2>1, <2>2, <1>9
  <2>. QED  BY <2>3, <1>1, <1>3
<1>11. \A x : x \in Range(t) <=> x \in Range(s) /\ x # h
  <2>1. ASSUME NEW x, x \in Range(t) PROVE x \in Range(s) /\ x # h
    <3>1. PICK i \in 1..(Len(s) - 1) : t[i] = x
      BY <2>1, <1>7, <1>8
    <3>2. CASE i < k
      BY <3>1, <3>2, <1>1, <1>2, <1>3, <1>7, <1>9
    <3>3. CASE ~(i < k)
      <4>1. i + 1 \in 1..Len(s) /\ i + 1 # k
        BY <3>3, <1>1, <1>3
      <4>. QED  BY <3>1, <3>3, <4>1, <1>2, <1>3, <1>7, <1>9
    <3>. QED  BY <3>2, <3>3
  <2>2. ASSUME NEW x, x \in Range(s), x # h PROVE x \in Range(t)
    <3>1. PICK i \in 1..Len(s) : s[i] = x
      BY <2>2, <1>2
    <3>2. CASE i < k
      <4>1. i \in 1..(Len(s) - 1)
        BY <3>2, <1>1, <1>3
      <4>. QED  BY <3>1, <3>2, <4>1, <1>7, <1>8
    <3>3. CASE ~(i < k)
      <4>1. i # k
        BY <2>2, <3>1, <1>3
      <4>2. i - 1 \in 1..(Len(s) - 1) /\ ~(i - 1 < k) /\ (i - 1) + 1 = i
        BY <3>3, <4>1, <1>1, <1>3
      <4>. QED  BY <3>1, <4>2, <1>7, <1>8
    <3>. QED  BY <3>2, <3>3
  <2>. QED  BY <2>1, <2>2
<1>12. s[Len(s)] = h => \A i \in 1..(Len(s) - 1) : t[i] = s[i]
  <2>1. SUFFICES ASSUME s[Len(s)] = h PROVE k = Len(s)
    BY <1>1, <1>3, <1>7
  <2>2. Len(s) \in 1..Len(s)
    BY <1>1, <1>3
  <2>. QED  BY <2>1, <2>2, <1>3, <1>9, Zenon
<1>. QED  BY <1>1, <1>3, <1>7, <1>10, <1>11, <1>12 DEF t
-------------------------------------------------------------------------------
(***************************************************************************)
(* The steps of a behaviour, as the installers see them                    *)
(***************************************************************************)
\* Steps that do not touch the hooks.
Aside ==
  /\ UNCHANGED <<hooks, history>>
  /\ \/ UNCHANGED <<pc, job>>
     \/ \E c \in Contexts : \E to \in Places \ {"replace", "restore"} : \E j :
          pc[c] \notin {"replace", "restore"} /\ Goto(c, to, j)

InstallerMoves ==
  \/ Aside
  \/ \E c \in Contexts, h \in Hooks : Exchange(c, h)
  \/ \E c \in Contexts, h \in Hooks : \E l : Capture(c, h, l)
  \/ \E c \in Contexts : Replace(c)
  \/ \E c \in Contexts, h \in Hooks : Uninstall(c, h)
  \/ \E c \in Contexts : Restore(c)
  \/ \E h \in Hooks : Drop(h)

LEMMA PopIsAside ==
  ASSUME NEW c \in Contexts, NEW s, pc[c] = "idle", Pop(c, s), UNCHANGED <<hooks, history>>
  PROVE  Aside
<1>1. "free" \in Places \ {"replace", "restore"} /\ pc[c] \notin {"replace", "restore"}
  BY DEF Places
<1>. QED  BY <1>1 DEF Pop, Aside

HandlerGoes(c) ==
  /\ UNCHANGED <<hooks, history>>
  /\ \/ UNCHANGED <<pc, job>>
     \/ \E to \in {"idle"} \cup CallPlaces : \E j :
          pc[c] \in {"idle"} \cup CallPlaces /\ Goto(c, to, j)

LEMMA HandlersGo ==
  ASSUME NEW c \in Contexts, HandlerStep(c)
  PROVE  HandlerGoes(c)
<1>0. {"idle"} \cup CallPlaces = {"idle", "grow", "record", "move", "release"}
  BY DEF CallPlaces
<1>1. ASSUME NEW h, NEW n, NEW ptr, Malloc(c, h, n, ptr) PROVE HandlerGoes(c)
  BY <1>0, <1>1 DEF Malloc, HandlerGoes
<1>2. ASSUME NEW a, Free(c, a) PROVE HandlerGoes(c)
  BY <1>0, <1>2 DEF Free, HandlerGoes
<1>3. ASSUME NEW a, NEW n, Realloc(c, a, n) PROVE HandlerGoes(c)
  BY <1>0, <1>3 DEF Realloc, HandlerGoes
<1>4. ASSUME NEW ptr, Grow(c, ptr) PROVE HandlerGoes(c)
  BY <1>0, <1>4 DEF Grow, HandlerGoes
<1>5. ASSUME GrowFails(c) PROVE HandlerGoes(c)
  BY <1>0, <1>5 DEF GrowFails, Return, HandlerGoes
<1>6. ASSUME Record(c) PROVE HandlerGoes(c)
  BY <1>0, <1>6 DEF Record, Return, HandlerGoes
<1>7. ASSUME Move(c) PROVE HandlerGoes(c)
  BY <1>0, <1>7 DEF Move, HandlerGoes
<1>8. ASSUME Release(c) PROVE HandlerGoes(c)
  BY <1>0, <1>8 DEF Release, Return, HandlerGoes
<1>. QED  BY <1>1, <1>2, <1>3, <1>4, <1>5, <1>6, <1>7, <1>8 DEF HandlerStep

LEMMA HandlersAside == ASSUME NEW c \in Contexts, HandlerStep(c) PROVE Aside
<1>1. {"idle"} \cup CallPlaces \subseteq Places \ {"replace", "restore"}
  BY DEF CallPlaces, Places
<1>2. HandlerGoes(c)
  BY HandlersGo
<1>. QED  BY <1>1, <1>2 DEF HandlerGoes, Aside

LEMMA DevicesAside ==
  ASSUME NEW c \in Contexts, DeviceStep(c)
  PROVE  Aside
<1>0. {"idle", "enter", "free"} \subseteq Places \ {"replace", "restore"}
  BY DEF Places
<1>1. ASSUME NEW p, Memalloc(c, p) PROVE Aside
  BY <1>0, <1>1 DEF Memalloc, Aside
<1>2. ASSUME NEW p, Finalize(c, p) PROVE Aside
  <2>1. pc[c] = "idle" /\ Pop(c, {p}) /\ UNCHANGED <<hooks, history>>
    BY <1>2 DEF Finalize
  <2>. QED  BY <2>1, PopIsAside
<1>3. ASSUME NEW p, Stray(c, p) PROVE Aside
  <2>1. pc[c] = "idle" /\ Pop(c, {p}) /\ UNCHANGED <<hooks, history>>
    BY <1>3 DEF Stray
  <2>. QED  BY <2>1, PopIsAside
<1>4. ASSUME Enter(c) PROVE Aside
  BY <1>0, <1>4 DEF Enter, Return, Aside
<1>5. ASSUME ResetContext(c) PROVE Aside
  <2>1. pc[c] = "idle" /\ Pop(c, Addresses) /\ UNCHANGED <<hooks, history>>
    BY <1>5 DEF ResetContext
  <2>. QED  BY <2>1, PopIsAside
<1>6. ASSUME FreeBuffer(c) PROVE Aside
  BY <1>0, <1>6 DEF FreeBuffer, Return, Aside
<1>. QED  BY <1>1, <1>2, <1>3, <1>4, <1>5, <1>6 DEF DeviceStep

LEMMA StepsOfInstallers == ASSUME [Next]_vars PROVE InstallerMoves
<1>1. CASE UNCHANGED vars
  BY <1>1 DEF vars, InstallerMoves, Aside
<1>2. CASE NumPyStep
  <2>1. ASSUME NEW c \in Contexts, NEW h \in Hooks, InstallNumPy(c, h) PROVE InstallerMoves
    BY <2>1 DEF InstallNumPy, InstallerMoves
  <2>2. ASSUME NEW c \in Contexts, CaptureHandler(c) PROVE InstallerMoves
    BY <2>2 DEF CaptureHandler, InstallerMoves, Aside
  <2>3. ASSUME NEW c \in Contexts, HandlerStep(c) PROVE InstallerMoves
    BY <2>3, HandlersAside DEF InstallerMoves
  <2>4. ASSUME NEW h \in Hooks, DropCaptured(h) \/ CapsuleDies(h) PROVE InstallerMoves
    BY <2>4 DEF DropCaptured, CapsuleDies, InstallerMoves, Aside
  <2>. QED  BY <1>2, <2>1, <2>2, <2>3, <2>4 DEF NumPyStep
<1>3. CASE DeviceLibraryStep
  <2>1. ASSUME NEW c \in Contexts, NEW h \in Hooks, NEW l, NEW links, InstallDevice(c, h, l, links)
        PROVE  InstallerMoves
    BY <2>1 DEF InstallDevice, InstallerMoves
  <2>2. ASSUME NEW c \in Contexts, NEW h \in Hooks, InstallNumba(c, h) PROVE InstallerMoves
    BY <2>2 DEF InstallNumba, InstallerMoves
  <2>3. ASSUME NEW c \in Contexts, DeviceStep(c) PROVE InstallerMoves
    BY <2>3, DevicesAside DEF InstallerMoves
  <2>. QED  BY <1>3, <2>1, <2>2, <2>3 DEF DeviceLibraryStep
<1>4. CASE DeviceProgramStep
  BY <1>4 DEF DeviceProgramStep, CreateContext, SetCurrent, InstallerMoves, Aside
<1>5. CASE InstallerStep
  BY <1>5 DEF InstallerStep, EndUninstall, InstallerMoves
<1>. QED  BY <1>1, <1>2, <1>3, <1>4, <1>5 DEF Next
-------------------------------------------------------------------------------
(***************************************************************************)
(* A hook is restored once                                                 *)
(***************************************************************************)
LEMMA SlotsOfLibraries ==
  ASSUME NEW l \in Libraries, NEW c \in Contexts
  PROVE  Slot(l, c) \in Slots
BY DEF Slot, Slots, Libraries

LEMMA NoneIsNoHook == None \notin Libraries /\ Original \notin Hooks
BY InstallersAssumption

\* What the parts of InstallersInv say of a step that puts a hook in its slot.
LEMMA PutOnStack ==
  ASSUME InstallersTyped, StacksInv,
         NEW h \in Hooks, NEW s \in Slots, NEW top, PutInForce(h, s, top),
         \A r \in Slots : ~Stacked(h, r)
  PROVE  /\ inForce' \in [Slots -> Hooks \cup {Original, None}]
         /\ installed' \in [Hooks -> BOOLEAN]
         /\ held' \subseteq Hooks
         /\ home' \in [Hooks -> Slots \cup {<<None, None>>}]
         /\ stack' \in [Slots -> Seq(Hooks)]
         /\ tangled' \subseteq Slots
         /\ \A r \in Slots : Distinct(stack'[r])
         /\ \A r \in Slots, x \in Hooks : Stacked(x, r)' <=> Stacked(x, r) \/ (x = h /\ r = s)
         /\ \A x \in Hooks : home'[x] = IF x = h THEN s ELSE home[x]
         /\ \A x \in Hooks : installed'[x] = IF x = h THEN TRUE ELSE installed[x]
<1>1. /\ inForce' = [inForce EXCEPT ![s] = h]
      /\ installed' = [installed EXCEPT ![h] = TRUE]
      /\ held' = held \cup {h}
      /\ home' = [home EXCEPT ![h] = s]
      /\ stack' = [stack EXCEPT ![s] = Append(@, h)]
      /\ tangled' = IF top = Top(s) THEN tangled ELSE tangled \cup {s}
  BY DEF PutInForce
<1>2. stack[s] \in Seq(Hooks) /\ Distinct(stack[s]) /\ h \notin Range(stack[s])
  BY DEF InstallersTyped, StacksInv, Stacked
<1>3. /\ Append(stack[s], h) \in Seq(Hooks)
      /\ Distinct(Append(stack[s], h))
      /\ \A x : x \in Range(Append(stack[s], h)) <=> x \in Range(stack[s]) \/ x = h
  BY <1>2, StackGrows
<1>4. /\ stack' \in [Slots -> Seq(Hooks)]
      /\ \A r \in Slots : stack'[r] = IF r = s THEN Append(stack[s], h) ELSE stack[r]
  BY <1>1, <1>3 DEF InstallersTyped
<1>5. \A r \in Slots : Distinct(stack'[r])
  BY <1>3, <1>4 DEF StacksInv
<1>6. \A r \in Slots, x \in Hooks : Stacked(x, r)' <=> Stacked(x, r) \/ (x = h /\ r = s)
  BY <1>3, <1>4 DEF Stacked
<1>7. inForce' \in [Slots -> Hooks \cup {Original, None}]
  BY <1>1 DEF InstallersTyped
<1>8. /\ installed' \in [Hooks -> BOOLEAN] /\ held' \subseteq Hooks
      /\ \A x \in Hooks : installed'[x] = IF x = h THEN TRUE ELSE installed[x]
  BY <1>1 DEF InstallersTyped
<1>9. /\ home' \in [Hooks -> Slots \cup {<<None, None>>}]
      /\ \A x \in Hooks : home'[x] = IF x = h THEN s ELSE home[x]
  BY <1>1 DEF InstallersTyped
<1>10. tangled' \subseteq Slots
  BY <1>1 DEF InstallersTyped
<1>. QED  BY <1>4, <1>5, <1>6, <1>7, <1>8, <1>9, <1>10

\* And of one that takes it out of its home's.
LEMMA TakenOffStack ==
  ASSUME InstallersTyped, StacksInv, RestoresInv, NEW c \in Contexts, Restore(c)
  PROVE  /\ job[c].hook \in Hooks
         /\ inForce' \in [Slots -> Hooks \cup {Original, None}]
         /\ stack' \in [Slots -> Seq(Hooks)]
         /\ tangled' \subseteq Slots
         /\ \A r \in Slots :
              stack'[r] = IF r = home[job[c].hook] THEN Unstacked(stack[r], job[c].hook)
                          ELSE stack[r]
         /\ \A r \in Slots : Distinct(stack'[r])
         /\ \A r \in Slots, x \in Hooks : Stacked(x, r)' <=> Stacked(x, r) /\ x # job[c].hook
<1> DEFINE h == job[c].hook
           s == Slot(library[h], c)
<1>1. /\ pc[c] = "restore"
      /\ inForce' = [inForce EXCEPT ![s] = previous[h]]
      /\ stack' = [stack EXCEPT ![home[h]] = Unstacked(@, h)]
      /\ tangled' = IF Top(s) = h THEN tangled ELSE tangled \cup {s, home[h]}
  BY DEF Restore
<1>2. h \in Hooks /\ home[h] \in Slots /\ Stacked(h, home[h])
  BY <1>1 DEF RestoresInv, InstallersTyped
<1>3. s \in Slots
  <2>1. library[h] \in Libraries
    BY <1>2 DEF StacksInv, InstallersTyped
  <2>. QED  BY <2>1, SlotsOfLibraries
<1> HIDE DEF h, s
<1>4. /\ stack[home[h]] \in Seq(Hooks) /\ Distinct(stack[home[h]])
      /\ h \in Range(stack[home[h]])
  BY <1>2 DEF InstallersTyped, StacksInv, Stacked
<1>5. /\ Unstacked(stack[home[h]], h) \in Seq(Hooks)
      /\ Distinct(Unstacked(stack[home[h]], h))
      /\ \A x : x \in Range(Unstacked(stack[home[h]], h)) <=> x \in Range(stack[home[h]]) /\ x # h
  BY <1>4, StackShrinks
<1>6. /\ stack' \in [Slots -> Seq(Hooks)]
      /\ \A r \in Slots : stack'[r] = IF r = home[h] THEN Unstacked(stack[r], h) ELSE stack[r]
  BY <1>1, <1>2, <1>5 DEF InstallersTyped
<1>7. \A r \in Slots : Distinct(stack'[r])
  BY <1>5, <1>6 DEF StacksInv
<1>8. ASSUME NEW r \in Slots, NEW x \in Hooks
      PROVE  Stacked(x, r)' <=> Stacked(x, r) /\ x # h
  <2>1. CASE r = home[h]
    BY <2>1, <1>5, <1>6 DEF Stacked
  <2>2. CASE r # home[h]
    <3>1. ~Stacked(h, r)
      BY <2>2, <1>2 DEF StacksInv
    <3>. QED  BY <2>2, <3>1, <1>6 DEF Stacked
  <2>. QED  BY <2>1, <2>2
<1>9. inForce' \in [Slots -> Hooks \cup {Original, None}]
  BY <1>1, <1>2, <1>3 DEF InstallersTyped
<1>10. tangled' \subseteq Slots
  BY <1>1, <1>2, <1>3 DEF InstallersTyped
<1>. QED  BY <1>2, <1>6, <1>7, <1>8, <1>9, <1>10 DEF h

LEMMA InstallersInit == Init => InstallersInv
<1>1. SUFFICES ASSUME InitInstallers PROVE InstallersInv
  BY DEF Init
<1>2. InstallersTyped
  BY <1>1 DEF InitInstallers, InstallersTyped, Places, NoJob
<1>3. \A s \in Slots : Distinct(stack[s]) /\ \A h : ~Stacked(h, s)
  <2>1. \A s \in Slots : stack[s] = <<>>
    BY <1>1 DEF InitInstallers
  <2>2. Len(<<>>) = 0 /\ Range(<<>>) = {}
    BY DEF Range
  <2>. QED  BY <2>1, <2>2 DEF Distinct, Stacked
<1>4. StacksInv
  BY <1>1, <1>3 DEF InitInstallers, StacksInv
<1>. QED  BY <1>1, <1>2, <1>4 DEF InitInstallers, InstallersInv, RestoresInv, ReplacesInv

\* The hook of an exchange and of a replacement is in no stack.
LEMMA ExchangePuts ==
  ASSUME InstallersInv, NEW c \in Contexts, NEW h \in Hooks, Exchange(c, h)
  PROVE  /\ Slot(NumPy, c) \in Slots
         /\ PutInForce(h, Slot(NumPy, c), Top(Slot(NumPy, c)))
         /\ \A r \in Slots : ~Stacked(h, r)
<1>1. NumPy \in Libraries
  BY DEF Libraries
<1>. QED  BY <1>1, SlotsOfLibraries DEF Exchange, InstallersInv, StacksInv

LEMMA ReplacePuts ==
  ASSUME InstallersInv, NEW c \in Contexts, Replace(c)
  PROVE  /\ job[c].hook \in Hooks
         /\ Slot(library[job[c].hook], c) \in Slots
         /\ PutInForce(job[c].hook, Slot(library[job[c].hook], c), job[c].top)
         /\ \A r \in Slots : ~Stacked(job[c].hook, r)
<1>1. job[c].hook \in Hooks /\ library[job[c].hook] \in Libraries
  BY DEF Replace, InstallersInv, InstallersTyped, ReplacesInv, Libraries
<1>. QED  BY <1>1, SlotsOfLibraries DEF Replace, InstallersInv, ReplacesInv

LEMMA TypedStep == ASSUME InstallersInv, InstallerMoves PROVE InstallersTyped'
<1>0. InstallersTyped /\ StacksInv /\ RestoresInv
  BY DEF InstallersInv
<1>1. CASE Aside
  <2>1. UNCHANGED <<hooks, history>>
    BY <1>1 DEF Aside
  <2>2. CASE UNCHANGED <<pc, job>>
    BY <1>0, <2>1, <2>2 DEF InstallersTyped, hooks, history
  <2>3. ASSUME NEW c \in Contexts, NEW to \in Places \ {"replace", "restore"}, NEW j,
               Goto(c, to, j)
        PROVE  InstallersTyped'
    BY <1>0, <2>1, <2>3 DEF InstallersTyped, hooks, history, Goto
  <2>. QED  BY <1>1, <2>2, <2>3 DEF Aside
<1>2. ASSUME NEW c \in Contexts, NEW h \in Hooks, Exchange(c, h) PROVE InstallersTyped'
  <2>1. /\ library' = [library EXCEPT ![h] = NumPy]
        /\ previous' = [previous EXCEPT ![h] = inForce[Slot(NumPy, c)]]
        /\ UNCHANGED <<pc, job>>
    BY <1>2 DEF Exchange
  <2>2. library' \in [Hooks -> Libraries \cup {None}]
    BY <1>0, <2>1 DEF InstallersTyped, Libraries
  <2>3. previous' \in [Hooks -> Hooks \cup {Original, None}]
    BY <1>0, <1>2, <2>1, ExchangePuts DEF InstallersTyped
  <2>. QED  BY <1>0, <1>2, <2>1, <2>2, <2>3, ExchangePuts, PutOnStack DEF InstallersTyped
<1>3. ASSUME NEW c \in Contexts, NEW h \in Hooks, NEW l, Capture(c, h, l)
      PROVE  InstallersTyped'
  <2>1. /\ l \in Shared
        /\ library' = [library EXCEPT ![h] = l]
        /\ previous' = [previous EXCEPT ![h] = inForce[Slot(l, c)]]
        /\ Goto(c, "replace", [hook |-> h, top |-> Top(Slot(l, c))])
        /\ UNCHANGED <<inForce, installed, held, home, stack, tangled>>
    BY <1>3 DEF Capture, history
  <2>2. l \in Libraries /\ Slot(l, c) \in Slots
    BY <2>1, SlotsOfLibraries DEF Libraries
  <2>3. library' \in [Hooks -> Libraries \cup {None}]
    BY <1>0, <2>1, <2>2 DEF InstallersTyped
  <2>4. previous' \in [Hooks -> Hooks \cup {Original, None}]
    BY <1>0, <2>1, <2>2 DEF InstallersTyped
  <2>. QED  BY <1>0, <2>1, <2>3, <2>4 DEF InstallersTyped, Goto, Places
<1>4. ASSUME NEW c \in Contexts, Replace(c) PROVE InstallersTyped'
  <2>1. Return(c) /\ UNCHANGED <<library, previous>>
    BY <1>4 DEF Replace
  <2>. QED  BY <1>0, <1>4, <2>1, ReplacePuts, PutOnStack
            DEF InstallersTyped, Return, Goto, Places
<1>5. ASSUME NEW c \in Contexts, NEW h \in Hooks, Uninstall(c, h) PROVE InstallersTyped'
  BY <1>0, <1>5 DEF Uninstall, InstallersTyped, Goto, Places, history
<1>6. ASSUME NEW c \in Contexts, Restore(c) PROVE InstallersTyped'
  <2>1. Return(c) /\ UNCHANGED <<library, previous, installed, held, home>>
    BY <1>6 DEF Restore
  <2>. QED  BY <1>0, <1>6, <2>1, TakenOffStack DEF InstallersTyped, Return, Goto, Places
<1>7. ASSUME NEW h \in Hooks, Drop(h) PROVE InstallersTyped'
  BY <1>0, <1>7 DEF Drop, InstallersTyped, history
<1>. QED  BY <1>1, <1>2, <1>3, <1>4, <1>5, <1>6, <1>7 DEF InstallerMoves

LEMMA PutKeepsStacks ==
  ASSUME InstallersTyped, StacksInv,
         NEW h \in Hooks, NEW s \in Slots, NEW top, PutInForce(h, s, top),
         \A r \in Slots : ~Stacked(h, r),
         \A g \in Hooks : library[g] # None \/ g = h => library'[g] # None
  PROVE  StacksInv'
<1>1. /\ \A r \in Slots : Distinct(stack'[r])
      /\ \A r \in Slots, x \in Hooks : Stacked(x, r)' <=> Stacked(x, r) \/ (x = h /\ r = s)
      /\ \A x \in Hooks : home'[x] = IF x = h THEN s ELSE home[x]
      /\ \A x \in Hooks : installed'[x] = IF x = h THEN TRUE ELSE installed[x]
  BY PutOnStack
<1>2. ASSUME NEW r \in Slots, NEW x \in Hooks, Stacked(x, r)'
      PROVE  home'[x] = r /\ library'[x] # None
  BY <1>1, <1>2 DEF StacksInv
<1>3. ASSUME NEW x \in Hooks, installed'[x]
      PROVE  home'[x] \in Slots /\ x \in Range(stack'[home'[x]])
  <2>1. home'[x] \in Slots /\ (Stacked(x, home'[x]) \/ (x = h /\ home'[x] = s))
    BY <1>1, <1>3 DEF StacksInv
  <2>2. \A r \in Slots : Stacked(x, r) \/ (x = h /\ r = s) => x \in Range(stack'[r])
    BY <1>1 DEF Stacked
  <2>. QED  BY <2>1, <2>2
<1>. QED  BY <1>1, <1>2, <1>3 DEF StacksInv, Stacked

LEMMA StacksStep == ASSUME InstallersInv, InstallerMoves PROVE StacksInv'
<1>0. InstallersTyped /\ StacksInv /\ RestoresInv
  BY DEF InstallersInv
<1>1. ASSUME UNCHANGED <<home, stack>>,
             \A h \in Hooks : library[h] # None => library'[h] # None,
             \A h \in Hooks : installed'[h] => installed[h]
      PROVE  StacksInv'
  BY <1>0, <1>1 DEF StacksInv, Stacked
<1>2. CASE Aside
  BY <1>1, <1>2 DEF Aside, hooks, history
<1>3. ASSUME NEW c \in Contexts, NEW h \in Hooks, Exchange(c, h) PROVE StacksInv'
  <2>1. library' = [library EXCEPT ![h] = NumPy] /\ NumPy # None
    BY <1>3, NoneIsNoHook DEF Exchange, Libraries
  <2>2. \A g \in Hooks : library[g] # None \/ g = h => library'[g] # None
    BY <1>0, <2>1 DEF InstallersTyped
  <2>. QED  BY <1>0, <1>3, <2>2, ExchangePuts, PutKeepsStacks
<1>4. ASSUME NEW c \in Contexts, NEW h \in Hooks, NEW l, Capture(c, h, l) PROVE StacksInv'
  <2>1. library' = [library EXCEPT ![h] = l] /\ l # None
    BY <1>4, NoneIsNoHook DEF Capture, Libraries
  <2>. QED  BY <1>0, <1>1, <1>4, <2>1 DEF Capture, history, InstallersTyped
<1>5. ASSUME NEW c \in Contexts, Replace(c) PROVE StacksInv'
  <2> DEFINE h == job[c].hook
  <2>1. library' = library /\ library[h] \in Shared
    BY <1>5 DEF Replace, InstallersInv, ReplacesInv
  <2>2. library[h] # None
    BY <2>1, NoneIsNoHook DEF Libraries
  <2>3. \A g \in Hooks : library[g] # None \/ g = h => library'[g] # None
    BY <2>1, <2>2
  <2>. QED  BY <1>0, <1>5, <2>3, ReplacePuts, PutKeepsStacks
<1>6. ASSUME NEW c \in Contexts, NEW h \in Hooks, Uninstall(c, h) PROVE StacksInv'
  BY <1>0, <1>1, <1>6 DEF Uninstall, history, InstallersTyped
<1>7. ASSUME NEW c \in Contexts, Restore(c) PROVE StacksInv'
  <2>1. UNCHANGED <<library, installed, home>> /\ ~installed[job[c].hook]
    BY <1>0, <1>7 DEF Restore, RestoresInv
  <2>. QED  BY <1>0, <1>7, <2>1, TakenOffStack DEF StacksInv
<1>8. ASSUME NEW h \in Hooks, Drop(h) PROVE StacksInv'
  BY <1>1, <1>8 DEF Drop, history
<1>. QED  BY <1>2, <1>3, <1>4, <1>5, <1>6, <1>7, <1>8 DEF InstallerMoves

LEMMA AsideKeepsCalls ==
  ASSUME InstallersTyped, Aside, NEW d \in Contexts, pc'[d] \in {"replace", "restore"}
  PROVE  pc'[d] = pc[d] /\ job'[d] = job[d]
<1>1. CASE UNCHANGED <<pc, job>>
  BY <1>1
<1>2. ASSUME NEW c \in Contexts, NEW to \in Places \ {"replace", "restore"}, NEW j, Goto(c, to, j)
      PROVE  pc'[d] = pc[d] /\ job'[d] = job[d]
  <2>1. d # c
    BY <1>2 DEF Goto, InstallersTyped
  <2>. QED  BY <1>2, <2>1 DEF Goto, InstallersTyped
<1>. QED  BY <1>1, <1>2 DEF Aside

\* A call of Goto changes its context only.
LEMMA OthersStay ==
  ASSUME InstallersTyped, NEW c \in Contexts, NEW to, NEW j, Goto(c, to, j)
  PROVE  /\ pc'[c] = to /\ job'[c] = j
         /\ \A d \in Contexts \ {c} : pc'[d] = pc[d] /\ job'[d] = job[d]
BY DEF Goto, InstallersTyped

LEMMA RestoresKept ==
  ASSUME RestoresInv,
         \A d \in Contexts : pc'[d] = "restore" =>
           /\ pc[d] = "restore" /\ job'[d].hook = job[d].hook
           /\ home'[job[d].hook] = home[job[d].hook]
           /\ job[d].hook \in Range(stack'[home[job[d].hook]])
           /\ installed'[job[d].hook] = installed[job[d].hook]
  PROVE  RestoresInv'
BY DEF RestoresInv, Stacked

LEMMA RestoresStep == ASSUME InstallersInv, InstallerMoves PROVE RestoresInv'
<1>0. InstallersTyped /\ StacksInv /\ RestoresInv
  BY DEF InstallersInv
<1>1. \A d \in Contexts : pc[d] = "restore" =>
        /\ job[d].hook \in Hooks /\ home[job[d].hook] \in Slots
        /\ job[d].hook \in Range(stack[home[job[d].hook]])
        /\ Stacked(job[d].hook, home[job[d].hook])
  BY <1>0 DEF InstallersTyped, RestoresInv, Stacked
<1>2. CASE Aside
  BY <1>0, <1>1, <1>2, AsideKeepsCalls, RestoresKept DEF Aside, hooks, history
<1>3. ASSUME NEW h \in Hooks, NEW s \in Slots, NEW top, PutInForce(h, s, top),
             \A r \in Slots : ~Stacked(h, r),
             \A d \in Contexts : pc'[d] = "restore" => pc[d] = "restore" /\ job'[d] = job[d]
      PROVE  RestoresInv'
  <2>1. /\ \A r \in Slots, x \in Hooks : Stacked(x, r)' <=> Stacked(x, r) \/ (x = h /\ r = s)
        /\ \A x \in Hooks : home'[x] = IF x = h THEN s ELSE home[x]
        /\ \A x \in Hooks : installed'[x] = IF x = h THEN TRUE ELSE installed[x]
    BY <1>0, <1>3, PutOnStack
  <2>2. \A r \in Slots, x \in Hooks : Stacked(x, r) => x \in Range(stack'[r])
    BY <2>1 DEF Stacked
  <2>3. ASSUME NEW d \in Contexts, pc'[d] = "restore"
        PROVE  /\ pc[d] = "restore" /\ job'[d].hook = job[d].hook
               /\ home'[job[d].hook] = home[job[d].hook]
               /\ job[d].hook \in Range(stack'[home[job[d].hook]])
               /\ installed'[job[d].hook] = installed[job[d].hook]
    <3>1. pc[d] = "restore" /\ job'[d].hook = job[d].hook /\ job[d].hook # h
      BY <1>1, <1>3, <2>3
    <3>. QED  BY <1>1, <2>1, <2>2, <3>1
  <2>. QED  BY <1>0, <2>3, RestoresKept
<1>4. ASSUME NEW c \in Contexts, NEW h \in Hooks, Exchange(c, h) PROVE RestoresInv'
  <2>1. UNCHANGED <<pc, job>>
    BY <1>4 DEF Exchange
  <2>. QED  BY <1>3, <1>4, <2>1, ExchangePuts
<1>5. ASSUME NEW c \in Contexts, NEW h \in Hooks, NEW l, Capture(c, h, l) PROVE RestoresInv'
  <2>1. /\ UNCHANGED <<installed, home, stack>>
        /\ Goto(c, "replace", [hook |-> h, top |-> Top(Slot(l, c))])
    BY <1>5 DEF Capture, history
  <2>2. \A d \in Contexts : pc'[d] = "restore" => pc[d] = "restore" /\ job'[d] = job[d]
    BY <1>0, <2>1, OthersStay
  <2>. QED  BY <1>0, <1>1, <2>1, <2>2, RestoresKept
<1>6. ASSUME NEW c \in Contexts, Replace(c) PROVE RestoresInv'
  <2>1. Goto(c, "idle", NoJob)
    BY <1>6 DEF Replace, Return
  <2>2. \A d \in Contexts : pc'[d] = "restore" => pc[d] = "restore" /\ job'[d] = job[d]
    BY <1>0, <2>1, OthersStay
  <2>. QED  BY <1>3, <1>6, <2>2, ReplacePuts
<1>7. ASSUME NEW c \in Contexts, NEW h \in Hooks, Uninstall(c, h) PROVE RestoresInv'
  <2>1. /\ installed[h] /\ installed' = [installed EXCEPT ![h] = FALSE]
        /\ Goto(c, "restore", [hook |-> h])
        /\ UNCHANGED <<home, stack>>
    BY <1>7 DEF Uninstall, history
  <2>2. \A x \in Hooks : installed'[x] = IF x = h THEN FALSE ELSE installed[x]
    BY <1>0, <2>1 DEF InstallersTyped
  <2>3. home[h] \in Slots /\ h \in Range(stack[home[h]])
    BY <1>0, <2>1 DEF StacksInv, Stacked
  <2>4. /\ pc'[c] = "restore" /\ job'[c].hook = h
        /\ \A d \in Contexts \ {c} : pc'[d] = pc[d] /\ job'[d] = job[d]
    BY <1>0, <2>1, OthersStay
  <2>5. \A d \in Contexts : pc[d] = "restore" => job[d].hook # h
    BY <1>0, <2>1 DEF RestoresInv
  <2>6. ASSUME NEW d \in Contexts, pc'[d] = "restore"
        PROVE  /\ home[job'[d].hook] \in Slots
               /\ job'[d].hook \in Range(stack[home[job'[d].hook]])
               /\ ~installed'[job'[d].hook]
               /\ \A e \in Contexts \ {d} : pc'[e] = "restore" => job'[e].hook # job'[d].hook
    <3>1. CASE d = c
      BY <2>2, <2>3, <2>4, <2>5, <3>1
    <3>2. CASE d # c
      <4>1. pc[d] = "restore" /\ job'[d] = job[d] /\ job[d].hook # h
        BY <2>4, <2>5, <2>6, <3>2
      <4>2. ~installed[job[d].hook]
        BY <1>0, <4>1 DEF RestoresInv
      <4>3. \A e \in Contexts \ {d} : pc'[e] = "restore" => job'[e].hook # job[d].hook
        BY <1>0, <2>4, <4>1 DEF RestoresInv
      <4>. QED  BY <1>1, <2>2, <4>1, <4>2, <4>3
    <3>. QED  BY <3>1, <3>2
  <2>. QED  BY <2>1, <2>6 DEF RestoresInv, Stacked
<1>8. ASSUME NEW c \in Contexts, Restore(c) PROVE RestoresInv'
  <2> DEFINE h == job[c].hook
  <2>1. /\ pc[c] = "restore" /\ UNCHANGED <<installed, home>> /\ Goto(c, "idle", NoJob)
    BY <1>8 DEF Restore, Return
  <2>2. \A d \in Contexts : pc'[d] = "restore" =>
          d # c /\ pc[d] = "restore" /\ job'[d] = job[d]
    BY <1>0, <2>1, OthersStay
  <2>3. \A d \in Contexts : pc'[d] = "restore" => job[d].hook # h
    BY <1>0, <2>1, <2>2 DEF RestoresInv
  <2>4. \A r \in Slots, x \in Hooks : Stacked(x, r) /\ x # h => x \in Range(stack'[r])
    BY <1>0, <1>8, TakenOffStack DEF Stacked
  <2> HIDE DEF h
  <2>. QED  BY <1>0, <1>1, <2>1, <2>2, <2>3, <2>4, RestoresKept
<1>9. ASSUME NEW h \in Hooks, Drop(h) PROVE RestoresInv'
  BY <1>0, <1>1, <1>9, RestoresKept DEF Drop, history
<1>. QED  BY <1>2, <1>4, <1>5, <1>6, <1>7, <1>8, <1>9 DEF InstallerMoves

LEMMA ReplacesKept ==
  ASSUME ReplacesInv,
         \A d \in Contexts : pc'[d] = "replace" =>
           /\ pc[d] = "replace" /\ job'[d].hook = job[d].hook
           /\ library'[job[d].hook] = library[job[d].hook]
           /\ \A s \in Slots : job[d].hook \notin Range(stack'[s])
  PROVE  ReplacesInv'
BY DEF ReplacesInv, Stacked

LEMMA ReplacesStep == ASSUME InstallersInv, InstallerMoves PROVE ReplacesInv'
<1>0. InstallersTyped /\ StacksInv /\ RestoresInv /\ ReplacesInv
  BY DEF InstallersInv
<1>1. \A d \in Contexts : pc[d] = "replace" =>
        /\ job[d].hook \in Hooks /\ library[job[d].hook] # None
        /\ \A s \in Slots : job[d].hook \notin Range(stack[s])
        /\ \A s \in Slots : ~Stacked(job[d].hook, s)
  BY <1>0, NoneIsNoHook DEF InstallersTyped, ReplacesInv, Stacked, Libraries
<1>2. CASE Aside
  BY <1>0, <1>1, <1>2, AsideKeepsCalls, ReplacesKept DEF Aside, hooks, history
<1>3. ASSUME NEW h \in Hooks, NEW s \in Slots, NEW top, PutInForce(h, s, top),
             \A r \in Slots : ~Stacked(h, r),
             \A x \in Hooks \ {h} : library'[x] = library[x],
             \A d \in Contexts : pc'[d] = "replace" =>
               pc[d] = "replace" /\ job'[d] = job[d] /\ job[d].hook # h
      PROVE  ReplacesInv'
  <2>1. \A r \in Slots, x \in Hooks : Stacked(x, r)' <=> Stacked(x, r) \/ (x = h /\ r = s)
    BY <1>0, <1>3, PutOnStack
  <2>2. \A r \in Slots, x \in Hooks : x # h /\ ~Stacked(x, r) => x \notin Range(stack'[r])
    BY <2>1 DEF Stacked
  <2>. QED  BY <1>0, <1>1, <1>3, <2>2, ReplacesKept
<1>4. ASSUME NEW c \in Contexts, NEW h \in Hooks, Exchange(c, h) PROVE ReplacesInv'
  <2>1. /\ library[h] = None /\ library' = [library EXCEPT ![h] = NumPy]
        /\ UNCHANGED <<pc, job>>
    BY <1>4 DEF Exchange
  <2>2. \A x \in Hooks \ {h} : library'[x] = library[x]
    BY <1>0, <2>1 DEF InstallersTyped
  <2>. QED  BY <1>1, <1>3, <1>4, <2>1, <2>2, ExchangePuts
<1>5. ASSUME NEW c \in Contexts, NEW h \in Hooks, NEW l, Capture(c, h, l) PROVE ReplacesInv'
  <2>1. /\ library[h] = None /\ l \in Shared /\ library' = [library EXCEPT ![h] = l]
        /\ stack' = stack
        /\ Goto(c, "replace", [hook |-> h, top |-> Top(Slot(l, c))])
    BY <1>5 DEF Capture, history
  <2>2. \A x \in Hooks : library'[x] = IF x = h THEN l ELSE library[x]
    BY <1>0, <2>1 DEF InstallersTyped
  <2>3. /\ pc'[c] = "replace" /\ job'[c].hook = h
        /\ \A d \in Contexts \ {c} : pc'[d] = pc[d] /\ job'[d] = job[d]
    BY <1>0, <2>1, OthersStay
  <2>4. \A s \in Slots : h \notin Range(stack[s])
    BY <1>0, <2>1 DEF StacksInv, Stacked
  <2>5. \A d \in Contexts : pc[d] = "replace" => job[d].hook # h
    BY <1>1, <2>1
  <2>6. ASSUME NEW d \in Contexts, pc'[d] = "replace"
        PROVE  /\ library'[job'[d].hook] \in Shared
               /\ \A s \in Slots : job'[d].hook \notin Range(stack[s])
               /\ \A e \in Contexts \ {d} : pc'[e] = "replace" => job'[e].hook # job'[d].hook
    <3>1. CASE d = c
      BY <2>1, <2>2, <2>3, <2>4, <2>5, <3>1
    <3>2. CASE d # c
      <4>1. pc[d] = "replace" /\ job'[d] = job[d] /\ job[d].hook # h
        BY <2>3, <2>5, <2>6, <3>2
      <4>2. library[job[d].hook] \in Shared
        BY <1>0, <4>1 DEF ReplacesInv
      <4>3. \A e \in Contexts \ {d} : pc'[e] = "replace" => job'[e].hook # job[d].hook
        BY <1>0, <2>3, <4>1 DEF ReplacesInv
      <4>. QED  BY <1>1, <2>2, <4>1, <4>2, <4>3
    <3>. QED  BY <3>1, <3>2
  <2>. QED  BY <2>1, <2>6 DEF ReplacesInv, Stacked
<1>6. ASSUME NEW c \in Contexts, Replace(c) PROVE ReplacesInv'
  <2> DEFINE h == job[c].hook
  <2>1. pc[c] = "replace" /\ Goto(c, "idle", NoJob) /\ library' = library
    BY <1>6 DEF Replace, Return
  <2>2. \A d \in Contexts : pc'[d] = "replace" =>
          d # c /\ pc[d] = "replace" /\ job'[d] = job[d]
    BY <1>0, <2>1, OthersStay
  <2>3. \A d \in Contexts : pc'[d] = "replace" => job[d].hook # h
    BY <1>0, <2>1, <2>2 DEF ReplacesInv
  <2>. QED  BY <1>3, <1>6, <2>1, <2>2, <2>3, ReplacePuts
<1>7. ASSUME NEW c \in Contexts, NEW h \in Hooks, Uninstall(c, h) PROVE ReplacesInv'
  <2>1. Goto(c, "restore", [hook |-> h]) /\ UNCHANGED <<library, stack>>
    BY <1>7 DEF Uninstall, history
  <2>2. \A d \in Contexts : pc'[d] = "replace" => pc[d] = "replace" /\ job'[d] = job[d]
    BY <1>0, <2>1, OthersStay
  <2>. QED  BY <1>0, <1>1, <2>1, <2>2, ReplacesKept
<1>8. ASSUME NEW c \in Contexts, Restore(c) PROVE ReplacesInv'
  <2>1. Goto(c, "idle", NoJob) /\ library' = library
    BY <1>8 DEF Restore, Return
  <2>2. \A d \in Contexts : pc'[d] = "replace" => pc[d] = "replace" /\ job'[d] = job[d]
    BY <1>0, <2>1, OthersStay
  <2>3. \A r \in Slots, x \in Hooks : ~Stacked(x, r) => x \notin Range(stack'[r])
    BY <1>0, <1>8, TakenOffStack DEF Stacked
  <2>. QED  BY <1>0, <1>1, <2>1, <2>2, <2>3, ReplacesKept
<1>9. ASSUME NEW h \in Hooks, Drop(h) PROVE ReplacesInv'
  BY <1>0, <1>1, <1>9, ReplacesKept DEF Drop, history
<1>. QED  BY <1>2, <1>4, <1>5, <1>6, <1>7, <1>8, <1>9 DEF InstallerMoves

LEMMA InstallersAlways == Spec => []InstallersInv
<1>1. InstallersInv /\ [Next]_vars => InstallersInv'
  BY StepsOfInstallers, TypedStep, StacksStep, RestoresStep, ReplacesStep DEF InstallersInv
<1>. QED  BY InstallersInit, <1>1, PTL DEF Spec

\* Installer.uninstall: however calls of all contexts fall together, a hook that is
\* about to be restored never was, and nobody else is about to restore it.
THEOREM RestoresHappenOnce == Spec => []RestoredOnce
<1>1. InstallersInv => RestoredOnce
  BY DEF InstallersInv, RestoresInv, RestoredOnce, Stacked
<1>. QED  BY InstallersAlways, <1>1, PTL
-------------------------------------------------------------------------------
(***************************************************************************)
(* The last hook in is in force                                            *)
(***************************************************************************)
LEMMA Tops ==
  ASSUME InstallersTyped, NEW s \in Slots
  PROVE  /\ Len(stack[s]) \in Nat
         /\ Len(stack[s]) = 0 => Top(s) = Original
         /\ Len(stack[s]) # 0 => Top(s) = stack[s][Len(stack[s])]
<1>1. stack[s] \in Seq(Hooks)
  BY DEF InstallersTyped
<1>2. Len(stack[s]) \in Nat /\ (stack[s] = <<>> <=> Len(stack[s]) = 0)
  BY <1>1, EmptySeq
<1>. QED  BY <1>2 DEF Top, Last

\* The same of the next state.
LEMMA TopsNext ==
  ASSUME stack' \in [Slots -> Seq(Hooks)], NEW s \in Slots
  PROVE  /\ Len(stack'[s]) \in Nat
         /\ Len(stack'[s]) = 0 => Top(s)' = Original
         /\ Len(stack'[s]) # 0 => Top(s)' = stack'[s][Len(stack'[s])]
<1>1. stack'[s] \in Seq(Hooks)
  OBVIOUS
<1>2. Len(stack'[s]) \in Nat /\ (stack'[s] = <<>> <=> Len(stack'[s]) = 0)
  BY <1>1, EmptySeq
<1>. QED  BY <1>2 DEF Top, Last

LEMMA OnStack ==
  ASSUME InstallersTyped, NEW s \in Slots, NEW i \in 1..Len(stack[s])
  PROVE  stack[s][i] \in Hooks /\ Stacked(stack[s][i], s)
<1>1. stack[s] \in Seq(Hooks)
  BY DEF InstallersTyped
<1>. QED  BY <1>1, ElementOfSeq, RangeIs DEF Stacked

LEMMA PutInOrder ==
  ASSUME InstallersInv, LastInForce, ChainsInv,
         NEW h \in Hooks, NEW s \in Slots, NEW top, PutInForce(h, s, top),
         \A r \in Slots : ~Stacked(h, r),
         \A x \in Hooks \ {h} : previous'[x] = previous[x],
         s \notin tangled /\ top = Top(s) => previous'[h] = Top(s)
  PROVE  LastInForce' /\ ChainsInv'
<1>0. InstallersTyped /\ StacksInv
  BY DEF InstallersInv
<1>1. /\ inForce' = [inForce EXCEPT ![s] = h]
      /\ stack' = [stack EXCEPT ![s] = Append(@, h)]
      /\ tangled' = IF top = Top(s) THEN tangled ELSE tangled \cup {s}
  BY DEF PutInForce
<1>2. /\ \A r \in Slots : inForce'[r] = IF r = s THEN h ELSE inForce[r]
      /\ \A r \in Slots : r # s => stack'[r] = stack[r]
      /\ stack'[s] = Append(stack[s], h)
  BY <1>0, <1>1 DEF InstallersTyped
<1>3. /\ Len(stack[s]) \in Nat /\ Len(stack'[s]) = Len(stack[s]) + 1
      /\ \A i \in 1..Len(stack[s]) : stack'[s][i] = stack[s][i]
      /\ stack'[s][Len(stack[s]) + 1] = h
  <2>1. stack[s] \in Seq(Hooks) /\ Distinct(stack[s]) /\ h \notin Range(stack[s])
    BY <1>0 DEF InstallersTyped, StacksInv, Stacked
  <2>. QED  BY <1>2, <2>1, StackGrows, LenProperties
<1>4. stack' \in [Slots -> Seq(Hooks)]
  BY <1>0, PutOnStack
<1>5. Top(s)' = h
  BY <1>3, <1>4, TopsNext
<1>6. \A r \in Slots : r # s => Top(r)' = Top(r)
  BY <1>2 DEF Top
<1>7. LastInForce'
  <2>1. ASSUME NEW r \in Slots, r \notin tangled' PROVE inForce'[r] = Top(r)'
    BY <1>1, <1>2, <1>5, <1>6, <2>1 DEF LastInForce
  <2>. QED  BY <2>1 DEF LastInForce
<1>8. ChainsInv'
  <2>1. ASSUME NEW r \in Slots, r \notin tangled', NEW i \in 1..Len(stack'[r])
        PROVE  previous'[stack'[r][i]] = IF i = 1 THEN Original ELSE stack'[r][i - 1]
    <3>0. r \notin tangled /\ (r = s => top = Top(s))
      BY <1>1, <2>1
    <3>1. ASSUME i \in 1..Len(stack[r])
          PROVE  previous'[stack[r][i]] = IF i = 1 THEN Original ELSE stack[r][i - 1]
      <4>1. stack[r][i] \in Hooks \ {h}
        BY <1>0, <3>1, OnStack
      <4>2. previous[stack[r][i]] = IF i = 1 THEN Original ELSE stack[r][i - 1]
        BY <3>0, <3>1 DEF ChainsInv
      <4>. QED  BY <4>1, <4>2
    <3>2. CASE r # s
      BY <1>2, <2>1, <3>1, <3>2
    <3>3. CASE r = s /\ i \in 1..Len(stack[s])
      <4>1. stack'[r][i] = stack[s][i] /\ (i # 1 => stack'[r][i - 1] = stack[s][i - 1])
        BY <1>3, <3>3
      <4>. QED  BY <3>1, <3>3, <4>1
    <3>4. CASE r = s /\ i = Len(stack[s]) + 1
      <4>1. stack'[r][i] = h /\ previous'[h] = Top(s)
        BY <1>3, <3>0, <3>4
      <4>2. CASE i = 1
        BY <1>0, <1>3, <3>4, <4>1, <4>2, Tops
      <4>3. CASE i # 1
        <5>1. Len(stack[s]) # 0 /\ i - 1 = Len(stack[s]) /\ i - 1 \in 1..Len(stack[s])
          BY <1>3, <3>4, <4>3
        <5>. QED  BY <1>0, <1>3, <3>4, <4>1, <4>3, <5>1, Tops
      <4>. QED  BY <4>2, <4>3
    <3>. QED  BY <1>3, <2>1, <3>2, <3>3, <3>4
  <2>. QED  BY <2>1 DEF ChainsInv
<1>. QED  BY <1>7, <1>8

LEMMA RestoreInOrder ==
  ASSUME InstallersInv, LastInForce, ChainsInv, NEW c \in Contexts, Restore(c)
  PROVE  LastInForce' /\ ChainsInv'
<1> DEFINE h == job[c].hook
           s == Slot(library[h], c)
<1>0. InstallersTyped /\ StacksInv /\ RestoresInv
  BY DEF InstallersInv
<1>1. /\ pc[c] = "restore"
      /\ inForce' = [inForce EXCEPT ![s] = previous[h]]
      /\ tangled' = IF Top(s) = h THEN tangled ELSE tangled \cup {s, home[h]}
      /\ previous' = previous
  BY DEF Restore
<1>2. h \in Hooks /\ home[h] \in Slots /\ Stacked(h, home[h])
  BY <1>0, <1>1 DEF RestoresInv, InstallersTyped
<1>3. s \in Slots
  <2>1. library[h] \in Libraries
    BY <1>0, <1>2 DEF StacksInv, InstallersTyped
  <2>. QED  BY <2>1, SlotsOfLibraries
<1>4. /\ stack' \in [Slots -> Seq(Hooks)]
      /\ \A r \in Slots : stack'[r] = IF r = home[h] THEN Unstacked(stack[r], h) ELSE stack[r]
  BY <1>0, TakenOffStack
<1> HIDE DEF h, s
<1>5. \A r \in Slots : inForce'[r] = IF r = s THEN previous[h] ELSE inForce[r]
  BY <1>0, <1>1 DEF InstallersTyped
\* An untangled slot is not touched, or its last hook is the one that goes.
<1>6. ASSUME NEW r \in Slots, r \notin tangled', r = s \/ r = home[h]
      PROVE  r = s /\ s = home[h] /\ Top(s) = h
  <2>1. Top(s) = h /\ r \notin tangled
    BY <1>1, <1>6
  <2>2. Len(stack[s]) \in Nat /\ Len(stack[s]) # 0 /\ stack[s][Len(stack[s])] = h
    BY <1>0, <1>2, <1>3, <2>1, Tops, NoneIsNoHook
  <2>3. Len(stack[s]) \in 1..Len(stack[s])
    BY <2>2
  <2>4. Stacked(h, s)
    BY <1>0, <1>3, <2>2, <2>3, OnStack
  <2>5. home[h] = s
    BY <1>0, <1>2, <1>3, <2>4 DEF StacksInv
  <2>. QED  BY <1>6, <2>1, <2>5
<1>7. ASSUME s = home[h], Top(s) = h
      PROVE  /\ Len(stack[s]) \in Nat \ {0}
             /\ Len(stack'[s]) = Len(stack[s]) - 1
             /\ stack[s][Len(stack[s])] = h
             /\ \A i \in 1..(Len(stack[s]) - 1) : stack'[s][i] = stack[s][i]
  <2>1. stack[s] \in Seq(Hooks) /\ Distinct(stack[s]) /\ h \in Range(stack[s])
    BY <1>0, <1>2, <1>3, <1>7 DEF InstallersTyped, StacksInv, Stacked
  <2>2. /\ Len(stack[s]) \in Nat \ {0}
        /\ Len(Unstacked(stack[s], h)) = Len(stack[s]) - 1
        /\ stack[s][Len(stack[s])] = h =>
             \A i \in 1..(Len(stack[s]) - 1) : Unstacked(stack[s], h)[i] = stack[s][i]
    BY <2>1, StackShrinks
  <2>3. stack[s][Len(stack[s])] = h
    BY <1>0, <1>3, <1>7, <2>2, Tops
  <2>4. stack'[s] = Unstacked(stack[s], h)
    BY <1>3, <1>4, <1>7
  <2>. QED  BY <2>2, <2>3, <2>4
<1>8. \A r \in Slots \ tangled' : r \notin tangled
  BY <1>1
<1>9. \A r \in Slots : r # home[h] => stack'[r] = stack[r] /\ Top(r)' = Top(r)
  BY <1>4 DEF Top
<1>10. LastInForce'
  <2>1. ASSUME NEW r \in Slots, r \notin tangled' PROVE inForce'[r] = Top(r)'
    <3>1. CASE r # s /\ r # home[h]
      BY <1>5, <1>8, <1>9, <2>1, <3>1 DEF LastInForce
    <3>2. CASE r = s \/ r = home[h]
      <4>1. r = s /\ s = home[h] /\ Top(s) = h
        BY <1>6, <2>1, <3>2
      <4>2. /\ Len(stack[s]) \in Nat \ {0} /\ Len(stack'[s]) = Len(stack[s]) - 1
            /\ stack[s][Len(stack[s])] = h
            /\ \A i \in 1..(Len(stack[s]) - 1) : stack'[s][i] = stack[s][i]
        BY <1>7, <4>1
      <4>3. Len(stack[s]) \in 1..Len(stack[s])
        BY <4>2
      <4>4. previous[h] = IF Len(stack[s]) = 1 THEN Original ELSE stack[s][Len(stack[s]) - 1]
        <5>1. s \in Slots \ tangled
          BY <1>3, <1>8, <2>1, <4>1
        <5>2. previous[stack[s][Len(stack[s])]] =
                IF Len(stack[s]) = 1 THEN Original ELSE stack[s][Len(stack[s]) - 1]
          BY <4>3, <5>1, Zenon DEF ChainsInv
        <5>. QED  BY <4>2, <5>2
      <4>5. CASE Len(stack[s]) = 1
        <5>1. Len(stack'[s]) = 0
          BY <4>2, <4>5
        <5>. QED  BY <1>3, <1>4, <1>5, <4>1, <4>4, <4>5, <5>1, TopsNext
      <4>6. CASE Len(stack[s]) # 1
        <5>0. \A n \in Nat \ {0} : n # 1 => n - 1 # 0 /\ n - 1 \in 1..(n - 1)
          OBVIOUS
        <5>1. Len(stack'[s]) # 0 /\ Len(stack[s]) - 1 \in 1..(Len(stack[s]) - 1)
          BY <4>2, <4>6, <5>0, Zenon
        <5>2. stack'[s][Len(stack'[s])] = stack[s][Len(stack[s]) - 1]
          BY <4>2, <5>1
        <5>. QED  BY <1>3, <1>4, <1>5, <4>1, <4>4, <4>6, <5>1, <5>2, TopsNext
      <4>. QED  BY <4>5, <4>6
    <3>. QED  BY <3>1, <3>2
  <2>. QED  BY <2>1 DEF LastInForce
<1>11. ChainsInv'
  <2>1. ASSUME NEW r \in Slots, r \notin tangled', NEW i \in 1..Len(stack'[r])
        PROVE  previous'[stack'[r][i]] = IF i = 1 THEN Original ELSE stack'[r][i - 1]
    <3>1. CASE r # home[h]
      BY <1>1, <1>8, <1>9, <2>1, <3>1 DEF ChainsInv
    <3>2. CASE r = home[h]
      <4>1. r = s /\ s = home[h] /\ Top(s) = h
        BY <1>6, <2>1, <3>2
      <4>2. /\ Len(stack[s]) \in Nat \ {0} /\ Len(stack'[s]) = Len(stack[s]) - 1
            /\ \A k \in 1..(Len(stack[s]) - 1) : stack'[s][k] = stack[s][k]
        BY <1>7, <4>1
      <4>3. /\ i \in 1..Len(stack[r]) /\ stack'[r][i] = stack[r][i]
            /\ (i # 1 => stack'[r][i - 1] = stack[r][i - 1])
        BY <2>1, <4>1, <4>2
      <4>. QED  BY <1>1, <1>8, <2>1, <4>3 DEF ChainsInv
    <3>. QED  BY <3>1, <3>2
  <2>. QED  BY <2>1 DEF ChainsInv
<1>. QED  BY <1>10, <1>11

LEMMA CapturesKept ==
  ASSUME CapturesInv, tangled \subseteq tangled',
         \A d \in Contexts : pc'[d] = "replace" =>
           /\ pc[d] = "replace" /\ job'[d] = job[d]
           /\ library'[job[d].hook] = library[job[d].hook]
           /\ previous'[job[d].hook] = previous[job[d].hook]
  PROVE  CapturesInv'
BY DEF CapturesInv, Slot

LEMMA ForceInit == Init => ForceInv
<1>1. SUFFICES ASSUME InitInstallers PROVE ForceInv
  BY DEF Init
<1>2. \A s \in Slots : stack[s] = <<>> /\ inForce[s] = Original
  BY <1>1 DEF InitInstallers
<1>3. LastInForce
  BY <1>2 DEF LastInForce, Top
<1>4. ChainsInv
  <2>1. Len(<<>>) = 0
    OBVIOUS
  <2>. QED  BY <1>2, <2>1 DEF ChainsInv
<1>5. CapturesInv
  BY <1>1 DEF InitInstallers, CapturesInv
<1>. QED  BY <1>3, <1>4, <1>5 DEF ForceInv

LEMMA ForceStep == ASSUME InstallersInv, ForceInv, InstallerMoves PROVE ForceInv'
<1>0. /\ InstallersTyped /\ StacksInv /\ ReplacesInv
      /\ LastInForce /\ ChainsInv /\ CapturesInv
  BY DEF InstallersInv, ForceInv
<1>1. \A d \in Contexts : pc[d] = "replace" => job[d].hook \in Hooks /\ library[job[d].hook] # None
  BY <1>0, NoneIsNoHook DEF InstallersTyped, ReplacesInv, Libraries
<1>2. ASSUME UNCHANGED <<inForce, stack, tangled>>,
             \A x \in Hooks : library[x] # None => previous'[x] = previous[x]
      PROVE  LastInForce' /\ ChainsInv'
  <2>1. LastInForce'
    BY <1>0, <1>2 DEF LastInForce, Top
  <2>2. \A s \in Slots : \A i \in 1..Len(stack[s]) :
          stack[s][i] \in Hooks /\ library[stack[s][i]] # None
    BY <1>0, OnStack DEF StacksInv
  <2>3. ChainsInv'
    BY <1>0, <1>2, <2>2 DEF ChainsInv
  <2>. QED  BY <2>1, <2>3
<1>3. CASE Aside
  <2>1. UNCHANGED <<inForce, library, previous, stack, tangled>>
    BY <1>3 DEF Aside, hooks, history
  <2>2. CapturesInv'
    BY <1>0, <1>3, <2>1, AsideKeepsCalls, CapturesKept
  <2>. QED  BY <1>2, <2>1, <2>2 DEF ForceInv
<1>4. ASSUME NEW c \in Contexts, NEW h \in Hooks, Exchange(c, h) PROVE ForceInv'
  <2>1. /\ library[h] = None /\ UNCHANGED <<pc, job>>
        /\ library' = [library EXCEPT ![h] = NumPy]
        /\ previous' = [previous EXCEPT ![h] = inForce[Slot(NumPy, c)]]
        /\ tangled \subseteq tangled'
    BY <1>4 DEF Exchange, PutInForce
  <2>2. /\ \A x \in Hooks \ {h} : previous'[x] = previous[x] /\ library'[x] = library[x]
        /\ previous'[h] = inForce[Slot(NumPy, c)]
    BY <1>0, <2>1 DEF InstallersTyped
  <2>3. /\ Slot(NumPy, c) \in Slots
        /\ PutInForce(h, Slot(NumPy, c), Top(Slot(NumPy, c)))
        /\ \A r \in Slots : ~Stacked(h, r)
    BY <1>4, ExchangePuts
  <2>4. Slot(NumPy, c) \notin tangled => previous'[h] = Top(Slot(NumPy, c))
    BY <1>0, <2>2, <2>3 DEF LastInForce
  <2>5. LastInForce' /\ ChainsInv'
    BY <1>0, <2>2, <2>3, <2>4, PutInOrder
  <2>6. CapturesInv'
    BY <1>0, <1>1, <2>1, <2>2, CapturesKept
  <2>. QED  BY <2>5, <2>6 DEF ForceInv
<1>5. ASSUME NEW c \in Contexts, NEW h \in Hooks, NEW l, Capture(c, h, l) PROVE ForceInv'
  <2>1. /\ library[h] = None /\ l \in Shared
        /\ library' = [library EXCEPT ![h] = l]
        /\ previous' = [previous EXCEPT ![h] = inForce[Slot(l, c)]]
        /\ Goto(c, "replace", [hook |-> h, top |-> Top(Slot(l, c))])
        /\ UNCHANGED <<inForce, stack, tangled>>
    BY <1>5 DEF Capture, history
  <2>2. /\ \A x \in Hooks \ {h} : previous'[x] = previous[x] /\ library'[x] = library[x]
        /\ previous'[h] = inForce[Slot(l, c)] /\ library'[h] = l
    BY <1>0, <2>1 DEF InstallersTyped
  <2>3. Slot(l, c) \in Slots
    BY <2>1, SlotsOfLibraries DEF Libraries
  <2>4. LastInForce' /\ ChainsInv'
    BY <1>2, <2>1, <2>2
  <2>5. /\ pc'[c] = "replace" /\ job'[c].hook = h /\ job'[c].top = Top(Slot(l, c))
        /\ \A d \in Contexts \ {c} : pc'[d] = pc[d] /\ job'[d] = job[d]
    BY <1>0, <2>1, OthersStay
  <2>6. ASSUME NEW d \in Contexts, pc'[d] = "replace",
               Slot(library'[job'[d].hook], d) \notin tangled
        PROVE  previous'[job'[d].hook] = job'[d].top
    <3>1. CASE d = c
      BY <1>0, <2>2, <2>3, <2>5, <2>6, <3>1 DEF LastInForce
    <3>2. CASE d # c
      <4>1. /\ pc[d] = "replace" /\ job'[d] = job[d] /\ job[d].hook \in Hooks \ {h}
        BY <1>1, <2>1, <2>5, <2>6, <3>2
      <4>. QED  BY <1>0, <2>2, <2>6, <4>1 DEF CapturesInv
    <3>. QED  BY <3>1, <3>2
  <2>7. CapturesInv'
    BY <2>1, <2>6 DEF CapturesInv, Slot
  <2>. QED  BY <2>4, <2>7 DEF ForceInv
<1>6. ASSUME NEW c \in Contexts, Replace(c) PROVE ForceInv'
  <2> DEFINE h == job[c].hook
             s == Slot(library[h], c)
  <2>1. /\ pc[c] = "replace" /\ Goto(c, "idle", NoJob) /\ UNCHANGED <<library, previous>>
        /\ tangled \subseteq tangled'
    BY <1>6 DEF Replace, Return, PutInForce
  <2>2. \A d \in Contexts : pc'[d] = "replace" => pc[d] = "replace" /\ job'[d] = job[d]
    BY <1>0, <2>1, OthersStay
  <2>3. s \notin tangled => previous[h] = job[c].top
    BY <1>0, <2>1 DEF CapturesInv
  <2>4. /\ h \in Hooks /\ s \in Slots /\ PutInForce(h, s, job[c].top)
        /\ \A r \in Slots : ~Stacked(h, r)
    BY <1>6, ReplacePuts
  <2>5. LastInForce' /\ ChainsInv'
    <3> HIDE DEF h, s
    <3>. QED  BY <1>0, <2>1, <2>3, <2>4, PutInOrder
  <2>6. CapturesInv'
    BY <1>0, <2>1, <2>2, CapturesKept
  <2>. QED  BY <2>5, <2>6 DEF ForceInv
<1>7. ASSUME NEW c \in Contexts, NEW h \in Hooks, Uninstall(c, h) PROVE ForceInv'
  <2>1. /\ Goto(c, "restore", [hook |-> h])
        /\ UNCHANGED <<inForce, library, previous, stack, tangled>>
    BY <1>7 DEF Uninstall, history
  <2>2. \A d \in Contexts : pc'[d] = "replace" => pc[d] = "replace" /\ job'[d] = job[d]
    BY <1>0, <2>1, OthersStay
  <2>. QED  BY <1>0, <1>2, <2>1, <2>2, CapturesKept DEF ForceInv
<1>8. ASSUME NEW c \in Contexts, Restore(c) PROVE ForceInv'
  <2>1. Goto(c, "idle", NoJob) /\ UNCHANGED <<library, previous>> /\ tangled \subseteq tangled'
    BY <1>8 DEF Restore, Return
  <2>2. \A d \in Contexts : pc'[d] = "replace" => pc[d] = "replace" /\ job'[d] = job[d]
    BY <1>0, <2>1, OthersStay
  <2>3. CapturesInv'
    BY <1>0, <2>1, <2>2, CapturesKept
  <2>. QED  BY <1>0, <1>8, <2>3, RestoreInOrder DEF ForceInv
<1>9. ASSUME NEW h \in Hooks, Drop(h) PROVE ForceInv'
  <2>1. UNCHANGED <<inForce, library, previous, stack, tangled, pc, job>>
    BY <1>9 DEF Drop, history
  <2>. QED  BY <1>0, <1>2, <2>1, CapturesKept DEF ForceInv
<1>. QED  BY <1>3, <1>4, <1>5, <1>6, <1>7, <1>8, <1>9 DEF InstallerMoves

\* Installer: in every slot whose hooks are put in and restored in order, the hook in
\* force is the last one that was put there and not restored, whatever happens in other
\* slots.
THEOREM RestoresUndo == Spec => []LastInForce
<1>1. InstallersInv /\ ForceInv /\ [Next]_vars => ForceInv'
  BY StepsOfInstallers, ForceStep
<1>2. ForceInv => LastInForce
  BY DEF ForceInv
<1>. QED  BY InstallersAlways, ForceInit, <1>1, <1>2, PTL DEF Spec
-------------------------------------------------------------------------------
(***************************************************************************)
(* The steps of a behaviour, as the NumPy handlers see them                *)
(***************************************************************************)
\* The calls of hooks stay where they are.
CallsStay ==
  \A d \in Contexts :
    pc[d] \in CallPlaces \/ pc'[d] \in CallPlaces => pc'[d] = pc[d] /\ job'[d] = job[d]

\* Steps in which nothing happens to the memory of a handler.
Quiet ==
  /\ UNCHANGED <<sizes, heap, arrays, lost, refused>>
  /\ CallsStay
  /\ \A h \in captured' : h \in captured \/ \E c \in Contexts : h = inForce[Slot(NumPy, c)]
  /\ live \subseteq live'
  /\ \A h \in live' : h \in live \/ (h \in Hooks /\ library'[h] = NumPy)
  /\ \A h \in Hooks : library[h] = None /\ library'[h] = NumPy => h \in live'

HandlerMoves ==
  \/ Quiet
  \/ \E h \in Hooks : CapsuleDies(h)
  \/ \E c \in Contexts : HandlerStep(c)

LEMMA NoCall ==
  ASSUME InstallersTyped, NEW c \in Contexts, NEW to, NEW j, Goto(c, to, j),
         pc[c] \notin CallPlaces, to \notin CallPlaces
  PROVE  CallsStay
BY OthersStay DEF CallsStay

LEMMA PopIsNoCall ==
  ASSUME InstallersTyped, NEW c \in Contexts, NEW s, pc[c] = "idle", Pop(c, s)
  PROVE  CallsStay
<1>1. pc[c] \notin CallPlaces /\ "free" \notin CallPlaces
  BY DEF CallPlaces
<1>2. CASE UNCHANGED <<pc, job>>
  BY <1>2 DEF CallsStay
<1>3. ASSUME NEW j, Goto(c, "free", j) PROVE CallsStay
  BY <1>1, <1>3, NoCall
<1>. QED  BY <1>2, <1>3 DEF Pop

LEMMA DevicesCallNobody ==
  ASSUME InstallersTyped, NEW c \in Contexts, DeviceStep(c)
  PROVE  CallsStay
<1>0. {"idle", "enter", "free"} \cap CallPlaces = {}
  BY DEF CallPlaces
<1>1. ASSUME NEW p, Memalloc(c, p) PROVE CallsStay
  BY <1>0, <1>1, NoCall DEF Memalloc
<1>2. ASSUME NEW p, Finalize(c, p) PROVE CallsStay
  BY <1>2, PopIsNoCall DEF Finalize
<1>3. ASSUME NEW p, Stray(c, p) PROVE CallsStay
  BY <1>3, PopIsNoCall DEF Stray
<1>4. ASSUME Enter(c) PROVE CallsStay
  BY <1>0, <1>4, NoCall DEF Enter, Return
<1>5. ASSUME ResetContext(c) PROVE CallsStay
  BY <1>5, PopIsNoCall DEF ResetContext
<1>6. ASSUME FreeBuffer(c) PROVE CallsStay
  <2>1. \E to \in {"idle", "free"} : \E j : Goto(c, to, j)
    BY <1>6 DEF FreeBuffer, Return
  <2>. QED  BY <1>0, <1>6, <2>1, NoCall DEF FreeBuffer
<1>. QED  BY <1>1, <1>2, <1>3, <1>4, <1>5, <1>6 DEF DeviceStep

\* What a step that leaves `memory` alone has to show.
LEMMA QuietIf ==
  ASSUME UNCHANGED memory, CallsStay,
         \A h \in Hooks : library[h] = None /\ library'[h] = NumPy => h \in live
  PROVE  Quiet
BY DEF Quiet, memory

LEMMA StepsOfHandlers == ASSUME InstallersInv, [Next]_vars PROVE HandlerMoves
<1>0. /\ InstallersTyped
      /\ {"idle", "replace", "restore"} \cap CallPlaces = {}
      /\ NumPy # None
  BY NoneIsNoHook DEF InstallersInv, CallPlaces, Libraries
<1>1. CASE UNCHANGED vars
  <2>1. CallsStay
    BY <1>1 DEF vars, CallsStay
  <2>. QED  BY <1>0, <1>1, <2>1, QuietIf DEF vars, hooks, HandlerMoves
<1>2. CASE NumPyStep
  <2>1. ASSUME NEW c \in Contexts, NEW h \in Hooks, InstallNumPy(c, h) PROVE Quiet
    <3>1. /\ library' = [library EXCEPT ![h] = NumPy] /\ UNCHANGED <<pc, job>>
          /\ live' = live \cup {h} /\ UNCHANGED <<captured, sizes, heap, arrays, lost, refused>>
      BY <2>1 DEF InstallNumPy, Exchange
    <3>2. library'[h] = NumPy /\ \A g \in Hooks \ {h} : library'[g] = library[g]
      BY <1>0, <3>1 DEF InstallersTyped
    <3>. QED  BY <1>0, <3>1, <3>2 DEF Quiet, CallsStay
  <2>2. ASSUME NEW c \in Contexts, CaptureHandler(c) PROVE Quiet
    BY <1>0, <2>2 DEF CaptureHandler, Quiet, CallsStay, hooks
  <2>3. ASSUME NEW h \in Hooks, DropCaptured(h) PROVE Quiet
    BY <1>0, <2>3 DEF DropCaptured, Quiet, CallsStay, hooks
  <2>. QED  BY <1>2, <2>1, <2>2, <2>3 DEF NumPyStep, HandlerMoves
<1>3. ASSUME NEW c \in Contexts, NEW h \in Hooks, NEW l, Capture(c, h, l), UNCHANGED memory
      PROVE  Quiet
  <2>1. /\ pc[c] = "idle" /\ l \in Shared /\ library' = [library EXCEPT ![h] = l]
        /\ Goto(c, "replace", [hook |-> h, top |-> Top(Slot(l, c))])
    BY <1>3 DEF Capture
  <2>2. l # NumPy
    BY <2>1, InstallersAssumption
  <2>3. \A g \in Hooks : library[g] = None => library'[g] # NumPy
    BY <1>0, <2>1, <2>2 DEF InstallersTyped
  <2>4. CallsStay
    BY <1>0, <2>1, NoCall
  <2>. QED  BY <1>3, <2>3, <2>4, QuietIf
<1>4. CASE DeviceLibraryStep
  <2>1. ASSUME NEW c \in Contexts, NEW h \in Hooks, NEW l, NEW links, InstallDevice(c, h, l, links)
        PROVE  Quiet
    BY <1>3, <1>4, <2>1 DEF InstallDevice, DeviceLibraryStep
  <2>2. ASSUME NEW c \in Contexts, NEW h \in Hooks, InstallNumba(c, h) PROVE Quiet
    BY <1>3, <1>4, <2>2 DEF InstallNumba, DeviceLibraryStep
  <2>3. ASSUME NEW c \in Contexts, DeviceStep(c) PROVE Quiet
    <3>1. library' = library
      BY <2>3, DevicesAside DEF Aside, hooks
    <3>. QED  BY <1>0, <1>4, <2>3, <3>1, DevicesCallNobody, QuietIf DEF DeviceLibraryStep
  <2>. QED  BY <1>4, <2>1, <2>2, <2>3 DEF DeviceLibraryStep, HandlerMoves
<1>5. CASE DeviceProgramStep
  <2>1. UNCHANGED <<library, pc, job, memory>>
    BY <1>5 DEF DeviceProgramStep, CreateContext, SetCurrent, hooks
  <2>. QED  BY <1>0, <2>1, QuietIf DEF CallsStay, HandlerMoves
<1>6. CASE InstallerStep
  <2>1. ASSUME NEW c \in Contexts, Replace(c), UNCHANGED memory PROVE Quiet
    BY <1>0, <2>1, NoCall, QuietIf DEF Replace, Return
  <2>2. ASSUME NEW c \in Contexts, NEW h \in Hooks, Uninstall(c, h), UNCHANGED memory
        PROVE  Quiet
    BY <1>0, <2>2, NoCall, QuietIf DEF Uninstall
  <2>3. ASSUME NEW h \in Hooks, Drop(h), UNCHANGED memory PROVE Quiet
    BY <1>0, <2>3, QuietIf DEF Drop, CallsStay
  <2>4. ASSUME NEW c \in Contexts, EndUninstall(c) PROVE Quiet
    BY <1>0, <2>4, NoCall, QuietIf DEF EndUninstall, Restore, Return
  <2>. QED  BY <1>6, <2>1, <2>2, <2>3, <2>4 DEF InstallerStep, HandlerMoves
<1>. QED  BY <1>1, <1>2, <1>4, <1>5, <1>6 DEF Next
-------------------------------------------------------------------------------
(***************************************************************************)
(* The calls of the handlers, and the handlers that are called             *)
(***************************************************************************)
LEMMA CallsInit == Init => CallsInv /\ HandlersOutlive
<1>1. SUFFICES ASSUME InitInstallers, arrays = {}, live = {} PROVE CallsInv /\ HandlersOutlive
  BY DEF Init, InitHandlers
<1>2. \A c \in Contexts : pc[c] = "idle" /\ "idle" \notin CallPlaces
  BY <1>1 DEF InitInstallers, CallPlaces
<1>3. \A h \in Hooks : library[h] # NumPy
  BY <1>1, NoneIsNoHook DEF InitInstallers, Libraries
<1>. QED  BY <1>1, <1>2, <1>3 DEF CallsInv, CallOK, InCallback, CallPlaces, HandlersOutlive

LEMMA FieldsOfCalls ==
  ASSUME CallsInv, NEW c \in Contexts, pc[c] \in CallPlaces
  PROVE  /\ job[c] \in Calls
         /\ job[c].hook \in Hooks /\ job[c].n \in Numbers /\ job[c].ptr \in Ptrs
         /\ job[c].array \subseteq Records /\ job[c].was \in Numbers
         /\ \A a \in job[c].array : a.h = job[c].hook
         /\ OneArray(pc[c], job[c])
         /\ library[job[c].hook] = NumPy
BY DEF CallsInv, CallOK, Calls, InCallback, CallPlaces

LEMMA OldArray ==
  ASSUME CallsInv, NEW c \in Contexts, pc[c] = "move"
  PROVE  \E a \in Records :
           /\ job[c].array = {a} /\ job[c].was = a.n /\ OldPtr(job[c]) = a.ptr
           /\ a.h = job[c].hook
<1>1. pc[c] \in CallPlaces
  BY DEF CallPlaces
<1>2. PICK a \in job[c].array : job[c].array = {a} /\ job[c].was = a.n
  BY <1>1, FieldsOfCalls DEF OneArray
<1>3. (CHOOSE b \in job[c].array : TRUE) = a
  BY <1>2
<1>. QED  BY <1>1, <1>2, <1>3, FieldsOfCalls DEF OldPtr

\* What Moved makes of a call, without EXCEPT.
LEMMA MovedCall ==
  ASSUME CallsInv, NEW c \in Contexts, pc[c] = "move"
  PROVE  LET j == job[c]
             m == Moved(job[c])
         IN /\ m \in Calls
            /\ m.hook = j.hook /\ m.n = j.was /\ m.ptr = OldPtr(j)
            /\ m.array = {Array(j.ptr, j.n, j.hook)}
<1>1. pc[c] \in CallPlaces
  BY DEF CallPlaces
<1>2. /\ job[c] \in Calls /\ OldPtr(job[c]) \in Ptrs
      /\ Array(job[c].ptr, job[c].n, job[c].hook) \in Records
  BY <1>1, FieldsOfCalls, OldArray DEF Array, Records
<1> DEFINE new == Array(job[c].ptr, job[c].n, job[c].hook)
           old == OldPtr(job[c])
           to(j, p, a) == [j EXCEPT !.n = j.was, !.ptr = p, !.array = {a}]
<1>3. \A j \in Calls : \A p \in Ptrs : \A a \in Records :
        /\ to(j, p, a) \in Calls
        /\ to(j, p, a).hook = j.hook /\ to(j, p, a).n = j.was /\ to(j, p, a).ptr = p
        /\ to(j, p, a).array = {a}
  BY DEF Calls
<1>4. Moved(job[c]) = to(job[c], old, new)
  BY DEF Moved
<1> HIDE DEF new, old, to
<1>5. new \in Records /\ old \in Ptrs
  BY <1>2 DEF new, old
<1>6. /\ to(job[c], old, new) \in Calls
      /\ to(job[c], old, new).hook = job[c].hook /\ to(job[c], old, new).n = job[c].was
      /\ to(job[c], old, new).ptr = old
      /\ to(job[c], old, new).array = {new}
  BY <1>2, <1>3, <1>5
<1>. QED  BY <1>4, <1>6 DEF new, old

LEMMA CallsKept ==
  ASSUME InstallersTyped, CallsInv, NEW c \in Contexts, NEW to, NEW j, Goto(c, to, j),
         CallOK(to, j), to \in CallPlaces => library[j.hook] = NumPy,
         arrays' \subseteq Records, \A a \in arrays' : library[a.h] = NumPy,
         UNCHANGED <<library, live>>
  PROVE  CallsInv'
<1>1. /\ pc'[c] = to /\ job'[c] = j
      /\ \A d \in Contexts \ {c} : pc'[d] = pc[d] /\ job'[d] = job[d]
  BY OthersStay
<1>2. \A d \in Contexts : CallOK(pc'[d], job'[d])
  BY <1>1 DEF CallsInv
<1>3. \A d \in Contexts : pc'[d] \in CallPlaces => library[job'[d].hook] = NumPy
  BY <1>1, FieldsOfCalls
<1>. QED  BY <1>2, <1>3 DEF CallsInv, InCallback, CallPlaces

LEMMA CallsStep ==
  ASSUME InstallersInv, CallsInv, MemoryInv, NEW c \in Contexts, HandlerStep(c)
  PROVE  CallsInv'
<1>0. /\ InstallersTyped /\ CallPlaces = {"grow", "record", "move", "release"}
      /\ arrays \subseteq Records /\ \A a \in arrays : library[a.h] = NumPy
  BY DEF InstallersInv, CallsInv, CallPlaces
<1>1. ASSUME NEW h \in Hooks, NEW n \in Sizes, NEW ptr \in Ptrs, Malloc(c, h, n, ptr)
      PROVE  CallsInv'
  <2>1. /\ h \in live /\ Goto(c, "record", Job(h, n, ptr))
        /\ UNCHANGED <<library, live, arrays>>
    BY <1>1 DEF Malloc, hooks
  <2>2. CallOK("record", Job(h, n, ptr)) /\ Job(h, n, ptr).hook = h
    BY DEF CallOK, Calls, Job, Numbers, OneArray
  <2>3. library[h] = NumPy
    BY <2>1 DEF CallsInv
  <2>. QED  BY <1>0, <2>1, <2>2, <2>3, CallsKept
<1>2. ASSUME NEW a \in arrays, Free(c, a) PROVE CallsInv'
  <2>1. UNCHANGED <<library, live>> /\ arrays' = arrays \ {a}
    BY <1>2 DEF Free, hooks
  <2>2. CASE a.h \in live /\ a.ptr \in DOMAIN sizes[a.h]
    <3> DEFINE j == Job(a.h, sizes[a.h][a.ptr], a.ptr)
    <3>1. Goto(c, "release", j)
      BY <1>2, <2>2 DEF Free
    <3>2. sizes[a.h][a.ptr] = a.n
      BY DEF MemoryInv, BlocksInv, BackedInv, Entered
    <3>3. a \in Records /\ a.h \in Hooks /\ a.n \in Numbers /\ a.ptr \in Ptrs
      BY <1>0 DEF Records
    <3>4. CallOK("release", j) /\ j.hook = a.h
      BY <3>2, <3>3 DEF CallOK, Calls, Job, Numbers, OneArray
    <3> HIDE DEF j
    <3>. QED  BY <1>0, <2>1, <3>1, <3>4, CallsKept
  <2>3. CASE ~(a.h \in live /\ a.ptr \in DOMAIN sizes[a.h])
    <3>1. UNCHANGED <<pc, job>>
      BY <1>2, <2>3 DEF Free
    <3>. QED  BY <1>0, <2>1, <3>1 DEF CallsInv, InCallback
  <2>. QED  BY <2>2, <2>3
<1>3. ASSUME NEW a \in arrays, NEW n \in Sizes, Realloc(c, a, n) PROVE CallsInv'
  <2> DEFINE j == ReallocJob(a, n)
  <2>1. UNCHANGED <<library, live>> /\ arrays' = arrays \ {a} /\ Goto(c, "grow", j)
    BY <1>3 DEF Realloc, hooks
  <2>2. sizes[a.h][a.ptr] = a.n
    BY DEF MemoryInv, BlocksInv, BackedInv, Entered
  <2>3. a \in Records /\ a.h \in Hooks /\ a.n \in Numbers /\ a.ptr \in Ptrs
    BY <1>0 DEF Records
  <2>4. j = [hook |-> a.h, n |-> n, ptr |-> a.ptr, array |-> {a}, was |-> a.n]
    BY <2>2 DEF ReallocJob
  <2> HIDE DEF j
  <2>5. j \in Calls /\ j.hook = a.h /\ j.array = {a} /\ j.was = a.n
    BY <2>3, <2>4 DEF Calls, Numbers
  <2>6. CallOK("grow", j)
    BY <2>5 DEF CallOK, OneArray
  <2>. QED  BY <1>0, <2>1, <2>5, <2>6, CallsKept
<1>4. ASSUME NEW ptr \in Ptrs, Grow(c, ptr) PROVE CallsInv'
  <2> DEFINE j == [job[c] EXCEPT !.ptr = ptr]
  <2>1. pc[c] = "grow" /\ UNCHANGED <<library, live, arrays>> /\ Goto(c, "record", j)
    BY <1>4 DEF Grow, hooks
  <2>2. \A k \in Calls : LET m == [k EXCEPT !.ptr = ptr] IN
          m \in Calls /\ m.hook = k.hook /\ m.array = k.array /\ m.was = k.was
    BY DEF Calls
  <2>3. pc[c] \in CallPlaces
    BY <2>1 DEF CallPlaces
  <2>4. j \in Calls /\ j.hook = job[c].hook /\ j.array = job[c].array /\ j.was = job[c].was
    BY <2>2, <2>3, FieldsOfCalls
  <2> HIDE DEF j
  <2>5. CallOK("record", j)
    BY <2>1, <2>3, <2>4, FieldsOfCalls DEF CallOK, OneArray
  <2>. QED  BY <1>0, <2>1, <2>3, <2>4, <2>5, CallsKept, FieldsOfCalls
<1>5. ASSUME NEW to \in {"idle", "move"}, Goto(c, to, IF to = "idle" THEN NoJob ELSE job[c]),
             pc[c] \in CallPlaces, to = "move" => pc[c] = "record" /\ job[c].array # {},
             \A a \in arrays' : \/ a \in arrays \cup job[c].array
                                \/ a = Array(job[c].ptr, job[c].n, job[c].hook),
             UNCHANGED <<library, live>>
      PROVE  CallsInv'
  <2>1. /\ Array(job[c].ptr, job[c].n, job[c].hook) \in Records
        /\ Array(job[c].ptr, job[c].n, job[c].hook).h = job[c].hook
    BY <1>5, FieldsOfCalls DEF Array, Records
  <2>2. arrays' \subseteq Records /\ \A a \in arrays' : library[a.h] = NumPy
    BY <1>0, <1>5, <2>1, FieldsOfCalls
  <2>3. CASE to = "idle"
    BY <1>0, <1>5, <2>2, <2>3, CallsKept DEF CallOK
  <2>4. CASE to = "move"
    <3>1. CallOK("move", job[c])
      BY <1>5, <2>4, FieldsOfCalls DEF CallOK, OneArray
    <3>. QED  BY <1>0, <1>5, <2>2, <2>4, <3>1, FieldsOfCalls, CallsKept
  <2>. QED  BY <2>3, <2>4
<1>6. ASSUME GrowFails(c) PROVE CallsInv'
  BY <1>0, <1>5, <1>6 DEF GrowFails, Return, hooks
<1>7. ASSUME Record(c) PROVE CallsInv'
  BY <1>0, <1>5, <1>7 DEF Record, Return, hooks
<1>8. ASSUME Move(c) PROVE CallsInv'
  <2>1. pc[c] = "move" /\ Goto(c, "release", Moved(job[c])) /\ UNCHANGED <<library, live, arrays>>
    BY <1>8 DEF Move, hooks
  <2>2. pc[c] \in CallPlaces
    BY <2>1 DEF CallPlaces
  <2>3. Array(job[c].ptr, job[c].n, job[c].hook).h = job[c].hook
    BY DEF Array
  <2>4. CallOK("release", Moved(job[c]))
    BY <2>1, <2>3, MovedCall DEF CallOK, OneArray
  <2>. QED  BY <1>0, <2>1, <2>2, <2>4, MovedCall, FieldsOfCalls, CallsKept
<1>9. ASSUME Release(c) PROVE CallsInv'
  BY <1>0, <1>5, <1>9 DEF Release, Return, hooks
<1>. QED  BY <1>1, <1>2, <1>3, <1>4, <1>6, <1>7, <1>8, <1>9 DEF HandlerStep

LEMMA CallsQuiet ==
  ASSUME InstallersInv, CallsInv, Quiet, InstallerMoves
  PROVE  CallsInv'
<1>1. ASSUME NEW h \in Hooks, library[h] = NumPy PROVE library'[h] = NumPy
  <2>1. NumPy # None
    BY NoneIsNoHook DEF Libraries
  <2>. QED  BY <1>1, <2>1 DEF InstallerMoves, Aside, hooks, Exchange, Capture, Replace,
            Uninstall, Restore, Drop, InstallersInv, InstallersTyped
<1>2. \A d \in Contexts : pc'[d] \in CallPlaces =>
        pc[d] \in CallPlaces /\ pc'[d] = pc[d] /\ job'[d] = job[d]
  BY DEF Quiet, CallsStay
<1>3. \A d \in Contexts : CallOK(pc'[d], job'[d])
  BY <1>2 DEF CallsInv, CallOK
<1>4. \A d \in Contexts : InCallback(d)' => library'[job'[d].hook] = NumPy
  <2>1. ASSUME NEW d \in Contexts, pc'[d] \in CallPlaces PROVE library'[job'[d].hook] = NumPy
    <3>1. pc[d] \in CallPlaces /\ job'[d].hook = job[d].hook
      BY <1>2, <2>1
    <3>2. job[d].hook \in Hooks /\ library[job[d].hook] = NumPy
      BY <3>1, FieldsOfCalls
    <3>. QED  BY <1>1, <3>1, <3>2
  <2>. QED  BY <2>1 DEF InCallback, CallPlaces
<1>5. /\ arrays' \subseteq Records /\ live' \subseteq Hooks
      /\ \A a \in arrays' : library'[a.h] = NumPy
      /\ \A h \in live' : library'[h] = NumPy
  BY <1>1 DEF CallsInv, Quiet, Records
<1>. QED  BY <1>3, <1>4, <1>5 DEF CallsInv

\* Who holds the capsule of a hook: what installers know, and what the memory knows.
HeldByInstallers(h) ==
  \/ \E s \in Slots : inForce[s] = h
  \/ \E g \in held : previous[g] = h
  \/ \E c \in Contexts : pc[c] \in {"replace", "restore"} /\ previous[job[c].hook] = h
HeldByMemory(h) ==
  \/ h \in captured
  \/ \E c \in Contexts : pc[c] \in CallPlaces /\ job[c].hook = h
  \/ \E a \in arrays : a.h = h

LEMMA HeldByBoth ==
  ASSUME NEW h
  PROVE  /\ Referenced(h) <=> HeldByInstallers(h) \/ HeldByMemory(h)
         /\ Referenced(h)' <=> HeldByInstallers(h)' \/ HeldByMemory(h)'
BY DEF Referenced, HeldByInstallers, HeldByMemory, InCallback, CallPlaces

LEMMA InForceIsHeld ==
  ASSUME NEW c \in Contexts, NEW l \in Libraries
  PROVE  HeldByInstallers(inForce[Slot(l, c)])
BY SlotsOfLibraries DEF HeldByInstallers

\* An installer passes on what somebody held, or puts a hook of its own in force.
LEMMA InstallersPassOn ==
  ASSUME InstallersInv, InstallerMoves, NEW g \in Hooks, HeldByInstallers(g)',
         library'[g] = NumPy
  PROVE  HeldByInstallers(g) \/ library[g] = None
<1>0. InstallersTyped /\ ReplacesInv
  BY DEF InstallersInv
<1>1. ASSUME NEW s \in Slots, inForce'[s] = g, ~HeldByInstallers(g), library[g] # None
      PROVE  FALSE
  <2>1. inForce[s] # g
    BY <1>1 DEF HeldByInstallers
  <2>2. ASSUME NEW c \in Contexts, NEW h \in Hooks, Exchange(c, h) PROVE FALSE
    BY <1>0, <1>1, <2>1, <2>2 DEF Exchange, PutInForce, InstallersTyped
  <2>3. ASSUME NEW c \in Contexts, Replace(c) PROVE FALSE
    <3>1. inForce'[s] = job[c].hook /\ library' = library /\ library[job[c].hook] \in Shared
      BY <1>0, <1>1, <2>1, <2>3 DEF Replace, PutInForce, InstallersTyped, ReplacesInv
    <3>. QED  BY <1>1, <3>1, InstallersAssumption
  <2>4. ASSUME NEW c \in Contexts, Restore(c) PROVE FALSE
    <3>1. inForce'[s] = previous[job[c].hook] /\ pc[c] = "restore"
      BY <1>0, <1>1, <2>1, <2>4 DEF Restore, InstallersTyped
    <3>. QED  BY <1>1, <3>1 DEF HeldByInstallers
  <2>. QED  BY <1>1, <2>1, <2>2, <2>3, <2>4
            DEF InstallerMoves, Aside, hooks, Capture, Uninstall, Drop
<1>2. ASSUME NEW x, previous'[x] = g, x \in held' PROVE HeldByInstallers(g) \/ library[g] = None
  <2>1. CASE previous'[x] = previous[x] /\ x \in held
    BY <1>2, <2>1 DEF HeldByInstallers
  <2>2. ASSUME NEW c \in Contexts, NEW h \in Hooks, Exchange(c, h)
        PROVE  HeldByInstallers(g) \/ library[g] = None
    <3>1. /\ previous' = [previous EXCEPT ![h] = inForce[Slot(NumPy, c)]]
          /\ held' = held \cup {h}
      BY <2>2 DEF Exchange, PutInForce
    <3>2. previous'[h] = inForce[Slot(NumPy, c)] /\ (x # h => previous'[x] = previous[x])
      BY <1>0, <3>1, <1>2 DEF InstallersTyped
    <3>3. HeldByInstallers(inForce[Slot(NumPy, c)])
      BY InForceIsHeld DEF Libraries
    <3>. QED  BY <1>2, <2>1, <3>1, <3>2, <3>3
  <2>3. ASSUME NEW c \in Contexts, NEW h \in Hooks, NEW l, Capture(c, h, l)
        PROVE  HeldByInstallers(g) \/ library[g] = None
    <3>1. /\ l \in Shared /\ previous' = [previous EXCEPT ![h] = inForce[Slot(l, c)]]
          /\ held' = held
      BY <2>3 DEF Capture
    <3>2. previous'[h] = inForce[Slot(l, c)] /\ (x # h => previous'[x] = previous[x])
      BY <1>0, <3>1, <1>2 DEF InstallersTyped
    <3>3. HeldByInstallers(inForce[Slot(l, c)])
      BY <3>1, InForceIsHeld DEF Libraries
    <3>. QED  BY <1>2, <2>1, <3>1, <3>2, <3>3
  <2>4. ASSUME NEW c \in Contexts, Replace(c) PROVE HeldByInstallers(g) \/ library[g] = None
    <3>1. previous' = previous /\ held' = held \cup {job[c].hook} /\ pc[c] = "replace"
      BY <2>4 DEF Replace, PutInForce
    <3>. QED  BY <1>2, <2>1, <3>1 DEF HeldByInstallers
  <2>. QED  BY <1>2, <2>1, <2>2, <2>3, <2>4
            DEF InstallerMoves, Aside, hooks, Uninstall, Restore, Drop
<1>3. ASSUME NEW d \in Contexts, pc'[d] \in {"replace", "restore"}, previous'[job'[d].hook] = g
      PROVE  HeldByInstallers(g)
  <2>1. CASE pc'[d] = pc[d] /\ job'[d] = job[d] /\ previous'[job[d].hook] = previous[job[d].hook]
    BY <1>3, <2>1 DEF HeldByInstallers
  <2>2. CASE Aside
    BY <1>0, <1>3, <2>1, <2>2, AsideKeepsCalls DEF Aside, hooks
  <2>3. ASSUME NEW c \in Contexts, NEW h \in Hooks, Exchange(c, h) PROVE HeldByInstallers(g)
    <3>1. /\ previous' = [previous EXCEPT ![h] = inForce[Slot(NumPy, c)]]
          /\ UNCHANGED <<pc, job>>
      BY <2>3 DEF Exchange
    <3>2. \/ previous'[job[d].hook] = inForce[Slot(NumPy, c)]
          \/ previous'[job[d].hook] = previous[job[d].hook]
      BY <1>0, <1>3, <3>1 DEF InstallersTyped
    <3>3. HeldByInstallers(inForce[Slot(NumPy, c)])
      BY InForceIsHeld DEF Libraries
    <3>. QED  BY <1>3, <2>1, <3>1, <3>2, <3>3
  <2>4. ASSUME NEW c \in Contexts, NEW h \in Hooks, NEW l, Capture(c, h, l)
        PROVE  HeldByInstallers(g)
    <3>1. /\ l \in Shared /\ previous' = [previous EXCEPT ![h] = inForce[Slot(l, c)]]
          /\ Goto(c, "replace", [hook |-> h, top |-> Top(Slot(l, c))])
      BY <2>4 DEF Capture
    <3>2. HeldByInstallers(inForce[Slot(l, c)])
      BY <3>1, InForceIsHeld DEF Libraries
    <3>3. CASE d = c
      <4>1. previous'[job'[d].hook] = inForce[Slot(l, c)]
        BY <1>0, <3>1, <3>3, OthersStay DEF InstallersTyped
      <4>. QED  BY <1>3, <3>2, <4>1
    <3>4. CASE d # c
      <4>1. pc'[d] = pc[d] /\ job'[d] = job[d]
        BY <1>0, <3>1, <3>4, OthersStay
      <4>2. \/ previous'[job[d].hook] = inForce[Slot(l, c)]
            \/ previous'[job[d].hook] = previous[job[d].hook]
        BY <1>0, <1>3, <3>1, <4>1 DEF InstallersTyped
      <4>. QED  BY <1>3, <2>1, <3>2, <4>1, <4>2
    <3>. QED  BY <3>3, <3>4
  <2>5. ASSUME NEW c \in Contexts, Replace(c) \/ Restore(c) PROVE HeldByInstallers(g)
    <3>1. Goto(c, "idle", NoJob) /\ previous' = previous
      BY <2>5 DEF Replace, Restore, Return
    <3>. QED  BY <1>0, <1>3, <2>1, <3>1, OthersStay
  <2>6. ASSUME NEW c \in Contexts, NEW h \in Hooks, Uninstall(c, h) PROVE HeldByInstallers(g)
    <3>1. Goto(c, "restore", [hook |-> h]) /\ previous' = previous /\ h \in held
      BY <2>6 DEF Uninstall
    <3>2. CASE d = c
      <4>1. job'[d].hook = h
        BY <1>0, <3>1, <3>2, OthersStay
      <4>. QED  BY <1>3, <3>1, <4>1 DEF HeldByInstallers
    <3>3. CASE d # c
      BY <1>0, <1>3, <2>1, <3>1, <3>3, OthersStay
    <3>. QED  BY <3>2, <3>3
  <2>7. ASSUME NEW h \in Hooks, Drop(h) PROVE HeldByInstallers(g)
    BY <1>3, <2>1, <2>7 DEF Drop
  <2>. QED  BY <2>2, <2>3, <2>4, <2>5, <2>6, <2>7 DEF InstallerMoves
<1>4. \/ \E s \in Slots : inForce'[s] = g
      \/ \E x \in held' : previous'[x] = g
      \/ \E d \in Contexts : pc'[d] \in {"replace", "restore"} /\ previous'[job'[d].hook] = g
  BY DEF HeldByInstallers
<1>. QED  BY <1>1, <1>2, <1>3, <1>4

\* And the memory what an installer holds, or one of its own calls or arrays does.
LEMMA MemoryPassesOn ==
  ASSUME InstallersInv, CallsInv, HandlerMoves, NEW g, HeldByMemory(g)'
  PROVE  HeldByMemory(g) \/ HeldByInstallers(g)
<1>0. InstallersTyped /\ CallPlaces = {"grow", "record", "move", "release"}
  BY DEF InstallersInv, CallPlaces
<1>1. CASE Quiet
  <2>1. g \in captured' => HeldByMemory(g) \/ HeldByInstallers(g)
    BY <1>1, InForceIsHeld DEF Quiet, HeldByMemory, Libraries
  <2>. QED  BY <1>1, <2>1 DEF Quiet, CallsStay, HeldByMemory
<1>2. ASSUME NEW h \in Hooks, CapsuleDies(h) PROVE HeldByMemory(g)
  BY <1>2 DEF CapsuleDies, HeldByMemory
<1>3. ASSUME NEW c \in Contexts, NEW to, NEW j, Goto(c, to, j), captured' = captured,
             to \in CallPlaces /\ j.hook = g => HeldByMemory(g) \/ HeldByInstallers(g),
             \A a \in arrays' : \/ a \in arrays
                                \/ pc[c] \in CallPlaces /\ a.h = job[c].hook
      PROVE  HeldByMemory(g) \/ HeldByInstallers(g)
  <2>1. /\ pc'[c] = to /\ job'[c] = j
        /\ \A d \in Contexts \ {c} : pc'[d] = pc[d] /\ job'[d] = job[d]
    BY <1>0, <1>3, OthersStay
  <2>. QED  BY <1>3, <2>1 DEF HeldByMemory
<1>4. ASSUME NEW c \in Contexts, HandlerStep(c) PROVE HeldByMemory(g) \/ HeldByInstallers(g)
  <2>1. ASSUME NEW h, NEW n, NEW ptr, Malloc(c, h, n, ptr)
        PROVE  HeldByMemory(g) \/ HeldByInstallers(g)
    <3>1. /\ Goto(c, "record", Job(h, n, ptr)) /\ UNCHANGED <<captured, arrays>>
          /\ h \in {inForce[Slot(NumPy, c)]} \cup captured
          /\ Job(h, n, ptr).hook = h
      BY <2>1 DEF Malloc, Job
    <3>2. HeldByMemory(h) \/ HeldByInstallers(h)
      BY <3>1, InForceIsHeld DEF HeldByMemory, Libraries
    <3>. QED  BY <1>3, <3>1, <3>2
  <2>2. ASSUME NEW a \in arrays, Free(c, a) PROVE HeldByMemory(g) \/ HeldByInstallers(g)
    <3>1. captured' = captured /\ arrays' = arrays \ {a}
      BY <2>2 DEF Free
    <3>2. CASE UNCHANGED <<pc, job>>
      BY <3>1, <3>2 DEF HeldByMemory
    <3>3. CASE Goto(c, "release", Job(a.h, sizes[a.h][a.ptr], a.ptr))
      <4>1. Job(a.h, sizes[a.h][a.ptr], a.ptr).hook = a.h
        BY DEF Job
      <4>2. HeldByMemory(a.h)
        BY DEF HeldByMemory
      <4>. QED  BY <1>3, <3>1, <3>3, <4>1, <4>2
    <3>. QED  BY <2>2, <3>2, <3>3 DEF Free
  <2>3. ASSUME NEW a \in arrays, NEW n, Realloc(c, a, n)
        PROVE  HeldByMemory(g) \/ HeldByInstallers(g)
    <3>1. captured' = captured /\ arrays' = arrays \ {a} /\ Goto(c, "grow", ReallocJob(a, n))
      BY <2>3 DEF Realloc
    <3>2. ReallocJob(a, n).hook = a.h
      BY DEF ReallocJob
    <3>3. HeldByMemory(a.h)
      BY DEF HeldByMemory
    <3>. QED  BY <1>3, <3>1, <3>2, <3>3
  <2>4. ASSUME pc[c] \in CallPlaces PROVE HeldByMemory(job[c].hook)
    BY <2>4 DEF HeldByMemory
  <2>5. ASSUME NEW ptr, Grow(c, ptr) PROVE HeldByMemory(g) \/ HeldByInstallers(g)
    <3>1. /\ pc[c] = "grow" /\ UNCHANGED <<captured, arrays>>
          /\ Goto(c, "record", [job[c] EXCEPT !.ptr = ptr])
      BY <2>5 DEF Grow
    <3>2. \A k \in Calls : [k EXCEPT !.ptr = ptr].hook = k.hook
      BY DEF Calls
    <3>3. [job[c] EXCEPT !.ptr = ptr].hook = job[c].hook
      BY <1>0, <3>1, <3>2, FieldsOfCalls
    <3>. QED  BY <1>0, <1>3, <2>4, <3>1, <3>3
  <2>6. CASE GrowFails(c)
    <3>1. /\ pc[c] = "grow" /\ captured' = captured /\ Goto(c, "idle", NoJob)
          /\ arrays' = arrays \cup job[c].array
      BY <2>6 DEF GrowFails, Return
    <3>2. \A a \in arrays' : a \in arrays \/ (pc[c] \in CallPlaces /\ a.h = job[c].hook)
      BY <1>0, <3>1, FieldsOfCalls
    <3>. QED  BY <1>0, <1>3, <3>1, <3>2
  <2>7. CASE Record(c)
    <3>1. /\ pc[c] = "record" /\ captured' = captured
          /\ arrays' \subseteq arrays \cup {Array(job[c].ptr, job[c].n, job[c].hook)}
          /\ Goto(c, "idle", NoJob) \/ Goto(c, "move", job[c])
      BY <2>7 DEF Record, Return
    <3>2. \A a \in arrays' : a \in arrays \/ (pc[c] \in CallPlaces /\ a.h = job[c].hook)
      BY <1>0, <3>1 DEF Array
    <3>. QED  BY <1>0, <1>3, <2>4, <3>1, <3>2
  <2>8. CASE Move(c)
    <3>1. /\ pc[c] = "move" /\ UNCHANGED <<captured, arrays>>
          /\ Goto(c, "release", Moved(job[c])) /\ Moved(job[c]).hook = job[c].hook
      BY <2>8, MovedCall DEF Move
    <3>. QED  BY <1>0, <1>3, <2>4, <3>1
  <2>9. CASE Release(c)
    <3>1. /\ pc[c] = "release" /\ captured' = captured /\ Goto(c, "idle", NoJob)
          /\ arrays' = arrays \cup job[c].array
      BY <2>9 DEF Release, Return
    <3>2. \A a \in arrays' : a \in arrays \/ (pc[c] \in CallPlaces /\ a.h = job[c].hook)
      BY <1>0, <3>1, FieldsOfCalls
    <3>. QED  BY <1>0, <1>3, <3>1, <3>2
  <2>. QED  BY <1>4, <2>1, <2>2, <2>3, <2>5, <2>6, <2>7, <2>8, <2>9 DEF HandlerStep
<1>. QED  BY <1>1, <1>2, <1>4 DEF HandlerMoves

LEMMA OutliveStep ==
  ASSUME InstallersInv, CallsInv, HandlersOutlive, InstallerMoves, HandlerMoves
  PROVE  HandlersOutlive'
<1>1. SUFFICES ASSUME NEW g \in Hooks, library'[g] = NumPy, Referenced(g)'
               PROVE  g \in live'
  BY DEF HandlersOutlive
<1>2. library[g] = None \/ library[g] = NumPy
  BY <1>1 DEF InstallerMoves, Aside, hooks, Exchange, Capture, Replace, Uninstall, Restore,
              Drop, InstallersInv, InstallersTyped
<1>3. CASE library[g] = None
  <2>1. ASSUME NEW h \in Hooks, CapsuleDies(h) PROVE library' = library
    BY <2>1 DEF CapsuleDies, hooks
  <2>2. ASSUME NEW c \in Contexts, HandlerStep(c) PROVE library' = library
    BY <2>2, HandlersAside DEF Aside, hooks
  <2>3. NumPy # None
    BY NoneIsNoHook DEF Libraries
  <2>. QED  BY <1>1, <1>3, <2>1, <2>2, <2>3 DEF HandlerMoves, Quiet
<1>4. CASE library[g] = NumPy
  <2>1. library[g] # None
    BY <1>4, NoneIsNoHook DEF Libraries
  <2>2. HeldByInstallers(g)' => HeldByInstallers(g)
    BY <1>1, <2>1, InstallersPassOn
  <2>3. Referenced(g)
    BY <1>1, <2>2, HeldByBoth, MemoryPassesOn
  <2>4. g \in live
    BY <1>4, <2>3 DEF HandlersOutlive
  <2>5. ASSUME NEW c \in Contexts, HandlerStep(c) PROVE live' = live
    BY <2>5 DEF HandlerStep, Malloc, Free, Realloc, Grow, GrowFails, Record, Move, Release
  <2>6. ASSUME NEW h \in Hooks, CapsuleDies(h) PROVE g \in live'
    BY <2>3, <2>4, <2>6 DEF CapsuleDies
  <2>. QED  BY <2>4, <2>5, <2>6 DEF HandlerMoves, Quiet
<1>. QED  BY <1>2, <1>3, <1>4
-------------------------------------------------------------------------------
(***************************************************************************)
(* Every block of NumPy's has one owner                                    *)
(***************************************************************************)
LEMMA OnePointMore ==
  ASSUME NEW f, NEW p, NEW x
  PROVE  /\ \A q : q \in DOMAIN With(f, p, x) <=> q \in DOMAIN f \/ q = p
         /\ With(f, p, x)[p] = x
         /\ \A q \in DOMAIN f : q # p => With(f, p, x)[q] = f[q]
BY DEF With

LEMMA OnePointLess ==
  ASSUME NEW f, NEW p
  PROVE  /\ \A q : q \in DOMAIN Without(f, p) <=> q \in DOMAIN f /\ q # p
         /\ \A q \in DOMAIN Without(f, p) : Without(f, p)[q] = f[q]
BY DEF Without

LEMMA HandsAreRecords ==
  ASSUME CallsInv, NEW c \in Contexts
  PROVE  /\ claims[c] = Claimed(pc[c], job[c]) /\ inHand[c] = InHand(pc[c], job[c])
         /\ claims[c] \subseteq Records /\ inHand[c] \subseteq Records
         /\ \A r \in claims[c] \cup inHand[c] : pc[c] \in CallPlaces /\ r.h = job[c].hook
<1>1. claims[c] = Claimed(pc[c], job[c]) /\ inHand[c] = InHand(pc[c], job[c])
  BY DEF claims, inHand
<1>2. CASE pc[c] \notin CallPlaces
  BY <1>1, <1>2 DEF Claimed, InHand, CallPlaces
<1>3. CASE pc[c] \in CallPlaces
  <2>1. /\ Array(job[c].ptr, job[c].n, job[c].hook) \in Records
        /\ Array(job[c].ptr, job[c].n, job[c].hook).h = job[c].hook
    BY <1>3, FieldsOfCalls DEF Array, Records
  <2>. QED  BY <1>1, <1>3, <2>1, FieldsOfCalls DEF Claimed, InHand
<1>. QED  BY <1>1, <1>2, <1>3

OthersKeep(c) == \A d \in Contexts \ {c} : claims'[d] = claims[d] /\ inHand'[d] = inHand[d]

LEMMA HandsMove ==
  ASSUME InstallersTyped, NEW c \in Contexts, NEW to, NEW j, Goto(c, to, j)
  PROVE  /\ claims'[c] = Claimed(to, j) /\ inHand'[c] = InHand(to, j)
         /\ OthersKeep(c)
<1>1. /\ pc'[c] = to /\ job'[c] = j
      /\ \A d \in Contexts \ {c} : pc'[d] = pc[d] /\ job'[d] = job[d]
  BY OthersStay
<1>2. \A d \in Contexts : claims'[d] = Claimed(pc'[d], job'[d]) /\ inHand'[d] = InHand(pc'[d], job'[d])
  BY DEF claims, inHand, Claimed, InHand
<1>3. \A d \in Contexts : claims[d] = Claimed(pc[d], job[d]) /\ inHand[d] = InHand(pc[d], job[d])
  BY DEF claims, inHand
<1>. QED  BY <1>1, <1>2, <1>3 DEF OthersKeep

AllRecords ==
  /\ arrays \subseteq Records
  /\ \A d \in Contexts : claims[d] \subseteq Records /\ inHand[d] \subseteq Records

\* A block comes from a resource.
LEMMA Obtained ==
  ASSUME BlocksInv, AllRecords, lost \subseteq DOMAIN heap,
         NEW c \in Contexts, NEW r \in Records, OthersKeep(c),
         inHand[c] = {}, inHand'[c] = {r}, claims'[c] = claims[c],
         r.ptr \notin DOMAIN heap,
         heap' = With(heap, r.ptr, [n |-> r.n, hook |-> r.h]),
         UNCHANGED <<arrays, sizes, lost>>
  PROVE  BlocksInv' /\ lost' \subseteq DOMAIN heap'
<1>1. /\ \A q : q \in DOMAIN heap' <=> q \in DOMAIN heap \/ q = r.ptr
      /\ heap'[r.ptr] = [n |-> r.n, hook |-> r.h]
      /\ \A q \in DOMAIN heap : heap'[q] = heap[q]
  BY OnePointMore
<1>2. Kept(r)' /\ \A x : Kept(x) => Kept(x)' /\ x.ptr # r.ptr
  BY <1>1 DEF Kept
<1>3. \A x : Entered(x) => Entered(x)'
  BY DEF Entered
<1>4. \A d \in Contexts : claims'[d] = claims[d]
  BY DEF OthersKeep
<1>5. \A h \in Hooks : r.ptr \notin DOMAIN sizes[h]
  <2>1. ASSUME NEW h \in Hooks, r.ptr \in DOMAIN sizes[h] PROVE FALSE
    <3>1. \/ \E x \in arrays : x.ptr = r.ptr
          \/ \E d \in Contexts : \E x \in claims[d] : x.ptr = r.ptr
      BY <2>1 DEF BlocksInv, OwnedInv
    <3>. QED  BY <1>2, <3>1 DEF BlocksInv, BackedInv
  <2>. QED  BY <2>1
<1>6. BackedInv'
  BY <1>2, <1>3, <1>4, <1>5 DEF BlocksInv, BackedInv, OthersKeep
<1>7. ApartInv'
  BY <1>2, <1>4 DEF BlocksInv, BackedInv, ApartInv, OthersKeep
<1>8. OwnedInv'
  <2>1. ASSUME NEW p \in DOMAIN heap', p \notin lost
        PROVE  \/ \E h \in Hooks : p \in DOMAIN sizes[h]
               \/ \E d \in Contexts : \E x \in inHand'[d] : x.ptr = p
    BY <1>1, <2>1 DEF BlocksInv, OwnedInv, OthersKeep
  <2>. QED  BY <1>4, <2>1 DEF BlocksInv, OwnedInv
<1>. QED  BY <1>1, <1>6, <1>7, <1>8 DEF BlocksInv

\* A block is recorded in the table of its handler, for NumPy or for the move to come.
LEMMA Recorded ==
  ASSUME BlocksInv, AllRecords, DOMAIN sizes = Hooks,
         NEW c \in Contexts, NEW r \in Records, OthersKeep(c),
         inHand[c] = {r}, inHand'[c] = {},
         \/ arrays' = arrays \cup {r} /\ claims[c] = {} /\ claims'[c] = {}
         \/ arrays' = arrays /\ claims'[c] = claims[c] \cup {r},
         sizes' = [sizes EXCEPT ![r.h] = With(@, r.ptr, r.n)],
         UNCHANGED <<heap, lost>>
  PROVE  BlocksInv' /\ \A a \in claims[c] : a.ptr # r.ptr
<1>0. r.h \in Hooks
  BY DEF Records
<1>1. /\ \A h \in Hooks : \A p : p \in DOMAIN sizes'[h] <=>
           p \in DOMAIN sizes[h] \/ (h = r.h /\ p = r.ptr)
      /\ sizes'[r.h][r.ptr] = r.n
      /\ \A h \in Hooks : \A p \in DOMAIN sizes[h] : p # r.ptr => sizes'[h][p] = sizes[h][p]
  BY <1>0, OnePointMore
<1>2. Kept(r) /\ \A h \in Hooks : r.ptr \notin DOMAIN sizes[h]
  BY DEF BlocksInv, BackedInv
<1>3. \A x \in Records : Kept(x) => Kept(x)'
  BY DEF Kept
<1>4. Entered(r)'
  BY <1>0, <1>1 DEF Entered
<1>5. \A x \in Records : Entered(x) => Entered(x)' /\ x.ptr # r.ptr
  BY <1>1, <1>2 DEF Entered, Records
<1>6. /\ \A x \in arrays : Kept(x) /\ Entered(x) /\ x \in Records
      /\ \A d \in Contexts : \A x \in claims[d] : Kept(x) /\ Entered(x) /\ x \in Records
  BY DEF BlocksInv, BackedInv, AllRecords
<1>7. ASSUME NEW d \in Contexts, NEW x \in inHand'[d] PROVE d # c /\ x \in inHand[d] /\ x.ptr # r.ptr
  BY <1>7 DEF OthersKeep, BlocksInv, ApartInv
<1>8. BackedInv'
  <2>1. \A x \in arrays' : Kept(x)' /\ Entered(x)'
    BY <1>2, <1>3, <1>4, <1>5, <1>6
  <2>2. \A d \in Contexts : \A x \in claims'[d] : Kept(x)' /\ Entered(x)'
    BY <1>2, <1>3, <1>4, <1>5, <1>6 DEF OthersKeep
  <2>3. ASSUME NEW d \in Contexts, NEW x \in inHand'[d]
        PROVE  Kept(x)' /\ \A h \in Hooks : x.ptr \notin DOMAIN sizes'[h]
    <3>1. x \in inHand[d] /\ x.ptr # r.ptr /\ x \in Records
      BY <1>7 DEF AllRecords
    <3>. QED  BY <1>1, <1>3, <3>1 DEF BlocksInv, BackedInv
  <2>. QED  BY <2>1, <2>2, <2>3 DEF BackedInv
<1>9. ApartInv'
  <2>1. \A x, q \in arrays' : x.ptr = q.ptr => x = q
    BY <1>5, <1>6 DEF BlocksInv, ApartInv
  <2>2. \A d \in Contexts : \A x \in claims'[d] : \A q \in arrays' : x.ptr # q.ptr
    BY <1>5, <1>6 DEF BlocksInv, ApartInv, OthersKeep
  <2>3. ASSUME NEW d \in Contexts, NEW e \in Contexts, NEW x \in claims'[d], NEW q \in claims'[e],
               x.ptr = q.ptr
        PROVE  d = e /\ x = q
    BY <1>5, <1>6, <2>3 DEF BlocksInv, ApartInv, OthersKeep
  <2>4. \A d, e \in Contexts : \A x \in inHand'[d], q \in inHand'[e] : x.ptr = q.ptr => d = e
    BY <1>7 DEF BlocksInv, ApartInv
  <2>. QED  BY <2>1, <2>2, <2>3, <2>4 DEF ApartInv
<1>10. OwnedInv'
  <2>1. ASSUME NEW h \in Hooks, NEW p \in DOMAIN sizes'[h]
        PROVE  \/ \E x \in arrays' : x.ptr = p /\ x.h = h
               \/ \E d \in Contexts : \E x \in claims'[d] : x.ptr = p /\ x.h = h
    <3>1. CASE p \in DOMAIN sizes[h]
      <4>1. \/ \E x \in arrays : x.ptr = p /\ x.h = h
            \/ \E d \in Contexts : \E x \in claims[d] : x.ptr = p /\ x.h = h
        BY <3>1 DEF BlocksInv, OwnedInv
      <4>. QED  BY <4>1 DEF OthersKeep
    <3>2. CASE h = r.h /\ p = r.ptr
      BY <3>2
    <3>. QED  BY <1>1, <2>1, <3>1, <3>2
  <2>2. ASSUME NEW p \in DOMAIN heap, p \notin lost
        PROVE  \/ \E h \in Hooks : p \in DOMAIN sizes'[h]
               \/ \E d \in Contexts : \E x \in inHand'[d] : x.ptr = p
    <3>1. CASE p = r.ptr
      BY <1>0, <1>1, <3>1
    <3>2. CASE p # r.ptr
      <4>1. \/ \E h \in Hooks : p \in DOMAIN sizes[h]
            \/ \E d \in Contexts : \E x \in inHand[d] : x.ptr = p
        BY <2>2 DEF BlocksInv, OwnedInv
      <4>. QED  BY <1>1, <3>2, <4>1 DEF OthersKeep
    <3>. QED  BY <3>1, <3>2
  <2>. QED  BY <2>1, <2>2 DEF OwnedInv
<1>. QED  BY <1>5, <1>6, <1>8, <1>9, <1>10 DEF BlocksInv

\* An array goes into a call, and the arrays of a call come back.
LEMMA Taken ==
  ASSUME BlocksInv, NEW c \in Contexts, NEW a \in arrays, OthersKeep(c),
         arrays' = arrays \ {a}, claims[c] = {}, claims'[c] = {a}, inHand'[c] = inHand[c],
         UNCHANGED <<heap, sizes, lost>>
  PROVE  BlocksInv'
<1>1. \A x : (Kept(x) => Kept(x)') /\ (Entered(x) => Entered(x)')
  BY DEF Kept, Entered
<1>2. \A d \in Contexts : inHand'[d] = inHand[d]
  BY DEF OthersKeep
<1>3. BackedInv'
  BY <1>1, <1>2 DEF BlocksInv, BackedInv, OthersKeep
<1>4. ApartInv'
  <2>1. \A d \in Contexts : \A x \in claims'[d] : \A q \in arrays' : x.ptr # q.ptr
    BY DEF BlocksInv, ApartInv, OthersKeep
  <2>2. ASSUME NEW d \in Contexts, NEW e \in Contexts, NEW x \in claims'[d], NEW q \in claims'[e],
               x.ptr = q.ptr
        PROVE  d = e /\ x = q
    BY <2>2 DEF BlocksInv, ApartInv, OthersKeep
  <2>. QED  BY <1>2, <2>1, <2>2 DEF BlocksInv, ApartInv
<1>5. OwnedInv'
  <2>1. ASSUME NEW h \in Hooks, NEW p \in DOMAIN sizes[h]
        PROVE  \/ \E x \in arrays' : x.ptr = p /\ x.h = h
               \/ \E d \in Contexts : \E x \in claims'[d] : x.ptr = p /\ x.h = h
    <3>1. \/ \E x \in arrays : x.ptr = p /\ x.h = h
          \/ \E d \in Contexts : \E x \in claims[d] : x.ptr = p /\ x.h = h
      BY DEF BlocksInv, OwnedInv
    <3>. QED  BY <3>1 DEF OthersKeep
  <2>. QED  BY <1>2, <2>1 DEF BlocksInv, OwnedInv
<1>. QED  BY <1>3, <1>4, <1>5 DEF BlocksInv

LEMMA PutBack ==
  ASSUME BlocksInv, NEW c \in Contexts, OthersKeep(c),
         arrays' = arrays \cup claims[c], claims'[c] = {}, inHand'[c] = inHand[c],
         UNCHANGED <<heap, sizes, lost>>
  PROVE  BlocksInv'
<1>1. \A x : (Kept(x) => Kept(x)') /\ (Entered(x) => Entered(x)')
  BY DEF Kept, Entered
<1>2. \A d \in Contexts : inHand'[d] = inHand[d]
  BY DEF OthersKeep
<1>3. BackedInv'
  BY <1>1, <1>2 DEF BlocksInv, BackedInv, OthersKeep
<1>4. ApartInv'
  <2>1. \A d \in Contexts : \A x \in claims'[d] : \A q \in arrays' : x.ptr # q.ptr
    BY DEF BlocksInv, ApartInv, OthersKeep
  <2>2. \A x, q \in arrays' : x.ptr = q.ptr => x = q
    BY DEF BlocksInv, ApartInv
  <2>3. \A d, e \in Contexts : \A x \in claims'[d], q \in claims'[e] :
          x.ptr = q.ptr => d = e /\ x = q
    BY DEF BlocksInv, ApartInv, OthersKeep
  <2>. QED  BY <1>2, <2>1, <2>2, <2>3 DEF BlocksInv, ApartInv
<1>5. OwnedInv'
  <2>1. ASSUME NEW h \in Hooks, NEW p \in DOMAIN sizes[h]
        PROVE  \/ \E x \in arrays' : x.ptr = p /\ x.h = h
               \/ \E d \in Contexts : \E x \in claims'[d] : x.ptr = p /\ x.h = h
    <3>1. \/ \E x \in arrays : x.ptr = p /\ x.h = h
          \/ \E d \in Contexts : \E x \in claims[d] : x.ptr = p /\ x.h = h
      BY DEF BlocksInv, OwnedInv
    <3>. QED  BY <3>1 DEF OthersKeep
  <2>. QED  BY <1>2, <2>1 DEF BlocksInv, OwnedInv
<1>. QED  BY <1>3, <1>4, <1>5 DEF BlocksInv

\* An entry is taken out of its table, by free or by a move.
LEMMA TakenOut ==
  ASSUME BlocksInv, AllRecords, DOMAIN sizes = Hooks,
         NEW c \in Contexts, NEW r \in Records, OthersKeep(c),
         \/ r \in arrays /\ arrays' = arrays \ {r} /\ claims[c] = {} /\ claims'[c] = {}
         \/ r \in claims[c] /\ arrays' = arrays /\ claims'[c] = claims[c] \ {r},
         inHand[c] = {}, inHand'[c] = {r},
         sizes' = [sizes EXCEPT ![r.h] = Without(@, r.ptr)],
         UNCHANGED <<heap, lost>>
  PROVE  BlocksInv'
<1>0. r.h \in Hooks
  BY DEF Records
<1>1. /\ \A h \in Hooks : \A p : p \in DOMAIN sizes'[h] <=>
           p \in DOMAIN sizes[h] /\ ~(h = r.h /\ p = r.ptr)
      /\ \A h \in Hooks : \A p \in DOMAIN sizes'[h] : sizes'[h][p] = sizes[h][p]
  BY <1>0, OnePointLess
<1>2. /\ \A x \in arrays : Kept(x) /\ Entered(x) /\ x \in Records
      /\ \A d \in Contexts : \A x \in claims[d] : Kept(x) /\ Entered(x) /\ x \in Records
  BY DEF BlocksInv, BackedInv, AllRecords
<1>3. Kept(r) /\ Entered(r)
  BY <1>2
<1>4. \A x \in Records : Kept(x) => Kept(x)'
  BY DEF Kept
<1>5. \A x \in Records : Entered(x) /\ x.ptr # r.ptr => Entered(x)'
  BY <1>1 DEF Entered, Records
<1>6. /\ \A x \in arrays' : x \in arrays /\ x.ptr # r.ptr
      /\ \A d \in Contexts : \A x \in claims'[d] : x \in claims[d] /\ x.ptr # r.ptr
  <2>1. \A x \in arrays' : x \in arrays /\ x.ptr # r.ptr
    BY DEF BlocksInv, ApartInv
  <2>2. ASSUME NEW d \in Contexts, NEW x \in claims'[d] PROVE x \in claims[d] /\ x.ptr # r.ptr
    BY <2>2 DEF BlocksInv, ApartInv, OthersKeep
  <2>. QED  BY <2>1, <2>2
<1>7. \A h \in Hooks : r.ptr \notin DOMAIN sizes'[h]
  <2>1. ASSUME NEW h \in Hooks, r.ptr \in DOMAIN sizes'[h] PROVE FALSE
    <3>1. r.ptr \in DOMAIN sizes[h] /\ h # r.h
      BY <1>1, <2>1
    <3>2. \/ \E x \in arrays : x.ptr = r.ptr /\ x.h = h
          \/ \E d \in Contexts : \E x \in claims[d] : x.ptr = r.ptr /\ x.h = h
      BY <3>1 DEF BlocksInv, OwnedInv
    <3>. QED  BY <3>1, <3>2 DEF BlocksInv, ApartInv
  <2>. QED  BY <2>1
<1>8. \A h \in Hooks : \A d \in Contexts : \A x \in inHand[d] :
        Kept(x) /\ x \in Records /\ x.ptr \notin DOMAIN sizes[h]
  BY DEF BlocksInv, BackedInv, AllRecords
<1>9. BackedInv'
  <2>1. \A x \in arrays' : Kept(x)' /\ Entered(x)'
    BY <1>2, <1>4, <1>5, <1>6
  <2>2. \A d \in Contexts : \A x \in claims'[d] : Kept(x)' /\ Entered(x)'
    BY <1>2, <1>4, <1>5, <1>6
  <2>3. ASSUME NEW d \in Contexts, NEW x \in inHand'[d]
        PROVE  Kept(x)' /\ \A h \in Hooks : x.ptr \notin DOMAIN sizes'[h]
    <3>1. CASE d = c
      BY <1>3, <1>4, <1>7, <2>3, <3>1
    <3>2. CASE d # c
      <4>1. x \in inHand[d] /\ x \in Records /\ Kept(x)
        BY <2>3, <3>2 DEF OthersKeep, AllRecords, BlocksInv, BackedInv
      <4>. QED  BY <1>1, <1>4, <1>8, <4>1
    <3>. QED  BY <3>1, <3>2
  <2>. QED  BY <2>1, <2>2, <2>3 DEF BackedInv
<1>10. ApartInv'
  <2>1. \A x, q \in arrays' : x.ptr = q.ptr => x = q
    BY <1>6 DEF BlocksInv, ApartInv
  <2>2. \A d \in Contexts : \A x \in claims'[d] : \A q \in arrays' : x.ptr # q.ptr
    BY <1>6 DEF BlocksInv, ApartInv
  <2>3. \A d, e \in Contexts : \A x \in claims'[d], q \in claims'[e] :
          x.ptr = q.ptr => d = e /\ x = q
    BY <1>6 DEF BlocksInv, ApartInv
  <2>4. ASSUME NEW d \in Contexts \ {c}, NEW x \in inHand'[d] PROVE x.ptr # r.ptr
    <3>1. x \in inHand[d]
      BY <2>4 DEF OthersKeep
    <3>. QED  BY <1>0, <1>3, <1>8, <3>1 DEF Entered
  <2>5. ASSUME NEW d \in Contexts, NEW e \in Contexts, NEW x \in inHand'[d], NEW q \in inHand'[e],
               x.ptr = q.ptr
        PROVE  d = e
    BY <2>4, <2>5 DEF BlocksInv, ApartInv, OthersKeep
  <2>. QED  BY <2>1, <2>2, <2>3, <2>5 DEF ApartInv
<1>11. OwnedInv'
  <2>1. ASSUME NEW h \in Hooks, NEW p \in DOMAIN sizes'[h]
        PROVE  \/ \E x \in arrays' : x.ptr = p /\ x.h = h
               \/ \E d \in Contexts : \E x \in claims'[d] : x.ptr = p /\ x.h = h
    <3>1. p \in DOMAIN sizes[h] /\ p # r.ptr
      BY <1>1, <1>7
    <3>2. \/ \E x \in arrays : x.ptr = p /\ x.h = h
          \/ \E d \in Contexts : \E x \in claims[d] : x.ptr = p /\ x.h = h
      BY <3>1 DEF BlocksInv, OwnedInv
    <3>. QED  BY <3>1, <3>2 DEF OthersKeep
  <2>2. ASSUME NEW p \in DOMAIN heap, p \notin lost
        PROVE  \/ \E h \in Hooks : p \in DOMAIN sizes'[h]
               \/ \E d \in Contexts : \E x \in inHand'[d] : x.ptr = p
    <3>1. CASE p = r.ptr
      BY <3>1
    <3>2. CASE p # r.ptr
      <4>1. \/ \E h \in Hooks : p \in DOMAIN sizes[h]
            \/ \E d \in Contexts : \E x \in inHand[d] : x.ptr = p
        BY <2>2 DEF BlocksInv, OwnedInv
      <4>. QED  BY <1>1, <3>2, <4>1 DEF OthersKeep
    <3>. QED  BY <3>1, <3>2
  <2>. QED  BY <2>1, <2>2 DEF OwnedInv
<1>. QED  BY <1>9, <1>10, <1>11 DEF BlocksInv

\* A block goes back, or its resource keeps it and says so.
LEMMA Returned ==
  ASSUME BlocksInv, AllRecords, lost \subseteq DOMAIN heap,
         NEW c \in Contexts, NEW r \in Records, OthersKeep(c),
         inHand[c] = {r}, inHand'[c] = {},
         arrays' = arrays \cup claims[c], claims'[c] = {},
         \/ heap' = Without(heap, r.ptr) /\ lost' = lost
         \/ heap' = heap /\ lost' = lost \cup {r.ptr},
         sizes' = sizes
  PROVE  BlocksInv' /\ lost' \subseteq DOMAIN heap'
<1>1. /\ \A p : p \in DOMAIN heap' /\ p \notin lost' <=>
           p \in DOMAIN heap /\ p \notin lost /\ p # r.ptr
      /\ \A p \in DOMAIN heap' : heap'[p] = heap[p]
      /\ lost' \subseteq DOMAIN heap'
  <2>1. Kept(r)
    BY DEF BlocksInv, BackedInv
  <2>. QED  BY <2>1, OnePointLess DEF Kept
<1>2. \A x \in Records : Kept(x) /\ x.ptr # r.ptr => Kept(x)'
  BY <1>1 DEF Kept
<1>3. \A x : Entered(x) => Entered(x)'
  BY DEF Entered
<1>4. \A h \in Hooks : r.ptr \notin DOMAIN sizes[h]
  BY DEF BlocksInv, BackedInv
<1>5. \A x \in Records : Entered(x) => x.ptr # r.ptr
  BY <1>4 DEF Entered, Records
<1>6. /\ \A x \in arrays : Kept(x) /\ Entered(x) /\ x \in Records
      /\ \A d \in Contexts : \A x \in claims[d] : Kept(x) /\ Entered(x) /\ x \in Records
  BY DEF BlocksInv, BackedInv, AllRecords
<1>7. ASSUME NEW d \in Contexts, NEW x \in inHand'[d]
      PROVE  x \in inHand[d] /\ x.ptr # r.ptr /\ x \in Records
  BY <1>7 DEF OthersKeep, BlocksInv, ApartInv, AllRecords
<1>8. BackedInv'
  <2>1. \A x \in arrays' : Kept(x)' /\ Entered(x)'
    BY <1>2, <1>3, <1>5, <1>6
  <2>2. \A d \in Contexts : \A x \in claims'[d] : Kept(x)' /\ Entered(x)'
    BY <1>2, <1>3, <1>5, <1>6 DEF OthersKeep
  <2>3. \A d \in Contexts : \A x \in inHand'[d] :
          Kept(x)' /\ \A h \in Hooks : x.ptr \notin DOMAIN sizes'[h]
    BY <1>2, <1>7 DEF BlocksInv, BackedInv
  <2>. QED  BY <2>1, <2>2, <2>3 DEF BackedInv
<1>9. ApartInv'
  <2>1. \A d \in Contexts : \A x \in claims'[d] : \A q \in arrays' : x.ptr # q.ptr
    BY DEF BlocksInv, ApartInv, OthersKeep
  <2>2. \A x, q \in arrays' : x.ptr = q.ptr => x = q
    BY DEF BlocksInv, ApartInv
  <2>3. \A d, e \in Contexts : \A x \in claims'[d], q \in claims'[e] :
          x.ptr = q.ptr => d = e /\ x = q
    BY DEF BlocksInv, ApartInv, OthersKeep
  <2>4. \A d, e \in Contexts : \A x \in inHand'[d], q \in inHand'[e] : x.ptr = q.ptr => d = e
    BY <1>7 DEF BlocksInv, ApartInv
  <2>. QED  BY <2>1, <2>2, <2>3, <2>4 DEF ApartInv
<1>10. OwnedInv'
  <2>1. ASSUME NEW h \in Hooks, NEW p \in DOMAIN sizes[h]
        PROVE  \/ \E x \in arrays' : x.ptr = p /\ x.h = h
               \/ \E d \in Contexts : \E x \in claims'[d] : x.ptr = p /\ x.h = h
    <3>1. \/ \E x \in arrays : x.ptr = p /\ x.h = h
          \/ \E d \in Contexts : \E x \in claims[d] : x.ptr = p /\ x.h = h
      BY DEF BlocksInv, OwnedInv
    <3>. QED  BY <3>1 DEF OthersKeep
  <2>2. ASSUME NEW p \in DOMAIN heap', p \notin lost'
        PROVE  \/ \E h \in Hooks : p \in DOMAIN sizes[h]
               \/ \E d \in Contexts : \E x \in inHand'[d] : x.ptr = p
    <3>1. p \in DOMAIN heap /\ p \notin lost /\ p # r.ptr
      BY <1>1, <2>2
    <3>2. \/ \E h \in Hooks : p \in DOMAIN sizes[h]
          \/ \E d \in Contexts : \E x \in inHand[d] : x.ptr = p
      BY <3>1 DEF BlocksInv, OwnedInv
    <3>. QED  BY <3>1, <3>2 DEF OthersKeep
  <2>. QED  BY <2>1, <2>2 DEF OwnedInv
<1>. QED  BY <1>1, <1>8, <1>9, <1>10 DEF BlocksInv

LEMMA MemoryInit == Init => MemoryInv
<1>1. SUFFICES ASSUME InitInstallers, arrays = {}, lost = {}, ~refused,
                      sizes = [h \in Hooks |-> NoBlocks], heap = NoBlocks
               PROVE  MemoryInv
  BY DEF Init, InitHandlers
<1>2. DOMAIN heap = {} /\ \A h \in Hooks : DOMAIN sizes[h] = {}
  BY <1>1 DEF NoBlocks
<1>3. \A c \in Contexts : pc[c] = "idle"
  BY <1>1 DEF InitInstallers
<1>4. \A c \in Contexts : claims[c] = {} /\ inHand[c] = {}
  BY <1>3 DEF claims, inHand, Claimed, InHand, CallPlaces
<1>. QED  BY <1>1, <1>2, <1>3, <1>4
          DEF MemoryInv, BlocksInv, BackedInv, ApartInv, OwnedInv, MovesInv

\* A call on its way to another place than the move keeps MovesInv.
LEMMA MovesKept ==
  ASSUME InstallersTyped, MovesInv, NEW c \in Contexts, NEW to, NEW j, Goto(c, to, j),
         to = "move" => \A a \in j.array : a.ptr # j.ptr
  PROVE  MovesInv'
BY OthersStay DEF MovesInv

LEMMA MemoryQuiet == ASSUME MemoryInv, CallsInv, Quiet PROVE MemoryInv'
<1>1. \A c \in Contexts : claims'[c] = claims[c] /\ inHand'[c] = inHand[c]
  <2>1. ASSUME NEW c \in Contexts PROVE claims'[c] = claims[c] /\ inHand'[c] = inHand[c]
    <3>1. /\ claims[c] = Claimed(pc[c], job[c]) /\ inHand[c] = InHand(pc[c], job[c])
          /\ claims'[c] = Claimed(pc'[c], job'[c]) /\ inHand'[c] = InHand(pc'[c], job'[c])
      BY DEF claims, inHand, Claimed, InHand
    <3>2. CASE pc[c] \in CallPlaces \/ pc'[c] \in CallPlaces
      BY <3>1, <3>2 DEF Quiet, CallsStay
    <3>3. CASE pc[c] \notin CallPlaces /\ pc'[c] \notin CallPlaces
      BY <3>1, <3>3 DEF Claimed, InHand, CallPlaces
    <3>. QED  BY <3>2, <3>3
  <2>. QED  BY <2>1
<1>2. UNCHANGED <<sizes, heap, arrays, lost, refused>>
  BY DEF Quiet
<1>3. \A x : (Kept(x) => Kept(x)') /\ (Entered(x) => Entered(x)')
  BY <1>2 DEF Kept, Entered
<1>4. MovesInv'
  BY DEF MemoryInv, MovesInv, Quiet, CallsStay, CallPlaces
<1>5. BackedInv' /\ ApartInv' /\ OwnedInv'
  BY <1>1, <1>2, <1>3 DEF MemoryInv, BlocksInv, BackedInv, ApartInv, OwnedInv
<1>. QED  BY <1>2, <1>4, <1>5 DEF MemoryInv, BlocksInv

\* The table that goes with a capsule is empty.
LEMMA MemoryOutlivesCapsules ==
  ASSUME MemoryInv, CallsInv, NEW h \in Hooks, CapsuleDies(h)
  PROVE  MemoryInv'
<1>1. /\ ~Referenced(h) /\ sizes' = [sizes EXCEPT ![h] = NoBlocks]
      /\ UNCHANGED <<pc, job, heap, arrays, lost, refused>>
  BY DEF CapsuleDies
<1>2. DOMAIN sizes[h] = {}
  <2>1. ASSUME NEW p \in DOMAIN sizes[h] PROVE FALSE
    <3>1. CASE \E x \in arrays : x.ptr = p /\ x.h = h
      BY <1>1, <3>1 DEF Referenced
    <3>2. CASE \E d \in Contexts : \E x \in claims[d] : x.ptr = p /\ x.h = h
      <4>1. PICK d \in Contexts : pc[d] \in CallPlaces /\ job[d].hook = h
        BY <3>2, HandsAreRecords
      <4>. QED  BY <1>1, <4>1 DEF Referenced, InCallback, CallPlaces
    <3>. QED  BY <3>1, <3>2 DEF MemoryInv, BlocksInv, OwnedInv
  <2>. QED  BY <2>1
<1>3. /\ DOMAIN sizes' = Hooks
      /\ \A g \in Hooks : DOMAIN sizes'[g] = DOMAIN sizes[g]
      /\ \A g \in Hooks : \A p \in DOMAIN sizes[g] : sizes'[g][p] = sizes[g][p]
  BY <1>1, <1>2 DEF MemoryInv, NoBlocks
<1>4. \A c \in Contexts : claims'[c] = claims[c] /\ inHand'[c] = inHand[c]
  BY <1>1 DEF claims, inHand
<1>5. \A x \in Records : (Kept(x) => Kept(x)') /\ (Entered(x) => Entered(x)')
  BY <1>1, <1>3 DEF Kept, Entered, Records
<1>6. /\ arrays \subseteq Records
      /\ \A c \in Contexts : claims[c] \subseteq Records /\ inHand[c] \subseteq Records
  BY HandsAreRecords DEF CallsInv
<1>7. BackedInv'
  BY <1>1, <1>3, <1>4, <1>5, <1>6 DEF MemoryInv, BlocksInv, BackedInv
<1>8. ApartInv'
  BY <1>1, <1>4 DEF MemoryInv, BlocksInv, ApartInv
<1>9. OwnedInv'
  BY <1>1, <1>3, <1>4 DEF MemoryInv, BlocksInv, OwnedInv
<1>10. MovesInv'
  BY <1>1 DEF MemoryInv, MovesInv
<1>. QED  BY <1>1, <1>3, <1>7, <1>8, <1>9, <1>10 DEF MemoryInv, BlocksInv

LEMMA MemoryStep ==
  ASSUME InstallersInv, CallsInv, HandlersOutlive, MemoryInv,
         NEW c \in Contexts, HandlerStep(c)
  PROVE  MemoryInv'
<1>0. /\ InstallersTyped /\ CallPlaces = {"grow", "record", "move", "release"}
      /\ DOMAIN sizes = Hooks /\ lost \subseteq DOMAIN heap /\ ~refused
      /\ BlocksInv /\ MovesInv /\ arrays \subseteq Records
  BY DEF InstallersInv, CallPlaces, MemoryInv, CallsInv
<1>1. AllRecords
  BY HandsAreRecords DEF AllRecords, CallsInv
<1>2. claims[c] = Claimed(pc[c], job[c]) /\ inHand[c] = InHand(pc[c], job[c])
  BY HandsAreRecords
<1>3. /\ \A j : Claimed("idle", j) = {} /\ InHand("idle", j) = {}
      /\ \A j : Claimed("grow", j) = j.array /\ InHand("grow", j) = {}
      /\ \A j : Claimed("record", j) = j.array
                /\ InHand("record", j) = {Array(j.ptr, j.n, j.hook)}
      /\ \A j : Claimed("move", j) = j.array \cup {Array(j.ptr, j.n, j.hook)}
                /\ InHand("move", j) = {}
      /\ \A j : Claimed("release", j) = j.array
                /\ InHand("release", j) = {Array(j.ptr, j.n, j.hook)}
  BY DEF Claimed, InHand, CallPlaces
<1>4. \A p, n, h : /\ Array(p, n, h).ptr = p /\ Array(p, n, h).n = n /\ Array(p, n, h).h = h
                   /\ p \in Ptrs /\ n \in Numbers /\ h \in Hooks => Array(p, n, h) \in Records
  BY DEF Array, Records
<1>5. \A p, n, h : Job(h, n, p).ptr = p /\ Job(h, n, p).n = n /\ Job(h, n, p).hook = h
                   /\ Job(h, n, p).array = {}
  BY DEF Job
<1>6. ASSUME NEW h \in Hooks, NEW n \in Sizes, NEW ptr \in Ptrs, Malloc(c, h, n, ptr)
      PROVE  MemoryInv'
  <2> DEFINE r == Array(ptr, n, h)
  <2>1. /\ pc[c] = "idle" /\ ptr \notin DOMAIN heap
        /\ heap' = With(heap, ptr, [n |-> n, hook |-> h])
        /\ Goto(c, "record", Job(h, n, ptr))
        /\ UNCHANGED <<sizes, arrays, lost, refused>>
    BY <1>6 DEF Malloc, GiveOut
  <2>2. /\ claims[c] = {} /\ inHand[c] = {} /\ claims'[c] = {} /\ inHand'[c] = {r}
        /\ OthersKeep(c)
    BY <1>0, <1>2, <1>3, <1>5, <2>1, HandsMove
  <2>3. r \in Records /\ r.ptr = ptr /\ r.n = n /\ r.h = h
    BY <1>4 DEF Numbers
  <2>4. MovesInv'
    BY <1>0, <2>1, MovesKept
  <2> HIDE DEF r
  <2>5. BlocksInv' /\ lost' \subseteq DOMAIN heap'
    BY <1>0, <1>1, <2>1, <2>2, <2>3, Obtained
  <2>. QED  BY <1>0, <2>1, <2>4, <2>5 DEF MemoryInv
<1>7. ASSUME NEW ptr \in Ptrs, Grow(c, ptr) PROVE MemoryInv'
  <2> DEFINE j == [job[c] EXCEPT !.ptr = ptr]
             r == Array(ptr, job[c].n, job[c].hook)
  <2>1. /\ pc[c] = "grow" /\ ptr \notin DOMAIN heap
        /\ heap' = With(heap, ptr, [n |-> job[c].n, hook |-> job[c].hook])
        /\ Goto(c, "record", j)
        /\ UNCHANGED <<sizes, arrays, lost, refused>>
    BY <1>7 DEF Grow, GiveOut
  <2>2. \A k \in Calls : LET m == [k EXCEPT !.ptr = ptr] IN
          m.ptr = ptr /\ m.hook = k.hook /\ m.n = k.n /\ m.array = k.array
    BY DEF Calls
  <2>3. j.ptr = ptr /\ j.hook = job[c].hook /\ j.n = job[c].n /\ j.array = job[c].array
    BY <1>0, <2>1, <2>2, FieldsOfCalls
  <2>4. r \in Records /\ r.ptr = ptr /\ r.n = job[c].n /\ r.h = job[c].hook
    BY <1>0, <1>4, <2>1, FieldsOfCalls
  <2> HIDE DEF j
  <2>5. /\ inHand[c] = {} /\ claims'[c] = claims[c] /\ inHand'[c] = {r}
        /\ OthersKeep(c)
    BY <1>0, <1>2, <1>3, <2>1, <2>3, HandsMove
  <2>6. MovesInv'
    BY <1>0, <2>1, MovesKept
  <2> HIDE DEF r
  <2>7. BlocksInv' /\ lost' \subseteq DOMAIN heap'
    BY <1>0, <1>1, <2>1, <2>4, <2>5, Obtained
  <2>. QED  BY <1>0, <2>1, <2>6, <2>7 DEF MemoryInv
<1>8. ASSUME GrowFails(c) PROVE MemoryInv'
  <2>1. /\ pc[c] = "grow" /\ arrays' = arrays \cup job[c].array /\ Goto(c, "idle", NoJob)
        /\ UNCHANGED <<sizes, heap, lost, refused>>
    BY <1>8 DEF GrowFails, Return
  <2>2. /\ claims[c] = job[c].array /\ inHand[c] = {} /\ claims'[c] = {} /\ inHand'[c] = {}
        /\ OthersKeep(c)
    BY <1>0, <1>2, <1>3, <2>1, HandsMove
  <2>3. MovesInv'
    BY <1>0, <2>1, MovesKept
  <2>4. BlocksInv'
    BY <1>0, <2>1, <2>2, PutBack
  <2>. QED  BY <1>0, <2>1, <2>3, <2>4 DEF MemoryInv
<1>9. ASSUME NEW a \in arrays, NEW n, Realloc(c, a, n) PROVE MemoryInv'
  <2>1. /\ pc[c] = "idle" /\ arrays' = arrays \ {a} /\ Goto(c, "grow", ReallocJob(a, n))
        /\ UNCHANGED <<sizes, heap, lost, refused>>
    BY <1>9 DEF Realloc
  <2>2. ReallocJob(a, n).array = {a}
    BY DEF ReallocJob
  <2>3. /\ claims[c] = {} /\ inHand[c] = {} /\ claims'[c] = {a} /\ inHand'[c] = {}
        /\ OthersKeep(c)
    BY <1>0, <1>2, <1>3, <2>1, <2>2, HandsMove
  <2>4. MovesInv'
    BY <1>0, <2>1, MovesKept
  <2>5. BlocksInv'
    BY <1>0, <2>1, <2>3, Taken
  <2>. QED  BY <1>0, <2>1, <2>4, <2>5 DEF MemoryInv
<1>10. ASSUME Record(c) PROVE MemoryInv'
  <2> DEFINE j == job[c]
             r == Array(j.ptr, j.n, j.hook)
  <2>1. /\ pc[c] = "record"
        /\ sizes' = [sizes EXCEPT ![j.hook] = With(@, j.ptr, j.n)]
        /\ UNCHANGED <<heap, lost, refused>>
    BY <1>10 DEF Record
  <2>2. r \in Records /\ r.ptr = j.ptr /\ r.n = j.n /\ r.h = j.hook
    BY <1>0, <1>4, <2>1, FieldsOfCalls
  <2>3. claims[c] = j.array /\ inHand[c] = {r}
    BY <1>2, <1>3, <2>1
  <2>4. DOMAIN sizes' = Hooks
    BY <1>0, <2>1
  <2>5. CASE j.array = {}
    <3>1. arrays' = arrays \cup {r} /\ Goto(c, "idle", NoJob)
      BY <1>10, <2>5 DEF Record, Return
    <3>2. claims'[c] = {} /\ inHand'[c] = {} /\ OthersKeep(c)
      BY <1>0, <1>3, <3>1, HandsMove
    <3>3. MovesInv'
      BY <1>0, <3>1, MovesKept
    <3> HIDE DEF r, j
    <3>4. BlocksInv'
      BY <1>0, <1>1, <2>1, <2>2, <2>3, <2>5, <3>1, <3>2, Recorded
    <3>. QED  BY <1>0, <2>1, <2>4, <3>3, <3>4 DEF MemoryInv
  <2>6. CASE j.array # {}
    <3>1. arrays' = arrays /\ Goto(c, "move", j)
      BY <1>10, <2>6 DEF Record
    <3>2. claims'[c] = claims[c] \cup {r} /\ inHand'[c] = {} /\ OthersKeep(c)
      BY <1>0, <1>3, <2>3, <3>1, HandsMove
    <3> HIDE DEF r, j
    <3>3. BlocksInv' /\ \A a \in claims[c] : a.ptr # r.ptr
      BY <1>0, <1>1, <2>1, <2>2, <2>3, <3>1, <3>2, Recorded
    <3>4. MovesInv'
      BY <1>0, <2>2, <2>3, <3>1, <3>3, MovesKept
    <3>. QED  BY <1>0, <2>1, <2>4, <3>3, <3>4 DEF MemoryInv
  <2>. QED  BY <2>5, <2>6
<1>11. ASSUME Move(c) PROVE MemoryInv'
  <2> DEFINE j == job[c]
             new == Array(j.ptr, j.n, j.hook)
  <2>1. /\ pc[c] = "move" /\ arrays' = arrays
        /\ sizes' = [sizes EXCEPT ![j.hook] = Without(@, OldPtr(j))]
        /\ Goto(c, "release", Moved(j))
        /\ UNCHANGED <<heap, lost, refused>>
    BY <1>11 DEF Move
  <2>2. PICK a \in Records :
          j.array = {a} /\ j.was = a.n /\ OldPtr(j) = a.ptr /\ a.h = j.hook
    BY <2>1, OldArray
  <2>3. /\ Moved(j).hook = j.hook /\ Moved(j).n = j.was /\ Moved(j).ptr = OldPtr(j)
        /\ Moved(j).array = {new}
    BY <2>1, MovedCall
  <2>4. a = Array(a.ptr, a.n, a.h)
    BY <2>2 DEF Array, Records
  <2>5. /\ claims[c] = {a, new} /\ inHand[c] = {} /\ claims'[c] = {new} /\ inHand'[c] = {a}
        /\ OthersKeep(c)
    BY <1>0, <1>2, <1>3, <2>1, <2>2, <2>3, <2>4, HandsMove
  <2>6. a # new
    BY <1>0, <1>4, <2>1, <2>2 DEF MovesInv
  <2>7. DOMAIN sizes' = Hooks /\ MovesInv'
    BY <1>0, <2>1, MovesKept
  <2> HIDE DEF j, new
  <2>8. a \in claims[c] /\ claims'[c] = claims[c] \ {a}
    BY <2>5, <2>6
  <2>9. BlocksInv'
    BY <1>0, <1>1, <2>1, <2>2, <2>5, <2>8, TakenOut
  <2>. QED  BY <1>0, <2>1, <2>7, <2>9 DEF MemoryInv
<1>12. ASSUME NEW a \in arrays, Free(c, a) PROVE MemoryInv'
  <2>1. a \in Records /\ a.h \in Hooks /\ Entered(a) /\ a = Array(a.ptr, a.n, a.h)
    BY <1>0 DEF Records, BlocksInv, BackedInv, Array
  <2>2. a.h \in live
    BY <2>1 DEF HandlersOutlive, Referenced, CallsInv
  <2>3. sizes[a.h][a.ptr] = a.n /\ a.ptr \in DOMAIN sizes[a.h]
    BY <2>1 DEF Entered
  <2>4. /\ pc[c] = "idle" /\ arrays' = arrays \ {a}
        /\ sizes' = [sizes EXCEPT ![a.h] = Without(@, a.ptr)]
        /\ Goto(c, "release", Job(a.h, a.n, a.ptr))
        /\ UNCHANGED <<heap, lost, refused>>
    BY <1>12, <2>2, <2>3 DEF Free
  <2>5. /\ claims[c] = {} /\ inHand[c] = {} /\ claims'[c] = {} /\ inHand'[c] = {a}
        /\ OthersKeep(c)
    BY <1>0, <1>2, <1>3, <1>5, <2>1, <2>4, HandsMove
  <2>6. DOMAIN sizes' = Hooks /\ MovesInv'
    BY <1>0, <2>4, MovesKept
  <2>7. BlocksInv'
    BY <1>0, <1>1, <2>1, <2>4, <2>5, TakenOut
  <2>. QED  BY <1>0, <2>4, <2>6, <2>7 DEF MemoryInv
<1>13. ASSUME Release(c) PROVE MemoryInv'
  <2> DEFINE j == job[c]
             r == Array(j.ptr, j.n, j.hook)
  <2>1. /\ pc[c] = "release" /\ arrays' = arrays \cup j.array /\ Goto(c, "idle", NoJob)
        /\ sizes' = sizes
    BY <1>13 DEF Release, Return
  <2>2. r \in Records /\ r.ptr = j.ptr /\ r.n = j.n /\ r.h = j.hook
    BY <1>0, <1>4, <2>1, FieldsOfCalls
  <2>3. /\ claims[c] = j.array /\ inHand[c] = {r} /\ claims'[c] = {} /\ inHand'[c] = {}
        /\ OthersKeep(c)
    BY <1>0, <1>2, <1>3, <2>1, HandsMove
  <2>4. Kept(r)
    BY <1>0, <2>3 DEF BlocksInv, BackedInv
  <2>5. j.ptr \in DOMAIN heap /\ heap[j.ptr].n = j.n
    BY <2>2, <2>4 DEF Kept
  <2>6. /\ refused' = refused
        /\ \/ heap' = Without(heap, j.ptr) /\ lost' = lost
           \/ heap' = heap /\ lost' = lost \cup {j.ptr}
    BY <1>13, <2>5 DEF Release
  <2>7. MovesInv'
    BY <1>0, <2>1, MovesKept
  <2> HIDE DEF j, r
  <2>8. BlocksInv' /\ lost' \subseteq DOMAIN heap'
    BY <1>0, <1>1, <2>1, <2>2, <2>3, <2>6, Returned
  <2>. QED  BY <1>0, <2>1, <2>6, <2>7, <2>8 DEF MemoryInv
<1>. QED  BY <1>6, <1>7, <1>8, <1>9, <1>10, <1>11, <1>12, <1>13 DEF HandlerStep

HandlersInv == CallsInv /\ HandlersOutlive /\ MemoryInv

LEMMA HandlersAlways == Spec => []HandlersInv
<1>1. Init => HandlersInv
  BY CallsInit, MemoryInit DEF HandlersInv
<1>2. ASSUME InstallersInv, HandlersInv, [Next]_vars PROVE HandlersInv'
  <2>1. InstallerMoves /\ HandlerMoves
    BY <1>2, StepsOfInstallers, StepsOfHandlers
  <2>2. HandlersOutlive'
    BY <1>2, <2>1, OutliveStep DEF HandlersInv
  <2>3. CASE Quiet
    BY <1>2, <2>1, <2>2, <2>3, CallsQuiet, MemoryQuiet DEF HandlersInv
  <2>4. ASSUME NEW h \in Hooks, CapsuleDies(h) PROVE HandlersInv'
    <3>1. /\ UNCHANGED <<library, pc, job, arrays>>
          /\ live' = live \ {h}
      BY <2>4 DEF CapsuleDies, hooks
    <3>2. CallsInv'
      BY <1>2, <3>1 DEF HandlersInv, CallsInv, InCallback
    <3>. QED  BY <1>2, <2>2, <2>4, <3>2, MemoryOutlivesCapsules DEF HandlersInv
  <2>5. ASSUME NEW c \in Contexts, HandlerStep(c) PROVE HandlersInv'
    BY <1>2, <2>2, <2>5, CallsStep, MemoryStep DEF HandlersInv
  <2>. QED  BY <2>1, <2>3, <2>4, <2>5 DEF HandlerMoves
<1>. QED  BY InstallersAlways, <1>1, <1>2, PTL DEF Spec

\* "The state behind a capsule [...] is retired by the capsule's destructor, not by
\* `uninstall()`": whatever can still call a handler finds its state.
THEOREM HandlersOutliveUninstall == Spec => []HandlersOutlive
<1>1. HandlersInv => HandlersOutlive
  BY DEF HandlersInv
<1>. QED  BY HandlersAlways, <1>1, PTL

LEMMA BackedArrays == MemoryInv => ArraysBacked
BY DEF MemoryInv, BlocksInv, BackedInv, ApartInv, ArraysBacked, Kept, Entered

LEMMA NothingStrandedThen == HandlersInv => NothingStranded
<1>1. SUFFICES ASSUME HandlersInv, NEW p \in DOMAIN heap \ lost
               PROVE  \/ \E h \in live : heap[p].hook = h /\ p \in DOMAIN sizes[h]
                      \/ \E c \in Contexts : HasBlock(c) /\ job[c].ptr = p
  BY DEF NothingStranded
<1>2. CallsInv /\ HandlersOutlive /\ BackedInv /\ OwnedInv
  BY <1>1 DEF HandlersInv, MemoryInv, BlocksInv
<1>3. ASSUME NEW h \in Hooks, p \in DOMAIN sizes[h]
      PROVE  h \in live /\ heap[p].hook = h
  <2>1. ASSUME NEW x \in arrays, x.ptr = p, x.h = h PROVE h \in live /\ heap[p].hook = h
    <3>1. Kept(x) /\ library[h] = NumPy /\ Referenced(h)
      BY <1>2, <2>1 DEF BackedInv, CallsInv, Referenced
    <3>. QED  BY <1>2, <2>1, <3>1 DEF HandlersOutlive, Kept
  <2>2. ASSUME NEW d \in Contexts, NEW x \in claims[d], x.ptr = p, x.h = h
        PROVE  h \in live /\ heap[p].hook = h
    <3>1. pc[d] \in CallPlaces /\ job[d].hook = h
      BY <1>2, <2>2, HandsAreRecords
    <3>2. Kept(x) /\ library[h] = NumPy /\ Referenced(h)
      BY <1>2, <2>2, <3>1, FieldsOfCalls DEF BackedInv, Referenced, InCallback, CallPlaces
    <3>. QED  BY <1>2, <2>2, <3>2 DEF HandlersOutlive, Kept
  <2>. QED  BY <1>2, <1>3, <2>1, <2>2 DEF OwnedInv
<1>4. ASSUME NEW d \in Contexts, NEW x \in inHand[d], x.ptr = p
      PROVE  HasBlock(d) /\ job[d].ptr = p
  <2>1. inHand[d] = InHand(pc[d], job[d])
    BY DEF inHand
  <2>. QED  BY <1>4, <2>1 DEF InHand, Array, HasBlock
<1>. QED  BY <1>1, <1>2, <1>3, <1>4 DEF OwnedInv
-------------------------------------------------------------------------------
(***************************************************************************)
(* Every block of Numba's has one owner                                    *)
(***************************************************************************)
DevicePlaces == {"enter", "free"}
HandsStay ==
  \A d \in Contexts :
    pc[d] \in DevicePlaces \/ pc'[d] \in DevicePlaces => pc'[d] = pc[d] /\ job'[d] = job[d]

\* Steps in which nothing happens to Numba's memory.
DeviceQuiet ==
  HandsStay /\ UNCHANGED <<blocks, allocations, pointers, strays, resets, misgiven>>

DeviceMoves == DeviceQuiet \/ \E c \in Contexts : DeviceStep(c)

LEMMA NothingInHand ==
  ASSUME InstallersTyped, NEW c \in Contexts, NEW to, NEW j, Goto(c, to, j),
         pc[c] \notin DevicePlaces, to \notin DevicePlaces
  PROVE  HandsStay
BY OthersStay DEF HandsStay

LEMMA DeviceQuietIf == ASSUME HandsStay, UNCHANGED numbaVars PROVE DeviceQuiet
BY DEF DeviceQuiet, numbaVars

LEMMA StepsOfDevice == ASSUME InstallersTyped, [Next]_vars PROVE DeviceMoves
<1>0. /\ {"idle", "replace", "restore"} \cap DevicePlaces = {}
      /\ ({"idle"} \cup CallPlaces) \cap DevicePlaces = {}
  BY DEF DevicePlaces, CallPlaces
<1>1. CASE UNCHANGED vars
  BY <1>1 DEF vars, device, HandsStay, DeviceQuiet, DeviceMoves
<1>2. CASE NumPyStep
  <2>0. UNCHANGED numbaVars
    BY <1>2 DEF NumPyStep, device, numbaVars
  <2>1. ASSUME NEW c \in Contexts, NEW h \in Hooks, InstallNumPy(c, h) PROVE HandsStay
    BY <2>1 DEF InstallNumPy, Exchange, HandsStay
  <2>2. ASSUME NEW c \in Contexts, CaptureHandler(c) PROVE HandsStay
    BY <2>2 DEF CaptureHandler, HandsStay
  <2>3. ASSUME NEW c \in Contexts, HandlerStep(c) PROVE HandsStay
    <3>1. HandlerGoes(c)
      BY <2>3, HandlersGo
    <3>2. CASE UNCHANGED <<pc, job>>
      BY <3>2 DEF HandsStay
    <3>3. ASSUME NEW to \in {"idle"} \cup CallPlaces, NEW j,
                 pc[c] \in {"idle"} \cup CallPlaces, Goto(c, to, j)
          PROVE  HandsStay
      BY <1>0, <3>3, NothingInHand
    <3>. QED  BY <3>1, <3>2, <3>3 DEF HandlerGoes
  <2>4. ASSUME NEW h \in Hooks, DropCaptured(h) \/ CapsuleDies(h) PROVE HandsStay
    BY <2>4 DEF DropCaptured, CapsuleDies, HandsStay
  <2>. QED  BY <1>2, <2>0, <2>1, <2>2, <2>3, <2>4, DeviceQuietIf DEF NumPyStep, DeviceMoves
<1>3. ASSUME NEW c \in Contexts, NEW h, NEW l, Capture(c, h, l) PROVE HandsStay
  <2>1. pc[c] = "idle" /\ Goto(c, "replace", [hook |-> h, top |-> Top(Slot(l, c))])
    BY <1>3 DEF Capture
  <2>. QED  BY <1>0, <2>1, NothingInHand
<1>4. CASE DeviceLibraryStep
  <2>1. ASSUME NEW c \in Contexts, NEW h \in Hooks, NEW l, NEW links, InstallDevice(c, h, l, links)
        PROVE  DeviceQuiet
    BY <1>3, <2>1, DeviceQuietIf DEF InstallDevice
  <2>2. ASSUME NEW c \in Contexts, NEW h \in Hooks, InstallNumba(c, h) PROVE DeviceQuiet
    BY <1>3, <2>2 DEF InstallNumba, device, DeviceQuiet
  <2>. QED  BY <1>4, <2>1, <2>2 DEF DeviceLibraryStep, DeviceMoves
<1>5. CASE DeviceProgramStep
  BY <1>5 DEF DeviceProgramStep, CreateContext, SetCurrent, numbaVars, HandsStay, DeviceQuiet,
              DeviceMoves
<1>6. CASE InstallerStep
  <2>0. UNCHANGED numbaVars
    BY <1>6 DEF InstallerStep, device, numbaVars
  <2>1. ASSUME NEW c \in Contexts, Replace(c) \/ Restore(c) PROVE HandsStay
    BY <1>0, <2>1, NothingInHand DEF Replace, Restore, Return
  <2>2. ASSUME NEW c \in Contexts, NEW h \in Hooks, Uninstall(c, h) PROVE HandsStay
    BY <1>0, <2>2, NothingInHand DEF Uninstall
  <2>3. ASSUME NEW h \in Hooks, Drop(h) PROVE HandsStay
    BY <2>3 DEF Drop, HandsStay
  <2>. QED  BY <1>6, <2>0, <2>1, <2>2, <2>3, DeviceQuietIf
            DEF InstallerStep, EndUninstall, DeviceMoves
<1>. QED  BY <1>1, <1>2, <1>4, <1>5, <1>6 DEF Next

LEMMA DeviceInit == Init => DeviceInv
<1>1. SUFFICES ASSUME InitInstallers, InitDevice PROVE DeviceInv
  BY DEF Init
<1>2. /\ DOMAIN blocks = {} /\ DOMAIN allocations = {} /\ pointers = {} /\ resets = 0
      /\ ~misgiven /\ strays = [p \in Addresses |-> 0]
  BY <1>1 DEF InitDevice
<1>3. \A c \in Contexts : pc[c] = "idle" /\ hands[c] = {}
  BY <1>1 DEF InitInstallers, hands, Hand
<1>. QED  BY <1>2, <1>3 DEF DeviceInv, MappingInv, OwesInv, StraysInv, HeldInv, LeftInv

LEMMA DeviceStaysQuiet == ASSUME DeviceInv, DeviceQuiet PROVE DeviceInv'
<1>1. \A c \in Contexts : hands'[c] = hands[c]
  BY DEF hands, Hand, DeviceQuiet, HandsStay, DevicePlaces
<1>2. /\ UNCHANGED <<blocks, allocations, pointers, strays, resets, misgiven>>
      /\ \A c \in Contexts :
           pc'[c] \in {"enter", "free"} => pc'[c] = pc[c] /\ job'[c] = job[c]
  BY DEF DeviceQuiet, HandsStay, DevicePlaces
<1>. QED  BY <1>1, <1>2, SMTT(30) DEF DeviceInv, MappingInv, OwesInv, StraysInv, HeldInv, LeftInv

\* A call of Goto moves what its context has in hand only.
LEMMA HandsMoveOn ==
  ASSUME InstallersTyped, NEW c \in Contexts, NEW to, NEW j, Goto(c, to, j)
  PROVE  /\ hands[c] = Hand(pc[c], job[c]) /\ hands'[c] = Hand(to, j)
         /\ \A d \in Contexts \ {c} : hands'[d] = hands[d]
<1>1. /\ pc'[c] = to /\ job'[c] = j
      /\ \A d \in Contexts \ {c} : pc'[d] = pc[d] /\ job'[d] = job[d]
  BY OthersStay
<1>2. \A d \in Contexts : hands[d] = Hand(pc[d], job[d]) /\ hands'[d] = Hand(pc'[d], job'[d])
  BY DEF hands, Hand
<1>. QED  BY <1>1, <1>2

\* Some entries leave the mapping, and the call that popped them has their buffers.
LEMMA PopsHandOver ==
  ASSUME InstallersTyped, HeldInv, LeftInv,
         \A p \in DOMAIN allocations : p \in DOMAIN blocks /\ allocations[p] = blocks[p],
         OwesInv, NEW c \in Contexts, NEW s, pc[c] = "idle", Pop(c, s), blocks' = blocks
  PROVE  /\ HeldInv' /\ LeftInv' /\ OwesInv'
         /\ DOMAIN allocations' = DOMAIN allocations \ s
         /\ \A p \in DOMAIN allocations' : allocations'[p] = allocations[p]
         /\ \A d \in Contexts : pc'[d] = "enter" => pc[d] = "enter" /\ job'[d] = job[d]
<1> DEFINE found == s \cap DOMAIN allocations
<1>1. /\ DOMAIN allocations' = DOMAIN allocations \ s
      /\ \A p \in DOMAIN allocations' : allocations'[p] = allocations[p]
  BY DEF Pop
<1>2. /\ hands[c] = {} /\ \A d \in Contexts \ {c} : hands'[d] = hands[d]
      /\ hands'[c] = Buffers(found)
      /\ \A d \in Contexts : pc'[d] = "enter" => pc[d] = "enter" /\ job'[d] = job[d]
      /\ OwesInv'
  <2>1. hands[c] = {}
    BY DEF hands, Hand
  <2>2. CASE found = {}
    <3>1. UNCHANGED <<pc, job>>
      BY <2>2 DEF Pop
    <3>2. \A d \in Contexts : hands'[d] = hands[d]
      BY <3>1 DEF hands, Hand
    <3>. QED  BY <2>1, <2>2, <3>1, <3>2 DEF Buffers, OwesInv
  <2>3. CASE found # {}
    <3> DEFINE j == [hook |-> manager, owed |-> Buffers(found)]
    <3>1. /\ Goto(c, "free", j) /\ j.owed = Buffers(found)
          /\ j = [hook |-> j.hook, owed |-> j.owed]
      BY <2>3 DEF Pop
    <3> HIDE DEF j
    <3>2. Hand("free", j) = Buffers(found)
      BY <3>1 DEF Hand
    <3>3. hands'[c] = Buffers(found) /\ \A d \in Contexts \ {c} : hands'[d] = hands[d]
      BY <3>1, <3>2, HandsMoveOn
    <3>4. /\ pc'[c] = "free" /\ job'[c] = j
          /\ \A d \in Contexts \ {c} : pc'[d] = pc[d] /\ job'[d] = job[d]
      BY <3>1, OthersStay
    <3>5. \A d \in Contexts : pc'[d] = "enter" => pc[d] = "enter" /\ job'[d] = job[d]
      BY <3>4
    <3>6. OwesInv'
      BY <3>1, <3>4 DEF OwesInv
    <3>. QED  BY <2>1, <3>3, <3>5, <3>6
  <2>. QED  BY <2>2, <2>3
<1>3. \A b : b \in Buffers(found) <=>
        \E p \in found : b = [ptr |-> p, mr |-> allocations[p]]
  BY DEF Buffers
<1>4. \A b \in Buffers(found) : b.ptr \in found /\ b.mr = allocations[b.ptr]
  BY <1>3
<1>5. ASSUME NEW p \in found PROVE \E b \in Buffers(found) : b.ptr = p
  <2>1. [ptr |-> p, mr |-> allocations[p]] \in Buffers(found)
    BY <1>3
  <2>. QED  BY <2>1
<1>6. \A b, q \in Buffers(found) : b.ptr = q.ptr => b = q
  BY <1>3
<1>7. \A p \in found : p \in DOMAIN allocations /\ p \notin DOMAIN allocations'
  BY <1>1
<1> HIDE DEF found
<1>8. HeldInv'
  <2>1. ASSUME NEW d \in Contexts, NEW b \in hands'[d]
        PROVE  b.ptr \in DOMAIN blocks /\ blocks[b.ptr] = b.mr /\ b.ptr \notin DOMAIN allocations'
    <3>1. CASE d = c
      BY <1>2, <1>4, <1>7, <3>1
    <3>2. CASE d # c
      BY <1>1, <1>2, <2>1, <3>2 DEF HeldInv
    <3>. QED  BY <3>1, <3>2
  <2>2. ASSUME NEW d \in Contexts \ {c}, NEW b \in hands[d] PROVE b.ptr \notin found
    BY <1>7, <2>2 DEF HeldInv
  <2>3. ASSUME NEW d \in Contexts, NEW e \in Contexts, NEW b \in hands'[d], NEW q \in hands'[e],
               b.ptr = q.ptr
        PROVE  d = e /\ b = q
    <3>1. CASE d = c /\ e = c
      BY <1>2, <1>6, <2>3, <3>1
    <3>2. CASE d = c /\ e # c
      BY <1>2, <1>4, <2>2, <2>3, <3>2
    <3>3. CASE d # c /\ e = c
      BY <1>2, <1>4, <2>2, <2>3, <3>3
    <3>4. CASE d # c /\ e # c
      BY <1>2, <2>3, <3>4 DEF HeldInv
    <3>. QED  BY <3>1, <3>2, <3>3, <3>4
  <2>. QED  BY <2>1, <2>3 DEF HeldInv
<1>9. \A p \in DOMAIN allocations : p \in found \/ p \in DOMAIN allocations'
  BY <1>1 DEF found
<1>10. LeftInv'
  <2>1. ASSUME NEW p \in DOMAIN blocks
        PROVE  p \in DOMAIN allocations' \/ \E d \in Contexts : \E b \in hands'[d] : b.ptr = p
    <3>1. CASE p \in DOMAIN allocations
      BY <1>2, <1>5, <1>9, <3>1
    <3>2. CASE p \notin DOMAIN allocations
      <4>1. \E d \in Contexts : \E b \in hands[d] : b.ptr = p
        BY <3>2 DEF LeftInv
      <4>. QED  BY <1>2, <4>1
    <3>. QED  BY <3>1, <3>2
  <2>. QED  BY <2>1 DEF LeftInv
<1>. QED  BY <1>1, <1>2, <1>8, <1>10

\* The finalizers and the reset take entries out of the mapping and their pointers away.
LEMMA EntriesGo ==
  ASSUME InstallersTyped, DeviceInv, NEW c \in Contexts, NEW s, pc[c] = "idle", Pop(c, s),
         pointers' = pointers \ s, UNCHANGED <<blocks, misgiven>>, StraysInv'
  PROVE  DeviceInv'
<1>1. /\ HeldInv' /\ LeftInv' /\ OwesInv'
      /\ DOMAIN allocations' = DOMAIN allocations \ s
      /\ \A p \in DOMAIN allocations' : allocations'[p] = allocations[p]
      /\ \A d \in Contexts : pc'[d] = "enter" => pc[d] = "enter" /\ job'[d] = job[d]
  BY PopsHandOver DEF DeviceInv, MappingInv
<1>2. MappingInv'
  BY <1>1 DEF DeviceInv, MappingInv
<1>. QED  BY <1>1, <1>2 DEF DeviceInv

LEMMA BlocksComeIn ==
  ASSUME InstallersTyped, DeviceInv, NEW c \in Contexts, NEW p \in Addresses, Memalloc(c, p)
  PROVE  DeviceInv'
<1> DEFINE j == [hook |-> manager, ptr |-> p, mr |-> current]
           b == [ptr |-> p, mr |-> current]
<1>1. /\ pc[c] = "idle" /\ p \notin DOMAIN blocks /\ blocks' = With(blocks, p, current)
      /\ Goto(c, "enter", j) /\ j.ptr = p /\ Hand("enter", j) = {b}
      /\ b.ptr = p /\ b.mr = current
      /\ UNCHANGED <<allocations, pointers, strays, resets, misgiven>>
  BY DEF Memalloc, Hand
<1> HIDE DEF j, b
<1>2. /\ hands'[c] = {b} /\ \A d \in Contexts \ {c} : hands'[d] = hands[d]
  BY <1>1, HandsMoveOn
<1>3. /\ pc'[c] = "enter" /\ job'[c] = j
      /\ \A d \in Contexts \ {c} : pc'[d] = pc[d] /\ job'[d] = job[d]
  BY <1>1, OthersStay
<1>4. /\ \A q \in DOMAIN blocks : q \in DOMAIN blocks' /\ q # p /\ blocks'[q] = blocks[q]
      /\ p \in DOMAIN blocks' /\ blocks'[p] = current
      /\ \A q \in DOMAIN blocks' : q \in DOMAIN blocks \/ q = p
  BY <1>1, OnePointMore
<1>5. /\ MappingInv' /\ OwesInv' /\ StraysInv' /\ ~misgiven'
      /\ p \notin DOMAIN allocations
  BY <1>1, <1>3, <1>4 DEF DeviceInv, MappingInv, OwesInv, StraysInv
<1>6. hands[c] = {}
  BY <1>1 DEF hands, Hand
<1>7. HeldInv'
  <2>1. ASSUME NEW d \in Contexts, NEW x \in hands'[d]
        PROVE  x.ptr \in DOMAIN blocks' /\ blocks'[x.ptr] = x.mr /\ x.ptr \notin DOMAIN allocations'
    BY <1>1, <1>2, <1>4, <1>5, <2>1 DEF DeviceInv, HeldInv
  <2>2. ASSUME NEW d \in Contexts \ {c}, NEW x \in hands[d] PROVE x.ptr # p
    BY <1>1, <2>2 DEF DeviceInv, HeldInv
  <2>3. ASSUME NEW d \in Contexts, NEW e \in Contexts, NEW x \in hands'[d], NEW y \in hands'[e],
               x.ptr = y.ptr
        PROVE  d = e /\ x = y
    <3>1. CASE d = c \/ e = c
      BY <1>1, <1>2, <2>2, <2>3, <3>1
    <3>2. CASE d # c /\ e # c
      BY <1>2, <2>3, <3>2 DEF DeviceInv, HeldInv
    <3>. QED  BY <3>1, <3>2
  <2>. QED  BY <2>1, <2>3 DEF HeldInv
<1>8. LeftInv'
  <2>1. ASSUME NEW q \in DOMAIN blocks, q \notin DOMAIN allocations
        PROVE  \E d \in Contexts : \E x \in hands'[d] : x.ptr = q
    <3>1. PICK d \in Contexts : \E x \in hands[d] : x.ptr = q
      BY <2>1 DEF DeviceInv, LeftInv
    <3>. QED  BY <1>2, <1>6, <3>1
  <2>2. \E d \in Contexts : \E x \in hands'[d] : x.ptr = p
    BY <1>1, <1>2
  <2>. QED  BY <1>1, <1>4, <2>1, <2>2 DEF LeftInv
<1>. QED  BY <1>5, <1>7, <1>8 DEF DeviceInv

LEMMA EntriesAreMade ==
  ASSUME InstallersTyped, DeviceInv, NEW c \in Contexts, Enter(c)
  PROVE  DeviceInv'
<1> DEFINE p == job[c].ptr
           b == [ptr |-> p, mr |-> job[c].mr]
<1>1. /\ pc[c] = "enter" /\ allocations' = With(allocations, p, job[c].mr)
      /\ pointers' = pointers \cup {p} /\ Goto(c, "idle", NoJob)
      /\ UNCHANGED <<blocks, strays, resets, misgiven>>
  BY DEF Enter, Return
<1>2. hands[c] = {b} /\ b.ptr = p /\ b.mr = job[c].mr
  BY <1>1 DEF hands, Hand
<1>3. p \in Addresses /\ p \in DOMAIN blocks /\ blocks[p] = job[c].mr /\ p \notin DOMAIN allocations
  BY <1>1, <1>2, ZenonT(40) DEF DeviceInv, MappingInv, HeldInv
<1>4. Hand("idle", NoJob) = {}
  BY DEF Hand
<1>5. /\ pc'[c] = "idle"
      /\ \A d \in Contexts \ {c} : pc'[d] = pc[d] /\ job'[d] = job[d]
  BY <1>1, OthersStay
<1> HIDE DEF b, p
<1>6. hands'[c] = {} /\ \A d \in Contexts \ {c} : hands'[d] = hands[d]
  BY <1>1, <1>4, HandsMoveOn
<1>7. /\ \A q : q \in DOMAIN allocations' <=> q \in DOMAIN allocations \/ q = p
      /\ allocations'[p] = job[c].mr
      /\ \A q \in DOMAIN allocations : q # p => allocations'[q] = allocations[q]
  BY <1>1, OnePointMore
<1>8. MappingInv'
  <2>1. pointers' = DOMAIN allocations'
    BY <1>1, <1>7 DEF DeviceInv, MappingInv
  <2>2. \A q \in DOMAIN allocations' : q \in DOMAIN blocks' /\ allocations'[q] = blocks'[q]
    BY <1>1, <1>3, <1>7 DEF DeviceInv, MappingInv
  <2>3. DOMAIN allocations' \subseteq Addresses
    BY <1>3, <1>7 DEF DeviceInv, MappingInv
  <2>4. \A d \in Contexts : pc'[d] = "enter" => job'[d].ptr \in Addresses
    BY <1>5 DEF DeviceInv, MappingInv
  <2>. QED  BY <2>1, <2>2, <2>3, <2>4 DEF MappingInv
<1>9. OwesInv' /\ StraysInv' /\ ~misgiven'
  BY <1>1, <1>5 DEF DeviceInv, OwesInv, StraysInv
<1>10. ASSUME NEW d \in Contexts \ {c}, NEW x \in hands[d] PROVE x.ptr # p
  BY <1>1, <1>2 DEF DeviceInv, HeldInv
<1>11. HeldInv'
  <2>1. ASSUME NEW d \in Contexts, NEW x \in hands'[d]
        PROVE  /\ d # c /\ x \in hands[d]
               /\ x.ptr \in DOMAIN blocks' /\ blocks'[x.ptr] = x.mr
               /\ x.ptr \notin DOMAIN allocations'
    BY <1>1, <1>6, <1>7, <1>10, <2>1 DEF DeviceInv, HeldInv
  <2>. QED  BY <2>1 DEF DeviceInv, HeldInv
<1>12. LeftInv'
  <2>1. ASSUME NEW q \in DOMAIN blocks, q \notin DOMAIN allocations'
        PROVE  \E d \in Contexts : \E x \in hands'[d] : x.ptr = q
    <3>1. q \notin DOMAIN allocations /\ q # p
      BY <1>7, <2>1
    <3>2. PICK d \in Contexts : \E x \in hands[d] : x.ptr = q
      BY <3>1 DEF DeviceInv, LeftInv
    <3>. QED  BY <1>2, <1>6, <3>1, <3>2
  <2>. QED  BY <1>1, <2>1 DEF LeftInv
<1>. QED  BY <1>8, <1>9, <1>11, <1>12 DEF DeviceInv

LEMMA BuffersGoBack ==
  ASSUME InstallersTyped, DeviceInv, NEW c \in Contexts, FreeBuffer(c)
  PROVE  DeviceInv'
<1> DEFINE owed == job[c].owed
<1>1. PICK b \in owed :
        /\ blocks' = Without(blocks, b.ptr)
        /\ misgiven' = (misgiven \/ b.ptr \notin DOMAIN blocks \/ blocks[b.ptr] # b.mr)
        /\ IF owed = {b} THEN Return(c) ELSE Goto(c, "free", [job[c] EXCEPT !.owed = @ \ {b}])
  BY DEF FreeBuffer
<1>2. pc[c] = "free" /\ UNCHANGED <<allocations, pointers, strays, resets>>
  BY DEF FreeBuffer
<1>3. hands[c] = owed
  BY <1>2 DEF hands, Hand
<1>4. /\ b.ptr \in DOMAIN blocks /\ blocks[b.ptr] = b.mr /\ b.ptr \notin DOMAIN allocations
      /\ ~misgiven
  BY <1>1, <1>3 DEF DeviceInv, HeldInv
<1>5. job[c] = [hook |-> job[c].hook, owed |-> owed]
  BY <1>2 DEF DeviceInv, OwesInv
<1>6. \E to \in {"idle", "free"} : \E j :
        /\ Goto(c, to, j) /\ Hand(to, j) = owed \ {b}
        /\ to = "free" => j = [hook |-> j.hook, owed |-> j.owed]
  <2>1. CASE owed = {b}
    <3>1. Goto(c, "idle", NoJob) /\ Hand("idle", NoJob) = owed \ {b}
      BY <1>1, <2>1 DEF Return, Hand
    <3>. QED  BY <3>1
  <2>2. CASE owed # {b}
    <3> DEFINE j == [hook |-> job[c].hook, owed |-> owed \ {b}]
    <3>1. [job[c] EXCEPT !.owed = @ \ {b}] = j
      BY <1>5
    <3>2. j = [hook |-> j.hook, owed |-> j.owed] /\ Hand("free", j) = owed \ {b}
      BY DEF Hand
    <3>3. Goto(c, "free", j)
      BY <1>1, <2>2, <3>1
    <3> HIDE DEF j
    <3>. QED  BY <3>2, <3>3
  <2>. QED  BY <2>1, <2>2
<1>7. PICK to, j :
        /\ to \in {"idle", "free"}
        /\ Goto(c, to, j) /\ Hand(to, j) = owed \ {b}
        /\ to = "free" => j = [hook |-> j.hook, owed |-> j.owed]
  BY <1>6
<1>8. /\ pc'[c] = to /\ job'[c] = j
      /\ \A d \in Contexts \ {c} : pc'[d] = pc[d] /\ job'[d] = job[d]
  BY <1>7, OthersStay
<1>9. hands'[c] = hands[c] \ {b} /\ \A d \in Contexts \ {c} : hands'[d] = hands[d]
  BY <1>3, <1>7, HandsMoveOn
<1>10. b \in hands[c]
  BY <1>1, <1>3
<1> HIDE DEF owed
<1>11. /\ \A q : q \in DOMAIN blocks' <=> q \in DOMAIN blocks /\ q # b.ptr
       /\ \A q \in DOMAIN blocks' : blocks'[q] = blocks[q]
  BY <1>1, OnePointLess
<1>12. ASSUME NEW d \in Contexts, NEW x \in hands'[d]
       PROVE  x \in hands[d] /\ x.ptr # b.ptr
  BY <1>9, <1>10, <1>12 DEF DeviceInv, HeldInv
<1>13. MappingInv' /\ OwesInv' /\ StraysInv' /\ ~misgiven'
  <2>1. MappingInv'
    BY <1>2, <1>4, <1>7, <1>8, <1>11 DEF DeviceInv, MappingInv
  <2>2. OwesInv'
    BY <1>7, <1>8 DEF DeviceInv, OwesInv
  <2>3. StraysInv' /\ ~misgiven'
    BY <1>1, <1>2, <1>4 DEF DeviceInv, StraysInv
  <2>. QED  BY <2>1, <2>2, <2>3
<1>14. HeldInv'
  BY <1>2, <1>11, <1>12 DEF DeviceInv, HeldInv
<1>15. LeftInv'
  <2>1. ASSUME NEW q \in DOMAIN blocks', q \notin DOMAIN allocations
        PROVE  \E d \in Contexts : \E x \in hands'[d] : x.ptr = q
    <3>1. q \in DOMAIN blocks /\ q # b.ptr
      BY <1>11, <2>1
    <3>2. PICK d \in Contexts : \E x \in hands[d] : x.ptr = q
      BY <2>1, <3>1 DEF DeviceInv, LeftInv
    <3>. QED  BY <1>9, <3>1, <3>2
  <2>. QED  BY <1>2, <2>1 DEF LeftInv
<1>. QED  BY <1>13, <1>14, <1>15 DEF DeviceInv

\* An address is that of one pointer with an entry, or of none.
LEMMA OneOrNone == ASSUME NEW S, NEW p PROVE Cardinality(S \cap {p}) \in {0, 1}
<1>1. CASE p \in S
  BY <1>1, FS_Singleton, S \cap {p} = {p}
<1>2. CASE p \notin S
  BY <1>2, FS_EmptySet, S \cap {p} = {}
<1>. QED  BY <1>1, <1>2

LEMMA DeviceStepInv ==
  ASSUME InstallersTyped, DeviceInv, NEW c \in Contexts, DeviceStep(c)
  PROVE  DeviceInv'
<1>1. ASSUME NEW p \in Addresses, Finalize(c, p) PROVE DeviceInv'
  <2>1. /\ pc[c] = "idle" /\ Pop(c, {p}) /\ pointers' = pointers \ {p}
        /\ UNCHANGED <<blocks, strays, resets, misgiven>>
    BY <1>1 DEF Finalize
  <2>2. StraysInv'
    BY <2>1 DEF DeviceInv, StraysInv
  <2>. QED  BY <2>1, <2>2, EntriesGo
<1>2. ASSUME NEW p \in Addresses, Stray(c, p) PROVE DeviceInv'
  <2>1. /\ pc[c] = "idle" /\ Pop(c, {p}) /\ pointers' = pointers \ {p} /\ strays[p] > 0
        /\ UNCHANGED <<blocks, resets, misgiven>>
        /\ strays' = [strays EXCEPT ![p] = @ - 1 + Cardinality(pointers \cap {p})]
    BY <1>2 DEF Stray
  <2>2. StraysInv'
    <3>1. strays[p] \in Nat /\ Cardinality(pointers \cap {p}) \in {0, 1}
      BY OneOrNone DEF DeviceInv, StraysInv
    <3>2. /\ strays[p] - 1 + Cardinality(pointers \cap {p}) \in Nat
          /\ strays[p] - 1 + Cardinality(pointers \cap {p}) <= strays[p]
      BY <2>1, <3>1
    <3>3. resets \in Nat /\ strays \in [Addresses -> Nat] /\ strays[p] <= resets
      BY DEF DeviceInv, StraysInv
    <3>4. strays[p] - 1 + Cardinality(pointers \cap {p}) <= resets
      BY <3>1, <3>2, <3>3
    <3>5. \A q \in Addresses \ {p} : strays'[q] = strays[q]
      BY <2>1, <3>3
    <3>6. /\ strays' \in [Addresses -> Nat]
          /\ strays'[p] = strays[p] - 1 + Cardinality(pointers \cap {p})
      BY <2>1, <3>2, <3>3
    <3>. QED  BY <2>1, <3>3, <3>4, <3>5, <3>6 DEF DeviceInv, StraysInv
  <2>. QED  BY <2>1, <2>2, EntriesGo
<1>3. ASSUME ResetContext(c) PROVE DeviceInv'
  <2>1. /\ pc[c] = "idle" /\ Pop(c, Addresses) /\ pointers' = {} /\ resets' = resets + 1
        /\ UNCHANGED <<blocks, misgiven>>
        /\ strays' = [p \in Addresses |-> strays[p] + Cardinality(pointers \cap {p})]
    BY <1>3 DEF ResetContext
  <2>2. StraysInv'
    <3>1. \A p \in Addresses : Cardinality(pointers \cap {p}) \in {0, 1}
      BY OneOrNone
    <3>. QED  BY <2>1, <3>1 DEF DeviceInv, StraysInv
  <2>3. pointers' = pointers \ Addresses
    BY <2>1 DEF DeviceInv, MappingInv
  <2>. QED  BY <2>1, <2>2, <2>3, EntriesGo
<1>. QED  BY <1>1, <1>2, <1>3, BlocksComeIn, EntriesAreMade, BuffersGoBack DEF DeviceStep

LEMMA DeviceAlways == Spec => []DeviceInv
<1>1. ASSUME InstallersInv, DeviceInv, [Next]_vars PROVE DeviceInv'
  <2>1. InstallersTyped /\ DeviceMoves
    BY <1>1, StepsOfDevice DEF InstallersInv
  <2>. QED  BY <1>1, <2>1, DeviceStaysQuiet, DeviceStepInv DEF DeviceMoves
<1>. QED  BY InstallersAlways, DeviceInit, <1>1, PTL DEF Spec

LEMMA BackedPointers == DeviceInv => PointersBacked
BY DEF DeviceInv, MappingInv, StraysInv, PointersBacked

LEMMA DeviceNothingLeftThen == DeviceInv => DeviceNothingLeft
<1>1. \A c \in Contexts : \A b \in hands[c] :
        \/ pc[c] = "enter" /\ b.ptr = job[c].ptr
        \/ pc[c] = "free" /\ b \in job[c].owed
  BY DEF hands, Hand
<1>. QED  BY <1>1 DEF DeviceInv, LeftInv, DeviceNothingLeft
-------------------------------------------------------------------------------
(***************************************************************************)
(* Both memories                                                           *)
(***************************************************************************)
\* What NumPy's arrays refer to, and the entries of Numba's pointers, is a block of their own,
\* with the resource that handed it out: whoever installed and uninstalled what in between,
\* and however many contexts are in the middle of a call.  A pointer of Numba's has its entry
\* unless a reset took it, or after a reset the finalizer of a pointer at the same address
\* that had lost its own; of those there are at an address never more than resets there
\* were.  The mappings are what _nep49.py and the plugin look the blocks up in.
THEOREM AllIsBacked == Spec => []AllBacked
<1>1. HandlersInv /\ DeviceInv => AllBacked
  BY BackedArrays, BackedPointers DEF HandlersInv, AllBacked
<1>. QED  BY HandlersAlways, DeviceAlways, <1>1, PTL

\* A resource never gets a pointer that it did not hand out, nor a size that it did not: the
\* buffers that a context which was reset drops, and the finalizers that come after it, give
\* no block back twice, and no callback of NumPy's trusts the size it is called with.
THEOREM ReturnsAreExact == Spec => []GivenBackExactly
<1>1. HandlersInv /\ DeviceInv => GivenBackExactly
  BY DEF HandlersInv, MemoryInv, DeviceInv, GivenBackExactly
<1>. QED  BY HandlersAlways, DeviceAlways, <1>1, PTL

\* Every block that its resource did not refuse to take back is in the table of a handler that
\* lives or in the plugin's mapping, or a call has it in hand: a realloc that fails half way
\* and the reset of a context leave nothing behind.
THEOREM NothingIsLeft == Spec => []NothingLeft
<1>1. HandlersInv /\ DeviceInv => NothingLeft
  BY NothingStrandedThen, DeviceNothingLeftThen DEF NothingLeft
<1>. QED  BY HandlersAlways, DeviceAlways, <1>1, PTL
-------------------------------------------------------------------------------
(***************************************************************************)
(* Resources that ask each other                                           *)
(***************************************************************************)
\* What is in force in a library, and what a hook captured, is of that library.
SlotsInv ==
  /\ \A s \in Slots : inForce[s] \in Hooks => library[inForce[s]] = s[1]
  /\ \A h \in Hooks :
       previous[h] \in Hooks => library[previous[h]] = library[h] /\ library[h] # None
  /\ \A h \in Hooks : home[h] \in Slots => library[h] = home[h][1]

\* A chain was checked for the library of its hook, and what it takes from rmm is rmm's.
Checked(of, h, links) ==
  /\ of[h] \in {"CuPy", "rmm"}
  /\ Last(links).kind # Forbidden[of[h]]
  /\ Last(links).of \in Hooks => of[Last(links).of] = "rmm"
ChecksInv ==
  /\ DOMAIN chain = Hooks
  /\ \A h \in Hooks : chain[h] # <<>> => Checked(library, h, chain[h])

LoopsInv == SlotsInv /\ ChecksInv

\* A hook is made for a library once.
LibrariesStay == \A h \in Hooks : library[h] # None => library'[h] = library[h]

LEMMA StringsApart == None \notin {"CuPy", "rmm"} /\ None \notin Libraries /\ "CuPy" # "rmm"
BY InstallersAssumption DEF None

LEMMA SlotsAre ==
  ASSUME NEW s \in Slots
  PROVE  s[1] \in Libraries /\ s[1] # None
BY InstallersAssumption DEF Slots, Libraries

LEMMA SlotsStep ==
  ASSUME InstallersInv, SlotsInv, InstallerMoves
  PROVE  SlotsInv' /\ LibrariesStay
<1>0. InstallersTyped /\ ReplacesInv /\ RestoresInv
  BY DEF InstallersInv
<1>1. \A s \in Slots : inForce[s] \in Hooks => library[inForce[s]] # None
  BY SlotsAre DEF SlotsInv
<1>2. \A h \in Hooks : home[h] \in Slots => library[h] # None
  BY SlotsAre DEF SlotsInv
\* A hook h is made for l, captures the slot s, and is put there at once or later.
<1>3. ASSUME NEW h \in Hooks, NEW l \in Libraries, NEW s \in Slots, s[1] = l, library[h] = None,
             library' = [library EXCEPT ![h] = l],
             previous' = [previous EXCEPT ![h] = inForce[s]],
             \/ inForce' = inForce /\ home' = home
             \/ inForce' = [inForce EXCEPT ![s] = h] /\ home' = [home EXCEPT ![h] = s]
      PROVE  SlotsInv' /\ LibrariesStay
  <2>1. /\ library'[h] = l /\ previous'[h] = inForce[s]
        /\ \A g \in Hooks \ {h} : library'[g] = library[g] /\ previous'[g] = previous[g]
    BY <1>0, <1>3 DEF InstallersTyped
  <2>2. LibrariesStay
    BY <1>3, <2>1 DEF LibrariesStay
  <2>3. ASSUME NEW r \in Slots, inForce'[r] \in Hooks PROVE library'[inForce'[r]] = r[1]
    <3>1. CASE inForce'[r] = inForce[r]
      BY <1>1, <1>3, <2>1, <2>3, <3>1 DEF SlotsInv
    <3>2. CASE inForce'[r] # inForce[r]
      <4>1. r = s /\ inForce'[r] = h
        BY <1>0, <1>3, <3>2 DEF InstallersTyped
      <4>. QED  BY <1>3, <2>1, <4>1
    <3>. QED  BY <3>1, <3>2
  <2>4. ASSUME NEW g \in Hooks, previous'[g] \in Hooks
        PROVE  library'[previous'[g]] = library'[g] /\ library'[g] # None
    <3>1. CASE g = h
      BY SlotsAre, <1>1, <1>3, <2>1, <2>4, <3>1 DEF SlotsInv
    <3>2. CASE g # h
      BY <1>3, <2>1, <2>4, <3>2 DEF SlotsInv
    <3>. QED  BY <3>1, <3>2
  <2>5. ASSUME NEW g \in Hooks, home'[g] \in Slots PROVE library'[g] = home'[g][1]
    <3>1. CASE g = h
      BY <1>0, <1>2, <1>3, <2>1, <2>5, <3>1 DEF InstallersTyped
    <3>2. CASE g # h
      BY <1>0, <1>3, <2>1, <2>5, <3>2 DEF SlotsInv, InstallersTyped
    <3>. QED  BY <3>1, <3>2
  <2>. QED  BY <2>2, <2>3, <2>4, <2>5 DEF SlotsInv
<1>4. ASSUME UNCHANGED <<inForce, library, previous, home>> PROVE SlotsInv' /\ LibrariesStay
  BY <1>4 DEF SlotsInv, LibrariesStay
<1>5. CASE Aside
  BY <1>4, <1>5 DEF Aside, hooks, history
<1>6. ASSUME NEW c \in Contexts, NEW h \in Hooks, Exchange(c, h)
      PROVE  SlotsInv' /\ LibrariesStay
  <2>1. NumPy \in Libraries /\ Slot(NumPy, c) \in Slots /\ Slot(NumPy, c)[1] = NumPy
    BY SlotsOfLibraries DEF Libraries, Slot
  <2>2. /\ library[h] = None /\ library' = [library EXCEPT ![h] = NumPy]
        /\ previous' = [previous EXCEPT ![h] = inForce[Slot(NumPy, c)]]
        /\ inForce' = [inForce EXCEPT ![Slot(NumPy, c)] = h]
        /\ home' = [home EXCEPT ![h] = Slot(NumPy, c)]
    BY <1>6 DEF Exchange, PutInForce
  <2>. QED  BY <1>3, <2>1, <2>2
<1>7. ASSUME NEW c \in Contexts, NEW h \in Hooks, NEW l, Capture(c, h, l)
      PROVE  SlotsInv' /\ LibrariesStay
  <2>1. /\ l \in Shared /\ library[h] = None /\ library' = [library EXCEPT ![h] = l]
        /\ previous' = [previous EXCEPT ![h] = inForce[Slot(l, c)]]
        /\ inForce' = inForce /\ home' = home
    BY <1>7 DEF Capture, history
  <2>2. l \in Libraries /\ Slot(l, c) \in Slots /\ Slot(l, c)[1] = l
    BY <2>1, SlotsOfLibraries DEF Libraries, Slot
  <2>. QED  BY <1>3, <2>1, <2>2
<1>8. ASSUME NEW c \in Contexts, Replace(c) PROVE SlotsInv' /\ LibrariesStay
  <2> DEFINE h == job[c].hook
             s == Slot(library[h], c)
  <2>1. /\ h \in Hooks /\ s \in Slots /\ s[1] = library[h]
        /\ inForce' = [inForce EXCEPT ![s] = h] /\ home' = [home EXCEPT ![h] = s]
        /\ UNCHANGED <<library, previous>>
    BY <1>8, ReplacePuts DEF Replace, PutInForce, Slot
  <2> HIDE DEF h, s
  <2>2. \A r \in Slots : inForce'[r] = inForce[r] \/ (r = s /\ inForce'[r] = h)
    BY <1>0, <2>1 DEF InstallersTyped
  <2>3. \A g \in Hooks : home'[g] = home[g] \/ (g = h /\ home'[g] = s)
    BY <1>0, <2>1 DEF InstallersTyped
  <2>. QED  BY <2>1, <2>2, <2>3 DEF SlotsInv, LibrariesStay
<1>9. ASSUME NEW c \in Contexts, Restore(c) PROVE SlotsInv' /\ LibrariesStay
  <2> DEFINE h == job[c].hook
             s == Slot(library[h], c)
  <2>1. /\ h \in Hooks /\ s[1] = library[h]
        /\ inForce' = [inForce EXCEPT ![s] = previous[h]]
        /\ UNCHANGED <<library, previous, home>>
    BY <1>0, <1>9 DEF Restore, InstallersTyped, Slot
  <2> HIDE DEF h, s
  <2>2. \A r \in Slots : inForce'[r] = inForce[r] \/ (r = s /\ inForce'[r] = previous[h])
    BY <1>0, <2>1 DEF InstallersTyped
  <2>. QED  BY <2>1, <2>2 DEF SlotsInv, LibrariesStay
<1>10. ASSUME NEW c \in Contexts, NEW h \in Hooks, Uninstall(c, h)
       PROVE  SlotsInv' /\ LibrariesStay
  BY <1>4, <1>10 DEF Uninstall, history
<1>11. ASSUME NEW h \in Hooks, Drop(h) PROVE SlotsInv' /\ LibrariesStay
  BY <1>4, <1>11 DEF Drop, history
<1>. QED  BY <1>5, <1>6, <1>7, <1>8, <1>9, <1>10, <1>11 DEF InstallerMoves

\* The leaf of a chain: what a link of it takes from rmm was in force there.
LEMMA LeavesOfChains ==
  ASSUME InstallersTyped, SlotsInv, NEW links \in Chains
  PROVE  /\ links # <<>> /\ Len(links) \in DOMAIN links /\ Last(links) = links[Len(links)]
         /\ Last(links).of \in Hooks => library[Last(links).of] = "rmm"
<1>1. PICK leaf \in Leaves : links = <<leaf>> \/ links = <<Adaptor, leaf>>
  BY DEF Chains
<1> HIDE DEF Leaves
<1>2. /\ links # <<>> /\ Len(links) \in DOMAIN links /\ Last(links) = links[Len(links)]
      /\ Last(links) = leaf
  BY <1>1 DEF Last
<1>3. ASSUME leaf.of \in Hooks PROVE leaf.of \in RmmHooks
  <2>1. \A kind, on, of : Leaf(kind, on, of).of = of
    BY DEF Leaf
  <2>2. None \notin Hooks /\ Original \notin Hooks
    BY InstallersAssumption
  <2>. QED  BY <1>3, <2>1, <2>2 DEF Leaves
<1>4. \A h \in RmmHooks : library[h] = "rmm"
  <2>1. ASSUME NEW h \in RmmHooks PROVE library[h] = "rmm"
    <3>1. h \in Hooks /\ home[h] = <<"rmm", Everybody>>
      BY DEF RmmHooks
    <3>2. "rmm" \in Shared
      BY DeviceAssumption
    <3>3. <<"rmm", Everybody>> \in Slots
      BY <3>2 DEF Slots
    <3>. QED  BY <3>1, <3>3 DEF SlotsInv
  <2>. QED  BY <2>1
<1>. QED  BY <1>2, <1>3, <1>4

LEMMA ChecksStep ==
  ASSUME InstallersTyped, SlotsInv, ChecksInv, [Next]_vars, LibrariesStay
  PROVE  ChecksInv'
<1>1. \A h \in Hooks : chain[h] # <<>> => Checked(library', h, chain[h])
  BY StringsApart DEF ChecksInv, Checked, LibrariesStay
<1>2. ASSUME chain' = chain PROVE ChecksInv'
  BY <1>1, <1>2 DEF ChecksInv
<1>3. ASSUME NEW c \in Contexts, NEW h \in Hooks, NEW l, NEW links \in Chains,
             InstallDevice(c, h, l, links)
      PROVE  ChecksInv'
  <2>1. /\ l \in {"CuPy", "rmm"} /\ NoCycle(links, Forbidden[l])
        /\ library' = [library EXCEPT ![h] = l]
        /\ chain' = [chain EXCEPT ![h] = links]
    BY <1>3 DEF InstallDevice, Capture
  <2>2. library'[h] = l
    BY <2>1 DEF InstallersTyped
  <2>3. /\ chain'[h] = links /\ DOMAIN chain' = Hooks
        /\ \A g \in Hooks \ {h} : chain'[g] = chain[g]
    BY <2>1 DEF ChecksInv
  <2>4. /\ Last(links).kind # Forbidden[l]
        /\ Last(links).of \in Hooks => library[Last(links).of] = "rmm"
    BY <2>1, LeavesOfChains DEF NoCycle
  <2>5. Checked(library', h, links)
    BY <2>1, <2>2, <2>4, StringsApart DEF Checked, LibrariesStay
  <2>. QED  BY <1>1, <2>3, <2>5 DEF ChecksInv
<1>4. chain' = chain \/ \E c \in Contexts, h \in Hooks : \E l, links :
                           links \in Chains /\ InstallDevice(c, h, l, links)
  <2>1. CASE UNCHANGED vars
    BY <2>1 DEF vars, device
  <2>2. CASE NumPyStep \/ InstallerStep
    BY <2>2 DEF NumPyStep, InstallerStep, device
  <2>3. CASE DeviceProgramStep
    BY <2>3 DEF DeviceProgramStep, CreateContext, SetCurrent
  <2>4. CASE DeviceLibraryStep
    <3>1. ASSUME NEW c \in Contexts, DeviceStep(c) PROVE chain' = chain
      BY <3>1 DEF DeviceStep, Memalloc, Finalize, Stray, Enter, ResetContext, FreeBuffer
    <3>2. ASSUME NEW c \in Contexts, NEW h \in Hooks, InstallNumba(c, h) PROVE chain' = chain
      BY <3>2 DEF InstallNumba, device
    <3>. QED  BY <2>4, <3>1, <3>2 DEF DeviceLibraryStep
  <2>. QED  BY <2>1, <2>2, <2>3, <2>4 DEF Next
<1>. QED  BY <1>2, <1>3, <1>4

LEMMA LoopsAlways == Spec => []LoopsInv
<1>1. Init => LoopsInv
  <2>1. SUFFICES ASSUME InitInstallers, InitDevice PROVE LoopsInv
    BY DEF Init
  <2>2. \A s \in Slots : inForce[s] \notin Hooks
    BY <2>1, InstallersAssumption DEF InitInstallers
  <2>3. \A h \in Hooks : previous[h] \notin Hooks
    BY <2>1, InstallersAssumption DEF InitInstallers
  <2>4. \A h \in Hooks : home[h] \notin Slots
    <3>1. \A s \in Slots : s[1] # None
      BY SlotsAre
    <3>2. \A h \in Hooks : home[h][1] = None
      BY <2>1 DEF InitInstallers
    <3>. QED  BY <3>1, <3>2
  <2>5. ChecksInv
    BY <2>1 DEF InitDevice, ChecksInv
  <2>. QED  BY <2>2, <2>3, <2>4, <2>5 DEF LoopsInv, SlotsInv
<1>2. ASSUME InstallersInv, LoopsInv, [Next]_vars PROVE LoopsInv'
  <2>1. InstallersTyped /\ SlotsInv /\ ChecksInv
    BY <1>2 DEF LoopsInv, InstallersInv
  <2>2. SlotsInv' /\ LibrariesStay
    BY <1>2, <2>1, StepsOfInstallers, SlotsStep
  <2>3. ChecksInv'
    BY <1>2, <2>1, <2>2, ChecksStep
  <2>. QED  BY <2>2, <2>3 DEF LoopsInv
<1>. QED  BY InstallersAlways, <1>1, <1>2, PTL DEF Spec

\* A resource asks the hooks of another library only.
LEMMA OthersSupply ==
  ASSUME LoopsInv, NEW h \in Hooks, NEW g \in Suppliers(h)
  PROVE  g \in Hooks /\ library[g] # library[h]
<1> DEFINE leaf == Last(chain[h])
<1>1. chain[h] # <<>> /\ g \in Hooks
  BY DEF Suppliers
<1>2. /\ library[h] \in {"CuPy", "rmm"}
      /\ leaf.kind # Forbidden[library[h]]
      /\ leaf.of \in Hooks => library[leaf.of] = "rmm"
  BY <1>1 DEF LoopsInv, ChecksInv, Checked
<1>3. /\ leaf.kind = "cupy" => g = inForce[<<"CuPy", Everybody>>]
      /\ leaf.kind = "rmm" => g = leaf.of
      /\ leaf.kind \in {"cupy", "rmm"}
  <2> HIDE DEF leaf
  <2>1. Suppliers(h) = Hooks \cap (CASE leaf.kind = "cupy" -> {inForce[<<"CuPy", Everybody>>]}
                                     [] leaf.kind = "rmm" -> {leaf.of}
                                     [] OTHER -> {})
    BY <1>1 DEF Suppliers, leaf
  <2>. QED  BY <2>1
<1> HIDE DEF leaf
<1>4. Forbidden["CuPy"] = "cupy" /\ Forbidden["rmm"] = "rmm"
  BY DEF Forbidden
<1>5. CASE leaf.kind = "cupy"
  <2>1. <<"CuPy", Everybody>> \in Slots
    BY DeviceAssumption DEF Slots
  <2>2. library[g] = "CuPy"
    BY <1>1, <1>3, <1>5, <2>1 DEF LoopsInv, SlotsInv
  <2>. QED  BY <1>1, <1>2, <1>4, <1>5, <2>2
<1>6. CASE leaf.kind = "rmm"
  BY <1>1, <1>2, <1>3, <1>4, <1>6
<1>. QED  BY <1>3, <1>5, <1>6

(***************************************************************************)
(* Whom a resource asks, directly and through others                       *)
(***************************************************************************)
LEMMA LeastNumber ==
  ASSUME NEW T \in SUBSET Nat, T # {}
  PROVE  \E x \in T : \A y \in T : x <= y
<1> DEFINE R == OpToRel(<, Nat)
<1>1. PICK x \in T : \A y \in T : ~(<<y, x>> \in R)
  <2>1. IsWellFoundedOn(R, Nat)
    BY NatLessThanWellFounded
  <2> HIDE DEF R
  <2>. QED  BY <2>1, WFMin
<1>2. \A y \in T : ~(y < x)
  BY <1>1 DEF OpToRel
<1>. QED  BY <1>2

\* Induction up to n, over the set of the numbers for which it is done.
LEMMA UpTo ==
  ASSUME NEW n \in Nat, NEW P, 0 \in P, \A k \in 1..n : k - 1 \in P => k \in P
  PROVE  n \in P
<1> DEFINE T == {k \in 0..n : k \notin P}
<1> SUFFICES ASSUME T # {} PROVE FALSE
  OBVIOUS
<1>1. PICK x \in T : \A y \in T : x <= y
  <2>1. T \in SUBSET Nat
    OBVIOUS
  <2> HIDE DEF T
  <2>. QED  BY <2>1, LeastNumber
<1>2. x \in 1..n /\ x - 1 \notin T
  BY <1>1
<1>. QED  BY <1>1, <1>2

\* What Asks is built from: within k questions.
Further(h, asked) == asked \cup UNION {Suppliers(g) : g \in asked \cup {h}}
Spreads(n, h, w) == w = [k \in 0..n |-> IF k = 0 THEN {} ELSE Further(h, w[k - 1])]

LEMMA SpreadsExist ==
  ASSUME NEW n \in Nat, NEW h
  PROVE  \E w : Spreads(n, h, w)
<1> DEFINE P == {k \in 0..n : \E w : Spreads(k, h, w)}
<1>1. 0 \in P
  <2> DEFINE z == [k \in 0..0 |-> {}]
  <2>1. Spreads(0, h, z)
    BY DEF Spreads
  <2>. QED  BY <2>1
<1>2. ASSUME NEW k \in 1..n, k - 1 \in P PROVE k \in P
  <2>1. PICK w : Spreads(k - 1, h, w)
    BY <1>2
  <2> DEFINE v(f, j) == IF j = 0 THEN {} ELSE Further(h, f[j - 1])
             x == [j \in 0..k |-> IF j = k THEN v(w, k) ELSE w[j]]
  <2>2. w = [j \in 0..(k - 1) |-> v(w, j)]
    BY <2>1 DEF Spreads
  <2>3. ASSUME NEW j \in 0..k PROVE x[j] = v(x, j)
    <3>1. j # 0 => j - 1 \in 0..(k - 1) /\ x[j - 1] = w[j - 1]
      OBVIOUS
    <3>2. v(x, j) = v(w, j)
      BY <3>1
    <3>3. j # k => j \in 0..(k - 1) /\ x[j] = w[j]
      OBVIOUS
    <3>4. j = k => x[j] = v(w, j)
      OBVIOUS
    <3> HIDE DEF x, v
    <3>. QED  BY <2>2, <3>2, <3>3, <3>4
  <2>4. x = [j \in 0..k |-> x[j]]
    OBVIOUS
  <2>5. x = [j \in 0..k |-> v(x, j)]
    <3> HIDE DEF x, v
    <3>. QED  BY <2>3, <2>4
  <2>6. Spreads(k, h, x)
    <3> HIDE DEF x
    <3>. QED  BY <2>5 DEF Spreads
  <2> HIDE DEF x
  <2>. QED  BY <2>6
<1> HIDE DEF P
<1>3. n \in P
  <2>1. \A k \in 1..n : k - 1 \in P => k \in P
    BY <1>2
  <2>. QED  BY <1>1, <2>1, UpTo
<1>. QED  BY <1>3 DEF P

\* Whom h asks within k questions.
Within(h) == CHOOSE w : Spreads(Cardinality(Hooks), h, w)

LEMMA WithinIs ==
  ASSUME NEW h
  PROVE  /\ Cardinality(Hooks) \in Nat
         /\ Within(h)[0] = {}
         /\ \A k \in 1..Cardinality(Hooks) : Within(h)[k] = Further(h, Within(h)[k - 1])
         /\ Asks(h) = Within(h)[Cardinality(Hooks)]
<1> DEFINE n == Cardinality(Hooks)
<1>1. n \in Nat
  BY DeviceAssumption, FS_CardinalityType
<1>2. Asks(h) = (CHOOSE w : Spreads(n, h, w))[n]
  BY DEF Asks, Spreads, Further
<1>3. Asks(h) = Within(h)[n]
  BY <1>2 DEF Within
<1> HIDE DEF n
<1>4. Spreads(n, h, Within(h))
  <2>1. \E w : Spreads(n, h, w)
    BY <1>1, SpreadsExist
  <2>. QED  BY <2>1 DEF Within, n
<1>5. Within(h) = [k \in 0..n |-> IF k = 0 THEN {} ELSE Further(h, Within(h)[k - 1])]
  BY <1>4 DEF Spreads
<1>6. ASSUME NEW k \in 1..n PROVE Within(h)[k] = Further(h, Within(h)[k - 1])
  <2>1. k \in 0..n /\ k # 0
    BY <1>1
  <2>. QED  BY <1>5, <2>1
<1>7. Within(h)[0] = {}
  BY <1>1, <1>5
<1>. QED  BY <1>1, <1>3, <1>6, <1>7 DEF n

LEMMA FurtherIs ==
  ASSUME NEW h, NEW asked
  PROVE  /\ asked \subseteq Further(h, asked)
         /\ Suppliers(h) \subseteq Further(h, asked)
         /\ \A g \in asked : Suppliers(g) \subseteq Further(h, asked)
         /\ \A x \in Further(h, asked) :
              x \in asked \/ x \in Suppliers(h) \/ \E g \in asked : x \in Suppliers(g)
BY DEF Further

\* The first one whom h asks is one of its suppliers, who asks the others.
LEMMA AsksFirst ==
  ASSUME NEW h, NEW x \in Asks(h)
  PROVE  \E g \in Suppliers(h) : g \in Asks(h) /\ (x = g \/ x \in Asks(g))
<1> DEFINE n == Cardinality(Hooks)
           Through(k, a, y) == \E g \in Suppliers(a) : y = g \/ (k # 0 /\ y \in Within(g)[k - 1])
           P == {k \in 0..n : \A a : \A y \in Within(a)[k] : Through(k, a, y)}
<1>1. n \in Nat /\ Asks(h) = Within(h)[n]
  BY WithinIs
<1>2. \A a : Within(a)[0] = {}
  BY WithinIs
<1>3. \A a : \A k \in 1..n : Within(a)[k] = Further(a, Within(a)[k - 1])
  BY WithinIs
<1> HIDE DEF n
<1>4. 0 \in P
  BY <1>1, <1>2
<1>5. ASSUME NEW k \in 1..n, k - 1 \in P PROVE k \in P
  <2>1. ASSUME NEW a, NEW y \in Within(a)[k] PROVE Through(k, a, y)
    <3>1. Within(a)[k] = Further(a, Within(a)[k - 1])
      BY <1>3
    <3>2. ASSUME NEW b \in Within(a)[k - 1], y = b \/ y \in Suppliers(b) PROVE Through(k, a, y)
      <4>1. k - 1 \in 1..n /\ k # 0
        BY <1>1, <1>2
      <4>2. PICK g \in Suppliers(a) : b = g \/ b \in Within(g)[(k - 1) - 1]
        BY <1>5
      <4>3. Within(g)[k - 1] = Further(g, Within(g)[(k - 1) - 1])
        BY <1>3, <4>1
      <4>4. y = g \/ y \in Within(g)[k - 1]
        BY <3>2, <4>2, <4>3, FurtherIs
      <4>. QED  BY <4>1, <4>4
    <3>3. ASSUME y \in Suppliers(a) PROVE Through(k, a, y)
      BY <3>3
    <3>. QED  BY <3>1, <3>2, <3>3, FurtherIs
  <2>. QED  BY <1>1, <2>1
<1>6. n \in P
  <2>1. \A k \in 1..n : k - 1 \in P => k \in P
    BY <1>5
  <2> HIDE DEF P
  <2>. QED  BY <1>1, <1>4, <2>1, UpTo
<1>7. x \in Within(h)[n]
  BY <1>1
<1>8. n \in 1..n /\ n # 0
  BY <1>1, <1>2, <1>7
<1>9. PICK g \in Suppliers(h) : x = g \/ x \in Within(g)[n - 1]
  BY <1>6, <1>7
<1>10. /\ Within(g)[n] = Further(g, Within(g)[n - 1]) /\ Asks(g) = Within(g)[n]
       /\ Within(h)[n] = Further(h, Within(h)[n - 1])
  BY <1>3, <1>8, WithinIs DEF n
<1>11. g \in Asks(h) /\ (x \in Within(g)[n - 1] => x \in Asks(g))
  BY <1>1, <1>10, FurtherIs
<1>. QED  BY <1>9, <1>11

LEMMA AsksHooks ==
  ASSUME NEW h, NEW x \in Asks(h)
  PROVE  x \in Hooks
<1> DEFINE n == Cardinality(Hooks)
           P == {k \in 0..n : Within(h)[k] \subseteq Hooks}
<1>1. n \in Nat /\ Asks(h) = Within(h)[n]
  BY WithinIs
<1>2. 0 \in P
  BY <1>1, WithinIs
<1>3. ASSUME NEW k \in 1..n, k - 1 \in P PROVE k \in P
  <2>1. Within(h)[k] = Further(h, Within(h)[k - 1]) /\ Within(h)[k - 1] \subseteq Hooks
    BY <1>3, WithinIs
  <2>2. \A g : Suppliers(g) \subseteq Hooks
    BY DEF Suppliers
  <2>. QED  BY <1>1, <2>1, <2>2, FurtherIs
<1> HIDE DEF n
<1>4. n \in P
  <2>1. \A k \in 1..n : k - 1 \in P => k \in P
    BY <1>3
  <2> HIDE DEF P
  <2>. QED  BY <1>1, <1>2, <2>1, UpTo
<1>. QED  BY <1>1, <1>4

\* ensure_no_cycle, and its callers cupy.install and rmm.install: a resource that is asked
\* for the memory that it asks for itself leads through two libraries.  No library is made
\* to call itself back, whatever is installed and uninstalled in it, and in whatever order.
THEOREM LoopsLeadThroughTwo == Spec => []LoopsCrossLibraries
<1>1. ASSUME LoopsInv, NEW h \in Hooks, h \in Asks(h)
      PROVE  Cardinality({library[g] : g \in Loop(h)}) > 1
  <2> DEFINE L == {library[g] : g \in Loop(h)}
  <2>1. PICK g \in Suppliers(h) : g \in Asks(h) /\ (h = g \/ h \in Asks(g))
    BY <1>1, AsksFirst
  <2>2. library[g] # library[h]
    BY <1>1, OthersSupply
  <2>3. g \in Loop(h) /\ h \in Loop(h)
    BY <1>1, <2>1, <2>2 DEF Loop
  <2>4. library[g] \in L /\ library[h] \in L
    BY <2>3
  <2>5. IsFiniteSet(L)
    <3> DEFINE f == [x \in Loop(h) |-> library[x]]
    <3>1. Loop(h) \subseteq Hooks
      BY AsksHooks DEF Loop
    <3>2. IsFiniteSet(Loop(h))
      BY <3>1, DeviceAssumption, FS_Subset
    <3>3. f \in Surjection(Loop(h), L)
      BY DEF Surjection
    <3> HIDE DEF f, L
    <3>. QED  BY <3>2, <3>3, FS_Surjection
  <2> HIDE DEF L
  <2>6. IsFiniteSet({library[g], library[h]}) /\ Cardinality({library[g], library[h]}) = 2
    <3>1. IsFiniteSet({library[h]}) /\ Cardinality({library[h]}) = 1
      BY FS_Singleton
    <3>2. {library[g], library[h]} = {library[h]} \cup {library[g]} /\ library[g] \notin {library[h]}
      BY <2>2
    <3>3. /\ IsFiniteSet({library[h]} \cup {library[g]})
          /\ Cardinality({library[h]} \cup {library[g]}) = Cardinality({library[h]}) + 1
      BY <3>1, <3>2, FS_AddElement
    <3>. QED  BY <3>1, <3>2, <3>3
  <2>7. Cardinality({library[g], library[h]}) <= Cardinality(L)
    BY <2>4, <2>5, FS_Subset
  <2>8. Cardinality(L) \in Nat
    BY <2>5, FS_CardinalityType
  <2>. QED  BY <2>6, <2>7, <2>8 DEF L
<1>2. LoopsInv => LoopsCrossLibraries
  BY <1>1 DEF LoopsCrossLibraries
<1>. QED  BY LoopsAlways, <1>2, PTL
===============================================================================
