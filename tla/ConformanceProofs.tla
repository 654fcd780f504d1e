--------------------------- MODULE ConformanceProofs ---------------------------
(***************************************************************************)
(* Proofs about the leaf resources of LeafResources, under the             *)
(* specification of Conformance: for any number of callers, any sizes, and *)
(* any of the leaves that devmm's constructors make.                       *)
(***************************************************************************)
EXTENDS Conformance, FiniteSetTheorems, SequenceTheorems, TLAPS

(***************************************************************************)
(* What the constructors make                                              *)
(***************************************************************************)
\* All that is used of _check_alignment, which wants a power of two.
Alignment(a) == a \in Nat \ {0} /\ (a < 8 => a \in {1, 2, 4})

\* The leaves, before a LoggingAdaptor is put in front or a device's default is chosen.
Constructed(l) ==
  \/ \E a : Alignment(a) /\ l = Bytearray(a)
  \/ \E a : Alignment(a) /\ \E family \in {"posix", "windows"} : l = Malloc(family, a)
  \/ l = NumpyHandlerLeaf
  \/ \E async, api : l = GpuRuntime(async, api)
  \/ l = CupyAllocator
  \/ \E serves \in BOOLEAN : l = RmmLike(serves)
  \/ \E guarantee \in Nat \ {0} : l = Recording(guarantee)
Offered(l) ==
  \E m : Constructed(m) /\ (l = m \/ l = Logging(m) \/ l = [m EXCEPT !.byDefault = TRUE])

\* What the proofs need of them.
Divides(a, b) == \A x \in Int : x % b = 0 => x % a = 0
Wellmade(l) ==
  /\ l.alignment \in Nat \ {0} /\ l.boundary \in Nat \ {0} /\ l.guarantee \in Nat \ {0}
  /\ l.moves \in BOOLEAN
  /\ l.moves => l.guarantee = 1
  /\ ~l.moves => Divides(l.alignment, l.boundary) /\ Divides(l.guarantee, l.boundary)
  /\ l.tellsSize => l.checksSizes /\ ~l.moves
  /\ l.name = "recording" => l.alignment = 1

LEMMA ModuloOne == \A x \in Int : x % 1 = 0
OBVIOUS

LEMMA PosixDivides ==
  ASSUME NEW a, Alignment(a)
  PROVE  PosixBoundary(a) \in Nat \ {0} /\ Divides(a, PosixBoundary(a))
<1>1. CASE a < 8
  <2>1. a \in {1, 2, 4} /\ PosixBoundary(a) = 8
    BY <1>1 DEF Alignment, PosixBoundary
  <2>2. CASE a = 1
    BY <2>1, <2>2 DEF Divides
  <2>3. CASE a = 2
    BY <2>1, <2>3 DEF Divides
  <2>4. CASE a = 4
    BY <2>1, <2>4 DEF Divides
  <2>. QED  BY <2>1, <2>2, <2>3, <2>4
<1>2. CASE ~(a < 8)
  BY <1>2 DEF Alignment, PosixBoundary, Divides
<1>. QED  BY <1>1, <1>2

Unmoved(l) ==
  /\ l.alignment = 1 /\ l.boundary = l.guarantee /\ l.guarantee \in Nat \ {0}
  /\ l.moves = FALSE
  /\ l.tellsSize \in BOOLEAN /\ l.checksSizes = TRUE

LEMMA ConstructedWellmade == ASSUME NEW l, Constructed(l) PROVE Wellmade(l)
<1>1. ASSUME NEW a, Alignment(a), l = Bytearray(a) PROVE Wellmade(l)
  BY <1>1 DEF Wellmade, Bytearray, Plain, Alignment
<1>2. ASSUME NEW a, Alignment(a), NEW family \in {"posix", "windows"}, l = Malloc(family, a)
      PROVE  Wellmade(l)
  <2>1. CASE family = "posix"
    <3>1. /\ l.alignment = a /\ l.guarantee = a /\ l.boundary = PosixBoundary(a)
          /\ l.moves = FALSE /\ l.tellsSize = FALSE /\ l.name = "posix"
      BY <1>2, <2>1 DEF Malloc, Plain
    <3>. QED  BY <1>2, <3>1, PosixDivides DEF Wellmade, Alignment
  <2>2. CASE family = "windows"
    <3>1. /\ l.alignment = a /\ l.guarantee = a /\ l.boundary = a
          /\ l.moves = FALSE /\ l.tellsSize = FALSE /\ l.name = "windows"
      BY <1>2, <2>2 DEF Malloc, Plain, WindowsBoundary
    <3>. QED  BY <1>2, <3>1 DEF Wellmade, Alignment, Divides
  <2>. QED  BY <1>2, <2>1, <2>2
<1>3. ASSUME Unmoved(l) PROVE Wellmade(l)
  <2>1. Divides(l.alignment, l.boundary) /\ Divides(l.guarantee, l.boundary)
    BY <1>3, ModuloOne DEF Unmoved, Divides
  <2>2. 1 \in Nat \ {0}
    OBVIOUS
  <2>. QED  BY <1>3, <2>1, <2>2, Zenon DEF Wellmade, Unmoved
<1>4. l = NumpyHandlerLeaf => Unmoved(l)
  BY DEF NumpyHandlerLeaf, Plain, Unmoved
<1>5. l = CupyAllocator => Unmoved(l)
  BY DEF CupyAllocator, Plain, Unmoved
<1>6. ASSUME NEW serves \in BOOLEAN, l = RmmLike(serves) PROVE Unmoved(l)
  BY <1>6 DEF RmmLike, Plain, Unmoved
<1>7. ASSUME NEW async, NEW api, l = GpuRuntime(async, api) PROVE Unmoved(l)
  BY <1>7 DEF GpuRuntime, Plain, Unmoved
<1>8. ASSUME NEW guarantee \in Nat \ {0}, l = Recording(guarantee) PROVE Unmoved(l)
  BY <1>8 DEF Recording, Plain, Unmoved
<1>. QED  BY <1>1, <1>2, <1>3, <1>4, <1>5, <1>6, <1>7, <1>8 DEF Constructed

LeafFields == {"alignment", "boundary", "guarantee", "moves", "tellsSize", "checksSizes", "name"}

LEMMA FieldsOfLeaves == ASSUME NEW l, Constructed(l) PROVE LeafFields \subseteq DOMAIN l
<1>1. \A a : l = Bytearray(a) => LeafFields \subseteq DOMAIN l
  BY DEF Bytearray, Plain, LeafFields
<1>2. \A a, family : l = Malloc(family, a) => LeafFields \subseteq DOMAIN l
  BY DEF Malloc, Plain, LeafFields
<1>3. l = NumpyHandlerLeaf => LeafFields \subseteq DOMAIN l
  BY DEF NumpyHandlerLeaf, Plain, LeafFields
<1>4. \A async, api : l = GpuRuntime(async, api) => LeafFields \subseteq DOMAIN l
  BY DEF GpuRuntime, Plain, LeafFields
<1>5. l = CupyAllocator => LeafFields \subseteq DOMAIN l
  BY DEF CupyAllocator, Plain, LeafFields
<1>6. \A serves : l = RmmLike(serves) => LeafFields \subseteq DOMAIN l
  BY DEF RmmLike, Plain, LeafFields
<1>7. \A guarantee : l = Recording(guarantee) => LeafFields \subseteq DOMAIN l
  BY DEF Recording, Plain, LeafFields
<1>. QED  BY <1>1, <1>2, <1>3, <1>4, <1>5, <1>6, <1>7 DEF Constructed

\* A LoggingAdaptor, or having been chosen by default, changes none of that.
LEMMA OfferedWellmade == ASSUME NEW l, Offered(l) PROVE Wellmade(l)
<1>1. PICK m : Constructed(m) /\ (l = m \/ l = Logging(m) \/ l = [m EXCEPT !.byDefault = TRUE])
  BY DEF Offered
<1>2. Wellmade(m)
  BY <1>1, ConstructedWellmade
<1>3. LeafFields \subseteq DOMAIN m
  BY <1>1, FieldsOfLeaves
<1>4. /\ l.alignment = m.alignment /\ l.boundary = m.boundary /\ l.guarantee = m.guarantee
      /\ l.moves = m.moves /\ l.tellsSize = m.tellsSize /\ l.checksSizes = m.checksSizes
      /\ l.name = m.name
  BY <1>1, <1>3 DEF Logging, LeafFields
<1>. QED  BY <1>2, <1>4 DEF Wellmade
-------------------------------------------------------------------------------
(***************************************************************************)
(* Where an allocation lies in its block                                   *)
(***************************************************************************)
LEMMA MovedUp ==
  ASSUME NEW a \in Nat \ {0}, NEW b \in Int
  PROVE  (-b) % a \in 0..(a - 1) /\ (b + ((-b) % a)) % a = 0
<1>1. (-b) % a \in 0..(a - 1) /\ (-b) \div a \in Int
  OBVIOUS
<1>2. -b = a * ((-b) \div a) + ((-b) % a)
  OBVIOUS
<1>3. \A k \in Int : (a * k) % a = 0
  OBVIOUS
<1>4. PICK k \in Int : k = -((-b) \div a)
  BY <1>1
<1>5. b + ((-b) % a) = a * k
  BY <1>1, <1>2, <1>4
<1>. QED  BY <1>1, <1>3, <1>5

LEMMA InItsBlock ==
  ASSUME NEW l, Wellmade(l), NEW b \in Nat, NEW n \in Int
  PROVE  /\ Placed(l, b) \in Nat /\ b <= Placed(l, b)
         /\ Placed(l, b) + AtLeast1(n) <= b + Request(l, n)
         /\ AtLeast1(n) \in Nat \ {0} /\ Request(l, n) \in Nat \ {0}
<1>1. l.alignment \in Nat \ {0} /\ l.moves \in BOOLEAN
  BY DEF Wellmade
<1>2. (-b) % l.alignment \in 0..(l.alignment - 1)
  <2>1. b \in Int
    OBVIOUS
  <2>. QED  BY <1>1, <2>1, MovedUp, Zenon
<1>3. AtLeast1(n) \in Nat \ {0}
  BY DEF AtLeast1
<1>4. CASE l.moves
  BY <1>1, <1>2, <1>3, <1>4 DEF Placed, Request
<1>5. CASE ~l.moves
  BY <1>1, <1>3, <1>5 DEF Placed, Request
<1>. QED  BY <1>4, <1>5

LEMMA OnItsAlignment ==
  ASSUME NEW l, Wellmade(l), NEW b \in Nat, b % l.boundary = 0
  PROVE  Placed(l, b) % l.alignment = 0 /\ Placed(l, b) % l.guarantee = 0
<1>1. CASE l.moves
  <2>1. Placed(l, b) % l.alignment = 0
    <3>1. b \in Int /\ l.alignment \in Nat \ {0}
      BY DEF Wellmade
    <3>2. (b + ((-b) % l.alignment)) % l.alignment = 0
      BY <3>1, MovedUp, Zenon
    <3>3. Placed(l, b) = b + ((-b) % l.alignment)
      BY <1>1 DEF Placed
    <3>. QED  BY <3>2, <3>3, Zenon
  <2>2. Placed(l, b) \in Int
    BY InItsBlock
  <2>. QED  BY <1>1, <2>1, <2>2, ModuloOne DEF Wellmade
<1>2. CASE ~l.moves
  BY <1>2 DEF Placed, Wellmade, Divides
<1>. QED  BY <1>1, <1>2
-------------------------------------------------------------------------------
(***************************************************************************)
(* Callers that use a leaf as they like                                    *)
(***************************************************************************)
\* What is assumed of the program and of the library: callers use what the constructors
\* make, and the library's blocks do not overlap, whatever it is asked for.
LeavesAreOffered == Sizes \subseteq Int /\ \A l \in Leaves : Offered(l)
KeepsApart(l, sizes, bases) ==
  \A n \in sizes, b, c \in bases : n >= 0 /\ b < c => b + Request(l, n) <= c
LibraryKeepsBlocksApart == \A l \in Leaves : KeepsApart(l, Sizes, CallerBases)
Setting == LeavesAreOffered /\ LibraryKeepsBlocksApart

\* Where a call has a block in hand, and where it has not.
Held == {t \in Callers : call[t].pc \in {"obtained", "removed"}}
Lost == {s.base : s \in stranded}

\* Only the calls move, and no block changes hands.
Quiet(t, sizes) ==
  /\ UNCHANGED <<leaf, live, blocks, stranded, misfreed>>
  /\ t \notin Held
  /\ \E x : /\ x.pc \notin {"obtained", "removed"}
            /\ x.pc = "called" => x.n \in sizes
            /\ call' = [call EXCEPT ![t] = x]

CallsOK(sizes) ==
  /\ DOMAIN call = Callers
  /\ \A t \in Callers :
       /\ call[t].pc \in {"called", "obtained", "removed"} => call[t].n \in sizes
       /\ call[t].pc = "obtained" => call[t].n >= 0

\* What the library gave out, on its boundary; what failed deallocations left there.
LibraryInv(bases) ==
  /\ DOMAIN blocks \subseteq bases
  /\ \A b \in DOMAIN blocks : b % leaf.boundary = 0
  /\ Lost \subseteq DOMAIN blocks
  /\ ~misfreed

\* An entry has its block, of the size that was asked for, and its place in it.
EntriesInv(sizes) ==
  \A p \in DOMAIN live :
    /\ live[p].n \in sizes /\ live[p].n >= 0
    /\ live[p].base \in DOMAIN blocks \ Lost
    /\ p = Placed(leaf, live[p].base)
    /\ blocks[live[p].base] = Request(leaf, live[p].n)

\* A block in the hands of a call is nobody else's; a call that is about to free knows
\* its size, if it is to say.
HandsInv ==
  \A t \in Held :
    /\ call[t].base \in DOMAIN blocks \ Lost
    /\ \A p \in DOMAIN live : live[p].base # call[t].base
    /\ \A u \in Held : u # t => call[u].base # call[t].base
    /\ call[t].pc = "obtained" => blocks[call[t].base] = Request(leaf, call[t].n)
    /\ call[t].pc = "removed" /\ leaf.tellsSize =>
         blocks[call[t].base] = ToldSize(leaf, call[t].n)

\* Nothing is forgotten.
AllOwned ==
  \A b \in DOMAIN blocks \ Lost :
    \/ \E p \in DOMAIN live : live[p].base = b
    \/ \E t \in Held : call[t].base = b

\* The sizes that calls are made with, and the bases that the library uses.
Ownership(sizes, bases) ==
  /\ CallsOK(sizes)
  /\ LibraryInv(bases)
  /\ EntriesInv(sizes)
  /\ HandsInv
  /\ AllOwned

LEMMA QuietKeeps ==
  ASSUME NEW sizes, NEW bases, Ownership(sizes, bases), NEW t \in Callers, Quiet(t, sizes)
  PROVE  Ownership(sizes, bases)'
<1> USE DEF Ownership, Quiet
<1>1. CallsOK(sizes)' /\ Held' = Held /\ Lost' = Lost /\ \A u \in Held : call'[u] = call[u]
  BY DEF CallsOK, Held, Lost
<1>2. LibraryInv(bases)'
  BY <1>1 DEF LibraryInv
<1>3. EntriesInv(sizes)'
  BY <1>1 DEF EntriesInv
<1>4. HandsInv'
  BY <1>1 DEF HandsInv
<1>5. AllOwned'
  BY <1>1 DEF AllOwned
<1>. QED  BY <1>1, <1>2, <1>3, <1>4, <1>5

\* An allocation that has a block of its own has an address of its own.
LEMMA PlacedApart ==
  ASSUME NEW l, Wellmade(l), NEW n \in Int, NEW b \in Nat, NEW c \in Nat,
         b + Request(l, n) <= c
  PROVE  Placed(l, b) + AtLeast1(n) <= Placed(l, c)
<1>1. /\ Placed(l, b) \in Nat /\ Placed(l, c) \in Nat /\ c <= Placed(l, c)
      /\ AtLeast1(n) \in Nat /\ Request(l, n) \in Nat
      /\ Placed(l, b) + AtLeast1(n) <= b + Request(l, n)
  BY InItsBlock
<1>. QED  BY <1>1

LEMMA PlacedOnce ==
  ASSUME NEW sizes, NEW bases, sizes \subseteq Int, bases \subseteq Nat,
         NEW l, Wellmade(l), KeepsApart(l, sizes, bases),
         NEW n \in sizes, n >= 0,
         NEW b \in bases, NEW c \in bases, b # c
  PROVE  Placed(l, b) # Placed(l, c)
<1>1. b \in Nat /\ c \in Nat /\ n \in Int
  OBVIOUS
<1>2. AtLeast1(n) \in Nat \ {0} /\ Placed(l, b) \in Nat /\ Placed(l, c) \in Nat
  BY <1>1, InItsBlock
<1>3. CASE b < c
  <2>1. Placed(l, b) + AtLeast1(n) <= Placed(l, c)
    BY <1>1, <1>3, PlacedApart DEF KeepsApart
  <2>. QED  BY <1>2, <2>1
<1>4. CASE c < b
  <2>1. Placed(l, c) + AtLeast1(n) <= Placed(l, b)
    BY <1>1, <1>4, PlacedApart DEF KeepsApart
  <2>. QED  BY <1>2, <2>1
<1>. QED  BY <1>1, <1>3, <1>4
-------------------------------------------------------------------------------
\* The library gives out a block: the call has it.
LEMMA ObtainKeeps ==
  ASSUME NEW sizes, NEW bases, Ownership(sizes, bases),
         NEW t \in Callers, NEW base \in bases, Obtain(t, base)
  PROVE  Ownership(sizes, bases)'
<1> DEFINE x == [pc |-> "obtained", n |-> call[t].n, base |-> base]
<1>1. /\ call' = [call EXCEPT ![t] = x] /\ UNCHANGED <<leaf, live, stranded, misfreed>>
      /\ base \notin DOMAIN blocks /\ base % leaf.boundary = 0
      /\ call[t].pc = "called" /\ call[t].n >= 0
      /\ blocks' = With(blocks, base, Request(leaf, call[t].n))
  BY DEF Obtain, Answer, In
<1>2. /\ DOMAIN blocks' = DOMAIN blocks \cup {base}
      /\ blocks'[base] = Request(leaf, call[t].n)
      /\ \A b \in DOMAIN blocks : blocks'[b] = blocks[b]
  BY <1>1 DEF With
<1>3. CallsOK(sizes)' /\ Held' = Held \cup {t} /\ t \notin Held
  BY <1>1 DEF Ownership, CallsOK, Held
<1>4. Lost' = Lost /\ \A u \in Held : call'[u] = call[u]
  BY <1>1, <1>3 DEF Lost, Held, Ownership, CallsOK
<1>5. call'[t] = x
  BY <1>1 DEF Ownership, CallsOK
<1> HIDE DEF x
<1>6. call'[t].pc = "obtained" /\ call'[t].n = call[t].n /\ call'[t].base = base
  BY <1>5 DEF x
<1>7. LibraryInv(bases)'
  BY <1>1, <1>2, <1>4 DEF Ownership, LibraryInv
<1>8. EntriesInv(sizes)'
  BY <1>1, <1>2, <1>4 DEF Ownership, EntriesInv
<1>9. HandsInv'
  BY <1>1, <1>2, <1>3, <1>4, <1>6 DEF Ownership, HandsInv, LibraryInv, EntriesInv
<1>10. AllOwned'
  BY <1>1, <1>2, <1>3, <1>4, <1>6 DEF Ownership, AllOwned
<1>. QED  BY <1>3, <1>7, <1>8, <1>9, <1>10 DEF Ownership

\* What is about to be entered is not in the table.
LEMMA NotYetEntered ==
  ASSUME NEW sizes, NEW bases, sizes \subseteq Int, bases \subseteq Nat,
         Ownership(sizes, bases), Wellmade(leaf), KeepsApart(leaf, sizes, bases),
         NEW t \in Callers, call[t].pc = "obtained"
  PROVE  Placed(leaf, call[t].base) \notin DOMAIN live
<1> DEFINE ptr == Placed(leaf, call[t].base)
<1> SUFFICES ASSUME ptr \in DOMAIN live PROVE FALSE
  OBVIOUS
<1>1. t \in Held /\ call[t].n \in sizes /\ call[t].n >= 0
  BY DEF Ownership, CallsOK, Held
<1>2. live[ptr].base # call[t].base /\ ptr = Placed(leaf, live[ptr].base)
  BY <1>1 DEF Ownership, HandsInv, EntriesInv
<1>3. live[ptr].base \in bases /\ call[t].base \in bases
  BY <1>1 DEF Ownership, HandsInv, EntriesInv, LibraryInv
<1> HIDE DEF ptr
<1>4. Placed(leaf, live[ptr].base) # Placed(leaf, call[t].base)
  BY <1>1, <1>2, <1>3, PlacedOnce
<1>. QED  BY <1>2, <1>4 DEF ptr

\* From the hands of the call into the table, where no entry was.
LEMMA RecordKeeps ==
  ASSUME NEW sizes, NEW bases, sizes \subseteq Int, bases \subseteq Nat,
         Ownership(sizes, bases), Wellmade(leaf), KeepsApart(leaf, sizes, bases),
         NEW t \in Callers, Record(t)
  PROVE  Ownership(sizes, bases)'
<1> DEFINE ptr == Placed(leaf, call[t].base)
           x == Done("allocate", ptr, call[t].n, ptr)
<1>1. /\ call' = [call EXCEPT ![t] = x] /\ UNCHANGED <<leaf, blocks, stranded, misfreed>>
      /\ call[t].pc = "obtained"
      /\ live' = With(live, ptr, [n |-> call[t].n, base |-> call[t].base])
  BY DEF Record, Answer
<1>2. x.pc \in {"unlogged", "returned"}
  BY DEF Done, Returned
<1> HIDE DEF x
<1>3. t \in Held /\ call[t].n \in sizes /\ call[t].n >= 0
  BY <1>1 DEF Ownership, CallsOK, Held
<1>4. call[t].base \in DOMAIN blocks \ Lost /\ blocks[call[t].base] = Request(leaf, call[t].n)
  BY <1>1, <1>3 DEF Ownership, HandsInv
<1>5. CallsOK(sizes)' /\ Held' = Held \ {t} /\ Lost' = Lost /\ \A u \in Held \ {t} : call'[u] = call[u]
  BY <1>1, <1>2 DEF Ownership, CallsOK, Held, Lost
<1>6. ptr \notin DOMAIN live
  BY <1>1, NotYetEntered
<1>7. /\ DOMAIN live' = DOMAIN live \cup {ptr}
      /\ live'[ptr].n = call[t].n /\ live'[ptr].base = call[t].base
      /\ \A p \in DOMAIN live : live'[p] = live[p]
  BY <1>1, <1>6 DEF With
<1>8. ptr = Placed(leaf, call[t].base)
  OBVIOUS
<1> HIDE DEF ptr
<1>9. LibraryInv(bases)'
  BY <1>1, <1>5 DEF Ownership, LibraryInv
<1>10. EntriesInv(sizes)'
  BY <1>1, <1>3, <1>4, <1>5, <1>7, <1>8 DEF Ownership, EntriesInv
<1>11. HandsInv'
  BY <1>1, <1>3, <1>5, <1>7 DEF Ownership, HandsInv
<1>12. AllOwned'
  BY <1>1, <1>3, <1>5, <1>7 DEF Ownership, AllOwned
<1>. QED  BY <1>5, <1>9, <1>10, <1>11, <1>12 DEF Ownership

\* From the table into the hands of the call, which only knows the size if it was checked.
LEMMA TakeOutKeeps ==
  ASSUME NEW sizes, NEW bases, sizes \subseteq Int, Ownership(sizes, bases), Wellmade(leaf),
         NEW t \in Callers, TakeOut(t)
  PROVE  Ownership(sizes, bases)'
<1> DEFINE ptr == call[t].ptr
           x == Removed(ptr, call[t].n)
<1>1. /\ call' = [call EXCEPT ![t] = x] /\ UNCHANGED <<leaf, blocks, stranded, misfreed>>
      /\ call[t].pc = "called"
      /\ ptr \in DOMAIN live /\ (leaf.checksSizes => live[ptr].n = call[t].n)
      /\ live' = Without(live, ptr)
  BY DEF TakeOut, Answer, In, Unknown, Mismatch
<1>2. x.pc = "removed" /\ x.n = call[t].n /\ x.base = live[ptr].base
  BY DEF Removed
<1> HIDE DEF x, ptr
<1>3. CallsOK(sizes)' /\ Held' = Held \cup {t} /\ t \notin Held /\ Lost' = Lost
  BY <1>1, <1>2 DEF Ownership, CallsOK, Held, Lost
<1>4. \A u \in Held : call'[u] = call[u]
  BY <1>1, <1>3 DEF Ownership, CallsOK, Held
<1>5. call'[t] = x
  BY <1>1 DEF Ownership, CallsOK
<1>6. DOMAIN live' = DOMAIN live \ {ptr} /\ \A p \in DOMAIN live' : live'[p] = live[p]
  BY <1>1 DEF Without
<1>7. \A p \in DOMAIN live : p # ptr => live[p].base # live[ptr].base
  BY <1>1 DEF Ownership, EntriesInv
<1>8. leaf.tellsSize => blocks[live[ptr].base] = ToldSize(leaf, call[t].n)
  <2>1. blocks[live[ptr].base] = Request(leaf, live[ptr].n) /\ live[ptr].n \in sizes
    BY <1>1 DEF Ownership, EntriesInv
  <2>2. leaf.tellsSize => live[ptr].n = call[t].n /\ ~leaf.moves
    BY <1>1 DEF Wellmade
  <2>3. AtLeast1(live[ptr].n) \in Int
    <3>1. live[ptr].n \in Int
      BY <2>1
    <3>. QED  BY <3>1 DEF AtLeast1
  <2>. QED  BY <2>1, <2>2, <2>3 DEF Request, ToldSize
<1>9. LibraryInv(bases)'
  BY <1>1, <1>3 DEF Ownership, LibraryInv
<1>10. EntriesInv(sizes)'
  BY <1>1, <1>3, <1>6 DEF Ownership, EntriesInv
<1>11. HandsInv'
  BY <1>1, <1>2, <1>3, <1>4, <1>5, <1>6, <1>7, <1>8 DEF Ownership, HandsInv, EntriesInv
<1>12. AllOwned'
  BY <1>1, <1>2, <1>3, <1>4, <1>5, <1>6 DEF Ownership, AllOwned
<1>. QED  BY <1>3, <1>9, <1>10, <1>11, <1>12 DEF Ownership

\* Back to the library, once.
LEMMA ReleaseKeeps ==
  ASSUME NEW sizes, NEW bases, Ownership(sizes, bases), NEW t \in Callers, Release(t)
  PROVE  Ownership(sizes, bases)'
<1> DEFINE base == call[t].base
           x == Done("deallocate", call[t].ptr, call[t].n, 0)
<1>1. /\ call' = [call EXCEPT ![t] = x] /\ UNCHANGED <<leaf, live, stranded>>
      /\ call[t].pc = "removed"
      /\ blocks' = Without(blocks, base)
      /\ misfreed' = \/ misfreed
                     \/ base \notin DOMAIN blocks
                     \/ leaf.tellsSize /\ ToldSize(leaf, call[t].n) # blocks[base]
  BY DEF Release, Answer
<1>2. x.pc \in {"unlogged", "returned"}
  BY DEF Done, Returned
<1>3. t \in Held
  BY <1>1 DEF Held
<1>4. /\ base \in DOMAIN blocks \ Lost
      /\ leaf.tellsSize => blocks[base] = ToldSize(leaf, call[t].n)
      /\ \A p \in DOMAIN live : live[p].base # base
      /\ \A u \in Held : u # t => call[u].base # base
  BY <1>1, <1>3 DEF Ownership, HandsInv
<1>5. misfreed' = FALSE
  BY <1>1, <1>4 DEF Ownership, LibraryInv
<1> HIDE DEF x, base
<1>6. CallsOK(sizes)' /\ Held' = Held \ {t} /\ Lost' = Lost /\ \A u \in Held \ {t} : call'[u] = call[u]
  BY <1>1, <1>2 DEF Ownership, CallsOK, Held, Lost
<1>7. DOMAIN blocks' = DOMAIN blocks \ {base} /\ \A b \in DOMAIN blocks' : blocks'[b] = blocks[b]
  BY <1>1 DEF Without
<1>8. LibraryInv(bases)'
  BY <1>1, <1>4, <1>5, <1>6, <1>7 DEF Ownership, LibraryInv
<1>9. EntriesInv(sizes)'
  BY <1>1, <1>4, <1>6, <1>7 DEF Ownership, EntriesInv
<1>10. HandsInv'
  BY <1>1, <1>4, <1>6, <1>7 DEF Ownership, HandsInv
<1>11. AllOwned'
  BY <1>1, <1>3, <1>6, <1>7 DEF Ownership, AllOwned, base
<1>. QED  BY <1>6, <1>8, <1>9, <1>10, <1>11 DEF Ownership

\* The library's free raises: the block is nobody's, and stays there.
LEMMA ReleaseRaisesKeeps ==
  ASSUME NEW sizes, NEW bases, Ownership(sizes, bases), NEW t \in Callers, ReleaseRaises(t)
  PROVE  Ownership(sizes, bases)'
<1> DEFINE base == call[t].base
           x == Raised("error")
           lost == [base |-> call[t].base, n |-> call[t].n]
<1>1. /\ call' = [call EXCEPT ![t] = x] /\ UNCHANGED <<leaf, live, blocks, misfreed>>
      /\ call[t].pc = "removed"
      /\ stranded' = stranded \cup {lost}
  BY DEF ReleaseRaises, Answer
<1>2. x.pc = "returned" /\ lost.base = base
  BY DEF Raised
<1>3. t \in Held
  BY <1>1 DEF Held
<1>4. /\ base \in DOMAIN blocks \ Lost
      /\ \A p \in DOMAIN live : live[p].base # base
      /\ \A u \in Held : u # t => call[u].base # base
  BY <1>1, <1>3 DEF Ownership, HandsInv
<1> HIDE DEF x, base, lost
<1>5. CallsOK(sizes)' /\ Held' = Held \ {t} /\ \A u \in Held \ {t} : call'[u] = call[u]
  BY <1>1, <1>2 DEF Ownership, CallsOK, Held
<1>6. Lost' = Lost \cup {base}
  BY <1>1, <1>2 DEF Lost
<1>7. LibraryInv(bases)'
  BY <1>1, <1>4, <1>6 DEF Ownership, LibraryInv
<1>8. EntriesInv(sizes)'
  BY <1>1, <1>4, <1>6 DEF Ownership, EntriesInv
<1>9. HandsInv'
  BY <1>1, <1>4, <1>5, <1>6 DEF Ownership, HandsInv
<1>10. AllOwned'
  BY <1>1, <1>3, <1>5, <1>6 DEF Ownership, AllOwned, base
<1>. QED  BY <1>5, <1>7, <1>8, <1>9, <1>10 DEF Ownership

\* Whatever a call does, on its way through the leaf or to and from its caller.
LEMMA CallKeeps ==
  ASSUME NEW sizes, NEW bases, sizes \subseteq Int, bases \subseteq Nat,
         Ownership(sizes, bases), Wellmade(leaf), KeepsApart(leaf, sizes, bases),
         ~Records, NEW t \in Callers,
         \/ \E n \in sizes : Allocate(t, n)
         \/ \E ptr : \E n \in sizes : Deallocate(t, ptr, n)
         \/ Return(t)
         \/ LeafStep(t, bases)
  PROVE  Ownership(sizes, bases)'
<1>1. ASSUME Quiet(t, sizes) PROVE Ownership(sizes, bases)'
  BY <1>1, QuietKeeps
<1> USE DEF Quiet, Answer, Held, In
<1>2. ASSUME NEW n \in sizes, Allocate(t, n) PROVE Quiet(t, sizes)
  BY <1>2 DEF Allocate, Calls, Called
<1>3. ASSUME NEW ptr, NEW n \in sizes, Deallocate(t, ptr, n) PROVE Quiet(t, sizes)
  BY <1>3 DEF Deallocate, Calls, Called
<1>4. ASSUME Return(t) PROVE Quiet(t, sizes)
  BY <1>4 DEF Return, Idle
<1>5. ASSUME RefuseNegative(t) PROVE Quiet(t, sizes)
  BY <1>5 DEF RefuseNegative, Raised
<1>6. ASSUME ObtainFails(t) PROVE Quiet(t, sizes)
  <2>1. \A error : Raised(error).pc = "returned"
    BY DEF Raised
  <2>. QED  BY <1>6, <2>1 DEF ObtainFails
<1>7. ASSUME ObtainRaises(t) PROVE Quiet(t, sizes)
  BY <1>7 DEF ObtainRaises, Raised
<1>8. ASSUME RefuseFree(t) PROVE Quiet(t, sizes)
  BY <1>8 DEF RefuseFree, Raised
<1>9. ASSUME WriteLog(t) PROVE Quiet(t, sizes)
  BY <1>9 DEF WriteLog, Returned
<1>10. ASSUME RecordAllocation(t) \/ RecordFree(t) PROVE FALSE
  BY <1>10 DEF RecordAllocation, RecordFree
<1> HIDE DEF Quiet, Answer, Held, In
<1>11. ASSUME NEW base \in bases, Obtain(t, base) PROVE Ownership(sizes, bases)'
  BY <1>11, ObtainKeeps
<1>12. ASSUME Record(t) PROVE Ownership(sizes, bases)'
  BY <1>12, RecordKeeps
<1>13. ASSUME TakeOut(t) PROVE Ownership(sizes, bases)'
  BY <1>13, TakeOutKeeps
<1>14. ASSUME Release(t) PROVE Ownership(sizes, bases)'
  BY <1>14, ReleaseKeeps
<1>15. ASSUME ReleaseRaises(t) PROVE Ownership(sizes, bases)'
  BY <1>15, ReleaseRaisesKeeps
<1>. QED
  BY <1>1, <1>2, <1>3, <1>4, <1>5, <1>6, <1>7, <1>8, <1>9, <1>10, <1>11, <1>12, <1>13, <1>14,
     <1>15 DEF LeafStep

LEMMA OwnershipStays ==
  ASSUME NEW sizes, NEW bases, Ownership(sizes, bases),
         UNCHANGED <<leaf, live, call, blocks, stranded, misfreed>>
  PROVE  Ownership(sizes, bases)'
BY DEF Ownership, CallsOK, LibraryInv, EntriesInv, HandsInv, AllOwned, Held, Lost
-------------------------------------------------------------------------------
\* What callers and their calls do, as long as no suite runs.
OwnStep ==
  \E t \in Callers :
    \/ \E n \in Sizes : Allocate(t, n)
    \/ \E ptr : \E n \in Sizes : Deallocate(t, ptr, n)
    \/ Return(t)
    \/ ~Foreign /\ LeafStep(t, CallerBases)
    \/ ForeignAllocate(t)
    \/ ForeignDeallocate(t)

\* No suite is started later.
LEMMA NoSuiteStarts ==
  ASSUME [Next]_vars, verdict' = "none"
  PROVE  verdict = "none" /\ (OwnStep \/ UNCHANGED leafVars)
<1> USE DEF leafVars, suiteVars
<1>1. ASSUME NEW t \in Callers, CallerStep(t) PROVE verdict = "none" /\ OwnStep
  BY <1>1 DEF CallerStep, OwnStep
<1>2. ASSUME NEW t \in Callers, ResourceStep(t) PROVE verdict = "none" /\ OwnStep
  BY <1>2 DEF ResourceStep, OwnStep
<1>3. ASSUME \/ MakeResource \/ StartCall \/ EndCall \/ WriteSlot \/ Check \/ Pass
      PROVE  FALSE
  BY <1>3 DEF MakeResource, StartCall, EndCall, WriteSlot, Check, Pass, Runs, Ensure,
     Advance, Stop
<1>4. ASSUME UNCHANGED vars PROVE verdict = "none" /\ UNCHANGED leafVars
  BY <1>4 DEF vars
<1>. QED  BY <1>1, <1>2, <1>3, <1>4 DEF Next

\* The resource stays the one that it was.
LEMMA LeafStays == ASSUME OwnStep PROVE leaf' = leaf
BY ZenonT(40) DEF OwnStep, Allocate, Deallocate, Calls, Return, LeafStep, RefuseNegative, Obtain,
   ObtainFails, ObtainRaises, Record, RefuseFree, TakeOut, Release, ReleaseRaises,
   RecordAllocation, RecordFree, WriteLog, ForeignAllocate, ForeignDeallocate

\* Inductive: as long as no suite runs, what is out is owned.
OwnedInv ==
  verdict = "none" =>
    /\ leaf \in Leaves
    /\ ~Records /\ ~Foreign => Ownership(Sizes, CallerBases)

LEMMA OwnedInit == Init => OwnedInv
<1> SUFFICES ASSUME Init, verdict = "none" PROVE leaf \in Leaves /\ Ownership(Sizes, CallerBases)
  BY DEF OwnedInv
<1>1. PICK l \in Leaves : FreshLeaf(l)
  BY DEF Init
<1>2. /\ leaf = l /\ DOMAIN live = {} /\ DOMAIN blocks = {} /\ stranded = {} /\ misfreed = FALSE
      /\ DOMAIN call = Callers /\ \A t \in Callers : call[t].pc = "idle"
  BY <1>1 DEF FreshLeaf, Nothing, Idle
<1>. QED
  BY <1>2 DEF Ownership, CallsOK, LibraryInv, EntriesInv, HandsInv, AllOwned, Held, Lost

LEMMA OwnedStep ==
  ASSUME Setting, OwnedInv, [Next]_vars
  PROVE  OwnedInv'
<1> SUFFICES ASSUME verdict' = "none"
             PROVE  leaf' \in Leaves /\ ((~Records /\ ~Foreign)' => Ownership(Sizes, CallerBases)')
  BY DEF OwnedInv
<1>1. verdict = "none" /\ (OwnStep \/ UNCHANGED leafVars) /\ leaf' = leaf /\ leaf \in Leaves
  BY NoSuiteStarts, LeafStays DEF leafVars, OwnedInv
<1> SUFFICES ASSUME ~Records, ~Foreign PROVE Ownership(Sizes, CallerBases)'
  BY <1>1 DEF Records, Foreign
<1>2. /\ Ownership(Sizes, CallerBases) /\ Wellmade(leaf) /\ KeepsApart(leaf, Sizes, CallerBases)
      /\ Sizes \subseteq Int /\ CallerBases \subseteq Nat
  BY <1>1, OfferedWellmade, SuiteAssumption, LeafAssumption
     DEF OwnedInv, Setting, LeavesAreOffered, LibraryKeepsBlocksApart
<1>3. ASSUME UNCHANGED leafVars PROVE Ownership(Sizes, CallerBases)'
  BY <1>2, <1>3, OwnershipStays DEF leafVars
<1>4. ASSUME NEW t \in Callers, ForeignAllocate(t) \/ ForeignDeallocate(t) PROVE FALSE
  BY <1>4 DEF ForeignAllocate, ForeignDeallocate
<1>5. ASSUME NEW t \in Callers,
             \/ \E n \in Sizes : Allocate(t, n)
             \/ \E ptr : \E n \in Sizes : Deallocate(t, ptr, n)
             \/ Return(t)
             \/ LeafStep(t, CallerBases)
      PROVE  Ownership(Sizes, CallerBases)'
  BY <1>2, <1>5, CallKeeps
<1>. QED  BY <1>1, <1>3, <1>4, <1>5 DEF OwnStep

\* Owned by somebody, and by nobody else: the property from its parts.
LEMMA OwnershipSuffices ==
  ASSUME NEW sizes, NEW bases, Ownership(sizes, bases)
  PROVE  /\ ~misfreed
         /\ {BlockOf(o) : o \in Owners} = DOMAIN blocks \ Lost
         /\ \A o, p \in Owners : o # p => BlockOf(o) # BlockOf(p)
<1>1. \A p \in DOMAIN live : <<"entry", p>> \in Owners /\ BlockOf(<<"entry", p>>) = live[p].base
  BY DEF Owners, BlockOf
<1>2. \A t \in Held : <<"caller", t>> \in Owners /\ BlockOf(<<"caller", t>>) = call[t].base
  BY DEF Owners, BlockOf, Held
<1>3. \A o \in Owners : \/ \E p \in DOMAIN live : o = <<"entry", p>>
                        \/ \E t \in Held : o = <<"caller", t>>
  BY DEF Owners, Held
<1>4. \A p, q \in DOMAIN live : p # q => live[p].base # live[q].base
  BY DEF Ownership, EntriesInv
<1>5. /\ \A p \in DOMAIN live, t \in Held : live[p].base # call[t].base
      /\ \A t, u \in Held : t # u => call[t].base # call[u].base
  BY DEF Ownership, HandsInv
<1>6. ASSUME NEW o \in Owners, NEW p \in Owners, o # p PROVE BlockOf(o) # BlockOf(p)
  BY <1>1, <1>2, <1>3, <1>4, <1>5, <1>6
<1>7. \A o \in Owners : BlockOf(o) \in DOMAIN blocks \ Lost
  BY <1>1, <1>2, <1>3 DEF Ownership, EntriesInv, HandsInv
<1>8. \A b \in DOMAIN blocks \ Lost : \E o \in Owners : BlockOf(o) = b
  BY <1>1, <1>2 DEF Ownership, AllOwned
<1>. QED  BY <1>6, <1>7, <1>8 DEF Ownership, LibraryInv

\* Whatever callers pass, however many there are and however their calls overlap: every
\* block of the library has one owner, no entry of `_live` outlives its block, and the
\* library gets back what it gave, once, with the size it was asked for.
THEOREM BlocksHaveOneOwner ==
  ASSUME Setting
  PROVE  Spec => [](verdict = "none" => BlocksOwned)
<1>1. OwnedInv /\ [Next]_vars => OwnedInv'
  BY OwnedStep
<1>2. OwnedInv => (verdict = "none" => BlocksOwned)
  BY OwnershipSuffices DEF OwnedInv, BlocksOwned, Lost
<1>. QED  BY <1>1, <1>2, OwnedInit, PTL DEF Spec
-------------------------------------------------------------------------------
(***************************************************************************)
(* Allocations that lie apart                                              *)
(***************************************************************************)
\* The recorder gives out what lies behind its cursor, and moves it on: also for
\* allocations of no bytes, and whatever is freed in between.
RecorderSound ==
  /\ CallsOK(Sizes) /\ Held = {}
  /\ "cursor" \in DOMAIN recorder /\ recorder.cursor \in Nat
  /\ \A p \in DOMAIN live :
       /\ p \in Nat /\ p % leaf.guarantee = 0 /\ live[p].n \in Int
       /\ p + AtLeast1(live[p].n) <= recorder.cursor
  /\ \A p, q \in DOMAIN live : p < q => p + AtLeast1(live[p].n) <= q

\* Only the calls and the log move.
Aside(t) ==
  /\ UNCHANGED <<leaf, live>>
  /\ "cursor" \in DOMAIN recorder =>
       "cursor" \in DOMAIN recorder' /\ recorder'.cursor = recorder.cursor
  /\ \E x : /\ x.pc \notin {"obtained", "removed"}
            /\ x.pc = "called" => x.n \in Sizes
            /\ call' = [call EXCEPT ![t] = x]

LEMMA AsideKeeps ==
  ASSUME RecorderSound, NEW t \in Callers, Aside(t)
  PROVE  RecorderSound'
<1>1. CallsOK(Sizes)' /\ Held' = {}
  BY DEF RecorderSound, Aside, CallsOK, Held
<1>. QED  BY <1>1 DEF RecorderSound, Aside

LEMMA RecordAllocationKeeps ==
  ASSUME RecorderSound, Wellmade(leaf), Sizes \subseteq Int,
         NEW t \in Callers, RecordAllocation(t)
  PROVE  RecorderSound'
<1> DEFINE c == recorder.cursor
           ptr == c + ((-c) % leaf.guarantee)
           n == call[t].n
<1>1. /\ call' = [call EXCEPT ![t] = Returned(ptr)] /\ leaf' = leaf
      /\ call[t].pc = "called"
      /\ live' = With(live, ptr, [n |-> n, base |-> ptr])
      /\ "cursor" \in DOMAIN recorder' /\ recorder'.cursor = Advanced(ptr, n)
  BY DEF RecordAllocation, Answer, In, RecorderSound
<1>2. c \in Int /\ c \in Nat /\ leaf.guarantee \in Nat \ {0}
  BY DEF RecorderSound, Wellmade
<1>3. n \in Int
  BY <1>1 DEF RecorderSound, CallsOK
<1>4. Returned(ptr).pc = "returned"
  BY DEF Returned
<1>5. CallsOK(Sizes)' /\ Held' = {}
  BY <1>1, <1>4 DEF RecorderSound, CallsOK, Held
<1>6. (-c) % leaf.guarantee \in 0..(leaf.guarantee - 1) /\ ptr % leaf.guarantee = 0
  BY <1>2, MovedUp, Zenon
<1>7. ptr \in Nat /\ c <= ptr
  BY <1>2, <1>6
<1>8. c = recorder.cursor /\ n = call[t].n
  OBVIOUS
<1> HIDE DEF c, ptr, n
<1>9. /\ AtLeast1(n) \in Nat \ {0} /\ Advanced(ptr, n) = ptr + AtLeast1(n)
      /\ Advanced(ptr, n) \in Nat
  BY <1>3, <1>7 DEF AtLeast1, Advanced
<1>10. \A p \in DOMAIN live : AtLeast1(live[p].n) \in Nat \ {0}
  BY DEF RecorderSound, AtLeast1
<1>11. /\ DOMAIN live' = DOMAIN live \cup {ptr}
       /\ live'[ptr].n = n
       /\ \A p \in DOMAIN live : p < c /\ p # ptr /\ live'[p] = live[p]
  <2>1. \A p \in DOMAIN live : p < c /\ p # ptr
    BY <1>2, <1>7, <1>8, <1>10 DEF RecorderSound
  <2>. QED  BY <1>1, <2>1 DEF With
<1>12. ASSUME NEW p \in DOMAIN live'
       PROVE  /\ p \in Nat /\ p % leaf.guarantee = 0 /\ live'[p].n \in Int
              /\ p + AtLeast1(live'[p].n) <= recorder'.cursor
  <2>1. CASE p = ptr
    BY <1>1, <1>3, <1>6, <1>7, <1>9, <1>11, <2>1
  <2>2. CASE p \in DOMAIN live
    <3>1. p + AtLeast1(live[p].n) <= c /\ AtLeast1(live[p].n) \in Nat /\ p \in Nat
      BY <1>8, <1>10, <2>2 DEF RecorderSound
    <3>2. p + AtLeast1(live[p].n) <= ptr + AtLeast1(n)
      BY <1>2, <1>7, <1>9, <3>1
    <3>. QED  BY <1>1, <1>9, <1>11, <2>2, <3>1, <3>2 DEF RecorderSound
  <2>. QED  BY <1>11, <2>1, <2>2
<1>13. ASSUME NEW p \in DOMAIN live', NEW q \in DOMAIN live', p < q
       PROVE  p + AtLeast1(live'[p].n) <= q
  <2>1. CASE p \in DOMAIN live /\ q = ptr
    <3>1. p + AtLeast1(live[p].n) <= c /\ AtLeast1(live[p].n) \in Nat /\ p \in Nat
      BY <1>8, <1>10, <2>1 DEF RecorderSound
    <3>. QED  BY <1>2, <1>7, <1>11, <2>1, <3>1
  <2>2. CASE p \in DOMAIN live /\ q \in DOMAIN live
    BY <1>11, <1>13, <2>2 DEF RecorderSound
  <2>3. CASE p = ptr
    <3>1. q = ptr \/ (q < c /\ q \in Nat)
      BY <1>11 DEF RecorderSound
    <3>. QED  BY <1>2, <1>7, <1>13, <2>3, <3>1
  <2>. QED  BY <1>11, <2>1, <2>2, <2>3
<1>. QED  BY <1>1, <1>5, <1>9, <1>12, <1>13 DEF RecorderSound

LEMMA RecordFreeKeeps ==
  ASSUME RecorderSound, NEW t \in Callers, RecordFree(t)
  PROVE  RecorderSound'
<1>1. /\ \E x : x.pc = "returned" /\ call' = [call EXCEPT ![t] = x]
      /\ leaf' = leaf
      /\ "cursor" \in DOMAIN recorder' /\ recorder'.cursor = recorder.cursor
      /\ live' = live \/ \E ptr : live' = Without(live, ptr)
  <2>1. \A ptr, error : Returned(ptr).pc = "returned" /\ Raised(error).pc = "returned"
    BY DEF Returned, Raised
  <2>. QED  BY <2>1 DEF RecordFree, Answer, RecorderSound
<1>2. CallsOK(Sizes)' /\ Held' = {}
  BY <1>1 DEF RecorderSound, CallsOK, Held
<1>3. DOMAIN live' \subseteq DOMAIN live /\ \A p \in DOMAIN live' : live'[p] = live[p]
  BY <1>1 DEF Without
<1>. QED  BY <1>1, <1>2, <1>3 DEF RecorderSound

RecorderInv ==
  verdict = "none" =>
    /\ leaf \in Leaves
    /\ Records => RecorderSound

LEMMA RecorderInit == ASSUME Setting, Init PROVE RecorderInv
<1> SUFFICES ASSUME verdict = "none" PROVE leaf \in Leaves /\ RecorderSound
  BY DEF RecorderInv
<1>1. PICK l \in Leaves : FreshLeaf(l)
  BY DEF Init
<1>2. leaf = l /\ DOMAIN live = {} /\ DOMAIN call = Callers /\ \A t \in Callers : call[t].pc = "idle"
  BY <1>1 DEF FreshLeaf, Nothing, Idle
<1>3. "cursor" \in DOMAIN recorder /\ recorder.cursor = l.guarantee
  BY <1>1 DEF FreshLeaf
<1>4. l.guarantee \in Nat
  BY OfferedWellmade DEF Setting, LeavesAreOffered, Wellmade
<1>. QED  BY <1>2, <1>3, <1>4 DEF RecorderSound, CallsOK, Held

LEMMA RecorderStep ==
  ASSUME Setting, RecorderInv, [Next]_vars
  PROVE  RecorderInv'
<1> SUFFICES ASSUME verdict' = "none"
             PROVE  leaf' \in Leaves /\ (Records' => RecorderSound')
  BY DEF RecorderInv
<1>1. verdict = "none" /\ (OwnStep \/ UNCHANGED leafVars) /\ leaf' = leaf /\ leaf \in Leaves
  BY NoSuiteStarts, LeafStays DEF leafVars, RecorderInv
<1> SUFFICES ASSUME Records PROVE RecorderSound'
  BY <1>1 DEF Records
<1>2. RecorderSound /\ Wellmade(leaf) /\ Sizes \subseteq Int
  BY <1>1, OfferedWellmade DEF RecorderInv, Setting, LeavesAreOffered
<1>3. ~Foreign
  BY DEF Records, Foreign, Own
<1>4. ASSUME UNCHANGED leafVars PROVE RecorderSound'
  BY <1>2, <1>4 DEF leafVars, RecorderSound, CallsOK, Held
<1>5. ASSUME NEW t \in Callers, Aside(t) PROVE RecorderSound'
  BY <1>2, <1>5, AsideKeeps
<1>6. \A ptr, error : Returned(ptr).pc = "returned" /\ Raised(error).pc = "returned"
  BY DEF Returned, Raised
<1> USE DEF Aside, Answer, In
<1>7. ASSUME NEW t \in Callers, NEW n \in Sizes, Allocate(t, n) PROVE Aside(t)
  BY <1>7 DEF Allocate, Calls, Called
<1>8. ASSUME NEW t \in Callers, NEW ptr, NEW n \in Sizes, Deallocate(t, ptr, n) PROVE Aside(t)
  BY <1>8 DEF Deallocate, Calls, Called
<1>9. ASSUME NEW t \in Callers, Return(t) PROVE Aside(t)
  BY <1>9 DEF Return, Idle
<1>10. ASSUME NEW t \in Callers, RefuseNegative(t) \/ ObtainRaises(t) \/ WriteLog(t)
       PROVE  Aside(t)
  BY <1>6, <1>10 DEF RefuseNegative, ObtainRaises, WriteLog
<1>11. ASSUME NEW t \in Callers, NEW base,
              \/ Obtain(t, base) \/ ObtainFails(t) \/ Record(t) \/ RefuseFree(t)
              \/ TakeOut(t) \/ Release(t) \/ ReleaseRaises(t)
              \/ ForeignAllocate(t) \/ ForeignDeallocate(t)
       PROVE  FALSE
  BY <1>2, <1>3, <1>11 DEF Obtain, ObtainFails, Record, RefuseFree, TakeOut, Release,
     ReleaseRaises, ForeignAllocate, ForeignDeallocate, RecorderSound, Held
<1>12. ASSUME NEW t \in Callers, RecordAllocation(t) PROVE RecorderSound'
  BY <1>2, <1>12, RecordAllocationKeeps
<1>13. ASSUME NEW t \in Callers, RecordFree(t) PROVE RecorderSound'
  BY <1>2, <1>13, RecordFreeKeeps
<1> HIDE DEF Aside, Answer, In, RecorderSound
<1>. QED
  BY <1>1, <1>4, <1>5, <1>7, <1>8, <1>9, <1>10, <1>11, <1>12, <1>13 DEF OwnStep, LeafStep

\* What lies in blocks that lie apart lies apart.
LEMMA LeavesApart ==
  ASSUME NEW sizes, NEW bases, sizes \subseteq Int, bases \subseteq Nat,
         Ownership(sizes, bases), Wellmade(leaf), KeepsApart(leaf, sizes, bases)
  PROVE  \A p \in DOMAIN live :
           /\ p % leaf.alignment = 0 /\ p % leaf.guarantee = 0
           /\ p \in Nat /\ live[p].n \in Int
           /\ /\ live[p].base <= p
              /\ p + AtLeast1(live[p].n) <= live[p].base + blocks[live[p].base]
           /\ \A q \in DOMAIN live : p < q => p + AtLeast1(live[p].n) <= q
<1>1. Wellmade(leaf) /\ sizes \subseteq Int
  OBVIOUS
<1>2. TAKE p \in DOMAIN live
<1>3. /\ live[p].n \in sizes /\ live[p].n \in Int /\ live[p].n >= 0
      /\ p = Placed(leaf, live[p].base)
      /\ blocks[live[p].base] = Request(leaf, live[p].n)
      /\ live[p].base % leaf.boundary = 0
      /\ \A q \in DOMAIN live :
           live[q].base \in bases /\ live[q].base \in Nat /\ q = Placed(leaf, live[q].base)
  BY <1>1 DEF Ownership, EntriesInv, LibraryInv
<1>4. p % leaf.alignment = 0 /\ p % leaf.guarantee = 0
  BY <1>1, <1>3, OnItsAlignment
<1>5. /\ p \in Nat /\ live[p].base <= p
      /\ p + AtLeast1(live[p].n) <= live[p].base + blocks[live[p].base]
      /\ AtLeast1(live[p].n) \in Nat \ {0}
  <2> DEFINE b == live[p].base
             n == live[p].n
  <2>1. b \in Nat /\ n \in Int
    BY <1>3
  <2>2. /\ Placed(leaf, b) \in Nat /\ b <= Placed(leaf, b)
        /\ Placed(leaf, b) + AtLeast1(n) <= b + Request(leaf, n)
        /\ AtLeast1(n) \in Nat \ {0}
    <3> HIDE DEF b, n
    <3>. QED  BY <1>1, <2>1, InItsBlock
  <2>. QED  BY <1>3, <2>2
<1>6. ASSUME NEW q \in DOMAIN live, p < q PROVE p + AtLeast1(live[p].n) <= q
  <2> DEFINE b == live[p].base
             c == live[q].base
  <2>1. b \in bases /\ b \in Nat /\ c \in bases /\ c \in Nat /\ q = Placed(leaf, c)
    BY <1>3
  <2>2. q \in Nat /\ AtLeast1(live[q].n) \in Nat \ {0}
    <3>1. live[q].n \in Int
      BY <1>1 DEF Ownership, EntriesInv
    <3>. QED  BY <1>1, <2>1, <3>1, InItsBlock
  <2>3. b # c
    BY <1>3, <1>5, <1>6, <2>1, <2>2
  <2>4. CASE b < c
    <3>1. b + Request(leaf, live[p].n) <= c
      BY <1>3, <2>1, <2>4 DEF KeepsApart
    <3>. QED  BY <1>1, <1>3, <2>1, <3>1, PlacedApart
  <2>5. CASE c < b
    <3>1. c + Request(leaf, live[p].n) <= b
      BY <1>3, <2>1, <2>5 DEF KeepsApart
    <3>2. q + AtLeast1(live[p].n) <= p
      BY <1>1, <1>3, <2>1, <3>1, PlacedApart
    <3>. QED  BY <1>5, <1>6, <2>2, <3>2
  <2>. QED  BY <2>1, <2>3, <2>4, <2>5
<1>. QED  BY <1>3, <1>4, <1>5, <1>6

\* Ends that do not meet.
LEMMA ExtentsApart ==
  ASSUME \A p \in DOMAIN live :
           /\ p \in Nat /\ live[p].n \in Int
           /\ \A q \in DOMAIN live : p < q => p + AtLeast1(live[p].n) <= q
  PROVE  \A p, q \in DOMAIN live : p # q => Extent(p) \cap Extent(q) = {}
<1>1. \A p \in DOMAIN live : AtLeast1(live[p].n) \in Nat
  BY DEF AtLeast1
<1>2. ASSUME NEW p \in DOMAIN live, NEW q \in DOMAIN live, p < q
      PROVE  Extent(p) \cap Extent(q) = {}
  BY <1>1, <1>2 DEF Extent
<1>3. TAKE p, q \in DOMAIN live
<1>4. p \in Nat /\ q \in Nat
  OBVIOUS
<1>. QED  BY <1>2, <1>4

\* What a caller was given lies in the block it was cut from, on both alignments, and apart
\* from all that others were given, the recorder's invented addresses too; for any sizes
\* and alignments, as long as the library keeps its blocks apart.
THEOREM AllocationsStayApart ==
  ASSUME Setting
  PROVE  Spec => [](verdict = "none" => AllocationsApart)
<1>1. OwnedInv /\ [Next]_vars => OwnedInv'
  BY OwnedStep
<1>2. RecorderInv /\ [Next]_vars => RecorderInv'
  BY RecorderStep
<1>3. Init => RecorderInv
  BY RecorderInit
<1>4. OwnedInv /\ RecorderInv => (verdict = "none" => AllocationsApart)
  <2> SUFFICES ASSUME OwnedInv, RecorderInv, verdict = "none", ~Foreign PROVE AllocationsApart
    BY DEF AllocationsApart
  <2>1. leaf \in Leaves
    BY DEF OwnedInv
  <2>2. CASE Records
    <3>1. RecorderSound /\ leaf.alignment = 1
      BY <2>1, <2>2, OfferedWellmade DEF RecorderInv, Setting, LeavesAreOffered, Wellmade, Records
    <3>2. \A p \in DOMAIN live : p % leaf.alignment = 0 /\ p % leaf.guarantee = 0
      BY <3>1, ModuloOne DEF RecorderSound
    <3>3. \A p, q \in DOMAIN live : p # q => Extent(p) \cap Extent(q) = {}
      BY <3>1, ExtentsApart DEF RecorderSound
    <3>. QED  BY <2>2, <3>2, <3>3 DEF AllocationsApart
  <2>3. CASE ~Records
    <3>1. Ownership(Sizes, CallerBases)
      BY <2>3 DEF OwnedInv
    <3>2. /\ Wellmade(leaf) /\ KeepsApart(leaf, Sizes, CallerBases)
          /\ Sizes \subseteq Int /\ CallerBases \subseteq Nat
      BY <2>1, OfferedWellmade, SuiteAssumption, LeafAssumption
         DEF Setting, LeavesAreOffered, LibraryKeepsBlocksApart
    <3>3. \A p, q \in DOMAIN live : p # q => Extent(p) \cap Extent(q) = {}
      BY <3>1, <3>2, LeavesApart, ExtentsApart
    <3>. QED  BY <3>1, <3>2, <3>3, LeavesApart DEF AllocationsApart
  <2>. QED  BY <2>2, <2>3
<1>. QED  BY <1>1, <1>2, <1>3, <1>4, OwnedInit, PTL DEF Spec
-------------------------------------------------------------------------------
(***************************************************************************)
(* Logs                                                                    *)
(***************************************************************************)
\* A sequence, of whatever it may be.
IsLog(s) == Len(s) \in Nat /\ s = [i \in 1..Len(s) |-> s[i]]

LEMMA LogGrows ==
  ASSUME NEW s, IsLog(s), NEW e
  PROVE  /\ IsLog(Append(s, e)) /\ Len(Append(s, e)) = Len(s) + 1
         /\ DOMAIN s = 1..Len(s) /\ DOMAIN Append(s, e) = DOMAIN s \cup {Len(s) + 1}
         /\ \A i \in 1..Len(s) : Append(s, e)[i] = s[i]
         /\ Append(s, e)[Len(s) + 1] = e
<1> DEFINE S == {s[i] : i \in 1..Len(s)} \cup {e}
           r == Append(s, e)
<1>1. Len(s) \in Nat /\ DOMAIN s = 1..Len(s)
  BY DEF IsLog
<1>2. s \in [1..Len(s) -> S]
  BY DEF IsLog
<1>3. s \in Seq(S)
  <2> HIDE DEF S
  <2>. QED  BY <1>1, <1>2, SeqDef
<1>4. e \in S
  OBVIOUS
<1> HIDE DEF S
<1>5. /\ r \in Seq(S) /\ Len(r) = Len(s) + 1
      /\ \A i \in 1..Len(s) : r[i] = s[i]
      /\ r[Len(s) + 1] = e
  BY <1>3, <1>4, AppendProperties
<1>6. r \in [1..Len(r) -> S] /\ Len(r) \in Nat /\ DOMAIN r = 1..Len(r)
  BY <1>5, LenProperties
<1> HIDE DEF r
<1>7. IsLog(r)
  BY <1>6 DEF IsLog
<1>8. DOMAIN r = DOMAIN s \cup {Len(s) + 1}
  BY <1>1, <1>5, <1>6
<1>. QED  BY <1>1, <1>5, <1>7, <1>8 DEF r

\* What replaying one line of the recorder's log does.
Applied(before, line) ==
  IF line.op = "allocate" THEN [before EXCEPT !.live = With(@, line.ptr, line.n)]
  ELSE IF line.ptr \in DOMAIN before.live /\ before.live[line.ptr] = line.n
       THEN [live |-> Without(before.live, line.ptr), freed |-> before.freed \cup {line.ptr}]
       ELSE before
Replays(log, f) ==
  f = [i \in 0..Len(log) |->
         IF i = 0 THEN [live |-> Nothing, freed |-> {}] ELSE Applied(f[i - 1], log[i])]

LEMMA ReplayIs == Replay = (CHOOSE f : Replays(recorder.log, f))[Len(recorder.log)]
BY DEF Replay, Replays, Applied

\* Replaying a longer log begins with replaying the shorter one, and can be done.
LEMMA ReplayGoesOn ==
  ASSUME NEW s, IsLog(s), NEW e, NEW f, Replays(s, f)
  PROVE  \E g : Replays(Append(s, e), g)
<1> DEFINE n == Len(s)
           r == Append(s, e)
           start == [live |-> Nothing, freed |-> {}]
           step(h, log, i) == IF i = 0 THEN start ELSE Applied(h[i - 1], log[i])
           g == [i \in 0..(n + 1) |-> IF i = n + 1 THEN Applied(f[n], e) ELSE f[i]]
<1>1. n \in Nat /\ Len(r) = n + 1 /\ r[n + 1] = e /\ \A i \in 1..n : r[i] = s[i]
  BY LogGrows DEF IsLog
<1>2. f = [i \in 0..n |-> step(f, s, i)]
  BY DEF Replays
<1> HIDE DEF n, r, start
<1>3. ASSUME NEW i \in 0..(n + 1) PROVE g[i] = step(g, r, i)
  <2>1. CASE i = n + 1
    <3>1. g[i] = Applied(f[n], e) /\ i # 0 /\ i - 1 = n /\ n \in 0..(n + 1) /\ n # n + 1
      BY <1>1, <2>1
    <3>2. g[i - 1] = f[n]
      BY <3>1
    <3> HIDE DEF g
    <3>. QED  BY <1>1, <2>1, <3>1, <3>2
  <2>2. CASE i # n + 1 /\ i # 0
    <3>1. /\ g[i] = f[i] /\ i \in 0..n /\ i \in 1..n
          /\ i - 1 \in 0..(n + 1) /\ i - 1 # n + 1
      BY <1>1, <2>2
    <3>2. g[i - 1] = f[i - 1]
      BY <3>1
    <3> HIDE DEF g
    <3>3. f[i] = Applied(f[i - 1], s[i])
      BY <1>2, <2>2, <3>1
    <3>. QED  BY <1>1, <2>2, <3>1, <3>2, <3>3
  <2>3. CASE i = 0
    <3>1. g[0] = f[0] /\ 0 \in 0..n
      BY <1>1
    <3> HIDE DEF g
    <3>. QED  BY <1>2, <2>3, <3>1
  <2>. QED  BY <2>1, <2>2, <2>3
<1>4. g = [i \in 0..(n + 1) |-> g[i]]
  OBVIOUS
<1> HIDE DEF g
<1>5. g = [i \in 0..(n + 1) |-> step(g, r, i)]
  <2> HIDE DEF step
  <2>. QED  BY <1>3, <1>4
<1>6. Replays(r, g)
  BY <1>1, <1>5 DEF Replays, start
<1>. QED  BY <1>6 DEF r

LEMMA ReplayBeginsWith ==
  ASSUME NEW s, IsLog(s), NEW e, NEW g, Replays(Append(s, e), g)
  PROVE  \E f : Replays(s, f) /\ g[Len(s) + 1] = Applied(f[Len(s)], e)
<1> DEFINE n == Len(s)
           r == Append(s, e)
           start == [live |-> Nothing, freed |-> {}]
           step(h, log, i) == IF i = 0 THEN start ELSE Applied(h[i - 1], log[i])
           f == [i \in 0..n |-> g[i]]
<1>1. n \in Nat /\ Len(r) = n + 1 /\ r[n + 1] = e /\ \A i \in 1..n : r[i] = s[i]
  BY LogGrows DEF IsLog
<1>2. g = [i \in 0..(n + 1) |-> step(g, r, i)]
  BY <1>1 DEF Replays
<1> HIDE DEF n, r, start
<1>3. ASSUME NEW i \in 0..n PROVE f[i] = step(f, s, i)
  <2>1. g[i] = step(g, r, i) /\ f[i] = g[i]
    <3>1. i \in 0..(n + 1) /\ f[i] = g[i]
      BY <1>1
    <3> HIDE DEF step, f
    <3>. QED  BY <1>2, <3>1
  <2>2. i # 0 => f[i - 1] = g[i - 1] /\ r[i] = s[i]
    BY <1>1
  <2> HIDE DEF f
  <2>. QED  BY <2>1, <2>2
<1>4. f = [i \in 0..n |-> f[i]]
  OBVIOUS
<1>5. f[n] = g[n]
  BY <1>1
<1> HIDE DEF f
<1>6. f = [i \in 0..n |-> step(f, s, i)]
  <2> HIDE DEF step
  <2>. QED  BY <1>3, <1>4
<1>7. Replays(s, f)
  BY <1>6 DEF Replays, start, n
<1>8. g[n + 1] = Applied(f[n], e)
  <2>1. n + 1 \in 0..(n + 1) /\ n + 1 # 0 /\ (n + 1) - 1 = n
    BY <1>1
  <2>2. g[n + 1] = step(g, r, n + 1)
    <3> HIDE DEF step
    <3>. QED  BY <1>2, <2>1
  <2>. QED  BY <1>1, <1>5, <2>1, <2>2
<1>. QED  BY <1>7, <1>8 DEF n

\* What a log replays to, it goes on from.
LEMMA ReplayThenOne ==
  ASSUME NEW s, IsLog(s), NEW e, NEW told,
         \E f : Replays(s, f), \A f : Replays(s, f) => f[Len(s)] = told
  PROVE  /\ \E g : Replays(Append(s, e), g)
         /\ \A g : Replays(Append(s, e), g) => g[Len(Append(s, e))] = Applied(told, e)
<1>1. \E g : Replays(Append(s, e), g)
  BY ReplayGoesOn
<1>2. ASSUME NEW g, Replays(Append(s, e), g) PROVE g[Len(s) + 1] = Applied(told, e)
  BY <1>2, ReplayBeginsWith
<1>. QED  BY <1>1, <1>2, LogGrows

\* What the recorder's table and its freed pointers say.
Told == [live |-> [p \in DOMAIN live |-> live[p].n], freed |-> recorder.freed]

\* Inductive: the log replays to that, and no address in it is behind the cursor or used
\* twice; no line of it is still to come.
Addresses(log) == {i \in DOMAIN log : log[i].op = "allocate"}
RecorderTold ==
  /\ "freed" \in DOMAIN recorder /\ "log" \in DOMAIN recorder
  /\ IsLog(recorder.log)
  /\ \E f : Replays(recorder.log, f)
  /\ \A f : Replays(recorder.log, f) => f[Len(recorder.log)] = Told
  /\ \A i \in Addresses(recorder.log) :
       recorder.log[i].ptr \in Nat /\ recorder.log[i].ptr < recorder.cursor
  /\ \A i, j \in Addresses(recorder.log) :
       i # j => recorder.log[i].ptr # recorder.log[j].ptr
  /\ \A t \in Callers : call[t].pc # "unlogged"

LEMMA ToldSuffices == ASSUME RecorderTold PROVE RecorderTellsAll
<1>1. Replay = Told
  <2>1. PICK f : Replays(recorder.log, f)
    BY DEF RecorderTold
  <2>2. Replays(recorder.log, CHOOSE h : Replays(recorder.log, h))
    BY <2>1
  <2>. QED  BY <2>2, ReplayIs DEF RecorderTold
<1>. QED  BY <1>1 DEF RecorderTellsAll, RecorderTold, Addresses, Told

\* The calls move, and nothing that the recorder keeps.
Elsewhere(t) ==
  /\ UNCHANGED <<live, recorder>>
  /\ \E x : x.pc # "unlogged" /\ call' = [call EXCEPT ![t] = x]

LEMMA ElsewhereKeeps ==
  ASSUME RecorderTold, DOMAIN call = Callers, NEW t \in Callers, Elsewhere(t)
  PROVE  RecorderTold'
<1>1. \A u \in Callers : call'[u].pc # "unlogged"
  BY DEF RecorderTold, Elsewhere
<1>2. Told' = Told
  BY DEF Told, Elsewhere
<1>. QED  BY <1>1, <1>2 DEF RecorderTold, Elsewhere

LEMMA AllocationIsTold ==
  ASSUME RecorderTold, RecorderSound, Wellmade(leaf), Sizes \subseteq Int,
         NEW t \in Callers, RecordAllocation(t)
  PROVE  RecorderTold'
<1> DEFINE c == recorder.cursor
           ptr == c + ((-c) % leaf.guarantee)
           n == call[t].n
           e == [op |-> "allocate", ptr |-> ptr, n |-> n]
           s == recorder.log
           r == Append(s, e)
<1>1. /\ call' = [call EXCEPT ![t] = Returned(ptr)]
      /\ call[t].pc = "called"
      /\ live' = With(live, ptr, [n |-> n, base |-> ptr])
      /\ "freed" \in DOMAIN recorder' /\ recorder'.freed = recorder.freed
      /\ "log" \in DOMAIN recorder' /\ recorder'.log = r
      /\ recorder'.cursor = Advanced(ptr, n)
  BY DEF RecordAllocation, Answer, In, RecorderSound, RecorderTold, Logged
<1>2. c \in Int /\ c \in Nat /\ leaf.guarantee \in Nat \ {0} /\ n \in Int
  <2>1. recorder.cursor \in Nat /\ leaf.guarantee \in Nat \ {0}
    BY DEF RecorderSound, Wellmade
  <2>2. call[t].n \in Int
    BY <1>1 DEF RecorderSound, CallsOK
  <2>. QED  BY <2>1, <2>2
<1>3. (-c) % leaf.guarantee \in 0..(leaf.guarantee - 1)
  BY <1>2, MovedUp, Zenon
<1>4. ptr \in Nat /\ c <= ptr
  BY <1>2, <1>3
<1> HIDE DEF c, ptr, n
<1>5. ptr < recorder'.cursor /\ recorder'.cursor \in Nat
  BY <1>1, <1>2, <1>4 DEF Advanced, AtLeast1
<1>6. e.op = "allocate" /\ e.ptr = ptr /\ e.n = n
  OBVIOUS
<1>7. Told' = Applied(Told, e)
  <2>1. Told.live = [p \in DOMAIN live |-> live[p].n] /\ Told.freed = recorder.freed
    BY DEF Told
  <2>2. [p \in DOMAIN live' |-> live'[p].n] = With(Told.live, ptr, n)
    BY <1>1, <2>1 DEF With
  <2>3. Applied(Told, e) = [live |-> With(Told.live, ptr, n), freed |-> recorder.freed]
    BY <1>6 DEF Applied, Told
  <2>. QED  BY <1>1, <2>2, <2>3 DEF Told
<1> HIDE DEF e
<1>8. /\ IsLog(s)
      /\ \E f : Replays(s, f)
      /\ \A f : Replays(s, f) => f[Len(s)] = Told
  BY DEF RecorderTold
<1>9. /\ IsLog(r) /\ \E g : Replays(r, g)
      /\ \A g : Replays(r, g) => g[Len(r)] = Applied(Told, e)
  <2> HIDE DEF s
  <2>1. IsLog(r)
    BY <1>8, LogGrows, Zenon
  <2>. QED  BY <1>8, <2>1, ReplayThenOne, Zenon
<1>10. /\ DOMAIN r = DOMAIN s \cup {Len(s) + 1} /\ r[Len(s) + 1] = e
       /\ \A i \in DOMAIN s : r[i] = s[i]
  BY <1>8, LogGrows
<1>11. \A i \in Addresses(s) : s[i].ptr \in Nat /\ s[i].ptr < c
  BY DEF RecorderTold, c
<1>12. Addresses(r) \subseteq Addresses(s) \cup {Len(s) + 1}
  BY <1>10 DEF Addresses
<1>13. \A i \in Addresses(s) : r[i] = s[i]
  BY <1>10 DEF Addresses
<1>14. \A i \in Addresses(r) : r[i].ptr \in Nat /\ r[i].ptr < recorder'.cursor
  <2> HIDE DEF r, s
  <2>1. ASSUME NEW i \in Addresses(s) PROVE r[i].ptr \in Nat /\ r[i].ptr < recorder'.cursor
    <3>1. r[i].ptr \in Nat /\ r[i].ptr < c
      BY <1>11, <1>13
    <3>. QED  BY <1>2, <1>4, <1>5, <3>1
  <2>2. r[Len(s) + 1].ptr = ptr
    BY <1>6, <1>10
  <2>. QED  BY <1>4, <1>5, <1>12, <2>1, <2>2
<1>15. \A i, j \in Addresses(r) : i # j => r[i].ptr # r[j].ptr
  <2>1. \A i, j \in Addresses(s) : i # j => s[i].ptr # s[j].ptr
    BY DEF RecorderTold
  <2> HIDE DEF r, s
  <2>2. ASSUME NEW i \in Addresses(s) PROVE r[i].ptr # ptr
    <3>1. r[i].ptr \in Nat /\ r[i].ptr < c
      BY <1>11, <1>13
    <3>. QED  BY <1>2, <1>4, <3>1
  <2>. QED  BY <1>6, <1>10, <1>12, <1>13, <2>1, <2>2
<1>16. \A u \in Callers : call'[u].pc # "unlogged"
  <2>1. Returned(ptr).pc = "returned"
    BY DEF Returned
  <2>. QED  BY <1>1, <2>1 DEF RecorderTold, RecorderSound, CallsOK
<1> HIDE DEF r, s
<1>. QED  BY <1>1, <1>7, <1>9, <1>14, <1>15, <1>16, Zenon DEF RecorderTold

LEMMA FreeIsTold ==
  ASSUME RecorderTold, RecorderSound, leaf.checksSizes, NEW t \in Callers, RecordFree(t)
  PROVE  RecorderTold'
<1> DEFINE ptr == call[t].ptr
           n == call[t].n
           e == [op |-> "deallocate", ptr |-> ptr, n |-> n]
           s == recorder.log
           r == Append(s, e)
           good == ptr \in DOMAIN live /\ live[ptr].n = n
           x == IF good THEN Returned(0) ELSE Raised(Misuse(ptr, n))
<1>1. /\ call' = [call EXCEPT ![t] = x]
      /\ live' = IF good THEN Without(live, ptr) ELSE live
      /\ "freed" \in DOMAIN recorder'
      /\ recorder'.freed = IF good THEN recorder.freed \cup {ptr} ELSE recorder.freed
      /\ "log" \in DOMAIN recorder' /\ recorder'.log = r
      /\ recorder'.cursor = recorder.cursor
  BY DEF RecordFree, Answer, RecorderSound, RecorderTold, Logged, Unknown, Mismatch
<1>2. x.pc = "returned"
  BY DEF Returned, Raised
<1>3. e.op = "deallocate" /\ e.ptr = ptr /\ e.n = n
  OBVIOUS
<1>4. Told' = Applied(Told, e)
  <2> HIDE DEF x, ptr, n, s
  <2>1. /\ Told.live = [p \in DOMAIN live |-> live[p].n] /\ Told.freed = recorder.freed
        /\ DOMAIN Told.live = DOMAIN live
    BY DEF Told
  <2>2. good <=> (e.ptr \in DOMAIN Told.live /\ Told.live[e.ptr] = e.n)
    BY <1>3, <2>1
  <2>3. CASE good
    <3>1. [p \in DOMAIN live' |-> live'[p].n] = Without(Told.live, ptr)
      BY <1>1, <2>1, <2>3 DEF Without
    <3>2. Applied(Told, e) = [live |-> Without(Told.live, ptr), freed |-> recorder.freed \cup {ptr}]
      BY <1>3, <2>1, <2>2, <2>3 DEF Applied
    <3>. QED  BY <1>1, <2>3, <3>1, <3>2 DEF Told
  <2>4. CASE ~good
    <3>1. Applied(Told, e) = Told
      BY <1>3, <2>2, <2>4 DEF Applied
    <3>. QED  BY <1>1, <2>4, <3>1 DEF Told
  <2>. QED  BY <2>3, <2>4
<1> HIDE DEF e, x
<1>5. /\ IsLog(s)
      /\ \E f : Replays(s, f)
      /\ \A f : Replays(s, f) => f[Len(s)] = Told
  BY DEF RecorderTold
<1>6. /\ IsLog(r) /\ \E g : Replays(r, g)
      /\ \A g : Replays(r, g) => g[Len(r)] = Applied(Told, e)
  <2> HIDE DEF s
  <2>1. IsLog(r)
    BY <1>5, LogGrows, Zenon
  <2>. QED  BY <1>5, <2>1, ReplayThenOne, Zenon
<1>7. /\ DOMAIN r = DOMAIN s \cup {Len(s) + 1} /\ r[Len(s) + 1] = e
      /\ \A i \in DOMAIN s : r[i] = s[i]
  BY <1>5, LogGrows
<1>8. Addresses(r) = Addresses(s) /\ \A i \in Addresses(s) : r[i] = s[i]
  <2>1. Len(s) + 1 \notin DOMAIN s
    BY <1>5, LogGrows DEF IsLog
  <2>2. r[Len(s) + 1].op # "allocate"
    BY <1>3, <1>7
  <2>. QED  BY <1>7, <2>1, <2>2 DEF Addresses
<1>9. \A u \in Callers : call'[u].pc # "unlogged"
  BY <1>1, <1>2 DEF RecorderTold, RecorderSound, CallsOK
<1>10. /\ \A i \in Addresses(s) : s[i].ptr \in Nat /\ s[i].ptr < recorder.cursor
       /\ \A i, j \in Addresses(s) : i # j => s[i].ptr # s[j].ptr
  BY DEF RecorderTold
<1>11. /\ \A i \in Addresses(r) : r[i].ptr \in Nat /\ r[i].ptr < recorder'.cursor
       /\ \A i, j \in Addresses(r) : i # j => r[i].ptr # r[j].ptr
  <2>1. recorder'.cursor = recorder.cursor
    BY <1>1
  <2> HIDE DEF r, s
  <2>2. \A i \in Addresses(r) : r[i].ptr = s[i].ptr /\ i \in Addresses(s)
    BY <1>8
  <2>. QED  BY <1>10, <2>1, <2>2, Zenon
<1> HIDE DEF r, s
<1>. QED  BY <1>1, <1>4, <1>6, <1>9, <1>11, Zenon DEF RecorderTold

LEMMA RecordingChecks == ASSUME NEW l, Offered(l), l.name = "recording" PROVE l.checksSizes
<1>1. ASSUME NEW m, Constructed(m), m.name = "recording" PROVE m.checksSizes
  <2>1. \A a : Bytearray(a).name = "bytearray"
    BY DEF Bytearray, Plain
  <2>2. \A a, family : Malloc(family, a).checksSizes
    BY DEF Malloc, Plain
  <2>3. NumpyHandlerLeaf.checksSizes /\ CupyAllocator.checksSizes
    BY DEF NumpyHandlerLeaf, CupyAllocator, Plain
  <2>4. \A async, api : GpuRuntime(async, api).checksSizes
    BY DEF GpuRuntime, Plain
  <2>5. \A serves : RmmLike(serves).checksSizes
    BY DEF RmmLike, Plain
  <2>6. \A guarantee : Recording(guarantee).checksSizes
    BY DEF Recording, Plain
  <2>. QED  BY <1>1, <2>1, <2>2, <2>3, <2>4, <2>5, <2>6 DEF Constructed
<1>2. PICK m : Constructed(m) /\ (l = m \/ l = Logging(m) \/ l = [m EXCEPT !.byDefault = TRUE])
  BY DEF Offered
<1>3. LeafFields \subseteq DOMAIN m
  BY <1>2, FieldsOfLeaves
<1>4. l.checksSizes = m.checksSizes /\ l.name = m.name
  BY <1>2, <1>3 DEF Logging, LeafFields
<1>. QED  BY <1>1, <1>2, <1>4

ToldInv == verdict = "none" /\ Records => RecorderTold

LEMMA ToldInit == Init => ToldInv
<1> SUFFICES ASSUME Init, verdict = "none" PROVE RecorderTold
  BY DEF ToldInv
<1>1. PICK l \in Leaves : FreshLeaf(l)
  BY DEF Init
<1>2. /\ live = Nothing
      /\ "freed" \in DOMAIN recorder /\ "log" \in DOMAIN recorder
      /\ recorder.freed = {} /\ recorder.log = <<>>
      /\ \A t \in Callers : call[t].pc = "idle"
  BY <1>1 DEF FreshLeaf, Idle
<1>3. IsLog(<<>>) /\ Len(<<>>) = 0 /\ Addresses(<<>>) = {}
  BY DEF IsLog, Addresses
<1> DEFINE start == [live |-> Nothing, freed |-> {}]
<1>4. Told = start
  BY <1>2 DEF Told, Nothing
<1>5. Replays(<<>>, [i \in 0..0 |-> start])
  <2>1. \A i \in 0..0 : i = 0
    OBVIOUS
  <2> HIDE DEF start
  <2>2. [i \in 0..0 |-> start]
          = [i \in 0..0 |-> IF i = 0 THEN start ELSE Applied([j \in 0..0 |-> start][i - 1], <<>>[i])]
    BY <2>1
  <2>. QED  BY <1>3, <2>2 DEF Replays, start
<1>6. ASSUME NEW f, Replays(<<>>, f) PROVE f[0] = start
  <2> DEFINE step(i) == IF i = 0 THEN start ELSE Applied(f[i - 1], <<>>[i])
  <2>1. f = [i \in 0..0 |-> step(i)]
    BY <1>3, <1>6 DEF Replays
  <2>2. step(0) = start /\ 0 \in 0..0
    OBVIOUS
  <2> HIDE DEF step, start
  <2>. QED  BY <2>1, <2>2
<1> HIDE DEF start
<1>. QED  BY <1>2, <1>3, <1>4, <1>5, <1>6 DEF RecorderTold

LEMMA ToldStep ==
  ASSUME Setting, RecorderInv, ToldInv, [Next]_vars
  PROVE  ToldInv'
<1> SUFFICES ASSUME verdict' = "none", Records' PROVE RecorderTold'
  BY DEF ToldInv
<1>1. verdict = "none" /\ (OwnStep \/ UNCHANGED leafVars) /\ leaf' = leaf /\ leaf \in Leaves
  BY NoSuiteStarts, LeafStays DEF leafVars, RecorderInv
<1>2. Records /\ ~Foreign
  BY <1>1 DEF Records, Foreign, Own
<1>3. RecorderTold /\ RecorderSound /\ Wellmade(leaf) /\ Sizes \subseteq Int /\ leaf.checksSizes
  BY <1>1, <1>2, OfferedWellmade, RecordingChecks
     DEF RecorderInv, ToldInv, Setting, LeavesAreOffered, Records
<1>4. ASSUME UNCHANGED leafVars PROVE RecorderTold'
  <2>1. Told' = Told
    BY <1>4 DEF Told, leafVars
  <2>. QED  BY <1>3, <1>4, <2>1 DEF leafVars, RecorderTold
<1>5. ASSUME NEW t \in Callers, Elsewhere(t) PROVE RecorderTold'
  BY <1>3, <1>5, ElsewhereKeeps DEF RecorderSound, CallsOK
<1>6. \A ptr, error : Returned(ptr).pc = "returned" /\ Raised(error).pc = "returned"
  BY DEF Returned, Raised
<1> USE DEF Elsewhere, Answer
<1>7. ASSUME NEW t \in Callers, NEW n \in Sizes, Allocate(t, n) PROVE Elsewhere(t)
  BY <1>7 DEF Allocate, Calls, Called
<1>8. ASSUME NEW t \in Callers, NEW ptr, NEW n \in Sizes, Deallocate(t, ptr, n) PROVE Elsewhere(t)
  BY <1>8 DEF Deallocate, Calls, Called
<1>9. ASSUME NEW t \in Callers, Return(t) PROVE Elsewhere(t)
  BY <1>9 DEF Return, Idle
<1>10. ASSUME NEW t \in Callers, RefuseNegative(t) \/ ObtainRaises(t) PROVE Elsewhere(t)
  BY <1>6, <1>10 DEF RefuseNegative, ObtainRaises
<1>11. ASSUME NEW t \in Callers, NEW base,
              \/ Obtain(t, base) \/ ObtainFails(t) \/ Record(t) \/ RefuseFree(t)
              \/ TakeOut(t) \/ Release(t) \/ ReleaseRaises(t) \/ WriteLog(t)
              \/ ForeignAllocate(t) \/ ForeignDeallocate(t)
       PROVE  FALSE
  BY <1>2, <1>3, <1>11 DEF Obtain, ObtainFails, Record, RefuseFree, TakeOut, Release,
     ReleaseRaises, WriteLog, ForeignAllocate, ForeignDeallocate, RecorderSound, RecorderTold, Held
<1>12. ASSUME NEW t \in Callers, RecordAllocation(t) PROVE RecorderTold'
  BY <1>3, <1>12, AllocationIsTold
<1>13. ASSUME NEW t \in Callers, RecordFree(t) PROVE RecorderTold'
  BY <1>3, <1>13, FreeIsTold
<1> HIDE DEF Elsewhere, Answer
<1>. QED
  BY <1>1, <1>4, <1>5, <1>7, <1>8, <1>9, <1>10, <1>11, <1>12, <1>13, Zenon DEF OwnStep, LeafStep

\* Counting: a set that one element joins, or does not.
Weight(c) == IF c THEN 1 ELSE 0
Joins(S, T, x, c) == x \notin S /\ T = S \cup (IF c THEN {x} ELSE {})

LEMMA JoinsCounts ==
  ASSUME NEW S, NEW T, IsFiniteSet(S) \/ IsFiniteSet(T), NEW x, NEW c \in BOOLEAN,
         Joins(S, T, x, c)
  PROVE  /\ IsFiniteSet(S) /\ IsFiniteSet(T)
         /\ Cardinality(S) \in Nat /\ Cardinality(T) \in Nat
         /\ Cardinality(T) = Cardinality(S) + Weight(c)
<1>1. IsFiniteSet(S)
  <2>1. S \subseteq T
    BY DEF Joins
  <2>. QED  BY <2>1, FS_Subset
<1>2. Cardinality(S) \in Nat
  BY <1>1, FS_CardinalityType
<1>3. CASE c
  <2>1. T = S \cup {x} /\ x \notin S
    BY <1>3 DEF Joins
  <2>2. IsFiniteSet(T) /\ Cardinality(T) = Cardinality(S) + 1
    BY <1>1, <2>1, FS_AddElement
  <2>. QED  BY <1>1, <1>2, <1>3, <2>2 DEF Weight
<1>4. CASE ~c
  <2>1. T = S
    BY <1>4 DEF Joins
  <2>. QED  BY <1>1, <1>2, <1>4, <2>1 DEF Weight
<1>. QED  BY <1>3, <1>4

\* A leaf that checks sizes balances for each of them, another one only for all.
Balance(ptr, ns) == Lines("allocate", ptr, ns) = Lines("deallocate", ptr, ns) + Outstanding(ptr, ns)
Weighed(ns) == leaf.checksSizes \/ Sizes \subseteq ns

\* Inductive, where a LoggingAdaptor is in front: whatever is counted can be.
LinesTold ==
  /\ "log" \in DOMAIN recorder /\ IsLog(recorder.log)
  /\ IsFiniteSet(stranded)
  /\ \A t \in Callers : call[t].pc = "removed" => call[t].ptr = Placed(leaf, call[t].base)
  /\ \A ptr, ns : Weighed(ns) => Balance(ptr, ns)

LEMMA Countable ==
  ASSUME LinesTold, NEW ptr, NEW ns
  PROVE  /\ \A op : IsFiniteSet(Written(op, ptr, ns)) /\ IsFiniteSet(Unwritten(op, ptr, ns))
         /\ \A pc : IsFiniteSet(InCalls(pc, ptr, ns))
         /\ IsFiniteSet(Entries(ptr, ns)) /\ IsFiniteSet(Strands(ptr, ns))
<1>1. IsFiniteSet(DOMAIN recorder.log)
  <2>1. DOMAIN recorder.log = 1..Len(recorder.log) /\ Len(recorder.log) \in Nat
    BY DEF LinesTold, IsLog
  <2>2. IsFiniteSet(1..Len(recorder.log))
    BY <2>1, FS_Interval
  <2>. QED  BY <2>1, <2>2
<1>2. IsFiniteSet(Callers) /\ IsFiniteSet({ptr}) /\ IsFiniteSet(stranded)
  BY LeafAssumption, FS_Singleton DEF LinesTold
<1>3. /\ \A op : Written(op, ptr, ns) \subseteq DOMAIN recorder.log
      /\ \A op : Unwritten(op, ptr, ns) \subseteq Callers
      /\ \A pc : InCalls(pc, ptr, ns) \subseteq Callers
      /\ Entries(ptr, ns) \subseteq {ptr} /\ Strands(ptr, ns) \subseteq stranded
  BY DEF Written, Unwritten, InCalls, Entries, Strands
<1>. QED  BY <1>1, <1>2, <1>3, FS_Subset

LEMMA Counted ==
  ASSUME LinesTold, NEW ptr, NEW ns
  PROVE  /\ \A op : /\ Cardinality(Written(op, ptr, ns)) \in Nat
                    /\ Cardinality(Unwritten(op, ptr, ns)) \in Nat
         /\ \A pc : Cardinality(InCalls(pc, ptr, ns)) \in Nat
         /\ Cardinality(Entries(ptr, ns)) \in Nat /\ Cardinality(Strands(ptr, ns)) \in Nat
BY Countable, FS_CardinalityType

LEMMA LinesToldSuffice ==
  ASSUME LinesTold, Sizes \subseteq Int
  PROVE  LinesBalance
<1>1. ASSUME NEW ptr, NEW ns, Weighed(ns)
      PROVE  Lines("allocate", ptr, ns) - Lines("deallocate", ptr, ns) = Outstanding(ptr, ns)
  <2>1. Lines("allocate", ptr, ns) = Lines("deallocate", ptr, ns) + Outstanding(ptr, ns)
    BY <1>1 DEF LinesTold, Balance
  <2>2. Lines("deallocate", ptr, ns) \in Nat /\ Outstanding(ptr, ns) \in Nat
    BY Counted DEF Lines, Outstanding
  <2>. QED  BY <2>1, <2>2
<1>2. Weighed(Int)
  BY DEF Weighed
<1>3. ASSUME leaf.checksSizes, NEW ns PROVE Weighed(ns)
  BY <1>3 DEF Weighed
<1>. QED  BY <1>1, <1>2, <1>3 DEF LinesBalance

\* Only the calls move, and none that the balance counts.
Uncounted(t) ==
  /\ UNCHANGED <<leaf, live, stranded, recorder>>
  /\ call[t].pc \notin {"removed", "unlogged"}
  /\ \E x : x.pc \notin {"removed", "unlogged"} /\ call' = [call EXCEPT ![t] = x]

LEMMA UncountedKeeps ==
  ASSUME LinesTold, DOMAIN call = Callers, NEW t \in Callers, Uncounted(t)
  PROVE  LinesTold'
<1>1. /\ \A u \in Callers : u # t => call'[u] = call[u]
      /\ call'[t].pc \notin {"removed", "unlogged"} /\ call[t].pc \notin {"removed", "unlogged"}
  BY DEF Uncounted
<1>2. /\ "log" \in DOMAIN recorder' /\ IsLog(recorder'.log) /\ IsFiniteSet(stranded')
      /\ \A u \in Callers : call'[u].pc = "removed" => call'[u].ptr = Placed(leaf', call'[u].base)
  BY <1>1 DEF LinesTold, Uncounted
<1>3. ASSUME NEW ptr, NEW ns, Weighed(ns)' PROVE Balance(ptr, ns)'
  <2>1. Weighed(ns) /\ Balance(ptr, ns)
    BY <1>3 DEF LinesTold, Weighed, Uncounted
  <2>2. /\ InCalls("removed", ptr, ns)' = InCalls("removed", ptr, ns)
        /\ \A op : Unwritten(op, ptr, ns)' = Unwritten(op, ptr, ns)
    BY <1>1 DEF InCalls, Unwritten
  <2>3. /\ \A op : Written(op, ptr, ns)' = Written(op, ptr, ns)
        /\ Entries(ptr, ns)' = Entries(ptr, ns) /\ Strands(ptr, ns)' = Strands(ptr, ns)
    BY DEF Written, Entries, Strands, Uncounted
  <2>. QED  BY <2>1, <2>2, <2>3 DEF Balance, Lines, Outstanding
<1>. QED  BY <1>2, <1>3 DEF LinesTold

\* What is entered in the table is a line to be written.
LEMMA RecordBalances ==
  ASSUME LinesTold, DOMAIN call = Callers, leaf.logged, NEW t \in Callers, Record(t),
         Placed(leaf, call[t].base) \notin DOMAIN live
  PROVE  LinesTold'
<1> DEFINE at == Placed(leaf, call[t].base)
           n == call[t].n
           x == Done("allocate", at, n, at)
<1>1. /\ call' = [call EXCEPT ![t] = x] /\ UNCHANGED <<leaf, stranded, recorder>>
      /\ call[t].pc = "obtained"
      /\ live' = With(live, at, [n |-> n, base |-> call[t].base])
  BY DEF Record, Answer
<1>2. x.pc = "unlogged" /\ x.op = "allocate" /\ x.ptr = at /\ x.n = n
  BY DEF Done
<1>3. /\ DOMAIN live' = DOMAIN live \cup {at} /\ at \notin DOMAIN live
      /\ live'[at].n = n /\ \A p \in DOMAIN live : live'[p] = live[p]
  BY <1>1 DEF With
<1> HIDE DEF x, at, n
<1>4. call'[t] = x /\ \A u \in Callers : u # t => call'[u] = call[u]
  BY <1>1
<1>5. /\ "log" \in DOMAIN recorder' /\ IsLog(recorder'.log) /\ IsFiniteSet(stranded')
      /\ \A u \in Callers : call'[u].pc = "removed" => call'[u].ptr = Placed(leaf', call'[u].base)
  BY <1>1, <1>2, <1>4 DEF LinesTold
<1>6. ASSUME NEW ptr, NEW ns, Weighed(ns)' PROVE Balance(ptr, ns)'
  <2> DEFINE c == at = ptr /\ n \in ns
  <2>1. Balance(ptr, ns)
    BY <1>1, <1>6 DEF LinesTold, Weighed
  <2>2. Joins(Unwritten("allocate", ptr, ns), Unwritten("allocate", ptr, ns)', t, c)
    BY <1>1, <1>2, <1>4 DEF Joins, Unwritten, InCalls
  <2>3. Joins(Entries(ptr, ns), Entries(ptr, ns)', at, c)
    BY <1>3 DEF Joins, Entries
  <2>4. /\ InCalls("removed", ptr, ns)' = InCalls("removed", ptr, ns)
        /\ Unwritten("deallocate", ptr, ns)' = Unwritten("deallocate", ptr, ns)
    BY <1>1, <1>2, <1>4 DEF InCalls, Unwritten
  <2>5. /\ Written("allocate", ptr, ns)' = Written("allocate", ptr, ns)
        /\ Written("deallocate", ptr, ns)' = Written("deallocate", ptr, ns)
        /\ Strands(ptr, ns)' = Strands(ptr, ns)
    BY <1>1 DEF Written, Strands
  <2>6. c \in BOOLEAN
    OBVIOUS
  <2> HIDE DEF c
  <2>7. /\ Cardinality(Unwritten("allocate", ptr, ns)')
             = Cardinality(Unwritten("allocate", ptr, ns)) + Weight(c)
        /\ Cardinality(Entries(ptr, ns)') = Cardinality(Entries(ptr, ns)) + Weight(c)
    BY <2>2, <2>3, <2>6, Countable, JoinsCounts
  <2>8. Weight(c) \in Nat
    BY DEF Weight
  <2>. QED
    BY <2>1, <2>4, <2>5, <2>7, <2>8, Counted DEF Balance, Lines, Outstanding
<1>. QED  BY <1>5, <1>6 DEF LinesTold

\* What leaves the table is in the hands of a call, with the size it was entered with or,
\* where any will do, with another one.
LEMMA TakeOutBalances ==
  ASSUME LinesTold, Ownership(Sizes, CallerBases), NEW t \in Callers, TakeOut(t)
  PROVE  LinesTold'
<1> DEFINE at == call[t].ptr
           n == call[t].n
           x == Removed(at, n)
<1>1. /\ call' = [call EXCEPT ![t] = x] /\ UNCHANGED <<leaf, stranded, recorder>>
      /\ call[t].pc = "called" /\ at \in DOMAIN live
      /\ leaf.checksSizes => live[at].n = n
      /\ live' = Without(live, at)
  BY DEF TakeOut, Answer, In, Unknown, Mismatch
<1>2. x.pc = "removed" /\ x.ptr = at /\ x.n = n /\ x.base = live[at].base
  BY DEF Removed
<1>3. /\ n \in Sizes /\ live[at].n \in Sizes /\ at = Placed(leaf, live[at].base)
      /\ DOMAIN call = Callers
  BY <1>1 DEF Ownership, CallsOK, EntriesInv
<1>4. DOMAIN live' = DOMAIN live \ {at} /\ \A p \in DOMAIN live' : live'[p] = live[p]
  BY <1>1 DEF Without
<1> HIDE DEF x, at, n
<1>5. call'[t] = x /\ \A u \in Callers : u # t => call'[u] = call[u]
  BY <1>1, <1>3
<1>6. /\ "log" \in DOMAIN recorder' /\ IsLog(recorder'.log) /\ IsFiniteSet(stranded')
      /\ \A u \in Callers : call'[u].pc = "removed" => call'[u].ptr = Placed(leaf', call'[u].base)
  BY <1>1, <1>2, <1>3, <1>5 DEF LinesTold
<1>7. ASSUME NEW ptr, NEW ns, Weighed(ns)' PROVE Balance(ptr, ns)'
  <2> DEFINE c == at = ptr /\ n \in ns
  <2>1. Weighed(ns) /\ Balance(ptr, ns)
    BY <1>1, <1>7 DEF LinesTold, Weighed
  <2>2. n \in ns <=> live[at].n \in ns
    BY <1>1, <1>3, <2>1 DEF Weighed
  <2>3. Joins(InCalls("removed", ptr, ns), InCalls("removed", ptr, ns)', t, c)
    BY <1>1, <1>2, <1>5 DEF Joins, InCalls
  <2>4. Joins(Entries(ptr, ns)', Entries(ptr, ns), at, c)
    BY <1>1, <1>4, <2>2 DEF Joins, Entries
  <2>5. \A op : Unwritten(op, ptr, ns)' = Unwritten(op, ptr, ns)
    BY <1>1, <1>2, <1>5 DEF InCalls, Unwritten
  <2>6. /\ \A op : Written(op, ptr, ns)' = Written(op, ptr, ns)
        /\ Strands(ptr, ns)' = Strands(ptr, ns)
    BY <1>1 DEF Written, Strands
  <2>7. c \in BOOLEAN
    OBVIOUS
  <2> HIDE DEF c
  <2>8. /\ Cardinality(InCalls("removed", ptr, ns)')
             = Cardinality(InCalls("removed", ptr, ns)) + Weight(c)
        /\ Cardinality(Entries(ptr, ns)) = Cardinality(Entries(ptr, ns)') + Weight(c)
        /\ Cardinality(Entries(ptr, ns)') \in Nat
    BY <2>3, <2>4, <2>7, Countable, JoinsCounts
  <2>9. Weight(c) \in Nat
    BY DEF Weight
  <2>. QED
    BY <2>1, <2>5, <2>6, <2>8, <2>9, Counted DEF Balance, Lines, Outstanding
<1>. QED  BY <1>6, <1>7 DEF LinesTold

\* What the library has back is a line to be written.
LEMMA ReleaseBalances ==
  ASSUME LinesTold, DOMAIN call = Callers, leaf.logged, NEW t \in Callers, Release(t)
  PROVE  LinesTold'
<1> DEFINE at == call[t].ptr
           n == call[t].n
           x == Done("deallocate", at, n, 0)
<1>1. /\ call' = [call EXCEPT ![t] = x] /\ UNCHANGED <<leaf, live, stranded, recorder>>
      /\ call[t].pc = "removed"
  BY DEF Release, Answer
<1>2. x.pc = "unlogged" /\ x.op = "deallocate" /\ x.ptr = at /\ x.n = n
  BY DEF Done
<1>3. at = call[t].ptr /\ n = call[t].n
  OBVIOUS
<1> HIDE DEF x, at, n
<1>4. call'[t] = x /\ \A u \in Callers : u # t => call'[u] = call[u]
  BY <1>1
<1>5. /\ "log" \in DOMAIN recorder' /\ IsLog(recorder'.log) /\ IsFiniteSet(stranded')
      /\ \A u \in Callers : call'[u].pc = "removed" => call'[u].ptr = Placed(leaf', call'[u].base)
  BY <1>1, <1>2, <1>4 DEF LinesTold
<1>6. ASSUME NEW ptr, NEW ns, Weighed(ns)' PROVE Balance(ptr, ns)'
  <2> DEFINE c == at = ptr /\ n \in ns
  <2>1. Balance(ptr, ns)
    BY <1>1, <1>6 DEF LinesTold, Weighed
  <2>2. Joins(Unwritten("deallocate", ptr, ns), Unwritten("deallocate", ptr, ns)', t, c)
    BY <1>1, <1>2, <1>4 DEF Joins, Unwritten, InCalls
  <2>3. Joins(InCalls("removed", ptr, ns)', InCalls("removed", ptr, ns), t, c)
    BY <1>1, <1>2, <1>3, <1>4 DEF Joins, InCalls
  <2>4. Unwritten("allocate", ptr, ns)' = Unwritten("allocate", ptr, ns)
    BY <1>1, <1>2, <1>4 DEF InCalls, Unwritten
  <2>5. /\ \A op : Written(op, ptr, ns)' = Written(op, ptr, ns)
        /\ Strands(ptr, ns)' = Strands(ptr, ns) /\ Entries(ptr, ns)' = Entries(ptr, ns)
    BY <1>1 DEF Written, Strands, Entries
  <2>6. c \in BOOLEAN
    OBVIOUS
  <2> HIDE DEF c
  <2>7. /\ Cardinality(Unwritten("deallocate", ptr, ns)')
             = Cardinality(Unwritten("deallocate", ptr, ns)) + Weight(c)
        /\ Cardinality(InCalls("removed", ptr, ns))
             = Cardinality(InCalls("removed", ptr, ns)') + Weight(c)
        /\ Cardinality(InCalls("removed", ptr, ns)') \in Nat
    BY <2>2, <2>3, <2>6, Countable, JoinsCounts
  <2>8. Weight(c) \in Nat
    BY DEF Weight
  <2>. QED
    BY <2>1, <2>4, <2>5, <2>7, <2>8, Counted DEF Balance, Lines, Outstanding
<1>. QED  BY <1>5, <1>6 DEF LinesTold

\* What the library does not take back is stranded, and was not before.
LEMMA StrandBalances ==
  ASSUME LinesTold, Ownership(Sizes, CallerBases), NEW t \in Callers, ReleaseRaises(t)
  PROVE  LinesTold'
<1> DEFINE at == call[t].ptr
           n == call[t].n
           x == Raised("error")
           lost == [base |-> call[t].base, n |-> call[t].n]
<1>1. /\ call' = [call EXCEPT ![t] = x] /\ UNCHANGED <<leaf, live, recorder>>
      /\ call[t].pc = "removed"
      /\ stranded' = stranded \cup {lost}
  BY DEF ReleaseRaises, Answer
<1>2. x.pc = "returned" /\ lost.n = n /\ Placed(leaf, lost.base) = at
  BY <1>1 DEF Raised, LinesTold
<1>3. at = call[t].ptr /\ n = call[t].n /\ lost.base = call[t].base
  OBVIOUS
<1> HIDE DEF x, at, n, lost
<1>4. lost \notin stranded /\ DOMAIN call = Callers
  <2>1. t \in Held
    BY <1>1 DEF Held
  <2>2. lost.base \notin Lost
    BY <1>3, <2>1 DEF Ownership, HandsInv
  <2>. QED  BY <2>2 DEF Lost, Ownership, CallsOK
<1>5. call'[t] = x /\ \A u \in Callers : u # t => call'[u] = call[u]
  BY <1>1, <1>4
<1>6. IsFiniteSet(stranded')
  BY <1>1, <1>4, FS_AddElement DEF LinesTold
<1>7. /\ "log" \in DOMAIN recorder' /\ IsLog(recorder'.log)
      /\ \A u \in Callers : call'[u].pc = "removed" => call'[u].ptr = Placed(leaf', call'[u].base)
  BY <1>1, <1>2, <1>5 DEF LinesTold
<1>8. ASSUME NEW ptr, NEW ns, Weighed(ns)' PROVE Balance(ptr, ns)'
  <2> DEFINE c == at = ptr /\ n \in ns
  <2>1. Balance(ptr, ns)
    BY <1>1, <1>8 DEF LinesTold, Weighed
  <2>2. Joins(Strands(ptr, ns), Strands(ptr, ns)', lost, c)
    BY <1>1, <1>2, <1>4 DEF Joins, Strands
  <2>3. Joins(InCalls("removed", ptr, ns)', InCalls("removed", ptr, ns), t, c)
    BY <1>1, <1>2, <1>3, <1>5 DEF Joins, InCalls
  <2>4. \A op : Unwritten(op, ptr, ns)' = Unwritten(op, ptr, ns)
    BY <1>1, <1>2, <1>5 DEF InCalls, Unwritten
  <2>5. /\ \A op : Written(op, ptr, ns)' = Written(op, ptr, ns)
        /\ Entries(ptr, ns)' = Entries(ptr, ns)
    BY <1>1 DEF Written, Entries
  <2>6. c \in BOOLEAN
    OBVIOUS
  <2> HIDE DEF c
  <2>7. /\ Cardinality(Strands(ptr, ns)') = Cardinality(Strands(ptr, ns)) + Weight(c)
        /\ Cardinality(InCalls("removed", ptr, ns))
             = Cardinality(InCalls("removed", ptr, ns)') + Weight(c)
        /\ Cardinality(InCalls("removed", ptr, ns)') \in Nat
    BY <2>2, <2>3, <2>6, Countable, JoinsCounts
  <2>8. Weight(c) \in Nat
    BY DEF Weight
  <2>. QED
    BY <2>1, <2>4, <2>5, <2>7, <2>8, Counted DEF Balance, Lines, Outstanding
<1>. QED  BY <1>6, <1>7, <1>8 DEF LinesTold

\* A line is written once.
LEMMA WriteBalances ==
  ASSUME LinesTold, DOMAIN call = Callers, NEW t \in Callers, WriteLog(t)
  PROVE  LinesTold'
<1> DEFINE at == call[t].ptr
           n == call[t].n
           op == call[t].op
           x == Returned(call[t].result)
           e == [op |-> op, ptr |-> at, n |-> n]
           s == recorder.log
           r == Append(s, e)
<1>1. /\ call' = [call EXCEPT ![t] = x] /\ UNCHANGED <<leaf, live, stranded>>
      /\ call[t].pc = "unlogged"
      /\ "log" \in DOMAIN recorder' /\ recorder'.log = r
  BY DEF WriteLog, Answer, Logged, LinesTold
<1>2. x.pc = "returned" /\ e.op = op /\ e.ptr = at /\ e.n = n
  BY DEF Returned
<1>3. at = call[t].ptr /\ n = call[t].n /\ op = call[t].op
  OBVIOUS
<1> HIDE DEF x, at, n, op, e
<1>4. call'[t] = x /\ \A u \in Callers : u # t => call'[u] = call[u]
  BY <1>1
<1>5. IsLog(s)
  BY DEF LinesTold
<1> DEFINE i == Len(s) + 1
<1> HIDE DEF s
<1>6. /\ IsLog(r) /\ DOMAIN r = DOMAIN s \cup {i} /\ i \notin DOMAIN s /\ r[i] = e
      /\ \A j \in DOMAIN s : r[j] = s[j]
  <2>1. /\ IsLog(r) /\ DOMAIN r = DOMAIN s \cup {i} /\ r[i] = e /\ DOMAIN s = 1..Len(s)
        /\ \A j \in 1..Len(s) : r[j] = s[j]
    BY <1>5, LogGrows
  <2>2. i \notin 1..Len(s)
    BY <1>5 DEF IsLog
  <2>. QED  BY <2>1, <2>2
<1> HIDE DEF r, i
<1>7. /\ "log" \in DOMAIN recorder' /\ IsLog(recorder'.log) /\ IsFiniteSet(stranded')
      /\ \A u \in Callers : call'[u].pc = "removed" => call'[u].ptr = Placed(leaf', call'[u].base)
  BY <1>1, <1>2, <1>4, <1>6 DEF LinesTold
<1>8. ASSUME NEW ptr, NEW ns, Weighed(ns)' PROVE Balance(ptr, ns)'
  <2> DEFINE c(o) == op = o /\ at = ptr /\ n \in ns
  <2>1. Balance(ptr, ns)
    BY <1>1, <1>8 DEF LinesTold, Weighed
  <2>2. ASSUME NEW o PROVE Lines(o, ptr, ns)' = Lines(o, ptr, ns)
    <3>1. Joins(Written(o, ptr, ns), Written(o, ptr, ns)', i, c(o))
      BY <1>1, <1>2, <1>6 DEF Joins, Written, s
    <3>2. Joins(Unwritten(o, ptr, ns)', Unwritten(o, ptr, ns), t, c(o))
      BY <1>1, <1>2, <1>3, <1>4 DEF Joins, InCalls, Unwritten
    <3>3. c(o) \in BOOLEAN
      OBVIOUS
    <3> HIDE DEF c
    <3>4. /\ Cardinality(Written(o, ptr, ns)') = Cardinality(Written(o, ptr, ns)) + Weight(c(o))
          /\ Cardinality(Unwritten(o, ptr, ns))
               = Cardinality(Unwritten(o, ptr, ns)') + Weight(c(o))
          /\ Cardinality(Unwritten(o, ptr, ns)') \in Nat
      BY <3>1, <3>2, <3>3, Countable, JoinsCounts
    <3>5. Weight(c(o)) \in Nat
      BY DEF Weight
    <3>6. Cardinality(Written(o, ptr, ns)) \in Nat
      BY Counted
    <3>7. Lines(o, ptr, ns)' = Cardinality(Written(o, ptr, ns)') + Cardinality(Unwritten(o, ptr, ns)')
      BY DEF Lines
    <3>. QED  BY <3>4, <3>5, <3>6, <3>7 DEF Lines
  <2>3. /\ InCalls("removed", ptr, ns)' = InCalls("removed", ptr, ns)
        /\ Entries(ptr, ns)' = Entries(ptr, ns) /\ Strands(ptr, ns)' = Strands(ptr, ns)
    BY <1>1, <1>2, <1>4 DEF InCalls, Entries, Strands
  <2>. QED  BY <2>1, <2>2, <2>3 DEF Balance, Outstanding
<1>. QED  BY <1>7, <1>8 DEF LinesTold

LEMMA OfferedIsOwn == ASSUME NEW l, Offered(l) PROVE l.name \in Own
<1>1. ASSUME NEW m, Constructed(m) PROVE m.name \in Own
  <2>1. \A a : Bytearray(a).name \in Own
    BY DEF Bytearray, Plain, Own
  <2>2. \A a : \A family \in {"posix", "windows"} : Malloc(family, a).name \in Own
    BY DEF Malloc, Plain, Own
  <2>3. NumpyHandlerLeaf.name \in Own /\ CupyAllocator.name \in Own
    BY DEF NumpyHandlerLeaf, CupyAllocator, Plain, Own
  <2>4. \A async, api : GpuRuntime(async, api).name \in Own
    BY DEF GpuRuntime, Plain, Own
  <2>5. \A serves : RmmLike(serves).name \in Own
    BY DEF RmmLike, Plain, Own
  <2>6. \A guarantee : Recording(guarantee).name \in Own
    BY DEF Recording, Plain, Own
  <2> HIDE DEF Own
  <2>. QED  BY <1>1, <2>1, <2>2, <2>3, <2>4, <2>5, <2>6 DEF Constructed
<1>2. PICK m : Constructed(m) /\ (l = m \/ l = Logging(m) \/ l = [m EXCEPT !.byDefault = TRUE])
  BY DEF Offered
<1>3. LeafFields \subseteq DOMAIN m
  BY <1>2, FieldsOfLeaves
<1>4. l.name = m.name
  BY <1>2, <1>3 DEF Logging, LeafFields
<1>. QED  BY <1>1, <1>2, <1>4

LinesInv == verdict = "none" /\ ~Records /\ leaf.logged => LinesTold

LEMMA LinesInit == Init => LinesInv
<1> SUFFICES ASSUME Init, verdict = "none" PROVE LinesTold
  BY DEF LinesInv
<1>1. PICK l \in Leaves : FreshLeaf(l)
  BY DEF Init
<1>2. /\ DOMAIN live = {} /\ stranded = {}
      /\ "log" \in DOMAIN recorder /\ recorder.log = <<>>
      /\ \A t \in Callers : call[t].pc = "idle"
  BY <1>1 DEF FreshLeaf, Idle, Nothing
<1>3. IsLog(recorder.log) /\ DOMAIN recorder.log = {}
  BY <1>2 DEF IsLog
<1>4. ASSUME NEW ptr, NEW ns PROVE Balance(ptr, ns)
  <2>1. /\ \A op : Written(op, ptr, ns) = {} /\ Unwritten(op, ptr, ns) = {}
        /\ InCalls("removed", ptr, ns) = {}
        /\ Entries(ptr, ns) = {} /\ Strands(ptr, ns) = {}
    BY <1>2, <1>3 DEF Written, Unwritten, InCalls, Entries, Strands
  <2>. QED  BY <2>1, FS_EmptySet DEF Balance, Lines, Outstanding
<1>. QED  BY <1>2, <1>3, <1>4, FS_EmptySet DEF LinesTold

LEMMA LinesStep ==
  ASSUME Setting, OwnedInv, LinesInv, [Next]_vars
  PROVE  LinesInv'
<1> SUFFICES ASSUME verdict' = "none", (~Records)', leaf'.logged PROVE LinesTold'
  BY DEF LinesInv
<1>1. verdict = "none" /\ (OwnStep \/ UNCHANGED leafVars) /\ leaf' = leaf /\ leaf \in Leaves
  BY NoSuiteStarts, LeafStays DEF leafVars, OwnedInv
<1>2. ~Records /\ ~Foreign /\ leaf.logged
  BY <1>1, OfferedIsOwn DEF Records, Foreign, Setting, LeavesAreOffered
<1>3. /\ LinesTold /\ Ownership(Sizes, CallerBases) /\ DOMAIN call = Callers
      /\ Wellmade(leaf) /\ KeepsApart(leaf, Sizes, CallerBases)
      /\ Sizes \subseteq Int /\ CallerBases \subseteq Nat
  BY <1>1, <1>2, OfferedWellmade, SuiteAssumption, LeafAssumption
     DEF LinesInv, OwnedInv, Ownership, CallsOK, Setting, LeavesAreOffered,
         LibraryKeepsBlocksApart
<1>4. ASSUME UNCHANGED leafVars PROVE LinesTold'
  <2>1. ASSUME NEW ptr, NEW ns PROVE Balance(ptr, ns)' <=> Balance(ptr, ns)
    <3>1. \A op : /\ Written(op, ptr, ns)' = Written(op, ptr, ns)
                  /\ Unwritten(op, ptr, ns)' = Unwritten(op, ptr, ns)
      BY <1>4 DEF leafVars, Written, Unwritten, InCalls
    <3>2. /\ InCalls("removed", ptr, ns)' = InCalls("removed", ptr, ns)
          /\ Entries(ptr, ns)' = Entries(ptr, ns) /\ Strands(ptr, ns)' = Strands(ptr, ns)
      BY <1>4 DEF leafVars, InCalls, Entries, Strands
    <3>. QED  BY <3>1, <3>2 DEF Balance, Lines, Outstanding
  <2>2. \A ns : Weighed(ns)' <=> Weighed(ns)
    BY <1>1 DEF Weighed
  <2>. QED  BY <1>3, <1>4, <2>1, <2>2 DEF leafVars, LinesTold
<1>5. ASSUME NEW t \in Callers, Uncounted(t) PROVE LinesTold'
  BY <1>3, <1>5, UncountedKeeps
<1>6. \A ptr, error : Returned(ptr).pc = "returned" /\ Raised(error).pc = "returned"
  BY DEF Returned, Raised
<1> USE DEF Uncounted, Answer, In
<1>7. ASSUME NEW t \in Callers, NEW n \in Sizes, Allocate(t, n) PROVE Uncounted(t)
  BY <1>7 DEF Allocate, Calls, Called
<1>8. ASSUME NEW t \in Callers, NEW ptr, NEW n \in Sizes, Deallocate(t, ptr, n) PROVE Uncounted(t)
  BY <1>8 DEF Deallocate, Calls, Called
<1>9. ASSUME NEW t \in Callers, Return(t) PROVE Uncounted(t)
  BY <1>9 DEF Return, Idle
<1>10. ASSUME NEW t \in Callers,
              RefuseNegative(t) \/ ObtainFails(t) \/ ObtainRaises(t) \/ RefuseFree(t)
       PROVE  Uncounted(t)
  BY <1>6, <1>10 DEF RefuseNegative, ObtainFails, ObtainRaises, RefuseFree
<1>11. ASSUME NEW t \in Callers, NEW base, Obtain(t, base) PROVE Uncounted(t)
  BY <1>11 DEF Obtain
<1>12. ASSUME NEW t \in Callers,
              \/ RecordAllocation(t) \/ RecordFree(t)
              \/ ForeignAllocate(t) \/ ForeignDeallocate(t)
       PROVE  FALSE
  BY <1>2, <1>12 DEF RecordAllocation, RecordFree, ForeignAllocate, ForeignDeallocate
<1> HIDE DEF Uncounted, Answer, In
<1>13. ASSUME NEW t \in Callers, Record(t) PROVE LinesTold'
  <2>1. Placed(leaf, call[t].base) \notin DOMAIN live
    BY <1>1, <1>3, <1>13, NotYetEntered DEF Record
  <2>. QED  BY <1>2, <1>3, <1>13, <2>1, RecordBalances
<1>14. ASSUME NEW t \in Callers, TakeOut(t) PROVE LinesTold'
  BY <1>3, <1>14, TakeOutBalances
<1>15. ASSUME NEW t \in Callers, Release(t) PROVE LinesTold'
  BY <1>2, <1>3, <1>15, ReleaseBalances
<1>16. ASSUME NEW t \in Callers, ReleaseRaises(t) PROVE LinesTold'
  BY <1>3, <1>16, StrandBalances
<1>17. ASSUME NEW t \in Callers, WriteLog(t) PROVE LinesTold'
  BY <1>3, <1>17, WriteBalances
<1>. QED
  BY <1>1, <1>4, <1>5, <1>7, <1>8, <1>9, <1>10, <1>11, <1>12, <1>13, <1>14, <1>15, <1>16,
     <1>17, Zenon DEF OwnStep, LeafStep

\* Whatever callers pass and however their calls overlap: replaying the recorder's log gives
\* its table and its freed pointers, and no address in it is used twice; and the lines of a
\* LoggingAdaptor, with those still to be written, balance to what is outstanding, for each
\* size where the leaf checks it.
THEOREM LogsTellAll ==
  ASSUME Setting
  PROVE  Spec => [](verdict = "none" => LogTellsAll)
<1>1. OwnedInv /\ [Next]_vars => OwnedInv'
  BY OwnedStep
<1>2. RecorderInv /\ [Next]_vars => RecorderInv'
  BY RecorderStep
<1>3. RecorderInv /\ ToldInv /\ [Next]_vars => ToldInv'
  BY ToldStep
<1>4. OwnedInv /\ LinesInv /\ [Next]_vars => LinesInv'
  BY LinesStep
<1>5. Init => RecorderInv
  BY RecorderInit
<1>6. ToldInv /\ LinesInv => (verdict = "none" => LogTellsAll)
  BY ToldSuffices, LinesToldSuffice
     DEF ToldInv, LinesInv, LogTellsAll, Setting, LeavesAreOffered
<1>. QED
  BY <1>1, <1>2, <1>3, <1>4, <1>5, <1>6, OwnedInit, ToldInit, LinesInit, PTL DEF Spec
-------------------------------------------------------------------------------
(***************************************************************************)
(* Resources that nobody chose                                             *)
(***************************************************************************)
\* What is assumed of an environment: an rmm module that bears markers bears that of the
\* platform it allocates on, and a library that knows the attribute has the calls that it
\* is about.
Plausible(env) ==
  /\ env.rmm.markers = {} \/ env.rmm.target \in env.rmm.markers
  /\ \A name : "pools" \in env.libraries[name] =>
                 {"malloc_async", "free_async"} \subseteq env.libraries[name]

\* The asynchronous family is only chosen where the library has it.
LEMMA AutoIsSupported ==
  ASSUME NEW env, Plausible(env), NEW platform,
         AsyncFamily(env, LoadNativeApi(env, platform), "auto")
  PROVE  AsyncSupported(LoadNativeApi(env, platform))
<1> DEFINE api == LoadNativeApi(env, platform)
<1>1. CASE api = Unavailable
  <2>1. api.pools = FALSE
    BY <1>1 DEF Unavailable
  <2> HIDE DEF api
  <2>2. PoolsAttribute(env, api)[1] = "invalid value"
    BY <2>1 DEF PoolsAttribute
  <2>. QED  BY <2>2 DEF AsyncFamily, api
<1>2. ASSUME NEW name, api = NativeGpuApi(env.libraries[name]) PROVE AsyncSupported(api)
  <2>1. /\ api.pools = ("pools" \in env.libraries[name])
        /\ api.async = ({"malloc_async", "free_async"} \subseteq env.libraries[name])
    <3> HIDE DEF api
    <3>. QED  BY <1>2 DEF NativeGpuApi
  <2>2. api.pools
    <3>1. AsyncFamily(env, api, "auto")
      OBVIOUS
    <3> HIDE DEF api
    <3>. QED  BY <3>1 DEF AsyncFamily, PoolsAttribute
  <2> HIDE DEF api
  <2>. QED  BY <2>1, <2>2 DEF Plausible, AsyncSupported
<1>3. api = Unavailable \/ \E name : api = NativeGpuApi(env.libraries[name])
  BY DEF LoadNativeApi
<1>. QED  BY <1>1, <1>2, <1>3

\* An rmm module is only taken for the platform that it allocates on.
LEMMA RmmIsForPlatform ==
  ASSUME NEW env, Plausible(env), NEW name, name # None, ImportRmmFor(env, name)
  PROVE  env.rmm.target = name
<1>1. RmmModulePlatform(env.rmm) = name
  BY DEF ImportRmmFor
<1>2. PICK marker \in env.rmm.markers : env.rmm.markers = {marker}
  BY <1>1 DEF RmmModulePlatform, MarkedFor
<1>3. RmmModulePlatform(env.rmm) = marker
  BY <1>2 DEF RmmModulePlatform, MarkedFor
<1>. QED  BY <1>1, <1>2, <1>3 DEF Plausible

LEMMA DefaultsCanServe ==
  ASSUME NEW environments, \A env \in environments : Plausible(env),
         NEW l \in DefaultResources(environments)
  PROVE  l.serves
<1>1. ASSUME NEW env, NEW api, AsyncFamily(env, api, "auto") => AsyncSupported(api),
             l = [GpuRuntime(AsyncFamily(env, api, "auto"), api) EXCEPT !.byDefault = TRUE]
      PROVE  l.serves
  BY <1>1 DEF GpuRuntime, Plain
<1>2. ASSUME l = [RmmLike(TRUE) EXCEPT !.byDefault = TRUE] PROVE l.serves
  BY <1>2 DEF RmmLike, Plain
<1>3. ASSUME l = [DefaultMalloc EXCEPT !.byDefault = TRUE] PROVE l.serves
  BY <1>3 DEF DefaultMalloc, Malloc, Plain
<1>4. ASSUME NEW env \in environments, l = [DefaultCuda(env) EXCEPT !.byDefault = TRUE]
      PROVE  l.serves
  <2>1. CASE ImportRmmFor(env, "cuda")
    <3>1. env.rmm.target = "cuda"
      BY <2>1, RmmIsForPlatform DEF None
    <3>. QED  BY <1>2, <1>4, <2>1, <3>1 DEF DefaultCuda
  <2>2. CASE ~ImportRmmFor(env, "cuda")
    BY <1>1, <1>4, <2>2, AutoIsSupported DEF DefaultCuda
  <2>. QED  BY <2>1, <2>2
<1>5. ASSUME NEW env \in environments, l = [DefaultHip(env) EXCEPT !.byDefault = TRUE]
      PROVE  l.serves
  <2>1. CASE ImportRmmFor(env, "rocm")
    <3>1. env.rmm.target = "rocm"
      BY <2>1, RmmIsForPlatform DEF None
    <3>. QED  BY <1>2, <1>5, <2>1, <3>1 DEF DefaultHip
  <2>2. CASE ~ImportRmmFor(env, "rocm")
    BY <1>1, <1>5, <2>2, AutoIsSupported DEF DefaultHip
  <2>. QED  BY <2>1, <2>2
<1>. QED  BY <1>3, <1>4, <1>5 DEF DefaultResources

ServedInv ==
  /\ leaf \in Leaves \cup Suspects \/ ~leaf.byDefault
  /\ DOMAIN call = Callers
  /\ DefaultServes

DefaultsAreDiscovered(environments) ==
  /\ \A env \in environments : Plausible(env)
  /\ \A l \in Leaves \cup Suspects : l.byDefault => l \in DefaultResources(environments)

LEMMA ServedInit == Init => ServedInv
<1> SUFFICES ASSUME Init PROVE ServedInv
  OBVIOUS
<1>1. PICK l \in Leaves \cup Suspects : FreshLeaf(l)
  BY DEF Init
<1>. QED  BY <1>1 DEF FreshLeaf, Idle, ServedInv, DefaultServes

\* A call gets another answer, and it is not that the library is of no use.
Answered(t) ==
  /\ leaf' = leaf
  /\ \E x : /\ ~(x.pc = "returned" /\ ~x.ok /\ x.error = "unserved")
            /\ call' = [call EXCEPT ![t] = x]

LEMMA AnsweredKeeps ==
  ASSUME ServedInv, NEW t \in Callers, Answered(t)
  PROVE  ServedInv'
BY DEF ServedInv, DefaultServes, Answered

LEMMA ServedStep ==
  ASSUME NEW environments, DefaultsAreDiscovered(environments), ServedInv, [Next]_vars
  PROVE  ServedInv'
<1>1. leaf.byDefault => leaf.serves
  BY DefaultsCanServe DEF ServedInv, DefaultsAreDiscovered
<1>2. /\ \A ptr : Returned(ptr).pc = "returned" /\ Returned(ptr).ok
      /\ \A error : Raised(error).pc = "returned" /\ Raised(error).error = error
      /\ \A op, ptr, n : Called(op, ptr, n).pc = "called"
      /\ Idle.pc = "idle"
  BY DEF Returned, Raised, Called, Idle
<1>3. \A op, ptr, n, result : LET x == Done(op, ptr, n, result) IN
        x.pc = "unlogged" \/ (x.pc = "returned" /\ x.ok)
  BY <1>2 DEF Done
<1>4. \A ptr, n : Misuse(ptr, n) # "unserved"
  BY DEF Misuse
<1>5. \A ptr, n : Removed(ptr, n).pc = "removed"
  BY DEF Removed
<1> USE DEF Answered, Answer
<1>6. ASSUME NEW t \in Callers, \/ \E n : Allocate(t, n) \/ \E ptr, m : Deallocate(t, ptr, m)
                                \/ Return(t)
      PROVE  Answered(t)
  BY <1>2, <1>6 DEF Allocate, Deallocate, Calls, Return
<1>7. ASSUME NEW t \in Callers, NEW bases, LeafStep(t, bases)
      PROVE  Answered(t) \/ (~leaf.byDefault /\ leaf' = leaf /\ DOMAIN call' = DOMAIN call)
  <2>1. ASSUME RefuseNegative(t) \/ ObtainRaises(t) \/ RefuseFree(t) \/ ReleaseRaises(t)
        PROVE  Answered(t)
    BY <1>2, <2>1 DEF RefuseNegative, ObtainRaises, RefuseFree, ReleaseRaises
  <2>2. ASSUME NEW base, Obtain(t, base) PROVE Answered(t)
    BY <2>2 DEF Obtain
  <2>3. ASSUME Record(t) \/ Release(t) PROVE Answered(t)
    BY <1>3, <2>3 DEF Record, Release
  <2>4. ASSUME TakeOut(t) PROVE Answered(t)
    BY <1>5, <2>4 DEF TakeOut
  <2>5. ASSUME RecordAllocation(t) \/ WriteLog(t) PROVE Answered(t)
    BY <1>2, <2>5 DEF RecordAllocation, WriteLog
  <2>6. ASSUME RecordFree(t) PROVE Answered(t)
    <3>1. leaf' = leaf
      BY <2>6 DEF RecordFree
    <3>2. \/ call' = [call EXCEPT ![t] = Returned(0)]
          \/ call' = [call EXCEPT ![t] = Raised(Misuse(call[t].ptr, call[t].n))]
      BY <2>6 DEF RecordFree
    <3>. QED  BY <1>2, <1>4, <3>1, <3>2
  <2>7. ASSUME ObtainFails(t)
        PROVE  Answered(t) \/ (~leaf.byDefault /\ leaf' = leaf /\ DOMAIN call' = DOMAIN call)
    BY <1>1, <1>2, <2>7 DEF ObtainFails
  <2>. QED  BY <1>7, <2>1, <2>2, <2>3, <2>4, <2>5, <2>6, <2>7 DEF LeafStep
<1>8. ASSUME NEW t \in Callers, ForeignAllocate(t) \/ ForeignDeallocate(t) PROVE Answered(t)
  BY <1>2, <1>8 DEF ForeignAllocate, ForeignDeallocate
<1> HIDE DEF Answered, Answer
<1>9. ASSUME NEW t \in Callers, Answered(t) PROVE ServedInv'
  BY <1>9, AnsweredKeeps
<1>10. ASSUME UNCHANGED <<leaf, call>> PROVE ServedInv'
  BY <1>10 DEF ServedInv, DefaultServes
<1>11. ASSUME NEW t \in Callers, CallerStep(t) PROVE ServedInv'
  BY <1>6, <1>9, <1>11 DEF CallerStep
<1>12. ASSUME NEW t \in Callers, ResourceStep(t) PROVE ServedInv'
  <2>1. ASSUME ~leaf.byDefault, leaf' = leaf, DOMAIN call' = DOMAIN call PROVE ServedInv'
    BY <2>1 DEF ServedInv, DefaultServes
  <2>. QED  BY <1>7, <1>8, <1>9, <1>12, <2>1 DEF ResourceStep
<1>13. ASSUME MakeResource PROVE ServedInv'
  <2>1. leaf' = leaf \/ leaf'.byDefault = FALSE
    BY <1>13 DEF MakeResource, Realigned, Bytearray, Malloc, Plain
  <2>2. call' = call
    BY <1>13 DEF MakeResource
  <2>3. CASE leaf' = leaf
    BY <1>10, <2>2, <2>3
  <2>. QED  BY <2>1, <2>2, <2>3 DEF ServedInv, DefaultServes
<1>14. ASSUME StartCall PROVE ServedInv'
  BY <1>6, <1>9, <1>14, SuiteAssumption DEF StartCall
<1>15. ASSUME EndCall PROVE ServedInv'
  BY <1>6, <1>9, <1>15, SuiteAssumption DEF EndCall
<1>16. ASSUME WriteSlot \/ Check \/ Pass \/ UNCHANGED vars PROVE ServedInv'
  BY <1>10, <1>16 DEF WriteSlot, Check, Pass, vars, leafVars
<1>. QED  BY <1>11, <1>12, <1>13, <1>14, <1>15, <1>16 DEF Next

\* A resource that a device has without anybody choosing can serve it, in any environment
\* whose rmm and whose libraries are what they look like: for callers and for the suite.
THEOREM DefaultsAlwaysServe ==
  ASSUME NEW environments, DefaultsAreDiscovered(environments)
  PROVE  Spec => []DefaultServes
<1>1. ServedInv /\ [Next]_vars => ServedInv'
  BY ServedStep
<1>2. ServedInv => DefaultServes
  BY DEF ServedInv
<1>. QED  BY <1>1, <1>2, ServedInit, PTL DEF Spec
===============================================================================
