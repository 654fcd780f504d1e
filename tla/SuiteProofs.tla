----------------------------- MODULE SuiteProofs -----------------------------
(***************************************************************************)
(* Proofs about the conformance suite of Conformance: it fails no resource *)
(* without a fault, and passes none with one that it is about.             *)
(***************************************************************************)
EXTENDS ConformanceProofs, NaturalsInduction, WellFoundedInduction

(***************************************************************************)
(* What the suite is run against                                           *)
(***************************************************************************)
\* The faults of a third party's resource, "none" among them.
Faults == { "none", "aliases", "crooked", "sharesZero", "nullZero", "trustsSigns",
            "trustsFrees", "freesTwice", "dropsOnRefusal", "forgetsNothing", "short" }

\* Without a fault: what the constructors make, but for the recorder, which refuses with
\* errors of its own; a device's default; and a third party's resource that works.
Sound(l) ==
  \/ \E m : Constructed(m) /\ m.name # "recording" /\ (l = m \/ l = [m EXCEPT !.byDefault = TRUE])
  \/ l = ThirdParty("none")

\* A resource, and what the suite's factory makes of it.
Variants(l) ==
  {l} \cup {Realigned(l, a) : a \in {l.alignment} \cup {Alignments[i] : i \in 1..Len(Alignments)}}
Tried == UNION {Variants(l) : l \in Suspects}

\* What the checks ask for.
SuiteSizes ==
  {0, 64, 256, 1024} \cup {GuaranteeSizes[i] : i \in 1..Len(GuaranteeSizes)} \cup
  {SweepSizes[i] : i \in 1..Len(SweepSizes)} \cup {BatchSizes[i] : i \in 1..Len(BatchSizes)}

\* What is assumed of the suite's sizes and alignments, of the resources, and of the
\* library, whose blocks do not overlap, whatever it is asked for.
SuiteDraws ==
  /\ GuaranteeSizes \in Seq(Nat) /\ GuaranteeSizes # <<>>
  /\ SweepSizes \in Seq(Nat) /\ BatchSizes \in Seq(Nat)
  /\ Alignments \in Seq(Nat) /\ \A i \in 1..Len(Alignments) : Alignment(Alignments[i])
SuspectsAreKnown == \A l \in Suspects : Sound(l) \/ \E f \in Faults : l = ThirdParty(f)
SuiteBlocksApart == \A l \in Tried : KeepsApart(l, SuiteSizes, Bases)
SuiteSetting == SuiteDraws /\ SuspectsAreKnown /\ SuiteBlocksApart

\* And of a size that no resource may take.
Asked == SuiteSizes \cup {-1}
-------------------------------------------------------------------------------
(***************************************************************************)
(* Where a check leads                                                     *)
(***************************************************************************)
Ops == {"take", "give", "write", "read", "aligned", "nonnull", "distinct", "count", "fresh"}
Tags == {"none", "pattern", "aa", "55"}
Steps == [op : Ops, slot : Nat, n : Int, off : {0, 1}, misuse : BOOLEAN, tag : Tags]

\* What a check knows between two instructions: the resource, the slots that hold an
\* allocation, with its size, and those that it has written to, with the tag.
Knowing(l, held, tags) == [leaf |-> l, held |-> held, tags |-> tags]
Afresh(l) == Knowing(l, {}, {})
Slots(pairs) == {p[1] : p \in pairs}

\* What an instruction needs to succeed, or to be refused where it is a misuse, and what
\* is known after it.
TakeMoves(i, s, r) ==
  /\ i.op = "take" /\ i.n \in Asked
  /\ IF i.misuse THEN i.n < 0 /\ r = s
     ELSE /\ i.n \in SuiteSizes /\ i.slot \notin Slots(s.held)
          /\ r = Knowing(s.leaf, s.held \cup {<<i.slot, i.n>>}, s.tags)
GiveMoves(i, s, r) ==
  /\ i.op = "give" /\ i.n \in Asked /\ i.slot \in Nat
  /\ IF i.misuse THEN Slots(s.held) \subseteq (IF i.off = 1 THEN {i.slot} ELSE {}) /\ r = s
     ELSE /\ i.off = 0 /\ <<i.slot, i.n>> \in s.held
          /\ r = Knowing(s.leaf, s.held \ {<<i.slot, i.n>>}, {t \in s.tags : t[1] # i.slot})
WriteMoves(i, s, r) ==
  /\ i.op = "write" /\ i.slot \in Slots(s.held)
  /\ r = Knowing(s.leaf, s.held, {t \in s.tags : t[1] # i.slot} \cup {<<i.slot, i.tag>>})
CheckMoves(i, s, r) ==
  /\ \/ i.op = "read" /\ <<i.slot, i.tag>> \in s.tags
     \/ i.op = "aligned" /\ i.slot \in Slots(s.held) /\ i.n \in {s.leaf.alignment, s.leaf.guarantee}
     \/ i.op = "nonnull" /\ i.slot \in Slots(s.held)
     \/ i.op = "distinct" /\ i.slot # i.n /\ i.slot \in Slots(s.held) /\ i.n \in Slots(s.held)
     \/ i.op = "count" /\ IsFiniteSet(s.held) /\ Cardinality(s.held) = i.n
  /\ r = s
FreshMoves(i, s, r) ==
  /\ i.op = "fresh" /\ s.held = {}
  /\ LET l == Realigned(s.leaf, i.n) IN l \in Tried /\ Sound(l) /\ r = Afresh(l)
Moves(i, s, r) ==
  TakeMoves(i, s, r) \/ GiveMoves(i, s, r) \/ WriteMoves(i, s, r) \/ CheckMoves(i, s, r) \/
  FreshMoves(i, s, r)

\* A program leads from what is known before it to what is known after it.
Leads(P, s, z) ==
  \E w : /\ w[1] = s /\ w[Len(P) + 1] = z
         /\ \A k \in 1..Len(P) : Moves(P[k], w[k], w[k + 1])

LEMMA LeadsNowhere == ASSUME NEW s PROVE Leads(<<>>, s, s)
<1> DEFINE w == [k \in {1} |-> s]
<1>1. w[1] = s /\ Len(<<>>) = 0 /\ 0 + 1 = 1 /\ 1..0 = {}
  OBVIOUS
<1> HIDE DEF w
<1>. QED  BY <1>1, Zenon DEF Leads

LEMMA LeadsOn ==
  ASSUME NEW P \in Seq(Steps), P # <<>>, NEW s, NEW z, Leads(P, s, z)
  PROVE  \E r : Moves(Head(P), s, r) /\ Leads(Tail(P), r, z)
<1>1. PICK w : /\ w[1] = s /\ w[Len(P) + 1] = z
               /\ \A k \in 1..Len(P) : Moves(P[k], w[k], w[k + 1])
  BY DEF Leads
<1>2. /\ Len(P) \in Nat \ {0} /\ Len(Tail(P)) = Len(P) - 1 /\ Head(P) = P[1]
      /\ \A k \in 1..Len(Tail(P)) : Tail(P)[k] = P[k + 1]
  BY HeadTailProperties
<1> DEFINE u == [k \in 1..Len(P) |-> w[k + 1]]
<1>3. u[1] = w[2] /\ u[Len(Tail(P)) + 1] = z
  BY <1>1, <1>2
<1>4. ASSUME NEW k \in 1..Len(Tail(P)) PROVE Moves(Tail(P)[k], u[k], u[k + 1])
  <2>1. k + 1 \in 1..Len(P) /\ u[k] = w[k + 1] /\ u[k + 1] = w[(k + 1) + 1]
    BY <1>2
  <2>. QED  BY <1>1, <1>2, <2>1
<1>5. Moves(Head(P), s, w[2])
  <2>1. 1 \in 1..Len(P) /\ 1 + 1 = 2
    BY <1>2
  <2>2. Moves(P[1], w[1], w[1 + 1])
    BY <1>1, <2>1
  <2>. QED  BY <1>1, <1>2, <2>1, <2>2
<1> HIDE DEF u
<1>6. Leads(Tail(P), w[2], z)
  BY <1>3, <1>4 DEF Leads
<1>. QED  BY <1>5, <1>6

LEMMA LeadsBoth ==
  ASSUME NEW P \in Seq(Steps), NEW Q \in Seq(Steps), NEW s, NEW r, NEW z,
         Leads(P, s, r), Leads(Q, r, z)
  PROVE  P \o Q \in Seq(Steps) /\ Leads(P \o Q, s, z)
<1>1. PICK w : /\ w[1] = s /\ w[Len(P) + 1] = r
               /\ \A k \in 1..Len(P) : Moves(P[k], w[k], w[k + 1])
  BY DEF Leads
<1>2. PICK v : /\ v[1] = r /\ v[Len(Q) + 1] = z
               /\ \A k \in 1..Len(Q) : Moves(Q[k], v[k], v[k + 1])
  BY DEF Leads
<1>3. /\ P \o Q \in Seq(Steps) /\ Len(P \o Q) = Len(P) + Len(Q)
      /\ \A k \in 1..(Len(P) + Len(Q)) : (P \o Q)[k] = IF k <= Len(P) THEN P[k] ELSE Q[k - Len(P)]
      /\ Len(P) \in Nat /\ Len(Q) \in Nat
  BY ConcatProperties, LenProperties
<1> DEFINE m == Len(P)
           n == Len(Q)
           u == [k \in 1..(m + n + 1) |-> IF k <= m THEN w[k] ELSE v[k - m]]
<1>4. m \in Nat /\ n \in Nat
  BY <1>3
<1> HIDE DEF m, n
<1>5. u[1] = s
  <2>1. CASE m = 0
    <3>1. u[1] = v[1]
      BY <1>4, <2>1
    <3>. QED  BY <1>1, <1>2, <2>1, <3>1 DEF m
  <2>2. CASE m # 0
    <3>1. u[1] = w[1]
      BY <1>4, <2>2
    <3>. QED  BY <1>1, <3>1
  <2>. QED  BY <2>1, <2>2
<1>6. u[m + n + 1] = z
  <2>1. u[m + n + 1] = v[n + 1]
    BY <1>4
  <2>. QED  BY <1>2, <2>1 DEF n
<1>7. ASSUME NEW k \in 1..(m + n) PROVE Moves((P \o Q)[k], u[k], u[k + 1])
  <2>1. CASE k < m
    <3>1. u[k] = w[k] /\ u[k + 1] = w[k + 1] /\ k \in 1..m /\ k <= m
      BY <1>4, <2>1
    <3>. QED  BY <1>1, <1>3, <3>1 DEF m, n
  <2>2. CASE k = m
    <3>1. u[k] = w[m] /\ u[k + 1] = v[1] /\ m \in 1..m /\ k <= m
      BY <1>4, <2>2
    <3>2. Moves(P[m], w[m], w[m + 1]) /\ w[m + 1] = r /\ v[1] = r
      BY <1>1, <1>2, <3>1 DEF m
    <3>3. (P \o Q)[k] = P[m]
      BY <1>3, <2>2, <3>1 DEF m, n
    <3>. QED  BY <3>1, <3>2, <3>3
  <2>3. CASE k > m
    <3>1. k - m \in 1..n /\ ~(k <= m) /\ ~(k + 1 <= m) /\ (k + 1) - m = (k - m) + 1
      BY <1>4, <2>3
    <3>4. u[k] = v[k - m] /\ u[k + 1] = v[(k - m) + 1]
      <4>1. k \in 1..(m + n + 1) /\ k + 1 \in 1..(m + n + 1)
        BY <1>4
      <4>. QED  BY <3>1, <4>1
    <3>2. (P \o Q)[k] = Q[k - m]
      BY <1>3, <3>1 DEF m, n
    <3>3. Moves(Q[k - m], v[k - m], v[(k - m) + 1])
      BY <1>2, <3>1 DEF n
    <3> HIDE DEF u
    <3>. QED  BY <3>2, <3>3, <3>4
  <2>4. k < m \/ k = m \/ k > m
    BY <1>4
  <2> HIDE DEF u
  <2>. QED  BY <2>1, <2>2, <2>3, <2>4, Zenon
<1>8. Len(P \o Q) = m + n
  BY <1>3 DEF m, n
<1> HIDE DEF u
<1>9. Leads(P \o Q, s, z)
  BY <1>5, <1>6, <1>7, <1>8, Zenon DEF Leads
<1>. QED  BY <1>3, <1>9
-------------------------------------------------------------------------------
(***************************************************************************)
(* Single instructions                                                     *)
(***************************************************************************)
LEMMA Typed ==
  /\ \A k \in Nat, n \in Int :
       /\ Take(k, n) \in Steps /\ Give(k, n) \in Steps
       /\ Misused(Take(k, n)) \in Steps /\ Misused(Give(k, n)) \in Steps
       /\ Misused(Offbeat(Give(k, n), 1)) \in Steps
       /\ AlignedTo(k, n) \in Steps /\ Distinct(k, n) \in Steps
  /\ \A k \in Nat : NonNull(k) \in Steps
  /\ \A k \in Nat, tag \in Tags : Write(k, tag) \in Steps /\ Read(k, tag) \in Steps
  /\ \A n \in Int : Count(n) \in Steps /\ Fresh(n) \in Steps
<1>1. \A op \in Ops, k \in Nat, n \in Int : Instruction(op, k, n) \in Steps
  BY DEF Steps, Instruction, Ops, Tags
<1>2. \A i \in Steps : Misused(i) \in Steps /\ Offbeat(i, 1) \in Steps
  BY DEF Steps, Misused, Offbeat
<1>3. \A i \in Steps, tag \in Tags : [i EXCEPT !.tag = tag] \in Steps
  BY DEF Steps
<1>4. \A k \in Nat, n \in Int : Take(k, n) \in Steps /\ Give(k, n) \in Steps
  BY <1>1 DEF Take, Give, Ops
<1>5. \A k \in Nat, n \in Int : AlignedTo(k, n) \in Steps /\ Distinct(k, n) \in Steps
  BY <1>1 DEF AlignedTo, Distinct, Ops
<1>6. \A k \in Nat : NonNull(k) \in Steps
  BY <1>1 DEF NonNull, Ops
<1>7. \A k \in Nat, tag \in Tags : Write(k, tag) \in Steps /\ Read(k, tag) \in Steps
  <2>1. \A k \in Nat : Instruction("write", k, 0) \in Steps /\ Instruction("read", k, 0) \in Steps
    BY <1>1 DEF Ops
  <2>. QED  BY <1>3, <2>1, Zenon DEF Write, Read
<1>8. \A n \in Int : Count(n) \in Steps /\ Fresh(n) \in Steps
  BY <1>1 DEF Count, Fresh, Ops
<1>. QED  BY <1>2, <1>4, <1>5, <1>6, <1>7, <1>8

LEMMA Takes ==
  ASSUME NEW l, NEW held, NEW tags, NEW k, NEW n \in SuiteSizes, k \notin Slots(held)
  PROVE  Moves(Take(k, n), Knowing(l, held, tags), Knowing(l, held \cup {<<k, n>>}, tags))
<1>1. Take(k, n).op = "take" /\ Take(k, n).slot = k /\ Take(k, n).n = n /\ Take(k, n).misuse = FALSE
  BY DEF Take, Instruction
<1> DEFINE i == Take(k, n)
           s == Knowing(l, held, tags)
<1>2. s.leaf = l /\ s.held = held /\ s.tags = tags
  BY DEF Knowing
<1> HIDE DEF i, s
<1>3. TakeMoves(i, s, Knowing(l, held \cup {<<k, n>>}, tags))
  BY <1>1, <1>2 DEF TakeMoves, Asked, i
<1>. QED  BY <1>3, Zenon DEF Moves, i, s

LEMMA Gives ==
  ASSUME NEW l, NEW held, NEW tags, NEW k \in Nat, NEW n \in SuiteSizes, <<k, n>> \in held
  PROVE  Moves(Give(k, n), Knowing(l, held, tags),
               Knowing(l, held \ {<<k, n>>}, {t \in tags : t[1] # k}))
<1>1. /\ Give(k, n).op = "give" /\ Give(k, n).slot = k /\ Give(k, n).n = n
      /\ Give(k, n).misuse = FALSE /\ Give(k, n).off = 0
  BY DEF Give, Instruction
<1> DEFINE i == Give(k, n)
           s == Knowing(l, held, tags)
<1>2. s.leaf = l /\ s.held = held /\ s.tags = tags
  BY DEF Knowing
<1> HIDE DEF i, s
<1>3. GiveMoves(i, s, Knowing(l, held \ {<<k, n>>}, {t \in tags : t[1] # k}))
  BY <1>1, <1>2 DEF GiveMoves, Asked, i
<1>. QED  BY <1>3, Zenon DEF Moves, i, s

\* One of several that nothing was written into.
LEMMA GivesNext ==
  ASSUME NEW l, NEW held, NEW k \in Nat, NEW n \in SuiteSizes, <<k, n>> \in held,
         NEW left, left = held \ {<<k, n>>}
  PROVE  Moves(Give(k, n), Knowing(l, held, {}), Knowing(l, left, {}))
<1>1. \A tags : Moves(Give(k, n), Knowing(l, held, tags), Knowing(l, left, {t \in tags : t[1] # k}))
  BY Gives
<1> DEFINE rest == {t \in {} : t[1] # k}
<1>2. Moves(Give(k, n), Knowing(l, held, {}), Knowing(l, left, rest))
  BY <1>1
<1>3. rest = {}
  OBVIOUS
<1> HIDE DEF rest
<1>. QED  BY <1>2, <1>3, Zenon

\* The last one.
LEMMA GivesBack ==
  ASSUME NEW l, NEW tags, NEW k \in Nat, NEW n \in SuiteSizes, \A t \in tags : t[1] = k
  PROVE  Moves(Give(k, n), Knowing(l, {<<k, n>>}, tags), Afresh(l))
<1> DEFINE held == {<<k, n>>}
           left == held \ {<<k, n>>}
           rest == {t \in tags : t[1] # k}
<1>1. left = {} /\ rest = {} /\ <<k, n>> \in held
  OBVIOUS
<1>2. <<k, n>> \in held => Moves(Give(k, n), Knowing(l, held, tags), Knowing(l, left, rest))
  <2> HIDE DEF held
  <2>. QED  BY Gives
<1> HIDE DEF held, left, rest
<1>3. Moves(Give(k, n), Knowing(l, held, tags), Knowing(l, {}, {}))
  BY <1>1, <1>2, Zenon
<1>. QED  BY <1>3, Zenon DEF Afresh, held

LEMMA Writes ==
  ASSUME NEW l, NEW held, NEW tags, NEW k, NEW tag, k \in Slots(held)
  PROVE  Moves(Write(k, tag), Knowing(l, held, tags),
               Knowing(l, held, {t \in tags : t[1] # k} \cup {<<k, tag>>}))
<1>1. Write(k, tag).op = "write" /\ Write(k, tag).slot = k /\ Write(k, tag).tag = tag
  BY DEF Write, Instruction
<1> DEFINE i == Write(k, tag)
           s == Knowing(l, held, tags)
<1>2. s.leaf = l /\ s.held = held /\ s.tags = tags
  BY DEF Knowing
<1> HIDE DEF i, s
<1>3. WriteMoves(i, s, Knowing(l, held, {t \in tags : t[1] # k} \cup {<<k, tag>>}))
  BY <1>1, <1>2 DEF WriteMoves, i
<1>. QED  BY <1>3, Zenon DEF Moves, i, s

LEMMA Reads ==
  ASSUME NEW s, NEW k, NEW tag, <<k, tag>> \in s.tags
  PROVE  Moves(Read(k, tag), s, s)
<1>1. Read(k, tag).op = "read" /\ Read(k, tag).slot = k /\ Read(k, tag).tag = tag
  BY DEF Read, Instruction
<1>. QED  BY <1>1, Zenon DEF Moves, CheckMoves

LEMMA Looks ==
  ASSUME NEW s, NEW k, k \in Slots(s.held)
  PROVE  /\ \A to \in {s.leaf.alignment, s.leaf.guarantee} : Moves(AlignedTo(k, to), s, s)
         /\ Moves(NonNull(k), s, s)
         /\ \A j : j # k /\ j \in Slots(s.held) => Moves(Distinct(k, j), s, s)
<1>1. \A to : AlignedTo(k, to).op = "aligned" /\ AlignedTo(k, to).slot = k /\ AlignedTo(k, to).n = to
  BY DEF AlignedTo, Instruction
<1>2. NonNull(k).op = "nonnull" /\ NonNull(k).slot = k
  BY DEF NonNull, Instruction
<1>3. \A j : Distinct(k, j).op = "distinct" /\ Distinct(k, j).slot = k /\ Distinct(k, j).n = j
  BY DEF Distinct, Instruction
<1>4. \A to \in {s.leaf.alignment, s.leaf.guarantee} : Moves(AlignedTo(k, to), s, s)
  BY <1>1, ZenonT(40) DEF Moves, CheckMoves
<1>5. Moves(NonNull(k), s, s)
  BY <1>2, ZenonT(40) DEF Moves, CheckMoves
<1>6. \A j : j # k /\ j \in Slots(s.held) => Moves(Distinct(k, j), s, s)
  BY <1>3, ZenonT(40) DEF Moves, CheckMoves
<1>. QED  BY <1>4, <1>5, <1>6

LEMMA Counts ==
  ASSUME NEW s, NEW n, IsFiniteSet(s.held), Cardinality(s.held) = n
  PROVE  Moves(Count(n), s, s)
<1>1. Count(n).op = "count" /\ Count(n).n = n
  BY DEF Count, Instruction
<1>. QED  BY <1>1, Zenon DEF Moves, CheckMoves

LEMMA NobodyCounts == ASSUME NEW l PROVE Moves(Count(0), Afresh(l), Afresh(l))
<1>1. Afresh(l).held = {}
  BY DEF Afresh, Knowing
<1>. QED  BY <1>1, Counts, FS_EmptySet

LEMMA Freshens ==
  ASSUME NEW s, NEW a, s.held = {}, Realigned(s.leaf, a) \in Tried, Sound(Realigned(s.leaf, a))
  PROVE  Moves(Fresh(a), s, Afresh(Realigned(s.leaf, a)))
<1>1. Fresh(a).op = "fresh" /\ Fresh(a).n = a
  BY DEF Fresh, Instruction
<1>. QED  BY <1>1, Zenon DEF Moves, FreshMoves

\* What is refused.
LEMMA Refuses ==
  ASSUME NEW s
  PROVE  /\ \A k : Moves(Misused(Take(k, -1)), s, s)
         /\ \A k \in Nat, n \in SuiteSizes : s.held = {} => Moves(Misused(Give(k, n)), s, s)
         /\ \A k \in Nat, n \in SuiteSizes :
              Slots(s.held) \subseteq {k} => Moves(Misused(Offbeat(Give(k, n), 1)), s, s)
<1>1. \A k : LET i == Misused(Take(k, -1)) IN
        i.op = "take" /\ i.misuse = TRUE /\ i.n = -1
  BY DEF Take, Instruction, Misused
<1>2. \A k, n : LET i == Misused(Give(k, n)) IN
        i.op = "give" /\ i.misuse = TRUE /\ i.n = n /\ i.slot = k /\ i.off = 0
  BY DEF Give, Instruction, Misused
<1>3. \A k, n : LET i == Misused(Offbeat(Give(k, n), 1)) IN
        i.op = "give" /\ i.misuse = TRUE /\ i.n = n /\ i.slot = k /\ i.off = 1
  BY DEF Give, Instruction, Misused, Offbeat
<1>4. \A k : Moves(Misused(Take(k, -1)), s, s)
  <2>1. -1 < 0 /\ -1 \in Asked
    BY DEF Asked
  <2>. QED  BY <1>1, <2>1 DEF Moves, TakeMoves
<1>5. ASSUME NEW k \in Nat, NEW n \in SuiteSizes, s.held = {} PROVE Moves(Misused(Give(k, n)), s, s)
  <2>1. Slots(s.held) = {} /\ n \in Asked
    BY <1>5 DEF Slots, Asked
  <2>. QED  BY <1>2, <2>1 DEF Moves, GiveMoves
<1>6. ASSUME NEW k \in Nat, NEW n \in SuiteSizes, Slots(s.held) \subseteq {k}
      PROVE  Moves(Misused(Offbeat(Give(k, n), 1)), s, s)
  <2>1. n \in Asked
    BY DEF Asked
  <2>. QED  BY <1>3, <1>6, <2>1 DEF Moves, GiveMoves
<1>. QED  BY <1>4, <1>5, <1>6
-------------------------------------------------------------------------------
(***************************************************************************)
(* The checks                                                              *)
(***************************************************************************)
LEMMA LeadsOne == ASSUME NEW a, NEW s, NEW z, Moves(a, s, z) PROVE Leads(<<a>>, s, z)
<1> DEFINE w == <<s, z>>
           P == <<a>>
<1>1. Len(P) = 1 /\ P[1] = a /\ w[1] = s /\ w[1 + 1] = z /\ \A k \in 1..1 : k = 1
  OBVIOUS
<1> HIDE DEF w, P
<1>2. Leads(P, s, z)
  BY <1>1, Zenon DEF Leads
<1>. QED  BY <1>2 DEF P

LEMMA LeadsThree ==
  ASSUME NEW a, NEW b, NEW c, NEW s, NEW r1, NEW r2, NEW z,
         Moves(a, s, r1), Moves(b, r1, r2), Moves(c, r2, z)
  PROVE  Leads(<<a, b, c>>, s, z)
<1> DEFINE w == <<s, r1, r2, z>>
           P == <<a, b, c>>
<1>1. /\ Len(P) = 3 /\ P[1] = a /\ P[2] = b /\ P[3] = c
      /\ w[1] = s /\ w[1 + 1] = r1 /\ w[2] = r1 /\ w[2 + 1] = r2 /\ w[3] = r2 /\ w[3 + 1] = z
      /\ \A k \in 1..3 : k = 1 \/ k = 2 \/ k = 3
  OBVIOUS
<1> HIDE DEF w, P
<1>2. \A k \in 1..3 : Moves(P[k], w[k], w[k + 1])
  BY <1>1, Zenon
<1>3. Leads(P, s, z)
  BY <1>1, <1>2, Zenon DEF Leads
<1>. QED  BY <1>3 DEF P

LEMMA LeadsFour ==
  ASSUME NEW a, NEW b, NEW c, NEW d, NEW s, NEW r1, NEW r2, NEW r3, NEW z,
         Moves(a, s, r1), Moves(b, r1, r2), Moves(c, r2, r3), Moves(d, r3, z)
  PROVE  Leads(<<a, b, c, d>>, s, z)
<1> DEFINE w == <<s, r1, r2, r3, z>>
           P == <<a, b, c, d>>
<1>1. /\ Len(P) = 4 /\ P[1] = a /\ P[2] = b /\ P[3] = c /\ P[4] = d
      /\ w[1] = s /\ w[1 + 1] = r1 /\ w[2] = r1 /\ w[2 + 1] = r2 /\ w[3] = r2 /\ w[3 + 1] = r3
      /\ w[4] = r3 /\ w[4 + 1] = z
      /\ \A k \in 1..4 : k = 1 \/ k = 2 \/ k = 3 \/ k = 4
  OBVIOUS
<1> HIDE DEF w, P
<1>2. \A k \in 1..4 : Moves(P[k], w[k], w[k + 1])
  BY <1>1, Zenon
<1>3. Leads(P, s, z)
  BY <1>1, <1>2, Zenon DEF Leads
<1>. QED  BY <1>3 DEF P

LEMMA FewSteps ==
  ASSUME NEW a \in Steps, NEW b \in Steps, NEW c \in Steps, NEW d \in Steps
  PROVE  /\ <<a>> \in Seq(Steps) /\ <<a, b>> \in Seq(Steps) /\ <<a, b, c>> \in Seq(Steps)
         /\ <<a, b, c, d>> \in Seq(Steps)
<1>1. <<a>> \in Seq(Steps)
  OBVIOUS
<1>2. <<a, b>> \in Seq(Steps)
  OBVIOUS
<1>3. <<a, b, c>> \in Seq(Steps)
  OBVIOUS
<1>4. <<a, b, c, d>> \in Seq(Steps)
  OBVIOUS
<1>. QED  BY <1>1, <1>2, <1>3, <1>4

LEMMA LeadsFive ==
  ASSUME NEW a \in Steps, NEW b \in Steps, NEW c \in Steps, NEW d \in Steps, NEW e \in Steps,
         NEW s, NEW r1, NEW r2, NEW r3, NEW r4, NEW z,
         Moves(a, s, r1), Moves(b, r1, r2), Moves(c, r2, r3), Moves(d, r3, r4), Moves(e, r4, z)
  PROVE  <<a, b, c, d, e>> \in Seq(Steps) /\ Leads(<<a, b, c, d, e>>, s, z)
<1> DEFINE w == <<s, r1, r2, r3, r4, z>>
           P == <<a, b, c, d, e>>
<1>1. /\ Len(P) = 5 /\ P[1] = a /\ P[2] = b /\ P[3] = c /\ P[4] = d /\ P[5] = e
      /\ \A k \in 1..5 : k = 1 \/ k = 2 \/ k = 3 \/ k = 4 \/ k = 5
  OBVIOUS
<1>2. /\ w[1] = s /\ w[1 + 1] = r1 /\ w[2] = r1 /\ w[2 + 1] = r2 /\ w[3] = r2 /\ w[3 + 1] = r3
      /\ w[4] = r3 /\ w[4 + 1] = r4 /\ w[5] = r4 /\ w[5 + 1] = z
  OBVIOUS
<1>3. P \in Seq(Steps)
  OBVIOUS
<1> HIDE DEF w, P
<1>4. \A k \in 1..5 : Moves(P[k], w[k], w[k + 1])
  BY <1>1, <1>2, Zenon
<1>5. Leads(P, s, z)
  BY <1>1, <1>2, <1>4, Zenon DEF Leads
<1>. QED  BY <1>3, <1>5 DEF P

LEMMA LeadsEight ==
  ASSUME NEW a \in Steps, NEW b \in Steps, NEW c \in Steps, NEW d \in Steps,
         NEW e \in Steps, NEW f \in Steps, NEW g \in Steps, NEW h \in Steps,
         NEW s, NEW r1, NEW r2, NEW r3, NEW r4, NEW r5, NEW r6, NEW r7, NEW z,
         Moves(a, s, r1), Moves(b, r1, r2), Moves(c, r2, r3), Moves(d, r3, r4),
         Moves(e, r4, r5), Moves(f, r5, r6), Moves(g, r6, r7), Moves(h, r7, z)
  PROVE  /\ <<a, b, c, d, e, f, g, h>> \in Seq(Steps)
         /\ Leads(<<a, b, c, d, e, f, g, h>>, s, z)
<1> DEFINE w == <<s, r1, r2, r3, r4, r5, r6, r7, z>>
           P == <<a, b, c, d, e, f, g, h>>
<1>1. /\ Len(P) = 8 /\ P[1] = a /\ P[2] = b /\ P[3] = c /\ P[4] = d
      /\ P[5] = e /\ P[6] = f /\ P[7] = g /\ P[8] = h
      /\ \A k \in 1..8 : k = 1 \/ k = 2 \/ k = 3 \/ k = 4 \/ k = 5 \/ k = 6 \/ k = 7 \/ k = 8
  BY SMTT(30)
<1>2. /\ w[1] = s /\ w[1 + 1] = r1 /\ w[2] = r1 /\ w[2 + 1] = r2 /\ w[3] = r2 /\ w[3 + 1] = r3
      /\ w[4] = r3 /\ w[4 + 1] = r4 /\ w[5] = r4 /\ w[5 + 1] = r5 /\ w[6] = r5 /\ w[6 + 1] = r6
      /\ w[7] = r6 /\ w[7 + 1] = r7 /\ w[8] = r7 /\ w[8 + 1] = z
  OBVIOUS
<1>3. P \in Seq(Steps)
  OBVIOUS
<1> HIDE DEF w, P
<1>4. \A k \in 1..8 : Moves(P[k], w[k], w[k + 1])
  BY <1>1, <1>2, ZenonT(60)
<1>5. Leads(P, s, z)
  BY <1>1, <1>2, <1>4, Zenon DEF Leads
<1>. QED  BY <1>3, <1>5 DEF P

Back(P, l) == P \in Seq(Steps) /\ Leads(P, Afresh(l), Afresh(l))

LEMMA WriteThenReadIsBack == ASSUME NEW l PROVE Back(CheckWriteThenRead, l)
<1> DEFINE h == {<<1, 1024>>}
           t == {<<1, "pattern">>}
           P == <<Take(1, 1024), Write(1, "pattern"), Read(1, "pattern"), Give(1, 1024)>>
<1>1. 1024 \in SuiteSizes /\ 1 \in Nat /\ <<1, 1024>> \in h /\ <<1, "pattern">> \in t
  BY DEF SuiteSizes
<1>2. Slots({}) = {} /\ Slots(h) = {1}
  BY DEF Slots
<1>3. /\ {} \cup {<<1, 1024>>} = h /\ {x \in {} : x[1] # 1} \cup {<<1, "pattern">>} = t
      /\ h \ {<<1, 1024>>} = {} /\ {x \in t : x[1] # 1} = {}
  OBVIOUS
<1> HIDE DEF h, t
<1>4. Moves(Take(1, 1024), Afresh(l), Knowing(l, h, {}))
  BY <1>1, <1>2, <1>3, Takes DEF Afresh
<1>5. Moves(Write(1, "pattern"), Knowing(l, h, {}), Knowing(l, h, t))
  BY <1>1, <1>2, <1>3, Writes
<1>6. Moves(Read(1, "pattern"), Knowing(l, h, t), Knowing(l, h, t))
  BY <1>1, Reads DEF Knowing
<1>7. Moves(Give(1, 1024), Knowing(l, h, t), Afresh(l))
  BY <1>1, <1>3, Gives DEF Afresh
<1>8. P \in Seq(Steps)
  BY <1>1, Typed, FewSteps DEF Tags
<1>9. Leads(P, Afresh(l), Afresh(l))
  BY <1>4, <1>5, <1>6, <1>7, LeadsFour
<1>. QED  BY <1>8, <1>9 DEF Back, CheckWriteThenRead

LEMMA NoAliasingIsBack == ASSUME NEW l PROVE Back(CheckNoAliasing, l)
<1> DEFINE h1 == {<<1, 256>>}
           h2 == {<<2, 256>>}
           h == h1 \cup h2
           t1 == {<<1, "aa">>}
           t2 == {<<2, "55">>}
           t == t1 \cup t2
<1>1. 256 \in SuiteSizes /\ 1 \in Nat /\ 2 \in Nat
  BY DEF SuiteSizes
<1>2. Slots({}) = {} /\ Slots(h1) = {1} /\ Slots(h) = {1, 2} /\ Slots(h2) = {2}
  BY DEF Slots
<1>3. /\ {} \cup {<<1, 256>>} = h1 /\ h1 \cup {<<2, 256>>} = h
      /\ h \ {<<1, 256>>} = h2 /\ h2 \ {<<2, 256>>} = {}
      /\ <<1, 256>> \in h /\ <<2, 256>> \in h2
  OBVIOUS
<1>4. /\ {x \in {} : x[1] # 1} \cup {<<1, "aa">>} = t1
      /\ {x \in t1 : x[1] # 2} \cup {<<2, "55">>} = t
      /\ {x \in t : x[1] # 1} = t2 /\ {x \in t2 : x[1] # 2} = {}
      /\ <<1, "aa">> \in t /\ <<2, "55">> \in t2
  OBVIOUS
<1> HIDE DEF h1, h2, h, t1, t2, t
<1> DEFINE a == Take(1, 256)
           b == Write(1, "aa")
           c == Take(2, 256)
           d == Write(2, "55")
           e == Read(1, "aa")
           f == Give(1, 256)
           g == Read(2, "55")
           i == Give(2, 256)
<1>5. Moves(a, Afresh(l), Knowing(l, h1, {}))
  BY <1>1, <1>2, <1>3, Takes DEF Afresh
<1>6. Moves(b, Knowing(l, h1, {}), Knowing(l, h1, t1))
  BY <1>1, <1>2, <1>4, Writes
<1>7. Moves(c, Knowing(l, h1, t1), Knowing(l, h, t1))
  BY <1>1, <1>2, <1>3, Takes
<1>8. Moves(d, Knowing(l, h, t1), Knowing(l, h, t))
  BY <1>1, <1>2, <1>4, Writes
<1>9. Moves(e, Knowing(l, h, t), Knowing(l, h, t))
  BY <1>4, Reads DEF Knowing
<1>10. Moves(f, Knowing(l, h, t), Knowing(l, h2, t2))
  BY <1>1, <1>3, <1>4, Gives
<1>11. Moves(g, Knowing(l, h2, t2), Knowing(l, h2, t2))
  BY <1>4, Reads DEF Knowing
<1>12. Moves(i, Knowing(l, h2, t2), Afresh(l))
  BY <1>1, GivesBack DEF h2, t2
<1>13. /\ a \in Steps /\ c \in Steps
       /\ f \in Steps /\ i \in Steps
       /\ b \in Steps /\ d \in Steps
       /\ e \in Steps /\ g \in Steps
  BY Typed DEF Tags
<1>14. CheckNoAliasing = <<a, b, c, d, e, f, g, i>>
  BY DEF CheckNoAliasing
<1> HIDE DEF a, b, c, d, e, f, g, i
<1>15. /\ <<a, b, c, d, e, f, g, i>> \in Seq(Steps)
       /\ Leads(<<a, b, c, d, e, f, g, i>>, Afresh(l), Afresh(l))
  BY <1>5, <1>6, <1>7, <1>8, <1>9, <1>10, <1>11, <1>12, <1>13, LeadsEight
<1>. QED  BY <1>14, <1>15, Zenon DEF Back

LEMMA ZeroByteIsBack == ASSUME NEW l PROVE Back(CheckZeroByte, l)
<1> DEFINE h1 == {<<1, 0>>}
           h2 == {<<2, 0>>}
           h == h1 \cup h2
<1>1. 0 \in SuiteSizes /\ 1 \in Nat /\ 2 \in Nat /\ 0 \in Int /\ 2 \in Int
  BY DEF SuiteSizes
<1>2. Slots({}) = {} /\ Slots(h1) = {1} /\ Slots(h) = {1, 2}
  BY DEF Slots
<1>3. /\ {} \cup {<<1, 0>>} = h1 /\ h1 \cup {<<2, 0>>} = h
      /\ h \ {<<1, 0>>} = h2 /\ h2 \ {<<2, 0>>} = {}
      /\ <<1, 0>> \in h /\ <<2, 0>> \in h2
      /\ {x \in {} : x[1] # 1} = {} /\ {x \in {} : x[1] # 2} = {}
  OBVIOUS
<1> HIDE DEF h1, h2, h
<1>4. Moves(Take(1, 0), Afresh(l), Knowing(l, h1, {}))
  BY <1>1, <1>2, <1>3, Takes DEF Afresh
<1>5. Moves(Take(2, 0), Knowing(l, h1, {}), Knowing(l, h, {}))
  BY <1>1, <1>2, <1>3, Takes
<1>6. /\ Moves(NonNull(1), Knowing(l, h, {}), Knowing(l, h, {}))
      /\ Moves(NonNull(2), Knowing(l, h, {}), Knowing(l, h, {}))
      /\ Moves(Distinct(1, 2), Knowing(l, h, {}), Knowing(l, h, {}))
  <2>1. Knowing(l, h, {}).held = h
    BY DEF Knowing
  <2>. QED  BY <1>2, <2>1, Looks
<1>7. Moves(Give(1, 0), Knowing(l, h, {}), Knowing(l, h2, {}))
  BY <1>1, <1>3, Gives
<1>8. Moves(Give(2, 0), Knowing(l, h2, {}), Afresh(l))
  BY <1>1, <1>3, Gives DEF Afresh
<1>9. Moves(Count(0), Afresh(l), Afresh(l))
  BY NobodyCounts
<1>10. /\ Take(1, 0) \in Steps /\ Take(2, 0) \in Steps
       /\ Give(1, 0) \in Steps /\ Give(2, 0) \in Steps
       /\ NonNull(1) \in Steps /\ NonNull(2) \in Steps
       /\ Distinct(1, 2) \in Steps /\ Count(0) \in Steps
  BY Typed
<1>. QED  BY <1>4, <1>5, <1>6, <1>7, <1>8, <1>9, <1>10, LeadsEight DEF Back, CheckZeroByte

LEMMA DoubleFreeIsBack == ASSUME NEW l PROVE Back(CheckDoubleFree, l)
<1> DEFINE h == {<<1, 64>>}
<1>1. 64 \in SuiteSizes /\ 1 \in Nat /\ 64 \in Int /\ <<1, 64>> \in h
  BY DEF SuiteSizes
<1>2. Slots({}) = {}
  BY DEF Slots
<1>3. {} \cup {<<1, 64>>} = h /\ h \ {<<1, 64>>} = {} /\ {x \in {} : x[1] # 1} = {}
  OBVIOUS
<1> HIDE DEF h
<1>4. Moves(Take(1, 64), Afresh(l), Knowing(l, h, {}))
  BY <1>1, <1>2, <1>3, Takes DEF Afresh
<1>5. Moves(Give(1, 64), Knowing(l, h, {}), Afresh(l))
  BY <1>1, GivesBack DEF h
<1>6. Moves(Misused(Give(1, 64)), Afresh(l), Afresh(l))
  <2>1. Afresh(l).held = {}
    BY DEF Afresh, Knowing
  <2>. QED  BY <1>1, <2>1, Refuses
<1>7. CheckDoubleFree \in Seq(Steps)
  BY <1>1, Typed, FewSteps DEF CheckDoubleFree
<1>. QED  BY <1>4, <1>5, <1>6, <1>7, LeadsThree DEF Back, CheckDoubleFree

LEMMA ForeignFreeIsBack == ASSUME NEW l PROVE Back(CheckForeignFree, l)
<1> DEFINE h == {<<1, 64>>}
<1>1. 64 \in SuiteSizes /\ 1 \in Nat /\ 64 \in Int /\ 0 \in Int /\ <<1, 64>> \in h
  BY DEF SuiteSizes
<1>2. Slots({}) = {} /\ Slots(h) \subseteq {1}
  BY DEF Slots
<1>3. {} \cup {<<1, 64>>} = h /\ h \ {<<1, 64>>} = {} /\ {x \in {} : x[1] # 1} = {}
  OBVIOUS
<1> HIDE DEF h
<1>4. Moves(Take(1, 64), Afresh(l), Knowing(l, h, {}))
  BY <1>1, <1>2, <1>3, Takes DEF Afresh
<1>5. Moves(Misused(Offbeat(Give(1, 64), 1)), Knowing(l, h, {}), Knowing(l, h, {}))
  <2>1. Knowing(l, h, {}).held = h
    BY DEF Knowing
  <2>. QED  BY <1>1, <1>2, <2>1, Refuses
<1>6. Moves(Give(1, 64), Knowing(l, h, {}), Afresh(l))
  BY <1>1, GivesBack DEF h
<1>7. Moves(Count(0), Afresh(l), Afresh(l))
  BY NobodyCounts
<1>8. CheckForeignFree \in Seq(Steps)
  BY <1>1, Typed, FewSteps DEF CheckForeignFree
<1>. QED  BY <1>4, <1>5, <1>6, <1>7, <1>8, LeadsFour DEF Back, CheckForeignFree

LEMMA NegativeSizeIsBack == ASSUME NEW l PROVE Back(CheckNegativeSize, l)
<1>1. 1 \in Nat /\ -1 \in Int
  OBVIOUS
<1>2. CheckNegativeSize \in Seq(Steps)
  BY <1>1, Typed, FewSteps DEF CheckNegativeSize
<1>. QED  BY <1>2, Refuses, LeadsOne DEF Back, CheckNegativeSize
-------------------------------------------------------------------------------
(***************************************************************************)
(* Many checks, one after the other                                        *)
(***************************************************************************)
LEMMA LeastNumber ==
  ASSUME NEW T \in SUBSET Nat, T # {}
  PROVE  \E x \in T : \A y \in T : x <= y
<1> DEFINE R == OpToRel(<, Nat)
<1>1. PICK x \in T : \A y \in T : ~(<<y, x>> \in R)
  <2>1. IsWellFoundedOn(R, Nat)
    BY NatLessThanWellFounded
  <2> HIDE DEF R
  <2>. QED  BY <2>1, WFMin
<1>2. \A y \in T : ~(y < x)
  BY <1>1 DEF OpToRel
<1>. QED  BY <1>2

\* Induction up to n, over the set of the numbers for which it is done.
LEMMA UpTo ==
  ASSUME NEW n \in Nat, NEW P, 0 \in P, \A k \in 1..n : k - 1 \in P => k \in P
  PROVE  (\A k \in 0..n : k \in P) /\ n \in P
<1> DEFINE T == {k \in 0..n : k \notin P}
<1> SUFFICES ASSUME T # {} PROVE FALSE
  OBVIOUS
<1>0. T \in SUBSET Nat
  OBVIOUS
<1>1. PICK x \in T : \A y \in T : x <= y
  <2> HIDE DEF T
  <2>. QED  BY <1>0, LeastNumber
<1>2. x \in 1..n /\ x - 1 \notin T
  BY <1>1
<1>. QED  BY <1>1, <1>2

\* What FlattenSeq computes, one sequence after the other.
Flattens(F, n, f) == f = [i \in 1..n |-> IF i = 1 THEN F[i] ELSE f[i - 1] \o F[i]]

LEMMA FlattensExists == ASSUME NEW n \in Nat, NEW F PROVE \E f : Flattens(F, n, f)
<1> DEFINE P == {k \in 0..n : \E f : Flattens(F, k, f)}
<1>1. 0 \in P
  <2> DEFINE f == [i \in 1..0 |-> 0]
  <2>1. Flattens(F, 0, f)
    BY DEF Flattens
  <2>. QED  BY <2>1
<1>2. ASSUME NEW k \in 1..n, k - 1 \in P PROVE k \in P
  <2>1. PICK f : Flattens(F, k - 1, f)
    BY <1>2
  <2> DEFINE g == [i \in 1..k |-> IF i # k THEN f[i]
                                  ELSE IF k = 1 THEN F[1] ELSE f[k - 1] \o F[k]]
  <2>2. ASSUME NEW i \in 1..k PROVE g[i] = IF i = 1 THEN F[i] ELSE g[i - 1] \o F[i]
    <3>1. CASE i = k
      BY <3>1
    <3>2. CASE i # k
      <4>1. i \in 1..(k - 1) /\ g[i] = f[i]
        BY <3>2
      <4>2. f[i] = IF i = 1 THEN F[i] ELSE f[i - 1] \o F[i]
        BY <2>1, <4>1 DEF Flattens
      <4>3. i # 1 => g[i - 1] = f[i - 1]
        BY <4>1
      <4>. QED  BY <4>1, <4>2, <4>3
    <3>. QED  BY <3>1, <3>2
  <2>3. Flattens(F, k, g)
    <3>1. g = [i \in 1..k |-> g[i]]
      OBVIOUS
    <3> HIDE DEF g
    <3>. QED  BY <2>2, <3>1 DEF Flattens
  <2>. QED  BY <2>3
<1> HIDE DEF P
<1>3. n \in P
  <2>1. \A k \in 1..n : k - 1 \in P => k \in P
    BY <1>2
  <2>. QED  BY <1>1, <2>1, UpTo
<1>. QED  BY <1>3 DEF P

\* It goes through all that comes before the last one.
Stages(F, n, f) ==
  /\ n > 0 => f[1] = F[1] /\ FlattenSeq(F) = f[n]
  /\ \A i \in 2..n : f[i] = f[i - 1] \o F[i]

LEMMA Flattened ==
  ASSUME NEW n \in Nat, NEW S, NEW F \in [1..n -> S]
  PROVE  (n = 0 => FlattenSeq(F) = <<>>) /\ \E f : Stages(F, n, f)
<1> DEFINE f == CHOOSE f : Flattens(F, n, f)
<1>1. Len(F) = n /\ (n = 0 => F = <<>>)
  OBVIOUS
<1>2. n # 0 => FlattenSeq(F) = f[n]
  <2>1. Len(F) # 0 => FlattenSeq(F) = (CHOOSE h : Flattens(F, Len(F), h))[Len(F)]
    BY Zenon DEF FlattenSeq, Flattens
  <2>. QED  BY <1>1, <2>1
<1>3. Flattens(F, n, f)
  BY FlattensExists
<1>4. n = 0 => FlattenSeq(F) = <<>>
  BY <1>1 DEF FlattenSeq
<1> HIDE DEF f
<1>5. \A i \in 1..n : f[i] = IF i = 1 THEN F[i] ELSE f[i - 1] \o F[i]
  BY <1>3 DEF Flattens
<1>6. n > 0 => f[1] = F[1] /\ FlattenSeq(F) = f[n]
  <2>1. n > 0 => 1 \in 1..n /\ n # 0
    OBVIOUS
  <2>. QED  BY <1>2, <1>5, <2>1
<1>7. \A i \in 2..n : f[i] = f[i - 1] \o F[i]
  <2>1. \A i \in 2..n : i \in 1..n /\ i # 1
    OBVIOUS
  <2>. QED  BY <1>5, <2>1
<1>8. Stages(F, n, f)
  BY <1>6, <1>7, Zenon DEF Stages
<1>. QED  BY <1>4, <1>8, Zenon

\* A program that leaves any of these resources for another of them, as it got it.
Rounds(P, M) ==
  P \in Seq(Steps) /\ \A m \in M : \E r \in M : Leads(P, Afresh(m), Afresh(r))

LEMMA RoundsBoth ==
  ASSUME NEW M, NEW P, Rounds(P, M), NEW Q, Rounds(Q, M)
  PROVE  Rounds(P \o Q, M)
<1>1. P \in Seq(Steps) /\ Q \in Seq(Steps)
  BY DEF Rounds
<1>2. ASSUME NEW m \in M
      PROVE  P \o Q \in Seq(Steps) /\ \E z \in M : Leads(P \o Q, Afresh(m), Afresh(z))
  <2>1. PICK r \in M : Leads(P, Afresh(m), Afresh(r))
    BY DEF Rounds
  <2>2. PICK z \in M : Leads(Q, Afresh(r), Afresh(z))
    BY DEF Rounds
  <2>. QED  BY <1>1, <2>1, <2>2, LeadsBoth
<1>3. P \o Q \in Seq(Steps)
  BY <1>1, ConcatProperties
<1>. QED  BY <1>2, <1>3 DEF Rounds

LEMMA RoundsNowhere == ASSUME NEW M PROVE Rounds(<<>>, M)
<1>1. <<>> \in Seq(Steps)
  OBVIOUS
<1>. QED  BY <1>1, LeadsNowhere DEF Rounds

LEMMA FlatRounds ==
  ASSUME NEW M, NEW n \in Nat, NEW S, NEW F \in [1..n -> S], \A i \in 1..n : Rounds(F[i], M)
  PROVE  Rounds(FlattenSeq(F), M)
<1>1. PICK f : Stages(F, n, f)
  BY Flattened
<1>2. CASE n = 0
  BY <1>2, Flattened, RoundsNowhere
<1>3. CASE n > 0
  <2> DEFINE P == {k \in 0..n : k > 0 => Rounds(f[k], M)}
  <2>1. 0 \in P
    OBVIOUS
  <2>2. ASSUME NEW k \in 1..n, k - 1 \in P PROVE k \in P
    <3>1. CASE k = 1
      <4>1. 1 \in 1..n /\ f[1] = F[1]
        BY <1>1, <1>3 DEF Stages
      <4>2. Rounds(f[1], M)
        BY <4>1
      <4>. QED  BY <3>1, <4>2
    <3>2. CASE k # 1
      <4>1. k \in 2..n /\ k - 1 > 0
        BY <3>2
      <4>2. Rounds(f[k - 1], M) /\ Rounds(F[k], M)
        BY <2>2, <4>1
      <4>3. Rounds(f[k - 1] \o F[k], M)
        BY <4>2, RoundsBoth, Zenon
      <4>4. f[k] = f[k - 1] \o F[k]
        BY <1>1, <4>1, Zenon DEF Stages
      <4>5. Rounds(f[k], M)
        BY <4>3, <4>4, Zenon
      <4>. QED  BY <4>5
    <3>. QED  BY <3>1, <3>2
  <2> HIDE DEF P
  <2>3. n \in P
    <3>1. \A k \in 1..n : k - 1 \in P => k \in P
      BY <2>2
    <3>. QED  BY <2>1, <3>1, UpTo, Zenon
  <2>4. Rounds(f[n], M)
    BY <1>3, <2>3 DEF P
  <2>. QED  BY <1>1, <1>3, <2>4, Zenon DEF Stages
<1>. QED  BY <1>2, <1>3

\* The last of them is what it ends with.
EndsAlike(F, n, S) == \E rest \in Seq(S) : FlattenSeq(F) = rest \o F[n]

LEMMA FlatEnds ==
  ASSUME NEW n \in Nat, n # 0, NEW S, NEW F \in [1..n -> Seq(S)]
  PROVE  EndsAlike(F, n, S)
<1> USE DEF EndsAlike
<1>1. PICK f : Stages(F, n, f)
  BY Flattened
<1>2. f[1] = F[1] /\ FlattenSeq(F) = f[n]
  <2>1. n > 0
    OBVIOUS
  <2>. QED  BY <1>1, <2>1, Zenon DEF Stages
<1> DEFINE P == {k \in 0..n : k > 0 => f[k] \in Seq(S)}
<1>3. 0 \in P
  OBVIOUS
<1>4. ASSUME NEW k \in 1..n, k - 1 \in P PROVE k \in P
  <2>1. CASE k = 1
    <3>1. F[1] \in Seq(S)
      OBVIOUS
    <3>. QED  BY <1>2, <2>1, <3>1
  <2>2. CASE k # 1
    <3>1. k \in 2..n /\ k - 1 > 0
      BY <2>2
    <3>2. f[k - 1] \in Seq(S) /\ F[k] \in Seq(S)
      BY <1>4, <3>1
    <3>3. f[k] = f[k - 1] \o F[k]
      BY <1>1, <3>1, Zenon DEF Stages
    <3>4. f[k] \in Seq(S)
      BY <3>2, <3>3, ConcatProperties, Zenon
    <3>. QED  BY <3>4
  <2>. QED  BY <2>1, <2>2
<1> HIDE DEF P
<1>5. \A k \in 0..n : k \in P
  <2>1. \A k \in 1..n : k - 1 \in P => k \in P
    BY <1>4
  <2>. QED  BY <1>3, <2>1, UpTo, Zenon
<1>6. CASE n = 1
  <2>1. <<>> \in Seq(S) /\ F[1] \in Seq(S)
    OBVIOUS
  <2>2. <<>> \o F[1] = F[1]
    BY <2>1, ConcatEmptySeq, Zenon
  <2>. QED  BY <1>2, <1>6, <2>1, <2>2, Zenon
<1>7. CASE n # 1
  <2>1. n \in 2..n /\ n - 1 \in 0..n /\ n - 1 > 0
    BY <1>7
  <2>2. f[n - 1] \in Seq(S)
    BY <1>5, <2>1 DEF P
  <2>3. f[n] = f[n - 1] \o F[n]
    BY <1>1, <2>1, Zenon DEF Stages
  <2>. QED  BY <1>2, <2>2, <2>3, Zenon
<1>. QED  BY <1>6, <1>7
-------------------------------------------------------------------------------
(***************************************************************************)
(* The checks of alignments and of the bookkeeping                         *)
(***************************************************************************)
LEMMA BackRounds == ASSUME NEW P, NEW l PROVE Back(P, l) <=> Rounds(P, {l})
BY DEF Back, Rounds

\* A take and its give, and what is looked at in between.
LEMMA Held1 ==
  ASSUME NEW l, NEW n \in SuiteSizes
  PROVE  LET h == {<<1, n>>} IN
         /\ Moves(Take(1, n), Afresh(l), Knowing(l, h, {}))
         /\ \A to \in {l.alignment, l.guarantee} :
              Moves(AlignedTo(1, to), Knowing(l, h, {}), Knowing(l, h, {}))
         /\ LET t == {<<1, "pattern">>} IN
            /\ Moves(Write(1, "pattern"), Knowing(l, h, {}), Knowing(l, h, t))
            /\ Moves(Read(1, "pattern"), Knowing(l, h, t), Knowing(l, h, t))
            /\ Moves(Give(1, n), Knowing(l, h, t), Afresh(l))
         /\ Moves(Give(1, n), Knowing(l, h, {}), Afresh(l))
<1> DEFINE h == {<<1, n>>}
           t == {<<1, "pattern">>}
<1>1. 1 \in Nat /\ <<1, n>> \in h /\ <<1, "pattern">> \in t /\ \A x \in t : x[1] = 1
  OBVIOUS
<1>2. Slots({}) = {} /\ Slots(h) = {1}
  BY DEF Slots
<1>3. {} \cup {<<1, n>>} = h /\ {x \in {} : x[1] # 1} \cup {<<1, "pattern">>} = t
  OBVIOUS
<1>4. Knowing(l, h, {}).held = h /\ Knowing(l, h, {}).leaf = l /\ Knowing(l, h, t).tags = t
  BY DEF Knowing
<1>5. Moves(Give(1, n), Knowing(l, h, t), Afresh(l))
  BY <1>1, GivesBack
<1>6. Moves(Give(1, n), Knowing(l, h, {}), Afresh(l))
  BY <1>1, GivesBack
<1> HIDE DEF h, t
<1>7. Moves(Take(1, n), Afresh(l), Knowing(l, h, {}))
  BY <1>1, <1>2, <1>3, Takes DEF Afresh
<1>8. Moves(Write(1, "pattern"), Knowing(l, h, {}), Knowing(l, h, t))
  BY <1>1, <1>2, <1>3, Writes
<1>9. Moves(Read(1, "pattern"), Knowing(l, h, t), Knowing(l, h, t))
  BY <1>1, <1>4, Reads
<1>10. \A to \in {l.alignment, l.guarantee} :
         Moves(AlignedTo(1, to), Knowing(l, h, {}), Knowing(l, h, {}))
  BY <1>2, <1>4, Looks
<1>. QED  BY <1>5, <1>6, <1>7, <1>8, <1>9, <1>10, Zenon DEF h, t

LEMMA RequestedIsBack ==
  ASSUME NEW l, l.alignment \in Int, NEW n \in SuiteSizes, n \in Int
  PROVE  Back(CheckRequestedAlignment(n, l.alignment), l)
<1> DEFINE h == {<<1, n>>}
           t == {<<1, "pattern">>}
<1>1. /\ Take(1, n) \in Steps /\ AlignedTo(1, l.alignment) \in Steps
      /\ Write(1, "pattern") \in Steps /\ Read(1, "pattern") \in Steps /\ Give(1, n) \in Steps
  BY Typed DEF Tags
<1>2. /\ Moves(Take(1, n), Afresh(l), Knowing(l, h, {}))
      /\ Moves(AlignedTo(1, l.alignment), Knowing(l, h, {}), Knowing(l, h, {}))
      /\ Moves(Write(1, "pattern"), Knowing(l, h, {}), Knowing(l, h, t))
      /\ Moves(Read(1, "pattern"), Knowing(l, h, t), Knowing(l, h, t))
      /\ Moves(Give(1, n), Knowing(l, h, t), Afresh(l))
  BY Held1
<1> HIDE DEF h, t
<1>. QED  BY <1>1, <1>2, LeadsFive DEF Back, CheckRequestedAlignment

\* The resource that is checked has the same guarantee as the one that the check is from.
LEMMA GuaranteedIsBack ==
  ASSUME SuiteDraws, NEW l, NEW m, l.guarantee \in Int, m.guarantee = l.guarantee
  PROVE  Back(CheckGuaranteedAlignment(m), l)
<1> DEFINE n == Len(GuaranteeSizes)
           triple(k) == <<Take(1, k), AlignedTo(1, m.guarantee), Give(1, k)>>
           F == [i \in 1..n |-> triple(GuaranteeSizes[i])]
<1>1. n \in Nat /\ \A i \in 1..n : GuaranteeSizes[i] \in SuiteSizes /\ GuaranteeSizes[i] \in Int
  BY DEF SuiteDraws, SuiteSizes
<1>2. ASSUME NEW k \in SuiteSizes, k \in Int PROVE Back(triple(k), l)
  <2> DEFINE h == {<<1, k>>}
  <2>1. /\ Moves(Take(1, k), Afresh(l), Knowing(l, h, {}))
        /\ Moves(AlignedTo(1, m.guarantee), Knowing(l, h, {}), Knowing(l, h, {}))
        /\ Moves(Give(1, k), Knowing(l, h, {}), Afresh(l))
    BY Held1
  <2>2. Take(1, k) \in Steps /\ AlignedTo(1, m.guarantee) \in Steps /\ Give(1, k) \in Steps
    BY <1>2, Typed
  <2>3. triple(k) \in Seq(Steps)
    BY <2>2, FewSteps
  <2> HIDE DEF h
  <2>. QED  BY <2>1, <2>3, LeadsThree DEF Back
<1>3. ASSUME NEW i \in 1..n PROVE F[i] \in Seq(Steps) /\ Rounds(F[i], {l})
  <2>1. F[i] = triple(GuaranteeSizes[i])
    OBVIOUS
  <2> HIDE DEF F, triple
  <2>2. Back(F[i], l)
    BY <1>1, <1>2, <2>1
  <2>. QED  BY <2>2, BackRounds DEF Back
<1>4. F \in [1..n -> Seq(Steps)]
  <2>1. F = [i \in 1..n |-> F[i]]
    OBVIOUS
  <2> HIDE DEF F
  <2>. QED  BY <1>3, <2>1
<1>5. CheckGuaranteedAlignment(m) = FlattenSeq(F)
  BY Zenon DEF CheckGuaranteedAlignment
<1> HIDE DEF F, n
<1>6. Rounds(FlattenSeq(F), {l})
  BY <1>1, <1>3, <1>4, FlatRounds, Zenon
<1>. QED  BY <1>5, <1>6, BackRounds

\* The bookkeeping, instruction by instruction.
LEMMA BookkeepingIsBack == ASSUME SuiteDraws, NEW l PROVE Back(CheckBookkeeping, l)
<1> DEFINE N == Len(BatchSizes)
           pair(i) == <<i, BatchSizes[i]>>
           span(i, j) == {pair(k) : k \in i..j}
           T == [i \in 1..N |-> Take(i, BatchSizes[i])]
           G == [i \in 1..N |-> Give(i, BatchSizes[i])]
           at(i, j) == Knowing(l, span(i, j), {})
<1>1. N \in Nat /\ \A i \in 1..N : BatchSizes[i] \in SuiteSizes /\ BatchSizes[i] \in Int
  BY DEF SuiteDraws, SuiteSizes
<1>2. T \in Seq(Steps) /\ Len(T) = N /\ G \in Seq(Steps) /\ Len(G) = N
  <2>1. \A i \in 1..N : Take(i, BatchSizes[i]) \in Steps /\ Give(i, BatchSizes[i]) \in Steps
    BY <1>1, Typed
  <2> HIDE DEF N
  <2>. QED  BY <1>1, <2>1
<1>3. Count(N) \in Steps /\ Count(0) \in Steps /\ <<Count(N)>> \in Seq(Steps)
      /\ <<Count(0)>> \in Seq(Steps)
  <2>1. Count(N) \in Steps /\ Count(0) \in Steps
    BY <1>1, Typed
  <2>. QED  BY <2>1, FewSteps
<1>4. \A i, j : Slots(span(i, j)) = i..j
  <2>1. \A i, j : \A p \in span(i, j) : \E k \in i..j : p = pair(k)
    OBVIOUS
  <2>2. \A i, j : \A k \in i..j : pair(k) \in span(i, j)
    OBVIOUS
  <2>3. \A k : pair(k)[1] = k
    OBVIOUS
  <2> HIDE DEF span, pair
  <2>. QED  BY <2>1, <2>2, <2>3 DEF Slots
<1>5. at(1, 0) = Afresh(l) /\ at(N + 1, N) = Afresh(l)
  <2>1. span(1, 0) = {} /\ span(N + 1, N) = {}
    BY <1>1
  <2> HIDE DEF span
  <2>. QED  BY <2>1 DEF Afresh
<1>6. ASSUME NEW k \in 1..N
      PROVE  /\ Moves(T[k], at(1, k - 1), at(1, (k + 1) - 1))
             /\ Moves(G[k], at(k, N), at(k + 1, N))
  <2>1. T[k] = Take(k, BatchSizes[k]) /\ G[k] = Give(k, BatchSizes[k])
    OBVIOUS
  <2>2. /\ span(1, (k + 1) - 1) = span(1, k - 1) \cup {<<k, BatchSizes[k]>>}
        /\ <<k, BatchSizes[k]>> \in span(k, N)
    <3>1. 1..((k + 1) - 1) = 1..(k - 1) \cup {k} /\ k \in k..N /\ pair(k) = <<k, BatchSizes[k]>>
      BY <1>1
    <3>. QED  BY <3>1
  <2>3. span(k + 1, N) = span(k, N) \ {<<k, BatchSizes[k]>>}
    <3>1. (k + 1)..N = k..N \ {k} /\ pair(k) = <<k, BatchSizes[k]>>
      BY <1>1
    <3>2. \A j : pair(j) = pair(k) => j = k
      OBVIOUS
    <3> HIDE DEF pair
    <3>. QED  BY <3>1, <3>2
  <2>4. k \notin 1..(k - 1) /\ k \in Nat /\ {t \in {} : t[1] # k} = {}
    OBVIOUS
  <2>5. k \notin Slots(span(1, k - 1))
    BY <1>4, <2>4
  <2> HIDE DEF span, T, G
  <2>6. Moves(T[k], at(1, k - 1), at(1, (k + 1) - 1))
    BY <1>1, <2>1, <2>2, <2>5, Takes
  <2>7. Moves(G[k], at(k, N), at(k + 1, N))
    <3>1. BatchSizes[k] \in SuiteSizes /\ k \in Nat /\ <<k, BatchSizes[k]>> \in span(k, N)
      BY <1>1, <2>2, <2>4
    <3>2. Moves(Give(k, BatchSizes[k]), Knowing(l, span(k, N), {}), Knowing(l, span(k + 1, N), {}))
      BY <2>3, <3>1, GivesNext
    <3>. QED  BY <2>1, <3>2
  <2>. QED  BY <2>6, <2>7
<1>7. IsFiniteSet(span(1, N)) /\ Cardinality(span(1, N)) = N
  <2> DEFINE f == [k \in 1..N |-> pair(k)]
  <2>1. f \in Bijection(1..N, span(1, N))
    <3>1. \A k, j : pair(k) = pair(j) => k = j
      OBVIOUS
    <3> HIDE DEF pair, N
    <3>. QED  BY <3>1 DEF Bijection, Injection, Surjection, IsInjective
  <2> HIDE DEF f, span, N
  <2>2. ExistsBijection(1..N, span(1, N))
    BY <2>1 DEF ExistsBijection
  <2>3. IsFiniteSet(1..N) /\ Cardinality(1..N) = N
    BY <1>1, FS_Interval
  <2>. QED  BY <2>2, <2>3, FS_Bijection
<1> HIDE DEF T, G, span, N
<1>8. Leads(T, at(1, 0), at(1, N))
  <2> DEFINE w == [k \in 1..(N + 1) |-> at(1, k - 1)]
  <2>1. w[1] = at(1, 0) /\ w[N + 1] = at(1, N)
    <3>1. 1 \in 1..(N + 1) /\ N + 1 \in 1..(N + 1) /\ 1 - 1 = 0 /\ (N + 1) - 1 = N
      BY <1>1
    <3> HIDE DEF at
    <3>. QED  BY <3>1
  <2>2. \A k \in 1..N : w[k] = at(1, k - 1) /\ w[k + 1] = at(1, (k + 1) - 1)
    <3>1. \A k \in 1..N : k \in 1..(N + 1) /\ k + 1 \in 1..(N + 1)
      BY <1>1
    <3> HIDE DEF at
    <3>. QED  BY <3>1
  <2> HIDE DEF w, at
  <2>. QED  BY <1>2, <1>6, <2>1, <2>2 DEF Leads
<1>9. Leads(G, at(1, N), at(N + 1, N))
  <2> DEFINE w == [k \in 1..(N + 1) |-> at(k, N)]
  <2>1. w[1] = at(1, N) /\ w[N + 1] = at(N + 1, N)
    <3>1. 1 \in 1..(N + 1) /\ N + 1 \in 1..(N + 1)
      BY <1>1
    <3> HIDE DEF at
    <3>. QED  BY <3>1
  <2>2. \A k \in 1..N : w[k] = at(k, N) /\ w[k + 1] = at(k + 1, N)
    <3>1. \A k \in 1..N : k \in 1..(N + 1) /\ k + 1 \in 1..(N + 1)
      BY <1>1
    <3> HIDE DEF at
    <3>. QED  BY <3>1
  <2> HIDE DEF w, at
  <2>. QED  BY <1>2, <1>6, <2>1, <2>2 DEF Leads
<1>10. Leads(<<Count(N)>>, at(1, N), at(1, N))
  <2>1. at(1, N).held = span(1, N)
    BY DEF Knowing
  <2>. QED  BY <1>7, <2>1, Counts, LeadsOne
<1>11. Leads(<<Count(0)>>, at(N + 1, N), at(N + 1, N))
  BY <1>5, NobodyCounts, LeadsOne
<1>12. CheckBookkeeping = ((T \o <<Count(N)>>) \o G) \o <<Count(0)>>
  BY Zenon DEF CheckBookkeeping, T, G, N
<1> DEFINE C == <<Count(N)>>
           Z == <<Count(0)>>
<1> HIDE DEF C, Z, at
<1>13. T \o C \in Seq(Steps) /\ Leads(T \o C, at(1, 0), at(1, N))
  BY <1>2, <1>3, <1>8, <1>10, LeadsBoth, Zenon DEF C
<1>14. (T \o C) \o G \in Seq(Steps) /\ Leads((T \o C) \o G, at(1, 0), at(N + 1, N))
  BY <1>2, <1>9, <1>13, LeadsBoth, Zenon
<1>15. ((T \o C) \o G) \o Z \in Seq(Steps) /\ Leads(((T \o C) \o G) \o Z, at(1, 0), at(N + 1, N))
  BY <1>3, <1>11, <1>14, LeadsBoth, Zenon DEF Z
<1>. QED  BY <1>5, <1>12, <1>15, Zenon DEF Back, C, Z
-------------------------------------------------------------------------------
(***************************************************************************)
(* The suite                                                               *)
(***************************************************************************)
\* What the suite depends on in a resource without a fault.
LEMMA SoundKinds ==
  ASSUME NEW l, Sound(l)
  PROVE  /\ Wellmade(l) /\ l.name # "recording"
         /\ \/ l.name = "bytearray" /\ Alignment(l.alignment) /\ l.guarantee = 1
            \/ l.name \in {"posix", "windows"} /\ Alignment(l.alignment) /\ l.guarantee = l.alignment
            \/ ~AcceptsAlignment(l) /\ l.alignment = 1
<1>1. CASE l = ThirdParty("none")
  <2>1. l.name = "none" /\ l.alignment = 1 /\ l.boundary = 256 /\ l.guarantee = 256
    BY <1>1 DEF ThirdParty, Plain
  <2>2. l.moves = FALSE /\ l.tellsSize = FALSE
    BY <1>1 DEF ThirdParty, Plain
  <2>3. Divides(1, 256) /\ Divides(256, 256) /\ 256 \in Nat \ {0} /\ 1 \in Nat \ {0}
    BY ModuloOne DEF Divides
  <2>. QED  BY <2>1, <2>2, <2>3 DEF Wellmade, AcceptsAlignment
<1>2. CASE \E m : /\ Constructed(m) /\ m.name # "recording"
                  /\ (l = m \/ l = [m EXCEPT !.byDefault = TRUE])
  <2>1. PICK m : /\ Constructed(m) /\ m.name # "recording"
                 /\ (l = m \/ l = [m EXCEPT !.byDefault = TRUE])
    BY <1>2
  <2>2. Wellmade(l)
    <3>1. Offered(l)
      BY <2>1 DEF Offered
    <3>. QED  BY <3>1, OfferedWellmade
  <2>3. l.name = m.name /\ l.alignment = m.alignment /\ l.guarantee = m.guarantee
    <3>1. LeafFields \subseteq DOMAIN m
      BY <2>1, FieldsOfLeaves
    <3>. QED  BY <2>1, <3>1 DEF LeafFields
  <2>4. \A a : m = Bytearray(a) => m.name = "bytearray" /\ m.alignment = a /\ m.guarantee = 1
    BY DEF Bytearray, Plain
  <2>5. \A a : \A family \in {"posix", "windows"} : m = Malloc(family, a) =>
          m.name = family /\ m.alignment = a /\ m.guarantee = a
    BY DEF Malloc, Plain
  <2>6. m = NumpyHandlerLeaf => m.name = "numpy" /\ m.alignment = 1
    BY DEF NumpyHandlerLeaf, Plain
  <2>7. \A async, api : m = GpuRuntime(async, api) => m.name = "gpu" /\ m.alignment = 1
    BY DEF GpuRuntime, Plain
  <2>8. m = CupyAllocator => m.name = "cupy" /\ m.alignment = 1
    BY DEF CupyAllocator, Plain
  <2>9. \A serves : m = RmmLike(serves) => m.name = "rmm" /\ m.alignment = 1
    BY DEF RmmLike, Plain
  <2>10. \A guarantee : m = Recording(guarantee) => m.name = "recording"
    BY DEF Recording, Plain
  <2>. QED  BY <2>1, <2>2, <2>3, <2>4, <2>5, <2>6, <2>7, <2>8, <2>9, <2>10
            DEF Constructed, AcceptsAlignment
<1>. QED  BY <1>1, <1>2 DEF Sound

\* What the factory makes of one.
LEMMA SoundRealigned ==
  ASSUME NEW l, Sound(l), NEW a, Alignment(a)
  PROVE  LET r == Realigned(l, a) IN
         /\ Sound(r) /\ r.name = l.name
         /\ AcceptsAlignment(l) => r.alignment = a
         /\ a = l.alignment => r.guarantee = l.guarantee
<1> DEFINE r == Realigned(l, a)
<1>1. CASE l.name = "bytearray"
  <2>1. r = Bytearray(a)
    BY <1>1 DEF Realigned
  <2>2. r.name = "bytearray" /\ r.alignment = a /\ r.guarantee = 1
    BY <2>1 DEF Bytearray, Plain
  <2>3. Sound(r)
    BY <2>1, <2>2 DEF Sound, Constructed
  <2>. QED  BY <1>1, <2>2, <2>3, SoundKinds DEF AcceptsAlignment
<1>2. CASE l.name \in {"posix", "windows"}
  <2>1. r = Malloc(l.name, a)
    BY <1>2 DEF Realigned
  <2>2. r.name = l.name /\ r.alignment = a /\ r.guarantee = a
    BY <2>1 DEF Malloc, Plain
  <2>3. Sound(r)
    BY <1>2, <2>1, <2>2 DEF Sound, Constructed
  <2>. QED  BY <1>2, <2>2, <2>3, SoundKinds DEF AcceptsAlignment
<1>3. CASE ~AcceptsAlignment(l)
  BY <1>3 DEF AcceptsAlignment, Realigned
<1>. QED  BY <1>1, <1>2, <1>3 DEF AcceptsAlignment

\* Nor does it matter what was made of it before.
LEMMA RealignedAgain ==
  ASSUME NEW l, NEW a, NEW b
  PROVE  Realigned(Realigned(l, b), a) = Realigned(l, a)
<1>1. CASE l.name = "bytearray"
  <2>1. Realigned(l, b) = Bytearray(b) /\ Bytearray(b).name = "bytearray"
    BY <1>1 DEF Realigned, Bytearray, Plain
  <2>2. Realigned(Bytearray(b), a) = Bytearray(a) /\ Realigned(l, a) = Bytearray(a)
    BY <1>1, <2>1 DEF Realigned
  <2>. QED  BY <2>1, <2>2
<1>2. CASE l.name \in {"posix", "windows"}
  <2>1. Realigned(l, b) = Malloc(l.name, b) /\ Malloc(l.name, b).name = l.name
    BY <1>2 DEF Realigned, Malloc, Plain
  <2>2. Realigned(Malloc(l.name, b), a) = Malloc(l.name, a) /\ Realigned(l, a) = Malloc(l.name, a)
    BY <1>2, <2>1 DEF Realigned
  <2>. QED  BY <2>1, <2>2
<1>3. CASE l.name \notin {"bytearray", "posix", "windows"}
  <2>1. \A c : Realigned(l, c) = l
    BY <1>3 DEF Realigned
  <2>. QED  BY <2>1
<1>. QED  BY <1>1, <1>2, <1>3

LEMMA AfreshIsEmpty ==
  ASSUME NEW l PROVE Afresh(l).leaf = l /\ Afresh(l).held = {} /\ Afresh(l).tags = {}
BY DEF Afresh, Knowing

LEMMA Refreshes ==
  ASSUME SuiteDraws, NEW l \in Suspects, Sound(l),
         NEW a \in {l.alignment} \cup {Alignments[i] : i \in 1..Len(Alignments)}
  PROVE  /\ Alignment(a) /\ a \in Int /\ <<Fresh(a)>> \in Seq(Steps)
         /\ Realigned(l, a) \in Variants(l) /\ Sound(Realigned(l, a))
         /\ \A m \in Variants(l) : Leads(<<Fresh(a)>>, Afresh(m), Afresh(Realigned(l, a)))
<1> DEFINE r == Realigned(l, a)
<1>1. Alignment(a) /\ a \in Int
  <2>1. Alignment(l.alignment)
    <3>1. Alignment(1)
      BY DEF Alignment
    <3>. QED  BY <3>1, SoundKinds
  <2>2. \A i \in 1..Len(Alignments) : Alignment(Alignments[i])
    BY DEF SuiteDraws
  <2>3. Alignment(a)
    BY <2>1, <2>2
  <2>. QED  BY <2>3 DEF Alignment
<1>2. <<Fresh(a)>> \in Seq(Steps)
  BY <1>1, Typed, FewSteps
<1>3. r \in Variants(l) /\ Sound(r)
  BY <1>1, SoundRealigned DEF Variants
<1>4. ASSUME NEW m \in Variants(l) PROVE Leads(<<Fresh(a)>>, Afresh(m), Afresh(r))
  <2>1. Realigned(m, a) = r
    BY RealignedAgain DEF Variants
  <2>2. r \in Tried
    BY <1>3 DEF Tried
  <2> HIDE DEF r
  <2>3. Moves(Fresh(a), Afresh(m), Afresh(r))
    BY <1>3, <2>1, <2>2, AfreshIsEmpty, Freshens
  <2>. QED  BY <2>3, LeadsOne
<1>. QED  BY <1>1, <1>2, <1>3, <1>4

LEMMA FreshThen ==
  ASSUME SuiteDraws, NEW l \in Suspects, Sound(l),
         NEW a \in {l.alignment} \cup {Alignments[i] : i \in 1..Len(Alignments)},
         NEW P, Rounds(P, {Realigned(l, a)})
  PROVE  Rounds(<<Fresh(a)>> \o P, Variants(l))
<1> DEFINE F == <<Fresh(a)>>
           r == Realigned(l, a)
<1>1. /\ F \in Seq(Steps) /\ r \in Variants(l)
      /\ \A m \in Variants(l) : Leads(F, Afresh(m), Afresh(r))
  BY Refreshes
<1>2. P \in Seq(Steps) /\ Leads(P, Afresh(r), Afresh(r))
  BY DEF Rounds
<1> HIDE DEF F, r
<1>3. F \o P \in Seq(Steps)
  BY <1>1, <1>2, ConcatProperties, Zenon
<1>4. ASSUME NEW m \in Variants(l) PROVE Leads(F \o P, Afresh(m), Afresh(r))
  BY <1>1, <1>2, LeadsBoth, Zenon
<1>5. Rounds(F \o P, Variants(l))
  BY <1>1, <1>3, <1>4, Zenon DEF Rounds
<1>. QED  BY <1>5 DEF F

LEMMA AnewRounds ==
  ASSUME SuiteDraws, NEW l \in Suspects, Sound(l),
         NEW P, Back(P, Realigned(l, l.alignment))
  PROVE  Rounds(Anew(l, P), Variants(l))
<1>1. Rounds(P, {Realigned(l, l.alignment)})
  BY BackRounds
<1>2. l.alignment \in {l.alignment} \cup {Alignments[i] : i \in 1..Len(Alignments)}
  OBVIOUS
<1>3. Rounds(<<Fresh(l.alignment)>> \o P, Variants(l))
  BY <1>1, <1>2, FreshThen, Zenon
<1>. QED  BY <1>3, Zenon DEF Anew

LEMMA SweepRounds ==
  ASSUME SuiteDraws, NEW l \in Suspects, Sound(l) PROVE Rounds(Sweep(l), Variants(l))
<1>1. CASE ~AcceptsAlignment(l)
  BY <1>1, RoundsNowhere DEF Sweep
<1>2. CASE AcceptsAlignment(l)
  <2> DEFINE n == Len(Alignments)
             k == Len(SweepSizes)
             inner(a) == [s \in 1..k |-> CheckRequestedAlignment(SweepSizes[s], Alignments[a])]
             F == [a \in 1..n |-> <<Fresh(Alignments[a])>> \o FlattenSeq(inner(a))]
  <2>1. n \in Nat /\ k \in Nat /\ \A s \in 1..k : SweepSizes[s] \in SuiteSizes /\ SweepSizes[s] \in Int
    BY DEF SuiteDraws, SuiteSizes
  <2>2. ASSUME NEW a \in 1..n
        PROVE  /\ Rounds(FlattenSeq(inner(a)), {Realigned(l, Alignments[a])})
               /\ F[a] = <<Fresh(Alignments[a])>> \o FlattenSeq(inner(a))
               /\ Rounds(F[a], Variants(l))
    <3> DEFINE r == Realigned(l, Alignments[a])
    <3>1. Alignments[a] \in {l.alignment} \cup {Alignments[i] : i \in 1..Len(Alignments)}
      OBVIOUS
    <3>2. Alignment(Alignments[a])
      BY <3>1, Refreshes
    <3>3. r.alignment = Alignments[a] /\ r.alignment \in Int
      BY <1>2, <3>2, SoundRealigned DEF Alignment
    <3> DEFINE G == inner(a)
    <3>4. DOMAIN G = 1..k /\ \A s \in 1..k : G[s] = CheckRequestedAlignment(SweepSizes[s], r.alignment)
      BY <3>3
    <3>5. G = [s \in 1..k |-> G[s]]
      OBVIOUS
    <3>6. F[a] = <<Fresh(Alignments[a])>> \o FlattenSeq(G)
      OBVIOUS
    <3> HIDE DEF G, r, F
    <3>7. \A s \in 1..k : Rounds(G[s], {r})
      BY <2>1, <3>3, <3>4, RequestedIsBack, BackRounds
    <3>8. G \in [1..k -> {G[s] : s \in 1..k}]
      BY <3>5
    <3>9. Rounds(FlattenSeq(G), {r})
      BY <2>1, <3>7, <3>8, FlatRounds, Zenon
    <3>10. Rounds(<<Fresh(Alignments[a])>> \o FlattenSeq(G), Variants(l))
      BY <3>1, <3>9, FreshThen, Zenon DEF r
    <3>. QED  BY <3>6, <3>9, <3>10, Zenon DEF G, r
  <2>3. F = [a \in 1..n |-> F[a]]
    OBVIOUS
  <2>4. Sweep(l) = FlattenSeq(F)
    BY <1>2, Zenon DEF Sweep
  <2> HIDE DEF F, n
  <2>5. F \in [1..n -> {F[a] : a \in 1..n}]
    BY <2>3
  <2>6. Rounds(FlattenSeq(F), Variants(l))
    BY <2>1, <2>2, <2>5, FlatRounds, Zenon
  <2>. QED  BY <2>4, <2>6, Zenon
<1>. QED  BY <1>1, <1>2

\* All that is between the fresh resource and the end of the suite, or of one test.
ComesBack(P, l) == P \in Seq(Steps) /\ \E z : Leads(P, Afresh(l), z) /\ z.held = {}

LEMMA SuiteComesBack ==
  ASSUME SuiteDraws, NEW l \in Suspects, Sound(l)
  PROVE  ComesBack(MRConformance(l), l) /\ \A P \in Tests(l) : ComesBack(P, l)
<1> DEFINE M == Variants(l)
           own == Realigned(l, l.alignment)
<1>1. l \in M
  BY DEF Variants
<1>2. ASSUME NEW P, Rounds(P, M) PROVE ComesBack(P, l)
  <2>1. P \in Seq(Steps) /\ \E r \in M : Leads(P, Afresh(l), Afresh(r))
    BY <1>1, <1>2 DEF Rounds
  <2>. QED  BY <2>1, AfreshIsEmpty DEF ComesBack
<1>3. ASSUME NEW P, Back(P, l) PROVE ComesBack(P, l)
  BY <1>3, AfreshIsEmpty DEF Back, ComesBack
<1>4. own.guarantee = l.guarantee /\ l.guarantee \in Int
  <2>1. Alignment(l.alignment) /\ l.guarantee \in Int
    <3>1. l.alignment \in {l.alignment} \cup {Alignments[i] : i \in 1..Len(Alignments)}
      OBVIOUS
    <3>2. Wellmade(l)
      BY SoundKinds
    <3>3. Alignment(l.alignment)
      BY <3>1, Refreshes, Zenon
    <3>. QED  BY <3>2, <3>3 DEF Wellmade
  <2>. QED  BY <2>1, SoundRealigned
<1> HIDE DEF own, M
<1>5. /\ Back(CheckGuaranteedAlignment(l), own) /\ Back(CheckGuaranteedAlignment(l), l)
      /\ Back(CheckBookkeeping, own) /\ Back(CheckBookkeeping, l)
  BY <1>4, GuaranteedIsBack, BookkeepingIsBack
<1>6. \A r : /\ Back(CheckWriteThenRead, r) /\ Back(CheckNoAliasing, r) /\ Back(CheckDoubleFree, r)
             /\ Back(CheckForeignFree, r) /\ Back(CheckZeroByte, r) /\ Back(CheckNegativeSize, r)
  BY WriteThenReadIsBack, NoAliasingIsBack, DoubleFreeIsBack, ForeignFreeIsBack, ZeroByteIsBack,
     NegativeSizeIsBack
<1>7. /\ Rounds(Anew(l, CheckWriteThenRead), M) /\ Rounds(Anew(l, CheckNoAliasing), M)
      /\ Rounds(Anew(l, CheckGuaranteedAlignment(l)), M) /\ Rounds(Anew(l, CheckBookkeeping), M)
      /\ Rounds(Anew(l, CheckDoubleFree), M) /\ Rounds(Anew(l, CheckForeignFree), M)
      /\ Rounds(Anew(l, CheckZeroByte), M) /\ Rounds(Anew(l, CheckNegativeSize), M)
  BY <1>5, <1>6, AnewRounds DEF own, M
<1>8. Rounds(Sweep(l), M)
  BY SweepRounds DEF M
<1>9. Rounds(MRConformance(l), M)
  <2> DEFINE p1 == Anew(l, CheckWriteThenRead)
             p2 == Anew(l, CheckNoAliasing)
             p3 == Anew(l, CheckGuaranteedAlignment(l))
             p4 == Sweep(l)
             p5 == Anew(l, CheckBookkeeping)
             p6 == Anew(l, CheckDoubleFree)
             p7 == Anew(l, CheckForeignFree)
             p8 == Anew(l, CheckZeroByte)
             p9 == Anew(l, CheckNegativeSize)
  <2>1. MRConformance(l) = (((((((p1 \o p2) \o p3) \o p4) \o p5) \o p6) \o p7) \o p8) \o p9
    BY Zenon DEF MRConformance
  <2> HIDE DEF p1, p2, p3, p4, p5, p6, p7, p8, p9
  <2>2. Rounds(((p1 \o p2) \o p3) \o p4, M)
    BY <1>7, <1>8, RoundsBoth, Zenon DEF p1, p2, p3, p4
  <2>3. Rounds(((((p1 \o p2) \o p3) \o p4) \o p5) \o p6, M)
    BY <1>7, <2>2, RoundsBoth, Zenon DEF p5, p6
  <2>4. Rounds((((((((p1 \o p2) \o p3) \o p4) \o p5) \o p6) \o p7) \o p8) \o p9, M)
    BY <1>7, <2>3, RoundsBoth, Zenon DEF p7, p8, p9
  <2>. QED  BY <2>1, <2>4, Zenon
<1>10. ASSUME NEW P \in Tests(l) PROVE ComesBack(P, l)
  <2>1. CASE P \in { CheckWriteThenRead, CheckNoAliasing, CheckGuaranteedAlignment(l),
                     CheckBookkeeping, CheckDoubleFree, CheckForeignFree, CheckZeroByte,
                     CheckNegativeSize }
    BY <1>3, <1>5, <1>6, <2>1
  <2>2. ASSUME NEW a \in 1..Len(Alignments), NEW s \in 1..Len(SweepSizes), AcceptsAlignment(l),
               P = <<Fresh(Alignments[a])>> \o CheckRequestedAlignment(SweepSizes[s], Alignments[a])
        PROVE  ComesBack(P, l)
    <3> DEFINE r == Realigned(l, Alignments[a])
               C == CheckRequestedAlignment(SweepSizes[s], Alignments[a])
    <3>1. Alignments[a] \in {l.alignment} \cup {Alignments[i] : i \in 1..Len(Alignments)}
      OBVIOUS
    <3>2. Alignment(Alignments[a])
      BY <3>1, Refreshes
    <3>3. r.alignment = Alignments[a] /\ r.alignment \in Int
      BY <2>2, <3>2, SoundRealigned DEF Alignment
    <3>4. SweepSizes[s] \in SuiteSizes /\ SweepSizes[s] \in Int
      BY SMTT(30) DEF SuiteDraws, SuiteSizes
    <3>5. C = CheckRequestedAlignment(SweepSizes[s], r.alignment)
      BY <3>3
    <3> HIDE DEF r, C
    <3>6. Rounds(C, {r})
      BY <3>3, <3>4, <3>5, RequestedIsBack, BackRounds
    <3>7. Rounds(<<Fresh(Alignments[a])>> \o C, M)
      BY <3>1, <3>6, FreshThen, Zenon DEF r, M
    <3>. QED  BY <1>2, <2>2, <3>7, Zenon DEF C
  <2>3. \/ P \in { CheckWriteThenRead, CheckNoAliasing, CheckGuaranteedAlignment(l),
                  CheckBookkeeping, CheckDoubleFree, CheckForeignFree, CheckZeroByte,
                  CheckNegativeSize }
        \/ /\ AcceptsAlignment(l)
           /\ \E a \in 1..Len(Alignments), s \in 1..Len(SweepSizes) :
                P = <<Fresh(Alignments[a])>> \o
                      CheckRequestedAlignment(SweepSizes[s], Alignments[a])
    <3>1. P \in Tests(l)
      OBVIOUS
    <3> DEFINE few == { CheckWriteThenRead, CheckNoAliasing, CheckGuaranteedAlignment(l),
                         CheckBookkeeping, CheckDoubleFree, CheckForeignFree, CheckZeroByte,
                         CheckNegativeSize }
               of(a, s) == <<Fresh(Alignments[a])>> \o
                             CheckRequestedAlignment(SweepSizes[s], Alignments[a])
               many == {of(a, s) : a \in 1..Len(Alignments), s \in 1..Len(SweepSizes)}
    <3>2. Tests(l) = few \cup (IF ~AcceptsAlignment(l) THEN {} ELSE many)
      BY DEF Tests
    <3> HIDE DEF few, of
    <3>3. P \in many => \E a \in 1..Len(Alignments), s \in 1..Len(SweepSizes) : P = of(a, s)
      OBVIOUS
    <3> HIDE DEF many
    <3>4. P \in few \/ (AcceptsAlignment(l) /\ P \in many)
      BY <3>1, <3>2
    <3>. QED  BY <3>3, <3>4, Zenon DEF few, of
  <2>. QED  BY <2>1, <2>2, <2>3, Zenon
<1>. QED  BY <1>2, <1>9, <1>10
-------------------------------------------------------------------------------
(***************************************************************************)
(* What a check knows, and what is so                                      *)
(***************************************************************************)
ContentsIn(ct, base) == IF base \in DOMAIN ct THEN ct[base] ELSE "junk"

\* The slots that hold an allocation have all that there are, each of the size that was
\* asked for, and what was written into one is still in its block.
Stocked(s, at, l, lv, ct) ==
  /\ s.leaf = l
  /\ \A p \in s.held : p[1] \in DOMAIN at /\ at[p[1]] \in DOMAIN lv /\ lv[at[p[1]]].n = p[2]
  /\ \A p, q \in s.held : at[p[1]] = at[q[1]] => p = q
  /\ \A x \in DOMAIN lv : \E p \in s.held : at[p[1]] = x
  /\ \A t \in s.tags : t[1] \in Slots(s.held) /\ ContentsIn(ct, lv[at[t[1]]].base) = t[2]
Stock(s, at) == Stocked(s, at, leaf, live, contents)

LEMMA KnowingIs ==
  ASSUME NEW l, NEW held, NEW tags
  PROVE  LET s == Knowing(l, held, tags) IN s.leaf = l /\ s.held = held /\ s.tags = tags
BY DEF Knowing

LEMMA SlotHeld ==
  ASSUME NEW s, NEW at, NEW l, NEW lv, NEW ct, Stocked(s, at, l, lv, ct),
         NEW k \in Slots(s.held)
  PROVE  k \in DOMAIN at /\ at[k] \in DOMAIN lv /\ \A p \in s.held : at[p[1]] = at[k] => p[1] = k
<1>1. PICK p \in s.held : k = p[1]
  BY DEF Slots
<1>2. /\ p[1] \in DOMAIN at /\ at[p[1]] \in DOMAIN lv
      /\ \A q \in s.held : at[q[1]] = at[p[1]] => q = p
  BY DEF Stocked
<1>. QED  BY <1>1, <1>2

\* The block of a slot that was written into.
LEMMA TagHeld ==
  ASSUME NEW s, NEW at, NEW l, NEW lv, NEW ct, Stocked(s, at, l, lv, ct), NEW t \in s.tags
  PROVE  /\ \E p \in s.held : t[1] = p[1]
         /\ t[1] \in DOMAIN at /\ at[t[1]] \in DOMAIN lv
         /\ ContentsIn(ct, lv[at[t[1]]].base) = t[2]
<1>1. t[1] \in Slots(s.held) /\ ContentsIn(ct, lv[at[t[1]]].base) = t[2]
  BY DEF Stocked
<1>2. \E p \in s.held : t[1] = p[1]
  BY <1>1 DEF Slots
<1>. QED  BY <1>1, <1>2, SlotHeld

LEMMA StockStays ==
  ASSUME NEW s, NEW at, NEW l, NEW lv, NEW ct, Stocked(s, at, l, lv, ct),
         NEW lv2, DOMAIN lv2 = DOMAIN lv, \A x \in DOMAIN lv : lv2[x] = lv[x]
  PROVE  Stocked(s, at, l, lv2, ct)
<1>1. \A t \in s.tags : lv2[at[t[1]]] = lv[at[t[1]]]
  BY TagHeld
<1>. QED  BY <1>1 DEF Stocked

\* A table with one more entry, or with another one there.
Extends(g, f, x) == DOMAIN g = DOMAIN f \cup {x} /\ \A y \in DOMAIN f : y # x => g[y] = f[y]

LEMMA StockTakes ==
  ASSUME NEW s, NEW at, NEW l, NEW lv, NEW ct, Stocked(s, at, l, lv, ct),
         NEW k, k \notin Slots(s.held), NEW n, NEW r, r = Knowing(s.leaf, s.held \cup {<<k, n>>}, s.tags),
         NEW x, x \notin DOMAIN lv, NEW lv2, Extends(lv2, lv, x), lv2[x].n = n,
         NEW at2, Extends(at2, at, k), at2[k] = x
  PROVE  Stocked(r, at2, l, lv2, ct)
<1> USE DEF Extends
<1> DEFINE e == <<k, n>>
<1>1. r.leaf = s.leaf /\ r.held = s.held \cup {e} /\ r.tags = s.tags /\ e[1] = k /\ e[2] = n
  BY KnowingIs
<1> HIDE DEF e
<1>2. ASSUME NEW p \in s.held
      PROVE  /\ p[1] # k /\ p[1] \in DOMAIN at /\ at2[p[1]] = at[p[1]]
             /\ at[p[1]] \in DOMAIN lv /\ at[p[1]] # x /\ lv2[at[p[1]]].n = p[2]
  <2>1. p[1] # k
    BY DEF Slots
  <2>2. p[1] \in DOMAIN at /\ at[p[1]] \in DOMAIN lv /\ lv[at[p[1]]].n = p[2]
    BY DEF Stocked
  <2>. QED  BY <2>1, <2>2
<1>3. \A p \in r.held : p \in s.held \/ p = e
  BY <1>1
<1>4. \A p \in r.held : p[1] \in DOMAIN at2 /\ at2[p[1]] \in DOMAIN lv2 /\ lv2[at2[p[1]]].n = p[2]
  BY <1>1, <1>2, <1>3
<1>5. \A p, q \in r.held : at2[p[1]] = at2[q[1]] => p = q
  <2>1. \A p, q \in s.held : at[p[1]] = at[q[1]] => p = q
    BY DEF Stocked
  <2>2. \A p, q \in s.held : at2[p[1]] = at2[q[1]] => p = q
    BY <1>2, <2>1
  <2>3. at2[e[1]] = x /\ \A p \in s.held : at2[p[1]] # x
    BY <1>1, <1>2
  <2>. QED  BY <1>3, <2>2, <2>3, ZenonT(40)
<1>6. \A y \in DOMAIN lv2 : \E p \in r.held : at2[p[1]] = y
  <2>1. \A y \in DOMAIN lv : \E p \in s.held : at[p[1]] = y
    BY DEF Stocked
  <2>2. \A y \in DOMAIN lv : \E p \in r.held : at2[p[1]] = y
    <3>1. \A p \in s.held : p \in r.held /\ at2[p[1]] = at[p[1]]
      BY <1>1, <1>2
    <3>. QED  BY <2>1, <3>1, Zenon
  <2>3. e \in r.held /\ at2[e[1]] = x
    BY <1>1
  <2>. QED  BY <2>2, <2>3
<1>7. ASSUME NEW t \in s.tags
      PROVE  t[1] \in Slots(r.held) /\ ContentsIn(ct, lv2[at2[t[1]]].base) = t[2]
  <2>1. PICK p \in s.held : t[1] = p[1]
    BY TagHeld
  <2>2. t[1] \in Slots(r.held)
    BY <1>1, <2>1 DEF Slots
  <2>3. lv2[at2[t[1]]] = lv[at[t[1]]]
    BY <1>2, <2>1
  <2>. QED  BY <2>2, <2>3, TagHeld
<1>8. r.leaf = l
  BY <1>1 DEF Stocked
<1>. QED  BY <1>1, <1>4, <1>5, <1>6, <1>7, <1>8, Zenon DEF Stocked

LEMMA StockGives ==
  ASSUME NEW s, NEW at, NEW l, NEW lv, NEW ct, Stocked(s, at, l, lv, ct),
         NEW k, NEW n, <<k, n>> \in s.held,
         NEW r, r = Knowing(s.leaf, s.held \ {<<k, n>>}, {t \in s.tags : t[1] # k}),
         NEW lv2, DOMAIN lv2 = DOMAIN lv \ {at[k]}, \A y \in DOMAIN lv2 : lv2[y] = lv[y]
  PROVE  Stocked(r, at, l, lv2, ct)
<1> DEFINE e == <<k, n>>
<1>1. r.leaf = s.leaf /\ r.held = s.held \ {e} /\ r.tags = {t \in s.tags : t[1] # k} /\ e[1] = k
      /\ e \in s.held
  BY KnowingIs
<1> HIDE DEF e
<1>2. \A p \in s.held : at[p[1]] = at[k] => p = e
  BY <1>1 DEF Stocked
<1>3. ASSUME NEW p \in r.held
      PROVE  p[1] \in DOMAIN at /\ at[p[1]] \in DOMAIN lv2 /\ lv2[at[p[1]]].n = p[2]
  <2>1. p \in s.held /\ p # e
    BY <1>1
  <2>2. p[1] \in DOMAIN at /\ at[p[1]] \in DOMAIN lv /\ lv[at[p[1]]].n = p[2]
    BY <2>1 DEF Stocked
  <2>. QED  BY <1>2, <2>1, <2>2
<1>4. \A p, q \in r.held : at[p[1]] = at[q[1]] => p = q
  <2>1. \A p, q \in s.held : at[p[1]] = at[q[1]] => p = q
    BY DEF Stocked
  <2>. QED  BY <1>1, <2>1
<1>5. ASSUME NEW y \in DOMAIN lv2 PROVE \E p \in r.held : at[p[1]] = y
  <2>1. PICK p \in s.held : at[p[1]] = y
    BY DEF Stocked
  <2>2. y # at[k]
    OBVIOUS
  <2>3. p # e
    BY <1>1, <2>1, <2>2
  <2>. QED  BY <1>1, <2>1, <2>3
<1>6. ASSUME NEW t \in r.tags
      PROVE  t[1] \in Slots(r.held) /\ ContentsIn(ct, lv2[at[t[1]]].base) = t[2]
  <2>1. t \in s.tags /\ t[1] # k
    BY <1>1
  <2>2. PICK p \in s.held : t[1] = p[1]
    BY <2>1, TagHeld
  <2>3. p # e
    BY <1>1, <2>1, <2>2
  <2>4. p \in r.held
    BY <1>1, <2>3
  <2>5. t[1] \in Slots(r.held)
    BY <2>2, <2>4 DEF Slots
  <2>6. lv2[at[t[1]]] = lv[at[t[1]]]
    BY <1>3, <2>2, <2>4
  <2>. QED  BY <2>1, <2>5, <2>6, TagHeld
<1>7. r.leaf = l
  BY <1>1 DEF Stocked
<1>. QED  BY <1>3, <1>4, <1>5, <1>6, <1>7, Zenon DEF Stocked

LEMMA StockWrites ==
  ASSUME NEW s, NEW at, NEW l, NEW lv, NEW ct, Stocked(s, at, l, lv, ct),
         NEW k \in Slots(s.held), NEW tag,
         NEW r, r = Knowing(s.leaf, s.held, {t \in s.tags : t[1] # k} \cup {<<k, tag>>}),
         \A x, y \in DOMAIN lv : lv[x].base = lv[y].base => x = y,
         NEW ct2, ContentsIn(ct2, lv[at[k]].base) = tag,
         \A b : b # lv[at[k]].base => ContentsIn(ct2, b) = ContentsIn(ct, b)
  PROVE  Stocked(r, at, l, lv, ct2)
<1> DEFINE e == <<k, tag>>
<1>1. /\ r.leaf = s.leaf /\ r.held = s.held /\ r.tags = {t \in s.tags : t[1] # k} \cup {e}
      /\ e[1] = k /\ e[2] = tag
  BY KnowingIs
<1> HIDE DEF e
<1>2. at[k] \in DOMAIN lv /\ \A p \in s.held : at[p[1]] = at[k] => p[1] = k
  BY SlotHeld
<1>3. ASSUME NEW t \in r.tags
      PROVE  t[1] \in Slots(r.held) /\ ContentsIn(ct2, lv[at[t[1]]].base) = t[2]
  <2>1. CASE t = e
    BY <1>1, <2>1
  <2>2. CASE t \in s.tags /\ t[1] # k
    <3>1. PICK p \in s.held : t[1] = p[1]
      BY <2>2, TagHeld
    <3>2. /\ t[1] \in Slots(s.held) /\ at[t[1]] \in DOMAIN lv
          /\ ContentsIn(ct, lv[at[t[1]]].base) = t[2]
      <4>1. t[1] \in Slots(s.held)
        BY <3>1 DEF Slots
      <4>. QED  BY <2>2, <4>1, TagHeld
    <3>3. at[t[1]] # at[k]
      BY <1>2, <2>2, <3>1
    <3>4. lv[at[t[1]]].base # lv[at[k]].base
      BY <1>2, <3>2, <3>3
    <3>. QED  BY <1>1, <3>2, <3>4
  <2>. QED  BY <1>1, <2>1, <2>2
<1>4. /\ r.leaf = l
      /\ \A p \in r.held : p[1] \in DOMAIN at /\ at[p[1]] \in DOMAIN lv /\ lv[at[p[1]]].n = p[2]
      /\ \A p, q \in r.held : at[p[1]] = at[q[1]] => p = q
      /\ \A x \in DOMAIN lv : \E p \in r.held : at[p[1]] = x
  BY <1>1 DEF Stocked
<1>. QED  BY <1>3, <1>4, Zenon DEF Stocked

LEMMA StockAfresh ==
  ASSUME NEW at, NEW l, NEW lv, NEW ct, DOMAIN lv = {} PROVE Stocked(Afresh(l), at, l, lv, ct)
BY AfreshIsEmpty DEF Stocked

LEMMA StockEmpty ==
  ASSUME NEW s, NEW at, NEW l, NEW lv, NEW ct, Stocked(s, at, l, lv, ct), s.held = {}
  PROVE  DOMAIN lv = {}
BY DEF Stocked

LEMMA StockCounts ==
  ASSUME NEW s, NEW at, NEW l, NEW lv, NEW ct, Stocked(s, at, l, lv, ct), IsFiniteSet(s.held)
  PROVE  Cardinality(DOMAIN lv) = Cardinality(s.held)
<1> DEFINE f == [p \in s.held |-> at[p[1]]]
<1>1. f \in Bijection(s.held, DOMAIN lv)
  BY DEF Stocked, Bijection, Injection, Surjection, IsInjective
<1>2. ExistsBijection(s.held, DOMAIN lv)
  BY <1>1 DEF ExistsBijection
<1>. QED  BY <1>2, FS_Bijection
-------------------------------------------------------------------------------
(***************************************************************************)
(* The suite on a resource without a fault                                 *)
(***************************************************************************)
\* A third party's resource that works: a pointer is its block, and on its boundary.
ForeignKept ==
  /\ \A x \in DOMAIN live : x \in Bases /\ live[x].base = x /\ x % 256 = 0
  /\ DOMAIN blocks = DOMAIN live
  /\ ~misfreed
Kept == IF Foreign THEN ForeignKept ELSE Ownership(Asked, Bases)

Others == \A t \in Callers \ {Tester} : call[t].pc = "idle"

\* The call is the one that the instruction makes.
Matches ==
  LET c == call[Tester] IN
  IF Now.op = "take" THEN c.op = "allocate" /\ c.n = Now.n
  ELSE c.op = "deallocate" /\ c.ptr = Slot(Now.slot) + Now.off /\ c.n = Now.n

\* What the answer may be: what the instruction wants, or an error that explains the end.
Replied(s, r) ==
  LET c == call[Tester] IN
  \/ /\ c.ok /\ ~Now.misuse /\ Now.op = "take"
     /\ Stock(r, With(slots, Now.slot, c.ptr)) /\ stranded = {}
  \/ c.ok /\ ~Now.misuse /\ Now.op = "give" /\ Stock(r, slots) /\ stranded = {}
  \/ ~c.ok /\ c.error = "ValueError" /\ Now.misuse /\ r = s /\ Stock(s, slots) /\ stranded = {}
  \/ ~c.ok /\ c.error \in {"MemoryError", "unserved"}
  \/ ~c.ok /\ c.error = "error" /\ leaf.raises # {}

\* In the midst of an instruction that leads from s to r.
Midway(s, r) ==
  LET c == call[Tester] IN
  /\ Now.op \in {"take", "give"}
  /\ \/ c.pc = "called" /\ Matches /\ Stock(s, slots) /\ stranded = {}
     \/ /\ c.pc = "obtained" /\ Now.op = "take" /\ ~Now.misuse /\ c.n = Now.n
        /\ Stock(s, slots) /\ stranded = {}
     \/ c.pc = "removed" /\ Now.op = "give" /\ ~Now.misuse /\ Stock(r, slots) /\ stranded = {}
     \/ c.pc = "returned" /\ Replied(s, r)

Between(s) == call[Tester].pc = "idle" /\ Stock(s, slots) /\ stranded = {}

Running ==
  /\ Others
  /\ program \in Seq(Steps)
  /\ \E s, z :
       /\ z.held = {}
       /\ \/ Leads(program, s, z) /\ Between(s)
          \/ /\ program # <<>>
             /\ \E r : Moves(Now, s, r) /\ Leads(Tail(program), r, z) /\ Midway(s, r)

\* Inductive: what is left of the program leads from what is so to a resource that is empty.
SoundRun ==
  /\ Sound(leaf) /\ leaf \in Tried
  /\ DOMAIN call = Callers
  /\ Kept
  /\ verdict \in {"running", "passed", "raised", "exhausted"}
  /\ verdict = "running" => Running
  /\ verdict = "passed" => DOMAIN live = {} /\ DOMAIN blocks = {}
  /\ verdict = "raised" => leaf.raises # {}

LEMMA SoundUnlogged == ASSUME NEW l, Sound(l) PROVE l.logged = FALSE
<1>1. l = ThirdParty("none") => l.logged = FALSE
  BY DEF ThirdParty, Plain
<1>2. ASSUME NEW m, Constructed(m), l = m \/ l = [m EXCEPT !.byDefault = TRUE]
      PROVE  l.logged = FALSE
  <2>1. \A a : m = Bytearray(a) => "logged" \in DOMAIN m /\ m.logged = FALSE
    BY DEF Bytearray, Plain
  <2>2. \A a, family : m = Malloc(family, a) => "logged" \in DOMAIN m /\ m.logged = FALSE
    BY DEF Malloc, Plain
  <2>3. m = NumpyHandlerLeaf => "logged" \in DOMAIN m /\ m.logged = FALSE
    BY DEF NumpyHandlerLeaf, Plain
  <2>4. \A async, api : m = GpuRuntime(async, api) => "logged" \in DOMAIN m /\ m.logged = FALSE
    BY DEF GpuRuntime, Plain
  <2>5. m = CupyAllocator => "logged" \in DOMAIN m /\ m.logged = FALSE
    BY DEF CupyAllocator, Plain
  <2>6. \A serves : m = RmmLike(serves) => "logged" \in DOMAIN m /\ m.logged = FALSE
    BY DEF RmmLike, Plain
  <2>7. \A guarantee : m = Recording(guarantee) => "logged" \in DOMAIN m /\ m.logged = FALSE
    BY DEF Recording, Plain
  <2>8. "logged" \in DOMAIN m /\ m.logged = FALSE
    BY <1>2, <2>1, <2>2, <2>3, <2>4, <2>5, <2>6, <2>7, Zenon DEF Constructed
  <2>. QED  BY <1>2, <2>8
<1>. QED  BY <1>1, <1>2 DEF Sound

LEMMA ForeignWorks ==
  ASSUME NEW l, Sound(l), l.name \notin Own
  PROVE  l = ThirdParty("none") /\ l.name = "none" /\ l.alignment = 1 /\ l.guarantee = 256
<1>1. ASSUME NEW m, Constructed(m), l = m \/ l = [m EXCEPT !.byDefault = TRUE] PROVE FALSE
  <2>1. Offered(l)
    BY <1>1 DEF Offered
  <2>. QED  BY <2>1, OfferedIsOwn
<1>2. l = ThirdParty("none")
  BY <1>1 DEF Sound
<1>. QED  BY <1>2 DEF ThirdParty, Plain

LEMMA SuiteSizesAre ==
  ASSUME SuiteDraws PROVE SuiteSizes \subseteq Nat /\ Asked \subseteq Int
<1>1. /\ \A i \in 1..Len(GuaranteeSizes) : GuaranteeSizes[i] \in Nat
      /\ \A i \in 1..Len(SweepSizes) : SweepSizes[i] \in Nat
      /\ \A i \in 1..Len(BatchSizes) : BatchSizes[i] \in Nat
  BY DEF SuiteDraws
<1>2. SuiteSizes \subseteq Nat
  BY <1>1 DEF SuiteSizes
<1>. QED  BY <1>2 DEF Asked

LEMMA SoundFacts ==
  ASSUME SuiteSetting, SoundRun
  PROVE  /\ Wellmade(leaf) /\ ~Records /\ leaf.logged = FALSE
         /\ KeepsApart(leaf, Asked, Bases) /\ Asked \subseteq Int /\ Bases \subseteq Nat
         /\ Tester \in Callers /\ SuiteSizes \subseteq Nat
<1>1. Wellmade(leaf) /\ ~Records /\ leaf.logged = FALSE
  BY SoundKinds, SoundUnlogged DEF SoundRun, Records
<1>2. KeepsApart(leaf, SuiteSizes, Bases)
  BY DEF SoundRun, SuiteSetting, SuiteBlocksApart
<1>3. KeepsApart(leaf, Asked, Bases)
  BY <1>2 DEF KeepsApart, Asked
<1>4. SuiteSizes \subseteq Nat /\ Asked \subseteq Int
  BY SuiteSizesAre DEF SuiteSetting
<1>5. Bases \subseteq Nat /\ Tester \in Callers
  BY LeafAssumption, SuiteAssumption
<1>. QED  BY <1>1, <1>3, <1>4, <1>5, Zenon

\* An instruction moves in its own way.
LEMMA MovesBy ==
  ASSUME NEW i, NEW s, NEW r, Moves(i, s, r)
  PROVE  /\ i.op = "take" => TakeMoves(i, s, r)
         /\ i.op = "give" => GiveMoves(i, s, r)
         /\ i.op = "write" => WriteMoves(i, s, r)
         /\ i.op = "fresh" => FreshMoves(i, s, r)
         /\ i.op \in {"read", "aligned", "nonnull", "distinct", "count"} => CheckMoves(i, s, r)
BY DEF Moves, TakeMoves, GiveMoves, WriteMoves, CheckMoves, FreshMoves

\* Allocations of a resource without a fault lie where they should, each in its block.
LEMMA KeptFacts ==
  ASSUME SuiteSetting, SoundRun
  PROVE  /\ \A x \in DOMAIN live : x \in Nat \ {0} /\ x % leaf.alignment = 0 /\ x % leaf.guarantee = 0
         /\ \A x, y \in DOMAIN live : live[x].base = live[y].base => x = y
         /\ ~misfreed
<1>1. CASE Foreign
  <2>1. ForeignKept /\ leaf.alignment = 1 /\ leaf.guarantee = 256
    BY <1>1, ForeignWorks DEF SoundRun, Kept, Foreign
  <2>2. \A x \in Bases : x \in Nat \ {0} /\ x % 1 = 0
    BY LeafAssumption
  <2>. QED  BY <2>1, <2>2 DEF ForeignKept
<1>2. CASE ~Foreign
  <2>1. Ownership(Asked, Bases) /\ Wellmade(leaf)
    BY <1>2, SoundFacts DEF SoundRun, Kept
  <2>2. ASSUME NEW x \in DOMAIN live
        PROVE  x \in Nat \ {0} /\ x % leaf.alignment = 0 /\ x % leaf.guarantee = 0
    <3>1. x = Placed(leaf, live[x].base) /\ live[x].base \in DOMAIN blocks
      BY <2>1 DEF Ownership, EntriesInv
    <3>2. live[x].base \in Nat \ {0} /\ live[x].base % leaf.boundary = 0
      BY <2>1, <3>1, LeafAssumption DEF Ownership, LibraryInv
    <3>3. Placed(leaf, live[x].base) \in Nat /\ live[x].base <= Placed(leaf, live[x].base)
      <4>1. 0 \in Int
        OBVIOUS
      <4>. QED  BY <2>1, <3>2, <4>1, InItsBlock
    <3>4. x \in Nat \ {0}
      BY <3>1, <3>2, <3>3
    <3>. QED  BY <2>1, <3>1, <3>2, <3>4, OnItsAlignment
  <2>3. \A x, y \in DOMAIN live : live[x].base = live[y].base => x = y
    BY <2>1 DEF Ownership, EntriesInv
  <2>4. ~misfreed
    BY <2>1 DEF Ownership, LibraryInv
  <2>. QED  BY <2>2, <2>3, <2>4
<1>. QED  BY <1>1, <1>2

\* When nobody has anything, the library has everything.
LEMMA NothingLeft ==
  ASSUME SoundRun, DOMAIN live = {}, stranded = {}, Others, call[Tester].pc = "idle"
  PROVE  DOMAIN blocks = {}
<1>1. CASE Foreign
  BY <1>1 DEF SoundRun, Kept, ForeignKept
<1>2. CASE ~Foreign
  <2>1. Held = {} /\ Lost = {}
    BY DEF Others, Held, Lost
  <2>2. AllOwned
    BY <1>2 DEF SoundRun, Kept, Ownership
  <2>. QED  BY <2>1, <2>2 DEF AllOwned
<1>. QED  BY <1>1, <1>2

LEMMA LeafUntouched ==
  ASSUME NEW t, NEW bases,
         \/ \E n : Allocate(t, n)
         \/ \E ptr, n : Deallocate(t, ptr, n)
         \/ Return(t)
         \/ LeafStep(t, bases)
         \/ ForeignAllocate(t)
         \/ ForeignDeallocate(t)
  PROVE  leaf' = leaf
BY ZenonT(40) DEF Allocate, Deallocate, Calls, Return, LeafStep, RefuseNegative, Obtain,
   ObtainFails, ObtainRaises, Record, RefuseFree, TakeOut, Release, ReleaseRaises,
   RecordAllocation, RecordFree, WriteLog, ForeignAllocate, ForeignDeallocate

\* A call that the tester makes, and one that goes its way, in a leaf of devmm.
LEMMA KeptCalls ==
  ASSUME SuiteSetting, SoundRun, NEW t \in Callers,
         \/ \E n \in Asked : Allocate(t, n)
         \/ \E ptr : \E n \in Asked : Deallocate(t, ptr, n)
         \/ Return(t)
         \/ ~Foreign /\ LeafStep(t, Bases)
  PROVE  Kept' /\ leaf' = leaf /\ DOMAIN call' = Callers
<1>1. leaf' = leaf
  BY LeafUntouched, Zenon
<1>2. CASE Foreign
  <2>1. UNCHANGED <<live, blocks, misfreed>> /\ \E x : call' = [call EXCEPT ![t] = x]
    BY <1>2 DEF Allocate, Deallocate, Calls, Return, Answer
  <2>2. ForeignKept'
    BY <1>2, <2>1 DEF SoundRun, Kept, ForeignKept
  <2>3. DOMAIN call' = Callers
    BY <2>1 DEF SoundRun
  <2>. QED  BY <1>1, <1>2, <2>2, <2>3 DEF Kept, Foreign
<1>3. CASE ~Foreign
  <2>1. Ownership(Asked, Bases)
    BY <1>3 DEF SoundRun, Kept
  <2>2. Ownership(Asked, Bases)'
    <3>1. \/ \E n \in Asked : Allocate(t, n)
          \/ \E ptr : \E n \in Asked : Deallocate(t, ptr, n)
          \/ Return(t)
          \/ LeafStep(t, Bases)
      OBVIOUS
    <3>. QED  BY <2>1, <3>1, SoundFacts, CallKeeps, Zenon
  <2>3. DOMAIN call' = Callers
    BY <2>2 DEF Ownership, CallsOK
  <2>. QED  BY <1>1, <1>3, <2>2, <2>3 DEF Kept, Foreign
<1>. QED  BY <1>2, <1>3

\* The run goes on.
LEMMA RunsOn ==
  ASSUME SoundRun, verdict' = "running", leaf' = leaf, DOMAIN call' = Callers, Kept', Running'
  PROVE  SoundRun'
BY DEF SoundRun

\* The tester calls.
LEMMA StartsSound == ASSUME SuiteSetting, SoundRun, StartCall PROVE SoundRun'
<1>1. /\ verdict = "running" /\ program # <<>> /\ Now.op \in {"take", "give"}
      /\ UNCHANGED suiteVars
      /\ IF Now.op = "take" THEN Allocate(Tester, Now.n)
         ELSE Deallocate(Tester, Slot(Now.slot) + Now.off, Now.n)
  BY DEF StartCall, Runs
<1>2. Running /\ Tester \in Callers /\ DOMAIN call = Callers
  BY <1>1, SoundFacts DEF SoundRun
<1>3. call[Tester].pc = "idle"
  BY <1>1 DEF Allocate, Deallocate, Calls
<1>4. PICK s, z : z.held = {} /\ Leads(program, s, z) /\ Between(s)
  BY <1>2, <1>3 DEF Running, Midway
<1>5. PICK r : Moves(Now, s, r) /\ Leads(Tail(program), r, z)
  <2>1. program \in Seq(Steps)
    BY <1>2 DEF Running
  <2>. QED  BY <1>1, <1>4, <2>1, LeadsOn DEF Now
<1>6. Now.n \in Asked
  BY <1>1, <1>5, MovesBy DEF TakeMoves, GiveMoves
<1>7. Kept' /\ leaf' = leaf /\ DOMAIN call' = Callers
  <2>1. \/ \E n \in Asked : Allocate(Tester, n)
        \/ \E ptr : \E n \in Asked : Deallocate(Tester, ptr, n)
    BY <1>1, <1>6, Zenon
  <2>. QED  BY <1>2, <2>1, KeptCalls
<1>8. /\ UNCHANGED <<leaf, live, stranded, program, slots, contents, verdict>>
      /\ \E c : /\ call' = [call EXCEPT ![Tester] = c]
                /\ c.pc = "called" /\ c.n = Now.n
                /\ Now.op = "take" => c.op = "allocate"
                /\ Now.op = "give" => c.op = "deallocate" /\ c.ptr = Slot(Now.slot) + Now.off
  <2>1. \A op, ptr, n : LET c == Called(op, ptr, n) IN
          c.pc = "called" /\ c.op = op /\ c.ptr = ptr /\ c.n = n
    BY DEF Called
  <2>2. CASE Now.op = "take"
    <3> DEFINE c == Called("allocate", 0, Now.n)
    <3>1. call' = [call EXCEPT ![Tester] = c]
      BY <1>1, <2>2 DEF Allocate, Calls, Answer
    <3>2. c.pc = "called" /\ c.op = "allocate" /\ c.n = Now.n
      BY <2>1
    <3>3. UNCHANGED <<leaf, live, stranded, program, slots, contents, verdict>>
      BY <1>1, <2>2 DEF Allocate, Calls, suiteVars
    <3> HIDE DEF c
    <3>4. Now.op # "give"
      BY <2>2
    <3>. QED  BY <3>1, <3>2, <3>3, <3>4, Zenon
  <2>3. CASE Now.op = "give"
    <3> DEFINE ptr == Slot(Now.slot) + Now.off
               c == Called("deallocate", ptr, Now.n)
    <3>1. call' = [call EXCEPT ![Tester] = c]
      BY <1>1, <2>3 DEF Deallocate, Calls, Answer
    <3>2. c.pc = "called" /\ c.op = "deallocate" /\ c.ptr = ptr /\ c.n = Now.n
      BY <2>1
    <3>3. UNCHANGED <<leaf, live, stranded, program, slots, contents, verdict>>
      BY <1>1, <2>3 DEF Deallocate, Calls, suiteVars
    <3> HIDE DEF c
    <3>4. Now.op # "take"
      BY <2>3
    <3>. QED  BY <3>1, <3>2, <3>3, <3>4, Zenon
  <2>. QED  BY <1>1, <2>2, <2>3
<1>9. /\ call'[Tester].pc = "called" /\ call'[Tester].n = Now.n
      /\ Now.op = "take" => call'[Tester].op = "allocate"
      /\ Now.op = "give" => call'[Tester].op = "deallocate" /\ call'[Tester].ptr = Slot(Now.slot) + Now.off
      /\ \A t \in Callers \ {Tester} : call'[t] = call[t]
  BY <1>2, <1>8
<1>10. Now' = Now /\ \A i : Slot(i)' = Slot(i)
  BY <1>8 DEF Now, Slot
<1>11. Matches'
  BY <1>1, <1>9, <1>10 DEF Matches
<1>12. Stock(s, slots)' /\ stranded' = {}
  BY <1>4, <1>8 DEF Between, Stock
<1>13. Midway(s, r)'
  BY <1>1, <1>9, <1>10, <1>11, <1>12 DEF Midway
<1>14. Others'
  BY <1>2, <1>9 DEF Running, Others
<1>15. Running'
  <2>1. program' = program /\ program \in Seq(Steps)
    BY <1>2, <1>8 DEF Running
  <2>2. Moves(Now', s, r) /\ Leads(Tail(program'), r, z)
    BY <1>5, <1>10, <2>1
  <2>. QED  BY <1>1, <1>4, <1>13, <1>14, <2>1, <2>2 DEF Running
<1>. QED  BY <1>1, <1>7, <1>8, <1>15, RunsOn

\* An instruction is done.
LEMMA GoesOn ==
  ASSUME SoundRun, verdict = "running", program # <<>>,
         program' = Tail(program), verdict' = "running", leaf' = leaf, DOMAIN call' = Callers, Kept',
         NEW r, NEW z, z.held = {}, Leads(Tail(program), r, z),
         Others', Between(r)'
  PROVE  SoundRun'
<1>1. program \in Seq(Steps)
  BY DEF SoundRun, Running
<1>2. Tail(program) \in Seq(Steps)
  BY <1>1, HeadTailProperties
<1>3. program' \in Seq(Steps) /\ Leads(program', r, z)
  BY <1>2
<1>4. Running'
  BY <1>3 DEF Running
<1>. QED  BY <1>4, RunsOn

\* The suite ends for want of memory, or since the library failed.
LEMMA GivesUp ==
  ASSUME SoundRun, leaf' = leaf, DOMAIN call' = Callers, Kept',
         \/ verdict' = "exhausted"
         \/ verdict' = "raised" /\ leaf.raises # {}
  PROVE  SoundRun'
BY DEF SoundRun

\* The tester has its answer.
LEMMA EndsSound == ASSUME SuiteSetting, SoundRun, EndCall PROVE SoundRun'
<1> DEFINE c == call[Tester]
<1>1. /\ verdict = "running" /\ program # <<>> /\ Now.op \in {"take", "give"}
      /\ Return(Tester) /\ UNCHANGED contents
      /\ IF c.ok /\ ~Now.misuse THEN Advance
         ELSE IF c.ok THEN Stop("failed")
         ELSE IF Now.misuse /\ c.error = "ValueError" THEN Advance
         ELSE IF c.error \in {"MemoryError", "unserved"} THEN Stop("exhausted")
         ELSE Stop("raised")
      /\ IF c.ok /\ Now.op = "take" THEN slots' = With(slots, Now.slot, c.ptr)
         ELSE UNCHANGED slots
  BY DEF EndCall, Runs
<1>2. Running /\ Tester \in Callers /\ DOMAIN call = Callers
  BY <1>1, SoundFacts DEF SoundRun
<1>3. /\ c.pc = "returned" /\ call' = [call EXCEPT ![Tester] = Idle]
      /\ UNCHANGED <<leaf, live, stranded>>
  BY <1>1 DEF Return, Answer
<1>4. PICK s, z, r : /\ z.held = {} /\ Moves(Now, s, r) /\ Leads(Tail(program), r, z)
                     /\ Midway(s, r)
  BY <1>2, <1>3 DEF Running, Between
<1>5. Replied(s, r)
  BY <1>3, <1>4 DEF Midway
<1>6. Kept' /\ leaf' = leaf /\ DOMAIN call' = Callers
  BY <1>1, <1>2, KeptCalls
<1>7. call'[Tester].pc = "idle" /\ Others'
  BY <1>2, <1>3 DEF Running, Others, Idle
<1> HIDE DEF c
<1>8. ASSUME Advance, Stock(r, slots'), stranded = {} PROVE SoundRun'
  <2>1. program' = Tail(program) /\ verdict' = "running"
    BY <1>1, <1>8 DEF Advance
  <2>2. Between(r)'
    BY <1>1, <1>3, <1>7, <1>8 DEF Between, Stock
  <2>. QED  BY <1>1, <1>4, <1>6, <1>7, <2>1, <2>2, GoesOn
<1>9. CASE /\ c.ok /\ ~Now.misuse /\ Now.op = "take"
           /\ Stock(r, With(slots, Now.slot, c.ptr)) /\ stranded = {}
  BY <1>1, <1>8, <1>9
<1>10. CASE c.ok /\ ~Now.misuse /\ Now.op = "give" /\ Stock(r, slots) /\ stranded = {}
  BY <1>1, <1>8, <1>10
<1>11. CASE ~c.ok /\ c.error = "ValueError" /\ Now.misuse /\ r = s /\ Stock(s, slots) /\ stranded = {}
  BY <1>1, <1>8, <1>11
<1>12. CASE ~c.ok /\ c.error \in {"MemoryError", "unserved"}
  <2>1. verdict' = "exhausted"
    BY <1>1, <1>12 DEF Stop
  <2>. QED  BY <1>6, <2>1, GivesUp
<1>13. CASE ~c.ok /\ c.error = "error" /\ leaf.raises # {}
  <2>1. verdict' = "raised"
    BY <1>1, <1>13 DEF Stop
  <2>. QED  BY <1>6, <1>13, <2>1, GivesUp
<1>. QED  BY <1>5, <1>9, <1>10, <1>11, <1>12, <1>13 DEF Replied, c

\* Where no call is made.
LEMMA KeptStays ==
  ASSUME SoundRun, UNCHANGED leafVars
  PROVE  Kept' /\ leaf' = leaf /\ DOMAIN call' = Callers /\ (Others => Others')
<1>1. UNCHANGED <<leaf, live, call, blocks, stranded, misfreed>>
  BY DEF leafVars
<1>2. ForeignKept => ForeignKept'
  BY <1>1 DEF ForeignKept
<1>3. Ownership(Asked, Bases) => Ownership(Asked, Bases)'
  BY <1>1, OwnershipStays
<1>4. Kept' /\ leaf' = leaf
  BY <1>1, <1>2, <1>3 DEF SoundRun, Kept, Foreign
<1>5. DOMAIN call' = Callers /\ (Others => Others')
  BY <1>1 DEF SoundRun, Others
<1>. QED  BY <1>4, <1>5

\* Between two calls, and the next instruction is none.
LEMMA NoCall ==
  ASSUME SoundRun, verdict = "running", program # <<>>, Now.op \notin {"take", "give"}
  PROVE  /\ Others
         /\ \E s, z, r : /\ z.held = {} /\ Moves(Now, s, r) /\ Leads(Tail(program), r, z)
                         /\ Between(s)
<1>1. Running
  BY DEF SoundRun
<1>2. PICK s, z : z.held = {} /\ Leads(program, s, z) /\ Between(s)
  BY <1>1 DEF Running, Midway
<1>3. PICK r : Moves(Now, s, r) /\ Leads(Tail(program), r, z)
  BY <1>1, <1>2, LeadsOn DEF Now, Running
<1>. QED  BY <1>1, <1>2, <1>3 DEF Running

\* What is in a slot, and in which block.
LEMMA InSlot ==
  ASSUME NEW s, Stock(s, slots), NEW k \in Slots(s.held)
  PROVE  /\ Slot(k) = slots[k] /\ Slot(k) \in DOMAIN live
         /\ BlockAt(Slot(k)) = live[slots[k]].base
         /\ \A j \in Slots(s.held) : j # k => Slot(j) # Slot(k)
<1>1. \A j \in Slots(s.held) : Slot(j) = slots[j] /\ slots[j] \in DOMAIN live
  BY SlotHeld DEF Stock, Slot
<1>2. \A p \in s.held : slots[p[1]] = slots[k] => p[1] = k
  BY SlotHeld DEF Stock
<1>3. BlockAt(Slot(k)) = live[slots[k]].base
  BY <1>1 DEF BlockAt, Unknown
<1>4. \A j \in Slots(s.held) : slots[j] = slots[k] => j = k
  BY <1>2 DEF Slots
<1>. QED  BY <1>1, <1>3, <1>4

LEMMA WritesSound == ASSUME SuiteSetting, SoundRun, WriteSlot PROVE SoundRun'
<1>1. /\ verdict = "running" /\ program # <<>> /\ Now.op = "write"
      /\ contents' = With(contents, BlockAt(Slot(Now.slot)), Now.tag)
      /\ program' = Tail(program) /\ verdict' = "running"
      /\ UNCHANGED <<slots, leafVars>>
  BY DEF WriteSlot, Runs, Advance
<1>2. PICK s, z, r : /\ z.held = {} /\ Moves(Now, s, r) /\ Leads(Tail(program), r, z)
                     /\ Between(s)
  BY <1>1, NoCall
<1>3. /\ Now.slot \in Slots(s.held)
      /\ r = Knowing(s.leaf, s.held, {t \in s.tags : t[1] # Now.slot} \cup {<<Now.slot, Now.tag>>})
  BY <1>1, <1>2, MovesBy DEF WriteMoves
<1>4. BlockAt(Slot(Now.slot)) = live[slots[Now.slot]].base
  BY <1>2, <1>3, InSlot DEF Between
<1>5. /\ ContentsIn(contents', live[slots[Now.slot]].base) = Now.tag
      /\ \A b : b # live[slots[Now.slot]].base => ContentsIn(contents', b) = ContentsIn(contents, b)
  <2>1. \A b, x, y : /\ ContentsIn(With(contents, b, x), b) = x
                     /\ y # b => ContentsIn(With(contents, b, x), y) = ContentsIn(contents, y)
    <3> SUFFICES ASSUME NEW b, NEW x, NEW y
                 PROVE  /\ ContentsIn(With(contents, b, x), b) = x
                        /\ y # b => ContentsIn(With(contents, b, x), y) = ContentsIn(contents, y)
      OBVIOUS
    <3> DEFINE f == With(contents, b, x)
    <3>1. DOMAIN f = DOMAIN contents \cup {b} /\ f[b] = x /\ \A e \in DOMAIN contents : e # b => f[e] = contents[e]
      BY DEF With
    <3> HIDE DEF f
    <3>2. ContentsIn(f, b) = x
      BY <3>1 DEF ContentsIn
    <3>3. y # b => ContentsIn(f, y) = ContentsIn(contents, y)
      BY <3>1 DEF ContentsIn
    <3>. QED  BY <3>2, <3>3 DEF f
  <2>. QED  BY <1>1, <1>4, <2>1
<1>6. \A x, y \in DOMAIN live : live[x].base = live[y].base => x = y
  BY KeptFacts
<1>7. Stocked(s, slots, leaf, live, contents)
  BY <1>2 DEF Between, Stock
<1>8. Stocked(r, slots, leaf, live, contents')
  <2> DEFINE k == Now.slot
             tag == Now.tag
             ct == contents'
  <2>1. /\ k \in Slots(s.held)
        /\ r = Knowing(s.leaf, s.held, {t \in s.tags : t[1] # k} \cup {<<k, tag>>})
        /\ ContentsIn(ct, live[slots[k]].base) = tag
        /\ \A b : b # live[slots[k]].base => ContentsIn(ct, b) = ContentsIn(contents, b)
    BY <1>3, <1>5
  <2> HIDE DEF k, tag, ct
  <2>2. Stocked(r, slots, leaf, live, ct)
    BY <1>6, <1>7, <2>1, StockWrites
  <2>. QED  BY <2>2 DEF ct
<1>9. Kept' /\ leaf' = leaf /\ DOMAIN call' = Callers /\ Others'
  BY <1>1, KeptStays, NoCall
<1>10. Between(r)'
  BY <1>1, <1>2, <1>8 DEF Between, Stock, leafVars
<1>. QED  BY <1>1, <1>2, <1>9, <1>10, GoesOn

LEMMA ChecksSound == ASSUME SuiteSetting, SoundRun, Check PROVE SoundRun'
<1> DEFINE ops == {"read", "aligned", "nonnull", "distinct", "count"}
<1>1. /\ verdict = "running" /\ program # <<>> /\ Now.op \in ops
      /\ Ensure(Holds(Now))
      /\ UNCHANGED <<slots, contents, leafVars>>
  BY DEF Check, Runs
<1>2. PICK s, z, r : /\ z.held = {} /\ Moves(Now, s, r) /\ Leads(Tail(program), r, z)
                     /\ Between(s)
  BY <1>1, NoCall
<1>3. CheckMoves(Now, s, r) /\ Stock(s, slots)
  BY <1>1, <1>2, MovesBy DEF Between
<1>4. Holds(Now)
  <2>1. CASE Now.op = "read" /\ <<Now.slot, Now.tag>> \in s.tags
    <3> DEFINE t == <<Now.slot, Now.tag>>
    <3>1. t \in s.tags /\ t[1] = Now.slot /\ t[2] = Now.tag
      BY <2>1
    <3> HIDE DEF t
    <3>2. (\E p \in s.held : t[1] = p[1]) /\ ContentsIn(contents, live[slots[t[1]]].base) = t[2]
      BY <1>3, <3>1, TagHeld DEF Stock
    <3>3. Now.slot \in Slots(s.held)
      BY <3>1, <3>2 DEF Slots
    <3>4. BlockAt(Slot(Now.slot)) = live[slots[Now.slot]].base
      BY <1>3, <3>3, InSlot
    <3>5. Contents(BlockAt(Slot(Now.slot))) = Now.tag
      BY <3>1, <3>2, <3>4 DEF Contents, ContentsIn
    <3>. QED  BY <2>1, <3>5 DEF Holds
  <2>2. CASE /\ Now.op = "aligned" /\ Now.slot \in Slots(s.held)
             /\ Now.n \in {s.leaf.alignment, s.leaf.guarantee}
    <3>1. Slot(Now.slot) \in DOMAIN live
      BY <1>3, <2>2, InSlot
    <3>2. s.leaf = leaf
      BY <1>3 DEF Stock, Stocked
    <3>3. leaf.alignment \in Nat \ {0} /\ leaf.guarantee \in Nat \ {0}
      BY SoundFacts DEF Wellmade
    <3>4. Now.n >= 1 /\ Slot(Now.slot) % Now.n = 0
      BY <2>2, <3>1, <3>2, <3>3, KeptFacts
    <3>. QED  BY <2>2, <3>4 DEF Holds
  <2>3. CASE Now.op = "nonnull" /\ Now.slot \in Slots(s.held)
    <3>1. Slot(Now.slot) # 0
      BY <1>3, <2>3, InSlot, KeptFacts
    <3>. QED  BY <2>3, <3>1 DEF Holds
  <2>4. CASE /\ Now.op = "distinct" /\ Now.slot # Now.n
             /\ Now.slot \in Slots(s.held) /\ Now.n \in Slots(s.held)
    <3>1. Slot(Now.slot) # Slot(Now.n)
      BY <1>3, <2>4, InSlot
    <3>. QED  BY <2>4, <3>1 DEF Holds
  <2>5. CASE Now.op = "count" /\ IsFiniteSet(s.held) /\ Cardinality(s.held) = Now.n
    <3>1. Cardinality(DOMAIN live) = Now.n
      BY <1>3, <2>5, StockCounts DEF Stock
    <3>. QED  BY <2>5, <3>1 DEF Holds
  <2>. QED  BY <1>3, <2>1, <2>2, <2>3, <2>4, <2>5 DEF CheckMoves
<1>5. program' = Tail(program) /\ verdict' = "running"
  BY <1>1, <1>4 DEF Ensure, Advance
<1>6. Kept' /\ leaf' = leaf /\ DOMAIN call' = Callers /\ Others'
  BY <1>1, KeptStays, NoCall
<1>7. r = s
  BY <1>3 DEF CheckMoves
<1>8. Between(r)'
  BY <1>1, <1>2, <1>7 DEF Between, Stock, leafVars
<1>. QED  BY <1>1, <1>2, <1>5, <1>6, <1>8, GoesOn

LEMMA PassesSound == ASSUME SuiteSetting, SoundRun, Pass PROVE SoundRun'
<1>1. /\ verdict = "running" /\ program = <<>> /\ verdict' = "passed" /\ UNCHANGED leafVars
  BY DEF Pass, Stop
<1>2. Running
  BY <1>1 DEF SoundRun
<1>3. PICK s, z : z.held = {} /\ Leads(program, s, z) /\ Between(s) /\ Others
  BY <1>1, <1>2 DEF Running
<1>4. s = z
  <2>1. \E w : w[1] = s /\ w[Len(<<>>) + 1] = z
    BY <1>1, <1>3 DEF Leads
  <2>2. Len(<<>>) + 1 = 1
    OBVIOUS
  <2>. QED  BY <2>1, <2>2
<1>5. DOMAIN live = {} /\ stranded = {} /\ call[Tester].pc = "idle"
  BY <1>3, <1>4, StockEmpty DEF Between, Stock
<1>6. DOMAIN blocks = {}
  BY <1>3, <1>5, NothingLeft
<1>7. Kept' /\ leaf' = leaf /\ DOMAIN call' = Callers
  BY <1>1, KeptStays
<1>8. DOMAIN live' = {} /\ DOMAIN blocks' = {}
  BY <1>1, <1>5, <1>6 DEF leafVars
<1>. QED  BY <1>1, <1>7, <1>8 DEF SoundRun

\* A resource that nobody has used, after one that has nothing left.
LEMMA MakesSound == ASSUME SuiteSetting, SoundRun, MakeResource PROVE SoundRun'
<1>1. /\ verdict = "running" /\ program # <<>> /\ Now.op = "fresh"
      /\ leaf' = Realigned(leaf, Now.n) /\ live' = Nothing /\ slots' = Nothing
      /\ program' = Tail(program) /\ verdict' = "running"
      /\ UNCHANGED <<call, blocks, stranded, misfreed, recorder, contents>>
  BY DEF MakeResource, Runs, Advance
<1>2. PICK s, z, r : /\ z.held = {} /\ Moves(Now, s, r) /\ Leads(Tail(program), r, z)
                     /\ Between(s)
  BY <1>1, NoCall
<1>3. s.held = {} /\ s.leaf = leaf
  BY <1>1, <1>2, MovesBy DEF FreshMoves, Between, Stock, Stocked
<1>4. leaf' \in Tried /\ Sound(leaf') /\ r = Afresh(leaf')
  BY <1>1, <1>2, <1>3, MovesBy DEF FreshMoves
<1>5. DOMAIN live = {} /\ stranded = {} /\ call[Tester].pc = "idle" /\ Others
  BY <1>1, <1>2, <1>3, StockEmpty, NoCall DEF Between, Stock
<1>6. DOMAIN blocks' = {} /\ DOMAIN live' = {} /\ ~misfreed'
  BY <1>1, <1>5, NothingLeft, KeptFacts DEF Nothing
<1>7. Ownership(Asked, Bases)'
  <2>1. DOMAIN call' = Callers /\ \A t \in Callers : call'[t].pc = "idle"
    BY <1>1, <1>5 DEF Others, SoundRun
  <2>2. stranded' = {}
    BY <1>1, <1>5
  <2>. QED
    BY <1>6, <2>1, <2>2
       DEF Ownership, CallsOK, LibraryInv, EntriesInv, HandsInv, AllOwned, Held, Lost
<1>8. ForeignKept'
  BY <1>6 DEF ForeignKept
<1>9. Kept'
  BY <1>7, <1>8 DEF Kept
<1>10. Between(r)' /\ Others'
  <2>1. Stock(r, slots)'
    BY <1>4, <1>6, StockAfresh DEF Stock
  <2>. QED  BY <1>1, <1>5, <2>1 DEF Between, Others
<1>11. Running'
  <2>1. Tail(program) \in Seq(Steps)
    <3>1. program \in Seq(Steps)
      BY <1>1 DEF SoundRun, Running
    <3>. QED  BY <1>1, <3>1, HeadTailProperties
  <2>2. program' \in Seq(Steps) /\ Leads(program', r, z)
    BY <1>1, <1>2, <2>1
  <2>. QED  BY <1>2, <1>10, <2>2 DEF Running
<1>12. DOMAIN call' = Callers
  BY <1>1 DEF SoundRun
<1>. QED  BY <1>1, <1>4, <1>9, <1>11, <1>12 DEF SoundRun
-------------------------------------------------------------------------------
(***************************************************************************)
(* The tester's calls, in the resource                                     *)
(***************************************************************************)
\* What there is when the suite takes, and when it gives.
LEMMA TakeFacts ==
  ASSUME SuiteSetting, NEW s, NEW r, Moves(Now, s, r), Now.op = "take"
  PROVE  /\ Now.misuse => Now.n < 0 /\ r = s
         /\ ~Now.misuse => /\ Now.n \in Nat /\ Now.slot \notin Slots(s.held)
                           /\ r = Knowing(s.leaf, s.held \cup {<<Now.slot, Now.n>>}, s.tags)
BY MovesBy, SuiteSizesAre DEF TakeMoves, SuiteSetting

LEMMA GiveFacts ==
  ASSUME SuiteSetting, SoundRun, program \in Seq(Steps), program # <<>>,
         NEW s, NEW r, Moves(Now, s, r), Now.op = "give", Stock(s, slots),
         NEW x, x = Slot(Now.slot) + Now.off
  PROVE  /\ Now.misuse => x \notin DOMAIN live /\ r = s
         /\ ~Now.misuse =>
              /\ x = slots[Now.slot] /\ x \in DOMAIN live /\ live[x].n = Now.n
              /\ <<Now.slot, Now.n>> \in s.held
              /\ r = Knowing(s.leaf, s.held \ {<<Now.slot, Now.n>>}, {t \in s.tags : t[1] # Now.slot})
<1>1. Now.off \in {0, 1}
  <2>1. Now \in Steps
    BY HeadTailProperties DEF Now
  <2>. QED  BY <2>1 DEF Steps
<1>2. GiveMoves(Now, s, r)
  BY MovesBy
<1>3. ASSUME Now.misuse PROVE x \notin DOMAIN live /\ r = s
  <2>1. Slots(s.held) \subseteq (IF Now.off = 1 THEN {Now.slot} ELSE {}) /\ r = s
    BY <1>2, <1>3 DEF GiveMoves
  <2>2. SUFFICES ASSUME x \in DOMAIN live PROVE FALSE
    BY <2>1
  <2>3. PICK p \in s.held : slots[p[1]] = x
    BY <2>2 DEF Stock, Stocked
  <2>4. p[1] \in Slots(s.held)
    BY <2>3 DEF Slots
  <2>5. p[1] = Now.slot /\ Now.off = 1
    BY <1>1, <2>1, <2>4
  <2>6. Slot(Now.slot) = x
    BY <2>3, <2>4, <2>5, InSlot
  <2>7. x \in Nat
    BY <2>2, KeptFacts
  <2>. QED  BY <2>5, <2>6, <2>7
<1>4. ASSUME ~Now.misuse
      PROVE  /\ x = slots[Now.slot] /\ x \in DOMAIN live /\ live[x].n = Now.n
             /\ <<Now.slot, Now.n>> \in s.held
             /\ r = Knowing(s.leaf, s.held \ {<<Now.slot, Now.n>>}, {t \in s.tags : t[1] # Now.slot})
  <2> DEFINE e == <<Now.slot, Now.n>>
  <2>1. /\ Now.off = 0 /\ e \in s.held /\ e[1] = Now.slot /\ e[2] = Now.n
        /\ r = Knowing(s.leaf, s.held \ {e}, {t \in s.tags : t[1] # Now.slot})
    BY <1>2, <1>4 DEF GiveMoves
  <2> HIDE DEF e
  <2>2. Now.slot \in Slots(s.held)
    BY <2>1 DEF Slots
  <2>3. slots[e[1]] \in DOMAIN live /\ live[slots[e[1]]].n = e[2]
    BY <2>1 DEF Stock, Stocked
  <2>4. Slot(Now.slot) = slots[Now.slot]
    BY <2>2, InSlot
  <2>5. slots[Now.slot] \in Nat
    BY <2>1, <2>3, KeptFacts
  <2>6. x = slots[Now.slot]
    BY <2>1, <2>4, <2>5
  <2>. QED  BY <2>1, <2>3, <2>6 DEF e
<1>. QED  BY <1>3, <1>4

\* What is taken, and what is given back, is in the stock and out of it.
LEMMA StockOfTaken ==
  ASSUME SuiteSetting, NEW s, NEW r, Moves(Now, s, r), Now.op = "take", ~Now.misuse, Stock(s, slots),
         NEW x, x \notin DOMAIN live, NEW e, e.n = Now.n, live' = With(live, x, e)
  PROVE  Stocked(r, With(slots, Now.slot, x), leaf, live', contents)
<1> DEFINE k == Now.slot
           n == Now.n
           lv == live'
           at == With(slots, k, x)
<1>1. k \notin Slots(s.held) /\ r = Knowing(s.leaf, s.held \cup {<<k, n>>}, s.tags)
  BY TakeFacts
<1>2. DOMAIN lv = DOMAIN live \cup {x} /\ lv[x].n = n /\ \A y \in DOMAIN live : lv[y] = live[y]
  BY DEF With
<1>3. DOMAIN at = DOMAIN slots \cup {k} /\ at[k] = x /\ \A j \in DOMAIN slots : j # k => at[j] = slots[j]
  BY DEF With
<1> HIDE DEF k, n, lv, at
<1>4. Stocked(r, at, leaf, lv, contents)
  <2>1. Stocked(s, slots, leaf, live, contents)
    BY DEF Stock
  <2>2. lv[x].n = n /\ r = Knowing(s.leaf, s.held \cup {<<k, n>>}, s.tags) /\ k \notin Slots(s.held)
    BY <1>1, <1>2
  <2>3. Extends(lv, live, x)
    BY <1>2 DEF Extends
  <2>4. Extends(at, slots, k) /\ at[k] = x
    BY <1>3 DEF Extends
  <2>. QED  BY <2>1, <2>2, <2>3, <2>4, StockTakes, Zenon
<1>. QED  BY <1>4 DEF lv, at, k

LEMMA StockOfGiven ==
  ASSUME SuiteSetting, SoundRun, program \in Seq(Steps), program # <<>>,
         NEW s, NEW r, Moves(Now, s, r), Now.op = "give", ~Now.misuse, Stock(s, slots),
         NEW x, x = Slot(Now.slot) + Now.off,
         DOMAIN live' = DOMAIN live \ {x}, \A y \in DOMAIN live' : live'[y] = live[y]
  PROVE  Stocked(r, slots, leaf, live', contents)
<1> DEFINE k == Now.slot
           n == Now.n
           lv == live'
<1>1. /\ x = slots[k] /\ <<k, n>> \in s.held
      /\ r = Knowing(s.leaf, s.held \ {<<k, n>>}, {t \in s.tags : t[1] # k})
  BY GiveFacts
<1>2. DOMAIN lv = DOMAIN live \ {slots[k]} /\ \A y \in DOMAIN lv : lv[y] = live[y]
  BY <1>1
<1> HIDE DEF k, n, lv
<1>3. Stocked(r, slots, leaf, lv, contents)
  BY <1>1, <1>2, StockGives, ZenonT(40) DEF Stock
<1>. QED  BY <1>3 DEF lv

\* A step of the tester's call.
LEMMA CallGoesOn ==
  ASSUME SuiteSetting, SoundRun, verdict = "running", program # <<>>, UNCHANGED suiteVars,
         leaf' = leaf, Kept', NEW x, call' = [call EXCEPT ![Tester] = x],
         NEW s, NEW r, NEW z, z.held = {}, Moves(Now, s, r), Leads(Tail(program), r, z),
         Midway(s, r)'
  PROVE  SoundRun'
<1>1. /\ Running /\ DOMAIN call = Callers /\ Tester \in Callers
      /\ program' = program /\ verdict' = "running"
  BY SoundFacts DEF SoundRun, suiteVars
<1>2. DOMAIN call' = Callers /\ Others'
  BY <1>1 DEF Running, Others
<1>3. Now' = Now /\ Tail(program') = Tail(program)
  BY <1>1 DEF Now
<1>4. Moves(Now', s, r) /\ Leads(Tail(program'), r, z)
  BY <1>3
<1>5. Running'
  BY <1>1, <1>2, <1>4 DEF Running
<1>. QED  BY <1>1, <1>2, <1>5, RunsOn

\* The call of an instruction that leads from s to r.
InMidst(s, r) ==
  /\ verdict = "running" /\ program \in Seq(Steps) /\ program # <<>>
  /\ Moves(Now, s, r) /\ Midway(s, r) /\ Tester \in DOMAIN call /\ UNCHANGED suiteVars

\* Nothing of this changes, and the next state is in the midst, too.
LEMMA MidwayWith ==
  ASSUME NEW s, NEW r, InMidst(s, r), leaf' = leaf,
         NEW x, call' = [call EXCEPT ![Tester] = x]
  PROVE  /\ call'[Tester] = x /\ Now' = Now /\ slots' = slots /\ contents' = contents
         /\ Now.op \in {"take", "give"}
         /\ \A q, at : Stocked(q, at, leaf, live', contents) => Stock(q, at)'
         /\ UNCHANGED live => \A q : Stock(q, slots) => Stock(q, slots)'
<1>1. slots' = slots /\ contents' = contents /\ program' = program
  BY DEF InMidst, suiteVars
<1>2. Now' = Now
  BY <1>1 DEF Now
<1>3. \A q, at : Stocked(q, at, leaf, live', contents) => Stock(q, at)'
  BY <1>1 DEF Stock
<1>4. ASSUME UNCHANGED live, NEW q, Stock(q, slots) PROVE Stock(q, slots)'
  BY <1>1, <1>4 DEF Stock
<1>5. call'[Tester] = x /\ Now.op \in {"take", "give"}
  BY DEF InMidst, Midway
<1>. QED  BY <1>1, <1>2, <1>3, <1>4, <1>5

LEMMA AnswersAre ==
  /\ \A p : Returned(p).pc = "returned" /\ Returned(p).ok = TRUE /\ Returned(p).ptr = p
  /\ \A e : Raised(e).pc = "returned" /\ Raised(e).ok = FALSE /\ Raised(e).error = e
BY DEF Returned, Raised

\* What the resource refuses, or the library, or why no block was asked for.
LEMMA RefusedMidway ==
  ASSUME NEW s, NEW r, InMidst(s, r), leaf' = leaf, UNCHANGED <<live, stranded>>,
         NEW e, call' = [call EXCEPT ![Tester] = Raised(e)],
         \/ e = "ValueError" /\ Now.misuse /\ r = s /\ Stock(s, slots) /\ stranded = {}
         \/ e \in {"MemoryError", "unserved"}
         \/ e = "error" /\ leaf.raises # {}
  PROVE  Midway(s, r)'
<1>1. /\ call'[Tester] = Raised(e) /\ Now' = Now /\ Now.op \in {"take", "give"}
      /\ Stock(s, slots) => Stock(s, slots)'
  BY MidwayWith
<1>2. /\ call'[Tester].pc = "returned" /\ call'[Tester].ok = FALSE /\ call'[Tester].error = e
  BY <1>1, AnswersAre
<1>3. Replied(s, r)'
  BY <1>1, <1>2 DEF Replied
<1>. QED  BY <1>1, <1>2, <1>3 DEF Midway

\* And what it does.
LEMMA ServedMidway ==
  ASSUME NEW s, NEW r, InMidst(s, r), leaf' = leaf, stranded' = {}, ~Now.misuse,
         NEW p, call' = [call EXCEPT ![Tester] = Returned(p)],
         \/ Now.op = "take" /\ Stocked(r, With(slots, Now.slot, p), leaf, live', contents)
         \/ Now.op = "give" /\ Stocked(r, slots, leaf, live', contents)
  PROVE  Midway(s, r)'
<1>1. /\ call'[Tester] = Returned(p) /\ Now' = Now /\ slots' = slots /\ contents' = contents
  BY MidwayWith
<1>2. call'[Tester].pc = "returned" /\ call'[Tester].ok = TRUE /\ call'[Tester].ptr = p
  BY <1>1, AnswersAre
<1>3. CASE Now.op = "take"
  <2>1. Stocked(r, With(slots, Now.slot, p), leaf, live', contents)
    BY <1>3
  <2>2. Stock(r, With(slots, Now.slot, call[Tester].ptr))'
    BY <1>1, <1>2, <2>1 DEF Stock
  <2>3. Replied(s, r)'
    BY <1>1, <1>2, <1>3, <2>2 DEF Replied
  <2>. QED  BY <1>1, <1>2, <1>3, <2>3 DEF Midway
<1>4. CASE Now.op = "give"
  <2>1. Stocked(r, slots, leaf, live', contents)
    BY <1>4
  <2>2. Stock(r, slots)'
    BY <1>1, <2>1 DEF Stock
  <2>3. Replied(s, r)'
    BY <1>1, <1>2, <1>4, <2>2 DEF Replied
  <2>. QED  BY <1>1, <1>2, <1>4, <2>3 DEF Midway
<1>. QED  BY <1>3, <1>4

\* A call that has not been taken up.
LEMMA CalledIs ==
  ASSUME NEW s, NEW r, InMidst(s, r), call[Tester].pc = "called"
  PROVE  /\ Stock(s, slots) /\ stranded = {}
         /\ call[Tester].op = "allocate" => Now.op = "take" /\ call[Tester].n = Now.n
         /\ call[Tester].op = "deallocate" =>
              /\ Now.op = "give" /\ call[Tester].ptr = Slot(Now.slot) + Now.off
              /\ call[Tester].n = Now.n
<1>1. Matches /\ Stock(s, slots) /\ stranded = {} /\ Now.op \in {"take", "give"}
  BY DEF InMidst, Midway
<1>2. CASE Now.op = "take"
  <2>1. call[Tester].op = "allocate" /\ call[Tester].n = Now.n
    BY <1>1, <1>2 DEF Matches
  <2>. QED  BY <1>1, <1>2, <2>1
<1>3. CASE Now.op = "give"
  <2>1. /\ call[Tester].op = "deallocate" /\ call[Tester].ptr = Slot(Now.slot) + Now.off
        /\ call[Tester].n = Now.n
    BY <1>1, <1>3 DEF Matches
  <2>. QED  BY <1>1, <1>3, <2>1
<1>. QED  BY <1>1, <1>2, <1>3

LEMMA RefusalMidway ==
  ASSUME SuiteSetting, SoundRun, NEW s, NEW r, InMidst(s, r),
         RefuseNegative(Tester) \/ RefuseFree(Tester)
  PROVE  Midway(s, r)'
<1>1. /\ call[Tester].pc = "called" /\ UNCHANGED <<leaf, live, stranded>>
      /\ call' = [call EXCEPT ![Tester] = Raised("ValueError")]
  BY DEF RefuseNegative, RefuseFree, In, Answer
<1>2. Moves(Now, s, r) /\ Stock(s, slots) /\ stranded = {} /\ program \in Seq(Steps) /\ program # <<>>
  BY <1>1, CalledIs DEF InMidst
<1>3. CASE RefuseNegative(Tester)
  <2>1. Now.op = "take" /\ Now.n < 0
    BY <1>1, <1>3, CalledIs DEF RefuseNegative, In
  <2>2. Now.n \notin Nat
    BY <2>1
  <2>3. Now.misuse /\ r = s
    BY <1>2, <2>1, <2>2, TakeFacts, Zenon
  <2>. QED  BY <1>1, <1>2, <2>3, RefusedMidway
<1>4. CASE RefuseFree(Tester)
  <2>1. Now.op = "give" /\ call[Tester].ptr = Slot(Now.slot) + Now.off /\ call[Tester].n = Now.n
    BY <1>1, <1>4, CalledIs DEF RefuseFree, In
  <2>2. Unknown(call[Tester].ptr) \/ Mismatch(call[Tester].ptr, call[Tester].n)
    BY <1>4 DEF RefuseFree
  <2>3. Now.misuse /\ r = s
    BY <1>2, <2>1, <2>2, GiveFacts DEF Unknown, Mismatch
  <2>. QED  BY <1>1, <1>2, <2>3, RefusedMidway
<1>. QED  BY <1>3, <1>4

LEMMA FailureMidway ==
  ASSUME NEW s, NEW r, InMidst(s, r), ObtainFails(Tester) \/ ObtainRaises(Tester)
  PROVE  Midway(s, r)'
<1>1. CASE ObtainFails(Tester)
  <2> DEFINE e == IF leaf.serves THEN "MemoryError" ELSE "unserved"
  <2>1. /\ UNCHANGED <<leaf, live, stranded>> /\ e \in {"MemoryError", "unserved"}
        /\ call' = [call EXCEPT ![Tester] = Raised(e)]
    BY <1>1 DEF ObtainFails, Answer
  <2> HIDE DEF e
  <2>. QED  BY <2>1, RefusedMidway
<1>2. CASE ObtainRaises(Tester)
  <2>1. /\ UNCHANGED <<leaf, live, stranded>> /\ leaf.raises # {}
        /\ call' = [call EXCEPT ![Tester] = Raised("error")]
    BY <1>2 DEF ObtainRaises, Answer
  <2>. QED  BY <2>1, RefusedMidway
<1>. QED  BY <1>1, <1>2

LEMMA ObtainMidway ==
  ASSUME SuiteSetting, SoundRun, NEW s, NEW r, InMidst(s, r), NEW base, Obtain(Tester, base)
  PROVE  Midway(s, r)'
<1> DEFINE x == [pc |-> "obtained", n |-> call[Tester].n, base |-> base]
<1>1. /\ call[Tester].pc = "called" /\ call[Tester].op = "allocate" /\ call[Tester].n >= 0
      /\ UNCHANGED <<leaf, live, stranded>> /\ call' = [call EXCEPT ![Tester] = x]
  BY DEF Obtain, In, Answer
<1>2. x.pc = "obtained" /\ x.n = call[Tester].n
  OBVIOUS
<1> HIDE DEF x
<1>3. /\ Moves(Now, s, r) /\ Stock(s, slots) /\ stranded = {} /\ Now.op = "take"
      /\ call[Tester].n = Now.n
  BY <1>1, CalledIs DEF InMidst
<1>4. ~Now.misuse
  <2>1. Now.misuse => Now.n < 0
    BY <1>3, TakeFacts
  <2>2. Now.n \in Int
    <3>1. Now \in Steps
      BY HeadTailProperties DEF InMidst, Now
    <3>. QED  BY <3>1 DEF Steps
  <2>. QED  BY <1>1, <1>3, <2>1, <2>2
<1>5. call'[Tester] = x /\ Now' = Now /\ Stock(s, slots)'
  BY <1>1, <1>3, MidwayWith
<1>. QED  BY <1>1, <1>2, <1>3, <1>4, <1>5 DEF Midway

LEMMA RecordMidway ==
  ASSUME SuiteSetting, SoundRun, ~Foreign, NEW s, NEW r, InMidst(s, r), Record(Tester)
  PROVE  Midway(s, r)'
<1> DEFINE p == Placed(leaf, call[Tester].base)
           e == [n |-> call[Tester].n, base |-> call[Tester].base]
<1>1. /\ call[Tester].pc = "obtained" /\ UNCHANGED <<leaf, stranded>>
      /\ live' = With(live, p, e)
      /\ call' = [call EXCEPT ![Tester] = Returned(p)]
  BY SoundFacts DEF Record, Answer, Done
<1>2. e.n = call[Tester].n
  OBVIOUS
<1>3. p \notin DOMAIN live
  <2>1. Ownership(Asked, Bases)
    BY DEF SoundRun, Kept
  <2>. QED  BY <1>1, <2>1, SoundFacts, NotYetEntered
<1> HIDE DEF p, e
<1>4. /\ Moves(Now, s, r) /\ Now.op = "take" /\ ~Now.misuse /\ call[Tester].n = Now.n
      /\ Stock(s, slots) /\ stranded = {}
  BY <1>1 DEF InMidst, Midway
<1>5. Stocked(r, With(slots, Now.slot, p), leaf, live', contents)
  BY <1>1, <1>2, <1>3, <1>4, StockOfTaken
<1>. QED  BY <1>1, <1>4, <1>5, ServedMidway

LEMMA TakeOutMidway ==
  ASSUME SuiteSetting, SoundRun, NEW s, NEW r, InMidst(s, r), TakeOut(Tester)
  PROVE  Midway(s, r)'
<1> DEFINE p == call[Tester].ptr
           x == Removed(p, call[Tester].n)
<1>1. /\ call[Tester].pc = "called" /\ call[Tester].op = "deallocate" /\ UNCHANGED <<leaf, stranded>>
      /\ p \in DOMAIN live
      /\ live' = Without(live, p)
      /\ call' = [call EXCEPT ![Tester] = x]
  BY DEF TakeOut, In, Answer, Unknown
<1>2. x.pc = "removed"
  BY DEF Removed
<1> HIDE DEF p, x
<1>3. /\ Now.op = "give" /\ p = Slot(Now.slot) + Now.off
      /\ Moves(Now, s, r) /\ Stock(s, slots) /\ stranded = {} /\ program \in Seq(Steps) /\ program # <<>>
  BY <1>1, CalledIs DEF InMidst, p
<1>4. ~Now.misuse
  BY <1>1, <1>3, GiveFacts
<1>5. DOMAIN live' = DOMAIN live \ {p} /\ \A y \in DOMAIN live' : live'[y] = live[y]
  BY <1>1 DEF Without
<1>6. Stocked(r, slots, leaf, live', contents)
  BY <1>3, <1>4, <1>5, StockOfGiven
<1>7. call'[Tester] = x /\ Now' = Now /\ Stock(r, slots)'
  <2>1. call'[Tester] = x /\ Now' = Now /\ slots' = slots /\ contents' = contents
    BY <1>1, MidwayWith
  <2>. QED  BY <1>1, <1>6, <2>1 DEF Stock
<1>. QED  BY <1>1, <1>2, <1>3, <1>4, <1>7 DEF Midway

LEMMA ReleaseMidway ==
  ASSUME SuiteSetting, SoundRun, NEW s, NEW r, InMidst(s, r), Release(Tester) \/ ReleaseRaises(Tester)
  PROVE  Midway(s, r)'
<1>1. call[Tester].pc = "removed"
  BY DEF Release, ReleaseRaises
<1>2. Now.op = "give" /\ ~Now.misuse /\ Stock(r, slots) /\ stranded = {}
  BY <1>1 DEF InMidst, Midway
<1>3. CASE Release(Tester)
  <2>1. /\ UNCHANGED <<leaf, live, stranded>> /\ call' = [call EXCEPT ![Tester] = Returned(0)]
    BY <1>3, SoundFacts DEF Release, Answer, Done
  <2>2. Stocked(r, slots, leaf, live', contents)
    BY <1>2, <2>1 DEF Stock
  <2>. QED  BY <1>2, <2>1, <2>2, ServedMidway
<1>4. CASE ReleaseRaises(Tester)
  <2>1. /\ UNCHANGED <<leaf, live>> /\ call' = [call EXCEPT ![Tester] = Raised("error")]
        /\ leaf.raises # {}
    BY <1>4 DEF ReleaseRaises, Answer
  <2>2. call'[Tester] = Raised("error") /\ Now' = Now
    BY <2>1, MidwayWith
  <2>3. call'[Tester].pc = "returned" /\ call'[Tester].ok = FALSE /\ call'[Tester].error = "error"
    BY <2>2, AnswersAre
  <2>4. Replied(s, r)'
    BY <2>1, <2>2, <2>3 DEF Replied
  <2>. QED  BY <1>2, <2>2, <2>3, <2>4 DEF Midway
<1>. QED  BY <1>3, <1>4

\* A third party's resource does it all in one step.
LEMMA ForeignAllocateMidway ==
  ASSUME SuiteSetting, SoundRun, NEW s, NEW r, InMidst(s, r), ForeignAllocate(Tester)
  PROVE  Midway(s, r)' /\ Kept'
<1>1. Foreign /\ leaf.name = "none" /\ leaf.guarantee = 256 /\ ForeignKept
  BY ForeignWorks DEF ForeignAllocate, Foreign, SoundRun, Kept
<1>2. /\ call[Tester].pc = "called" /\ call[Tester].op = "allocate"
      /\ UNCHANGED <<leaf, stranded, misfreed>>
  BY DEF ForeignAllocate, In
<1>3. /\ Moves(Now, s, r) /\ Stock(s, slots) /\ stranded = {} /\ Now.op = "take"
      /\ call[Tester].n = Now.n
  BY <1>2, CalledIs DEF InMidst
<1>4. CASE Now.n < 0
  <2>1. UNCHANGED <<live, blocks>> /\ call' = [call EXCEPT ![Tester] = Raised("ValueError")]
    BY <1>1, <1>3, <1>4 DEF ForeignAllocate, Answer
  <2>2. Now.n \notin Nat
    BY <1>4
  <2>3. Now.misuse /\ r = s
    BY <1>3, <2>2, TakeFacts, Zenon
  <2>4. Midway(s, r)'
    BY <1>2, <1>3, <2>1, <2>3, RefusedMidway
  <2>5. Kept'
    BY <1>1, <1>2, <2>1 DEF Kept, Foreign, ForeignKept
  <2>. QED  BY <2>4, <2>5
<1>5. CASE ~(Now.n < 0)
  <2>1. PICK base \in Bases :
          /\ base % leaf.guarantee = 0
          /\ base \notin DOMAIN blocks
          /\ LET ptr == PointerOf(call[Tester].n, base)
                 bytes == IF leaf.name = "short" THEN call[Tester].n - 1 ELSE call[Tester].n
             IN /\ live' = With(live, ptr, [n |-> call[Tester].n, base |-> base])
                /\ blocks' = With(blocks, base, bytes)
                /\ Answer(Tester, Returned(ptr))
    BY <1>1, <1>3, <1>5 DEF ForeignAllocate
  <2>2. PointerOf(call[Tester].n, base) = base
    BY <1>1 DEF PointerOf
  <2> DEFINE e == [n |-> call[Tester].n, base |-> base]
             bytes == IF leaf.name = "short" THEN call[Tester].n - 1 ELSE call[Tester].n
  <2>3. /\ live' = With(live, base, e) /\ blocks' = With(blocks, base, bytes)
        /\ call' = [call EXCEPT ![Tester] = Returned(base)]
    BY <2>1, <2>2 DEF Answer
  <2>4. e.n = Now.n /\ e.base = base
    BY <1>3
  <2> HIDE DEF e, bytes
  <2>5. base \notin DOMAIN live /\ base % 256 = 0
    BY <1>1, <2>1 DEF ForeignKept
  <2>6. ~Now.misuse
    BY <1>3, <1>5, TakeFacts, Zenon
  <2>7. Stocked(r, With(slots, Now.slot, base), leaf, live', contents)
    BY <1>3, <2>3, <2>4, <2>5, <2>6, StockOfTaken
  <2>8. Midway(s, r)'
    BY <1>2, <1>3, <2>3, <2>6, <2>7, ServedMidway
  <2>9. ForeignKept'
    <3>1. /\ DOMAIN live' = DOMAIN live \cup {base} /\ live'[base].base = base
          /\ \A x \in DOMAIN live : live'[x] = live[x]
      BY <2>3, <2>4, <2>5 DEF With
    <3>2. DOMAIN blocks' = DOMAIN blocks \cup {base}
      BY <2>3 DEF With
    <3>. QED  BY <1>1, <1>2, <2>5, <3>1, <3>2 DEF ForeignKept
  <2>10. Kept'
    BY <1>1, <1>2, <2>9 DEF Kept, Foreign
  <2>. QED  BY <2>8, <2>10
<1>. QED  BY <1>4, <1>5

LEMMA ForeignDeallocateMidway ==
  ASSUME SuiteSetting, SoundRun, NEW s, NEW r, InMidst(s, r), ForeignDeallocate(Tester)
  PROVE  Midway(s, r)' /\ Kept'
<1> DEFINE p == call[Tester].ptr
           dropped == IF ~Unknown(p) THEN {p} ELSE {}
<1>1. Foreign /\ leaf.name = "none" /\ ForeignKept
  BY ForeignWorks DEF ForeignDeallocate, Foreign, SoundRun, Kept
<1>2. /\ call[Tester].pc = "called" /\ call[Tester].op = "deallocate"
      /\ UNCHANGED <<leaf, stranded, misfreed>>
      /\ live' = [x \in DOMAIN live \ dropped |-> live[x]]
      /\ blocks' = [b \in DOMAIN blocks \ {live[x].base : x \in dropped} |-> blocks[b]]
      /\ IF ~Unknown(p) THEN call' = [call EXCEPT ![Tester] = Returned(0)]
         ELSE call' = [call EXCEPT ![Tester] = Raised("ValueError")]
  BY <1>1 DEF ForeignDeallocate, In, Answer
<1> HIDE DEF p
<1>3. /\ Now.op = "give" /\ p = Slot(Now.slot) + Now.off
      /\ Moves(Now, s, r) /\ Stock(s, slots) /\ stranded = {} /\ program \in Seq(Steps) /\ program # <<>>
  BY <1>2, CalledIs DEF InMidst, p
<1>4. ForeignKept'
  <2>1. DOMAIN live' = DOMAIN live \ dropped /\ \A x \in DOMAIN live' : live'[x] = live[x]
    BY <1>2
  <2>2. {live[x].base : x \in dropped} = dropped
    <3>1. \A x \in dropped : x \in DOMAIN live
      BY DEF Unknown
    <3>2. \A x \in dropped : live[x].base = x
      BY <1>1, <3>1 DEF ForeignKept
    <3>. QED  BY <3>2
  <2>3. DOMAIN blocks' = DOMAIN blocks \ dropped
    BY <1>2, <2>2
  <2> HIDE DEF dropped
  <2>. QED  BY <1>1, <1>2, <2>1, <2>3 DEF ForeignKept
<1>5. Kept'
  BY <1>1, <1>2, <1>4 DEF Kept, Foreign
<1>6. CASE Unknown(p)
  <2>1. Now.misuse /\ r = s
    BY <1>3, <1>6, GiveFacts DEF Unknown
  <2>2. live' = [x \in DOMAIN live |-> live[x]] /\ call' = [call EXCEPT ![Tester] = Raised("ValueError")]
    BY <1>2, <1>6
  <2>3. Stock(s, slots)'
    <3>1. Stocked(s, slots, leaf, live, contents)
      BY <1>3 DEF Stock
    <3> DEFINE lv == live'
    <3>2. DOMAIN lv = DOMAIN live /\ \A x \in DOMAIN live : lv[x] = live[x]
      BY <2>2
    <3> HIDE DEF lv
    <3>3. Stocked(s, slots, leaf, lv, contents)
      BY <3>1, <3>2, StockStays
    <3>4. slots' = slots /\ contents' = contents
      BY DEF InMidst, suiteVars
    <3>. QED  BY <1>2, <3>3, <3>4 DEF Stock, lv
  <2>4. call'[Tester] = Raised("ValueError") /\ Now' = Now
    BY <1>2, <2>2, MidwayWith
  <2>5. /\ call'[Tester].pc = "returned" /\ call'[Tester].ok = FALSE
        /\ call'[Tester].error = "ValueError"
    BY <2>4, AnswersAre
  <2>6. Replied(s, r)'
    BY <1>2, <1>3, <2>1, <2>3, <2>4, <2>5 DEF Replied
  <2>7. Midway(s, r)'
    BY <1>3, <2>4, <2>5, <2>6 DEF Midway
  <2>. QED  BY <1>5, <2>7
<1>7. CASE ~Unknown(p)
  <2>1. ~Now.misuse
    BY <1>3, <1>7, GiveFacts DEF Unknown
  <2>2. /\ DOMAIN live' = DOMAIN live \ {p} /\ \A x \in DOMAIN live' : live'[x] = live[x]
        /\ call' = [call EXCEPT ![Tester] = Returned(0)]
    BY <1>2, <1>7
  <2>3. Stocked(r, slots, leaf, live', contents)
    BY <1>3, <2>1, <2>2, StockOfGiven
  <2>4. Midway(s, r)'
    BY <1>2, <1>3, <2>1, <2>2, <2>3, ServedMidway
  <2>. QED  BY <1>5, <2>4
<1>. QED  BY <1>6, <1>7

\* Calls change nothing but the caller's own.
LEMMA CallsOwn ==
  ASSUME NEW t,
         LeafStep(t, Bases) \/ ForeignAllocate(t) \/ ForeignDeallocate(t)
  PROVE  /\ \E x : call' = [call EXCEPT ![t] = x]
         /\ call[t].pc # "idle"
<1> USE DEF Answer, In
<1>1. ASSUME \/ RefuseNegative(t) \/ ObtainFails(t) \/ ObtainRaises(t) \/ RefuseFree(t)
             \/ ReleaseRaises(t) \/ TakeOut(t) \/ Release(t) \/ WriteLog(t)
      PROVE  (\E x : call' = [call EXCEPT ![t] = x]) /\ call[t].pc # "idle"
  BY <1>1, ZenonT(40) DEF RefuseNegative, ObtainFails, ObtainRaises, RefuseFree, ReleaseRaises, TakeOut,
     Release, WriteLog
<1>2. ASSUME NEW base, Obtain(t, base)
      PROVE  (\E x : call' = [call EXCEPT ![t] = x]) /\ call[t].pc # "idle"
  BY <1>2 DEF Obtain
<1>3. ASSUME Record(t)
      PROVE  (\E x : call' = [call EXCEPT ![t] = x]) /\ call[t].pc # "idle"
  BY <1>3 DEF Record
<1>4. ASSUME RecordAllocation(t) \/ RecordFree(t)
      PROVE  (\E x : call' = [call EXCEPT ![t] = x]) /\ call[t].pc # "idle"
  BY <1>4, ZenonT(40) DEF RecordAllocation, RecordFree
<1>5. ASSUME ForeignAllocate(t)
      PROVE  (\E x : call' = [call EXCEPT ![t] = x]) /\ call[t].pc # "idle"
  BY <1>5, ZenonT(40) DEF ForeignAllocate
<1>6. ASSUME ForeignDeallocate(t)
      PROVE  (\E x : call' = [call EXCEPT ![t] = x]) /\ call[t].pc # "idle"
  BY <1>6, ZenonT(40) DEF ForeignDeallocate
<1>. QED  BY <1>1, <1>2, <1>3, <1>4, <1>5, <1>6 DEF LeafStep

LEMMA ResourceSound ==
  ASSUME SuiteSetting, SoundRun, NEW t \in Callers, ResourceStep(t)
  PROVE  SoundRun'
<1>1. /\ verdict = "running" /\ UNCHANGED suiteVars
      /\ \/ ~Foreign /\ LeafStep(t, Bases)
         \/ ForeignAllocate(t)
         \/ ForeignDeallocate(t)
  BY DEF ResourceStep, SoundRun
<1>2. Running /\ Tester \in Callers /\ DOMAIN call = Callers
  BY <1>1, SoundFacts DEF SoundRun
<1>3. PICK x : call' = [call EXCEPT ![t] = x] /\ call[t].pc # "idle"
  BY <1>1, CallsOwn
<1>4. t = Tester
  BY <1>2, <1>3 DEF Running, Others
<1>5. PICK s, z, r : /\ z.held = {} /\ program # <<>> /\ Moves(Now, s, r)
                     /\ Leads(Tail(program), r, z) /\ Midway(s, r)
  BY <1>2, <1>3, <1>4 DEF Running, Between
<1>6. InMidst(s, r)
  BY <1>1, <1>2, <1>5 DEF InMidst, Running
<1>7. leaf' = leaf
  <2>1. LeafStep(t, Bases) \/ ForeignAllocate(t) \/ ForeignDeallocate(t)
    BY <1>1
  <2>. QED  BY <2>1, LeafUntouched, Zenon
<1>8. Midway(s, r)' /\ Kept'
  <2>1. ASSUME ~Foreign, LeafStep(Tester, Bases) PROVE Midway(s, r)' /\ Kept'
    <3>1. Kept'
      BY <1>2, <2>1, KeptCalls
    <3>2. ASSUME NEW base \in Bases, Obtain(Tester, base) PROVE Midway(s, r)'
      BY <1>6, <3>2, ObtainMidway
    <3>3. ASSUME RecordAllocation(Tester) \/ RecordFree(Tester) \/ WriteLog(Tester) PROVE FALSE
      <4>1. ~Records
        BY SoundFacts
      <4>2. call[Tester].pc # "unlogged"
        BY <1>5 DEF Midway
      <4>. QED  BY <3>3, <4>1, <4>2 DEF RecordAllocation, RecordFree, WriteLog
    <3>4. Midway(s, r)'
      BY <1>6, <2>1, <3>2, <3>3, RefusalMidway, FailureMidway, RecordMidway, TakeOutMidway, ReleaseMidway
         DEF LeafStep
    <3>. QED  BY <3>1, <3>4
  <2>. QED  BY <1>1, <1>4, <1>6, <2>1, ForeignAllocateMidway, ForeignDeallocateMidway
<1>. QED  BY <1>1, <1>3, <1>4, <1>5, <1>7, <1>8, CallGoesOn

LEMMA SoundRunNext == ASSUME SuiteSetting, SoundRun, [Next]_vars PROVE SoundRun'
<1>1. ASSUME NEW t \in Callers, CallerStep(t) PROVE SoundRun'
  BY <1>1 DEF CallerStep, SoundRun
<1>2. ASSUME UNCHANGED vars PROVE SoundRun'
  <2>1. UNCHANGED leafVars /\ UNCHANGED suiteVars
    BY <1>2 DEF vars, leafVars, suiteVars
  <2>2. Kept' /\ leaf' = leaf /\ DOMAIN call' = Callers /\ (Others => Others')
    BY <2>1, KeptStays
  <2>3. /\ UNCHANGED <<leaf, live, call, blocks, stranded, program, slots, contents, verdict>>
        /\ Now' = Now
    BY <1>2 DEF vars, Now
  <2>4. \A s, r : Midway(s, r) => Midway(s, r)'
    BY <2>3 DEF Midway, Replied, Matches, Stock, Slot
  <2>5. \A s : Between(s) => Between(s)'
    BY <2>3 DEF Between, Stock
  <2>6. Running => Running'
    BY <2>2, <2>3, <2>4, <2>5 DEF Running
  <2>. QED  BY <2>2, <2>3, <2>6 DEF SoundRun
<1>. QED
  BY <1>1, <1>2, ResourceSound, MakesSound, StartsSound, EndsSound, WritesSound, ChecksSound,
     PassesSound DEF Next

\* The suite begins.
LEMMA SoundRunInit ==
  ASSUME SuiteSetting, Init, verdict # "none", Sound(leaf)
  PROVE  SoundRun
<1>1. PICK l \in Suspects :
        FreshLeaf(l) /\ (program = MRConformance(l) \/ program \in Tests(l))
  BY DEF Init
<1>2. verdict = "running" /\ slots = Nothing
  BY DEF Init
<1>3. /\ leaf = l /\ DOMAIN live = {} /\ DOMAIN blocks = {} /\ stranded = {} /\ misfreed = FALSE
      /\ DOMAIN call = Callers /\ \A t \in Callers : call[t].pc = "idle"
  BY <1>1 DEF FreshLeaf, Nothing, Idle
<1>4. ComesBack(program, l)
  BY <1>1, <1>3, SuiteComesBack DEF SuiteSetting
<1>5. Kept
  <2>1. Ownership(Asked, Bases)
    BY <1>3 DEF Ownership, CallsOK, LibraryInv, EntriesInv, HandsInv, AllOwned, Held, Lost
  <2>2. ForeignKept
    BY <1>3 DEF ForeignKept
  <2>. QED  BY <2>1, <2>2 DEF Kept
<1>6. Between(Afresh(l)) /\ Others
  <2>1. Tester \in Callers
    BY SuiteAssumption
  <2>2. Stock(Afresh(l), slots)
    BY <1>3, StockAfresh DEF Stock
  <2>. QED  BY <1>3, <2>1, <2>2 DEF Between, Others
<1>7. Running
  BY <1>4, <1>6 DEF ComesBack, Running
<1>8. l \in Tried
  BY DEF Tried, Variants
<1>. QED  BY <1>2, <1>3, <1>5, <1>7, <1>8 DEF SoundRun
-------------------------------------------------------------------------------
(***************************************************************************)
(* Where a check notices a fault                                           *)
(***************************************************************************)
\* What there is to notice.
Noticeable == Faults \ ({"none"} \cup Unnoticed)

\* With what is known before an instruction, it can only go on with what is known after
\* it; where that is "never", the suite stops there.
Betrays(f, i, F, G) ==
  \/ F = "any" /\ G = "any"
  \/ f = "trustsSigns" /\ i = Misused(Take(1, -1)) /\ F = "any" /\ G = "never"
  \/ f = "trustsFrees" /\ i = Misused(Give(1, 64)) /\ F = "any" /\ G = "never"
  \/ /\ f = "freesTwice"
     /\ \/ i = Take(1, 64) /\ F = "any" /\ G = "block"
        \/ i = Give(1, 64) /\ F = "block" /\ G = "block"
        \/ i = Misused(Give(1, 64)) /\ F = "block" /\ G = "never"
  \/ /\ f = "forgetsNothing"
     /\ \/ i = Take(1, 64) /\ F = "any" /\ G = "entry"
        \/ i = Give(1, 64) /\ F = "entry" /\ G = "entry"
        \/ i = Misused(Give(1, 64)) /\ F = "entry" /\ G = "never"
  \/ /\ f = "dropsOnRefusal"
     /\ \/ i = Misused(Offbeat(Give(1, 64), 1)) /\ F = "any" /\ G = "nothing"
        \/ i = Give(1, 64) /\ F = "nothing" /\ G = "never"
  \/ /\ f = "nullZero"
     /\ \/ i = Take(2, 0) /\ F = "any" /\ G = "null"
        \/ i = NonNull(1) /\ F = "null" /\ G = "null"
        \/ i = NonNull(2) /\ F = "null" /\ G = "never"
  \/ /\ f = "crooked"
     /\ \/ (\E n : i = Take(1, n)) /\ F = "any" /\ G = "off"
        \/ i = AlignedTo(1, 256) /\ F = "off" /\ G = "never"
  \/ /\ f \in {"sharesZero", "aliases"}
     /\ i.op = "fresh" /\ F = "any" /\ G = "nothing"
  \/ /\ f = "sharesZero"
     /\ \/ i = Take(1, 0) /\ F = "nothing" /\ G = "one"
        \/ i = Take(2, 0) /\ F = "one" /\ G = "same"
        \/ i \in {NonNull(1), NonNull(2)} /\ F = "same" /\ G = "same"
        \/ i = Distinct(1, 2) /\ F = "same" /\ G = "never"
  \/ /\ f = "aliases"
     /\ \/ i = Take(1, 256) /\ F = "nothing" /\ G = "one"
        \/ i = Write(1, "aa") /\ F = "one" /\ G = "one"
        \/ i = Take(2, 256) /\ F = "one" /\ G = "same"
        \/ i = Write(2, "55") /\ F = "same" /\ G = "over"
        \/ i = Read(1, "aa") /\ F = "over" /\ G = "never"

\* Somewhere in a program.
Noticed(P, F, f) ==
  \E m \in 1..Len(P) : \E w :
    /\ w[1] = F /\ w[m + 1] = "never"
    /\ \A k \in 1..m : Betrays(f, P[k], w[k], w[k + 1])

LEMMA NoticedOn ==
  ASSUME NEW P \in Seq(Steps), NEW F, NEW f, Noticed(P, F, f)
  PROVE  /\ P # <<>>
         /\ \E G : Betrays(f, Head(P), F, G) /\ (G = "never" \/ Noticed(Tail(P), G, f))
<1> PICK m \in 1..Len(P) :
        \E w : /\ w[1] = F /\ w[m + 1] = "never"
              /\ \A k \in 1..m : Betrays(f, P[k], w[k], w[k + 1])
  BY DEF Noticed
<1>1. PICK w : /\ w[1] = F /\ w[m + 1] = "never"
               /\ \A k \in 1..m : Betrays(f, P[k], w[k], w[k + 1])
  OBVIOUS
<1>2. Len(P) \in Nat \ {0} /\ P # <<>>
  <2>1. Len(P) \in Nat
    BY LenProperties
  <2>2. Len(P) \in Nat \ {0}
    BY <2>1
  <2>3. Len(<<>>) = 0
    OBVIOUS
  <2>. QED  BY <2>2, <2>3
<1>3. /\ Len(Tail(P)) = Len(P) - 1 /\ Head(P) = P[1]
      /\ \A k \in 1..Len(Tail(P)) : Tail(P)[k] = P[k + 1]
  BY <1>2, HeadTailProperties
<1>4. Betrays(f, Head(P), F, w[2])
  <2>1. 1 \in 1..m /\ 1 + 1 = 2
    BY <1>2
  <2>2. Betrays(f, P[1], w[1], w[1 + 1])
    BY <1>1, <2>1
  <2>. QED  BY <1>1, <1>3, <2>1, <2>2
<1>5. CASE m = 1
  BY <1>1, <1>2, <1>4, <1>5
<1>6. CASE m # 1
  <2> DEFINE u == [k \in 1..m |-> w[k + 1]]
             n == m - 1
             R == Tail(P)
  <2>1. m \in Nat /\ n \in 1..Len(R) /\ m = n + 1
    BY <1>2, <1>3, <1>6
  <2>2. u[1] = w[2] /\ u[n + 1] = "never"
    BY <1>1, <2>1
  <2>3. ASSUME NEW k \in 1..n PROVE Betrays(f, R[k], u[k], u[k + 1])
    <3>1. k + 1 \in 1..m /\ u[k] = w[k + 1] /\ u[k + 1] = w[(k + 1) + 1] /\ k \in 1..Len(R)
      BY <2>1
    <3> HIDE DEF n, u
    <3>2. R[k] = P[k + 1]
      BY <1>3, <3>1
    <3> HIDE DEF R
    <3>. QED  BY <1>1, <3>1, <3>2
  <2> HIDE DEF u, n, R
  <2>4. Noticed(R, w[2], f)
    BY <2>1, <2>2, <2>3, Zenon DEF Noticed
  <2>. QED  BY <1>2, <1>4, <2>4 DEF R
<1>. QED  BY <1>5, <1>6

\* What came before does not matter, nor what comes after.
LEMMA NoticedAfter ==
  ASSUME NEW Q \in Seq(Steps), NEW P \in Seq(Steps), NEW f, Noticed(P, "any", f)
  PROVE  Q \o P \in Seq(Steps) /\ Noticed(Q \o P, "any", f)
<1> PICK m \in 1..Len(P) :
        \E w : /\ w[1] = "any" /\ w[m + 1] = "never"
              /\ \A k \in 1..m : Betrays(f, P[k], w[k], w[k + 1])
  BY DEF Noticed
<1>1. PICK w : /\ w[1] = "any" /\ w[m + 1] = "never"
               /\ \A k \in 1..m : Betrays(f, P[k], w[k], w[k + 1])
  OBVIOUS
<1>2. /\ Q \o P \in Seq(Steps) /\ Len(Q \o P) = Len(Q) + Len(P)
      /\ \A k \in 1..(Len(Q) + Len(P)) : (Q \o P)[k] = IF k <= Len(Q) THEN Q[k] ELSE P[k - Len(Q)]
      /\ Len(Q) \in Nat /\ Len(P) \in Nat
  BY ConcatProperties, LenProperties
<1> DEFINE n == Len(Q)
           l == Len(P)
           B == Q \o P
           u == [k \in 1..(n + m + 1) |-> IF k <= n THEN "any" ELSE w[k - n]]
<1>3. n \in Nat /\ m \in Nat \ {0} /\ m <= l /\ l \in Nat /\ Len(B) = n + l
  BY <1>2
<1>4. \A k \in 1..(n + l) : B[k] = IF k <= n THEN Q[k] ELSE P[k - n]
  BY <1>2
<1> HIDE DEF n, l, B
<1>5. n + m \in 1..Len(B)
  BY <1>3
<1>6. u[1] = "any" /\ u[(n + m) + 1] = "never"
  <2>1. u[1] = "any"
    <3>1. n = 0 => u[1] = w[1]
      BY <1>3
    <3>2. n # 0 => u[1] = "any"
      BY <1>3
    <3>. QED  BY <1>1, <3>1, <3>2
  <2>2. u[(n + m) + 1] = w[m + 1]
    BY <1>3
  <2>. QED  BY <1>1, <2>1, <2>2
<1>7. ASSUME NEW k \in 1..(n + m) PROVE Betrays(f, B[k], u[k], u[k + 1])
  <2>1. CASE k <= n
    <3>1. u[k] = "any"
      BY <1>3, <2>1
    <3>2. u[k + 1] = "any"
      <4>1. k = n => u[k + 1] = w[1]
        BY <1>3
      <4>2. k # n => u[k + 1] = "any"
        BY <1>3, <2>1
      <4>. QED  BY <1>1, <4>1, <4>2
    <3>. QED  BY <3>1, <3>2, Zenon DEF Betrays
  <2>2. CASE ~(k <= n)
    <3>1. u[k] = w[k - n] /\ u[k + 1] = w[(k - n) + 1] /\ k - n \in 1..m /\ k \in 1..(n + l)
      BY <1>3, <2>2
    <3> HIDE DEF u
    <3>2. B[k] = P[k - n]
      BY <1>4, <2>2, <3>1
    <3>3. Betrays(f, P[k - n], w[k - n], w[(k - n) + 1])
      BY <1>1, <3>1
    <3>. QED  BY <3>1, <3>2, <3>3, Zenon
  <2>. QED  BY <2>1, <2>2
<1> HIDE DEF u
<1>8. Noticed(B, "any", f)
  BY <1>5, <1>6, <1>7, Zenon DEF Noticed
<1>. QED  BY <1>2, <1>8 DEF B

LEMMA NoticedBefore ==
  ASSUME NEW P \in Seq(Steps), NEW Q \in Seq(Steps), NEW F, NEW f, Noticed(P, F, f)
  PROVE  P \o Q \in Seq(Steps) /\ Noticed(P \o Q, F, f)
<1> PICK m \in 1..Len(P) :
        \E w : /\ w[1] = F /\ w[m + 1] = "never"
              /\ \A k \in 1..m : Betrays(f, P[k], w[k], w[k + 1])
  BY DEF Noticed
<1>1. PICK w : /\ w[1] = F /\ w[m + 1] = "never"
               /\ \A k \in 1..m : Betrays(f, P[k], w[k], w[k + 1])
  OBVIOUS
<1>2. /\ P \o Q \in Seq(Steps) /\ Len(P \o Q) = Len(P) + Len(Q)
      /\ \A k \in 1..(Len(P) + Len(Q)) : (P \o Q)[k] = IF k <= Len(P) THEN P[k] ELSE Q[k - Len(P)]
      /\ Len(Q) \in Nat /\ Len(P) \in Nat
  BY ConcatProperties, LenProperties
<1>3. m \in 1..Len(P \o Q)
  BY <1>2
<1>4. ASSUME NEW k \in 1..m PROVE Betrays(f, (P \o Q)[k], w[k], w[k + 1])
  <2>1. k \in 1..(Len(P) + Len(Q)) /\ k <= Len(P)
    BY <1>2
  <2>2. (P \o Q)[k] = P[k]
    BY <1>2, <2>1
  <2>. QED  BY <1>1, <2>2
<1>5. Noticed(P \o Q, F, f)
  BY <1>1, <1>3, <1>4, Zenon DEF Noticed
<1>. QED  BY <1>2, <1>5

LEMMA NoticedNext ==
  ASSUME NEW i \in Steps, NEW P \in Seq(Steps), NEW F, NEW G, NEW f,
         Betrays(f, i, F, G), Noticed(P, G, f)
  PROVE  <<i>> \o P \in Seq(Steps) /\ Noticed(<<i>> \o P, F, f)
<1> PICK m \in 1..Len(P) :
        \E w : /\ w[1] = G /\ w[m + 1] = "never"
              /\ \A k \in 1..m : Betrays(f, P[k], w[k], w[k + 1])
  BY DEF Noticed
<1>1. PICK w : /\ w[1] = G /\ w[m + 1] = "never"
               /\ \A k \in 1..m : Betrays(f, P[k], w[k], w[k + 1])
  OBVIOUS
<1> DEFINE Q == <<i>>
           B == Q \o P
           u == [k \in 1..(m + 2) |-> IF k = 1 THEN F ELSE w[k - 1]]
<1>2. Q \in Seq(Steps) /\ Len(Q) = 1 /\ Q[1] = i
  BY FewSteps
<1> HIDE DEF Q
<1>3. /\ B \in Seq(Steps) /\ Len(B) = 1 + Len(P) /\ Len(P) \in Nat
      /\ \A k \in 1..(1 + Len(P)) : B[k] = IF k <= 1 THEN Q[k] ELSE P[k - 1]
  <2>1. /\ B \in Seq(Steps) /\ Len(B) = Len(Q) + Len(P)
        /\ \A k \in 1..(Len(Q) + Len(P)) : B[k] = IF k <= Len(Q) THEN Q[k] ELSE P[k - Len(Q)]
    BY <1>2, ConcatProperties
  <2>2. Len(P) \in Nat
    BY LenProperties
  <2>. QED  BY <1>2, <2>1, <2>2
<1> HIDE DEF B
<1>4. m + 1 \in 1..Len(B) /\ m \in Nat \ {0} /\ m <= Len(P)
  BY <1>3
<1>5. u[1] = F /\ u[(m + 1) + 1] = "never"
  BY <1>1, <1>4
<1>6. ASSUME NEW k \in 1..(m + 1) PROVE Betrays(f, B[k], u[k], u[k + 1])
  <2>1. CASE k = 1
    <3>1. u[k] = F /\ u[k + 1] = w[1]
      BY <1>4, <2>1
    <3>2. B[k] = i
      BY <1>2, <1>3, <2>1
    <3>. QED  BY <1>1, <3>1, <3>2
  <2>2. CASE k # 1
    <3>1. u[k] = w[k - 1] /\ u[k + 1] = w[(k - 1) + 1] /\ k - 1 \in 1..m /\ k \in 1..(1 + Len(P)) /\ ~(k <= 1)
      BY <1>3, <1>4, <2>2
    <3> HIDE DEF u
    <3>2. B[k] = P[k - 1]
      BY <1>3, <3>1
    <3>3. Betrays(f, P[k - 1], w[k - 1], w[(k - 1) + 1])
      BY <1>1, <3>1
    <3>. QED  BY <3>1, <3>2, <3>3, Zenon
  <2>. QED  BY <2>1, <2>2
<1> HIDE DEF u
<1>7. Noticed(B, F, f)
  BY <1>4, <1>5, <1>6, Zenon DEF Noticed
<1>. QED  BY <1>3, <1>7 DEF B, Q

\* Each check, and what it notices.
LEMMA ZeroByteNotices ==
  Noticed(CheckZeroByte, "any", "nullZero") /\ Noticed(CheckZeroByte, "nothing", "sharesZero")
<1> DEFINE P == CheckZeroByte
           v == <<"any", "any", "null", "null", "never">>
           w == <<"nothing", "one", "same", "same", "same", "never">>
<1>1. /\ Len(P) = 8 /\ P[1] = Take(1, 0) /\ P[2] = Take(2, 0)
      /\ P[3] = NonNull(1) /\ P[4] = NonNull(2) /\ P[5] = Distinct(1, 2)
  BY DEF CheckZeroByte
<1>2. /\ v[1] = "any" /\ v[2] = "any" /\ v[3] = "null" /\ v[4] = "null" /\ v[5] = "never"
      /\ w[1] = "nothing" /\ w[2] = "one" /\ w[3] = "same" /\ w[4] = "same" /\ w[5] = "same"
      /\ w[6] = "never"
  OBVIOUS
<1> HIDE DEF P, v, w
<1>3. /\ Betrays("nullZero", Take(1, 0), "any", "any")
      /\ Betrays("nullZero", Take(2, 0), "any", "null")
      /\ Betrays("nullZero", NonNull(1), "null", "null")
      /\ Betrays("nullZero", NonNull(2), "null", "never")
  BY Zenon DEF Betrays
<1>4. /\ Betrays("sharesZero", Take(1, 0), "nothing", "one")
      /\ Betrays("sharesZero", Take(2, 0), "one", "same")
      /\ Betrays("sharesZero", NonNull(1), "same", "same")
      /\ Betrays("sharesZero", NonNull(2), "same", "same")
      /\ Betrays("sharesZero", Distinct(1, 2), "same", "never")
  BY Zenon DEF Betrays
<1>5. \A k \in 1..4 : Betrays("nullZero", P[k], v[k], v[k + 1])
  BY <1>1, <1>2, <1>3
<1>6. \A k \in 1..5 : Betrays("sharesZero", P[k], w[k], w[k + 1])
  BY <1>1, <1>2, <1>4
<1>7. 4 \in 1..Len(P) /\ 5 \in 1..Len(P) /\ v[4 + 1] = "never" /\ w[5 + 1] = "never"
  BY <1>1, <1>2
<1>8. Noticed(P, "any", "nullZero") /\ Noticed(P, "nothing", "sharesZero")
  BY <1>2, <1>5, <1>6, <1>7, Zenon DEF Noticed
<1>. QED  BY <1>8 DEF P

LEMMA NoAliasingNotices == Noticed(CheckNoAliasing, "nothing", "aliases")
<1> DEFINE P == CheckNoAliasing
           w == <<"nothing", "one", "one", "same", "over", "never">>
<1>1. /\ Len(P) = 8 /\ P[1] = Take(1, 256) /\ P[2] = Write(1, "aa")
      /\ P[3] = Take(2, 256) /\ P[4] = Write(2, "55") /\ P[5] = Read(1, "aa")
  BY DEF CheckNoAliasing
<1>2. /\ w[1] = "nothing" /\ w[2] = "one" /\ w[3] = "one" /\ w[4] = "same" /\ w[5] = "over"
      /\ w[6] = "never"
  OBVIOUS
<1> HIDE DEF P, w
<1>3. /\ Betrays("aliases", Take(1, 256), "nothing", "one")
      /\ Betrays("aliases", Write(1, "aa"), "one", "one")
      /\ Betrays("aliases", Take(2, 256), "one", "same")
      /\ Betrays("aliases", Write(2, "55"), "same", "over")
      /\ Betrays("aliases", Read(1, "aa"), "over", "never")
  BY Zenon DEF Betrays
<1>4. \A k \in 1..5 : Betrays("aliases", P[k], w[k], w[k + 1])
  BY <1>1, <1>2, <1>3
<1>5. 5 \in 1..Len(P) /\ w[5 + 1] = "never"
  BY <1>1, <1>2
<1>6. Noticed(P, "nothing", "aliases")
  BY <1>2, <1>4, <1>5, Zenon DEF Noticed
<1>. QED  BY <1>6 DEF P

LEMMA DoubleFreeNotices ==
  /\ Noticed(CheckDoubleFree, "any", "freesTwice")
  /\ Noticed(CheckDoubleFree, "any", "forgetsNothing")
  /\ Noticed(CheckDoubleFree, "any", "trustsFrees")
<1> DEFINE P == CheckDoubleFree
           u == <<"any", "block", "block", "never">>
           v == <<"any", "entry", "entry", "never">>
           w == <<"any", "any", "any", "never">>
<1>1. Len(P) = 3 /\ P[1] = Take(1, 64) /\ P[2] = Give(1, 64) /\ P[3] = Misused(Give(1, 64))
  BY DEF CheckDoubleFree
<1>2. /\ u[1] = "any" /\ u[2] = "block" /\ u[3] = "block" /\ u[4] = "never"
      /\ v[1] = "any" /\ v[2] = "entry" /\ v[3] = "entry" /\ v[4] = "never"
      /\ w[1] = "any" /\ w[2] = "any" /\ w[3] = "any" /\ w[4] = "never"
  OBVIOUS
<1> HIDE DEF P, u, v, w
<1>3. /\ Betrays("freesTwice", Take(1, 64), "any", "block")
      /\ Betrays("freesTwice", Give(1, 64), "block", "block")
      /\ Betrays("freesTwice", Misused(Give(1, 64)), "block", "never")
  BY Zenon DEF Betrays
<1>4. /\ Betrays("forgetsNothing", Take(1, 64), "any", "entry")
      /\ Betrays("forgetsNothing", Give(1, 64), "entry", "entry")
      /\ Betrays("forgetsNothing", Misused(Give(1, 64)), "entry", "never")
  BY Zenon DEF Betrays
<1>5. /\ Betrays("trustsFrees", Take(1, 64), "any", "any")
      /\ Betrays("trustsFrees", Give(1, 64), "any", "any")
      /\ Betrays("trustsFrees", Misused(Give(1, 64)), "any", "never")
  BY Zenon DEF Betrays
<1>6. /\ \A k \in 1..3 : Betrays("freesTwice", P[k], u[k], u[k + 1])
      /\ \A k \in 1..3 : Betrays("forgetsNothing", P[k], v[k], v[k + 1])
      /\ \A k \in 1..3 : Betrays("trustsFrees", P[k], w[k], w[k + 1])
  BY <1>1, <1>2, <1>3, <1>4, <1>5
<1>7. 3 \in 1..Len(P) /\ u[3 + 1] = "never" /\ v[3 + 1] = "never" /\ w[3 + 1] = "never"
  BY <1>1, <1>2
<1>8. /\ Noticed(P, "any", "freesTwice") /\ Noticed(P, "any", "forgetsNothing")
      /\ Noticed(P, "any", "trustsFrees")
  BY <1>2, <1>6, <1>7, Zenon DEF Noticed
<1>. QED  BY <1>8 DEF P

LEMMA ForeignFreeNotices == Noticed(CheckForeignFree, "any", "dropsOnRefusal")
<1> DEFINE P == CheckForeignFree
           w == <<"any", "any", "nothing", "never">>
<1>1. /\ Len(P) = 4 /\ P[1] = Take(1, 64) /\ P[2] = Misused(Offbeat(Give(1, 64), 1))
      /\ P[3] = Give(1, 64)
  BY DEF CheckForeignFree
<1>2. w[1] = "any" /\ w[2] = "any" /\ w[3] = "nothing" /\ w[4] = "never"
  OBVIOUS
<1> HIDE DEF P, w
<1>3. /\ Betrays("dropsOnRefusal", Take(1, 64), "any", "any")
      /\ Betrays("dropsOnRefusal", Misused(Offbeat(Give(1, 64), 1)), "any", "nothing")
      /\ Betrays("dropsOnRefusal", Give(1, 64), "nothing", "never")
  BY Zenon DEF Betrays
<1>4. \A k \in 1..3 : Betrays("dropsOnRefusal", P[k], w[k], w[k + 1])
  BY <1>1, <1>2, <1>3
<1>5. 3 \in 1..Len(P) /\ w[3 + 1] = "never"
  BY <1>1, <1>2
<1>6. Noticed(P, "any", "dropsOnRefusal")
  BY <1>2, <1>4, <1>5, Zenon DEF Noticed
<1>. QED  BY <1>6 DEF P

LEMMA NegativeSizeNotices == Noticed(CheckNegativeSize, "any", "trustsSigns")
<1> DEFINE P == CheckNegativeSize
           w == <<"any", "never">>
<1>1. Len(P) = 1 /\ P[1] = Misused(Take(1, -1)) /\ w[1] = "any" /\ w[2] = "never"
  BY DEF CheckNegativeSize
<1> HIDE DEF P, w
<1>2. Betrays("trustsSigns", Misused(Take(1, -1)), "any", "never")
  BY Zenon DEF Betrays
<1>3. \A k \in 1..1 : Betrays("trustsSigns", P[k], w[k], w[k + 1])
  BY <1>1, <1>2
<1>4. 1 \in 1..Len(P) /\ w[1 + 1] = "never"
  BY <1>1
<1>5. Noticed(P, "any", "trustsSigns")
  BY <1>1, <1>3, <1>4, Zenon DEF Noticed
<1>. QED  BY <1>5 DEF P

\* The last of the sizes is enough.
LEMMA GuaranteedNotices ==
  ASSUME SuiteDraws, NEW l, l.guarantee = 256
  PROVE  Noticed(CheckGuaranteedAlignment(l), "any", "crooked")
<1> DEFINE n == Len(GuaranteeSizes)
           triple(k) == <<Take(1, k), AlignedTo(1, l.guarantee), Give(1, k)>>
           F == [i \in 1..n |-> triple(GuaranteeSizes[i])]
<1>1. n \in Nat \ {0} /\ \A i \in 1..n : GuaranteeSizes[i] \in Int
  BY DEF SuiteDraws
<1>2. CheckGuaranteedAlignment(l) = FlattenSeq(F)
  BY Zenon DEF CheckGuaranteedAlignment
<1>3. ASSUME NEW k \in Int PROVE triple(k) \in Seq(Steps)
  <2>1. Take(1, k) \in Steps /\ AlignedTo(1, l.guarantee) \in Steps /\ Give(1, k) \in Steps
    BY Typed
  <2>. QED  BY <2>1, FewSteps
<1>4. F \in [1..n -> Seq(Steps)] /\ F[n] = triple(GuaranteeSizes[n])
  <2>1. n \in 1..n
    BY <1>1
  <2>2. \A i \in 1..n : triple(GuaranteeSizes[i]) \in Seq(Steps)
    BY <1>1, <1>3
  <2> HIDE DEF triple, n
  <2>. QED  BY <2>1, <2>2
<1>5. Noticed(triple(GuaranteeSizes[n]), "any", "crooked")
  <2> DEFINE P == triple(GuaranteeSizes[n])
             w == <<"any", "off", "never">>
  <2>1. Len(P) = 3 /\ P[1] = Take(1, GuaranteeSizes[n]) /\ P[2] = AlignedTo(1, 256)
    OBVIOUS
  <2>2. w[1] = "any" /\ w[2] = "off" /\ w[3] = "never"
    OBVIOUS
  <2>3. /\ Betrays("crooked", Take(1, GuaranteeSizes[n]), "any", "off")
        /\ Betrays("crooked", AlignedTo(1, 256), "off", "never")
    <3>1. Betrays("crooked", AlignedTo(1, 256), "off", "never")
      BY Zenon DEF Betrays
    <3> DEFINE i == Take(1, GuaranteeSizes[n])
    <3>2. \E k : i = Take(1, k)
      OBVIOUS
    <3> HIDE DEF i
    <3>3. Betrays("crooked", i, "any", "off")
      BY <3>2, Zenon DEF Betrays
    <3>. QED  BY <3>1, <3>3, Zenon DEF i
  <2> HIDE DEF P, w
  <2>4. \A k \in 1..2 : Betrays("crooked", P[k], w[k], w[k + 1])
    BY <2>1, <2>2, <2>3
  <2>5. 2 \in 1..Len(P) /\ w[2 + 1] = "never"
    BY <2>1, <2>2
  <2>6. Noticed(P, "any", "crooked")
    BY <2>2, <2>4, <2>5, Zenon DEF Noticed
  <2>. QED  BY <2>6 DEF P
<1> HIDE DEF n, F, triple
<1>6. PICK rest \in Seq(Steps) : FlattenSeq(F) = rest \o F[n]
  <2>1. n \in Nat \ {0} /\ F \in [1..n -> Seq(Steps)]
    BY <1>1, <1>4
  <2>2. n \in Nat /\ n # 0
    BY <2>1
  <2>3. EndsAlike(F, n, Steps)
    BY <2>1, <2>2, FlatEnds, Zenon
  <2>. QED  BY <2>3 DEF EndsAlike
<1>7. F[n] \in Seq(Steps)
  BY <1>1, <1>4
<1>8. Noticed(rest \o F[n], "any", "crooked")
  BY <1>4, <1>5, <1>7, NoticedAfter
<1>. QED  BY <1>2, <1>6, <1>8

LEMMA NoticedBoth ==
  ASSUME NEW P \in Seq(Steps), NEW Q \in Seq(Steps), NEW f,
         Noticed(P, "any", f) \/ Noticed(Q, "any", f)
  PROVE  P \o Q \in Seq(Steps) /\ Noticed(P \o Q, "any", f)
BY NoticedAfter, NoticedBefore, Zenon

LEMMA AnewIs ==
  ASSUME NEW l, l.alignment = 1, NEW P \in Seq(Steps)
  PROVE  /\ Anew(l, P) \in Seq(Steps)
         /\ \A f : Noticed(P, "any", f) => Noticed(Anew(l, P), "any", f)
         /\ \A f \in {"sharesZero", "aliases"} :
              Noticed(P, "nothing", f) => Noticed(Anew(l, P), "any", f)
<1> DEFINE i == Fresh(l.alignment)
<1>1. i \in Steps /\ i.op = "fresh"
  <2>1. l.alignment \in Int
    OBVIOUS
  <2>2. i.op = "fresh"
    BY DEF Fresh, Instruction
  <2>. QED  BY <2>1, <2>2, Typed
<1>2. Anew(l, P) = <<i>> \o P
  BY Zenon DEF Anew
<1> HIDE DEF i
<1>3. <<i>> \in Seq(Steps)
  BY <1>1
<1>4. <<i>> \o P \in Seq(Steps)
  BY <1>3, ConcatProperties, Zenon
<1>5. \A f : Noticed(P, "any", f) => Noticed(<<i>> \o P, "any", f)
  BY <1>3, NoticedAfter, Zenon
<1>6. \A f \in {"sharesZero", "aliases"} : Betrays(f, i, "any", "nothing")
  BY <1>1, Zenon DEF Betrays
<1>7. \A f \in {"sharesZero", "aliases"} :
        Noticed(P, "nothing", f) => Noticed(<<i>> \o P, "any", f)
  BY <1>1, <1>6, NoticedNext, Zenon
<1>. QED  BY <1>2, <1>4, <1>5, <1>7, Zenon

\* Every fault that is to be noticed is noticed by the whole suite.
LEMMA SuiteNotices ==
  ASSUME SuiteDraws, NEW f \in Noticeable, NEW l, l = ThirdParty(f)
  PROVE  MRConformance(l) \in Seq(Steps) /\ Noticed(MRConformance(l), "any", f)
<1>1. l.alignment = 1 /\ l.guarantee = 256 /\ l.name = f
  BY DEF ThirdParty, Plain
<1>2. /\ CheckWriteThenRead \in Seq(Steps) /\ CheckNoAliasing \in Seq(Steps)
      /\ CheckGuaranteedAlignment(l) \in Seq(Steps) /\ CheckBookkeeping \in Seq(Steps)
      /\ CheckDoubleFree \in Seq(Steps) /\ CheckForeignFree \in Seq(Steps)
      /\ CheckZeroByte \in Seq(Steps) /\ CheckNegativeSize \in Seq(Steps)
  <2>1. l.guarantee \in Int
    BY <1>1
  <2>. QED
    BY <2>1, WriteThenReadIsBack, NoAliasingIsBack, GuaranteedIsBack, BookkeepingIsBack, DoubleFreeIsBack,
       ForeignFreeIsBack, ZeroByteIsBack, NegativeSizeIsBack DEF Back
<1> DEFINE p1 == Anew(l, CheckWriteThenRead)
           p2 == Anew(l, CheckNoAliasing)
           p3 == Anew(l, CheckGuaranteedAlignment(l))
           p4 == Sweep(l)
           p5 == Anew(l, CheckBookkeeping)
           p6 == Anew(l, CheckDoubleFree)
           p7 == Anew(l, CheckForeignFree)
           p8 == Anew(l, CheckZeroByte)
           p9 == Anew(l, CheckNegativeSize)
<1>3. MRConformance(l) = (((((((p1 \o p2) \o p3) \o p4) \o p5) \o p6) \o p7) \o p8) \o p9
  BY Zenon DEF MRConformance
<1>4. p4 \in Seq(Steps)
  <2>1. ~AcceptsAlignment(l)
    BY <1>1 DEF AcceptsAlignment, Noticeable, Faults, Unnoticed
  <2>. QED  BY <2>1 DEF Sweep
<1>5. /\ p1 \in Seq(Steps) /\ p2 \in Seq(Steps) /\ p3 \in Seq(Steps) /\ p5 \in Seq(Steps)
      /\ p6 \in Seq(Steps) /\ p7 \in Seq(Steps) /\ p8 \in Seq(Steps) /\ p9 \in Seq(Steps)
  BY <1>1, <1>2, AnewIs, Zenon
<1>6. \/ f = "aliases" /\ Noticed(p2, "any", f)
      \/ f = "crooked" /\ Noticed(p3, "any", f)
      \/ f \in {"freesTwice", "forgetsNothing", "trustsFrees"} /\ Noticed(p6, "any", f)
      \/ f = "dropsOnRefusal" /\ Noticed(p7, "any", f)
      \/ f \in {"nullZero", "sharesZero"} /\ Noticed(p8, "any", f)
      \/ f = "trustsSigns" /\ Noticed(p9, "any", f)
  <2>1. f \in { "aliases", "crooked", "sharesZero", "nullZero", "trustsSigns", "trustsFrees",
                "freesTwice", "dropsOnRefusal", "forgetsNothing" }
    BY DEF Noticeable, Faults, Unnoticed
  <2>2. Noticed(p2, "any", "aliases")
    BY <1>1, <1>2, NoAliasingNotices, AnewIs, Zenon
  <2>3. Noticed(p3, "any", "crooked")
    BY <1>1, <1>2, GuaranteedNotices, AnewIs, Zenon
  <2>4. /\ Noticed(p6, "any", "freesTwice") /\ Noticed(p6, "any", "forgetsNothing")
        /\ Noticed(p6, "any", "trustsFrees")
    BY <1>1, <1>2, DoubleFreeNotices, AnewIs, Zenon
  <2>5. Noticed(p7, "any", "dropsOnRefusal")
    BY <1>1, <1>2, ForeignFreeNotices, AnewIs, Zenon
  <2>6. Noticed(p8, "any", "nullZero") /\ Noticed(p8, "any", "sharesZero")
    BY <1>1, <1>2, ZeroByteNotices, AnewIs, Zenon
  <2>7. Noticed(p9, "any", "trustsSigns")
    BY <1>1, <1>2, NegativeSizeNotices, AnewIs, Zenon
  <2> HIDE DEF p2, p3, p6, p7, p8, p9
  <2>. QED  BY <2>1, <2>2, <2>3, <2>4, <2>5, <2>6, <2>7, Zenon
<1> HIDE DEF p1, p2, p3, p4, p5, p6, p7, p8, p9
<1>7. /\ (p1 \o p2) \in Seq(Steps)
      /\ Noticed(p2, "any", f) => Noticed(p1 \o p2, "any", f)
  BY <1>5, NoticedBoth, ConcatProperties, Zenon
<1>8. /\ (p1 \o p2) \o p3 \in Seq(Steps)
      /\ Noticed(p2, "any", f) \/ Noticed(p3, "any", f) => Noticed((p1 \o p2) \o p3, "any", f)
  BY <1>5, <1>7, NoticedBoth, ConcatProperties, Zenon
<1> DEFINE q3 == (p1 \o p2) \o p3
           q5 == (q3 \o p4) \o p5
           q6 == q5 \o p6
           q7 == q6 \o p7
           q8 == q7 \o p8
           q9 == q8 \o p9
<1>9. MRConformance(l) = q9
  BY <1>3
<1>10. q3 \in Seq(Steps) /\ (Noticed(p2, "any", f) \/ Noticed(p3, "any", f) => Noticed(q3, "any", f))
  BY <1>8
<1> HIDE DEF q3
<1>11. q5 \in Seq(Steps) /\ (Noticed(q3, "any", f) => Noticed(q5, "any", f))
  <2>1. q3 \o p4 \in Seq(Steps) /\ (Noticed(q3, "any", f) => Noticed(q3 \o p4, "any", f))
    BY <1>4, <1>10, NoticedBoth, ConcatProperties, Zenon
  <2>. QED  BY <1>5, <2>1, NoticedBoth, ConcatProperties, Zenon
<1> HIDE DEF q5
<1>12. q6 \in Seq(Steps) /\ (Noticed(q5, "any", f) \/ Noticed(p6, "any", f) => Noticed(q6, "any", f))
  BY <1>5, <1>11, NoticedBoth, ConcatProperties, Zenon
<1> HIDE DEF q6
<1>13. q7 \in Seq(Steps) /\ (Noticed(q6, "any", f) \/ Noticed(p7, "any", f) => Noticed(q7, "any", f))
  BY <1>5, <1>12, NoticedBoth, ConcatProperties, Zenon
<1> HIDE DEF q7
<1>14. q8 \in Seq(Steps) /\ (Noticed(q7, "any", f) \/ Noticed(p8, "any", f) => Noticed(q8, "any", f))
  BY <1>5, <1>13, NoticedBoth, ConcatProperties, Zenon
<1> HIDE DEF q8
<1>15. q9 \in Seq(Steps) /\ (Noticed(q8, "any", f) \/ Noticed(p9, "any", f) => Noticed(q9, "any", f))
  BY <1>5, <1>14, NoticedBoth, ConcatProperties, Zenon
<1> HIDE DEF q9
<1>. QED  BY <1>6, <1>9, <1>10, <1>11, <1>12, <1>13, <1>14, <1>15, Zenon
-------------------------------------------------------------------------------
(***************************************************************************)
(* The suite on a resource with a fault                                    *)
(***************************************************************************)
SlotIn(at, i) == IF i \in DOMAIN at THEN at[i] ELSE 0
BlockIn(lv, ptr) == IF ptr \notin DOMAIN lv THEN 0 ELSE lv[ptr].base

\* What is known between two instructions.
IsSo(F, at, lv, ct) ==
  \/ F = "any"
  \/ F = "nothing" /\ DOMAIN lv = {}
  \/ F = "one" /\ DOMAIN lv = {SlotIn(at, 1)} /\ lv[SlotIn(at, 1)].base = SlotIn(at, 1)
  \/ F = "same" /\ SlotIn(at, 2) = SlotIn(at, 1)
  \/ F = "over" /\ ContentsIn(ct, BlockIn(lv, SlotIn(at, 1))) = "55"
  \/ F = "entry" /\ SlotIn(at, 1) \in DOMAIN lv \cap Nat
  \/ F = "block" /\ SlotIn(at, 1) \in Bases
  \/ F = "null" /\ SlotIn(at, 2) = 0
  \/ F = "off" /\ SlotIn(at, 1) % 256 = 8

\* With this answer the suite goes on.
Wanted(c, i) == (c.ok /\ ~i.misuse) \/ (~c.ok /\ i.misuse /\ c.error = "ValueError")
SlotsAfter(c, i, at) == IF c.ok /\ i.op = "take" THEN With(at, i.slot, c.ptr) ELSE at

\* The instruction that is next, or its call, can only lead on to G.
Pending(F, G) ==
  LET c == call[Tester] IN
  \/ c.pc = "idle" /\ IsSo(F, slots, live, contents)
  \/ /\ Now.op \in {"take", "give"}
     /\ \/ c.pc = "called" /\ Matches /\ IsSo(F, slots, live, contents)
        \/ /\ c.pc = "returned"
           /\ Wanted(c, Now) => IsSo(G, SlotsAfter(c, Now, slots), live, contents)

\* Inductive: the fault is still to be noticed, or has been.
FaultyRun ==
  \E f \in Noticeable :
    /\ leaf = ThirdParty(f) /\ complete /\ DOMAIN call = Callers
    /\ verdict \in {"running", "failed", "raised", "exhausted"}
    /\ verdict = "running" =>
         /\ Others /\ program \in Seq(Steps) /\ program # <<>>
         /\ \E F, G : /\ Betrays(f, Now, F, G) /\ (G = "never" \/ Noticed(Tail(program), G, f))
                      /\ Pending(F, G)

LEMMA FieldsAre ==
  ASSUME NEW k, NEW n
  PROVE  /\ LET i == Take(k, n) IN
              i.op = "take" /\ i.slot = k /\ i.n = n /\ i.off = 0 /\ i.misuse = FALSE
         /\ LET i == Give(k, n) IN
              i.op = "give" /\ i.slot = k /\ i.n = n /\ i.off = 0 /\ i.misuse = FALSE
         /\ LET i == Misused(Take(k, n)) IN
              i.op = "take" /\ i.slot = k /\ i.n = n /\ i.off = 0 /\ i.misuse = TRUE
         /\ LET i == Misused(Give(k, n)) IN
              i.op = "give" /\ i.slot = k /\ i.n = n /\ i.off = 0 /\ i.misuse = TRUE
         /\ LET i == Misused(Offbeat(Give(k, n), 1)) IN
              i.op = "give" /\ i.slot = k /\ i.n = n /\ i.off = 1 /\ i.misuse = TRUE
         /\ LET i == AlignedTo(k, n) IN i.op = "aligned" /\ i.slot = k /\ i.n = n
         /\ LET i == NonNull(k) IN i.op = "nonnull" /\ i.slot = k
         /\ LET i == Distinct(k, n) IN i.op = "distinct" /\ i.slot = k /\ i.n = n
         /\ LET i == Write(k, n) IN i.op = "write" /\ i.slot = k /\ i.tag = n
         /\ LET i == Read(k, n) IN i.op = "read" /\ i.slot = k /\ i.tag = n
<1>1. LET i == Take(k, n) IN
        i.op = "take" /\ i.slot = k /\ i.n = n /\ i.off = 0 /\ i.misuse = FALSE
  BY DEF Take, Instruction
<1>2. LET i == Give(k, n) IN
        i.op = "give" /\ i.slot = k /\ i.n = n /\ i.off = 0 /\ i.misuse = FALSE
  BY DEF Give, Instruction
<1>3. LET i == Misused(Take(k, n)) IN
        i.op = "take" /\ i.slot = k /\ i.n = n /\ i.off = 0 /\ i.misuse = TRUE
  BY DEF Misused, Take, Instruction
<1>4. LET i == Misused(Give(k, n)) IN
        i.op = "give" /\ i.slot = k /\ i.n = n /\ i.off = 0 /\ i.misuse = TRUE
  BY DEF Misused, Give, Instruction
<1>5. LET i == Misused(Offbeat(Give(k, n), 1)) IN
        i.op = "give" /\ i.slot = k /\ i.n = n /\ i.off = 1 /\ i.misuse = TRUE
  BY DEF Misused, Offbeat, Give, Instruction
<1>6. LET i == AlignedTo(k, n) IN i.op = "aligned" /\ i.slot = k /\ i.n = n
  BY DEF AlignedTo, Instruction
<1>7. LET i == NonNull(k) IN i.op = "nonnull" /\ i.slot = k
  BY DEF NonNull, Instruction
<1>8. LET i == Distinct(k, n) IN i.op = "distinct" /\ i.slot = k /\ i.n = n
  BY DEF Distinct, Instruction
<1>9. LET i == Write(k, n) IN i.op = "write" /\ i.slot = k /\ i.tag = n
  BY DEF Write, Instruction
<1>10. LET i == Read(k, n) IN i.op = "read" /\ i.slot = k /\ i.tag = n
  BY DEF Read, Instruction
<1>. QED  BY <1>1, <1>2, <1>3, <1>4, <1>5, <1>6, <1>7, <1>8, <1>9, <1>10, Zenon

LEMMA SlotInWith ==
  ASSUME NEW at, NEW k, NEW x
  PROVE  SlotIn(With(at, k, x), k) = x /\ \A j : j # k => SlotIn(With(at, k, x), j) = SlotIn(at, j)
<1> DEFINE g == With(at, k, x)
<1>1. DOMAIN g = DOMAIN at \cup {k} /\ g[k] = x /\ \A j \in DOMAIN at : j # k => g[j] = at[j]
  BY DEF With
<1> HIDE DEF g
<1>2. SlotIn(g, k) = x /\ \A j : j # k => SlotIn(g, j) = SlotIn(at, j)
  BY <1>1 DEF SlotIn
<1>. QED  BY <1>2 DEF g

\* How a third party's resource with a fault allocates, at one of the library's blocks.
Allots(f, base, e) ==
  LET ptr == PointerOf(Now.n, base) IN
  /\ base % 256 = 0 /\ e.base = base
  /\ (f = "aliases" \/ (f = "sharesZero" /\ Now.n = 0)) =>
       (DOMAIN live = {} \/ \E p \in DOMAIN live : base = live[p].base)
  /\ live' = With(live, ptr, e)
  /\ call' = [call EXCEPT ![Tester] = Returned(ptr)]

LEMMA FaultyAllocates ==
  ASSUME NEW f \in Noticeable, leaf = ThirdParty(f), ForeignAllocate(Tester),
         call[Tester].n = Now.n
  PROVE  /\ leaf' = leaf
         /\ \/ Now.n < 0 /\ f # "trustsSigns" /\ call' = [call EXCEPT ![Tester] = Raised("ValueError")]
            \/ /\ (Now.n < 0) => (f = "trustsSigns")
               /\ \E base \in Bases : \E e : Allots(f, base, e)
<1> DEFINE n == call[Tester].n
<1>1. leaf.name = f /\ leaf.guarantee = 256 /\ leaf' = leaf
  BY DEF ThirdParty, Plain, ForeignAllocate
<1>2. IF n < 0 /\ leaf.name # "trustsSigns"
      THEN Answer(Tester, Raised("ValueError")) /\ UNCHANGED <<live, blocks>>
      ELSE \E base \in Bases :
             /\ base % leaf.guarantee = 0
             /\ IF DOMAIN live # {} /\ (leaf.name = "aliases" \/ (leaf.name = "sharesZero" /\ n = 0))
                THEN base \in {live[ptr].base : ptr \in DOMAIN live}
                ELSE base \notin DOMAIN blocks
             /\ LET ptr == PointerOf(n, base)
                    bytes == IF leaf.name = "short" THEN n - 1 ELSE n
                IN /\ live' = With(live, ptr, [n |-> n, base |-> base])
                   /\ blocks' = With(blocks, base, bytes)
                   /\ Answer(Tester, Returned(ptr))
  BY Zenon DEF ForeignAllocate
<1>3. n = Now.n
  OBVIOUS
<1> HIDE DEF n
<1>4. CASE n < 0 /\ f # "trustsSigns"
  <2>1. call' = [call EXCEPT ![Tester] = Raised("ValueError")]
    BY <1>1, <1>2, <1>4 DEF Answer
  <2>. QED  BY <1>1, <1>3, <1>4, <2>1
<1>5. CASE ~(n < 0 /\ f # "trustsSigns")
  <2>1. PICK base \in Bases :
          /\ base % leaf.guarantee = 0
          /\ IF DOMAIN live # {} /\ (leaf.name = "aliases" \/ (leaf.name = "sharesZero" /\ n = 0))
             THEN base \in {live[ptr].base : ptr \in DOMAIN live}
             ELSE base \notin DOMAIN blocks
          /\ live' = With(live, PointerOf(n, base), [n |-> n, base |-> base])
          /\ Answer(Tester, Returned(PointerOf(n, base)))
    BY <1>1, <1>2, <1>5
  <2> DEFINE e == [n |-> n, base |-> base]
             ptr == PointerOf(n, base)
  <2>2. e.base = base
    OBVIOUS
  <2>3. live' = With(live, ptr, e) /\ call' = [call EXCEPT ![Tester] = Returned(ptr)]
    BY <2>1, Zenon DEF Answer
  <2> HIDE DEF e
  <2>4. (f = "aliases" \/ (f = "sharesZero" /\ n = 0)) =>
          (DOMAIN live = {} \/ \E p \in DOMAIN live : base = live[p].base)
    BY <1>1, <2>1, ZenonT(40)
  <2>5. Allots(f, base, e)
    BY <1>1, <1>3, <2>1, <2>2, <2>3, <2>4, Zenon DEF Allots
  <2>. QED  BY <1>1, <1>3, <1>5, <2>5, Zenon
<1>. QED  BY <1>4, <1>5

\* A take that has to do with a fault.
TakeNears(f, i, F, G) ==
  \/ G = "any"
  \/ f = "trustsSigns" /\ i.n = -1 /\ i.misuse
  \/ /\ ~i.misuse /\ i.slot = 1
     /\ \/ f = "freesTwice" /\ G = "block"
        \/ f = "forgetsNothing" /\ G = "entry"
        \/ f = "crooked" /\ G = "off"
        \/ f = "sharesZero" /\ i.n = 0 /\ F = "nothing" /\ G = "one"
        \/ f = "aliases" /\ F = "nothing" /\ G = "one"
  \/ /\ ~i.misuse /\ i.slot = 2
     /\ \/ f = "nullZero" /\ i.n = 0 /\ G = "null"
        \/ f = "sharesZero" /\ i.n = 0 /\ F = "one" /\ G = "same"
        \/ f = "aliases" /\ F = "one" /\ G = "same"

LEMMA TakeBetrays ==
  ASSUME NEW f, NEW i, NEW F, NEW G, Betrays(f, i, F, G), i.op = "take"
  PROVE  TakeNears(f, i, F, G)
<1>1. ASSUME NEW k, NEW n, i = Take(k, n) PROVE i.slot = k /\ i.n = n /\ i.misuse = FALSE
  BY <1>1 DEF Take, Instruction
<1>2. ASSUME NEW n, i = Misused(Take(1, n)) PROVE i.n = n /\ i.misuse = TRUE
  BY <1>2 DEF Misused, Take, Instruction
<1>3. i # Give(1, 64) /\ i # Misused(Give(1, 64)) /\ i # Misused(Offbeat(Give(1, 64), 1))
  <2>1. Give(1, 64).op = "give"
    BY DEF Give, Instruction
  <2>2. Misused(Give(1, 64)).op = "give"
    BY DEF Misused, Give, Instruction
  <2>3. Misused(Offbeat(Give(1, 64), 1)).op = "give"
    BY DEF Misused, Offbeat, Give, Instruction
  <2>. QED  BY <2>1, <2>2, <2>3
<1>4. i # NonNull(1) /\ i # NonNull(2) /\ i # AlignedTo(1, 256) /\ i # Distinct(1, 2)
  BY DEF NonNull, AlignedTo, Distinct, Instruction
<1>5. i # Write(1, "aa") /\ i # Write(2, "55") /\ i # Read(1, "aa") /\ i.op # "fresh"
  BY DEF Write, Read, Instruction
<1>6. /\ i = Take(1, 64) => i.slot = 1 /\ i.misuse = FALSE
      /\ i = Take(2, 0) => i.slot = 2 /\ i.n = 0 /\ i.misuse = FALSE
      /\ i = Take(1, 0) => i.slot = 1 /\ i.n = 0 /\ i.misuse = FALSE
      /\ i = Take(1, 256) => i.slot = 1 /\ i.misuse = FALSE
      /\ i = Take(2, 256) => i.slot = 2 /\ i.misuse = FALSE
      /\ (\E n : i = Take(1, n)) => i.slot = 1 /\ i.misuse = FALSE
  <2>1. \A k, n : i = Take(k, n) => i.slot = k /\ i.n = n /\ i.misuse = FALSE
    BY <1>1, Zenon
  <2>. QED  BY <2>1
<1>7. i = Misused(Take(1, -1)) => i.n = -1 /\ i.misuse = TRUE
  BY <1>2, Zenon
<1> DEFINE Near == TakeNears(f, i, F, G)
<1>8. /\ G = "any" => Near
      /\ (f = "trustsSigns" /\ i = Misused(Take(1, -1))) => Near
      /\ (f = "freesTwice" /\ i = Take(1, 64) /\ G = "block") => Near
      /\ (f = "forgetsNothing" /\ i = Take(1, 64) /\ G = "entry") => Near
  BY <1>6, <1>7, Zenon DEF TakeNears
<1>9. /\ (f = "nullZero" /\ i = Take(2, 0) /\ G = "null") => Near
      /\ (f = "crooked" /\ (\E n : i = Take(1, n)) /\ G = "off") => Near
  BY <1>6, Zenon DEF TakeNears
<1>10. /\ (f = "sharesZero" /\ i = Take(1, 0) /\ F = "nothing" /\ G = "one") => Near
       /\ (f = "sharesZero" /\ i = Take(2, 0) /\ F = "one" /\ G = "same") => Near
  BY <1>6, Zenon DEF TakeNears
<1>11. /\ (f = "aliases" /\ i = Take(1, 256) /\ F = "nothing" /\ G = "one") => Near
       /\ (f = "aliases" /\ i = Take(2, 256) /\ F = "one" /\ G = "same") => Near
  BY <1>6, Zenon DEF TakeNears
<1> DEFINE Some == \E n : i = Take(1, n)
<1>12. Some /\ f = "crooked" /\ G = "off" => Near
  BY <1>9, Zenon
<1> HIDE DEF Near
<1>13. /\ i # NonNull(1) /\ i # NonNull(2) /\ i \notin {NonNull(1), NonNull(2)}
       /\ i # AlignedTo(1, 256) /\ i # Distinct(1, 2)
  BY <1>4
<1>14. ASSUME f = "crooked" PROVE Near
  <2>1. f # "trustsSigns" /\ f # "trustsFrees" /\ f # "freesTwice" /\ f # "forgetsNothing"
    BY <1>14
  <2>2. f # "dropsOnRefusal" /\ f # "nullZero" /\ f # "sharesZero" /\ f # "aliases"
    BY <1>14
  <2>. QED  BY <1>8, <1>12, <1>13, <2>1, <2>2, ZenonT(40) DEF Betrays
<1>15. ASSUME f = "aliases" PROVE Near
  <2>1. f # "trustsSigns" /\ f # "trustsFrees" /\ f # "freesTwice" /\ f # "forgetsNothing"
    BY <1>15
  <2>2. f # "dropsOnRefusal" /\ f # "nullZero" /\ f # "sharesZero" /\ f # "crooked"
    BY <1>15
  <2>. QED  BY <1>5, <1>8, <1>11, <1>13, <1>15, <2>1, <2>2, ZenonT(40) DEF Betrays
<1>16. ASSUME f = "sharesZero" PROVE Near
  <2>1. f # "trustsSigns" /\ f # "trustsFrees" /\ f # "freesTwice" /\ f # "forgetsNothing"
    BY <1>16
  <2>2. f # "dropsOnRefusal" /\ f # "nullZero" /\ f # "aliases" /\ f # "crooked"
    BY <1>16
  <2>. QED  BY <1>5, <1>8, <1>10, <1>13, <1>16, <2>1, <2>2, ZenonT(40) DEF Betrays
<1>17. ASSUME f # "crooked", f # "aliases", f # "sharesZero" PROVE Near
  <2>1. f \notin {"sharesZero", "aliases"}
    BY <1>17
  <2>. QED  BY <1>3, <1>8, <1>9, <1>13, <1>17, <2>1, ZenonT(40) DEF Betrays
<1>18. Near
  BY <1>14, <1>15, <1>16, <1>17
<1>. QED  BY <1>18 DEF Near

\* Where a fault is still to be noticed, an answer to an allocation that the suite wants
\* brings it nearer.
LEMMA AllocateBetrays ==
  ASSUME NEW f \in Noticeable, leaf = ThirdParty(f), NEW F, NEW G, Betrays(f, Now, F, G),
         Now.op = "take", call[Tester].n = Now.n, Tester \in DOMAIN call,
         IsSo(F, slots, live, contents), ForeignAllocate(Tester)
  PROVE  \E c : /\ call' = [call EXCEPT ![Tester] = c] /\ c.pc = "returned"
                /\ Wanted(c, Now) => IsSo(G, SlotsAfter(c, Now, slots), live', contents)
<1>1. leaf.name = f
  BY DEF ThirdParty, Plain
<1>2. \/ G = "any"
      \/ f = "trustsSigns" /\ Now.n = -1 /\ Now.misuse
      \/ /\ ~Now.misuse /\ Now.slot = 1
         /\ \/ f = "freesTwice" /\ G = "block"
            \/ f = "forgetsNothing" /\ G = "entry"
            \/ f = "crooked" /\ G = "off"
            \/ f = "sharesZero" /\ Now.n = 0 /\ F = "nothing" /\ G = "one"
            \/ f = "aliases" /\ F = "nothing" /\ G = "one"
      \/ /\ ~Now.misuse /\ Now.slot = 2
         /\ \/ f = "nullZero" /\ Now.n = 0 /\ G = "null"
            \/ f = "sharesZero" /\ Now.n = 0 /\ F = "one" /\ G = "same"
            \/ f = "aliases" /\ F = "one" /\ G = "same"
  BY TakeBetrays, Zenon DEF TakeNears
<1>3. CASE Now.n < 0 /\ f # "trustsSigns" /\ call' = [call EXCEPT ![Tester] = Raised("ValueError")]
  <2> DEFINE c == Raised("ValueError")
  <2>1. c.pc = "returned" /\ c.ok = FALSE
    BY DEF Raised
  <2>2. call' = [call EXCEPT ![Tester] = c]
    BY <1>3
  <2> HIDE DEF c
  <2>3. Wanted(c, Now) => Now.misuse
    BY <2>1, Zenon DEF Wanted
  <2>4. Now.misuse => G = "any"
    BY <1>2, <1>3, Zenon
  <2>5. Wanted(c, Now) => IsSo(G, SlotsAfter(c, Now, slots), live', contents)
    BY <2>3, <2>4, Zenon DEF IsSo
  <2>. QED  BY <2>1, <2>2, <2>5, Zenon
<1>4. ASSUME NEW base \in Bases, NEW e, Allots(f, base, e), (Now.n < 0) => (f = "trustsSigns")
      PROVE  \E c : /\ call' = [call EXCEPT ![Tester] = c] /\ c.pc = "returned"
                    /\ Wanted(c, Now) => IsSo(G, SlotsAfter(c, Now, slots), live', contents)
  <2> DEFINE ptr == PointerOf(Now.n, base)
             c == Returned(ptr)
             at == With(slots, Now.slot, ptr)
  <2>1. c.pc = "returned" /\ c.ok = TRUE /\ c.ptr = ptr
    BY DEF Returned
  <2>2. /\ base % 256 = 0 /\ e.base = base
        /\ (f = "aliases" \/ (f = "sharesZero" /\ Now.n = 0)) =>
             (DOMAIN live = {} \/ \E p \in DOMAIN live : base = live[p].base)
        /\ live' = With(live, ptr, e) /\ call' = [call EXCEPT ![Tester] = c]
    BY <1>4, Zenon DEF Allots
  <2>3. /\ f = "nullZero" /\ Now.n = 0 => ptr = 0
        /\ f = "crooked" => ptr = base + 8
        /\ f # "nullZero" /\ f # "crooked" => ptr = base
    BY <1>1 DEF PointerOf
  <2> HIDE DEF ptr
  <2>4. SlotIn(at, Now.slot) = ptr /\ \A j : j # Now.slot => SlotIn(at, j) = SlotIn(slots, j)
    BY SlotInWith
  <2>5. Wanted(c, Now) => (~Now.misuse /\ SlotsAfter(c, Now, slots) = at)
    BY <2>1, Zenon DEF Wanted, SlotsAfter
  <2> HIDE DEF c, at
  <2>6. DOMAIN live' = DOMAIN live \cup {ptr} /\ live'[ptr] = e
    BY <2>2 DEF With
  <2>7. ~Now.misuse => IsSo(G, at, live', contents)
    <3>1. G = "any" => IsSo(G, at, live', contents)
      BY Zenon DEF IsSo
    <3>2. f = "freesTwice" /\ G = "block" /\ Now.slot = 1 => IsSo(G, at, live', contents)
      <4>1. f = "freesTwice" => ptr \in Bases
        BY <2>3
      <4>. QED  BY <2>4, <4>1, Zenon DEF IsSo
    <3>3. f = "forgetsNothing" /\ G = "entry" /\ Now.slot = 1 => IsSo(G, at, live', contents)
      <4>1. f = "forgetsNothing" => ptr \in DOMAIN live' \cap Nat
        BY <2>3, <2>6, LeafAssumption
      <4>. QED  BY <2>4, <4>1, Zenon DEF IsSo
    <3>4. f = "crooked" /\ G = "off" /\ Now.slot = 1 => IsSo(G, at, live', contents)
      <4>1. base \in Nat
        BY LeafAssumption
      <4>2. (base + 8) % 256 = 8
        BY <2>2, <4>1
      <4>3. f = "crooked" => ptr % 256 = 8
        BY <2>3, <4>2
      <4>. QED  BY <2>4, <4>3, Zenon DEF IsSo
    <3>5. f = "nullZero" /\ Now.n = 0 /\ G = "null" /\ Now.slot = 2 => IsSo(G, at, live', contents)
      BY <2>3, <2>4, Zenon DEF IsSo
    <3>6. (f = "aliases" \/ f = "sharesZero") /\ F = "nothing" /\ G = "one" /\ Now.slot = 1
            => IsSo(G, at, live', contents)
      <4>1. F = "nothing" => DOMAIN live = {}
        BY DEF IsSo
      <4>2. F = "nothing" => DOMAIN live' = {ptr}
        BY <2>6, <4>1
      <4>3. f = "aliases" \/ f = "sharesZero" => live'[ptr].base = ptr
        BY <2>2, <2>3, <2>6
      <4>. QED  BY <2>4, <4>2, <4>3, Zenon DEF IsSo
    <3>7. ((f = "sharesZero" /\ Now.n = 0) \/ f = "aliases") /\ F = "one" /\ G = "same" /\ Now.slot = 2
            => IsSo(G, at, live', contents)
      <4>1. F = "one" => DOMAIN live = {SlotIn(slots, 1)} /\ live[SlotIn(slots, 1)].base = SlotIn(slots, 1)
        BY DEF IsSo
      <4>2. ((f = "sharesZero" /\ Now.n = 0) \/ f = "aliases") /\ F = "one" => base = SlotIn(slots, 1)
        BY <2>2, <4>1
      <4>3. ((f = "sharesZero" /\ Now.n = 0) \/ f = "aliases") => ptr = base
        BY <2>3
      <4>4. Now.slot = 2 => SlotIn(at, 2) = ptr /\ SlotIn(at, 1) = SlotIn(slots, 1)
        BY <2>4
      <4>. QED  BY <4>2, <4>3, <4>4, Zenon DEF IsSo
    <3>8. ~Now.misuse =>
            \/ G = "any"
            \/ f = "freesTwice" /\ G = "block" /\ Now.slot = 1
            \/ f = "forgetsNothing" /\ G = "entry" /\ Now.slot = 1
            \/ f = "crooked" /\ G = "off" /\ Now.slot = 1
            \/ f = "nullZero" /\ Now.n = 0 /\ G = "null" /\ Now.slot = 2
            \/ (f = "aliases" \/ f = "sharesZero") /\ F = "nothing" /\ G = "one" /\ Now.slot = 1
            \/ ((f = "sharesZero" /\ Now.n = 0) \/ f = "aliases") /\ F = "one" /\ G = "same" /\ Now.slot = 2
      BY <1>2, Zenon
    <3>. QED  BY <3>1, <3>2, <3>3, <3>4, <3>5, <3>6, <3>7, <3>8, Zenon
  <2>. QED  BY <2>1, <2>2, <2>5, <2>7, Zenon
<1>. QED  BY <1>3, <1>4, FaultyAllocates, Zenon
\* A give that has to do with a fault.
GiveNears(f, i, F, G) ==
  \/ G = "any"
  \/ f = "trustsFrees" /\ i.misuse
  \/ /\ i.slot = 1 /\ i.off = 0
     /\ \/ f = "freesTwice" /\ F = "block"
        \/ f = "forgetsNothing" /\ F = "entry"
     /\ IF i.misuse THEN TRUE ELSE G = F
  \/ f = "dropsOnRefusal" /\ i.misuse /\ G = "nothing"
  \/ f = "dropsOnRefusal" /\ ~i.misuse /\ F = "nothing"

LEMMA GiveBetrays ==
  ASSUME NEW f, NEW i, NEW F, NEW G, Betrays(f, i, F, G), i.op = "give"
  PROVE  GiveNears(f, i, F, G)
<1>1. ASSUME NEW k, NEW n, i = Take(k, n) \/ i = Misused(Take(k, n)) PROVE FALSE
  BY <1>1 DEF Misused, Take, Instruction
<1>2. i = Give(1, 64) => i.slot = 1 /\ i.off = 0 /\ i.misuse = FALSE
  BY DEF Give, Instruction
<1>3. i = Misused(Give(1, 64)) => i.slot = 1 /\ i.off = 0 /\ i.misuse = TRUE
  BY DEF Misused, Give, Instruction
<1>4. i = Misused(Offbeat(Give(1, 64), 1)) => i.misuse = TRUE
  BY DEF Misused, Offbeat, Give, Instruction
<1>5. i # NonNull(1) /\ i # NonNull(2) /\ i # AlignedTo(1, 256) /\ i # Distinct(1, 2)
  BY DEF NonNull, AlignedTo, Distinct, Instruction
<1>6. i # Write(1, "aa") /\ i # Write(2, "55") /\ i # Read(1, "aa") /\ i.op # "fresh"
  BY DEF Write, Read, Instruction
<1>7. /\ i # Take(1, 64) /\ i # Take(2, 0) /\ i # Take(1, 0) /\ i # Take(1, 256) /\ i # Take(2, 256)
      /\ ~(\E n : i = Take(1, n)) /\ i # Misused(Take(1, -1))
  BY <1>1
<1> DEFINE Near == GiveNears(f, i, F, G)
<1>8. i = Give(1, 64) /\ f = "freesTwice" /\ F = "block" /\ G = "block" => Near
  BY <1>2, Zenon DEF GiveNears
<1>9. i = Misused(Give(1, 64)) /\ f = "freesTwice" /\ F = "block" => Near
  BY <1>3, Zenon DEF GiveNears
<1>10. i = Give(1, 64) /\ f = "forgetsNothing" /\ F = "entry" /\ G = "entry" => Near
  BY <1>2, Zenon DEF GiveNears
<1>11. i = Misused(Give(1, 64)) /\ f = "forgetsNothing" /\ F = "entry" => Near
  BY <1>3, Zenon DEF GiveNears
<1>12. i = Misused(Offbeat(Give(1, 64), 1)) /\ f = "dropsOnRefusal" /\ G = "nothing" => Near
  BY <1>4, Zenon DEF GiveNears
<1>13. i = Give(1, 64) /\ f = "dropsOnRefusal" /\ F = "nothing" => Near
  BY <1>2, Zenon DEF GiveNears
<1>14. i = Misused(Give(1, 64)) /\ f = "trustsFrees" => Near
  BY <1>3, Zenon DEF GiveNears
<1>15. G = "any" => Near
  BY Zenon DEF GiveNears
<1> HIDE DEF Near
<1>16. Near
  BY <1>5, <1>6, <1>7, <1>8, <1>9, <1>10, <1>11, <1>12, <1>13, <1>14, <1>15, ZenonT(40) DEF Betrays
<1>. QED  BY <1>16 DEF Near

\* Any other instruction that has to do with a fault.
RestNears(i, F, G) ==
  \/ G = "any"
  \/ i.op = "fresh" /\ G = "nothing"
  \/ i.op = "nonnull" /\ F \in {"null", "same"} /\ G = F
  \/ i.op = "nonnull" /\ i.slot = 2 /\ F = "null"
  \/ i.op = "aligned" /\ i.slot = 1 /\ i.n = 256 /\ F = "off"
  \/ i.op = "distinct" /\ i.slot = 1 /\ i.n = 2 /\ F = "same"
  \/ i.op = "write" /\ F = "one" /\ G = "one"
  \/ i.op = "write" /\ i.slot = 2 /\ i.tag = "55" /\ F = "same" /\ G = "over"
  \/ i.op = "read" /\ i.slot = 1 /\ i.tag = "aa" /\ F = "over"

LEMMA RestBetrays ==
  ASSUME NEW f, NEW i, NEW F, NEW G, Betrays(f, i, F, G), i.op \notin {"take", "give"}
  PROVE  RestNears(i, F, G)
<1>1. ASSUME NEW k, NEW n, i = Take(k, n) \/ i = Misused(Take(k, n)) PROVE FALSE
  BY <1>1 DEF Misused, Take, Instruction
<1>2. i # Give(1, 64) /\ i # Misused(Give(1, 64)) /\ i # Misused(Offbeat(Give(1, 64), 1))
  <2>1. Give(1, 64).op = "give"
    BY DEF Give, Instruction
  <2>2. Misused(Give(1, 64)).op = "give"
    BY DEF Misused, Give, Instruction
  <2>3. Misused(Offbeat(Give(1, 64), 1)).op = "give"
    BY DEF Misused, Offbeat, Give, Instruction
  <2>. QED  BY <2>1, <2>2, <2>3
<1>3. /\ i = NonNull(1) => i.op = "nonnull"
      /\ i = NonNull(2) => i.op = "nonnull" /\ i.slot = 2
      /\ i = AlignedTo(1, 256) => i.op = "aligned" /\ i.slot = 1 /\ i.n = 256
      /\ i = Distinct(1, 2) => i.op = "distinct" /\ i.slot = 1 /\ i.n = 2
  BY DEF NonNull, AlignedTo, Distinct, Instruction
<1>4. /\ i = Write(1, "aa") => i.op = "write"
      /\ i = Write(2, "55") => i.op = "write" /\ i.slot = 2 /\ i.tag = "55"
      /\ i = Read(1, "aa") => i.op = "read" /\ i.slot = 1 /\ i.tag = "aa"
  BY DEF Write, Read, Instruction
<1>5. /\ i # Take(1, 64) /\ i # Take(2, 0) /\ i # Take(1, 0) /\ i # Take(1, 256) /\ i # Take(2, 256)
      /\ ~(\E n : i = Take(1, n)) /\ i # Misused(Take(1, -1))
  BY <1>1
<1> DEFINE Near == RestNears(i, F, G)
<1>6. G = "any" => Near
  BY Zenon DEF RestNears
<1>7. /\ (i = NonNull(1) /\ F = "null" /\ G = "null") => Near
      /\ (i = NonNull(2) /\ F = "null") => Near
  BY <1>3, Zenon DEF RestNears
<1>8. (i = AlignedTo(1, 256) /\ F = "off") => Near
  BY <1>3, Zenon DEF RestNears
<1>9. (i.op = "fresh" /\ G = "nothing") => Near
  BY Zenon DEF RestNears
<1>10. /\ (i \in {NonNull(1), NonNull(2)} /\ F = "same" /\ G = "same") => Near
       /\ (i = Distinct(1, 2) /\ F = "same") => Near
  BY <1>3, Zenon DEF RestNears
<1>11. /\ (i = Write(1, "aa") /\ F = "one" /\ G = "one") => Near
       /\ (i = Write(2, "55") /\ F = "same" /\ G = "over") => Near
       /\ (i = Read(1, "aa") /\ F = "over") => Near
  BY <1>4, Zenon DEF RestNears
<1> HIDE DEF Near
<1>12. Near
  BY <1>2, <1>5, <1>6, <1>7, <1>8, <1>9, <1>10, <1>11, ZenonT(40) DEF Betrays
<1>. QED  BY <1>12 DEF Near

\* So does an answer to a deallocation.
LEMMA DeallocateBetrays ==
  ASSUME NEW f \in Noticeable, leaf = ThirdParty(f), NEW F, NEW G, Betrays(f, Now, F, G),
         Now.op = "give", call[Tester].ptr = Slot(Now.slot) + Now.off,
         IsSo(F, slots, live, contents), ForeignDeallocate(Tester)
  PROVE  \E c : /\ call' = [call EXCEPT ![Tester] = c] /\ c.pc = "returned"
                /\ Wanted(c, Now) => IsSo(G, SlotsAfter(c, Now, slots), live', contents)
<1> DEFINE ptr == call[Tester].ptr
<1>1. leaf.name = f
  BY DEF ThirdParty, Plain
<1>2. GiveNears(f, Now, F, G)
  BY GiveBetrays, Zenon
<1>3. /\ f = "forgetsNothing" => live' = live
      /\ f = "dropsOnRefusal" /\ ptr \notin DOMAIN live => DOMAIN live' = {}
  BY <1>1 DEF ForeignDeallocate, Unknown
<1>4. /\ (ptr \in DOMAIN live \/ f = "trustsFrees" \/ (f = "freesTwice" /\ ptr \in Bases))
           => call' = [call EXCEPT ![Tester] = Returned(0)]
      /\ ~(ptr \in DOMAIN live \/ f = "trustsFrees" \/ (f = "freesTwice" /\ ptr \in Bases))
           => call' = [call EXCEPT ![Tester] = Raised("ValueError")]
  BY <1>1 DEF ForeignDeallocate, Unknown, Answer
<1>5. ptr = SlotIn(slots, Now.slot) + Now.off
  BY DEF Slot, SlotIn
<1> HIDE DEF ptr
<1>6. ~Wanted(Returned(0), Now) \/ ~Now.misuse
  BY DEF Wanted, Returned
<1>7. ~Wanted(Raised("ValueError"), Now) \/ Now.misuse
  BY DEF Wanted, Raised
<1>8. Returned(0).pc = "returned" /\ Raised("ValueError").pc = "returned"
  BY DEF Returned, Raised
<1>9. \A c : SlotsAfter(c, Now, slots) = slots
  BY DEF SlotsAfter
<1>10. Now.slot = 1 /\ Now.off = 0 /\ F = "block" => ptr = SlotIn(slots, 1) /\ ptr \in Bases
  <2>1. F = "block" => SlotIn(slots, 1) \in Bases /\ SlotIn(slots, 1) \in Nat
    BY LeafAssumption DEF IsSo
  <2>. QED  BY <1>5, <2>1
<1>11. Now.slot = 1 /\ Now.off = 0 /\ F = "entry" => ptr = SlotIn(slots, 1) /\ ptr \in DOMAIN live
  <2>1. F = "entry" => SlotIn(slots, 1) \in DOMAIN live /\ SlotIn(slots, 1) \in Nat
    BY DEF IsSo
  <2>. QED  BY <1>5, <2>1
<1>12. F = "nothing" => ptr \notin DOMAIN live
  BY DEF IsSo
<1>13. (ptr \in DOMAIN live \/ f = "trustsFrees" \/ (f = "freesTwice" /\ ptr \in Bases)) /\ ~Now.misuse
         => IsSo(G, slots, live', contents)
  <2>1. G = "any" => IsSo(G, slots, live', contents)
    BY Zenon DEF IsSo
  <2>2. F = "block" /\ G = F => IsSo(G, slots, live', contents)
    BY Zenon DEF IsSo
  <2>3. f = "forgetsNothing" /\ F = "entry" /\ G = F => IsSo(G, slots, live', contents)
    BY <1>3, Zenon DEF IsSo
  <2>. QED  BY <1>2, <1>12, <2>1, <2>2, <2>3 DEF GiveNears
<1>14. ~(ptr \in DOMAIN live \/ f = "trustsFrees" \/ (f = "freesTwice" /\ ptr \in Bases)) /\ Now.misuse
         => IsSo(G, slots, live', contents)
  <2>1. G = "any" => IsSo(G, slots, live', contents)
    BY Zenon DEF IsSo
  <2>2. f = "dropsOnRefusal" /\ ptr \notin DOMAIN live /\ G = "nothing" => IsSo(G, slots, live', contents)
    BY <1>3, Zenon DEF IsSo
  <2>. QED  BY <1>2, <1>10, <1>11, <2>1, <2>2 DEF GiveNears
<1>15. CASE ptr \in DOMAIN live \/ f = "trustsFrees" \/ (f = "freesTwice" /\ ptr \in Bases)
  <2> DEFINE c == Returned(0)
  <2>1. call' = [call EXCEPT ![Tester] = c] /\ c.pc = "returned"
    BY <1>4, <1>8, <1>15
  <2>2. Wanted(c, Now) => IsSo(G, SlotsAfter(c, Now, slots), live', contents)
    BY <1>6, <1>9, <1>13, <1>15, Zenon
  <2> HIDE DEF c
  <2>. QED  BY <2>1, <2>2
<1>16. CASE ~(ptr \in DOMAIN live \/ f = "trustsFrees" \/ (f = "freesTwice" /\ ptr \in Bases))
  <2> DEFINE c == Raised("ValueError")
  <2>1. call' = [call EXCEPT ![Tester] = c] /\ c.pc = "returned"
    BY <1>4, <1>8, <1>16
  <2>2. Wanted(c, Now) => IsSo(G, SlotsAfter(c, Now, slots), live', contents)
    BY <1>7, <1>9, <1>14, <1>16, Zenon
  <2> HIDE DEF c
  <2>. QED  BY <2>1, <2>2
<1>. QED  BY <1>15, <1>16

\* And the instructions that make no call.
LEMMA RestAdvances ==
  ASSUME NEW f \in Noticeable, leaf = ThirdParty(f), NEW F, NEW G, Betrays(f, Now, F, G),
         IsSo(F, slots, live, contents),
         MakeResource \/ WriteSlot \/ (Check /\ Holds(Now))
  PROVE  leaf' = leaf /\ IsSo(G, slots', live', contents')
<1>1. leaf.name \notin {"bytearray", "posix", "windows"}
  <2>1. leaf.name = f
    BY DEF ThirdParty, Plain
  <2>. QED  BY <2>1 DEF Noticeable, Faults, Unnoticed
<1>2. /\ MakeResource => Now.op = "fresh" /\ leaf' = leaf /\ DOMAIN live' = {}
      /\ WriteSlot => Now.op = "write" /\ leaf' = leaf /\ UNCHANGED <<slots, live>>
                      /\ contents' = With(contents, BlockAt(Slot(Now.slot)), Now.tag)
      /\ Check => /\ Now.op \in {"read", "aligned", "nonnull", "distinct", "count"}
                  /\ leaf' = leaf /\ UNCHANGED <<slots, live, contents>>
  BY <1>1 DEF MakeResource, WriteSlot, Check, Runs, Realigned, Nothing, leafVars
<1>3. RestNears(Now, F, G)
  BY <1>2, RestBetrays
<1>4. CASE G = "any"
  BY <1>2, <1>4 DEF IsSo
<1>5. CASE Now.op = "fresh" /\ G = "nothing"
  BY <1>2, <1>5 DEF IsSo
<1>6. CASE Now.op = "nonnull" /\ F \in {"null", "same"} /\ G = F
  BY <1>2, <1>6 DEF IsSo
<1>7. CASE Now.op = "nonnull" /\ Now.slot = 2 /\ F = "null"
  <2>1. Slot(2) = 0 /\ Holds(Now)
    BY <1>2, <1>7 DEF IsSo, Slot, SlotIn
  <2>. QED  BY <1>7, <2>1 DEF Holds
<1>8. CASE Now.op = "aligned" /\ Now.slot = 1 /\ Now.n = 256 /\ F = "off"
  <2>1. Slot(1) % 256 = 8 /\ Holds(Now)
    BY <1>2, <1>8 DEF IsSo, Slot, SlotIn
  <2>. QED  BY <1>8, <2>1 DEF Holds
<1>9. CASE Now.op = "distinct" /\ Now.slot = 1 /\ Now.n = 2 /\ F = "same"
  <2>1. Slot(2) = Slot(1) /\ Holds(Now)
    BY <1>2, <1>9 DEF IsSo, Slot, SlotIn
  <2>. QED  BY <1>9, <2>1 DEF Holds
<1>10. CASE Now.op = "write" /\ F = "one" /\ G = "one"
  BY <1>2, <1>10 DEF IsSo
<1>11. CASE Now.op = "write" /\ Now.slot = 2 /\ Now.tag = "55" /\ F = "same" /\ G = "over"
  <2> DEFINE b == BlockIn(live, SlotIn(slots, 1))
  <2>1. SlotIn(slots, 2) = SlotIn(slots, 1)
    BY <1>11 DEF IsSo
  <2>2. BlockAt(Slot(2)) = b
    BY <2>1 DEF BlockAt, BlockIn, Unknown, Slot, SlotIn
  <2>3. contents' = With(contents, b, "55") /\ UNCHANGED <<slots, live>> /\ leaf' = leaf
    BY <1>2, <1>11, <2>2
  <2> HIDE DEF b
  <2>4. ContentsIn(contents', b) = "55"
    BY <2>3 DEF With, ContentsIn
  <2>5. b = BlockIn(live', SlotIn(slots', 1))
    BY <2>3 DEF b
  <2>. QED  BY <1>11, <2>3, <2>4, <2>5, Zenon DEF IsSo
<1>12. CASE Now.op = "read" /\ Now.slot = 1 /\ Now.tag = "aa" /\ F = "over"
  <2>1. ContentsIn(contents, BlockIn(live, SlotIn(slots, 1))) = "55"
    BY <1>12 DEF IsSo
  <2>2. Contents(BlockAt(Slot(1))) = "55"
    BY <2>1 DEF ContentsIn, Contents, BlockAt, BlockIn, Unknown, Slot, SlotIn
  <2>3. Holds(Now)
    BY <1>2, <1>12
  <2>. QED  BY <1>12, <2>2, <2>3 DEF Holds
<1>. QED
  BY <1>3, <1>4, <1>5, <1>6, <1>7, <1>8, <1>9, <1>10, <1>11, <1>12, Zenon DEF RestNears

\* An instruction is done, and the fault is still to be noticed.
LEMMA FaultyGoesOn ==
  ASSUME NEW f \in Noticeable, leaf = ThirdParty(f), leaf' = leaf, complete, complete' = complete,
         DOMAIN call' = Callers, verdict' = "running", Others', call'[Tester].pc = "idle",
         program \in Seq(Steps), program # <<>>, program' = Tail(program),
         NEW G, G = "never" \/ Noticed(Tail(program), G, f), IsSo(G, slots', live', contents')
  PROVE  FaultyRun'
<1>1. G # "never"
  BY DEF IsSo
<1>2. Tail(program) \in Seq(Steps)
  BY HeadTailProperties
<1> DEFINE P == Tail(program)
<1>3. /\ P # <<>>
      /\ \E H : Betrays(f, Head(P), G, H) /\ (H = "never" \/ Noticed(Tail(P), H, f))
  BY <1>1, <1>2, NoticedOn, Zenon
<1>4. PICK H : Betrays(f, Head(P), G, H) /\ (H = "never" \/ Noticed(Tail(P), H, f))
  BY <1>3
<1>5. program' = P
  OBVIOUS
<1> HIDE DEF P
<1>6. Betrays(f, Now', G, H) /\ (H = "never" \/ Noticed(Tail(program'), H, f))
  BY <1>4, <1>5 DEF Now
<1>7. Pending(G, H)'
  BY DEF Pending
<1>8. leaf' = ThirdParty(f) /\ program' # <<>> /\ program' \in Seq(Steps)
  BY <1>2, <1>3, <1>5 DEF P
<1>. QED  BY <1>6, <1>7, <1>8, Zenon DEF FaultyRun

\* Or the suite has stopped.
LEMMA FaultyStops ==
  ASSUME NEW f \in Noticeable, leaf = ThirdParty(f), leaf' = leaf, complete, complete' = complete,
         DOMAIN call' = Callers, verdict' \in {"failed", "raised", "exhausted"}
  PROVE  FaultyRun'
<1>1. leaf' = ThirdParty(f) /\ verdict' # "running"
  OBVIOUS
<1>. QED  BY <1>1 DEF FaultyRun

\* What is left of a running suite on a resource with a fault.
LEMMA FaultyFacts ==
  ASSUME FaultyRun, verdict = "running"
  PROVE  /\ DOMAIN call = Callers /\ Tester \in Callers /\ Others /\ complete
         /\ program \in Seq(Steps) /\ program # <<>>
         /\ Foreign
         /\ \E f \in Noticeable : \E F, G :
              /\ leaf = ThirdParty(f) /\ Betrays(f, Now, F, G)
              /\ G = "never" \/ Noticed(Tail(program), G, f)
              /\ Pending(F, G)
<1>1. PICK f \in Noticeable :
        /\ leaf = ThirdParty(f) /\ complete /\ DOMAIN call = Callers
        /\ Others /\ program \in Seq(Steps) /\ program # <<>>
        /\ \E F, G : /\ Betrays(f, Now, F, G) /\ (G = "never" \/ Noticed(Tail(program), G, f))
                     /\ Pending(F, G)
  BY DEF FaultyRun
<1>2. leaf.name = f
  BY <1>1 DEF ThirdParty, Plain
<1>3. Foreign
  BY <1>2 DEF Foreign, Own, Noticeable, Faults, Unnoticed
<1>. QED  BY <1>1, <1>3, SuiteAssumption, Zenon

LEMMA FaultyRests ==
  ASSUME FaultyRun, verdict = "running", MakeResource \/ WriteSlot \/ Check PROVE FaultyRun'
<1>1. /\ DOMAIN call = Callers /\ Tester \in Callers /\ Others /\ complete
      /\ program \in Seq(Steps) /\ program # <<>>
  BY FaultyFacts
<1>2. PICK f \in Noticeable : \E F, G :
        /\ leaf = ThirdParty(f) /\ Betrays(f, Now, F, G)
        /\ G = "never" \/ Noticed(Tail(program), G, f)
        /\ Pending(F, G)
  BY FaultyFacts
<1>3. PICK F, G : /\ leaf = ThirdParty(f) /\ Betrays(f, Now, F, G)
                  /\ G = "never" \/ Noticed(Tail(program), G, f)
                  /\ Pending(F, G)
  BY <1>2
<1>4. Now.op \notin {"take", "give"} /\ UNCHANGED <<call, complete>>
  BY DEF MakeResource, WriteSlot, Check, Runs, Ensure, Advance, Stop, leafVars
<1>5. call[Tester].pc = "idle" /\ IsSo(F, slots, live, contents)
  BY <1>3, <1>4 DEF Pending
<1>6. call' = call /\ complete' = complete /\ Others'
  BY <1>1, <1>4 DEF Others
<1>7. CASE Check /\ ~Holds(Now)
  <2>1. verdict' = "failed" /\ leaf' = leaf
    BY <1>7 DEF Check, Ensure, Stop, leafVars
  <2>. QED  BY <1>1, <1>3, <1>6, <2>1, FaultyStops
<1>8. CASE MakeResource \/ WriteSlot \/ (Check /\ Holds(Now))
  <2>1. leaf' = leaf /\ IsSo(G, slots', live', contents')
    BY <1>3, <1>5, <1>8, RestAdvances
  <2>2. program' = Tail(program) /\ verdict' = "running"
    BY <1>8 DEF MakeResource, WriteSlot, Check, Ensure, Advance
  <2>. QED  BY <1>1, <1>3, <1>5, <1>6, <2>1, <2>2, FaultyGoesOn
<1>. QED  BY <1>7, <1>8

LEMMA FaultyStarts == ASSUME FaultyRun, verdict = "running", StartCall PROVE FaultyRun'
<1>1. /\ DOMAIN call = Callers /\ Tester \in Callers /\ Others /\ complete
      /\ program \in Seq(Steps) /\ program # <<>>
  BY FaultyFacts
<1>2. PICK f \in Noticeable : \E F, G :
        /\ leaf = ThirdParty(f) /\ Betrays(f, Now, F, G)
        /\ G = "never" \/ Noticed(Tail(program), G, f)
        /\ Pending(F, G)
  BY FaultyFacts
<1>3. PICK F, G : /\ leaf = ThirdParty(f) /\ Betrays(f, Now, F, G)
                  /\ G = "never" \/ Noticed(Tail(program), G, f)
                  /\ Pending(F, G)
  BY <1>2
<1>4. /\ Now.op \in {"take", "give"} /\ UNCHANGED suiteVars /\ UNCHANGED <<leaf, live>>
      /\ call[Tester].pc = "idle"
      /\ \E c : /\ call' = [call EXCEPT ![Tester] = c] /\ c.pc = "called"
                /\ IF Now.op = "take" THEN c.op = "allocate" /\ c.n = Now.n
                   ELSE c.op = "deallocate" /\ c.ptr = Slot(Now.slot) + Now.off /\ c.n = Now.n
  <2>1. /\ Now.op \in {"take", "give"} /\ UNCHANGED suiteVars
        /\ IF Now.op = "take" THEN Calls(Tester, "allocate", 0, Now.n)
           ELSE Calls(Tester, "deallocate", Slot(Now.slot) + Now.off, Now.n)
    BY DEF StartCall, Runs, Allocate, Deallocate
  <2>2. ASSUME NEW op, NEW ptr, NEW n, Calls(Tester, op, ptr, n)
        PROVE  /\ UNCHANGED <<leaf, live>> /\ call[Tester].pc = "idle"
               /\ \E c : /\ call' = [call EXCEPT ![Tester] = c] /\ c.pc = "called"
                         /\ c.op = op /\ c.ptr = ptr /\ c.n = n
    <3> DEFINE c == Called(op, ptr, n)
    <3>1. c.pc = "called" /\ c.op = op /\ c.ptr = ptr /\ c.n = n
      BY DEF Called
    <3>2. UNCHANGED <<leaf, live>> /\ call[Tester].pc = "idle" /\ call' = [call EXCEPT ![Tester] = c]
      BY <2>2 DEF Calls, Answer
    <3> HIDE DEF c
    <3>. QED  BY <3>1, <3>2
  <2>3. CASE Now.op = "take"
    <3>1. Calls(Tester, "allocate", 0, Now.n)
      BY <2>1, <2>3
    <3>2. PICK c : /\ call' = [call EXCEPT ![Tester] = c] /\ c.pc = "called"
                   /\ c.op = "allocate" /\ c.n = Now.n
      BY <2>2, <3>1
    <3>. QED  BY <2>1, <2>2, <2>3, <3>1, <3>2
  <2>4. CASE Now.op # "take"
    <3>1. Calls(Tester, "deallocate", Slot(Now.slot) + Now.off, Now.n)
      BY <2>1, <2>4
    <3> DEFINE ptr == Slot(Now.slot) + Now.off
    <3>2. Calls(Tester, "deallocate", ptr, Now.n)
      BY <3>1
    <3> HIDE DEF ptr
    <3>3. PICK c : /\ call' = [call EXCEPT ![Tester] = c] /\ c.pc = "called"
                   /\ c.op = "deallocate" /\ c.ptr = ptr /\ c.n = Now.n
      BY <2>2, <3>2
    <3>4. UNCHANGED <<leaf, live>> /\ call[Tester].pc = "idle"
      BY <2>2, <3>2
    <3>. QED  BY <2>1, <2>4, <3>3, <3>4 DEF ptr
  <2>. QED  BY <2>3, <2>4
<1>5. PICK c : /\ call' = [call EXCEPT ![Tester] = c] /\ c.pc = "called"
               /\ IF Now.op = "take" THEN c.op = "allocate" /\ c.n = Now.n
                  ELSE c.op = "deallocate" /\ c.ptr = Slot(Now.slot) + Now.off /\ c.n = Now.n
  BY <1>4
<1>6. IsSo(F, slots, live, contents)
  BY <1>3, <1>4 DEF Pending
<1>7. /\ program' = program /\ Now' = Now /\ slots' = slots /\ contents' = contents
      /\ verdict' = verdict /\ complete' = complete /\ leaf' = leaf /\ live' = live
  BY <1>4 DEF suiteVars, Now
<1>8. call'[Tester] = c /\ Others' /\ DOMAIN call' = Callers
  BY <1>1, <1>5 DEF Others
<1>9. Matches'
  BY <1>5, <1>7, <1>8 DEF Matches, Slot
<1>10. Pending(F, G)'
  BY <1>4, <1>5, <1>6, <1>7, <1>8, <1>9 DEF Pending
<1>11. FaultyRun'
  <2>1. Betrays(f, Now', F, G) /\ (G = "never" \/ Noticed(Tail(program'), G, f)) /\ leaf' = ThirdParty(f)
    BY <1>3, <1>7
  <2>2. program' \in Seq(Steps) /\ program' # <<>> /\ complete' /\ verdict' = "running"
    BY <1>1, <1>7
  <2>. QED  BY <1>8, <1>10, <2>1, <2>2, Zenon DEF FaultyRun
<1>. QED  BY <1>11

LEMMA FaultyEnds == ASSUME FaultyRun, verdict = "running", EndCall PROVE FaultyRun'
<1>1. /\ DOMAIN call = Callers /\ Tester \in Callers /\ Others /\ complete
      /\ program \in Seq(Steps) /\ program # <<>>
  BY FaultyFacts
<1>2. PICK f \in Noticeable : \E F, G :
        /\ leaf = ThirdParty(f) /\ Betrays(f, Now, F, G)
        /\ G = "never" \/ Noticed(Tail(program), G, f)
        /\ Pending(F, G)
  BY FaultyFacts
<1>3. PICK F, G : /\ leaf = ThirdParty(f) /\ Betrays(f, Now, F, G)
                  /\ G = "never" \/ Noticed(Tail(program), G, f)
                  /\ Pending(F, G)
  BY <1>2
<1> DEFINE c == call[Tester]
<1>4. /\ Return(Tester) /\ UNCHANGED contents
      /\ IF c.ok /\ ~Now.misuse THEN Advance
         ELSE IF c.ok THEN Stop("failed")
         ELSE IF Now.misuse /\ c.error = "ValueError" THEN Advance
         ELSE IF c.error \in {"MemoryError", "unserved"} THEN Stop("exhausted")
         ELSE Stop("raised")
      /\ IF c.ok /\ Now.op = "take" THEN slots' = With(slots, Now.slot, c.ptr)
         ELSE UNCHANGED slots
  BY DEF EndCall
<1>5. /\ c.pc = "returned" /\ call' = [call EXCEPT ![Tester] = Idle]
      /\ UNCHANGED <<leaf, live>>
  BY <1>4 DEF Return, Answer
<1>6. Wanted(c, Now) => IsSo(G, SlotsAfter(c, Now, slots), live, contents)
  BY <1>3, <1>5 DEF Pending
<1>7. call'[Tester].pc = "idle" /\ Others' /\ DOMAIN call' = Callers
  BY <1>1, <1>5 DEF Others, Idle
<1>8. slots' = SlotsAfter(c, Now, slots)
  BY <1>4 DEF SlotsAfter
<1>9. CASE Wanted(c, Now)
  <2>1. Advance
    BY <1>4, <1>9 DEF Wanted
  <2>2. program' = Tail(program) /\ complete' = complete /\ verdict' = "running"
    BY <2>1 DEF Advance
  <2>3. IsSo(G, slots', live', contents')
    BY <1>4, <1>5, <1>6, <1>8, <1>9
  <2> HIDE DEF c
  <2>. QED  BY <1>1, <1>3, <1>5, <1>7, <2>2, <2>3, FaultyGoesOn
<1>10. CASE ~Wanted(c, Now)
  <2>1. Stop("failed") \/ Stop("exhausted") \/ Stop("raised")
    BY <1>4, <1>10 DEF Wanted
  <2>2. complete' = complete /\ verdict' \in {"failed", "raised", "exhausted"}
    BY <2>1 DEF Stop
  <2> HIDE DEF c
  <2>. QED  BY <1>1, <1>3, <1>5, <1>7, <2>2, FaultyStops
<1>. QED  BY <1>9, <1>10

LEMMA FaultyServes ==
  ASSUME FaultyRun, verdict = "running", NEW t \in Callers, ResourceStep(t) PROVE FaultyRun'
<1>1. /\ DOMAIN call = Callers /\ Tester \in Callers /\ Others /\ complete
      /\ program \in Seq(Steps) /\ program # <<>> /\ Foreign
  BY FaultyFacts
<1>2. PICK f \in Noticeable : \E F, G :
        /\ leaf = ThirdParty(f) /\ Betrays(f, Now, F, G)
        /\ G = "never" \/ Noticed(Tail(program), G, f)
        /\ Pending(F, G)
  BY FaultyFacts
<1>3. PICK F, G : /\ leaf = ThirdParty(f) /\ Betrays(f, Now, F, G)
                  /\ G = "never" \/ Noticed(Tail(program), G, f)
                  /\ Pending(F, G)
  BY <1>2
<1>4. (ForeignAllocate(t) \/ ForeignDeallocate(t)) /\ UNCHANGED suiteVars
  BY <1>1 DEF ResourceStep
<1>5. call[t].pc = "called" /\ leaf' = leaf
  BY <1>4 DEF ForeignAllocate, ForeignDeallocate, In
<1>6. t = Tester
  BY <1>1, <1>5 DEF Others
<1>7. /\ program' = program /\ Now' = Now /\ slots' = slots /\ contents' = contents
      /\ verdict' = verdict /\ complete' = complete
  BY <1>4 DEF suiteVars, Now
<1>8. Now.op \in {"take", "give"} /\ Matches /\ IsSo(F, slots, live, contents)
  BY <1>3, <1>5, <1>6 DEF Pending
<1>9. \E c : /\ call' = [call EXCEPT ![Tester] = c] /\ c.pc = "returned"
             /\ Wanted(c, Now) => IsSo(G, SlotsAfter(c, Now, slots), live', contents)
  <2>1. CASE ForeignAllocate(Tester)
    <3>1. call[Tester].op = "allocate"
      BY <2>1 DEF ForeignAllocate, In
    <3>2. Now.op = "take" /\ call[Tester].n = Now.n
      BY <1>8, <3>1 DEF Matches
    <3>. QED  BY <1>1, <1>3, <1>8, <2>1, <3>2, AllocateBetrays
  <2>2. CASE ForeignDeallocate(Tester)
    <3>1. call[Tester].op = "deallocate"
      BY <2>2 DEF ForeignDeallocate, In
    <3>2. Now.op = "give" /\ call[Tester].ptr = Slot(Now.slot) + Now.off
      BY <1>8, <3>1 DEF Matches
    <3>. QED  BY <1>3, <1>8, <2>2, <3>2, DeallocateBetrays
  <2>. QED  BY <1>4, <1>6, <2>1, <2>2
<1>10. PICK c : /\ call' = [call EXCEPT ![Tester] = c] /\ c.pc = "returned"
                /\ Wanted(c, Now) => IsSo(G, SlotsAfter(c, Now, slots), live', contents)
  BY <1>9
<1>11. call'[Tester] = c /\ Others' /\ DOMAIN call' = Callers
  BY <1>1, <1>10 DEF Others
<1>12. Pending(F, G)'
  BY <1>7, <1>8, <1>10, <1>11 DEF Pending
<1>13. Betrays(f, Now', F, G) /\ (G = "never" \/ Noticed(Tail(program'), G, f)) /\ leaf' = ThirdParty(f)
  BY <1>3, <1>5, <1>7
<1>14. program' \in Seq(Steps) /\ program' # <<>> /\ complete' /\ verdict' = "running"
  BY <1>1, <1>7
<1>. QED  BY <1>11, <1>12, <1>13, <1>14, Zenon DEF FaultyRun

LEMMA FaultyRunNext == ASSUME FaultyRun, [Next]_vars PROVE FaultyRun'
<1>1. CASE UNCHANGED vars
  <2>1. /\ UNCHANGED <<leaf, live, call, program, complete, slots, contents, verdict>>
    BY <1>1 DEF vars
  <2>2. Now' = Now /\ Matches' = Matches
    BY <2>1 DEF Now, Matches, Slot
  <2>3. \A F, G : Pending(F, G)' = Pending(F, G)
    BY <2>1, <2>2 DEF Pending
  <2>4. Others' = Others
    BY <2>1 DEF Others
  <2>. QED  BY <2>1, <2>2, <2>3, <2>4 DEF FaultyRun
<1>2. CASE Next
  <2>1. verdict = "running"
    <3>1. verdict \in {"running", "failed", "raised", "exhausted"}
      BY DEF FaultyRun
    <3>2. verdict \in {"none", "running"}
      BY <1>2 DEF Next, CallerStep, ResourceStep, MakeResource, StartCall, EndCall, WriteSlot,
                  Check, Pass, Runs
    <3>. QED  BY <3>1, <3>2
  <2>2. ~Pass /\ \A t \in Callers : ~CallerStep(t)
    BY <2>1, FaultyFacts DEF Pass, CallerStep
  <2>. QED
    BY <1>2, <2>1, <2>2, FaultyServes, FaultyRests, FaultyStarts, FaultyEnds DEF Next
<1>. QED  BY <1>1, <1>2

\* The whole suite begins, on a resource with a fault that it is to notice.
LEMMA FaultyRunInit ==
  ASSUME SuiteDraws, Init, verdict # "none", complete, NEW f \in Noticeable, leaf = ThirdParty(f)
  PROVE  FaultyRun
<1>1. PICK l \in Suspects : FreshLeaf(l) /\ program = MRConformance(l)
  BY DEF Init
<1>2. verdict = "running"
  BY DEF Init
<1>3. leaf = l /\ DOMAIN call = Callers /\ \A t \in Callers : call[t].pc = "idle"
  BY <1>1 DEF FreshLeaf, Idle
<1>4. program \in Seq(Steps) /\ Noticed(program, "any", f)
  BY <1>1, <1>3, SuiteNotices
<1>5. program # <<>> /\ \E G : Betrays(f, Head(program), "any", G) /\ (G = "never" \/ Noticed(Tail(program), G, f))
  BY <1>4, NoticedOn
<1>6. PICK G : Betrays(f, Now, "any", G) /\ (G = "never" \/ Noticed(Tail(program), G, f))
  BY <1>5 DEF Now
<1>7. Pending("any", G) /\ Others
  BY <1>3, SuiteAssumption DEF Pending, IsSo, Others
<1>. QED  BY <1>2, <1>3, <1>4, <1>5, <1>6, <1>7, Zenon DEF FaultyRun
-------------------------------------------------------------------------------
(***************************************************************************)
(* The verdict                                                             *)
(***************************************************************************)
\* The two tables are functions, on whatever they are defined.
IsTable(f) == f = [x \in DOMAIN f |-> f[x]]
Tables == IsTable(live) /\ IsTable(blocks)

LEMMA TablesAre ==
  /\ IsTable(Nothing)
  /\ \A f, x, v : IsTable(With(f, x, v))
  /\ \A f, x : IsTable(Without(f, x))
  /\ \A f : IsTable(f) /\ DOMAIN f = {} => f = Nothing
<1>1. IsTable(Nothing)
  BY DEF IsTable, Nothing
<1>2. ASSUME NEW f, NEW x, NEW v PROVE IsTable(With(f, x, v))
  BY DEF IsTable, With
<1>3. ASSUME NEW f, NEW x PROVE IsTable(Without(f, x))
  BY DEF IsTable, Without
<1>4. ASSUME NEW f, IsTable(f), DOMAIN f = {} PROVE f = Nothing
  BY <1>4 DEF IsTable, Nothing
<1>. QED  BY <1>1, <1>2, <1>3, <1>4

\* A table without some of what was in it.
Beside(f, d) == [x \in DOMAIN f \ d |-> f[x]]

LEMMA TablesForeign ==
  ASSUME Tables, NEW t, ForeignAllocate(t) \/ ForeignDeallocate(t)
  PROVE  Tables'
<1>1. CASE ForeignAllocate(t)
  <2>1. \/ UNCHANGED <<live, blocks>>
        \/ (\E x, v : live' = With(live, x, v)) /\ (\E x, v : blocks' = With(blocks, x, v))
    <3> DEFINE n == call[t].n
    <3>1. CASE n < 0 /\ leaf.name # "trustsSigns"
      BY <1>1, <3>1 DEF ForeignAllocate
    <3>2. CASE ~(n < 0 /\ leaf.name # "trustsSigns")
      <4>1. PICK base \in Bases :
              LET ptr == PointerOf(n, base)
                  bytes == IF leaf.name = "short" THEN n - 1 ELSE n
              IN /\ live' = With(live, ptr, [n |-> n, base |-> base])
                 /\ blocks' = With(blocks, base, bytes)
        BY <1>1, <3>2 DEF ForeignAllocate
      <4>. QED  BY <4>1, Zenon
    <3>. QED  BY <3>1, <3>2
  <2>. QED  BY <2>1, TablesAre, Zenon DEF Tables
<1>2. CASE ForeignDeallocate(t)
  <2>1. \/ UNCHANGED <<live, blocks>>
        \/ /\ \E d : live' = Beside(live, d)
           /\ \E d : blocks' = Beside(blocks, d)
    BY <1>2, Zenon DEF ForeignDeallocate, Beside
  <2>2. ASSUME NEW f, NEW d PROVE IsTable(Beside(f, d))
    BY DEF IsTable, Beside
  <2>. QED  BY <2>1, <2>2, Zenon DEF Tables
<1>. QED  BY <1>1, <1>2

LEMMA TablesNext == ASSUME Tables, [Next]_vars PROVE Tables'
<1>1. ASSUME UNCHANGED <<live, blocks>> PROVE Tables'
  BY <1>1 DEF Tables
<1>2. ASSUME NEW t, NEW bases, LeafStep(t, bases) PROVE Tables'
  <2>1. ASSUME NEW base, Obtain(t, base) PROVE Tables'
    <3>1. live' = live /\ \E v : blocks' = With(blocks, base, v)
      BY <2>1 DEF Obtain
    <3>. QED  BY <3>1, TablesAre, Zenon DEF Tables
  <2>2. ASSUME Record(t) PROVE Tables'
    <3>1. blocks' = blocks /\ \E x, v : live' = With(live, x, v)
      BY <2>2, Zenon DEF Record
    <3>. QED  BY <3>1, TablesAre, Zenon DEF Tables
  <2>3. ASSUME TakeOut(t) PROVE Tables'
    <3>1. blocks' = blocks /\ live' = Without(live, call[t].ptr)
      BY <2>3 DEF TakeOut
    <3>. QED  BY <3>1, TablesAre, Zenon DEF Tables
  <2>4. ASSUME Release(t) PROVE Tables'
    <3>1. live' = live /\ blocks' = Without(blocks, call[t].base)
      BY <2>4 DEF Release
    <3>. QED  BY <3>1, TablesAre, Zenon DEF Tables
  <2>5. ASSUME RecordAllocation(t) PROVE Tables'
    <3>1. blocks' = blocks /\ \E x, v : live' = With(live, x, v)
      BY <2>5, Zenon DEF RecordAllocation
    <3>. QED  BY <3>1, TablesAre, Zenon DEF Tables
  <2>6. ASSUME RecordFree(t) PROVE Tables'
    <3>1. blocks' = blocks /\ (live' = live \/ \E x : live' = Without(live, x))
      BY <2>6, Zenon DEF RecordFree
    <3>. QED  BY <3>1, TablesAre, Zenon DEF Tables
  <2>7. ASSUME \/ RefuseNegative(t) \/ ObtainFails(t) \/ ObtainRaises(t) \/ RefuseFree(t)
               \/ ReleaseRaises(t) \/ WriteLog(t)
        PROVE  Tables'
    <3>1. UNCHANGED <<live, blocks>>
      BY <2>7, ZenonT(40) DEF RefuseNegative, ObtainFails, ObtainRaises, RefuseFree, ReleaseRaises, WriteLog
    <3>. QED  BY <1>1, <3>1
  <2>. QED  BY <1>2, <2>1, <2>2, <2>3, <2>4, <2>5, <2>6, <2>7 DEF LeafStep
<1>3. ASSUME NEW t, CallerStep(t) PROVE Tables'
  BY <1>1, <1>3 DEF CallerStep, Allocate, Deallocate, Calls, Return
<1>4. ASSUME NEW t, ResourceStep(t) PROVE Tables'
  BY <1>2, <1>4, TablesForeign DEF ResourceStep
<1>5. ASSUME MakeResource PROVE Tables'
  <2>1. blocks' = blocks /\ live' = Nothing
    BY <1>5 DEF MakeResource
  <2>. QED  BY <2>1, TablesAre, Zenon DEF Tables
<1>6. ASSUME StartCall \/ EndCall \/ WriteSlot \/ Check \/ Pass \/ UNCHANGED vars PROVE Tables'
  <2>1. UNCHANGED <<live, blocks>>
    BY <1>6, ZenonT(40) DEF StartCall, EndCall, WriteSlot, Check, Pass, vars, leafVars, Allocate, Deallocate,
       Calls, Return
  <2>. QED  BY <1>1, <2>1
<1>. QED  BY <1>3, <1>4, <1>5, <1>6 DEF Next

\* A suite on a resource with a fault: nothing is known of a single check, nor of the
\* fault that goes unnoticed.
FlawedRun ==
  \E f \in Faults \ {"none"} :
    /\ leaf = ThirdParty(f)
    /\ complete /\ f \in Noticeable => FaultyRun

LEMMA FlawedRunNext ==
  ASSUME FlawedRun, verdict # "none", [Next]_vars
  PROVE  FlawedRun'
<1>1. PICK f \in Faults \ {"none"} :
        leaf = ThirdParty(f) /\ (complete /\ f \in Noticeable => FaultyRun)
  BY DEF FlawedRun
<1>2. leaf.name \notin {"bytearray", "posix", "windows"}
  <2>1. leaf.name = f
    BY <1>1 DEF ThirdParty, Plain
  <2>. QED  BY <2>1 DEF Faults
<1>3. leaf' = leaf
  <2>1. ASSUME NEW t, ResourceStep(t) PROVE leaf' = leaf
    BY <2>1, LeafUntouched, Zenon DEF ResourceStep
  <2>2. ASSUME MakeResource PROVE leaf' = leaf
    BY <1>2, <2>2 DEF MakeResource, Realigned
  <2>3. ASSUME StartCall PROVE leaf' = leaf
    BY <2>3, LeafUntouched, Zenon DEF StartCall
  <2>4. ASSUME EndCall PROVE leaf' = leaf
    BY <2>4, LeafUntouched, Zenon DEF EndCall
  <2>5. ASSUME WriteSlot \/ Check \/ Pass \/ UNCHANGED vars PROVE leaf' = leaf
    BY <2>5 DEF WriteSlot, Check, Pass, vars, leafVars
  <2>. QED  BY <2>1, <2>2, <2>3, <2>4, <2>5 DEF Next, CallerStep
<1>4. complete' = complete
  BY DEF Next, CallerStep, ResourceStep, MakeResource, StartCall, EndCall, WriteSlot, Check, Pass,
         suiteVars, vars, Ensure, Advance, Stop
<1>5. complete' /\ f \in Noticeable => FaultyRun'
  BY <1>1, <1>4, FaultyRunNext
<1>. QED  BY <1>1, <1>3, <1>5 DEF FlawedRun

\* Inductive.
SuiteInv == Tables /\ (verdict # "none" => SoundRun \/ FlawedRun)

LEMMA SuiteInvHolds == ASSUME SuiteSetting PROVE Spec => []SuiteInv
<1>1. Init => SuiteInv
  <2> SUFFICES ASSUME Init PROVE SuiteInv
    OBVIOUS
  <2>1. live = Nothing /\ blocks = Nothing
    BY DEF Init, FreshLeaf
  <2>2. Tables
    BY <2>1, TablesAre, Zenon DEF Tables
  <2>3. ASSUME verdict # "none" PROVE SoundRun \/ FlawedRun
    <3>1. leaf \in Suspects
      BY <2>3 DEF Init, FreshLeaf
    <3>2. CASE Sound(leaf)
      BY <2>3, <3>2, SoundRunInit
    <3>3. CASE ~Sound(leaf)
      <4>1. PICK f \in Faults : leaf = ThirdParty(f)
        BY <3>1, <3>3 DEF SuiteSetting, SuspectsAreKnown
      <4>2. f # "none"
        BY <3>3, <4>1 DEF Sound
      <4>3. complete /\ f \in Noticeable => FaultyRun
        BY <2>3, <4>1, FaultyRunInit DEF SuiteSetting
      <4>. QED  BY <4>1, <4>2, <4>3 DEF FlawedRun
    <3>. QED  BY <3>2, <3>3
  <2>. QED  BY <2>2, <2>3 DEF SuiteInv
<1>2. SuiteInv /\ [Next]_vars => SuiteInv'
  <2> SUFFICES ASSUME SuiteInv, [Next]_vars PROVE SuiteInv'
    OBVIOUS
  <2>1. Tables'
    BY TablesNext DEF SuiteInv
  <2>2. CASE verdict = "none"
    <3>1. verdict' = "none"
      BY <2>2 DEF Next, CallerStep, ResourceStep, MakeResource, StartCall, EndCall, WriteSlot, Check,
                  Pass, Runs, suiteVars, vars
    <3>. QED  BY <2>1, <3>1 DEF SuiteInv
  <2>3. CASE verdict # "none"
    <3>1. SoundRun' \/ FlawedRun'
      BY <2>3, SoundRunNext, FlawedRunNext DEF SuiteInv
    <3>. QED  BY <2>1, <3>1 DEF SuiteInv
  <2>. QED  BY <2>2, <2>3
<1>. QED  BY <1>1, <1>2, PTL DEF Spec

LEMMA SoundIsNotFaulty == ASSUME Sound(leaf) PROVE ~Faulty
BY ForeignWorks DEF Faulty, Foreign

LEMMA SoundRunJudges ==
  ASSUME SuiteSetting, Tables, SoundRun
  PROVE  SuiteSound
<1>1. ~Faulty
  BY SoundIsNotFaulty DEF SoundRun
<1>2. /\ verdict \in {"running", "passed", "raised", "exhausted"}
      /\ verdict = "passed" => DOMAIN live = {} /\ DOMAIN blocks = {}
      /\ verdict = "raised" => leaf.raises # {}
  BY DEF SoundRun
<1>3. verdict = "passed" => live = Nothing /\ blocks = Nothing
  BY <1>2, TablesAre, Zenon DEF Tables
<1>4. ~misfreed
  BY KeptFacts
<1>. QED  BY <1>1, <1>2, <1>3, <1>4 DEF SuiteSound, SuiteJudges, SuiteReturnsAll

LEMMA FlawedRunJudges ==
  ASSUME FlawedRun
  PROVE  SuiteSound
<1>1. PICK f \in Faults \ {"none"} :
        leaf = ThirdParty(f) /\ (complete /\ f \in Noticeable => FaultyRun)
  BY DEF FlawedRun
<1>2. leaf.name = f
  BY <1>1 DEF ThirdParty, Plain
<1>3. Faulty
  BY <1>2 DEF Faulty, Foreign, Own, Faults
<1>4. complete /\ f \in Noticeable => verdict # "passed"
  BY <1>1 DEF FaultyRun
<1>5. f \in Noticeable \/ f \in Unnoticed
  BY <1>1 DEF Noticeable
<1>. QED  BY <1>2, <1>3, <1>4, <1>5 DEF SuiteSound, SuiteJudges, SuiteReturnsAll

\* `mr_conformance` and the tests of the mixin, on a resource of devmm's, a device's default
\* or a third party's that works or has one of the faults: the whole suite passes no fault
\* that it is about, fails nothing that has none, ends otherwise only for want of memory or
\* for a library that failed, and leaves all memory given back; for any sizes, batches and
\* alignments that it draws, and wherever the library's blocks begin.
THEOREM SuiteIsSound ==
  ASSUME SuiteSetting
  PROVE  Spec => []SuiteSound
<1>1. SuiteInv => SuiteSound
  <2> SUFFICES ASSUME SuiteInv PROVE SuiteSound
    OBVIOUS
  <2>1. CASE verdict = "none"
    BY <2>1 DEF SuiteSound, SuiteJudges, SuiteReturnsAll
  <2>2. CASE verdict # "none"
    BY <2>2, SoundRunJudges, FlawedRunJudges DEF SuiteInv
  <2>. QED  BY <2>1, <2>2
<1>. QED  BY <1>1, SuiteInvHolds, PTL

\* What the properties of the leaves say while a suite runs.
LEMMA SuiteOwns ==
  ASSUME SuiteSetting, SuiteInv, verdict # "none"
  PROVE  BlocksOwned /\ AllocationsApart /\ LogTellsAll
<1>1. CASE FlawedRun
  <2>1. PICK f \in Faults \ {"none"} : leaf = ThirdParty(f)
    BY <1>1 DEF FlawedRun
  <2>2. leaf.name = f /\ leaf.logged = FALSE
    BY <2>1 DEF ThirdParty, Plain
  <2>3. Foreign /\ ~Records /\ ~leaf.logged
    BY <2>2 DEF Foreign, Own, Records, Faults
  <2>. QED  BY <2>3 DEF BlocksOwned, AllocationsApart, LogTellsAll
<1>2. CASE SoundRun
  <2>1. /\ Wellmade(leaf) /\ ~Records /\ leaf.logged = FALSE
        /\ KeepsApart(leaf, Asked, Bases) /\ Asked \subseteq Int /\ Bases \subseteq Nat
    BY <1>2, SoundFacts
  <2>2. LogTellsAll
    BY <2>1 DEF LogTellsAll
  <2>3. CASE Foreign
    BY <2>2, <2>3 DEF BlocksOwned, AllocationsApart
  <2>4. CASE ~Foreign
    <3>1. Ownership(Asked, Bases)
      BY <1>2, <2>4 DEF SoundRun, Kept
    <3>2. BlocksOwned
      BY <3>1, OwnershipSuffices DEF BlocksOwned, Lost
    <3>3. \A p, q \in DOMAIN live : p # q => Extent(p) \cap Extent(q) = {}
      BY <2>1, <3>1, LeavesApart, ExtentsApart
    <3>4. AllocationsApart
      BY <2>1, <3>1, <3>3, LeavesApart DEF AllocationsApart
    <3>. QED  BY <2>2, <3>2, <3>4
  <2>. QED  BY <2>3, <2>4
<1>. QED  BY <1>1, <1>2 DEF SuiteInv

\* Who has a block is settled also in every step of a suite, in the midst of what it misuses
\* on purpose: double frees, frees of what was never given out, and negative sizes.
THEOREM BlocksHaveOneOwnerAlways ==
  ASSUME Setting, SuiteSetting
  PROVE  Spec => []BlocksOwned
<1>1. SuiteInv /\ (verdict = "none" => BlocksOwned) => BlocksOwned
  BY SuiteOwns
<1>2. Spec => [](verdict = "none" => BlocksOwned)
  BY BlocksHaveOneOwner
<1>. QED  BY <1>1, <1>2, SuiteInvHolds, PTL

\* And what it was given lies where it should, apart from all else that it was given: for
\* the factories that the suite calls with any alignment, too.
THEOREM AllocationsStayApartAlways ==
  ASSUME Setting, SuiteSetting
  PROVE  Spec => []AllocationsApart
<1>1. SuiteInv /\ (verdict = "none" => AllocationsApart) => AllocationsApart
  BY SuiteOwns
<1>2. Spec => [](verdict = "none" => AllocationsApart)
  BY AllocationsStayApart
<1>. QED  BY <1>1, <1>2, SuiteInvHolds, PTL
===============================================================================
