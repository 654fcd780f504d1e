----------------------------- MODULE Conformance -----------------------------
(***************************************************************************)
(* The conformance suite for memory resources (testing/_conformance.py,    *)
(* testing/_mr_conformance.py) and the resources it is run against: those  *)
(* of LeafResources, and a third party's, which may break the contract in  *)
(* one way.  A check is a program of instructions on one fresh resource;   *)
(* `mr_conformance` runs all of them, a method of the pytest mixin runs    *)
(* one.  Either one caller runs a program, or all callers call as they     *)
(* like: then the properties of LeafResources are at stake.                *)
(***************************************************************************)
EXTENDS LeafResources, SequencesExt

CONSTANTS
  Leaves,      \* the resources that callers use
  Suspects,    \* the resources that the suite is run against
  Tester,      \* the caller that runs the suite
  Sizes,       \* bound: the sizes that callers pass
  CallerBases, \* bound: where their blocks may begin
  Alignments,  \* bound: some of _ALIGNMENTS
  SweepSizes,  \* bound: some of _SWEEP_NBYTES, or of what hypothesis draws
  GuaranteeSizes,  \* bound: some of the sizes of check_guaranteed_alignment
  BatchSizes   \* bound: some of the sizes of check_bookkeeping

ASSUME SuiteAssumption == Tester \in Callers /\ CallerBases \subseteq Bases

VARIABLES
  program,   \* the instructions that are left
  complete,  \* the program is the whole suite
  slots,     \* the pointers that the check's variables hold
  contents,  \* what was last written into each block
  verdict    \* "none" without a suite, "running", "passed", "failed" by an assertion,
             \* "raised" by an error that nobody expected, "exhausted" by MemoryError

suiteVars == <<program, complete, slots, contents, verdict>>
vars == <<leaf, live, call, blocks, stranded, misfreed, recorder,
          program, complete, slots, contents, verdict>>
-------------------------------------------------------------------------------
(***************************************************************************)
(* A third party's resource                                                *)
(***************************************************************************)
\* It works in one step, and its fault is one of
\*   "none"
\*   "aliases"        it hands out what is in use
\*   "crooked"        its pointers are off the alignment it guarantees
\*   "sharesZero"     allocations of no bytes have one address
\*   "nullZero"       and that is NULL
\*   "trustsSigns"    a negative size is accepted
\*   "trustsFrees"    whatever is freed is taken for freed
\*   "freesTwice"     a free of what was once a block is taken for a free
\*   "dropsOnRefusal" a refused free takes something else away
\*   "forgetsNothing" a freed pointer stays in its table
\*   "short"          blocks are one byte short
ThirdParty(fault) ==
  [Plain(fault, 256) EXCEPT !.checksSizes = FALSE]

Contents(base) == IF base \in DOMAIN contents THEN contents[base] ELSE "junk"

PointerOf(n, base) ==
  CASE n = 0 /\ leaf.name = "nullZero" -> 0
    [] leaf.name = "crooked" -> base + 8
    [] OTHER -> base

ForeignAllocate(t) ==
  /\ Foreign
  /\ In(t, "allocate")
  /\ LET n == call[t].n IN
     IF n < 0 /\ leaf.name # "trustsSigns"
     THEN Answer(t, Raised("ValueError")) /\ UNCHANGED <<live, blocks>>
     ELSE \E base \in Bases :
            /\ base % leaf.guarantee = 0
            /\ IF DOMAIN live # {} /\ (leaf.name = "aliases" \/ (leaf.name = "sharesZero" /\ n = 0))
               THEN base \in {live[ptr].base : ptr \in DOMAIN live}
               ELSE base \notin DOMAIN blocks
            /\ LET ptr == PointerOf(n, base)
                   bytes == IF leaf.name = "short" THEN n - 1 ELSE n
               IN /\ live' = With(live, ptr, [n |-> n, base |-> base])
                  /\ blocks' = With(blocks, base, bytes)
                  /\ Answer(t, Returned(ptr))
  /\ UNCHANGED <<leaf, stranded, misfreed, recorder>>

ForeignDeallocate(t) ==
  /\ Foreign
  /\ In(t, "deallocate")
  /\ LET ptr == call[t].ptr
         dropped == IF ~Unknown(ptr) THEN {ptr}
                    ELSE IF leaf.name = "dropsOnRefusal" THEN DOMAIN live ELSE {}
     IN
     /\ IF leaf.name = "forgetsNothing" THEN UNCHANGED <<live, blocks>>
        ELSE /\ live' = [p \in DOMAIN live \ dropped |-> live[p]]
             /\ blocks' = [b \in DOMAIN blocks \ {live[p].base : p \in dropped} |-> blocks[b]]
     /\ IF \/ ~Unknown(ptr)
           \/ leaf.name = "trustsFrees"
           \/ leaf.name = "freesTwice" /\ ptr \in Bases
        THEN Answer(t, Returned(0))
        ELSE Answer(t, Raised("ValueError"))
  /\ UNCHANGED <<leaf, stranded, misfreed, recorder>>
-------------------------------------------------------------------------------
(***************************************************************************)
(* The checks, as programs                                                 *)
(*   take     slot := mr.allocate(n, stream)                               *)
(*   give     mr.deallocate(slot + off, n, stream)                         *)
(*   write, read, aligned, nonnull, distinct, count                        *)
(*            on the slots, and on _debug_live_count()                     *)
(*   fresh    mr := mr_factory(), with an alignment                        *)
(* `misuse` says that ValueError is expected.                              *)
(***************************************************************************)
Instruction(op, slot, n) == [op |-> op, slot |-> slot, n |-> n, off |-> 0, misuse |-> FALSE,
                             tag |-> "none"]
Take(slot, n) == Instruction("take", slot, n)
Give(slot, n) == Instruction("give", slot, n)
Offbeat(i, off) == [i EXCEPT !.off = off]
Misused(i) == [i EXCEPT !.misuse = TRUE]
Write(slot, tag) == [Instruction("write", slot, 0) EXCEPT !.tag = tag]
Read(slot, tag) == [Instruction("read", slot, 0) EXCEPT !.tag = tag]
AlignedTo(slot, to) == Instruction("aligned", slot, to)
NonNull(slot) == Instruction("nonnull", slot, 0)
Distinct(slot, other) == Instruction("distinct", slot, other)
Count(n) == Instruction("count", 0, n)
Fresh(alignment) == Instruction("fresh", 0, alignment)

CheckWriteThenRead ==
  <<Take(1, 1024), Write(1, "pattern"), Read(1, "pattern"), Give(1, 1024)>>

\* A slip: the second block is not given back.
CheckNoAliasingKeeping ==
  << Take(1, 256), Write(1, "aa"), Take(2, 256), Write(2, "55"),
     Read(1, "aa"), Give(1, 256), Read(2, "55") >>

CheckNoAliasing ==
  << Take(1, 256), Write(1, "aa"), Take(2, 256), Write(2, "55"),
     Read(1, "aa"), Give(1, 256), Read(2, "55"), Give(2, 256) >>

CheckGuaranteedAlignment(l) ==
  FlattenSeq([i \in 1..Len(GuaranteeSizes) |->
    <<Take(1, GuaranteeSizes[i]), AlignedTo(1, l.guarantee), Give(1, GuaranteeSizes[i])>>])

CheckRequestedAlignment(n, alignment) ==
  <<Take(1, n), AlignedTo(1, alignment), Write(1, "pattern"), Read(1, "pattern"), Give(1, n)>>

CheckBookkeeping ==
  [i \in 1..Len(BatchSizes) |-> Take(i, BatchSizes[i])] \o <<Count(Len(BatchSizes))>> \o
  [i \in 1..Len(BatchSizes) |-> Give(i, BatchSizes[i])] \o <<Count(0)>>

\* A slip: the second free is tried on a pointer that is still in use.
CheckDoubleFreeOnce ==
  <<Take(1, 64), Misused(Offbeat(Give(1, 64), 1)), Give(1, 64)>>

CheckDoubleFree == <<Take(1, 64), Give(1, 64), Misused(Give(1, 64))>>

CheckForeignFree == <<Take(1, 64), Misused(Offbeat(Give(1, 64), 1)), Give(1, 64), Count(0)>>

CheckZeroByte ==
  << Take(1, 0), Take(2, 0), NonNull(1), NonNull(2), Distinct(1, 2),
     Give(1, 0), Give(2, 0), Count(0) >>

CheckNegativeSize == <<Misused(Take(1, -1))>>
-------------------------------------------------------------------------------
(***************************************************************************)
(* The suite                                                               *)
(***************************************************************************)
\* _accepts_alignment: of the leaves here, the constructors of two do.
AcceptsAlignment(l) == l.name \in {"bytearray", "posix", "windows"}

\* The factory, called with an alignment.
Realigned(l, alignment) ==
  CASE l.name = "bytearray" -> Bytearray(alignment)
    [] l.name \in {"posix", "windows"} -> Malloc(l.name, alignment)
    [] OTHER -> l

Sweep(l) ==
  IF ~AcceptsAlignment(l) THEN <<>>
  ELSE FlattenSeq([a \in 1..Len(Alignments) |->
         <<Fresh(Alignments[a])>> \o
         FlattenSeq([s \in 1..Len(SweepSizes) |->
           CheckRequestedAlignment(SweepSizes[s], Alignments[a])])])

\* Without an alignment the factory is called with its own.
Anew(l, check) == <<Fresh(l.alignment)>> \o check

\* mr_conformance.
MRConformance(l) ==
  Anew(l, CheckWriteThenRead) \o Anew(l, CheckNoAliasing) \o
  Anew(l, CheckGuaranteedAlignment(l)) \o Sweep(l) \o
  Anew(l, CheckBookkeeping) \o Anew(l, CheckDoubleFree) \o Anew(l, CheckForeignFree) \o
  Anew(l, CheckZeroByte) \o Anew(l, CheckNegativeSize)

\* MemoryResourceConformance: each test runs one check.  The one of requested alignments
\* asks make_mr for resources with an alignment; it is run on those that can have one, as
\* any other may fail it, faulty or not.
Tests(l) ==
  { CheckWriteThenRead, CheckNoAliasing, CheckGuaranteedAlignment(l), CheckBookkeeping,
    CheckDoubleFree, CheckForeignFree, CheckZeroByte, CheckNegativeSize } \cup
  ( IF ~AcceptsAlignment(l) THEN {}
    ELSE { <<Fresh(Alignments[a])>> \o CheckRequestedAlignment(SweepSizes[s], Alignments[a]) :
             a \in 1..Len(Alignments), s \in 1..Len(SweepSizes) } )

\* The instruction that is next.
Now == Head(program)
Runs(op) == verdict = "running" /\ program # <<>> /\ Now.op = op
Slot(i) == IF i \in DOMAIN slots THEN slots[i] ELSE 0
BlockAt(ptr) == IF Unknown(ptr) THEN 0 ELSE live[ptr].base

Advance == program' = Tail(program) /\ UNCHANGED <<complete, verdict>>
Stop(why) == verdict' = why /\ UNCHANGED <<program, complete>>
Ensure(condition) == IF condition THEN Advance ELSE Stop("failed")

\* mr_factory: a resource that nobody has used.
MakeResource ==
  /\ Runs("fresh")
  /\ leaf' = Realigned(leaf, Now.n)
  /\ live' = Nothing
  /\ slots' = Nothing
  /\ Advance
  /\ UNCHANGED <<call, blocks, stranded, misfreed, recorder, contents>>

StartCall ==
  /\ Runs("take") \/ Runs("give")
  /\ IF Now.op = "take" THEN Allocate(Tester, Now.n)
     ELSE Deallocate(Tester, Slot(Now.slot) + Now.off, Now.n)
  /\ UNCHANGED suiteVars

\* _expect, where misuse is expected; otherwise what was raised is the suite's, too.
EndCall ==
  /\ Runs("take") \/ Runs("give")
  /\ Return(Tester)
  /\ LET answer == call[Tester] IN
     /\ IF answer.ok /\ ~Now.misuse THEN Advance
        ELSE IF answer.ok THEN Stop("failed")
        ELSE IF Now.misuse /\ answer.error = "ValueError" THEN Advance
        ELSE IF answer.error \in {"MemoryError", "unserved"} THEN Stop("exhausted")
        ELSE Stop("raised")
     /\ IF answer.ok /\ Now.op = "take" THEN slots' = With(slots, Now.slot, answer.ptr)
        ELSE UNCHANGED slots
  /\ UNCHANGED contents

\* Through the pointer into the block; a block that is a byte short is overrun, and
\* what lies behind it may be nobody's.
WriteSlot ==
  /\ Runs("write")
  /\ contents' = With(contents, BlockAt(Slot(Now.slot)), Now.tag)
  /\ Advance
  /\ UNCHANGED <<slots, leafVars>>

\* The condition that an instruction ensures.
Holds(i) ==
  CASE i.op = "read"     -> Contents(BlockAt(Slot(i.slot))) = i.tag
    [] i.op = "aligned"  -> i.n >= 1 /\ Slot(i.slot) % i.n = 0
    [] i.op = "nonnull"  -> Slot(i.slot) # 0
    [] i.op = "distinct" -> Slot(i.slot) # Slot(i.n)
    [] i.op = "count"    -> Cardinality(DOMAIN live) = i.n

Check ==
  /\ \E op \in {"read", "aligned", "nonnull", "distinct", "count"} : Runs(op)
  /\ Ensure(Holds(Now))
  /\ UNCHANGED <<slots, contents, leafVars>>

Pass ==
  /\ verdict = "running" /\ program = <<>>
  /\ Stop("passed")
  /\ UNCHANGED <<slots, contents, leafVars>>
-------------------------------------------------------------------------------
Init ==
  /\ slots = Nothing
  /\ contents = Nothing
  /\ \/ /\ \E l \in Leaves : FreshLeaf(l)
        /\ program = <<>> /\ complete = FALSE /\ verdict = "none"
     \/ /\ \E l \in Suspects :
             /\ FreshLeaf(l)
             /\ \/ program = MRConformance(l) /\ complete = TRUE
                \/ program \in Tests(l) /\ complete = FALSE
        /\ verdict = "running"

\* Callers that use a resource as they like.
CallerStep(t) ==
  /\ verdict = "none"
  /\ \/ \E n \in Sizes : Allocate(t, n)
     \/ \E ptr \in DOMAIN live \cup recorder.freed \cup CallerBases, n \in Sizes : Deallocate(t, ptr, n)
     \/ Return(t)
  /\ UNCHANGED suiteVars

ResourceStep(t) ==
  /\ verdict \in {"none", "running"}
  /\ \/ ~Foreign /\ LeafStep(t, IF verdict = "none" THEN CallerBases ELSE Bases)
     \/ ForeignAllocate(t)
     \/ ForeignDeallocate(t)
  /\ UNCHANGED suiteVars

Next ==
  \/ \E t \in Callers : CallerStep(t) \/ ResourceStep(t)
  \/ MakeResource
  \/ StartCall
  \/ EndCall
  \/ WriteSlot
  \/ Check
  \/ Pass

Spec == Init /\ [][Next]_vars
-------------------------------------------------------------------------------
(***************************************************************************)
(* Properties                                                              *)
(***************************************************************************)
\* mr_conformance "runs the contract suite": a resource that passes all of it has none of
\* the faults it is about, a resource without a fault is failed by no check, and only
\* running out of memory or a failing library explains any other end.
Faulty == Foreign /\ leaf.name # "none"
\* The suite reads back what it wrote: bytes that belong to nobody else stay what they are.
Unnoticed == {"short"}
SuiteJudges ==
  /\ verdict = "passed" /\ complete => (~Faulty \/ leaf.name \in Unnoticed)
  /\ verdict = "failed" => Faulty
  /\ verdict = "raised" => Faulty \/ leaf.raises # {}

\* "mr_factory must return a fresh MR per call", and the suite leaves each of them as it
\* got it: what passes, or is refused for its signs alone, has all its memory back.
SuiteReturnsAll ==
  verdict = "passed" /\ ~Faulty => blocks = Nothing /\ live = Nothing /\ ~misfreed

\* mr_conformance and the mixin, as a whole: the verdict is right, and costs nothing.
SuiteSound == SuiteJudges /\ SuiteReturnsAll
===============================================================================
