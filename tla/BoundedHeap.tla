----------------------------- MODULE BoundedHeap ------------------------------
(***************************************************************************)
(* What a byte-limited memory resource promises about the memory it takes  *)
(* from the system: a block comes and goes whole, a block that is out is   *)
(* never handed out again nor resized, and the blocks that are out never   *)
(* exceed the limit, not even between two steps of a call.                 *)
(*                                                                         *)
(* It is the abstract counterpart of ResourceStack and says nothing of     *)
(* counters, tables, calls or locks.                                       *)
(***************************************************************************)
EXTENDS Integers

CONSTANTS
  Addrs,      \* the addresses the platform allocator can return
  Sizes,      \* the sizes that are asked for
  Limit,      \* the most bytes that may be out at any time
  BytesOf(_)  \* the bytes a function from address to size stands for

VARIABLE
  blocks    \* the blocks that are out: a function from address to size

Init == blocks = [p \in {} |-> 0]

Obtain(p, n) ==
  /\ p \notin DOMAIN blocks
  /\ BytesOf(blocks) + n <= Limit
  /\ blocks' = [q \in DOMAIN blocks \cup {p} |->
                  IF q = p THEN n ELSE blocks[q]]

GiveBack(p) ==
  /\ p \in DOMAIN blocks
  /\ blocks' = [q \in DOMAIN blocks \ {p} |-> blocks[q]]

Next ==
  \/ \E p \in Addrs, n \in Sizes : Obtain(p, n)
  \/ \E p \in Addrs : GiveBack(p)

Spec == Init /\ [][Next]_blocks
===============================================================================
