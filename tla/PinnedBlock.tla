----------------------------- MODULE PinnedBlock ------------------------------
(***************************************************************************)
(* What the lifetime diagram of the design (section 7.4) promises of one   *)
(* allocation: whoever holds it may let go of it or hand it on, it goes    *)
(* back to its memory resource once, only after the last holder let go,    *)
(* and it does go back.                                                    *)
(*                                                                         *)
(* It is the abstract counterpart of BufferExport and says nothing of      *)
(* finalizers, capsules, deleters or reference counts.                     *)
(***************************************************************************)
CONSTANTS
  Parties,  \* everything that can hold the allocation
  Owner     \* the program that made it

VARIABLES
  holders,  \* the parties that hold it now
  out       \* it has not been given back

Init == holders = {Owner} /\ out = TRUE

Share ==
  /\ holders # {}
  /\ holders' \in SUBSET Parties
  /\ UNCHANGED out

GiveBack ==
  /\ holders = {}
  /\ out
  /\ out' = FALSE
  /\ UNCHANGED holders

Next == Share \/ GiveBack

Safety == Init /\ [][Next]_<<holders, out>>

Spec == Safety /\ WF_<<holders, out>>(GiveBack)
===============================================================================
