--------------------------- MODULE CurrentResource ----------------------------
(***************************************************************************)
(* What the registry promises (design section 3.4): one current resource   *)
(* per device that only an explicit install replaces, a default that is    *)
(* adopted once, scoped overrides that are nobody else's business, and     *)
(* lookups that answer with what is current at one instant of the call.    *)
(*                                                                         *)
(* It is the abstract counterpart of ResourceRegistry and says nothing of  *)
(* locks, discovery, loaders or context tokens.                            *)
(***************************************************************************)
CONSTANTS
  Contexts,    \* the threads and tasks that look resources up
  Devices,
  Resources,   \* the resources programs install or scope
  DeviceOf,    \* the device of each
  DefaultOf    \* the default resource of each device

VARIABLES
  current,    \* the current resource of every device that has one
  scoped,     \* per context, the overrides in force in it
  answer      \* per context, the device and the answer of its last lookup

With(f, d, m) == [x \in DOMAIN f \cup {d} |-> IF x = d THEN m ELSE f[x]]

Init ==
  /\ current = [d \in {} |-> 0]
  /\ scoped = [t \in Contexts |-> [d \in {} |-> 0]]
  /\ answer = [t \in Contexts |-> <<>>]

Install(m) ==
  /\ current' = With(current, DeviceOf[m], m)
  /\ UNCHANGED <<scoped, answer>>

Overridden(t, d) ==
  /\ d \in DOMAIN scoped[t]
  /\ answer' = [answer EXCEPT ![t] = <<d, scoped[t][d]>>]
  /\ UNCHANGED <<current, scoped>>

Lookup(t, d) ==
  /\ d \in DOMAIN current \ DOMAIN scoped[t]
  /\ answer' = [answer EXCEPT ![t] = <<d, current[d]>>]
  /\ UNCHANGED <<current, scoped>>

Adopt(t, d) ==
  /\ d \notin DOMAIN current \cup DOMAIN scoped[t]
  /\ current' = With(current, d, DefaultOf[d])
  /\ answer' = [answer EXCEPT ![t] = <<d, DefaultOf[d]>>]
  /\ UNCHANGED scoped

\* A block begins or ends in t, or t starts out as a copy of another context.
Rescope(t) ==
  /\ \E o \in UNION {[D -> Resources] : D \in SUBSET Devices} :
       scoped' = [scoped EXCEPT ![t] = o]
  /\ UNCHANGED <<current, answer>>

Next ==
  \/ \E m \in Resources : Install(m)
  \/ \E t \in Contexts :
       \/ Rescope(t)
       \/ \E d \in Devices : Overridden(t, d) \/ Lookup(t, d) \/ Adopt(t, d)

Spec == Init /\ [][Next]_<<current, scoped, answer>>
===============================================================================
