------------------------ MODULE ResourceRegistryProofs ------------------------
(***************************************************************************)
(* Proofs about ResourceRegistry, for any contexts, devices, resources,    *)
(* runtimes and chains, and for programs of any length.                    *)
(***************************************************************************)
EXTENDS ResourceRegistry, SequenceTheorems, TLAPS

-------------------------------------------------------------------------------
(***************************************************************************)
(* Types                                                                   *)
(***************************************************************************)
LEMMA NothingMaps == Nothing \in Mappings
BY DEF Nothing, Mappings

\* An override added to a mapping of devices to resources gives another one.
LEMMA WithMaps ==
  ASSUME NEW f \in Mappings, NEW m \in Resources
  PROVE  With(f, DeviceOf[m], m) \in Mappings
<1>1. PICK D \in SUBSET Devices : f \in [D -> Resources]
  BY DEF Mappings
<1>2. DeviceOf[m] \in Devices
  BY RegistryAssumption
<1>3. With(f, DeviceOf[m], m) \in [D \cup {DeviceOf[m]} -> Resources]
  BY <1>1, <1>2 DEF With
<1>. QED  BY <1>2, <1>3 DEF Mappings

\* The runtimes still to try lose their first.
LEMMA TailTyped ==
  ASSUME NEW s \in Seq(Runtimes), s # <<>>
  PROVE  Head(s) \in Runtimes /\ Tail(s) \in Seq(Runtimes)
BY HeadTailProperties

\* A block's record, and the blocks with one more or one less.
Block == [mr : Resources, token : Mappings]

LEMMA BlocksTyped ==
  ASSUME NEW s \in Seq(Block)
  PROVE  /\ \A b \in Block : Append(s, b) \in Seq(Block)
         /\ s # <<>> => /\ SubSeq(s, 1, Len(s) - 1) \in Seq(Block)
                        /\ s[Len(s)] \in Block
<1>1. \A b \in Block : Append(s, b) \in Seq(Block)
  BY AppendProperties
<1>2. ASSUME s # <<>> PROVE SubSeq(s, 1, Len(s) - 1) \in Seq(Block) /\ s[Len(s)] \in Block
  <2>1. Len(s) \in Nat /\ Len(s) > 0 /\ \A i \in 1..Len(s) : s[i] \in Block
    BY <1>2, LenProperties, ElementOfSeq, EmptySeq
  <2>2. SubSeq(s, 1, Len(s) - 1) \in Seq(Block)
    BY <2>1, SubSeqProperties
  <2>. QED  BY <2>1, <2>2
<1>. QED  BY <1>1, <1>2

LEMMA TypeInit == Init => TypeOK
BY NothingMaps DEF Init, TypeOK, PCs, Nothing

\* A call that looks for a runtime has its device, and a call that loads one
\* knows which.
Located ==
  \A t \in Contexts :
    /\ op[t] \in {"get", "find"} => dev[t] \in Devices
    /\ pc[t] = "registry" => op[t] = "get"
    /\ pc[t] \in {"specs", "scan", "search", "loading"} => op[t] \in {"get", "find", "all"}
    /\ pc[t] = "default" => op[t] = "get"
    /\ pc[t] = "loading" => todo[t] # <<>>
    /\ pc[t] \in {"chain", "inside"} => using[t] \in Chains
    /\ pc[t] = "idle" => op[t] = "none"

LEMMA LocatedStep == TypeOK /\ Located /\ [Next]_vars => Located'
<1> SUFFICES ASSUME TypeOK, Located, [Next]_vars PROVE Located'
  OBVIOUS
<1>0. /\ pc \in [Contexts -> PCs] /\ dev \in [Contexts -> Devices \cup {NoDevice}]
      /\ op \in [Contexts -> {"none", "get", "find", "all", "chain"}]
      /\ todo \in [Contexts -> Seq(Runtimes)] /\ using \in [Contexts -> Chains \cup {NoChain}]
  BY DEF TypeOK
<1> USE <1>0 DEF Located, Goto, Leave, Idle, Advance, call
<1>1. ASSUME NEW t \in Contexts, GetHit(t) PROVE Located'
  BY <1>1 DEF GetHit
<1>2. ASSUME NEW t \in Contexts, GetMiss(t) PROVE Located'
  BY <1>2 DEF GetMiss
<1>3. ASSUME NEW t \in Contexts, MakeDefault(t) PROVE Located'
  BY <1>3 DEF MakeDefault
<1>4. ASSUME NEW t \in Contexts, DefaultFails(t) PROVE Located'
  BY <1>4 DEF DefaultFails
<1>5. ASSUME NEW t \in Contexts, TakeSpecs(t) PROVE Located'
  BY <1>5 DEF TakeSpecs
<1>6. ASSUME NEW t \in Contexts, Select(t) PROVE Located'
  BY <1>6 DEF Select
<1>7. ASSUME NEW t \in Contexts, PassLoaded(t) PROVE Located'
  BY <1>7 DEF PassLoaded
<1>8. ASSUME NEW t \in Contexts, LoadBegin(t) PROVE Located'
  BY <1>8 DEF LoadBegin
<1>9. ASSUME NEW t \in Contexts, LoadDone(t) PROVE Located'
  BY <1>9 DEF LoadDone
<1>10. ASSUME NEW t \in Contexts, LoadUnavailable(t) PROVE Located'
  BY <1>10 DEF LoadUnavailable
<1>11. ASSUME NEW t \in Contexts, LoadBreaks(t) PROVE Located'
  BY <1>11 DEF LoadBreaks
<1>12. ASSUME NEW t \in Contexts, Exhausted(t) PROVE Located'
  BY <1>12 DEF Exhausted
<1>13. ASSUME NEW t \in Contexts, ChainTake(t) PROVE Located'
  BY <1>13 DEF ChainTake
<1>14. ASSUME NEW t \in Contexts, ChainDrop(t) PROVE Located'
  BY <1>14 DEF ChainDrop
<1>15. ASSUME NEW t \in Contexts, Finalized(t) PROVE Located'
  BY <1>15 DEF Finalized
<1>16. ASSUME NEW t \in Contexts, NEW d \in Devices, GetOverridden(t, d) PROVE Located'
  BY <1>16 DEF GetOverridden
<1>17. ASSUME NEW t \in Contexts, NEW d \in Devices, GetBegin(t, d) PROVE Located'
  BY <1>17 DEF GetBegin
<1>18. ASSUME NEW t \in Contexts, NEW d \in Devices, FindBegin(t, d) PROVE Located'
  BY <1>18 DEF FindBegin
<1>19. ASSUME NEW t \in Contexts, FindAllBegin(t) PROVE Located'
  BY <1>19 DEF FindAllBegin
<1>20. ASSUME NEW t \in Contexts, NEW m \in Resources, SetCurrent(t, m) PROVE Located'
  BY <1>20 DEF SetCurrent
<1>21. ASSUME NEW t \in Contexts, NEW m \in Resources, EnterBlock(t, m) PROVE Located'
  BY <1>21 DEF EnterBlock
<1>22. ASSUME NEW t \in Contexts, ExitBlock(t) PROVE Located'
  BY <1>22 DEF ExitBlock
<1>23. ASSUME NEW t \in Contexts, NEW u \in Contexts, Spawn(t, u) PROVE Located'
  BY <1>23 DEF Spawn
<1>24. ASSUME NEW t \in Contexts, NEW c \in Chains, ChainBegin(t, c) PROVE Located'
  BY <1>24 DEF ChainBegin
<1>25. ASSUME NEW t \in Contexts, NEW c \in Chains, Collect(t, c) PROVE Located'
  BY <1>25 DEF Collect
<1>26. ASSUME UNCHANGED vars PROVE Located'
  BY <1>26 DEF vars
<1> HIDE DEF Located, Advance
<1>. QED
  BY <1>1, <1>2, <1>3, <1>4, <1>5, <1>6, <1>7, <1>8, <1>9, <1>10, <1>11, <1>12,
     <1>13, <1>14, <1>15, <1>16, <1>17, <1>18, <1>19, <1>20, <1>21, <1>22,
     <1>23, <1>24, <1>25, <1>26
     DEF Next, Proceed

\* TypeOK in three parts: the calls and locks, the scopes, the shared tables.
CallsTyped ==
  /\ pc \in [Contexts -> PCs]
  /\ op \in [Contexts -> {"none", "get", "find", "all", "chain"}]
  /\ dev \in [Contexts -> Devices \cup {NoDevice}]
  /\ todo \in [Contexts -> Seq(Runtimes)]
  /\ using \in [Contexts -> Chains \cup {NoChain}]
  /\ finalizing \in [Contexts -> Chains \cup {NoChain}]
  /\ owner \in [Locks -> Contexts \cup {Nobody}]
  /\ calls \in Nat

ScopesTyped ==
  /\ overrides \in [Contexts -> Mappings]
  /\ blocks \in [Contexts -> Seq(Block)]
  /\ inherited \in [Contexts -> Mappings]

TablesTyped ==
  /\ DOMAIN registry \subseteq Devices
  /\ \A d \in DOMAIN registry : registry[d] \in Resources \cup Defaults
  /\ loaded \subseteq Runtimes
  /\ loads \in [Runtimes -> Nat]
  /\ made \in [Devices -> Nat]

\* What a search goes on with has the right type, whichever way it goes.
LEMMA AdvanceTyped ==
  ASSUME CallsTyped, NEW t \in Contexts, todo[t] # <<>>, Advance(t)
  PROVE  /\ pc' \in [Contexts -> PCs]
         /\ op' \in [Contexts -> {"none", "get", "find", "all", "chain"}]
         /\ dev' \in [Contexts -> Devices \cup {NoDevice}]
         /\ todo' \in [Contexts -> Seq(Runtimes)]
         /\ using' \in [Contexts -> Chains \cup {NoChain}]
<1>1. Tail(todo[t]) \in Seq(Runtimes)
  BY TailTyped DEF CallsTyped
<1>2. CASE Leave(t)
  BY <1>2 DEF CallsTyped, Leave, PCs
<1>3. CASE Goto(t, "default")
  BY <1>3 DEF CallsTyped, Goto, PCs
<1>4. CASE /\ pc' = [pc EXCEPT ![t] = "search"]
           /\ todo' = [todo EXCEPT ![t] = Tail(@)]
           /\ UNCHANGED <<op, dev, using>>
  BY <1>1, <1>4 DEF CallsTyped, PCs
<1>. QED  BY <1>2, <1>3, <1>4 DEF Advance

LEMMA CallsStep == CallsTyped /\ Located /\ [Next]_vars => CallsTyped'
<1> SUFFICES ASSUME CallsTyped, Located, [Next]_vars PROVE CallsTyped'
  OBVIOUS
<1> USE RegistryAssumption
        DEF CallsTyped, PCs, Locks, Goto, Leave, Count, Take, Drop, DropAll, Free, call
<1>1. ASSUME NEW t \in Contexts, GetHit(t) PROVE CallsTyped'
  BY <1>1 DEF GetHit
<1>2. ASSUME NEW t \in Contexts, GetMiss(t) PROVE CallsTyped'
  BY <1>2 DEF GetMiss
<1>3. ASSUME NEW t \in Contexts, MakeDefault(t) PROVE CallsTyped'
  BY <1>3 DEF MakeDefault
<1>4. ASSUME NEW t \in Contexts, DefaultFails(t) PROVE CallsTyped'
  BY <1>4 DEF DefaultFails
<1>5. ASSUME NEW t \in Contexts, TakeSpecs(t) PROVE CallsTyped'
  BY <1>5 DEF TakeSpecs
<1>6. ASSUME NEW t \in Contexts, Select(t) PROVE CallsTyped'
  <2>1. PICK s \in Selections : todo' = [todo EXCEPT ![t] = s]
    BY <1>6 DEF Select
  <2>. QED  BY <1>6, <2>1 DEF Select
<1>7. ASSUME NEW t \in Contexts, PassLoaded(t) PROVE CallsTyped'
  <2>1. todo[t] # <<>> /\ Advance(t) /\ UNCHANGED <<finalizing, owner, calls>>
    BY <1>7 DEF PassLoaded
  <2> HIDE DEF PCs, Locks
  <2>. QED  BY <2>1, AdvanceTyped
<1>8. ASSUME NEW t \in Contexts, LoadBegin(t) PROVE CallsTyped'
  BY <1>8 DEF LoadBegin
<1>9. ASSUME NEW t \in Contexts, LoadDone(t) PROVE CallsTyped'
  <2>1. /\ todo[t] # <<>> /\ Advance(t)
        /\ Drop(t, "_load_lock") /\ UNCHANGED <<finalizing, calls>>
    BY <1>9 DEF LoadDone, Located
  <2>2. owner' \in [Locks -> Contexts \cup {Nobody}]
    BY <2>1
  <2> HIDE DEF PCs, Locks
  <2>. QED  BY <2>1, <2>2, AdvanceTyped
<1>10. ASSUME NEW t \in Contexts, LoadUnavailable(t) PROVE CallsTyped'
  <2>1. Head(todo[t]) \in Runtimes /\ Tail(todo[t]) \in Seq(Runtimes)
    BY <1>10, TailTyped DEF LoadUnavailable, Located
  <2>. QED  BY <1>10, <2>1 DEF LoadUnavailable, Advance
<1>11. ASSUME NEW t \in Contexts, LoadBreaks(t) PROVE CallsTyped'
  BY <1>11 DEF LoadBreaks
<1>12. ASSUME NEW t \in Contexts, Exhausted(t) PROVE CallsTyped'
  BY <1>12 DEF Exhausted
<1>13. ASSUME NEW t \in Contexts, ChainTake(t) PROVE CallsTyped'
  BY <1>13 DEF ChainTake
<1>14. ASSUME NEW t \in Contexts, ChainDrop(t) PROVE CallsTyped'
  <2>1. owner' \in [Locks -> Contexts \cup {Nobody}]
    BY <1>14 DEF ChainDrop
  <2>2. finalizing' \in [Contexts -> Chains \cup {NoChain}] /\ calls' \in Nat
    BY <1>14 DEF ChainDrop
  <2>. QED  BY <1>14, <2>1, <2>2 DEF ChainDrop
<1>15. ASSUME NEW t \in Contexts, Finalized(t) PROVE CallsTyped'
  BY <1>15 DEF Finalized
<1>16. ASSUME NEW t \in Contexts, NEW d \in Devices, GetOverridden(t, d) PROVE CallsTyped'
  BY <1>16 DEF GetOverridden
<1>17. ASSUME NEW t \in Contexts, NEW d \in Devices, GetBegin(t, d) PROVE CallsTyped'
  BY <1>17 DEF GetBegin
<1>18. ASSUME NEW t \in Contexts, NEW d \in Devices, FindBegin(t, d) PROVE CallsTyped'
  BY <1>18 DEF FindBegin
<1>19. ASSUME NEW t \in Contexts, FindAllBegin(t) PROVE CallsTyped'
  BY <1>19 DEF FindAllBegin
<1>20. ASSUME NEW t \in Contexts, NEW m \in Resources, SetCurrent(t, m) PROVE CallsTyped'
  BY <1>20 DEF SetCurrent
<1>21. ASSUME NEW t \in Contexts, NEW m \in Resources, EnterBlock(t, m) PROVE CallsTyped'
  BY <1>21 DEF EnterBlock
<1>22. ASSUME NEW t \in Contexts, ExitBlock(t) PROVE CallsTyped'
  BY <1>22 DEF ExitBlock
<1>23. ASSUME NEW t \in Contexts, NEW u \in Contexts, Spawn(t, u) PROVE CallsTyped'
  BY <1>23 DEF Spawn
<1>24. ASSUME NEW t \in Contexts, NEW c \in Chains, ChainBegin(t, c) PROVE CallsTyped'
  BY <1>24 DEF ChainBegin
<1>25. ASSUME NEW t \in Contexts, NEW c \in Chains, Collect(t, c) PROVE CallsTyped'
  BY <1>25 DEF Collect
<1>26. ASSUME UNCHANGED vars PROVE CallsTyped'
  BY <1>26 DEF vars
<1> HIDE DEF CallsTyped
<1>. QED
  BY <1>1, <1>2, <1>3, <1>4, <1>5, <1>6, <1>7, <1>8, <1>9, <1>10, <1>11, <1>12,
     <1>13, <1>14, <1>15, <1>16, <1>17, <1>18, <1>19, <1>20, <1>21, <1>22,
     <1>23, <1>24, <1>25, <1>26
     DEF Next, Proceed

LEMMA ScopesStep == ScopesTyped /\ [Next]_vars => ScopesTyped'
<1> SUFFICES ASSUME ScopesTyped, [Next]_vars PROVE ScopesTyped'
  OBVIOUS
<1>1. CASE UNCHANGED scopes
  BY <1>1 DEF ScopesTyped, scopes
<1>2. ASSUME NEW t \in Contexts, NEW m \in Resources, EnterBlock(t, m) PROVE ScopesTyped'
  <2>1. overrides[t] \in Mappings /\ With(overrides[t], DeviceOf[m], m) \in Mappings
    BY WithMaps DEF ScopesTyped
  <2>2. [mr |-> m, token |-> overrides[t]] \in Block
    BY <2>1 DEF Block
  <2>3. Append(blocks[t], [mr |-> m, token |-> overrides[t]]) \in Seq(Block)
    BY <2>2, BlocksTyped DEF ScopesTyped
  <2>. QED  BY <1>2, <2>1, <2>3 DEF EnterBlock, ScopesTyped
<1>3. ASSUME NEW t \in Contexts, ExitBlock(t) PROVE ScopesTyped'
  <2>1. /\ SubSeq(blocks[t], 1, Len(blocks[t]) - 1) \in Seq(Block)
        /\ blocks[t][Len(blocks[t])] \in Block
    BY <1>3, BlocksTyped DEF ExitBlock, ScopesTyped
  <2>2. blocks[t][Len(blocks[t])].token \in Mappings
    BY <2>1 DEF Block
  <2>. QED  BY <1>3, <2>1, <2>2 DEF ExitBlock, ScopesTyped
<1>4. ASSUME NEW t \in Contexts, NEW u \in Contexts, Spawn(t, u) PROVE ScopesTyped'
  BY <1>4 DEF Spawn, ScopesTyped
<1>. QED
  BY <1>1, <1>2, <1>3, <1>4 DEF Next, Proceed, vars, GetHit, GetMiss, DefaultFails, TakeSpecs, Select, PassLoaded, LoadBegin, LoadUnavailable,
     LoadBreaks, Exhausted, ChainTake, ChainDrop, Finalized, GetOverridden, GetBegin,
     FindBegin, FindAllBegin, ChainBegin, Collect, MakeDefault, LoadDone, SetCurrent

LEMMA TablesStep == CallsTyped /\ Located /\ TablesTyped /\ [Next]_vars => TablesTyped'
<1> SUFFICES ASSUME CallsTyped, Located, TablesTyped, [Next]_vars PROVE TablesTyped'
  OBVIOUS
<1>1. CASE UNCHANGED <<runtimes, registry, made>>
  BY <1>1 DEF TablesTyped, runtimes
<1>2. ASSUME NEW t \in Contexts, MakeDefault(t) PROVE TablesTyped'
  <2> DEFINE d == dev[t]  m == Default(d, made[d] + 1)
  <2>1. d \in Devices /\ m \in Defaults
    BY <1>2 DEF MakeDefault, Located, Default, Defaults, TablesTyped
  <2>. QED  BY <1>2, <2>1 DEF MakeDefault, TablesTyped, With, runtimes
<1>3. ASSUME NEW t \in Contexts, NEW m \in Resources, SetCurrent(t, m) PROVE TablesTyped'
  BY <1>3, RegistryAssumption DEF SetCurrent, TablesTyped, With, runtimes
<1>4. ASSUME NEW t \in Contexts, LoadDone(t) PROVE TablesTyped'
  <2>1. Head(todo[t]) \in Runtimes
    BY <1>4, TailTyped DEF LoadDone, Located, CallsTyped
  <2>. QED  BY <1>4, <2>1 DEF LoadDone, TablesTyped, resources
<1>. QED
  BY <1>1, <1>2, <1>3, <1>4, ZenonT(40) DEF Next, Proceed, vars, resources, GetHit, GetMiss, DefaultFails, TakeSpecs, Select, PassLoaded, LoadBegin, LoadUnavailable,
     LoadBreaks, Exhausted, ChainTake, ChainDrop, Finalized, GetOverridden, GetBegin,
     FindBegin, FindAllBegin, ChainBegin, Collect, EnterBlock, ExitBlock, Spawn

LEMMA TypeParts == TypeOK <=> CallsTyped /\ ScopesTyped /\ TablesTyped
BY DEF TypeOK, CallsTyped, ScopesTyped, TablesTyped, Block

LEMMA TypeStep == TypeOK /\ Located /\ [Next]_vars => TypeOK'
<1>1. TypeOK' <=> CallsTyped' /\ ScopesTyped' /\ TablesTyped'
  BY DEF TypeOK, CallsTyped, ScopesTyped, TablesTyped, Block, Mappings, Defaults
<1>. QED  BY <1>1, TypeParts, CallsStep, ScopesStep, TablesStep


LEMMA TypeAlways == Spec => [](TypeOK /\ Located)
<1>1. Init => Located
  BY DEF Init, Located
<1>. QED  BY <1>1, TypeInit, TypeStep, LocatedStep, PTL DEF Spec

\* Every variable keeps its type.
THEOREM TypeCorrect == Spec => []TypeOK
BY TypeAlways, PTL
-------------------------------------------------------------------------------
(***************************************************************************)
(* The order of the locks                                                  *)
(***************************************************************************)
\* Who can hold a lock, and where.
HeldInv ==
  /\ \A t \in Contexts :
       /\ owner["_lock"] = t <=>
            op[t] = "get" /\ pc[t] \in {"specs", "scan", "search", "loading", "default"}
       /\ owner["_specs_lock"] = t <=> pc[t] = "scan"
       /\ owner["_load_lock"] = t <=> pc[t] = "loading"
       /\ \A c \in Chains : owner[c] = t <=> pc[t] = "inside" /\ using[t] = c

LEMMA HeldInit == Init => HeldInv
BY NamesAssumption DEF Init, HeldInv, Locks

LEMMA HeldStep == TypeOK /\ Located /\ HeldInv /\ [Next]_vars => HeldInv'
<1> SUFFICES ASSUME TypeOK, Located, HeldInv, [Next]_vars PROVE HeldInv'
  OBVIOUS
<1>0. /\ pc \in [Contexts -> PCs] /\ using \in [Contexts -> Chains \cup {NoChain}]
      /\ op \in [Contexts -> {"none", "get", "find", "all", "chain"}]
      /\ owner \in [Locks -> Contexts \cup {Nobody}]
  BY DEF TypeOK
<1> USE <1>0, NamesAssumption
        DEF HeldInv, Located, Locks, Goto, Leave, Idle, Advance, Take, Drop, DropAll, Free,
            call
<1>1. ASSUME NEW t \in Contexts, GetHit(t) PROVE HeldInv'
  BY <1>1 DEF GetHit
<1>2. ASSUME NEW t \in Contexts, GetMiss(t) PROVE HeldInv'
  BY <1>2 DEF GetMiss
<1>3. ASSUME NEW t \in Contexts, MakeDefault(t) PROVE HeldInv'
  BY <1>3 DEF MakeDefault
<1>4. ASSUME NEW t \in Contexts, DefaultFails(t) PROVE HeldInv'
  BY <1>4 DEF DefaultFails
<1>5. ASSUME NEW t \in Contexts, TakeSpecs(t) PROVE HeldInv'
  BY <1>5 DEF TakeSpecs
<1>6. ASSUME NEW t \in Contexts, Select(t) PROVE HeldInv'
  BY <1>6 DEF Select
<1>7. ASSUME NEW t \in Contexts, PassLoaded(t) PROVE HeldInv'
  BY <1>7 DEF PassLoaded
<1>8. ASSUME NEW t \in Contexts, LoadBegin(t) PROVE HeldInv'
  BY <1>8 DEF LoadBegin
<1>9. ASSUME NEW t \in Contexts, LoadDone(t) PROVE HeldInv'
  BY <1>9 DEF LoadDone
<1>10. ASSUME NEW t \in Contexts, LoadUnavailable(t) PROVE HeldInv'
  BY <1>10 DEF LoadUnavailable
<1>11. ASSUME NEW t \in Contexts, LoadBreaks(t) PROVE HeldInv'
  BY <1>11 DEF LoadBreaks
<1>12. ASSUME NEW t \in Contexts, Exhausted(t) PROVE HeldInv'
  BY <1>12 DEF Exhausted
<1>13. ASSUME NEW t \in Contexts, ChainTake(t) PROVE HeldInv'
  BY <1>13 DEF ChainTake
<1>14. ASSUME NEW t \in Contexts, ChainDrop(t) PROVE HeldInv'
  BY <1>14 DEF ChainDrop
<1>15. ASSUME NEW t \in Contexts, Finalized(t) PROVE HeldInv'
  BY <1>15 DEF Finalized
<1>16. ASSUME NEW t \in Contexts, NEW d \in Devices, GetOverridden(t, d) PROVE HeldInv'
  BY <1>16 DEF GetOverridden
<1>17. ASSUME NEW t \in Contexts, NEW d \in Devices, GetBegin(t, d) PROVE HeldInv'
  BY <1>17 DEF GetBegin
<1>18. ASSUME NEW t \in Contexts, NEW d \in Devices, FindBegin(t, d) PROVE HeldInv'
  BY <1>18 DEF FindBegin
<1>19. ASSUME NEW t \in Contexts, FindAllBegin(t) PROVE HeldInv'
  BY <1>19 DEF FindAllBegin
<1>20. ASSUME NEW t \in Contexts, NEW m \in Resources, SetCurrent(t, m) PROVE HeldInv'
  BY <1>20 DEF SetCurrent
<1>21. ASSUME NEW t \in Contexts, NEW m \in Resources, EnterBlock(t, m) PROVE HeldInv'
  BY <1>21 DEF EnterBlock
<1>22. ASSUME NEW t \in Contexts, ExitBlock(t) PROVE HeldInv'
  BY <1>22 DEF ExitBlock
<1>23. ASSUME NEW t \in Contexts, NEW u \in Contexts, Spawn(t, u) PROVE HeldInv'
  BY <1>23 DEF Spawn
<1>24. ASSUME NEW t \in Contexts, NEW c \in Chains, ChainBegin(t, c) PROVE HeldInv'
  BY <1>24 DEF ChainBegin
<1>25. ASSUME NEW t \in Contexts, NEW c \in Chains, Collect(t, c) PROVE HeldInv'
  BY <1>25 DEF Collect
<1>26. ASSUME UNCHANGED vars PROVE HeldInv'
  BY <1>26 DEF vars
<1> HIDE DEF HeldInv, Located
<1>. QED
  BY <1>1, <1>2, <1>3, <1>4, <1>5, <1>6, <1>7, <1>8, <1>9, <1>10, <1>11, <1>12,
     <1>13, <1>14, <1>15, <1>16, <1>17, <1>18, <1>19, <1>20, <1>21, <1>22,
     <1>23, <1>24, <1>25, <1>26
     DEF Next, Proceed

LEMMA HeldAlways == Spec => [](TypeOK /\ Located /\ HeldInv)
BY HeldInit, HeldStep, TypeAlways, PTL DEF Spec

\* A collector that spares the critical sections of chains interrupts nobody
\* inside one.
Spared == \A t \in Contexts : finalizing[t] # NoChain => pc[t] # "inside"

LEMMA SparedStep ==
  ASSUME ~CollectInside
  PROVE  TypeOK /\ Located /\ Spared /\ [Next]_vars => Spared'
<1> SUFFICES ASSUME TypeOK, Located, Spared, [Next]_vars PROVE Spared'
  OBVIOUS
<1>0. pc \in [Contexts -> PCs] /\ finalizing \in [Contexts -> Chains \cup {NoChain}]
  BY DEF TypeOK
<1>1. CASE UNCHANGED <<pc, finalizing>>
  BY <1>1 DEF Spared
<1>2. ASSUME NEW t \in Contexts, Runs(t), UNCHANGED finalizing,
             NEW to, pc' = [pc EXCEPT ![t] = to]
      PROVE  Spared'
  BY <1>0, <1>2 DEF Spared, Runs
<1>3. ASSUME NEW t \in Contexts, NEW c \in Chains, Collect(t, c) PROVE Spared'
  BY <1>0, <1>3 DEF Spared, Collect, call
<1>4. ASSUME NEW t \in Contexts, Finalized(t) PROVE Spared'
  BY <1>0, <1>4 DEF Spared, Finalized, call
<1>5. ASSUME NEW t \in Contexts, Advance(t), Runs(t), UNCHANGED finalizing PROVE Spared'
  BY <1>2, <1>5 DEF Advance, Goto, Leave
<1>6. ASSUME NEW t \in Contexts, Leave(t), Runs(t), UNCHANGED finalizing PROVE Spared'
  BY <1>2, <1>6 DEF Leave
<1> HIDE DEF Spared
<1>7. ASSUME NEW t \in Contexts, Proceed(t) PROVE Spared'
  <2>1. CASE GetHit(t) \/ MakeDefault(t) \/ DefaultFails(t) \/ LoadBreaks(t) \/ Exhausted(t)
             \/ ChainDrop(t)
    BY <1>6, <2>1 DEF GetHit, MakeDefault, DefaultFails, LoadBreaks, Exhausted, ChainDrop
  <2>2. CASE GetMiss(t) \/ TakeSpecs(t) \/ LoadBegin(t) \/ ChainTake(t)
    BY <1>2, <2>2 DEF GetMiss, TakeSpecs, LoadBegin, ChainTake, Goto
  <2>3. CASE Select(t) \/ LoadUnavailable(t)
    BY <1>2, <2>3 DEF Select, LoadUnavailable
  <2>4. CASE PassLoaded(t) \/ LoadDone(t)
    BY <1>5, <2>4 DEF PassLoaded, LoadDone
  <2>. QED  BY <1>4, <1>7, <2>1, <2>2, <2>3, <2>4 DEF Proceed
<1>8. ASSUME NEW t \in Contexts,
             FindAllBegin(t)
             \/ (\E d \in Devices : GetBegin(t, d) \/ FindBegin(t, d))
             \/ (\E c \in Chains : ChainBegin(t, c))
      PROVE  Spared'
  BY <1>2, <1>8 DEF FindAllBegin, GetBegin, FindBegin, ChainBegin, Idle
<1>. QED
  BY <1>1, <1>3, <1>7, <1>8
     DEF Next, vars, call, GetOverridden, SetCurrent, EnterBlock, ExitBlock, Spawn

\* If the collector never strikes inside a chain's critical section, no thread
\* waits for a lock while it holds that lock or a later one: the registry, the
\* discovery, the loaders and the finalizers cannot deadlock.
THEOREM LocksAreOrdered ==
  ASSUME ~CollectInside
  PROVE  Spec => []LocksOrdered
<1>1. Init => Spared
  BY DEF Init, Spared
<1>2. TypeOK /\ Located /\ HeldInv /\ Spared => LocksOrdered
  <2> SUFFICES ASSUME TypeOK, Located, HeldInv, Spared,
                      NEW t \in Contexts, NEW l \in Locks, owner[l] = t,
                      NEW w \in Wants(t)
               PROVE  Rank(l) < Rank(w)
    BY DEF LocksOrdered
  <2>1. pc[t] \in PCs /\ finalizing[t] \in Chains \cup {NoChain}
    BY DEF TypeOK
  <2>2. \A c \in Chains : Rank(c) = 3
    BY NamesAssumption DEF Rank
  <2>3. Rank("_lock") = 0 /\ Rank("_specs_lock") = 1 /\ Rank("_load_lock") = 2
    BY DEF Rank
  <2>4. \/ l = "_lock" /\ pc[t] \in {"specs", "scan", "search", "loading", "default"}
        \/ l = "_specs_lock" /\ pc[t] = "scan"
        \/ l = "_load_lock" /\ pc[t] = "loading"
        \/ l \in Chains /\ pc[t] = "inside"
    BY DEF HeldInv, Locks
  <2>5. CASE finalizing[t] # NoChain
    <3>1. w \in Chains /\ l \notin Chains
      BY <2>1, <2>4, <2>5, NamesAssumption DEF Wants, Spared
    <3>. QED  BY <3>1, <2>2, <2>3 DEF Locks
  <2>6. CASE finalizing[t] = NoChain
    BY <2>3, <2>4, <2>6 DEF Wants
  <2>. QED  BY <2>5, <2>6
<1>. QED  BY <1>1, <1>2, SparedStep, HeldAlways, PTL DEF Spec
-------------------------------------------------------------------------------
(***************************************************************************)
(* What is made once                                                       *)
(***************************************************************************)
\* The constructions are counted in `loaded`, and one under way is the first.
LoadsInv ==
  /\ \A r \in Runtimes : loads[r] = IF r \in loaded THEN 1 ELSE 0
  /\ \A t \in Contexts : pc[t] = "loading" => Head(todo[t]) \notin loaded

LEMMA LoadsStep == TypeOK /\ Located /\ HeldInv /\ LoadsInv /\ [Next]_vars => LoadsInv'
<1> SUFFICES ASSUME TypeOK, Located, HeldInv, LoadsInv, [Next]_vars PROVE LoadsInv'
  OBVIOUS
<1>0. /\ pc \in [Contexts -> PCs] /\ todo \in [Contexts -> Seq(Runtimes)]
      /\ loads \in [Runtimes -> Nat] /\ loaded \subseteq Runtimes
  BY DEF TypeOK
\* A step that loads nothing, and of which at most t starts to load something new.
<1>1. ASSUME UNCHANGED runtimes, NEW t \in Contexts,
             \A u \in Contexts \ {t} : pc'[u] = pc[u] /\ todo'[u] = todo[u],
             pc'[t] = "loading" => Head(todo'[t]) \notin loaded
      PROVE  LoadsInv'
  BY <1>1 DEF LoadsInv, runtimes
<1>2. ASSUME UNCHANGED <<runtimes, pc, todo>> PROVE LoadsInv'
  BY <1>2 DEF LoadsInv, runtimes
<1>3. ASSUME NEW t \in Contexts, LoadDone(t) PROVE LoadsInv'
  <2> DEFINE r == Head(todo[t])
  <2>1. r \in Runtimes /\ r \notin loaded /\ loads[r] = 0
    BY <1>0, <1>3, TailTyped DEF LoadDone, Located, LoadsInv
  <2>2. \A u \in Contexts \ {t} : pc[u] # "loading" /\ pc'[u] = pc[u]
    <3>1. pc[t] = "loading" /\ \A u \in Contexts : pc[u] = "loading" => owner["_load_lock"] = u
      BY <1>3 DEF LoadDone, HeldInv
    <3>2. \A u \in Contexts \ {t} : pc'[u] = pc[u]
      BY <1>0, <1>3 DEF LoadDone, Advance, Goto, Leave
    <3>. QED  BY <3>1, <3>2
  <2>3. pc'[t] # "loading"
    BY <1>0, <1>3 DEF LoadDone, Advance, Goto, Leave
  <2>4. \A u \in Contexts : pc'[u] # "loading"
    BY <2>2, <2>3
  <2>5. \A q \in Runtimes : loads'[q] = IF q \in loaded' THEN 1 ELSE 0
    BY <1>0, <1>3, <2>1 DEF LoadDone, LoadsInv
  <2>. QED  BY <2>4, <2>5 DEF LoadsInv
<1> HIDE DEF LoadsInv
<1>4. ASSUME NEW t \in Contexts, Proceed(t), ~LoadDone(t) PROVE LoadsInv'
  <2>1. CASE GetHit(t) \/ MakeDefault(t) \/ DefaultFails(t) \/ LoadBreaks(t) \/ Exhausted(t)
             \/ ChainDrop(t)
    BY <1>0, <1>1, <2>1
       DEF GetHit, MakeDefault, DefaultFails, LoadBreaks, Exhausted, ChainDrop, Leave
  <2>2. CASE GetMiss(t) \/ TakeSpecs(t) \/ ChainTake(t)
    BY <1>0, <1>1, <2>2 DEF GetMiss, TakeSpecs, ChainTake, Goto
  <2>3. CASE Select(t)
    BY <1>0, <1>1, <2>3 DEF Select
  <2>4. CASE PassLoaded(t)
    BY <1>0, <1>1, <2>4 DEF PassLoaded, Advance, Goto, Leave
  <2>5. CASE LoadBegin(t)
    BY <1>0, <1>1, <2>5 DEF LoadBegin, Goto
  <2>6. CASE LoadUnavailable(t)
    BY <1>0, <1>1, <2>6 DEF LoadUnavailable
  <2>7. CASE Finalized(t)
    BY <1>2, <2>7 DEF Finalized, call
  <2>. QED  BY <1>4, <2>1, <2>2, <2>3, <2>4, <2>5, <2>6, <2>7 DEF Proceed
<1>5. ASSUME NEW t \in Contexts,
             FindAllBegin(t)
             \/ (\E d \in Devices : GetBegin(t, d) \/ FindBegin(t, d))
             \/ (\E c \in Chains : ChainBegin(t, c))
      PROVE  LoadsInv'
  BY <1>0, <1>1, <1>5 DEF FindAllBegin, GetBegin, FindBegin, ChainBegin
<1>. QED
  BY <1>2, <1>3, <1>4, <1>5
     DEF Next, vars, call, GetOverridden, SetCurrent, EnterBlock, ExitBlock, Spawn, Collect

\* A device without a current resource was never given a default, and a thread
\* that is after one holds the lock that keeps it so.
DefaultsInv ==
  /\ \A d \in Devices : made[d] \in {0, 1} /\ (made[d] = 1 => d \in DOMAIN registry)
  /\ \A t \in Contexts : owner["_lock"] = t => dev[t] \notin DOMAIN registry

LEMMA DefaultsStep ==
  TypeOK /\ Located /\ HeldInv /\ DefaultsInv /\ [Next]_vars => DefaultsInv'
<1> SUFFICES ASSUME TypeOK, Located, HeldInv, DefaultsInv, [Next]_vars PROVE DefaultsInv'
  OBVIOUS
<1>0. /\ owner \in [Locks -> Contexts \cup {Nobody}] /\ made \in [Devices -> Nat]
      /\ dev \in [Contexts -> Devices \cup {NoDevice}]
      /\ "_lock" \in Locks
  BY DEF TypeOK, Locks
\* A step that makes no default, and after which whoever has the lock found none.
<1>1. ASSUME UNCHANGED <<made, registry>>,
             \A u \in Contexts : owner'["_lock"] = u =>
               \/ owner["_lock"] = u /\ dev'[u] = dev[u]
               \/ dev'[u] \notin DOMAIN registry
      PROVE  DefaultsInv'
  BY <1>1 DEF DefaultsInv
<1>2. ASSUME NEW t \in Contexts, MakeDefault(t) PROVE DefaultsInv'
  <2>1. dev[t] \in Devices /\ owner["_lock"] = t /\ made[dev[t]] = 0
    BY <1>0, <1>2 DEF MakeDefault, Located, HeldInv, DefaultsInv
  <2>2. owner'["_lock"] \notin Contexts
    BY <1>0, <1>2, <2>1, NamesAssumption DEF MakeDefault, DropAll
  <2>3. \A d \in Devices :
          made'[d] \in {0, 1} /\ (made'[d] = 1 => d \in DOMAIN registry')
    BY <1>0, <1>2, <2>1 DEF MakeDefault, DefaultsInv, With
  <2>. QED  BY <2>2, <2>3 DEF DefaultsInv
<1>3. ASSUME NEW t \in Contexts, NEW m \in Resources, SetCurrent(t, m) PROVE DefaultsInv'
  <2>1. owner'["_lock"] \notin Contexts
    BY <1>0, <1>3, NamesAssumption DEF SetCurrent, Free
  <2>2. made' = made /\ DOMAIN registry \subseteq DOMAIN registry'
    BY <1>3 DEF SetCurrent, With
  <2>. QED  BY <2>1, <2>2 DEF DefaultsInv
<1> HIDE DEF DefaultsInv
<1>4. ASSUME NEW t \in Contexts, Proceed(t), ~MakeDefault(t) PROVE DefaultsInv'
  <2>1. CASE GetMiss(t)
    BY <1>0, <1>1, <2>1 DEF GetMiss, Take, Goto, resources
  <2>2. CASE DefaultFails(t) \/ LoadBreaks(t) \/ Exhausted(t)
    BY <1>0, <1>1, <2>2, NamesAssumption
       DEF DefaultFails, LoadBreaks, Exhausted, DropAll, Leave, resources
  <2>3. CASE GetHit(t)
    BY <1>0, <1>1, <2>3, NamesAssumption DEF GetHit, Free, Leave
  <2>4. CASE TakeSpecs(t) \/ LoadBegin(t) \/ Select(t) \/ LoadUnavailable(t) \/ Finalized(t)
    BY <1>0, <1>1, <2>4
       DEF TakeSpecs, LoadBegin, Select, LoadUnavailable, Finalized, Take, Drop, Goto, call,
           resources
  <2>5. CASE PassLoaded(t) \/ LoadDone(t)
    <3>1. CASE Leave(t)
      <4>1. op[t] # "get"
        BY <2>5, <3>1, <1>0 DEF PassLoaded, LoadDone, Advance, Leave, Goto, TypeOK
      <4>2. owner["_lock"] # t
        BY <4>1 DEF HeldInv
      <4>. QED
        BY <1>0, <1>1, <2>5, <3>1, <4>2 DEF PassLoaded, LoadDone, Leave, Drop, resources
    <3>2. CASE dev' = dev
      BY <1>0, <1>1, <2>5, <3>2 DEF PassLoaded, LoadDone, Drop, resources
    <3>. QED  BY <2>5, <3>1, <3>2 DEF PassLoaded, LoadDone, Advance, Goto
  <2>6. CASE ChainTake(t)
    <3>1. using[t] \in Chains
      BY <2>6 DEF ChainTake, Located
    <3>. QED
      BY <1>0, <1>1, <2>6, <3>1, NamesAssumption DEF ChainTake, Take, Goto, resources
  <2>7. CASE ChainDrop(t)
    <3>1. using[t] \in Chains /\ owner["_lock"] # t
      BY <2>7 DEF ChainDrop, Located, HeldInv
    <3>. QED
      BY <1>0, <1>1, <2>7, <3>1, NamesAssumption DEF ChainDrop, Drop, Leave, resources
  <2>. QED  BY <1>4, <2>1, <2>2, <2>3, <2>4, <2>5, <2>6, <2>7 DEF Proceed
<1>5. ASSUME NEW t \in Contexts,
             FindAllBegin(t)
             \/ (\E d \in Devices : GetBegin(t, d) \/ FindBegin(t, d))
             \/ (\E c \in Chains : ChainBegin(t, c))
      PROVE  DefaultsInv'
  <2>1. owner["_lock"] # t
    BY <1>5 DEF HeldInv, FindAllBegin, GetBegin, FindBegin, ChainBegin, Idle
  <2>. QED
    BY <1>0, <1>1, <1>5, <2>1 DEF FindAllBegin, GetBegin, FindBegin, ChainBegin, resources
<1>6. ASSUME UNCHANGED <<owner, dev, made, registry>> PROVE DefaultsInv'
  BY <1>1, <1>6
<1>. QED
  BY <1>2, <1>3, <1>4, <1>5, <1>6
     DEF Next, vars, call, resources, GetOverridden, EnterBlock, ExitBlock, Spawn, Collect

LEMMA OnceAlways == Spec => [](TypeOK /\ Located /\ HeldInv /\ LoadsInv /\ DefaultsInv)
<1>1. Init => LoadsInv /\ DefaultsInv
  BY NamesAssumption DEF Init, LoadsInv, DefaultsInv, Locks
<1>. QED  BY <1>1, LoadsStep, DefaultsStep, HeldAlways, PTL DEF Spec

\* However many threads ask first, each runtime is constructed once and each
\* device is given one default.
THEOREM MadeOnlyOnce == Spec => []MadeOnce
<1>1. LoadsInv /\ DefaultsInv => MadeOnce
  <2> SUFFICES ASSUME LoadsInv, DefaultsInv PROVE MadeOnce
    OBVIOUS
  <2>1. \A r \in Runtimes : loads[r] \in {0, 1}
    BY DEF LoadsInv
  <2>2. \A d \in Devices : made[d] \in {0, 1}
    BY DEF DefaultsInv
  <2>3. \A n \in {0, 1} : n <= 1
    OBVIOUS
  <2>. QED  BY <2>1, <2>2, <2>3 DEF MadeOnce
<1>. QED  BY <1>1, OnceAlways, PTL
-------------------------------------------------------------------------------
(***************************************************************************)
(* The registry implements the map of current resources                    *)
(***************************************************************************)
\* A lookup that went to the registry found no override, and none came since.
Unscoped == \A t \in Contexts : op[t] = "get" => dev[t] \notin DOMAIN overrides[t]

LEMMA UnscopedStep == TypeOK /\ Located /\ Unscoped /\ [Next]_vars => Unscoped'
<1> SUFFICES ASSUME TypeOK, Located, Unscoped, [Next]_vars PROVE Unscoped'
  OBVIOUS
<1>0. /\ op \in [Contexts -> {"none", "get", "find", "all", "chain"}]
      /\ dev \in [Contexts -> Devices \cup {NoDevice}]
      /\ overrides \in [Contexts -> Mappings]
  BY DEF TypeOK
\* A step of which t's override changes, if any does, and t is then in no lookup.
<1>1. ASSUME NEW t \in Contexts, op'[t] # "get" \/ dev'[t] \notin DOMAIN overrides'[t],
             \A u \in Contexts \ {t} :
               op'[u] = op[u] /\ dev'[u] = dev[u] /\ overrides'[u] = overrides[u]
      PROVE  Unscoped'
  BY <1>1 DEF Unscoped
<1>2. ASSUME UNCHANGED <<op, dev, overrides>> PROVE Unscoped'
  BY <1>2 DEF Unscoped
<1>3. ASSUME NEW t \in Contexts, Leave(t), UNCHANGED overrides PROVE Unscoped'
  BY <1>0, <1>1, <1>3 DEF Leave
<1>4. ASSUME NEW t \in Contexts, Proceed(t) PROVE Unscoped'
  <2>1. CASE GetHit(t) \/ MakeDefault(t) \/ DefaultFails(t) \/ LoadBreaks(t) \/ Exhausted(t)
             \/ ChainDrop(t)
    BY <1>3, <2>1
       DEF GetHit, MakeDefault, DefaultFails, LoadBreaks, Exhausted, ChainDrop, scopes
  <2>2. CASE GetMiss(t) \/ TakeSpecs(t) \/ LoadBegin(t) \/ ChainTake(t) \/ Select(t)
             \/ LoadUnavailable(t) \/ Finalized(t)
    BY <1>2, <2>2
       DEF GetMiss, TakeSpecs, LoadBegin, ChainTake, Select, LoadUnavailable, Finalized,
           Goto, call, scopes
  <2>3. CASE PassLoaded(t) \/ LoadDone(t)
    BY <1>2, <1>3, <2>3 DEF PassLoaded, LoadDone, Advance, Goto, scopes
  <2>. QED  BY <1>4, <2>1, <2>2, <2>3 DEF Proceed
<1>5. ASSUME NEW t \in Contexts,
             FindAllBegin(t)
             \/ (\E d \in Devices : GetBegin(t, d) \/ FindBegin(t, d))
             \/ (\E c \in Chains : ChainBegin(t, c))
      PROVE  Unscoped'
  BY <1>0, <1>1, <1>5 DEF FindAllBegin, GetBegin, FindBegin, ChainBegin, scopes
<1>6. ASSUME NEW t \in Contexts,
             ExitBlock(t) \/ \E m \in Resources : EnterBlock(t, m)
      PROVE  Unscoped'
  <2>1. op[t] # "get"
    BY <1>6 DEF ExitBlock, EnterBlock, Idle, Located
  <2>. QED  BY <1>0, <1>1, <1>6, <2>1 DEF ExitBlock, EnterBlock, call
<1>7. ASSUME NEW t \in Contexts, NEW u \in Contexts, Spawn(t, u) PROVE Unscoped'
  <2>1. op[u] # "get"
    BY <1>7 DEF Spawn, Idle, Located
  <2>. QED  BY <1>0, <1>1, <1>7, <2>1 DEF Spawn, call
<1> HIDE DEF Unscoped
<1>. QED
  BY <1>2, <1>4, <1>5, <1>6, <1>7
     DEF Next, vars, call, scopes, GetOverridden, SetCurrent, Collect

\* Overrides change in one context at a time.
LEMMA RescopeStep ==
  ASSUME TypeOK, TypeOK', NEW t \in Contexts,
         overrides' = [overrides EXCEPT ![t] = overrides'[t]], UNCHANGED resources
  PROVE  Current!Rescope(t)
<1>1. overrides'[t] \in Mappings
  BY DEF TypeOK
<1>. QED  BY <1>1 DEF Current!Rescope, Mappings, resources

\* Every step of the registry is a step of the abstract map or none at all.
LEMMA CurrentStep ==
  /\ TypeOK /\ TypeOK' /\ Located /\ HeldInv /\ DefaultsInv /\ Unscoped
  /\ [Next]_vars
  => [Current!Next]_<<registry, overrides, answer>>
<1> SUFFICES ASSUME TypeOK, TypeOK', Located, HeldInv, DefaultsInv, Unscoped, [Next]_vars
             PROVE  [Current!Next]_<<registry, overrides, answer>>
  OBVIOUS
<1>1. CASE UNCHANGED <<registry, overrides, answer>>
  BY <1>1
<1>2. ASSUME NEW t \in Contexts, NEW d \in Devices, GetOverridden(t, d) PROVE Current!Next
  <2>1. Current!Overridden(t, d)
    BY <1>2 DEF GetOverridden, Current!Overridden, scopes
  <2>. QED  BY <2>1 DEF Current!Next
<1>3. ASSUME NEW t \in Contexts, GetHit(t) PROVE Current!Next
  <2>1. dev[t] \in Devices /\ dev[t] \notin DOMAIN overrides[t]
    BY <1>3 DEF GetHit, Located, Unscoped
  <2>2. Current!Lookup(t, dev[t])
    BY <1>3, <2>1 DEF GetHit, Current!Lookup, scopes
  <2>. QED  BY <2>1, <2>2 DEF Current!Next
<1>4. ASSUME NEW t \in Contexts, MakeDefault(t) PROVE Current!Next
  <2> DEFINE d == dev[t]
  <2>1. d \in Devices /\ d \notin DOMAIN overrides[t] /\ d \notin DOMAIN registry
    BY <1>4 DEF MakeDefault, Located, Unscoped, HeldInv, DefaultsInv
  <2>2. made[d] + 1 = 1
    BY <2>1 DEF DefaultsInv
  <2>3. Current!Adopt(t, d)
    BY <1>4, <2>1, <2>2 DEF MakeDefault, Current!Adopt, Current!With, With, Default, scopes
  <2>. QED  BY <2>1, <2>3 DEF Current!Next
<1>5. ASSUME NEW t \in Contexts, NEW m \in Resources, SetCurrent(t, m) PROVE Current!Next
  <2>1. Current!Install(m)
    BY <1>5 DEF SetCurrent, Current!Install, Current!With, With, scopes
  <2>. QED  BY <2>1 DEF Current!Next
<1>6. ASSUME NEW t \in Contexts, ExitBlock(t) \/ \E m \in Resources : EnterBlock(t, m)
      PROVE  Current!Next
  <2>1. overrides' = [overrides EXCEPT ![t] = overrides'[t]]
    BY <1>6 DEF ExitBlock, EnterBlock, TypeOK
  <2>2. Current!Rescope(t)
    BY <1>6, <2>1, RescopeStep DEF ExitBlock, EnterBlock
  <2>. QED  BY <2>2 DEF Current!Next
<1>7. ASSUME NEW t \in Contexts, NEW u \in Contexts, Spawn(t, u) PROVE Current!Next
  <2>1. overrides' = [overrides EXCEPT ![u] = overrides'[u]]
    BY <1>7 DEF Spawn, TypeOK
  <2>2. Current!Rescope(u)
    BY <1>7, <2>1, RescopeStep DEF Spawn
  <2>. QED  BY <2>2 DEF Current!Next
<1>. QED
  BY <1>1, <1>2, <1>3, <1>4, <1>5, <1>6, <1>7
     DEF Next, Proceed, vars, scopes, resources, DefaultFails, TakeSpecs, Select,
         PassLoaded, LoadBegin, LoadDone, LoadUnavailable, LoadBreaks, Exhausted,
         ChainTake, ChainDrop, Finalized, GetMiss, GetBegin, FindBegin, FindAllBegin,
         ChainBegin, Collect

\* Lookups, installs and scoped overrides behave as one atomic map of current
\* resources: every answer is what was in force at one instant of its call.
THEOREM RegistryImplements == Spec => ImplementsCurrentResource
<1>1. Init => Unscoped
  BY DEF Init, Unscoped
<1>2. Init => Current!Init
  BY DEF Init, Nothing, Current!Init
<1>. QED
  BY <1>1, <1>2, UnscopedStep, CurrentStep, OnceAlways, PTL
     DEF Spec, ImplementsCurrentResource, Current!Spec
-------------------------------------------------------------------------------
(***************************************************************************)
(* Scoped overrides                                                        *)
(***************************************************************************)
\* o is what the first n blocks of b leave of the mapping `start`.
Opened(b, n, d) == {i \in 1..n : DeviceOf[b[i].mr] = d}
Tells(o, start, b, n) ==
  \A d \in Devices :
    IF Opened(b, n, d) = {}
    THEN /\ d \in DOMAIN o <=> d \in DOMAIN start
         /\ d \in DOMAIN o => o[d] = start[d]
    ELSE /\ d \in DOMAIN o
         /\ \E i \in Opened(b, n, d) :
              (\A j \in Opened(b, n, d) : j <= i) /\ o[d] = b[i].mr

\* Only the first n blocks matter.
LEMMA TellsPrefix ==
  ASSUME NEW o, NEW start, NEW b, NEW c, NEW n \in Nat,
         \A i \in 1..n : b[i] = c[i],
         Tells(o, start, b, n)
  PROVE  Tells(o, start, c, n)
<1>1. \A d \in Devices : Opened(b, n, d) = Opened(c, n, d)
  BY DEF Opened
<1>2. \A d \in Devices : \A i \in Opened(c, n, d) : b[i] = c[i]
  BY DEF Opened
<1>. QED  BY <1>1, <1>2 DEF Tells

\* One more block puts its resource over what was there.
LEMMA TellsWith ==
  ASSUME NEW o \in Mappings, NEW start, NEW b, NEW n \in Nat, NEW m \in Resources,
         b[n + 1].mr = m,
         Tells(o, start, b, n)
  PROVE  Tells(With(o, DeviceOf[m], m), start, b, n + 1)
<1> DEFINE e == DeviceOf[m]  p == With(o, e, m)
<1>1. DOMAIN p = DOMAIN o \cup {e} /\ p[e] = m /\ \A x \in DOMAIN o \ {e} : p[x] = o[x]
  BY DEF With
<1>2. \A d \in Devices : d # e => Opened(b, n + 1, d) = Opened(b, n, d)
  BY DEF Opened
<1>3. n + 1 \in Opened(b, n + 1, e) /\ \A j \in Opened(b, n + 1, e) : j <= n + 1
  BY DEF Opened
<1> HIDE DEF p
<1> SUFFICES ASSUME NEW d \in Devices
             PROVE  IF Opened(b, n + 1, d) = {}
                    THEN /\ d \in DOMAIN p <=> d \in DOMAIN start
                         /\ d \in DOMAIN p => p[d] = start[d]
                    ELSE /\ d \in DOMAIN p
                         /\ \E i \in Opened(b, n + 1, d) :
                              (\A j \in Opened(b, n + 1, d) : j <= i) /\ p[d] = b[i].mr
  BY DEF Tells, p
<1>4. CASE d = e
  BY <1>1, <1>3, <1>4
<1>5. CASE d # e
  BY <1>1, <1>2, <1>5 DEF Tells
<1>. QED  BY <1>4, <1>5

\* Every token is what was in force when its block was entered.
ScopesInv ==
  \A t \in Contexts :
    /\ Tells(overrides[t], inherited[t], blocks[t], Len(blocks[t]))
    /\ \A i \in 1..Len(blocks[t]) :
         Tells(blocks[t][i].token, inherited[t], blocks[t], i - 1)

LEMMA ScopesInvStep == ScopesTyped /\ ScopesInv /\ [Next]_vars => ScopesInv'
<1> SUFFICES ASSUME ScopesTyped, ScopesInv, [Next]_vars PROVE ScopesInv'
  OBVIOUS
\* ScopesInv for one context: what it says of overrides o, start s and blocks b.
<1> DEFINE Exact(o, s, b) == /\ Tells(o, s, b, Len(b))
                             /\ \A i \in 1..Len(b) : Tells(b[i].token, s, b, i - 1)
<1>0. ScopesInv <=> \A t \in Contexts : Exact(overrides[t], inherited[t], blocks[t])
  BY DEF ScopesInv
<1>1. ScopesInv' <=> \A t \in Contexts : Exact(overrides'[t], inherited'[t], blocks'[t])
  BY DEF ScopesInv
<1>2. \A t \in Contexts : Len(blocks[t]) \in Nat /\ blocks[t] \in Seq(Block)
  BY LenProperties DEF ScopesTyped
<1>3. CASE UNCHANGED scopes
  BY <1>0, <1>1, <1>3 DEF scopes
<1>4. ASSUME NEW t \in Contexts, NEW m \in Resources, EnterBlock(t, m) PROVE ScopesInv'
  <2> DEFINE b == blocks[t]  n == Len(b)  k == [mr |-> m, token |-> overrides[t]]
             c == Append(b, k)  o == With(overrides[t], DeviceOf[m], m)
  <2>1. k \in Block /\ overrides[t] \in Mappings
    BY DEF ScopesTyped, Block
  <2>2. Len(c) = n + 1 /\ c[n + 1] = k /\ \A i \in 1..n : b[i] = c[i]
    BY <1>2, <2>1, AppendProperties
  <2>3. n \in Nat
    BY <1>2
  <2>4. Exact(overrides[t], inherited[t], b)
    BY <1>0
  <2> HIDE DEF b, n, c, o
  <2>5. Tells(overrides[t], inherited[t], c, n)
    BY <2>2, <2>3, <2>4, TellsPrefix DEF n
  <2>6. Tells(o, inherited[t], c, n + 1)
    BY <2>1, <2>2, <2>3, <2>5, TellsWith DEF o
  <2>7. ASSUME NEW i \in 1..(n + 1) PROVE Tells(c[i].token, inherited[t], c, i - 1)
    <3>1. CASE i = n + 1
      BY <2>2, <2>3, <2>5, <3>1
    <3>2. CASE i # n + 1
      <4>1. i \in 1..n /\ i - 1 \in Nat /\ c[i] = b[i]
        BY <2>2, <2>3, <3>2
      <4>2. Tells(b[i].token, inherited[t], b, i - 1)
        BY <2>4, <4>1 DEF n
      <4>3. \A j \in 1..(i - 1) : b[j] = c[j]
        BY <2>2, <2>3, <4>1
      <4>. QED  BY <4>1, <4>2, <4>3, TellsPrefix
    <3>. QED  BY <3>1, <3>2
  <2>8. Exact(o, inherited[t], c)
    BY <2>2, <2>6, <2>7
  <2>9. /\ overrides'[t] = o /\ blocks'[t] = c /\ inherited' = inherited
        /\ \A u \in Contexts \ {t} : overrides'[u] = overrides[u] /\ blocks'[u] = blocks[u]
    BY <1>4 DEF EnterBlock, ScopesTyped, o, c, b
  <2> HIDE DEF Exact
  <2>. QED  BY <1>0, <1>1, <2>8, <2>9
<1>5. ASSUME NEW t \in Contexts, ExitBlock(t) PROVE ScopesInv'
  <2> DEFINE b == blocks[t]  n == Len(b)  c == SubSeq(b, 1, n - 1)
  <2>1. n \in Nat /\ n > 0
    BY <1>2, <1>5, EmptySeq, LenProperties DEF ExitBlock
  <2>2. Len(c) = n - 1 /\ \A i \in 1..(n - 1) : b[i] = c[i]
    BY <1>2, <2>1, SubSeqProperties
  <2>3. Exact(overrides[t], inherited[t], b)
    BY <1>0
  <2> HIDE DEF b, n, c
  <2>4. Tells(b[n].token, inherited[t], c, n - 1)
    <3>1. Tells(b[n].token, inherited[t], b, n - 1)
      BY <2>1, <2>3 DEF n
    <3>. QED  BY <2>1, <2>2, <3>1, TellsPrefix
  <2>5. ASSUME NEW i \in 1..(n - 1) PROVE Tells(c[i].token, inherited[t], c, i - 1)
    <3>1. i \in 1..n /\ i - 1 \in Nat /\ c[i] = b[i]
      BY <2>1, <2>2
    <3>2. Tells(b[i].token, inherited[t], b, i - 1)
      BY <2>3, <3>1 DEF n
    <3>3. \A j \in 1..(i - 1) : b[j] = c[j]
      BY <2>1, <2>2, <3>1
    <3>. QED  BY <3>1, <3>2, <3>3, TellsPrefix
  <2>6. Exact(b[n].token, inherited[t], c)
    BY <2>2, <2>4, <2>5
  <2>7. /\ overrides'[t] = b[n].token /\ blocks'[t] = c /\ inherited' = inherited
        /\ \A u \in Contexts \ {t} : overrides'[u] = overrides[u] /\ blocks'[u] = blocks[u]
    BY <1>5 DEF ExitBlock, ScopesTyped, b, n, c
  <2> HIDE DEF Exact
  <2>. QED  BY <1>0, <1>1, <2>6, <2>7
<1>6. ASSUME NEW t \in Contexts, NEW u \in Contexts, Spawn(t, u) PROVE ScopesInv'
  <2>1. /\ blocks' = blocks /\ blocks[u] = <<>> /\ overrides'[u] = inherited'[u]
        /\ \A w \in Contexts \ {u} :
             overrides'[w] = overrides[w] /\ inherited'[w] = inherited[w]
    BY <1>6 DEF Spawn, ScopesTyped
  <2>2. Tells(overrides'[u], overrides'[u], <<>>, 0)
    BY DEF Tells, Opened
  <2>3. Exact(overrides'[u], inherited'[u], blocks'[u])
    BY <2>1, <2>2
  <2> HIDE DEF Exact
  <2>. QED  BY <1>0, <1>1, <2>1, <2>3
<1>. QED
  BY <1>3, <1>4, <1>5, <1>6
     DEF Next, Proceed, vars, GetHit, GetMiss, MakeDefault, DefaultFails, TakeSpecs,
         Select, PassLoaded, LoadBegin, LoadDone, LoadUnavailable, LoadBreaks, Exhausted,
         ChainTake, ChainDrop, Finalized, GetOverridden, GetBegin, FindBegin,
         FindAllBegin, SetCurrent, ChainBegin, Collect

\* In every context and at every nesting, the override of a device is the one of
\* its innermost open block, else the one the context started out with.
THEOREM ScopesAreExact == Spec => []ScopesExact
<1>1. Init => ScopesInv
  <2>1. Tells(Nothing, Nothing, <<>>, 0)
    BY DEF Tells, Opened
  <2>2. Len(<<>>) = 0 /\ 1..0 = {}
    OBVIOUS
  <2>. QED  BY <2>1, <2>2 DEF Init, ScopesInv
<1>2. TypeOK => ScopesTyped
  BY TypeParts
<1>3. ScopesTyped /\ ScopesInv => ScopesExact
  BY DEF ScopesInv, ScopesExact, Tells, Opened, OpenFor
<1>. QED  BY <1>1, <1>2, <1>3, ScopesInvStep, TypeAlways, PTL DEF Spec
===============================================================================
