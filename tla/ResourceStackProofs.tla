------------------------- MODULE ResourceStackProofs --------------------------
(***************************************************************************)
(* Proofs about ResourceStack, for any callers, addresses, sizes, limit    *)
(* and order of the adaptors.                                              *)
(***************************************************************************)
EXTENDS ResourceStack, FiniteSetTheorems, TLAPS

(***************************************************************************)
(* What Bytes does when an element joins or leaves the set, stated for a   *)
(* function that may change elsewhere at the same time.                    *)
(***************************************************************************)
\* The cells of one element: as many as its size.
LEMMA ElementCells ==
  ASSUME NEW x, NEW n \in Nat
  PROVE  /\ IsFiniteSet({x} \X (1..n))
         /\ Cardinality({x} \X (1..n)) = n
<1>1. IsFiniteSet({x}) /\ Cardinality({x}) = 1
  BY FS_Singleton
<1>2. IsFiniteSet(1..n) /\ Cardinality(1..n) = n
  BY FS_Interval
<1>3. /\ IsFiniteSet({x} \X (1..n))
      /\ Cardinality({x} \X (1..n)) = Cardinality({x}) * Cardinality(1..n)
  BY <1>1, <1>2, FS_Product, Zenon
<1>. QED  BY <1>1, <1>2, <1>3

\* The cells depend on the values of the function on the set only.
LEMMA CellsSame ==
  ASSUME NEW S, NEW f, NEW g, \A x \in S : f[x] = g[x]
  PROVE  Cells(f, S) = Cells(g, S)
BY DEF Cells

\* A finite set of sizes has finitely many cells.
LEMMA CellsFinite ==
  ASSUME NEW S, NEW f, IsFiniteSet(S), \A x \in S : f[x] \in Nat
  PROVE  /\ IsFiniteSet(Cells(f, S))
         /\ Bytes(f, S) \in Nat
<1> DEFINE C == {{x} \X (1..f[x]) : x \in S}
<1> DEFINE c == [x \in S |-> {x} \X (1..f[x])]
<1>1. c \in Surjection(S, C)
  BY DEF Surjection
<1>2. IsFiniteSet(C)
  BY <1>1, FS_Surjection
<1>3. \A T \in C : IsFiniteSet(T)
  <2>1. \A x \in S : IsFiniteSet({x} \X (1..f[x]))
    BY ElementCells, Zenon
  <2>. QED  BY <2>1, Zenon
<1>4. IsFiniteSet(UNION C)
  BY <1>2, <1>3, FS_UNION
<1>5. IsFiniteSet(Cells(f, S))
  BY <1>4 DEF Cells
<1>. QED  BY <1>5, FS_CardinalityType DEF Bytes

\* No element, no byte.
LEMMA BytesEmpty == ASSUME NEW f PROVE Bytes(f, {}) = 0
<1>1. Cells(f, {}) = {}
  BY DEF Cells
<1>. QED  BY <1>1, FS_EmptySet DEF Bytes

\* The same set, with the same sizes: the same sum.
LEMMA BytesSame ==
  ASSUME NEW S, NEW f, NEW g, \A x \in S : g[x] = f[x]
  PROVE  Bytes(g, S) = Bytes(f, S)
BY CellsSame DEF Bytes

\* An element joins.
LEMMA BytesJoin ==
  ASSUME NEW S, NEW x, NEW f, NEW g, IsFiniteSet(S), x \notin S,
         \A y \in S : f[y] \in Nat /\ g[y] = f[y],
         g[x] \in Nat
  PROVE  /\ IsFiniteSet(S \cup {x})
         /\ Bytes(g, S \cup {x}) = Bytes(f, S) + g[x]
<1> DEFINE X == {x} \X (1..g[x])
<1>1. IsFiniteSet(S \cup {x})
  BY FS_AddElement
<1>2. Cells(g, S \cup {x}) = Cells(g, S) \cup X
  BY DEF Cells
<1>3. Cells(g, S) = Cells(f, S)
  BY CellsSame
<1>4. IsFiniteSet(Cells(f, S)) /\ Cardinality(Cells(f, S)) \in Nat
  BY CellsFinite DEF Bytes
<1>5. IsFiniteSet(X) /\ Cardinality(X) = g[x]
  BY ElementCells
<1>6. Cells(f, S) \cap X = {}
  BY DEF Cells
<1> HIDE DEF X
<1>7. Cardinality(Cells(f, S) \cup X) = Cardinality(Cells(f, S)) + g[x]
  <2>1. Cardinality(Cells(f, S) \cup X) =
          Cardinality(Cells(f, S)) + Cardinality(X) - Cardinality(Cells(f, S) \cap X)
    BY <1>4, <1>5, FS_Union, Zenon
  <2>2. Cardinality(Cells(f, S) \cap X) = 0
    BY <1>6, FS_EmptySet
  <2>. QED  BY <1>4, <1>5, <2>1, <2>2
<1>. QED  BY <1>1, <1>2, <1>3, <1>7 DEF Bytes

\* An element leaves.
LEMMA BytesLeave ==
  ASSUME NEW S, NEW x \in S, NEW f, NEW g, IsFiniteSet(S),
         \A y \in S : f[y] \in Nat,
         \A y \in S \ {x} : g[y] = f[y]
  PROVE  /\ IsFiniteSet(S \ {x})
         /\ Bytes(g, S \ {x}) = Bytes(f, S) - f[x]
<1>1. IsFiniteSet(S \ {x})
  BY FS_RemoveElement
<1>2. (S \ {x}) \cup {x} = S
  OBVIOUS
<1>3. Bytes(f, (S \ {x}) \cup {x}) = Bytes(f, S \ {x}) + f[x]
  <2>1. x \notin S \ {x}
    OBVIOUS
  <2>2. \A y \in S \ {x} : f[y] \in Nat /\ f[y] = f[y]
    OBVIOUS
  <2>. QED  BY <1>1, <2>1, <2>2, BytesJoin, ZenonT(40)
<1>4. Bytes(g, S \ {x}) = Bytes(f, S \ {x})
  BY BytesSame
<1>5. Bytes(f, S \ {x}) \in Nat
  BY <1>1, CellsFinite
<1>6. Bytes(f, S) = Bytes(f, S \ {x}) + f[x]
  BY <1>2, <1>3, Zenon
<1>7. f[x] \in Nat
  OBVIOUS
<1>8. Bytes(f, S \ {x}) = Bytes(f, S) - f[x]
  BY <1>5, <1>6, <1>7
<1>. QED  BY <1>1, <1>4, <1>8, Zenon

\* Fewer elements, no more bytes.
LEMMA BytesMonotone ==
  ASSUME NEW T, NEW S \in SUBSET T, NEW f, IsFiniteSet(T),
         \A x \in T : f[x] \in Nat
  PROVE  Bytes(f, S) <= Bytes(f, T)
<1>1. Cells(f, S) \in SUBSET Cells(f, T)
  BY DEF Cells
<1>2. IsFiniteSet(Cells(f, T))
  BY CellsFinite
<1>. QED  BY <1>1, <1>2, FS_Subset DEF Bytes

\* The elements that are at a place of P; what an element at `to` adds to their
\* sum; the step in which only t moves, from p[t] to q[t], and changes its size,
\* from f[t] to g[t]; and what that does to the sum.
At(U, p, P) == {u \in U : p[u] \in P}
Share(P, to, n) == IF to \in P THEN n ELSE 0
Moves(U, t, p, q, f, g) ==
  /\ IsFiniteSet(U)
  /\ t \in U
  /\ \A u \in U : f[u] \in Nat
  /\ \A u \in U \ {t} : q[u] = p[u] /\ g[u] = f[u]
  /\ g[t] \in Nat

SumFollows(U, t, p, q, f, g, P) ==
  /\ Bytes(f, At(U, p, P)) \in Nat
  /\ Bytes(g, At(U, q, P)) =
       Bytes(f, At(U, p, P)) + Share(P, q[t], g[t]) - Share(P, p[t], f[t])

LEMMA BytesMove ==
  ASSUME NEW U, NEW P, NEW t, NEW p, NEW q, NEW f, NEW g, Moves(U, t, p, q, f, g)
  PROVE  SumFollows(U, t, p, q, f, g, P)
<1> DEFINE S == At(U, p, P)
<1> DEFINE T == At(U, q, P)
<1>1. IsFiniteSet(S) /\ IsFiniteSet(S \ {t})
  BY FS_Subset DEF Moves, At
<1>2. \A u \in S : f[u] \in Nat
  BY DEF Moves, At
<1>3. \A u \in S \ {t} : f[u] \in Nat /\ g[u] = f[u]
  BY DEF Moves, At
<1>4. Bytes(f, S) \in Nat /\ Bytes(f, S \ {t}) \in Nat
  BY <1>1, <1>2, <1>3, CellsFinite
<1>5. IF p[t] \in P THEN t \in S ELSE S \ {t} = S
  BY DEF Moves, At
<1>6. IF q[t] \in P THEN T = (S \ {t}) \cup {t} ELSE T = S \ {t}
  BY DEF Moves, At
<1>7. t \notin S \ {t}
  OBVIOUS
<1>8. f[t] \in Nat /\ g[t] \in Nat
  BY DEF Moves
<1> HIDE DEF S, T
\* Take the element out of the one set ...
<1>9. Bytes(f, S \ {t}) = Bytes(f, S) - Share(P, p[t], f[t])
  <2>1. CASE p[t] \in P
    <3>1. Bytes(f, S \ {t}) = Bytes(f, S) - f[t]
      BY <1>1, <1>2, <1>5, <2>1, BytesLeave
    <3>. QED  BY <2>1, <3>1, Zenon DEF Share
  <2>2. CASE p[t] \notin P
    <3>1. Bytes(f, S \ {t}) = Bytes(f, S)
      BY <1>5, <2>2, Zenon
    <3>. QED  BY <1>4, <2>2, <3>1 DEF Share
  <2>. QED  BY <2>1, <2>2
\* ... and put it into the other.
<1>10. Bytes(g, T) = Bytes(f, S \ {t}) + Share(P, q[t], g[t])
  <2>1. CASE q[t] \in P
    <3>1. Bytes(g, (S \ {t}) \cup {t}) = Bytes(f, S \ {t}) + g[t]
      BY <1>1, <1>3, <1>7, <1>8, BytesJoin, ZenonT(40)
    <3>. QED  BY <1>6, <2>1, <3>1, Zenon DEF Share
  <2>2. CASE q[t] \notin P
    <3>1. Bytes(g, S \ {t}) = Bytes(f, S \ {t})
      BY <1>3, BytesSame, Zenon
    <3>2. Bytes(g, T) = Bytes(f, S \ {t})
      BY <1>6, <2>2, <3>1, Zenon
    <3>. QED  BY <1>4, <2>2, <3>2 DEF Share
  <2>. QED  BY <2>1, <2>2
<1>11. Share(P, p[t], f[t]) \in Nat /\ Share(P, q[t], g[t]) \in Nat
  BY <1>8 DEF Share
<1>12. /\ Bytes(f, S) \in Nat
       /\ Bytes(g, T) = Bytes(f, S) + Share(P, q[t], g[t]) - Share(P, p[t], f[t])
  BY <1>4, <1>9, <1>10, <1>11
<1>. QED  BY <1>12 DEF S, T, SumFollows

-------------------------------------------------------------------------------
(***************************************************************************)
(* Types                                                                   *)
(***************************************************************************)
LEMMA TypeInit == Init => TypeOK
BY ConstantsAssumption DEF Init, TypeOK, PCs, WithPointer, InCall

\* A call that starts, and one that ends.
LEMMA TypeStep == TypeOK /\ [Next]_vars => TypeOK'
<1> SUFFICES ASSUME TypeOK, [Next]_vars PROVE TypeOK'
  OBVIOUS
<1> USE ConstantsAssumption DEF TypeOK, PCs, WithPointer, InCall, Goto, Leave, books, owners
<1>1. ASSUME NEW t \in Callers, NEW n \in Sizes, Reserve(t, n) PROVE TypeOK'
  BY <1>1 DEF Reserve
<1>2. ASSUME NEW t \in Callers, NEW n \in Sizes, Refuse(t, n) PROVE TypeOK'
  BY <1>2 DEF Refuse
<1>3. ASSUME NEW t \in Callers, NEW p \in Addrs, NativeAlloc(t, p) PROVE TypeOK'
  BY <1>3 DEF NativeAlloc, With
<1>4. ASSUME NEW t \in Callers, NativeFail(t) PROVE TypeOK'
  BY <1>4 DEF NativeFail
<1>5. ASSUME NEW t \in Callers, Rollback(t) PROVE TypeOK'
  BY <1>5 DEF Rollback
<1>6. ASSUME NEW t \in Callers, Track(t) PROVE TypeOK'
  BY <1>6 DEF Track, With
<1>7. ASSUME NEW t \in Callers, Record(t) PROVE TypeOK'
  BY <1>7 DEF Record
<1>8. ASSUME NEW t \in Callers, NEW p \in Addrs, NEW n \in Sizes, Untrack(t, p, n)
      PROVE  TypeOK'
  BY <1>8 DEF Untrack, Without
<1>9. ASSUME NEW t \in Callers, NEW p \in Addrs, NEW n \in Sizes, Reject(t, p, n)
      PROVE  TypeOK'
  BY <1>9 DEF Reject
<1>10. ASSUME NEW t \in Callers, NativeFree(t) PROVE TypeOK'
  BY <1>10 DEF NativeFree, Without
<1>11. ASSUME NEW t \in Callers, NativeFreeFails(t) PROVE TypeOK'
  BY <1>11 DEF NativeFreeFails
<1>12. ASSUME NEW t \in Callers, Release(t) PROVE TypeOK'
  BY <1>12 DEF Release
<1>13. ASSUME NEW t \in Callers, Unrecord(t) PROVE TypeOK'
  BY <1>13 DEF Unrecord
<1>14. ASSUME NEW t \in Callers, Raise(t) PROVE TypeOK'
  BY <1>14 DEF Raise
<1>15. CASE UNCHANGED vars
  BY <1>15 DEF vars
<1>. QED
  BY <1>1, <1>2, <1>3, <1>4, <1>5, <1>6, <1>7, <1>8, <1>9, <1>10, <1>11,
     <1>12, <1>13, <1>14, <1>15 DEF Next

\* Every variable keeps its type, whatever callers pass.
THEOREM TypeCorrect == Spec => []TypeOK
BY TypeInit, TypeStep, PTL DEF Spec
-------------------------------------------------------------------------------
(***************************************************************************)
(* The table and the native heap                                           *)
(***************************************************************************)
LEMMA TableInit == Init => TableSound
BY DEF Init, TableSound, InPc

\* A block enters the table only out of the hands of one call, and leaves it
\* only into the hands of one call.
LEMMA TableStep == TypeOK /\ TableSound /\ [Next]_vars => TableSound'
<1> SUFFICES ASSUME TypeOK, TableSound, [Next]_vars PROVE TableSound'
  OBVIOUS
<1> USE DEF TypeOK, PCs, TableSound, InPc, Goto, Leave, books, owners
<1>1. ASSUME NEW t \in Callers, NEW n \in Sizes, Reserve(t, n)
      PROVE  TableSound'
  BY <1>1 DEF Reserve
<1>2. ASSUME NEW t \in Callers, NEW n \in Sizes, Refuse(t, n)
      PROVE  TableSound'
  BY <1>2 DEF Refuse
<1>3. ASSUME NEW t \in Callers, NEW p \in Addrs, NativeAlloc(t, p)
      PROVE  TableSound'
  BY <1>3 DEF NativeAlloc, With
<1>4. ASSUME NEW t \in Callers, NativeFail(t)
      PROVE  TableSound'
  BY <1>4 DEF NativeFail
<1>5. ASSUME NEW t \in Callers, Rollback(t)
      PROVE  TableSound'
  BY <1>5 DEF Rollback
<1>6. ASSUME NEW t \in Callers, Track(t)
      PROVE  TableSound'
  BY <1>6 DEF Track, With
<1>7. ASSUME NEW t \in Callers, Record(t)
      PROVE  TableSound'
  BY <1>7 DEF Record
<1>8. ASSUME NEW t \in Callers, NEW p \in Addrs, NEW n \in Sizes, Untrack(t, p, n)
      PROVE  TableSound'
  BY <1>8 DEF Untrack, Without
<1>9. ASSUME NEW t \in Callers, NEW p \in Addrs, NEW n \in Sizes, Reject(t, p, n)
      PROVE  TableSound'
  BY <1>9 DEF Reject
<1>10. ASSUME NEW t \in Callers, NativeFree(t)
      PROVE  TableSound'
  BY <1>10 DEF NativeFree, Without
<1>11. ASSUME NEW t \in Callers, NativeFreeFails(t)
      PROVE  TableSound'
  BY <1>11 DEF NativeFreeFails
<1>12. ASSUME NEW t \in Callers, Release(t)
      PROVE  TableSound'
  BY <1>12 DEF Release
<1>13. ASSUME NEW t \in Callers, Unrecord(t)
      PROVE  TableSound'
  BY <1>13 DEF Unrecord
<1>14. ASSUME NEW t \in Callers, Raise(t)
      PROVE  TableSound'
  BY <1>14 DEF Raise
<1>15. CASE UNCHANGED vars
  BY <1>15 DEF vars
<1>. QED
  BY <1>1, <1>2, <1>3, <1>4, <1>5, <1>6, <1>7, <1>8, <1>9, <1>10, <1>11,
     <1>12, <1>13, <1>14, <1>15 DEF Next

\* The table never names a block that is not out, and the native free is only
\* given blocks that are out, whatever callers pass to deallocate.
THEOREM TableIsSound == Spec => []TableSound
<1>1. TableSound /\ TypeOK /\ [Next]_vars => TableSound'
  BY TableStep
<1>. QED  BY <1>1, TableInit, TypeCorrect, PTL DEF Spec
-------------------------------------------------------------------------------
(***************************************************************************)
(* The books                                                               *)
(***************************************************************************)
\* What happens to the sum over the calls that are in P when t moves to pc `to`
\* with size n.
CallMoves(P, t, to, n) ==
  /\ Bytes(size, InPc(P)) \in Nat
  /\ Bytes(size, InPc(P))' =
       Bytes(size, InPc(P)) + Share(P, to, n) - Share(P, pc[t], size[t])

LEMMA CallMovesCount ==
  ASSUME NEW t, Moves(Callers, t, pc, pc', size, size'), NEW P
  PROVE  CallMoves(P, t, pc'[t], size'[t])
<1>1. /\ Bytes(size, At(Callers, pc, P)) \in Nat
      /\ Bytes(size', At(Callers, pc', P)) =
           Bytes(size, At(Callers, pc, P))
             + Share(P, pc'[t], size'[t]) - Share(P, pc[t], size[t])
  <2>1. SumFollows(Callers, t, pc, pc', size, size', P)
    BY BytesMove
  <2>. QED  BY <2>1 DEF SumFollows
<1>2. InPc(P) = At(Callers, pc, P)
  BY DEF InPc, At
<1>3. Bytes(size, InPc(P))' = Bytes(size', At(Callers, pc', P))
  BY DEF InPc, At
<1>. QED  BY <1>1, <1>2, <1>3, Zenon DEF CallMoves

\* t moves to pc `to` with size n: what that does to the sums of the books.
LEMMA SumsMove ==
  ASSUME Sizes \subseteq Nat, TypeOK,
         NEW t \in Callers, NEW to \in PCs, NEW n \in Nat,
         pc' = [pc EXCEPT ![t] = to],
         size' = [size EXCEPT ![t] = n],
         NEW P
  PROVE  CallMoves(P, t, to, n)
<1>1. Moves(Callers, t, pc, pc', size, size')
  BY ConstantsAssumption DEF Moves, TypeOK
<1>2. pc'[t] = to /\ size'[t] = n
  BY DEF TypeOK
<1>3. CallMoves(P, t, pc'[t], size'[t])
  BY <1>1, CallMovesCount
<1>. QED  BY <1>2, <1>3, Zenon

\* The heap's blocks span finitely many bytes.
LEMMA HeapFinite ==
  ASSUME Sizes \subseteq Nat, TypeOK, IsFiniteSet(DOMAIN heap)
  PROVE  HeapBytes \in Nat
<1>1. \A p \in DOMAIN heap : heap[p] \in Nat
  BY DEF TypeOK
<1>. QED  BY <1>1, CellsFinite, Zenon DEF HeapBytes, BytesOf

\* A block joins the heap.
LEMMA HeapGrows ==
  ASSUME Sizes \subseteq Nat, TypeOK, IsFiniteSet(DOMAIN heap),
         NEW p, p \notin DOMAIN heap, NEW n \in Nat,
         heap' = With(heap, p, n)
  PROVE  IsFiniteSet(DOMAIN heap)' /\ HeapBytes' = HeapBytes + n
<1> DEFINE D == DOMAIN heap
<1> DEFINE g == With(heap, p, n)
<1>1. /\ DOMAIN g = D \cup {p}
      /\ g[p] = n
      /\ g[p] \in Nat
      /\ \A q \in D : heap[q] \in Nat /\ g[q] = heap[q]
  BY DEF With, TypeOK
<1>2. p \notin D /\ IsFiniteSet(D)
  OBVIOUS
<1>3. HeapBytes' = Bytes(g, DOMAIN g) /\ HeapBytes = Bytes(heap, D)
  BY DEF HeapBytes, BytesOf
<1>4. IsFiniteSet(DOMAIN heap)' <=> IsFiniteSet(DOMAIN g)
  OBVIOUS
<1> HIDE DEF g, D
<1>5. IsFiniteSet(D \cup {p}) /\ Bytes(g, D \cup {p}) = Bytes(heap, D) + g[p]
  BY <1>1, <1>2, BytesJoin, ZenonT(40)
<1>. QED  BY <1>1, <1>3, <1>4, <1>5, Zenon

\* A block leaves the heap.
LEMMA HeapShrinks ==
  ASSUME Sizes \subseteq Nat, TypeOK, IsFiniteSet(DOMAIN heap),
         NEW p \in DOMAIN heap,
         heap' = Without(heap, p)
  PROVE  IsFiniteSet(DOMAIN heap)' /\ HeapBytes' = HeapBytes - heap[p]
<1> DEFINE D == DOMAIN heap
<1> DEFINE g == Without(heap, p)
<1>1. /\ DOMAIN g = D \ {p}
      /\ \A q \in D : heap[q] \in Nat
      /\ \A q \in D \ {p} : g[q] = heap[q]
  BY DEF Without, TypeOK
<1>2. p \in D /\ IsFiniteSet(D)
  OBVIOUS
<1>3. HeapBytes' = Bytes(g, DOMAIN g) /\ HeapBytes = Bytes(heap, D)
  BY DEF HeapBytes, BytesOf
<1>4. IsFiniteSet(DOMAIN heap)' <=> IsFiniteSet(DOMAIN g)
  OBVIOUS
<1> HIDE DEF g, D
<1>5. IsFiniteSet(D \ {p}) /\ Bytes(g, D \ {p}) = Bytes(heap, D) - heap[p]
  BY <1>1, <1>2, BytesLeave, Zenon
<1>. QED  BY <1>1, <1>3, <1>4, <1>5, Zenon

\* What is inductive about the books: they only balance because the native free
\* is given a block of the size the call knows.
BooksInv ==
  /\ TypeOK
  /\ TableSound
  /\ IsFiniteSet(DOMAIN heap)
  /\ BooksBalance

\* A step in which t moves to pc `to` with size n, and the heap and the two
\* counters change by h, u and c: what makes up for what.
Shift(t, to, n, h, u, c) ==
  /\ to \in PCs /\ n \in Nat /\ h \in Int /\ u \in Int /\ c \in Int
  /\ pc' = [pc EXCEPT ![t] = to]
  /\ size' = [size EXCEPT ![t] = n]
  /\ IsFiniteSet(DOMAIN heap)'
  /\ HeapBytes' = HeapBytes + h
  /\ used' = used + u
  /\ current' = current + c
  /\ u + Share(ReservingPCs, pc[t], size[t]) + Share(ReleasingPCs, pc[t], size[t])
       = h + Share(ReservingPCs, to, n) + Share(ReleasingPCs, to, n)
  /\ c + Share(UnrecordedPCs, to, n) + Share(LingeringPCs, pc[t], size[t])
       = h + Share(LingeringPCs, to, n) + Share(UnrecordedPCs, pc[t], size[t])

LEMMA BooksMove ==
  ASSUME Sizes \subseteq Nat, BooksInv,
         NEW t \in Callers, NEW to, NEW n, NEW h, NEW u, NEW c,
         Shift(t, to, n, h, u, c)
  PROVE  BooksBalance' /\ IsFiniteSet(DOMAIN heap)'
<1>1. /\ CallMoves(ReservingPCs, t, to, n) /\ CallMoves(ReleasingPCs, t, to, n)
      /\ CallMoves(UnrecordedPCs, t, to, n) /\ CallMoves(LingeringPCs, t, to, n)
  BY SumsMove, Zenon DEF BooksInv, Shift
<1>2. size[t] \in Nat /\ used \in Int /\ current \in Int /\ HeapBytes \in Nat
  <2>1. HeapBytes \in Nat
    BY HeapFinite DEF BooksInv
  <2>. QED  BY <2>1 DEF BooksInv, TypeOK
<1>3. \A P, x : \A m \in Nat : Share(P, x, m) \in Nat
  BY DEF Share
<1>4. used = HeapBytes + Bytes(size, Reserving) + Bytes(size, Releasing)
  BY DEF BooksInv, BooksBalance
<1>5. current + Bytes(size, Unrecorded) = HeapBytes + Bytes(size, Lingering)
  BY DEF BooksInv, BooksBalance
<1>6. (used = HeapBytes + Bytes(size, Reserving) + Bytes(size, Releasing))'
  BY <1>1, <1>2, <1>3, <1>4 DEF CallMoves, Reserving, Releasing, Shift
<1>7. (current + Bytes(size, Unrecorded) = HeapBytes + Bytes(size, Lingering))'
  BY <1>1, <1>2, <1>3, <1>5 DEF CallMoves, Unrecorded, Lingering, Shift
<1>. QED  BY <1>6, <1>7 DEF BooksBalance, Shift

LEMMA BooksInit == Init => BooksInv
<1> SUFFICES ASSUME Init PROVE BooksInv
  OBVIOUS
<1>1. IsFiniteSet(DOMAIN heap) /\ HeapBytes = 0
  BY BytesEmpty, FS_EmptySet DEF Init, HeapBytes, BytesOf
<1>2. \A P \in {ReservingPCs, ReleasingPCs, UnrecordedPCs, LingeringPCs} :
        Bytes(size, InPc(P)) = 0
  <2>1. \A P \in {ReservingPCs, ReleasingPCs, UnrecordedPCs, LingeringPCs} : InPc(P) = {}
    BY DEF Init, InPc, ReservingPCs, ReleasingPCs, UnrecordedPCs, LingeringPCs
  <2>. QED  BY <2>1, BytesEmpty, Zenon
<1>3. used = 0 /\ current = 0
  BY DEF Init
<1>4. BooksBalance
  BY <1>1, <1>2, <1>3 DEF BooksBalance, Reserving, Releasing, Unrecorded, Lingering
<1>. QED  BY <1>1, <1>4, TypeInit, TableInit DEF BooksInv

LEMMA BooksStep ==
  ASSUME Sizes \subseteq Nat, BooksInv, [Next]_vars
  PROVE  BooksInv'
<1> DEFINE Kept == BooksBalance' /\ IsFiniteSet(DOMAIN heap)'
<1> USE DEF Share, ReservingPCs, ReleasingPCs, UnrecordedPCs, LingeringPCs, PCs
<1>1. /\ TypeOK
      /\ IsFiniteSet(DOMAIN heap)
      /\ HeapBytes \in Nat /\ used \in Int /\ current \in Int
  BY HeapFinite DEF BooksInv, TypeOK
<1>2. \A t \in Callers : size[t] \in Nat /\ size = [size EXCEPT ![t] = size[t]]
  BY <1>1 DEF TypeOK
<1>3. heap' = heap => IsFiniteSet(DOMAIN heap)' /\ HeapBytes' = HeapBytes + 0
  BY <1>1 DEF HeapBytes, BytesOf
<1>4. ASSUME NEW t \in Callers, NEW n \in Sizes, Reserve(t, n) PROVE Kept
  <2>1. Shift(t, "native", n, 0, n, 0)
    BY <1>1, <1>2, <1>3, <1>4 DEF Reserve, Shift, books
  <2>. QED  BY <2>1, BooksMove
<1>5. ASSUME NEW t \in Callers, NEW n \in Sizes, Refuse(t, n) PROVE Kept
  <2>1. Shift(t, "MemoryError", 0, 0, 0, 0)
    BY <1>1, <1>2, <1>3, <1>5 DEF Refuse, Leave, Shift, books
  <2>. QED  BY <2>1, BooksMove
<1>6. ASSUME NEW t \in Callers, NEW p \in Addrs, NativeAlloc(t, p) PROVE Kept
  <2>1. IsFiniteSet(DOMAIN heap)' /\ HeapBytes' = HeapBytes + size[t]
    BY <1>1, <1>2, <1>6, HeapGrows DEF NativeAlloc
  <2>2. Shift(t, "track", size[t], size[t], 0, 0)
    BY <1>1, <1>2, <1>6, <2>1 DEF NativeAlloc, Shift, books
  <2>. QED  BY <2>2, BooksMove
<1>7. ASSUME NEW t \in Callers, NativeFail(t) PROVE Kept
  <2>1. Shift(t, "rollback", size[t], 0, 0, 0)
    BY <1>1, <1>2, <1>3, <1>7 DEF NativeFail, Goto, Shift, books
  <2>. QED  BY <2>1, BooksMove
<1>8. ASSUME NEW t \in Callers, Rollback(t) PROVE Kept
  <2>1. ~(size[t] < 0)
    BY <1>2
  <2>2. /\ pc' = [pc EXCEPT ![t] = "MemoryError"] /\ size' = [size EXCEPT ![t] = 0]
        /\ pc[t] = "rollback" /\ used' = used - size[t]
        /\ UNCHANGED <<heap, current>>
    BY <1>8, <2>1 DEF Rollback, Leave
  <2>3. Shift(t, "MemoryError", 0, 0, 0 - size[t], 0)
    BY <1>1, <1>2, <1>3, <2>2 DEF Shift
  <2>. QED  BY <2>3, BooksMove
<1>9. ASSUME NEW t \in Callers, Track(t) PROVE Kept
  <2>1. Shift(t, "record", size[t], 0, 0, 0)
    BY <1>1, <1>2, <1>3, <1>9 DEF Track, Goto, Shift, books
  <2>. QED  BY <2>1, BooksMove
<1>10. ASSUME NEW t \in Callers, Record(t) PROVE Kept
  <2>1. Shift(t, "idle", 0, 0, 0, size[t])
    BY <1>1, <1>2, <1>3, <1>10 DEF Record, Leave, Shift
  <2>. QED  BY <2>1, BooksMove
<1>11. ASSUME NEW t \in Callers, NEW p \in Addrs, NEW n \in Sizes, Untrack(t, p, n)
       PROVE  Kept
  <2>1. Shift(t, "free", n, 0, 0, 0)
    BY <1>1, <1>2, <1>3, <1>11 DEF Untrack, Shift, books
  <2>. QED  BY <2>1, BooksMove
<1>12. ASSUME NEW t \in Callers, NEW p \in Addrs, NEW n \in Sizes, Reject(t, p, n)
       PROVE  Kept
  <2>1. Shift(t, "ValueError", 0, 0, 0, 0)
    BY <1>1, <1>2, <1>3, <1>12 DEF Reject, Leave, Shift, books
  <2>. QED  BY <2>1, BooksMove
<1>13. ASSUME NEW t \in Callers, NativeFree(t) PROVE Kept
  <2>1. addr[t] \in DOMAIN heap /\ heap[addr[t]] = size[t]
    BY <1>13 DEF BooksInv, TableSound, InPc, NativeFree
  <2>2. IsFiniteSet(DOMAIN heap)' /\ HeapBytes' = HeapBytes - heap[addr[t]]
    BY <1>1, <1>13, <2>1, HeapShrinks DEF NativeFree
  <2>3. Shift(t, IF LimitOutermost THEN "unrecord" ELSE "release",
              size[t], 0 - size[t], 0, 0)
    BY <1>1, <1>2, <1>13, <2>1, <2>2 DEF NativeFree, Goto, Shift, books
  <2>. QED  BY <2>3, BooksMove
<1>14. ASSUME NEW t \in Callers, NativeFreeFails(t) PROVE Kept
  <2>1. Shift(t, "RuntimeError", 0, 0, 0, 0)
    BY <1>1, <1>2, <1>3, <1>14 DEF NativeFreeFails, Leave, Shift, books
  <2>. QED  BY <2>1, BooksMove
<1>15. ASSUME NEW t \in Callers, Release(t) PROVE Kept
  <2>1. CASE LimitOutermost
    <3>1. Shift(t, "idle", 0, 0, 0 - size[t], 0)
      BY <1>1, <1>2, <1>3, <1>15, <2>1 DEF Release, Leave, Shift
    <3>. QED  BY <3>1, BooksMove
  <2>2. CASE ~LimitOutermost
    <3>1. Shift(t, "unrecord", size[t], 0, 0 - size[t], 0)
      BY <1>1, <1>2, <1>3, <1>15, <2>2 DEF Release, Goto, Shift
    <3>. QED  BY <3>1, BooksMove
  <2>. QED  BY <2>1, <2>2
<1>16. ASSUME NEW t \in Callers, Unrecord(t) PROVE Kept
  <2>1. CASE LimitOutermost
    <3>1. Shift(t, "release", size[t], 0, 0, 0 - size[t])
      BY <1>1, <1>2, <1>3, <1>16, <2>1 DEF Unrecord, Goto, Shift
    <3>. QED  BY <3>1, BooksMove
  <2>2. CASE ~LimitOutermost
    <3>1. Shift(t, "idle", 0, 0, 0, 0 - size[t])
      BY <1>1, <1>2, <1>3, <1>16, <2>2 DEF Unrecord, Leave, Shift
    <3>. QED  BY <3>1, BooksMove
  <2>. QED  BY <2>1, <2>2
<1>17. ASSUME NEW t \in Callers, Raise(t) PROVE Kept
  <2>1. Shift(t, "idle", 0, 0, 0, 0)
    BY <1>1, <1>2, <1>3, <1>17 DEF Raise, Leave, Shift, books
  <2>. QED  BY <2>1, BooksMove
<1>18. ASSUME UNCHANGED vars PROVE Kept
  <2>1. /\ HeapBytes' = HeapBytes /\ IsFiniteSet(DOMAIN heap)'
        /\ used' = used /\ current' = current /\ pc' = pc /\ size' = size
    BY <1>1, <1>18 DEF vars, books, HeapBytes, BytesOf
  <2>2. \A P : Bytes(size, InPc(P))' = Bytes(size, InPc(P))
    BY <2>1 DEF InPc
  <2>3. BooksBalance
    BY DEF BooksInv
  <2> HIDE DEF ReservingPCs, ReleasingPCs, UnrecordedPCs, LingeringPCs
  <2>. QED  BY <2>1, <2>2, <2>3 DEF BooksBalance, Reserving, Releasing, Unrecorded,
                                 Lingering
<1>19. Kept
  BY <1>4, <1>5, <1>6, <1>7, <1>8, <1>9, <1>10, <1>11, <1>12, <1>13, <1>14,
     <1>15, <1>16, <1>17, <1>18 DEF Next
<1>20. TypeOK' /\ TableSound'
  BY TypeStep, TableStep DEF BooksInv
<1>. QED  BY <1>19, <1>20 DEF BooksInv

\* No byte is lost or counted twice, on any path, whatever callers pass.
THEOREM BooksAlwaysBalance ==
  ASSUME Sizes \subseteq Nat
  PROVE  Spec => []BooksBalance
<1>1. BooksInv /\ [Next]_vars => BooksInv'
  BY BooksStep
<1>2. BooksInv => BooksBalance
  BY DEF BooksInv
<1>. QED  BY <1>1, <1>2, BooksInit, PTL DEF Spec
-------------------------------------------------------------------------------
(***************************************************************************)
(* The limit                                                               *)
(***************************************************************************)
\* `_used` never passes the limit and always covers what is out.
LimitInv ==
  /\ BooksInv
  /\ used <= Limit
  /\ LimitOutermost => peak <= Limit

\* The sums of the books are natural numbers, and so the counters dominate.
LEMMA UsedCovers ==
  ASSUME Sizes \subseteq Nat, BooksInv
  PROVE  /\ HeapBytes \in Nat
         /\ HeapBytes <= used
         /\ LimitOutermost => current <= used
<1>1. IsFiniteSet(Callers)
  BY ConstantsAssumption
<1>2. \A P : IsFiniteSet(InPc(P)) /\ InPc(P) \subseteq Callers
  BY <1>1, FS_Subset DEF InPc
<1>3. \A t \in Callers : size[t] \in Nat
  BY DEF BooksInv, TypeOK
<1>4. \A P : Bytes(size, InPc(P)) \in Nat
  <2>1. TAKE P
  <2>2. \A t \in InPc(P) : size[t] \in Nat
    BY <1>2, <1>3
  <2>. QED  BY <1>2, <2>2, CellsFinite, Zenon
<1>5. HeapBytes \in Nat /\ used \in Int /\ current \in Int
  BY HeapFinite DEF BooksInv, TypeOK
<1>6. /\ used = HeapBytes + Bytes(size, Reserving) + Bytes(size, Releasing)
      /\ current + Bytes(size, Unrecorded) = HeapBytes + Bytes(size, Lingering)
  BY DEF BooksInv, BooksBalance
<1>7. /\ Bytes(size, Reserving) \in Nat /\ Bytes(size, Releasing) \in Nat
      /\ Bytes(size, Unrecorded) \in Nat /\ Bytes(size, Lingering) \in Nat
  BY <1>4 DEF Reserving, Releasing, Unrecorded, Lingering
<1>8. LimitOutermost => Bytes(size, Lingering) <= Bytes(size, Releasing)
  <2>1. ASSUME LimitOutermost PROVE Lingering \in SUBSET Releasing
    BY <2>1 DEF Lingering, Releasing, LingeringPCs, ReleasingPCs, InPc
  <2>2. IsFiniteSet(Releasing) /\ \A t \in Releasing : size[t] \in Nat
    BY <1>2, <1>3 DEF Releasing
  <2>. QED  BY <2>1, <2>2, BytesMonotone
<1>. QED  BY <1>5, <1>6, <1>7, <1>8

LEMMA LimitInit == Init => LimitInv
BY BooksInit, ConstantsAssumption DEF LimitInv, Init

LEMMA LimitStep ==
  ASSUME Sizes \subseteq Nat, LimitInv, [Next]_vars
  PROVE  LimitInv'
<1>1. BooksInv'
  BY BooksStep DEF LimitInv
<1>2. /\ used \in Int /\ current \in Int /\ peak \in Int /\ Limit \in Nat
      /\ \A t \in Callers : size[t] \in Nat
      /\ used <= Limit
  BY ConstantsAssumption DEF LimitInv, BooksInv, TypeOK
<1>3. used' <= Limit
  BY <1>2 DEF Next, vars, books, Reserve, Refuse, NativeAlloc, NativeFail, Rollback,
     Track, Record, Untrack, Reject, NativeFree, NativeFreeFails, Release, Unrecord,
     Raise
<1>4. LimitOutermost => current' <= used'
  <2>1. (LimitOutermost => current <= used)'
    BY <1>1, UsedCovers, PTL
  <2>. QED  BY <2>1
<1>5. peak' = peak \/ peak' = current'
  BY DEF Next, vars, books, Reserve, Refuse, NativeAlloc, NativeFail, Rollback,
     Track, Record, Untrack, Reject, NativeFree, NativeFreeFails, Release, Unrecord,
     Raise
<1>6. used' \in Int /\ current' \in Int
  BY <1>1 DEF BooksInv, TypeOK
<1>7. LimitOutermost => peak' <= Limit
  BY <1>2, <1>3, <1>4, <1>5, <1>6 DEF LimitInv
<1>. QED  BY <1>1, <1>3, <1>7 DEF LimitInv

LEMMA LimitAlways ==
  ASSUME Sizes \subseteq Nat
  PROVE  Spec => []LimitInv
<1>1. LimitInv /\ [Next]_vars => LimitInv'
  BY LimitStep
<1>. QED  BY <1>1, LimitInit, PTL DEF Spec

\* The memory that is out never exceeds the limit, at any moment and whatever
\* callers pass to deallocate, provided they ask for no negative size.
THEOREM LimitIsRespected ==
  ASSUME Sizes \subseteq Nat
  PROVE  Spec => []LimitRespected
<1>1. LimitInv => LimitRespected
  <2>1. SUFFICES ASSUME LimitInv PROVE HeapBytes <= Limit
    BY DEF LimitRespected
  <2>2. HeapBytes \in Nat /\ HeapBytes <= used /\ used <= Limit /\ used \in Int
    BY <2>1, UsedCovers DEF LimitInv, BooksInv, TypeOK
  <2>. QED  BY <2>2, ConstantsAssumption
<1>. QED  BY <1>1, LimitAlways, PTL

\* With the limit outermost the statistics never report more than it.
THEOREM PeakIsWithinLimit ==
  ASSUME Sizes \subseteq Nat, LimitOutermost
  PROVE  Spec => []PeakWithinLimit
<1>1. LimitInv => PeakWithinLimit
  BY DEF LimitInv, PeakWithinLimit
<1>. QED  BY <1>1, LimitAlways, PTL
-------------------------------------------------------------------------------
(***************************************************************************)
(* Callers that give back what they hold                                   *)
(***************************************************************************)
\* HandlesValid is not inductive: the pointers about to be returned must be in
\* the table as well, and in nobody's hands yet.
AboutToReturn ==
  \A t \in InPc({"record"}) :
    /\ addr[t] \in DOMAIN live
    /\ live[addr[t]] = size[t]
    /\ \A h \in handles : h[1] # addr[t]
    /\ \A u \in InPc({"record"}) : u # t => addr[u] # addr[t]

HandlesInv ==
  /\ TypeOK
  /\ TableSound
  /\ HandlesValid
  /\ AboutToReturn

LEMMA HandlesInit == Init => HandlesInv
BY TypeInit, TableInit DEF HandlesInv, AboutToReturn, HandlesValid, Init, InPc

LEMMA HandlesStep ==
  ASSUME Sizes \subseteq Nat, ~Careless, HandlesInv, [Next]_vars
  PROVE  HandlesInv'
<1> DEFINE Kept == HandlesValid' /\ AboutToReturn'
<1>0. TypeOK /\ TableSound /\ HandlesValid /\ AboutToReturn
  BY DEF HandlesInv
<1> USE <1>0 DEF TypeOK, PCs, TableSound, HandlesValid, AboutToReturn, InPc, Goto, Leave,
                 books, owners
<1>1. ASSUME NEW t \in Callers, NEW n \in Sizes, Reserve(t, n) PROVE Kept
  BY <1>1 DEF Reserve
<1>2. ASSUME NEW t \in Callers, NEW n \in Sizes, Refuse(t, n) PROVE Kept
  BY <1>2 DEF Refuse
<1>3. ASSUME NEW t \in Callers, NEW p \in Addrs, NativeAlloc(t, p) PROVE Kept
  BY <1>3 DEF NativeAlloc
<1>4. ASSUME NEW t \in Callers, NativeFail(t) PROVE Kept
  BY <1>4 DEF NativeFail
<1>5. ASSUME NEW t \in Callers, Rollback(t) PROVE Kept
  <2>1. ~(size[t] < 0)
    BY <1>5
  <2>. QED  BY <1>5, <2>1 DEF Rollback
<1>6. ASSUME NEW t \in Callers, Track(t) PROVE Kept
  BY <1>6 DEF Track, With
<1>7. ASSUME NEW t \in Callers, Record(t) PROVE Kept
  BY <1>7 DEF Record
<1>8. ASSUME NEW t \in Callers, NEW p \in Addrs, NEW n \in Sizes, Untrack(t, p, n)
      PROVE  Kept
  <2>1. \A h \in handles : h = <<h[1], h[2]>>
    BY DEF TypeOK
  <2>2. <<p, n>> \in handles
    BY <1>8 DEF Untrack, MayFree
  <2>3. \A h \in handles \ {<<p, n>>} : h[1] # p
    BY <2>1, <2>2
  <2>. QED  BY <1>8, <2>2, <2>3 DEF Untrack, Without
<1>9. ASSUME NEW t \in Callers, NEW p \in Addrs, NEW n \in Sizes, Reject(t, p, n)
      PROVE  Kept
  BY <1>9 DEF Reject, MayFree
<1>10. ASSUME NEW t \in Callers, NativeFree(t) PROVE Kept
  BY <1>10 DEF NativeFree
<1>11. ASSUME NEW t \in Callers, NativeFreeFails(t) PROVE Kept
  BY <1>11 DEF NativeFreeFails
<1>12. ASSUME NEW t \in Callers, Release(t) PROVE Kept
  BY <1>12 DEF Release
<1>13. ASSUME NEW t \in Callers, Unrecord(t) PROVE Kept
  BY <1>13 DEF Unrecord
<1>14. ASSUME NEW t \in Callers, Raise(t) PROVE Kept
  BY <1>14 DEF Raise
<1>15. ASSUME UNCHANGED vars PROVE Kept
  BY <1>15 DEF vars
<1>16. Kept
  BY <1>1, <1>2, <1>3, <1>4, <1>5, <1>6, <1>7, <1>8, <1>9, <1>10, <1>11,
     <1>12, <1>13, <1>14, <1>15 DEF Next
<1>17. TypeOK' /\ TableSound'
  BY TypeStep, TableStep
<1>. QED  BY <1>16, <1>17 DEF HandlesInv

\* A caller that gives back exactly what it was given is never rejected, and
\* what it holds stays in the table, whatever the other callers do.
THEOREM HandlesAreValid ==
  ASSUME Sizes \subseteq Nat, ~Careless
  PROVE  Spec => []HandlesValid
<1>1. HandlesInv /\ [Next]_vars => HandlesInv'
  BY HandlesStep
<1>2. HandlesInv => HandlesValid
  BY DEF HandlesInv
<1>. QED  BY <1>1, <1>2, HandlesInit, PTL DEF Spec
-------------------------------------------------------------------------------
(***************************************************************************)
(* The statistics, when callers give back what they hold                   *)
(***************************************************************************)
\* A caller that could free a pointer it was not given yet would take its bytes
\* off the counter before they are added.  The calls whose block is out but not
\* counted have blocks of their own, and so their bytes are bytes of the heap.
LEMMA UnrecordedAreOut ==
  ASSUME Sizes \subseteq Nat, BooksInv, HandlesInv
  PROVE  Bytes(size, Unrecorded) <= HeapBytes
<1> DEFINE C == Cells(size, Unrecorded)
           H == Cells(heap, DOMAIN heap)
           f == [c \in C |-> <<addr[c[1]], c[2]>>]
<1>1. \A t \in Unrecorded :
        /\ addr[t] \in DOMAIN heap /\ heap[addr[t]] = size[t]
        /\ \A u \in Unrecorded : u # t => addr[u] # addr[t]
  BY DEF HandlesInv, TableSound, AboutToReturn, Unrecorded, UnrecordedPCs, InPc
<1>2. \A c \in C : /\ c[1] \in Unrecorded /\ c[2] \in 1..size[c[1]]
                   /\ c = <<c[1], c[2]>>
  BY DEF Cells
<1>3. ASSUME NEW c \in C PROVE f[c] \in H
  <2>1. c[2] \in 1..heap[addr[c[1]]] /\ addr[c[1]] \in DOMAIN heap
    BY <1>1, <1>2, <1>3
  <2>. QED  BY <2>1, <1>3 DEF Cells
<1>4. ASSUME NEW c \in C, NEW d \in C, f[c] = f[d] PROVE c = d
  BY <1>1, <1>2, <1>4
<1>5. f \in Injection(C, H)
  BY <1>3, <1>4 DEF Injection, IsInjective
<1>6. IsFiniteSet(H)
  <2>1. IsFiniteSet(DOMAIN heap) /\ \A p \in DOMAIN heap : heap[p] \in Nat
    BY DEF BooksInv, TypeOK
  <2>. QED  BY <2>1, CellsFinite
<1>7. Cardinality(C) <= Cardinality(H)
  BY <1>5, <1>6, FS_Injection
<1>. QED  BY <1>7 DEF Bytes, HeapBytes, BytesOf

CountersInv ==
  /\ BooksInv
  /\ HandlesInv
  /\ CountersOrdered

LEMMA CurrentNeverNegative ==
  ASSUME Sizes \subseteq Nat, BooksInv, HandlesInv
  PROVE  0 <= current
<1>1. Bytes(size, Unrecorded) <= HeapBytes
  BY UnrecordedAreOut
<1>2. HeapBytes \in Nat /\ current \in Int
  BY HeapFinite DEF BooksInv, TypeOK
<1>3. \A P : Bytes(size, InPc(P)) \in Nat
  <2>1. IsFiniteSet(Callers)
    BY ConstantsAssumption
  <2>2. TAKE P
  <2>3. IsFiniteSet(InPc(P)) /\ \A t \in InPc(P) : size[t] \in Nat
    BY <2>1, FS_Subset DEF InPc, BooksInv, TypeOK
  <2>. QED  BY <2>3, CellsFinite, Zenon
<1>4. Bytes(size, Unrecorded) \in Nat /\ Bytes(size, Lingering) \in Nat
  BY <1>3 DEF Unrecorded, Lingering
<1>5. current + Bytes(size, Unrecorded) = HeapBytes + Bytes(size, Lingering)
  BY DEF BooksInv, BooksBalance
<1>. QED  BY <1>1, <1>2, <1>4, <1>5

LEMMA CountersInit == Init => CountersInv
BY BooksInit, HandlesInit DEF CountersInv, CountersOrdered, Init

LEMMA CountersStep ==
  ASSUME Sizes \subseteq Nat, ~Careless, CountersInv, [Next]_vars
  PROVE  CountersInv'
<1>1. BooksInv' /\ HandlesInv'
  BY BooksStep, HandlesStep DEF CountersInv
<1>2. 0 <= current'
  <2>1. (0 <= current)'
    BY <1>1, CurrentNeverNegative, PTL
  <2>. QED  BY <2>1
<1>3. /\ current \in Int /\ peak \in Int /\ total \in Int
      /\ current <= peak /\ peak <= total
      /\ \A t \in Callers : size[t] \in Nat
  BY DEF CountersInv, BooksInv, TypeOK, CountersOrdered
<1>4. current' <= peak' /\ peak' <= total'
  BY <1>3 DEF Next, vars, books, Reserve, Refuse, NativeAlloc, NativeFail, Rollback,
     Track, Record, Untrack, Reject, NativeFree, NativeFreeFails, Release, Unrecord,
     Raise
<1>. QED  BY <1>1, <1>2, <1>4 DEF CountersInv, CountersOrdered

\* As long as callers give back only what they hold, a reader of the statistics
\* sees, at any moment, no negative count and no count above its high-water mark.
THEOREM CountersStayOrdered ==
  ASSUME Sizes \subseteq Nat, ~Careless
  PROVE  Spec => []CountersOrdered
<1>1. CountersInv /\ [Next]_vars => CountersInv'
  BY CountersStep
<1>2. CountersInv => CountersOrdered
  BY DEF CountersInv
<1>. QED  BY <1>1, <1>2, CountersInit, PTL DEF Spec
-------------------------------------------------------------------------------
(***************************************************************************)
(* Refinement                                                              *)
(***************************************************************************)
\* A step of the chain leaves the native heap alone, takes one block that fits
\* the limit, or gives one back.
LEMMA HeapMoves ==
  ASSUME Sizes \subseteq Nat, LimitInv, [Next]_vars
  PROVE  [Heap!Next]_heap
<1>1. LimitInv' /\ LimitRespected'
  <2>1. LimitInv'
    BY LimitStep
  <2>2. (HeapBytes \in Nat /\ HeapBytes <= used)'
    BY <2>1, UsedCovers, PTL DEF LimitInv
  <2>3. (used <= Limit)' /\ (used \in Int)'
    BY <2>1 DEF LimitInv, BooksInv, TypeOK
  <2>. QED  BY <2>1, <2>2, <2>3, ConstantsAssumption DEF LimitRespected
<1>2. ASSUME NEW t \in Callers, NEW p \in Addrs, NativeAlloc(t, p)
      PROVE  Heap!Next
  <2>1. TypeOK /\ IsFiniteSet(DOMAIN heap) /\ size[t] \in Nat /\ size[t] \in Sizes
    BY <1>2 DEF LimitInv, BooksInv, TypeOK, NativeAlloc, InCall
  <2>2. p \notin DOMAIN heap /\ heap' = With(heap, p, size[t])
    BY <1>2 DEF NativeAlloc
  <2>3. HeapBytes' = HeapBytes + size[t]
    BY <2>1, <2>2, HeapGrows
  <2>4. HeapBytes + size[t] <= Limit
    BY <1>1, <2>3 DEF LimitRespected
  <2>5. HeapBytes = BytesOf(heap)
    BY DEF HeapBytes
  <2>6. Heap!Obtain(p, size[t])
    BY <2>2, <2>4, <2>5 DEF Heap!Obtain, With
  <2>. QED  BY <2>1, <2>6 DEF Heap!Next
<1>3. ASSUME NEW t \in Callers, NativeFree(t)
      PROVE  Heap!Next
  <2>1. addr[t] \in DOMAIN heap /\ addr[t] \in Addrs
    BY <1>3 DEF LimitInv, BooksInv, TableSound, TypeOK, InPc, NativeFree
  <2>2. heap' = Without(heap, addr[t])
    BY <1>3 DEF NativeFree
  <2>3. Heap!GiveBack(addr[t])
    BY <2>1, <2>2 DEF Heap!GiveBack, Without
  <2>. QED  BY <2>1, <2>3 DEF Heap!Next
<1>. QED
  BY <1>2, <1>3 DEF Next, vars, Reserve, Refuse, NativeFail, Rollback, Track, Record,
     Untrack, Reject, NativeFreeFails, Release, Unrecord, Raise

\* Whatever callers do, the chain takes memory from the system as a bounded
\* heap: whole blocks, never one that is out, never past the limit.
THEOREM ChainImplementsBoundedHeap ==
  ASSUME Sizes \subseteq Nat
  PROVE  Spec => ImplementsBoundedHeap
<1>1. Init => Heap!Init
  BY DEF Init, Heap!Init
<1>2. LimitInv /\ [Next]_vars => [Heap!Next]_heap
  BY HeapMoves
<1>. QED  BY <1>1, <1>2, LimitAlways, PTL DEF Spec, Heap!Spec, ImplementsBoundedHeap
===============================================================================
