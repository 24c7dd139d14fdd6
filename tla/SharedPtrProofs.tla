--------------------------- MODULE SharedPtrProofs ---------------------------
(***************************************************************************)
(* For any number of threads, pointers and blocks: SharedPtr keeps IInv,   *)
(* hence the exactness of the reference counts and what follows from it.   *)
(***************************************************************************)
EXTENDS SharedPtr, FiniteSetTheorems, TLAPS

USE NullAssumption DEF Block, Idle, Copying, Releasing

-----------------------------------------------------------------------------
(* The sets that are counted. *)

LEMMA ReferencesAreFinite ==
  ASSUME NEW b
  PROVE  /\ IsFiniteSet(Holders(b)) /\ Cardinality(Holders(b)) \in Nat
         /\ IsFiniteSet(Copies(b)) /\ Cardinality(Copies(b)) \in Nat
         /\ Cardinality(Holders(b)) = 0 <=> Holders(b) = {}
         /\ Cardinality(Copies(b)) = 0 <=> Copies(b) = {}
<1>1. Holders(b) \in SUBSET Pointers /\ Copies(b) \in SUBSET Threads
  BY DEF Holders, Copies
<1>2. IsFiniteSet(Holders(b)) /\ IsFiniteSet(Copies(b))
  BY <1>1, FS_Subset, PointersAssumption, ThreadsAssumption
<1> QED
  BY <1>2, FS_CardinalityType, FS_EmptySet

LEMMA AddedElement ==
  ASSUME NEW S, IsFiniteSet(S), NEW x, x \notin S
  PROVE  Cardinality(S \union {x}) = Cardinality(S) + 1
  BY FS_AddElement

LEMMA RemovedElement ==
  ASSUME NEW S, IsFiniteSet(S), NEW x, x \in S
  PROVE  Cardinality(S \ {x}) = Cardinality(S) - 1
  BY FS_RemoveElement

(* A count of zero leaves no reference of any kind. *)
LEMMA ZeroIsUnreferenced ==
  ASSUME IInv, NEW b \in Blocks, RefCount[b] = 0
  PROVE  Holders(b) = {} /\ Copies(b) = {} /\ dropped[b] = 0
<1>1. dropped[b] \in Nat /\ RefCount[b] = Cardinality(Holders(b)) + Cardinality(Copies(b)) + dropped[b]
  BY DEF IInv, TypeOK, ReferencesAreExact
<1> QED
  BY <1>1, ReferencesAreFinite

(* A pointer that holds a reference leads to a block with a positive count *)
(* that is not in its pool.                                                *)
LEMMA HolderIsSafe ==
  ASSUME IInv, NEW b \in Blocks, NEW p \in Holders(b)
  PROVE  RefCount[b] > 0 /\ b \in allocated
<1>1. dropped[b] \in Nat /\ RefCount[b] \in Nat
      /\ RefCount[b] = Cardinality(Holders(b)) + Cardinality(Copies(b)) + dropped[b]
  BY DEF IInv, TypeOK, ReferencesAreExact
<1>2. RefCount[b] > 0
  BY <1>1, ReferencesAreFinite
<1> QED
  BY <1>2 DEF IInv, PooledUnreferenced

(* The source of a thread that has not released it holds a reference. *)
LEMMA SourceHolds ==
  ASSUME IInv, NEW t \in Threads, op[t].at \in Copying \union {"release"}
  PROVE  op[t].source \in Holders(Block(t)) /\ Block(t) \in Blocks
<1>1. op[t].source \in Pointers /\ Block(t) \in Blocks
  BY DEF IInv, Engaged
<1>2. \A u \in Threads : op[u].source = op[t].source => u = t
  BY <1>1 DEF IInv, Exclusive
<1>3. op[t].at \notin {"destroy", "clear"}
  OBVIOUS
<1> QED
  BY <1>1, <1>2, <1>3 DEF Holders

LEMMA InOperation ==
  ASSUME IInv, NEW t \in Threads, op[t].at \in Copying \union Releasing
  PROVE  /\ op[t].source \in Pointers /\ op[t].target \in Pointers /\ Block(t) \in Blocks
         /\ op[t].at \in Copying => op[t].source # op[t].target
         /\ op[t].at \in Releasing => op[t].source = op[t].target
<1>1. op[t] # Idle
  OBVIOUS
<1> QED
  BY <1>1 DEF IInv, Engaged

(* A thread that goes on with its operation keeps its pointers. *)
LEMMA GoesOn ==
  ASSUME IInv, NEW t \in Threads, op[t].at \in Copying \union Releasing,
         \A u \in Threads \ {t} : op'[u] = op[u],
         op'[t].source = op[t].source, op'[t].target = op[t].target, ptr' = ptr,
         {op[t].at, op'[t].at} \subseteq Copying \/ {op[t].at, op'[t].at} \subseteq Releasing
  PROVE  Engaged' /\ Exclusive'
<1>1. \A u \in Threads : op'[u].source = op[u].source /\ op'[u].target = op[u].target
  OBVIOUS
<1>2. Exclusive'
  BY <1>1 DEF IInv, Exclusive
<1>3. /\ {op'[t].source, op'[t].target} \subseteq Pointers
      /\ Block(t)' \in Blocks
      /\ \/ op'[t].at \in Copying /\ op'[t].source # op'[t].target
         \/ op'[t].at \in Releasing /\ op'[t].source = op'[t].target
  BY <1>1, InOperation
<1>4. \A u \in Threads \ {t} :
        \/ op'[u] = Idle
        \/ /\ {op'[u].source, op'[u].target} \subseteq Pointers
           /\ Block(u)' \in Blocks
           /\ \/ op'[u].at \in Copying /\ op'[u].source # op'[u].target
              \/ op'[u].at \in Releasing /\ op'[u].source = op'[u].target
  BY DEF IInv, Engaged
<1> QED
  BY <1>2, <1>3, <1>4 DEF Engaged

-----------------------------------------------------------------------------
LEMMA InitEstablishesIInv == Init => IInv
<1> SUFFICES ASSUME Init PROVE IInv
  OBVIOUS
<1>1. ReferencesAreExact
  <2>1. \A b \in Blocks : Holders(b) = {} /\ Copies(b) = {}
    BY DEF Init, Holders, Copies
  <2> QED
    BY <2>1, FS_EmptySet DEF Init, ReferencesAreExact
<1> QED
  BY <1>1 DEF Init, IInv, TypeOK, Engaged, Exclusive, PooledUnreferenced, DestroyedUnreferenced,
     NoDanglingPointer, DestroyedByTheLast, NoReferenceFromZero

LEMMA MakeStep ==
  ASSUME IInv, NEW p \in Pointers, NEW b \in Blocks, MakeSharedManaged(p, b)
  PROVE  IInv'
<1>1. /\ ptr' = [ptr EXCEPT ![p] = b] /\ ptr[p] = null
      /\ RefCount' = [RefCount EXCEPT ![b] = 1]
      /\ allocated' = allocated \union {b} /\ b \notin allocated
      /\ op' = op /\ dropped' = dropped
      /\ \A t \in Threads : p \notin {op[t].source, op[t].target}
  BY DEF MakeSharedManaged, Free
<1>2. RefCount[b] = 0 /\ Holders(b) = {} /\ Copies(b) = {} /\ dropped[b] = 0
  BY <1>1, ZeroIsUnreferenced DEF IInv, PooledUnreferenced
<1>3. \A t \in Threads : op[t] # Idle => op'[t] = op[t] /\ Block(t)' = Block(t)
  BY <1>1 DEF IInv, TypeOK, Engaged
<1>4. TypeOK' /\ Engaged' /\ Exclusive'
  BY <1>1, <1>3 DEF IInv, TypeOK, Engaged, Exclusive
<1>5. \A c \in Blocks : Copies(c)' = Copies(c)
  BY <1>1, <1>3 DEF Copies
<1>6. Holders(b)' = {p}
  BY <1>1, <1>2 DEF IInv, TypeOK, Holders
<1>7. \A c \in Blocks \ {b} : Holders(c)' = Holders(c)
  BY <1>1 DEF IInv, TypeOK, Holders
<1>8. ReferencesAreExact'
  <2>1. Cardinality(Holders(b)') = 1 /\ Cardinality(Copies(b)') = 0
    BY <1>2, <1>5, <1>6, FS_Singleton, FS_EmptySet
  <2> QED
    BY <2>1, <1>1, <1>2, <1>5, <1>7 DEF IInv, TypeOK, ReferencesAreExact
<1>9. PooledUnreferenced' /\ NoDanglingPointer' /\ NoReferenceFromZero'
  BY <1>1, <1>3 DEF IInv, TypeOK, PooledUnreferenced, NoDanglingPointer, NoReferenceFromZero
<1>10. DestroyedUnreferenced' /\ DestroyedByTheLast'
  BY <1>1, <1>3, <1>7 DEF IInv, TypeOK, Engaged, DestroyedUnreferenced, DestroyedByTheLast
<1> QED
  BY <1>4, <1>8, <1>9, <1>10 DEF IInv

(* Copy and Reset begin: the thread takes its pointers, no reference moves. *)
LEMMA BeginStep ==
  ASSUME IInv, NEW t \in Threads, NEW p \in Pointers, NEW q \in Pointers, NEW to,
         Begin(t, to, p, q),
         \/ to = "load" /\ p # q
         \/ to = "release" /\ p = q
  PROVE  IInv'
<1>1. /\ op[t] = Idle /\ ptr[p] \in Blocks
      /\ op' = [op EXCEPT ![t] = [at |-> to, source |-> p, target |-> q, seen |-> 0]]
      /\ ptr' = ptr /\ RefCount' = RefCount /\ allocated' = allocated /\ dropped' = dropped
      /\ \A u \in Threads : {p, q} \intersect {op[u].source, op[u].target} = {}
  BY DEF Begin, Free, IInv, TypeOK
<1>2. \A u \in Threads \ {t} : op'[u] = op[u]
  BY <1>1 DEF IInv, TypeOK
<1>3. op'[t] = [at |-> to, source |-> p, target |-> q, seen |-> 0]
  BY <1>1 DEF IInv, TypeOK
<1>4. TypeOK'
  BY <1>1 DEF IInv, TypeOK
<1>5. Engaged' /\ Exclusive'
  BY <1>1, <1>2, <1>3 DEF IInv, Engaged, Exclusive
<1>6. \A c \in Blocks : Holders(c)' = Holders(c) /\ Copies(c)' = Copies(c)
  BY <1>1, <1>2, <1>3 DEF Holders, Copies
<1>7. ReferencesAreExact' /\ PooledUnreferenced'
  BY <1>1, <1>6 DEF IInv, ReferencesAreExact, PooledUnreferenced
<1>8. NoDanglingPointer' /\ NoReferenceFromZero' /\ DestroyedUnreferenced'
  BY <1>1, <1>2, <1>3 DEF IInv, NoDanglingPointer, NoReferenceFromZero, DestroyedUnreferenced
<1>9. DestroyedByTheLast'
  BY <1>1, <1>2, <1>3, <1>6 DEF IInv, DestroyedByTheLast, Engaged
<1> QED
  BY <1>4, <1>5, <1>7, <1>8, <1>9 DEF IInv

LEMMA LoadCountStep ==
  ASSUME IInv, NEW t \in Threads, LoadCount(t)
  PROVE  IInv'
<1>1. /\ op[t].at = "load"
      /\ op' = [op EXCEPT ![t].at = "exchange", ![t].seen = RefCount[Block(t)]]
  BY DEF LoadCount
<1>2. ptr' = ptr /\ RefCount' = RefCount /\ allocated' = allocated /\ dropped' = dropped
  BY DEF LoadCount
<1>3. Block(t) \in Blocks /\ RefCount[Block(t)] \in Nat /\ RefCount[Block(t)] > 0
  BY <1>1, SourceHolds, HolderIsSafe DEF IInv, TypeOK
<1>4. \A u \in Threads \ {t} : op'[u] = op[u]
  BY <1>1 DEF IInv, TypeOK
<1>5. /\ op'[t].at = "exchange" /\ op'[t].source = op[t].source
      /\ op'[t].target = op[t].target /\ op'[t].seen = RefCount[Block(t)]
  BY <1>1 DEF IInv, TypeOK
<1>6. TypeOK'
  BY <1>1, <1>2, <1>3 DEF IInv, TypeOK
<1>7. op[t].at = "load"
  BY <1>1
<1>8. Engaged' /\ Exclusive'
  BY <1>2, <1>4, <1>5, <1>7, GoesOn
<1>9. \A c \in Blocks : Holders(c)' = Holders(c) /\ Copies(c)' = Copies(c)
  BY <1>2, <1>4, <1>5, <1>7 DEF Holders, Copies
<1>10. ReferencesAreExact' /\ PooledUnreferenced'
  BY <1>2, <1>9 DEF IInv, ReferencesAreExact, PooledUnreferenced
<1>11. NoDanglingPointer' /\ NoReferenceFromZero' /\ DestroyedUnreferenced'
  BY <1>2, <1>3, <1>4, <1>5, <1>7
     DEF IInv, NoDanglingPointer, NoReferenceFromZero, DestroyedUnreferenced
<1>12. DestroyedByTheLast'
  <2> SUFFICES ASSUME NEW u \in Threads, op'[u].at = "destroy" PROVE
        /\ Block(u)' \in allocated' /\ Holders(Block(u))' = {}
        /\ \A v \in Threads \ {u} : op'[v].at = "destroy" => Block(v)' # Block(u)'
    BY DEF DestroyedByTheLast
  <2>1. u # t /\ op[u].at = "destroy" /\ Block(u) \in Blocks /\ Block(u)' = Block(u)
    BY <1>2, <1>4, <1>5, InOperation
  <2> QED
    BY <2>1, <1>2, <1>4, <1>5, <1>9 DEF IInv, DestroyedByTheLast
<1> QED
  BY <1>6, <1>8, <1>10, <1>11, <1>12 DEF IInv

(* The count is incremented exactly once for each copy. *)
LEMMA CompareExchangeStep ==
  ASSUME IInv, NEW t \in Threads, CompareExchange(t)
  PROVE  IInv'
<1>1. op[t].at = "exchange"
  BY DEF CompareExchange
<1>2. PICK b \in Blocks :
        /\ b = Block(t) /\ op[t].source \in Holders(b)
        /\ RefCount[b] \in Nat /\ RefCount[b] > 0 /\ b \in allocated /\ op[t].seen > 0
  BY <1>1, SourceHolds, HolderIsSafe DEF IInv, NoReferenceFromZero, TypeOK
<1> DEFINE done == op[t].seen = RefCount[b]
<1>3. (op[t].seen \in {0, RefCount[Block(t)]} <=> done) /\ op[t].seen # 0
  BY <1>2 DEF IInv, TypeOK
<1>4. /\ op' = [op EXCEPT ![t].at = IF done THEN "assign" ELSE "exchange", ![t].seen = RefCount[b]]
      /\ RefCount' = IF done THEN [RefCount EXCEPT ![b] = RefCount[b] + 1] ELSE RefCount
  <2>1. CASE done
    BY <2>1, <1>2, <1>3 DEF CompareExchange
  <2>2. CASE ~done
    BY <2>2, <1>2, <1>3 DEF CompareExchange
  <2> QED
    BY <2>1, <2>2
<1>5. ptr' = ptr /\ allocated' = allocated /\ dropped' = dropped
  BY DEF CompareExchange
<1>6. \A u \in Threads \ {t} : op'[u] = op[u]
  BY <1>4 DEF IInv, TypeOK
<1>7. /\ op'[t].at = (IF done THEN "assign" ELSE "exchange")
      /\ op'[t].source = op[t].source /\ op'[t].target = op[t].target
      /\ op'[t].seen = RefCount[b]
  BY <1>4 DEF IInv, TypeOK
<1>8. /\ RefCount'[b] = IF done THEN RefCount[b] + 1 ELSE RefCount[b]
      /\ \A c \in Blocks \ {b} : RefCount'[c] = RefCount[c]
      /\ RefCount' \in [Blocks -> Nat]
  BY <1>2, <1>4 DEF IInv, TypeOK
<1>9. TypeOK'
  <2>1. op' \in [Threads -> [at : {"idle"} \union Copying \union Releasing,
                 source : Pointers \union {null}, target : Pointers \union {null}, seen : Nat]]
    <3>1. PICK to \in {"assign", "exchange"} :
            op' = [op EXCEPT ![t].at = to, ![t].seen = RefCount[b]]
      BY <1>4
    <3>2. [op[t] EXCEPT !.at = to, !.seen = RefCount[b]]
            \in [at : {"idle"} \union Copying \union Releasing,
                source : Pointers \union {null}, target : Pointers \union {null}, seen : Nat]
      <4>1. op[t] \in [at : {"idle"} \union Copying \union Releasing,
                       source : Pointers \union {null}, target : Pointers \union {null}, seen : Nat]
        BY DEF IInv, TypeOK
      <4>2. to \in Copying /\ RefCount[b] \in Nat
        BY <3>1, <1>2
      <4> QED
        BY <4>1, <4>2
    <3>3. op' = [op EXCEPT ![t] = [op[t] EXCEPT !.at = to, !.seen = RefCount[b]]]
      BY <3>1 DEF IInv, TypeOK
    <3> QED
      BY <3>2, <3>3 DEF IInv, TypeOK
  <2> QED
    BY <2>1, <1>5, <1>8 DEF IInv, TypeOK
<1>10. Engaged' /\ Exclusive'
  BY <1>1, <1>5, <1>6, <1>7, GoesOn
<1>11. \A c \in Blocks : Holders(c)' = Holders(c)
  BY <1>1, <1>5, <1>6, <1>7 DEF Holders
<1>12. \A c \in Blocks \ {b} : Copies(c)' = Copies(c)
  BY <1>1, <1>2, <1>5, <1>6, <1>7 DEF Copies
<1>13. /\ Copies(b)' = IF done THEN Copies(b) \union {t} ELSE Copies(b)
       /\ t \notin Copies(b)
  BY <1>1, <1>2, <1>5, <1>6, <1>7 DEF Copies
<1>14. ReferencesAreExact'
  <2>1. Cardinality(Copies(b)') = IF done THEN Cardinality(Copies(b)) + 1 ELSE Cardinality(Copies(b))
    BY <1>13, ReferencesAreFinite, AddedElement
  <2>2. Cardinality(Holders(b)) \in Nat /\ Cardinality(Copies(b)) \in Nat /\ dropped[b] \in Nat
    BY <1>2, ReferencesAreFinite DEF IInv, TypeOK
  <2>3. RefCount'[b] = Cardinality(Holders(b)') + Cardinality(Copies(b)') + dropped'[b]
    BY <2>1, <2>2, <1>2, <1>5, <1>8, <1>11 DEF IInv, ReferencesAreExact
  <2>4. \A c \in Blocks \ {b} :
          RefCount'[c] = Cardinality(Holders(c)') + Cardinality(Copies(c)') + dropped'[c]
    BY <1>5, <1>8, <1>11, <1>12 DEF IInv, ReferencesAreExact
  <2> QED
    BY <2>3, <2>4 DEF ReferencesAreExact
<1>15. PooledUnreferenced' /\ NoReferenceFromZero' /\ NoDanglingPointer'
  BY <1>1, <1>2, <1>5, <1>6, <1>7, <1>8
     DEF IInv, PooledUnreferenced, NoDanglingPointer, NoReferenceFromZero
<1>16. \A u \in Threads : op'[u].at = "destroy" =>
         u # t /\ op[u].at = "destroy" /\ Block(u) \in Blocks \ {b} /\ Block(u)' = Block(u)
  BY <1>1, <1>2, <1>5, <1>6, <1>7, InOperation DEF IInv, DestroyedUnreferenced
<1>17. DestroyedUnreferenced' /\ DestroyedByTheLast'
  BY <1>5, <1>8, <1>11, <1>16 DEF IInv, DestroyedUnreferenced, DestroyedByTheLast
<1> QED
  BY <1>9, <1>10, <1>14, <1>15, <1>17 DEF IInv

(* The new pointer takes over the reference that was counted for it, and   *)
(* loses the one it had.                                                   *)
LEMMA AssignStep ==
  ASSUME IInv, NEW t \in Threads, Assign(t)
  PROVE  IInv'
<1>1. op[t].at = "assign"
  BY DEF Assign
<1>2. PICK b \in Blocks, p \in Pointers, q \in Pointers :
        /\ b = Block(t) /\ p = op[t].source /\ q = op[t].target /\ p # q
        /\ ptr[p] = b /\ p \in Holders(b) /\ b \in allocated /\ RefCount[b] > 0
  BY <1>1, InOperation, SourceHolds, HolderIsSafe
<1>3. PICK y \in Blocks \union {null} : y = ptr[q]
  BY DEF IInv, TypeOK
<1>4. /\ ptr' = [ptr EXCEPT ![q] = b] /\ op' = [op EXCEPT ![t] = Idle]
      /\ dropped' = [c \in Blocks |-> IF c = y THEN dropped[c] + 1 ELSE dropped[c]]
      /\ RefCount' = RefCount /\ allocated' = allocated
  BY <1>2, <1>3 DEF Assign, Drop
<1>5. /\ ptr'[q] = b /\ \A r \in Pointers \ {q} : ptr'[r] = ptr[r]
      /\ op'[t] = Idle /\ \A u \in Threads \ {t} : op'[u] = op[u]
      /\ \A c \in Blocks : dropped'[c] = IF c = y THEN dropped[c] + 1 ELSE dropped[c]
  BY <1>4 DEF IInv, TypeOK
<1>6. \A u \in Threads \ {t} : q \notin {op[u].source, op[u].target}
  BY <1>2 DEF IInv, Exclusive
<1>7. TypeOK'
  BY <1>4 DEF IInv, TypeOK
<1>8. \A u \in Threads \ {t} : op[u] # Idle => Block(u)' = Block(u)
  BY <1>5, <1>6 DEF IInv, Engaged
<1>9. Engaged'
  BY <1>5, <1>8 DEF IInv, Engaged
<1>10. Exclusive'
  BY <1>5 DEF IInv, Exclusive
<1>11. \A c \in Blocks : Copies(c)' = Copies(c) \ {t}
  <2>1. \A u \in Threads \ {t} : op[u].at = "assign" => op[u] # Idle
    OBVIOUS
  <2> QED
    BY <1>1, <1>5, <1>8, <2>1 DEF Copies
<1>12. t \in Copies(b) /\ \A c \in Blocks \ {b} : t \notin Copies(c)
  BY <1>1, <1>2 DEF Copies
<1>13. \A c \in Blocks, r \in Pointers \ {q} : r \in Holders(c)' <=> r \in Holders(c)
  BY <1>1, <1>5 DEF Holders
<1>14. \A c \in Blocks : (q \in Holders(c) <=> c = y) /\ (q \in Holders(c)' <=> c = b)
  BY <1>1, <1>2, <1>3, <1>5, <1>6 DEF Holders
<1>15. \A c \in Blocks : Holders(c) \subseteq Pointers /\ Holders(c)' \subseteq Pointers
  BY DEF Holders
<1>16. ReferencesAreExact'
  <2> SUFFICES ASSUME NEW c \in Blocks
               PROVE RefCount'[c] = Cardinality(Holders(c)') + Cardinality(Copies(c)') + dropped'[c]
    BY DEF ReferencesAreExact
  <2>1. /\ Cardinality(Holders(c)) \in Nat /\ Cardinality(Copies(c)) \in Nat /\ dropped[c] \in Nat
        /\ RefCount[c] = Cardinality(Holders(c)) + Cardinality(Copies(c)) + dropped[c]
        /\ IsFiniteSet(Holders(c)) /\ IsFiniteSet(Copies(c))
    BY ReferencesAreFinite DEF IInv, TypeOK, ReferencesAreExact
  <2>2. Cardinality(Copies(c)') = IF c = b THEN Cardinality(Copies(c)) - 1 ELSE Cardinality(Copies(c))
    <3>1. c # b => Copies(c) \ {t} = Copies(c)
      BY <1>12
    <3>2. c = b => Cardinality(Copies(c) \ {t}) = Cardinality(Copies(c)) - 1
      BY <1>12, <2>1, RemovedElement
    <3> QED
      BY <3>1, <3>2, <1>11
  <2>3. CASE c = b /\ c = y
    <3>1. Holders(c)' = Holders(c)
      BY <2>3, <1>13, <1>14, <1>15
    <3> QED
      BY <2>1, <2>2, <2>3, <3>1, <1>4, <1>5
  <2>4. CASE c = b /\ c # y
    <3>1. Holders(c)' = Holders(c) \union {q} /\ q \notin Holders(c)
      BY <2>4, <1>13, <1>14, <1>15
    <3>2. Cardinality(Holders(c)') = Cardinality(Holders(c)) + 1
      BY <3>1, <2>1, AddedElement
    <3> QED
      BY <2>1, <2>2, <2>4, <3>2, <1>4, <1>5
  <2>5. CASE c # b /\ c = y
    <3>1. Holders(c)' = Holders(c) \ {q} /\ q \in Holders(c)
      BY <2>5, <1>13, <1>14, <1>15
    <3>2. Cardinality(Holders(c)') = Cardinality(Holders(c)) - 1
      BY <3>1, <2>1, RemovedElement
    <3> QED
      BY <2>1, <2>2, <2>5, <3>2, <1>4, <1>5
  <2>6. CASE c # b /\ c # y
    <3>1. q \notin Holders(c) /\ q \notin Holders(c)'
      BY <2>6, <1>14
    <3>2. \A r \in Pointers : r \in Holders(c)' <=> r \in Holders(c)
      BY <3>1, <1>13
    <3>3. Holders(c)' = Holders(c)
      BY <3>2, <1>15
    <3> QED
      BY <2>1, <2>2, <2>6, <3>3, <1>4, <1>5
  <2> QED
    BY <2>3, <2>4, <2>5, <2>6
<1>17. PooledUnreferenced' /\ NoReferenceFromZero'
  BY <1>4, <1>5 DEF IInv, PooledUnreferenced, NoReferenceFromZero
<1>18. NoDanglingPointer'
  BY <1>1, <1>2, <1>4, <1>5 DEF IInv, NoDanglingPointer
<1>19. \A u \in Threads : op'[u].at = "destroy" =>
         /\ u # t /\ op[u].at = "destroy" /\ Block(u)' = Block(u)
         /\ Block(u) \in Blocks /\ Holders(Block(u)) = {}
  BY <1>5, <1>8, InOperation DEF IInv, DestroyedByTheLast
<1>20. \A c \in Blocks : Holders(c) = {} => Holders(c)' = {}
  BY <1>2, <1>13, <1>14, <1>15
<1>21. DestroyedUnreferenced'
  BY <1>4, <1>19 DEF IInv, DestroyedUnreferenced
<1>22. DestroyedByTheLast'
  <2> SUFFICES ASSUME NEW u \in Threads, op'[u].at = "destroy" PROVE
        /\ Block(u)' \in allocated' /\ Holders(Block(u))' = {}
        /\ \A v \in Threads \ {u} : op'[v].at = "destroy" => Block(v)' # Block(u)'
    BY DEF DestroyedByTheLast
  <2>1. PICK c \in Blocks : c = Block(u) /\ c = Block(u)' /\ Holders(c)' = {} /\ op[u].at = "destroy"
    BY <1>19, <1>20
  <2>2. c \in allocated' /\ \A v \in Threads \ {u} : op'[v].at = "destroy" => Block(v)' # c
    BY <2>1, <1>4, <1>19 DEF IInv, DestroyedByTheLast
  <2> QED
    BY <2>1, <2>2
<1> QED
  BY <1>7, <1>9, <1>10, <1>16, <1>17, <1>18, <1>21, <1>22 DEF IInv

(* The reference that is given up is one that was counted; the count comes *)
(* to zero with the last.                                                  *)
LEMMA ReleaseReferenceStep ==
  ASSUME IInv, NEW t \in Threads, ReleaseReference(t)
  PROVE  IInv'
<1>1. op[t].at = "release"
  BY DEF ReleaseReference, ThreadAt
<1>2. PICK b \in Blocks, p \in Pointers :
        /\ b = Block(t) /\ p = op[t].source
        /\ p \in Holders(b) /\ b \in allocated /\ RefCount[b] > 0 /\ RefCount[b] \in Nat
  BY <1>1, InOperation, SourceHolds, HolderIsSafe DEF IInv, TypeOK
<1>3. PICK to \in {"destroy", "clear"} :
        to = (IF RefCount[b] = 1 THEN "destroy" ELSE "clear") /\ op' = [op EXCEPT ![t].at = to]
  BY <1>2 DEF ReleaseReference, ThreadAt
<1>4. /\ RefCount' = [RefCount EXCEPT ![b] = RefCount[b] - 1]
      /\ ptr' = ptr /\ allocated' = allocated /\ dropped' = dropped
  BY <1>2 DEF ReleaseReference
<1>5. /\ op'[t].at = to /\ op'[t].source = p /\ op'[t].target = op[t].target
      /\ op'[t].seen = op[t].seen /\ \A u \in Threads \ {t} : op'[u] = op[u]
  BY <1>2, <1>3 DEF IInv, TypeOK
<1>6. RefCount'[b] = RefCount[b] - 1 /\ \A c \in Blocks \ {b} : RefCount'[c] = RefCount[c]
  BY <1>4 DEF IInv, TypeOK
<1>7. TypeOK'
  BY <1>2, <1>3, <1>4 DEF IInv, TypeOK
<1>8. Engaged' /\ Exclusive'
  BY <1>1, <1>2, <1>3, <1>4, <1>5, GoesOn
<1>9. \A u \in Threads \ {t} : op[u].source # p
  BY <1>2 DEF IInv, Exclusive
<1>10. \A c \in Blocks : Copies(c)' = Copies(c)
  BY <1>1, <1>2, <1>3, <1>4, <1>5 DEF Copies
<1>11. \A c \in Blocks : Holders(c)' = Holders(c) \ {p}
  BY <1>1, <1>2, <1>3, <1>4, <1>5, <1>9 DEF Holders
<1>12. \A c \in Blocks \ {b} : p \notin Holders(c)
  BY <1>2 DEF Holders
<1>13. Cardinality(Holders(b)) \in Nat /\ Cardinality(Holders(b)') = Cardinality(Holders(b)) - 1
  BY <1>2, <1>11, ReferencesAreFinite, RemovedElement
<1>14. ReferencesAreExact'
  <2>1. RefCount'[b] = Cardinality(Holders(b)') + Cardinality(Copies(b)') + dropped'[b]
    <3>1. /\ Cardinality(Copies(b)) \in Nat /\ dropped[b] \in Nat
          /\ RefCount[b] = Cardinality(Holders(b)) + Cardinality(Copies(b)) + dropped[b]
      BY ReferencesAreFinite DEF IInv, TypeOK, ReferencesAreExact
    <3> QED
      BY <3>1, <1>4, <1>6, <1>10, <1>13
  <2>2. \A c \in Blocks \ {b} : Holders(c)' = Holders(c)
    BY <1>11, <1>12
  <2> QED
    BY <2>1, <2>2, <1>4, <1>6, <1>10 DEF IInv, ReferencesAreExact
<1>15. PooledUnreferenced' /\ NoReferenceFromZero'
  BY <1>2, <1>3, <1>4, <1>5, <1>6 DEF IInv, PooledUnreferenced, NoReferenceFromZero
<1>16. NoDanglingPointer'
  BY <1>1, <1>2, <1>4, <1>5 DEF IInv, NoDanglingPointer
<1>17. \A u \in Threads \ {t} : op'[u].at = "destroy" =>
         /\ op[u].at = "destroy" /\ Block(u)' = Block(u) /\ Block(u) \in Blocks \ {b}
         /\ RefCount[Block(u)] = 0 /\ Block(u) \in allocated /\ Holders(Block(u)) = {}
  BY <1>2, <1>4, <1>5, InOperation DEF IInv, DestroyedByTheLast, DestroyedUnreferenced
<1>18. op'[t].at = "destroy" => RefCount'[b] = 0 /\ Holders(b)' = {}
  <2> SUFFICES ASSUME op'[t].at = "destroy" PROVE RefCount'[b] = 0 /\ Holders(b)' = {}
    OBVIOUS
  <2>1. RefCount[b] = 1 /\ RefCount'[b] = 0
    BY <1>3, <1>5, <1>6
  <2>2. Cardinality(Copies(b)) \in Nat /\ dropped[b] \in Nat
        /\ RefCount[b] = Cardinality(Holders(b)) + Cardinality(Copies(b)) + dropped[b]
    BY ReferencesAreFinite DEF IInv, TypeOK, ReferencesAreExact
  <2>3. Cardinality(Holders(b) \ {p}) \in Nat /\ IsFiniteSet(Holders(b) \ {p})
    BY ReferencesAreFinite, FS_RemoveElement, FS_CardinalityType
  <2>4. Cardinality(Holders(b) \ {p}) = 0
    <3>1. Cardinality(Holders(b) \ {p}) = Cardinality(Holders(b)) - 1
      BY <1>2, ReferencesAreFinite, RemovedElement
    <3> QED
      BY <3>1, <2>1, <2>2, <2>3, <1>13
  <2> QED
    BY <2>1, <2>3, <2>4, <1>11, FS_EmptySet
<1>19. Block(t)' = b
  BY <1>2, <1>4, <1>5
<1>20. DestroyedUnreferenced'
  BY <1>6, <1>17, <1>18, <1>19 DEF DestroyedUnreferenced
<1>21. DestroyedByTheLast'
  <2> SUFFICES ASSUME NEW u \in Threads, op'[u].at = "destroy" PROVE
        /\ Block(u)' \in allocated' /\ Holders(Block(u))' = {}
        /\ \A v \in Threads \ {u} : op'[v].at = "destroy" => Block(v)' # Block(u)'
    BY DEF DestroyedByTheLast
  <2>1. PICK c \in Blocks : c = Block(u)' /\ c \in allocated /\ Holders(c)' = {}
    BY <1>2, <1>11, <1>17, <1>18, <1>19
  <2>2. \A v \in Threads \ {u} : op'[v].at = "destroy" => Block(v)' # c
    BY <2>1, <1>17, <1>19 DEF IInv, DestroyedByTheLast
  <2> QED
    BY <2>1, <2>2, <1>4
<1> QED
  BY <1>7, <1>8, <1>14, <1>15, <1>16, <1>20, <1>21 DEF IInv

(* The block goes back to its pool: who still points to it is about to     *)
(* clear its pointer.                                                      *)
LEMMA DestroyStep ==
  ASSUME IInv, NEW t \in Threads, Destroy(t)
  PROVE  IInv'
<1>1. op[t].at = "destroy"
  BY DEF Destroy, ThreadAt
<1>2. PICK b \in Blocks, p \in Pointers :
        /\ b = Block(t) /\ p = op[t].source /\ RefCount[b] = 0 /\ Holders(b) = {}
        /\ b \in allocated
        /\ \A u \in Threads \ {t} : op[u].at = "destroy" => Block(u) # b
  BY <1>1, InOperation DEF IInv, DestroyedUnreferenced, DestroyedByTheLast
<1>3. /\ op' = [op EXCEPT ![t].at = "clear"] /\ allocated' = allocated \ {b}
      /\ ptr' = ptr /\ RefCount' = RefCount /\ dropped' = dropped
  BY <1>2 DEF Destroy, ThreadAt
<1>4. /\ op'[t].at = "clear" /\ op'[t].source = p /\ op'[t].target = op[t].target
      /\ op'[t].seen = op[t].seen /\ \A u \in Threads \ {t} : op'[u] = op[u]
  BY <1>2, <1>3 DEF IInv, TypeOK
<1>5. TypeOK'
  BY <1>3 DEF IInv, TypeOK
<1>6. Engaged' /\ Exclusive'
  BY <1>1, <1>2, <1>3, <1>4, GoesOn
<1>7. \A c \in Blocks : Holders(c)' = Holders(c) /\ Copies(c)' = Copies(c)
  BY <1>1, <1>2, <1>3, <1>4 DEF Holders, Copies
<1>8. ReferencesAreExact'
  BY <1>3, <1>7 DEF IInv, ReferencesAreExact
<1>9. PooledUnreferenced' /\ NoReferenceFromZero'
  BY <1>2, <1>3, <1>4 DEF IInv, PooledUnreferenced, NoReferenceFromZero
<1>10. NoDanglingPointer'
  <2> SUFFICES ASSUME NEW r \in Pointers, ptr'[r] \notin allocated' \union {null}
               PROVE  \E u \in Threads : op'[u].source = r /\ op'[u].at = "clear"
    BY DEF NoDanglingPointer
  <2>1. CASE ptr[r] = b
    <3>1. PICK u \in Threads : op[u].source = r /\ op[u].at \in {"destroy", "clear"}
      BY <2>1, <1>2 DEF Holders
    <3> QED
      BY <2>1, <3>1, <1>2, <1>4
  <2>2. CASE ptr[r] # b
    <3>1. PICK u \in Threads : op[u].source = r /\ op[u].at = "clear"
      BY <2>2, <1>3 DEF IInv, NoDanglingPointer
    <3> QED
      BY <3>1, <1>1, <1>4
  <2> QED
    BY <2>1, <2>2
<1>11. \A u \in Threads : op'[u].at = "destroy" =>
         /\ u # t /\ op[u].at = "destroy" /\ Block(u)' = Block(u) /\ Block(u) \in Blocks \ {b}
         /\ RefCount[Block(u)] = 0 /\ Block(u) \in allocated /\ Holders(Block(u)) = {}
  BY <1>2, <1>3, <1>4, InOperation DEF IInv, DestroyedByTheLast, DestroyedUnreferenced
<1>12. DestroyedUnreferenced'
  BY <1>3, <1>11 DEF DestroyedUnreferenced
<1>13. DestroyedByTheLast'
  BY <1>3, <1>7, <1>11 DEF IInv, DestroyedByTheLast
<1> QED
  BY <1>5, <1>6, <1>8, <1>9, <1>10, <1>12, <1>13 DEF IInv

LEMMA ClearStep ==
  ASSUME IInv, NEW t \in Threads, Clear(t)
  PROVE  IInv'
<1>1. op[t].at = "clear"
  BY DEF Clear
<1>2. PICK p \in Pointers : p = op[t].source /\ op[t].target = p
  BY <1>1, InOperation
<1>3. /\ op' = [op EXCEPT ![t] = Idle] /\ ptr' = [ptr EXCEPT ![p] = null]
      /\ allocated' = allocated /\ RefCount' = RefCount /\ dropped' = dropped
  BY <1>2 DEF Clear
<1>4. /\ op'[t] = Idle /\ \A u \in Threads \ {t} : op'[u] = op[u]
      /\ ptr'[p] = null /\ \A r \in Pointers \ {p} : ptr'[r] = ptr[r]
  BY <1>3 DEF IInv, TypeOK
<1>5. \A u \in Threads \ {t} : p \notin {op[u].source, op[u].target}
  BY <1>2 DEF IInv, Exclusive
<1>6. TypeOK'
  BY <1>3 DEF IInv, TypeOK
<1>7. \A u \in Threads \ {t} : op[u] # Idle => Block(u)' = Block(u)
  BY <1>4, <1>5 DEF IInv, Engaged
<1>8. Engaged'
  BY <1>4, <1>7 DEF IInv, Engaged
<1>9. Exclusive'
  BY <1>4 DEF IInv, Exclusive
<1>10. \A c \in Blocks : Copies(c)' = Copies(c)
  <2>1. \A u \in Threads \ {t} : op[u].at = "assign" => op[u] # Idle
    OBVIOUS
  <2> QED
    BY <1>1, <1>4, <1>7, <2>1 DEF Copies
<1>11. \A c \in Blocks : Holders(c)' = Holders(c)
  <2> SUFFICES ASSUME NEW c \in Blocks PROVE Holders(c)' = Holders(c)
    OBVIOUS
  <2>1. p \notin Holders(c) /\ p \notin Holders(c)'
    BY <1>1, <1>2, <1>4 DEF Holders
  <2>2. \A r \in Pointers \ {p} : r \in Holders(c)' <=> r \in Holders(c)
    BY <1>2, <1>4 DEF Holders
  <2>3. Holders(c) \subseteq Pointers /\ Holders(c)' \subseteq Pointers
    BY DEF Holders
  <2>4. \A r \in Pointers : r \in Holders(c)' <=> r \in Holders(c)
    BY <2>1, <2>2
  <2> QED
    BY <2>3, <2>4
<1>12. ReferencesAreExact' /\ PooledUnreferenced'
  BY <1>3, <1>10, <1>11 DEF IInv, ReferencesAreExact, PooledUnreferenced
<1>13. NoReferenceFromZero' /\ NoDanglingPointer'
  BY <1>2, <1>3, <1>4 DEF IInv, NoReferenceFromZero, NoDanglingPointer
<1>14. \A u \in Threads : op'[u].at = "destroy" =>
         /\ u # t /\ op[u].at = "destroy" /\ Block(u)' = Block(u) /\ Block(u) \in Blocks
         /\ RefCount[Block(u)] = 0 /\ Block(u) \in allocated /\ Holders(Block(u)) = {}
  BY <1>4, <1>7, InOperation DEF IInv, DestroyedByTheLast, DestroyedUnreferenced
<1>15. DestroyedUnreferenced'
  BY <1>3, <1>14 DEF DestroyedUnreferenced
<1>16. DestroyedByTheLast'
  <2> SUFFICES ASSUME NEW u \in Threads, op'[u].at = "destroy" PROVE
        /\ Block(u)' \in allocated' /\ Holders(Block(u))' = {}
        /\ \A v \in Threads \ {u} : op'[v].at = "destroy" => Block(v)' # Block(u)'
    BY DEF DestroyedByTheLast
  <2>1. PICK c \in Blocks :
          c = Block(u)' /\ c = Block(u) /\ op[u].at = "destroy" /\ Holders(c)' = {}
    BY <1>11, <1>14
  <2>2. c \in allocated' /\ \A v \in Threads \ {u} : op'[v].at = "destroy" => Block(v)' # c
    BY <2>1, <1>3, <1>14 DEF IInv, DestroyedByTheLast
  <2> QED
    BY <2>1, <2>2
<1> QED
  BY <1>6, <1>8, <1>9, <1>12, <1>13, <1>15, <1>16 DEF IInv

(* A reference moves with its pointer; the one that the target had is lost. *)
LEMMA MoveStep ==
  ASSUME IInv, NEW p \in Pointers, NEW q \in Pointers, Move(p, q)
  PROVE  IInv'
<1>1. PICK x \in Blocks \union {null}, y \in Blocks \union {null} : x = ptr[p] /\ y = ptr[q]
  BY DEF IInv, TypeOK
<1>2. /\ ptr' = [ptr EXCEPT ![q] = x, ![p] = null]
      /\ op' = op /\ allocated' = allocated /\ RefCount' = RefCount
      /\ dropped' = [c \in Blocks |-> IF c = y THEN dropped[c] + 1 ELSE dropped[c]]
  BY <1>1 DEF Move, Drop
<1>3. /\ p # q /\ \A u \in Threads : {p, q} \intersect {op[u].source, op[u].target} = {}
      /\ ptr'[p] = null /\ ptr'[q] = x /\ \A r \in Pointers \ {p, q} : ptr'[r] = ptr[r]
      /\ \A c \in Blocks : dropped'[c] = IF c = y THEN dropped[c] + 1 ELSE dropped[c]
  BY <1>2 DEF Move, Free, IInv, TypeOK
<1>4. TypeOK'
  BY <1>2 DEF IInv, TypeOK
<1>5. \A u \in Threads : op[u] # Idle => Block(u)' = Block(u)
  BY <1>2, <1>3 DEF IInv, Engaged
<1>6. Engaged' /\ Exclusive'
  BY <1>2, <1>5 DEF IInv, Engaged, Exclusive
<1>7. \A c \in Blocks : Copies(c)' = Copies(c)
  <2>1. \A u \in Threads : op[u].at = "assign" => op[u] # Idle
    OBVIOUS
  <2> QED
    BY <1>2, <1>5, <2>1 DEF Copies
<1>8. /\ \A c \in Blocks : p \in Holders(c) <=> c = x
      /\ \A c \in Blocks : q \in Holders(c) <=> c = y
      /\ \A c \in Blocks : p \notin Holders(c)'
      /\ \A c \in Blocks : q \in Holders(c)' <=> c = x
  BY <1>1, <1>2, <1>3 DEF Holders
<1>9. \A c \in Blocks, r \in Pointers \ {p, q} : r \in Holders(c)' <=> r \in Holders(c)
  BY <1>2, <1>3 DEF Holders
<1>10. \A c \in Blocks : Holders(c) \subseteq Pointers /\ Holders(c)' \subseteq Pointers
  BY DEF Holders
<1>11. \A c \in Blocks :
         /\ c = x /\ c = y => Holders(c)' = Holders(c) \ {p}
         /\ c = x /\ c # y => Holders(c)' = (Holders(c) \ {p}) \union {q}
         /\ c # x /\ c = y => Holders(c)' = Holders(c) \ {q}
         /\ c # x /\ c # y => Holders(c)' = Holders(c)
  <2> SUFFICES ASSUME NEW c \in Blocks PROVE
         /\ c = x /\ c = y => Holders(c)' = Holders(c) \ {p}
         /\ c = x /\ c # y => Holders(c)' = (Holders(c) \ {p}) \union {q}
         /\ c # x /\ c = y => Holders(c)' = Holders(c) \ {q}
         /\ c # x /\ c # y => Holders(c)' = Holders(c)
    OBVIOUS
  <2>1. Holders(c) \subseteq Pointers /\ Holders(c)' \subseteq Pointers
    BY <1>10
  <2>2. /\ p \in Holders(c) <=> c = x
        /\ q \in Holders(c) <=> c = y
        /\ p \notin Holders(c)'
        /\ q \in Holders(c)' <=> c = x
        /\ \A r \in Pointers \ {p, q} : r \in Holders(c)' <=> r \in Holders(c)
    BY <1>8, <1>9
  <2> QED
    BY <2>1, <2>2, <1>3
<1>12. ReferencesAreExact'
  <2> SUFFICES ASSUME NEW c \in Blocks
               PROVE RefCount'[c] = Cardinality(Holders(c)') + Cardinality(Copies(c)') + dropped'[c]
    BY DEF ReferencesAreExact
  <2>1. /\ Cardinality(Holders(c)) \in Nat /\ Cardinality(Copies(c)) \in Nat /\ dropped[c] \in Nat
        /\ RefCount[c] = Cardinality(Holders(c)) + Cardinality(Copies(c)) + dropped[c]
        /\ IsFiniteSet(Holders(c))
    BY ReferencesAreFinite DEF IInv, TypeOK, ReferencesAreExact
  <2>2. Cardinality(Holders(c)') + dropped'[c] = Cardinality(Holders(c)) + dropped[c]
    <3>1. CASE c = x /\ c = y
      <4>1. Cardinality(Holders(c)') = Cardinality(Holders(c)) - 1
        BY <3>1, <1>8, <1>11, <2>1, RemovedElement
      <4> QED
        BY <4>1, <3>1, <2>1, <1>3
    <3>2. CASE c = x /\ c # y
      <4>1. Cardinality(Holders(c) \ {p}) = Cardinality(Holders(c)) - 1
        BY <3>2, <1>8, <2>1, RemovedElement
      <4>2. IsFiniteSet(Holders(c) \ {p}) /\ q \notin Holders(c) \ {p}
        BY <3>2, <1>8, <2>1, FS_RemoveElement
      <4>3. Cardinality(Holders(c)') = Cardinality(Holders(c) \ {p}) + 1
        BY <4>2, <3>2, <1>11, AddedElement
      <4> QED
        BY <4>1, <4>3, <3>2, <2>1, <1>3
    <3>3. CASE c # x /\ c = y
      <4>1. Cardinality(Holders(c)') = Cardinality(Holders(c)) - 1
        BY <3>3, <1>8, <1>11, <2>1, RemovedElement
      <4> QED
        BY <4>1, <3>3, <2>1, <1>3
    <3>4. CASE c # x /\ c # y
      BY <3>4, <2>1, <1>3, <1>11
    <3> QED
      BY <3>1, <3>2, <3>3, <3>4
  <2>3. Cardinality(Holders(c)') \in Nat /\ dropped'[c] \in Nat
    <3>1. IsFiniteSet(Holders(c)')
      BY <1>10, FS_Subset, PointersAssumption
    <3> QED
      BY <3>1, FS_CardinalityType, <1>4 DEF TypeOK
  <2> QED
    BY <2>1, <2>2, <2>3, <1>2, <1>7
<1>13. PooledUnreferenced' /\ NoReferenceFromZero'
  BY <1>2 DEF IInv, PooledUnreferenced, NoReferenceFromZero
<1>14. NoDanglingPointer'
  BY <1>1, <1>2, <1>3 DEF IInv, NoDanglingPointer
<1>15. \A u \in Threads : op[u].at = "destroy" =>
         /\ Block(u)' = Block(u) /\ Block(u) \in Blocks
         /\ RefCount[Block(u)] = 0 /\ Block(u) \in allocated /\ Holders(Block(u)) = {}
  BY <1>5, InOperation DEF IInv, DestroyedByTheLast, DestroyedUnreferenced
<1>16. DestroyedUnreferenced'
  BY <1>2, <1>15 DEF DestroyedUnreferenced
<1>17. \A c \in Blocks : Holders(c) = {} => Holders(c)' = {}
  BY <1>8, <1>11
<1>18. DestroyedByTheLast'
  <2> SUFFICES ASSUME NEW u \in Threads, op'[u].at = "destroy" PROVE
        /\ Block(u)' \in allocated' /\ Holders(Block(u))' = {}
        /\ \A v \in Threads \ {u} : op'[v].at = "destroy" => Block(v)' # Block(u)'
    BY DEF DestroyedByTheLast
  <2>1. PICK c \in Blocks :
          c = Block(u)' /\ c = Block(u) /\ op[u].at = "destroy" /\ Holders(c)' = {}
    BY <1>2, <1>15, <1>17
  <2>2. c \in allocated' /\ \A v \in Threads \ {u} : op'[v].at = "destroy" => Block(v)' # c
    BY <2>1, <1>2, <1>15 DEF IInv, DestroyedByTheLast
  <2> QED
    BY <2>1, <2>2
<1> QED
  BY <1>4, <1>6, <1>12, <1>13, <1>14, <1>16, <1>18 DEF IInv

LEMMA StutteringStep ==
  ASSUME IInv, UNCHANGED vars
  PROVE  IInv'
<1> USE DEF vars
<1>1. \A c : Holders(c)' = Holders(c) /\ Copies(c)' = Copies(c)
  BY DEF Holders, Copies
<1> QED
  BY <1>1 DEF IInv, TypeOK, Engaged, Exclusive, ReferencesAreExact, PooledUnreferenced,
     DestroyedUnreferenced, NoDanglingPointer, DestroyedByTheLast, NoReferenceFromZero

-----------------------------------------------------------------------------
(* The conjunction IInv holds in every reachable state.  MakeSharedManaged,*)
(* Move, Copy, AddReference, ReleaseReference, Destroy and Clear preserve  *)
(* it, in any interleaving of the threads.                                 *)
THEOREM Invariance == Spec => []IInv
<1>1. IInv /\ [Next]_vars => IInv'
  <2> SUFFICES ASSUME IInv, [Next]_vars PROVE IInv'
    OBVIOUS
  <2>1. ASSUME NEW p \in Pointers, NEW b \in Blocks, MakeSharedManaged(p, b) PROVE IInv'
    BY <2>1, MakeStep
  <2>2. ASSUME NEW p \in Pointers, NEW q \in Pointers, Move(p, q) PROVE IInv'
    BY <2>2, MoveStep
  <2>3. ASSUME NEW t \in Threads, NEW p \in Pointers, NEW q \in Pointers, Copy(t, p, q) PROVE IInv'
    BY <2>3, BeginStep DEF Copy
  <2>4. ASSUME NEW t \in Threads, NEW p \in Pointers, Reset(t, p) PROVE IInv'
    BY <2>4, BeginStep DEF Reset
  <2>5. ASSUME NEW t \in Threads, LoadCount(t) PROVE IInv'
    BY <2>5, LoadCountStep
  <2>6. ASSUME NEW t \in Threads, CompareExchange(t) PROVE IInv'
    BY <2>6, CompareExchangeStep
  <2>7. ASSUME NEW t \in Threads, Assign(t) PROVE IInv'
    BY <2>7, AssignStep
  <2>8. ASSUME NEW t \in Threads, ReleaseReference(t) PROVE IInv'
    BY <2>8, ReleaseReferenceStep
  <2>9. ASSUME NEW t \in Threads, Destroy(t) PROVE IInv'
    BY <2>9, DestroyStep
  <2>10. ASSUME NEW t \in Threads, Clear(t) PROVE IInv'
    BY <2>10, ClearStep
  <2>11. CASE UNCHANGED vars
    BY <2>11, StutteringStep
  <2> QED
    BY <2>1, <2>2, <2>3, <2>4, <2>5, <2>6, <2>7, <2>8, <2>9, <2>10, <2>11 DEF Next
<1> QED
  BY <1>1, InitEstablishesIInv, PTL DEF Spec

(* However AddReference and ReleaseReference interleave, the count of a    *)
(* block is the number of its references and of those that assignments     *)
(* over a pointer have lost.                                               *)
THEOREM ReferenceCountsAreExact == Spec => []ReferencesAreExact
<1>1. IInv => ReferencesAreExact
  BY DEF IInv
<1> QED
  BY <1>1, Invariance, PTL

(* No pointer leads to a block that is back in its pool, but the one whose *)
(* owner has just released it and is about to clear it.                    *)
THEOREM PointersDoNotDangle == Spec => []NoDanglingPointer
<1>1. IInv => NoDanglingPointer
  BY DEF IInv
<1> QED
  BY <1>1, Invariance, PTL

(* A block is destroyed by one thread, once, when no pointer holds it.     *)
THEOREM TheLastDestroys == Spec => []DestroyedByTheLast
<1>1. IInv => DestroyedByTheLast
  BY DEF IInv
<1> QED
  BY <1>1, Invariance, PTL

(* AddReference never reads a count of zero, after which it would give up  *)
(* and the caller assign the pointer all the same.                         *)
THEOREM AddedToALivingBlock == Spec => []NoReferenceFromZero
<1>1. IInv => NoReferenceFromZero
  BY DEF IInv
<1> QED
  BY <1>1, Invariance, PTL
=============================================================================
