-------------------------- MODULE TObjectPoolProofs --------------------------
(***************************************************************************)
(* For any number of threads and blocks and any ring size, with the spin   *)
(* lock and without: TObjectPool keeps every block in one place, and its   *)
(* four totals account for every block.  With the lock a ring that was     *)
(* filled spares the system as long as the program is not greedy.          *)
(***************************************************************************)
EXTENDS TObjectPool, FiniteSetTheorems, TLAPS

USE NullAssumption DEF Pcs

-----------------------------------------------------------------------------
(* OneOwner, spelled out for the kinds of places. *)
Owned ==
  /\ \A b \in Blocks :
       \/ b \in inUse \union os
       \/ \E i \in Slots : Pool[i] = b
       \/ \E t \in Threads : b \in {TakenOut(t), ToPutIn(t)}
  /\ inUse \intersect os = {}
  /\ \A i \in Slots : Pool[i] \notin inUse \union os
  /\ \A t \in Threads : TakenOut(t) \notin inUse \union os /\ ToPutIn(t) \notin inUse \union os
  /\ \A i, j \in Slots : Pool[i] = Pool[j] /\ Pool[i] # NULL => i = j
  /\ \A i \in Slots, t \in Threads : Pool[i] # NULL => Pool[i] \notin {TakenOut(t), ToPutIn(t)}
  /\ \A t, u \in Threads :
       /\ TakenOut(t) = TakenOut(u) /\ TakenOut(t) # NULL => t = u
       /\ ToPutIn(t) = ToPutIn(u) /\ ToPutIn(t) # NULL => t = u
       /\ TakenOut(t) = ToPutIn(u) => TakenOut(t) = NULL

LEMMA Hands ==
  ASSUME TypeOK
  PROVE  \A t \in Threads : {TakenOut(t), ToPutIn(t)} \subseteq Blocks \union {NULL}
  BY DEF TypeOK, TakenOut, ToPutIn

LEMMA ContentOfPlaces ==
  /\ \A i \in Slots : Content(<<"slot", i>>) = {Pool[i]} \ {NULL}
  /\ \A t \in Threads : Content(<<"out", t>>) = {TakenOut(t)} \ {NULL}
  /\ \A t \in Threads : Content(<<"in", t>>) = {ToPutIn(t)} \ {NULL}
  /\ Content(<<"program", NULL>>) = inUse
  /\ Content(<<"system", NULL>>) = os
  BY DEF Content

LEMMA KindsOfPlaces ==
  \A p : p \in Places <=>
    \/ \E i \in Slots : p = <<"slot", i>>
    \/ \E t \in Threads : p = <<"out", t>>
    \/ \E t \in Threads : p = <<"in", t>>
    \/ p = <<"program", NULL>>
    \/ p = <<"system", NULL>>
  BY DEF Places

LEMMA OneOwnerIsOwned == TypeOK => (OneOwner <=> Owned)
<1> SUFFICES ASSUME TypeOK PROVE OneOwner <=> Owned
  OBVIOUS
<1>1. ASSUME OneOwner PROVE Owned
  <2>1. \A i \in Slots : <<"slot", i>> \in Places
    BY KindsOfPlaces
  <2>2. \A t \in Threads : <<"out", t>> \in Places /\ <<"in", t>> \in Places
    BY KindsOfPlaces
  <2>3. <<"program", NULL>> \in Places /\ <<"system", NULL>> \in Places
    BY KindsOfPlaces
  <2>4. \A p, q \in Places : p # q => Content(p) \intersect Content(q) = {}
    BY <1>1 DEF OneOwner
  <2>5. \A b \in Blocks :
          \/ b \in inUse \union os
          \/ \E i \in Slots : Pool[i] = b
          \/ \E t \in Threads : b \in {TakenOut(t), ToPutIn(t)}
    <3> SUFFICES ASSUME NEW b \in Blocks PROVE
          \/ b \in inUse \union os
          \/ \E i \in Slots : Pool[i] = b
          \/ \E t \in Threads : b \in {TakenOut(t), ToPutIn(t)}
      OBVIOUS
    <3>1. PICK p \in Places : b \in Content(p)
      BY <1>1 DEF OneOwner
    <3> QED
      BY <3>1, KindsOfPlaces, ContentOfPlaces
  <2>6. inUse \intersect os = {}
    BY <2>3, <2>4, ContentOfPlaces
  <2>7. \A i \in Slots : Pool[i] \notin inUse \union os
    <3> SUFFICES ASSUME NEW i \in Slots PROVE Pool[i] \notin inUse \union os
      OBVIOUS
    <3>1. ({Pool[i]} \ {NULL}) \intersect inUse = {} /\ ({Pool[i]} \ {NULL}) \intersect os = {}
      BY <2>1, <2>3, <2>4, ContentOfPlaces
    <3> QED
      BY <3>1 DEF TypeOK
  <2>8. \A t \in Threads : TakenOut(t) \notin inUse \union os /\ ToPutIn(t) \notin inUse \union os
    <3> SUFFICES ASSUME NEW t \in Threads
                 PROVE TakenOut(t) \notin inUse \union os /\ ToPutIn(t) \notin inUse \union os
      OBVIOUS
    <3>1. /\ ({TakenOut(t)} \ {NULL}) \intersect inUse = {}
          /\ ({TakenOut(t)} \ {NULL}) \intersect os = {}
      BY <2>2, <2>3, <2>4, ContentOfPlaces
    <3>2. /\ ({ToPutIn(t)} \ {NULL}) \intersect inUse = {}
          /\ ({ToPutIn(t)} \ {NULL}) \intersect os = {}
      BY <2>2, <2>3, <2>4, ContentOfPlaces
    <3> QED
      BY <3>1, <3>2 DEF TypeOK
  <2>9. \A i, j \in Slots : Pool[i] = Pool[j] /\ Pool[i] # NULL => i = j
    <3> SUFFICES ASSUME NEW i \in Slots, NEW j \in Slots, i # j
                 PROVE  ~ (Pool[i] = Pool[j] /\ Pool[i] # NULL)
      OBVIOUS
    <3>1. Content(<<"slot", i>>) \intersect Content(<<"slot", j>>) = {}
      BY <2>1, <2>4
    <3>2. ({Pool[i]} \ {NULL}) \intersect ({Pool[j]} \ {NULL}) = {}
      BY <3>1, ContentOfPlaces
    <3> QED
      BY <3>2
  <2>10. \A i \in Slots, t \in Threads : Pool[i] # NULL => Pool[i] \notin {TakenOut(t), ToPutIn(t)}
    <3> SUFFICES ASSUME NEW i \in Slots, NEW t \in Threads, Pool[i] # NULL
                 PROVE  Pool[i] \notin {TakenOut(t), ToPutIn(t)}
      OBVIOUS
    <3>1. /\ Content(<<"slot", i>>) \intersect Content(<<"out", t>>) = {}
          /\ Content(<<"slot", i>>) \intersect Content(<<"in", t>>) = {}
      BY <2>1, <2>2, <2>4
    <3>2. /\ ({Pool[i]} \ {NULL}) \intersect ({TakenOut(t)} \ {NULL}) = {}
          /\ ({Pool[i]} \ {NULL}) \intersect ({ToPutIn(t)} \ {NULL}) = {}
      BY <3>1, ContentOfPlaces
    <3> QED
      BY <3>2
  <2>11. \A t, u \in Threads :
       /\ TakenOut(t) = TakenOut(u) /\ TakenOut(t) # NULL => t = u
       /\ ToPutIn(t) = ToPutIn(u) /\ ToPutIn(t) # NULL => t = u
       /\ TakenOut(t) = ToPutIn(u) => TakenOut(t) = NULL
    <3> SUFFICES ASSUME NEW t \in Threads, NEW u \in Threads PROVE
           /\ TakenOut(t) = TakenOut(u) /\ TakenOut(t) # NULL => t = u
           /\ ToPutIn(t) = ToPutIn(u) /\ ToPutIn(t) # NULL => t = u
           /\ TakenOut(t) = ToPutIn(u) => TakenOut(t) = NULL
      OBVIOUS
    <3>1. t # u => ({TakenOut(t)} \ {NULL}) \intersect ({TakenOut(u)} \ {NULL}) = {}
      BY <2>2, <2>4, ContentOfPlaces
    <3>2. t # u => ({ToPutIn(t)} \ {NULL}) \intersect ({ToPutIn(u)} \ {NULL}) = {}
      BY <2>2, <2>4, ContentOfPlaces
    <3>3. ({TakenOut(t)} \ {NULL}) \intersect ({ToPutIn(u)} \ {NULL}) = {}
      BY <2>2, <2>4, ContentOfPlaces
    <3> QED
      BY <3>1, <3>2, <3>3
  <2> QED
    BY <2>5, <2>6, <2>7, <2>8, <2>9, <2>10, <2>11 DEF Owned
<1>2. ASSUME Owned PROVE OneOwner
  <2>1. \A b \in Blocks : \E p \in Places : b \in Content(p)
    <3> SUFFICES ASSUME NEW b \in Blocks PROVE \E p \in Places : b \in Content(p)
      OBVIOUS
    <3>1. CASE b \in inUse \union os
      BY <3>1, KindsOfPlaces, ContentOfPlaces
    <3>2. CASE \E i \in Slots : Pool[i] = b
      BY <3>2, KindsOfPlaces, ContentOfPlaces
    <3>3. CASE \E t \in Threads : b \in {TakenOut(t), ToPutIn(t)}
      BY <3>3, KindsOfPlaces, ContentOfPlaces
    <3> QED
      BY <1>2, <3>1, <3>2, <3>3 DEF Owned
  <2>2. ASSUME NEW p \in Places, NEW q \in Places, p # q,
               NEW b, b \in Content(p), b \in Content(q)
        PROVE  FALSE
    <3>1. b # NULL
      BY <2>2, KindsOfPlaces, ContentOfPlaces DEF TypeOK
    <3>2. CASE \E i \in Slots : p = <<"slot", i>>
      BY <3>1, <3>2, <2>2, <1>2, KindsOfPlaces, ContentOfPlaces DEF Owned
    <3>3. CASE \E t \in Threads : p = <<"out", t>>
      BY <3>1, <3>3, <2>2, <1>2, KindsOfPlaces, ContentOfPlaces DEF Owned
    <3>4. CASE \E t \in Threads : p = <<"in", t>>
      BY <3>1, <3>4, <2>2, <1>2, KindsOfPlaces, ContentOfPlaces DEF Owned
    <3>5. CASE p = <<"program", NULL>>
      BY <3>1, <3>5, <2>2, <1>2, KindsOfPlaces, ContentOfPlaces DEF Owned
    <3>6. CASE p = <<"system", NULL>>
      BY <3>1, <3>6, <2>2, <1>2, KindsOfPlaces, ContentOfPlaces DEF Owned
    <3> QED
      BY <3>2, <3>3, <3>4, <3>5, <3>6, KindsOfPlaces
  <2> QED
    BY <2>1, <2>2 DEF OneOwner
<1> QED
  BY <1>1, <1>2

-----------------------------------------------------------------------------
(* What the steps do with the blocks. *)

(* No block changes its place. *)
LEMMA NothingMoves ==
  ASSUME Owned, Pool' = Pool, inUse' = inUse, os' = os,
         \A t \in Threads : TakenOut(t)' = TakenOut(t) /\ ToPutIn(t)' = ToPutIn(t)
  PROVE  Owned'
  BY DEF Owned

(* The block in the slot of t and the one it has to put in change places.  *)
LEMMA Exchanged ==
  ASSUME TypeOK, Owned, NEW t \in Threads, inUse' = inUse, os' = os,
         Pool' = [Pool EXCEPT ![slot[t]] = ToPutIn(t)],
         TakenOut(t) = NULL, TakenOut(t)' = Pool[slot[t]], ToPutIn(t)' = NULL,
         \A u \in Threads \ {t} : TakenOut(u)' = TakenOut(u) /\ ToPutIn(u)' = ToPutIn(u)
  PROVE  Owned'
<1>1. PICK s \in Slots : s = slot[t]
  BY DEF TypeOK
<1>2. Pool'[s] = ToPutIn(t) /\ \A i \in Slots \ {s} : Pool'[i] = Pool[i]
  BY <1>1 DEF TypeOK
<1>3. TakenOut(t)' = Pool[s]
  BY <1>1
<1>4. \A b \in Blocks :
       \/ b \in inUse' \union os'
       \/ \E i \in Slots : Pool'[i] = b
       \/ \E u \in Threads : b \in {TakenOut(u)', ToPutIn(u)'}
  <2> SUFFICES ASSUME NEW b \in Blocks PROVE
       \/ b \in inUse' \union os'
       \/ \E i \in Slots : Pool'[i] = b
       \/ \E u \in Threads : b \in {TakenOut(u)', ToPutIn(u)'}
    OBVIOUS
  <2>1. CASE b \in inUse \union os
    BY <2>1
  <2>2. CASE \E i \in Slots : Pool[i] = b
    BY <2>2, <1>2, <1>3
  <2>3. CASE \E u \in Threads : b \in {TakenOut(u), ToPutIn(u)}
    BY <2>3, <1>2
  <2> QED
    BY <2>1, <2>2, <2>3 DEF Owned
<1>5. \A i \in Slots : Pool'[i] \notin inUse' \union os'
  BY <1>2 DEF Owned
<1>6. \A u \in Threads : TakenOut(u)' \notin inUse' \union os' /\ ToPutIn(u)' \notin inUse' \union os'
  <2>1. NULL \notin inUse \union os
    BY DEF TypeOK
  <2> QED
    BY <2>1, <1>3 DEF Owned
<1>7. \A i, j \in Slots : Pool'[i] = Pool'[j] /\ Pool'[i] # NULL => i = j
  BY <1>2 DEF Owned
<1>8. \A i \in Slots, u \in Threads : Pool'[i] # NULL => Pool'[i] \notin {TakenOut(u)', ToPutIn(u)'}
  BY <1>2, <1>3 DEF Owned
<1>9. \A u, v \in Threads :
       /\ TakenOut(u)' = TakenOut(v)' /\ TakenOut(u)' # NULL => u = v
       /\ ToPutIn(u)' = ToPutIn(v)' /\ ToPutIn(u)' # NULL => u = v
       /\ TakenOut(u)' = ToPutIn(v)' => TakenOut(u)' = NULL
  BY <1>3 DEF Owned
<1> QED
  BY <1>4, <1>5, <1>6, <1>7, <1>8, <1>9 DEF Owned

(* t hands out the block b it has taken from its slot, or the system's. *)
LEMMA HandedOut ==
  ASSUME TypeOK, Owned, NEW t \in Threads, NEW b \in Blocks, Pool' = Pool,
         inUse' = inUse \union {b}, os' = os \ {b},
         (b \in os /\ TakenOut(t) = NULL) \/ b = TakenOut(t),
         TakenOut(t)' = NULL, ToPutIn(t)' = ToPutIn(t),
         \A u \in Threads \ {t} : TakenOut(u)' = TakenOut(u) /\ ToPutIn(u)' = ToPutIn(u)
  PROVE  Owned'
<1>1. b \in inUse' /\ b \notin os' /\ NULL \notin inUse' \union os'
  BY DEF TypeOK
<1>2. \A c \in Blocks : c # b /\ c = TakenOut(t) => FALSE
  OBVIOUS
<1>3. \A c \in Blocks :
       \/ c \in inUse' \union os'
       \/ \E i \in Slots : Pool'[i] = c
       \/ \E u \in Threads : c \in {TakenOut(u)', ToPutIn(u)'}
  BY <1>1, <1>2 DEF Owned
<1>4. \A u \in Threads : TakenOut(u)' \notin inUse' \union os' /\ ToPutIn(u)' \notin inUse' \union os'
  BY <1>1 DEF Owned
<1>5. \A i \in Slots : Pool'[i] \notin inUse' \union os'
  BY <1>1 DEF Owned
<1>6. /\ inUse' \intersect os' = {}
      /\ \A i, j \in Slots : Pool'[i] = Pool'[j] /\ Pool'[i] # NULL => i = j
      /\ \A i \in Slots, u \in Threads : Pool'[i] # NULL => Pool'[i] \notin {TakenOut(u)', ToPutIn(u)'}
      /\ \A u, v \in Threads :
           /\ TakenOut(u)' = TakenOut(v)' /\ TakenOut(u)' # NULL => u = v
           /\ ToPutIn(u)' = ToPutIn(v)' /\ ToPutIn(u)' # NULL => u = v
           /\ TakenOut(u)' = ToPutIn(v)' => TakenOut(u)' = NULL
  BY DEF Owned
<1> QED
  BY <1>3, <1>4, <1>5, <1>6 DEF Owned

(* The program gives b to t. *)
LEMMA HandedIn ==
  ASSUME TypeOK, Owned, NEW t \in Threads, NEW b \in inUse, Pool' = Pool,
         inUse' = inUse \ {b}, os' = os,
         ToPutIn(t) = NULL, ToPutIn(t)' = b, TakenOut(t)' = TakenOut(t),
         \A u \in Threads \ {t} : TakenOut(u)' = TakenOut(u) /\ ToPutIn(u)' = ToPutIn(u)
  PROVE  Owned'
<1>1. b \notin inUse' \union os' /\ b # NULL /\ NULL \notin inUse' \union os'
  BY DEF TypeOK, Owned
<1>2. \A c \in Blocks :
       \/ c \in inUse' \union os'
       \/ \E i \in Slots : Pool'[i] = c
       \/ \E u \in Threads : c \in {TakenOut(u)', ToPutIn(u)'}
  BY <1>1 DEF Owned, TypeOK
<1>3. \A u \in Threads : TakenOut(u)' \notin inUse' \union os' /\ ToPutIn(u)' \notin inUse' \union os'
  BY <1>1 DEF Owned
<1>4. /\ inUse' \intersect os' = {}
      /\ \A i \in Slots : Pool'[i] \notin inUse' \union os'
      /\ \A i, j \in Slots : Pool'[i] = Pool'[j] /\ Pool'[i] # NULL => i = j
      /\ \A i \in Slots, u \in Threads : Pool'[i] # NULL => Pool'[i] \notin {TakenOut(u)', ToPutIn(u)'}
      /\ \A u, v \in Threads :
           /\ TakenOut(u)' = TakenOut(v)' /\ TakenOut(u)' # NULL => u = v
           /\ ToPutIn(u)' = ToPutIn(v)' /\ ToPutIn(u)' # NULL => u = v
           /\ TakenOut(u)' = ToPutIn(v)' => TakenOut(u)' = NULL
  BY DEF Owned
<1> QED
  BY <1>2, <1>3, <1>4 DEF Owned

(* t frees the block it has found in its slot. *)
LEMMA Freed ==
  ASSUME TypeOK, Owned, NEW t \in Threads, NEW b \in Blocks, Pool' = Pool,
         inUse' = inUse, os' = os \union {b}, TakenOut(t) = b,
         TakenOut(t)' = NULL, ToPutIn(t)' = ToPutIn(t),
         \A u \in Threads \ {t} : TakenOut(u)' = TakenOut(u) /\ ToPutIn(u)' = ToPutIn(u)
  PROVE  Owned'
<1>1. b \in os' /\ b \notin inUse' /\ NULL \notin inUse' \union os'
  BY DEF TypeOK, Owned
<1>2. \A c \in Blocks :
       \/ c \in inUse' \union os'
       \/ \E i \in Slots : Pool'[i] = c
       \/ \E u \in Threads : c \in {TakenOut(u)', ToPutIn(u)'}
  BY <1>1 DEF Owned
<1>3. \A u \in Threads : TakenOut(u)' \notin inUse' \union os' /\ ToPutIn(u)' \notin inUse' \union os'
  BY <1>1 DEF Owned
<1>4. /\ inUse' \intersect os' = {}
      /\ \A i \in Slots : Pool'[i] \notin inUse' \union os'
      /\ \A i, j \in Slots : Pool'[i] = Pool'[j] /\ Pool'[i] # NULL => i = j
      /\ \A i \in Slots, u \in Threads : Pool'[i] # NULL => Pool'[i] \notin {TakenOut(u)', ToPutIn(u)'}
      /\ \A u, v \in Threads :
           /\ TakenOut(u)' = TakenOut(v)' /\ TakenOut(u)' # NULL => u = v
           /\ ToPutIn(u)' = ToPutIn(v)' /\ ToPutIn(u)' # NULL => u = v
           /\ TakenOut(u)' = ToPutIn(v)' => TakenOut(u)' = NULL
  BY <1>1 DEF Owned
<1> QED
  BY <1>2, <1>3, <1>4 DEF Owned

-----------------------------------------------------------------------------
(* The totals. *)

Deallocating == {t \in Threads : op[t] = "Deallocate" /\ pc[t] # "idle"}

LEMMA CountedSets ==
  ASSUME TypeOK
  PROVE  /\ IsFiniteSet(inUse) /\ Cardinality(inUse) \in Nat
         /\ IsFiniteSet(Blocks \ os) /\ Cardinality(Blocks \ os) \in Nat
         /\ IsFiniteSet(Deallocating) /\ Cardinality(Deallocating) \in Nat
<1>1. inUse \in SUBSET Blocks /\ Blocks \ os \in SUBSET Blocks /\ Deallocating \in SUBSET Threads
  BY DEF TypeOK, Deallocating
<1>2. IsFiniteSet(inUse) /\ IsFiniteSet(Blocks \ os) /\ IsFiniteSet(Deallocating)
  BY <1>1, BlocksAssumption, FS_Subset
<1> QED
  BY <1>2, FS_CardinalityType

LEMMA AddedElement ==
  ASSUME NEW S, IsFiniteSet(S), NEW x, x \notin S
  PROVE  Cardinality(S \union {x}) = Cardinality(S) + 1
  BY FS_AddElement

LEMMA RemovedElement ==
  ASSUME NEW S, IsFiniteSet(S), NEW x, x \in S
  PROVE  Cardinality(S \ {x}) = Cardinality(S) - 1
  BY FS_RemoveElement

LEMMA TotalsOf ==
  TotalsAddUp <=>
    /\ preallocated + TotalOSAllocations - TotalOSDeallocations = Cardinality(Blocks \ os)
    /\ TotalAllocations - TotalDeallocations - TotalOSDeallocations
         = Cardinality(inUse) + Cardinality(Deallocating)
  BY DEF TotalsAddUp, Deallocating

LEMMA TotalsKept ==
  ASSUME TotalsAddUp, UNCHANGED <<memory, totals, preallocated>>, Deallocating' = Deallocating
  PROVE  TotalsAddUp'
  BY DEF TotalsAddUp, Deallocating, memory, totals

LEMMA SlotsOfPositions == \A n \in Nat : n % PoolSize \in Slots
  BY PoolSizeAssumption DEF Slots

-----------------------------------------------------------------------------
(* The invariant with the places spelled out, step by step. *)
JInv == TypeOK /\ LockIsHeld /\ ReadIsCurrent /\ Owned /\ TotalsAddUp

LEMMA AllocateStep ==
  ASSUME JInv, NEW t \in Threads, Allocate(t)
  PROVE  JInv'
<1> USE DEF Allocate, Enter, ring, memory, totals, history, given
<1>1. TypeOK'
  BY DEF JInv, TypeOK
<1>2. pc[t] = "idle" /\ pc'[t] \in {"lock", "claim"} /\ (bUseSpinLock <=> pc'[t] = "lock")
      /\ op'[t] = "Allocate"
      /\ \A u \in Threads \ {t} : pc'[u] = pc[u] /\ op'[u] = op[u]
  BY DEF JInv, TypeOK
<1>3. LockIsHeld' /\ ReadIsCurrent'
  BY <1>2 DEF JInv, LockIsHeld, ReadIsCurrent
<1>4. Owned'
  <2>1. \A u \in Threads : TakenOut(u)' = TakenOut(u) /\ ToPutIn(u)' = ToPutIn(u)
    BY <1>2 DEF TakenOut, ToPutIn
  <2> QED
    BY <2>1, NothingMoves DEF JInv
<1>5. TotalsAddUp'
  <2>1. Deallocating' = Deallocating
    BY <1>2 DEF Deallocating
  <2> QED
    BY <2>1, TotalsKept DEF JInv
<1> QED
  BY <1>1, <1>3, <1>4, <1>5 DEF JInv

LEMMA DeallocateStep ==
  ASSUME JInv, NEW t \in Threads, NEW b \in Blocks, Deallocate(t, b)
  PROVE  JInv'
<1> USE DEF Deallocate, Enter, ring, totals, history, given
<1>1. TypeOK'
  BY DEF JInv, TypeOK
<1>2. /\ pc[t] = "idle" /\ pc'[t] \in {"lock", "claim"} /\ (bUseSpinLock <=> pc'[t] = "lock")
      /\ op'[t] = "Deallocate" /\ obj'[t] = b
      /\ \A u \in Threads \ {t} : pc'[u] = pc[u] /\ op'[u] = op[u] /\ obj'[u] = obj[u]
  BY DEF JInv, TypeOK
<1>3. LockIsHeld' /\ ReadIsCurrent'
  BY <1>2 DEF JInv, LockIsHeld, ReadIsCurrent
<1>4. Owned'
  <2>1. ToPutIn(t) = NULL /\ ToPutIn(t)' = b /\ TakenOut(t)' = TakenOut(t)
    BY <1>2 DEF TakenOut, ToPutIn
  <2>2. \A u \in Threads \ {t} : TakenOut(u)' = TakenOut(u) /\ ToPutIn(u)' = ToPutIn(u)
    BY <1>2 DEF TakenOut, ToPutIn
  <2> QED
    BY <2>1, <2>2, HandedIn DEF JInv
<1>5. TotalsAddUp'
  <2>1. Deallocating' = Deallocating \union {t} /\ t \notin Deallocating
    BY <1>2 DEF Deallocating
  <2>2. Cardinality(Deallocating') = Cardinality(Deallocating) + 1
    BY <2>1, CountedSets, AddedElement DEF JInv
  <2>3. Cardinality(inUse') = Cardinality(inUse) - 1
    BY CountedSets, RemovedElement DEF JInv
  <2>4. /\ preallocated + TotalOSAllocations - TotalOSDeallocations = Cardinality(Blocks \ os)
        /\ TotalAllocations - TotalDeallocations - TotalOSDeallocations
             = Cardinality(inUse) + Cardinality(Deallocating)
    BY TotalsOf DEF JInv
  <2>5. Cardinality(inUse) + Cardinality(Deallocating) = Cardinality(inUse') + Cardinality(Deallocating')
    BY <2>2, <2>3, CountedSets DEF JInv
  <2> QED
    BY <2>4, <2>5 DEF TotalsAddUp, Deallocating
<1> QED
  BY <1>1, <1>3, <1>4, <1>5 DEF JInv

LEMMA LockStep ==
  ASSUME JInv, NEW t \in Threads, Lock(t)
  PROVE  JInv'
<1> USE DEF Lock, ring, memory, totals, history, given
<1>1. TypeOK'
  BY DEF JInv, TypeOK
<1>2. pc[t] = "lock" /\ pc'[t] = "claim" /\ \A u \in Threads \ {t} : pc'[u] = pc[u]
  BY DEF JInv, TypeOK
<1>3. LockIsHeld' /\ ReadIsCurrent'
  BY <1>2 DEF JInv, LockIsHeld, ReadIsCurrent
<1>4. Owned'
  <2>1. \A u \in Threads : TakenOut(u)' = TakenOut(u) /\ ToPutIn(u)' = ToPutIn(u)
    BY <1>2 DEF TakenOut, ToPutIn
  <2> QED
    BY <2>1, NothingMoves DEF JInv
<1>5. TotalsAddUp'
  <2>1. Deallocating' = Deallocating
    BY <1>2 DEF Deallocating
  <2> QED
    BY <2>1, TotalsKept DEF JInv
<1> QED
  BY <1>1, <1>3, <1>4, <1>5 DEF JInv

LEMMA ClaimStep ==
  ASSUME JInv, NEW t \in Threads, Claim(t)
  PROVE  JInv'
<1> USE DEF Claim, ring, memory, totals, history, given
<1>1. PICK s \in Slots :
        /\ slot' = [slot EXCEPT ![t] = s]
        /\ HeadPosition' \in Nat /\ TailPosition' \in Nat
  BY SlotsOfPositions DEF JInv, TypeOK, ClaimHead, ClaimTail
<1>2. TypeOK'
  BY <1>1 DEF JInv, TypeOK
<1>3. /\ pc[t] = "claim" /\ pc'[t] \in {"read", "swap"} /\ (bUseSpinLock <=> pc'[t] = "read")
      /\ \A u \in Threads \ {t} : pc'[u] = pc[u] /\ slot'[u] = slot[u]
  BY <1>1 DEF JInv, TypeOK
<1>4. LockIsHeld' /\ ReadIsCurrent'
  BY <1>3 DEF JInv, LockIsHeld, ReadIsCurrent
<1>5. Owned'
  <2>1. \A u \in Threads : TakenOut(u)' = TakenOut(u) /\ ToPutIn(u)' = ToPutIn(u)
    BY <1>3 DEF TakenOut, ToPutIn
  <2> QED
    BY <2>1, NothingMoves DEF JInv
<1>6. TotalsAddUp'
  <2>1. Deallocating' = Deallocating
    BY <1>3 DEF Deallocating
  <2> QED
    BY <2>1, TotalsKept DEF JInv
<1> QED
  BY <1>2, <1>4, <1>5, <1>6 DEF JInv

LEMMA SwapStep ==
  ASSUME JInv, NEW t \in Threads, Swap(t)
  PROVE  JInv'
<1> USE DEF Swap, memory, totals, history, given
<1>1. pc[t] = "swap" /\ slot[t] \in Slots /\ ToPutIn(t) = Left(t)
  BY DEF JInv, TypeOK, ToPutIn, Left
<1>2. ToPutIn(t) \in Blocks \union {NULL}
  BY Hands DEF JInv
<1>3. TypeOK'
  BY <1>1, <1>2 DEF JInv, TypeOK
<1>4. /\ pc'[t] = "swapped" /\ found'[t] = Pool[slot[t]]
      /\ \A u \in Threads \ {t} : pc'[u] = pc[u] /\ found'[u] = found[u]
  BY DEF JInv, TypeOK
<1>5. LockIsHeld' /\ ReadIsCurrent'
  BY <1>1, <1>4 DEF JInv, LockIsHeld, ReadIsCurrent
<1>6. Owned'
  <2>1. TakenOut(t) = NULL /\ TakenOut(t)' = Pool[slot[t]] /\ ToPutIn(t)' = NULL
    BY <1>1, <1>4 DEF TakenOut, ToPutIn
  <2>2. \A u \in Threads \ {t} : TakenOut(u)' = TakenOut(u) /\ ToPutIn(u)' = ToPutIn(u)
    BY <1>4 DEF TakenOut, ToPutIn
  <2> QED
    BY <1>1, <2>1, <2>2, Exchanged DEF JInv
<1>7. TotalsAddUp'
  <2>1. Deallocating' = Deallocating
    BY <1>1, <1>4 DEF Deallocating
  <2> QED
    BY <2>1, TotalsKept DEF JInv
<1> QED
  BY <1>3, <1>5, <1>6, <1>7 DEF JInv

LEMMA ReadSlotStep ==
  ASSUME JInv, NEW t \in Threads, ReadSlot(t)
  PROVE  JInv'
<1> USE DEF ReadSlot, ring, memory, totals, history, given
<1>1. pc[t] = "read" /\ slot[t] \in Slots
  BY DEF JInv, TypeOK
<1>2. TypeOK'
  BY <1>1 DEF JInv, TypeOK
<1>3. /\ pc'[t] = "write" /\ found'[t] = Pool[slot[t]]
      /\ \A u \in Threads \ {t} : pc'[u] = pc[u] /\ found'[u] = found[u]
  BY DEF JInv, TypeOK
<1>4. LockIsHeld' /\ ReadIsCurrent'
  BY <1>1, <1>3 DEF JInv, LockIsHeld, ReadIsCurrent
<1>5. Owned'
  <2>1. \A u \in Threads : TakenOut(u)' = TakenOut(u) /\ ToPutIn(u)' = ToPutIn(u)
    BY <1>1, <1>3 DEF TakenOut, ToPutIn
  <2> QED
    BY <2>1, NothingMoves DEF JInv
<1>6. TotalsAddUp'
  <2>1. Deallocating' = Deallocating
    BY <1>1, <1>3 DEF Deallocating
  <2> QED
    BY <2>1, TotalsKept DEF JInv
<1> QED
  BY <1>2, <1>4, <1>5, <1>6 DEF JInv

(* Nobody else is at a slot, for t has the lock. *)
LEMMA WriteSlotStep ==
  ASSUME JInv, NEW t \in Threads, WriteSlot(t)
  PROVE  JInv'
<1> USE DEF WriteSlot, memory, totals, history, given
<1>1. /\ pc[t] = "write" /\ slot[t] \in Slots /\ ToPutIn(t) = Left(t)
      /\ found[t] = Pool[slot[t]]
  BY DEF JInv, TypeOK, ToPutIn, Left, ReadIsCurrent
<1>2. ToPutIn(t) \in Blocks \union {NULL}
  BY Hands DEF JInv
<1>3. TypeOK'
  BY <1>1, <1>2 DEF JInv, TypeOK
<1>4. pc'[t] = "swapped" /\ \A u \in Threads \ {t} : pc'[u] = pc[u]
  BY DEF JInv, TypeOK
<1>5. \A u \in Threads \ {t} : bUseSpinLock /\ pc[u] \notin {"claim", "read", "write"}
  BY <1>1 DEF JInv, LockIsHeld
<1>6. LockIsHeld' /\ ReadIsCurrent'
  BY <1>1, <1>4, <1>5 DEF JInv, LockIsHeld, ReadIsCurrent
<1>7. Owned'
  <2>1. TakenOut(t) = NULL /\ TakenOut(t)' = Pool[slot[t]] /\ ToPutIn(t)' = NULL
    BY <1>1, <1>4 DEF TakenOut, ToPutIn
  <2>2. \A u \in Threads \ {t} : TakenOut(u)' = TakenOut(u) /\ ToPutIn(u)' = ToPutIn(u)
    BY <1>4 DEF TakenOut, ToPutIn
  <2> QED
    BY <1>1, <2>1, <2>2, Exchanged DEF JInv
<1>8. TotalsAddUp'
  <2>1. Deallocating' = Deallocating
    BY <1>1, <1>4 DEF Deallocating
  <2> QED
    BY <2>1, TotalsKept DEF JInv
<1> QED
  BY <1>3, <1>6, <1>7, <1>8 DEF JInv

(* What every return from Allocate or Deallocate does. *)
LEMMA Returned ==
  ASSUME JInv, NEW t \in Threads, NEW o, Swapped(t, o)
  PROVE  /\ pc[t] = "swapped" /\ op[t] = o /\ TakenOut(t) = found[t]
         /\ Pool' = Pool /\ LockIsHeld' /\ ReadIsCurrent'
         /\ TakenOut(t)' = NULL /\ ToPutIn(t)' = ToPutIn(t)
         /\ \A u \in Threads \ {t} : TakenOut(u)' = TakenOut(u) /\ ToPutIn(u)' = ToPutIn(u)
         /\ Deallocating' = Deallocating \ {t}
         /\ t \in Deallocating <=> o = "Deallocate"
         /\ TypeOK' <=> /\ inUse' \in SUBSET Blocks /\ os' \in SUBSET Blocks
                        /\ TotalAllocations' \in Nat /\ TotalDeallocations' \in Nat
                        /\ TotalOSAllocations' \in Nat /\ TotalOSDeallocations' \in Nat
         /\ preallocated' = preallocated
<1> USE DEF Swapped, ring, history, given
<1>1. /\ pc[t] = "swapped" /\ op[t] = o /\ pc'[t] = "idle" /\ op' = op
      /\ \A u \in Threads \ {t} : pc'[u] = pc[u] /\ found'[u] = found[u] /\ obj'[u] = obj[u]
  BY DEF JInv, TypeOK
<1>2. LockIsHeld' /\ ReadIsCurrent'
  BY <1>1 DEF JInv, LockIsHeld, ReadIsCurrent
<1>3. /\ TakenOut(t) = found[t] /\ TakenOut(t)' = NULL /\ ToPutIn(t)' = ToPutIn(t)
      /\ \A u \in Threads \ {t} : TakenOut(u)' = TakenOut(u) /\ ToPutIn(u)' = ToPutIn(u)
  BY <1>1 DEF TakenOut, ToPutIn
<1>4. Deallocating' = Deallocating \ {t} /\ (t \in Deallocating <=> o = "Deallocate")
  BY <1>1 DEF Deallocating
<1>5. /\ pc' \in [Threads -> Pcs] /\ found' \in [Threads -> Blocks \union {NULL}]
      /\ obj' \in [Threads -> Blocks \union {NULL}]
  BY DEF JInv, TypeOK
<1>6. TypeOK' <=> /\ inUse' \in SUBSET Blocks /\ os' \in SUBSET Blocks
                  /\ TotalAllocations' \in Nat /\ TotalDeallocations' \in Nat
                  /\ TotalOSAllocations' \in Nat /\ TotalOSDeallocations' \in Nat
  BY <1>5 DEF JInv, TypeOK
<1> QED
  BY <1>1, <1>2, <1>3, <1>4, <1>6

LEMMA AllocatedFromPoolStep ==
  ASSUME JInv, NEW t \in Threads, AllocatedFromPool(t)
  PROVE  JInv'
<1>1. Swapped(t, "Allocate")
  BY DEF AllocatedFromPool
<1>2. PICK b \in Blocks : b = found[t] /\ b = TakenOut(t) /\ b \notin inUse /\ b \notin os
  BY <1>1, Returned DEF AllocatedFromPool, JInv, TypeOK, Owned
<1>3. /\ inUse' = inUse \union {b} /\ os' = os /\ TotalAllocations' = TotalAllocations + 1
      /\ UNCHANGED <<TotalDeallocations, TotalOSAllocations, TotalOSDeallocations>>
  BY <1>2 DEF AllocatedFromPool
<1>4. TypeOK'
  BY <1>1, <1>3, Returned DEF JInv, TypeOK
<1>5. Owned'
  <2>1. os' = os \ {b}
    BY <1>2, <1>3
  <2> QED
    BY <1>1, <1>2, <1>3, <2>1, Returned, HandedOut DEF JInv
<1>6. TotalsAddUp'
  <2>1. Cardinality(inUse') = Cardinality(inUse) + 1
    BY <1>2, <1>3, CountedSets, AddedElement DEF JInv
  <2>2. Deallocating' = Deallocating
    BY <1>1, Returned
  <2>3. preallocated' = preallocated
    BY <1>1, Returned
  <2>4. preallocated' + TotalOSAllocations' - TotalOSDeallocations' = Cardinality(Blocks \ os')
    BY <2>1, <2>2, <1>2, <1>3, <2>3, CountedSets, TotalsOf DEF JInv, TypeOK
  <2>5. TotalAllocations' - TotalDeallocations' - TotalOSDeallocations'
          = Cardinality(inUse') + Cardinality(Deallocating')
    BY <2>1, <2>2, <1>2, <1>3, CountedSets, TotalsOf DEF JInv, TypeOK
  <2> QED
    BY <2>4, <2>5 DEF TotalsAddUp, Deallocating
<1> QED
  BY <1>1, <1>4, <1>5, <1>6, Returned DEF JInv

LEMMA AllocatedFromOSStep ==
  ASSUME JInv, NEW t \in Threads, AllocatedFromOS(t)
  PROVE  JInv'
<1>1. Swapped(t, "Allocate") /\ found[t] = NULL
  BY DEF AllocatedFromOS
<1>2. PICK b \in os : os' = os \ {b} /\ inUse' = inUse \union {b}
  BY DEF AllocatedFromOS
<1>3. /\ TotalAllocations' = TotalAllocations + 1 /\ TotalOSAllocations' = TotalOSAllocations + 1
      /\ UNCHANGED <<TotalDeallocations, TotalOSDeallocations>>
  BY DEF AllocatedFromOS
<1>4. b \in Blocks /\ b \notin inUse /\ TakenOut(t) = NULL
  BY <1>1, Returned DEF JInv, TypeOK, Owned
<1>5. TypeOK'
  BY <1>1, <1>2, <1>3, <1>4, Returned DEF JInv, TypeOK
<1>6. Owned'
  BY <1>1, <1>2, <1>4, Returned, HandedOut DEF JInv
<1>7. TotalsAddUp'
  <2>1. Cardinality(inUse') = Cardinality(inUse) + 1
    BY <1>2, <1>4, CountedSets, AddedElement DEF JInv
  <2>2. Blocks \ os' = (Blocks \ os) \union {b} /\ b \notin Blocks \ os
    BY <1>2, <1>4
  <2>3. Cardinality(Blocks \ os') = Cardinality(Blocks \ os) + 1
    BY <2>2, CountedSets, AddedElement DEF JInv
  <2>4. Deallocating' = Deallocating
    BY <1>1, Returned
  <2>5. preallocated' = preallocated
    BY <1>1, Returned
  <2>6. preallocated' + TotalOSAllocations' - TotalOSDeallocations' = Cardinality(Blocks \ os')
    BY <2>1, <2>3, <2>4, <1>2, <1>3, <2>5, CountedSets, TotalsOf DEF JInv, TypeOK
  <2>7. TotalAllocations' - TotalDeallocations' - TotalOSDeallocations'
          = Cardinality(inUse') + Cardinality(Deallocating')
    BY <2>1, <2>3, <2>4, <1>2, <1>3, CountedSets, TotalsOf DEF JInv, TypeOK
  <2> QED
    BY <2>6, <2>7 DEF TotalsAddUp, Deallocating
<1> QED
  BY <1>1, <1>5, <1>6, <1>7, Returned DEF JInv

LEMMA NothingFoundStep ==
  ASSUME JInv, NEW t \in Threads, AllocateFails(t) \/ DeallocatedToPool(t)
  PROVE  JInv'
<1>1. PICK o \in {"Allocate", "Deallocate"} :
        /\ Swapped(t, o) /\ found[t] = NULL
        /\ TotalDeallocations' = TotalDeallocations + IF o = "Deallocate" THEN 1 ELSE 0
  BY DEF AllocateFails, DeallocatedToPool, totals, JInv, TypeOK
<1>2. UNCHANGED <<inUse, os, TotalAllocations, TotalOSAllocations, TotalOSDeallocations>>
  BY DEF AllocateFails, DeallocatedToPool, totals, memory
<1>3. TypeOK'
  BY <1>1, <1>2, Returned DEF JInv, TypeOK
<1>4. Owned'
  BY <1>1, <1>2, Returned, NothingMoves DEF JInv
<1>5. TotalsAddUp'
  <2>1. Deallocating' = Deallocating \ {t} /\ (t \in Deallocating <=> o = "Deallocate")
    BY <1>1, Returned
  <2>2. Cardinality(Deallocating') = Cardinality(Deallocating) - IF o = "Deallocate" THEN 1 ELSE 0
    <3>1. CASE o = "Deallocate"
      BY <3>1, <2>1, CountedSets, RemovedElement DEF JInv
    <3>2. CASE o # "Deallocate"
      <4>1. Deallocating' = Deallocating
        BY <3>2, <2>1
      <4> QED
        BY <3>2, <4>1, CountedSets DEF JInv
    <3> QED
      BY <3>1, <3>2
  <2>3. preallocated' = preallocated
    BY <1>1, Returned
  <2>4. /\ preallocated + TotalOSAllocations - TotalOSDeallocations = Cardinality(Blocks \ os)
        /\ TotalAllocations - TotalDeallocations - TotalOSDeallocations
             = Cardinality(inUse) + Cardinality(Deallocating)
    BY TotalsOf DEF JInv
  <2>5. /\ {TotalAllocations, TotalDeallocations, TotalOSAllocations, TotalOSDeallocations} \subseteq Nat
        /\ Cardinality(inUse) \in Nat /\ Cardinality(Deallocating) \in Nat
    BY CountedSets DEF JInv, TypeOK
  <2>6. TotalAllocations' - TotalDeallocations' - TotalOSDeallocations'
          = Cardinality(inUse') + Cardinality(Deallocating')
    <3>1. CASE o = "Deallocate"
      <4>1. TotalDeallocations' = TotalDeallocations + 1
        BY <1>1, <3>1
      <4>2. Cardinality(Deallocating') = Cardinality(Deallocating) - 1
        BY <2>2, <3>1
      <4> QED
        BY <1>2, <2>4, <2>5, <4>1, <4>2
    <3>2. CASE o # "Deallocate"
      <4>1. TotalDeallocations' = TotalDeallocations
        BY <1>1, <2>5, <3>2
      <4>2. Cardinality(Deallocating') = Cardinality(Deallocating)
        BY <2>2, <2>5, <3>2
      <4> QED
        BY <1>2, <2>4, <2>5, <4>1, <4>2
    <3> QED
      BY <3>1, <3>2
  <2>7. preallocated' + TotalOSAllocations' - TotalOSDeallocations' = Cardinality(Blocks \ os')
    BY <1>2, <2>3, <2>4
  <2> QED
    BY <2>6, <2>7 DEF TotalsAddUp, Deallocating
<1> QED
  BY <1>1, <1>3, <1>4, <1>5, Returned DEF JInv

LEMMA DeallocatedToOSStep ==
  ASSUME JInv, NEW t \in Threads, DeallocatedToOS(t)
  PROVE  JInv'
<1>1. Swapped(t, "Deallocate")
  BY DEF DeallocatedToOS
<1>2. PICK b \in Blocks : b = found[t] /\ b = TakenOut(t) /\ b \notin os
  BY <1>1, Returned DEF DeallocatedToOS, JInv, TypeOK, Owned
<1>3. /\ os' = os \union {b} /\ inUse' = inUse /\ TotalOSDeallocations' = TotalOSDeallocations + 1
      /\ UNCHANGED <<TotalAllocations, TotalDeallocations, TotalOSAllocations>>
  BY <1>2 DEF DeallocatedToOS
<1>4. TypeOK'
  BY <1>1, <1>3, Returned DEF JInv, TypeOK
<1>5. Owned'
  BY <1>1, <1>2, <1>3, Returned, Freed DEF JInv
<1>6. TotalsAddUp'
  <2>1. Blocks \ os' = (Blocks \ os) \ {b} /\ b \in Blocks \ os
    BY <1>2, <1>3
  <2>2. Cardinality(Blocks \ os') = Cardinality(Blocks \ os) - 1
    BY <2>1, CountedSets, RemovedElement DEF JInv
  <2>3. Deallocating' = Deallocating \ {t} /\ t \in Deallocating /\ preallocated' = preallocated
    BY <1>1, Returned
  <2>4. Cardinality(Deallocating') = Cardinality(Deallocating) - 1
    BY <2>3, CountedSets, RemovedElement DEF JInv
  <2>5. /\ preallocated + TotalOSAllocations - TotalOSDeallocations = Cardinality(Blocks \ os)
        /\ TotalAllocations - TotalDeallocations - TotalOSDeallocations
             = Cardinality(inUse) + Cardinality(Deallocating)
    BY TotalsOf DEF JInv
  <2>6. /\ {TotalAllocations, TotalDeallocations, TotalOSAllocations, TotalOSDeallocations,
             preallocated} \subseteq Nat
        /\ Cardinality(inUse) \in Nat /\ Cardinality(Deallocating) \in Nat
        /\ Cardinality(Blocks \ os) \in Nat
    BY CountedSets, PoolSizeAssumption DEF JInv, TypeOK
  <2>7. preallocated' + TotalOSAllocations' - TotalOSDeallocations' = Cardinality(Blocks \ os')
    BY <1>3, <2>2, <2>3, <2>5, <2>6
  <2>8. TotalAllocations' - TotalDeallocations' - TotalOSDeallocations'
          = Cardinality(inUse') + Cardinality(Deallocating')
    BY <1>3, <2>4, <2>5, <2>6
  <2> QED
    BY <2>7, <2>8 DEF TotalsAddUp, Deallocating
<1> QED
  BY <1>1, <1>4, <1>5, <1>6, Returned DEF JInv

(* The blocks that Preallocate put into the ring are as many as it says,   *)
(* for they are different ones.                                            *)
LEMMA InitiallyOwned == Init => JInv
<1> SUFFICES ASSUME Init PROVE JInv
  OBVIOUS
<1>1. TypeOK
  <2>1. 0 \in Slots
    BY SlotsOfPositions, PoolSizeAssumption DEF Slots
  <2> QED
    BY <2>1 DEF Init, TypeOK
<1>2. LockIsHeld /\ ReadIsCurrent
  BY DEF Init, LockIsHeld, ReadIsCurrent
<1>3. Owned
  BY <1>1 DEF Init, TypeOK, Owned, Preallocated, TakenOut, ToPutIn
<1>4. TotalsAddUp
  <2> DEFINE n == preallocated
             F == 0 .. n - 1
             T == Blocks \ os
             f == [i \in F |-> Pool[i]]
  <2>1. n \in Nat /\ F \subseteq Slots
    BY PoolSizeAssumption DEF Init, Slots
  <2>2. \A i \in Slots : IF i < n THEN Pool[i] \in Blocks ELSE Pool[i] = NULL
    BY DEF Init, Preallocated
  <2>3. \A i \in F : f[i] \in T
    BY <2>1, <2>2 DEF Init
  <2>4. \A b \in T : \E i \in F : f[i] = b
    <3> SUFFICES ASSUME NEW b \in T PROVE \E i \in F : f[i] = b
      OBVIOUS
    <3>1. PICK i \in Slots : Pool[i] = b
      BY DEF Init
    <3>2. i < n
      BY <3>1, <2>2
    <3> QED
      BY <3>1, <3>2, <2>1 DEF Slots
  <2>5. \A i, j \in F : f[i] = f[j] => i = j
    BY <2>1, <2>2, <2>3 DEF Init, Preallocated
  <2> HIDE DEF f
  <2>6. f \in Bijection(F, T)
    <3>1. f \in [F -> T]
      BY <2>3 DEF f
    <3> QED
      BY <3>1, <2>4, <2>5 DEF Bijection, Injection, Surjection, IsInjective
  <2>7. IsFiniteSet(F) /\ Cardinality(F) = n
    BY <2>1, FS_Interval
  <2>8. Cardinality(T) = n
    <3>1. ExistsBijection(F, T)
      BY <2>6 DEF ExistsBijection
    <3> QED
      BY <3>1, <2>7, FS_Bijection
  <2>9. inUse = {} /\ Deallocating = {}
    BY DEF Init, Deallocating
  <2>10. Cardinality(inUse) = 0 /\ Cardinality(Deallocating) = 0
    BY <2>9, FS_EmptySet
  <2> QED
    BY <2>1, <2>8, <2>10 DEF Init, TotalsAddUp, Deallocating
<1> QED
  BY <1>1, <1>2, <1>3, <1>4 DEF JInv

LEMMA StutteringStep ==
  ASSUME JInv, UNCHANGED vars
  PROVE  JInv'
<1> USE DEF vars, ring, calls, memory, totals, history, given
<1>1. TypeOK' /\ LockIsHeld' /\ ReadIsCurrent'
  BY DEF JInv, TypeOK, LockIsHeld, ReadIsCurrent
<1>2. Owned'
  BY NothingMoves DEF JInv, TakenOut, ToPutIn
<1>3. TotalsAddUp'
  BY TotalsKept DEF JInv, Deallocating
<1> QED
  BY <1>1, <1>2, <1>3 DEF JInv

LEMMA NextKeepsJInv == JInv /\ [Next]_vars => JInv'
<1> SUFFICES ASSUME JInv, [Next]_vars PROVE JInv'
  OBVIOUS
<1>1. ASSUME NEW t \in Threads, Allocate(t) PROVE JInv'
  BY <1>1, AllocateStep
<1>2. ASSUME NEW t \in Threads, NEW b \in Blocks, Deallocate(t, b) PROVE JInv'
  BY <1>2, DeallocateStep
<1>3. ASSUME NEW t \in Threads, Exchange(t) PROVE JInv'
  BY <1>3, LockStep, ClaimStep, SwapStep, ReadSlotStep, WriteSlotStep DEF Exchange
<1>4. ASSUME NEW t \in Threads, Finish(t) PROVE JInv'
  BY <1>4, AllocatedFromPoolStep, AllocatedFromOSStep, NothingFoundStep, DeallocatedToOSStep
     DEF Finish
<1>5. CASE UNCHANGED vars
  BY <1>5, StutteringStep
<1> QED
  BY <1>1, <1>2, <1>3, <1>4, <1>5 DEF Next

-----------------------------------------------------------------------------
(* The conjunction IInv holds in every reachable state: Allocate and       *)
(* Deallocate preserve it, with SpinLock and without, in any interleaving  *)
(* of any number of threads.                                               *)
THEOREM Invariance == Spec => []IInv
<1>1. JInv /\ [Next]_vars => JInv'
  BY NextKeepsJInv
<1>2. JInv => IInv
  BY OneOwnerIsOwned DEF JInv, IInv
<1> QED
  BY <1>1, <1>2, InitiallyOwned, PTL DEF Spec

(* Every block is in one slot, in the hands of one thread, with the        *)
(* program or with the system: none is handed out twice, freed while it is *)
(* in the ring, or lost.                                                   *)
THEOREM EveryBlockHasOneOwner == Spec => []OneOwner
<1>1. IInv => OneOwner
  BY DEF IInv
<1> QED
  BY <1>1, Invariance, PTL

(* The four totals of the pool account for every block taken from the      *)
(* system and for every block the program has.                             *)
THEOREM TotalsAccountForEveryBlock == Spec => []TotalsAddUp
<1>1. IInv => TotalsAddUp
  BY DEF IInv
<1> QED
  BY <1>1, Invariance, PTL
-----------------------------------------------------------------------------
(* Positions and slots, for PoolAbsorbs. *)

(* Division with remainder by PoolSize. *)
LEMMA Remainder ==
  ASSUME NEW n \in Nat
  PROVE  \E c \in Int : n % PoolSize = n - PoolSize * c
<1>1. PoolSize \in Nat /\ PoolSize > 0
  BY PoolSizeAssumption
<1>2. n \div PoolSize \in Int
  BY <1>1
<1>3. n - PoolSize * (n \div PoolSize) = n % PoolSize
  BY <1>1
<1> QED
  BY <1>2, <1>3

LEMMA OneMultiple ==
  ASSUME NEW c \in Int, -PoolSize < PoolSize * c, PoolSize * c < PoolSize
  PROVE  c = 0
<1>1. PoolSize \in Nat /\ PoolSize > 0
  BY PoolSizeAssumption
<1>2. c >= 1 => PoolSize * c >= PoolSize
  BY <1>1
<1>3. c <= -1 => PoolSize * c <= -PoolSize
  BY <1>1
<1> QED
  BY <1>1, <1>2, <1>3

(* Two positions with the same slot that are less than PoolSize apart are  *)
(* the same.                                                               *)
LEMMA SlotsDiffer ==
  ASSUME NEW i \in Nat, NEW j \in Nat, i < j + PoolSize, j < i + PoolSize,
         i % PoolSize = j % PoolSize
  PROVE  i = j
<1>1. PoolSize \in Nat /\ PoolSize > 0
  BY PoolSizeAssumption
<1>2. PICK a \in Int : i % PoolSize = i - PoolSize * a
  BY Remainder
<1>3. PICK b \in Int : j % PoolSize = j - PoolSize * b
  BY Remainder
<1>4. i - j = PoolSize * a - PoolSize * b
  BY <1>1, <1>2, <1>3
<1>5. PoolSize * (a - b) = PoolSize * a - PoolSize * b
  BY <1>1
<1>6. PICK c \in Int : c = a - b
  OBVIOUS
<1>7. i - j = PoolSize * c
  BY <1>4, <1>5, <1>6
<1>8. c = 0
  BY <1>1, <1>7, OneMultiple
<1>9. PoolSize * 0 = 0
  BY <1>1
<1> QED
  BY <1>7, <1>8, <1>9

(* One turn of the ring leads to the same slot. *)
LEMMA OneTurn ==
  ASSUME NEW i \in Nat
  PROVE  (i + PoolSize) % PoolSize = i % PoolSize
<1>1. PoolSize \in Nat /\ PoolSize > 0
  BY PoolSizeAssumption
<1>2. PICK n \in Nat : n = i + PoolSize
  BY <1>1
<1>3. PICK a \in Int : i % PoolSize = i - PoolSize * a
  BY Remainder
<1>4. PICK b \in Int : n % PoolSize = n - PoolSize * b
  BY Remainder
<1>5. PICK r \in 0 .. PoolSize - 1, s \in 0 .. PoolSize - 1 : r = i % PoolSize /\ s = n % PoolSize
  BY SlotsOfPositions DEF Slots
<1>6. PICK c \in Int : c = (1 + a) - b
  OBVIOUS
<1>7. PoolSize * c = (PoolSize + PoolSize * a) - PoolSize * b
  BY <1>1, <1>6
<1>8. s - r = PoolSize * c
  BY <1>1, <1>2, <1>3, <1>4, <1>5, <1>7
<1>9. c = 0
  BY <1>1, <1>5, <1>8, OneMultiple
<1>10. PoolSize * 0 = 0
  BY <1>1
<1> QED
  BY <1>2, <1>5, <1>8, <1>9, <1>10

-----------------------------------------------------------------------------
(* The calls that have claimed a slot. *)

LEMMA ClaimedSets ==
  ASSUME TypeOK, NEW o
  PROVE  IsFiniteSet(Claimed(o)) /\ Cardinality(Claimed(o)) \in Nat
<1>1. Claimed(o) \in SUBSET Threads
  BY DEF Claimed
<1> QED
  BY <1>1, BlocksAssumption, FS_Subset, FS_CardinalityType

(* Every block that is deallocated was allocated first. *)
LEMMA TailIsBehind ==
  ASSUME JInv, CallsAreCounted
  PROVE  /\ TailPosition <= HeadPosition
         /\ \A t \in Threads :
              pc[t] = "claim" /\ op[t] = "Deallocate" => TailPosition < HeadPosition
<1> DEFINE A == Claimed("Allocate")
           D == Claimed("Deallocate")
<1>1. TypeOK /\ D \subseteq Deallocating /\ IsFiniteSet(D) /\ IsFiniteSet(Deallocating)
  BY ClaimedSets, CountedSets DEF JInv, Claimed, Deallocating
<1>2. PICK a \in Nat, d \in Nat, g \in Nat, i \in Nat :
        /\ a = Cardinality(A) /\ d = Cardinality(D)
        /\ g = Cardinality(Deallocating) /\ i = Cardinality(inUse)
  BY <1>1, ClaimedSets, CountedSets
<1>3. PICK ta \in Nat, td \in Nat, tod \in Nat, H \in Nat, T \in Nat :
        /\ ta = TotalAllocations /\ td = TotalDeallocations /\ tod = TotalOSDeallocations
        /\ H = HeadPosition /\ T = TailPosition
  BY <1>1 DEF TypeOK
<1>4. ta + a <= H /\ td + tod + d = T
  BY <1>2, <1>3 DEF CallsAreCounted
<1>5. ta - td - tod = i + g
  BY <1>2, <1>3, TotalsOf DEF JInv
<1>6. d <= g
  BY <1>1, <1>2, FS_Subset
<1>7. ASSUME NEW t \in Threads, pc[t] = "claim", op[t] = "Deallocate"
      PROVE  d + 1 <= g
  <2>1. t \notin D /\ t \in Deallocating /\ D \union {t} \subseteq Deallocating
    BY <1>1, <1>7 DEF Claimed, Deallocating
  <2>2. Cardinality(D \union {t}) = Cardinality(D) + 1
    BY <1>1, <2>1, AddedElement
  <2>3. Cardinality(D \union {t}) <= Cardinality(Deallocating)
    BY <1>1, <2>1, FS_Subset
  <2> QED
    BY <1>2, <2>2, <2>3
<1>8. T <= H
  BY <1>4, <1>5, <1>6
<1>9. d + 1 <= g => T < H
  BY <1>4, <1>5
<1> QED
  BY <1>3, <1>7, <1>8, <1>9

AtSlot == {"swap", "read", "write", "swapped"}

LEMMA ClaimedStay ==
  ASSUME \A u \in Threads : /\ pc'[u] \in AtSlot <=> pc[u] \in AtSlot
                            /\ pc[u] \in AtSlot => op'[u] = op[u]
  PROVE  \A o : Claimed(o)' = Claimed(o)
  BY DEF Claimed, AtSlot

LEMMA CountsStay ==
  ASSUME CallsAreCounted,
         UNCHANGED <<HeadPosition, TailPosition, totals>>, \A o : Claimed(o)' = Claimed(o)
  PROVE  CallsAreCounted'
  BY DEF CallsAreCounted, totals

(* A step that moves no thread to, at or away from a slot. *)
LEMMA NothingAtSlots ==
  ASSUME RInv, ObjectIsGiven', UNCHANGED <<ring, totals, history>>,
         \A u \in Threads : \/ pc[u] \notin AtSlot /\ pc'[u] \notin AtSlot
                            \/ /\ pc'[u] = pc[u] /\ op'[u] = op[u]
                               /\ slot'[u] = slot[u] /\ found'[u] = found[u]
  PROVE  RInv'
<1> USE DEF ring, history, given
<1>1. CallsAreCounted'
  BY ClaimedStay, CountsStay DEF RInv
<1>2. \A u \in Threads, o \in {"Allocate", "Deallocate"} : Writes(u, o)' <=> Writes(u, o)
  BY DEF Writes, AtSlot
<1>3. IsEnough' <=> IsEnough
  BY DEF IsEnough
<1>4. RingIsWindow => RingIsWindow'
  BY <1>2 DEF RingIsWindow
<1>5. ClaimIsServed => ClaimIsServed'
  <2> SUFFICES ASSUME ClaimIsServed, NEW u \in Threads
               PROVE  /\ Writes(u, "Allocate")' =>
                           /\ TailPosition < HeadPosition
                           /\ slot'[u] = (HeadPosition - 1) % PoolSize
                           /\ Pool[slot'[u]] # NULL
                      /\ Writes(u, "Deallocate")' =>
                           /\ HeadPosition < TailPosition + PoolSize
                           /\ slot'[u] = (TailPosition + PoolSize - 1) % PoolSize
                           /\ Pool[slot'[u]] = NULL
                      /\ pc'[u] = "swapped" => (found'[u] = NULL <=> op'[u] = "Deallocate")
    BY DEF ClaimIsServed
  <2>1. CASE pc[u] \notin AtSlot /\ pc'[u] \notin AtSlot
    BY <2>1 DEF Writes, AtSlot
  <2>2. CASE /\ pc'[u] = pc[u] /\ op'[u] = op[u]
             /\ slot'[u] = slot[u] /\ found'[u] = found[u]
    BY <1>2, <2>2 DEF ClaimIsServed
  <2> QED
    BY <2>1, <2>2
<1>6. PoolAbsorbs'
  BY <1>3 DEF RInv, PoolAbsorbs, totals
<1> QED
  BY <1>1, <1>3, <1>4, <1>5, <1>6 DEF RInv

LEMMA AllocateKeepsRInv ==
  ASSUME JInv, RInv, NEW t \in Threads, Allocate(t)
  PROVE  RInv'
<1>1. /\ pc[t] = "idle" /\ pc'[t] \in {"lock", "claim"} /\ op'[t] = "Allocate"
      /\ \A u \in Threads \ {t} : pc'[u] = pc[u] /\ op'[u] = op[u]
      /\ UNCHANGED <<ring, totals, history, slot, found, obj>>
  BY DEF Allocate, Enter, JInv, TypeOK
<1>2. ObjectIsGiven'
  BY <1>1 DEF RInv, ObjectIsGiven
<1>3. \A u \in Threads : \/ pc[u] \notin AtSlot /\ pc'[u] \notin AtSlot
                         \/ /\ pc'[u] = pc[u] /\ op'[u] = op[u]
                            /\ slot'[u] = slot[u] /\ found'[u] = found[u]
  BY <1>1 DEF AtSlot
<1> QED
  BY <1>1, <1>2, <1>3, NothingAtSlots

LEMMA DeallocateKeepsRInv ==
  ASSUME JInv, RInv, NEW t \in Threads, NEW b \in Blocks, Deallocate(t, b)
  PROVE  RInv'
<1>1. /\ pc[t] = "idle" /\ pc'[t] \in {"lock", "claim"} /\ obj'[t] = b
      /\ \A u \in Threads \ {t} : pc'[u] = pc[u] /\ op'[u] = op[u] /\ obj'[u] = obj[u]
      /\ UNCHANGED <<ring, totals, history, slot, found>>
  BY DEF Deallocate, Enter, JInv, TypeOK
<1>2. ObjectIsGiven'
  BY <1>1 DEF RInv, ObjectIsGiven
<1>3. \A u \in Threads : \/ pc[u] \notin AtSlot /\ pc'[u] \notin AtSlot
                         \/ /\ pc'[u] = pc[u] /\ op'[u] = op[u]
                            /\ slot'[u] = slot[u] /\ found'[u] = found[u]
  BY <1>1 DEF AtSlot
<1> QED
  BY <1>1, <1>2, <1>3, NothingAtSlots

LEMMA LockKeepsRInv ==
  ASSUME JInv, RInv, NEW t \in Threads, Lock(t)
  PROVE  RInv'
<1>1. /\ pc[t] = "lock" /\ pc'[t] = "claim"
      /\ \A u \in Threads \ {t} : pc'[u] = pc[u]
      /\ UNCHANGED <<ring, totals, history, op, slot, found, obj>>
  BY DEF Lock, JInv, TypeOK
<1>2. ObjectIsGiven'
  BY <1>1 DEF RInv, ObjectIsGiven
<1>3. \A u \in Threads : \/ pc[u] \notin AtSlot /\ pc'[u] \notin AtSlot
                         \/ /\ pc'[u] = pc[u] /\ op'[u] = op[u]
                            /\ slot'[u] = slot[u] /\ found'[u] = found[u]
  BY <1>1 DEF AtSlot
<1> QED
  BY <1>1, <1>2, <1>3, NothingAtSlots

LEMMA StutterKeepsRInv ==
  ASSUME RInv, UNCHANGED vars
  PROVE  RInv'
<1>1. UNCHANGED <<ring, totals, history, pc, op, slot, found, obj>>
  BY DEF vars, calls
<1>2. ObjectIsGiven'
  BY <1>1 DEF RInv, ObjectIsGiven
<1> QED
  BY <1>1, <1>2, NothingAtSlots

(* Under the lock nobody else is at a slot. *)
LEMMA AloneAtSlots ==
  ASSUME JInv, IsEnough, NEW t \in Threads, pc[t] \in {"claim", "read", "write"}
  PROVE  \A u \in Threads \ {t} : pc[u] \notin {"claim", "swap", "read", "write"}
  BY DEF JInv, LockIsHeld, IsEnough

LEMMA ClaimIsCounted ==
  ASSUME JInv, CallsAreCounted, NEW t \in Threads, Claim(t)
  PROVE  CallsAreCounted'
<1> DEFINE A == Claimed("Allocate")
           D == Claimed("Deallocate")
<1>1. /\ pc[t] = "claim" /\ pc'[t] \in {"read", "swap"} /\ op' = op
      /\ \A u \in Threads \ {t} : pc'[u] = pc[u]
      /\ UNCHANGED totals
  BY DEF Claim, JInv, TypeOK
<1>2. TypeOK /\ IsFiniteSet(A) /\ IsFiniteSet(D)
  BY ClaimedSets DEF JInv
<1>3. PICK a \in Nat, d \in Nat, H \in Nat, T \in Nat, ta \in Nat, td \in Nat, tod \in Nat :
        /\ a = Cardinality(A) /\ d = Cardinality(D) /\ H = HeadPosition /\ T = TailPosition
        /\ ta = TotalAllocations /\ td = TotalDeallocations /\ tod = TotalOSDeallocations
  BY <1>2, ClaimedSets DEF TypeOK
<1>4. ta + a <= H /\ td + tod + d = T
  BY <1>3 DEF CallsAreCounted
<1>5. CASE ClaimHead(t)
  <2>1. op[t] = "Allocate" /\ HeadPosition' = H + 1 /\ TailPosition' = T
    BY <1>3, <1>5 DEF ClaimHead
  <2>2. A' = A \union {t} /\ t \notin A /\ D' = D
    BY <1>1, <2>1 DEF Claimed
  <2>3. Cardinality(A') = a + 1 /\ Cardinality(D') = d
    BY <1>2, <1>3, <2>2, AddedElement
  <2>4. ta + (a + 1) <= H + 1
    BY <1>4
  <2> QED
    BY <1>1, <1>3, <1>4, <2>1, <2>3, <2>4 DEF CallsAreCounted, totals
<1>6. CASE ClaimTail(t)
  <2>1. op[t] = "Deallocate" /\ HeadPosition' = H /\ TailPosition' = T + 1
    BY <1>3, <1>6 DEF ClaimTail
  <2>2. D' = D \union {t} /\ t \notin D /\ A' = A
    BY <1>1, <2>1 DEF Claimed
  <2>3. Cardinality(D') = d + 1 /\ Cardinality(A') = a
    BY <1>2, <1>3, <2>2, AddedElement
  <2>4. td + tod + (d + 1) = T + 1
    BY <1>4
  <2> QED
    BY <1>1, <1>3, <1>4, <2>1, <2>3, <2>4 DEF CallsAreCounted, totals
<1> QED
  BY <1>5, <1>6 DEF Claim

(* The slot of HeadPosition is full when the ring is enough. *)
LEMMA ClaimHeadIsServed ==
  ASSUME JInv, RInv, NEW t \in Threads, Claim(t), ClaimHead(t), IsEnough, IsEnough'
  PROVE  RingIsWindow' /\ ClaimIsServed'
<1>1. PICK N \in Nat, H \in Nat, T \in Nat :
        N = PoolSize /\ N > 0 /\ H = HeadPosition /\ T = TailPosition
  BY PoolSizeAssumption DEF JInv, TypeOK
<1>2. /\ pc[t] = "claim" /\ pc'[t] = "read" /\ op' = op /\ op[t] = "Allocate"
      /\ \A u \in Threads \ {t} : /\ pc'[u] = pc[u] /\ slot'[u] = slot[u]
                                  /\ pc[u] \notin {"read", "write"}
      /\ slot'[t] = H % N /\ HeadPosition' = H + 1 /\ TailPosition' = T
      /\ Pool' = Pool /\ found' = found
  BY <1>1, AloneAtSlots DEF Claim, ClaimHead, JInv, TypeOK, IsEnough
<1>3. H + 1 <= T + N
  <2>1. ~ (HeadPosition' - TailPosition' > PoolSize)
    BY DEF Claim, IsEnough
  <2>2. ~ ((H + 1) - T > N)
    BY <1>1, <1>2, <2>1
  <2> QED
    BY <2>2
<1>4. T <= H
  BY <1>1, TailIsBehind DEF RInv
<1>5. /\ \A u \in Threads : ~ Writes(u, "Allocate") /\ ~ Writes(u, "Deallocate")
      /\ Writes(t, "Allocate")'
      /\ \A u \in Threads : ~ Writes(u, "Deallocate")' /\ (Writes(u, "Allocate")' => u = t)
  BY <1>2 DEF Writes
<1>6. /\ \A i \in T .. H - 1 : Pool[i % N] = NULL
      /\ \A i \in H .. T + N - 1 : Pool[i % N] # NULL
  BY <1>1, <1>5 DEF RInv, RingIsWindow
<1>7. Pool[H % N] # NULL
  BY <1>3, <1>4, <1>6
<1>8. RingIsWindow'
  <2>1. \A i \in T .. (H + 1) - 1 : Pool[i % N] = NULL \/ i = (H + 1) - 1
    BY <1>6
  <2>2. \A i \in H + 1 .. T + N - 1 : Pool[i % N] # NULL
    BY <1>6
  <2> QED
    BY <1>1, <1>2, <1>3, <1>5, <2>1, <2>2 DEF RingIsWindow
<1>9. ClaimIsServed'
  <2>1. T < H + 1 /\ (H + 1) - 1 = H
    BY <1>4
  <2>2. \A u \in Threads : pc'[u] = "swapped" => (found'[u] = NULL <=> op'[u] = "Deallocate")
    BY <1>2 DEF RInv, ClaimIsServed
  <2> QED
    BY <1>1, <1>2, <1>5, <1>7, <2>1, <2>2 DEF ClaimIsServed
<1> QED
  BY <1>8, <1>9

(* And the slot of TailPosition is empty. *)
LEMMA ClaimTailIsServed ==
  ASSUME JInv, RInv, NEW t \in Threads, Claim(t), ClaimTail(t), IsEnough, IsEnough'
  PROVE  RingIsWindow' /\ ClaimIsServed'
<1>1. PICK N \in Nat, H \in Nat, T \in Nat :
        N = PoolSize /\ N > 0 /\ H = HeadPosition /\ T = TailPosition
  BY PoolSizeAssumption DEF JInv, TypeOK
<1>2. /\ pc[t] = "claim" /\ pc'[t] = "read" /\ op' = op /\ op[t] = "Deallocate"
      /\ \A u \in Threads \ {t} : /\ pc'[u] = pc[u] /\ slot'[u] = slot[u]
                                  /\ pc[u] \notin {"read", "write"}
      /\ slot'[t] = T % N /\ HeadPosition' = H /\ TailPosition' = T + 1
      /\ Pool' = Pool /\ found' = found
  BY <1>1, AloneAtSlots DEF Claim, ClaimTail, JInv, TypeOK, IsEnough
<1>3. T < H
  BY <1>1, <1>2, TailIsBehind DEF RInv
<1>4. /\ \A u \in Threads : ~ Writes(u, "Allocate") /\ ~ Writes(u, "Deallocate")
      /\ Writes(t, "Deallocate")'
      /\ \A u \in Threads : ~ Writes(u, "Allocate")' /\ (Writes(u, "Deallocate")' => u = t)
  BY <1>2 DEF Writes
<1>5. /\ H <= T + N
      /\ \A i \in T .. H - 1 : Pool[i % N] = NULL
      /\ \A i \in H .. T + N - 1 : Pool[i % N] # NULL
  BY <1>1, <1>4 DEF RInv, RingIsWindow
<1>6. Pool[T % N] = NULL
  BY <1>3, <1>5
<1>7. (T + N) % N = T % N
  BY <1>1, OneTurn
<1>8. RingIsWindow'
  <2>1. \A i \in T + 1 .. H - 1 : Pool[i % N] = NULL
    BY <1>5
  <2>2. \A i \in H .. (T + 1) + N - 1 : Pool[i % N] # NULL \/ i = (T + 1) + N - 1
    BY <1>5
  <2>3. H <= (T + 1) + N
    BY <1>5
  <2> QED
    BY <1>1, <1>2, <1>4, <2>1, <2>2, <2>3 DEF RingIsWindow
<1>9. ClaimIsServed'
  <2>1. H < (T + 1) + N /\ (T + 1) + N - 1 = T + N
    BY <1>5
  <2>2. \A u \in Threads : pc'[u] = "swapped" => (found'[u] = NULL <=> op'[u] = "Deallocate")
    BY <1>2 DEF RInv, ClaimIsServed
  <2> QED
    BY <1>1, <1>2, <1>4, <1>6, <1>7, <2>1, <2>2 DEF ClaimIsServed
<1> QED
  BY <1>8, <1>9

LEMMA ClaimKeepsRInv ==
  ASSUME JInv, RInv, NEW t \in Threads, Claim(t)
  PROVE  RInv'
<1>1. CallsAreCounted'
  BY ClaimIsCounted DEF RInv
<1>2. ObjectIsGiven'
  <2>1. /\ pc[t] = "claim" /\ op' = op /\ obj' = obj
        /\ \A u \in Threads \ {t} : pc'[u] = pc[u]
    BY DEF Claim, JInv, TypeOK
  <2> QED
    BY <2>1 DEF RInv, ObjectIsGiven
<1>3. IsEnough' => IsEnough
  BY DEF Claim, given, IsEnough
<1>4. IsEnough' => RingIsWindow' /\ ClaimIsServed'
  BY <1>3, ClaimHeadIsServed, ClaimTailIsServed DEF Claim
<1>5. PoolAbsorbs'
  BY <1>3 DEF RInv, PoolAbsorbs, IsEnough, Claim, totals
<1> QED
  BY <1>1, <1>2, <1>4, <1>5 DEF RInv

LEMMA SwapKeepsRInv ==
  ASSUME JInv, RInv, NEW t \in Threads, Swap(t)
  PROVE  RInv'
<1>1. /\ pc[t] = "swap" /\ pc'[t] = "swapped" /\ op' = op /\ obj' = obj
      /\ \A u \in Threads \ {t} : pc'[u] = pc[u]
      /\ UNCHANGED <<HeadPosition, TailPosition, totals, history>>
  BY DEF Swap, JInv, TypeOK
<1>2. CallsAreCounted'
  <2>1. \A u \in Threads : pc'[u] \in AtSlot <=> pc[u] \in AtSlot
    BY <1>1 DEF AtSlot
  <2> QED
    BY <1>1, <2>1, ClaimedStay, CountsStay DEF RInv
<1>3. ObjectIsGiven'
  BY <1>1 DEF RInv, ObjectIsGiven
<1>4. ~ IsEnough'
  BY <1>1 DEF JInv, LockIsHeld, IsEnough, history, given
<1>5. PoolAbsorbs'
  BY <1>4 DEF PoolAbsorbs, IsEnough
<1> QED
  BY <1>2, <1>3, <1>4, <1>5 DEF RInv

LEMMA ReadSlotKeepsRInv ==
  ASSUME JInv, RInv, NEW t \in Threads, ReadSlot(t)
  PROVE  RInv'
<1>1. /\ pc[t] = "read" /\ pc'[t] = "write" /\ op' = op /\ obj' = obj /\ slot' = slot
      /\ \A u \in Threads \ {t} : pc'[u] = pc[u] /\ found'[u] = found[u]
      /\ UNCHANGED <<ring, totals, history>>
  BY DEF ReadSlot, JInv, TypeOK
<1>2. CallsAreCounted'
  <2>1. \A u \in Threads : pc'[u] \in AtSlot <=> pc[u] \in AtSlot
    BY <1>1 DEF AtSlot
  <2> QED
    BY <1>1, <2>1, ClaimedStay, CountsStay DEF RInv, ring
<1>3. ObjectIsGiven'
  BY <1>1 DEF RInv, ObjectIsGiven
<1>4. IsEnough' <=> IsEnough
  BY <1>1 DEF IsEnough, history, given
<1>5. \A u \in Threads, o \in {"Allocate", "Deallocate"} : Writes(u, o)' <=> Writes(u, o)
  BY <1>1 DEF Writes
<1>6. RingIsWindow => RingIsWindow'
  BY <1>1, <1>5 DEF RingIsWindow, ring
<1>7. ClaimIsServed => ClaimIsServed'
  BY <1>1, <1>5 DEF ClaimIsServed, ring
<1>8. PoolAbsorbs'
  BY <1>1, <1>4 DEF RInv, PoolAbsorbs, IsEnough, totals, history, given
<1> QED
  BY <1>2, <1>3, <1>4, <1>6, <1>7, <1>8 DEF RInv

(* The write empties the slot of an Allocate and fills the one of a        *)
(* Deallocate; it is no other position's slot.                             *)
LEMMA WriteIsServed ==
  ASSUME JInv, RInv, NEW t \in Threads, WriteSlot(t), IsEnough
  PROVE  RingIsWindow' /\ ClaimIsServed'
<1>1. PICK N \in Nat, H \in Nat, T \in Nat :
        N = PoolSize /\ N > 0 /\ H = HeadPosition /\ T = TailPosition
  BY PoolSizeAssumption DEF JInv, TypeOK
<1>2. PICK s \in Slots : s = slot[t]
  BY DEF JInv, TypeOK
<1>3. /\ pc[t] = "write" /\ pc'[t] = "swapped" /\ op' = op /\ found' = found
      /\ \A u \in Threads \ {t} : pc'[u] = pc[u] /\ pc[u] \notin {"read", "write"}
      /\ Pool'[s] = Left(t) /\ \A i \in Slots : i # s => Pool'[i] = Pool[i]
      /\ HeadPosition' = H /\ TailPosition' = T
      /\ found[t] = Pool[s]
  BY <1>1, <1>2, AloneAtSlots DEF WriteSlot, JInv, TypeOK, ReadIsCurrent
<1>4. T <= H /\ H <= T + N
  BY <1>1, TailIsBehind DEF RInv, RingIsWindow
<1>5. \A u \in Threads : ~ Writes(u, "Allocate")' /\ ~ Writes(u, "Deallocate")'
  BY <1>3 DEF Writes
<1>6. \A u \in Threads \ {t} : ~ Writes(u, "Allocate") /\ ~ Writes(u, "Deallocate")
  BY <1>3 DEF Writes
<1>7. \A u \in Threads \ {t} : pc'[u] = "swapped" => (found'[u] = NULL <=> op'[u] = "Deallocate")
  BY <1>3 DEF RInv, ClaimIsServed
<1>8. CASE op[t] = "Allocate"
  <2>1. Writes(t, "Allocate") /\ ~ Writes(t, "Deallocate") /\ Left(t) = NULL
    BY <1>3, <1>8 DEF Writes, Left
  <2>2. T < H /\ s = (H - 1) % N /\ Pool[s] # NULL
    BY <1>1, <1>2, <2>1 DEF RInv, ClaimIsServed
  <2>3. /\ \A i \in T .. H - 1 : Pool[i % N] = NULL \/ i = H - 1
        /\ \A i \in H .. T + N - 1 : Pool[i % N] # NULL
    BY <1>1, <1>6, <2>1 DEF RInv, RingIsWindow
  <2>4. \A i \in T .. H - 1 : Pool'[i % N] = NULL
    <3> SUFFICES ASSUME NEW i \in T .. H - 1 PROVE Pool'[i % N] = NULL
      OBVIOUS
    <3>1. i % N \in Slots
      BY <1>1, SlotsOfPositions
    <3> QED
      BY <1>3, <2>1, <2>2, <2>3, <3>1
  <2>5. \A i \in H .. T + N - 1 : Pool'[i % N] # NULL
    <3> SUFFICES ASSUME NEW i \in H .. T + N - 1 PROVE Pool'[i % N] # NULL
      OBVIOUS
    <3>1. i \in Nat /\ H - 1 \in Nat /\ i < (H - 1) + N /\ H - 1 < i + N /\ i # H - 1
      BY <1>1, <2>2
    <3>2. i % N \in Slots /\ i % N # s
      BY <1>1, <2>2, <3>1, SlotsOfPositions, SlotsDiffer
    <3> QED
      BY <1>3, <2>3, <3>2
  <2>6. RingIsWindow'
    BY <1>1, <1>3, <1>4, <2>4, <2>5 DEF RingIsWindow
  <2>7. ClaimIsServed'
    BY <1>3, <1>5, <1>7, <1>8, <2>2 DEF ClaimIsServed
  <2> QED
    BY <2>6, <2>7
<1>9. CASE op[t] = "Deallocate"
  <2>1. Writes(t, "Deallocate") /\ ~ Writes(t, "Allocate") /\ Left(t) # NULL
    BY <1>3, <1>9 DEF Writes, Left, RInv, ObjectIsGiven
  <2>2. H < T + N /\ s = (T + N - 1) % N /\ Pool[s] = NULL
    BY <1>1, <1>2, <2>1 DEF RInv, ClaimIsServed
  <2>3. /\ \A i \in T .. H - 1 : Pool[i % N] = NULL
        /\ \A i \in H .. T + N - 1 : Pool[i % N] # NULL \/ i = T + N - 1
    BY <1>1, <1>6, <2>1 DEF RInv, RingIsWindow
  <2>4. \A i \in T .. H - 1 : Pool'[i % N] = NULL
    <3> SUFFICES ASSUME NEW i \in T .. H - 1 PROVE Pool'[i % N] = NULL
      OBVIOUS
    <3>1. /\ i \in Nat /\ T + N - 1 \in Nat
          /\ i < (T + N - 1) + N /\ T + N - 1 < i + N /\ i # T + N - 1
      BY <1>1, <2>2
    <3>2. i % N \in Slots /\ i % N # s
      BY <1>1, <2>2, <3>1, SlotsOfPositions, SlotsDiffer
    <3> QED
      BY <1>3, <2>3, <3>2
  <2>5. \A i \in H .. T + N - 1 : Pool'[i % N] # NULL
    <3> SUFFICES ASSUME NEW i \in H .. T + N - 1 PROVE Pool'[i % N] # NULL
      OBVIOUS
    <3>1. i % N \in Slots
      BY <1>1, SlotsOfPositions
    <3> QED
      BY <1>3, <2>1, <2>2, <2>3, <3>1
  <2>6. RingIsWindow'
    BY <1>1, <1>3, <1>4, <2>4, <2>5 DEF RingIsWindow
  <2>7. ClaimIsServed'
    BY <1>3, <1>5, <1>7, <1>9, <2>2 DEF ClaimIsServed
  <2> QED
    BY <2>6, <2>7
<1> QED
  BY <1>8, <1>9 DEF JInv, TypeOK

LEMMA WriteSlotKeepsRInv ==
  ASSUME JInv, RInv, NEW t \in Threads, WriteSlot(t)
  PROVE  RInv'
<1>1. /\ pc[t] = "write" /\ pc'[t] = "swapped" /\ op' = op /\ obj' = obj
      /\ \A u \in Threads \ {t} : pc'[u] = pc[u]
      /\ UNCHANGED <<HeadPosition, TailPosition, totals, history>>
  BY DEF WriteSlot, JInv, TypeOK
<1>2. CallsAreCounted'
  <2>1. \A u \in Threads : pc'[u] \in AtSlot <=> pc[u] \in AtSlot
    BY <1>1 DEF AtSlot
  <2> QED
    BY <1>1, <2>1, ClaimedStay, CountsStay DEF RInv
<1>3. ObjectIsGiven'
  BY <1>1 DEF RInv, ObjectIsGiven
<1>4. IsEnough' <=> IsEnough
  BY <1>1 DEF IsEnough, history, given
<1>5. PoolAbsorbs'
  BY <1>1, <1>4 DEF RInv, PoolAbsorbs, IsEnough, totals, history, given
<1> QED
  BY <1>2, <1>3, <1>4, <1>5, WriteIsServed DEF RInv

(* A return gives up its slot and is counted for it, unless it failed. *)
LEMMA ReturnIsCounted ==
  ASSUME JInv, JInv', CallsAreCounted, NEW t \in Threads, NEW o, Swapped(t, o),
         \/ /\ o = "Allocate"
            /\ TotalAllocations' <= TotalAllocations + 1
            /\ UNCHANGED <<TotalDeallocations, TotalOSDeallocations>>
         \/ /\ o = "Deallocate"
            /\ TotalDeallocations' + TotalOSDeallocations'
                 = TotalDeallocations + TotalOSDeallocations + 1
            /\ UNCHANGED TotalAllocations
  PROVE  CallsAreCounted'
<1> DEFINE A == Claimed("Allocate")
           D == Claimed("Deallocate")
<1>1. /\ pc[t] = "swapped" /\ op[t] = o /\ pc'[t] = "idle" /\ op' = op
      /\ \A u \in Threads \ {t} : pc'[u] = pc[u]
      /\ HeadPosition' = HeadPosition /\ TailPosition' = TailPosition
  BY DEF Swapped, ring, JInv, TypeOK
<1>2. TypeOK /\ TypeOK' /\ IsFiniteSet(A) /\ IsFiniteSet(D)
  BY ClaimedSets DEF JInv
<1>3. PICK a \in Nat, d \in Nat, H \in Nat, T \in Nat, ta \in Nat, td \in Nat, tod \in Nat :
        /\ a = Cardinality(A) /\ d = Cardinality(D) /\ H = HeadPosition /\ T = TailPosition
        /\ ta = TotalAllocations /\ td = TotalDeallocations /\ tod = TotalOSDeallocations
  BY <1>2, ClaimedSets DEF TypeOK
<1>4. PICK ua \in Nat, ud \in Nat, uod \in Nat :
        ua = TotalAllocations' /\ ud = TotalDeallocations' /\ uod = TotalOSDeallocations'
  BY <1>2 DEF TypeOK
<1>5. ta + a <= H /\ td + tod + d = T
  BY <1>3 DEF CallsAreCounted
<1>6. CASE o = "Allocate"
  <2>1. ua <= ta + 1 /\ ud = td /\ uod = tod
    BY <1>3, <1>4, <1>6
  <2>2. A' = A \ {t} /\ t \in A /\ D' = D
    BY <1>1, <1>6 DEF Claimed
  <2>3. Cardinality(A') = a - 1 /\ Cardinality(D') = d
    BY <1>2, <1>3, <2>2, RemovedElement
  <2>4. ua + (a - 1) <= H
    BY <1>5, <2>1
  <2> QED
    BY <1>1, <1>3, <1>4, <1>5, <2>1, <2>3, <2>4 DEF CallsAreCounted
<1>7. CASE o = "Deallocate"
  <2>1. ua = ta /\ ud + uod = td + tod + 1
    BY <1>3, <1>4, <1>7
  <2>2. D' = D \ {t} /\ t \in D /\ A' = A
    BY <1>1, <1>7 DEF Claimed
  <2>3. Cardinality(D') = d - 1 /\ Cardinality(A') = a
    BY <1>2, <1>3, <2>2, RemovedElement
  <2>4. ud + uod + (d - 1) = T
    BY <1>5, <2>1
  <2> QED
    BY <1>1, <1>3, <1>4, <1>5, <2>1, <2>3, <2>4 DEF CallsAreCounted
<1> QED
  BY <1>6, <1>7

LEMMA ReturnKeepsRInv ==
  ASSUME JInv, RInv, NEW t \in Threads, NEW o, Swapped(t, o), CallsAreCounted',
         IsEnough => UNCHANGED <<TotalOSAllocations, TotalOSDeallocations>>
  PROVE  RInv'
<1>1. /\ pc[t] = "swapped" /\ pc'[t] = "idle" /\ op' = op /\ slot' = slot
      /\ \A u \in Threads \ {t} : pc'[u] = pc[u] /\ found'[u] = found[u] /\ obj'[u] = obj[u]
      /\ UNCHANGED <<ring, history>>
  BY DEF Swapped, JInv, TypeOK
<1>2. ObjectIsGiven'
  BY <1>1 DEF RInv, ObjectIsGiven
<1>3. IsEnough' <=> IsEnough
  BY <1>1 DEF IsEnough, history, given
<1>4. \A u \in Threads, w \in {"Allocate", "Deallocate"} : Writes(u, w)' <=> Writes(u, w)
  BY <1>1 DEF Writes
<1>5. RingIsWindow => RingIsWindow'
  BY <1>1, <1>4 DEF RingIsWindow, ring
<1>6. ClaimIsServed => ClaimIsServed'
  BY <1>1, <1>4 DEF ClaimIsServed, ring
<1>7. PoolAbsorbs'
  BY <1>3 DEF RInv, PoolAbsorbs, IsEnough
<1> QED
  BY <1>2, <1>3, <1>5, <1>6, <1>7 DEF RInv

(* While the ring is enough, an Allocate finds a block and a Deallocate    *)
(* finds none, so nobody goes to the system.                               *)
LEMMA FinishKeepsRInv ==
  ASSUME JInv, JInv', RInv, NEW t \in Threads, Finish(t)
  PROVE  RInv'
<1>1. /\ {TotalAllocations, TotalDeallocations, TotalOSDeallocations} \subseteq Nat
      /\ CallsAreCounted
  BY DEF JInv, TypeOK, RInv
<1>2. ASSUME IsEnough, pc[t] = "swapped" PROVE found[t] = NULL <=> op[t] = "Deallocate"
  BY <1>2 DEF RInv, ClaimIsServed
<1>3. CASE AllocatedFromPool(t)
  <2>1. /\ Swapped(t, "Allocate") /\ TotalAllocations' <= TotalAllocations + 1
        /\ UNCHANGED <<TotalDeallocations, TotalOSAllocations, TotalOSDeallocations>>
    BY <1>1, <1>3 DEF AllocatedFromPool
  <2>2. CallsAreCounted'
    BY <1>1, <2>1, ReturnIsCounted
  <2> QED
    BY <2>1, <2>2, ReturnKeepsRInv
<1>4. CASE AllocatedFromOS(t)
  <2>1. /\ Swapped(t, "Allocate") /\ TotalAllocations' <= TotalAllocations + 1
        /\ found[t] = NULL
        /\ UNCHANGED <<TotalDeallocations, TotalOSDeallocations>>
    BY <1>1, <1>4 DEF AllocatedFromOS
  <2>2. CallsAreCounted'
    BY <1>1, <2>1, ReturnIsCounted
  <2>3. ~ IsEnough
    BY <1>2, <2>1 DEF Swapped
  <2> QED
    BY <2>1, <2>2, <2>3, ReturnKeepsRInv
<1>5. CASE AllocateFails(t)
  <2>1. Swapped(t, "Allocate") /\ UNCHANGED totals
    BY <1>5 DEF AllocateFails
  <2>2. TotalAllocations' <= TotalAllocations + 1
    BY <1>1, <2>1 DEF totals
  <2>3. CallsAreCounted'
    BY <1>1, <2>1, <2>2, ReturnIsCounted DEF totals
  <2> QED
    BY <2>1, <2>3, ReturnKeepsRInv DEF totals
<1>6. CASE DeallocatedToPool(t)
  <2>1. /\ Swapped(t, "Deallocate") /\ TotalDeallocations' = TotalDeallocations + 1
        /\ UNCHANGED <<TotalAllocations, TotalOSAllocations, TotalOSDeallocations>>
    BY <1>6 DEF DeallocatedToPool
  <2>2. TotalDeallocations' + TotalOSDeallocations'
          = TotalDeallocations + TotalOSDeallocations + 1
    BY <1>1, <2>1
  <2>3. CallsAreCounted'
    BY <1>1, <2>1, <2>2, ReturnIsCounted
  <2> QED
    BY <2>1, <2>3, ReturnKeepsRInv
<1>7. CASE DeallocatedToOS(t)
  <2>1. /\ Swapped(t, "Deallocate") /\ TotalOSDeallocations' = TotalOSDeallocations + 1
        /\ found[t] # NULL
        /\ UNCHANGED <<TotalAllocations, TotalDeallocations, TotalOSAllocations>>
    BY <1>7 DEF DeallocatedToOS
  <2>2. TotalDeallocations' + TotalOSDeallocations'
          = TotalDeallocations + TotalOSDeallocations + 1
    BY <1>1, <2>1
  <2>3. CallsAreCounted'
    BY <1>1, <2>1, <2>2, ReturnIsCounted
  <2>4. ~ IsEnough
    BY <1>2, <2>1 DEF Swapped
  <2> QED
    BY <2>1, <2>3, <2>4, ReturnKeepsRInv
<1> QED
  BY <1>3, <1>4, <1>5, <1>6, <1>7 DEF Finish

LEMMA InitRInv == Init => RInv
<1> SUFFICES ASSUME Init PROVE RInv
  OBVIOUS
<1>1. CallsAreCounted
  <2>1. \A o : Claimed(o) = {}
    BY DEF Init, Claimed
  <2>2. \A o : Cardinality(Claimed(o)) = 0
    BY <2>1, FS_EmptySet
  <2> QED
    BY <2>2 DEF Init, CallsAreCounted
<1>2. ObjectIsGiven /\ PoolAbsorbs
  BY DEF Init, ObjectIsGiven, PoolAbsorbs
<1>3. ASSUME IsEnough PROVE RingIsWindow
  <2>1. PICK N \in Nat : N = PoolSize /\ N > 0 /\ Slots = 0 .. N - 1
    BY PoolSizeAssumption DEF Slots
  <2>2. \A i \in Slots : Pool[i] # NULL
    BY <1>3, <2>1 DEF Init, Preallocated, IsEnough
  <2>3. \A i \in 0 .. 0 + N - 1 : Pool[i % N] # NULL
    BY <2>1, <2>2, SlotsOfPositions
  <2>4. HeadPosition = 0 /\ TailPosition = 0
    BY DEF Init
  <2>5. 0 <= 0 + N /\ \A i \in 0 .. 0 - 1 : FALSE
    OBVIOUS
  <2> QED
    BY <2>1, <2>3, <2>4, <2>5 DEF RingIsWindow
<1>4. ClaimIsServed
  BY DEF Init, ClaimIsServed, Writes
<1> QED
  BY <1>1, <1>2, <1>3, <1>4 DEF RInv

LEMMA NextKeepsRInv == JInv /\ RInv /\ [Next]_vars => RInv'
<1> SUFFICES ASSUME JInv, RInv, [Next]_vars PROVE RInv'
  OBVIOUS
<1>1. ASSUME NEW t \in Threads, Allocate(t) PROVE RInv'
  BY <1>1, AllocateKeepsRInv
<1>2. ASSUME NEW t \in Threads, NEW b \in Blocks, Deallocate(t, b) PROVE RInv'
  BY <1>2, DeallocateKeepsRInv
<1>3. ASSUME NEW t \in Threads, Exchange(t) PROVE RInv'
  BY <1>3, LockKeepsRInv, ClaimKeepsRInv, SwapKeepsRInv, ReadSlotKeepsRInv, WriteSlotKeepsRInv
     DEF Exchange
<1>4. ASSUME NEW t \in Threads, Finish(t) PROVE RInv'
  BY <1>4, FinishKeepsRInv, NextKeepsJInv
<1>5. CASE UNCHANGED vars
  BY <1>5, StutterKeepsRInv
<1> QED
  BY <1>1, <1>2, <1>3, <1>4, <1>5 DEF Next

(* In every reachable state TailPosition is not ahead of HeadPosition, and *)
(* a ring that is enough is empty between them and full everywhere else,   *)
(* but for the slot of the call that holds the lock.                       *)
THEOREM RingInvariance == Spec => []RInv
<1>1. Init => JInv /\ RInv
  BY InitiallyOwned, InitRInv
<1>2. JInv /\ RInv /\ [Next]_vars => (JInv /\ RInv)'
  BY NextKeepsJInv, NextKeepsRInv
<1> QED
  BY <1>1, <1>2, PTL DEF Spec

(* Under the lock a preallocated ring serves a program that never has more *)
(* than PoolSize objects out without one call of the system.               *)
THEOREM FullRingSparesTheSystem == Spec => []PoolAbsorbs
<1>1. RInv => PoolAbsorbs
  BY DEF RInv
<1> QED
  BY <1>1, RingInvariance, PTL
=============================================================================
