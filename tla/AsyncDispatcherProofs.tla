----------------------- MODULE AsyncDispatcherProofs ------------------------
(***************************************************************************)
(* For any number of threads, dispatchers and tasks and for lists that     *)
(* shift at any slack: AsyncDispatcher keeps IInv, hence one consumer for  *)
(* each busy dispatcher, exact counts, and no use after destruction.       *)
(***************************************************************************)
EXTENDS AsyncDispatcher, FiniteSetTheorems, SequenceTheorems, TLAPS

USE NullAssumption DEF InCall

-----------------------------------------------------------------------------
(* Cardinalities. *)

(* Two sets that differ in one element at most. *)
LEMMA OneElement ==
  ASSUME NEW S, NEW U, NEW x, IsFiniteSet(S), \A y : y # x => (y \in S <=> y \in U)
  PROVE  /\ IsFiniteSet(U)
         /\ Cardinality(S) \in Nat /\ Cardinality(U) \in Nat
         /\ Cardinality(U) + (IF x \in S THEN 1 ELSE 0)
              = Cardinality(S) + (IF x \in U THEN 1 ELSE 0)
<1>1. IsFiniteSet(S \union {x}) /\ IsFiniteSet(S \ {x})
      /\ Cardinality(S \union {x}) = (IF x \in S THEN Cardinality(S) ELSE Cardinality(S) + 1)
      /\ Cardinality(S \ {x}) = (IF x \in S THEN Cardinality(S) - 1 ELSE Cardinality(S))
  BY FS_AddElement, FS_RemoveElement
<1>2. U = S \/ U = S \union {x} \/ U = S \ {x}
  <2>1. CASE x \in U
    <3>1. U = S \union {x}
      BY <2>1
    <3> QED
      BY <3>1
  <2>2. CASE x \notin U
    <3>1. U = S \ {x}
      BY <2>2
    <3> QED
      BY <3>1
  <2> QED
    BY <2>1, <2>2
<1>3. IsFiniteSet(U)
  BY <1>1, <1>2
<1>4. Cardinality(S) \in Nat /\ Cardinality(U) \in Nat
  BY <1>3, FS_CardinalityType
<1>5. CASE U = S
  BY <1>3, <1>4, <1>5
<1>6. CASE U = S \union {x}
  BY <1>1, <1>3, <1>4, <1>6
<1>7. CASE U = S \ {x}
  BY <1>1, <1>3, <1>4, <1>7
<1> QED
  BY <1>2, <1>5, <1>6, <1>7

LEMMA CountedThreads ==
  ASSUME NEW d
  PROVE  /\ IsFiniteSet(Exchanging(d)) /\ Cardinality(Exchanging(d)) \in Nat
         /\ IsFiniteSet(Executing(d)) /\ Cardinality(Executing(d)) \in Nat
         /\ Cardinality(Exchanging(d)) = 0 <=> Exchanging(d) = {}
         /\ Cardinality(Executing(d)) = 0 <=> Executing(d) = {}
<1>1. Exchanging(d) \in SUBSET Threads /\ Executing(d) \in SUBSET Threads
  BY DEF Exchanging, Executing
<1>2. IsFiniteSet(Exchanging(d)) /\ IsFiniteSet(Executing(d))
  BY <1>1, FS_Subset, ThreadsAssumption
<1> QED
  BY <1>2, FS_CardinalityType, FS_EmptySet

(***************************************************************************)
(* What is in Consumers(d) and in References(d).                           *)
(***************************************************************************)
LEMMA WhoConsumes ==
  ASSUME NEW d, NEW u \in Threads
  PROVE  /\ <<u, "flush">> \in Consumers(d) <=> Flushes(u, d)
         /\ <<u, "dispatch">> \in Consumers(d) <=> Becoming(u, d)
         /\ <<u, "list">> \in Consumers(d) <=> d \in Waiting(u)
BY DEF Consumers

LEMMA WhoConsumesNext ==
  ASSUME NEW d, NEW u \in Threads
  PROVE  /\ <<u, "flush">> \in Consumers(d)' <=> Flushes(u, d)'
         /\ <<u, "dispatch">> \in Consumers(d)' <=> Becoming(u, d)'
         /\ <<u, "list">> \in Consumers(d)' <=> (d \in Waiting(u))'
BY DEF Consumers

LEMMA KindsOfConsumers ==
  ASSUME NEW d, NEW c \in Consumers(d)
  PROVE  \E u \in Threads : \/ c = <<u, "flush">> /\ Flushes(u, d)
                            \/ c = <<u, "dispatch">> /\ Becoming(u, d)
                            \/ c = <<u, "list">> /\ d \in Waiting(u)
BY DEF Consumers

LEMMA KindsOfConsumersNext ==
  ASSUME NEW d, NEW c \in Consumers(d)'
  PROVE  \E u \in Threads : \/ c = <<u, "flush">> /\ Flushes(u, d)'
                            \/ c = <<u, "dispatch">> /\ Becoming(u, d)'
                            \/ c = <<u, "list">> /\ (d \in Waiting(u))'
BY DEF Consumers

LEMMA ReferenceKinds ==
  ASSUME NEW d, NEW r
  PROVE  r \in References(d) <=>
           \/ r = <<"owner", NULL, NULL>> /\ owned[d]
           \/ \E u \in Threads : \E e \in timers[u] : r = <<"timer", u, e>> /\ e.origin = d
           \/ \E u \in Threads : r = <<"occupant", u, NULL>> /\ occupant[u] = d
           \/ \E u \in Threads : r = <<"list", u, NULL>> /\ d \in Waiting(u)
           \/ \E u \in Threads : r = <<"flush", u, NULL>> /\ listed[u] /\ flushing[u] = d
           \/ r = <<"lost", NULL, NULL>> /\ d \in lost
<1>1. r \in OwnerReference(d) <=> r = <<"owner", NULL, NULL>> /\ owned[d]
  BY DEF OwnerReference
<1>2. r \in TimerReferences(d) <=> \E u \in Threads : \E e \in timers[u] : r = <<"timer", u, e>> /\ e.origin = d
  BY DEF TimerReferences, EntriesOf
<1>3. r \in OccupantReferences(d) <=> \E u \in Threads : r = <<"occupant", u, NULL>> /\ occupant[u] = d
  BY DEF OccupantReferences
<1>4. r \in ListReferences(d) <=> \E u \in Threads : r = <<"list", u, NULL>> /\ d \in Waiting(u)
  BY DEF ListReferences
<1>5. r \in FlushReferences(d) <=> \E u \in Threads : r = <<"flush", u, NULL>> /\ listed[u] /\ flushing[u] = d
  BY DEF FlushReferences
<1>6. r \in LostReference(d) <=> r = <<"lost", NULL, NULL>> /\ d \in lost
  BY DEF LostReference
<1> QED
  BY <1>1, <1>2, <1>3, <1>4, <1>5, <1>6 DEF References

LEMMA ReferenceKindsNext ==
  ASSUME NEW d, NEW r
  PROVE  r \in References(d)' <=>
           \/ r = <<"owner", NULL, NULL>> /\ owned'[d]
           \/ \E u \in Threads : \E e \in timers'[u] : r = <<"timer", u, e>> /\ e.origin = d
           \/ \E u \in Threads : r = <<"occupant", u, NULL>> /\ occupant'[u] = d
           \/ \E u \in Threads : r = <<"list", u, NULL>> /\ d \in Waiting(u)'
           \/ \E u \in Threads : r = <<"flush", u, NULL>> /\ listed'[u] /\ flushing'[u] = d
           \/ r = <<"lost", NULL, NULL>> /\ d \in lost'
<1>1. r \in OwnerReference(d)' <=> r = <<"owner", NULL, NULL>> /\ owned'[d]
  BY DEF OwnerReference
<1>2. r \in TimerReferences(d)' <=> \E u \in Threads : \E e \in timers'[u] : r = <<"timer", u, e>> /\ e.origin = d
  BY DEF TimerReferences, EntriesOf
<1>3. r \in OccupantReferences(d)' <=> \E u \in Threads : r = <<"occupant", u, NULL>> /\ occupant'[u] = d
  BY DEF OccupantReferences
<1>4. r \in ListReferences(d)' <=> \E u \in Threads : r = <<"list", u, NULL>> /\ d \in Waiting(u)'
  BY DEF ListReferences
<1>5. r \in FlushReferences(d)' <=> \E u \in Threads : r = <<"flush", u, NULL>> /\ listed'[u] /\ flushing'[u] = d
  BY DEF FlushReferences
<1>6. r \in LostReference(d)' <=> r = <<"lost", NULL, NULL>> /\ d \in lost'
  BY DEF LostReference
<1> QED
  BY <1>1, <1>2, <1>3, <1>4, <1>5, <1>6 DEF References

-----------------------------------------------------------------------------
(***************************************************************************)
(* A step of one thread.                                                   *)
(***************************************************************************)

(* Nothing that belongs to another thread changes. *)
Moves(t) ==
  \A u \in Threads : u # t =>
    /\ pc'[u] = pc[u] /\ target'[u] = target[u] /\ argument'[u] = argument[u]
    /\ wasZero'[u] = wasZero[u] /\ occupant'[u] = occupant[u] /\ flushing'[u] = flushing[u]
    /\ listed'[u] = listed[u] /\ executing'[u] = executing[u] /\ list'[u] = list[u]
    /\ timers'[u] = timers[u] /\ firing'[u] = firing[u]

(* No task becomes new again. *)
TasksGoOn == \A k \in Tasks : fate[k] # "new" => fate'[k] # "new"

LEMMA OthersStay ==
  ASSUME NEW t \in Threads, NEW u \in Threads, u # t, Moves(t), TasksGoOn, TypeOK,
         ThreadState(u), TimerState(u)
  PROVE  ThreadState(u)' /\ TimerState(u)'
<1>1. ThreadState(u)'
  BY DEF Moves, ThreadState, Places
<1>2. \A e \in timers[u] : e.task \in Tasks
  BY DEF TypeOK, Entries
<1>3. TimerState(u)'
  BY <1>2 DEF Moves, TasksGoOn, TimerState
<1> QED
  BY <1>1, <1>3

LEMMA OthersWait ==
  ASSUME NEW t \in Threads, Moves(t)
  PROVE  \A u \in Threads \ {t} : Waiting(u)' = Waiting(u) /\ Places(u)' = Places(u)
BY DEF Moves, Waiting, Places

LEMMA OthersConsume ==
  ASSUME NEW t \in Threads, Moves(t), NEW u \in Threads, u # t, NEW d
  PROVE  /\ Flushes(u, d)' <=> Flushes(u, d)
         /\ Becoming(u, d)' <=> Becoming(u, d)
         /\ d \in Waiting(u)' <=> d \in Waiting(u)
BY OthersWait DEF Moves, Flushes, Becoming

(* Consumers(d) after a step of t that changes nothing of t's part in d. *)
LEMMA SameConsumers ==
  ASSUME NEW t \in Threads, Moves(t), NEW d,
         Flushes(t, d)' <=> Flushes(t, d),
         Becoming(t, d)' <=> Becoming(t, d),
         d \in Waiting(t)' <=> d \in Waiting(t)
  PROVE  Consumers(d)' = Consumers(d)
<1>1. \A u \in Threads : /\ Flushes(u, d)' <=> Flushes(u, d)
                         /\ Becoming(u, d)' <=> Becoming(u, d)
                         /\ d \in Waiting(u)' <=> d \in Waiting(u)
  BY OthersConsume
<1>2. ASSUME NEW c \in Consumers(d)' PROVE c \in Consumers(d)
  <2>1. PICK u \in Threads : \/ c = <<u, "flush">> /\ Flushes(u, d)'
                             \/ c = <<u, "dispatch">> /\ Becoming(u, d)'
                             \/ c = <<u, "list">> /\ d \in Waiting(u)'
    BY KindsOfConsumersNext
  <2> QED
    BY <1>1, <2>1, WhoConsumes
<1>3. ASSUME NEW c \in Consumers(d) PROVE c \in Consumers(d)'
  <2>1. PICK u \in Threads : \/ c = <<u, "flush">> /\ Flushes(u, d)
                             \/ c = <<u, "dispatch">> /\ Becoming(u, d)
                             \/ c = <<u, "list">> /\ d \in Waiting(u)
    BY KindsOfConsumers
  <2> QED
    BY <1>1, <2>1, WhoConsumesNext
<1> QED
  BY <1>2, <1>3

(* The part of one thread in Consumers(d). *)
Part(t, d) ==
       {c \in {<<t, "flush">>} : Flushes(t, d)}
  \union {c \in {<<t, "dispatch">>} : Becoming(t, d)}
  \union {c \in {<<t, "list">>} : d \in Waiting(t)}

(* When nobody but t may be a consumer of d, t's part is all of it. *)
LEMMA OwnPart ==
  ASSUME NEW t \in Threads, Moves(t), NEW d, \A c \in Consumers(d) : c[1] = t
  PROVE  Consumers(d)' = Part(t, d)'
<1>1. \A u \in Threads : u # t => ~ Flushes(u, d) /\ ~ Becoming(u, d) /\ d \notin Waiting(u)
  <2> SUFFICES ASSUME NEW u \in Threads, u # t
               PROVE  ~ Flushes(u, d) /\ ~ Becoming(u, d) /\ d \notin Waiting(u)
    OBVIOUS
  <2>1. <<u, "flush">> \notin Consumers(d) /\ <<u, "dispatch">> \notin Consumers(d)
        /\ <<u, "list">> \notin Consumers(d)
    OBVIOUS
  <2> QED
    BY <2>1, WhoConsumes
<1>2. \A u \in Threads : u # t => ~ Flushes(u, d)' /\ ~ Becoming(u, d)' /\ d \notin Waiting(u)'
  BY <1>1, OthersConsume
<1>3. ASSUME NEW c \in Consumers(d)' PROVE c \in Part(t, d)'
  BY <1>2, KindsOfConsumersNext DEF Part
<1>4. ASSUME NEW c \in Part(t, d)' PROVE c \in Consumers(d)'
  BY WhoConsumesNext DEF Part
<1> QED
  BY <1>3, <1>4

(* References(d) after a step of t that leaves all but R alone. *)
LEMMA OtherReferences ==
  ASSUME NEW t \in Threads, Moves(t), NEW d, NEW R,
         <<"owner", NULL, NULL>> \in R \/ (owned'[d] <=> owned[d]),
         \A e : e.origin = d =>
           <<"timer", t, e>> \in R \/ (e \in timers'[t] <=> e \in timers[t]),
         <<"occupant", t, NULL>> \in R \/ (occupant'[t] = d <=> occupant[t] = d),
         <<"list", t, NULL>> \in R \/ (d \in Waiting(t)' <=> d \in Waiting(t)),
         <<"flush", t, NULL>> \in R
           \/ (listed'[t] /\ flushing'[t] = d <=> listed[t] /\ flushing[t] = d),
         <<"lost", NULL, NULL>> \in R \/ (d \in lost' <=> d \in lost)
  PROVE  \A s : s \notin R => (s \in References(d)' <=> s \in References(d))
<1> SUFFICES ASSUME NEW s, s \notin R PROVE s \in References(d)' <=> s \in References(d)
  OBVIOUS
<1>1. \A u \in Threads \ {t} : /\ Waiting(u)' = Waiting(u) /\ timers'[u] = timers[u]
                               /\ occupant'[u] = occupant[u] /\ listed'[u] = listed[u]
                               /\ flushing'[u] = flushing[u]
  BY OthersWait DEF Moves
<1>2. (s = <<"owner", NULL, NULL>> /\ owned'[d]) <=> (s = <<"owner", NULL, NULL>> /\ owned[d])
  OBVIOUS
<1>3. (\E u \in Threads : \E e \in timers'[u] : s = <<"timer", u, e>> /\ e.origin = d)
      <=> (\E u \in Threads : \E e \in timers[u] : s = <<"timer", u, e>> /\ e.origin = d)
  BY <1>1
<1>4. (\E u \in Threads : s = <<"occupant", u, NULL>> /\ occupant'[u] = d)
      <=> (\E u \in Threads : s = <<"occupant", u, NULL>> /\ occupant[u] = d)
  BY <1>1
<1>5. (\E u \in Threads : s = <<"list", u, NULL>> /\ d \in Waiting(u)')
      <=> (\E u \in Threads : s = <<"list", u, NULL>> /\ d \in Waiting(u))
  BY <1>1
<1>6. (\E u \in Threads : s = <<"flush", u, NULL>> /\ listed'[u] /\ flushing'[u] = d)
      <=> (\E u \in Threads : s = <<"flush", u, NULL>> /\ listed[u] /\ flushing[u] = d)
  BY <1>1
<1>7. (s = <<"lost", NULL, NULL>> /\ d \in lost') <=> (s = <<"lost", NULL, NULL>> /\ d \in lost)
  OBVIOUS
<1> QED
  BY <1>2, <1>3, <1>4, <1>5, <1>6, <1>7, ReferenceKinds, ReferenceKindsNext

LEMMA OneReference ==
  ASSUME NEW t \in Threads, Moves(t), NEW d, NEW r,
         r = <<"owner", NULL, NULL>> \/ (owned'[d] <=> owned[d]),
         \A e : e.origin = d =>
           r = <<"timer", t, e>> \/ (e \in timers'[t] <=> e \in timers[t]),
         r = <<"occupant", t, NULL>> \/ (occupant'[t] = d <=> occupant[t] = d),
         r = <<"list", t, NULL>> \/ (d \in Waiting(t)' <=> d \in Waiting(t)),
         r = <<"flush", t, NULL>>
           \/ (listed'[t] /\ flushing'[t] = d <=> listed[t] /\ flushing[t] = d),
         r = <<"lost", NULL, NULL>> \/ (d \in lost' <=> d \in lost)
  PROVE  \A s : s # r => (s \in References(d)' <=> s \in References(d))
<1>1. \A s : s \notin {r} => (s \in References(d)' <=> s \in References(d))
  BY OtherReferences
<1> QED
  BY <1>1

LEMMA SameReferences ==
  ASSUME NEW t \in Threads, Moves(t), NEW d,
         owned'[d] <=> owned[d],
         \A e : e.origin = d => (e \in timers'[t] <=> e \in timers[t]),
         occupant'[t] = d <=> occupant[t] = d,
         d \in Waiting(t)' <=> d \in Waiting(t),
         listed'[t] /\ flushing'[t] = d <=> listed[t] /\ flushing[t] = d,
         d \in lost' <=> d \in lost
  PROVE  References(d)' = References(d)
<1>1. \A s : s # <<"owner", NULL, NULL>> => (s \in References(d)' <=> s \in References(d))
  BY OneReference
<1>2. \A s : s # <<"lost", NULL, NULL>> => (s \in References(d)' <=> s \in References(d))
  BY OneReference
<1>3. <<"owner", NULL, NULL>> # <<"lost", NULL, NULL>>
  OBVIOUS
<1>4. \A s : s \in References(d)' <=> s \in References(d)
  BY <1>1, <1>2, <1>3
<1> QED
  BY <1>4

-----------------------------------------------------------------------------
(***************************************************************************)
(* The last reference.                                                     *)
(***************************************************************************)

LEMMA FlushRefers ==
  ASSUME IInv, NEW u \in Threads, NEW d \in Dispatchers, Flushes(u, d)
  PROVE  occupant[u] = d \/ (listed[u] /\ flushing[u] = d)
BY DEF IInv, ThreadState, Flushes

(* A Dispatch in progress that does not use the owner's pointer. *)
LEMMA CallRefers ==
  ASSUME IInv, NEW u \in Threads, pc[u] \in InCall,
         ~ owned[target[u]] \/ ~ OwnerPointerInUse(target[u])
  PROVE  \/ Flushes(u, target[u])
         \/ firing[u] \in timers[u] /\ firing[u].origin = target[u]
<1>1. ThreadState(u) /\ TimerState(u) /\ CallIsCovered(u)
  BY DEF IInv
<1>2. flushing[u] = target[u] => executing[u] # NULL
  BY <1>1 DEF ThreadState
<1>3. \/ flushing[u] = target[u] /\ executing[u] # NULL
      \/ firing[u] # NoEntry /\ executing[u] = NULL
  BY <1>1, <1>2 DEF CallIsCovered, OwnerPointerInUse
<1>4. CASE flushing[u] = target[u] /\ executing[u] # NULL
  BY <1>4 DEF Flushes
<1>5. CASE firing[u] # NoEntry /\ executing[u] = NULL
  BY <1>1, <1>5 DEF TimerState
<1> QED
  BY <1>3, <1>4, <1>5

(* r is a reference to d that no call, flush or list depends on. *)
IsSpare(r, d) ==
  /\ r \in References(d)
  /\ r # <<"lost", NULL, NULL>>
  /\ r = <<"owner", NULL, NULL>> => ~ OwnerPointerInUse(d)
  /\ \A u \in Threads :
       /\ r # <<"list", u, NULL>>
       /\ Flushes(u, d) => r # <<"occupant", u, NULL>> /\ r # <<"flush", u, NULL>>
       /\ pc[u] \in InCall => r # <<"timer", u, firing[u]>>

LEMMA LastReference ==
  ASSUME IInv, NEW d \in Dispatchers, NEW r, IsSpare(r, d), refCount[d] = 1
  PROVE  /\ remaining[d] = 0
         /\ queue[d] = <<>>
         /\ Consumers(d) = {}
         /\ References(d) = {r}
         /\ \A u \in Threads : pc[u] \in InCall => target[u] # d
<1>1. References(d) = {r}
  <2>1. IsFiniteSet(References(d)) /\ Cardinality(References(d)) = 1
    BY DEF IInv, RefCountIsExact, ReferencesAreFinite
  <2>2. PICK x : References(d) = {x}
    BY <2>1, FS_Singleton
  <2> QED
    BY <2>2 DEF IsSpare
<1>2. \A u \in Threads : ~ Flushes(u, d)
  <2> SUFFICES ASSUME NEW u \in Threads, Flushes(u, d) PROVE FALSE
    OBVIOUS
  <2>1. <<"occupant", u, NULL>> \in References(d) \/ <<"flush", u, NULL>> \in References(d)
    BY FlushRefers, ReferenceKinds
  <2> QED
    BY <1>1, <2>1 DEF IsSpare
<1>3. \A u \in Threads : d \notin Waiting(u)
  <2> SUFFICES ASSUME NEW u \in Threads, d \in Waiting(u) PROVE FALSE
    OBVIOUS
  <2>1. <<"list", u, NULL>> \in References(d)
    BY ReferenceKinds
  <2> QED
    BY <1>1, <2>1 DEF IsSpare
<1>4. \A u \in Threads : pc[u] \in InCall => target[u] # d
  <2> SUFFICES ASSUME NEW u \in Threads, pc[u] \in InCall, target[u] = d PROVE FALSE
    OBVIOUS
  <2>1. owned[d] => <<"owner", NULL, NULL>> \in References(d)
    BY ReferenceKinds
  <2>2. ~ owned[d] \/ ~ OwnerPointerInUse(d)
    BY <1>1, <2>1 DEF IsSpare
  <2>3. firing[u] \in timers[u] /\ firing[u].origin = d
    BY <1>2, <2>2, CallRefers
  <2>4. <<"timer", u, firing[u]>> \in References(d)
    BY <2>3, ReferenceKinds
  <2> QED
    BY <1>1, <2>4 DEF IsSpare
<1>5. Consumers(d) = {}
  <2> SUFFICES ASSUME NEW c \in Consumers(d) PROVE FALSE
    OBVIOUS
  <2>1. PICK u \in Threads : Flushes(u, d) \/ Becoming(u, d) \/ d \in Waiting(u)
    BY KindsOfConsumers
  <2> QED
    BY <1>2, <1>3, <1>4, <2>1 DEF Becoming
<1>6. d \notin lost
  <2> SUFFICES ASSUME d \in lost PROVE FALSE
    OBVIOUS
  <2>1. <<"lost", NULL, NULL>> \in References(d)
    BY ReferenceKinds
  <2> QED
    BY <1>1, <2>1 DEF IsSpare
<1>7. remaining[d] = 0
  BY <1>5, <1>6 DEF IInv, ConsumerIsUnique
<1>8. queue[d] \in Seq(Tasks) /\ Len(queue[d]) \in Nat
  BY DEF IInv, TypeOK
<1>9. 0 = Len(queue[d]) + Cardinality(Exchanging(d)) + Cardinality(Executing(d))
  BY <1>7 DEF IInv, CountIsExact
<1>10. Len(queue[d]) = 0
  BY <1>8, <1>9, CountedThreads
<1> QED
  BY <1>1, <1>4, <1>5, <1>7, <1>8, <1>10

(***************************************************************************)
(* Giving up a reference, and taking one.                                  *)
(***************************************************************************)
LEMMA Release ==
  ASSUME IInv, NEW d \in Dispatchers, NEW r, NEW dropped, IsSpare(r, d),
         ReleaseReferenceAndDestroy(d, dropped),
         r \notin References(d)',
         \A s : s # r => (s \in References(d)' <=> s \in References(d)),
         \A e \in Dispatchers \ {d} : References(e)' = References(e)
  PROVE  /\ ReferencesAreFinite' /\ RefCountIsExact' /\ DestroyedAtZero'
         /\ remaining' = remaining /\ queue' = queue /\ TasksGoOn
         /\ refCount' \in [Dispatchers -> Nat]
         /\ destroyed' \in [Dispatchers -> BOOLEAN]
         /\ fate' \in [Tasks -> {"new", "timed", "dispatched", "done"}]
<1>1. TypeOK
  BY DEF IInv
<1>2. /\ IsFiniteSet(References(d)) /\ refCount[d] = Cardinality(References(d))
      /\ refCount[d] \in Nat /\ r \in References(d)
  BY <1>1 DEF IInv, ReferencesAreFinite, RefCountIsExact, TypeOK, IsSpare
<1>3. /\ IsFiniteSet(References(d)')
      /\ Cardinality(References(d)') \in Nat
      /\ Cardinality(References(d)') + 1 = refCount[d]
  BY <1>2, OneElement
<1>4. /\ refCount' = [refCount EXCEPT ![d] = @ - 1]
      /\ destroyed' = [destroyed EXCEPT ![d] = @ \/ refCount[d] = 1]
      /\ remaining' = [remaining EXCEPT ![d] = IF refCount[d] = 1 THEN 0 ELSE @]
      /\ queue' = [queue EXCEPT ![d] = IF refCount[d] = 1 THEN <<>> ELSE @]
      /\ \E gone : fate' = [k \in Tasks |-> IF k \in gone THEN "done" ELSE fate[k]]
  BY DEF ReleaseReferenceAndDestroy
<1>5. /\ refCount'[d] = Cardinality(References(d)')
      /\ \A e \in Dispatchers \ {d} : refCount'[e] = refCount[e]
      /\ refCount' \in [Dispatchers -> Nat]
  BY <1>1, <1>2, <1>3, <1>4 DEF TypeOK
<1>6. ReferencesAreFinite' /\ RefCountIsExact'
  <2>1. \A e \in Dispatchers \ {d} :
          IsFiniteSet(References(e)) /\ refCount[e] = Cardinality(References(e))
    BY DEF IInv, ReferencesAreFinite, RefCountIsExact
  <2> QED
    BY <1>3, <1>5, <2>1 DEF ReferencesAreFinite, RefCountIsExact
<1>7. destroyed' \in [Dispatchers -> BOOLEAN]
  BY <1>1, <1>4 DEF TypeOK
<1>8. DestroyedAtZero'
  <2>1. refCount[d] # 0 /\ (refCount'[d] = 0 <=> refCount[d] = 1)
    BY <1>2, <1>3, <1>5
  <2>2. ~ destroyed[d]
    BY <2>1 DEF IInv, DestroyedAtZero
  <2>3. destroyed'[d] <=> refCount[d] = 1
    BY <1>1, <1>4, <2>2 DEF TypeOK
  <2>4. \A e \in Dispatchers \ {d} : destroyed'[e] <=> destroyed[e]
    BY <1>1, <1>4 DEF TypeOK
  <2>5. \A e \in Dispatchers \ {d} : destroyed'[e] <=> refCount'[e] = 0
    BY <1>5, <2>4 DEF IInv, DestroyedAtZero
  <2> QED
    BY <2>1, <2>3, <2>5 DEF DestroyedAtZero
<1>9. remaining' = remaining /\ queue' = queue
  <2>1. refCount[d] = 1 => remaining[d] = 0 /\ queue[d] = <<>>
    BY LastReference
  <2> QED
    BY <1>1, <1>4, <2>1 DEF TypeOK
<1>10. TasksGoOn /\ fate' \in [Tasks -> {"new", "timed", "dispatched", "done"}]
  <2>1. PICK gone : fate' = [k \in Tasks |-> IF k \in gone THEN "done" ELSE fate[k]]
    BY <1>4
  <2> QED
    BY <1>1, <2>1 DEF TasksGoOn, TypeOK
<1> QED
  BY <1>5, <1>6, <1>7, <1>8, <1>9, <1>10

LEMMA Acquire ==
  ASSUME IInv, NEW d \in Dispatchers, NEW r, AddReference(d), refCount[d] # 0,
         destroyed' = destroyed, r \notin References(d), r \in References(d)',
         \A s : s # r => (s \in References(d)' <=> s \in References(d)),
         \A e \in Dispatchers \ {d} : References(e)' = References(e)
  PROVE  /\ ReferencesAreFinite' /\ RefCountIsExact' /\ DestroyedAtZero'
         /\ refCount' \in [Dispatchers -> Nat]
<1>1. TypeOK
  BY DEF IInv
<1>2. /\ IsFiniteSet(References(d)) /\ refCount[d] = Cardinality(References(d))
      /\ refCount[d] \in Nat
  BY <1>1 DEF IInv, ReferencesAreFinite, RefCountIsExact, TypeOK
<1>3. /\ IsFiniteSet(References(d)')
      /\ Cardinality(References(d)') \in Nat
      /\ Cardinality(References(d)') = refCount[d] + 1
  BY <1>2, OneElement
<1>4. /\ refCount'[d] = Cardinality(References(d)') /\ refCount'[d] # 0
      /\ \A e \in Dispatchers \ {d} : refCount'[e] = refCount[e]
      /\ refCount' \in [Dispatchers -> Nat]
  BY <1>1, <1>2, <1>3 DEF TypeOK, AddReference
<1>5. ReferencesAreFinite' /\ RefCountIsExact'
  <2>1. \A e \in Dispatchers \ {d} :
          IsFiniteSet(References(e)) /\ refCount[e] = Cardinality(References(e))
    BY DEF IInv, ReferencesAreFinite, RefCountIsExact
  <2> QED
    BY <1>3, <1>4, <2>1 DEF ReferencesAreFinite, RefCountIsExact
<1>6. DestroyedAtZero'
  BY <1>4 DEF IInv, DestroyedAtZero
<1> QED
  BY <1>4, <1>5, <1>6

(* References that a step leaves alone. *)
LEMMA ReferencesStay ==
  ASSUME IInv, refCount' = refCount, destroyed' = destroyed,
         \A e \in Dispatchers : References(e)' = References(e)
  PROVE  ReferencesAreFinite' /\ RefCountIsExact' /\ DestroyedAtZero'
BY DEF IInv, ReferencesAreFinite, RefCountIsExact, DestroyedAtZero

(* Whoever has a reference finds the count above zero. *)
LEMMA ReferredIsCounted ==
  ASSUME IInv, NEW d \in Dispatchers, References(d) # {}
  PROVE  refCount[d] # 0 /\ refCount[d] \in Nat
<1>1. IsFiniteSet(References(d)) /\ refCount[d] = Cardinality(References(d))
  BY DEF IInv, ReferencesAreFinite, RefCountIsExact
<1>2. refCount[d] \in Nat
  BY DEF IInv, TypeOK
<1> QED
  BY <1>1, <1>2, FS_EmptySet

-----------------------------------------------------------------------------
(***************************************************************************)
(* What most steps leave alone.                                            *)
(***************************************************************************)
AllThreads == \A u \in Threads : ThreadState(u) /\ TimerState(u) /\ CallIsCovered(u)

LEMMA TimersHoldTasks ==
  ASSUME TypeOK
  PROVE  \A u \in Threads : \A e \in timers[u] :
           e \in Entries /\ e.task \in Tasks /\ e.origin \in Dispatchers
BY DEF TypeOK, Entries

LEMMA ThreadsGoOn ==
  ASSUME IInv, NEW t \in Threads, Moves(t), TasksGoOn, owned' = owned,
         ThreadState(t)', TimerState(t)', CallIsCovered(t)'
  PROVE  AllThreads'
<1> SUFFICES ASSUME NEW u \in Threads, u # t
             PROVE  ThreadState(u)' /\ TimerState(u)' /\ CallIsCovered(u)'
  BY DEF AllThreads
<1>1. TypeOK /\ ThreadState(u) /\ TimerState(u) /\ CallIsCovered(u)
  BY DEF IInv
<1>2. ThreadState(u)' /\ TimerState(u)'
  BY <1>1, OthersStay
<1>3. CallIsCovered(u)'
  BY <1>1 DEF Moves, CallIsCovered
<1> QED
  BY <1>2, <1>3

LEMMA ConsumersStay ==
  ASSUME IInv, NEW t \in Threads, Moves(t), remaining' = remaining,
         list' = list, lost' = lost,
         \A d \in Dispatchers : /\ Flushes(t, d)' <=> Flushes(t, d)
                                /\ Becoming(t, d)' <=> Becoming(t, d)
  PROVE  ConsumerIsUnique' /\ LostIsBusy' /\ ListedOnce'
<1>1. \A d \in Dispatchers : Consumers(d)' = Consumers(d)
  <2> SUFFICES ASSUME NEW d \in Dispatchers PROVE Consumers(d)' = Consumers(d)
    OBVIOUS
  <2>1. Waiting(t)' = Waiting(t)
    BY DEF Waiting, Places
  <2> QED
    BY <2>1, SameConsumers
<1>2. ConsumerIsUnique'
  BY <1>1 DEF IInv, ConsumerIsUnique
<1>3. LostIsBusy' /\ ListedOnce'
  BY DEF IInv, LostIsBusy, ListedOnce, Places
<1> QED
  BY <1>2, <1>3

LEMMA CountStays ==
  ASSUME IInv, NEW t \in Threads, Moves(t), remaining' = remaining, queue' = queue,
         \A d \in Dispatchers :
           /\ pc'[t] = "exchange" /\ target'[t] = d <=> pc[t] = "exchange" /\ target[t] = d
           /\ executing'[t] # NULL /\ flushing'[t] = d <=> executing[t] # NULL /\ flushing[t] = d
  PROVE  CountIsExact'
<1>1. \A d \in Dispatchers : Exchanging(d)' = Exchanging(d) /\ Executing(d)' = Executing(d)
  BY DEF Moves, Exchanging, Executing
<1> QED
  BY <1>1 DEF IInv, CountIsExact

LEMMA AllParts ==
  ASSUME TypeOK', AllThreads', ConsumerIsUnique', LostIsBusy', ListedOnce', CountIsExact',
         ReferencesAreFinite', RefCountIsExact', DestroyedAtZero'
  PROVE  IInv'
BY DEF IInv, AllThreads

-----------------------------------------------------------------------------
(***************************************************************************)
(* User code.                                                              *)
(***************************************************************************)
LEMMA DoAsyncKeepsIInv ==
  ASSUME IInv, NEW t \in Threads, NEW d \in Dispatchers, NEW k \in Tasks, DoAsync(t, d, k)
  PROVE  IInv'
<1>1. TypeOK /\ ThreadState(t) /\ TimerState(t)
  BY DEF IInv
<1>2. TypeOK' /\ Moves(t) /\ TasksGoOn
  BY <1>1 DEF TypeOK, Pcs, DoAsync, Moves, TasksGoOn, dispatcherVars, flushVars, timerVars
<1>3. /\ pc[t] \in {"idle", "executing"} /\ pc'[t] = "count" /\ target'[t] = d /\ argument'[t] = k
      /\ owned[d] \/ flushing[t] = d
      /\ wasZero' = wasZero /\ fate'[k] # "new"
  BY <1>1 DEF DoAsync, TypeOK, RunsUserCode, MayUse
<1>4. UNCHANGED <<dispatcherVars, flushVars, timerVars>>
  BY DEF DoAsync
<1>5. ThreadState(t)'
  BY <1>1, <1>3, <1>4 DEF ThreadState, Places, flushVars
<1>6. TimerState(t)'
  <2>1. \A e \in timers'[t] : fate'[e.task] # "new"
    BY <1>1, <1>2, <1>4, TimersHoldTasks DEF TimerState, TasksGoOn, timerVars
  <2>2. executing[t] = NULL => pc[t] = "idle"
    BY <1>1, <1>3 DEF ThreadState
  <2> QED
    BY <1>1, <1>3, <1>4, <2>1, <2>2 DEF TimerState, timerVars, flushVars
<1>7. CallIsCovered(t)'
  BY <1>1, <1>3, <1>4 DEF ThreadState, CallIsCovered, flushVars, dispatcherVars
<1>8. AllThreads'
  BY <1>2, <1>4, <1>5, <1>6, <1>7, ThreadsGoOn DEF dispatcherVars
<1>9. ConsumerIsUnique' /\ LostIsBusy' /\ ListedOnce'
  <2>1. \A e \in Dispatchers : /\ Flushes(t, e)' <=> Flushes(t, e)
                               /\ Becoming(t, e)' <=> Becoming(t, e)
    BY <1>1, <1>3, <1>4 DEF ThreadState, Flushes, Becoming, flushVars
  <2> QED
    BY <1>2, <1>4, <2>1, ConsumersStay DEF flushVars, dispatcherVars
<1>10. CountIsExact'
  BY <1>2, <1>3, <1>4, CountStays DEF flushVars, dispatcherVars
<1>11. ReferencesAreFinite' /\ RefCountIsExact' /\ DestroyedAtZero'
  <2>1. Waiting(t)' = Waiting(t)
    BY <1>4 DEF Waiting, Places, flushVars
  <2>2. \A e \in Dispatchers : References(e)' = References(e)
    BY <1>2, <1>4, <2>1, SameReferences DEF flushVars, dispatcherVars, timerVars
  <2> QED
    BY <1>4, <2>2, ReferencesStay DEF dispatcherVars
<1> QED
  BY <1>2, <1>8, <1>9, <1>10, <1>11, AllParts

LEMMA DoAfterAsyncKeepsIInv ==
  ASSUME IInv, NEW t \in Threads, NEW d \in Dispatchers, NEW k \in Tasks, DoAfterAsync(t, d, k)
  PROVE  IInv'
<1> DEFINE entry == [task |-> k, origin |-> d]
<1>1. TypeOK /\ ThreadState(t) /\ TimerState(t) /\ CallIsCovered(t)
  BY DEF IInv
<1>2. /\ pc[t] \in {"idle", "executing"} /\ fate[k] = "new"
      /\ owned[d] \/ flushing[t] = d
      /\ fate' = [fate EXCEPT ![k] = "timed"]
      /\ AddReference(d)
      /\ timers' = [timers EXCEPT ![t] = @ \union {entry}]
      /\ UNCHANGED <<remaining, pendingDestroy, queue, owned, destroyed,
                     pc, callVars, flushVars, firing>>
  BY DEF DoAfterAsync, RunsUserCode, MayUse
<1>3. entry \in Entries /\ entry.task = k /\ entry.origin = d
  BY DEF Entries
<1>4. Moves(t) /\ TasksGoOn
  BY <1>1, <1>2 DEF TypeOK, Moves, TasksGoOn, callVars, flushVars
<1>5. timers' \in [Threads -> SUBSET Entries] /\ timers'[t] = timers[t] \union {entry}
      /\ fate' \in [Tasks -> {"new", "timed", "dispatched", "done"}]
  BY <1>1, <1>2, <1>3 DEF TypeOK
<1>6. entry \notin timers[t] /\ fate'[k] # "new"
  BY <1>1, <1>2, <1>3 DEF TimerState, TypeOK
<1>7. AllThreads'
  <2>1. ThreadState(t)'
    BY <1>1, <1>2 DEF ThreadState, Places, flushVars, callVars
  <2>2. \A e \in timers'[t] : fate'[e.task] # "new"
    BY <1>1, <1>3, <1>4, <1>5, <1>6, TimersHoldTasks DEF TimerState, TasksGoOn
  <2>3. TimerState(t)'
    BY <1>1, <1>2, <1>5, <2>2 DEF TimerState, flushVars, callVars
  <2>4. CallIsCovered(t)'
    BY <1>1, <1>2 DEF CallIsCovered, flushVars, callVars
  <2> QED
    BY <1>2, <1>4, <2>1, <2>3, <2>4, ThreadsGoOn
<1>8. ConsumerIsUnique' /\ LostIsBusy' /\ ListedOnce'
  BY <1>2, <1>4, ConsumersStay DEF flushVars, callVars, Flushes, Becoming
<1>9. CountIsExact'
  BY <1>2, <1>4, CountStays DEF flushVars, callVars
<1>10. ReferencesAreFinite' /\ RefCountIsExact' /\ DestroyedAtZero'
       /\ refCount' \in [Dispatchers -> Nat]
  <2> DEFINE r == <<"timer", t, entry>>
  <2>1. Waiting(t)' = Waiting(t)
    BY <1>2 DEF Waiting, Places, flushVars
  <2>2. \A s : s # r => (s \in References(d)' <=> s \in References(d))
    <3>1. \A e : r = <<"timer", t, e>> \/ (e \in timers'[t] <=> e \in timers[t])
      BY <1>5
    <3> HIDE DEF r
    <3> QED
      BY <1>2, <1>4, <2>1, <3>1, OneReference DEF flushVars
  <2>3. r \notin References(d) /\ r \in References(d)'
    BY <1>3, <1>5, <1>6, ReferenceKinds, ReferenceKindsNext
  <2>4. \A e \in Dispatchers \ {d} : References(e)' = References(e)
    <3> SUFFICES ASSUME NEW e \in Dispatchers \ {d} PROVE References(e)' = References(e)
      OBVIOUS
    <3>1. \A x : x.origin = e => (x \in timers'[t] <=> x \in timers[t])
      BY <1>3, <1>5
    <3> QED
      BY <1>2, <1>4, <2>1, <3>1, SameReferences DEF flushVars
  <2>5. References(d) # {}
    <3>1. CASE owned[d]
      BY <3>1, ReferenceKinds
    <3>2. CASE flushing[t] = d
      <4>1. occupant[t] = d \/ (listed[t] /\ flushing[t] = d)
        BY <1>1, <3>2 DEF ThreadState
      <4> QED
        BY <4>1, ReferenceKinds
    <3> QED
      BY <1>2, <3>1, <3>2
  <2>6. refCount[d] # 0
    BY <2>5, ReferredIsCounted
  <2> HIDE DEF r, entry
  <2> QED
    BY <1>2, <2>2, <2>3, <2>4, <2>6, Acquire
<1>11. TypeOK'
  BY <1>1, <1>2, <1>5, <1>10 DEF TypeOK, flushVars, callVars
<1> QED
  BY <1>7, <1>8, <1>9, <1>10, <1>11, AllParts

LEMMA ReleaseOwnerKeepsIInv ==
  ASSUME IInv, NEW t \in Threads, NEW d \in Dispatchers, ReleaseOwner(t, d)
  PROVE  IInv'
<1> DEFINE r == <<"owner", NULL, NULL>>
<1>1. TypeOK
  BY DEF IInv
<1>2. /\ owned[d] /\ ~ OwnerPointerInUse(d)
      /\ owned' = [owned EXCEPT ![d] = FALSE]
      /\ ReleaseReferenceAndDestroy(d, {})
      /\ UNCHANGED <<pendingDestroy, pc, callVars, flushVars, timerVars>>
  BY DEF ReleaseOwner
<1>3. Moves(t)
  BY <1>2 DEF Moves, callVars, flushVars, timerVars
<1>4. /\ owned'[d] = FALSE /\ \A e \in Dispatchers \ {d} : owned'[e] = owned[e]
      /\ owned' \in [Dispatchers -> BOOLEAN]
  BY <1>1, <1>2 DEF TypeOK
<1>5. /\ ReferencesAreFinite' /\ RefCountIsExact' /\ DestroyedAtZero'
      /\ remaining' = remaining /\ queue' = queue /\ TasksGoOn
      /\ refCount' \in [Dispatchers -> Nat]
      /\ destroyed' \in [Dispatchers -> BOOLEAN]
      /\ fate' \in [Tasks -> {"new", "timed", "dispatched", "done"}]
  <2>1. Waiting(t)' = Waiting(t)
    BY <1>2 DEF Waiting, Places, flushVars
  <2>2. \A s : s # r => (s \in References(d)' <=> s \in References(d))
    BY <1>2, <1>3, <2>1, OneReference DEF flushVars, timerVars
  <2>3. r \in References(d) /\ r \notin References(d)'
    BY <1>2, <1>4, ReferenceKinds, ReferenceKindsNext
  <2>4. \A e \in Dispatchers \ {d} : References(e)' = References(e)
    BY <1>2, <1>3, <1>4, <2>1, SameReferences DEF flushVars, timerVars
  <2>5. IsSpare(r, d)
    BY <1>2, <2>3 DEF IsSpare
  <2> HIDE DEF r
  <2> QED
    BY <1>2, <2>2, <2>3, <2>4, <2>5, Release
<1>6. AllThreads'
  <2> SUFFICES ASSUME NEW u \in Threads
               PROVE  ThreadState(u)' /\ TimerState(u)' /\ CallIsCovered(u)'
    BY DEF AllThreads
  <2>1. ThreadState(u) /\ TimerState(u) /\ CallIsCovered(u)
    BY DEF IInv
  <2>2. ThreadState(u)'
    BY <1>2, <2>1 DEF ThreadState, Places, flushVars, callVars
  <2>3. TimerState(u)'
    BY <1>1, <1>2, <1>5, <2>1, TimersHoldTasks
       DEF TimerState, TasksGoOn, flushVars, callVars, timerVars
  <2>4. CallIsCovered(u)'
    <3> SUFFICES ASSUME pc[u] \in InCall
                 PROVE  \/ owned'[target[u]]
                        \/ flushing[u] = target[u] /\ executing[u] # NULL
                        \/ firing[u] # NoEntry /\ executing[u] = NULL
      BY <1>2 DEF CallIsCovered, flushVars, callVars, timerVars
    <3>1. CASE target[u] = d
      <4>1. flushing[u] = d \/ (firing[u] # NoEntry /\ executing[u] = NULL)
        BY <1>2, <3>1 DEF OwnerPointerInUse
      <4>2. flushing[u] = d => executing[u] # NULL
        BY <2>1, NullAssumption DEF ThreadState
      <4> QED
        BY <3>1, <4>1, <4>2
    <3>2. CASE target[u] # d
      <4>1. target[u] \in Dispatchers
        BY <1>1, <2>1 DEF TypeOK, ThreadState
      <4> QED
        BY <1>4, <2>1, <3>2, <4>1 DEF CallIsCovered
    <3> QED
      BY <3>1, <3>2
  <2> QED
    BY <2>2, <2>3, <2>4
<1>7. ConsumerIsUnique' /\ LostIsBusy' /\ ListedOnce'
  BY <1>2, <1>3, <1>5, ConsumersStay DEF flushVars, callVars, Flushes, Becoming
<1>8. CountIsExact'
  BY <1>2, <1>3, <1>5, CountStays DEF flushVars, callVars
<1>9. TypeOK'
  BY <1>1, <1>2, <1>4, <1>5 DEF TypeOK, flushVars, callVars, timerVars
<1> QED
  BY <1>5, <1>6, <1>7, <1>8, <1>9, AllParts

LEMMA SetIsPendingDestroyKeepsIInv ==
  ASSUME IInv, NEW t \in Threads, NEW d \in Dispatchers, SetIsPendingDestroy(t, d)
  PROVE  IInv'
<1>1. TypeOK /\ ThreadState(t) /\ TimerState(t) /\ CallIsCovered(t)
  BY DEF IInv
<1>2. /\ pendingDestroy' = [pendingDestroy EXCEPT ![d] = ~ @]
      /\ UNCHANGED <<remaining, refCount, queue, owned, destroyed, pc, callVars,
                     flushVars, timerVars, fate>>
  BY DEF SetIsPendingDestroy
<1>3. Moves(t) /\ TasksGoOn
  BY <1>2 DEF Moves, TasksGoOn, callVars, flushVars, timerVars
<1>4. TypeOK'
  BY <1>1, <1>2 DEF TypeOK, flushVars, callVars, timerVars
<1>5. ThreadState(t)' /\ TimerState(t)' /\ CallIsCovered(t)'
  BY <1>1, <1>2 DEF ThreadState, TimerState, CallIsCovered, Places, flushVars, callVars, timerVars
<1>6. AllThreads'
  BY <1>2, <1>3, <1>5, ThreadsGoOn
<1>7. ConsumerIsUnique' /\ LostIsBusy' /\ ListedOnce'
  BY <1>2, <1>3, ConsumersStay DEF flushVars, callVars, Flushes, Becoming
<1>8. CountIsExact'
  BY <1>2, <1>3, CountStays DEF flushVars, callVars
<1>9. ReferencesAreFinite' /\ RefCountIsExact' /\ DestroyedAtZero'
  <2>1. Waiting(t)' = Waiting(t)
    BY <1>2 DEF Waiting, Places, flushVars
  <2>2. \A e \in Dispatchers : References(e)' = References(e)
    BY <1>2, <1>3, <2>1, SameReferences DEF flushVars, timerVars
  <2> QED
    BY <1>2, <2>2, ReferencesStay
<1> QED
  BY <1>4, <1>6, <1>7, <1>8, <1>9, AllParts

-----------------------------------------------------------------------------
(***************************************************************************)
(* Dispatch.                                                               *)
(***************************************************************************)
LEMMA NoReferenceMoves ==
  ASSUME IInv, NEW t \in Threads, Moves(t),
         UNCHANGED <<refCount, destroyed, owned, timers, occupant, list, listed, flushing, lost>>
  PROVE  ReferencesAreFinite' /\ RefCountIsExact' /\ DestroyedAtZero'
<1>1. Waiting(t)' = Waiting(t)
  BY DEF Waiting, Places
<1>2. \A e \in Dispatchers : References(e)' = References(e)
  BY <1>1, SameReferences
<1> QED
  BY <1>2, ReferencesStay

LEMMA CountKeepsIInv ==
  ASSUME IInv, NEW t \in Threads, Count(t)
  PROVE  IInv'
<1>1. TypeOK /\ ThreadState(t) /\ TimerState(t) /\ CallIsCovered(t)
  BY DEF IInv
<1>2. /\ pc[t] = "count"
      /\ wasZero' = [wasZero EXCEPT ![t] = remaining[target[t]] = 0]
      /\ remaining' = [remaining EXCEPT ![target[t]] = @ + 1]
      /\ pc' = [pc EXCEPT ![t] = "exchange"]
      /\ UNCHANGED <<refCount, pendingDestroy, queue, owned, destroyed, target,
                     argument, flushVars, timerVars, fate>>
  BY DEF Count
<1>3. PICK d \in Dispatchers : d = target[t]
  BY <1>1, <1>2 DEF TypeOK, ThreadState
<1>4. /\ remaining[d] \in Nat /\ remaining'[d] = remaining[d] + 1
      /\ \A e \in Dispatchers \ {d} : remaining'[e] = remaining[e]
      /\ remaining' \in [Dispatchers -> Nat]
  BY <1>1, <1>2, <1>3 DEF TypeOK
<1>5. pc'[t] = "exchange" /\ (wasZero'[t] <=> remaining[d] = 0)
  BY <1>1, <1>2, <1>3 DEF TypeOK
<1>6. Moves(t) /\ TasksGoOn
  BY <1>1, <1>2 DEF TypeOK, Moves, TasksGoOn, flushVars, timerVars
<1>7. TypeOK'
  <2>1. wasZero' \in [Threads -> BOOLEAN]
    BY <1>1, <1>2 DEF TypeOK
  <2>2. pc' \in [Threads -> Pcs]
    BY <1>1, <1>2 DEF TypeOK, Pcs
  <2> QED
    BY <1>1, <1>2, <1>4, <2>1, <2>2 DEF TypeOK, flushVars, timerVars
<1>8. AllThreads'
  <2>1. ThreadState(t)'
    BY <1>1, <1>2, <1>5 DEF ThreadState, Places, flushVars
  <2>2. TimerState(t)'
    BY <1>1, <1>2, <1>5 DEF TimerState, flushVars, timerVars
  <2>3. CallIsCovered(t)'
    BY <1>1, <1>2 DEF CallIsCovered, flushVars, timerVars
  <2> QED
    BY <1>2, <1>6, <2>1, <2>2, <2>3, ThreadsGoOn
<1>9. /\ \A e : Flushes(t, e)' <=> Flushes(t, e)
      /\ \A e : ~ Becoming(t, e)
      /\ \A e : Becoming(t, e)' <=> (e = d /\ remaining[d] = 0)
      /\ Waiting(t)' = Waiting(t)
  BY <1>2, <1>3, <1>5 DEF Flushes, Becoming, Waiting, Places, flushVars
<1>10. ConsumerIsUnique'
  <2>1. ASSUME NEW e \in Dispatchers, e # d \/ remaining[d] # 0
        PROVE  Consumers(e)' = Consumers(e) /\ (remaining'[e] = 0 <=> remaining[e] = 0)
    <3>1. Consumers(e)' = Consumers(e)
      BY <1>6, <1>9, <2>1, SameConsumers
    <3>2. remaining'[e] = 0 <=> remaining[e] = 0
      BY <1>4, <2>1
    <3> QED
      BY <3>1, <3>2
  <2>2. CASE remaining[d] # 0
    BY <1>2, <2>1, <2>2 DEF IInv, ConsumerIsUnique, flushVars
  <2>3. CASE remaining[d] = 0
    <3>1. Consumers(d) = {} /\ d \notin lost
      BY <2>3 DEF IInv, ConsumerIsUnique, LostIsBusy
    <3>2. ~ Flushes(t, d) /\ d \notin Waiting(t)
      BY <3>1, WhoConsumes
    <3>3. Part(t, d)' = {<<t, "dispatch">>}
      BY <1>9, <2>3, <3>2 DEF Part
    <3>4. Consumers(d)' = {<<t, "dispatch">>}
      BY <1>6, <3>1, <3>3, OwnPart
    <3>5. remaining'[d] # 0 /\ d \notin lost'
      BY <1>2, <1>4, <3>1 DEF flushVars
    <3>6. \A e \in Dispatchers \ {d} :
            Consumers(e)' = Consumers(e) /\ (remaining'[e] = 0 <=> remaining[e] = 0)
      BY <2>1
    <3>7. lost' = lost
      BY <1>2 DEF flushVars
    <3>8. \E c \in Consumers(d)' : Consumers(d)' = {c}
      BY <3>4
    <3>9. \A e \in Dispatchers \ {d} :
            IF remaining'[e] = 0 \/ e \in lost'
            THEN Consumers(e)' = {}
            ELSE \E c \in Consumers(e)' : Consumers(e)' = {c}
      BY <3>6, <3>7 DEF IInv, ConsumerIsUnique
    <3> QED
      BY <3>5, <3>8, <3>9 DEF ConsumerIsUnique
  <2> QED
    BY <2>2, <2>3
<1>11. LostIsBusy'
  <2>1. \A e \in Dispatchers : remaining[e] # 0 => remaining'[e] # 0
    BY <1>4
  <2> QED
    BY <1>1, <1>2, <2>1 DEF IInv, LostIsBusy, TypeOK, flushVars
<1>12. ListedOnce'
  BY <1>2 DEF IInv, ListedOnce, Places, flushVars
<1>13. CountIsExact'
  <2>1. \A e : Executing(e)' = Executing(e)
    BY <1>2 DEF Executing, flushVars
  <2>2. \A e \in Dispatchers \ {d} : Exchanging(e)' = Exchanging(e)
    BY <1>2, <1>3, <1>5, <1>6 DEF Exchanging, Moves
  <2>3. /\ t \notin Exchanging(d) /\ t \in Exchanging(d)'
        /\ \A u : u # t => (u \in Exchanging(d)' <=> u \in Exchanging(d))
    BY <1>2, <1>3, <1>5, <1>6 DEF Exchanging, Moves
  <2>4. Cardinality(Exchanging(d)') = Cardinality(Exchanging(d)) + 1
    BY <2>3, CountedThreads, OneElement
  <2>5. remaining[d] = Len(queue[d]) + Cardinality(Exchanging(d)) + Cardinality(Executing(d))
        /\ Len(queue[d]) \in Nat
    BY <1>1 DEF IInv, CountIsExact, TypeOK
  <2>6. remaining'[d] = Len(queue[d]) + Cardinality(Exchanging(d)') + Cardinality(Executing(d))
    BY <1>4, <2>4, <2>5, CountedThreads
  <2>7. \A e \in Dispatchers \ {d} :
          remaining'[e] = Len(queue[e]) + Cardinality(Exchanging(e)') + Cardinality(Executing(e))
    BY <1>4, <2>2 DEF IInv, CountIsExact
  <2> QED
    BY <1>2, <2>1, <2>6, <2>7 DEF CountIsExact
<1>14. ReferencesAreFinite' /\ RefCountIsExact' /\ DestroyedAtZero'
  BY <1>2, <1>6, NoReferenceMoves DEF flushVars, timerVars
<1> QED
  BY <1>7, <1>8, <1>10, <1>11, <1>12, <1>13, <1>14, AllParts

LEMMA ExchangeKeepsIInv ==
  ASSUME IInv, NEW t \in Threads, Exchange(t)
  PROVE  IInv'
<1>1. TypeOK /\ ThreadState(t) /\ TimerState(t) /\ CallIsCovered(t)
  BY DEF IInv
<1>2. /\ pc[t] = "exchange"
      /\ queue' = [queue EXCEPT ![target[t]] = Append(@, argument[t])]
      /\ pc' = [pc EXCEPT ![t] = "link"]
      /\ UNCHANGED <<remaining, refCount, pendingDestroy, owned, destroyed,
                     callVars, flushVars, timerVars, fate>>
  BY DEF Exchange
<1>3. PICK d \in Dispatchers : d = target[t]
  BY <1>1, <1>2 DEF TypeOK, ThreadState
<1>4. argument[t] \in Tasks
  BY <1>1, <1>2 DEF TypeOK, ThreadState
<1>5. /\ queue[d] \in Seq(Tasks) /\ Len(queue[d]) \in Nat
      /\ queue'[d] = Append(queue[d], argument[t])
      /\ \A e \in Dispatchers \ {d} : queue'[e] = queue[e]
  BY <1>1, <1>2, <1>3 DEF TypeOK
<1>6. queue' \in [Dispatchers -> Seq(Tasks)] /\ Len(queue'[d]) = Len(queue[d]) + 1
  BY <1>1, <1>2, <1>3, <1>4, <1>5 DEF TypeOK
<1>7. Moves(t) /\ TasksGoOn /\ pc'[t] = "link" /\ pc' \in [Threads -> Pcs]
  BY <1>1, <1>2 DEF TypeOK, Pcs, Moves, TasksGoOn, callVars, flushVars, timerVars
<1>8. TypeOK'
  BY <1>1, <1>2, <1>6, <1>7 DEF TypeOK, callVars, flushVars, timerVars
<1>9. AllThreads'
  <2>1. ThreadState(t)'
    BY <1>1, <1>2, <1>7 DEF ThreadState, Places, flushVars, callVars
  <2>2. TimerState(t)'
    BY <1>1, <1>2, <1>7 DEF TimerState, flushVars, timerVars, callVars
  <2>3. CallIsCovered(t)'
    BY <1>1, <1>2 DEF CallIsCovered, flushVars, timerVars, callVars
  <2> QED
    BY <1>2, <1>7, <2>1, <2>2, <2>3, ThreadsGoOn
<1>10. ConsumerIsUnique' /\ LostIsBusy' /\ ListedOnce'
  BY <1>2, <1>7, ConsumersStay DEF flushVars, callVars, Flushes, Becoming
<1>11. CountIsExact'
  <2>1. \A e : Executing(e)' = Executing(e)
    BY <1>2 DEF Executing, flushVars
  <2>2. \A e \in Dispatchers \ {d} : Exchanging(e)' = Exchanging(e)
    BY <1>2, <1>3, <1>7 DEF Exchanging, Moves
  <2>3. /\ t \in Exchanging(d) /\ t \notin Exchanging(d)'
        /\ \A u : u # t => (u \in Exchanging(d)' <=> u \in Exchanging(d))
    BY <1>2, <1>3, <1>7 DEF Exchanging, Moves
  <2>4. Cardinality(Exchanging(d)') + 1 = Cardinality(Exchanging(d))
        /\ Cardinality(Exchanging(d)') \in Nat
    BY <2>3, CountedThreads, OneElement
  <2>5. remaining[d] = Len(queue[d]) + Cardinality(Exchanging(d)) + Cardinality(Executing(d))
    BY DEF IInv, CountIsExact
  <2>6. remaining[d] = Len(queue'[d]) + Cardinality(Exchanging(d)') + Cardinality(Executing(d))
    <3>1. Cardinality(Executing(d)) \in Nat /\ Cardinality(Exchanging(d)) \in Nat
      BY CountedThreads
    <3>2. Len(queue'[d]) = Len(queue[d]) + 1 /\ Len(queue[d]) \in Nat
      BY <1>5, <1>6
    <3>3. PICK a \in Nat, b \in Nat, c \in Nat :
            /\ a = Len(queue[d]) /\ b = Cardinality(Exchanging(d)') /\ c = Cardinality(Executing(d))
      BY <2>4, <3>1, <3>2
    <3>4. remaining[d] = a + (b + 1) + c /\ Len(queue'[d]) = a + 1
      BY <2>4, <2>5, <3>2, <3>3
    <3>5. a + (b + 1) + c = (a + 1) + b + c
      OBVIOUS
    <3>6. remaining[d] = (a + 1) + b + c
      BY <3>4, <3>5
    <3> QED
      BY <3>3, <3>4, <3>6
  <2>7. \A e \in Dispatchers \ {d} :
          remaining[e] = Len(queue'[e]) + Cardinality(Exchanging(e)') + Cardinality(Executing(e))
    BY <1>5, <2>2 DEF IInv, CountIsExact
  <2> QED
    BY <1>2, <2>1, <2>6, <2>7 DEF CountIsExact
<1>12. ReferencesAreFinite' /\ RefCountIsExact' /\ DestroyedAtZero'
  BY <1>2, <1>7, NoReferenceMoves DEF flushVars, timerVars
<1> QED
  BY <1>8, <1>9, <1>10, <1>11, <1>12, AllParts

(* Where a call returns to, its thread was executing, firing or idle. *)
LEMMA ReturnsToCaller ==
  ASSUME IInv, NEW t \in Threads, pc[t] \in InCall
  PROVE  /\ Caller(t) \in {"executing", "fired", "idle"}
         /\ Caller(t) = "executing" <=> executing[t] # NULL
         /\ Caller(t) = "fired" => firing[t] # NoEntry
         /\ Caller(t) = "idle" => firing[t] = NoEntry
         /\ executing[t] # NULL <=> occupant[t] # NULL
BY DEF IInv, ThreadState, Caller

LEMMA LinkNodeKeepsIInv ==
  ASSUME IInv, NEW t \in Threads, LinkNode(t)
  PROVE  IInv'
<1>1. TypeOK /\ ThreadState(t) /\ TimerState(t) /\ CallIsCovered(t)
  BY DEF IInv
<1>2. /\ pc[t] = "link"
      /\ pc' = [pc EXCEPT ![t] = IF wasZero[t] THEN "reference" ELSE Caller(t)]
      /\ UNCHANGED <<dispatcherVars, callVars, flushVars, timerVars, fate>>
  BY DEF LinkNode
<1>3. PICK to \in {"reference", "executing", "fired", "idle"} :
        /\ to = IF wasZero[t] THEN "reference" ELSE Caller(t)
        /\ to = "reference" <=> wasZero[t]
        /\ to = "executing" => executing[t] # NULL
        /\ to # "reference" /\ executing[t] # NULL => to = "executing"
        /\ to = "fired" => firing[t] # NoEntry
        /\ to = "idle" => firing[t] = NoEntry
  BY <1>1, <1>2, ReturnsToCaller DEF TypeOK
<1>4. /\ pc'[t] = to /\ pc' \in [Threads -> Pcs]
      /\ Moves(t) /\ TasksGoOn
  BY <1>1, <1>2, <1>3 DEF TypeOK, Pcs, Moves, TasksGoOn, callVars, flushVars, timerVars
<1>5. TypeOK'
  BY <1>1, <1>2, <1>4 DEF TypeOK, dispatcherVars, callVars, flushVars, timerVars
<1>6. AllThreads'
  <2>1. ThreadState(t)'
    BY <1>1, <1>2, <1>3, <1>4, ReturnsToCaller DEF ThreadState, Places, flushVars, callVars
  <2>2. TimerState(t)'
    BY <1>1, <1>2, <1>3, <1>4 DEF TimerState, flushVars, timerVars, callVars
  <2>3. CallIsCovered(t)'
    BY <1>1, <1>2 DEF CallIsCovered, dispatcherVars, flushVars, timerVars, callVars
  <2> QED
    BY <1>2, <1>4, <2>1, <2>2, <2>3, ThreadsGoOn DEF dispatcherVars
<1>7. ConsumerIsUnique' /\ LostIsBusy' /\ ListedOnce'
  <2>1. \A e : Flushes(t, e)' <=> Flushes(t, e)
    BY <1>1, <1>2, <1>3, <1>4 DEF ThreadState, Flushes, flushVars
  <2>2. \A e : Becoming(t, e)' <=> Becoming(t, e)
    BY <1>2, <1>3, <1>4 DEF Becoming, callVars
  <2> QED
    BY <1>2, <1>4, <2>1, <2>2, ConsumersStay DEF dispatcherVars, flushVars
<1>8. CountIsExact'
  BY <1>2, <1>3, <1>4, CountStays DEF dispatcherVars, flushVars, callVars
<1>9. ReferencesAreFinite' /\ RefCountIsExact' /\ DestroyedAtZero'
  BY <1>2, <1>4, NoReferenceMoves DEF dispatcherVars, flushVars, timerVars
<1> QED
  BY <1>5, <1>6, <1>7, <1>8, <1>9, AllParts

(***************************************************************************)
(* The list of a thread.                                                   *)
(***************************************************************************)
LEMMA PushedEntry ==
  ASSUME NEW q \in [elements : Seq(Dispatchers), front : Nat], NEW d \in Dispatchers
  PROVE  /\ QPush(q, d) \in [elements : Seq(Dispatchers), front : Nat]
         /\ QPush(q, d).front = q.front
         /\ Len(QPush(q, d).elements) = Len(q.elements) + 1
         /\ Len(q.elements) \in Nat
         /\ QPush(q, d).elements[Len(q.elements) + 1] = d
         /\ \A i \in 1 .. Len(q.elements) : QPush(q, d).elements[i] = q.elements[i]
<1>1. QPush(q, d) = [elements |-> Append(q.elements, d), front |-> q.front]
  <2>1. PICK s \in Seq(Dispatchers), n \in Nat : q = [elements |-> s, front |-> n]
    OBVIOUS
  <2>2. q.elements = s /\ q.front = n
    BY <2>1
  <2>3. QPush(q, d) = [[elements |-> s, front |-> n] EXCEPT !.elements = Append(s, d)]
    BY <2>1, <2>2 DEF QPush
  <2> QED
    BY <2>2, <2>3
<1>2. q.elements \in Seq(Dispatchers) /\ Append(q.elements, d) \in Seq(Dispatchers)
  OBVIOUS
<1> QED
  BY <1>1, <1>2

(* A dispatcher that is in no place of t's list is appended to it. *)
LEMMA ListedAtTheEnd ==
  ASSUME TypeOK, NEW t \in Threads, NEW d \in Dispatchers, d \notin Waiting(t),
         list' = [list EXCEPT ![t] = QPush(@, d)], ListedOnce
  PROVE  /\ Waiting(t)' = Waiting(t) \union {d}
         /\ ListedOnce'
         /\ list' \in [Threads -> [elements : Seq(Dispatchers), front : Nat]]
         /\ \A u \in Threads : list'[u].front <= Len(list'[u].elements)
<1> DEFINE q == list[t]
<1>1. /\ q \in [elements : Seq(Dispatchers), front : Nat] /\ q.front <= Len(q.elements)
      /\ list'[t] = QPush(q, d)
      /\ \A u \in Threads : u # t => list'[u] = list[u]
  BY DEF TypeOK
<1>2. /\ list'[t] \in [elements : Seq(Dispatchers), front : Nat]
      /\ list'[t].front = q.front /\ q.front \in Nat
      /\ Len(list'[t].elements) = Len(q.elements) + 1
      /\ Len(q.elements) \in Nat
      /\ list'[t].elements[Len(q.elements) + 1] = d
      /\ \A i \in 1 .. Len(q.elements) : list'[t].elements[i] = q.elements[i]
  <2>1. /\ QPush(q, d) \in [elements : Seq(Dispatchers), front : Nat]
        /\ QPush(q, d).front = q.front /\ q.front \in Nat
        /\ Len(QPush(q, d).elements) = Len(q.elements) + 1
        /\ Len(q.elements) \in Nat
        /\ QPush(q, d).elements[Len(q.elements) + 1] = d
        /\ \A i \in 1 .. Len(q.elements) : QPush(q, d).elements[i] = q.elements[i]
    <3> HIDE DEF q
    <3> QED
      BY <1>1, PushedEntry
  <2> HIDE DEF q
  <2> QED
    BY <1>1, <2>1
<1> HIDE DEF q
<1>3. /\ Places(t)' = q.front + 1 .. Len(q.elements) + 1
      /\ Places(t) = q.front + 1 .. Len(q.elements)
  BY <1>2 DEF Places, q
<1>4. \A i \in Places(t) : i \in 1 .. Len(q.elements) /\ list'[t].elements[i] = list[t].elements[i]
                           /\ i \in Places(t)'
  BY <1>1, <1>2, <1>3 DEF q
<1>5. \A i \in Places(t)' : i \in Places(t) \/ i = Len(q.elements) + 1
  BY <1>1, <1>2, <1>3
<1>6. Len(q.elements) + 1 \in Places(t)' /\ Len(q.elements) + 1 \notin Places(t)
  BY <1>1, <1>2, <1>3
<1>7. Waiting(t)' = Waiting(t) \union {d}
  BY <1>2, <1>4, <1>5, <1>6 DEF Waiting
<1>8. ListedOnce'
  <2> SUFFICES ASSUME NEW u \in Threads, NEW i \in Places(u)', NEW j \in Places(u)',
                      list'[u].elements[i] = list'[u].elements[j]
               PROVE  i = j
    BY DEF ListedOnce
  <2>1. CASE u # t
    <3>1. Places(u)' = Places(u) /\ list'[u] = list[u]
      BY <1>1, <2>1 DEF Places
    <3> QED
      BY <3>1 DEF ListedOnce
  <2>2. CASE u = t
    <3>1. \A k \in Places(t) : list[t].elements[k] # d
      BY DEF Waiting
    <3>2. CASE i \in Places(t) /\ j \in Places(t)
      BY <1>4, <2>2, <3>2 DEF ListedOnce
    <3> QED
      BY <1>2, <1>4, <1>5, <2>2, <3>1, <3>2
  <2> QED
    BY <2>1, <2>2
<1>9. list' \in [Threads -> [elements : Seq(Dispatchers), front : Nat]]
  BY <1>1, <1>2 DEF TypeOK
<1>10. \A u \in Threads : list'[u].front <= Len(list'[u].elements)
  <2>1. list'[t].front <= Len(list'[t].elements)
    BY <1>1, <1>2 DEF q
  <2> QED
    BY <1>1, <2>1 DEF TypeOK
<1> QED
  BY <1>7, <1>8, <1>9, <1>10

LEMMA ConsumerOfOne ==
  ASSUME IInv, NEW d \in Dispatchers,
         \A e \in Dispatchers \ {d} : /\ Consumers(e)' = Consumers(e)
                                      /\ remaining'[e] = 0 <=> remaining[e] = 0
                                      /\ e \in lost' <=> e \in lost,
         IF remaining'[d] = 0 \/ d \in lost'
         THEN Consumers(d)' = {}
         ELSE \E c : Consumers(d)' = {c}
  PROVE  ConsumerIsUnique'
<1>1. \A e \in Dispatchers \ {d} :
        IF remaining'[e] = 0 \/ e \in lost'
        THEN Consumers(e)' = {}
        ELSE \E c \in Consumers(e)' : Consumers(e)' = {c}
  BY DEF IInv, ConsumerIsUnique
<1>2. (\E c : Consumers(d)' = {c}) => \E c \in Consumers(d)' : Consumers(d)' = {c}
  OBVIOUS
<1> QED
  BY <1>1, <1>2 DEF ConsumerIsUnique

(* A thread that is a consumer of d is the only one, and d is counted. *)
LEMMA TheConsumer ==
  ASSUME IInv, NEW d \in Dispatchers, NEW c \in Consumers(d)
  PROVE  Consumers(d) = {c} /\ remaining[d] # 0 /\ d \notin lost
BY DEF IInv, ConsumerIsUnique

LEMMA CallIsReferred ==
  ASSUME IInv, NEW t \in Threads, pc[t] \in InCall, target[t] \in Dispatchers
  PROVE  refCount[target[t]] # 0
<1> DEFINE d == target[t]
<1>1. References(d) # {}
  <2>1. CASE owned[d]
    BY <2>1, ReferenceKinds
  <2>2. CASE ~ owned[d]
    <3>1. \/ Flushes(t, d)
          \/ firing[t] \in timers[t] /\ firing[t].origin = d
      BY <2>2, CallRefers
    <3>2. \/ occupant[t] = d
          \/ listed[t] /\ flushing[t] = d
          \/ firing[t] \in timers[t] /\ firing[t].origin = d
      BY <3>1, FlushRefers
    <3> HIDE DEF d
    <3> QED
      BY <3>2, ReferenceKinds
  <2> QED
    BY <2>1, <2>2
<1> QED
  BY <1>1, ReferredIsCounted

LEMMA BecomeConsumerKeepsIInv ==
  ASSUME IInv, NEW t \in Threads, BecomeConsumer(t)
  PROVE  IInv'
<1>1. TypeOK /\ ThreadState(t) /\ TimerState(t) /\ CallIsCovered(t) /\ ListedOnce
  BY DEF IInv
<1>2. PICK d \in Dispatchers : d = target[t]
  BY <1>1 DEF TypeOK, ThreadState, BecomeConsumer
<1>3. /\ pc[t] = "reference" /\ wasZero[t]
      /\ AddReference(d)
      /\ UNCHANGED <<remaining, pendingDestroy, queue, owned, destroyed, callVars,
                     executing, lost, timerVars, fate>>
  BY <1>1, <1>2 DEF BecomeConsumer, ThreadState
<1>4. /\ Consumers(d) = {<<t, "dispatch">>} /\ remaining[d] # 0 /\ d \notin lost
      /\ ~ Flushes(t, d) /\ d \notin Waiting(t)
  <2>1. Becoming(t, d)
    BY <1>2, <1>3 DEF Becoming
  <2>2. <<t, "dispatch">> \in Consumers(d)
    BY <2>1, WhoConsumes
  <2>3. Consumers(d) = {<<t, "dispatch">>} /\ remaining[d] # 0 /\ d \notin lost
    BY <2>2, TheConsumer
  <2> QED
    BY <2>3, WhoConsumes
<1>5. refCount[d] # 0
  BY <1>2, <1>3, CallIsReferred
<1>6. /\ \A e : Becoming(t, e) <=> e = d
      /\ pc'[t] \in {"executing", "flush"} => \A e : ~ Becoming(t, e)'
  BY <1>2, <1>3 DEF Becoming
<1>7. TasksGoOn /\ pc[t] \in InCall
  BY <1>3 DEF TasksGoOn
<1>8. CASE occupant[t] # NULL
  <2>1. /\ list' = [list EXCEPT ![t] = QPush(@, d)]
        /\ pc' = [pc EXCEPT ![t] = Caller(t)]
        /\ UNCHANGED <<occupant, flushing, listed>>
    BY <1>2, <1>8 DEF BecomeConsumer
  <2>2. executing[t] # NULL /\ pc'[t] = "executing" /\ pc' \in [Threads -> Pcs]
    BY <1>1, <1>7, <1>8, <2>1, ReturnsToCaller DEF TypeOK, Pcs
  <2>3. /\ Waiting(t)' = Waiting(t) \union {d}
        /\ ListedOnce'
        /\ list' \in [Threads -> [elements : Seq(Dispatchers), front : Nat]]
        /\ \A u \in Threads : list'[u].front <= Len(list'[u].elements)
    BY <1>1, <1>4, <2>1, ListedAtTheEnd
  <2>4. Moves(t)
    BY <1>1, <1>3, <2>1 DEF TypeOK, Moves, callVars, timerVars
  <2>5. AllThreads'
    <3>1. ThreadState(t)'
      BY <1>1, <1>3, <1>8, <2>1, <2>2 DEF ThreadState, callVars
    <3>2. TimerState(t)'
      BY <1>1, <1>3, <2>2 DEF TimerState, timerVars
    <3>3. CallIsCovered(t)'
      BY <2>2 DEF CallIsCovered
    <3> QED
      BY <1>3, <1>7, <2>4, <3>1, <3>2, <3>3, ThreadsGoOn
  <2>6. \A e : Flushes(t, e)' <=> Flushes(t, e)
    BY <1>3, <2>1, <2>2 DEF Flushes
  <2>7. ConsumerIsUnique'
    <3>1. \A e \in Dispatchers \ {d} : Consumers(e)' = Consumers(e)
      <4> SUFFICES ASSUME NEW e \in Dispatchers \ {d} PROVE Consumers(e)' = Consumers(e)
        OBVIOUS
      <4>1. Becoming(t, e)' <=> Becoming(t, e)
        BY <1>6, <2>2
      <4>2. e \in Waiting(t)' <=> e \in Waiting(t)
        BY <2>3
      <4> QED
        BY <2>4, <2>6, <4>1, <4>2, SameConsumers
    <3>2. Part(t, d)' = {<<t, "list">>}
      BY <1>4, <1>6, <2>2, <2>3, <2>6 DEF Part
    <3>3. Consumers(d)' = {<<t, "list">>}
      BY <1>4, <2>4, <3>2, OwnPart
    <3> QED
      BY <1>3, <1>4, <3>1, <3>3, ConsumerOfOne
  <2>8. CountIsExact'
    BY <1>3, <2>1, <2>2, <2>4, CountStays DEF callVars
  <2>9. /\ ReferencesAreFinite' /\ RefCountIsExact' /\ DestroyedAtZero'
        /\ refCount' \in [Dispatchers -> Nat]
    <3> DEFINE r == <<"list", t, NULL>>
    <3>1. \A s : s # r => (s \in References(d)' <=> s \in References(d))
      BY <1>3, <2>1, <2>4, OneReference DEF timerVars
    <3>2. r \notin References(d) /\ r \in References(d)'
      BY <1>4, <2>3, ReferenceKinds, ReferenceKindsNext
    <3>3. \A e \in Dispatchers \ {d} : References(e)' = References(e)
      <4> SUFFICES ASSUME NEW e \in Dispatchers \ {d} PROVE References(e)' = References(e)
        OBVIOUS
      <4>1. e \in Waiting(t)' <=> e \in Waiting(t)
        BY <2>3
      <4> QED
        BY <1>3, <2>1, <2>4, <4>1, SameReferences DEF timerVars
    <3> HIDE DEF r
    <3> QED
      BY <1>3, <1>5, <3>1, <3>2, <3>3, Acquire
  <2>10. TypeOK'
    BY <1>1, <1>3, <2>1, <2>2, <2>3, <2>9 DEF TypeOK, callVars, timerVars
  <2>11. LostIsBusy'
    BY <1>3 DEF IInv, LostIsBusy
  <2> QED
    BY <2>3, <2>5, <2>7, <2>8, <2>9, <2>10, <2>11, AllParts
<1>9. CASE occupant[t] = NULL
  <2>1. /\ occupant' = [occupant EXCEPT ![t] = d]
        /\ flushing' = [flushing EXCEPT ![t] = d]
        /\ listed' = [listed EXCEPT ![t] = FALSE]
        /\ pc' = [pc EXCEPT ![t] = "flush"]
        /\ UNCHANGED list
    BY <1>2, <1>9 DEF BecomeConsumer
  <2>2. /\ executing[t] = NULL /\ flushing[t] = NULL /\ pc'[t] = "flush"
        /\ pc' \in [Threads -> Pcs] /\ occupant'[t] = d /\ flushing'[t] = d /\ listed'[t] = FALSE
    BY <1>1, <1>7, <1>9, <2>1, ReturnsToCaller DEF TypeOK, Pcs, ThreadState
  <2>3. Waiting(t)' = Waiting(t) /\ Places(t)' = Places(t)
    BY <2>1 DEF Waiting, Places
  <2>4. Moves(t)
    BY <1>1, <1>3, <2>1 DEF TypeOK, Moves, callVars, timerVars
  <2>5. AllThreads'
    <3>1. ThreadState(t)'
      BY <1>1, <1>3, <1>9, <2>2, <2>3 DEF ThreadState, callVars
    <3>2. TimerState(t)'
      BY <1>1, <1>3, <2>2 DEF TimerState, timerVars
    <3>3. CallIsCovered(t)'
      BY <2>2 DEF CallIsCovered
    <3> QED
      BY <1>3, <1>7, <2>4, <3>1, <3>2, <3>3, ThreadsGoOn
  <2>6. \A e \in Dispatchers : (Flushes(t, e)' <=> e = d) /\ ~ Flushes(t, e)
    BY <1>3, <2>1, <2>2 DEF Flushes
  <2>7. ConsumerIsUnique'
    <3>1. \A e \in Dispatchers \ {d} : Consumers(e)' = Consumers(e)
      <4> SUFFICES ASSUME NEW e \in Dispatchers \ {d} PROVE Consumers(e)' = Consumers(e)
        OBVIOUS
      <4>1. Becoming(t, e)' <=> Becoming(t, e)
        BY <1>6, <2>2
      <4>2. Flushes(t, e)' <=> Flushes(t, e)
        BY <2>6
      <4> QED
        BY <2>3, <2>4, <4>1, <4>2, SameConsumers
    <3>2. Part(t, d)' = {<<t, "flush">>}
      BY <1>4, <1>6, <2>2, <2>3, <2>6 DEF Part
    <3>3. Consumers(d)' = {<<t, "flush">>}
      BY <1>4, <2>4, <3>2, OwnPart
    <3> QED
      BY <1>3, <1>4, <3>1, <3>3, ConsumerOfOne
  <2>8. CountIsExact'
    BY <1>3, <2>2, <2>4, CountStays DEF callVars
  <2>9. /\ ReferencesAreFinite' /\ RefCountIsExact' /\ DestroyedAtZero'
        /\ refCount' \in [Dispatchers -> Nat]
    <3> DEFINE r == <<"occupant", t, NULL>>
    <3>1. \A s : s # r => (s \in References(d)' <=> s \in References(d))
      BY <1>3, <2>2, <2>3, <2>4, OneReference DEF timerVars
    <3>2. r \notin References(d) /\ r \in References(d)'
      BY <1>9, <2>2, ReferenceKinds, ReferenceKindsNext
    <3>3. \A e \in Dispatchers \ {d} : References(e)' = References(e)
      BY <1>3, <1>9, <2>2, <2>3, <2>4, SameReferences DEF timerVars
    <3> HIDE DEF r
    <3> QED
      BY <1>3, <1>5, <3>1, <3>2, <3>3, Acquire
  <2>10. TypeOK'
    <3>1. /\ occupant' \in [Threads -> Dispatchers \union {NULL}]
          /\ flushing' \in [Threads -> Dispatchers \union {NULL}]
          /\ listed' \in [Threads -> BOOLEAN]
      BY <1>1, <2>1 DEF TypeOK
    <3> QED
      BY <1>1, <1>3, <2>1, <2>2, <2>9, <3>1 DEF TypeOK, callVars, timerVars
  <2>11. LostIsBusy' /\ ListedOnce'
    BY <1>1, <1>3, <2>1 DEF IInv, LostIsBusy, ListedOnce, Places
  <2> QED
    BY <2>5, <2>7, <2>8, <2>9, <2>10, <2>11, AllParts
<1> QED
  BY <1>8, <1>9

-----------------------------------------------------------------------------
(***************************************************************************)
(* Flush.                                                                  *)
(***************************************************************************)

(* A thread in Flush is the consumer of its dispatcher. *)
LEMMA FlushIsConsumer ==
  ASSUME IInv, NEW t \in Threads, pc[t] \in {"flush", "executing", "executed"}
  PROVE  /\ flushing[t] \in Dispatchers
         /\ Flushes(t, flushing[t])
         /\ Consumers(flushing[t]) = {<<t, "flush">>}
         /\ remaining[flushing[t]] # 0 /\ flushing[t] \notin lost
         /\ flushing[t] \notin Waiting(t)
<1>1. flushing[t] \in Dispatchers
  BY DEF IInv, TypeOK, ThreadState
<1>2. Flushes(t, flushing[t])
  BY DEF Flushes
<1>3. <<t, "flush">> \in Consumers(flushing[t])
  BY <1>2, WhoConsumes
<1>4. /\ Consumers(flushing[t]) = {<<t, "flush">>}
      /\ remaining[flushing[t]] # 0 /\ flushing[t] \notin lost
  BY <1>1, <1>3, TheConsumer
<1>5. flushing[t] \notin Waiting(t)
  BY <1>4, WhoConsumes
<1> QED
  BY <1>1, <1>2, <1>4, <1>5

LEMMA FlushPopKeepsIInv ==
  ASSUME IInv, NEW t \in Threads, FlushPop(t)
  PROVE  IInv'
<1>1. TypeOK /\ ThreadState(t) /\ TimerState(t) /\ CallIsCovered(t)
  BY DEF IInv
<1>2. PICK d \in Dispatchers : d = flushing[t]
  BY FlushIsConsumer DEF FlushPop
<1>3. /\ pc[t] = "flush"
      /\ queue[d] # <<>>
      /\ executing' = [executing EXCEPT ![t] = Head(queue[d])]
      /\ queue' = [queue EXCEPT ![d] = Tail(@)]
      /\ pc' = [pc EXCEPT ![t] = IF pendingDestroy[d] THEN "executed" ELSE "executing"]
      /\ UNCHANGED <<remaining, refCount, pendingDestroy, owned, destroyed, callVars,
                     occupant, flushing, listed, list, lost, timerVars, fate>>
  BY <1>2 DEF FlushPop, CanPop
<1>4. PICK first \in Tasks, rest \in Seq(Tasks) :
        /\ first = Head(queue[d]) /\ rest = Tail(queue[d])
        /\ Len(queue[d]) = Len(rest) + 1 /\ Len(rest) \in Nat
  <2>1. queue[d] \in Seq(Tasks) /\ queue[d] # <<>>
    BY <1>1, <1>3 DEF TypeOK
  <2>2. /\ Head(queue[d]) \in Tasks /\ Tail(queue[d]) \in Seq(Tasks)
        /\ Len(Tail(queue[d])) = Len(queue[d]) - 1
        /\ Len(queue[d]) \in Nat /\ Len(Tail(queue[d])) \in Nat
    BY <2>1, HeadTailProperties
  <2>3. Len(queue[d]) = Len(Tail(queue[d])) + 1
    BY <2>2
  <2> QED
    BY <2>2, <2>3
<1>5. /\ queue'[d] = rest /\ \A e \in Dispatchers \ {d} : queue'[e] = queue[e]
      /\ queue' \in [Dispatchers -> Seq(Tasks)]
  BY <1>1, <1>3, <1>4 DEF TypeOK
<1>6. PICK to \in {"executing", "executed"} :
        to = IF pendingDestroy[d] THEN "executed" ELSE "executing"
  OBVIOUS
<1>7. /\ pc'[t] = to /\ pc' \in [Threads -> Pcs]
      /\ executing'[t] = first /\ executing' \in [Threads -> Tasks \union {NULL}]
      /\ executing'[t] # NULL /\ executing[t] = NULL
  BY <1>1, <1>3, <1>4, <1>6 DEF TypeOK, Pcs, ThreadState
<1>8. Moves(t) /\ TasksGoOn
  BY <1>1, <1>3 DEF TypeOK, Moves, TasksGoOn, callVars, timerVars
<1>9. TypeOK'
  BY <1>1, <1>3, <1>5, <1>7 DEF TypeOK, callVars, timerVars
<1>10. AllThreads'
  <2>1. ThreadState(t)'
    BY <1>1, <1>3, <1>7 DEF ThreadState, Places, callVars
  <2>2. TimerState(t)'
    BY <1>1, <1>3, <1>7 DEF TimerState, timerVars
  <2>3. CallIsCovered(t)'
    BY <1>7 DEF CallIsCovered
  <2> QED
    BY <1>3, <1>8, <2>1, <2>2, <2>3, ThreadsGoOn
<1>11. ConsumerIsUnique' /\ LostIsBusy' /\ ListedOnce'
  <2>1. \A e : Flushes(t, e)' <=> Flushes(t, e)
    BY <1>3, <1>7 DEF Flushes
  <2>2. \A e : ~ Becoming(t, e) /\ ~ Becoming(t, e)'
    BY <1>3, <1>7 DEF Becoming
  <2> QED
    BY <1>3, <1>8, <2>1, <2>2, ConsumersStay
<1>12. CountIsExact'
  <2>1. \A e : Exchanging(e)' = Exchanging(e)
    BY <1>3, <1>7, <1>8 DEF Exchanging, Moves
  <2>2. \A e \in Dispatchers \ {d} : Executing(e)' = Executing(e)
    BY <1>2, <1>3, <1>7, <1>8 DEF Executing, Moves
  <2>3. /\ t \notin Executing(d) /\ t \in Executing(d)'
        /\ \A u : u # t => (u \in Executing(d)' <=> u \in Executing(d))
    BY <1>2, <1>3, <1>7, <1>8 DEF Executing, Moves
  <2>4. Cardinality(Executing(d)') = Cardinality(Executing(d)) + 1
    BY <2>3, CountedThreads, OneElement
  <2>5. remaining[d] = Len(queue[d]) + Cardinality(Exchanging(d)) + Cardinality(Executing(d))
    BY DEF IInv, CountIsExact
  <2>6. PICK a \in Nat, b \in Nat, c \in Nat :
          /\ a = Len(rest) /\ b = Cardinality(Exchanging(d)) /\ c = Cardinality(Executing(d))
    BY <1>4, CountedThreads
  <2>7. remaining[d] = a + b + (c + 1)
    <3>1. remaining[d] = (a + 1) + b + c
      BY <1>4, <2>5, <2>6
    <3>2. (a + 1) + b + c = a + b + (c + 1)
      OBVIOUS
    <3> QED
      BY <3>1, <3>2
  <2>8. \A e \in Dispatchers \ {d} :
          remaining[e] = Len(queue'[e]) + Cardinality(Exchanging(e)) + Cardinality(Executing(e)')
    BY <1>5, <2>2 DEF IInv, CountIsExact
  <2>9. remaining[d] = Len(queue'[d]) + Cardinality(Exchanging(d)) + Cardinality(Executing(d)')
    BY <1>5, <2>4, <2>6, <2>7
  <2> QED
    BY <1>3, <2>1, <2>8, <2>9 DEF CountIsExact
<1>13. ReferencesAreFinite' /\ RefCountIsExact' /\ DestroyedAtZero'
  BY <1>3, <1>8, NoReferenceMoves DEF timerVars
<1> QED
  BY <1>9, <1>10, <1>11, <1>12, <1>13, AllParts

LEMMA ExecuteReturnsKeepsIInv ==
  ASSUME IInv, NEW t \in Threads, ExecuteReturns(t)
  PROVE  IInv'
<1>1. TypeOK /\ ThreadState(t) /\ TimerState(t) /\ CallIsCovered(t)
  BY DEF IInv
<1>2. /\ pc[t] = "executing" /\ pc' = [pc EXCEPT ![t] = "executed"]
      /\ UNCHANGED <<dispatcherVars, callVars, flushVars, timerVars, fate>>
  BY DEF ExecuteReturns
<1>3. /\ pc'[t] = "executed" /\ pc' \in [Threads -> Pcs]
      /\ Moves(t) /\ TasksGoOn
  BY <1>1, <1>2 DEF TypeOK, Pcs, Moves, TasksGoOn, callVars, flushVars, timerVars
<1>4. TypeOK'
  BY <1>1, <1>2, <1>3 DEF TypeOK, dispatcherVars, callVars, flushVars, timerVars
<1>5. AllThreads'
  <2>1. ThreadState(t)'
    BY <1>1, <1>2, <1>3 DEF ThreadState, Places, flushVars, callVars
  <2>2. TimerState(t)'
    BY <1>1, <1>2, <1>3 DEF TimerState, flushVars, timerVars, callVars
  <2>3. CallIsCovered(t)'
    BY <1>3 DEF CallIsCovered
  <2> QED
    BY <1>2, <1>3, <2>1, <2>2, <2>3, ThreadsGoOn DEF dispatcherVars
<1>6. ConsumerIsUnique' /\ LostIsBusy' /\ ListedOnce'
  BY <1>2, <1>3, ConsumersStay DEF dispatcherVars, flushVars, callVars, Flushes, Becoming
<1>7. CountIsExact'
  BY <1>2, <1>3, CountStays DEF dispatcherVars, flushVars, callVars
<1>8. ReferencesAreFinite' /\ RefCountIsExact' /\ DestroyedAtZero'
  BY <1>2, <1>3, NoReferenceMoves DEF dispatcherVars, flushVars, timerVars
<1> QED
  BY <1>4, <1>5, <1>6, <1>7, <1>8, AllParts

LEMMA DestroyAndCountDownKeepsIInv ==
  ASSUME IInv, NEW t \in Threads, DestroyAndCountDown(t)
  PROVE  IInv'
<1>1. TypeOK /\ ThreadState(t) /\ TimerState(t) /\ CallIsCovered(t)
  BY DEF IInv
<1>2. PICK d \in Dispatchers : d = flushing[t]
  BY FlushIsConsumer DEF DestroyAndCountDown
<1>3. /\ pc[t] = "executed"
      /\ fate' = [fate EXCEPT ![executing[t]] = "done"]
      /\ executing' = [executing EXCEPT ![t] = NULL]
      /\ remaining' = [remaining EXCEPT ![d] = @ - 1]
      /\ pc' = [pc EXCEPT ![t] = IF remaining[d] # 1 THEN "flush"
                                 ELSE IF listed[t] THEN "flushed" ELSE "drain"]
      /\ UNCHANGED <<refCount, pendingDestroy, queue, owned, destroyed, callVars,
                     occupant, flushing, listed, list, lost, timerVars>>
  BY <1>2 DEF DestroyAndCountDown
<1>4. /\ Flushes(t, d) /\ Consumers(d) = {<<t, "flush">>}
      /\ remaining[d] # 0 /\ d \notin lost /\ d \notin Waiting(t)
  BY <1>2, <1>3, FlushIsConsumer
<1>5. executing[t] \in Tasks
  BY <1>1, <1>3 DEF TypeOK, ThreadState
<1>6. /\ remaining[d] \in Nat \ {0} /\ remaining'[d] = remaining[d] - 1
      /\ \A e \in Dispatchers \ {d} : remaining'[e] = remaining[e]
      /\ remaining' \in [Dispatchers -> Nat]
  BY <1>1, <1>3, <1>4 DEF TypeOK
<1>7. PICK to \in {"flush", "flushed", "drain"} :
        /\ to = IF remaining[d] # 1 THEN "flush" ELSE IF listed[t] THEN "flushed" ELSE "drain"
        /\ to = "flush" <=> remaining[d] # 1
        /\ to = "flushed" => listed[t]
        /\ to = "drain" => ~ listed[t]
  OBVIOUS
<1>8. /\ pc'[t] = to /\ pc' \in [Threads -> Pcs]
      /\ executing'[t] = NULL /\ executing' \in [Threads -> Tasks \union {NULL}]
      /\ fate' \in [Tasks -> {"new", "timed", "dispatched", "done"}]
  BY <1>1, <1>3, <1>5, <1>7 DEF TypeOK, Pcs
<1>9. Moves(t) /\ TasksGoOn
  BY <1>1, <1>3, <1>5 DEF TypeOK, Moves, TasksGoOn, callVars, timerVars
<1>10. TypeOK'
  BY <1>1, <1>3, <1>6, <1>8 DEF TypeOK, callVars, timerVars
<1>11. AllThreads'
  <2>1. ThreadState(t)'
    BY <1>1, <1>3, <1>7, <1>8 DEF ThreadState, Places, callVars
  <2>2. TimerState(t)'
    <3>1. \A e \in timers'[t] : fate'[e.task] # "new"
      BY <1>1, <1>3, <1>9, TimersHoldTasks DEF TimerState, TasksGoOn, timerVars
    <3> QED
      BY <1>1, <1>3, <1>8, <3>1 DEF TimerState, timerVars
  <2>3. CallIsCovered(t)'
    BY <1>8 DEF CallIsCovered
  <2> QED
    BY <1>3, <1>9, <2>1, <2>2, <2>3, ThreadsGoOn
<1>12. /\ \A e : ~ Becoming(t, e) /\ ~ Becoming(t, e)'
       /\ \A e : Flushes(t, e)' <=> (e = d /\ to = "flush")
       /\ \A e : Flushes(t, e) <=> e = d
       /\ Waiting(t)' = Waiting(t)
  BY <1>2, <1>3, <1>8 DEF Becoming, Flushes, Waiting, Places
<1>13. ConsumerIsUnique'
  <2>1. \A e \in Dispatchers \ {d} : Consumers(e)' = Consumers(e)
    BY <1>9, <1>12, SameConsumers
  <2>2. CASE to = "flush"
    <3>1. Part(t, d)' = {<<t, "flush">>}
      BY <1>4, <1>12, <2>2 DEF Part
    <3>2. Consumers(d)' = {<<t, "flush">>}
      BY <1>4, <1>9, <3>1, OwnPart
    <3>3. remaining'[d] # 0
      BY <1>6, <1>7, <2>2
    <3> QED
      BY <1>3, <1>4, <1>6, <2>1, <3>2, <3>3, ConsumerOfOne
  <2>3. CASE to # "flush"
    <3>1. Part(t, d)' = {}
      BY <1>4, <1>12, <2>3 DEF Part
    <3>2. Consumers(d)' = {}
      BY <1>4, <1>9, <3>1, OwnPart
    <3>3. remaining'[d] = 0
      BY <1>6, <1>7, <2>3
    <3> QED
      BY <1>3, <1>4, <1>6, <2>1, <3>2, <3>3, ConsumerOfOne
  <2> QED
    BY <2>2, <2>3
<1>14. LostIsBusy' /\ ListedOnce'
  <2>1. ListedOnce'
    BY <1>3 DEF IInv, ListedOnce, Places
  <2>2. LostIsBusy'
    BY <1>1, <1>3, <1>4, <1>6 DEF IInv, LostIsBusy, TypeOK
  <2> QED
    BY <2>1, <2>2
<1>15. CountIsExact'
  <2>1. \A e : Exchanging(e)' = Exchanging(e)
    BY <1>3, <1>8, <1>9 DEF Exchanging, Moves
  <2>2. \A e \in Dispatchers \ {d} : Executing(e)' = Executing(e)
    BY <1>2, <1>3, <1>8, <1>9 DEF Executing, Moves
  <2>3. /\ t \in Executing(d) /\ t \notin Executing(d)'
        /\ \A u : u # t => (u \in Executing(d)' <=> u \in Executing(d))
    BY <1>2, <1>3, <1>5, <1>8, <1>9 DEF Executing, Moves
  <2>4. Cardinality(Executing(d)) = Cardinality(Executing(d)') + 1
    BY <2>3, CountedThreads, OneElement
  <2>5. remaining[d] = Len(queue[d]) + Cardinality(Exchanging(d)) + Cardinality(Executing(d))
    BY DEF IInv, CountIsExact
  <2>6. Len(queue[d]) \in Nat /\ Cardinality(Exchanging(d)) \in Nat
        /\ Cardinality(Executing(d)') \in Nat
    <3>1. Len(queue[d]) \in Nat
      BY <1>1 DEF TypeOK
    <3>2. Cardinality(Executing(d)') \in Nat
      BY <2>3, CountedThreads, OneElement
    <3> QED
      BY <3>1, <3>2, CountedThreads
  <2>7. PICK a \in Nat, b \in Nat, c \in Nat :
          /\ a = Len(queue[d]) /\ b = Cardinality(Exchanging(d)) /\ c = Cardinality(Executing(d)')
    BY <2>6
  <2>8. remaining'[d] = a + b + c
    <3>1. remaining[d] = a + b + (c + 1)
      BY <2>4, <2>5, <2>7
    <3>2. a + b + (c + 1) - 1 = a + b + c
      OBVIOUS
    <3>3. remaining'[d] = a + b + (c + 1) - 1
      BY <1>6, <3>1
    <3> QED
      BY <3>2, <3>3
  <2>9. \A e \in Dispatchers \ {d} :
          remaining'[e] = Len(queue[e]) + Cardinality(Exchanging(e)) + Cardinality(Executing(e)')
    BY <1>6, <2>2 DEF IInv, CountIsExact
  <2>10. remaining'[d] = Len(queue[d]) + Cardinality(Exchanging(d)) + Cardinality(Executing(d)')
    BY <2>7, <2>8
  <2> QED
    BY <1>3, <2>1, <2>9, <2>10 DEF CountIsExact
<1>16. ReferencesAreFinite' /\ RefCountIsExact' /\ DestroyedAtZero'
  BY <1>3, <1>9, NoReferenceMoves DEF timerVars
<1> QED
  BY <1>10, <1>11, <1>13, <1>14, <1>15, <1>16, AllParts

-----------------------------------------------------------------------------
(***************************************************************************)
(* The list is drained.                                                    *)
(***************************************************************************)
LEMMA PoppedQueue ==
  ASSUME NEW e \in Seq(Dispatchers), NEW f \in Nat, f < Len(e),
         NEW q, q = [elements |-> e, front |-> f]
  PROVE  /\ QTop(q) = e[f + 1]
         /\ BalanceShifts(Advanced(q)) => f + 2 <= Len(e) /\ QTop(Advanced(q)) = e[f + 2]
         /\ QPop(q) = IF BalanceShifts(Advanced(q))
                      THEN [elements |-> SubSeq(e, f + 3, Len(e)), front |-> 0]
                      ELSE [elements |-> e, front |-> f + 1]
<1>1. q.elements = e /\ q.front = f /\ Len(e) \in Nat
  OBVIOUS
<1>2. Advanced(q) = [elements |-> e, front |-> f + 1]
  BY DEF Advanced
<1>3. Advanced(q).elements = e /\ Advanced(q).front = f + 1
  BY <1>2
<1>4. QNonEmpty(q)
  BY <1>1 DEF QNonEmpty
<1>5. QTop(q) = e[f + 1] /\ QTop(Advanced(q)) = e[f + 2]
  <2>1. QTop(q) = e[f + 1]
    BY <1>1 DEF QTop
  <2>2. QTop(Advanced(q)) = e[(f + 1) + 1] /\ (f + 1) + 1 = f + 2
    BY <1>3 DEF QTop
  <2> QED
    BY <2>1, <2>2
<1>6. BalanceShifts(Advanced(q)) => f + 2 <= Len(e)
  BY <1>1, <1>3 DEF BalanceShifts, QNonEmpty
<1>7. QPop(q) = QBalance(Advanced(q))
  BY <1>4 DEF QPop
<1>8. BalanceSlack(Advanced(q)) + 1 = f + 3
  BY <1>3 DEF BalanceSlack
<1>9. QBalance(Advanced(q)) = IF BalanceShifts(Advanced(q))
                              THEN [elements |-> SubSeq(e, f + 3, Len(e)), front |-> 0]
                              ELSE Advanced(q)
  BY <1>3, <1>8 DEF QBalance
<1> QED
  BY <1>2, <1>5, <1>6, <1>7, <1>9

LEMMA ShiftedElements ==
  ASSUME NEW e \in Seq(Dispatchers), NEW f \in Nat, f + 2 <= Len(e)
  PROVE  /\ SubSeq(e, f + 3, Len(e)) \in Seq(Dispatchers)
         /\ Len(SubSeq(e, f + 3, Len(e))) = Len(e) - (f + 2)
         /\ \A i \in 1 .. Len(e) - (f + 2) : SubSeq(e, f + 3, Len(e))[i] = e[f + 2 + i]
<1>1. Len(e) \in Nat /\ \A i \in 1 .. Len(e) : e[i] \in Dispatchers
  OBVIOUS
<1>2. \A i \in f + 3 .. Len(e) : e[i] \in Dispatchers
  BY <1>1
<1>3. /\ SubSeq(e, f + 3, Len(e)) \in Seq(Dispatchers)
      /\ Len(SubSeq(e, f + 3, Len(e))) = (IF f + 3 <= Len(e) THEN Len(e) - (f + 3) + 1 ELSE 0)
      /\ \A i \in 1 .. Len(e) - (f + 3) + 1 : SubSeq(e, f + 3, Len(e))[i] = e[f + 3 + i - 1]
  BY <1>1, <1>2, SubSeqProperties
<1>4. Len(SubSeq(e, f + 3, Len(e))) = Len(e) - (f + 2)
  BY <1>1, <1>3
<1>5. \A i \in 1 .. Len(e) - (f + 2) : SubSeq(e, f + 3, Len(e))[i] = e[f + 2 + i]
  BY <1>1, <1>3
<1> QED
  BY <1>3, <1>4, <1>5

(* What Pop takes from the list of t: its top, and the entry that a shift *)
(* drops.                                                                  *)
Dropped(q) == IF BalanceShifts(Advanced(q)) THEN {QTop(Advanced(q))} ELSE {}

LEMMA PoppedList ==
  ASSUME TypeOK, ListedOnce, NEW t \in Threads, QNonEmpty(list[t]),
         list' = [list EXCEPT ![t] = QPop(@)]
  PROVE  /\ QTop(list[t]) \in Dispatchers
         /\ QTop(list[t]) \in Waiting(t)
         /\ Dropped(list[t]) \subseteq Waiting(t) \intersect Dispatchers
         /\ QTop(list[t]) \notin Dropped(list[t])
         /\ Waiting(t)' = Waiting(t) \ ({QTop(list[t])} \union Dropped(list[t]))
         /\ ListedOnce'
         /\ list' \in [Threads -> [elements : Seq(Dispatchers), front : Nat]]
         /\ \A u \in Threads : list'[u].front <= Len(list'[u].elements)
<1>1. PICK e \in Seq(Dispatchers), f \in Nat : list[t] = [elements |-> e, front |-> f]
  BY DEF TypeOK
<1>2. list[t].elements = e /\ list[t].front = f /\ Len(e) \in Nat
  BY <1>1
<1>3. f < Len(e)
  <2>1. f <= Len(e) /\ Len(e) - f # 0
    BY <1>2 DEF TypeOK, QNonEmpty
  <2> QED
    BY <1>2, <2>1
<1>4. \A i \in 1 .. Len(e) : e[i] \in Dispatchers
  OBVIOUS
<1>5. Places(t) = f + 1 .. Len(e) /\ Waiting(t) = {e[i] : i \in f + 1 .. Len(e)}
  BY <1>2 DEF Places, Waiting
<1>6. \A i, j \in f + 1 .. Len(e) : e[i] = e[j] => i = j
  BY <1>2, <1>5 DEF ListedOnce
<1>7. /\ QTop(list[t]) = e[f + 1]
      /\ BalanceShifts(Advanced(list[t])) =>
           f + 2 <= Len(e) /\ QTop(Advanced(list[t])) = e[f + 2]
      /\ QPop(list[t]) = IF BalanceShifts(Advanced(list[t]))
                         THEN [elements |-> SubSeq(e, f + 3, Len(e)), front |-> 0]
                         ELSE [elements |-> e, front |-> f + 1]
  BY <1>1, <1>3, PoppedQueue
<1>8. list'[t] = QPop(list[t]) /\ \A u \in Threads : u # t => list'[u] = list[u]
  BY DEF TypeOK
<1>9. /\ e[f + 1] \in Dispatchers /\ e[f + 1] \in Waiting(t)
      /\ f + 2 <= Len(e) => e[f + 2] \in Dispatchers /\ e[f + 2] \in Waiting(t) /\ e[f + 2] # e[f + 1]
  BY <1>2, <1>3, <1>4, <1>5, <1>6
<1>10. ASSUME NEW s \in Seq(Dispatchers), NEW n \in Nat, NEW shift \in Nat,
              list'[t] = [elements |-> s, front |-> n], n <= Len(s),
              Len(s) + shift = Len(e), f < n + shift,
              \A i \in n + 1 .. Len(s) : s[i] = e[i + shift]
       PROVE  /\ Waiting(t)' = {e[i] : i \in n + shift + 1 .. Len(e)}
              /\ ListedOnce'
              /\ list' \in [Threads -> [elements : Seq(Dispatchers), front : Nat]]
              /\ \A u \in Threads : list'[u].front <= Len(list'[u].elements)
  <2>1. list'[t].elements = s /\ list'[t].front = n /\ Len(s) \in Nat
    BY <1>10
  <2>2. Places(t)' = n + 1 .. Len(s) /\ Waiting(t)' = {s[i] : i \in n + 1 .. Len(s)}
    BY <2>1 DEF Places, Waiting
  <2>3. \A i \in n + 1 .. Len(s) : i + shift \in n + shift + 1 .. Len(e)
                                   /\ i + shift \in f + 1 .. Len(e)
    BY <1>2, <1>10, <2>1
  <2>4. \A i \in n + shift + 1 .. Len(e) : i - shift \in n + 1 .. Len(s) /\ (i - shift) + shift = i
    BY <1>2, <1>10, <2>1
  <2>5. Waiting(t)' = {e[i] : i \in n + shift + 1 .. Len(e)}
    <3>1. \A x \in Waiting(t)' : x \in {e[i] : i \in n + shift + 1 .. Len(e)}
      BY <1>10, <2>2, <2>3
    <3>2. \A i \in n + shift + 1 .. Len(e) : e[i] \in Waiting(t)'
      BY <1>10, <2>2, <2>4
    <3> QED
      BY <3>1, <3>2
  <2>6. ListedOnce'
    <3> SUFFICES ASSUME NEW u \in Threads, NEW i \in Places(u)', NEW j \in Places(u)',
                        list'[u].elements[i] = list'[u].elements[j]
                 PROVE  i = j
      BY DEF ListedOnce
    <3>1. CASE u # t
      <4>1. Places(u)' = Places(u) /\ list'[u] = list[u]
        BY <1>8, <3>1 DEF Places
      <4> QED
        BY <4>1 DEF ListedOnce
    <3>2. CASE u = t
      <4>1. i \in n + 1 .. Len(s) /\ j \in n + 1 .. Len(s) /\ s[i] = s[j]
        BY <2>1, <2>2, <3>2
      <4>2. e[i + shift] = e[j + shift]
        BY <1>10, <4>1
      <4>3. i + shift = j + shift
        BY <1>6, <2>3, <4>1, <4>2
      <4> QED
        BY <4>1, <4>3
    <3> QED
      BY <3>1, <3>2
  <2>7. list'[t] \in [elements : Seq(Dispatchers), front : Nat]
    BY <1>10
  <2>8. list' \in [Threads -> [elements : Seq(Dispatchers), front : Nat]]
    BY <1>8, <2>7 DEF TypeOK
  <2>9. \A u \in Threads : list'[u].front <= Len(list'[u].elements)
    BY <1>8, <1>10, <2>1 DEF TypeOK
  <2> QED
    BY <2>5, <2>6, <2>8, <2>9
<1>11. CASE BalanceShifts(Advanced(list[t]))
  <2> DEFINE s == SubSeq(e, f + 3, Len(e))
  <2>1. f + 2 <= Len(e)
    BY <1>7, <1>11
  <2>2. /\ s \in Seq(Dispatchers) /\ Len(s) = Len(e) - (f + 2)
        /\ \A i \in 1 .. Len(e) - (f + 2) : s[i] = e[f + 2 + i]
    BY <2>1, ShiftedElements
  <2>3. list'[t] = [elements |-> s, front |-> 0]
    BY <1>7, <1>8, <1>11
  <2> HIDE DEF s
  <2>4. /\ 0 <= Len(s) /\ Len(s) + (f + 2) = Len(e) /\ f < 0 + (f + 2) /\ f + 2 \in Nat
        /\ \A i \in 0 + 1 .. Len(s) : s[i] = e[i + (f + 2)]
    <3>1. PICK n \in Nat : n = Len(e) - (f + 2)
      <4>1. PICK m \in Nat : m = Len(e)
        BY <1>2
      <4>2. f + 2 <= m
        BY <2>1, <4>1
      <4>3. m - (f + 2) \in Nat
        BY <4>2
      <4> QED
        BY <4>1, <4>3
    <3>2. Len(s) = n /\ \A i \in 1 .. n : s[i] = e[f + 2 + i]
      BY <2>2, <3>1
    <3>3. 0 <= Len(s) /\ Len(s) + (f + 2) = Len(e) /\ f < 0 + (f + 2) /\ f + 2 \in Nat
      BY <1>2, <3>1, <3>2
    <3>4. 0 + 1 .. Len(s) = 1 .. n /\ \A i \in 1 .. n : f + 2 + i = i + (f + 2)
      BY <3>2
    <3>5. \A i \in 0 + 1 .. Len(s) : s[i] = e[i + (f + 2)]
      BY <3>2, <3>4
    <3> QED
      BY <3>3, <3>5
  <2>5. /\ Waiting(t)' = {e[i] : i \in 0 + (f + 2) + 1 .. Len(e)}
        /\ ListedOnce'
        /\ list' \in [Threads -> [elements : Seq(Dispatchers), front : Nat]]
        /\ \A u \in Threads : list'[u].front <= Len(list'[u].elements)
    BY <1>10, <2>2, <2>3, <2>4
  <2>6. Waiting(t)' = Waiting(t) \ {e[f + 1], e[f + 2]}
    <3>1. \A i \in f + 1 .. Len(e) : i \in 0 + (f + 2) + 1 .. Len(e) <=> (i # f + 1 /\ i # f + 2)
      BY <1>2
    <3>2. \A i \in 0 + (f + 2) + 1 .. Len(e) : i \in f + 1 .. Len(e)
      BY <1>2
    <3>3. f + 1 \in f + 1 .. Len(e) /\ f + 2 \in f + 1 .. Len(e)
      BY <1>2, <2>1
    <3> QED
      BY <1>5, <1>6, <2>5, <3>1, <3>2, <3>3
  <2>7. Dropped(list[t]) = {e[f + 2]}
    BY <1>7, <1>11 DEF Dropped
  <2> QED
    BY <1>7, <1>9, <2>1, <2>5, <2>6, <2>7
<1>12. CASE ~ BalanceShifts(Advanced(list[t]))
  <2>1. list'[t] = [elements |-> e, front |-> f + 1]
    BY <1>7, <1>8, <1>12
  <2>2. /\ f + 1 \in Nat /\ f + 1 <= Len(e) /\ Len(e) + 0 = Len(e) /\ f < f + 1 + 0
        /\ \A i \in f + 1 + 1 .. Len(e) : e[i] = e[i + 0]
    BY <1>2, <1>3
  <2>3. /\ Waiting(t)' = {e[i] : i \in f + 1 + 0 + 1 .. Len(e)}
        /\ ListedOnce'
        /\ list' \in [Threads -> [elements : Seq(Dispatchers), front : Nat]]
        /\ \A u \in Threads : list'[u].front <= Len(list'[u].elements)
    BY <1>10, <2>1, <2>2
  <2>4. Waiting(t)' = Waiting(t) \ {e[f + 1]}
    <3>1. \A i \in f + 1 .. Len(e) : i \in f + 1 + 0 + 1 .. Len(e) <=> i # f + 1
      BY <1>2
    <3>2. \A i \in f + 1 + 0 + 1 .. Len(e) : i \in f + 1 .. Len(e)
      BY <1>2
    <3>3. f + 1 \in f + 1 .. Len(e)
      BY <1>2, <1>3
    <3> QED
      BY <1>5, <1>6, <2>3, <3>1, <3>2, <3>3
  <2>5. Dropped(list[t]) = {}
    BY <1>12 DEF Dropped
  <2> QED
    BY <1>7, <1>9, <2>3, <2>4, <2>5
<1> QED
  BY <1>11, <1>12

(* One element is exchanged for another. *)
LEMMA SwapElement ==
  ASSUME NEW S, NEW U, NEW x, NEW y, IsFiniteSet(S), x \in S, y \notin S, x \notin U, y \in U,
         \A z : z \notin {x, y} => (z \in S <=> z \in U)
  PROVE  IsFiniteSet(U) /\ Cardinality(U) = Cardinality(S)
<1> DEFINE V == S \ {x}
<1>1. x # y /\ \A z : z # x => (z \in S <=> z \in V)
  OBVIOUS
<1>2. x \notin V /\ y \notin V
  OBVIOUS
<1>3. \A z : z # y => (z \in V <=> z \in U)
  BY <1>1, <1>2
<1> HIDE DEF V
<1>4. /\ IsFiniteSet(V) /\ Cardinality(V) \in Nat
      /\ Cardinality(V) + 1 = Cardinality(S)
  BY <1>1, <1>2, OneElement
<1>5. IsFiniteSet(U) /\ Cardinality(U) \in Nat /\ Cardinality(U) = Cardinality(V) + 1
  BY <1>2, <1>3, <1>4, OneElement
<1> QED
  BY <1>4, <1>5

LEMMA DrainNextKeepsIInv ==
  ASSUME IInv, NEW t \in Threads, DrainNext(t)
  PROVE  IInv'
<1> DEFINE dropped == Dropped(list[t])
<1>1. TypeOK /\ ThreadState(t) /\ TimerState(t) /\ CallIsCovered(t) /\ ListedOnce
  BY DEF IInv
<1>2. PICK d : d = QTop(list[t])
  OBVIOUS
<1>3. /\ pc[t] = "drain" /\ QNonEmpty(list[t])
      /\ flushing' = [flushing EXCEPT ![t] = d]
      /\ list' = [list EXCEPT ![t] = QPop(@)]
      /\ lost' = lost \union dropped
      /\ listed' = [listed EXCEPT ![t] = TRUE]
      /\ pc' = [pc EXCEPT ![t] = "flush"]
      /\ UNCHANGED <<dispatcherVars, callVars, occupant, executing, timerVars, fate>>
  BY <1>2 DEF DrainNext, Dropped
<1>4. /\ d \in Dispatchers
      /\ d \in Waiting(t)
      /\ dropped \subseteq Waiting(t) \intersect Dispatchers
      /\ d \notin dropped
      /\ Waiting(t)' = Waiting(t) \ ({d} \union dropped)
      /\ ListedOnce'
      /\ list' \in [Threads -> [elements : Seq(Dispatchers), front : Nat]]
      /\ \A u \in Threads : list'[u].front <= Len(list'[u].elements)
  BY <1>1, <1>2, <1>3, PoppedList
<1> HIDE DEF dropped
<1>5. \A e \in {d} \union dropped :
        /\ e \in Dispatchers /\ Consumers(e) = {<<t, "list">>} /\ remaining[e] # 0 /\ e \notin lost
        /\ e \in Waiting(t) /\ e \notin Waiting(t)'
  <2> SUFFICES ASSUME NEW e \in {d} \union dropped
               PROVE  /\ e \in Dispatchers /\ Consumers(e) = {<<t, "list">>}
                      /\ remaining[e] # 0 /\ e \notin lost
                      /\ e \in Waiting(t) /\ e \notin Waiting(t)'
    OBVIOUS
  <2>1. e \in Dispatchers /\ e \in Waiting(t) /\ e \notin Waiting(t)'
    BY <1>4
  <2>2. <<t, "list">> \in Consumers(e)
    BY <2>1, WhoConsumes
  <2> QED
    BY <2>1, <2>2, TheConsumer
<1>6. /\ pc'[t] = "flush" /\ pc' \in [Threads -> Pcs]
      /\ flushing'[t] = d /\ flushing' \in [Threads -> Dispatchers \union {NULL}]
      /\ listed'[t] = TRUE /\ listed' \in [Threads -> BOOLEAN]
      /\ executing[t] = NULL /\ occupant[t] # NULL /\ d # NULL
      /\ \A e \in Dispatchers : ~ (listed[t] /\ flushing[t] = e)
  BY <1>1, <1>3, <1>4 DEF TypeOK, Pcs, ThreadState
<1>7. Moves(t) /\ TasksGoOn
  BY <1>1, <1>3 DEF TypeOK, Moves, TasksGoOn, callVars, timerVars
<1>8. TypeOK'
  <2>1. lost' \in SUBSET Dispatchers
    BY <1>1, <1>3, <1>4 DEF TypeOK
  <2> QED
    BY <1>1, <1>3, <1>4, <1>6, <2>1 DEF TypeOK, dispatcherVars, callVars, timerVars
<1>9. AllThreads'
  <2>1. ThreadState(t)'
    BY <1>1, <1>3, <1>6 DEF ThreadState, callVars
  <2>2. TimerState(t)'
    BY <1>1, <1>3, <1>6 DEF TimerState, timerVars
  <2>3. CallIsCovered(t)'
    BY <1>6 DEF CallIsCovered
  <2> QED
    BY <1>3, <1>7, <2>1, <2>2, <2>3, ThreadsGoOn DEF dispatcherVars
<1>10. /\ \A e : ~ Becoming(t, e) /\ ~ Becoming(t, e)'
       /\ \A e : Flushes(t, e)' <=> e = d
       /\ \A e : ~ Flushes(t, e)
  BY <1>3, <1>6 DEF Becoming, Flushes
<1>11. \A e \in Dispatchers \ ({d} \union dropped) :
         /\ e \in Waiting(t)' <=> e \in Waiting(t)
         /\ e \in lost' <=> e \in lost
         /\ e # d
  BY <1>3, <1>4
<1>12. remaining' = remaining
  BY <1>3 DEF dispatcherVars
<1>13. ConsumerIsUnique'
  <2> SUFFICES ASSUME NEW e \in Dispatchers
               PROVE  IF remaining'[e] = 0 \/ e \in lost'
                      THEN Consumers(e)' = {}
                      ELSE \E c \in Consumers(e)' : Consumers(e)' = {c}
    BY DEF ConsumerIsUnique
  <2>1. CASE e = d
    <3>1. \A c \in Consumers(e) : c[1] = t
      BY <1>5, <2>1
    <3>2. Part(t, e)' = {<<t, "flush">>}
      BY <1>5, <1>10, <2>1 DEF Part
    <3>3. Consumers(e)' = {<<t, "flush">>}
      BY <1>7, <3>1, <3>2, OwnPart
    <3>4. remaining'[e] # 0 /\ e \notin lost'
      BY <1>3, <1>4, <1>5, <1>12, <2>1
    <3> QED
      BY <3>3, <3>4
  <2>2. CASE e \in dropped
    <3>1. \A c \in Consumers(e) : c[1] = t
      BY <1>5, <2>2
    <3>2. e # d
      BY <1>4, <2>2
    <3>3. Part(t, e)' = {}
      BY <1>5, <1>10, <2>2, <3>2 DEF Part
    <3>4. Consumers(e)' = {}
      BY <1>7, <3>1, <3>3, OwnPart
    <3>5. e \in lost'
      BY <1>3, <2>2
    <3> QED
      BY <3>4, <3>5
  <2>3. CASE e \notin {d} \union dropped
    <3>1. Consumers(e)' = Consumers(e)
      BY <1>7, <1>10, <1>11, <2>3, SameConsumers
    <3> QED
      BY <1>11, <1>12, <2>3, <3>1 DEF IInv, ConsumerIsUnique
  <2> QED
    BY <2>1, <2>2, <2>3
<1>14. LostIsBusy'
  BY <1>3, <1>5, <1>12 DEF IInv, LostIsBusy
<1>15. CountIsExact'
  BY <1>3, <1>6, <1>7, CountStays DEF dispatcherVars, callVars
<1>16. ReferencesAreFinite' /\ RefCountIsExact' /\ DestroyedAtZero'
  <2>1. ASSUME NEW e \in Dispatchers
        PROVE  IsFiniteSet(References(e)') /\ Cardinality(References(e)') = Cardinality(References(e))
    <3> DEFINE l == <<"list", t, NULL>>
               f == <<"flush", t, NULL>>
               g == <<"lost", NULL, NULL>>
    <3>1. IsFiniteSet(References(e))
      BY DEF IInv, ReferencesAreFinite
    <3>2. CASE e = d
      <4>1. e \notin lost /\ e \notin lost' /\ e \in Waiting(t) /\ e \notin Waiting(t)'
        BY <1>3, <1>4, <1>5, <3>2
      <4>2. \A s : s \notin {l, f} => (s \in References(e)' <=> s \in References(e))
        BY <1>3, <1>7, <4>1, OtherReferences DEF dispatcherVars, timerVars
      <4>3. l \in References(e) /\ l \notin References(e)'
        BY <4>1, ReferenceKinds, ReferenceKindsNext
      <4>4. f \notin References(e) /\ f \in References(e)'
        BY <1>6, <3>2, ReferenceKinds, ReferenceKindsNext
      <4> HIDE DEF l, f
      <4> QED
        BY <3>1, <4>2, <4>3, <4>4, SwapElement
    <3>3. CASE e \in dropped
      <4>1. e \notin lost /\ e \in lost' /\ e \in Waiting(t) /\ e \notin Waiting(t)' /\ e # d
        BY <1>3, <1>4, <1>5, <3>3
      <4>2. listed'[t] /\ flushing'[t] = e <=> listed[t] /\ flushing[t] = e
        BY <1>6, <4>1
      <4>3. \A s : s \notin {l, g} => (s \in References(e)' <=> s \in References(e))
        BY <1>3, <1>7, <4>2, OtherReferences DEF dispatcherVars, timerVars
      <4>4. l \in References(e) /\ l \notin References(e)'
        BY <4>1, ReferenceKinds, ReferenceKindsNext
      <4>5. g \notin References(e) /\ g \in References(e)'
        BY <4>1, ReferenceKinds, ReferenceKindsNext
      <4> HIDE DEF l, g
      <4> QED
        BY <3>1, <4>3, <4>4, <4>5, SwapElement
    <3>4. CASE e \notin {d} \union dropped
      <4>1. listed'[t] /\ flushing'[t] = e <=> listed[t] /\ flushing[t] = e
        BY <1>6, <1>11, <3>4
      <4>2. References(e)' = References(e)
        BY <1>3, <1>7, <1>11, <3>4, <4>1, SameReferences DEF dispatcherVars, timerVars
      <4> QED
        BY <3>1, <4>2
    <3> QED
      BY <3>2, <3>3, <3>4
  <2> QED
    BY <1>3, <2>1 DEF IInv, ReferencesAreFinite, RefCountIsExact, DestroyedAtZero, dispatcherVars
<1> QED
  BY <1>4, <1>8, <1>9, <1>13, <1>14, <1>15, <1>16, AllParts

(***************************************************************************)
(* The references that are given up, and why nothing depends on them.      *)
(***************************************************************************)
LEMMA FlushedIsSpare ==
  ASSUME IInv, NEW t \in Threads, pc[t] = "flushed"
  PROVE  /\ flushing[t] \in Dispatchers
         /\ IsSpare(<<"flush", t, NULL>>, flushing[t])
<1>1. TypeOK /\ ThreadState(t)
  BY DEF IInv
<1>2. PICK d : d = flushing[t]
  OBVIOUS
<1>3. d \in Dispatchers /\ listed[t] /\ executing[t] = NULL
  BY <1>1, <1>2 DEF TypeOK, ThreadState
<1>4. <<"flush", t, NULL>> \in References(d)
  BY <1>2, <1>3, ReferenceKinds
<1>5. ~ Flushes(t, d)
  BY <1>3 DEF Flushes
<1>6. IsSpare(<<"flush", t, NULL>>, d)
  BY <1>4, <1>5 DEF IsSpare
<1> QED
  BY <1>2, <1>3, <1>6

LEMMA OccupantIsSpare ==
  ASSUME IInv, NEW t \in Threads, pc[t] = "drain"
  PROVE  /\ occupant[t] \in Dispatchers
         /\ IsSpare(<<"occupant", t, NULL>>, occupant[t])
<1>1. TypeOK /\ ThreadState(t)
  BY DEF IInv
<1>2. PICK d : d = occupant[t]
  OBVIOUS
<1>3. d \in Dispatchers /\ executing[t] = NULL
  BY <1>1, <1>2 DEF TypeOK, ThreadState
<1>4. <<"occupant", t, NULL>> \in References(d)
  BY <1>2, <1>3, ReferenceKinds
<1>5. ~ Flushes(t, d)
  BY <1>3 DEF Flushes
<1>6. IsSpare(<<"occupant", t, NULL>>, d)
  BY <1>4, <1>5 DEF IsSpare
<1> QED
  BY <1>2, <1>3, <1>6

LEMMA EntryIsSpare ==
  ASSUME IInv, NEW t \in Threads, pc[t] \notin InCall, NEW e \in timers[t]
  PROVE  /\ e.origin \in Dispatchers
         /\ IsSpare(<<"timer", t, e>>, e.origin)
<1>1. e.origin \in Dispatchers
  BY TimersHoldTasks DEF IInv
<1>2. <<"timer", t, e>> \in References(e.origin)
  BY <1>1, ReferenceKinds
<1> QED
  BY <1>1, <1>2 DEF IsSpare

LEMMA ReleaseListedKeepsIInv ==
  ASSUME IInv, NEW t \in Threads, ReleaseListed(t)
  PROVE  IInv'
<1> DEFINE r == <<"flush", t, NULL>>
<1>1. TypeOK /\ ThreadState(t) /\ TimerState(t) /\ CallIsCovered(t)
  BY DEF IInv
<1>2. PICK d \in Dispatchers : d = flushing[t]
  BY FlushedIsSpare DEF ReleaseListed
<1>3. /\ pc[t] = "flushed"
      /\ ReleaseReferenceAndDestroy(d, {})
      /\ flushing' = [flushing EXCEPT ![t] = NULL]
      /\ pc' = [pc EXCEPT ![t] = "drain"]
      /\ UNCHANGED <<pendingDestroy, owned, callVars, occupant, listed, executing,
                     list, lost, timerVars>>
  BY <1>2 DEF ReleaseListed
<1>4. /\ flushing'[t] = NULL /\ flushing' \in [Threads -> Dispatchers \union {NULL}]
      /\ pc'[t] = "drain" /\ pc' \in [Threads -> Pcs]
      /\ executing[t] = NULL /\ listed[t] /\ occupant[t] # NULL
  BY <1>1, <1>3 DEF TypeOK, Pcs, ThreadState
<1>5. Moves(t)
  BY <1>1, <1>3 DEF TypeOK, Moves, callVars, timerVars
<1>6. Waiting(t)' = Waiting(t) /\ Places(t)' = Places(t)
  BY <1>3 DEF Waiting, Places
<1>7. /\ ReferencesAreFinite' /\ RefCountIsExact' /\ DestroyedAtZero'
      /\ remaining' = remaining /\ queue' = queue /\ TasksGoOn
      /\ refCount' \in [Dispatchers -> Nat]
      /\ destroyed' \in [Dispatchers -> BOOLEAN]
      /\ fate' \in [Tasks -> {"new", "timed", "dispatched", "done"}]
  <2>1. \A s : s # r => (s \in References(d)' <=> s \in References(d))
    BY <1>3, <1>5, <1>6, OneReference DEF timerVars
  <2>2. r \notin References(d)'
    BY <1>4, ReferenceKindsNext
  <2>3. \A e \in Dispatchers \ {d} : References(e)' = References(e)
    BY <1>2, <1>3, <1>4, <1>5, <1>6, SameReferences DEF timerVars
  <2>4. IsSpare(r, d)
    BY <1>2, <1>3, FlushedIsSpare
  <2> HIDE DEF r
  <2> QED
    BY <1>3, <2>1, <2>2, <2>3, <2>4, Release
<1>8. AllThreads'
  <2>1. ThreadState(t)'
    BY <1>1, <1>3, <1>4, <1>6 DEF ThreadState, callVars
  <2>2. TimerState(t)'
    BY <1>1, <1>3, <1>4, <1>7, TimersHoldTasks DEF TimerState, TasksGoOn, timerVars
  <2>3. CallIsCovered(t)'
    BY <1>4 DEF CallIsCovered
  <2> QED
    BY <1>3, <1>5, <1>7, <2>1, <2>2, <2>3, ThreadsGoOn
<1>9. ConsumerIsUnique' /\ LostIsBusy' /\ ListedOnce'
  <2>1. \A e \in Dispatchers : ~ Flushes(t, e) /\ ~ Flushes(t, e)'
    BY <1>3, <1>4 DEF Flushes
  <2>2. \A e \in Dispatchers : ~ Becoming(t, e) /\ ~ Becoming(t, e)'
    BY <1>3, <1>4 DEF Becoming
  <2> QED
    BY <1>3, <1>5, <1>7, <2>1, <2>2, ConsumersStay
<1>10. CountIsExact'
  BY <1>3, <1>4, <1>5, <1>7, CountStays DEF callVars
<1>11. TypeOK'
  BY <1>1, <1>3, <1>4, <1>7 DEF TypeOK, callVars, timerVars
<1> QED
  BY <1>7, <1>8, <1>9, <1>10, <1>11, AllParts

LEMMA DrainDoneKeepsIInv ==
  ASSUME IInv, NEW t \in Threads, DrainDone(t)
  PROVE  IInv'
<1> DEFINE r == <<"occupant", t, NULL>>
<1>1. TypeOK /\ ThreadState(t) /\ TimerState(t) /\ CallIsCovered(t)
  BY DEF IInv
<1>2. PICK d \in Dispatchers : d = occupant[t]
  BY OccupantIsSpare DEF DrainDone
<1>3. /\ pc[t] = "drain" /\ ~ QNonEmpty(list[t])
      /\ occupant' = [occupant EXCEPT ![t] = NULL]
      /\ flushing' = [flushing EXCEPT ![t] = NULL]
      /\ ReleaseReferenceAndDestroy(d, {})
      /\ pc' = [pc EXCEPT ![t] = IF firing[t] # NoEntry THEN "fired" ELSE "idle"]
      /\ UNCHANGED <<pendingDestroy, owned, callVars, listed, executing, list, lost, timerVars>>
  BY <1>2 DEF DrainDone
<1>4. PICK to \in {"fired", "idle"} :
        /\ to = IF firing[t] # NoEntry THEN "fired" ELSE "idle"
        /\ to = "fired" <=> firing[t] # NoEntry
  OBVIOUS
<1>5. /\ occupant'[t] = NULL /\ occupant' \in [Threads -> Dispatchers \union {NULL}]
      /\ flushing'[t] = NULL /\ flushing' \in [Threads -> Dispatchers \union {NULL}]
      /\ pc'[t] = to /\ pc' \in [Threads -> Pcs]
      /\ executing[t] = NULL
      /\ \A e \in Dispatchers : ~ (listed[t] /\ flushing[t] = e)
  BY <1>1, <1>3, <1>4 DEF TypeOK, Pcs, ThreadState
<1>6. Moves(t)
  BY <1>1, <1>3 DEF TypeOK, Moves, callVars, timerVars
<1>7. Waiting(t)' = Waiting(t) /\ Places(t)' = Places(t) /\ Places(t) = {}
  <2>1. Waiting(t)' = Waiting(t) /\ Places(t)' = Places(t)
    BY <1>3 DEF Waiting, Places
  <2>2. PICK f \in Nat, n \in Nat : f = list[t].front /\ n = Len(list[t].elements)
    BY <1>1 DEF TypeOK
  <2>3. n - f = 0
    BY <1>3, <2>2 DEF QNonEmpty
  <2>4. Places(t) = f + 1 .. n
    BY <2>2 DEF Places
  <2>5. f + 1 .. n = {}
    BY <2>3
  <2> QED
    BY <2>1, <2>4, <2>5
<1>8. /\ ReferencesAreFinite' /\ RefCountIsExact' /\ DestroyedAtZero'
      /\ remaining' = remaining /\ queue' = queue /\ TasksGoOn
      /\ refCount' \in [Dispatchers -> Nat]
      /\ destroyed' \in [Dispatchers -> BOOLEAN]
      /\ fate' \in [Tasks -> {"new", "timed", "dispatched", "done"}]
  <2>1. \A s : s # r => (s \in References(d)' <=> s \in References(d))
    <3>1. listed'[t] /\ flushing'[t] = d <=> listed[t] /\ flushing[t] = d
      BY <1>3, <1>5
    <3>2. /\ owned'[d] <=> owned[d]
          /\ \A e : e.origin = d => (e \in timers'[t] <=> e \in timers[t])
          /\ d \in lost' <=> d \in lost
          /\ d \in Waiting(t)' <=> d \in Waiting(t)
      BY <1>3, <1>7 DEF timerVars
    <3>3. r = <<"occupant", t, NULL>>
      OBVIOUS
    <3> HIDE DEF r
    <3> QED
      BY <1>6, <3>1, <3>2, <3>3, OneReference, Zenon
  <2>2. r \notin References(d)'
    BY <1>5, ReferenceKindsNext
  <2>3. \A e \in Dispatchers \ {d} : References(e)' = References(e)
    BY <1>2, <1>3, <1>5, <1>6, <1>7, SameReferences DEF timerVars
  <2>4. IsSpare(r, d)
    BY <1>2, <1>3, OccupantIsSpare
  <2> HIDE DEF r
  <2> QED
    BY <1>3, <2>1, <2>2, <2>3, <2>4, Release
<1>9. AllThreads'
  <2>1. ThreadState(t)'
    BY <1>1, <1>3, <1>5, <1>7 DEF ThreadState, callVars
  <2>2. TimerState(t)'
    BY <1>1, <1>3, <1>4, <1>5, <1>8, TimersHoldTasks DEF TimerState, TasksGoOn, timerVars
  <2>3. CallIsCovered(t)'
    BY <1>5 DEF CallIsCovered
  <2> QED
    BY <1>3, <1>6, <1>8, <2>1, <2>2, <2>3, ThreadsGoOn
<1>10. ConsumerIsUnique' /\ LostIsBusy' /\ ListedOnce'
  <2>1. \A e \in Dispatchers : ~ Flushes(t, e) /\ ~ Flushes(t, e)'
    BY <1>3, <1>5 DEF Flushes
  <2>2. \A e \in Dispatchers : ~ Becoming(t, e) /\ ~ Becoming(t, e)'
    BY <1>3, <1>5 DEF Becoming
  <2> QED
    BY <1>3, <1>6, <1>8, <2>1, <2>2, ConsumersStay
<1>11. CountIsExact'
  BY <1>3, <1>5, <1>6, <1>8, CountStays DEF callVars
<1>12. TypeOK'
  BY <1>1, <1>3, <1>5, <1>8 DEF TypeOK, callVars, timerVars
<1> QED
  BY <1>8, <1>9, <1>10, <1>11, <1>12, AllParts

-----------------------------------------------------------------------------
(***************************************************************************)
(* The timer and the shutdown of a thread.                                 *)
(***************************************************************************)
LEMMA TickFiresKeepsIInv ==
  ASSUME IInv, NEW t \in Threads, TickFires(t)
  PROVE  IInv'
<1>1. TypeOK /\ ThreadState(t) /\ TimerState(t) /\ CallIsCovered(t)
  BY DEF IInv
<1>2. PICK e \in timers[t] :
        /\ firing' = [firing EXCEPT ![t] = e]
        /\ target' = [target EXCEPT ![t] = e.origin]
        /\ argument' = [argument EXCEPT ![t] = e.task]
        /\ fate' = [fate EXCEPT ![e.task] = "dispatched"]
  BY DEF TickFires
<1>3. /\ pc[t] = "idle" /\ pc' = [pc EXCEPT ![t] = "count"]
      /\ UNCHANGED <<dispatcherVars, wasZero, flushVars, timers>>
  BY DEF TickFires
<1>4. e \in Entries /\ e.task \in Tasks /\ e.origin \in Dispatchers
  BY <1>1, TimersHoldTasks
<1>5. e # NoEntry
  BY <1>4 DEF NoEntry
<1>6. /\ firing'[t] = e /\ firing' \in [Threads -> Entries \union {NoEntry}]
      /\ target'[t] = e.origin /\ target' \in [Threads -> Dispatchers \union {NULL}]
      /\ argument'[t] = e.task /\ argument' \in [Threads -> Tasks \union {NULL}]
      /\ pc'[t] = "count" /\ pc' \in [Threads -> Pcs]
  BY <1>1, <1>2, <1>3, <1>4 DEF TypeOK, Pcs
<1>7. fate' \in [Tasks -> {"new", "timed", "dispatched", "done"}] /\ TasksGoOn
  BY <1>1, <1>2, <1>4 DEF TypeOK, TasksGoOn
<1>8. Moves(t)
  BY <1>1, <1>2, <1>3 DEF TypeOK, Moves, flushVars
<1>9. executing[t] = NULL /\ occupant[t] = NULL
  BY <1>1, <1>3 DEF ThreadState
<1>10. TypeOK'
  BY <1>1, <1>3, <1>6, <1>7 DEF TypeOK, dispatcherVars, flushVars
<1>11. AllThreads'
  <2>1. ThreadState(t)'
    BY <1>1, <1>3, <1>4, <1>6, <1>9 DEF ThreadState, Places, flushVars
  <2>2. TimerState(t)'
    <3>1. \A x \in timers'[t] : fate'[x.task] # "new"
      BY <1>1, <1>3, <1>7, TimersHoldTasks DEF TimerState, TasksGoOn
    <3> QED
      BY <1>3, <1>6, <3>1 DEF TimerState
  <2>3. CallIsCovered(t)'
    BY <1>3, <1>5, <1>6, <1>9 DEF CallIsCovered, flushVars
  <2> QED
    BY <1>3, <1>7, <1>8, <2>1, <2>2, <2>3, ThreadsGoOn DEF dispatcherVars
<1>12. ConsumerIsUnique' /\ LostIsBusy' /\ ListedOnce'
  <2>1. \A d : Flushes(t, d)' <=> Flushes(t, d)
    BY <1>3, <1>6, <1>9 DEF Flushes, flushVars
  <2>2. \A d : ~ Becoming(t, d) /\ ~ Becoming(t, d)'
    BY <1>3, <1>6 DEF Becoming
  <2> QED
    BY <1>3, <1>8, <2>1, <2>2, ConsumersStay DEF dispatcherVars, flushVars
<1>13. CountIsExact'
  BY <1>3, <1>6, <1>8, CountStays DEF dispatcherVars, flushVars
<1>14. ReferencesAreFinite' /\ RefCountIsExact' /\ DestroyedAtZero'
  BY <1>3, <1>8, NoReferenceMoves DEF dispatcherVars, flushVars
<1> QED
  BY <1>10, <1>11, <1>12, <1>13, <1>14, AllParts

(* An entry leaves the timer of t and gives its reference back. *)
LEMMA EntryReleased ==
  ASSUME IInv, NEW t \in Threads, Moves(t), pc[t] \notin InCall, NEW e \in timers[t], NEW dropped,
         ReleaseReferenceAndDestroy(e.origin, dropped),
         timers' = [timers EXCEPT ![t] = @ \ {e}],
         UNCHANGED <<owned, flushVars>>
  PROVE  /\ ReferencesAreFinite' /\ RefCountIsExact' /\ DestroyedAtZero'
         /\ remaining' = remaining /\ queue' = queue /\ TasksGoOn
         /\ refCount' \in [Dispatchers -> Nat]
         /\ destroyed' \in [Dispatchers -> BOOLEAN]
         /\ fate' \in [Tasks -> {"new", "timed", "dispatched", "done"}]
         /\ timers'[t] = timers[t] \ {e}
         /\ timers' \in [Threads -> SUBSET Entries]
<1> DEFINE r == <<"timer", t, e>>
<1>1. TypeOK
  BY DEF IInv
<1>2. PICK d \in Dispatchers : d = e.origin
  BY EntryIsSpare
<1>3. timers'[t] = timers[t] \ {e} /\ timers' \in [Threads -> SUBSET Entries]
  BY <1>1 DEF TypeOK
<1>4. Waiting(t)' = Waiting(t)
  BY DEF Waiting, Places, flushVars
<1>5. \A s : s # r => (s \in References(d)' <=> s \in References(d))
  <2>1. \A x : r = <<"timer", t, x>> \/ (x \in timers'[t] <=> x \in timers[t])
    BY <1>3
  <2>2. /\ occupant' = occupant /\ listed' = listed /\ flushing' = flushing
        /\ lost' = lost /\ owned' = owned
    BY DEF flushVars
  <2> HIDE DEF r
  <2> QED
    BY <1>4, <2>1, <2>2, OneReference
<1>6. r \notin References(d)'
  BY <1>3, ReferenceKindsNext
<1>7. ASSUME NEW c \in Dispatchers \ {d} PROVE References(c)' = References(c)
  <2>1. \A x : x.origin = c => (x \in timers'[t] <=> x \in timers[t])
    BY <1>2, <1>3
  <2>2. /\ occupant' = occupant /\ listed' = listed /\ flushing' = flushing
        /\ lost' = lost /\ owned' = owned
    BY DEF flushVars
  <2> QED
    BY <1>4, <2>1, <2>2, SameReferences
<1>8. IsSpare(r, d)
  BY <1>2, EntryIsSpare
<1> HIDE DEF r
<1> QED
  BY <1>2, <1>3, <1>5, <1>6, <1>7, <1>8, Release

LEMMA TickReleasesKeepsIInv ==
  ASSUME IInv, NEW t \in Threads, TickReleases(t)
  PROVE  IInv'
<1>1. TypeOK /\ ThreadState(t) /\ TimerState(t) /\ CallIsCovered(t)
  BY DEF IInv
<1>2. PICK e \in timers[t] : e = firing[t]
  BY <1>1 DEF TickReleases, TimerState
<1>3. /\ pc[t] = "fired"
      /\ ReleaseReferenceAndDestroy(e.origin, {})
      /\ timers' = [timers EXCEPT ![t] = @ \ {e}]
      /\ firing' = [firing EXCEPT ![t] = NoEntry]
      /\ pc' = [pc EXCEPT ![t] = "idle"]
      /\ UNCHANGED <<pendingDestroy, owned, callVars, flushVars>>
  BY <1>2 DEF TickReleases
<1>4. /\ firing'[t] = NoEntry /\ firing' \in [Threads -> Entries \union {NoEntry}]
      /\ pc'[t] = "idle" /\ pc' \in [Threads -> Pcs]
      /\ executing[t] = NULL /\ occupant[t] = NULL /\ pc[t] \notin InCall
  BY <1>1, <1>3 DEF TypeOK, Pcs, ThreadState
<1>5. Moves(t)
  BY <1>1, <1>3 DEF TypeOK, Moves, callVars, flushVars
<1>6. /\ ReferencesAreFinite' /\ RefCountIsExact' /\ DestroyedAtZero'
      /\ remaining' = remaining /\ queue' = queue /\ TasksGoOn
      /\ refCount' \in [Dispatchers -> Nat]
      /\ destroyed' \in [Dispatchers -> BOOLEAN]
      /\ fate' \in [Tasks -> {"new", "timed", "dispatched", "done"}]
      /\ timers'[t] = timers[t] \ {e}
      /\ timers' \in [Threads -> SUBSET Entries]
  BY <1>3, <1>4, <1>5, EntryReleased
<1>7. AllThreads'
  <2>1. ThreadState(t)'
    BY <1>1, <1>3, <1>4 DEF ThreadState, Places, flushVars
  <2>2. TimerState(t)'
    <3>1. \A x \in timers'[t] : fate'[x.task] # "new"
      BY <1>1, <1>6, TimersHoldTasks DEF TimerState, TasksGoOn
    <3> QED
      BY <1>4, <3>1 DEF TimerState
  <2>3. CallIsCovered(t)'
    BY <1>4 DEF CallIsCovered
  <2> QED
    BY <1>3, <1>5, <1>6, <2>1, <2>2, <2>3, ThreadsGoOn
<1>8. ConsumerIsUnique' /\ LostIsBusy' /\ ListedOnce'
  <2>1. \A d : Flushes(t, d)' <=> Flushes(t, d)
    BY <1>3, <1>4 DEF Flushes, flushVars
  <2>2. \A d : ~ Becoming(t, d) /\ ~ Becoming(t, d)'
    BY <1>3, <1>4 DEF Becoming
  <2> QED
    BY <1>3, <1>5, <1>6, <2>1, <2>2, ConsumersStay DEF flushVars
<1>9. CountIsExact'
  BY <1>3, <1>4, <1>5, <1>6, CountStays DEF flushVars, callVars
<1>10. TypeOK'
  BY <1>1, <1>3, <1>4, <1>6 DEF TypeOK, callVars, flushVars
<1> QED
  BY <1>6, <1>7, <1>8, <1>9, <1>10, AllParts

LEMMA ShutdownEntryKeepsIInv ==
  ASSUME IInv, NEW t \in Threads, ShutdownEntry(t)
  PROVE  IInv'
<1>1. TypeOK /\ ThreadState(t) /\ TimerState(t) /\ CallIsCovered(t)
  BY DEF IInv
<1>2. PICK e \in timers[t] :
        /\ ReleaseReferenceAndDestroy(e.origin, {e.task})
        /\ timers' = [timers EXCEPT ![t] = @ \ {e}]
  BY DEF ShutdownEntry
<1>3. pc[t] = "shutdown" /\ UNCHANGED <<pendingDestroy, owned, pc, callVars, flushVars, firing>>
  BY DEF ShutdownEntry
<1>4. Moves(t) /\ pc[t] \notin InCall
  BY <1>1, <1>2, <1>3 DEF TypeOK, Moves, callVars, flushVars
<1>5. /\ ReferencesAreFinite' /\ RefCountIsExact' /\ DestroyedAtZero'
      /\ remaining' = remaining /\ queue' = queue /\ TasksGoOn
      /\ refCount' \in [Dispatchers -> Nat]
      /\ destroyed' \in [Dispatchers -> BOOLEAN]
      /\ fate' \in [Tasks -> {"new", "timed", "dispatched", "done"}]
      /\ timers'[t] = timers[t] \ {e}
      /\ timers' \in [Threads -> SUBSET Entries]
  BY <1>2, <1>3, <1>4, EntryReleased
<1>6. AllThreads'
  <2>1. ThreadState(t)'
    BY <1>1, <1>3 DEF ThreadState, Places, flushVars, callVars
  <2>2. TimerState(t)'
    <3>1. \A x \in timers'[t] : fate'[x.task] # "new"
      BY <1>1, <1>5, TimersHoldTasks DEF TimerState, TasksGoOn
    <3> QED
      BY <1>1, <1>3, <3>1 DEF TimerState
  <2>3. CallIsCovered(t)'
    BY <1>3 DEF CallIsCovered
  <2> QED
    BY <1>3, <1>4, <1>5, <2>1, <2>2, <2>3, ThreadsGoOn
<1>7. ConsumerIsUnique' /\ LostIsBusy' /\ ListedOnce'
  BY <1>3, <1>4, <1>5, ConsumersStay DEF flushVars, callVars, Flushes, Becoming
<1>8. CountIsExact'
  BY <1>3, <1>4, <1>5, CountStays DEF flushVars, callVars
<1>9. TypeOK'
  BY <1>1, <1>3, <1>5 DEF TypeOK, callVars, flushVars
<1> QED
  BY <1>5, <1>6, <1>7, <1>8, <1>9, AllParts

LEMMA ShutdownKeepsIInv ==
  ASSUME IInv, NEW t \in Threads, ShutdownBegins(t) \/ ShutdownEnds(t)
  PROVE  IInv'
<1>1. TypeOK /\ ThreadState(t) /\ TimerState(t) /\ CallIsCovered(t)
  BY DEF IInv
<1>2. PICK to \in {"shutdown", "gone"} : pc' = [pc EXCEPT ![t] = to]
  BY DEF ShutdownBegins, ShutdownEnds
<1>3. /\ pc[t] \in {"idle", "shutdown"}
      /\ UNCHANGED <<dispatcherVars, callVars, flushVars, timerVars, fate>>
  BY DEF ShutdownBegins, ShutdownEnds
<1>4. pc'[t] = to /\ pc' \in [Threads -> Pcs]
  BY <1>1, <1>2 DEF TypeOK, Pcs
<1>5. Moves(t) /\ TasksGoOn
  BY <1>1, <1>2, <1>3 DEF TypeOK, Moves, TasksGoOn, callVars, flushVars, timerVars
<1>6. TypeOK'
  BY <1>1, <1>3, <1>4 DEF TypeOK, dispatcherVars, callVars, flushVars, timerVars
<1>7. AllThreads'
  <2>1. ThreadState(t)'
    BY <1>1, <1>3, <1>4 DEF ThreadState, Places, flushVars, callVars
  <2>2. TimerState(t)'
    BY <1>1, <1>3, <1>4 DEF TimerState, flushVars, timerVars
  <2>3. CallIsCovered(t)'
    BY <1>4 DEF CallIsCovered
  <2> QED
    BY <1>3, <1>5, <2>1, <2>2, <2>3, ThreadsGoOn DEF dispatcherVars
<1>8. ConsumerIsUnique' /\ LostIsBusy' /\ ListedOnce'
  <2>1. \A d : Flushes(t, d)' <=> Flushes(t, d)
    BY <1>3, <1>4 DEF Flushes, flushVars
  <2>2. \A d : ~ Becoming(t, d) /\ ~ Becoming(t, d)'
    BY <1>3, <1>4 DEF Becoming
  <2> QED
    BY <1>3, <1>5, <2>1, <2>2, ConsumersStay DEF dispatcherVars, flushVars
<1>9. CountIsExact'
  BY <1>3, <1>4, <1>5, CountStays DEF dispatcherVars, flushVars, callVars
<1>10. ReferencesAreFinite' /\ RefCountIsExact' /\ DestroyedAtZero'
  BY <1>3, <1>5, NoReferenceMoves DEF dispatcherVars, flushVars, timerVars
<1> QED
  BY <1>6, <1>7, <1>8, <1>9, <1>10, AllParts

-----------------------------------------------------------------------------
(***************************************************************************)
(* The invariant.                                                          *)
(***************************************************************************)
LEMMA InitIInv == Init => IInv
<1> SUFFICES ASSUME Init PROVE IInv
  OBVIOUS
<1>1. TypeOK
  BY DEF Init, TypeOK, Pcs, EmptyQueue
<1>2. \A t \in Threads : Places(t) = {}
  <2> SUFFICES ASSUME NEW t \in Threads PROVE Places(t) = {}
    OBVIOUS
  <2>1. list[t].front = 0 /\ list[t].elements = <<>>
    BY DEF Init, EmptyQueue
  <2>2. Len(list[t].elements) = 0
    BY <2>1
  <2> QED
    BY <2>1, <2>2 DEF Places
<1>3. \A t \in Threads : Waiting(t) = {}
  BY <1>2 DEF Waiting
<1>4. \A t \in Threads : ThreadState(t) /\ TimerState(t) /\ CallIsCovered(t)
  BY <1>2 DEF Init, ThreadState, TimerState, CallIsCovered
<1>5. \A d \in Dispatchers : Consumers(d) = {}
  BY <1>3 DEF Init, Consumers, Flushes, Becoming
<1>6. ConsumerIsUnique /\ LostIsBusy /\ ListedOnce
  BY <1>2, <1>5 DEF Init, ConsumerIsUnique, LostIsBusy, ListedOnce
<1>7. CountIsExact
  <2> SUFFICES ASSUME NEW d \in Dispatchers
               PROVE  remaining[d] = Len(queue[d]) + Cardinality(Exchanging(d))
                                     + Cardinality(Executing(d))
    BY DEF CountIsExact
  <2>1. Exchanging(d) = {} /\ Executing(d) = {}
    BY DEF Init, Exchanging, Executing
  <2>2. Cardinality(Exchanging(d)) = 0 /\ Cardinality(Executing(d)) = 0
    BY <2>1, FS_EmptySet
  <2>3. remaining[d] = 0 /\ Len(queue[d]) = 0
    BY DEF Init
  <2> QED
    BY <2>2, <2>3
<1>8. \A d \in Dispatchers : References(d) = {<<"owner", NULL, NULL>>}
  <2> SUFFICES ASSUME NEW d \in Dispatchers PROVE References(d) = {<<"owner", NULL, NULL>>}
    OBVIOUS
  <2>1. /\ owned[d] /\ d \notin lost
        /\ \A u \in Threads : /\ timers[u] = {} /\ occupant[u] # d /\ ~ listed[u]
                              /\ d \notin Waiting(u)
    BY <1>3 DEF Init
  <2>2. \A r : r \in References(d) <=> r = <<"owner", NULL, NULL>>
    BY <2>1, ReferenceKinds
  <2> QED
    BY <2>2
<1>9. ReferencesAreFinite /\ RefCountIsExact /\ DestroyedAtZero
  <2>1. IsFiniteSet({<<"owner", NULL, NULL>>}) /\ Cardinality({<<"owner", NULL, NULL>>}) = 1
    BY FS_Singleton
  <2>2. ReferencesAreFinite
    BY <1>8, <2>1 DEF ReferencesAreFinite
  <2>3. \A d \in Dispatchers : refCount[d] = 1 /\ ~ destroyed[d]
    BY DEF Init
  <2>4. RefCountIsExact
    BY <1>8, <2>1, <2>3 DEF RefCountIsExact
  <2>5. DestroyedAtZero
    BY <2>3 DEF DestroyedAtZero
  <2> QED
    BY <2>2, <2>4, <2>5
<1> QED
  BY <1>1, <1>4, <1>6, <1>7, <1>9 DEF IInv

LEMMA StutterKeepsIInv ==
  ASSUME IInv, UNCHANGED vars
  PROVE  IInv'
<1>1. UNCHANGED <<remaining, refCount, pendingDestroy, queue, owned, destroyed>>
  BY DEF vars, dispatcherVars
<1>2. UNCHANGED <<pc, target, argument, wasZero, timers, firing, fate>>
  BY DEF vars, callVars, timerVars
<1>3. UNCHANGED <<occupant, flushing, listed, executing, list, lost>>
  BY DEF vars, flushVars
<1>4. TypeOK'
  BY <1>1, <1>2, <1>3 DEF IInv, TypeOK
<1>5. AllThreads'
  BY <1>1, <1>2, <1>3 DEF IInv, AllThreads, ThreadState, TimerState, CallIsCovered, Places
<1>6. \A d \in Dispatchers : Consumers(d)' = Consumers(d)
  BY <1>2, <1>3 DEF Consumers, Flushes, Becoming, Waiting, Places
<1>7. ConsumerIsUnique' /\ LostIsBusy' /\ ListedOnce'
  BY <1>1, <1>3, <1>6 DEF IInv, ConsumerIsUnique, LostIsBusy, ListedOnce, Places
<1>8. CountIsExact'
  BY <1>1, <1>2, <1>3 DEF IInv, CountIsExact, Exchanging, Executing
<1>9. \A d \in Dispatchers : References(d)' = References(d)
  BY <1>1, <1>2, <1>3 DEF References, OwnerReference, TimerReferences, EntriesOf,
       OccupantReferences, ListReferences, FlushReferences, LostReference, Waiting, Places
<1>10. ReferencesAreFinite' /\ RefCountIsExact' /\ DestroyedAtZero'
  BY <1>1, <1>9, ReferencesStay
<1> QED
  BY <1>4, <1>5, <1>7, <1>8, <1>10, AllParts

LEMMA NextKeepsIInv ==
  ASSUME IInv, [Next]_vars
  PROVE  IInv'
<1>1. CASE UNCHANGED vars
  BY <1>1, StutterKeepsIInv
<1>2. CASE Next
  <2>1. PICK t \in Threads : UserCode(t) \/ Runs(t) \/ ShutdownBegins(t)
    BY <1>2 DEF Next
  <2>2. CASE UserCode(t)
    BY <2>2, DoAsyncKeepsIInv, DoAfterAsyncKeepsIInv, ReleaseOwnerKeepsIInv,
       SetIsPendingDestroyKeepsIInv DEF UserCode
  <2>3. CASE Dispatch(t)
    BY <2>3, CountKeepsIInv, ExchangeKeepsIInv, LinkNodeKeepsIInv, BecomeConsumerKeepsIInv
       DEF Dispatch
  <2>4. CASE Flush(t)
    BY <2>4, FlushPopKeepsIInv, ExecuteReturnsKeepsIInv, DestroyAndCountDownKeepsIInv DEF Flush
  <2>5. CASE Drain(t)
    BY <2>5, DrainNextKeepsIInv, ReleaseListedKeepsIInv, DrainDoneKeepsIInv DEF Drain
  <2>6. CASE Tick(t)
    BY <2>6, TickFiresKeepsIInv, TickReleasesKeepsIInv DEF Tick
  <2>7. CASE Shutdown(t) \/ ShutdownBegins(t)
    BY <2>7, ShutdownEntryKeepsIInv, ShutdownKeepsIInv DEF Shutdown
  <2> QED
    BY <2>1, <2>2, <2>3, <2>4, <2>5, <2>6, <2>7 DEF Runs
<1> QED
  BY <1>1, <1>2

(* In every reachable state: the counts add up, a busy dispatcher has one  *)
(* consumer, and every Dispatch in progress holds its target alive.        *)
THEOREM Invariance == Spec => []IInv
<1>1. Init => IInv
  BY InitIInv
<1>2. IInv /\ [Next]_vars => IInv'
  BY NextKeepsIInv
<1> QED
  BY <1>1, <1>2, PTL DEF Spec

(* Every variable of AsyncDispatcher keeps its type. *)
THEOREM TypeCorrectness == Spec => []TypeOK
<1>1. IInv => TypeOK
  BY DEF IInv
<1> QED
  BY <1>1, Invariance, PTL

(* A dispatcher whose RemainingTasksCount is above zero has exactly one    *)
(* consumer, unless a shift of a GExecuterList dropped it; one at zero has *)
(* none; and no list holds a dispatcher twice.                             *)
THEOREM OneConsumerAlways == Spec => []OneConsumer
<1>1. IInv => OneConsumer
  <2> SUFFICES ASSUME IInv PROVE OneConsumer
    OBVIOUS
  <2>1. ASSUME NEW d \in Dispatchers
        PROVE  Cardinality(Consumers(d)) = IF remaining[d] = 0 \/ d \in lost THEN 0 ELSE 1
    <3>1. CASE remaining[d] = 0 \/ d \in lost
      <4>1. Consumers(d) = {}
        BY <3>1 DEF IInv, ConsumerIsUnique
      <4> QED
        BY <3>1, <4>1, FS_EmptySet
    <3>2. CASE ~ (remaining[d] = 0 \/ d \in lost)
      <4>1. PICK c : Consumers(d) = {c}
        BY <3>2 DEF IInv, ConsumerIsUnique
      <4>2. Cardinality({c}) = 1
        BY FS_Singleton
      <4> QED
        BY <3>2, <4>1, <4>2
    <3> QED
      BY <3>1, <3>2
  <2> QED
    BY <2>1 DEF IInv, OneConsumer
<1> QED
  BY <1>1, Invariance, PTL

(* RemainingTasksCount counts the tasks queued, about to be and executing. *)
THEOREM CountIsExactAlways == Spec => []CountIsExact
<1>1. IInv => CountIsExact
  BY DEF IInv
<1> QED
  BY <1>1, Invariance, PTL

(* RefCount is the number of references held: none leaks, none is given    *)
(* back twice.                                                             *)
THEOREM RefCountIsExactAlways == Spec => []RefCountIsExact
<1>1. IInv => RefCountIsExact
  BY DEF IInv
<1> QED
  BY <1>1, Invariance, PTL

(* No thread that dispatches to, flushes, lists or times a dispatcher can  *)
(* find it destroyed.                                                      *)
THEOREM NoUseAfterDestroyAlways == Spec => []NoUseAfterDestroy
<1>1. IInv => NoUseAfterDestroy
  <2> SUFFICES ASSUME IInv, NEW d \in Dispatchers, destroyed[d]
               PROVE  /\ ~ owned[d]
                      /\ Consumers(d) = {}
                      /\ \A t \in Threads :
                           /\ EntriesOf(t, d) = {}
                           /\ occupant[t] # d
                           /\ target[t] = d => pc[t] \notin InCall
    BY DEF NoUseAfterDestroy
  <2>1. References(d) = {}
    <3>1. refCount[d] = 0
      BY DEF IInv, DestroyedAtZero
    <3> QED
      BY <3>1, ReferredIsCounted
  <2>2. /\ ~ owned[d] /\ d \notin lost
        /\ \A t \in Threads : /\ EntriesOf(t, d) = {} /\ occupant[t] # d
                              /\ d \notin Waiting(t) /\ ~ (listed[t] /\ flushing[t] = d)
    BY <2>1, ReferenceKinds DEF EntriesOf
  <2>3. \A t \in Threads : target[t] = d => pc[t] \notin InCall
    BY <2>1, CallIsReferred, ReferredIsCounted DEF IInv, DestroyedAtZero
  <2>4. \A t \in Threads : ~ Flushes(t, d) /\ ~ Becoming(t, d)
    BY <2>2, <2>3, FlushRefers DEF Becoming
  <2>5. Consumers(d) = {}
    BY <2>2, <2>4, KindsOfConsumers
  <2> QED
    BY <2>2, <2>3, <2>5
<1> QED
  BY <1>1, Invariance, PTL

(***************************************************************************)
(* The destructor.                                                         *)
(***************************************************************************)

(* Whoever destroys d gives up the last reference to it. *)
LEMMA DestroyedByTheLast ==
  ASSUME IInv, NEW c \in Dispatchers, NEW r, NEW dropped, IsSpare(r, c),
         ReleaseReferenceAndDestroy(c, dropped),
         NEW d \in Dispatchers, destroyed'[d], ~ destroyed[d]
  PROVE  queue[d] = <<>> /\ remaining[d] = 0
<1>1. destroyed' = [destroyed EXCEPT ![c] = @ \/ refCount[c] = 1]
  BY DEF ReleaseReferenceAndDestroy
<1>2. d = c /\ refCount[c] = 1
  BY <1>1 DEF IInv, TypeOK
<1> QED
  BY <1>2, LastReference

(* No step destroys a dispatcher that still has a task to execute: the     *)
(* destructor of its TaskQueue finds the queue empty.                      *)
THEOREM DestructorDropsNothingEver == Spec => DestructorDropsNothing
<1>1. ASSUME IInv, [Next]_vars
      PROVE  [\A d \in Dispatchers :
                destroyed'[d] /\ ~ destroyed[d] => queue[d] = <<>> /\ remaining[d] = 0]_vars
  <2> SUFFICES ASSUME Next, NEW d \in Dispatchers, destroyed'[d], ~ destroyed[d]
               PROVE  queue[d] = <<>> /\ remaining[d] = 0
    BY <1>1
  <2> USE <1>1
  <2>1. PICK t \in Threads : UserCode(t) \/ Runs(t) \/ ShutdownBegins(t)
    BY DEF Next
  <2>2. CASE UserCode(t)
    <3>1. PICK c \in Dispatchers : ReleaseOwner(t, c)
      BY <2>2 DEF UserCode, DoAsync, DoAfterAsync, SetIsPendingDestroy, dispatcherVars
    <3>2. owned[c] /\ ~ OwnerPointerInUse(c) /\ ReleaseReferenceAndDestroy(c, {})
      BY <3>1 DEF ReleaseOwner
    <3>3. <<"owner", NULL, NULL>> \in References(c)
      BY <3>2, ReferenceKinds
    <3>4. IsSpare(<<"owner", NULL, NULL>>, c)
      BY <3>2, <3>3 DEF IsSpare
    <3> QED
      BY <3>2, <3>4, DestroyedByTheLast
  <2>3. CASE ReleaseListed(t)
    BY <2>3, FlushedIsSpare, DestroyedByTheLast DEF ReleaseListed
  <2>4. CASE DrainDone(t)
    BY <2>4, OccupantIsSpare, DestroyedByTheLast DEF DrainDone
  <2>5. CASE TickReleases(t)
    <3>1. firing[t] \in timers[t] /\ pc[t] \notin InCall
      BY <2>5 DEF TickReleases, IInv, TimerState
    <3> QED
      BY <2>5, <3>1, EntryIsSpare, DestroyedByTheLast DEF TickReleases
  <2>6. CASE ShutdownEntry(t)
    <3>1. PICK e \in timers[t] : ReleaseReferenceAndDestroy(e.origin, {e.task})
      BY <2>6 DEF ShutdownEntry
    <3>2. pc[t] \notin InCall
      BY <2>6 DEF ShutdownEntry
    <3> QED
      BY <3>1, <3>2, EntryIsSpare, DestroyedByTheLast
  <2>7. CASE \/ Dispatch(t) \/ Flush(t) \/ DrainNext(t) \/ TickFires(t)
             \/ ShutdownEnds(t) \/ ShutdownBegins(t)
    BY <2>7 DEF Dispatch, Count, Exchange, LinkNode, BecomeConsumer, Flush, FlushPop,
       ExecuteReturns, DestroyAndCountDown, DrainNext, TickFires, ShutdownEnds,
       ShutdownBegins, dispatcherVars
  <2> QED
    BY <2>1, <2>2, <2>3, <2>4, <2>5, <2>6, <2>7 DEF Runs, Drain, Tick, Shutdown
<1> QED
  BY <1>1, Invariance, PTL DEF Spec, DestructorDropsNothing
=============================================================================
