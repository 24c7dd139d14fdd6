-------------------------- MODULE AsyncTimerProofs --------------------------
(***************************************************************************)
(* For any tasks, delays, sizes of the storage and any clock: the timer of *)
(* a thread fires in order, holds one reference per entry, and destroys a  *)
(* task twice only if the storage moved while it fired.                    *)
(***************************************************************************)
EXTENDS AsyncTimer, FiniteSetTheorems, TLAPS

LEMMA TimerStarts == Init => IInv
<1> SUFFICES ASSUME Init PROVE IInv
  OBVIOUS
<1>1. TypeOK /\ pc = "idle" /\ heap = {}
  <2>1. /\ GTickCount \in 0 .. MaxTick /\ Capacity \in Nat
        /\ references \in Nat /\ lastTime \in Nat
    BY TimerAssumption DEF Init
  <2>2. Time \in [Tasks -> Nat] /\ destroys \in [Tasks -> 0 .. 2]
    BY DEF Init
  <2> QED
    BY <2>1, <2>2 DEF Init, TypeOK
<1>2. IsFiniteSet(heap) /\ Cardinality(heap) = 0
  BY <1>1, FS_EmptySet
<1>3. FiringIsDue /\ FireOrder /\ OneReferencePerEntry /\ WaitingIsWhole /\ FiringIsHandedOver
  BY <1>1, <1>2 DEF Init, TypeOK, FiringIsDue, FireOrder, OneReferencePerEntry, WaitingIsWhole,
     FiringIsHandedOver
<1>4. DestroysAreCounted
  BY <1>1 DEF Init, DestroysAreCounted, Unused
<1> QED
  BY <1>1, <1>2, <1>3, <1>4 DEF IInv

(* The new entry is due at the earliest now, and what has fired was. *)
LEMMA PushTaskKeepsIInv ==
  ASSUME IInv, NEW k \in Tasks, NEW delay \in Delays, PushTask(k, delay)
  PROVE  IInv'
<1>1. TypeOK /\ IsFiniteSet(heap)
  BY DEF IInv
<1>2. /\ pc \in {"idle", "dispatch"} /\ k \notin heap /\ k \notin dispatched /\ destroys[k] = 0
      /\ heap' = heap \union {k}
      /\ Time' = [Time EXCEPT ![k] = GTickCount + delay]
      /\ references' = references + 1
      /\ UNCHANGED <<GTickCount, pc, top, dispatched, destroys, lastTime>>
  BY DEF PushTask, Unused
<1>3. \/ /\ Capacity' = Capacity + GrowStep
         /\ moved' = (pc = "dispatch")
         /\ stranded' = IF pc = "dispatch" THEN stranded \union {top} ELSE stranded
      \/ UNCHANGED <<Capacity, moved, stranded>>
  BY DEF PushTask
<1>4. /\ delay \in Nat /\ GTickCount \in Nat /\ GrowStep \in Nat
      /\ Time'[k] = GTickCount + delay /\ Time' \in [Tasks -> Nat]
      /\ \A j \in Tasks : j # k => Time'[j] = Time[j]
  BY <1>1, <1>2, TimerAssumption DEF TypeOK
<1>5. k \notin stranded
  BY <1>2 DEF IInv, DestroysAreCounted
<1>6. pc = "dispatch" => top \in heap /\ top # k
  BY <1>2 DEF IInv, FiringIsDue
<1>7. TypeOK'
  <2>1. Capacity' \in Nat /\ stranded' \in SUBSET Tasks
    <3>1. pc = "dispatch" => top \in Tasks
      BY <1>1, <1>6 DEF TypeOK
    <3>2. stranded' \in SUBSET Tasks
      BY <1>1, <1>3, <3>1 DEF TypeOK
    <3>3. Capacity' \in Nat
      BY <1>1, <1>3, <1>4 DEF TypeOK
    <3> QED
      BY <3>2, <3>3
  <2>2. moved' \in BOOLEAN
    BY <1>1, <1>3 DEF TypeOK
  <2> QED
    BY <1>1, <1>2, <1>4, <2>1, <2>2 DEF TypeOK
<1>8. IsFiniteSet(heap') /\ OneReferencePerEntry'
  <2>1. IsFiniteSet(heap') /\ Cardinality(heap') = Cardinality(heap) + 1
    BY <1>1, <1>2, FS_AddElement
  <2> QED
    BY <1>2, <2>1 DEF IInv, OneReferencePerEntry
<1>9. FiringIsDue' /\ FireOrder'
  <2>1. \A j \in heap : j \in Tasks /\ lastTime <= Time[j] /\ Time'[j] = Time[j]
    BY <1>1, <1>2, <1>4 DEF IInv, TypeOK, FireOrder
  <2>2. lastTime <= Time'[k]
    BY <1>1, <1>4 DEF IInv, FiringIsDue, TypeOK
  <2>3. pc = "dispatch" => Time'[top] = lastTime
    BY <1>6, <2>1 DEF IInv, FiringIsDue
  <2>4. \A j \in heap' : lastTime <= Time'[j]
    BY <1>2, <2>1, <2>2
  <2>5. pc = "dispatch" => top \in Tops'
    BY <1>2, <1>6, <2>3, <2>4 DEF Tops
  <2> QED
    BY <1>2, <1>6, <2>3, <2>4, <2>5 DEF IInv, FiringIsDue, FireOrder
<1>10. \A j : Fires(j)' <=> Fires(j)
  BY <1>2 DEF Fires
<1>11. \A j \in Tasks : ~ Fires(j) => (j \in stranded' <=> j \in stranded)
  BY <1>3 DEF Fires
<1>12. WaitingIsWhole'
  <2>1. \A j \in heap : j \in Tasks
    BY <1>1 DEF TypeOK
  <2>2. \A j \in heap : ~ Fires(j) => j \notin dispatched' \union stranded' /\ destroys'[j] = 0
    BY <1>2, <1>11, <2>1 DEF IInv, WaitingIsWhole
  <2>3. ~ Fires(k) /\ k \notin dispatched' \union stranded' /\ destroys'[k] = 0
    BY <1>2, <1>5, <1>6, <1>11 DEF Fires
  <2> QED
    BY <1>2, <1>10, <2>2, <2>3 DEF WaitingIsWhole
<1>13. FiringIsHandedOver'
  BY <1>2, <1>3 DEF IInv, FiringIsHandedOver
<1>14. DestroysAreCounted'
  <2> SUFFICES ASSUME NEW j \in Tasks, j \notin heap'
               PROVE  LET extra == IF j \in stranded' THEN 1 ELSE 0 IN
                      IF j \in dispatched'
                      THEN destroys'[j] = extra
                      ELSE destroys'[j] = extra + 1 \/ (Unused(j)' /\ j \notin stranded')
    BY DEF DestroysAreCounted
  <2>1. j \notin heap /\ j # k /\ ~ Fires(j)
    BY <1>2, <1>6 DEF Fires
  <2>2. j \in stranded' <=> j \in stranded
    BY <1>11, <2>1
  <2>3. Unused(j)' <=> Unused(j)
    BY <1>2, <2>1 DEF Unused
  <2> QED
    BY <1>2, <2>1, <2>2, <2>3 DEF IInv, DestroysAreCounted
<1> QED
  BY <1>2, <1>7, <1>8, <1>9, <1>12, <1>13, <1>14 DEF IInv

LEMMA ClockKeepsIInv ==
  ASSUME IInv, TickBegins \/ TickEnds
  PROVE  IInv'
<1>1. TypeOK
  BY DEF IInv
<1>2. /\ pc # "dispatch" /\ pc' \in {"tick", "idle"}
      /\ UNCHANGED <<heap, Time, Capacity, moved, dispatched, destroys, references,
                     lastTime, stranded>>
  BY DEF TickBegins, TickEnds
<1>3. GTickCount' \in 0 .. MaxTick /\ GTickCount <= GTickCount'
  <2>1. GTickCount \in 0 .. MaxTick /\ MaxTick \in Nat
    BY <1>1, TimerAssumption DEF TypeOK
  <2>2. CASE GTickCount' = GTickCount
    BY <2>1, <2>2
  <2>3. CASE GTickCount' \in GTickCount .. MaxTick
    BY <2>1, <2>3
  <2> QED
    BY <2>2, <2>3 DEF TickBegins, TickEnds
<1>4. top' \in Tasks \union {NULL}
  BY <1>1 DEF TypeOK, TickBegins, TickEnds
<1>5. TypeOK'
  BY <1>1, <1>2, <1>3, <1>4 DEF TypeOK
<1>6. FiringIsDue'
  <2>1. lastTime <= GTickCount'
    <3>1. lastTime \in Nat /\ GTickCount \in Nat /\ GTickCount' \in Nat /\ lastTime <= GTickCount
      BY <1>1, <1>3, TimerAssumption DEF IInv, FiringIsDue, TypeOK
    <3> QED
      BY <1>3, <3>1
  <2> QED
    BY <1>2, <2>1 DEF FiringIsDue
<1>7. FireOrder' /\ FiringIsHandedOver' /\ OneReferencePerEntry'
  BY <1>2 DEF IInv, FireOrder, FiringIsHandedOver, OneReferencePerEntry
<1>8. WaitingIsWhole'
  BY <1>2 DEF IInv, WaitingIsWhole, Fires
<1>9. DestroysAreCounted'
  BY <1>2 DEF IInv, DestroysAreCounted, Unused
<1> QED
  BY <1>2, <1>5, <1>6, <1>7, <1>8, <1>9 DEF IInv

LEMMA TickFiresKeepsIInv ==
  ASSUME IInv, TickFires
  PROVE  IInv'
<1>1. TypeOK
  BY DEF IInv
<1>2. PICK k \in Tops : /\ Due(k) /\ top' = k /\ lastTime' = Time[k]
                        /\ dispatched' = dispatched \union {k}
  BY DEF TickFires
<1>3. /\ pc = "tick" /\ moved' = FALSE /\ pc' = "dispatch"
      /\ UNCHANGED <<GTickCount, heap, Time, Capacity, destroys, references, stranded>>
  BY DEF TickFires
<1>4. k \in heap /\ k \in Tasks /\ \A j \in heap : Time[k] <= Time[j]
  BY <1>1 DEF Tops, TypeOK
<1>5. k \notin dispatched \union stranded /\ destroys[k] = 0
  BY <1>3, <1>4 DEF IInv, WaitingIsWhole, Fires
<1>6. TypeOK'
  BY <1>1, <1>2, <1>3, <1>4 DEF TypeOK
<1>7. FiringIsDue' /\ FireOrder'
  <2>1. Tops' = Tops
    BY <1>3 DEF Tops
  <2> QED
    BY <1>2, <1>3, <1>4, <2>1 DEF FiringIsDue, FireOrder, Due
<1>8. WaitingIsWhole'
  BY <1>2, <1>3 DEF IInv, WaitingIsWhole, Fires
<1>9. FiringIsHandedOver'
  BY <1>2, <1>3, <1>5 DEF FiringIsHandedOver
<1>10. DestroysAreCounted'
  BY <1>2, <1>3, <1>4 DEF IInv, DestroysAreCounted, Unused
<1>11. OneReferencePerEntry'
  BY <1>3 DEF IInv, OneReferencePerEntry
<1> QED
  BY <1>3, <1>6, <1>7, <1>8, <1>9, <1>10, <1>11 DEF IInv

LEMMA TickPopsKeepsIInv ==
  ASSUME IInv, TickPops
  PROVE  IInv'
<1>1. TypeOK /\ IsFiniteSet(heap)
  BY DEF IInv
<1>2. /\ pc = "dispatch"
      /\ references' = references - 1
      /\ heap' = heap \ {top}
      /\ destroys' = [destroys EXCEPT ![top] = IF moved THEN @ + 1 ELSE @]
      /\ pc' = "tick"
      /\ UNCHANGED <<GTickCount, Time, Capacity, top, moved, dispatched, lastTime, stranded>>
  BY DEF TickPops
<1>3. PICK k \in heap : k = top
  BY <1>2 DEF IInv, FiringIsDue
<1>4. /\ k \in Tasks
      /\ destroys[k] = (IF k \in dispatched THEN 0 ELSE 1)
      /\ moved <=> k \in stranded
  BY <1>1, <1>2, <1>3 DEF IInv, FiringIsHandedOver, TypeOK
<1>5. /\ destroys'[k] = destroys[k] + (IF k \in stranded THEN 1 ELSE 0)
      /\ \A j \in Tasks : j # k => destroys'[j] = destroys[j]
      /\ destroys' \in [Tasks -> 0 .. 2]
  <2>1. CASE k \in stranded
    BY <1>1, <1>2, <1>3, <1>4, <2>1 DEF TypeOK
  <2>2. CASE k \notin stranded
    BY <1>1, <1>2, <1>3, <1>4, <2>2 DEF TypeOK
  <2> QED
    BY <2>1, <2>2
<1>6. IsFiniteSet(heap') /\ OneReferencePerEntry' /\ references' \in Nat
  <2>1. /\ IsFiniteSet(heap') /\ Cardinality(heap') = Cardinality(heap) - 1
        /\ Cardinality(heap') \in Nat
    BY <1>1, <1>2, <1>3, FS_RemoveElement, FS_CardinalityType
  <2> QED
    BY <1>2, <2>1 DEF IInv, OneReferencePerEntry
<1>7. TypeOK'
  BY <1>1, <1>2, <1>5, <1>6 DEF TypeOK
<1>8. FiringIsDue' /\ FireOrder' /\ FiringIsHandedOver'
  BY <1>2 DEF IInv, FiringIsDue, FireOrder, FiringIsHandedOver
<1>9. WaitingIsWhole'
  BY <1>1, <1>2, <1>3, <1>5 DEF IInv, WaitingIsWhole, Fires, TypeOK
<1>10. DestroysAreCounted'
  <2> SUFFICES ASSUME NEW j \in Tasks, j \notin heap'
               PROVE  LET extra == IF j \in stranded THEN 1 ELSE 0 IN
                      IF j \in dispatched
                      THEN destroys'[j] = extra
                      ELSE destroys'[j] = extra + 1 \/ (Unused(j)' /\ j \notin stranded)
    BY <1>2 DEF DestroysAreCounted
  <2>1. CASE j = k
    BY <1>4, <1>5, <2>1
  <2>2. CASE j # k
    <3>1. j \notin heap /\ destroys'[j] = destroys[j]
      BY <1>2, <1>3, <1>5, <2>2
    <3>2. Unused(j)' <=> Unused(j)
      BY <1>2, <3>1 DEF Unused
    <3> QED
      BY <3>1, <3>2 DEF IInv, DestroysAreCounted
  <2> QED
    BY <2>1, <2>2
<1> QED
  BY <1>2, <1>6, <1>7, <1>8, <1>9, <1>10 DEF IInv

LEMMA ConsumerDestroysKeepsIInv ==
  ASSUME IInv, NEW k \in Tasks, ConsumerDestroys(k)
  PROVE  IInv'
<1>1. TypeOK
  BY DEF IInv
<1>2. /\ k \in dispatched
      /\ dispatched' = dispatched \ {k}
      /\ destroys' = [destroys EXCEPT ![k] = @ + 1]
      /\ UNCHANGED <<GTickCount, heap, Time, Capacity, pc, top, moved, references,
                     lastTime, stranded>>
  BY DEF ConsumerDestroys
<1>3. k \in heap => Fires(k)
  BY <1>2 DEF IInv, WaitingIsWhole
<1>4. destroys[k] \in {0, 1}
  <2>1. CASE k \in heap
    BY <1>2, <1>3, <2>1 DEF IInv, FiringIsHandedOver, Fires
  <2>2. CASE k \notin heap
    BY <1>2, <2>2 DEF IInv, DestroysAreCounted
  <2> QED
    BY <2>1, <2>2
<1>5. /\ destroys'[k] = destroys[k] + 1
      /\ \A j \in Tasks : j # k => destroys'[j] = destroys[j]
      /\ destroys' \in [Tasks -> 0 .. 2]
  BY <1>1, <1>2, <1>4 DEF TypeOK
<1>6. TypeOK'
  BY <1>1, <1>2, <1>5 DEF TypeOK
<1>7. FiringIsDue' /\ FireOrder' /\ OneReferencePerEntry'
  BY <1>2 DEF IInv, FiringIsDue, FireOrder, OneReferencePerEntry, Tops
<1>8. WaitingIsWhole'
  BY <1>1, <1>2, <1>3, <1>5 DEF IInv, WaitingIsWhole, Fires, TypeOK
<1>9. FiringIsHandedOver'
  <2> SUFFICES ASSUME pc = "dispatch"
               PROVE  /\ destroys'[top] = IF top \in dispatched' THEN 0 ELSE 1
                      /\ moved <=> top \in stranded
    BY <1>2 DEF FiringIsHandedOver
  <2>1. top \in Tasks /\ destroys[top] = (IF top \in dispatched THEN 0 ELSE 1)
        /\ (moved <=> top \in stranded)
    BY <1>1 DEF IInv, FiringIsHandedOver, FiringIsDue, TypeOK
  <2>2. CASE top = k
    BY <1>2, <1>5, <2>1, <2>2
  <2>3. CASE top # k
    BY <1>2, <1>5, <2>1, <2>3
  <2> QED
    BY <2>2, <2>3
<1>10. DestroysAreCounted'
  <2> SUFFICES ASSUME NEW j \in Tasks, j \notin heap
               PROVE  LET extra == IF j \in stranded THEN 1 ELSE 0 IN
                      IF j \in dispatched'
                      THEN destroys'[j] = extra
                      ELSE destroys'[j] = extra + 1 \/ (Unused(j)' /\ j \notin stranded)
    BY <1>2 DEF DestroysAreCounted
  <2>1. CASE j = k
    <3>1. destroys[k] = IF k \in stranded THEN 1 ELSE 0
      BY <1>2, <2>1 DEF IInv, DestroysAreCounted
    <3> QED
      BY <1>2, <1>5, <2>1, <3>1
  <2>2. CASE j # k
    <3>1. (j \in dispatched' <=> j \in dispatched) /\ destroys'[j] = destroys[j]
      BY <1>2, <1>5, <2>2
    <3>2. Unused(j)' <=> Unused(j)
      BY <1>2, <3>1 DEF Unused
    <3> QED
      BY <3>1, <3>2 DEF IInv, DestroysAreCounted
  <2> QED
    BY <2>1, <2>2
<1> QED
  BY <1>2, <1>6, <1>7, <1>8, <1>9, <1>10 DEF IInv

LEMMA ShutdownKeepsIInv ==
  ASSUME IInv, Shutdown
  PROVE  IInv'
<1>1. TypeOK
  BY DEF IInv
<1>2. /\ pc = "idle" /\ pc' = "gone" /\ heap' = {}
      /\ references' = references - Cardinality(heap)
      /\ destroys' = [k \in Tasks |-> IF k \in heap THEN destroys[k] + 1 ELSE destroys[k]]
      /\ UNCHANGED <<GTickCount, Time, Capacity, top, moved, dispatched, lastTime, stranded>>
  BY DEF Shutdown
<1>3. \A k \in heap : k \in Tasks /\ k \notin dispatched \union stranded /\ destroys[k] = 0
  BY <1>1, <1>2 DEF IInv, WaitingIsWhole, Fires, TypeOK
<1>4. IsFiniteSet(heap') /\ references' = 0 /\ OneReferencePerEntry'
  <2>1. IsFiniteSet({}) /\ Cardinality({}) = 0
    BY FS_EmptySet
  <2>2. references = Cardinality(heap) /\ references \in Nat
    BY <1>1 DEF IInv, OneReferencePerEntry, TypeOK
  <2>3. references' = 0
    BY <1>2, <2>2
  <2> QED
    BY <1>2, <2>1, <2>3 DEF OneReferencePerEntry
<1>5. /\ \A k \in heap : destroys'[k] = 1
      /\ \A k \in Tasks \ heap : destroys'[k] = destroys[k]
      /\ destroys' \in [Tasks -> 0 .. 2]
  BY <1>1, <1>2, <1>3 DEF TypeOK
<1>6. TypeOK'
  BY <1>1, <1>2, <1>4, <1>5 DEF TypeOK
<1>7. FiringIsDue' /\ FireOrder' /\ FiringIsHandedOver' /\ WaitingIsWhole'
  BY <1>2 DEF IInv, FiringIsDue, FireOrder, FiringIsHandedOver, WaitingIsWhole
<1>8. DestroysAreCounted'
  <2> SUFFICES ASSUME NEW j \in Tasks
               PROVE  LET extra == IF j \in stranded THEN 1 ELSE 0 IN
                      IF j \in dispatched
                      THEN destroys'[j] = extra
                      ELSE destroys'[j] = extra + 1 \/ (Unused(j)' /\ j \notin stranded)
    BY <1>2 DEF DestroysAreCounted
  <2>1. CASE j \in heap
    BY <1>3, <1>5, <2>1
  <2>2. CASE j \notin heap
    <3>1. destroys'[j] = destroys[j] /\ (Unused(j)' <=> Unused(j))
      BY <1>2, <1>5, <2>2 DEF Unused
    <3> QED
      BY <2>2, <3>1 DEF IInv, DestroysAreCounted
  <2> QED
    BY <2>1, <2>2
<1> QED
  BY <1>2, <1>4, <1>6, <1>7, <1>8 DEF IInv

(* In every reachable state the entries, their references and the          *)
(* destructions of the tasks are accounted for.                            *)
THEOREM Invariance == Spec => []IInv
<1>1. Init => IInv
  BY TimerStarts
<1>2. IInv /\ [Next]_vars => IInv'
  <2> SUFFICES ASSUME IInv, [Next]_vars PROVE IInv'
    OBVIOUS
  <2>1. CASE UNCHANGED vars
    BY <2>1 DEF vars, IInv, TypeOK, FiringIsDue, FireOrder, Tops, OneReferencePerEntry,
       WaitingIsWhole, Fires, FiringIsHandedOver, DestroysAreCounted, Unused
  <2>2. CASE Next
    BY <2>2, PushTaskKeepsIInv, ClockKeepsIInv, TickFiresKeepsIInv, TickPopsKeepsIInv,
       ConsumerDestroysKeepsIInv, ShutdownKeepsIInv DEF Next
  <2> QED
    BY <2>1, <2>2
<1> QED
  BY <1>1, <1>2, PTL DEF Spec

(* Timer entries fire in the order of their due times, and the top of the  *)
(* priority queue stays the top while its task is dispatched.              *)
THEOREM EntriesFireInOrder == Spec => []FireOrder
<1>1. IInv => FireOrder
  BY DEF IInv
<1> QED
  BY <1>1, Invariance, PTL

(* Every entry holds one counted reference to its origin.                  *)
THEOREM EntriesHoldOneReference == Spec => []OneReferencePerEntry
<1>1. IInv => OneReferencePerEntry
  BY DEF IInv
<1> QED
  BY <1>1, Invariance, PTL

(* A task is destroyed once, by its consumer or with its entry, unless the *)
(* storage of the queue moved while it fired.                              *)
THEOREM TasksAreDestroyedOnce == Spec => []DestroyedOnce
<1>1. IInv => DestroyedOnce
  <2> SUFFICES ASSUME IInv, NEW k \in Tasks
               PROVE  /\ k \notin stranded => destroys[k] <= 1
                      /\ pc = "gone" /\ k \notin dispatched /\ ~ Unused(k) =>
                           destroys[k] = IF k \in stranded THEN 2 ELSE 1
    BY DEF DestroyedOnce
  <2>1. CASE k \in heap
    <3>1. pc # "gone"
      BY <2>1 DEF IInv
    <3>2. CASE Fires(k)
      BY <3>1, <3>2 DEF IInv, FiringIsHandedOver, Fires
    <3>3. CASE ~ Fires(k)
      BY <2>1, <3>1, <3>3 DEF IInv, WaitingIsWhole
    <3> QED
      BY <3>2, <3>3
  <2>2. CASE k \notin heap
    BY <2>2 DEF IInv, DestroysAreCounted, Unused
  <2> QED
    BY <2>1, <2>2
<1> QED
  BY <1>1, Invariance, PTL
=============================================================================
