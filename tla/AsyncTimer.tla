----------------------------- MODULE AsyncTimer -----------------------------
(***************************************************************************)
(* AsyncTimerTaskDispatcher of one thread: DoAfterAsync puts an entry into *)
(* a priority queue, Tick dispatches the entries that are due.  Tick works *)
(* on a REFERENCE to the top entry, and the task it dispatches may put new *)
(* entries into the same queue, whose storage then may have to move.       *)
(*                                                                         *)
(* An entry is a task with its due time.  Dispatch hands the task over: it *)
(* is executed and destroyed by a consumer, here or on another thread, at  *)
(* any later moment.                                                       *)
(***************************************************************************)
EXTENDS Integers, FiniteSets

CONSTANTS
  Tasks,
  NULL,
  Delays,           (* arguments of DoAfterAsync, in ticks                 *)
  InitialCapacity,  (* entries the first storage block holds               *)
  GrowStep,         (* entries added when it is full                       *)
  MaxTick           (* bound: the clock stops here                         *)

ASSUME TimerAssumption ==
  /\ NULL \notin Tasks
  /\ Delays \subseteq Nat
  /\ InitialCapacity \in Nat \ {0}
  /\ GrowStep \in Nat \ {0}
  /\ MaxTick \in Nat

VARIABLES
  GTickCount,       (* the time of the last Tick                           *)
  heap,             (* TaskQueue: tasks with an entry                      *)
  Time,             (* due time of each task's entry                       *)
  Capacity,         (* of the storage                                      *)
  pc,               (* "idle", "tick", "dispatch" or "gone"                *)
  top,              (* the task of the entry that fires                    *)
  moved,            (* its reference points into storage given back        *)
  dispatched,       (* tasks handed to their dispatcher                    *)
  destroys,         (* how often each task was destroyed                   *)
  references,       (* references to their origins the entries hold        *)
  lastTime,         (* history: due time of the entry that fired last      *)
  stranded          (* history: tasks that fired while the storage moved   *)

vars == <<GTickCount, heap, Time, Capacity, pc, top, moved, dispatched,
          destroys, references, lastTime, stranded>>

Init ==
  /\ GTickCount \in 0 .. MaxTick
  /\ heap = {}
  /\ Time = [k \in Tasks |-> 0]
  /\ Capacity = InitialCapacity
  /\ pc = "idle"
  /\ top = NULL
  /\ moved = FALSE
  /\ dispatched = {}
  /\ destroys = [k \in Tasks |-> 0]
  /\ references = 0
  /\ lastTime = 0
  /\ stranded = {}

Unused(k) == k \notin heap \union dispatched /\ destroys[k] = 0

Due(k) == Time[k] <= GTickCount

Tops == {k \in heap : \A j \in heap : Time[k] <= Time[j]}

-----------------------------------------------------------------------------
(* DoAfterAsync, between ticks or from a task that Tick dispatched.  A     *)
(* full storage is copied into a larger block and given back.              *)
PushTask(k, delay) ==
  /\ pc \in {"idle", "dispatch"}
  /\ Unused(k)
  /\ heap' = heap \union {k}
  /\ Time' = [Time EXCEPT ![k] = GTickCount + delay]
  /\ references' = references + 1
  /\ IF Cardinality(heap) = Capacity
     THEN /\ Capacity' = Capacity + GrowStep
          /\ moved' = (pc = "dispatch")
          /\ stranded' = IF pc = "dispatch" THEN stranded \union {top} ELSE stranded
     ELSE UNCHANGED <<Capacity, moved, stranded>>
  /\ UNCHANGED <<GTickCount, pc, top, dispatched, destroys, lastTime>>

(* Tick reads the clock once. *)
TickBegins ==
  /\ pc = "idle"
  /\ GTickCount' \in GTickCount .. MaxTick
  /\ pc' = "tick"
  /\ UNCHANGED <<heap, Time, Capacity, top, moved, dispatched, destroys,
                 references, lastTime, stranded>>

(* Mutant: any due entry, not the top one. *)
TickFires_AnyDue ==
  /\ pc = "tick"
  /\ \E k \in heap :
       /\ Due(k)
       /\ top' = k
       /\ lastTime' = Time[k]
       /\ dispatched' = dispatched \union {k}
  /\ moved' = FALSE
  /\ pc' = "dispatch"
  /\ UNCHANGED <<GTickCount, heap, Time, Capacity, destroys, references, stranded>>

(* The top entry is due: Task.Origin->Dispatch(Task.Task). *)
TickFires ==
  /\ pc = "tick"
  /\ \E k \in Tops :
       /\ Due(k)
       /\ top' = k
       /\ lastTime' = Time[k]
       /\ dispatched' = dispatched \union {k}
  /\ moved' = FALSE
  /\ pc' = "dispatch"
  /\ UNCHANGED <<GTickCount, heap, Time, Capacity, destroys, references, stranded>>

(* Mutant: the entry is popped with its task still in it. *)
TickPops_NoRelease ==
  /\ pc = "dispatch"
  /\ references' = references - 1
  /\ heap' = heap \ {top}
  /\ destroys' = [destroys EXCEPT ![top] = @ + 1]
  /\ pc' = "tick"
  /\ UNCHANGED <<GTickCount, Time, Capacity, top, moved, dispatched, lastTime, stranded>>

(* Dispatch returns: the reference to the origin is released, the entry    *)
(* made empty, and popped.  When the storage has moved, it is the old copy *)
(* that is made empty (its content was left as it was), and the pop        *)
(* destroys the task of the new one.                                       *)
TickPops ==
  /\ pc = "dispatch"
  /\ references' = references - 1
  /\ heap' = heap \ {top}
  /\ destroys' = [destroys EXCEPT ![top] = IF moved THEN @ + 1 ELSE @]
  /\ pc' = "tick"
  /\ UNCHANGED <<GTickCount, Time, Capacity, top, moved, dispatched, lastTime, stranded>>

TickEnds ==
  /\ pc = "tick"
  /\ \A k \in Tops : ~ Due(k)
  /\ pc' = "idle"
  /\ top' = NULL
  /\ UNCHANGED <<GTickCount, heap, Time, Capacity, moved, dispatched, destroys,
                 references, lastTime, stranded>>

(* A consumer destroys a dispatched task, after executing it or not. *)
ConsumerDestroys(k) ==
  /\ k \in dispatched
  /\ dispatched' = dispatched \ {k}
  /\ destroys' = [destroys EXCEPT ![k] = @ + 1]
  /\ UNCHANGED <<GTickCount, heap, Time, Capacity, pc, top, moved, references,
                 lastTime, stranded>>

(* Mutant: the loop stops at the first entry that was not due yet. *)
Shutdown_KeepsFuture ==
  /\ pc = "idle"
  /\ pc' = "gone"
  /\ heap' = {}
  /\ references' = references - Cardinality({k \in heap : Due(k)})
  /\ destroys' = [k \in Tasks |-> IF k \in heap /\ Due(k) THEN destroys[k] + 1 ELSE destroys[k]]
  /\ UNCHANGED <<GTickCount, Time, Capacity, top, moved, dispatched, lastTime, stranded>>

(* ShutdownThread: every entry gives its reference back, and its pop       *)
(* destroys the task.                                                      *)
Shutdown ==
  /\ pc = "idle"
  /\ pc' = "gone"
  /\ heap' = {}
  /\ references' = references - Cardinality(heap)
  /\ destroys' = [k \in Tasks |-> IF k \in heap THEN destroys[k] + 1 ELSE destroys[k]]
  /\ UNCHANGED <<GTickCount, Time, Capacity, top, moved, dispatched, lastTime, stranded>>

Next ==
  \/ \E k \in Tasks : ConsumerDestroys(k) \/ \E delay \in Delays : PushTask(k, delay)
  \/ TickBegins \/ TickFires \/ TickPops \/ TickEnds
  \/ Shutdown

Spec == Init /\ [][Next]_vars

-----------------------------------------------------------------------------
TypeOK ==
  /\ GTickCount \in 0 .. MaxTick
  /\ heap \in SUBSET Tasks
  /\ Time \in [Tasks -> Nat]
  /\ Capacity \in Nat
  /\ pc \in {"idle", "tick", "dispatch", "gone"}
  /\ top \in Tasks \union {NULL}
  /\ moved \in BOOLEAN
  /\ dispatched \in SUBSET Tasks
  /\ destroys \in [Tasks -> 0 .. 2]
  /\ references \in Nat
  /\ lastTime \in Nat
  /\ stranded \in SUBSET Tasks

(* Entries fire in the order of their due times over the whole life of the *)
(* thread: an entry made later, even by a task that fires, is never due    *)
(* before one that has fired, so the top stays the top while it fires.     *)
FireOrder ==
  /\ \A k \in heap : lastTime <= Time[k]
  /\ pc = "dispatch" => top \in Tops

(* One reference per entry, given back exactly once. *)
OneReferencePerEntry == references = Cardinality(heap)

(* A task is destroyed once: by its consumer, or with its entry when the   *)
(* thread shuts down.  The exception is a task whose entry fired while the *)
(* storage moved: that one is destroyed twice.                             *)
DestroyedOnce ==
  \A k \in Tasks :
    /\ k \notin stranded => destroys[k] <= 1
    /\ pc = "gone" /\ k \notin dispatched /\ ~ Unused(k) =>
         destroys[k] = IF k \in stranded THEN 2 ELSE 1

-----------------------------------------------------------------------------
(***************************************************************************)
(* The inductive invariant of the properties.                              *)
(***************************************************************************)

(* The entry that fires was due, and stays in the queue until it is        *)
(* popped; the clock is never behind the last one that fired.              *)
FiringIsDue ==
  /\ lastTime <= GTickCount
  /\ pc = "dispatch" => top \in heap /\ Time[top] = lastTime

Fires(k) == pc = "dispatch" /\ k = top

(* Nobody destroys a task that waits in its entry. *)
WaitingIsWhole ==
  \A k \in heap : ~ Fires(k) => k \notin dispatched \union stranded /\ destroys[k] = 0

(* The task that fires is with a consumer or was destroyed by it. *)
FiringIsHandedOver ==
  pc = "dispatch" => /\ destroys[top] = IF top \in dispatched THEN 0 ELSE 1
                     /\ moved <=> top \in stranded

(* A task without an entry was never used, or was destroyed once by its    *)
(* consumer or the shutdown, and once more when it was stranded.           *)
DestroysAreCounted ==
  \A k \in Tasks \ heap :
    LET extra == IF k \in stranded THEN 1 ELSE 0 IN
    IF k \in dispatched
    THEN destroys[k] = extra
    ELSE destroys[k] = extra + 1 \/ (Unused(k) /\ k \notin stranded)

IInv ==
  /\ TypeOK
  /\ IsFiniteSet(heap)
  /\ pc = "gone" => heap = {}
  /\ FiringIsDue
  /\ FireOrder
  /\ OneReferencePerEntry
  /\ WaitingIsWhole
  /\ FiringIsHandedOver
  /\ DestroysAreCounted
=============================================================================
