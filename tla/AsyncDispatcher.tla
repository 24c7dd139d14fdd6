--------------------------- MODULE AsyncDispatcher --------------------------
(***************************************************************************)
(* CommonEx::Async::AsyncDispatcher: objects whose tasks run one at a time *)
(* on whichever thread finds them idle.  Dispatch counts the task, pushes  *)
(* it, and the thread that counted it from zero becomes the consumer: it   *)
(* flushes the dispatcher now or, when the thread is already occupied by   *)
(* another dispatcher, puts it on the thread's list for later.             *)
(*                                                                         *)
(* TaskQueue is used through what TaskQueueProofs shows of it: a first-in  *)
(* first-out queue in which a push takes effect at its exchange and whose  *)
(* Pop returns null only if the queue is empty or a push is half done.     *)
(* The thread's list is a TQueue, bit for bit.  Reference counts are       *)
(* MemoryResource<true>.                                                   *)
(*                                                                         *)
(* Task bodies are arbitrary: while one executes, its thread may dispatch  *)
(* to any dispatcher it may legally reach, start a timer, give up the      *)
(* owner's pointer or mark a dispatcher as pending destroy.                *)
(***************************************************************************)
EXTENDS TQueueOps, FiniteSets

CONSTANTS
  Threads,          (* threads that called AsyncSystem::InitializeThread   *)
  Dispatchers,      (* AsyncDispatcher objects                             *)
  Tasks,            (* task objects, each allocated once: bounds the model *)
  NULL              (* nullptr                                             *)

ASSUME NullAssumption == NULL \notin Dispatchers \union Tasks
ASSUME ThreadsAssumption == IsFiniteSet(Threads)

VARIABLES
  (* per dispatcher *)
  remaining,        (* RemainingTasksCount                                 *)
  refCount,         (* RefCount                                            *)
  pendingDestroy,   (* bIsPendingDestroy                                   *)
  queue,            (* the TaskQueue, in exchange order                    *)
  owned,            (* somebody outside still holds a counted pointer      *)
  destroyed,        (* the destructor ran                                  *)
  (* per thread *)
  pc,               (* where the thread is in Dispatch, Flush or Tick      *)
  target, argument, (* this and Task of the Dispatch call in progress      *)
  wasZero,          (* its fetch_add returned 0                            *)
  occupant,         (* GCurrentExecuterOccupyingThisThread                 *)
  flushing,         (* the dispatcher whose Flush is running               *)
  listed,           (* Flush was called for an entry of the list           *)
  executing,        (* the task Flush popped                               *)
  list,             (* GExecuterList                                       *)
  lost,             (* history: dispatchers a shift of a list dropped      *)
  timers,           (* entries of GTimer: task and origin                  *)
  firing,           (* the entry Tick is dispatching                       *)
  (* per task *)
  fate              (* "new", "timed", "dispatched", "done"                *)

dispatcherVars == <<remaining, refCount, pendingDestroy, queue, owned, destroyed>>
callVars   == <<target, argument, wasZero>>
flushVars  == <<occupant, flushing, listed, executing, list, lost>>
timerVars  == <<timers, firing>>
vars == <<dispatcherVars, pc, callVars, flushVars, timerVars, fate>>

NoEntry == [task |-> NULL, origin |-> NULL]

Init ==
  /\ remaining = [d \in Dispatchers |-> 0]
  /\ refCount = [d \in Dispatchers |-> 1]
  /\ pendingDestroy = [d \in Dispatchers |-> FALSE]
  /\ queue = [d \in Dispatchers |-> <<>>]
  /\ owned = [d \in Dispatchers |-> TRUE]
  /\ destroyed = [d \in Dispatchers |-> FALSE]
  /\ pc = [t \in Threads |-> "idle"]
  /\ target = [t \in Threads |-> NULL]
  /\ argument = [t \in Threads |-> NULL]
  /\ wasZero = [t \in Threads |-> FALSE]
  /\ occupant = [t \in Threads |-> NULL]
  /\ flushing = [t \in Threads |-> NULL]
  /\ listed = [t \in Threads |-> FALSE]
  /\ executing = [t \in Threads |-> NULL]
  /\ list = [t \in Threads |-> EmptyQueue]
  /\ lost = {}
  /\ timers = [t \in Threads |-> {}]
  /\ firing = [t \in Threads |-> NoEntry]
  /\ fate = [k \in Tasks |-> "new"]

-----------------------------------------------------------------------------
(***************************************************************************)
(* Reference counting.                                                     *)
(***************************************************************************)

(* AddReference: a compare-exchange loop that leaves zero alone. *)
AddReference(d) ==
  refCount' = [refCount EXCEPT ![d] = IF @ = 0 THEN 0 ELSE @ + 1]

(* ReleaseReferenceAndDestroy; the destructor of the queue destroys what   *)
(* it still holds without executing it.  The tasks in dropped are          *)
(* destroyed by the same step of the caller.                               *)
ReleaseReferenceAndDestroy(d, dropped) ==
  LET last   == refCount[d] = 1
      queued == {queue[d][i] : i \in 1 .. Len(queue[d])}
      gone   == dropped \union (IF last THEN queued ELSE {})
  IN
  /\ refCount' = [refCount EXCEPT ![d] = @ - 1]
  /\ destroyed' = [destroyed EXCEPT ![d] = @ \/ last]
  /\ remaining' = [remaining EXCEPT ![d] = IF last THEN 0 ELSE @]
  /\ queue' = [queue EXCEPT ![d] = IF last THEN <<>> ELSE @]
  /\ fate' = [k \in Tasks |-> IF k \in gone THEN "done" ELSE fate[k]]

-----------------------------------------------------------------------------
(***************************************************************************)
(* What user code does, on an idle thread or from inside a task.           *)
(***************************************************************************)

RunsUserCode(t) == pc[t] \in {"idle", "executing"}

(* A caller reaches d through an owner's pointer, or it is a task of d.    *)
MayUse(t, d) == owned[d] \/ flushing[t] = d

(* DoAsync: allocate the task and call Dispatch. *)
DoAsync(t, d, k) ==
  /\ RunsUserCode(t)
  /\ MayUse(t, d)
  /\ fate[k] = "new"
  /\ fate' = [fate EXCEPT ![k] = "dispatched"]
  /\ target' = [target EXCEPT ![t] = d]
  /\ argument' = [argument EXCEPT ![t] = k]
  /\ pc' = [pc EXCEPT ![t] = "count"]
  /\ UNCHANGED <<dispatcherVars, wasZero, flushVars, timerVars>>

(* Mutant: the timer entry does not count as a reference. *)
DoAfterAsync_NoReference(t, d, k) ==
  /\ RunsUserCode(t)
  /\ MayUse(t, d)
  /\ fate[k] = "new"
  /\ fate' = [fate EXCEPT ![k] = "timed"]
  /\ timers' = [timers EXCEPT ![t] = @ \union {[task |-> k, origin |-> d]}]
  /\ UNCHANGED <<dispatcherVars, pc, callVars, flushVars, firing>>

(* DoAfterAsync: the timer of the calling thread keeps the origin alive. *)
DoAfterAsync(t, d, k) ==
  /\ RunsUserCode(t)
  /\ MayUse(t, d)
  /\ fate[k] = "new"
  /\ fate' = [fate EXCEPT ![k] = "timed"]
  /\ AddReference(d)
  /\ timers' = [timers EXCEPT ![t] = @ \union {[task |-> k, origin |-> d]}]
  /\ UNCHANGED <<remaining, pendingDestroy, queue, owned, destroyed,
                 pc, callVars, flushVars, firing>>

(* A call through the owner's pointer needs it until the dispatcher is     *)
(* kept alive by the call's own doing: the pushed task or the reference.   *)
OwnerPointerInUse(d) ==
  \E t \in Threads : /\ pc[t] \in {"count", "exchange", "link", "reference"}
                     /\ target[t] = d
                     /\ flushing[t] # d
                     /\ firing[t] = NoEntry \/ executing[t] # NULL

(* The owner's counted pointer is given up, by whatever thread. *)
ReleaseOwner(t, d) ==
  /\ RunsUserCode(t)
  /\ owned[d]
  /\ ~ OwnerPointerInUse(d)
  /\ owned' = [owned EXCEPT ![d] = FALSE]
  /\ ReleaseReferenceAndDestroy(d, {})
  /\ UNCHANGED <<pendingDestroy, pc, callVars, flushVars, timerVars>>

(* SetIsPendingDestroy(bValue); the flag may be taken back. *)
SetIsPendingDestroy(t, d) ==
  /\ RunsUserCode(t)
  /\ MayUse(t, d)
  /\ pendingDestroy' = [pendingDestroy EXCEPT ![d] = ~ @]
  /\ UNCHANGED <<remaining, refCount, queue, owned, destroyed, pc, callVars,
                 flushVars, timerVars, fate>>

-----------------------------------------------------------------------------
(***************************************************************************)
(* Dispatch.                                                               *)
(***************************************************************************)

(* Where a Dispatch call returns to. *)
Caller(t) ==
  IF executing[t] # NULL THEN "executing"
  ELSE IF firing[t] # NoEntry THEN "fired" ELSE "idle"

(* RemainingTasksCount.fetch_add(1) *)
Count(t) ==
  /\ pc[t] = "count"
  /\ wasZero' = [wasZero EXCEPT ![t] = remaining[target[t]] = 0]
  /\ remaining' = [remaining EXCEPT ![target[t]] = @ + 1]
  /\ pc' = [pc EXCEPT ![t] = "exchange"]
  /\ UNCHANGED <<refCount, pendingDestroy, queue, owned, destroyed, target,
                 argument, flushVars, timerVars, fate>>

(* Queue.Push(Task), first half: the task has its place in the queue. *)
Exchange(t) ==
  /\ pc[t] = "exchange"
  /\ queue' = [queue EXCEPT ![target[t]] = Append(@, argument[t])]
  /\ pc' = [pc EXCEPT ![t] = "link"]
  /\ UNCHANGED <<remaining, refCount, pendingDestroy, owned, destroyed,
                 callVars, flushVars, timerVars, fate>>

(* Second half.  A producer that found a consumer present is done. *)
LinkNode(t) ==
  /\ pc[t] = "link"
  /\ pc' = [pc EXCEPT ![t] = IF wasZero[t] THEN "reference" ELSE Caller(t)]
  /\ UNCHANGED <<dispatcherVars, callVars, flushVars, timerVars, fate>>

(* Mutant: the thread is occupied, so the task is left to its consumer. *)
BecomeConsumer_NotListed(t) ==
  /\ pc[t] = "reference"
  /\ AddReference(target[t])
  /\ \/ /\ occupant[t] # NULL
        /\ pc' = [pc EXCEPT ![t] = Caller(t)]
        /\ UNCHANGED <<occupant, flushing, listed>>
     \/ /\ occupant[t] = NULL
        /\ occupant' = [occupant EXCEPT ![t] = target[t]]
        /\ flushing' = [flushing EXCEPT ![t] = target[t]]
        /\ listed' = [listed EXCEPT ![t] = FALSE]
        /\ pc' = [pc EXCEPT ![t] = "flush"]
  /\ UNCHANGED <<remaining, pendingDestroy, queue, owned, destroyed, callVars,
                 executing, list, lost, timerVars, fate>>

(* Mutant: the list does not hold a reference. *)
BecomeConsumer_ListedUnreferenced(t) ==
  /\ pc[t] = "reference"
  /\ \/ /\ occupant[t] # NULL
        /\ list' = [list EXCEPT ![t] = QPush(@, target[t])]
        /\ pc' = [pc EXCEPT ![t] = Caller(t)]
        /\ UNCHANGED <<refCount, occupant, flushing, listed>>
     \/ /\ occupant[t] = NULL
        /\ AddReference(target[t])
        /\ occupant' = [occupant EXCEPT ![t] = target[t]]
        /\ flushing' = [flushing EXCEPT ![t] = target[t]]
        /\ listed' = [listed EXCEPT ![t] = FALSE]
        /\ pc' = [pc EXCEPT ![t] = "flush"]
        /\ UNCHANGED list
  /\ UNCHANGED <<remaining, pendingDestroy, queue, owned, destroyed, callVars,
                 executing, lost, timerVars, fate>>

(* The new consumer takes a reference, and either occupies the thread and  *)
(* flushes at once or leaves the dispatcher on the thread's list.          *)
BecomeConsumer(t) ==
  /\ pc[t] = "reference"
  /\ AddReference(target[t])
  /\ \/ /\ occupant[t] # NULL
        /\ list' = [list EXCEPT ![t] = QPush(@, target[t])]
        /\ pc' = [pc EXCEPT ![t] = Caller(t)]
        /\ UNCHANGED <<occupant, flushing, listed>>
     \/ /\ occupant[t] = NULL
        /\ occupant' = [occupant EXCEPT ![t] = target[t]]
        /\ flushing' = [flushing EXCEPT ![t] = target[t]]
        /\ listed' = [listed EXCEPT ![t] = FALSE]
        /\ pc' = [pc EXCEPT ![t] = "flush"]
        /\ UNCHANGED list
  /\ UNCHANGED <<remaining, pendingDestroy, queue, owned, destroyed, callVars,
                 executing, lost, timerVars, fate>>

(***************************************************************************)
(* Flush.                                                                  *)
(***************************************************************************)

(* The push of k has its place but not its link. *)
HalfPushed(d, k) ==
  \E t \in Threads : pc[t] = "link" /\ target[t] = d /\ argument[t] = k

(* When Pop may return the first task: never before something points to    *)
(* it.  If the second is half pushed, Pop returns the first when its own   *)
(* Stub lies between them and null otherwise.  Where the Stub lies is not  *)
(* kept here, so both are possible: a null Pop is a stuttering step, and   *)
(* Flush calls Pop again.                                                  *)
CanPop(d) ==
  /\ queue[d] # <<>>
  /\ ~ HalfPushed(d, Head(queue[d]))

(* A popped task is executed unless the dispatcher is pending destroy. *)
FlushPop(t) ==
  LET d == flushing[t] IN
  /\ pc[t] = "flush"
  /\ CanPop(d)
  /\ executing' = [executing EXCEPT ![t] = Head(queue[d])]
  /\ queue' = [queue EXCEPT ![d] = Tail(@)]
  /\ pc' = [pc EXCEPT ![t] = IF pendingDestroy[d] THEN "executed" ELSE "executing"]
  /\ UNCHANGED <<remaining, refCount, pendingDestroy, owned, destroyed, callVars,
                 occupant, flushing, listed, list, lost, timerVars, fate>>

(* ExecuteTask returns. *)
ExecuteReturns(t) ==
  /\ pc[t] = "executing"
  /\ pc' = [pc EXCEPT ![t] = "executed"]
  /\ UNCHANGED <<dispatcherVars, callVars, flushVars, timerVars, fate>>

(* Mutant: a skipped task is not counted down. *)
DestroyAndCountDown_SkipsPending(t) ==
  LET d == flushing[t] IN
  /\ pc[t] = "executed"
  /\ fate' = [fate EXCEPT ![executing[t]] = "done"]
  /\ executing' = [executing EXCEPT ![t] = NULL]
  /\ remaining' = [remaining EXCEPT ![d] = IF pendingDestroy[d] THEN @ ELSE @ - 1]
  /\ pc' = [pc EXCEPT ![t] = IF remaining'[d] # 0 THEN "flush"
                             ELSE IF listed[t] THEN "flushed" ELSE "drain"]
  /\ UNCHANGED <<refCount, pendingDestroy, queue, owned, destroyed, callVars,
                 occupant, flushing, listed, list, lost, timerVars>>

(* Mutant: Flush ends when the queue is empty, whatever the count. *)
DestroyAndCountDown_UntilEmpty(t) ==
  LET d == flushing[t] IN
  /\ pc[t] = "executed"
  /\ fate' = [fate EXCEPT ![executing[t]] = "done"]
  /\ executing' = [executing EXCEPT ![t] = NULL]
  /\ remaining' = [remaining EXCEPT ![d] = @ - 1]
  /\ pc' = [pc EXCEPT ![t] = IF queue[d] # <<>> THEN "flush"
                             ELSE IF listed[t] THEN "flushed" ELSE "drain"]
  /\ UNCHANGED <<refCount, pendingDestroy, queue, owned, destroyed, callVars,
                 occupant, flushing, listed, list, lost, timerVars>>

(* Task->Destroy(true); RemainingTasksCount.fetch_sub(1) == 1 ends Flush. *)
DestroyAndCountDown(t) ==
  LET d == flushing[t] IN
  /\ pc[t] = "executed"
  /\ fate' = [fate EXCEPT ![executing[t]] = "done"]
  /\ executing' = [executing EXCEPT ![t] = NULL]
  /\ remaining' = [remaining EXCEPT ![d] = @ - 1]
  /\ pc' = [pc EXCEPT ![t] = IF remaining[d] # 1 THEN "flush"
                             ELSE IF listed[t] THEN "flushed" ELSE "drain"]
  /\ UNCHANGED <<refCount, pendingDestroy, queue, owned, destroyed, callVars,
                 occupant, flushing, listed, list, lost, timerVars>>

(***************************************************************************)
(* Back in Dispatch: the other dispatchers registered in this thread.      *)
(***************************************************************************)
DrainNext(t) ==
  LET rest == Advanced(list[t]) IN
  /\ pc[t] = "drain"
  /\ QNonEmpty(list[t])
  /\ flushing' = [flushing EXCEPT ![t] = QTop(list[t])]
  /\ list' = [list EXCEPT ![t] = QPop(@)]
  /\ lost' = lost \union (IF BalanceShifts(rest) THEN {QTop(rest)} ELSE {})
  /\ listed' = [listed EXCEPT ![t] = TRUE]
  /\ pc' = [pc EXCEPT ![t] = "flush"]
  /\ UNCHANGED <<dispatcherVars, callVars, occupant, executing, timerVars, fate>>

(* Mutant: the reference of the list is not given back. *)
ReleaseListed_Keeps(t) ==
  /\ pc[t] = "flushed"
  /\ flushing' = [flushing EXCEPT ![t] = NULL]
  /\ pc' = [pc EXCEPT ![t] = "drain"]
  /\ UNCHANGED <<dispatcherVars, callVars, occupant, listed, executing,
                 list, lost, timerVars, fate>>

ReleaseListed(t) ==
  /\ pc[t] = "flushed"
  /\ ReleaseReferenceAndDestroy(flushing[t], {})
  /\ flushing' = [flushing EXCEPT ![t] = NULL]
  /\ pc' = [pc EXCEPT ![t] = "drain"]
  /\ UNCHANGED <<pendingDestroy, owned, callVars, occupant, listed, executing,
                 list, lost, timerVars>>

(* Mutant: the first dispatcher keeps the reference taken for its Flush. *)
DrainDone_Keeps(t) ==
  /\ pc[t] = "drain"
  /\ ~ QNonEmpty(list[t])
  /\ occupant' = [occupant EXCEPT ![t] = NULL]
  /\ flushing' = [flushing EXCEPT ![t] = NULL]
  /\ pc' = [pc EXCEPT ![t] = IF firing[t] # NoEntry THEN "fired" ELSE "idle"]
  /\ UNCHANGED <<dispatcherVars, callVars, listed, executing, list, lost, timerVars, fate>>

(* The list is empty: free the thread and let go of the first dispatcher. *)
DrainDone(t) ==
  /\ pc[t] = "drain"
  /\ ~ QNonEmpty(list[t])
  /\ occupant' = [occupant EXCEPT ![t] = NULL]
  /\ flushing' = [flushing EXCEPT ![t] = NULL]
  /\ ReleaseReferenceAndDestroy(occupant[t], {})
  /\ pc' = [pc EXCEPT ![t] = IF firing[t] # NoEntry THEN "fired" ELSE "idle"]
  /\ UNCHANGED <<pendingDestroy, owned, callVars, listed, executing, list, lost, timerVars>>

-----------------------------------------------------------------------------
(***************************************************************************)
(* The thread's timer, as far as the dispatchers see it: some entry is     *)
(* due, its task is dispatched, its reference released.                    *)
(***************************************************************************)
TickFires(t) ==
  /\ pc[t] = "idle"
  /\ \E e \in timers[t] :
       /\ firing' = [firing EXCEPT ![t] = e]
       /\ target' = [target EXCEPT ![t] = e.origin]
       /\ argument' = [argument EXCEPT ![t] = e.task]
       /\ fate' = [fate EXCEPT ![e.task] = "dispatched"]
  /\ pc' = [pc EXCEPT ![t] = "count"]
  /\ UNCHANGED <<dispatcherVars, wasZero, flushVars, timers>>

TickReleases(t) ==
  /\ pc[t] = "fired"
  /\ ReleaseReferenceAndDestroy(firing[t].origin, {})
  /\ timers' = [timers EXCEPT ![t] = @ \ {firing[t]}]
  /\ firing' = [firing EXCEPT ![t] = NoEntry]
  /\ pc' = [pc EXCEPT ![t] = "idle"]
  /\ UNCHANGED <<pendingDestroy, owned, callVars, flushVars>>

(* ShutdownThread: what has not fired is released and destroyed. *)
ShutdownBegins(t) ==
  /\ pc[t] = "idle"
  /\ pc' = [pc EXCEPT ![t] = "shutdown"]
  /\ UNCHANGED <<dispatcherVars, callVars, flushVars, timerVars, fate>>

ShutdownEntry(t) ==
  /\ pc[t] = "shutdown"
  /\ \E e \in timers[t] :
       /\ ReleaseReferenceAndDestroy(e.origin, {e.task})
       /\ timers' = [timers EXCEPT ![t] = @ \ {e}]
  /\ UNCHANGED <<pendingDestroy, owned, pc, callVars, flushVars, firing>>

ShutdownEnds(t) ==
  /\ pc[t] = "shutdown"
  /\ timers[t] = {}
  /\ pc' = [pc EXCEPT ![t] = "gone"]
  /\ UNCHANGED <<dispatcherVars, callVars, flushVars, timerVars, fate>>

-----------------------------------------------------------------------------
UserCode(t) ==
  \E d \in Dispatchers :
    \/ \E k \in Tasks : DoAsync(t, d, k) \/ DoAfterAsync(t, d, k)
    \/ ReleaseOwner(t, d)
    \/ SetIsPendingDestroy(t, d)

Dispatch(t) == Count(t) \/ Exchange(t) \/ LinkNode(t) \/ BecomeConsumer(t)

Flush(t) == FlushPop(t) \/ ExecuteReturns(t) \/ DestroyAndCountDown(t)

Drain(t) == DrainNext(t) \/ ReleaseListed(t) \/ DrainDone(t)

Tick(t) == TickFires(t) \/ TickReleases(t)

Shutdown(t) == ShutdownEntry(t) \/ ShutdownEnds(t)

Runs(t) == Dispatch(t) \/ Flush(t) \/ Drain(t) \/ Tick(t) \/ Shutdown(t)

Next == \E t \in Threads : UserCode(t) \/ Runs(t) \/ ShutdownBegins(t)

Spec == Init /\ [][Next]_vars

(* Every thread is scheduled, task bodies return, and the loop of a worker *)
(* calls TickThread until every timer entry was due or the thread shuts    *)
(* down.  Nobody is forced to call anything or to release anything.  That  *)
(* a Pop which may succeed does so in the end asks for nothing more: it    *)
(* can fail only while a push is half done, and that thread runs as well.  *)
FairSpec == Spec /\ \A t \in Threads : WF_vars(Runs(t))

-----------------------------------------------------------------------------
(***************************************************************************)
(* Properties.                                                             *)
(***************************************************************************)

InCall == {"count", "exchange", "link", "reference"}

Pcs == InCall \union {"idle", "flush", "executing", "executed", "flushed",
                      "drain", "fired", "shutdown", "gone"}

Entries == [task : Tasks, origin : Dispatchers]

TypeOK ==
  /\ remaining \in [Dispatchers -> Nat]
  /\ refCount \in [Dispatchers -> Nat]
  /\ pendingDestroy \in [Dispatchers -> BOOLEAN]
  /\ queue \in [Dispatchers -> Seq(Tasks)]
  /\ owned \in [Dispatchers -> BOOLEAN]
  /\ destroyed \in [Dispatchers -> BOOLEAN]
  /\ pc \in [Threads -> Pcs]
  /\ target \in [Threads -> Dispatchers \union {NULL}]
  /\ argument \in [Threads -> Tasks \union {NULL}]
  /\ wasZero \in [Threads -> BOOLEAN]
  /\ occupant \in [Threads -> Dispatchers \union {NULL}]
  /\ flushing \in [Threads -> Dispatchers \union {NULL}]
  /\ listed \in [Threads -> BOOLEAN]
  /\ executing \in [Threads -> Tasks \union {NULL}]
  /\ list \in [Threads -> [elements : Seq(Dispatchers), front : Nat]]
  /\ \A t \in Threads : list[t].front <= Len(list[t].elements)
  /\ lost \in SUBSET Dispatchers
  /\ timers \in [Threads -> SUBSET Entries]
  /\ firing \in [Threads -> Entries \union {NoEntry}]
  /\ fate \in [Tasks -> {"new", "timed", "dispatched", "done"}]

(* t is in Flush of d, perhaps inside a Dispatch that the task calls. *)
Flushes(t, d) ==
  /\ flushing[t] = d
  /\ pc[t] \in {"flush", "executing", "executed"} \/ executing[t] # NULL

(* t has counted d from zero and not yet flushed or listed it. *)
Becoming(t, d) ==
  pc[t] \in {"exchange", "link", "reference"} /\ target[t] = d /\ wasZero[t]

(* The dispatchers waiting in a list, and where they are in it. *)
Places(t)  == list[t].front + 1 .. Len(list[t].elements)
Waiting(t) == {list[t].elements[i] : i \in Places(t)}

ListedOnce ==
  \A t \in Threads : \A i, j \in Places(t) :
    list[t].elements[i] = list[t].elements[j] => i = j

Consumers(d) ==
       {<<t, "flush">> : t \in {u \in Threads : Flushes(u, d)}}
  \union {<<t, "dispatch">> : t \in {u \in Threads : Becoming(u, d)}}
  \union {<<t, "list">> : t \in {u \in Threads : d \in Waiting(u)}}

(* A dispatcher with counted tasks has exactly one consumer, whether it is *)
(* flushing, waiting in one thread's list once, or on its way there; a     *)
(* dispatcher without has none.  So no two threads execute tasks of one    *)
(* dispatcher at once, and none is forgotten, unless a shift of the list   *)
(* (Balance) dropped the dispatcher: see NothingLost in TQueue.            *)
OneConsumer ==
  /\ \A d \in Dispatchers :
       Cardinality(Consumers(d)) = IF remaining[d] = 0 \/ d \in lost THEN 0 ELSE 1
  /\ ListedOnce

(* RemainingTasksCount counts the tasks queued, about to be queued and     *)
(* being executed.                                                         *)
Exchanging(d) == {t \in Threads : pc[t] = "exchange" /\ target[t] = d}
Executing(d)  == {t \in Threads : executing[t] # NULL /\ flushing[t] = d}

CountIsExact ==
  \A d \in Dispatchers :
    remaining[d] = Len(queue[d]) + Cardinality(Exchanging(d)) + Cardinality(Executing(d))

EntriesOf(t, d) == {e \in timers[t] : e.origin = d}

(* The counted references to d: the owner's, one per timer entry, one per  *)
(* thread d occupies, one per list it waits in, one for the list it came   *)
(* from while it is flushed, and the one that went down with a lost entry. *)
OwnerReference(d)     == IF owned[d] THEN {<<"owner", NULL, NULL>>} ELSE {}
TimerReferences(d)    == UNION {{<<"timer", t, e>> : e \in EntriesOf(t, d)} : t \in Threads}
OccupantReferences(d) == {<<"occupant", t, NULL>> : t \in {u \in Threads : occupant[u] = d}}
ListReferences(d)     == {<<"list", t, NULL>> : t \in {u \in Threads : d \in Waiting(u)}}
FlushReferences(d)    ==
  {<<"flush", t, NULL>> : t \in {u \in Threads : listed[u] /\ flushing[u] = d}}
LostReference(d)      == IF d \in lost THEN {<<"lost", NULL, NULL>>} ELSE {}

References(d) ==
  UNION {OwnerReference(d), TimerReferences(d), OccupantReferences(d),
         ListReferences(d), FlushReferences(d), LostReference(d)}

(* The reference count is what the references held add up to.              *)
RefCountIsExact ==
  \A d \in Dispatchers : refCount[d] = Cardinality(References(d))

(* A destroyed dispatcher is out of every thread's reach.                  *)
NoUseAfterDestroy ==
  \A d \in Dispatchers : destroyed[d] =>
    /\ ~ owned[d]
    /\ Consumers(d) = {}
    /\ \A t \in Threads :
         /\ EntriesOf(t, d) = {}
         /\ occupant[t] # d
         /\ target[t] = d => pc[t] \notin InCall

(* A dispatcher dies with an empty queue, so no dispatched task is         *)
(* destroyed without having been given to Flush.                           *)
DestructorDropsNothing ==
  [][\A d \in Dispatchers :
       destroyed'[d] /\ ~ destroyed[d] => queue[d] = <<>> /\ remaining[d] = 0]_vars

(* Every task handed over is eventually destroyed: executed, skipped as    *)
(* pending destroy, or dropped by the shutdown of its timer's thread.      *)
EveryTaskIsDone == \A k \in Tasks : fate[k] # "new" ~> fate[k] = "done"

(* An abandoned dispatcher is eventually destroyed: no reference leaks.    *)
NoLeak == \A d \in Dispatchers : ~ owned[d] ~> destroyed[d]
-----------------------------------------------------------------------------
(***************************************************************************)
(* The inductive invariant of the safety properties.                       *)
(***************************************************************************)

(* A thread outside of Dispatch occupies itself with nothing; inside, it   *)
(* flushes its occupant or a dispatcher of its list, and a task that runs  *)
(* is one of the dispatcher being flushed.                                 *)
ThreadState(t) ==
  /\ executing[t] # NULL <=> pc[t] \in {"executing", "executed"}
                              \/ (pc[t] \in InCall /\ occupant[t] # NULL)
  /\ executing[t] # NULL \/ pc[t] \in {"flush", "flushed"} => flushing[t] # NULL
  /\ flushing[t] # NULL => occupant[t] # NULL /\ (~ listed[t] => flushing[t] = occupant[t])
  /\ occupant[t] # NULL => pc[t] \notin {"idle", "fired", "shutdown", "gone"}
  /\ occupant[t] = NULL => Places(t) = {} /\ pc[t] # "drain"
  /\ pc[t] = "flushed" => listed[t]
  /\ pc[t] = "drain" /\ listed[t] => flushing[t] = NULL
  /\ pc[t] \in InCall => target[t] # NULL /\ argument[t] # NULL
  /\ pc[t] = "reference" => wasZero[t]

(* The entry that fires stays among the timer's until it is released, and  *)
(* a Dispatch that no task called is the timer's.                          *)
TimerState(t) ==
  /\ firing[t] # NoEntry => firing[t] \in timers[t] /\ pc[t] \notin {"idle", "shutdown", "gone"}
  /\ pc[t] = "fired" => firing[t] # NoEntry
  /\ pc[t] \in InCall /\ executing[t] = NULL /\ firing[t] # NoEntry =>
       target[t] = firing[t].origin
  /\ \A e \in timers[t] : fate[e.task] # "new"

(* What keeps the target of a Dispatch in progress alive. *)
CallIsCovered(t) ==
  pc[t] \in InCall =>
    \/ owned[target[t]]
    \/ flushing[t] = target[t] /\ executing[t] # NULL
    \/ firing[t] # NoEntry /\ executing[t] = NULL

(* The consumer of OneConsumer, named. *)
ConsumerIsUnique ==
  \A d \in Dispatchers :
    IF remaining[d] = 0 \/ d \in lost
    THEN Consumers(d) = {}
    ELSE \E c \in Consumers(d) : Consumers(d) = {c}

ReferencesAreFinite == \A d \in Dispatchers : IsFiniteSet(References(d))

LostIsBusy == \A d \in lost : remaining[d] # 0

DestroyedAtZero == \A d \in Dispatchers : destroyed[d] <=> refCount[d] = 0

IInv ==
  /\ TypeOK
  /\ \A t \in Threads : ThreadState(t) /\ TimerState(t) /\ CallIsCovered(t)
  /\ ConsumerIsUnique
  /\ ListedOnce
  /\ LostIsBusy
  /\ ReferencesAreFinite
  /\ CountIsExact
  /\ RefCountIsExact
  /\ DestroyedAtZero
=============================================================================
