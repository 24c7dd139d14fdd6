----------------------------- MODULE WorkerGroup ----------------------------
(***************************************************************************)
(* _WorkerGroup<bIncludeMainThread> and its Worker threads.  One thread,   *)
(* Main, owns the group and calls Start, Stop, JoinGroup, Reset and the    *)
(* destructor; a worker may call Stop from inside its task.  The group and *)
(* its workers share flags and the counter RunningWorkers, each read and   *)
(* written on its own.                                                     *)
(***************************************************************************)
EXTENDS Integers, FiniteSets

CONSTANTS
  TotalWorkers,         (* workers, the one of the main thread included    *)
  Main,                 (* the thread that owns the group                  *)
  MaxStarts             (* bound: successful calls of Start                *)

ASSUME TotalWorkersAssumption == TotalWorkers \in Nat \ {0}
ASSUME MainAssumption == Main \notin Int
ASSUME MaxStartsAssumption == MaxStarts \in Nat

Workers == 0 .. TotalWorkers - 1
Callers == Workers \union {Main}

VARIABLES
  bIncludeMainThread,   (* template argument of _WorkerGroup               *)
  bHasTLSInitTask,      (* an initialization task was given: it may fail   *)
  RunningWorkers,
  groupRunning,         (* WorkerGroupShared::bIsRunning                   *)
  running,              (* WorkerBase::bIsRunning of each worker           *)
  Status,               (* WorkerBase::Status: TRUE is RSuccess            *)
  joinable,             (* WorkerBase::Thread.joinable()                   *)
  run,                  (* where RunImpl of each worker is                 *)
  call,                 (* what Main is doing with the group               *)
  step, index,          (* where it is in Start                            *)
  stop,                 (* where a caller is in Stop                       *)
  next, limit,          (* loop variable and bound of Stop and JoinGroup   *)
  starts,               (* history: calls of Start that got past its tests *)
  failed,               (* history: an initialization task failed          *)
  shutdowns,            (* history: OnGroupShutdown calls, since Start     *)
  terminated            (* Main called std::terminate: it takes no more    *)
                        (* steps, and the workers until it ends them all   *)

(* Workers with a std::thread of their own. *)
ThreadCount == IF bIncludeMainThread THEN TotalWorkers - 1 ELSE TotalWorkers

given   == <<bIncludeMainThread, bHasTLSInitTask>>
flags   == <<RunningWorkers, groupRunning, running>>
threads == <<Status, joinable, run>>
startVars == <<step, index>>
stopVars  == <<stop, next, limit>>
history == <<starts, failed, shutdowns>>
vars == <<given, flags, threads, call, startVars, stopVars, history, terminated>>

Init ==
  /\ bIncludeMainThread \in BOOLEAN
  /\ bHasTLSInitTask \in BOOLEAN
  /\ RunningWorkers = 0
  /\ groupRunning = FALSE
  /\ running = [w \in Workers |-> FALSE]
  /\ Status = [w \in Workers |-> TRUE]
  /\ joinable = [w \in Workers |-> FALSE]
  /\ run = [w \in Workers |-> "none"]
  /\ call = "none"
  /\ step = "none"
  /\ index = 0
  /\ stop = [c \in Callers |-> "none"]
  /\ next = [c \in Callers |-> 0]
  /\ limit = [c \in Callers |-> 0]
  /\ starts = 0
  /\ failed = FALSE
  /\ shutdowns = 0
  /\ terminated = FALSE

-----------------------------------------------------------------------------
(***************************************************************************)
(* Worker::RunImpl.                                                        *)
(***************************************************************************)

RunAt(w, from, to) ==
  /\ run[w] = from
  /\ run' = [run EXCEPT ![w] = to]

(* Status = TLSInitTask(...), or RSuccess without such a task. *)
InitializeWorker(w) ==
  /\ RunAt(w, "initialize", "announce")
  /\ \E s \in IF bHasTLSInitTask THEN BOOLEAN ELSE {TRUE} :
       /\ Status' = [Status EXCEPT ![w] = s]
       /\ failed' = (failed \/ ~ s)
  /\ UNCHANGED <<flags, joinable, call, startVars, stopVars, starts, shutdowns, given, terminated>>

(* SetIsRunning(true), also by a worker that failed and returns at once. *)
Announce(w) ==
  /\ RunAt(w, "announce", IF Status[w] THEN "task" ELSE "ended")
  /\ running' = [running EXCEPT ![w] = TRUE]
  /\ UNCHANGED <<RunningWorkers, groupRunning, Status, joinable, call, startVars,
                 stopVars, history, given, terminated>>

(* Task and OnShutdownTask return.  A task may do so at any time. *)
TaskReturns(w) ==
  /\ stop[w] = "none"
  /\ RunAt(w, "task", "clear")
  /\ UNCHANGED <<flags, Status, joinable, call, startVars, stopVars, history, given, terminated>>

ClearRunning(w) ==
  /\ RunAt(w, "clear", "report")
  /\ running' = [running EXCEPT ![w] = FALSE]
  /\ UNCHANGED <<RunningWorkers, groupRunning, Status, joinable, call, startVars,
                 stopVars, history, given, terminated>>

(* Mutant: the last one out is the one that leaves the counter at one. *)
OnWorkerShutdown_OffByOne(w) ==
  /\ RunAt(w, "report", IF RunningWorkers > 0 THEN "ended" ELSE "groupShutdown")
  /\ RunningWorkers' = RunningWorkers - 1
  /\ UNCHANGED <<groupRunning, running, Status, joinable, call, startVars,
                 stopVars, history, given, terminated>>

(* RunningWorkers.fetch_sub(1) > 1: not the last one. *)
OnWorkerShutdown(w) ==
  /\ RunAt(w, "report", IF RunningWorkers > 1 THEN "ended" ELSE "groupShutdown")
  /\ RunningWorkers' = RunningWorkers - 1
  /\ UNCHANGED <<groupRunning, running, Status, joinable, call, startVars,
                 stopVars, history, given, terminated>>

OnGroupShutdown(w) ==
  /\ RunAt(w, "groupShutdown", "clearGroup")
  /\ shutdowns' = shutdowns + 1
  /\ UNCHANGED <<flags, Status, joinable, call, startVars, stopVars, starts, failed,
                 given, terminated>>

ClearGroupRunning(w) ==
  /\ RunAt(w, "clearGroup", "ended")
  /\ groupRunning' = FALSE
  /\ UNCHANGED <<RunningWorkers, running, Status, joinable, call, startVars,
                 stopVars, history, given, terminated>>

RunImpl(w) ==
  \/ InitializeWorker(w) \/ Announce(w) \/ TaskReturns(w) \/ ClearRunning(w)
  \/ OnWorkerShutdown(w) \/ OnGroupShutdown(w) \/ ClearGroupRunning(w)

-----------------------------------------------------------------------------
(***************************************************************************)
(* _WorkerGroup::Start, by Main.                                           *)
(***************************************************************************)

StartStep(from, to) ==
  /\ call = "start"
  /\ step = from
  /\ step' = to

Start ==
  /\ call = "none"
  /\ ~ groupRunning
  /\ starts < MaxStarts
  /\ call' = "start"
  /\ step' = "worker"
  /\ index' = 0
  /\ RunningWorkers' = 0
  /\ starts' = starts + 1
  /\ shutdowns' = 0
  /\ UNCHANGED <<groupRunning, running, threads, stopVars, failed, given, terminated>>

(* Worker::Start of a worker whose flag is set does nothing. *)
StartRunning ==
  /\ index < ThreadCount
  /\ running[index]
  /\ StartStep("worker", "count")
  /\ UNCHANGED <<flags, threads, call, index, stopVars, history, given, terminated>>

(* Thread = std::thread(...).  A joinable thread must not be assigned to. *)
StartThread ==
  /\ index < ThreadCount
  /\ ~ running[index]
  /\ StartStep("worker", IF joinable[index] THEN "dead" ELSE "wait")
  /\ IF joinable[index]
     THEN /\ terminated' = TRUE
          /\ UNCHANGED <<joinable, run>>
     ELSE /\ joinable' = [joinable EXCEPT ![index] = TRUE]
          /\ run' = [run EXCEPT ![index] = "initialize"]
          /\ UNCHANGED terminated
  /\ UNCHANGED <<flags, Status, call, index, stopVars, history, given>>

(* WaitForIsRunning(true): atomic_flag::wait blocks while the flag HAS the *)
(* given value.                                                            *)
WaitForIsRunning ==
  /\ StartStep("wait", "status")
  /\ ~ running[index]
  /\ UNCHANGED <<flags, threads, call, index, stopVars, history, given, terminated>>

CheckStatus ==
  /\ call = "start"
  /\ step = "status"
  /\ \/ /\ Status[index]
        /\ step' = "count"
        /\ UNCHANGED <<call, running>>
     \/ /\ ~ Status[index]
        /\ running' = [running EXCEPT ![index] = FALSE]
        /\ step' = "none"
        /\ call' = "none"
  /\ UNCHANGED <<RunningWorkers, groupRunning, threads, index, stopVars, history, given,
                 terminated>>

(* Mutant: a worker that has ended by now is not counted. *)
CountWorker_OnlyRunning ==
  /\ StartStep("count", "worker")
  /\ RunningWorkers' = RunningWorkers + IF running[index] THEN 1 ELSE 0
  /\ index' = index + 1
  /\ UNCHANGED <<groupRunning, running, threads, call, stopVars, history, given, terminated>>

CountWorker ==
  /\ StartStep("count", "worker")
  /\ RunningWorkers' = RunningWorkers + 1
  /\ index' = index + 1
  /\ UNCHANGED <<groupRunning, running, threads, call, stopVars, history, given, terminated>>

AllStarted ==
  /\ call = "start"
  /\ step = "worker"
  /\ index = ThreadCount
  /\ groupRunning' = TRUE
  /\ step' = IF bIncludeMainThread THEN "countMain" ELSE "none"
  /\ call' = IF bIncludeMainThread THEN "start" ELSE "none"
  /\ UNCHANGED <<RunningWorkers, running, threads, index, stopVars, history, given, terminated>>

(* The main thread enters RunImpl of the last worker ... *)
CountMain ==
  /\ StartStep("countMain", "runMain")
  /\ RunningWorkers' = RunningWorkers + 1
  /\ run' = [run EXCEPT ![index] = "initialize"]
  /\ UNCHANGED <<groupRunning, running, Status, joinable, call, index, stopVars,
                 history, given, terminated>>

(* ... and Start returns when that does. *)
MainReturns ==
  /\ StartStep("runMain", "none")
  /\ run[index] = "ended"
  /\ call' = "none"
  /\ UNCHANGED <<flags, threads, index, stopVars, history, given, terminated>>

StartSteps ==
  \/ StartRunning \/ StartThread \/ WaitForIsRunning \/ CheckStatus
  \/ CountWorker \/ AllStarted \/ CountMain \/ MainReturns

-----------------------------------------------------------------------------
(***************************************************************************)
(* Stop and JoinGroup, by Main or (Stop only) by a worker's task.          *)
(***************************************************************************)

StopAt(c, from, to) ==
  /\ stop[c] = from
  /\ stop' = [stop EXCEPT ![c] = to]

(* IsRunning() is tested first; a stopped group is left alone. *)
StopTest(c) ==
  /\ StopAt(c, "test", IF groupRunning THEN "clear" ELSE "stopped")
  /\ UNCHANGED <<flags, threads, call, startVars, next, limit, history, given, terminated>>

StopClear(c) ==
  /\ StopAt(c, "clear", "count")
  /\ groupRunning' = FALSE
  /\ UNCHANGED <<RunningWorkers, running, threads, call, startVars, next, limit,
                 history, given, terminated>>

(* Mutant: the loop runs to and including the number of running workers. *)
StopCount_OffByOne(c) ==
  /\ StopAt(c, "count", "workers")
  /\ limit' = [limit EXCEPT ![c] = RunningWorkers + 1]
  /\ next' = [next EXCEPT ![c] = 0]
  /\ UNCHANGED <<flags, threads, call, startVars, history, given, terminated>>

StopCount(c) ==
  /\ StopAt(c, "count", "workers")
  /\ limit' = [limit EXCEPT ![c] = RunningWorkers]
  /\ next' = [next EXCEPT ![c] = 0]
  /\ UNCHANGED <<flags, threads, call, startVars, history, given, terminated>>

(* Workers[i].Stop(), for i from 0 to the number of running workers. *)
StopWorker(c) ==
  /\ next[c] < limit[c]
  /\ StopAt(c, "workers", "workers")
  /\ running' = [running EXCEPT ![next[c]] = FALSE]
  /\ next' = [next EXCEPT ![c] = @ + 1]
  /\ UNCHANGED <<RunningWorkers, groupRunning, threads, call, startVars, limit,
                 history, given, terminated>>

(* Mutant: the check for a call from within the group is gone. *)
IsCalledFromWithin_Never(c) == FALSE

(* The threads of the group recognize themselves; the main thread does     *)
(* not, even while it runs the last worker, which has no std::thread.      *)
IsCalledFromWithin(c) == c \in 0 .. ThreadCount - 1

(* The second loop is over: join, unless told not to or called from within.*)
StopWorkersDone(c) ==
  /\ next[c] >= limit[c]
  /\ StopAt(c, "workers",
            IF IsCalledFromWithin(c) \/ (c = Main /\ call # "stop")
            THEN "stopped" ELSE "join")
  /\ limit' = [limit EXCEPT ![c] = RunningWorkers]
  /\ next' = [next EXCEPT ![c] = 0]
  /\ UNCHANGED <<flags, threads, call, startVars, history, given, terminated>>

(* Workers[i].Join(): waits for the thread unless it was joined before. *)
JoinWorker(c) ==
  /\ next[c] < limit[c]
  /\ StopAt(c, "join", "join")
  /\ joinable[next[c]] => run[next[c]] = "ended"
  /\ joinable' = [joinable EXCEPT ![next[c]] = FALSE]
  /\ next' = [next EXCEPT ![c] = @ + 1]
  /\ UNCHANGED <<flags, Status, run, call, startVars, limit, history, given, terminated>>

JoinDone(c) ==
  /\ next[c] >= limit[c]
  /\ StopAt(c, "join", "stopped")
  /\ UNCHANGED <<flags, threads, call, startVars, next, limit, history, given, terminated>>

(* A task calls Stop, and goes on when it returns. *)
TaskStops(w) ==
  /\ run[w] = "task"
  /\ StopAt(w, "none", "test")
  /\ UNCHANGED <<flags, threads, call, startVars, next, limit, history, given, terminated>>

StopReturns(w) ==
  /\ StopAt(w, "stopped", "none")
  /\ UNCHANGED <<flags, threads, call, startVars, next, limit, history, given, terminated>>

StopSteps(c) ==
  \/ StopTest(c) \/ StopClear(c) \/ StopCount(c) \/ StopWorker(c)
  \/ StopWorkersDone(c) \/ JoinWorker(c) \/ JoinDone(c)

-----------------------------------------------------------------------------
(***************************************************************************)
(* The other calls of Main.                                                *)
(***************************************************************************)

MainCalls(from, to, entry, bound) ==
  /\ call = from
  /\ call' = to
  /\ stop' = [stop EXCEPT ![Main] = entry]
  /\ next' = [next EXCEPT ![Main] = 0]
  /\ limit' = [limit EXCEPT ![Main] = bound]
  /\ UNCHANGED <<flags, threads, startVars, history, given, terminated>>

Stop == MainCalls("none", "stop", "test", 0)

(* JoinGroup: as many workers as are running, from the first on. *)
JoinGroup == MainCalls("none", "join", "join", RunningWorkers)

(* Main is no thread of the group: Reset is Stop(false), JoinGroup and the *)
(* deletion of the workers.                                                *)
Reset == MainCalls("none", "reset", "test", 0)

ResetJoins ==
  /\ stop[Main] = "stopped"
  /\ \/ MainCalls("reset", "resetJoin", "join", RunningWorkers)
     \/ MainCalls("destroyReset", "destroyJoin", "join", RunningWorkers)

(* Mutant: the destructor joins the workers that are running. *)
Destructor_JoinsRunning == MainCalls("none", "destroy", "join", RunningWorkers)

(* ~_WorkerGroup: ForceJoinGroup joins every worker, then Reset. *)
Destructor == MainCalls("none", "destroy", "join", TotalWorkers)

DestructorResets ==
  /\ stop[Main] = "stopped"
  /\ MainCalls("destroy", "destroyReset", "test", 0)

MainReturnsFromStop ==
  /\ call \in {"stop", "join"}
  /\ StopAt(Main, "stopped", "none")
  /\ call' = "none"
  /\ UNCHANGED <<flags, threads, startVars, next, limit, history, given, terminated>>

(* Workers.reset(): the destructor of a joinable std::thread terminates.   *)
DeleteWorkers ==
  /\ call \in {"resetJoin", "destroyJoin"}
  /\ StopAt(Main, "stopped", "none")
  /\ IF \E w \in Workers : joinable[w]
     THEN /\ terminated' = TRUE
          /\ UNCHANGED call
     ELSE /\ call' = IF call = "resetJoin" THEN "cleared" ELSE "deleted"
          /\ UNCHANGED terminated
  /\ UNCHANGED <<flags, threads, startVars, next, limit, history, given>>

(* Initialize again, of a group that is not running: a new array takes the *)
(* place of the old one, whose threads must not be joinable.               *)
Initialize ==
  /\ call \in {"none", "cleared"}
  /\ ~ groupRunning
  /\ \/ /\ \E w \in Workers : joinable[w]
        /\ terminated' = TRUE
        /\ call' = "crashed"
        /\ UNCHANGED <<given, running, threads>>
     \/ /\ \A w \in Workers : ~ joinable[w]
        /\ call' = "none"
        /\ bHasTLSInitTask' \in BOOLEAN
        /\ running' = [w \in Workers |-> FALSE]
        /\ Status' = [w \in Workers |-> TRUE]
        /\ run' = [w \in Workers |-> "none"]
        /\ UNCHANGED <<bIncludeMainThread, joinable, terminated>>
  /\ UNCHANGED <<RunningWorkers, groupRunning, startVars, stopVars, history>>

(* The destructor of a group that was Reset: ForceJoinGroup goes through   *)
(* TotalWorkers elements of an array that is gone.                         *)
DestructorAfterReset ==
  /\ call = "cleared"
  /\ call' = "crashed"
  /\ UNCHANGED <<flags, threads, startVars, stopVars, history, given, terminated>>

-----------------------------------------------------------------------------
MainSteps ==
  StartSteps \/ StopSteps(Main) \/ MainReturnsFromStop \/ ResetJoins
    \/ DestructorResets \/ DeleteWorkers

Next ==
  \/ Start \/ Stop \/ JoinGroup \/ Reset \/ Destructor
  \/ Initialize \/ DestructorAfterReset
  \/ MainSteps
  \/ \E w \in Workers : RunImpl(w) \/ TaskStops(w) \/ StopSteps(w) \/ StopReturns(w)

Spec == Init /\ [][Next]_vars

(* Threads are scheduled, and a task returns once its worker was told to   *)
(* stop; nobody has to call anything.                                      *)
FairSpec ==
  /\ Spec
  /\ WF_vars(MainSteps)
  /\ \A w \in Workers :
       WF_vars(\/ RunImpl(w) /\ (run[w] = "task" => ~ running[w])
               \/ StopSteps(w) \/ StopReturns(w))

-----------------------------------------------------------------------------
(***************************************************************************)
(* Properties.                                                             *)
(***************************************************************************)
Runs == {"none", "initialize", "announce", "task", "clear", "report",
         "groupShutdown", "clearGroup", "ended"}

TypeOK ==
  /\ {bIncludeMainThread, bHasTLSInitTask} \subseteq BOOLEAN
  /\ RunningWorkers \in Int
  /\ groupRunning \in BOOLEAN
  /\ running \in [Workers -> BOOLEAN]
  /\ Status \in [Workers -> BOOLEAN]
  /\ joinable \in [Workers -> BOOLEAN]
  /\ run \in [Workers -> Runs]
  /\ call \in {"none", "start", "stop", "join", "reset", "resetJoin", "destroy",
                "destroyReset", "destroyJoin", "deleted", "cleared", "crashed"}
  /\ step \in {"none", "worker", "wait", "status", "count", "countMain", "runMain", "dead"}
  /\ index \in 0 .. TotalWorkers
  /\ stop \in [Callers -> {"none", "test", "clear", "count", "workers", "join", "stopped"}]
  /\ next \in [Callers -> Nat]
  /\ limit \in [Callers -> Int]
  /\ starts \in 0 .. MaxStarts
  /\ {failed, terminated} \subseteq BOOLEAN
  /\ shutdowns \in Nat

(* Stop and JoinGroup take RunningWorkers for the number of workers to     *)
(* tell and to join: outside of Start it counts exactly those that have    *)
(* not reported their end.  (They are not always the first ones.)          *)
CounterIsExact ==
  call # "start" /\ ~ failed =>
    RunningWorkers = Cardinality({w \in Workers :
      run[w] \in {"initialize", "announce", "task", "clear", "report"}})

(* RunningWorkers is used as an index into the array of workers: no loop   *)
(* of Stop or JoinGroup runs past its end.                                 *)
IndexInBounds == \A c \in Callers : limit[c] <= TotalWorkers

(* No thread joins itself, whoever calls Stop. *)
NoSelfJoin ==
  \A w \in Workers :
    stop[w] = "join" /\ next[w] = w /\ next[w] < limit[w] => ~ joinable[w]

(* When all workers of a successful Start have ended, OnGroupShutdown was  *)
(* called: the last fetch_sub finds at most one, however the increments of *)
(* Start and the decrements of the workers interleave.                     *)
ShutdownNotForgotten ==
  starts > 0 /\ call # "start" /\ ~ failed
  /\ (\A w \in Workers : run[w] = "ended")
    => shutdowns > 0

(* The destructor of a group that was not Reset joins every thread first,  *)
(* so none is left for the destructor of std::thread to end the program.   *)
DestructorIsQuiet ==
  call \in {"destroy", "destroyReset", "destroyJoin", "deleted"} =>
    ~ terminated

-----------------------------------------------------------------------------
(***************************************************************************)
(* What the comments in Worker.h say, and the code does not do.            *)
(***************************************************************************)

(* WaitForIsRunning waits "for the thread [IsRunning] state to change to   *)
(* the expected [bValue]": once the flag is up, Worker::Start goes on.     *)
WaitEndsWhenRunning == step = "wait" /\ running[index] ~> step # "wait"

-----------------------------------------------------------------------------
(***************************************************************************)
(* The inductive invariant.                                                *)
(***************************************************************************)
Active   == {w \in Workers : run[w] \in {"initialize", "announce", "task", "clear", "report"}}
Reported == {w \in Workers : run[w] \in {"groupShutdown", "clearGroup", "ended"}}

(* Main is in the loop of Start, and has dealt with the workers below      *)
(* Reached; the one it is at is not counted yet.                           *)
InLoop  == {"worker", "wait", "status", "count"}
Reached == IF step \in {"wait", "status", "count"} THEN index + 1 ELSE index

(* Where Main can be, in Start and in Stop. *)
MainIsSomewhere ==
  /\ call = "start" <=> step # "none"
  /\ step \in InLoop => index <= ThreadCount
  /\ step \in {"wait", "status", "count", "dead"} => index < ThreadCount
  /\ step \in {"countMain", "runMain"} => bIncludeMainThread /\ index = ThreadCount
  /\ call \in {"none", "start", "deleted", "cleared", "crashed"} => stop[Main] = "none"

(* A thread that runs is joinable, and only a worker's task calls Stop; the*)
(* last worker, if it is the main thread's, runs inside of Start.          *)
ThreadsAreOwned ==
  /\ \A w \in Workers : joinable[w] => w < ThreadCount
  /\ \A w \in Workers : w < ThreadCount /\ ~ joinable[w] => run[w] \in {"none", "ended"}
  /\ \A w \in Workers : w >= ThreadCount => step = "runMain" \/ run[w] \in {"none", "ended"}
  /\ \A w \in Workers : stop[w] # "none" => run[w] = "task"
  /\ \A w \in Workers : stop[w] = "join" => w >= ThreadCount

(* Without a failed initialization, the flag of a worker is up only while  *)
(* its task runs or has just returned.                                     *)
FlagsAreFresh ==
  ~ failed => \A w \in Workers : /\ Status[w]
                                 /\ running[w] => run[w] \in {"task", "clear"}

(* RunningWorkers as an index. *)
CounterIsBounded ==
  /\ RunningWorkers <= TotalWorkers
  /\ call = "start" => RunningWorkers <= IF step = "runMain" THEN index + 1 ELSE index

(* A worker of an earlier Start that reports before the loop has reached it*)
(* makes the count wrong, but the loop will not get past its thread.       *)
Doomed == \E w \in Reported : w >= Reached /\ w < ThreadCount /\ joinable[w]

(* The workers the loop has reached are counted, but for the one it is at. *)
CountedInLoop ==
  ~ failed /\ step \in InLoop /\ ~ Doomed =>
    RunningWorkers + (Reached - index) = Cardinality({w \in Active : w < Reached})

CountedOutside ==
  ~ failed /\ step \in {"none", "countMain", "runMain"} => RunningWorkers = Cardinality(Active)

(* The last one to report goes on to OnGroupShutdown. *)
ShutdownComes == shutdowns > 0 \/ \E w \in Workers : run[w] = "groupShutdown"

LastIsKnown ==
  /\ ~ failed /\ step \in InLoop /\ ~ Doomed /\ Reached > 0
     /\ (\A w \in Workers : w < Reached => w \in Reported)
       => ShutdownComes
  /\ ~ failed /\ step \in {"none", "runMain"} /\ (\A w \in Workers : w \in Reported)
       => ShutdownComes

(* The destructor has joined the threads below its loop variable, and then *)
(* all of them; where Main was when it ended the program, it stays.        *)
JoinedForDestruction ==
  /\ call = "destroy" =>
       /\ stop[Main] \in {"join", "stopped"} /\ limit[Main] = TotalWorkers
       /\ \A w \in Workers : w < next[Main] \/ stop[Main] = "stopped" => ~ joinable[w]
  /\ call \in {"destroyReset", "destroyJoin", "deleted"} => \A w \in Workers : ~ joinable[w]
  /\ terminated => \/ step = "dead" \/ call = "crashed"
                   \/ call = "resetJoin" /\ stop[Main] = "none"

IInv ==
  /\ TypeOK
  /\ MainIsSomewhere
  /\ ThreadsAreOwned
  /\ FlagsAreFresh
  /\ CounterIsBounded
  /\ IndexInBounds
  /\ CountedInLoop
  /\ CountedOutside
  /\ LastIsKnown
  /\ JoinedForDestruction
=============================================================================
