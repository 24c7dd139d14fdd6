-------------------------- MODULE ServerController --------------------------
(***************************************************************************)
(* ServerController<bUseCallingThread>: a TCPListener and a WorkerGroup    *)
(* that are started and stopped together.  Main owns the controller; a     *)
(* worker may call Stop from its task.  bUseCallingThread is the group's   *)
(* bIncludeMainThread: Start then runs the last worker itself.             *)
(***************************************************************************)
EXTENDS WorkerGroup

CONSTANT MaxStartTasks    (* bound: calls of Start that got past StartTask   *)
ASSUME MaxStartTasksAssumption == MaxStartTasks \in Nat

VARIABLES
  Run, socketOpen, acceptor, acceptJoinable, closing,   (* the Listener    *)
  bIsStarted,
  main,           (* where Main is in Start, WaitForController and the     *)
                  (* destructor: "none" when it is in none of them         *)
  control,        (* where each caller is in ServerController::Stop        *)
  startTasks,     (* history: calls of StartTask that succeeded            *)
  stopTasks,      (* history: calls of StopTask                            *)
  opened,         (* history: the listener was started                     *)
  overlapped      (* history: two calls of Stop were both past the test    *)

Listener == INSTANCE TCPListener

groupVars    == vars
listenerVars == <<Run, socketOpen, acceptor, acceptJoinable, closing>>
recorded     == <<startTasks, stopTasks, opened, overlapped>>
notInListener == <<given, flags, threads, call, startVars, stopVars, history,
                  bIsStarted, main, control, recorded>>
controllerVars == <<groupVars, listenerVars, bIsStarted, main, control, recorded>>

ControllerInit ==
  /\ Init
  /\ Listener!Init
  /\ bIsStarted = FALSE
  /\ main = "none"
  /\ control = [c \in Callers |-> "none"]
  /\ startTasks = 0
  /\ stopTasks = 0
  /\ opened = FALSE
  /\ overlapped = FALSE

(* Main may call the controller. *)
Idle == main = "none" /\ control[Main] = "none"

-----------------------------------------------------------------------------
(***************************************************************************)
(* ServerController::Start, by Main.                                       *)
(***************************************************************************)
StartController ==
  /\ Idle
  /\ ~ bIsStarted
  /\ startTasks < MaxStartTasks
  /\ Listener!Start
  /\ opened' = TRUE
  /\ main' = "startTask"
  /\ UNCHANGED <<groupVars, bIsStarted, control, startTasks, stopTasks, overlapped>>

(* StartTask fails: the listener goes on. *)
StartTaskFails ==
  /\ main = "startTask"
  /\ main' = "none"
  /\ UNCHANGED <<groupVars, listenerVars, bIsStarted, control, recorded>>

StartTask ==
  /\ main = "startTask"
  /\ main' = "startWorkers"
  /\ bIsStarted' = bIncludeMainThread
  /\ startTasks' = startTasks + 1
  /\ UNCHANGED <<groupVars, listenerVars, control, stopTasks, opened, overlapped>>

StartWorkers ==
  /\ main = "startWorkers"
  /\ main' = "starting"
  /\ Start
  /\ UNCHANGED <<listenerVars, bIsStarted, control, recorded>>

(* Workers.Start() of a group that is still running does nothing: a Stop   *)
(* that came too early for the group had cleared bIsStarted.               *)
StartWorkersRunning ==
  /\ main = "startWorkers"
  /\ groupRunning
  /\ bIsStarted' = (bIsStarted \/ ~ bIncludeMainThread)
  /\ main' = IF bIncludeMainThread THEN "stop" ELSE "none"
  /\ UNCHANGED <<groupVars, listenerVars, control, recorded>>

(* Workers.Start() returns; it failed if it did not get to the last worker.*)
StartWorkersReturns ==
  /\ main = "starting"
  /\ call = "none"
  /\ LET ok == index = ThreadCount
     IN /\ bIsStarted' = (bIsStarted \/ (ok /\ ~ bIncludeMainThread))
        /\ main' = IF ok /\ bIncludeMainThread THEN "stop" ELSE "none"
  /\ UNCHANGED <<groupVars, listenerVars, control, recorded>>

(* On the calling thread Start goes on with Stop and WaitForController.    *)
WaitAfterStop ==
  /\ main = "stopped"
  /\ control[Main] = "none"
  /\ main' = "waiting"
  /\ JoinGroup
  /\ UNCHANGED <<listenerVars, bIsStarted, control, recorded>>

WaitForController ==
  /\ Idle
  /\ main' = "waiting"
  /\ JoinGroup
  /\ UNCHANGED <<listenerVars, bIsStarted, control, recorded>>

WaitForControllerReturns ==
  /\ main = "waiting"
  /\ main' = "none"
  /\ MainReturnsFromStop
  /\ UNCHANGED <<listenerVars, bIsStarted, control, recorded>>

-----------------------------------------------------------------------------
(***************************************************************************)
(* ServerController::Stop.                                                 *)
(***************************************************************************)
ControlAt(c, from, to) ==
  /\ control[c] = from
  /\ control' = [control EXCEPT ![c] = to]

(* A call of Stop, by a task or by Main wherever it does so.  The caller   *)
(* leaves a controller that is not started alone.                          *)
MayStop(c) ==
  IF c = Main THEN main \in {"none", "stop", "destroy"} ELSE run[c] = "task"

MainAfterStop(c) ==
  main' = IF c # Main THEN main
          ELSE CASE main = "stop" -> "stopped"
                 [] main = "destroy" -> "destroyWorkers"
                 [] OTHER -> main

StopNotStarted(c) ==
  /\ MayStop(c)
  /\ ~ bIsStarted
  /\ control[c] = "none"
  /\ MainAfterStop(c)
  /\ UNCHANGED <<groupVars, listenerVars, bIsStarted, control, recorded>>

StopController(c) ==
  /\ MayStop(c)
  /\ bIsStarted
  /\ ControlAt(c, "none", "listener")
  /\ MainAfterStop(c)
  /\ Listener!Stop(c)
  /\ overlapped' = (overlapped \/ \E d \in Callers : control[d] # "none")
  /\ UNCHANGED <<groupVars, bIsStarted, startTasks, stopTasks, opened>>

StopTask(c) ==
  /\ closing[c] = "none"
  /\ ControlAt(c, "listener", "stopTask")
  /\ stopTasks' = stopTasks + 1
  /\ UNCHANGED <<groupVars, listenerVars, bIsStarted, main, startTasks, opened, overlapped>>

StopWorkers(c) ==
  /\ ControlAt(c, "stopTask", "workers")
  /\ IF c = Main THEN Stop ELSE TaskStops(c)
  /\ UNCHANGED <<listenerVars, bIsStarted, main, recorded>>

(* Mutant: a call from within the group returns before the last line. *)
StopControllerReturns_FromWithin(c) ==
  /\ ControlAt(c, "workers", "none")
  /\ IF c = Main THEN MainReturnsFromStop ELSE StopReturns(c)
  /\ bIsStarted' = (c # Main)
  /\ UNCHANGED <<listenerVars, main, recorded>>

StopControllerReturns(c) ==
  /\ ControlAt(c, "workers", "none")
  /\ IF c = Main THEN MainReturnsFromStop ELSE StopReturns(c)
  /\ bIsStarted' = FALSE
  /\ UNCHANGED <<listenerVars, main, recorded>>

ControllerStopSteps(c) ==
  \/ StopTask(c) \/ StopWorkers(c) \/ StopControllerReturns(c)

-----------------------------------------------------------------------------
(***************************************************************************)
(* The destructor: Stop, then the members, the last one first.             *)
(***************************************************************************)
Destroy ==
  /\ Idle
  /\ main' = "destroy"
  /\ UNCHANGED <<groupVars, listenerVars, bIsStarted, control, recorded>>

(* Mutant: the listener is declared last, and goes first. *)
DestroyWorkers_ListenerFirst ==
  /\ main = "destroyWorkers"
  /\ control[Main] = "none"
  /\ main' = "destroyThread"
  /\ Listener!Stop(Main)
  /\ UNCHANGED <<groupVars, bIsStarted, control, recorded>>

DestroyWorkers ==
  /\ main = "destroyWorkers"
  /\ control[Main] = "none"
  /\ main' = "destroyListener"
  /\ Destructor
  /\ UNCHANGED <<listenerVars, bIsStarted, control, recorded>>

(* Mutant: the listener is destroyed without its Stop. *)
DestroyListener_NoStop ==
  /\ main = "destroyListener"
  /\ call = "deleted"
  /\ main' = "destroyThread"
  /\ UNCHANGED <<groupVars, listenerVars, bIsStarted, control, recorded>>

DestroyListener ==
  /\ main = "destroyListener"
  /\ call = "deleted"
  /\ main' = "destroyThread"
  /\ Listener!Stop(Main)
  /\ UNCHANGED <<groupVars, bIsStarted, control, recorded>>

(* The destructor of a joinable std::thread terminates. *)
DestroyThread ==
  /\ main = "destroyThread"
  /\ closing[Main] = "none"
  /\ main' = "gone"
  /\ terminated' = acceptJoinable
  /\ UNCHANGED <<given, flags, threads, call, startVars, stopVars, history, listenerVars,
                 bIsStarted, control, recorded>>

-----------------------------------------------------------------------------
(* The threads inside of the group ... *)
GroupSteps ==
  /\ \/ StartSteps \/ StopSteps(Main) \/ ResetJoins \/ DestructorResets \/ DeleteWorkers
     \/ \E w \in Workers : StopSteps(w) \/ (control[w] = "none" /\ RunImpl(w))
  /\ UNCHANGED <<listenerVars, bIsStarted, main, control, recorded>>

(* ... and of the listener. *)
AcceptRoutine ==
  /\ Listener!AcceptRoutine
  /\ UNCHANGED notInListener

ListenerStop(c) ==
  /\ Listener!StopSteps(c)
  /\ UNCHANGED notInListener

ControllerNext ==
  /\ ~ terminated
  /\ \/ GroupSteps \/ AcceptRoutine \/ (\E c \in Callers : ListenerStop(c))
     \/ StartController \/ StartTaskFails \/ StartTask \/ StartWorkers
     \/ StartWorkersRunning \/ StartWorkersReturns \/ WaitAfterStop \/ WaitForController
     \/ WaitForControllerReturns
     \/ Destroy \/ DestroyWorkers \/ DestroyListener \/ DestroyThread
     \/ \E c \in Callers :
          StopNotStarted(c) \/ StopController(c) \/ ControllerStopSteps(c)

ControllerSpec == ControllerInit /\ [][ControllerNext]_controllerVars

(* The accept thread and the threads inside of Listener.Stop are           *)
(* scheduled, and OnAccept returns.                                        *)
FairControllerSpec ==
  /\ ControllerSpec
  /\ WF_controllerVars(AcceptRoutine /\ ~ terminated)
  /\ \A c \in Callers : WF_controllerVars(ListenerStop(c) /\ ~ terminated)

-----------------------------------------------------------------------------
(***************************************************************************)
(* Properties.                                                             *)
(***************************************************************************)

(* StopTask runs after the last connection was handed to AcceptTask: the   *)
(* accept thread has ended, unless another thread is still busy in the     *)
(* listener's Stop, which this caller then did not wait for.               *)
StopTaskAfterAccept ==
  \A c \in Callers : control[c] = "stopTask" =>
    acceptor = "ended" \/ \E d \in Callers \ {c} : closing[d] # "none"

(* StopTask runs once for each StartTask, unless two threads were in Stop  *)
(* at the same time.                                                       *)
StopTaskOnce == stopTasks > startTasks => overlapped

(* Destroying a controller ends the program only when the listener was     *)
(* never started, whatever failed in Start and whoever called Stop, or     *)
(* when two threads were in Stop at the same time.                         *)
DestructionIsQuiet == terminated /\ step # "dead" => ~ opened \/ overlapped

(* While the listener is destroyed, and after that, no worker thread is    *)
(* left in the controller, in the group or in the listener.                *)
NobodyLeftBehind ==
  main \in {"destroyThread", "gone"} => \A w \in Workers :
    /\ run[w] \in {"none", "ended"}
    /\ control[w] = "none" /\ stop[w] = "none" /\ closing[w] = "none"

(* After the listener's Stop has cleared Run, while two calls of the       *)
(* controller's Stop overlap, Start sets Run again.                        *)
StartedUnderStop(c) ==
  overlapped /\ Run /\ closing[c] \in {"close", "joinable", "join"}

(* The listener's Stop always returns: the accept thread sees Run, even    *)
(* when its handles are closed under it; but when the listener was started *)
(* again in the middle of it, it waits for a thread that goes on.          *)
ListenerStopReturns ==
  \A c \in Callers :
    closing[c] # "none" ~> closing[c] = "none" \/ terminated \/ StartedUnderStop(c)

-----------------------------------------------------------------------------
(***************************************************************************)
(* The inductive invariant.                                                *)
(***************************************************************************)
ControllerTypeOK ==
  /\ {Run, socketOpen, acceptJoinable, bIsStarted, opened, overlapped, terminated} \subseteq BOOLEAN
  /\ acceptor \in {"waitForRun", "test", "event", "handler", "ended"}
  /\ closing \in [Callers -> {"none", "test", "clear", "close", "joinable", "join"}]
  /\ main \in {"none", "startTask", "startWorkers", "starting", "stop", "stopped", "waiting",
                "destroy", "destroyWorkers", "destroyListener", "destroyThread", "gone"}
  /\ control \in [Callers -> {"none", "listener", "stopTask", "workers"}]
  /\ {startTasks, stopTasks} \subseteq Nat

(* The controller never resets its group, and destroys it once. *)
GroupIsUsed ==
  /\ call \notin {"reset", "resetJoin", "cleared", "crashed"}
  /\ main \in {"destroyThread", "gone"} => call = "deleted"

(* Only what was opened is started and stopped. *)
OpenedFirst ==
  /\ bIsStarted \/ main \in {"startTask", "startWorkers", "starting"} => opened
  /\ \A c \in Callers : control[c] # "none" => opened

(* A worker calls Stop from its task, and the listener's from that one;    *)
(* the destructor alone calls the listener's by itself, after it is out of *)
(* the controller's.                                                       *)
StopsAreNested ==
  /\ \A w \in Workers : control[w] # "none" => run[w] = "task"
  /\ \A c \in Callers : closing[c] # "none" =>
       control[c] = "listener" \/ (c = Main /\ main = "destroyThread")
  /\ main \in {"destroyListener", "destroyThread"} => control[Main] = "none"

(* Without an overlap one caller is in Stop, bIsStarted stays up under it, *)
(* and nothing else has joined the accept thread it is about to join.      *)
OneStopper ==
  ~ overlapped =>
    /\ \A c, d \in Callers : control[c] # "none" /\ control[d] # "none" => c = d
    /\ \A c \in Callers : control[c] # "none" => bIsStarted
    /\ \A c \in Callers : closing[c] = "join" => acceptJoinable

(* Start sets bIsStarted before the group's Start, or after it. *)
StartedInTime ==
  bIsStarted => /\ main # "startTask"
                /\ main \in {"startWorkers", "starting"} => bIncludeMainThread

(* What StartTask has made possible: a call of StopTask that was made, one *)
(* that a caller in Stop is about to make, and one by whoever comes next.  *)
StopTasksAhead ==
  IF \E c \in Callers : control[c] = "listener" THEN 1
  ELSE IF bIsStarted /\ \A c \in Callers : control[c] = "none" THEN 1
  ELSE IF main \in {"startWorkers", "starting"} /\ ~ bIncludeMainThread THEN 1
  ELSE 0
StopTasksAreCounted == ~ overlapped => stopTasks + StopTasksAhead <= startTasks

(* Once Run was taken back, the accept thread has been joined, or somebody *)
(* is about to.                                                            *)
Joining(c) == closing[c] \in {"close", "joinable", "join"}
AcceptorIsJoined ==
  /\ ~ acceptJoinable => acceptor = "ended"
  /\ opened /\ ~ Run => ~ acceptJoinable \/ \E c \in Callers : Joining(c)
  /\ \A c \in Callers : control[c] \in {"listener", "stopTask"} /\ closing[c] = "none" =>
       acceptor = "ended" \/ \E d \in Callers \ {c} : closing[d] # "none"
  /\ main = "destroyThread" /\ closing[Main] = "none" /\ opened => ~ acceptJoinable

CInv ==
  /\ ControllerTypeOK
  /\ ~ terminated => IInv
  /\ GroupIsUsed
  /\ OpenedFirst
  /\ StopsAreNested
  /\ OneStopper
  /\ StartedInTime
  /\ StopTasksAreCounted
  /\ AcceptorIsJoined
  /\ DestructionIsQuiet
  /\ NobodyLeftBehind
=============================================================================
