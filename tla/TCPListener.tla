----------------------------- MODULE TCPListener ----------------------------
(***************************************************************************)
(* TCPListenerWorker: the accept thread, and Start and Stop by the threads *)
(* that use the listener.  The thread exists since Initialize; Run tells   *)
(* it to accept.  OnAccept is the user's, and calls neither Start nor Stop.*)
(***************************************************************************)
CONSTANT Callers          (* the threads that call Stop                    *)

VARIABLES
  Run,
  socketOpen,             (* Socket and AcceptEvent are open               *)
  acceptor,               (* where AcceptRoutine is                        *)
  acceptJoinable,         (* Thread.joinable()                             *)
  closing,                (* where each caller is in Stop                  *)
  terminated              (* std::terminate was called                     *)

callers == <<acceptJoinable, closing, terminated>>

Init ==
  /\ Run = FALSE
  /\ socketOpen = TRUE
  /\ acceptor = "waitForRun"
  /\ acceptJoinable = TRUE
  /\ closing = [c \in Callers |-> "none"]

-----------------------------------------------------------------------------
AcceptorAt(from, to) ==
  /\ acceptor = from
  /\ acceptor' = to
  /\ UNCHANGED <<Run, socketOpen, callers>>

(* WaitForRun returns when Run is set, or after two minutes. *)
WaitForRun == AcceptorAt("waitForRun", "test")

(* while (Run == true) *)
TestRun == AcceptorAt("test", IF Run THEN "event" ELSE "ended")

(* Nothing to accept within 200 ms, or a handle that was closed. *)
NoEvent == AcceptorAt("event", "test")

(* accept() succeeds on an open socket, whatever Run is by now. *)
OnAccept == socketOpen /\ AcceptorAt("event", "handler")

OnAcceptReturns == AcceptorAt("handler", "test")

AcceptRoutine == WaitForRun \/ TestRun \/ NoEvent \/ OnAccept \/ OnAcceptReturns

-----------------------------------------------------------------------------
Start ==
  /\ Run' = TRUE
  /\ UNCHANGED <<socketOpen, acceptor, callers>>

ClosingAt(c, from, to) ==
  /\ closing[c] = from
  /\ closing' = [closing EXCEPT ![c] = to]

Stop(c) ==
  /\ ClosingAt(c, "none", "test")
  /\ UNCHANGED <<Run, socketOpen, acceptor, acceptJoinable, terminated>>

StopTestsRun(c) ==
  /\ ClosingAt(c, "test", IF Run THEN "clear" ELSE "none")
  /\ UNCHANGED <<Run, socketOpen, acceptor, acceptJoinable, terminated>>

(* Mutant: the accept thread is only told by the handles it waits for. *)
StopClearsRun_Forgotten(c) ==
  /\ ClosingAt(c, "clear", "close")
  /\ UNCHANGED <<Run, socketOpen, acceptor, acceptJoinable, terminated>>

StopClearsRun(c) ==
  /\ ClosingAt(c, "clear", "close")
  /\ Run' = FALSE
  /\ UNCHANGED <<socketOpen, acceptor, acceptJoinable, terminated>>

(* WSACloseEvent and Close; closing them once more only fails. *)
StopCloses(c) ==
  /\ ClosingAt(c, "close", "joinable")
  /\ socketOpen' = FALSE
  /\ UNCHANGED <<Run, acceptor, acceptJoinable, terminated>>

(* Mutant: the thread is left to end on its own. *)
StopTestsJoinable_Never(c) ==
  /\ ClosingAt(c, "joinable", "none")
  /\ UNCHANGED <<Run, socketOpen, acceptor, acceptJoinable, terminated>>

StopTestsJoinable(c) ==
  /\ ClosingAt(c, "joinable", IF acceptJoinable THEN "join" ELSE "none")
  /\ UNCHANGED <<Run, socketOpen, acceptor, acceptJoinable, terminated>>

(* Two callers may both have found the thread joinable; to join it twice   *)
(* is undefined, and may throw out of a noexcept function.                 *)
StopJoins(c) ==
  /\ acceptor = "ended"
  /\ ClosingAt(c, "join", "none")
  /\ acceptJoinable' = FALSE
  /\ terminated' \in IF acceptJoinable THEN {terminated} ELSE BOOLEAN
  /\ UNCHANGED <<Run, socketOpen, acceptor>>

StopSteps(c) ==
  \/ StopTestsRun(c) \/ StopClearsRun(c) \/ StopCloses(c)
  \/ StopTestsJoinable(c) \/ StopJoins(c)
=============================================================================
