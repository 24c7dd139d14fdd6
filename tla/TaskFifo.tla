------------------------------ MODULE TaskFifo ------------------------------
(***************************************************************************)
(* What an asynchronous task queue promises, without saying how: tasks     *)
(* come out in the order in which they went in, each exactly once, into    *)
(* the hand of a single consumer.  TaskQueue.tla is shown to implement     *)
(* this module; nothing here is translated from code.                      *)
(***************************************************************************)
EXTENDS Naturals, Sequences

CONSTANTS Tasks,    (* the task objects                                    *)
          NULL      (* "no task"                                           *)

VARIABLES queue,    (* tasks pushed and not yet popped, oldest first       *)
          hand      (* the task the consumer is executing, NULL if none    *)

vars == <<queue, hand>>

Queued(t) == \E i \in 1 .. Len(queue) : queue[i] = t

Init ==
  /\ queue = <<>>
  /\ hand = NULL

(* A task object is queued at most once at a time. *)
Enqueue ==
  \E t \in Tasks :
    /\ ~ Queued(t)
    /\ t # hand
    /\ queue' = Append(queue, t)
    /\ UNCHANGED hand

Dequeue ==
  /\ hand = NULL
  /\ queue # <<>>
  /\ hand' = Head(queue)
  /\ queue' = Tail(queue)

Discard ==
  /\ hand # NULL
  /\ hand' = NULL
  /\ UNCHANGED queue

Next == Enqueue \/ Dequeue \/ Discard

Safety == Init /\ [][Next]_vars

(* The consumer keeps asking, so a queued task is always reached. *)
Spec == Safety /\ WF_vars(Dequeue) /\ WF_vars(Discard)
=============================================================================
