------------------------------- MODULE TQueue -------------------------------
(***************************************************************************)
(* One TQueue<T> used by one thread, with the history of what was pushed   *)
(* and popped.  The list of dispatchers waiting for a thread               *)
(* (AsyncSystem::GExecuterList) is such a queue.                           *)
(***************************************************************************)
EXTENDS TQueueOps, FiniteSets

CONSTANT MaxPush            (* bound: pushes in a behaviour                *)

ASSUME MaxPushAssumption == MaxPush \in Nat

VARIABLES
  q,                        (* the queue; the i-th Push pushes the value i *)
  pushed,                   (* history: number of pushes                   *)
  popped,                   (* history: values Top() showed before a Pop   *)
  shifts                    (* history: how often Balance moved elements   *)

vars == <<q, pushed, popped, shifts>>

Init ==
  /\ q = EmptyQueue
  /\ pushed = 0
  /\ popped = <<>>
  /\ shifts = 0

Push ==
  /\ pushed < MaxPush
  /\ pushed' = pushed + 1
  /\ q' = QPush(q, pushed')
  /\ UNCHANGED <<popped, shifts>>

(* The callers' idiom: while (GetSize()) { x = Top(); Pop(); } *)
TopAndPop ==
  /\ QNonEmpty(q)
  /\ popped' = Append(popped, QTop(q))
  /\ q' = QPop(q)
  /\ shifts' = IF BalanceShifts(Advanced(q)) THEN shifts + 1 ELSE shifts
  /\ UNCHANGED pushed

(* Pop of an empty queue is a no-op in the code. *)
PopEmpty ==
  /\ ~ QNonEmpty(q)
  /\ q' = QPop(q)
  /\ UNCHANGED <<pushed, popped, shifts>>

Next == Push \/ TopAndPop \/ PopEmpty

Spec == Init /\ [][Next]_vars

-----------------------------------------------------------------------------
Increasing(s) == \A i, j \in 1 .. Len(s) : i < j => s[i] < s[j]

TypeOK ==
  /\ q \in [elements : Seq(1 .. MaxPush), front : Nat]
  /\ q.front <= Len(q.elements)
  /\ pushed \in 0 .. MaxPush
  /\ popped \in Seq(1 .. MaxPush)
  /\ shifts \in Nat

(* Values come out in the order they went in, none twice, and what is      *)
(* still stored comes after everything that came out.                      *)
InOrder == Increasing(popped \o QContent(q))

(* What is lost is lost by Balance, one value per shift at most: all other *)
(* values are either out or still stored.                                  *)
LossIsBounded ==
  /\ pushed - shifts <= Len(popped) + Len(QContent(q))
  /\ shifts = 0 => popped \o QContent(q) = [i \in 1 .. pushed |-> i]

(* What a queue is for: every pushed value comes out.  Balance drops one   *)
(* unpopped value whenever it shifts.                                      *)
NothingLost == popped \o QContent(q) = [i \in 1 .. pushed |-> i]

-----------------------------------------------------------------------------
(***************************************************************************)
(* The inductive invariant.  It looks at the values that are out or still  *)
(* stored, as one sequence, place by place.                                *)
(***************************************************************************)
Total == Len(popped) + (Len(q.elements) - q.front)

Value(i) == IF i <= Len(popped) THEN popped[i] ELSE q.elements[q.front + (i - Len(popped))]

IInv ==
  /\ TypeOK
  /\ Total + shifts = pushed
  /\ \A i \in 1 .. Total : Value(i) \in 1 .. pushed
  /\ \A i, j \in 1 .. Total : i < j => Value(i) < Value(j)
  /\ shifts = 0 => \A i \in 1 .. Total : Value(i) = i
=============================================================================
