----------------------------- MODULE TQueueOps ------------------------------
(***************************************************************************)
(* TQueue<T> as values: a vector with the index of the first element not   *)
(* yet popped.  Pop leaves popped elements in front until Balance shifts   *)
(* them out.  Elements[i] of the code is elements[i + 1] here.             *)
(***************************************************************************)
EXTENDS Integers, Sequences

CONSTANT FrontSlackMax      (* third template argument of TQueue, 64        *)

ASSUME FrontSlackAssumption == FrontSlackMax \in Nat \ {0}

EmptyQueue == [elements |-> <<>>, front |-> 0]

QPush(q, x) == [q EXCEPT !.elements = Append(@, x)]

QTop(q) == q.elements[q.front + 1]

(* GetSize() as its callers use it: the declared result type is bool. *)
QNonEmpty(q) == Len(q.elements) - q.front # 0

(* The elements pushed and not popped that are still stored, oldest first. *)
QContent(q) == SubSeq(q.elements, q.front + 1, Len(q.elements))

(* Mutant: one slot more still. *)
BalanceSlack_Two(q) == q.front + 2

(* Balance runs after Pop incremented Front, and computes its slack from   *)
(* the incremented value plus one.                                         *)
BalanceSlack(q) == q.front + 1

BalanceShifts(q) == QNonEmpty(q) /\ BalanceSlack(q) >= FrontSlackMax

(* Mutant: Front is reset although nothing was shifted. *)
QBalance_NoShift(q) ==
  IF BalanceShifts(q) THEN [q EXCEPT !.front = 0] ELSE q

QBalance(q) ==
  IF BalanceShifts(q)
  THEN [elements |-> SubSeq(q.elements, BalanceSlack(q) + 1, Len(q.elements)),
        front    |-> 0]
  ELSE q

Advanced(q) == [q EXCEPT !.front = @ + 1]

QPop(q) == IF QNonEmpty(q) THEN QBalance(Advanced(q)) ELSE q
=============================================================================
