------------------------------ MODULE TaskQueue -----------------------------
(***************************************************************************)
(* CommonEx::Async::TaskQueue, the intrusive queue behind every            *)
(* AsyncDispatcher: many producers, one consumer, a Stub node, no lock.    *)
(* One action is one access to memory that another thread can also touch,  *)
(* so Push's window between the exchange of Head and the store to Next is  *)
(* visible, and so is each of the up to six accesses of Pop.               *)
(*                                                                         *)
(* A task is a node; its memory comes from a pool and goes back to it when *)
(* the consumer destroys the task, so the same node is pushed again and    *)
(* again (Make constructs it anew).                                        *)
(***************************************************************************)
EXTENDS Integers, Sequences, FiniteSets

CONSTANTS
  Producers,        (* threads that push                                   *)
  Tasks,            (* task nodes                                          *)
  Stub,             (* the node embedded in the queue                      *)
  NULL,             (* nullptr                                             *)
  MaxPush           (* bound: pushes in a behaviour                        *)

ASSUME NodeAssumption ==
  /\ Stub \notin Tasks
  /\ NULL \notin Tasks \union {Stub}

ASSUME MaxPushAssumption == MaxPush \in Nat

Nodes == Tasks \union {Stub}

VARIABLES
  head,             (* std::atomic<AsyncTaskBase*> Head                    *)
  tail,             (* the consumer's end                                  *)
  Link,             (* AsyncTaskBase::Next of every node                   *)
  pPc, pTask, pPrev,(* Push: program counter, argument, PrevNode           *)
  cPc, lTail, lPrev,(* Pop: program counter, L_Tail, L_PrevNode            *)
  result,           (* what the last Pop returned                          *)
  pool,             (* nodes that no thread owns                           *)
  phase,            (* "live", "draining" in ~TaskQueue, then "gone"       *)
  log,              (* history: tasks in the order of their Head exchange  *)
  taken,            (* history: how many of them Pop has returned          *)
  stubAt,           (* history: Stub sits after log[stubAt]; -1 if outside *)
  gap               (* history: since this Pop began, was there a moment   *)
                    (* with the queue empty or with a Push half done?      *)

memory    == <<head, tail, Link>>
producers == <<pPc, pTask, pPrev>>
consumer  == <<cPc, lTail, lPrev, result>>
history   == <<log, taken, stubAt>>
vars      == <<memory, producers, consumer, pool, phase, history, gap>>

InFlight == \E p \in Producers : pPc[p] = "link"
Empty    == taken = Len(log)

Init ==
  /\ head = Stub
  /\ tail = Stub
  /\ Link = [n \in Nodes |-> NULL]
  /\ pPc = [p \in Producers |-> "idle"]
  /\ pTask = [p \in Producers |-> NULL]
  /\ pPrev = [p \in Producers |-> NULL]
  /\ cPc = "idle"
  /\ lTail = NULL
  /\ lPrev = NULL
  /\ result = NULL
  /\ pool = Tasks
  /\ phase = "live"
  /\ log = <<>>
  /\ taken = 0
  /\ stubAt = 0
  /\ gap = TRUE

-----------------------------------------------------------------------------
(***************************************************************************)
(* Producers.                                                              *)
(***************************************************************************)

(* MakeTaskRaw: a block of the pool, constructed with Next == nullptr. *)
Make(p) ==
  /\ phase = "live"
  /\ pPc[p] = "idle"
  /\ Len(log) < MaxPush
  /\ \E t \in pool :
       /\ pool' = pool \ {t}
       /\ pTask' = [pTask EXCEPT ![p] = t]
       /\ Link' = [Link EXCEPT ![t] = NULL]
  /\ pPc' = [pPc EXCEPT ![p] = "exchange"]
  /\ UNCHANGED <<head, tail, pPrev, consumer, phase, history, gap>>

(* PrevNode = atomic_exchange(Head, Task): the push takes its place. *)
PushExchange(p) ==
  /\ pPc[p] = "exchange"
  /\ pPrev' = [pPrev EXCEPT ![p] = head]
  /\ head' = pTask[p]
  /\ pPc' = [pPc EXCEPT ![p] = "link"]
  /\ log' = Append(log, pTask[p])
  /\ gap' = TRUE
  /\ UNCHANGED <<tail, Link, pTask, consumer, pool, phase, taken, stubAt>>

(* PrevNode->Next = Task: the consumer can now walk over the new node. *)
PushLink(p) ==
  /\ pPc[p] = "link"
  /\ Link' = [Link EXCEPT ![pPrev[p]] = pTask[p]]
  /\ pPc' = [pPc EXCEPT ![p] = "idle"]
  /\ UNCHANGED <<head, tail, pTask, pPrev, consumer, pool, phase, history, gap>>

-----------------------------------------------------------------------------
(***************************************************************************)
(* The consumer.  Returning a task also moves the history forward.         *)
(***************************************************************************)

Return(r) ==
  /\ cPc' = "returned"
  /\ result' = r

(* Tail = L_Next; return L_Tail *)
TakeAndReturn(t, next) ==
  /\ tail' = next
  /\ Return(t)
  /\ taken' = taken + 1

(* L_Tail = Tail; L_Next = L_Tail->Next.  The three outcomes of the read. *)
PopBegin ==
  /\ cPc = "idle"
  /\ phase # "gone"
  /\ lTail' = tail
  /\ gap' = (Empty \/ InFlight)

(* Mutant: the successor of Stub is not looked at. *)
PopEmpty_IgnoresNext ==
  /\ PopBegin
  /\ tail = Stub
  /\ Return(NULL)
  /\ UNCHANGED <<memory, producers, lPrev, pool, phase, history>>

PopEmpty ==
  /\ PopBegin
  /\ tail = Stub
  /\ Link[tail] = NULL
  /\ Return(NULL)
  /\ UNCHANGED <<memory, producers, lPrev, pool, phase, history>>

(* Mutant: returns L_Next where L_Tail is meant. *)
PopFirst_ReturnsNext ==
  /\ PopBegin
  /\ tail # Stub
  /\ Link[tail] \in Tasks
  /\ TakeAndReturn(Link[tail], Link[tail])
  /\ UNCHANGED <<head, Link, producers, lPrev, pool, phase, log, stubAt>>

PopFirst ==
  /\ PopBegin
  /\ tail # Stub
  /\ Link[tail] # NULL
  /\ TakeAndReturn(tail, Link[tail])
  /\ UNCHANGED <<head, Link, producers, lPrev, pool, phase, log, stubAt>>

PopLast ==
  /\ PopBegin
  /\ tail # Stub
  /\ Link[tail] = NULL
  /\ cPc' = "loadHead"
  /\ UNCHANGED <<memory, producers, lPrev, result, pool, phase, history>>

(* Tail == &Stub with a successor: step over it, then read ITS Next. *)
PopSkipStub ==
  /\ cPc = "idle"
  /\ phase # "gone"
  /\ tail = Stub
  /\ Link[Stub] # NULL
  /\ tail' = Link[Stub]
  /\ lTail' = Link[Stub]
  /\ cPc' = "skipped"
  /\ stubAt' = -1
  /\ gap' = (Empty \/ InFlight)
  /\ UNCHANGED <<head, Link, producers, lPrev, result, pool, phase, log, taken>>

PopAfterSkip ==
  /\ cPc = "skipped"
  /\ \/ /\ Link[lTail] # NULL
        /\ TakeAndReturn(lTail, Link[lTail])
     \/ /\ Link[lTail] = NULL
        /\ cPc' = "loadHead"
        /\ UNCHANGED <<tail, result, taken>>
  /\ UNCHANGED <<head, Link, producers, lTail, lPrev, pool, phase, log, stubAt, gap>>

(* Mutant: L_Tail is not compared with Head. *)
PopLoadHead_NoCompare ==
  /\ cPc = "loadHead"
  /\ cPc' = "clearStub"
  /\ UNCHANGED <<memory, producers, lTail, lPrev, result, pool, phase, history, gap>>

(* Not the last node: a Push is between its two halves, give up for now. *)
PopLoadHead ==
  /\ cPc = "loadHead"
  /\ \/ /\ lTail # head
        /\ Return(NULL)
     \/ /\ lTail = head
        /\ cPc' = "clearStub"
        /\ UNCHANGED result
  /\ UNCHANGED <<memory, producers, lTail, lPrev, pool, phase, history, gap>>

(* Stub.Next = nullptr *)
PopClearStub ==
  /\ cPc = "clearStub"
  /\ Link' = [Link EXCEPT ![Stub] = NULL]
  /\ cPc' = "exchangeStub"
  /\ UNCHANGED <<head, tail, producers, lTail, lPrev, result, pool, phase, history, gap>>

(* L_PrevNode = atomic_exchange(Head, &Stub) *)
PopExchangeStub ==
  /\ cPc = "exchangeStub"
  /\ lPrev' = head
  /\ head' = Stub
  /\ cPc' = "linkStub"
  /\ stubAt' = Len(log)
  /\ UNCHANGED <<tail, Link, producers, lTail, result, pool, phase, log, taken, gap>>

(* Mutant: the store to L_PrevNode->Next is missing. *)
PopLinkStub_NoStore ==
  /\ cPc = "linkStub"
  /\ cPc' = "readAgain"
  /\ UNCHANGED <<memory, producers, lTail, lPrev, result, pool, phase, history, gap>>

(* L_PrevNode->Next = &Stub *)
PopLinkStub ==
  /\ cPc = "linkStub"
  /\ Link' = [Link EXCEPT ![lPrev] = Stub]
  /\ cPc' = "readAgain"
  /\ UNCHANGED <<head, tail, producers, lTail, lPrev, result, pool, phase, history, gap>>

(* Mutant: the node after L_Tail is taken to be Stub, without reading it. *)
PopReadAgain_AssumesStub ==
  /\ cPc = "readAgain"
  /\ TakeAndReturn(lTail, Stub)
  /\ UNCHANGED <<head, Link, producers, lTail, lPrev, pool, phase, log, stubAt, gap>>

(* Mutant: Tail is not advanced. *)
PopReadAgain_KeepsTail ==
  /\ cPc = "readAgain"
  /\ Link[tail] # NULL
  /\ TakeAndReturn(lTail, tail)
  /\ UNCHANGED <<head, Link, producers, lTail, lPrev, pool, phase, log, stubAt, gap>>

(* L_Next = Tail->Next *)
PopReadAgain ==
  /\ cPc = "readAgain"
  /\ \/ /\ Link[tail] # NULL
        /\ TakeAndReturn(lTail, Link[tail])
     \/ /\ Link[tail] = NULL
        /\ Return(NULL)
        /\ UNCHANGED <<tail, taken>>
  /\ UNCHANGED <<head, Link, producers, lTail, lPrev, pool, phase, log, stubAt, gap>>

(***************************************************************************)
(* What the two callers of Pop do with the result: execute the task and    *)
(* Destroy(true) it, which gives the block back; on null, Flush asks again *)
(* and ~TaskQueue is done.                                                 *)
(***************************************************************************)
DestroyTask ==
  /\ cPc = "returned"
  /\ result # NULL
  /\ pool' = pool \union {result}
  /\ result' = NULL
  /\ cPc' = "idle"
  /\ UNCHANGED <<memory, producers, lTail, lPrev, phase, history, gap>>

NothingPopped ==
  /\ cPc = "returned"
  /\ result = NULL
  /\ cPc' = "idle"
  /\ phase' = IF phase = "draining" THEN "gone" ELSE phase
  /\ UNCHANGED <<memory, producers, lTail, lPrev, result, pool, history, gap>>

(* Mutant: a producer may still be inside Push. *)
BeginDestructor_WhilePushing ==
  /\ phase = "live"
  /\ cPc = "idle"
  /\ phase' = "draining"
  /\ UNCHANGED <<memory, producers, consumer, pool, history, gap>>

(* ~TaskQueue: its owner is destroyed, so nobody is inside Push or Pop. *)
BeginDestructor ==
  /\ phase = "live"
  /\ cPc = "idle"
  /\ \A p \in Producers : pPc[p] = "idle"
  /\ phase' = "draining"
  /\ UNCHANGED <<memory, producers, consumer, pool, history, gap>>

-----------------------------------------------------------------------------
Push(p) == Make(p) \/ PushExchange(p) \/ PushLink(p)

Pop ==
  \/ PopEmpty \/ PopFirst \/ PopLast
  \/ PopSkipStub \/ PopAfterSkip
  \/ PopLoadHead \/ PopClearStub \/ PopExchangeStub \/ PopLinkStub \/ PopReadAgain

Consume == Pop \/ DestroyTask \/ NothingPopped

Next ==
  \/ \E p \in Producers : Push(p)
  \/ Consume
  \/ BeginDestructor

Spec == Init /\ [][Next]_vars

(* Threads are scheduled: a Push that took its place finishes, and the     *)
(* consumer keeps calling Pop (Flush loops until its count reaches zero).  *)
Fairness ==
  /\ \A p \in Producers : WF_vars(PushExchange(p) \/ PushLink(p))
  /\ WF_vars(Consume)

FairSpec == Spec /\ Fairness

-----------------------------------------------------------------------------
(***************************************************************************)
(* Properties.                                                             *)
(***************************************************************************)

Live == taken + 1 .. Len(log)       (* positions pushed and not yet popped *)

LiveTasks == {log[i] : i \in Live}

ConsumerPcs == {"idle", "skipped", "loadHead", "clearStub", "exchangeStub",
                "linkStub", "readAgain", "returned"}

TypeOK ==
  /\ head \in Nodes
  /\ tail \in Nodes
  /\ Link \in [Nodes -> Nodes \union {NULL}]
  /\ pPc \in [Producers -> {"idle", "exchange", "link"}]
  /\ pTask \in [Producers -> Tasks \union {NULL}]
  /\ pPrev \in [Producers -> Nodes \union {NULL}]
  /\ cPc \in ConsumerPcs
  /\ lTail \in Nodes \union {NULL}
  /\ lPrev \in Nodes \union {NULL}
  /\ result \in Tasks \union {NULL}
  /\ pool \in SUBSET Tasks
  /\ phase \in {"live", "draining", "gone"}
  /\ log \in Seq(Tasks)
  /\ taken \in 0 .. Len(log)
  /\ stubAt \in -1 .. Len(log)
  /\ gap \in BOOLEAN

(* The node after log[i] in push order, Stub counted where it was pushed. *)
After(i) ==
  IF stubAt = i THEN Stub
  ELSE IF i < Len(log) THEN log[i + 1] ELSE NULL

(* The node after Stub, when Stub is in the queue. *)
AfterStub == IF stubAt < Len(log) THEN log[stubAt + 1] ELSE NULL

(* Somebody has exchanged Head and owes the link from n to m. *)
Owes(n, m) ==
  \/ \E p \in Producers : pPc[p] = "link" /\ pPrev[p] = n /\ pTask[p] = m
  \/ cPc = "linkStub" /\ lPrev = n /\ m = Stub

(* A node's Next is its successor in push order, or null as long as the    *)
(* thread that pushed the successor still owes the store.                  *)
LinkedOrOwed(n, m) ==
  \/ Link[n] = m
  \/ Link[n] = NULL /\ Owes(n, m)

(* The walk from Tail to Head meets the pushed tasks in the order of their *)
(* exchanges, Stub at its own place, with no link missing but the owed.    *)
Chain ==
  /\ head = IF stubAt = Len(log) THEN Stub ELSE log[Len(log)]
  /\ tail = IF stubAt = taken THEN Stub ELSE log[taken + 1]
  /\ stubAt = -1 => taken < Len(log)
  /\ stubAt # -1 => stubAt >= taken /\ LinkedOrOwed(Stub, AfterStub)
  /\ \A i \in Live : LinkedOrOwed(log[i], After(i))

(* A node is in one place: pooled, being pushed by one producer, in the    *)
(* queue once, or in the consumer's hand.  Nodes are reused, so a node     *)
(* destroyed too early would show up twice.                                *)
OneOwner ==
  /\ \A i, j \in Live : log[i] = log[j] => i = j
  /\ pool \intersect LiveTasks = {}
  /\ \A p \in Producers : pPc[p] = "exchange" =>
       /\ pTask[p] \in Tasks
       /\ Link[pTask[p]] = NULL
       /\ pTask[p] \notin pool \union LiveTasks
  /\ \A p, q \in Producers :
       p # q /\ pPc[p] # "idle" /\ pPc[q] # "idle" => pTask[p] # pTask[q]
  /\ result # NULL =>
       /\ cPc = "returned"
       /\ result \notin pool \union LiveTasks
       /\ \A p \in Producers : pPc[p] = "exchange" => pTask[p] # result

(* The node before log[i] in push order. *)
Before(i) == IF stubAt = i - 1 THEN Stub ELSE log[i - 1]

(* The node a thread is about to write a link into is still in the queue,  *)
(* directly before the node it pushed, and nobody has linked it yet: the   *)
(* consumer never hands out (and so never frees) a node under a producer.  *)
NoLinkIntoFreedNode ==
  /\ \A p \in Producers : pPc[p] = "link" =>
       \E i \in Live :
         /\ stubAt = i - 1 \/ i - 1 \in Live
         /\ pTask[p] = log[i]
         /\ pPrev[p] = Before(i)
         /\ Link[pPrev[p]] = NULL
  /\ cPc = "linkStub" =>
       /\ stubAt \in Live
       /\ lPrev = log[stubAt]
       /\ Link[lPrev] = NULL

(* Pop returns null only if, at some moment of this very Pop, the queue    *)
(* was empty or a Push had taken its place without being linked: a task    *)
(* whose Push was over before Pop began is not overlooked.                 *)
EmptyPopJustified == cPc = "returned" /\ result = NULL => gap

(* ~TaskQueue stops at the first null; by then every task was destroyed.   *)
DestructorLeavesNothing == phase = "gone" => Empty /\ pool = Tasks

(***************************************************************************)
(* What makes the above inductive: what the consumer knows in the middle   *)
(* of Pop, what it may conclude from a null, and what ~TaskQueue relies on.*)
(***************************************************************************)
MidPop == {"skipped", "loadHead", "clearStub", "exchangeStub", "linkStub", "readAgain"}

PopState ==
  /\ cPc \in MidPop =>
       /\ ~ Empty
       /\ lTail = tail
       /\ tail = log[taken + 1]
       /\ stubAt # taken
  /\ cPc \in {"skipped", "clearStub", "exchangeStub"} => stubAt = -1
  /\ cPc = "exchangeStub" => Link[Stub] = NULL
  /\ cPc \in {"linkStub", "readAgain"} => stubAt \in Live

GapState ==
  /\ cPc \in MidPop /\ InFlight => gap
  /\ cPc = "loadHead" /\ lTail # head => gap
  /\ cPc \in {"clearStub", "exchangeStub", "linkStub", "readAgain"} =>
       gap \/ Len(log) = taken + 1
  /\ cPc \in {"linkStub", "readAgain"} => gap \/ stubAt = Len(log)
  /\ EmptyPopJustified

DrainState ==
  /\ phase # "live" =>
       /\ \A p \in Producers : pPc[p] = "idle"
       /\ cPc # "idle" /\ gap => Empty
  /\ phase = "gone" => Empty /\ cPc = "idle"
  /\ \A t \in Tasks :
       \/ t \in pool
       \/ t \in LiveTasks
       \/ t = result
       \/ \E p \in Producers : pPc[p] = "exchange" /\ pTask[p] = t

IInv ==
  /\ TypeOK
  /\ Chain
  /\ OneOwner
  /\ NoLinkIntoFreedNode
  /\ PopState
  /\ GapState
  /\ DrainState

(* TaskQueue implements the first-in first-out queue of TaskFifo, a push   *)
(* taking effect at its exchange and a pop when it returns.                *)
Fifo == INSTANCE TaskFifo WITH
          queue <- SubSeq(log, taken + 1, Len(log)),
          hand  <- result

FifoSafety == Fifo!Safety

(* ... and a pushed task is always reached.                                *)
FifoSpec == Fifo!Spec
=============================================================================
