-------------------------- MODULE TaskQueueProofs --------------------------
(***************************************************************************)
(* For any number of producers, nodes and pushes: TaskQueue keeps IInv,    *)
(* hence its type, its linked structure, the ownership of its nodes, the   *)
(* safety of a producer's late store, the meaning of a null and the        *)
(* emptiness of a destroyed queue; and it implements the safety part of    *)
(* the abstract queue TaskFifo.                                            *)
(***************************************************************************)
EXTENDS TaskQueue, SequenceTheorems, TLAPS

USE NodeAssumption DEF Nodes

-----------------------------------------------------------------------------
(* Sequences: appending, and the window of a log behind a position. *)

LEMMA Appended ==
  ASSUME NEW S, NEW s \in Seq(S), NEW x \in S
  PROVE  /\ Append(s, x) \in Seq(S)
         /\ Len(Append(s, x)) = Len(s) + 1
         /\ Append(s, x)[Len(s) + 1] = x
         /\ \A i \in 1 .. Len(s) : Append(s, x)[i] = s[i]
  OBVIOUS

(* Appending to the log appends to the window. *)
LEMMA SubSeqAppend ==
  ASSUME NEW S, NEW s \in Seq(S), NEW x \in S, NEW k \in 0 .. Len(s)
  PROVE  SubSeq(Append(s, x), k + 1, Len(s) + 1) = Append(SubSeq(s, k + 1, Len(s)), x)
<1> DEFINE a == SubSeq(Append(s, x), k + 1, Len(s) + 1)
           b == Append(SubSeq(s, k + 1, Len(s)), x)
<1>1. a \in Seq(S) /\ Len(a) = Len(s) + 1 - k /\ \A i \in 1 .. Len(s) + 1 - k : a[i] = Append(s, x)[k + i]
  OBVIOUS
<1>2. b \in Seq(S) /\ Len(b) = Len(s) + 1 - k /\ \A i \in 1 .. Len(s) + 1 - k : b[i] = IF i = Len(s) + 1 - k THEN x ELSE s[k + i]
  OBVIOUS
<1>3. \A i \in 1 .. Len(s) + 1 - k : a[i] = b[i]
  BY <1>1, <1>2
<1> HIDE DEF a, b
<1>4. a = b
  BY <1>1, <1>2, <1>3, SeqEqual
<1> QED BY <1>4 DEF a, b

(* Moving the position by one takes the head off the window. *)
LEMMA SubSeqTail ==
  ASSUME NEW S, NEW s \in Seq(S), NEW k \in 0 .. Len(s), k < Len(s)
  PROVE  /\ SubSeq(s, k + 1, Len(s)) # <<>>
         /\ Head(SubSeq(s, k + 1, Len(s))) = s[k + 1]
         /\ Tail(SubSeq(s, k + 1, Len(s))) = SubSeq(s, k + 2, Len(s))
<1> DEFINE q == SubSeq(s, k + 1, Len(s))
           r == SubSeq(s, k + 2, Len(s))
<1>1. q \in Seq(S) /\ Len(q) = Len(s) - k /\ \A i \in 1 .. Len(q) : q[i] = s[k + i]
  OBVIOUS
<1>2. r \in Seq(S) /\ Len(r) = Len(s) - k - 1 /\ \A i \in 1 .. Len(r) : r[i] = s[k + 1 + i]
  OBVIOUS
<1> HIDE DEF q, r
<1>3. q # <<>> /\ Head(q) = s[k + 1]
  BY <1>1
<1>4. Tail(q) \in Seq(S) /\ Len(Tail(q)) = Len(q) - 1 /\ \A i \in 1 .. Len(Tail(q)) : Tail(q)[i] = q[i + 1]
  BY <1>1, <1>3
<1>5. Tail(q) = r
  <2>1. Len(Tail(q)) = Len(r)
    BY <1>1, <1>2, <1>4
  <2>2. \A i \in 1 .. Len(Tail(q)) : Tail(q)[i] = r[i]
    BY <1>1, <1>2, <1>4
  <2> QED
    BY <1>2, <1>4, <2>1, <2>2, SeqEqual, Zenon
<1> QED BY <1>3, <1>5 DEF q, r

-----------------------------------------------------------------------------
(* The invariant holds initially and every step preserves it. *)

LEMMA InitEstablishesIInv == Init => IInv
  BY DEF Init, IInv, TypeOK, Chain, OneOwner, NoLinkIntoFreedNode, PopState,
     GapState, DrainState, LinkedOrOwed, AfterStub, Live, LiveTasks,
     Empty, EmptyPopJustified, ConsumerPcs, MidPop

(* The log grows at its end: the old head owes a link to the new one. *)
LEMMA PushExchangeStep ==
  ASSUME IInv, NEW p \in Producers, PushExchange(p)
  PROVE  IInv'
<1>1. pTask[p] \in Tasks
  BY DEF IInv, OneOwner, PushExchange
<1>2. /\ log' \in Seq(Tasks)
      /\ Len(log') = Len(log) + 1
      /\ log'[Len(log) + 1] = pTask[p]
      /\ \A i \in 1 .. Len(log) : log'[i] = log[i]
  BY <1>1, Appended DEF IInv, TypeOK, PushExchange
<1>3. TypeOK'
  <2>1. gap' \in BOOLEAN
    BY DEF PushExchange
  <2> QED
   BY <1>1, <1>2, <2>1 DEF IInv, TypeOK, PushExchange, consumer, ConsumerPcs
<1>4. Chain'
  <2>0. /\ pPrev' = [pPrev EXCEPT ![p] = head]
        /\ head' = pTask[p]
        /\ pPc' = [pPc EXCEPT ![p] = "link"]
        /\ pPc[p] = "exchange" /\ Link[pTask[p]] = NULL
        /\ UNCHANGED <<tail, Link, pTask, cPc, lTail, lPrev, taken, stubAt>>
        /\ Link \in [Nodes -> Nodes \union {NULL}]
        /\ Len(log) \in Nat /\ taken \in 0 .. Len(log) /\ stubAt \in -1 .. Len(log)
        /\ pPc \in [Producers -> {"idle", "exchange", "link"}]
        /\ pTask \in [Producers -> Tasks \union {NULL}]
        /\ pPrev \in [Producers -> Nodes \union {NULL}]
        /\ \A i \in 1 .. Len(log) : log[i] \in Tasks
    BY DEF IInv, TypeOK, OneOwner, PushExchange, consumer
  <2>1. head' = IF stubAt' = Len(log') THEN Stub ELSE log'[Len(log')]
    BY <2>0, <1>2
  <2>2. tail' = IF stubAt' = taken' THEN Stub ELSE log'[taken' + 1]
    BY <2>0, <1>2 DEF IInv, Chain
  <2>3. \A n, m : LinkedOrOwed(n, m) => LinkedOrOwed(n, m)'
    BY <2>0 DEF LinkedOrOwed, Owes
  <2>4. Link[head] = NULL
    BY <2>0 DEF IInv, Chain, LinkedOrOwed, Owes, After, AfterStub, Live
  <2>6. \A n : n = head => LinkedOrOwed(n, pTask[p])'
    BY <2>0, <2>4 DEF LinkedOrOwed, Owes
  <2>7. ASSUME stubAt' # -1 PROVE stubAt' >= taken' /\ LinkedOrOwed(Stub, AfterStub)'
    <3>1. CASE stubAt = Len(log)
      <4>1. head = Stub /\ AfterStub' = pTask'[p]
        BY <3>1, <2>0, <1>2 DEF IInv, Chain, AfterStub
      <4> QED
      BY <4>1, <2>0, <2>6, <2>7 DEF IInv, Chain, LinkedOrOwed, Owes
    <3>2. CASE stubAt < Len(log)
      <4>1. AfterStub' = AfterStub
        BY <3>2, <2>0, <1>2, <2>7 DEF AfterStub
      <4> QED
      BY <4>1, <2>0, <2>3, <2>7 DEF IInv, Chain
    <3> QED
      BY <3>1, <3>2, <2>0
  <2>8. ASSUME NEW i \in Live' PROVE LinkedOrOwed(log[i], After(i))'
    <3>1. CASE i = Len(log) + 1
      <4>1. After(i)' = NULL /\ log'[i] = pTask[p]
        BY <3>1, <2>0, <1>2 DEF After
      <4> QED
      BY <4>1, <2>0 DEF LinkedOrOwed
    <3>2. CASE i = Len(log) /\ stubAt # i
      <4>1. After(i)' = pTask'[p] /\ log'[i] = head
        BY <3>2, <2>0, <1>2, <2>8 DEF After, IInv, Chain, Live
      <4> QED
      BY <4>1, <2>0, <2>6 DEF LinkedOrOwed, Owes
    <3>3. CASE i < Len(log) \/ (i = Len(log) /\ stubAt = i)
      <4>1. After(i)' = After(i) /\ log'[i] = log[i] /\ i \in Live
        BY <3>3, <2>0, <1>2, <2>8 DEF After, Live
      <4> QED
      BY <4>1, <2>0, <2>3 DEF IInv, Chain
    <3> QED
      BY <3>1, <3>2, <3>3, <2>0, <1>2, <2>8 DEF Live
  <2> QED
      BY <2>0, <1>2, <2>1, <2>2, <2>7, <2>8 DEF Chain, IInv
<1>5. OneOwner'
  BY SMTT(20) DEF IInv, TypeOK, PushExchange, memory, producers, consumer,
     history, OneOwner, Live, LiveTasks, Chain, PopState, Empty, MidPop
<1>6. NoLinkIntoFreedNode'
  <2>1. /\ Link[head] = NULL
        /\ stubAt = Len(log) => head = Stub
        /\ stubAt # Len(log) => Len(log) \in Live /\ head = log[Len(log)]
    BY DEF IInv, TypeOK, Chain, LinkedOrOwed, Owes, After, AfterStub, Live, PushExchange
  <2>2. \A i \in Live : i \in Live' /\ log'[i] = log[i]
    BY <1>2 DEF IInv, TypeOK, Live, PushExchange
  <2>3. ASSUME NEW q \in Producers, pPc'[q] = "link"
        PROVE  \E i \in Live' :
                 /\ stubAt' = i - 1 \/ i - 1 \in Live'
                 /\ pTask'[q] = log'[i]
                 /\ pPrev'[q] = (IF stubAt' = i - 1 THEN Stub ELSE log'[i - 1])
                 /\ Link'[pPrev'[q]] = NULL
    <3>1. CASE q = p
      <4>1. Len(log) + 1 \in Live'
        BY <1>2 DEF IInv, TypeOK, Live, PushExchange
      <4>2. pTask'[q] = log'[Len(log) + 1] /\ pPrev'[q] = head /\ Link' = Link
        BY <3>1, <1>2 DEF IInv, TypeOK, PushExchange
      <4>3. (Len(log) + 1) - 1 = Len(log) /\ stubAt' = stubAt
        BY DEF IInv, TypeOK, PushExchange
      <4>4. \/ stubAt' = Len(log) /\ head = Stub
            \/ stubAt' # Len(log) /\ Len(log) \in Live' /\ head = log'[Len(log)]
        BY <4>3, <2>1, <2>2
      <4> QED
        BY <4>1, <4>2, <4>3, <4>4, <2>1
    <3>2. CASE q # p
      <4>1. pPc[q] = "link" /\ pTask'[q] = pTask[q] /\ pPrev'[q] = pPrev[q] /\ Link' = Link
        BY <3>2, <2>3 DEF IInv, TypeOK, PushExchange
      <4>2. PICK i \in Live : /\ stubAt = i - 1 \/ i - 1 \in Live
                              /\ pTask[q] = log[i]
                              /\ pPrev[q] = Before(i)
                              /\ Link[pPrev[q]] = NULL
        BY <4>1 DEF IInv, NoLinkIntoFreedNode
      <4> QED
        BY <4>1, <4>2, <2>2 DEF Before, PushExchange
    <3> QED
      BY <3>1, <3>2
  <2>4. cPc' = "linkStub" => stubAt' \in Live' /\ lPrev' = log'[stubAt'] /\ Link'[lPrev'] = NULL
    BY <2>2 DEF IInv, NoLinkIntoFreedNode, PushExchange, consumer
  <2> QED
    BY <2>3, <2>4 DEF NoLinkIntoFreedNode, Before
<1>7. PopState'
  BY SMTT(20) DEF IInv, TypeOK, PushExchange, memory, producers, consumer,
     history, PopState, MidPop, Empty, Live, Chain, OneOwner, After,
     AfterStub, LinkedOrOwed, Owes
<1>8. GapState'
  BY SMTT(20) DEF IInv, TypeOK, PushExchange, memory, producers, consumer,
     history, GapState, MidPop, Empty, InFlight, EmptyPopJustified, PopState,
     Chain, LinkedOrOwed, Owes, After, AfterStub, Live, DrainState
<1>9. DrainState'
  BY SMTT(20) DEF IInv, TypeOK, PushExchange, memory, producers, consumer,
     history, DrainState, Empty, LiveTasks, Live, GapState,
     EmptyPopJustified, InFlight, PopState, MidPop, Chain, OneOwner,
     LinkedOrOwed, After, AfterStub
<1> QED
  BY <1>3, <1>4, <1>5, <1>6, <1>7, <1>8, <1>9 DEF IInv

(* The owed link is paid; nobody else owes the same one. *)
LEMMA PushLinkStep ==
  ASSUME IInv, NEW p \in Producers, PushLink(p)
  PROVE  IInv'
<1>1. PICK i \in Live : /\ stubAt = i - 1 \/ i - 1 \in Live
                        /\ pTask[p] = log[i]
                        /\ pPrev[p] = Before(i)
                        /\ Link[pPrev[p]] = NULL
  BY DEF IInv, NoLinkIntoFreedNode, PushLink
<1>2. pTask[p] \in Tasks /\ pPrev[p] \in Nodes
  BY <1>1 DEF IInv, TypeOK, Live, Before
<1>3. TypeOK'
  <2>1. gap' \in BOOLEAN
    BY DEF IInv, TypeOK, PushLink
  <2> QED
    BY <1>2, <2>1 DEF IInv, TypeOK, PushLink, consumer, history, ConsumerPcs
<1>4. OneOwner'
  BY <1>1, <1>2, SMTT(30) DEF IInv, TypeOK, PushLink, consumer, history, OneOwner, Live, LiveTasks, Before
<1>5. NoLinkIntoFreedNode'
  BY <1>1, <1>2, SMTT(30) DEF IInv, TypeOK, PushLink, consumer, history, NoLinkIntoFreedNode, OneOwner, Live, LiveTasks, Before, PopState
<1>6. PopState'
  BY <1>1, <1>2, SMTT(30) DEF IInv, TypeOK, PushLink, consumer, history, PopState, MidPop, Live, LiveTasks, Before, Empty
<1>7. Chain'
  BY SMTT(20) DEF IInv, TypeOK, PushLink, memory, producers, consumer,
     history, Chain, LinkedOrOwed, Owes, After, AfterStub, Live, OneOwner,
     LiveTasks, NoLinkIntoFreedNode, PopState, Before, Empty, MidPop
<1>8. GapState'
  BY SMTT(20) DEF IInv, TypeOK, PushLink, memory, producers, consumer,
     history, GapState, MidPop, Empty, InFlight, EmptyPopJustified, PopState,
     Chain, LinkedOrOwed, Owes, After, AfterStub, Live, DrainState
<1>9. DrainState'
  BY SMTT(20) DEF IInv, TypeOK, PushLink, memory, producers, consumer,
     history, DrainState, Empty, LiveTasks, Live, GapState,
     EmptyPopJustified, InFlight, PopState, MidPop, Chain, OneOwner,
     LinkedOrOwed, After, AfterStub
<1> QED
  BY <1>3, <1>4, <1>5, <1>6, <1>7, <1>8, <1>9 DEF IInv

(* Stub's predecessor is the last task the consumer knows of. *)
LEMMA PopLinkStubStep ==
  ASSUME IInv, PopLinkStub
  PROVE  IInv'
<1>2. lPrev \in Tasks /\ lPrev \in LiveTasks
  BY DEF IInv, TypeOK, PopLinkStub, NoLinkIntoFreedNode, LiveTasks, Live
<1>3. TypeOK'
  <2>1. gap' \in BOOLEAN
    BY DEF IInv, TypeOK, PopLinkStub
  <2> QED
    BY <1>2, <2>1 DEF IInv, TypeOK, PopLinkStub, producers, history, ConsumerPcs
<1>4. OneOwner'
  BY <1>2, SMTT(30) DEF IInv, TypeOK, PopLinkStub, producers, history, OneOwner, Live, LiveTasks
<1>5. Chain'
  BY SMTT(20) DEF IInv, TypeOK, PopLinkStub, memory, producers, consumer,
     history, Chain, LinkedOrOwed, Owes, After, AfterStub, Live, OneOwner,
     LiveTasks, NoLinkIntoFreedNode, PopState, Before, Empty, MidPop
<1>6. NoLinkIntoFreedNode'
  BY SMTT(20) DEF IInv, TypeOK, PopLinkStub, memory, producers, consumer,
     history, NoLinkIntoFreedNode, Before, Live, LiveTasks, Chain, OneOwner,
     After, AfterStub, LinkedOrOwed, Owes, PopState, Empty, MidPop
<1>7. PopState'
  BY SMTT(20) DEF IInv, TypeOK, PopLinkStub, memory, producers, consumer,
     history, PopState, MidPop, Empty, Live, Chain, OneOwner, After,
     AfterStub, LinkedOrOwed, Owes
<1>8. GapState'
  BY SMTT(20) DEF IInv, TypeOK, PopLinkStub, memory, producers, consumer,
     history, GapState, MidPop, Empty, InFlight, EmptyPopJustified, PopState,
     Chain, LinkedOrOwed, Owes, After, AfterStub, Live, DrainState
<1>9. DrainState'
  BY SMTT(20) DEF IInv, TypeOK, PopLinkStub, memory, producers, consumer,
     history, DrainState, Empty, LiveTasks, Live, GapState,
     EmptyPopJustified, InFlight, PopState, MidPop, Chain, OneOwner,
     LinkedOrOwed, After, AfterStub
<1> QED
  BY <1>3, <1>4, <1>5, <1>6, <1>7, <1>8, <1>9 DEF IInv

(***************************************************************************)
(* The other steps change few variables each; all parts of IInv are in     *)
(* view while they are dealt with.                                         *)
(***************************************************************************)
USE DEF IInv, TypeOK, ConsumerPcs, Chain, LinkedOrOwed, Owes, After,
        AfterStub, Before, Live, LiveTasks, OneOwner, NoLinkIntoFreedNode,
        PopState, MidPop, Empty, GapState, DrainState, InFlight,
        EmptyPopJustified, memory, producers, consumer, history

(* A node leaves the pool; it is in nobody's chain, so resetting its link breaks none. *)
LEMMA MakeStep ==
  ASSUME IInv, NEW p \in Producers, Make(p)
  PROVE  IInv'
<1>1. TypeOK' /\ PopState'
  BY SMTT(30) DEF Make
<1>2. Chain'
  BY SMTT(30) DEF Make
<1>3. OneOwner' /\ NoLinkIntoFreedNode'
  BY SMTT(30) DEF Make
<1>4. GapState'
  BY DEF Make
<1>5. DrainState'
  BY SMTT(30) DEF Make
<1> QED
  BY <1>1, <1>2, <1>3, <1>4, <1>5

(* Only Stub, and nothing linked behind it. *)
LEMMA PopEmptyStep ==
  ASSUME IInv, PopEmpty
  PROVE  IInv'
<1>1. TypeOK' /\ Chain' /\ PopState'
  BY DEF PopEmpty, PopBegin, Return
<1>5. OneOwner' /\ NoLinkIntoFreedNode'
  BY DEF PopEmpty, PopBegin, Return
<1>2. gap' <=> Empty \/ InFlight
  BY DEF PopEmpty, PopBegin
<1>3. /\ cPc = "idle" /\ phase # "gone"
      /\ tail = Stub /\ Link[Stub] = NULL
      /\ cPc' = "returned" /\ result' = NULL
      /\ UNCHANGED <<head, tail, Link, pPc, pTask, pPrev, pool, phase, log, taken, stubAt>>
  BY DEF PopEmpty, PopBegin, Return
<1>4. GapState'
  BY <1>2, <1>3, SMTT(30)
<1>6. DrainState'
  BY <1>2, <1>3, SMTT(30)
<1> QED
  BY <1>1, <1>4, <1>5, <1>6

(* The common case: the successor is linked. *)
LEMMA PopFirstStep ==
  ASSUME IInv, PopFirst
  PROVE  IInv'
<1>1. TypeOK' /\ Chain' /\ OneOwner' /\ NoLinkIntoFreedNode' /\ PopState'
  BY SMTT(40) DEF PopFirst, PopBegin, Return, TakeAndReturn
<1>2. gap' <=> Empty \/ InFlight
  BY DEF PopFirst, PopBegin
<1>3. /\ cPc = "idle" /\ phase # "gone"
      /\ tail # Stub /\ Link[tail] # NULL
      /\ cPc' = "returned" /\ result' = tail /\ tail' = Link[tail] /\ taken' = taken + 1
      /\ UNCHANGED <<head, Link, pPc, pTask, pPrev, pool, phase, log, stubAt>>
  BY DEF PopFirst, PopBegin, Return, TakeAndReturn
<1>4. GapState' /\ DrainState'
  BY <1>2, <1>3, SMTT(30)
<1> QED
  BY <1>1, <1>4

(* The first node has no successor yet. *)
LEMMA PopLastStep ==
  ASSUME IInv, PopLast
  PROVE  IInv'
<1>1. TypeOK' /\ Chain' /\ OneOwner' /\ NoLinkIntoFreedNode' /\ PopState'
  BY SMTT(40) DEF PopLast, PopBegin
<1>2. gap' <=> Empty \/ InFlight
  BY DEF PopLast, PopBegin
<1>3. /\ cPc = "idle" /\ phase # "gone"
      /\ tail # Stub /\ Link[tail] = NULL
      /\ cPc' = "loadHead" /\ lTail' = tail
      /\ UNCHANGED <<head, tail, Link, pPc, pTask, pPrev, result, pool, phase, log, taken, stubAt>>
  BY DEF PopLast, PopBegin
<1>4. GapState' /\ DrainState'
  BY <1>2, <1>3, SMTT(30)
<1> QED
  BY <1>1, <1>4

(* Stub leaves the queue. *)
LEMMA PopSkipStubStep ==
  ASSUME IInv, PopSkipStub
  PROVE  IInv'
<1>1. TypeOK' /\ Chain' /\ OneOwner' /\ NoLinkIntoFreedNode' /\ PopState'
  BY SMTT(40) DEF PopSkipStub
<1>2. gap' <=> Empty \/ InFlight
  BY DEF PopSkipStub
<1>3. /\ cPc = "idle" /\ phase # "gone"
      /\ tail = Stub /\ Link[Stub] # NULL
      /\ cPc' = "skipped" /\ lTail' = Link[Stub] /\ tail' = Link[Stub] /\ stubAt' = -1
      /\ UNCHANGED <<head, Link, pPc, pTask, pPrev, result, pool, phase, log, taken>>
  BY DEF PopSkipStub
<1>4. GapState' /\ DrainState'
  BY <1>2, <1>3, SMTT(30)
<1> QED
  BY <1>1, <1>4

(* The second read of Next inside one Pop. *)
LEMMA PopAfterSkipStep ==
  ASSUME IInv, PopAfterSkip
  PROVE  IInv'
<1>1. TypeOK' /\ PopState'
  BY SMTT(30) DEF PopAfterSkip, Return, TakeAndReturn
<1>2. Chain'
  BY SMTT(30) DEF PopAfterSkip, Return, TakeAndReturn
<1>3. OneOwner' /\ NoLinkIntoFreedNode'
  BY SMTT(30) DEF PopAfterSkip, Return, TakeAndReturn
<1>4. GapState' /\ DrainState'
  BY SMTT(30) DEF PopAfterSkip, Return, TakeAndReturn
<1> QED
  BY <1>1, <1>2, <1>3, <1>4

(* If the tail node is the head, Stub is outside and the node is alone. *)
LEMMA PopLoadHeadStep ==
  ASSUME IInv, PopLoadHead
  PROVE  IInv'
<1>1. TypeOK' /\ Chain' /\ OneOwner' /\ NoLinkIntoFreedNode' /\ PopState'
  BY SMTT(40) DEF PopLoadHead, Return
<1>2. GapState' /\ DrainState'
  BY SMTT(40) DEF PopLoadHead, Return
<1> QED
  BY <1>1, <1>2

(* Stub is outside the queue, so its link belongs to nobody. *)
LEMMA PopClearStubStep ==
  ASSUME IInv, PopClearStub
  PROVE  IInv'
<1>1. TypeOK' /\ Chain' /\ OneOwner' /\ NoLinkIntoFreedNode' /\ PopState'
  BY SMTT(40) DEF PopClearStub
<1>2. GapState' /\ DrainState'
  BY SMTT(40) DEF PopClearStub
<1> QED
  BY <1>1, <1>2

(* Stub takes its place behind everything pushed so far. *)
LEMMA PopExchangeStubStep ==
  ASSUME IInv, PopExchangeStub
  PROVE  IInv'
<1>1. TypeOK' /\ Chain' /\ OneOwner' /\ NoLinkIntoFreedNode' /\ PopState'
  BY SMTT(40) DEF PopExchangeStub
<1>2. GapState' /\ DrainState'
  BY SMTT(40) DEF PopExchangeStub
<1> QED
  BY <1>1, <1>2

(* A null here means that a Push overtook Stub. *)
LEMMA PopReadAgainStep ==
  ASSUME IInv, PopReadAgain
  PROVE  IInv'
<1>1. TypeOK' /\ PopState'
  BY SMTT(30) DEF PopReadAgain, Return, TakeAndReturn
<1>2. Chain'
  BY SMTT(30) DEF PopReadAgain, Return, TakeAndReturn
<1>3. OneOwner' /\ NoLinkIntoFreedNode'
  BY SMTT(30) DEF PopReadAgain, Return, TakeAndReturn
<1>4. GapState' /\ DrainState'
  BY SMTT(30) DEF PopReadAgain, Return, TakeAndReturn
<1> QED
  BY <1>1, <1>2, <1>3, <1>4

(* The executed task goes back to the pool. *)
LEMMA DestroyTaskStep ==
  ASSUME IInv, DestroyTask
  PROVE  IInv'
<1>1. TypeOK' /\ Chain' /\ OneOwner' /\ NoLinkIntoFreedNode' /\ PopState'
  BY SMTT(40) DEF DestroyTask
<1>2. GapState' /\ DrainState'
  BY SMTT(40) DEF DestroyTask
<1> QED
  BY <1>1, <1>2

(* A null ends the destructor. *)
LEMMA NothingPoppedStep ==
  ASSUME IInv, NothingPopped
  PROVE  IInv'
<1>1. TypeOK' /\ Chain' /\ OneOwner' /\ NoLinkIntoFreedNode' /\ PopState'
  BY SMTT(40) DEF NothingPopped
<1>2. GapState' /\ DrainState'
  BY SMTT(40) DEF NothingPopped
<1> QED
  BY <1>1, <1>2

(* The destructor starts with nobody inside. *)
LEMMA BeginDestructorStep ==
  ASSUME IInv, BeginDestructor
  PROVE  IInv'
<1>1. TypeOK' /\ Chain' /\ OneOwner' /\ NoLinkIntoFreedNode' /\ PopState'
  BY SMTT(40) DEF BeginDestructor
<1>2. GapState' /\ DrainState'
  BY SMTT(40) DEF BeginDestructor
<1> QED
  BY <1>1, <1>2

(* A step of the environment. *)
LEMMA StutterStep ==
  ASSUME IInv, UNCHANGED vars
  PROVE  IInv'
<1>1. TypeOK' /\ Chain'
  BY DEF vars
<1>2. OneOwner' /\ NoLinkIntoFreedNode'
  BY SMTT(30) DEF vars
<1>3. PopState' /\ GapState'
  BY DEF vars
<1>4. DrainState'
  BY DEF vars
<1> QED
  BY <1>1, <1>2, <1>3, <1>4

HIDE DEF IInv, TypeOK, ConsumerPcs, Chain, LinkedOrOwed, Owes, After,
        AfterStub, Before, Live, LiveTasks, OneOwner, NoLinkIntoFreedNode,
        PopState, MidPop, Empty, GapState, DrainState, InFlight,
        EmptyPopJustified, memory, producers, consumer, history

LEMMA IInvPreserved == IInv /\ [Next]_vars => IInv'
<1> SUFFICES ASSUME IInv, [Next]_vars
             PROVE  IInv'
  OBVIOUS
<1>1. ASSUME NEW p \in Producers, Push(p)
      PROVE  IInv'
  BY <1>1, MakeStep, PushExchangeStep, PushLinkStep DEF Push
<1>2. CASE Pop
  BY <1>2, PopEmptyStep, PopFirstStep, PopLastStep, PopSkipStubStep,
     PopAfterSkipStep, PopLoadHeadStep, PopClearStubStep, PopExchangeStubStep,
     PopLinkStubStep, PopReadAgainStep DEF Pop
<1>3. CASE DestroyTask \/ NothingPopped \/ BeginDestructor
  BY <1>3, DestroyTaskStep, NothingPoppedStep, BeginDestructorStep
<1>4. CASE UNCHANGED vars
  BY <1>4, StutterStep
<1> QED
  BY <1>1, <1>2, <1>3, <1>4 DEF Next, Consume

(* The inductive invariant of the queue holds in every reachable state.    *)
THEOREM Invariance == Spec => []IInv
<1>1. Init => IInv
  BY InitEstablishesIInv
<1>2. IInv /\ [Next]_vars => IInv'
  BY IInvPreserved
<1> QED
  BY <1>1, <1>2, PTL DEF Spec

(* Every variable has its type; in particular Tail is never null.          *)
THEOREM TypeCorrect == Spec => []TypeOK
<1>1. IInv => TypeOK
  BY DEF IInv
<1> QED
  BY <1>1, Invariance, PTL

(* The producer between its exchange of Head and its store to              *)
(* PrevNode->Next writes into a node that is still in the queue.           *)
THEOREM LinksAreSafe == Spec => []NoLinkIntoFreedNode
<1>1. IInv => NoLinkIntoFreedNode
  BY DEF IInv
<1> QED
  BY <1>1, Invariance, PTL

(* A node is in one place at a time although its memory is reused.         *)
THEOREM NodesHaveOneOwner == Spec => []OneOwner
<1>1. IInv => OneOwner
  BY DEF IInv
<1> QED
  BY <1>1, Invariance, PTL

(* Pop does not overlook a task whose Push ended before Pop began.         *)
THEOREM NullIsJustified == Spec => []EmptyPopJustified
<1>1. IInv => EmptyPopJustified
  BY DEF IInv, GapState
<1> QED
  BY <1>1, Invariance, PTL

(* When ~TaskQueue returns, every task has been destroyed.                 *)
THEOREM DestructorDrains == Spec => []DestructorLeavesNothing
<1>1. IInv => DestructorLeavesNothing
  <2> SUFFICES ASSUME IInv, phase = "gone"
               PROVE  Empty /\ pool = Tasks
    BY DEF DestructorLeavesNothing
  <2>1. Empty /\ result = NULL /\ \A p \in Producers : pPc[p] = "idle"
    BY DEF IInv, DrainState, OneOwner
  <2>2. LiveTasks = {}
    BY <2>1 DEF Empty, LiveTasks, Live, IInv, TypeOK
  <2> QED
    BY <2>1, <2>2 DEF IInv, DrainState, TypeOK
<1> QED
  BY <1>1, Invariance, PTL

-----------------------------------------------------------------------------
(* Refinement: every step is a step of TaskFifo or leaves its queue and    *)
(* its hand alone.                                                         *)

LEMMA PushEnqueues ==
  ASSUME IInv, NEW p \in Producers, PushExchange(p)
  PROVE  Fifo!Enqueue
<1> DEFINE t == pTask[p]
           q == SubSeq(log, taken + 1, Len(log))
<1>1. /\ t \in Tasks /\ t # result /\ result' = result
      /\ t \notin LiveTasks
      /\ log' = Append(log, t) /\ taken' = taken
      /\ log \in Seq(Tasks) /\ taken \in 0 .. Len(log)
  BY DEF IInv, TypeOK, OneOwner, PushExchange, consumer
<1>2. ~ Fifo!Queued(t)
  BY <1>1 DEF Fifo!Queued, LiveTasks, Live
<1>3. Len(log') = Len(log) + 1
  BY <1>1, Appended
<1>4. SubSeq(log', taken' + 1, Len(log')) = Append(q, t)
  BY <1>1, <1>3, SubSeqAppend
<1> QED
  BY <1>1, <1>2, <1>4 DEF Fifo!Enqueue

LEMMA TakeDequeues ==
  ASSUME IInv, result = NULL, TakeAndReturn(tail, tail'), UNCHANGED log,
         tail = log[taken + 1], taken < Len(log)
  PROVE  Fifo!Dequeue
<1>1. log \in Seq(Tasks) /\ taken \in 0 .. Len(log)
  BY DEF IInv, TypeOK
<1>2. log' = log /\ taken' = taken + 1 /\ result' = log[taken + 1]
  BY DEF TakeAndReturn, Return
<1>3. SubSeq(log', taken' + 1, Len(log')) = SubSeq(log, taken + 2, Len(log))
  BY <1>1, <1>2
<1> QED
  BY <1>1, <1>2, <1>3, SubSeqTail DEF Fifo!Dequeue

(* Whoever finds a successor of the tail node finds it in the oldest task. *)
LEMMA TailIsOldest ==
  ASSUME IInv, tail # Stub
  PROVE  tail = log[taken + 1] /\ taken < Len(log)
  BY DEF IInv, TypeOK, Chain

LEMMA PopRefines ==
  ASSUME IInv, Pop
  PROVE  Fifo!Dequeue \/ UNCHANGED <<log, taken, result>>
<1>1. result = NULL
  BY DEF IInv, OneOwner, Pop, PopEmpty, PopFirst, PopLast, PopSkipStub,
     PopAfterSkip, PopLoadHead, PopClearStub, PopExchangeStub, PopLinkStub,
     PopReadAgain, PopBegin
<1>2. CASE PopFirst
  BY <1>1, <1>2, TailIsOldest, TakeDequeues DEF PopFirst, TakeAndReturn
<1>3. CASE PopAfterSkip
  <2>1. lTail = tail /\ tail # Stub
    BY <1>3, TailIsOldest DEF PopAfterSkip, IInv, TypeOK, PopState, MidPop, Empty
  <2> QED
    BY <1>1, <1>3, <2>1, TailIsOldest, TakeDequeues
       DEF PopAfterSkip, TakeAndReturn
<1>4. CASE PopReadAgain
  <2>1. lTail = tail /\ tail # Stub
    BY <1>4 DEF PopReadAgain, IInv, TypeOK, PopState, MidPop, Empty
  <2> QED
    BY <1>1, <1>4, <2>1, TailIsOldest, TakeDequeues
       DEF PopReadAgain, TakeAndReturn, Return
<1>5. CASE PopEmpty \/ PopLast \/ PopSkipStub \/ PopLoadHead \/ PopClearStub
           \/ PopExchangeStub \/ PopLinkStub
  BY <1>1, <1>5 DEF PopEmpty, PopLast, PopSkipStub, PopLoadHead, PopClearStub,
     PopExchangeStub, PopLinkStub, PopBegin, Return, history
<1> QED
  BY <1>2, <1>3, <1>4, <1>5 DEF Pop

LEMMA StepRefines == IInv /\ [Next]_vars => [Fifo!Next]_Fifo!vars
<1> SUFFICES ASSUME IInv, [Next]_vars
             PROVE  Fifo!Next \/ UNCHANGED <<log, taken, result>>
  BY DEF Fifo!vars
<1>1. ASSUME NEW p \in Producers, Push(p)
      PROVE  Fifo!Next \/ UNCHANGED <<log, taken, result>>
  BY <1>1, PushEnqueues
     DEF Push, Make, PushLink, Fifo!Next, history, consumer
<1>2. CASE Pop
  BY <1>2, PopRefines DEF Fifo!Next
<1>3. CASE DestroyTask
  <2>1. result # NULL /\ result' = NULL /\ UNCHANGED <<log, taken>>
    BY <1>3 DEF DestroyTask, history
  <2> QED
    BY <2>1 DEF Fifo!Next, Fifo!Discard
<1>4. CASE NothingPopped \/ BeginDestructor \/ UNCHANGED vars
  BY <1>4 DEF NothingPopped, BeginDestructor, vars, history, consumer
<1> QED
  BY <1>1, <1>2, <1>3, <1>4 DEF Next, Consume

(* TaskQueue implements the safety part of TaskFifo: tasks are handed out  *)
(* exactly once and in the order of the producers' exchanges of Head.      *)
THEOREM ImplementsFifo == Spec => FifoSafety
<1>1. Init => Fifo!Init
  BY DEF Init, Fifo!Init
<1>2. IInv /\ [Next]_vars => [Fifo!Next]_Fifo!vars
  BY StepRefines
<1> QED
  BY <1>1, <1>2, Invariance, PTL DEF Spec, FifoSafety, Fifo!Safety
=============================================================================
