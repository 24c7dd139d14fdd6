---------------------------- MODULE TQueueProofs -----------------------------
(***************************************************************************)
(* For every slack and any number of pushes: values come out of a TQueue   *)
(* in the order they went in, and every value that is neither out nor      *)
(* stored was dropped by a shift of Balance, one for each shift.           *)
(***************************************************************************)
EXTENDS TQueue, SequenceTheorems, TLAPS

Values == 1 .. MaxPush

-----------------------------------------------------------------------------
(* The operations of the queue on its array e and its front f. *)

LEMMA PushedQueue ==
  ASSUME NEW e \in Seq(Values), NEW f \in Nat, NEW v
  PROVE  QPush([elements |-> e, front |-> f], v) = [elements |-> Append(e, v), front |-> f]
<1> DEFINE c == [elements |-> e, front |-> f]
<1>1. c.elements = e
  OBVIOUS
<1>2. QPush(c, v) = [c EXCEPT !.elements = Append(e, v)]
  BY <1>1 DEF QPush
<1> QED
  BY <1>2

LEMMA PoppedQueue ==
  ASSUME NEW e \in Seq(Values), NEW f \in Nat, f < Len(e),
         NEW c, c = [elements |-> e, front |-> f]
  PROVE  /\ QTop(c) = e[f + 1]
         /\ BalanceShifts(Advanced(c)) => f + 2 <= Len(e)
         /\ QPop(c) = IF BalanceShifts(Advanced(c))
                      THEN [elements |-> SubSeq(e, f + 3, Len(e)), front |-> 0]
                      ELSE [elements |-> e, front |-> f + 1]
<1>1. c.elements = e /\ c.front = f /\ Len(e) \in Nat
  OBVIOUS
<1>2. Advanced(c) = [elements |-> e, front |-> f + 1]
  BY DEF Advanced
<1>3. Advanced(c).elements = e /\ Advanced(c).front = f + 1
  BY <1>2
<1>4. QNonEmpty(c)
  BY <1>1 DEF QNonEmpty
<1>5. QTop(c) = e[f + 1]
  BY <1>1 DEF QTop
<1>6. BalanceShifts(Advanced(c)) => f + 2 <= Len(e)
  BY <1>1, <1>3 DEF BalanceShifts, QNonEmpty
<1>7. QPop(c) = QBalance(Advanced(c))
  BY <1>4 DEF QPop
<1>8. BalanceSlack(Advanced(c)) + 1 = f + 3
  BY <1>3 DEF BalanceSlack
<1>9. QBalance(Advanced(c)) = IF BalanceShifts(Advanced(c))
                              THEN [elements |-> SubSeq(e, f + 3, Len(e)), front |-> 0]
                              ELSE Advanced(c)
  BY <1>3, <1>8 DEF QBalance
<1> QED
  BY <1>2, <1>5, <1>6, <1>7, <1>9

LEMMA ShiftedElements ==
  ASSUME NEW e \in Seq(Values), NEW f \in Nat, f + 2 <= Len(e)
  PROVE  /\ SubSeq(e, f + 3, Len(e)) \in Seq(Values)
         /\ Len(SubSeq(e, f + 3, Len(e))) = Len(e) - (f + 2)
         /\ \A i \in 1 .. Len(e) - (f + 2) : SubSeq(e, f + 3, Len(e))[i] = e[f + 2 + i]
<1>1. Len(e) \in Nat /\ \A i \in 1 .. Len(e) : e[i] \in Values
  OBVIOUS
<1>2. \A i \in f + 3 .. Len(e) : e[i] \in Values
  BY <1>1
<1>3. /\ SubSeq(e, f + 3, Len(e)) \in Seq(Values)
      /\ Len(SubSeq(e, f + 3, Len(e))) = (IF f + 3 <= Len(e) THEN Len(e) - (f + 3) + 1 ELSE 0)
      /\ \A i \in 1 .. Len(e) - (f + 3) + 1 : SubSeq(e, f + 3, Len(e))[i] = e[f + 3 + i - 1]
  BY <1>1, <1>2, SubSeqProperties
<1>4. Len(SubSeq(e, f + 3, Len(e))) = Len(e) - (f + 2)
  BY <1>1, <1>3
<1>5. \A i \in 1 .. Len(e) - (f + 2) : SubSeq(e, f + 3, Len(e))[i] = e[f + 2 + i]
  BY <1>1, <1>3
<1> QED
  BY <1>3, <1>4, <1>5

(* An empty queue is not changed by Pop. *)
LEMMA PoppedEmpty ==
  ASSUME NEW c, ~ QNonEmpty(c)
  PROVE  QPop(c) = c
  BY DEF QPop

-----------------------------------------------------------------------------
(* The state by its parts: what is out, and the array and front of what is *)
(* stored.                                                                 *)
LEMMA Parts ==
  ASSUME TypeOK, NEW e \in Seq(Values), NEW f \in Nat, q = [elements |-> e, front |-> f]
  PROVE  /\ q.elements = e /\ q.front = f /\ f <= Len(e)
         /\ Len(e) \in Nat /\ Len(popped) \in Nat
         /\ Total = Len(popped) + (Len(e) - f)
         /\ \A i : Value(i) = IF i <= Len(popped) THEN popped[i] ELSE e[f + (i - Len(popped))]
<1>1. q.elements = e /\ q.front = f
  OBVIOUS
<1>2. f <= Len(e)
  BY <1>1 DEF TypeOK
<1> QED
  BY <1>1, <1>2 DEF TypeOK, Total, Value

LEMMA PartsNext ==
  ASSUME popped' \in Seq(Values),
         NEW e \in Seq(Values), NEW f \in Nat, q' = [elements |-> e, front |-> f],
         NEW l, l = Len(popped'), NEW n, n = Len(e)
  PROVE  /\ Total' = l + (n - f)
         /\ \A i : Value(i)' = IF i <= l THEN popped'[i] ELSE e[f + (i - l)]
<1>1. q'.elements = e /\ q'.front = f
  OBVIOUS
<1> QED
  BY <1>1 DEF Total, Value

(* Three things may happen to the sequence of values: nothing, one more at *)
(* its end, or one place after k is dropped and a shift counted for it.    *)
LEMMA NothingMoves ==
  ASSUME IInv, TypeOK', Total' = Total, shifts' = shifts, pushed' = pushed,
         \A i \in 1 .. Total : Value(i)' = Value(i)
  PROVE  IInv'
  BY DEF IInv

LEMMA OneIsAppended ==
  ASSUME IInv, TypeOK', NEW T \in Nat, Total = T, Total' = T + 1,
         shifts' = shifts, pushed' = pushed + 1,
         \A i \in 1 .. T : Value(i)' = Value(i),
         Value(T + 1)' = pushed + 1
  PROVE  IInv'
<1>1. PICK p \in Nat, s \in Nat : p = pushed /\ s = shifts
  BY DEF IInv, TypeOK
<1>2. /\ T + s = p
      /\ \A i \in 1 .. T : Value(i) \in 1 .. p
      /\ \A i, j \in 1 .. T : i < j => Value(i) < Value(j)
      /\ s = 0 => \A i \in 1 .. T : Value(i) = i
  BY <1>1 DEF IInv
<1>3. /\ Total' = T + 1 /\ shifts' = s /\ pushed' = p + 1
      /\ \A i \in 1 .. T : Value(i)' = Value(i)
      /\ Value(T + 1)' = p + 1
  BY <1>1
<1>4. \A i \in 1 .. T + 1 : i \in 1 .. T \/ i = T + 1
  OBVIOUS
<1>5. \A i \in 1 .. T + 1 : Value(i)' \in 1 .. p + 1
  BY <1>2, <1>3, <1>4
<1>6. ASSUME NEW i \in 1 .. T + 1, NEW j \in 1 .. T + 1, i < j
      PROVE  Value(i)' < Value(j)'
  <2>1. i \in 1 .. T
    BY <1>6
  <2>2. CASE j = T + 1
    BY <1>2, <1>3, <2>1, <2>2
  <2>3. CASE j \in 1 .. T
    BY <1>2, <1>3, <1>6, <2>1, <2>3
  <2> QED
    BY <1>4, <2>2, <2>3
<1>7. s = 0 => \A i \in 1 .. T + 1 : Value(i)' = i
  <2>1. s = 0 => p = T
    BY <1>2
  <2> QED
    BY <1>2, <1>3, <1>4, <2>1
<1>8. (T + 1) + s = p + 1
  BY <1>2
<1> QED
  BY <1>3, <1>5, <1>6, <1>7, <1>8 DEF IInv

LEMMA OneIsDropped ==
  ASSUME IInv, TypeOK', NEW U \in Nat, Total = U + 1, Total' = U,
         shifts' = shifts + 1, pushed' = pushed, NEW k \in Nat,
         \A i \in 1 .. U : Value(i)' = Value(IF i <= k THEN i ELSE i + 1)
  PROVE  IInv'
<1>1. PICK p \in Nat, s \in Nat : p = pushed /\ s = shifts
  BY DEF IInv, TypeOK
<1>2. /\ Total = U + 1 /\ Total + s = p
      /\ \A i \in 1 .. Total : Value(i) \in 1 .. p
      /\ \A i, j \in 1 .. Total : i < j => Value(i) < Value(j)
  BY <1>1 DEF IInv
<1>3. U + (s + 1) = p /\ s + 1 # 0
  <2>1. (U + 1) + s = p
    BY <1>2
  <2> QED
    BY <2>1
<1>9. shifts' = s + 1 /\ pushed' = p
  BY <1>1
<1> DEFINE m(i) == IF i <= k THEN i ELSE i + 1
<1>4. \A i \in 1 .. U : m(i) \in 1 .. U + 1
  OBVIOUS
<1>5. \A i, j \in 1 .. U : i < j => m(i) < m(j)
  OBVIOUS
<1>6. \A i \in 1 .. U : Value(i)' = Value(m(i))
  BY <1>1
<1> HIDE DEF m
<1>7. \A i \in 1 .. U : Value(i)' \in 1 .. p
  BY <1>2, <1>4, <1>6
<1>8. \A i, j \in 1 .. U : i < j => Value(i)' < Value(j)'
  BY <1>2, <1>4, <1>5, <1>6
<1> QED
  BY <1>3, <1>7, <1>8, <1>9 DEF IInv

-----------------------------------------------------------------------------
(* Every step keeps the invariant. *)

LEMMA InitIInv == Init => IInv
<1> SUFFICES ASSUME Init PROVE IInv
  OBVIOUS
<1>1. q = [elements |-> << >>, front |-> 0]
  BY DEF Init, EmptyQueue
<1>2. TypeOK
  <2>1. << >> \in Seq(Values) /\ Len(<< >>) = 0 /\ q.front = 0 /\ q.elements = << >>
    BY <1>1
  <2> QED
    BY <1>1, <2>1, MaxPushAssumption DEF Init, TypeOK, Values
<1>3. Total = 0
  BY <1>1 DEF Init, Total
<1> QED
  BY <1>2, <1>3 DEF Init, IInv

LEMMA PushKeepsIInv ==
  ASSUME IInv, Push
  PROVE  IInv'
<1>1. PICK e \in Seq(Values), f \in Nat : q = [elements |-> e, front |-> f]
  BY DEF IInv, TypeOK, Values
<1>2. PICK p \in Nat : p = pushed /\ p + 1 \in Values /\ pushed' = p + 1
  BY MaxPushAssumption DEF Push, IInv, TypeOK, Values
<1>3. q' = [elements |-> Append(e, p + 1), front |-> f]
  BY <1>1, <1>2, PushedQueue DEF Push
<1>4. popped' = popped /\ shifts' = shifts /\ pushed' = pushed + 1
  BY DEF Push
<1>5. /\ Append(e, p + 1) \in Seq(Values) /\ Len(Append(e, p + 1)) = Len(e) + 1
      /\ Append(e, p + 1)[Len(e) + 1] = p + 1
      /\ \A i \in 1 .. Len(e) : Append(e, p + 1)[i] = e[i]
  BY <1>2, AppendProperties
<1>6. TypeOK /\ popped \in Seq(Values)
  BY DEF IInv, TypeOK, Values
<1>7. PICK n \in Nat, l \in Nat : n = Len(e) /\ l = Len(popped)
  BY <1>6
<1>8. /\ f <= n
      /\ Total = l + (n - f)
      /\ \A i : Value(i) = IF i <= l THEN popped[i] ELSE e[f + (i - l)]
  BY <1>1, <1>6, <1>7, Parts
<1>9. /\ Total' = l + ((n + 1) - f)
      /\ \A i : Value(i)' = IF i <= l THEN popped[i] ELSE Append(e, p + 1)[f + (i - l)]
  <2>1. PICK g \in Seq(Values) : g = Append(e, p + 1)
    BY <1>5
  <2>2. PICK m \in Nat : m = n + 1
    OBVIOUS
  <2>3. m = Len(g) /\ l = Len(popped') /\ popped' \in Seq(Values) /\ q' = [elements |-> g, front |-> f]
    BY <1>3, <1>4, <1>5, <1>6, <1>7, <2>1, <2>2
  <2>4. /\ Total' = l + (m - f)
        /\ \A i : Value(i)' = IF i <= l THEN popped'[i] ELSE g[f + (i - l)]
    BY <2>3, PartsNext
  <2> QED
    BY <1>4, <2>1, <2>2, <2>4
<1>10. PICK T \in Nat : T = Total /\ T = l + (n - f)
  BY <1>7, <1>8
<1>11. Total' = T + 1 /\ Value(T + 1)' = p + 1
  <2>1. Total' = T + 1
    BY <1>7, <1>8, <1>9, <1>10
  <2>2. f + ((T + 1) - l) = n + 1 /\ ~ (T + 1 <= l)
    BY <1>7, <1>8, <1>10
  <2> QED
    BY <1>5, <1>7, <1>9, <2>1, <2>2
<1>12. \A i \in 1 .. T : Value(i)' = Value(i)
  <2>1. \A i \in 1 .. T : ~ (i <= l) => f + (i - l) \in 1 .. n
    BY <1>7, <1>8, <1>10
  <2> QED
    BY <1>5, <1>7, <1>8, <1>9, <2>1
<1>13. TypeOK'
  <2>1. q' \in [elements : Seq(Values), front : Nat] /\ q'.front = f /\ Len(q'.elements) = n + 1
    BY <1>3, <1>5, <1>7
  <2>2. f <= n + 1
    BY <1>7, <1>8
  <2>3. pushed' \in 0 .. MaxPush
    BY <1>2, MaxPushAssumption DEF Values
  <2> QED
    BY <1>4, <1>6, <2>1, <2>2, <2>3 DEF TypeOK, Values
<1> QED
  BY <1>2, <1>4, <1>10, <1>11, <1>12, <1>13, OneIsAppended

(* Pop takes the top; a shift also drops the value behind it. *)
LEMMA TopAndPopKeepsIInv ==
  ASSUME IInv, TopAndPop
  PROVE  IInv'
<1>1. PICK e \in Seq(Values), f \in Nat : q = [elements |-> e, front |-> f]
  BY DEF IInv, TypeOK, Values
<1>2. TypeOK /\ popped \in Seq(Values) /\ shifts \in Nat
  BY DEF IInv, TypeOK, Values
<1>3. PICK n \in Nat, l \in Nat : n = Len(e) /\ l = Len(popped)
  BY <1>2
<1>4. /\ q.elements = e /\ q.front = f /\ f <= n
      /\ Total = l + (n - f)
      /\ \A i : Value(i) = IF i <= l THEN popped[i] ELSE e[f + (i - l)]
  BY <1>1, <1>2, <1>3, Parts
<1>5. f < n
  <2>1. n - f # 0
    BY <1>3, <1>4 DEF TopAndPop, QNonEmpty
  <2> QED
    BY <1>4, <2>1
<1>6. /\ QTop(q) = e[f + 1]
      /\ BalanceShifts(Advanced(q)) => f + 2 <= n
      /\ QPop(q) = IF BalanceShifts(Advanced(q))
                   THEN [elements |-> SubSeq(e, f + 3, Len(e)), front |-> 0]
                   ELSE [elements |-> e, front |-> f + 1]
  BY <1>1, <1>3, <1>5, PoppedQueue
<1>7. e[f + 1] \in Values
  BY <1>3, <1>5
<1>8. popped' = Append(popped, e[f + 1]) /\ q' = QPop(q) /\ pushed' = pushed
  BY <1>6 DEF TopAndPop
<1>9. /\ popped' \in Seq(Values) /\ Len(popped') = l + 1
      /\ popped'[l + 1] = e[f + 1]
      /\ \A i \in 1 .. l : popped'[i] = popped[i]
  BY <1>2, <1>3, <1>7, <1>8, AppendProperties
<1>10. PICK T \in Nat : T = Total /\ T = l + (n - f)
  BY <1>3, <1>4
<1>11. \A i \in 1 .. l + 1 : popped'[i] = Value(i)
  <2>1. f + ((l + 1) - l) = f + 1 /\ ~ (l + 1 <= l)
    OBVIOUS
  <2>2. Value(l + 1) = e[f + 1]
    BY <1>4, <2>1
  <2>3. \A i \in 1 .. l : Value(i) = popped[i]
    BY <1>4
  <2>4. \A i \in 1 .. l + 1 : i \in 1 .. l \/ i = l + 1
    OBVIOUS
  <2> QED
    BY <1>9, <2>2, <2>3, <2>4
<1>12. CASE ~ BalanceShifts(Advanced(q))
  <2>1. q' = [elements |-> e, front |-> f + 1] /\ shifts' = shifts
    BY <1>6, <1>8, <1>12 DEF TopAndPop
  <2>2. /\ Total' = (l + 1) + (n - (f + 1))
        /\ \A i : Value(i)' = IF i <= l + 1 THEN popped'[i] ELSE e[(f + 1) + (i - (l + 1))]
    <3>1. PICK a \in Nat, b \in Nat : a = l + 1 /\ b = f + 1
      OBVIOUS
    <3>2. a = Len(popped') /\ n = Len(e) /\ q' = [elements |-> e, front |-> b]
      BY <1>3, <1>9, <2>1, <3>1
    <3>3. /\ Total' = a + (n - b)
          /\ \A i : Value(i)' = IF i <= a THEN popped'[i] ELSE e[b + (i - a)]
      BY <1>9, <3>2, PartsNext
    <3> QED
      BY <3>1, <3>3
  <2>3. Total' = Total
    BY <1>10, <2>2
  <2>4. \A i \in 1 .. T : Value(i)' = Value(i)
    <3> SUFFICES ASSUME NEW i \in 1 .. T PROVE Value(i)' = Value(i)
      OBVIOUS
    <3>1. CASE i <= l + 1
      BY <1>11, <2>2, <3>1
    <3>2. CASE ~ (i <= l + 1)
      <4>1. (f + 1) + (i - (l + 1)) = f + (i - l) /\ ~ (i <= l)
        BY <3>2
      <4>2. Value(i)' = e[(f + 1) + (i - (l + 1))]
        BY <2>2, <3>2
      <4>3. Value(i) = e[f + (i - l)]
        BY <1>4, <4>1
      <4> QED
        BY <4>1, <4>2, <4>3
    <3> QED
      BY <3>1, <3>2
  <2>5. TypeOK'
    <3>1. /\ q' \in [elements : Seq(Values), front : Nat]
          /\ q'.front = f + 1 /\ q'.elements = e
      BY <2>1
    <3>2. f + 1 <= n
      BY <1>5
    <3> QED
      BY <1>2, <1>3, <1>8, <1>9, <2>1, <3>1, <3>2 DEF TypeOK, Values
  <2> QED
    BY <1>8, <1>10, <2>1, <2>3, <2>4, <2>5, NothingMoves
<1>13. CASE BalanceShifts(Advanced(q))
  <2>1. q' = [elements |-> SubSeq(e, f + 3, n), front |-> 0] /\ shifts' = shifts + 1 /\ f + 2 <= n
    BY <1>3, <1>6, <1>8, <1>13 DEF TopAndPop
  <2>2. PICK z \in Seq(Values) : z = SubSeq(e, f + 3, n)
    BY <1>3, <2>1, ShiftedElements
  <2>3. Len(z) = n - (f + 2) /\ \A i \in 1 .. n - (f + 2) : z[i] = e[f + 2 + i]
    BY <1>3, <2>1, <2>2, ShiftedElements
  <2>4. q' = [elements |-> z, front |-> 0]
    BY <2>1, <2>2
  <2>5. /\ Total' = (l + 1) + ((n - (f + 2)) - 0)
        /\ \A i : Value(i)' = IF i <= l + 1 THEN popped'[i] ELSE z[0 + (i - (l + 1))]
    <3>1. PICK a \in Nat, b \in Nat, o \in Nat : a = l + 1 /\ b = n - (f + 2) /\ o = 0
      BY <2>1
    <3>2. a = Len(popped') /\ b = Len(z) /\ q' = [elements |-> z, front |-> o]
      BY <1>9, <2>3, <2>4, <3>1
    <3>3. /\ Total' = a + (b - o)
          /\ \A i : Value(i)' = IF i <= a THEN popped'[i] ELSE z[o + (i - a)]
      BY <1>9, <3>2, PartsNext
    <3> QED
      BY <3>1, <3>3
  <2>6. PICK U \in Nat : U = (l + 1) + (n - (f + 2))
    BY <2>1
  <2>7. Total' = U /\ Total = U + 1
    BY <1>10, <2>1, <2>5, <2>6
  <2>8. \A i \in 1 .. U : Value(i)' = Value(IF i <= l + 1 THEN i ELSE i + 1)
    <3> SUFFICES ASSUME NEW i \in 1 .. U
                 PROVE  Value(i)' = Value(IF i <= l + 1 THEN i ELSE i + 1)
      OBVIOUS
    <3>1. CASE i <= l + 1
      BY <1>11, <2>5, <3>1
    <3>2. CASE ~ (i <= l + 1)
      <4>1. i - (l + 1) \in 1 .. n - (f + 2) /\ 0 + (i - (l + 1)) = i - (l + 1)
        BY <2>1, <2>6, <3>2
      <4>2. f + 2 + (i - (l + 1)) = f + ((i + 1) - l) /\ ~ (i + 1 <= l)
        BY <3>2
      <4>3. Value(i)' = z[i - (l + 1)]
        BY <2>5, <3>2, <4>1
      <4>4. z[i - (l + 1)] = e[f + ((i + 1) - l)]
        BY <2>3, <4>1, <4>2
      <4>5. Value(i + 1) = e[f + ((i + 1) - l)]
        BY <1>4, <4>2
      <4> QED
        BY <3>2, <4>3, <4>4, <4>5
    <3> QED
      BY <3>1, <3>2
  <2>9. TypeOK'
    <3>1. /\ q' \in [elements : Seq(Values), front : Nat]
          /\ q'.front = 0 /\ q'.elements = z
      BY <2>4
    <3>2. 0 <= Len(z) /\ shifts' \in Nat
      BY <1>2, <2>1
    <3> QED
      BY <1>2, <1>8, <1>9, <3>1, <3>2 DEF TypeOK, Values
  <2>10. PICK k \in Nat : k = l + 1
    OBVIOUS
  <2>11. \A i \in 1 .. U : Value(i)' = Value(IF i <= k THEN i ELSE i + 1)
    BY <2>8, <2>10
  <2> QED
    BY <1>8, <2>1, <2>7, <2>9, <2>11, OneIsDropped
<1> QED
  BY <1>12, <1>13

LEMMA StutterKeepsIInv ==
  ASSUME IInv, UNCHANGED vars
  PROVE  IInv'
  BY DEF vars, IInv, TypeOK, Total, Value

LEMMA NextKeepsIInv == IInv /\ [Next]_vars => IInv'
<1> SUFFICES ASSUME IInv, [Next]_vars PROVE IInv'
  OBVIOUS
<1>1. CASE Push
  BY <1>1, PushKeepsIInv
<1>2. CASE TopAndPop
  BY <1>2, TopAndPopKeepsIInv
<1>3. CASE PopEmpty
  <2>1. UNCHANGED vars
    BY <1>3, PoppedEmpty DEF PopEmpty, vars
  <2> QED
    BY <2>1, StutterKeepsIInv
<1>4. CASE UNCHANGED vars
  BY <1>4, StutterKeepsIInv
<1> QED
  BY <1>1, <1>2, <1>3, <1>4 DEF Next

-----------------------------------------------------------------------------
(* What the invariant says of the values that are out or still stored.     *)

LEMMA StoredAre ==
  ASSUME IInv
  PROVE  /\ popped \o QContent(q) \in Seq(Values)
         /\ Len(popped \o QContent(q)) = Total
         /\ Len(popped) + Len(QContent(q)) = Total
         /\ \A i \in 1 .. Total : (popped \o QContent(q))[i] = Value(i)
<1>1. PICK e \in Seq(Values), f \in Nat : q = [elements |-> e, front |-> f]
  BY DEF IInv, TypeOK, Values
<1>2. TypeOK /\ popped \in Seq(Values)
  BY DEF IInv, TypeOK, Values
<1>3. PICK n \in Nat, l \in Nat : n = Len(e) /\ l = Len(popped)
  BY <1>2
<1>4. /\ q.elements = e /\ q.front = f /\ f <= n
      /\ Total = l + (n - f)
      /\ \A i : Value(i) = IF i <= l THEN popped[i] ELSE e[f + (i - l)]
  BY <1>1, <1>2, <1>3, Parts
<1>5. QContent(q) = SubSeq(e, f + 1, n)
  BY <1>3, <1>4 DEF QContent
<1>6. \A i \in f + 1 .. n : e[i] \in Values
  BY <1>3
<1>7. /\ SubSeq(e, f + 1, n) \in Seq(Values)
      /\ Len(SubSeq(e, f + 1, n)) = (IF f + 1 <= n THEN n - (f + 1) + 1 ELSE 0)
      /\ \A i \in 1 .. n - (f + 1) + 1 : SubSeq(e, f + 1, n)[i] = e[f + 1 + i - 1]
  BY <1>6, SubSeqProperties
<1>8. PICK c \in Seq(Values) : c = QContent(q)
  BY <1>5, <1>7
<1>9. Len(c) = n - f /\ \A i \in 1 .. n - f : c[i] = e[f + i]
  <2>1. Len(c) = n - f
    BY <1>4, <1>5, <1>7, <1>8
  <2>2. n - (f + 1) + 1 = n - f /\ \A i \in 1 .. n - f : f + 1 + i - 1 = f + i
    OBVIOUS
  <2> QED
    BY <1>5, <1>7, <1>8, <2>1, <2>2
<1>10. /\ popped \o c \in Seq(Values)
       /\ Len(popped \o c) = l + (n - f)
       /\ \A i \in 1 .. l + (n - f) :
            (popped \o c)[i] = IF i <= l THEN popped[i] ELSE c[i - l]
  <2>1. Len(c) \in Nat
    OBVIOUS
  <2>2. /\ popped \o c \in Seq(Values)
        /\ Len(popped \o c) = Len(popped) + Len(c)
        /\ \A i \in 1 .. Len(popped) + Len(c) :
             (popped \o c)[i] = IF i <= Len(popped) THEN popped[i] ELSE c[i - Len(popped)]
    BY <1>2, ConcatProperties
  <2>3. Len(popped) = l /\ Len(c) = n - f
    BY <1>3, <1>9
  <2> QED
    BY <2>2, <2>3
<1>11. \A i \in 1 .. l + (n - f) : (popped \o c)[i] = Value(i)
  <2>1. \A i \in 1 .. l + (n - f) : ~ (i <= l) => i - l \in 1 .. n - f
    BY <1>4
  <2> QED
    BY <1>4, <1>9, <1>10, <2>1
<1> QED
  BY <1>3, <1>4, <1>8, <1>9, <1>10, <1>11

(* The invariant holds in every state of every behaviour. *)
THEOREM Invariance == Spec => []IInv
<1>1. Init => IInv
  BY InitIInv
<1>2. IInv /\ [Next]_vars => IInv'
  BY NextKeepsIInv
<1> QED
  BY <1>1, <1>2, PTL DEF Spec

(* Values come out of the queue in the order they went in, none twice, and *)
(* what Balance moved is still behind what came out.                       *)
THEOREM OrderIsKept == Spec => []InOrder
<1>1. IInv => InOrder
  <2> SUFFICES ASSUME IInv PROVE InOrder
    OBVIOUS
  <2>1. PICK c : c = popped \o QContent(q)
    OBVIOUS
  <2>2. Len(c) = Total /\ \A i \in 1 .. Total : c[i] = Value(i)
    BY <2>1, StoredAre
  <2>3. \A i, j \in 1 .. Total : i < j => Value(i) < Value(j)
    BY DEF IInv
  <2>4. Increasing(c)
    BY <2>2, <2>3 DEF Increasing
  <2> QED
    BY <2>1, <2>4 DEF InOrder
<1> QED
  BY <1>1, Invariance, PTL

(* Balance drops one value for each shift, at most; before the first shift *)
(* nothing is lost.                                                        *)
THEOREM OneLossForEachShift == Spec => []LossIsBounded
<1>1. IInv => LossIsBounded
  <2> SUFFICES ASSUME IInv PROVE LossIsBounded
    OBVIOUS
  <2>1. PICK c \in Seq(Values) : c = popped \o QContent(q)
    BY StoredAre
  <2>2. Len(c) = Total /\ \A i \in 1 .. Total : c[i] = Value(i)
    BY <2>1, StoredAre
  <2>3. PICK p \in Nat, s \in Nat, T \in Nat : p = pushed /\ s = shifts /\ T = Len(c)
    <3>1. \E T \in Nat : T = Len(c)
      OBVIOUS
    <3>2. (\E p \in Nat : p = pushed) /\ (\E s \in Nat : s = shifts)
      BY DEF IInv, TypeOK
    <3> QED
      BY <3>1, <3>2
  <2>4. T + s = p /\ T = Total
    BY <2>2, <2>3 DEF IInv
  <2>5. pushed - shifts <= Len(popped) + Len(QContent(q))
    <3>1. p - s <= T
      BY <2>4
    <3> QED
      BY <2>3, <2>4, <3>1, StoredAre
  <2>6. shifts = 0 => c = [i \in 1 .. pushed |-> i]
    <3> SUFFICES ASSUME s = 0 PROVE c = [i \in 1 .. p |-> i]
      BY <2>3
    <3>1. T = p
      BY <2>4
    <3>2. \A i \in 1 .. p : c[i] = i
      BY <2>2, <2>3, <2>4, <3>1 DEF IInv
    <3>3. c = [i \in 1 .. p |-> c[i]]
      <4>1. c = [i \in 1 .. Len(c) |-> c[i]]
        OBVIOUS
      <4>2. Len(c) = p
        BY <2>3, <3>1
      <4> QED
        BY <4>1, <4>2
    <3> QED
      BY <3>2, <3>3
  <2> QED
    BY <2>1, <2>5, <2>6 DEF LossIsBounded
<1> QED
  BY <1>1, Invariance, PTL

=============================================================================
