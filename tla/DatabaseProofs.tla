--------------------------- MODULE DatabaseProofs ----------------------------
(***************************************************************************)
(* For any set of updates, any number of units of work, of lost            *)
(* connections and of tries: a DBTransaction whose caller leaves at the    *)
(* first failure is atomic and is told the truth, no update is applied     *)
(* twice, and no transaction stays open on the server.                     *)
(***************************************************************************)
EXTENDS Database, Integers, TLAPS

USE DEF Units

-----------------------------------------------------------------------------
(* The client library and the server. *)

Conns == [session : {"none", "idle", "transaction"}, pending : SUBSET (Units \X Updates),
          socket : BOOLEAN, inTrans : BOOLEAN, canReconnect : BOOLEAN,
          stmt : {"none", "prepared", "detached"}]

Detach(s) == IF s = "prepared" THEN "detached" ELSE s

LEMMA Disconnecting ==
  ASSUME NEW c \in Conns
  PROVE  /\ Disconnected(c) \in Conns
         /\ Disconnected(c).session = "none" /\ Disconnected(c).pending = {}
         /\ Disconnected(c).socket = FALSE
         /\ Disconnected(c).inTrans = c.inTrans
         /\ Disconnected(c).stmt = Detach(c.stmt)
         /\ Disconnected(c).canReconnect = c.canReconnect
  BY DEF Disconnected, Conns, Detach

LEMMA Connecting ==
  ASSUME NEW c \in Conns
  PROVE  /\ Connected(c) \in Conns
         /\ Connected(c).session = "idle" /\ Connected(c).pending = {}
         /\ Connected(c).socket = TRUE
         /\ Connected(c).inTrans = FALSE
         /\ Connected(c).stmt = c.stmt
  BY DEF Connected, Conns

(* The library reconnects silently only when no transaction was open. *)
LEMMA Reconnecting ==
  ASSUME NEW c \in Conns, c.session = "none", c.pending = {}
  PROVE  \E ok \in BOOLEAN, d \in Conns :
           /\ Reconnect(c) = [ok |-> ok, conn |-> d]
           /\ d.stmt = c.stmt /\ d.pending = {}
           /\ ~ d.inTrans
           /\ ok => d.session = "idle" /\ d.socket /\ ~ c.inTrans
           /\ ~ ok => d.session = "none"
<1>1. CASE c.inTrans
  <2> DEFINE d == [c EXCEPT !.inTrans = FALSE]
  <2>1. d \in Conns /\ d.stmt = c.stmt /\ d.pending = {} /\ ~ d.inTrans /\ d.session = "none"
    BY DEF Conns
  <2>2. Reconnect(c) = [ok |-> FALSE, conn |-> d]
    BY <1>1 DEF Reconnect
  <2> QED
    BY <2>1, <2>2
<1>2. CASE ~ c.inTrans /\ c.canReconnect /\ reachable
  <2>1. Reconnect(c) = [ok |-> TRUE, conn |-> Connected(c)]
    BY <1>2 DEF Reconnect
  <2> QED
    BY <1>2, <2>1, Connecting
<1>3. CASE ~ c.inTrans /\ ~ (c.canReconnect /\ reachable)
  <2>1. Reconnect(c) = [ok |-> FALSE, conn |-> c]
    BY <1>3 DEF Reconnect
  <2> QED
    BY <1>3, <2>1 DEF Conns
<1> QED
  BY <1>1, <1>2, <1>3

LEMMA ReconnectingDead ==
  ASSUME conn \in Conns
  PROVE  \E ok \in BOOLEAN, d \in Conns :
           /\ Reconnect(Disconnected(conn)) = [ok |-> ok, conn |-> d]
           /\ d.stmt = Detach(conn.stmt) /\ d.pending = {}
           /\ ~ d.inTrans
           /\ ok => d.session = "idle" /\ d.socket /\ ~ conn.inTrans
           /\ ~ ok => d.session = "none"
<1> DEFINE D == Disconnected(conn)
<1>1. /\ D \in Conns /\ D.session = "none" /\ D.pending = {}
      /\ D.inTrans = conn.inTrans /\ D.stmt = Detach(conn.stmt)
  BY Disconnecting
<1> HIDE DEF D
<1>2. PICK ok \in BOOLEAN, d \in Conns :
           /\ Reconnect(D) = [ok |-> ok, conn |-> d]
           /\ d.stmt = D.stmt /\ d.pending = {}
           /\ ~ d.inTrans
           /\ ok => d.session = "idle" /\ d.socket /\ ~ D.inTrans
           /\ ~ ok => d.session = "none"
  BY <1>1, Reconnecting
<1> QED
  BY <1>1, <1>2 DEF D

(* A connection the library has noticed to be dead, and may have replaced. *)
Replaced(c) ==
  /\ c.pending = {} /\ c.stmt = Detach(conn.stmt)
  /\ c.session \in {"none", "idle"} /\ (c.session = "idle" => c.socket)

LEMMA Pinging ==
  ASSUME TypeOK, SessionIsHeld
  PROVE  \E ok \in BOOLEAN, d \in Conns :
           /\ Ping(conn) = [ok |-> ok, conn |-> d]
           /\ d.session # "none" => d.socket
           /\ \/ d = conn /\ ok /\ conn.session # "none"
              \/ /\ conn.session = "none"
                 /\ Replaced(d)
                 /\ ~ d.inTrans
                 /\ ok => ~ conn.inTrans
                 /\ ~ ok => d.session = "none"
<1>1. conn \in Conns
  BY DEF TypeOK, Conns
<1>2. CASE Alive(conn)
  BY <1>1, <1>2 DEF Ping, SessionIsHeld, Alive
<1>3. CASE ~ Alive(conn)
  <2>1. conn.session = "none"
    BY <1>3 DEF Alive, SessionIsHeld
  <2>2. Ping(conn) = Reconnect(Disconnected(conn))
    BY <1>3 DEF Ping
  <2>3. PICK ok \in BOOLEAN, d \in Conns :
           /\ Reconnect(Disconnected(conn)) = [ok |-> ok, conn |-> d]
           /\ d.stmt = Detach(conn.stmt) /\ d.pending = {}
           /\ ~ d.inTrans
           /\ ok => d.session = "idle" /\ d.socket /\ ~ conn.inTrans
           /\ ~ ok => d.session = "none"
    BY <1>1, ReconnectingDead
  <2> QED
    BY <2>1, <2>2, <2>3 DEF Replaced
<1> QED
  BY <1>2, <1>3

(* A command is delivered on the connection the adaptor has, or, unless it *)
(* is a prepared statement or a transaction was open, on a new one.        *)
LEMMA Delivering ==
  ASSUME TypeOK, SessionIsHeld, NEW isPrepared \in BOOLEAN, NEW d \in Deliveries(conn, isPrepared)
  PROVE  /\ d.ok \in BOOLEAN /\ d.conn \in Conns
         /\ d.conn.session # "none" => d.conn.socket
         /\ \/ d.ok /\ d.conn = conn /\ conn.session # "none"
            \/ /\ conn.session = "none"
               /\ Replaced(d.conn)
               /\ d.ok => ~ conn.inTrans /\ ~ isPrepared /\ d.conn.session = "idle"
<1>1. conn \in Conns
  BY DEF TypeOK, Conns
<1>2. CASE Alive(conn)
  <2>1. Deliveries(conn, isPrepared) = {[ok |-> TRUE, conn |-> conn]}
    BY <1>2 DEF Deliveries
  <2>2. d = [ok |-> TRUE, conn |-> conn]
    BY <2>1
  <2> QED
    BY <1>1, <1>2, <2>2 DEF SessionIsHeld, Alive
<1>3. CASE ~ Alive(conn)
  <2>1. conn.session = "none"
    BY <1>3 DEF Alive, SessionIsHeld
  <2>2. PICK ok \in BOOLEAN, e \in Conns :
           /\ Reconnect(Disconnected(conn)) = [ok |-> ok, conn |-> e]
           /\ e.stmt = Detach(conn.stmt) /\ e.pending = {}
           /\ ~ e.inTrans
           /\ ok => e.session = "idle" /\ e.socket /\ ~ conn.inTrans
           /\ ~ ok => e.session = "none"
    BY <1>1, ReconnectingDead
  <2>3. \/ d.ok \in BOOLEAN /\ (d.ok <=> ok /\ ~ isPrepared) /\ d.conn = e
        \/ d = [ok |-> FALSE, conn |-> Disconnected(conn)]
    <3> DEFINE r == [ok |-> ok, conn |-> e]
               s == [r EXCEPT !.ok = @ /\ ~ isPrepared]
    <3>1. r \in [ok : BOOLEAN, conn : Conns] /\ r.ok = ok /\ r.conn = e
      OBVIOUS
    <3>2. Deliveries(conn, isPrepared) =
            {s} \union (IF conn.socket THEN {[ok |-> FALSE, conn |-> Disconnected(conn)]} ELSE {})
      BY <1>3, <2>2 DEF Deliveries
    <3>3. s.ok \in BOOLEAN /\ (s.ok <=> ok /\ ~ isPrepared) /\ s.conn = e
      <4> HIDE DEF r
      <4> QED
        BY <3>1
    <3> HIDE DEF s
    <3> QED
      BY <3>2, <3>3
  <2>4. CASE d.ok \in BOOLEAN /\ (d.ok <=> ok /\ ~ isPrepared) /\ d.conn = e
    BY <2>1, <2>2, <2>4 DEF Replaced
  <2>5. CASE d = [ok |-> FALSE, conn |-> Disconnected(conn)]
    BY <1>1, <2>1, <2>5, Disconnecting DEF Replaced
  <2> QED
    BY <2>3, <2>4, <2>5
<1> QED
  BY <1>2, <1>3

Commands == Updates \union {"START TRANSACTION", "COMMIT", "ROLLBACK", "PREPARE", "SELECT"}

LEMMA Executing ==
  ASSUME NEW command \in Commands, NEW c \in Conns, command \in Updates => unit \in Units
  PROVE  /\ Executed(command, c) \in Conns
         /\ Executed(command, c).socket = c.socket
         /\ command = "START TRANSACTION" =>
              /\ Executed(command, c).session = "transaction" /\ Executed(command, c).pending = {}
              /\ Executed(command, c).stmt = c.stmt
         /\ command \in {"COMMIT", "ROLLBACK"} =>
              /\ Executed(command, c).session = "idle" /\ Executed(command, c).pending = {}
              /\ Executed(command, c).stmt = c.stmt
         /\ command = "PREPARE" =>
              /\ Executed(command, c).session = c.session /\ Executed(command, c).pending = c.pending
              /\ Executed(command, c).stmt = "prepared"
         /\ command = "SELECT" => Executed(command, c) = c
         /\ command \in Updates =>
              /\ Executed(command, c).session = c.session /\ Executed(command, c).stmt = c.stmt
              /\ c.session = "transaction" =>
                   Executed(command, c).pending = c.pending \union {<<unit, command>>}
              /\ c.session # "transaction" => Executed(command, c).pending = c.pending
<1> USE UpdatesAssumption
<1>1. CASE command = "START TRANSACTION"
  BY <1>1 DEF Executed, Conns
<1>2. CASE command \in {"COMMIT", "ROLLBACK"}
  <2>1. Executed(command, c) = [c EXCEPT !.session = "idle", !.pending = {}]
    BY <1>2 DEF Executed
  <2> QED
    BY <1>2, <2>1 DEF Conns
<1>3. CASE command = "PREPARE"
  <2>1. Executed(command, c) = [c EXCEPT !.stmt = "prepared"]
    BY <1>3 DEF Executed
  <2> QED
    BY <1>3, <2>1 DEF Conns
<1>4. CASE command = "SELECT"
  <2>1. Executed(command, c) = c
    BY <1>4 DEF Executed
  <2> QED
    BY <1>4, <2>1 DEF Conns
<1>5. CASE command \in Updates
  <2>1. command \notin {"START TRANSACTION", "COMMIT", "ROLLBACK", "PREPARE", "SELECT"}
    BY <1>5
  <2>2. Executed(command, c) = IF c.session = "transaction"
                               THEN [c EXCEPT !.pending = @ \union {<<unit, command>>}] ELSE c
    BY <1>5, <2>1 DEF Executed
  <2>3. CASE c.session = "transaction"
    <3> DEFINE p == c.pending \union {<<unit, command>>}
    <3>1. p \in SUBSET (Units \X Updates)
      <4>1. <<unit, command>> \in Units \X Updates
        BY <1>5
      <4>2. c.pending \in SUBSET (Units \X Updates)
        BY DEF Conns
      <4> QED
        BY <4>1, <4>2
    <3>2. Executed(command, c) = [c EXCEPT !.pending = p]
      BY <2>2, <2>3
    <3> HIDE DEF p
    <3>3. /\ [c EXCEPT !.pending = p] \in Conns /\ [c EXCEPT !.pending = p].pending = p
          /\ [c EXCEPT !.pending = p].session = c.session
          /\ [c EXCEPT !.pending = p].stmt = c.stmt /\ [c EXCEPT !.pending = p].socket = c.socket
      BY <3>1 DEF Conns
    <3> QED
      BY <2>1, <2>3, <3>2, <3>3 DEF p
  <2>4. CASE c.session # "transaction"
    BY <2>1, <2>2, <2>4
  <2> QED
    BY <2>3, <2>4
<1> QED
  BY <1>1, <1>2, <1>3, <1>4, <1>5 DEF Commands

LEMMA Permanent ==
  ASSUME NEW command \in Commands, NEW c
  PROVE  /\ command \in {"START TRANSACTION", "COMMIT"} => MadePermanent(command, c) = c.pending
         /\ command \in {"ROLLBACK", "PREPARE", "SELECT"} => MadePermanent(command, c) = {}
         /\ command \in Updates /\ c.session = "idle" => MadePermanent(command, c) = {<<unit, command>>}
         /\ command \in Updates /\ c.session # "idle" => MadePermanent(command, c) = {}
<1> USE UpdatesAssumption
<1>1. CASE command \in {"START TRANSACTION", "COMMIT"}
  BY <1>1 DEF MadePermanent
<1>2. CASE command \in {"ROLLBACK", "PREPARE", "SELECT"}
  <2>1. command \notin Updates
    BY <1>2
  <2> QED
    BY <1>2, <2>1 DEF MadePermanent
<1>3. CASE command \in Updates
  <2>1. command \notin {"START TRANSACTION", "COMMIT", "ROLLBACK", "PREPARE", "SELECT"}
    BY <1>3
  <2> QED
    BY <1>3, <2>1 DEF MadePermanent
<1> QED
  BY <1>1, <1>2, <1>3 DEF Commands

(* The connection that carries a command: the one there is, or a new one. *)
Carries(c, isPrepared) ==
  \/ c = conn /\ conn.session # "none"
  \/ /\ conn.session = "none" /\ ~ conn.inTrans /\ ~ isPrepared
     /\ Replaced(c) /\ c.session = "idle"

(* The outcomes of a command: not delivered; executed, and answered or not;*)
(* refused, with the transaction rolled back or not.                       *)
Undelivered(ok) ==
  /\ ~ ok /\ applied' = applied /\ conn.session = "none"
  /\ conn'.pending = {} /\ conn'.stmt = Detach(conn.stmt) /\ conn'.session \in {"none", "idle"}

Answered(command, c, ok) ==
  LET e == Executed(command, c) IN
  /\ applied' = [u \in DOMAIN applied |->
        applied[u] + IF u \in MadePermanent(command, c) THEN 1 ELSE 0]
  /\ \/ /\ ok
        /\ conn'.session = e.session /\ conn'.pending = e.pending /\ conn'.stmt = e.stmt
        /\ conn'.inTrans <=> e.session = "transaction"
     \/ /\ ~ ok
        /\ conn'.session = "none" /\ conn'.pending = {} /\ conn'.stmt = Detach(e.stmt)

Refused(command, c, ok) ==
  /\ ~ ok /\ applied' = applied
  /\ conn'.stmt = c.stmt
  /\ \/ /\ command \in Updates \union {"PREPARE", "SELECT"}
        /\ conn' = c
     \/ /\ command \in Updates \union {"SELECT"}
        /\ conn'.session = "idle" /\ conn'.pending = {}

LEMMA CommandEffect ==
  ASSUME TypeOK, SessionIsHeld,
         NEW command \in Commands, NEW isPrepared \in BOOLEAN, NEW ok \in BOOLEAN,
         Command(command, isPrepared, ok),
         command \in Updates => unit \in Units
  PROVE  /\ conn' \in Conns /\ reachable' \in BOOLEAN /\ losses' \in Nat
         /\ applied' \in [Units \X Updates -> Nat]
         /\ conn'.session # "none" => conn'.socket
         /\ \/ Undelivered(ok)
            \/ \E c \in Conns :
                 Carries(c, isPrepared) /\ (Answered(command, c, ok) \/ Refused(command, c, ok))
<1> USE DEF server
<1>1. PICK d \in Deliveries(conn, isPrepared) :
        \/ /\ ~ d.ok /\ ~ ok
           /\ conn' = d.conn
           /\ UNCHANGED <<applied, server>>
        \/ /\ d.ok
           /\ applied' = [u \in DOMAIN applied |->
                applied[u] + IF u \in MadePermanent(command, d.conn) THEN 1 ELSE 0]
           /\ LET c == Executed(command, d.conn)
              IN \/ /\ ok
                    /\ conn' = [c EXCEPT !.inTrans = c.session = "transaction"]
                    /\ UNCHANGED server
                 \/ /\ ~ ok
                    /\ losses < MaxLosses
                    /\ losses' = losses + 1
                    /\ reachable' \in BOOLEAN
                    /\ conn' = Disconnected(c)
        \/ /\ d.ok /\ ~ ok
           /\ \/ /\ command \in Updates \union {"PREPARE", "SELECT"}
                 /\ conn' = d.conn
              \/ /\ command \in Updates \union {"SELECT"}
                 /\ d.conn.session = "transaction"
                 /\ conn' = [d.conn EXCEPT !.session = "idle", !.pending = {}]
           /\ UNCHANGED <<applied, server>>
  BY DEF Command
<1>2. PICK c \in Conns : c = d.conn
  BY Delivering
<1>3. /\ d.ok \in BOOLEAN
      /\ c.session # "none" => c.socket
      /\ d.ok => Carries(c, isPrepared)
      /\ ~ d.ok => conn.session = "none" /\ Replaced(c)
  BY <1>2, Delivering DEF Carries
<1>4. CASE /\ ~ d.ok /\ ~ ok
           /\ conn' = d.conn
           /\ UNCHANGED <<applied, server>>
  <2>1. conn' = c
    BY <1>2, <1>4
  <2>2. Undelivered(ok)
    BY <1>3, <1>4, <2>1 DEF Undelivered, Replaced
  <2> QED
    BY <1>3, <1>4, <2>1, <2>2 DEF TypeOK
<1>5. CASE /\ d.ok
           /\ applied' = [u \in DOMAIN applied |->
                applied[u] + IF u \in MadePermanent(command, d.conn) THEN 1 ELSE 0]
           /\ LET e == Executed(command, d.conn)
              IN \/ /\ ok
                    /\ conn' = [e EXCEPT !.inTrans = e.session = "transaction"]
                    /\ UNCHANGED server
                 \/ /\ ~ ok
                    /\ losses < MaxLosses
                    /\ losses' = losses + 1
                    /\ reachable' \in BOOLEAN
                    /\ conn' = Disconnected(e)
  <2>1. PICK e \in Conns : e = Executed(command, c) /\ e.socket = c.socket
    <3>1. Executed(command, c) \in Conns /\ Executed(command, c).socket = c.socket
      BY Executing
    <3> QED
      BY <3>1
  <2>2. applied' = [u \in DOMAIN applied |->
                applied[u] + IF u \in MadePermanent(command, c) THEN 1 ELSE 0]
    BY <1>2, <1>5
  <2>3. applied' \in [Units \X Updates -> Nat]
    <3>1. applied \in [Units \X Updates -> Nat] /\ DOMAIN applied = Units \X Updates
      BY DEF TypeOK
    <3> QED
      <4> DEFINE D == Units \X Updates
                 M == MadePermanent(command, c)
      <4> HIDE DEF D, M
      <4>1. applied \in [D -> Nat] /\ applied' = [u \in D |-> applied[u] + IF u \in M THEN 1 ELSE 0]
        BY <2>2, <3>1 DEF D, M
      <4>2. applied' \in [D -> Nat]
        BY <4>1
      <4> QED
        BY <4>2 DEF D
  <2>4. \/ ok /\ conn' = [e EXCEPT !.inTrans = e.session = "transaction"] /\ UNCHANGED server
        \/ ~ ok /\ losses' = losses + 1 /\ reachable' \in BOOLEAN /\ conn' = Disconnected(e)
    BY <1>2, <1>5, <2>1
  <2>5. e.session # "none" => e.socket
    BY <1>3, <1>5, <2>1, Executing DEF Carries, Replaced, Commands
  <2>6. CASE ok /\ conn' = [e EXCEPT !.inTrans = e.session = "transaction"] /\ UNCHANGED server
    <3> DEFINE v == e.session = "transaction"
    <3>1. conn' = [e EXCEPT !.inTrans = v] /\ v \in BOOLEAN
      BY <2>6
    <3>2. /\ conn' \in Conns /\ conn'.session = e.session /\ conn'.pending = e.pending
          /\ conn'.stmt = e.stmt /\ conn'.socket = e.socket /\ conn'.inTrans = v
      <4> HIDE DEF v
      <4> QED
        BY <3>1 DEF Conns
    <3>3. Answered(command, c, ok)
      BY <2>1, <2>2, <2>6, <3>2 DEF Answered
    <3> QED
      BY <1>3, <1>5, <2>3, <2>5, <2>6, <3>2, <3>3 DEF TypeOK
  <2>7. CASE ~ ok /\ losses' = losses + 1 /\ reachable' \in BOOLEAN /\ conn' = Disconnected(e)
    <3>1. /\ conn' \in Conns /\ conn'.session = "none" /\ conn'.pending = {}
          /\ conn'.stmt = Detach(e.stmt)
      BY <2>7, Disconnecting
    <3>2. Answered(command, c, ok)
      BY <2>1, <2>2, <2>7, <3>1 DEF Answered
    <3>3. losses' \in Nat /\ reachable' \in BOOLEAN
      <4>1. losses \in Nat
        BY DEF TypeOK
      <4>2. losses' = losses + 1 /\ reachable' \in BOOLEAN
        BY <2>7
      <4> QED
        BY <4>1, <4>2
    <3> QED
      BY <1>3, <1>5, <2>3, <3>1, <3>2, <3>3
  <2> QED
    BY <2>4, <2>6, <2>7
<1>6. CASE /\ d.ok /\ ~ ok
           /\ \/ /\ command \in Updates \union {"PREPARE", "SELECT"}
                 /\ conn' = d.conn
              \/ /\ command \in Updates \union {"SELECT"}
                 /\ d.conn.session = "transaction"
                 /\ conn' = [d.conn EXCEPT !.session = "idle", !.pending = {}]
           /\ UNCHANGED <<applied, server>>
  <2>1. CASE command \in Updates \union {"PREPARE", "SELECT"} /\ conn' = d.conn
    BY <1>2, <1>3, <1>6, <2>1 DEF Refused, TypeOK
  <2>2. CASE /\ command \in Updates \union {"SELECT"}
             /\ d.conn.session = "transaction"
             /\ conn' = [d.conn EXCEPT !.session = "idle", !.pending = {}]
    <3>1. /\ conn' \in Conns /\ conn'.session = "idle" /\ conn'.pending = {}
          /\ conn'.stmt = c.stmt /\ conn'.socket
      BY <1>2, <1>3, <2>2 DEF Conns
    <3> QED
      BY <1>3, <1>6, <2>2, <3>1 DEF Refused, TypeOK
  <2> QED
    BY <1>6, <2>1, <2>2
<1> QED
  BY <1>1, <1>4, <1>5, <1>6

-----------------------------------------------------------------------------
(* What steps that execute no command preserve. *)

LEMMA ResultsKept ==
  ASSUME IInv, applied' = applied, outcome' = outcome, \A n \in Units : careful'[n] => careful[n]
  PROVE  AllOrNothing' /\ OutcomeIsTrue' /\ AtMostOnce'
<1>1. Transactions' = Transactions
  BY DEF Transactions
<1>2. \A n \in Transactions : n \in Units
  BY DEF Transactions
<1> QED
  BY <1>1, <1>2 DEF IInv, AllOrNothing, OutcomeIsTrue, AtMostOnce

LEMMA CallerStays ==
  ASSUME IInv, UNCHANGED caller, UNCHANGED <<applied, bIsTransactionStarted, bIsValid, outcome>>,
         \A n \in Units : careful'[n] => careful[n],
         conn' \in Conns, conn'.session # "none" => conn'.socket,
         \/ conn'.session = conn.session /\ conn'.pending = conn.pending
         \/ conn'.session # "transaction" /\ conn'.pending = {},
         pc' = "execute" /\ conn'.stmt = "prepared" => pc = "execute" /\ conn.stmt = "prepared",
         pc' = "execute" \/ tries' # 0 => pc = "execute" \/ tries # 0
  PROVE  SessionIsHeld' /\ Untouched' /\ AllOrNothing' /\ OutcomeIsTrue' /\ AtMostOnce'
<1>1. SessionIsHeld'
  BY DEF IInv, SessionIsHeld, caller
<1>2. ToCome' \subseteq ToCome
  BY DEF ToCome, caller
<1>3. conn'.pending \subseteq conn.pending
  BY DEF IInv, SessionIsHeld
<1>4. Untouched'
  BY <1>2, <1>3 DEF IInv, Untouched, caller
<1> QED
  BY <1>1, <1>4, ResultsKept

LEMMA LoseConnectionStep ==
  ASSUME IInv, LoseConnection
  PROVE  IInv'
<1>1. UNCHANGED <<applied, adaptor, pc, tries, caller, failed, history>>
  BY DEF LoseConnection
<1>2. conn' \in Conns /\ conn'.session = "none" /\ conn'.pending = {}
      /\ conn'.stmt = conn.stmt /\ conn'.inTrans = conn.inTrans
  BY DEF LoseConnection, IInv, TypeOK, Conns
<1>3. TypeOK'
  <2>1. losses' \in Nat /\ reachable' \in BOOLEAN
    BY DEF LoseConnection, IInv, TypeOK
  <2> QED
    BY <1>1, <1>2, <2>1 DEF IInv, TypeOK, Conns, adaptor, caller, history
<1>4. SessionIsHeld' /\ Untouched' /\ AllOrNothing' /\ OutcomeIsTrue' /\ AtMostOnce'
  BY <1>1, <1>2, CallerStays DEF adaptor, history
<1>5. InAdaptor' /\ Told' /\ StillOpen'
  BY <1>1, <1>2 DEF IInv, InAdaptor, Told, StillOpen, adaptor, caller, history
<1> QED
  BY <1>3, <1>4, <1>5 DEF IInv

LEMMA ServerReturnsStep ==
  ASSUME IInv, ServerReturns
  PROVE  IInv'
<1>1. UNCHANGED <<conn, losses, applied, adaptor, pc, tries, caller, failed, history>>
  BY DEF ServerReturns
<1>2. conn \in Conns
  BY DEF IInv, TypeOK, Conns
<1>3. TypeOK'
  BY <1>1 DEF ServerReturns, IInv, TypeOK, adaptor, caller, history
<1>4. SessionIsHeld' /\ Untouched' /\ AllOrNothing' /\ OutcomeIsTrue' /\ AtMostOnce'
  BY <1>1, <1>2, CallerStays DEF IInv, SessionIsHeld, adaptor, history
<1>5. InAdaptor' /\ Told' /\ StillOpen'
  BY <1>1 DEF IInv, InAdaptor, Told, StillOpen, adaptor, caller, history
<1> QED
  BY <1>3, <1>4, <1>5 DEF IInv

LEMMA IsOpenStep ==
  ASSUME IInv, IsOpen
  PROVE  IInv'
<1>1. pc = "idle" /\ UNCHANGED <<server, applied, adaptor, pc, tries, caller, outcome>>
  BY DEF IsOpen
<1>2. PICK ok \in BOOLEAN, d \in Conns :
           /\ Ping(conn) = [ok |-> ok, conn |-> d]
           /\ d.session # "none" => d.socket
           /\ \/ d = conn /\ ok /\ conn.session # "none"
              \/ /\ conn.session = "none"
                 /\ Replaced(d)
                 /\ ~ d.inTrans
                 /\ ok => ~ conn.inTrans
                 /\ ~ ok => d.session = "none"
  BY Pinging DEF IInv
<1>3. conn' = d /\ failed' = (failed \/ ~ ok) /\ CallerGoesOn
  BY <1>2 DEF IsOpen
<1>4. \A n \in Units : careful'[n] => careful[n]
  BY <1>3 DEF CallerGoesOn, IInv, TypeOK
<1>5. TypeOK'
  <2>1. careful' \in [Units -> BOOLEAN] /\ failed' \in BOOLEAN
    BY <1>3 DEF CallerGoesOn, IInv, TypeOK
  <2> QED
    BY <1>1, <1>2, <1>3, <2>1 DEF IInv, TypeOK, Conns, adaptor, server, caller
<1>6. \/ conn'.session = conn.session /\ conn'.pending = conn.pending
      \/ conn'.session # "transaction" /\ conn'.pending = {}
  BY <1>2, <1>3 DEF Replaced
<1>7. SessionIsHeld' /\ Untouched' /\ AllOrNothing' /\ OutcomeIsTrue' /\ AtMostOnce'
  BY <1>1, <1>2, <1>3, <1>4, <1>6, CallerStays DEF adaptor
<1>8. InAdaptor'
  BY <1>1 DEF IInv, InAdaptor, adaptor, caller
<1>9. Told'
  BY <1>1, <1>2, <1>3 DEF IInv, Told, adaptor, caller, Replaced
<1>10. StillOpen'
  BY <1>1, <1>2, <1>3, <1>4 DEF IInv, StillOpen, adaptor, caller, Replaced
<1> QED
  BY <1>5, <1>7, <1>8, <1>9, <1>10 DEF IInv

(* A careful unit of work is in the adaptor only while ExecuteUpdate       *)
(* reacquires the connection.                                              *)
LEMMA CallConnectionStep ==
  ASSUME IInv, NEW entry \in {"open", "close"}, CallConnection(entry)
  PROVE  IInv'
<1>1. /\ pc = "idle" /\ pc' = entry
      /\ UNCHANGED <<conn, server, applied, adaptor, tries, caller, failed, outcome>>
      /\ CallerTouchesConnection
  BY DEF CallConnection
<1>2. /\ careful' \in [Units -> BOOLEAN]
      /\ \A n \in Units : careful'[n] => careful[n]
      /\ kind # "none" => ~ careful'[unit]
  BY <1>1 DEF CallerTouchesConnection, IInv, TypeOK
<1>3. TypeOK'
  BY <1>1, <1>2 DEF IInv, TypeOK, adaptor, server, caller
<1>4. SessionIsHeld' /\ Untouched' /\ AllOrNothing' /\ OutcomeIsTrue' /\ AtMostOnce'
  <2>1. conn' \in Conns /\ (conn'.session # "none" => conn'.socket)
    BY <1>1 DEF IInv, TypeOK, SessionIsHeld, Conns
  <2> QED
    BY <1>1, <1>2, <2>1, CallerStays DEF adaptor
<1>5. InAdaptor'
  BY <1>1, <1>2 DEF IInv, InAdaptor, caller
<1>6. Told'
  BY <1>1 DEF IInv, Told, caller
<1>7. StillOpen'
  BY <1>1, <1>2 DEF IInv, StillOpen, caller
<1> QED
  BY <1>3, <1>4, <1>5, <1>6, <1>7 DEF IInv

LEMMA TryCloseConnectionStep ==
  ASSUME IInv, TryCloseConnection
  PROVE  IInv'
<1>1. /\ pc = "close" /\ pc' = IF tries = 0 THEN "idle" ELSE "open"
      /\ UNCHANGED <<server, applied, adaptor, tries, caller, failed, history>>
  BY DEF TryCloseConnection
<1>2. PICK ok \in BOOLEAN, d \in Conns :
           /\ Ping(conn) = [ok |-> ok, conn |-> d]
           /\ d.session # "none" => d.socket
           /\ \/ d = conn /\ ok /\ conn.session # "none"
              \/ /\ conn.session = "none"
                 /\ Replaced(d)
                 /\ ~ d.inTrans
                 /\ ok => ~ conn.inTrans
                 /\ ~ ok => d.session = "none"
  BY Pinging DEF IInv
<1>3. /\ conn' \in Conns /\ conn'.session = "none" /\ conn'.pending = {}
      /\ conn'.stmt = Detach(conn.stmt)
  <2>1. CASE ok
    <3>1. conn' = [Disconnected(d) EXCEPT !.canReconnect = FALSE]
      BY <1>2, <2>1 DEF TryCloseConnection
    <3>2. PICK e \in Conns : e = Disconnected(d)
      BY Disconnecting
    <3>3. e.session = "none" /\ e.pending = {} /\ e.stmt = Detach(d.stmt)
      BY <3>2, Disconnecting
    <3>4. Detach(d.stmt) = Detach(conn.stmt)
      BY <1>2 DEF Detach, Replaced
    <3> QED
      BY <3>1, <3>2, <3>3, <3>4 DEF Conns
  <2>2. CASE ~ ok
    <3>1. conn' = d
      BY <1>2, <2>2 DEF TryCloseConnection
    <3> QED
      BY <1>2, <2>2, <3>1 DEF Replaced
  <2> QED
    BY <2>1, <2>2
<1>4. TypeOK'
  BY <1>1, <1>3 DEF IInv, TypeOK, Conns, adaptor, server, caller, history
<1>5. SessionIsHeld' /\ Untouched' /\ AllOrNothing' /\ OutcomeIsTrue' /\ AtMostOnce'
  BY <1>1, <1>3, CallerStays DEF adaptor, history
<1>6. InAdaptor'
  BY <1>1, <1>3 DEF IInv, InAdaptor, caller, history, Detach
<1>7. Told'
  BY <1>1, <1>3 DEF IInv, Told, caller, history
<1>8. StillOpen'
  <2>1. kind = "transaction" /\ careful[unit] => ~ failed /\ tries # 0 /\ conn.stmt = "detached"
    BY <1>1 DEF IInv, InAdaptor
  <2>2. kind = "transaction" /\ careful[unit] => pc' # "idle" /\ conn'.stmt = "detached"
    BY <1>1, <1>3, <2>1 DEF Detach
  <2> QED
    BY <1>1, <2>2 DEF IInv, StillOpen, caller, history
<1> QED
  BY <1>4, <1>5, <1>6, <1>7, <1>8 DEF IInv

LEMMA ReopenedStep ==
  ASSUME IInv, pc \in {"open", "connect"}, NEW c \in Conns, Reopened(c),
         c.session # "none" => c.socket,
         c.stmt = conn.stmt \/ c.stmt = Detach(conn.stmt),
         \/ c.session = conn.session /\ c.pending = conn.pending
         \/ c.session # "transaction" /\ c.pending = {},
         UNCHANGED <<server, applied, bIsTransactionStarted, bIsValid, caller, history>>
  PROVE  IInv'
<1>1. /\ conn' = c /\ tries' = 0 /\ pc' = IF tries = 0 THEN "idle" ELSE "execute"
      /\ bConnectionReacquired' = (bConnectionReacquired \/ tries # 0)
      /\ failed' = failed
  BY DEF Reopened
<1>2. TypeOK'
  BY <1>1 DEF IInv, TypeOK, Conns, server, caller, history
<1>3. tries # 0 => conn.stmt = "detached" /\ c.stmt = "detached"
  BY DEF IInv, InAdaptor, Detach
<1>4. SessionIsHeld' /\ Untouched' /\ AllOrNothing' /\ OutcomeIsTrue' /\ AtMostOnce'
  BY <1>1, <1>3, CallerStays DEF history
<1>5. InAdaptor'
  BY <1>1, <1>3 DEF IInv, InAdaptor, caller, history
<1>6. Told'
  BY <1>1 DEF IInv, Told, caller, history
<1>7. StillOpen'
  <2>1. kind = "transaction" /\ careful[unit] => tries # 0
    BY DEF IInv, InAdaptor
  <2>2. kind = "transaction" /\ careful[unit] => pc' # "idle" /\ conn'.stmt = "detached"
    BY <1>1, <1>3, <2>1
  <2> QED
    BY <1>1, <2>2 DEF IInv, StillOpen, caller, history
<1> QED
  BY <1>2, <1>4, <1>5, <1>6, <1>7 DEF IInv

LEMMA TryOpenConnectionStep ==
  ASSUME IInv, TryOpenConnection
  PROVE  IInv'
<1>1. /\ pc = "open"
      /\ UNCHANGED <<server, applied, bIsTransactionStarted, bIsValid, caller, history>>
  BY DEF TryOpenConnection
<1>2. PICK ok \in BOOLEAN, d \in Conns :
           /\ Ping(conn) = [ok |-> ok, conn |-> d]
           /\ d.session # "none" => d.socket
           /\ \/ d = conn /\ ok /\ conn.session # "none"
              \/ /\ conn.session = "none"
                 /\ Replaced(d)
                 /\ ~ d.inTrans
                 /\ ok => ~ conn.inTrans
                 /\ ~ ok => d.session = "none"
  BY Pinging DEF IInv
<1>3. /\ d.stmt = conn.stmt \/ d.stmt = Detach(conn.stmt)
      /\ \/ d.session = conn.session /\ d.pending = conn.pending
         \/ d.session # "transaction" /\ d.pending = {}
  BY <1>2 DEF Replaced
<1>4. CASE ok
  <2>1. Reopened(d)
    BY <1>2, <1>4 DEF TryOpenConnection
  <2> QED
    BY <1>1, <1>2, <1>3, <2>1, ReopenedStep
<1>5. CASE ~ ok
  <2>1. conn' = d /\ pc' = "connect" /\ UNCHANGED <<tries, bConnectionReacquired, failed>>
    BY <1>2, <1>5 DEF TryOpenConnection
  <2>2. TypeOK'
    BY <1>1, <2>1 DEF IInv, TypeOK, Conns, server, caller, history
  <2>3. SessionIsHeld' /\ Untouched' /\ AllOrNothing' /\ OutcomeIsTrue' /\ AtMostOnce'
    BY <1>1, <1>2, <1>3, <2>1, CallerStays DEF history
  <2>4. InAdaptor'
    BY <1>1, <1>3, <2>1 DEF IInv, InAdaptor, caller, history, Detach
  <2>5. Told'
    BY <1>1, <1>3, <2>1 DEF IInv, Told, caller, history
  <2>6. StillOpen'
    <3>1. kind = "transaction" /\ careful[unit] => ~ failed /\ tries # 0 /\ conn.stmt = "detached"
      BY <1>1 DEF IInv, InAdaptor
    <3>2. kind = "transaction" /\ careful[unit] => pc' # "idle" /\ conn'.stmt = "detached"
      BY <1>3, <2>1, <3>1 DEF Detach
    <3> QED
      BY <1>1, <2>1, <3>2 DEF IInv, StillOpen, caller, history
  <2> QED
    BY <2>2, <2>3, <2>4, <2>5, <2>6 DEF IInv
<1> QED
  BY <1>4, <1>5

LEMMA RealConnectStep ==
  ASSUME IInv, RealConnect
  PROVE  IInv'
<1>1. /\ pc = "connect" /\ conn \in Conns /\ tries \in Nat
      /\ UNCHANGED <<server, applied, bIsTransactionStarted, bIsValid, caller, history>>
  BY DEF RealConnect, IInv, TypeOK, Conns
<1>2. CASE reachable /\ Reopened(Connected(conn))
  <2>1. PICK c \in Conns : c = Connected(conn)
    BY <1>1, Connecting
  <2>2. c.session = "idle" /\ c.pending = {} /\ c.socket /\ c.stmt = conn.stmt
    BY <1>1, <2>1, Connecting
  <2>3. Reopened(c)
    BY <1>2, <2>1
  <2> QED
    BY <1>1, <2>2, <2>3, ReopenedStep
<1>3. CASE /\ ~ reachable
           /\ conn' = [conn EXCEPT !.canReconnect = FALSE]
           /\ tries' = IF tries = 0 THEN 0 ELSE tries - 1
           /\ pc' = IF tries > 1 THEN "close" ELSE "idle"
           /\ failed' = (failed \/ tries <= 1)
           /\ UNCHANGED bConnectionReacquired
  <2>1. /\ conn' \in Conns /\ conn'.session = conn.session /\ conn'.pending = conn.pending
        /\ conn'.socket = conn.socket /\ conn'.stmt = conn.stmt
    BY <1>1, <1>3 DEF Conns
  <2>2. \/ /\ tries <= 1 /\ tries' = 0 /\ pc' = "idle" /\ failed' = TRUE
        \/ /\ tries > 1 /\ tries' = tries - 1 /\ tries' \in Nat /\ tries' # 0
           /\ pc' = "close" /\ failed' = failed
    <3>1. CASE tries <= 1
      <4>1. tries' = 0 /\ pc' = "idle"
        BY <1>1, <1>3, <3>1
      <4>2. failed' = TRUE
        BY <1>3, <3>1
      <4> QED
        BY <3>1, <4>1, <4>2
    <3>2. CASE tries > 1
      <4>1. failed \in BOOLEAN
        BY DEF IInv, TypeOK
      <4>2. failed' = failed
        BY <1>1, <1>3, <3>2, <4>1
      <4> QED
        BY <1>1, <1>3, <3>2, <4>2
    <3>3. tries <= 1 \/ tries > 1
      BY <1>1
    <3> QED
      BY <3>1, <3>2, <3>3
  <2>3. TypeOK'
    <3>1. bConnectionReacquired' = bConnectionReacquired
      BY <1>3
    <3>2. failed' \in BOOLEAN
      <4>1. failed \in BOOLEAN
        BY DEF IInv, TypeOK
      <4>2. failed' = TRUE \/ failed' = failed
        BY <2>2
      <4> QED
        BY <4>1, <4>2
    <3>3. tries' \in Nat
      BY <2>2
    <3>4. pc' \in {"idle", "close", "open", "connect", "execute"}
      BY <2>2
    <3> QED
      BY <1>1, <2>1, <3>1, <3>2, <3>3, <3>4 DEF IInv, TypeOK, Conns, server, caller, history
  <2>4. SessionIsHeld' /\ Untouched' /\ AllOrNothing' /\ OutcomeIsTrue' /\ AtMostOnce'
    <3>1. conn'.session # "none" => conn'.socket
      BY <2>1 DEF IInv, SessionIsHeld
    <3>2. pc' # "execute" /\ (tries' # 0 => tries # 0)
      BY <1>1, <2>2
    <3> QED
      BY <1>1, <2>1, <3>1, <3>2, CallerStays DEF history
  <2>5. InAdaptor'
    BY <1>1, <2>1, <2>2 DEF IInv, InAdaptor, caller, history
  <2>6. Told'
    BY <1>1, <2>1, <2>2 DEF IInv, Told, caller, history
  <2>7. StillOpen'
    <3>1. kind = "transaction" /\ careful[unit] => tries # 0 /\ conn.stmt = "detached"
      BY <1>1 DEF IInv, InAdaptor
    <3>2. kind = "transaction" /\ careful[unit] =>
            failed' \/ (pc' # "idle" /\ conn'.stmt = "detached")
      BY <2>1, <2>2, <3>1
    <3> QED
      BY <1>1, <3>2 DEF IInv, StillOpen, caller, history
  <2> QED
    BY <2>3, <2>4, <2>5, <2>6, <2>7 DEF IInv
<1> QED
  BY <1>2, <1>3 DEF RealConnect

-----------------------------------------------------------------------------
(* The steps of a unit of work. *)

LEMMA AppliedAfter ==
  ASSUME TypeOK, NEW command, NEW c, NEW ok, Answered(command, c, ok)
  PROVE  \A x \in Units \X Updates :
           /\ x \in MadePermanent(command, c) => applied'[x] = applied[x] + 1
           /\ x \notin MadePermanent(command, c) => applied'[x] = applied[x]
<1> DEFINE D == Units \X Updates
           M == MadePermanent(command, c)
<1>1. applied \in [D -> Nat] /\ DOMAIN applied = D
  BY DEF TypeOK
<1>2. applied' = [x \in D |-> applied[x] + IF x \in M THEN 1 ELSE 0]
  BY <1>1 DEF Answered
<1> HIDE DEF D, M
<1>3. \A x \in D : /\ x \in M => applied'[x] = applied[x] + 1
                   /\ x \notin M => applied'[x] = applied[x]
  BY <1>1, <1>2
<1> QED
  BY <1>3 DEF D, M

LEMMA NothingPermanent ==
  ASSUME TypeOK, applied' \in [Units \X Updates -> Nat],
         NEW command, NEW c, NEW ok, Answered(command, c, ok), MadePermanent(command, c) = {}
  PROVE  applied' = applied
<1> DEFINE D == Units \X Updates
<1>1. applied \in [D -> Nat] /\ applied' \in [D -> Nat]
  BY DEF TypeOK
<1>2. \A x \in D : applied'[x] = applied[x]
  BY AppliedAfter
<1> HIDE DEF D
<1> QED
  BY <1>1, <1>2

(* A unit of work begins on a connection with nothing pending. *)
LEMMA BeginStep ==
  ASSUME IInv, NEW k \in {"transaction", "autocommit"}, BeginUnit(k),
         conn' \in Conns, conn'.session # "none" => conn'.socket, conn'.pending = {},
         conn'.session = "transaction" =>
           k = "transaction" /\ bIsTransactionStarted' /\ bIsValid',
         reachable' \in BOOLEAN, losses' \in Nat, applied' = applied,
         failed' \in BOOLEAN, bIsTransactionStarted' \in BOOLEAN, bIsValid' \in BOOLEAN,
         k = "transaction" => failed' \/ (conn'.session = "transaction" /\ conn'.inTrans)
  PROVE  IInv'
<1> DEFINE o == IF k = "transaction" THEN "open" ELSE k
<1>1. /\ pc = "idle" /\ kind = "none" /\ unit \in Nat /\ unit < MaxUnits /\ unit' = unit + 1
      /\ kind' = k /\ todo' = Updates /\ outcome' = [outcome EXCEPT ![unit'] = o]
      /\ UNCHANGED <<bConnectionReacquired, pc, tries, current, careful>>
  BY BoundsAssumption DEF BeginUnit, IInv, TypeOK
<1>2. unit' \in Units /\ unit' \in 0 .. MaxUnits /\ unit' # 0 /\ unit' > unit
  BY <1>1, BoundsAssumption
<1>3. /\ outcome'[unit'] = o /\ \A n \in Units : n # unit' => outcome'[n] = outcome[n]
      /\ outcome' \in [Units -> {"none", "open", "committed", "rolledBack", "inDoubt", "autocommit"}]
  BY <1>1, <1>2 DEF IInv, TypeOK
<1>4. \A u \in Updates : <<unit', u>> \in DOMAIN applied /\ applied[<<unit', u>>] = 0
  BY <1>1, <1>2 DEF IInv, TypeOK, Untouched
<1>5. o \in {"open", "autocommit"} /\ (o = "open" <=> k = "transaction")
  OBVIOUS
<1> HIDE DEF o
<1>6. TypeOK'
  BY <1>1, <1>2, <1>3 DEF IInv, TypeOK, Conns
<1>7. SessionIsHeld'
  BY <1>1 DEF SessionIsHeld
<1>8. InAdaptor'
  BY <1>1 DEF IInv, InAdaptor
<1>9. Untouched'
  <2>1. \A x \in DOMAIN applied : x[1] \in Nat
    BY BoundsAssumption DEF IInv, TypeOK
  <2>2. \A x \in DOMAIN applied : x[1] > unit' \/ x[1] = unit' => x[1] > unit
    BY <1>1, <2>1
  <2>3. pc' = "idle" /\ tries' = 0 /\ kind' # "none"
    BY <1>1 DEF IInv, InAdaptor
  <2> QED
    BY <2>2, <2>3 DEF IInv, Untouched
<1>10. Told'
  <2>1. \A n \in Units : n > unit' => n # unit' /\ n > unit
    BY <1>1, <1>2, BoundsAssumption
  <2>2. tries' = 0
    BY <1>1 DEF IInv, InAdaptor
  <2> QED
    BY <1>1, <1>3, <1>5, <2>1, <2>2 DEF IInv, Told
<1>11. StillOpen'
  <2>1. SUFFICES ASSUME NEW n \in Units, careful'[n], outcome'[n] = "open"
                 PROVE  /\ \A u \in Updates : applied'[<<n, u>>] = 0
                        /\ kind' = "transaction" /\ n = unit' /\ ~ failed' =>
                              /\ conn'.session = "transaction" /\ conn'.inTrans
                              /\ \A u \in Updates : u \in todo'
    BY DEF StillOpen
  <2>2. CASE n = unit'
    BY <1>1, <1>4, <2>2
  <2>3. CASE n # unit'
    BY <1>1, <1>3, <2>1, <2>3 DEF IInv, StillOpen
  <2> QED
    BY <2>2, <2>3
<1>12. AllOrNothing' /\ OutcomeIsTrue' /\ AtMostOnce'
  <2>1. \A n \in Transactions' : n = unit' \/ (n \in Transactions /\ outcome'[n] = outcome[n])
    BY <1>3 DEF Transactions
  <2>2. outcome'[unit'] \notin {"committed", "rolledBack"}
    BY <1>3, <1>5
  <2>3. AllOrNothing'
    BY <1>1, <1>4, <2>1 DEF IInv, AllOrNothing
  <2>4. OutcomeIsTrue'
    BY <1>1, <2>1, <2>2 DEF IInv, OutcomeIsTrue
  <2> QED
    BY <2>3, <2>4 DEF IInv, AtMostOnce
<1> QED
  BY <1>6, <1>7, <1>8, <1>9, <1>10, <1>11, <1>12 DEF IInv

LEMMA StartAutocommitStep ==
  ASSUME IInv, StartAutocommit
  PROVE  IInv'
<1>1. /\ BeginUnit("autocommit") /\ kind = "none" /\ failed' = FALSE
      /\ UNCHANGED <<conn, server, applied, bIsTransactionStarted, bIsValid>>
  BY DEF StartAutocommit, BeginUnit
<1>2. conn \in Conns /\ conn.session # "transaction" /\ conn.pending = {}
      /\ (conn.session # "none" => conn.socket)
  BY <1>1 DEF IInv, TypeOK, Conns, SessionIsHeld
<1>3. reachable' \in BOOLEAN /\ losses' \in Nat
      /\ bIsTransactionStarted' \in BOOLEAN /\ bIsValid' \in BOOLEAN
  BY <1>1 DEF IInv, TypeOK, server
<1> QED
  BY <1>1, <1>2, <1>3, BeginStep

LEMMA StartTransactionStep ==
  ASSUME IInv, StartTransaction
  PROVE  IInv'
<1>1. BeginUnit("transaction") /\ kind = "none"
  BY DEF StartTransaction, BeginUnit
<1>2. conn \in Conns /\ conn.session # "transaction" /\ conn.pending = {}
      /\ (conn.session # "none" => conn.socket)
  BY <1>1 DEF IInv, TypeOK, Conns, SessionIsHeld
<1>3. CASE /\ bIsTransactionStarted
           /\ bIsValid' = FALSE
           /\ failed' = TRUE
           /\ UNCHANGED <<conn, server, applied, bIsTransactionStarted>>
  <2>1. reachable' \in BOOLEAN /\ losses' \in Nat /\ bIsTransactionStarted' \in BOOLEAN
    BY <1>3 DEF IInv, TypeOK, server
  <2> QED
    BY <1>1, <1>2, <1>3, <2>1, BeginStep
<1>4. CASE \E ok \in BOOLEAN :
             /\ Command("START TRANSACTION", FALSE, ok)
             /\ bIsTransactionStarted' = ok
             /\ bIsValid' = ok
             /\ failed' = ~ ok
  <2>1. PICK ok \in BOOLEAN :
          /\ Command("START TRANSACTION", FALSE, ok)
          /\ bIsTransactionStarted' = ok
          /\ bIsValid' = ok
          /\ failed' = ~ ok
    BY <1>4
  <2>2. "START TRANSACTION" \in Commands /\ "START TRANSACTION" \notin Updates
    BY UpdatesAssumption DEF Commands
  <2>3. /\ conn' \in Conns /\ reachable' \in BOOLEAN /\ losses' \in Nat
        /\ applied' \in [Units \X Updates -> Nat]
        /\ conn'.session # "none" => conn'.socket
        /\ \/ Undelivered(ok)
           \/ \E c \in Conns :
                /\ Carries(c, FALSE)
                /\ \/ Answered("START TRANSACTION", c, ok)
                   \/ Refused("START TRANSACTION", c, ok)
    BY <2>1, <2>2, CommandEffect DEF IInv
  <2>4. /\ applied' = applied /\ conn'.pending = {}
        /\ ok => conn'.session = "transaction" /\ conn'.inTrans
        /\ ~ ok => conn'.session # "transaction"
    <3>1. CASE Undelivered(ok)
      BY <3>1 DEF Undelivered
    <3>2. CASE \E c \in Conns :
                /\ Carries(c, FALSE)
                /\ \/ Answered("START TRANSACTION", c, ok)
                   \/ Refused("START TRANSACTION", c, ok)
      <4>1. PICK c \in Conns :
                /\ Carries(c, FALSE)
                /\ \/ Answered("START TRANSACTION", c, ok)
                   \/ Refused("START TRANSACTION", c, ok)
        BY <3>2
      <4>2. ~ Refused("START TRANSACTION", c, ok)
        BY UpdatesAssumption DEF Refused
      <4>3. c.pending = {}
        <5>1. Carries(c, FALSE)
          BY <4>1
        <5>2. c = conn \/ Replaced(c)
          BY <5>1 DEF Carries
        <5> QED
          BY <1>2, <5>2 DEF Replaced
      <4>4. MadePermanent("START TRANSACTION", c) = {}
        BY <2>2, <4>3, Permanent
      <4>5. applied' = applied
        BY <2>3, <4>1, <4>2, <4>4, NothingPermanent DEF IInv
      <4>6. Executed("START TRANSACTION", c).session = "transaction"
            /\ Executed("START TRANSACTION", c).pending = {}
        BY <2>2, Executing
      <4> QED
        BY <4>1, <4>2, <4>5, <4>6 DEF Answered
    <3> QED
      BY <2>3, <3>1, <3>2
  <2> QED
    BY <1>1, <2>1, <2>3, <2>4, BeginStep
<1> QED
  BY <1>3, <1>4 DEF StartTransaction

(* A unit of work has nothing more to do, and no transaction is open. *)
LEMMA QuietStep ==
  ASSUME IInv, pc = "idle", kind # "none", UNCHANGED <<pc, tries, unit, current, careful>>,
         kind' \in {kind, "none"}, todo' = {},
         conn' \in Conns, conn'.session # "none" => conn'.socket,
         conn'.session # "transaction", conn'.pending = {},
         reachable' \in BOOLEAN, losses' \in Nat, applied' = applied,
         failed' \in BOOLEAN, bIsTransactionStarted' \in BOOLEAN, bIsValid' \in BOOLEAN,
         bConnectionReacquired' = bConnectionReacquired,
         \/ outcome' = outcome /\ (kind' # "none" /\ outcome[unit] = "open" => failed')
         \/ outcome[unit] = "open" /\ outcome' = [outcome EXCEPT ![unit] = "rolledBack"]
  PROVE  IInv'
<1>1. unit \in Units /\ unit # 0 /\ unit \in Nat
  BY BoundsAssumption DEF IInv, TypeOK
<1>2. /\ outcome' \in [Units -> {"none", "open", "committed", "rolledBack", "inDoubt", "autocommit"}]
      /\ \A n \in Units : n # unit => outcome'[n] = outcome[n]
      /\ \/ outcome'[unit] = outcome[unit] /\ (kind' # "none" /\ outcome[unit] = "open" => failed')
         \/ outcome[unit] = "open" /\ outcome'[unit] = "rolledBack"
  BY <1>1 DEF IInv, TypeOK
<1>3. TypeOK'
  BY <1>2 DEF IInv, TypeOK, Conns
<1>4. SessionIsHeld' /\ InAdaptor'
  BY DEF IInv, SessionIsHeld, InAdaptor
<1>5. Untouched'
  <2>1. tries = 0
    BY DEF IInv, InAdaptor
  <2> QED
    BY <2>1 DEF IInv, Untouched, ToCome
<1>6. Told'
  <2>1. \A n \in Units : n > unit => n # unit
    BY <1>1, BoundsAssumption
  <2>2. tries = 0
    BY DEF IInv, InAdaptor
  <2>3. kind' = "autocommit" => outcome'[unit] = "autocommit"
    BY <1>2 DEF IInv, Told
  <2>4. kind' = "transaction" => outcome'[unit] \in {"open", "committed", "rolledBack", "inDoubt"}
    BY <1>2 DEF IInv, Told
  <2>5. \A n \in Units : n > unit' => outcome'[n] = "none"
    BY <1>2, <2>1 DEF IInv, Told
  <2> QED
    BY <2>2, <2>3, <2>4, <2>5 DEF Told
<1>7. StillOpen'
  <2>1. \A n \in Units : outcome'[n] = "open" => outcome[n] = "open"
    BY <1>2
  <2>2. kind' # "none" /\ outcome'[unit] = "open" => failed'
    BY <1>2
  <2> QED
    BY <2>1, <2>2 DEF IInv, StillOpen
<1>8. AllOrNothing' /\ OutcomeIsTrue' /\ AtMostOnce'
  <2>1. Transactions' = Transactions
    BY <1>1, <1>2 DEF Transactions
  <2>2. OutcomeIsTrue'
    <3>1. \A n \in Transactions : n \in Units
      BY DEF Transactions
    <3>2. outcome[unit] = "open" /\ careful[unit] => \A u \in Updates : applied[<<unit, u>>] = 0
      BY <1>1 DEF IInv, StillOpen
    <3> QED
      BY <1>2, <2>1, <3>1, <3>2 DEF IInv, OutcomeIsTrue
  <2> QED
    BY <2>1, <2>2 DEF IInv, AllOrNothing, AtMostOnce
<1> QED
  BY <1>3, <1>4, <1>5, <1>6, <1>7, <1>8 DEF IInv

LEMMA RollbackEffect ==
  ASSUME IInv, Rollback
  PROVE  /\ conn' \in Conns /\ (conn'.session # "none" => conn'.socket)
         /\ conn'.session # "transaction" /\ conn'.pending = {}
         /\ reachable' \in BOOLEAN /\ losses' \in Nat /\ applied' = applied
         /\ bIsTransactionStarted' \in BOOLEAN
         /\ \/ outcome' = outcome /\ (outcome[unit] = "open" => bIsTransactionStarted')
            \/ outcome[unit] = "open" /\ outcome' = [outcome EXCEPT ![unit] = "rolledBack"]
<1>1. PICK ok \in BOOLEAN :
        /\ Command("ROLLBACK", FALSE, ok)
        /\ bIsTransactionStarted' = ~ ok
        /\ outcome' = IF ok /\ outcome[unit] = "open"
                      THEN [outcome EXCEPT ![unit] = "rolledBack"] ELSE outcome
  BY DEF Rollback
<1>2. "ROLLBACK" \in Commands /\ "ROLLBACK" \notin Updates
  BY UpdatesAssumption DEF Commands
<1>3. /\ conn' \in Conns /\ reachable' \in BOOLEAN /\ losses' \in Nat
      /\ applied' \in [Units \X Updates -> Nat]
      /\ conn'.session # "none" => conn'.socket
      /\ \/ Undelivered(ok)
         \/ \E c \in Conns :
              /\ Carries(c, FALSE)
              /\ Answered("ROLLBACK", c, ok) \/ Refused("ROLLBACK", c, ok)
  BY <1>1, <1>2, CommandEffect DEF IInv
<1>4. applied' = applied /\ conn'.pending = {} /\ conn'.session # "transaction"
  <2>1. CASE Undelivered(ok)
    BY <2>1 DEF Undelivered
  <2>2. ASSUME NEW c \in Conns, Answered("ROLLBACK", c, ok)
        PROVE  applied' = applied /\ conn'.pending = {} /\ conn'.session # "transaction"
    <3>1. MadePermanent("ROLLBACK", c) = {}
      BY <1>2, Permanent
    <3>2. applied' = applied
      BY <1>3, <2>2, <3>1, NothingPermanent DEF IInv
    <3>3. Executed("ROLLBACK", c).session = "idle" /\ Executed("ROLLBACK", c).pending = {}
      BY <1>2, Executing
    <3> QED
      BY <2>2, <3>2, <3>3 DEF Answered
  <2>3. \A c \in Conns : ~ Refused("ROLLBACK", c, ok)
    BY <1>2 DEF Refused
  <2> QED
    BY <1>3, <2>1, <2>2, <2>3
<1>5. bIsTransactionStarted' \in BOOLEAN
  BY <1>1
<1>6. \/ outcome' = outcome /\ (outcome[unit] = "open" => bIsTransactionStarted')
      \/ outcome[unit] = "open" /\ outcome' = [outcome EXCEPT ![unit] = "rolledBack"]
  BY <1>1
<1> QED
  BY <1>3, <1>4, <1>5, <1>6

LEMMA RollbackTransactionStep ==
  ASSUME IInv, RollbackTransaction
  PROVE  IInv'
<1>1. /\ pc = "idle" /\ kind = "transaction" /\ Rollback /\ todo' = {}
      /\ failed' = (failed \/ bIsTransactionStarted')
      /\ UNCHANGED <<bConnectionReacquired, bIsValid, pc, tries, unit, kind, current, careful>>
  BY DEF RollbackTransaction
<1>2. failed' \in BOOLEAN /\ bIsValid' \in BOOLEAN /\ (bIsTransactionStarted' => failed')
  BY <1>1 DEF IInv, TypeOK
<1> QED
  BY <1>1, <1>2, RollbackEffect, QuietStep

LEMMA EndTransactionStep ==
  ASSUME IInv, EndTransaction
  PROVE  IInv'
<1>1. /\ pc = "idle" /\ kind # "none" /\ kind' = "none" /\ todo' = {}
      /\ bIsValid' = FALSE /\ failed' = FALSE /\ Rollback
      /\ UNCHANGED <<bConnectionReacquired, pc, tries, unit, current, careful>>
  BY DEF EndTransaction, EndUnit
<1>2. failed' \in BOOLEAN /\ bIsValid' \in BOOLEAN
  BY <1>1
<1> QED
  BY <1>1, <1>2, RollbackEffect, QuietStep

LEMMA EndWithoutRollbackStep ==
  ASSUME IInv, EndWithoutRollback
  PROVE  IInv'
<1>1. /\ pc = "idle" /\ kind # "none" /\ kind' = "none" /\ todo' = {}
      /\ bIsValid' = FALSE /\ failed' = FALSE /\ ~ (bIsValid /\ bIsTransactionStarted)
      /\ UNCHANGED <<bConnectionReacquired, pc, tries, unit, current, careful>>
      /\ UNCHANGED <<conn, server, applied, bIsTransactionStarted, outcome>>
  BY DEF EndWithoutRollback, EndUnit
<1>2. /\ conn' \in Conns /\ (conn'.session # "none" => conn'.socket)
      /\ conn'.session # "transaction" /\ conn'.pending = {}
  BY <1>1 DEF IInv, TypeOK, Conns, SessionIsHeld
<1>3. /\ reachable' \in BOOLEAN /\ losses' \in Nat /\ failed' \in BOOLEAN
      /\ bIsTransactionStarted' \in BOOLEAN /\ bIsValid' \in BOOLEAN
  BY <1>1 DEF IInv, TypeOK, server
<1> QED
  BY <1>1, <1>2, <1>3, QuietStep

(* What preparing or executing a query does to the session. *)
LEMMA QueryEffect ==
  ASSUME IInv, NEW command \in {"PREPARE", "SELECT"}, NEW isPrepared \in BOOLEAN,
         NEW ok \in BOOLEAN, Command(command, isPrepared, ok)
  PROVE  /\ conn' \in Conns /\ (conn'.session # "none" => conn'.socket)
         /\ reachable' \in BOOLEAN /\ losses' \in Nat /\ applied' = applied
         /\ \/ conn'.session = conn.session /\ conn'.pending = conn.pending
            \/ conn'.session # "transaction" /\ conn'.pending = {}
         /\ ok => \/ /\ conn.session # "none"
                     /\ conn'.session = conn.session /\ conn'.pending = conn.pending
                     /\ conn'.inTrans <=> conn.session = "transaction"
                  \/ conn.session = "none" /\ ~ conn.inTrans /\ ~ isPrepared
         /\ ok /\ command = "PREPARE" => conn'.stmt = "prepared"
<1>1. command \in Commands /\ command \notin Updates
  BY UpdatesAssumption DEF Commands
<1>2. /\ conn' \in Conns /\ reachable' \in BOOLEAN /\ losses' \in Nat
      /\ applied' \in [Units \X Updates -> Nat]
      /\ conn'.session # "none" => conn'.socket
      /\ \/ Undelivered(ok)
         \/ \E c \in Conns :
              /\ Carries(c, isPrepared)
              /\ Answered(command, c, ok) \/ Refused(command, c, ok)
  BY <1>1, CommandEffect DEF IInv
<1>3. CASE Undelivered(ok)
  BY <1>2, <1>3 DEF Undelivered
<1>4. ASSUME NEW c \in Conns, Carries(c, isPrepared)
      PROVE  /\ \/ conn.session # "none" /\ c.session = conn.session /\ c.pending = conn.pending
                \/ /\ conn.session = "none" /\ ~ conn.inTrans /\ ~ isPrepared
                   /\ c.session = "idle" /\ c.pending = {}
  BY <1>4 DEF Carries, Replaced
<1>5. ASSUME NEW c \in Conns, Carries(c, isPrepared), Answered(command, c, ok)
      PROVE  /\ applied' = applied
             /\ \/ conn'.session = conn.session /\ conn'.pending = conn.pending
                \/ conn'.session # "transaction" /\ conn'.pending = {}
             /\ ok => \/ /\ conn.session # "none"
                         /\ conn'.session = conn.session /\ conn'.pending = conn.pending
                         /\ conn'.inTrans <=> conn.session = "transaction"
                      \/ conn.session = "none" /\ ~ conn.inTrans /\ ~ isPrepared
             /\ ok /\ command = "PREPARE" => conn'.stmt = "prepared"
  <2>1. MadePermanent(command, c) = {}
    BY <1>1, Permanent
  <2>2. applied' = applied
    BY <1>2, <1>5, <2>1, NothingPermanent DEF IInv
  <2>3. PICK e : e = Executed(command, c)
    OBVIOUS
  <2>4. e.session = c.session /\ e.pending = c.pending /\ (command = "PREPARE" => e.stmt = "prepared")
    BY <1>1, <2>3, Executing
  <2>5. \/ /\ ok
           /\ conn'.session = e.session /\ conn'.pending = e.pending /\ conn'.stmt = e.stmt
           /\ conn'.inTrans <=> e.session = "transaction"
        \/ ~ ok /\ conn'.session = "none" /\ conn'.pending = {}
    BY <1>5, <2>3 DEF Answered
  <2> QED
    BY <1>4, <1>5, <2>2, <2>4, <2>5
<1>6. ASSUME NEW c \in Conns, Carries(c, isPrepared), Refused(command, c, ok)
      PROVE  /\ applied' = applied /\ ~ ok
             /\ \/ conn'.session = conn.session /\ conn'.pending = conn.pending
                \/ conn'.session # "transaction" /\ conn'.pending = {}
  BY <1>4, <1>6 DEF Refused
<1> QED
  BY <1>2, <1>3, <1>5, <1>6

LEMMA PrepareStep ==
  ASSUME IInv, NEW u \in Updates \union {"SELECT"}, Prepare(u)
  PROVE  IInv'
<1>1. /\ pc = "idle" /\ kind # "none" /\ u \in todo \union {"SELECT"} /\ CallerGoesOn
      /\ bConnectionReacquired' = FALSE
      /\ UNCHANGED <<bIsTransactionStarted, bIsValid, tries, unit, kind, outcome>>
  BY DEF Prepare
<1>2. PICK ok \in BOOLEAN :
        /\ Command("PREPARE", FALSE, ok)
        /\ ok => pc' = "execute" /\ todo' = todo \ {u} /\ current' = u /\ failed' = failed
        /\ ~ ok => failed' = TRUE /\ pc' = pc /\ todo' = todo /\ current' = current
  BY DEF Prepare
<1>3. /\ conn' \in Conns /\ (conn'.session # "none" => conn'.socket)
      /\ reachable' \in BOOLEAN /\ losses' \in Nat /\ applied' = applied
      /\ \/ conn'.session = conn.session /\ conn'.pending = conn.pending
         \/ conn'.session # "transaction" /\ conn'.pending = {}
      /\ ok => \/ /\ conn.session # "none"
                  /\ conn'.session = conn.session /\ conn'.pending = conn.pending
                  /\ conn'.inTrans <=> conn.session = "transaction"
               \/ conn.session = "none" /\ ~ conn.inTrans
      /\ ok => conn'.stmt = "prepared"
  BY <1>2, QueryEffect
<1>4. /\ careful' \in [Units -> BOOLEAN]
      /\ \A n \in Units : careful'[n] => careful[n]
      /\ failed => ~ careful'[unit]
  BY <1>1 DEF CallerGoesOn, IInv, TypeOK
<1>5. tries = 0
  BY <1>1 DEF IInv, InAdaptor
<1>6. TypeOK'
  <2>1. failed' \in BOOLEAN
    BY <1>2 DEF IInv, TypeOK
  <2>2. pc' \in {"idle", "execute"} /\ todo' \subseteq todo /\ current' \in Updates \union {"SELECT"}
    BY <1>1, <1>2 DEF IInv, TypeOK
  <2> QED
    BY <1>1, <1>3, <1>4, <2>1, <2>2 DEF IInv, TypeOK, Conns
<1>7. SessionIsHeld'
  BY <1>1, <1>3 DEF IInv, SessionIsHeld
<1>8. InAdaptor'
  BY <1>1, <1>2, <1>3, <1>4, <1>5 DEF IInv, InAdaptor
<1>9. Untouched'
  <2>1. "SELECT" \notin Updates
    BY UpdatesAssumption
  <2>2. todo' \subseteq todo /\ (pc' = "execute" => current' \in todo \union {"SELECT"})
    BY <1>1, <1>2
  <2>3. \A x \in DOMAIN applied : x[2] \in Updates
    BY DEF IInv, TypeOK
  <2>4. conn'.pending \subseteq conn.pending
    BY <1>3
  <2>5. \A x \in DOMAIN applied : x[2] \in ToCome' => x[2] \in ToCome
    BY <2>1, <2>2, <2>3 DEF ToCome
  <2>6. pc' = "execute" => current' \notin todo'
    <3>1. "SELECT" \notin todo
      BY <2>1 DEF IInv, TypeOK
    <3> QED
      BY <1>1, <1>2, <3>1
  <2> QED
    BY <1>1, <1>3, <1>5, <2>4, <2>5, <2>6 DEF IInv, Untouched
<1>10. Told'
  <2>1. pc' = "execute" => current' = u /\ (todo = {} => current' = "SELECT")
    BY <1>1, <1>2
  <2>2. todo' \subseteq todo
    BY <1>2
  <2> QED
    BY <1>1, <1>3, <1>5, <2>1, <2>2 DEF IInv, Told
<1>11. StillOpen'
  <2>1. SUFFICES ASSUME NEW n \in Units, careful'[n], outcome'[n] = "open"
                 PROVE  /\ \A v \in Updates : applied'[<<n, v>>] = 0
                        /\ kind' = "transaction" /\ n = unit' /\ ~ failed' =>
                             /\ conn'.session = "transaction"
                             /\ conn'.inTrans
                             /\ \A v \in Updates :
                                  \/ v \in todo'
                                  \/ <<unit', v>> \in conn'.pending
                                  \/ pc' = "execute" /\ v = current'
    BY DEF StillOpen
  <2>2. \A v \in Updates : applied'[<<n, v>>] = 0
    BY <1>1, <1>3, <1>4, <2>1 DEF IInv, StillOpen
  <2>3. ASSUME kind' = "transaction", n = unit', ~ failed'
        PROVE  /\ conn'.session = "transaction"
               /\ conn'.inTrans
               /\ \A v \in Updates :
                    \/ v \in todo'
                    \/ <<unit', v>> \in conn'.pending
                    \/ pc' = "execute" /\ v = current'
    <3>1. ok /\ ~ failed
      BY <1>2, <2>3
    <3>2. /\ conn.session # "none" /\ conn.session = "transaction"
          /\ \A v \in Updates : v \in todo \/ <<unit, v>> \in conn.pending
      BY <1>1, <1>3, <1>4, <2>1, <2>3, <3>1 DEF IInv, StillOpen
    <3> QED
      BY <1>1, <1>2, <1>3, <3>1, <3>2
  <2> QED
    BY <2>2, <2>3
<1>12. AllOrNothing' /\ OutcomeIsTrue' /\ AtMostOnce'
  BY <1>1, <1>3, <1>4, ResultsKept
<1> QED
  BY <1>6, <1>7, <1>8, <1>9, <1>10, <1>11, <1>12 DEF IInv

LEMMA ExecuteStep ==
  ASSUME IInv, Execute
  PROVE  IInv'
<1>1. /\ pc = "execute" /\ current = "SELECT" /\ pc' = "idle" /\ current \notin Updates
      /\ UNCHANGED <<adaptor, tries, caller, history>>
  BY UpdatesAssumption DEF Execute
<1>2. /\ conn' \in Conns /\ (conn'.session # "none" => conn'.socket)
      /\ reachable' \in BOOLEAN /\ losses' \in Nat /\ applied' = applied
      /\ \/ conn'.session = conn.session /\ conn'.pending = conn.pending
         \/ conn'.session # "transaction" /\ conn'.pending = {}
      /\ failed' \in BOOLEAN
      /\ \/ failed'
         \/ /\ conn.stmt = "prepared" /\ failed' = failed
            /\ conn.session # "none"
            /\ conn'.session = conn.session /\ conn'.pending = conn.pending
            /\ conn'.inTrans <=> conn.session = "transaction"
  <2>1. CASE conn.stmt = "detached" /\ failed' = TRUE /\ UNCHANGED <<conn, server, applied>>
    BY <2>1 DEF IInv, TypeOK, Conns, SessionIsHeld, server
  <2>2. CASE /\ conn.stmt = "prepared"
             /\ \E ok \in BOOLEAN : Command("SELECT", TRUE, ok) /\ failed' = (failed \/ ~ ok)
    <3>1. PICK ok \in BOOLEAN : Command("SELECT", TRUE, ok) /\ failed' = (failed \/ ~ ok)
      BY <2>2
    <3>2. /\ conn' \in Conns /\ (conn'.session # "none" => conn'.socket)
          /\ reachable' \in BOOLEAN /\ losses' \in Nat /\ applied' = applied
          /\ \/ conn'.session = conn.session /\ conn'.pending = conn.pending
             \/ conn'.session # "transaction" /\ conn'.pending = {}
          /\ ok => /\ conn.session # "none"
                   /\ conn'.session = conn.session /\ conn'.pending = conn.pending
                   /\ conn'.inTrans <=> conn.session = "transaction"
      BY <3>1, QueryEffect
    <3>3. failed' \in BOOLEAN /\ (failed' \/ (ok /\ failed' = failed))
      BY <3>1 DEF IInv, TypeOK
    <3> QED
      BY <2>2, <3>2, <3>3
  <2> QED
    BY <2>1, <2>2 DEF Execute
<1>3. tries = 0 /\ kind # "none"
  BY <1>1 DEF IInv, InAdaptor
<1>4. TypeOK'
  BY <1>1, <1>2 DEF IInv, TypeOK, Conns, adaptor, caller, history
<1>5. SessionIsHeld' /\ Untouched' /\ AllOrNothing' /\ OutcomeIsTrue' /\ AtMostOnce'
  BY <1>1, <1>2, <1>3, CallerStays DEF adaptor, history
<1>6. InAdaptor'
  BY <1>1, <1>3 DEF IInv, InAdaptor
<1>7. Told'
  BY <1>1, <1>2, <1>3 DEF IInv, Told, caller, history
<1>8. StillOpen'
  BY <1>1, <1>2 DEF IInv, StillOpen, caller, history
<1> QED
  BY <1>4, <1>5, <1>6, <1>7, <1>8 DEF IInv

(* An update outside of a transaction is permanent at once. *)
AppliedNow ==
  /\ conn.stmt = "prepared" /\ conn.session = "idle"
  /\ conn'.session # "transaction" /\ conn'.pending = {}
  /\ \A x \in Units \X Updates :
       applied'[x] = IF x = <<unit, current>> THEN applied[x] + 1 ELSE applied[x]

(* In one it is pending. *)
PendingNow ==
  /\ applied' = applied
  /\ \/ /\ conn'.session = "transaction" /\ conn.session = "transaction"
        /\ \/ conn'.pending = conn.pending
           \/ conn.stmt = "prepared" /\ conn'.pending = conn.pending \union {<<unit, current>>}
     \/ conn'.session # "transaction" /\ conn'.pending = {}

Succeeded ==
  /\ conn.stmt = "prepared" /\ conn.session # "none" /\ conn'.session = conn.session
  /\ conn'.inTrans <=> conn.session = "transaction"
  /\ conn.session = "transaction" => <<unit, current>> \in conn'.pending

LEMMA UpdateEffect ==
  ASSUME IInv, pc = "execute", current \in Updates, conn.stmt = "prepared",
         NEW ok \in BOOLEAN, Command(current, TRUE, ok)
  PROVE  /\ conn' \in Conns /\ (conn'.session # "none" => conn'.socket)
         /\ reachable' \in BOOLEAN /\ losses' \in Nat
         /\ applied' \in [Units \X Updates -> Nat]
         /\ AppliedNow \/ PendingNow
         /\ ok => Succeeded /\ (conn.session = "transaction" =>
                                  conn'.pending = conn.pending \union {<<unit, current>>})
<1>1. unit \in Units
  BY BoundsAssumption DEF IInv, InAdaptor, TypeOK
<1>2. current \in Commands /\ TRUE \in BOOLEAN
  BY DEF Commands
<1>3. /\ conn' \in Conns /\ reachable' \in BOOLEAN /\ losses' \in Nat
      /\ applied' \in [Units \X Updates -> Nat]
      /\ conn'.session # "none" => conn'.socket
      /\ \/ Undelivered(ok)
         \/ \E c \in Conns :
              /\ Carries(c, TRUE)
              /\ Answered(current, c, ok) \/ Refused(current, c, ok)
  BY <1>1, <1>2, CommandEffect DEF IInv
<1>4. CASE Undelivered(ok)
  BY <1>3, <1>4 DEF Undelivered, PendingNow
<1>5. conn \in Conns /\ (conn.session # "transaction" => conn.pending = {})
  BY DEF IInv, TypeOK, Conns, SessionIsHeld
<1>6. ASSUME NEW c \in Conns, Carries(c, TRUE)
      PROVE  c = conn /\ conn.session # "none"
  BY <1>6 DEF Carries
<1>7. ASSUME Answered(current, conn, ok), conn.session # "none"
      PROVE  /\ AppliedNow \/ PendingNow
             /\ ok => Succeeded /\ (conn.session = "transaction" =>
                                      conn'.pending = conn.pending \union {<<unit, current>>})
  <2>1. PICK e : e = Executed(current, conn)
    OBVIOUS
  <2>2. /\ e.session = conn.session /\ e.stmt = conn.stmt
        /\ conn.session = "transaction" => e.pending = conn.pending \union {<<unit, current>>}
        /\ conn.session # "transaction" => e.pending = conn.pending
    BY <1>1, <1>2, <1>5, <2>1, Executing
  <2>3. \/ /\ ok
           /\ conn'.session = e.session /\ conn'.pending = e.pending /\ conn'.stmt = e.stmt
           /\ conn'.inTrans <=> e.session = "transaction"
        \/ ~ ok /\ conn'.session = "none" /\ conn'.pending = {}
    BY <1>7, <2>1 DEF Answered
  <2>4. ok => Succeeded /\ (conn.session = "transaction" =>
                              conn'.pending = conn.pending \union {<<unit, current>>})
    BY <1>7, <2>2, <2>3 DEF Succeeded
  <2>5. CASE conn.session = "idle"
    <3>1. MadePermanent(current, conn) = {<<unit, current>>}
      BY <1>2, <2>5, Permanent
    <3>2. \A x \in Units \X Updates :
             applied'[x] = IF x = <<unit, current>> THEN applied[x] + 1 ELSE applied[x]
      BY <1>7, <3>1, AppliedAfter DEF IInv
    <3>3. conn'.session # "transaction" /\ conn'.pending = {}
      BY <1>5, <2>2, <2>3, <2>5
    <3> QED
      BY <2>4, <2>5, <3>2, <3>3 DEF AppliedNow
  <2>6. CASE conn.session # "idle"
    <3>1. MadePermanent(current, conn) = {}
      BY <1>2, <2>6, Permanent
    <3>2. applied' = applied
      BY <1>3, <1>7, <3>1, NothingPermanent DEF IInv
    <3>3. conn.session = "transaction"
      BY <1>5, <1>7, <2>6 DEF Conns
    <3> QED
      BY <2>2, <2>3, <2>4, <3>2, <3>3 DEF PendingNow
  <2> QED
    BY <2>5, <2>6
<1>8. ASSUME Refused(current, conn, ok)
      PROVE  PendingNow /\ ~ ok
  BY <1>5, <1>8 DEF Refused, PendingNow, Conns
<1> QED
  BY <1>3, <1>4, <1>6, <1>7, <1>8

(* An update has been tried.  When it failed, the unit of work knows, or   *)
(* its statement is detached and will not be executed again.               *)
LEMMA UpdateStep ==
  ASSUME IInv, pc = "execute", current \in Updates, NEW ok \in BOOLEAN,
         UNCHANGED <<adaptor, caller, history>>,
         conn' \in Conns, conn'.session # "none" => conn'.socket,
         reachable' \in BOOLEAN, losses' \in Nat,
         applied' \in [Units \X Updates -> Nat],
         AppliedNow \/ PendingNow,
         ok => Succeeded,
         \/ pc' = "idle" /\ tries' = tries /\ ok /\ failed' = failed
         \/ pc' = "idle" /\ tries' = tries /\ failed' = TRUE
         \/ /\ pc' = "close" /\ tries' = CDBReacquireConnectionTries /\ failed' = failed
            /\ conn'.stmt = "detached"
  PROVE  IInv'
<1>1. unit \in Units /\ kind # "none" /\ tries = 0 /\ current \notin todo
  BY BoundsAssumption DEF IInv, InAdaptor, TypeOK, Untouched
<1>2. /\ pc' \in {"idle", "close"} /\ tries' \in Nat /\ failed' \in BOOLEAN
      /\ pc' = "idle" => tries' = 0
      /\ pc' = "close" => tries' # 0 /\ conn'.stmt = "detached" /\ failed' = failed
      /\ failed' \/ failed' = failed
  <2>1. tries' \in Nat /\ (pc' = "idle" => tries' = 0) /\ (pc' = "close" => tries' # 0)
    BY <1>1, TriesAssumption
  <2>2. pc' \in {"idle", "close"} /\ failed' \in BOOLEAN
    BY DEF IInv, TypeOK
  <2>3. /\ pc' = "close" => conn'.stmt = "detached" /\ failed' = failed
        /\ failed' \/ failed' = failed
    OBVIOUS
  <2> QED
    BY <2>1, <2>2, <2>3
<1>3. PICK x0 \in Units \X Updates : x0 = <<unit, current>>
  BY <1>1
<1>4. DOMAIN applied = Units \X Updates /\ DOMAIN applied' = Units \X Updates
      /\ applied \in [Units \X Updates -> Nat]
  BY DEF IInv, TypeOK
<1>5. conn.stmt = "prepared" => applied[x0] = 0
  BY <1>3, <1>4 DEF IInv, Untouched, ToCome
<1>6. \/ applied' = applied
      \/ /\ conn.stmt = "prepared" /\ conn.session = "idle"
         /\ conn'.session # "transaction" /\ conn'.pending = {}
         /\ applied'[x0] = 1
         /\ \A x \in Units \X Updates : x # x0 => applied'[x] = applied[x]
  <2>1. CASE AppliedNow
    <3>1. applied'[x0] = applied[x0] + 1
      BY <1>3, <2>1 DEF AppliedNow
    <3> QED
      BY <1>3, <1>5, <2>1, <3>1 DEF AppliedNow
  <2>2. CASE PendingNow
    BY <2>2 DEF PendingNow
  <2> QED
    BY <2>1, <2>2
<1>7. \/ /\ conn'.session = "transaction" /\ conn.session = "transaction"
         /\ conn.pending \subseteq conn'.pending /\ conn'.pending \subseteq conn.pending \union {x0}
         /\ conn.stmt = "prepared" \/ conn'.pending = conn.pending
      \/ conn'.session # "transaction" /\ conn'.pending = {}
  BY <1>3 DEF AppliedNow, PendingNow
<1>8. kind = "transaction" => outcome[unit] = "open"
  <2>1. current # "SELECT"
    BY UpdatesAssumption
  <2> QED
    BY <2>1 DEF IInv, Told
<1>9. careful[unit] => ~ failed
  BY <1>1 DEF IInv, InAdaptor
<1>10. conn.session # "transaction" /\ ~ (conn.session = "none") /\ conn.stmt = "prepared" =>
         outcome[unit] = "autocommit" \/ ~ careful[unit]
  <2>1. kind \in {"transaction", "autocommit"}
    BY <1>1 DEF IInv, TypeOK
  <2> QED
    BY <1>1, <1>8, <1>9, <2>1 DEF IInv, Told, StillOpen
<1>11. \A n \in Units : n # unit =>
         \A u \in Updates : <<n, u>> \in Units \X Updates /\ <<n, u>> # x0
  BY <1>3
<1>12. TypeOK'
  BY <1>1, <1>2 DEF IInv, TypeOK, Conns, adaptor, caller, history
<1>13. SessionIsHeld'
  BY <1>7 DEF IInv, SessionIsHeld, adaptor, caller
<1>14. InAdaptor'
  BY <1>1, <1>2 DEF IInv, InAdaptor, caller, history
<1>15. Untouched'
  <2>1. x0[1] = unit /\ x0[2] = current
    BY <1>3
  <2>2. ~ (unit > unit)
    BY <1>1, BoundsAssumption
  <2>3. \A x \in DOMAIN applied :
          x[1] > unit \/ (x[1] = unit /\ x[2] \in todo) =>
            applied[x] = 0 /\ x \notin conn.pending /\ x # x0
    BY <1>1, <2>1, <2>2 DEF IInv, Untouched, ToCome
  <2>4. \A x \in DOMAIN applied :
          x[1] > unit \/ (x[1] = unit /\ x[2] \in todo) =>
            applied'[x] = 0 /\ x \notin conn'.pending
    BY <1>4, <1>6, <1>7, <2>3
  <2>5. \A x \in conn'.pending : x[1] = unit /\ applied'[x] = 0
    <3>1. CASE conn'.pending = {}
      BY <3>1
    <3>2. CASE /\ conn'.session = "transaction" /\ conn.session = "transaction"
               /\ conn'.pending \subseteq conn.pending \union {x0}
               /\ conn.stmt = "prepared" \/ conn'.pending = conn.pending
      <4>1. applied' = applied
        BY <1>6, <3>2
      <4>2. CASE conn.stmt = "prepared"
        BY <1>5, <2>1, <3>2, <4>1, <4>2 DEF IInv, Untouched
      <4>3. CASE conn.stmt # "prepared"
        BY <3>2, <4>1, <4>3 DEF IInv, Untouched
      <4> QED
        BY <4>2, <4>3
    <3> QED
      BY <1>7, <3>1, <3>2
  <2>6. ToCome' = todo
    BY <1>2 DEF ToCome, caller
  <2> QED
    BY <1>1, <1>2, <1>4, <2>4, <2>5, <2>6 DEF Untouched, IInv, caller
<1>16. Told'
  BY <1>1, <1>2, <1>8 DEF IInv, Told, caller, history
<1>17. StillOpen'
  <2>1. SUFFICES ASSUME NEW n \in Units, careful'[n], outcome'[n] = "open"
                 PROVE  /\ \A u \in Updates : applied'[<<n, u>>] = 0
                        /\ kind' = "transaction" /\ n = unit' /\ ~ failed' =>
                             \/ /\ conn'.session = "transaction"
                                /\ conn'.inTrans
                                /\ \A u \in Updates :
                                     u \in todo' \/ <<unit', u>> \in conn'.pending
                             \/ pc' # "idle" /\ conn'.stmt = "detached"
    BY DEF StillOpen
  <2>2. /\ careful[n] /\ outcome[n] = "open"
        /\ kind' = kind /\ unit' = unit /\ todo' = todo /\ current' = current
    BY <2>1 DEF caller, history
  <2>3. \A u \in Updates : applied[<<n, u>>] = 0
    BY <2>2 DEF IInv, StillOpen
  <2>4. \A u \in Updates : applied'[<<n, u>>] = 0
    <3>1. CASE n # unit
      BY <1>6, <1>11, <2>3, <3>1
    <3>2. CASE n = unit
      <4>1. applied' = applied
        BY <1>6, <1>10, <2>2, <3>2
      <4> QED
        BY <2>3, <4>1
    <3> QED
      BY <3>1, <3>2
  <2>5. ASSUME kind' = "transaction", n = unit', ~ failed', pc' = "idle"
        PROVE  /\ conn'.session = "transaction" /\ conn'.inTrans
               /\ \A u \in Updates : u \in todo' \/ <<unit', u>> \in conn'.pending
    <3>1. Succeeded /\ ~ failed
      BY <1>2, <2>5
    <3>2. /\ conn.session = "transaction"
          /\ \A u \in Updates : u \in todo \/ <<unit, u>> \in conn.pending \/ u = current
      BY <2>2, <2>5, <3>1 DEF Succeeded, IInv, StillOpen
    <3>3. conn'.session = "transaction" /\ conn'.inTrans /\ <<unit, current>> \in conn'.pending
      BY <3>1, <3>2 DEF Succeeded
    <3>4. conn.pending \subseteq conn'.pending
      BY <1>7, <3>3
    <3> QED
      BY <2>2, <3>2, <3>3, <3>4
  <2> QED
    BY <1>2, <2>4, <2>5
<1>18. AllOrNothing' /\ OutcomeIsTrue' /\ AtMostOnce'
  <2>1. outcome' = outcome /\ careful' = careful /\ Transactions' = Transactions
    BY DEF history, Transactions
  <2>2. \A n \in Transactions : n \in Units /\ outcome[n] # "autocommit"
    BY DEF Transactions
  <2>3. \A n \in Transactions : careful[n] =>
          \A u \in Updates : applied'[<<n, u>>] = applied[<<n, u>>]
    <3>1. CASE applied' = applied
      BY <3>1
    <3>2. CASE /\ conn.stmt = "prepared" /\ conn.session = "idle"
               /\ \A x \in Units \X Updates : x # x0 => applied'[x] = applied[x]
      <4>1. unit \in Transactions => ~ careful[unit]
        BY <1>10, <2>2, <3>2
      <4> QED
        BY <1>11, <2>2, <3>2, <4>1
    <3> QED
      BY <1>6, <3>1, <3>2
  <2>4. AllOrNothing'
    BY <2>1, <2>3 DEF IInv, AllOrNothing
  <2>5. OutcomeIsTrue'
    BY <2>1, <2>3 DEF IInv, OutcomeIsTrue
  <2>6. AtMostOnce'
    <3>1. \A x \in Units \X Updates : applied[x] <= 1
      BY <1>4 DEF IInv, AtMostOnce
    <3>2. \A x \in Units \X Updates : applied'[x] <= 1
      BY <1>6, <3>1
    <3> QED
      BY <1>4, <3>2 DEF AtMostOnce
  <2> QED
    BY <2>4, <2>5, <2>6
<1> QED
  BY <1>12, <1>13, <1>14, <1>15, <1>16, <1>17, <1>18 DEF IInv

LEMMA ExecuteUpdateStep ==
  ASSUME IInv, ExecuteUpdate
  PROVE  IInv'
<1>1. pc = "execute" /\ current \in Updates /\ UNCHANGED <<adaptor, caller, history>>
  BY DEF ExecuteUpdate
<1>2. CASE /\ conn.stmt = "detached"
           /\ ExecuteFails(TRUE)
           /\ UNCHANGED <<conn, server, applied>>
  <2>1. /\ conn' \in Conns /\ (conn'.session # "none" => conn'.socket)
        /\ reachable' \in BOOLEAN /\ losses' \in Nat /\ applied' \in [Units \X Updates -> Nat]
    BY <1>2 DEF IInv, TypeOK, Conns, SessionIsHeld, server
  <2>2. PendingNow
    BY <1>2, <2>1 DEF PendingNow, IInv, SessionIsHeld
  <2>3. \/ pc' = "idle" /\ tries' = tries /\ failed' = TRUE
        \/ /\ pc' = "close" /\ tries' = CDBReacquireConnectionTries /\ failed' = failed
           /\ conn'.stmt = "detached"
    BY <1>2 DEF ExecuteFails
  <2> QED
    BY <1>1, <2>1, <2>2, <2>3, UpdateStep
<1>3. CASE /\ conn.stmt = "prepared"
           /\ Command(current, TRUE, TRUE)
           /\ pc' = "idle"
           /\ UNCHANGED <<tries, failed>>
  <2>1. /\ conn' \in Conns /\ (conn'.session # "none" => conn'.socket)
        /\ reachable' \in BOOLEAN /\ losses' \in Nat /\ applied' \in [Units \X Updates -> Nat]
        /\ AppliedNow \/ PendingNow
        /\ Succeeded
    BY <1>1, <1>3, UpdateEffect
  <2> QED
    BY <1>1, <1>3, <2>1, UpdateStep
<1>4. CASE /\ conn.stmt = "prepared"
           /\ Command(current, TRUE, FALSE)
           /\ ExecuteFails(conn'.stmt = "detached")
  <2>1. /\ conn' \in Conns /\ (conn'.session # "none" => conn'.socket)
        /\ reachable' \in BOOLEAN /\ losses' \in Nat /\ applied' \in [Units \X Updates -> Nat]
        /\ AppliedNow \/ PendingNow
    BY <1>1, <1>4, UpdateEffect
  <2>2. \/ pc' = "idle" /\ tries' = tries /\ failed' = TRUE
        \/ /\ pc' = "close" /\ tries' = CDBReacquireConnectionTries /\ failed' = failed
           /\ conn'.stmt = "detached"
    BY <1>4 DEF ExecuteFails
  <2> QED
    BY <1>1, <2>1, <2>2, UpdateStep
<1> QED
  BY <1>2, <1>3, <1>4 DEF ExecuteUpdate

(* Whatever was pending on the connection that carried the COMMIT is       *)
(* permanent: either everything the unit of work executed, or nothing.     *)
LEMMA CommitTransactionStep ==
  ASSUME IInv, CommitTransaction
  PROVE  IInv'
<1>1. /\ pc = "idle" /\ kind = "transaction" /\ todo = {} /\ outcome[unit] = "open"
      /\ CallerGoesOn
      /\ UNCHANGED <<bConnectionReacquired, bIsValid, pc, tries, caller>>
  BY DEF CommitTransaction
<1>2. PICK ok \in BOOLEAN :
        /\ Command("COMMIT", FALSE, ok)
        /\ bIsTransactionStarted' = ~ ok
        /\ outcome' = [outcome EXCEPT ![unit] = IF ok THEN "committed" ELSE "inDoubt"]
        /\ failed' = (failed \/ ~ ok)
  BY DEF CommitTransaction
<1>3. unit \in Units /\ tries = 0 /\ ~ (unit > unit)
  BY <1>1, BoundsAssumption DEF IInv, InAdaptor, TypeOK
<1>4. "COMMIT" \in Commands /\ "COMMIT" \notin Updates
  BY UpdatesAssumption DEF Commands
<1>5. /\ conn' \in Conns /\ reachable' \in BOOLEAN /\ losses' \in Nat
      /\ applied' \in [Units \X Updates -> Nat]
      /\ conn'.session # "none" => conn'.socket
      /\ \/ Undelivered(ok)
         \/ \E c \in Conns :
              /\ Carries(c, FALSE)
              /\ Answered("COMMIT", c, ok) \/ Refused("COMMIT", c, ok)
  BY <1>2, <1>4, CommandEffect DEF IInv
<1>6. /\ careful' \in [Units -> BOOLEAN]
      /\ \A n \in Units : careful'[n] => careful[n]
      /\ failed => ~ careful'[unit]
  BY <1>1 DEF CallerGoesOn, IInv, TypeOK
<1>7. /\ outcome' \in [Units -> {"none", "open", "committed", "rolledBack", "inDoubt", "autocommit"}]
      /\ \A n \in Units : n # unit => outcome'[n] = outcome[n]
      /\ outcome'[unit] \in {"committed", "inDoubt"} /\ (outcome'[unit] = "committed" => ok)
  BY <1>2, <1>3 DEF IInv, TypeOK
<1>8. DOMAIN applied = Units \X Updates /\ DOMAIN applied' = Units \X Updates
      /\ applied \in [Units \X Updates -> Nat]
  BY <1>5 DEF IInv, TypeOK
<1>9. /\ conn'.session # "transaction" /\ conn'.pending = {}
      /\ \/ applied' = applied /\ ~ ok
         \/ /\ conn.session # "none"
            /\ \A x \in Units \X Updates :
                 applied'[x] = IF x \in conn.pending THEN applied[x] + 1 ELSE applied[x]
         \/ applied' = applied /\ conn.session = "none" /\ ~ conn.inTrans
  <2>1. CASE Undelivered(ok)
    BY <2>1 DEF Undelivered
  <2>2. ASSUME NEW c \in Conns, Carries(c, FALSE), Answered("COMMIT", c, ok)
        PROVE  /\ conn'.session # "transaction" /\ conn'.pending = {}
               /\ \/ /\ conn.session # "none"
                     /\ \A x \in Units \X Updates :
                          applied'[x] = IF x \in conn.pending THEN applied[x] + 1 ELSE applied[x]
                  \/ applied' = applied /\ conn.session = "none" /\ ~ conn.inTrans
    <3>1. MadePermanent("COMMIT", c) = c.pending
      BY <1>4, Permanent
    <3>2. Executed("COMMIT", c).session = "idle" /\ Executed("COMMIT", c).pending = {}
      BY <1>4, Executing
    <3>3. conn'.session # "transaction" /\ conn'.pending = {}
      BY <2>2, <3>2 DEF Answered
    <3>4. CASE c = conn /\ conn.session # "none"
      <4>1. \A x \in Units \X Updates :
              applied'[x] = IF x \in conn.pending THEN applied[x] + 1 ELSE applied[x]
        BY <2>2, <3>1, <3>4, AppliedAfter DEF IInv
      <4> QED
        BY <3>3, <3>4, <4>1
    <3>5. CASE conn.session = "none" /\ ~ conn.inTrans /\ c.pending = {}
      <4>1. applied' = applied
        BY <1>5, <2>2, <3>1, <3>5, NothingPermanent DEF IInv
      <4> QED
        BY <3>3, <3>5, <4>1
    <3> QED
      BY <2>2, <3>4, <3>5 DEF Carries, Replaced
  <2>3. \A c \in Conns : ~ Refused("COMMIT", c, ok)
    BY <1>4 DEF Refused
  <2> QED
    BY <1>5, <2>1, <2>2, <2>3
<1>10. \A x \in Units \X Updates :
         x \in conn.pending => x[1] = unit /\ applied[x] = 0
  BY DEF IInv, Untouched
<1>11. \A n \in Units : n # unit =>
         \A u \in Updates : applied'[<<n, u>>] = applied[<<n, u>>]
  <2>1. SUFFICES ASSUME NEW n \in Units, n # unit, NEW u \in Updates
                 PROVE  applied'[<<n, u>>] = applied[<<n, u>>]
    OBVIOUS
  <2>2. <<n, u>> \in Units \X Updates /\ <<n, u>> \notin conn.pending
    BY <1>10, <2>1
  <2> QED
    BY <1>9, <2>2
<1>12. careful'[unit] /\ ok => \A u \in Updates : applied'[<<unit, u>>] = 1
  <2>1. SUFFICES ASSUME careful'[unit], ok, NEW u \in Updates
                 PROVE  applied'[<<unit, u>>] = 1
    OBVIOUS
  <2>2. careful[unit] /\ ~ failed
    BY <1>3, <1>6, <2>1
  <2>3. /\ applied[<<unit, u>>] = 0 /\ <<unit, u>> \in Units \X Updates
        /\ \/ conn.session = "transaction" /\ <<unit, u>> \in conn.pending
           \/ conn.session = "none" /\ conn.inTrans
    BY <1>1, <1>3, <2>1, <2>2 DEF IInv, StillOpen
  <2> QED
    BY <1>9, <2>1, <2>3
<1>13. careful'[unit] =>
         \/ \A u \in Updates : applied'[<<unit, u>>] = 1
         \/ ~ ok /\ \A u \in Updates : applied'[<<unit, u>>] = 0
  <2>1. SUFFICES ASSUME careful'[unit]
                 PROVE  \/ \A u \in Updates : applied'[<<unit, u>>] = 1
                        \/ ~ ok /\ \A u \in Updates : applied'[<<unit, u>>] = 0
    OBVIOUS
  <2>2. /\ \A u \in Updates : applied[<<unit, u>>] = 0 /\ <<unit, u>> \in Units \X Updates
        /\ \/ conn.session = "transaction" /\ \A u \in Updates : <<unit, u>> \in conn.pending
           \/ conn.session = "none" /\ conn.inTrans
    BY <1>1, <1>3, <1>6, <2>1 DEF IInv, StillOpen
  <2> QED
    BY <1>9, <2>2
<1>14. TypeOK'
  <2>1. bIsTransactionStarted' \in BOOLEAN /\ failed' \in BOOLEAN
    BY <1>2 DEF IInv, TypeOK
  <2> QED
    BY <1>1, <1>5, <1>6, <1>7, <2>1 DEF IInv, TypeOK, Conns, caller
<1>15. SessionIsHeld' /\ InAdaptor'
  BY <1>1, <1>3, <1>5, <1>9 DEF SessionIsHeld, InAdaptor
<1>16. Untouched'
  <2>1. \A x \in DOMAIN applied : x[1] > unit => x \notin conn.pending /\ applied[x] = 0
    BY DEF IInv, Untouched
  <2>2. \A x \in DOMAIN applied : x[1] > unit => applied'[x] = 0
    BY <1>8, <1>9, <2>1
  <2>3. ToCome' = {}
    BY <1>1 DEF ToCome, caller
  <2> QED
    BY <1>1, <1>3, <1>8, <1>9, <2>2, <2>3 DEF Untouched, caller
<1>17. Told'
  <2>1. \A n \in Units : n > unit => n # unit
    BY <1>3
  <2> QED
    BY <1>1, <1>3, <1>7, <1>9, <2>1 DEF IInv, Told, caller
<1>18. StillOpen'
  BY <1>1, <1>6, <1>7, <1>11 DEF IInv, StillOpen, caller
<1>19. AllOrNothing' /\ OutcomeIsTrue' /\ AtMostOnce'
  <2>1. Transactions' = Transactions
    BY <1>1, <1>3, <1>7 DEF Transactions
  <2>2. \A n \in Transactions : n \in Units
    BY DEF Transactions
  <2>3. AllOrNothing'
    BY <1>6, <1>11, <1>13, <2>1, <2>2 DEF IInv, AllOrNothing
  <2>4. OutcomeIsTrue'
    <3>1. SUFFICES ASSUME NEW n \in Transactions', NEW u \in Updates, careful'[n]
                   PROVE  /\ outcome'[n] = "committed" => applied'[<<n, u>>] > 0
                          /\ outcome'[n] = "rolledBack" => applied'[<<n, u>>] = 0
      BY DEF OutcomeIsTrue
    <3>2. CASE n = unit
      BY <1>7, <1>12, <3>1, <3>2
    <3>3. CASE n # unit
      BY <1>6, <1>7, <1>11, <2>1, <2>2, <3>1, <3>3 DEF IInv, OutcomeIsTrue
    <3> QED
      BY <3>2, <3>3
  <2>5. AtMostOnce'
    <3>1. \A x \in Units \X Updates : applied[x] <= 1
      BY <1>8 DEF IInv, AtMostOnce
    <3>2. \A x \in Units \X Updates : applied'[x] <= 1
      BY <1>9, <1>10, <3>1
    <3> QED
      BY <1>8, <3>2 DEF AtMostOnce
  <2> QED
    BY <2>3, <2>4, <2>5
<1> QED
  BY <1>14, <1>15, <1>16, <1>17, <1>18, <1>19 DEF IInv

-----------------------------------------------------------------------------
LEMMA Initially ==
  ASSUME Init
  PROVE  IInv
<1>1. applied \in [Units \X Updates -> Nat] /\ DOMAIN applied = Units \X Updates
      /\ \A x \in Units \X Updates : applied[x] = 0
  BY DEF Init
<1>2. /\ conn \in Conns /\ conn.session = "idle" /\ conn.socket /\ conn.pending = {}
      /\ conn.stmt = "none"
  BY DEF Init, Conns
<1>3. /\ outcome \in [Units -> {"none", "open", "committed", "rolledBack", "inDoubt", "autocommit"}]
      /\ careful \in [Units -> BOOLEAN] /\ \A n \in Units : outcome[n] = "none"
  BY DEF Init
<1>4. unit = 0 /\ unit \in 0 .. MaxUnits
  BY BoundsAssumption DEF Init
<1>5. TypeOK
  BY <1>1, <1>2, <1>3, <1>4 DEF Init, TypeOK, Conns
<1>6. SessionIsHeld /\ InAdaptor /\ Untouched /\ Told
  BY <1>1, <1>2, <1>3 DEF Init, SessionIsHeld, InAdaptor, Untouched, Told
<1>7. StillOpen /\ AllOrNothing /\ OutcomeIsTrue
  BY <1>3 DEF StillOpen, AllOrNothing, OutcomeIsTrue, Transactions
<1>8. AtMostOnce
  BY <1>1 DEF AtMostOnce
<1> QED
  BY <1>5, <1>6, <1>7, <1>8 DEF IInv

LEMMA StutteringStep ==
  ASSUME IInv, UNCHANGED vars
  PROVE  IInv'
<1> USE DEF vars, server, adaptor, caller, history
<1>1. TypeOK' /\ SessionIsHeld' /\ InAdaptor'
  BY DEF IInv, TypeOK, SessionIsHeld, InAdaptor
<1>2. Untouched' /\ Told' /\ StillOpen'
  BY DEF IInv, Untouched, ToCome, Told, StillOpen
<1>3. AllOrNothing' /\ OutcomeIsTrue' /\ AtMostOnce'
  BY ResultsKept
<1> QED
  BY <1>1, <1>2, <1>3 DEF IInv

LEMMA NextStep ==
  ASSUME IInv, [Next]_vars
  PROVE  IInv'
<1>1. CASE LoseConnection \/ ServerReturns
  BY <1>1, LoseConnectionStep, ServerReturnsStep
<1>2. CASE IsOpen \/ CallConnection("open") \/ CallConnection("close")
  <2>1. \A entry \in {"open", "close"} : CallConnection(entry) => IInv'
    BY CallConnectionStep
  <2> QED
    BY <1>2, <2>1, IsOpenStep
<1>3. CASE TryCloseConnection \/ TryOpenConnection \/ RealConnect
  BY <1>3, TryCloseConnectionStep, TryOpenConnectionStep, RealConnectStep
<1>4. CASE StartTransaction \/ StartAutocommit
  BY <1>4, StartTransactionStep, StartAutocommitStep
<1>5. CASE (\E u \in Updates \union {"SELECT"} : Prepare(u)) \/ ExecuteUpdate \/ Execute
  BY <1>5, PrepareStep, ExecuteUpdateStep, ExecuteStep
<1>6. CASE CommitTransaction \/ RollbackTransaction \/ EndTransaction \/ EndWithoutRollback
  BY <1>6, CommitTransactionStep, RollbackTransactionStep, EndTransactionStep,
     EndWithoutRollbackStep
<1>7. CASE UNCHANGED vars
  BY <1>7, StutteringStep
<1> QED
  BY <1>1, <1>2, <1>3, <1>4, <1>5, <1>6, <1>7 DEF Next

-----------------------------------------------------------------------------
(* The inductive invariant: whom an open transaction belongs to, what the  *)
(* caller was told, and what the updates still to come have left.          *)
THEOREM Invariance == Spec => []IInv
<1>1. Init => IInv
  BY Initially
<1>2. IInv /\ [Next]_vars => IInv'
  BY NextStep
<1> QED
  BY <1>1, <1>2, PTL DEF Spec

(* The updates of a DBTransaction whose caller leaves its scope when a call*)
(* fails are applied together or not at all, although mysql_ping and the   *)
(* library reconnect, and ExecuteUpdate reacquires the connection.         *)
THEOREM DBTransactionIsAtomic == Spec => []AllOrNothing
<1>1. IInv => AllOrNothing
  BY DEF IInv
<1> QED
  BY <1>1, Invariance, PTL

(* CommitTransaction returns true only when every update is permanent, and *)
(* RollbackTransaction only when none is.                                  *)
THEOREM ResultsAreTrue == Spec => []OutcomeIsTrue
<1>1. IInv => OutcomeIsTrue
  BY DEF IInv
<1> QED
  BY <1>1, Invariance, PTL

(* ExecuteUpdate's second attempt never repeats an update the server made  *)
(* permanent, since the statement was detached with its connection.        *)
THEOREM NoUpdateTwice == Spec => []AtMostOnce
<1>1. IInv => AtMostOnce
  BY DEF IInv
<1> QED
  BY <1>1, Invariance, PTL

(* The flags of DBConnection and DBTransaction never miss a transaction    *)
(* that is open on the server: none survives its DBTransaction.            *)
THEOREM NothingIsLeftOpen == Spec => []NoTransactionLeftOpen
<1>1. IInv => NoTransactionLeftOpen
  BY DEF IInv, SessionIsHeld, NoTransactionLeftOpen
<1> QED
  BY <1>1, Invariance, PTL
=============================================================================
