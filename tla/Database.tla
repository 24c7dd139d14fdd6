------------------------------ MODULE Database ------------------------------
(***************************************************************************)
(* DBConnection, DBStatement and DBTransaction: one thread uses one        *)
(* connection to a MySQL server that may lose the connection at any time.  *)
(* The server and the client library are external, and modelled as far as  *)
(* the calls of the adaptor reach them: the connection has a server's side *)
(* (session, pending) and the library's (socket, inTrans, canReconnect,    *)
(* stmt).  The adaptor sets MYSQL_OPT_RECONNECT.                           *)
(***************************************************************************)
EXTENDS Naturals, FiniteSets

CONSTANTS
  Updates,                       (* the updates of each unit of work       *)
  CDBReacquireConnectionTries,
  MaxUnits,                      (* bound: units of work                   *)
  MaxLosses                      (* bound: lost connections                *)

ASSUME TriesAssumption == CDBReacquireConnectionTries \in Nat \ {0}
ASSUME UpdatesAssumption ==
  Updates \intersect {"START TRANSACTION", "COMMIT", "ROLLBACK", "PREPARE", "SELECT"} = {}
ASSUME BoundsAssumption == {MaxUnits, MaxLosses} \subseteq Nat

Units == 1 .. MaxUnits

VARIABLES
  conn,                  (* the connection, see above                      *)
  reachable,             (* a new connection to the server is possible     *)
  losses,                (* lost connections so far                        *)
  applied,               (* how often the server made each update permanent*)
  bIsTransactionStarted, (* of DBConnection                                *)
  bConnectionReacquired, (* of the DBStatement                             *)
  bIsValid,              (* of the DBTransaction                           *)
  pc,                    (* where the thread is in the adaptor             *)
  tries,                 (* TryReacquireConnection: i                      *)
  unit, kind,            (* the unit of work, and whether it is one: "none"*)
  todo, current,         (* its updates to come, and what is executed      *)
  failed,                (* a call reported a failure to the caller        *)
  careful,               (* history: the caller left at the first failure  *)
  outcome                (* history: what each unit of work was told       *)

server  == <<reachable, losses>>
adaptor == <<bIsTransactionStarted, bConnectionReacquired, bIsValid>>
caller  == <<unit, kind, todo, current>>
history == <<careful, outcome>>
vars == <<conn, server, applied, adaptor, pc, tries, caller, failed, history>>

-----------------------------------------------------------------------------
(***************************************************************************)
(* The server and the client library (external).                           *)
(***************************************************************************)

(* A session on the server; prepared statements belong to the session.     *)
Connected(c) ==
  [c EXCEPT !.session = "idle", !.pending = {}, !.socket = TRUE,
            !.inTrans = FALSE, !.canReconnect = TRUE]

(* The library closes its socket and detaches what was prepared.  The      *)
(* server rolls back what was pending.                                     *)
Disconnected(c) ==
  [c EXCEPT !.session = "none", !.pending = {}, !.socket = FALSE,
            !.stmt = IF @ = "prepared" THEN "detached" ELSE @]

(* Automatic reconnection: refused once when a transaction was open.       *)
Reconnect(c) ==
  IF c.inTrans THEN [ok |-> FALSE, conn |-> [c EXCEPT !.inTrans = FALSE]]
  ELSE IF c.canReconnect /\ reachable THEN [ok |-> TRUE, conn |-> Connected(c)]
  ELSE [ok |-> FALSE, conn |-> c]

Alive(c) == c.socket /\ c.session # "none"

(* Handing a command to the server.  A dead connection is noticed when the *)
(* command is written, and the library reconnects and writes it again, or  *)
(* when the answer is read, and the call fails.  A prepared statement is   *)
(* never sent on a connection that is not its own.                         *)
Deliveries(c, isPrepared) ==
  IF Alive(c) THEN {[ok |-> TRUE, conn |-> c]}
  ELSE LET r == Reconnect(Disconnected(c))
       IN {[r EXCEPT !.ok = @ /\ ~ isPrepared]}
            \union (IF c.socket THEN {[ok |-> FALSE, conn |-> Disconnected(c)]} ELSE {})

(* mysql_ping notices at once and reconnects. *)
Ping(c) ==
  IF Alive(c) THEN [ok |-> TRUE, conn |-> c] ELSE Reconnect(Disconnected(c))

(* What the server does with a command of the current unit of work. *)
Executed(command, c) ==
  CASE command = "START TRANSACTION" -> [c EXCEPT !.session = "transaction", !.pending = {}]
    [] command \in {"COMMIT", "ROLLBACK"} -> [c EXCEPT !.session = "idle", !.pending = {}]
    [] command = "PREPARE" -> [c EXCEPT !.stmt = "prepared"]
    [] command = "SELECT" -> c
    [] command \in Updates ->
         IF c.session = "transaction"
         THEN [c EXCEPT !.pending = @ \union {<<unit, command>>}] ELSE c

(* COMMIT, and the implicit one of START TRANSACTION, make the pending     *)
(* updates permanent; outside of a transaction an update is so at once.    *)
MadePermanent(command, c) ==
  CASE command \in {"START TRANSACTION", "COMMIT"} -> c.pending
    [] command \in Updates /\ c.session = "idle" -> {<<unit, command>>}
    [] OTHER -> {}

(* One command and its answer.  The connection may be lost after the       *)
(* server has executed the command; it may refuse a statement (or change no*)
(* row, which ExecuteUpdate reports alike), and roll back the transaction  *)
(* when it does so to end a deadlock.                                      *)
Command(command, isPrepared, ok) ==
  \E d \in Deliveries(conn, isPrepared) :
    \/ /\ ~ d.ok /\ ~ ok
       /\ conn' = d.conn
       /\ UNCHANGED <<applied, server>>
    \/ /\ d.ok
       /\ applied' = [u \in DOMAIN applied |->
            applied[u] + IF u \in MadePermanent(command, d.conn) THEN 1 ELSE 0]
       /\ LET c == Executed(command, d.conn)
          IN \/ /\ ok
                /\ conn' = [c EXCEPT !.inTrans = c.session = "transaction"]
                /\ UNCHANGED server
             \/ /\ ~ ok
                /\ losses < MaxLosses
                /\ losses' = losses + 1
                /\ reachable' \in BOOLEAN
                /\ conn' = Disconnected(c)
    \/ /\ d.ok /\ ~ ok
       /\ \/ /\ command \in Updates \union {"PREPARE", "SELECT"}
             /\ conn' = d.conn
          \/ /\ command \in Updates \union {"SELECT"}
             /\ d.conn.session = "transaction"
             /\ conn' = [d.conn EXCEPT !.session = "idle", !.pending = {}]
       /\ UNCHANGED <<applied, server>>

LoseConnection ==
  /\ conn.session # "none"
  /\ losses < MaxLosses
  /\ losses' = losses + 1
  /\ reachable' \in BOOLEAN
  /\ conn' = [conn EXCEPT !.session = "none", !.pending = {}]
  /\ UNCHANGED <<applied, adaptor, pc, tries, caller, failed, history>>

ServerReturns ==
  /\ ~ reachable
  /\ reachable' = TRUE
  /\ UNCHANGED <<conn, losses, applied, adaptor, pc, tries, caller, failed, history>>

-----------------------------------------------------------------------------
(***************************************************************************)
(* The adaptor and its caller.                                             *)
(***************************************************************************)
Init ==
  /\ conn = [session |-> "idle", pending |-> {}, socket |-> TRUE, inTrans |-> FALSE,
             canReconnect |-> TRUE, stmt |-> "none"]
  /\ reachable = TRUE
  /\ losses = 0
  /\ applied = [u \in Units \X Updates |-> 0]
  /\ bIsTransactionStarted = FALSE
  /\ bConnectionReacquired = FALSE
  /\ bIsValid = FALSE
  /\ pc = "idle"
  /\ tries = 0
  /\ unit = 0
  /\ kind = "none"
  /\ todo = {}
  /\ current \in Updates
  /\ failed = FALSE
  /\ careful = [n \in Units |-> TRUE]
  /\ outcome = [n \in Units |-> "none"]

(* A unit of work that goes on after it was told of a failure, or touches  *)
(* the connection itself, is not a careful one.                            *)
CallerGoesOn ==
  careful' = IF kind # "none" /\ failed THEN [careful EXCEPT ![unit] = FALSE] ELSE careful

CallerTouchesConnection ==
  careful' = IF kind # "none" THEN [careful EXCEPT ![unit] = FALSE] ELSE careful

(* DBConnection::IsOpen. *)
IsOpen ==
  /\ pc = "idle"
  /\ LET p == Ping(conn)
     IN /\ conn' = p.conn
        /\ failed' = (failed \/ ~ p.ok)
  /\ CallerGoesOn
  /\ UNCHANGED <<server, applied, adaptor, pc, tries, caller, outcome>>

(* The caller calls TryCloseConnection or TryOpenConnection. *)
CallConnection(entry) ==
  /\ pc = "idle"
  /\ pc' = entry
  /\ CallerTouchesConnection
  /\ UNCHANGED <<conn, server, applied, adaptor, tries, caller, failed, outcome>>

TryCloseConnection ==
  /\ pc = "close"
  /\ pc' = IF tries = 0 THEN "idle" ELSE "open"
  /\ LET p == Ping(conn)
     IN conn' = IF p.ok THEN [Disconnected(p.conn) EXCEPT !.canReconnect = FALSE]
                ELSE p.conn
  /\ UNCHANGED <<server, applied, adaptor, tries, caller, failed, history>>

(* Mutant: the statement is prepared again on the new connection. *)
Reopened_Prepares(c) ==
  /\ conn' = IF tries = 0 THEN c ELSE [c EXCEPT !.stmt = "prepared"]
  /\ tries' = 0
  /\ pc' = IF tries = 0 THEN "idle" ELSE "execute"
  /\ bConnectionReacquired' = (bConnectionReacquired \/ tries # 0)
  /\ UNCHANGED failed

(* TryOpenConnection returns RSuccess: TryReacquireConnection leaves its   *)
(* loop, and ExecuteUpdate executes its statement again.                   *)
Reopened(c) ==
  /\ conn' = c
  /\ tries' = 0
  /\ pc' = IF tries = 0 THEN "idle" ELSE "execute"
  /\ bConnectionReacquired' = (bConnectionReacquired \/ tries # 0)
  /\ UNCHANGED failed

(* TryOpenConnection: IsOpen() first. *)
TryOpenConnection ==
  /\ pc = "open"
  /\ LET p == Ping(conn)
     IN IF p.ok THEN Reopened(p.conn)
        ELSE /\ conn' = p.conn
             /\ pc' = "connect"
             /\ UNCHANGED <<tries, bConnectionReacquired, failed>>
  /\ UNCHANGED <<server, applied, bIsTransactionStarted, bIsValid, caller, history>>

(* TryOpenConnection: mysql_real_connect.  The loop of                     *)
(* TryReacquireConnection runs CDBReacquireConnectionTries times.          *)
RealConnect ==
  /\ pc = "connect"
  /\ \/ /\ reachable
        /\ Reopened(Connected(conn))
     \/ /\ ~ reachable
        /\ conn' = [conn EXCEPT !.canReconnect = FALSE]
        /\ tries' = IF tries = 0 THEN 0 ELSE tries - 1
        /\ pc' = IF tries > 1 THEN "close" ELSE "idle"
        /\ failed' = (failed \/ tries <= 1)
        /\ UNCHANGED bConnectionReacquired
  /\ UNCHANGED <<server, applied, bIsTransactionStarted, bIsValid, caller, history>>

-----------------------------------------------------------------------------
BeginUnit(k) ==
  /\ pc = "idle"
  /\ kind = "none"
  /\ unit < MaxUnits
  /\ unit' = unit + 1
  /\ kind' = k
  /\ todo' = Updates
  /\ outcome' = [outcome EXCEPT ![unit'] = IF k = "transaction" THEN "open" ELSE k]
  /\ UNCHANGED <<bConnectionReacquired, pc, tries, current, careful>>

(* Mutant: whatever the query returns, a transaction has begun. *)
StartTransaction_IgnoresResult ==
  /\ BeginUnit("transaction")
  /\ ~ bIsTransactionStarted
  /\ \E ok \in BOOLEAN : Command("START TRANSACTION", FALSE, ok)
  /\ bIsTransactionStarted' = TRUE
  /\ bIsValid' = TRUE
  /\ failed' = FALSE

(* DBTransaction::DBTransaction: StartTransaction refuses when the flag of *)
(* the connection is up.                                                   *)
StartTransaction ==
  /\ BeginUnit("transaction")
  /\ \/ /\ bIsTransactionStarted
        /\ bIsValid' = FALSE
        /\ failed' = TRUE
        /\ UNCHANGED <<conn, server, applied, bIsTransactionStarted>>
     \/ /\ ~ bIsTransactionStarted
        /\ \E ok \in BOOLEAN :
             /\ Command("START TRANSACTION", FALSE, ok)
             /\ bIsTransactionStarted' = ok
             /\ bIsValid' = ok
             /\ failed' = ~ ok

(* Updates outside of a transaction. *)
StartAutocommit ==
  /\ BeginUnit("autocommit")
  /\ failed' = FALSE
  /\ UNCHANGED <<conn, server, applied, bIsTransactionStarted, bIsValid>>

(* DBStatement::Prepare of the next update, or of a query.  Its retry is   *)
(* never taken: it compares what mysql_stmt_prepare returns, 0 or 1, with  *)
(* error codes.                                                            *)
Prepare(u) ==
  /\ pc = "idle"
  /\ kind # "none"
  /\ u \in todo \union {"SELECT"}
  /\ CallerGoesOn
  /\ bConnectionReacquired' = FALSE
  /\ \E ok \in BOOLEAN :
       /\ Command("PREPARE", FALSE, ok)
       /\ IF ok THEN /\ pc' = "execute"
                     /\ todo' = todo \ {u}
                     /\ current' = u
                     /\ UNCHANGED failed
          ELSE /\ failed' = TRUE
               /\ UNCHANGED <<pc, todo, current>>
  /\ UNCHANGED <<bIsTransactionStarted, bIsValid, tries, unit, kind, outcome>>

(* ExecuteUpdate gives up, or reacquires the connection once. *)
ExecuteFails(isConnectionLost) ==
  \/ /\ pc' = "idle"
     /\ failed' = TRUE
     /\ UNCHANGED tries
  \/ /\ isConnectionLost
     /\ ~ bConnectionReacquired
     /\ pc' = "close"
     /\ tries' = CDBReacquireConnectionTries
     /\ UNCHANGED failed

(* DBStatement::ExecuteUpdate. *)
ExecuteUpdate ==
  /\ pc = "execute"
  /\ current \in Updates
  /\ \/ /\ conn.stmt = "detached"
        /\ ExecuteFails(TRUE)
        /\ UNCHANGED <<conn, server, applied>>
     \/ /\ conn.stmt = "prepared"
        /\ Command(current, TRUE, TRUE)
        /\ pc' = "idle"
        /\ UNCHANGED <<tries, failed>>
     \/ /\ conn.stmt = "prepared"
        /\ Command(current, TRUE, FALSE)
        /\ ExecuteFails(conn'.stmt = "detached")
  /\ UNCHANGED <<adaptor, caller, history>>

(* DBStatement::Execute.  It compares what mysql_stmt_execute returns with *)
(* error codes as Prepare does, and does not try again.                    *)
Execute ==
  /\ pc = "execute"
  /\ current = "SELECT"
  /\ pc' = "idle"
  /\ \/ /\ conn.stmt = "detached"
        /\ failed' = TRUE
        /\ UNCHANGED <<conn, server, applied>>
     \/ /\ conn.stmt = "prepared"
        /\ \E ok \in BOOLEAN :
             /\ Command("SELECT", TRUE, ok)
             /\ failed' = (failed \/ ~ ok)
  /\ UNCHANGED <<adaptor, tries, caller, history>>

(* Mutant: the flag comes down before the query, whatever it returns. *)
CommitTransaction_FlagFirst ==
  /\ pc = "idle"
  /\ kind = "transaction"
  /\ todo = {}
  /\ outcome[unit] = "open"
  /\ CallerGoesOn
  /\ bIsValid /\ bIsTransactionStarted
  /\ bIsTransactionStarted' = FALSE
  /\ outcome' = [outcome EXCEPT ![unit] = "committed"]
  /\ \E ok \in BOOLEAN :
       /\ Command("COMMIT", FALSE, ok)
       /\ failed' = (failed \/ ~ ok)
  /\ UNCHANGED <<bConnectionReacquired, bIsValid, pc, tries, caller>>

(* DBTransaction::CommitTransaction. *)
CommitTransaction ==
  /\ pc = "idle"
  /\ kind = "transaction"
  /\ todo = {}
  /\ outcome[unit] = "open"
  /\ CallerGoesOn
  /\ bIsValid /\ bIsTransactionStarted
  /\ \E ok \in BOOLEAN :
       /\ Command("COMMIT", FALSE, ok)
       /\ bIsTransactionStarted' = ~ ok
       /\ outcome' = [outcome EXCEPT ![unit] = IF ok THEN "committed" ELSE "inDoubt"]
       /\ failed' = (failed \/ ~ ok)
  /\ UNCHANGED <<bConnectionReacquired, bIsValid, pc, tries, caller>>

EndUnit ==
  /\ pc = "idle"
  /\ kind # "none"
  /\ kind' = "none"
  /\ todo' = {}
  /\ bIsValid' = FALSE
  /\ failed' = FALSE
  /\ UNCHANGED <<bConnectionReacquired, pc, tries, unit, current, careful>>

(* DBTransaction::RollbackTransaction, if there is still something to roll *)
(* back as far as the flags say.                                           *)
Rollback ==
  /\ bIsValid /\ bIsTransactionStarted
  /\ \E ok \in BOOLEAN :
       /\ Command("ROLLBACK", FALSE, ok)
       /\ bIsTransactionStarted' = ~ ok
       /\ outcome' = IF ok /\ outcome[unit] = "open"
                     THEN [outcome EXCEPT ![unit] = "rolledBack"] ELSE outcome

(* By the caller, who has no more updates for this unit. *)
RollbackTransaction ==
  /\ pc = "idle"
  /\ kind = "transaction"
  /\ Rollback
  /\ todo' = {}
  /\ failed' = (failed \/ bIsTransactionStarted')
  /\ UNCHANGED <<bConnectionReacquired, bIsValid, pc, tries, unit, kind, current, careful>>

(* By the destructor of DBTransaction. *)
EndTransaction == EndUnit /\ Rollback

(* Mutant: a transaction that was not committed is left as it is. *)
EndWithoutRollback_Always ==
  /\ EndUnit
  /\ UNCHANGED <<conn, server, applied, bIsTransactionStarted, outcome>>

(* The unit of work ends with nothing to roll back. *)
EndWithoutRollback ==
  /\ EndUnit
  /\ ~ (bIsValid /\ bIsTransactionStarted)
  /\ UNCHANGED <<conn, server, applied, bIsTransactionStarted, outcome>>

Next ==
  \/ LoseConnection \/ ServerReturns
  \/ IsOpen \/ CallConnection("open") \/ CallConnection("close")
  \/ TryCloseConnection \/ TryOpenConnection \/ RealConnect
  \/ StartTransaction \/ StartAutocommit
  \/ (\E u \in Updates \union {"SELECT"} : Prepare(u)) \/ ExecuteUpdate \/ Execute
  \/ CommitTransaction \/ RollbackTransaction \/ EndTransaction \/ EndWithoutRollback

Spec == Init /\ [][Next]_vars

-----------------------------------------------------------------------------
(***************************************************************************)
(* Properties.                                                             *)
(***************************************************************************)
Transactions == {n \in Units : outcome[n] \notin {"none", "autocommit"}}

(* The updates of a DBTransaction whose caller leaves its scope when a     *)
(* call fails are applied together or not at all, wherever the connection  *)
(* is lost and however the library and ExecuteUpdate reconnect.            *)
AllOrNothing ==
  \A n \in Transactions : careful[n] =>
    \A u, v \in Updates : applied[<<n, u>>] = applied[<<n, v>>]

(* What such a caller is told is true: a commit that returned true made    *)
(* every update permanent, a transaction that was rolled back left none.   *)
OutcomeIsTrue ==
  \A n \in Transactions, u \in Updates : careful[n] =>
    /\ outcome[n] = "committed" => applied[<<n, u>>] > 0
    /\ outcome[n] = "rolledBack" => applied[<<n, u>>] = 0

(* ExecuteUpdate executes its statement again after it has reacquired the  *)
(* connection; although the first execution may have reached the server,   *)
(* no update is ever applied twice, in a transaction or outside.           *)
AtMostOnce == \A u \in DOMAIN applied : applied[u] <= 1

(* When the caller is between two units of work no transaction is open on  *)
(* the server: its locks are gone, and the next unit's updates cannot join *)
(* an older transaction.                                                   *)
NoTransactionLeftOpen == pc = "idle" /\ kind = "none" => conn.session # "transaction"

-----------------------------------------------------------------------------
(***************************************************************************)
(* The inductive invariant.                                                *)
(***************************************************************************)
TypeOK ==
  /\ conn \in [session : {"none", "idle", "transaction"}, pending : SUBSET (Units \X Updates),
              socket : BOOLEAN, inTrans : BOOLEAN, canReconnect : BOOLEAN,
              stmt : {"none", "prepared", "detached"}]
  /\ reachable \in BOOLEAN
  /\ losses \in Nat
  /\ applied \in [Units \X Updates -> Nat]
  /\ {bIsTransactionStarted, bConnectionReacquired, bIsValid, failed} \subseteq BOOLEAN
  /\ pc \in {"idle", "close", "open", "connect", "execute"}
  /\ tries \in Nat
  /\ unit \in 0 .. MaxUnits
  /\ kind \in {"none", "transaction", "autocommit"}
  /\ kind # "none" => unit # 0
  /\ todo \in SUBSET Updates
  /\ current \in Updates \union {"SELECT"}
  /\ careful \in [Units -> BOOLEAN]
  /\ outcome \in [Units -> {"none", "open", "committed", "rolledBack", "inDoubt", "autocommit"}]

(* A transaction that is open on the server is the one of the DBTransaction*)
(* in scope, whose flags are up: its rollback will be tried.               *)
SessionIsHeld ==
  /\ conn.session # "none" => conn.socket
  /\ conn.session = "transaction" => kind = "transaction" /\ bIsTransactionStarted /\ bIsValid
  /\ conn.session # "transaction" => conn.pending = {}

(* Where the thread is in the adaptor.  While a connection is reacquired   *)
(* for ExecuteUpdate, the statement is detached, and stays so.             *)
InAdaptor ==
  /\ pc = "idle" => tries = 0
  /\ pc = "execute" => tries = 0 /\ kind # "none" /\ conn.stmt # "none"
  /\ tries # 0 => conn.stmt = "detached" /\ kind # "none" /\ current \in Updates
  /\ kind # "none" /\ careful[unit] /\ pc # "idle" =>
       ~ failed /\ (tries # 0 \/ pc = "execute")

(* An update that is still to come, or is prepared and not yet executed,   *)
(* has left no trace.                                                      *)
ToCome ==
  todo \union (IF pc = "execute" /\ conn.stmt = "prepared" THEN {current} ELSE {})

Untouched ==
  /\ kind = "none" => todo = {}
  /\ \A x \in DOMAIN applied :
       x[1] > unit \/ (x[1] = unit /\ x[2] \in ToCome) => applied[x] = 0 /\ x \notin conn.pending
  /\ \A x \in conn.pending : x[1] = unit /\ applied[x] = 0
  /\ pc = "execute" \/ tries # 0 => current \notin todo

(* What the unit of work in progress was told, and what it may still do.   *)
Told ==
  /\ \A n \in Units : n > unit => outcome[n] = "none"
  /\ kind = "autocommit" => outcome[unit] = "autocommit"
  /\ kind = "transaction" =>
       /\ outcome[unit] \in {"open", "committed", "rolledBack", "inDoubt"}
       /\ outcome[unit] # "open" =>
            /\ todo = {} /\ tries = 0 /\ conn.session # "transaction"
            /\ pc = "execute" => current = "SELECT"

(* A careful transaction that is open has made nothing permanent, and as   *)
(* long as no call has failed it is open on the server with every update   *)
(* executed so far, or the call it is in, or the next one, will fail.      *)
StillOpen ==
  \A n \in Units :
    careful[n] /\ outcome[n] = "open" =>
      /\ \A u \in Updates : applied[<<n, u>>] = 0
      /\ kind = "transaction" /\ n = unit /\ ~ failed =>
           \/ /\ conn.session = "transaction"
              /\ conn.inTrans
              /\ \A u \in Updates :
                   \/ u \in todo
                   \/ <<unit, u>> \in conn.pending
                   \/ pc = "execute" /\ u = current
           \/ conn.session = "none" /\ conn.inTrans
           \/ pc # "idle" /\ conn.stmt = "detached"

IInv ==
  /\ TypeOK
  /\ SessionIsHeld
  /\ InAdaptor
  /\ Untouched
  /\ Told
  /\ StillOpen
  /\ AllOrNothing
  /\ OutcomeIsTrue
  /\ AtMostOnce
=============================================================================
