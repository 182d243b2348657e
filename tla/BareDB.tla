------------------------------- MODULE BareDB -------------------------------
(***************************************************************************)
(* database/sql over a base driver, as far as the wrapper of               *)
(* middleware/driver.go can tell: the connection pool with its retries on  *)
(* driver.ErrBadConn, the fallback from a direct query to Prepare on       *)
(* driver.ErrSkip, prepared statements, Ping and BeginTx.  It is external  *)
(* to the repository.  DriverChain puts the wrapper between the two and    *)
(* promises that database/sql "falls back exactly as it would for the bare *)
(* driver" (driver.go:26).  Where the driver takes no context, database/sql *)
(* itself looks whether it is done.                                        *)
(*                                                                         *)
(* A call of the driver ends in pc "answered" with its answer; Handle is   *)
(* what database/sql makes of it.                                          *)
(***************************************************************************)
EXTENDS Integers, FiniteSets

CONSTANTS
    Thread,        \* goroutines using the *sql.DB
    Conn,          \* connections that can be open at a time
    Capabilities,  \* which optional interfaces the base implements
    Operations,    \* the calls goroutines make: records of Operation
    NoConn,        \* a goroutine holds no connection
    MaxIdle,       \* db.maxIdleConns
    MaxCalls       \* bound on the number of operations

Capability ==
    [direct   : {"ctx", "legacy", "none"},  \* QueryerContext/ExecerContext, Queryer/Execer
     stmt     : {"ctx", "legacy"},          \* StmtQueryContext/StmtExecContext
     connArgs : BOOLEAN,                    \* its Conn is a NamedValueChecker
     stmtArgs : BOOLEAN,                    \* its Stmt is a NamedValueChecker
     prepare  : {"ctx", "legacy"},          \* ConnPrepareContext
     ping     : BOOLEAN,                    \* Pinger
     beginTx  : BOOLEAN,                    \* ConnBeginTx
     pooled   : BOOLEAN]                    \* SessionResetter and Validator

\* A special argument is one only the base's own checker accepts; a named one
\* is refused by the legacy interfaces.
Operation ==
    [kind : {"query", "stmt", "ping", "begin"},
     args : {"plain", "special", "named"},
     readOnly : BOOLEAN,
     cancels : BOOLEAN]  \* its context may be cancelled

ASSUME BareDBAssumption ==
    /\ Capabilities \subseteq Capability
    /\ Operations \subseteq Operation
    /\ Operations # {}
    /\ MaxIdle \in Nat
    /\ MaxCalls \in Nat
    \* a connection is left to open for a goroutine that holds none
    /\ Cardinality(Conn) >= Cardinality(Thread) + MaxIdle

VARIABLES caps, conns, alive, prepared, pc, op, done, conn, attempt, answer,
          executed, mode, outcome, calls

pool == <<conns, alive, prepared>>
call == <<pc, op, done, conn, attempt, answer>>
effects == <<executed, mode, outcome>>

bareVars == <<caps, pool, call, effects, calls>>

Answers == {"none", "ok", "failed", "skip", "badconn", "rejected"}

BareTypeOK ==
    /\ caps \in Capability
    /\ conns \in [Conn -> {"closed", "idle", "busy"}]
    /\ alive \in [Conn -> BOOLEAN]
    /\ prepared \subseteq Conn
    /\ op \in [Thread -> Operation]
    /\ done \in [Thread -> BOOLEAN]
    /\ conn \in [Thread -> Conn \cup {NoConn}]
    /\ attempt \in [Thread -> 0 .. 2]
    /\ answer \in [Thread -> Answers]
    /\ executed \in [Thread -> Nat]
    /\ mode \in [Thread -> {"none", "readonly", "readwrite"}]
    /\ outcome \in [Thread -> Answers]
    /\ calls \in Nat

BareInit ==
    /\ caps \in Capabilities
    /\ conns = [c \in Conn |-> "closed"]
    /\ alive = [c \in Conn |-> FALSE]
    /\ prepared = {}
    /\ pc = [t \in Thread |-> "idle"]
    /\ op = [t \in Thread |-> CHOOSE o \in Operations : TRUE]
    /\ done = [t \in Thread |-> FALSE]
    /\ conn = [t \in Thread |-> NoConn]
    /\ attempt = [t \in Thread |-> 0]
    /\ answer = [t \in Thread |-> "none"]
    /\ executed = [t \in Thread |-> 0]
    /\ mode = [t \in Thread |-> "none"]
    /\ outcome = [t \in Thread |-> "none"]
    /\ calls = 0

Goto(t, s) == pc' = [pc EXCEPT ![t] = s]

Answered(t, a) == Goto(t, "answered") /\ answer' = [answer EXCEPT ![t] = a]

\* A goroutine calls the *sql.DB or a *sql.Stmt.
Start(t, o) ==
    /\ pc[t] = "idle"
    /\ calls < MaxCalls
    /\ calls' = calls + 1
    /\ op' = [op EXCEPT ![t] = o]
    /\ Goto(t, "acquire")
    /\ executed' = [executed EXCEPT ![t] = 0]
    /\ outcome' = [outcome EXCEPT ![t] = "none"]
    /\ UNCHANGED <<caps, pool, done, conn, attempt, answer, mode>>

\* The application cancels the context of its call.
Cancel(t) ==
    /\ pc[t] # "idle"
    /\ op[t].cancels /\ ~done[t]
    /\ done' = [done EXCEPT ![t] = TRUE]
    /\ UNCHANGED <<caps, pool, pc, op, conn, attempt, answer, effects, calls>>

\* Where an operation goes once it has connection c: to the direct query if
\* the driver has one, to the statement, prepared on c if it is not yet.
Entry(t, c, hasDirect) ==
    CASE op[t].kind = "query" -> IF hasDirect THEN "args" ELSE "prepare"
      [] op[t].kind = "stmt"  -> IF c \in prepared THEN "stmtargs" ELSE "prepare"
      [] OTHER                -> op[t].kind

\* db.conn with strategy cachedOrNewConn: the first two attempts.  A session
\* that resets finds out that its connection was dropped.
AcquireCached(t, hasDirect, resets) ==
    /\ pc[t] = "acquire"
    /\ attempt[t] < 2
    /\ ~done[t]
    /\ \E c \in Conn :
         /\ conns[c] = "idle"
         /\ conns' = [conns EXCEPT ![c] = "busy"]
         /\ conn' = [conn EXCEPT ![t] = c]
         /\ IF resets /\ ~alive[c] THEN Answered(t, "badconn")
            ELSE Goto(t, Entry(t, c, hasDirect)) /\ UNCHANGED answer
    /\ UNCHANGED <<caps, alive, prepared, op, done, attempt, effects, calls>>

\* A new connection: none is idle, or this is the last attempt.
AcquireNew(t, hasDirect) ==
    /\ pc[t] = "acquire"
    /\ attempt[t] < 2 => \A c \in Conn : conns[c] # "idle"
    /\ ~done[t]
    /\ \E c \in Conn :
         /\ conns[c] = "closed"
         /\ conns' = [conns EXCEPT ![c] = "busy"]
         /\ alive' = [alive EXCEPT ![c] = TRUE]
         /\ conn' = [conn EXCEPT ![t] = c]
         /\ Goto(t, Entry(t, c, hasDirect))
    /\ UNCHANGED <<caps, prepared, op, done, attempt, answer, effects, calls>>

\* No connection is looked for once the context is done.
GiveUp(t) ==
    /\ pc[t] = "acquire"
    /\ done[t]
    /\ Goto(t, "idle")
    /\ outcome' = [outcome EXCEPT ![t] = "failed"]
    /\ attempt' = [attempt EXCEPT ![t] = 0]
    /\ done' = [done EXCEPT ![t] = FALSE]
    /\ UNCHANGED <<caps, pool, op, conn, answer, executed, mode, calls>>

\* The server or the network drops a connection.
Kill(c) ==
    /\ conns[c] # "closed"
    /\ alive[c]
    /\ alive' = [alive EXCEPT ![c] = FALSE]
    /\ UNCHANGED <<caps, conns, prepared, call, effects, calls>>

\* Arguments pass if they are not special or a checker of the base sees them.
CheckArgs(t, next, checked) ==
    /\ IF op[t].args = "special" /\ ~checked
       THEN Answered(t, "rejected")
       ELSE Goto(t, next) /\ UNCHANGED answer
    /\ UNCHANGED <<caps, pool, op, done, conn, attempt, effects, calls>>

\* A legacy interface has no named parameters.
Refused(t, interface) == interface = "legacy" /\ op[t].args = "named"

\* A call that would not be told of the context is not made once that is done.
NotCalled(t, interface) == interface = "legacy" /\ done[t]

\* A query that gets no further than database/sql.
Held(t, interface) ==
    \/ /\ Refused(t, interface)
       /\ Answered(t, "rejected")
       /\ UNCHANGED <<caps, pool, op, done, conn, attempt, effects, calls>>
    \/ /\ ~Refused(t, interface) /\ NotCalled(t, interface)
       /\ Answered(t, "failed")
       /\ UNCHANGED <<caps, pool, op, done, conn, attempt, effects, calls>>

\* The answers of a base that is handed a query.  On a dead connection it
\* answers ErrBadConn without executing anything.
BaseRuns(t, a) ==
    /\ a \in (IF alive[conn[t]] THEN {"ok", "failed"} ELSE {"badconn"})
    /\ executed' = [executed EXCEPT ![t] = IF a = "badconn" THEN @ ELSE @ + 1]
    /\ UNCHANGED <<caps, pool, op, done, conn, attempt, mode, outcome, calls>>

\* A direct query may also be declined.
BaseDeclines(t, a) ==
    /\ a = "skip"
    /\ alive[conn[t]]
    /\ UNCHANGED <<caps, pool, op, done, conn, attempt, effects, calls>>

Direct(t) ==
    /\ pc[t] = "direct"
    /\ \/ Held(t, caps.direct)
       \/ /\ ~Refused(t, caps.direct) /\ ~NotCalled(t, caps.direct)
          /\ \E a \in Answers :
               /\ BaseRuns(t, a) \/ BaseDeclines(t, a)
               /\ Answered(t, a)

RunStmt(t) ==
    /\ pc[t] = "stmt"
    /\ \/ Held(t, caps.stmt)
       \/ /\ ~Refused(t, caps.stmt) /\ ~NotCalled(t, caps.stmt)
          /\ \E a \in Answers : BaseRuns(t, a) /\ Answered(t, a)

\* The base prepares the query, finds it wrong, or is gone.
BasePrepares(t) ==
    /\ \/ /\ alive[conn[t]]
          /\ Goto(t, "stmtargs")
          /\ prepared' = IF op[t].kind = "stmt" THEN prepared \cup {conn[t]} ELSE prepared
          /\ UNCHANGED answer
       \/ /\ Answered(t, IF alive[conn[t]] THEN "failed" ELSE "badconn")
          /\ UNCHANGED prepared
    /\ UNCHANGED <<caps, conns, alive, op, done, conn, attempt, effects, calls>>

\* What was prepared under a context that is done by then is closed again.
Prepare(t) ==
    /\ pc[t] = "prepare"
    /\ \/ ~NotCalled(t, caps.prepare) /\ BasePrepares(t)
       \/ /\ NotCalled(t, caps.prepare)
          /\ Answered(t, IF alive[conn[t]] THEN "failed" ELSE "badconn")
          /\ UNCHANGED <<caps, pool, op, done, conn, attempt, effects, calls>>

\* What a base that implements the interface answers to Ping.
BasePings(t) ==
    /\ \E a \in (IF alive[conn[t]] THEN {"ok", "failed"} ELSE {"badconn"}) : Answered(t, a)
    /\ UNCHANGED <<caps, pool, op, done, conn, attempt, effects, calls>>

\* Without a Pinger the connection is assumed to be good.
Ping(t) ==
    /\ pc[t] = "ping"
    /\ \/ /\ caps.ping
          /\ BasePings(t)
       \/ /\ ~caps.ping
          /\ Answered(t, "ok")
          /\ UNCHANGED <<caps, pool, op, done, conn, attempt, effects, calls>>

\* The base begins a transaction with these options.
BaseBegins(t, readOnly) ==
    /\ \/ /\ alive[conn[t]]
          /\ Goto(t, "tx")
          /\ mode' = [mode EXCEPT ![t] = IF readOnly THEN "readonly" ELSE "readwrite"]
          /\ UNCHANGED answer
       \/ /\ Answered(t, IF alive[conn[t]] THEN "failed" ELSE "badconn")
          /\ UNCHANGED mode
    /\ UNCHANGED <<caps, pool, op, done, conn, attempt, executed, outcome, calls>>

\* A base without BeginTx cannot be asked for a read-only transaction, and one
\* it began under a context that is done by then is rolled back.
Begin(t) ==
    /\ pc[t] = "begin"
    /\ \/ /\ caps.beginTx \/ (~op[t].readOnly /\ ~done[t])
          /\ BaseBegins(t, op[t].readOnly)
       \/ /\ ~caps.beginTx /\ ~op[t].readOnly /\ done[t]
          /\ Answered(t, IF alive[conn[t]] THEN "failed" ELSE "badconn")
          /\ UNCHANGED <<caps, pool, op, done, conn, attempt, effects, calls>>
       \/ /\ ~caps.beginTx /\ op[t].readOnly
          /\ Answered(t, "rejected")
          /\ UNCHANGED <<caps, pool, op, done, conn, attempt, effects, calls>>

\* Commit or Rollback, unless the context was done and database/sql has rolled
\* it back.
EndTx(t) ==
    /\ pc[t] = "tx"
    /\ mode' = [mode EXCEPT ![t] = "none"]
    /\ \E a \in {"ok", "failed"} :
         /\ a = "ok" => alive[conn[t]]
         /\ a = "failed" => ~alive[conn[t]] \/ done[t]
         /\ Answered(t, a)
    /\ UNCHANGED <<caps, pool, op, done, conn, attempt, executed, outcome, calls>>

\* The direct query was declined: prepare it instead.
FallBack(t) ==
    /\ pc[t] = "answered"
    /\ answer[t] = "skip"
    /\ op[t].kind = "query"
    /\ Goto(t, "prepare")
    /\ answer' = [answer EXCEPT ![t] = "none"]
    /\ UNCHANGED <<caps, pool, op, done, conn, attempt, effects, calls>>

CloseConn(c) ==
    /\ conns' = [conns EXCEPT ![c] = "closed"]
    /\ alive' = [alive EXCEPT ![c] = FALSE]
    /\ prepared' = prepared \ {c}

\* db.retry: the connection was bad, so the operation starts again on another.
Retry(t) ==
    /\ pc[t] = "answered"
    /\ answer[t] = "badconn"
    /\ attempt[t] < 2
    /\ CloseConn(conn[t])
    /\ attempt' = [attempt EXCEPT ![t] = @ + 1]
    /\ answer' = [answer EXCEPT ![t] = "none"]
    /\ conn' = [conn EXCEPT ![t] = NoConn]
    /\ Goto(t, "acquire")
    /\ UNCHANGED <<caps, op, done, effects, calls>>

\* The call returns; the connection goes back to the pool if it is not known
\* to be bad, nor says so itself, and there is room.
Finish(t, validates) ==
    /\ pc[t] = "answered"
    /\ answer[t] = "skip" => op[t].kind # "query"
    /\ answer[t] = "badconn" => attempt[t] = 2
    /\ outcome' = [outcome EXCEPT ![t] = answer[t]]
    /\ IF answer[t] # "badconn" /\ (validates => alive[conn[t]])
            /\ Cardinality({c \in Conn : conns[c] = "idle"}) < MaxIdle
       THEN conns' = [conns EXCEPT ![conn[t]] = "idle"] /\ UNCHANGED <<alive, prepared>>
       ELSE CloseConn(conn[t])
    /\ attempt' = [attempt EXCEPT ![t] = 0]
    /\ answer' = [answer EXCEPT ![t] = "none"]
    /\ conn' = [conn EXCEPT ![t] = NoConn]
    /\ done' = [done EXCEPT ![t] = FALSE]
    /\ Goto(t, "idle")
    /\ UNCHANGED <<caps, op, executed, mode, calls>>

\* What database/sql does by itself, whatever driver it talks to.
SqlSteps(t, hasDirect, pooled) ==
    \/ Cancel(t) \/ GiveUp(t)
    \/ AcquireCached(t, hasDirect, pooled) \/ AcquireNew(t, hasDirect)
    \/ FallBack(t) \/ Retry(t) \/ Finish(t, pooled)

\* Every base has its own Conn's checker asked before a direct query, and its
\* Stmt's, or failing that its Conn's, before a statement runs.
BareDriver(t) ==
    \/ pc[t] = "args" /\ CheckArgs(t, "direct", caps.connArgs)
    \/ Direct(t)
    \/ Prepare(t)
    \/ pc[t] = "stmtargs" /\ CheckArgs(t, "stmt", caps.stmtArgs \/ caps.connArgs)
    \/ RunStmt(t)
    \/ Ping(t) \/ Begin(t) \/ EndTx(t)

BareNext ==
    \/ \E c \in Conn : Kill(c)
    \/ \E t \in Thread :
         \/ \E o \in Operations : Start(t, o)
         \/ SqlSteps(t, caps.direct # "none", caps.pooled)
         \/ BareDriver(t)

BareSpec == BareInit /\ [][BareNext]_bareVars
=============================================================================
