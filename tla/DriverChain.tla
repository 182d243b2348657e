----------------------------- MODULE DriverChain -----------------------------
(***************************************************************************)
(* The database/sql driver wrapper of middleware/driver.go: database/sql   *)
(* talks to wConn, wStmt and wTx, which talk to the base driver and        *)
(* analyze a query once the base has answered (analyzeExecuted).  Because  *)
(* the wrapper implements every optional interface, database/sql always    *)
(* takes the direct path first and always asks the wrapper's checkers.     *)
(*                                                                         *)
(* analyzed[t] and timed[t] count what Guard.Check and Guard.CheckLatency  *)
(* saw of t's current operation.                                           *)
(***************************************************************************)
EXTENDS BareDB

VARIABLES analyzed, timed

vars == <<bareVars, analyzed, timed>>

TypeOK ==
    /\ BareTypeOK
    /\ pc \in [Thread -> {"idle", "acquire", "args", "direct", "prepare", "stmtargs",
                          "stmt", "ping", "begin", "tx", "analyze", "answered"}]
    /\ analyzed \in [Thread -> Nat]
    /\ timed \in [Thread -> Nat]

Init ==
    /\ BareInit
    /\ analyzed = [t \in Thread |-> 0]
    /\ timed = [t \in Thread |-> 0]

\* wDriver/wConnector open connections that all share one Guard.
StartOperation(t, o) ==
    /\ Start(t, o)
    /\ analyzed' = [analyzed EXCEPT ![t] = 0]
    /\ timed' = [timed EXCEPT ![t] = 0]

\* wConn.CheckNamedValue: the base Conn's checker, else ErrSkip, after which
\* database/sql converts by default.
ConnCheckNamedValue(t) ==
    /\ pc[t] = "args"
    /\ CheckArgs(t, "direct", caps.connArgs)

\* wConn.ResetSession and IsValid: the base's, or that all is well.
ForwardsPooling == caps.pooled

BugNoDirect == "failed"

\* What wConn answers when the base has no direct entry point.
NoDirect == "skip"

\* wConn.QueryContext and ExecContext.
QueryContext(t) ==
    /\ pc[t] = "direct"
    /\ \/ /\ caps.direct = "none"
          /\ Answered(t, NoDirect)
          /\ UNCHANGED <<caps, pool, op, done, conn, attempt, effects, calls>>
       \/ /\ Refused(t, caps.direct)
          /\ Answered(t, "rejected")
          /\ UNCHANGED <<caps, pool, op, done, conn, attempt, effects, calls>>
       \/ /\ caps.direct # "none"
          /\ ~Refused(t, caps.direct)
          /\ \E a \in Answers :
               /\ BaseRuns(t, a) \/ BaseDeclines(t, a)
               /\ Goto(t, "analyze")
               /\ answer' = [answer EXCEPT ![t] = a]

\* wConn.PrepareContext: the base's, or its Prepare, whatever has become of the
\* context.
PrepareContext(t) ==
    /\ pc[t] = "prepare"
    /\ BasePrepares(t)

\* wStmt.CheckNamedValue: the base Stmt's checker, else ErrSkip.
StmtCheckNamedValue(t) ==
    /\ pc[t] = "stmtargs"
    /\ CheckArgs(t, "stmt", caps.stmtArgs)

\* wStmt.QueryContext and ExecContext.
StmtQueryContext(t) ==
    /\ pc[t] = "stmt"
    /\ \/ /\ Refused(t, caps.stmt)
          /\ Answered(t, "rejected")
          /\ UNCHANGED <<caps, pool, op, done, conn, attempt, effects, calls>>
       \/ /\ ~Refused(t, caps.stmt)
          /\ \E a \in Answers :
               /\ BaseRuns(t, a)
               /\ Goto(t, "analyze")
               /\ answer' = [answer EXCEPT ![t] = a]

BugRan(a) == a # "badconn"
BugRanWell(a) == a = "ok"

\* The base executed the query: it answered neither ErrSkip nor ErrBadConn.
Ran(a) == a \notin {"skip", "badconn"}

BugMeaningful(a) == Ran(a)

\* Only the latency of a query that succeeded means anything.
Meaningful(a) == a = "ok"

\* analyzeExecuted, before the answer goes back to database/sql.
AnalyzeExecuted(t) ==
    /\ pc[t] = "analyze"
    /\ Goto(t, "answered")
    /\ analyzed' = [analyzed EXCEPT ![t] = IF Ran(answer[t]) THEN @ + 1 ELSE @]
    /\ timed' = [timed EXCEPT ![t] = IF Meaningful(answer[t]) THEN @ + 1 ELSE @]
    /\ UNCHANGED <<caps, pool, op, done, conn, attempt, answer, effects, calls>>

\* wConn.Ping: ErrSkip when the base is no Pinger.
WrapperPing(t) ==
    /\ pc[t] = "ping"
    /\ \/ /\ caps.ping
          /\ BasePings(t)
       \/ /\ ~caps.ping
          /\ Answered(t, "skip")
          /\ UNCHANGED <<caps, pool, op, done, conn, attempt, effects, calls>>

\* wConn.BeginTx: the legacy Begin, without the options, when the base has no
\* BeginTx.
WrapperBegin(t) ==
    /\ pc[t] = "begin"
    /\ BaseBegins(t, caps.beginTx /\ op[t].readOnly)

\* The calls of the wrapper.  Commit and Rollback only forward.
Wrapper(t) ==
    \/ ConnCheckNamedValue(t) \/ QueryContext(t)
    \/ PrepareContext(t) \/ StmtCheckNamedValue(t) \/ StmtQueryContext(t)
    \/ WrapperPing(t) \/ WrapperBegin(t) \/ EndTx(t)

Done ==
    /\ calls = MaxCalls
    /\ \A t \in Thread : pc[t] = "idle"
    /\ UNCHANGED vars

Next ==
    \/ \E c \in Conn : Kill(c) /\ UNCHANGED <<analyzed, timed>>
    \/ \E t \in Thread :
         \/ \E o \in Operations : StartOperation(t, o)
         \/ SqlSteps(t, TRUE, ForwardsPooling) /\ UNCHANGED <<analyzed, timed>>
         \/ Wrapper(t) /\ UNCHANGED <<analyzed, timed>>
         \/ AnalyzeExecuted(t)
    \/ Done

Spec == Init /\ [][Next]_vars
-----------------------------------------------------------------------------
\* One logical query is analyzed exactly once if the database executed it and
\* not at all if it did not, whatever mix of declined direct queries, bad
\* connections and retries it took (driver.go:397, analyzeExecuted).
AnalyzedOnce ==
    \A t \in Thread :
        /\ executed[t] <= 1
        /\ analyzed[t] = IF pc[t] = "analyze" THEN 0 ELSE executed[t]

\* Latency is recorded exactly for the queries that succeeded.
TimedOnSuccess ==
    \A t \in Thread :
        op[t].kind \in {"query", "stmt"} /\ pc[t] = "idle" =>
            timed[t] = (IF outcome[t] = "ok" THEN 1 ELSE 0)

\* Where an operation that executes a query can be, and one that does not, and
\* that it has a connection there.
PlaceInv ==
    \A t \in Thread :
        /\ pc[t] \in {"args", "direct", "prepare", "stmtargs", "stmt", "analyze"}
             => op[t].kind \in {"query", "stmt"}
        /\ pc[t] \in {"ping", "begin", "tx"} => op[t].kind \in {"ping", "begin"}
        /\ pc[t] \notin {"idle", "acquire"} => conn[t] \in Conn

\* Until the base answers, and when it answers that it did not run the query,
\* nothing has been executed, analyzed or timed.
NotYetInv ==
    \A t \in Thread :
        \/ pc[t] \in {"acquire", "args", "direct", "prepare", "stmtargs", "stmt",
                      "ping", "begin", "tx"}
        \/ pc[t] \in {"analyze", "answered"} /\ answer[t] \in {"skip", "badconn"}
        => executed[t] = 0 /\ timed[t] = 0

\* When it did, the answer tells whether to time it.
AnsweredInv ==
    \A t \in Thread :
        /\ pc[t] = "analyze" =>
             /\ timed[t] = 0
             /\ answer[t] \in {"ok", "failed", "skip", "badconn"}
             /\ answer[t] \in {"ok", "failed"} => executed[t] = 1
        /\ pc[t] = "answered" /\ op[t].kind \in {"query", "stmt"} =>
             timed[t] = (IF answer[t] = "ok" THEN 1 ELSE 0)

\* The bookkeeping behind AnalyzedOnce and TimedOnSuccess.
BookInv ==
    /\ TypeOK
    /\ PlaceInv
    /\ NotYetInv
    /\ AnsweredInv
    /\ AnalyzedOnce
    /\ TimedOnSuccess

\* There is an answer only between the base's answering and its handling, only
\* a base with a direct query declines one, and a transaction is open only
\* between Begin and its end.
AnswerInv ==
    \A t \in Thread :
        /\ pc[t] \in {"args", "direct"} => op[t].kind = "query"
        /\ pc[t] \notin {"analyze", "answered"} => answer[t] = "none"
        /\ pc[t] = "analyze" /\ answer[t] = "skip" => caps.direct # "none"
        /\ pc[t] # "tx" => mode[t] = "none"

\* The inductive invariant behind AnalyzedOnce, TimedOnSuccess and the
\* refinement below (driver.go: analyzeExecuted and its callers).
IInv == BookInv /\ AnswerInv

\* While wConn stands in for a direct interface the base does not have, the
\* bare database/sql is already at Prepare.
StandsIn(t) ==
    /\ op[t].kind = "query"
    /\ caps.direct = "none"
    /\ \/ pc[t] \in {"args", "direct"}
       \/ pc[t] = "answered" /\ answer[t] = "skip"

barePc == [t \in Thread |-> IF StandsIn(t) THEN "prepare"
                            ELSE IF pc[t] = "analyze" THEN "answered" ELSE pc[t]]

bareAnswer == [t \in Thread |-> IF StandsIn(t) THEN "none" ELSE answer[t]]

Bare == INSTANCE BareDB WITH pc <- barePc, answer <- bareAnswer

\* The four places where the wrapper is not the bare driver.  A base that is
\* no Pinger fails every Ping ...
PingFails(t) ==
    /\ pc[t] = "ping" /\ ~caps.ping
    /\ pc'[t] = "answered" /\ answer'[t] = "skip"

\* ... a base without BeginTx begins a read-write transaction when it was
\* asked for a read-only one ...
OptionsDropped(t) ==
    /\ pc[t] = "begin" /\ ~caps.beginTx /\ op[t].readOnly
    /\ pc'[t] \in {"tx", "answered"} /\ mode'[t] # "readonly"

\* ... and an argument only the base's checker accepts is refused before that
\* checker is asked: a statement's arguments are not shown to the Conn, and
\* the Conn alone is asked when the base has no direct query.
ArgumentRefused(t) ==
    /\ op[t].args = "special"
    /\ \/ pc[t] = "args" /\ caps.direct = "none" /\ ~caps.connArgs
       \/ pc[t] = "stmtargs" /\ caps.connArgs /\ ~caps.stmtArgs
    /\ pc'[t] = "answered" /\ answer'[t] = "rejected"

\* ... and a base that takes no context is called although that is done, since
\* database/sql takes the wrapper for a driver that looks for itself.
CancelIgnored(t) ==
    /\ done[t]
    /\ \/ pc[t] = "direct" /\ caps.direct = "legacy" /\ pc'[t] = "analyze"
       \/ pc[t] = "stmt" /\ caps.stmt = "legacy" /\ pc'[t] = "analyze"
       \/ pc[t] = "prepare" /\ caps.prepare = "legacy" /\ pc'[t] = "stmtargs"
       \/ pc[t] = "begin" /\ ~caps.beginTx /\ pc'[t] = "tx"

Deviates(t) == PingFails(t) \/ OptionsDropped(t) \/ ArgumentRefused(t) \/ CancelIgnored(t)

\* Everywhere else database/sql over the wrapper takes only steps it takes
\* over the bare driver: same base calls, same retries, same fallbacks, same
\* outcomes (driver.go:22-28).
AsBareButForKnown ==
    Bare!BareInit /\ [][Bare!BareNext \/ \E t \in Thread : Deviates(t)]_(Bare!bareVars)

\* What driver.go:26 says without exception.
AsBare == Bare!BareSpec
=============================================================================
