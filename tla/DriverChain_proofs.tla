------------------------- MODULE DriverChain_proofs -------------------------
(***************************************************************************)
(* For any number of goroutines and connections, any mix of operations and *)
(* whatever optional interfaces the base driver implements: a logical      *)
(* query is analyzed exactly once if it was executed and not at all if it  *)
(* was not, and timed exactly if it succeeded; and but for the four named  *)
(* deviations database/sql over the wrapper takes only steps it takes over *)
(* the bare driver.                                                        *)
(***************************************************************************)
EXTENDS DriverChain, TLAPS

Quiet == UNCHANGED <<analyzed, timed>>

\* Nothing about a query is known when it starts.
LEMMA InitBookInv == Init => BookInv
PROOF
  <1> SUFFICES ASSUME Init PROVE BookInv
    OBVIOUS
  <1>1. (CHOOSE o \in Operations : TRUE) \in Operation
    BY BareDBAssumption
  <1>2. BareTypeOK
    BY <1>1, BareDBAssumption DEF Init, BareInit, BareTypeOK, Answers
  <1> QED BY <1>2 DEF Init, BareInit, BookInv, TypeOK, PlaceInv, NotYetInv, AnsweredInv,
                     AnalyzedOnce, TimedOnSuccess

LEMMA StartBookInv ==
    ASSUME BookInv, NEW t \in Thread, NEW o \in Operations, StartOperation(t, o)
    PROVE  BookInv'
PROOF
  <1>1. o \in Operation
    BY BareDBAssumption
  <1>2. TypeOK'
    BY <1>1 DEF BookInv, TypeOK, BareTypeOK, StartOperation, Start, Goto, pool, Answers
  <1>3. PlaceInv' /\ NotYetInv' /\ AnsweredInv'
    BY DEF BookInv, TypeOK, BareTypeOK, PlaceInv, NotYetInv, AnsweredInv,
           StartOperation, Start, Goto, pool
  <1>4. AnalyzedOnce' /\ TimedOnSuccess'
    BY DEF BookInv, TypeOK, BareTypeOK, AnalyzedOnce, TimedOnSuccess,
           StartOperation, Start, Goto, pool
  <1> QED BY <1>2, <1>3, <1>4 DEF BookInv

LEMMA KillBookInv ==
    ASSUME BookInv, NEW c \in Conn, Kill(c), Quiet
    PROVE  BookInv'
PROOF
  BY DEF BookInv, TypeOK, BareTypeOK, PlaceInv, NotYetInv, AnsweredInv, AnalyzedOnce,
         TimedOnSuccess, Kill, Quiet, call, effects

\* The application cancels its call, or database/sql gives up on it.
LEMMA CancelBookInv ==
    ASSUME BookInv, NEW t \in Thread, Cancel(t) \/ GiveUp(t), Quiet
    PROVE  BookInv'
PROOF
  <1>1. CASE Cancel(t)
    BY <1>1 DEF BookInv, TypeOK, BareTypeOK, PlaceInv, NotYetInv, AnsweredInv, AnalyzedOnce,
                TimedOnSuccess, Cancel, Quiet, pool, effects
  <1>2. CASE GiveUp(t)
    <2>1. TypeOK'
      BY <1>2 DEF BookInv, TypeOK, BareTypeOK, GiveUp, Goto, Quiet, pool, Answers
    <2>2. PlaceInv' /\ NotYetInv' /\ AnsweredInv' /\ AnalyzedOnce' /\ TimedOnSuccess'
      BY <1>2 DEF BookInv, TypeOK, BareTypeOK, PlaceInv, NotYetInv, AnsweredInv, AnalyzedOnce,
                  TimedOnSuccess, GiveUp, Goto, Quiet, pool
    <2> QED BY <2>1, <2>2 DEF BookInv
  <1> QED BY <1>1, <1>2

\* A session that does not reset counts as a bad connection.
LEMMA ResetBookInv ==
    ASSUME BookInv, NEW t \in Thread, NEW c \in Conn, Quiet, pc[t] = "acquire",
           conn' = [conn EXCEPT ![t] = c], conns' = [conns EXCEPT ![c] = "busy"],
           Answered(t, "badconn"),
           UNCHANGED <<caps, alive, prepared, op, done, attempt, effects, calls>>
    PROVE  BookInv'
PROOF
  <1>1. TypeOK'
    BY DEF BookInv, TypeOK, BareTypeOK, Answered, Goto, Quiet, effects, Answers
  <1>2. PlaceInv' /\ NotYetInv' /\ AnsweredInv' /\ AnalyzedOnce' /\ TimedOnSuccess'
    BY DEF BookInv, TypeOK, BareTypeOK, PlaceInv, NotYetInv, AnsweredInv, AnalyzedOnce,
           TimedOnSuccess, Answered, Goto, Quiet, effects
  <1> QED BY <1>1, <1>2 DEF BookInv

\* Where an operation goes from "acquire".
LEMMA EntryPlace ==
    ASSUME BookInv, NEW t \in Thread, NEW c
    PROVE  /\ Entry(t, c, TRUE) \in {"args", "prepare", "stmtargs", "ping", "begin"}
           /\ Entry(t, c, TRUE) \in {"args", "prepare", "stmtargs"} => op[t].kind \in {"query", "stmt"}
           /\ Entry(t, c, TRUE) \in {"ping", "begin"} => op[t].kind \in {"ping", "begin"}
PROOF
  <1>1. op[t].kind \in {"query", "stmt", "ping", "begin"}
    BY DEF BookInv, TypeOK, BareTypeOK, Operation
  <1> QED BY <1>1 DEF Entry

LEMMA AcquireBookInv ==
    ASSUME BookInv, NEW t \in Thread, NEW resets,
           AcquireCached(t, TRUE, resets) \/ AcquireNew(t, TRUE), Quiet,
           ~Answered(t, "badconn")
    PROVE  BookInv'
PROOF
  <1>1. PICK c \in Conn : /\ conn' = [conn EXCEPT ![t] = c]
                          /\ conns' = [conns EXCEPT ![c] = "busy"]
                          /\ Goto(t, Entry(t, c, TRUE))
    BY DEF AcquireCached, AcquireNew
  <1>2. /\ pc[t] = "acquire" /\ alive' \in [Conn -> BOOLEAN]
        /\ UNCHANGED <<caps, prepared, op, done, attempt, answer, effects, calls, analyzed, timed>>
    BY DEF AcquireCached, AcquireNew, Quiet, BookInv, TypeOK, BareTypeOK
  <1> DEFINE e == Entry(t, c, TRUE)
  <1>3. /\ e \in {"args", "prepare", "stmtargs", "ping", "begin"}
        /\ e \in {"args", "prepare", "stmtargs"} => op[t].kind \in {"query", "stmt"}
        /\ e \in {"ping", "begin"} => op[t].kind \in {"ping", "begin"}
    BY EntryPlace
  <1>4. pc' = [pc EXCEPT ![t] = e]
    BY <1>1 DEF Goto
  <1> HIDE DEF e
  <1>5. TypeOK'
    BY <1>1, <1>2, <1>3, <1>4 DEF BookInv, TypeOK, BareTypeOK, effects
  <1>6. PlaceInv' /\ NotYetInv' /\ AnsweredInv'
    BY <1>1, <1>2, <1>3, <1>4 DEF BookInv, TypeOK, BareTypeOK, PlaceInv, NotYetInv, AnsweredInv, effects
  <1>7. AnalyzedOnce' /\ TimedOnSuccess'
    BY <1>2, <1>3, <1>4 DEF BookInv, TypeOK, BareTypeOK, AnalyzedOnce, TimedOnSuccess, effects
  <1> QED BY <1>5, <1>6, <1>7 DEF BookInv

LEMMA SqlBookInv ==
    ASSUME BookInv, NEW t \in Thread, NEW validates, FallBack(t) \/ Retry(t) \/ Finish(t, validates), Quiet
    PROVE  BookInv'
PROOF
  <1>1. CASE FallBack(t)
    <2>1. TypeOK'
      BY <1>1 DEF BookInv, TypeOK, BareTypeOK, FallBack, Goto, Quiet, pool, effects, Answers
    <2>2. PlaceInv' /\ NotYetInv' /\ AnsweredInv' /\ AnalyzedOnce' /\ TimedOnSuccess'
      BY <1>1 DEF BookInv, TypeOK, BareTypeOK, PlaceInv, NotYetInv, AnsweredInv, AnalyzedOnce,
                  TimedOnSuccess, FallBack, Goto, Quiet, pool, effects
    <2> QED BY <2>1, <2>2 DEF BookInv
  <1>2. CASE Retry(t)
    <2>1. /\ conns' \in [Conn -> {"closed", "idle", "busy"}]
          /\ alive' \in [Conn -> BOOLEAN] /\ prepared' \subseteq Conn
      BY <1>2 DEF BookInv, TypeOK, BareTypeOK, Retry, CloseConn
    <2>2. attempt' \in [Thread -> 0 .. 2]
      <3>1. attempt[t] \in 0 .. 2 /\ attempt[t] < 2
        BY <1>2 DEF BookInv, TypeOK, BareTypeOK, Retry
      <3>2. attempt[t] + 1 \in 0 .. 2
        BY <3>1
      <3> QED BY <1>2, <3>2 DEF BookInv, TypeOK, BareTypeOK, Retry
    <2>3. TypeOK'
      BY <1>2, <2>1, <2>2 DEF BookInv, TypeOK, BareTypeOK, Retry, Goto, Quiet, effects, Answers
    <2>4. PlaceInv' /\ NotYetInv' /\ AnsweredInv' /\ AnalyzedOnce' /\ TimedOnSuccess'
      BY <1>2 DEF BookInv, TypeOK, BareTypeOK, PlaceInv, NotYetInv, AnsweredInv, AnalyzedOnce,
                  TimedOnSuccess, Retry, CloseConn, Goto, Quiet, effects
    <2> QED BY <2>3, <2>4 DEF BookInv
  <1>3. CASE Finish(t, validates)
    <2>1. /\ conns' \in [Conn -> {"closed", "idle", "busy"}]
          /\ alive' \in [Conn -> BOOLEAN] /\ prepared' \subseteq Conn
      BY <1>3 DEF BookInv, TypeOK, BareTypeOK, Finish, CloseConn
    <2>2. TypeOK'
      BY <1>3, <2>1 DEF BookInv, TypeOK, BareTypeOK, Finish, Goto, Quiet, Answers
    <2>3. PlaceInv' /\ NotYetInv' /\ AnsweredInv' /\ AnalyzedOnce' /\ TimedOnSuccess'
      BY <1>3 DEF BookInv, TypeOK, BareTypeOK, PlaceInv, NotYetInv, AnsweredInv, AnalyzedOnce,
                  TimedOnSuccess, Finish, Goto, Quiet
    <2> QED BY <2>2, <2>3 DEF BookInv
  <1> QED BY <1>1, <1>2, <1>3

\* A step from one place before the base's answer to another.
LEMMA OnwardBookInv ==
    ASSUME BookInv, NEW t \in Thread, Quiet,
           pc[t] \in {"args", "direct", "prepare", "stmtargs", "stmt"},
           UNCHANGED <<caps, conns, alive, op, done, conn, attempt, effects, calls>>,
           prepared' \subseteq Conn,
           \/ /\ \E s \in {"direct", "stmtargs", "stmt"} : pc' = [pc EXCEPT ![t] = s]
              /\ UNCHANGED answer
           \/ \E a \in {"rejected", "failed", "skip", "badconn"} :
                pc' = [pc EXCEPT ![t] = "answered"] /\ answer' = [answer EXCEPT ![t] = a]
    PROVE  BookInv'
PROOF
  <1>1. TypeOK'
    BY DEF BookInv, TypeOK, BareTypeOK, Quiet, effects, Answers
  <1>2. PlaceInv' /\ NotYetInv' /\ AnsweredInv'
    BY DEF BookInv, TypeOK, BareTypeOK, PlaceInv, NotYetInv, AnsweredInv, Quiet, effects
  <1>3. AnalyzedOnce' /\ TimedOnSuccess'
    BY DEF BookInv, TypeOK, BareTypeOK, NotYetInv, AnalyzedOnce, TimedOnSuccess, Quiet, effects
  <1> QED BY <1>1, <1>2, <1>3 DEF BookInv

\* The base is handed the query.
LEMMA BaseBookInv ==
    ASSUME BookInv, NEW t \in Thread, Quiet, pc[t] \in {"direct", "stmt"},
           NEW a \in Answers, BaseRuns(t, a) \/ BaseDeclines(t, a),
           Goto(t, "analyze"), answer' = [answer EXCEPT ![t] = a]
    PROVE  BookInv'
PROOF
  <1>1. /\ a \in {"ok", "failed", "skip", "badconn"}
        /\ executed' = [executed EXCEPT ![t] = IF a \in {"ok", "failed"} THEN @ + 1 ELSE @]
        /\ UNCHANGED <<caps, pool, op, done, conn, attempt, mode, outcome, calls>>
    BY DEF BaseRuns, BaseDeclines, effects, BookInv, TypeOK, BareTypeOK
  <1>2. executed[t] = 0 /\ analyzed[t] = 0 /\ timed[t] = 0 /\ op[t].kind \in {"query", "stmt"}
    BY DEF BookInv, NotYetInv, AnalyzedOnce, PlaceInv
  <1>3. TypeOK'
    BY <1>1 DEF BookInv, TypeOK, BareTypeOK, Quiet, Goto, pool
  <1>4. PlaceInv' /\ NotYetInv' /\ AnsweredInv'
    BY <1>1, <1>2 DEF BookInv, TypeOK, BareTypeOK, PlaceInv, NotYetInv, AnsweredInv, Quiet, Goto
  <1>5. AnalyzedOnce' /\ TimedOnSuccess'
    BY <1>1, <1>2 DEF BookInv, TypeOK, BareTypeOK, AnalyzedOnce, TimedOnSuccess, Quiet, Goto
  <1> QED BY <1>3, <1>4, <1>5 DEF BookInv

LEMMA AnalyzeBookInv ==
    ASSUME BookInv, NEW t \in Thread, AnalyzeExecuted(t)
    PROVE  BookInv'
PROOF
  <1>1. /\ timed[t] = 0 /\ analyzed[t] = 0
        /\ answer[t] \in {"ok", "failed", "skip", "badconn"}
        /\ answer[t] \in {"ok", "failed"} => executed[t] = 1
        /\ answer[t] \in {"skip", "badconn"} => executed[t] = 0
    BY DEF BookInv, AnsweredInv, AnalyzedOnce, NotYetInv, AnalyzeExecuted
  <1>2. TypeOK'
    BY DEF BookInv, TypeOK, BareTypeOK, AnalyzeExecuted, Goto, pool, effects
  <1>3. PlaceInv' /\ NotYetInv' /\ AnsweredInv'
    BY <1>1 DEF BookInv, TypeOK, BareTypeOK, PlaceInv, NotYetInv, AnsweredInv, AnalyzeExecuted,
                Goto, Meaningful, effects
  <1>4. AnalyzedOnce' /\ TimedOnSuccess'
    BY <1>1 DEF BookInv, TypeOK, BareTypeOK, AnalyzedOnce, TimedOnSuccess, AnalyzeExecuted,
                Goto, Ran, effects
  <1> QED BY <1>2, <1>3, <1>4 DEF BookInv

\* The calls that execute no query.
LEMMA OtherBookInv ==
    ASSUME BookInv, NEW t \in Thread, WrapperPing(t) \/ WrapperBegin(t) \/ EndTx(t), Quiet
    PROVE  BookInv'
PROOF
  <1>1. /\ pc[t] \in {"ping", "begin", "tx"}
        /\ mode' \in [Thread -> {"none", "readonly", "readwrite"}]
        /\ UNCHANGED <<caps, pool, op, done, conn, attempt, executed, outcome, calls, analyzed, timed>>
        /\ \/ pc' = [pc EXCEPT ![t] = "tx"] /\ answer' = answer /\ pc[t] = "begin"
           \/ \E a \in {"ok", "failed", "skip", "badconn"} :
                pc' = [pc EXCEPT ![t] = "answered"] /\ answer' = [answer EXCEPT ![t] = a]
    BY DEF WrapperPing, WrapperBegin, EndTx, BasePings, BaseBegins, Answered, Goto, Quiet,
           effects, BookInv, TypeOK, BareTypeOK
  <1>2. TypeOK'
    BY <1>1 DEF BookInv, TypeOK, BareTypeOK, pool, Answers
  <1>3. PlaceInv' /\ AnsweredInv'
    BY <1>1 DEF BookInv, TypeOK, BareTypeOK, PlaceInv, AnsweredInv
  <1>4. NotYetInv' /\ AnalyzedOnce' /\ TimedOnSuccess'
    BY <1>1 DEF BookInv, TypeOK, BareTypeOK, PlaceInv, NotYetInv, AnalyzedOnce, TimedOnSuccess
  <1> QED BY <1>2, <1>3, <1>4 DEF BookInv

LEMMA WrapperBookInv ==
    ASSUME BookInv, NEW t \in Thread, Wrapper(t), Quiet
    PROVE  BookInv'
PROOF
  <1>1. CASE ConnCheckNamedValue(t) \/ StmtCheckNamedValue(t)
    BY <1>1, OnwardBookInv DEF ConnCheckNamedValue, StmtCheckNamedValue, CheckArgs, Answered,
       Goto, pool, BookInv, TypeOK, BareTypeOK
  <1>2. CASE PrepareContext(t)
    <2>1. prepared' \subseteq Conn
      BY <1>2 DEF PrepareContext, BasePrepares, BookInv, TypeOK, BareTypeOK, PlaceInv
    <2> QED BY <1>2, <2>1, OnwardBookInv DEF PrepareContext, BasePrepares, Answered, Goto
  <1>3. CASE QueryContext(t)
    <2>1. CASE pc' = [pc EXCEPT ![t] = "analyze"]
      <3>1. PICK a \in Answers : /\ BaseRuns(t, a) \/ BaseDeclines(t, a)
                                 /\ Goto(t, "analyze")
                                 /\ answer' = [answer EXCEPT ![t] = a]
        BY <1>3, <2>1 DEF QueryContext, Answered, Goto, BookInv, TypeOK, BareTypeOK
      <3>2. pc[t] = "direct"
        BY <1>3 DEF QueryContext
      <3> QED BY <3>1, <3>2, BaseBookInv
    <2>2. CASE pc' # [pc EXCEPT ![t] = "analyze"]
      BY <1>3, <2>2, OnwardBookInv DEF QueryContext, NoDirect, Answered, Goto, pool,
         BookInv, TypeOK, BareTypeOK
    <2> QED BY <2>1, <2>2
  <1>4. CASE StmtQueryContext(t)
    <2>1. CASE pc' = [pc EXCEPT ![t] = "analyze"]
      <3>1. PICK a \in Answers : /\ BaseRuns(t, a)
                                 /\ Goto(t, "analyze")
                                 /\ answer' = [answer EXCEPT ![t] = a]
        BY <1>4, <2>1 DEF StmtQueryContext, Answered, Goto, BookInv, TypeOK, BareTypeOK
      <3>2. pc[t] = "stmt"
        BY <1>4 DEF StmtQueryContext
      <3> QED BY <3>1, <3>2, BaseBookInv
    <2>2. CASE pc' # [pc EXCEPT ![t] = "analyze"]
      BY <1>4, <2>2, OnwardBookInv DEF StmtQueryContext, Answered, Goto, pool,
         BookInv, TypeOK, BareTypeOK
    <2> QED BY <2>1, <2>2
  <1>5. CASE WrapperPing(t) \/ WrapperBegin(t) \/ EndTx(t)
    BY <1>5, OtherBookInv
  <1> QED BY <1>1, <1>2, <1>3, <1>4, <1>5 DEF Wrapper

LEMMA NextBookInv == BookInv /\ [Next]_vars => BookInv'
PROOF
  <1> SUFFICES ASSUME BookInv, [Next]_vars PROVE BookInv'
    OBVIOUS
  <1>1. CASE \E c \in Conn : Kill(c) /\ UNCHANGED <<analyzed, timed>>
    BY <1>1, KillBookInv DEF Quiet
  <1>2. ASSUME NEW t \in Thread, NEW o \in Operations, StartOperation(t, o) PROVE BookInv'
    BY <1>2, StartBookInv
  <1>3. ASSUME NEW t \in Thread, SqlSteps(t, TRUE, ForwardsPooling), UNCHANGED <<analyzed, timed>>
        PROVE  BookInv'
    <2>1. CASE Cancel(t) \/ GiveUp(t)
      BY <1>3, <2>1, CancelBookInv DEF Quiet
    <2>2. CASE AcquireCached(t, TRUE, ForwardsPooling) \/ AcquireNew(t, TRUE)
      <3>1. CASE Answered(t, "badconn")
        <4>1. AcquireCached(t, TRUE, ForwardsPooling)
          <5>1. SUFFICES ASSUME AcquireNew(t, TRUE) PROVE FALSE
            BY <2>2
          <5>2. PICK c \in Conn : Goto(t, Entry(t, c, TRUE))
            BY <5>1 DEF AcquireNew
          <5>3. Entry(t, c, TRUE) # "answered"
            BY EntryPlace
          <5>4. pc'[t] = "answered" /\ pc'[t] = Entry(t, c, TRUE)
            BY <3>1, <5>2 DEF Answered, Goto, BookInv, TypeOK, BareTypeOK
          <5> QED BY <5>3, <5>4
        <4> QED BY <1>3, <3>1, <4>1, ResetBookInv DEF AcquireCached, Quiet
      <3>2. CASE ~Answered(t, "badconn")
        BY <1>3, <2>2, <3>2, AcquireBookInv DEF Quiet
      <3> QED BY <3>1, <3>2
    <2>3. CASE FallBack(t) \/ Retry(t) \/ Finish(t, ForwardsPooling)
      BY <1>3, <2>3, SqlBookInv DEF Quiet
    <2> QED BY <1>3, <2>1, <2>2, <2>3 DEF SqlSteps
  <1>4. ASSUME NEW t \in Thread, Wrapper(t), UNCHANGED <<analyzed, timed>> PROVE BookInv'
    BY <1>4, WrapperBookInv DEF Quiet
  <1>5. ASSUME NEW t \in Thread, AnalyzeExecuted(t) PROVE BookInv'
    BY <1>5, AnalyzeBookInv
  <1>6. CASE UNCHANGED vars
    BY <1>6 DEF vars, bareVars, pool, call, effects, BookInv, TypeOK, BareTypeOK, PlaceInv,
                NotYetInv, AnsweredInv, AnalyzedOnce, TimedOnSuccess
  <1> QED BY <1>1, <1>2, <1>3, <1>4, <1>5, <1>6 DEF Next, Done

LEMMA InitAnswerInv == Init => AnswerInv
PROOF
  BY DEF Init, BareInit, AnswerInv

LEMMA NextAnswerInv == IInv /\ [Next]_vars => AnswerInv'
PROOF
  <1> SUFFICES ASSUME IInv, [Next]_vars PROVE AnswerInv'
    OBVIOUS
  <1> USE DEF IInv, BookInv, TypeOK, BareTypeOK, AnswerInv, pool, effects, Goto, Answered
  <1>1. CASE \E c \in Conn : Kill(c)
    BY <1>1 DEF Kill, call
  <1>2. ASSUME NEW t \in Thread, NEW o \in Operations, StartOperation(t, o) PROVE AnswerInv'
    BY <1>2 DEF StartOperation, Start
  <1>3. ASSUME NEW t \in Thread, SqlSteps(t, TRUE, ForwardsPooling) PROVE AnswerInv'
    <2>1. CASE Cancel(t) \/ GiveUp(t)
      BY <2>1 DEF Cancel, GiveUp
    <2>2. CASE AcquireCached(t, TRUE, ForwardsPooling) \/ AcquireNew(t, TRUE)
      <3>1. PICK c \in Conn : \/ Answered(t, "badconn")
                              \/ Goto(t, Entry(t, c, TRUE)) /\ UNCHANGED answer
        BY <2>2 DEF AcquireCached, AcquireNew
      <3>2. pc[t] = "acquire" /\ UNCHANGED <<caps, op, mode>>
        BY <2>2 DEF AcquireCached, AcquireNew
      <3>3. CASE Goto(t, Entry(t, c, TRUE)) /\ UNCHANGED answer
        <4>1. Entry(t, c, TRUE) = "args" => op[t].kind = "query"
          BY DEF Entry, Operation
        <4>2. Entry(t, c, TRUE) \in {"args", "prepare", "stmtargs", "ping", "begin"}
          BY EntryPlace
        <4> DEFINE e == Entry(t, c, TRUE)
        <4> HIDE DEF e
        <4>3. pc' = [pc EXCEPT ![t] = e] /\ UNCHANGED answer
          BY <3>3 DEF e
        <4>4. /\ e = "args" => op[t].kind = "query"
              /\ e \in {"args", "prepare", "stmtargs", "ping", "begin"}
          BY <4>1, <4>2 DEF e
        <4> QED BY <3>2, <4>3, <4>4
      <3>4. CASE Answered(t, "badconn")
        BY <3>2, <3>4
      <3> QED BY <3>1, <3>3, <3>4
    <2>3. CASE FallBack(t) \/ Retry(t) \/ Finish(t, ForwardsPooling)
      <3>1. /\ UNCHANGED <<caps, op, mode>>
            /\ answer' = [answer EXCEPT ![t] = "none"]
            /\ \E s \in {"prepare", "acquire", "idle"} : Goto(t, s)
            /\ pc[t] = "answered"
        BY <2>3 DEF FallBack, Retry, Finish
      <3> QED BY <3>1
    <2> QED BY <1>3, <2>1, <2>2, <2>3 DEF SqlSteps
  <1>4. ASSUME NEW t \in Thread, Wrapper(t) PROVE AnswerInv'
    <2>1. CASE ConnCheckNamedValue(t) \/ StmtCheckNamedValue(t)
      BY <2>1 DEF ConnCheckNamedValue, StmtCheckNamedValue, CheckArgs
    <2>2. CASE QueryContext(t) \/ StmtQueryContext(t)
      <3>1. /\ pc[t] \in {"direct", "stmt"}
            /\ UNCHANGED <<caps, op, mode>>
            /\ \E a \in Answers :
                 /\ answer' = [answer EXCEPT ![t] = a]
                 /\ \/ Goto(t, "answered")
                    \/ Goto(t, "analyze") /\ (a = "skip" => caps.direct # "none")
        BY <2>2 DEF QueryContext, StmtQueryContext, NoDirect, BaseRuns, BaseDeclines, Answers
      <3> QED BY <3>1
    <2>3. CASE PrepareContext(t)
      BY <2>3 DEF PrepareContext, BasePrepares
    <2>4. CASE WrapperPing(t) \/ WrapperBegin(t) \/ EndTx(t)
      BY <2>4 DEF WrapperPing, WrapperBegin, EndTx, BasePings, BaseBegins
    <2> QED BY <1>4, <2>1, <2>2, <2>3, <2>4 DEF Wrapper
  <1>5. ASSUME NEW t \in Thread, AnalyzeExecuted(t) PROVE AnswerInv'
    BY <1>5 DEF AnalyzeExecuted
  <1>6. CASE UNCHANGED vars
    BY <1>6 DEF vars, bareVars, call
  <1> QED BY <1>1, <1>2, <1>3, <1>4, <1>5, <1>6 DEF Next, Done

\* The bookkeeping of every goroutine's operation stays consistent: where it
\* is, what the base answered, and what was executed, analyzed and timed
\* (driver.go: QueryContext, ExecContext, analyzeExecuted).
THEOREM Invariance == Spec => []IInv
PROOF
  <1>1. Init => IInv
    BY InitBookInv, InitAnswerInv DEF IInv
  <1>2. IInv /\ [Next]_vars => IInv'
    BY NextBookInv, NextAnswerInv DEF IInv
  <1> QED BY <1>1, <1>2, PTL DEF Spec

\* A logical query is analyzed exactly once if it was executed, and not at all
\* if it was not (driver.go:397, analyzeExecuted).
THEOREM AnalyzedOnceHolds == Spec => []AnalyzedOnce
PROOF
  <1>1. IInv => AnalyzedOnce
    BY DEF IInv, BookInv
  <1> QED BY Invariance, <1>1, PTL

\* Latency is recorded exactly for the queries that succeeded.
THEOREM TimedOnSuccessHolds == Spec => []TimedOnSuccess
PROOF
  <1>1. IInv => TimedOnSuccess
    BY DEF IInv, BookInv
  <1> QED BY Invariance, <1>1, PTL
-----------------------------------------------------------------------------
\* The refinement mapping, for one goroutine with operation o at place s with
\* answer a.
Stands(o, s, a) ==
    /\ o.kind = "query"
    /\ caps.direct = "none"
    /\ s \in {"args", "direct"} \/ (s = "answered" /\ a = "skip")

Place(o, s, a) == IF Stands(o, s, a) THEN "prepare" ELSE IF s = "analyze" THEN "answered" ELSE s

Reply(o, s, a) == IF Stands(o, s, a) THEN "none" ELSE a

LEMMA Mapped ==
    ASSUME NEW t \in Thread
    PROVE  /\ barePc[t] = Place(op[t], pc[t], answer[t])
           /\ bareAnswer[t] = Reply(op[t], pc[t], answer[t])
PROOF
  <1>1. StandsIn(t) <=> Stands(op[t], pc[t], answer[t])
    BY DEF StandsIn, Stands
  <1>2. /\ StandsIn(t) => barePc[t] = "prepare"
        /\ ~StandsIn(t) /\ pc[t] = "analyze" => barePc[t] = "answered"
        /\ ~StandsIn(t) /\ pc[t] # "analyze" => barePc[t] = pc[t]
    BY DEF barePc
  <1>3. /\ StandsIn(t) => bareAnswer[t] = "none"
        /\ ~StandsIn(t) => bareAnswer[t] = answer[t]
    BY DEF bareAnswer
  <1> QED BY <1>1, <1>2, <1>3 DEF Place, Reply

LEMMA MappedNext ==
    ASSUME NEW t \in Thread, caps' = caps
    PROVE  /\ barePc'[t] = Place(op'[t], pc'[t], answer'[t])
           /\ bareAnswer'[t] = Reply(op'[t], pc'[t], answer'[t])
PROOF
  <1>1. StandsIn(t)' <=> Stands(op'[t], pc'[t], answer'[t])
    BY DEF StandsIn, Stands
  <1>2. /\ StandsIn(t)' => barePc'[t] = "prepare"
        /\ ~StandsIn(t)' /\ pc'[t] = "analyze" => barePc'[t] = "answered"
        /\ ~StandsIn(t)' /\ pc'[t] # "analyze" => barePc'[t] = pc'[t]
    BY DEF barePc
  <1>3. /\ StandsIn(t)' => bareAnswer'[t] = "none"
        /\ ~StandsIn(t)' => bareAnswer'[t] = answer'[t]
    BY DEF bareAnswer
  <1> QED BY <1>1, <1>2, <1>3 DEF Place, Reply

\* What one goroutine's step does to the mapped state.
LEMMA Moves ==
    ASSUME TypeOK, TypeOK', NEW t \in Thread, caps' = caps,
           \A u \in Thread \ {t} : op'[u] = op[u] /\ pc'[u] = pc[u] /\ answer'[u] = answer[u]
    PROVE  /\ barePc' = [barePc EXCEPT ![t] = Place(op'[t], pc'[t], answer'[t])]
           /\ bareAnswer' = [bareAnswer EXCEPT ![t] = Reply(op'[t], pc'[t], answer'[t])]
PROOF
  <1>1. \A u \in Thread \ {t} : StandsIn(u)' <=> StandsIn(u)
    BY DEF StandsIn
  <1>2. \A u \in Thread \ {t} : barePc'[u] = barePc[u] /\ bareAnswer'[u] = bareAnswer[u]
    BY <1>1 DEF barePc, bareAnswer
  <1>3. /\ barePc = [u \in Thread |-> barePc[u]]
        /\ bareAnswer = [u \in Thread |-> bareAnswer[u]]
        /\ barePc' = [u \in Thread |-> barePc'[u]]
        /\ bareAnswer' = [u \in Thread |-> bareAnswer'[u]]
    BY DEF barePc, bareAnswer
  <1>4. /\ barePc'[t] = Place(op'[t], pc'[t], answer'[t])
        /\ bareAnswer'[t] = Reply(op'[t], pc'[t], answer'[t])
    BY MappedNext
  <1> QED BY <1>2, <1>3, <1>4

LEMMA BareStart == Init => Bare!BareInit
PROOF
  <1> SUFFICES ASSUME Init PROVE Bare!BareInit
    OBVIOUS
  <1>1. \A t \in Thread : ~StandsIn(t) /\ pc[t] = "idle" /\ answer[t] = "none"
    BY DEF StandsIn, Init, BareInit
  <1>2. barePc = [t \in Thread |-> "idle"] /\ bareAnswer = [t \in Thread |-> "none"]
    BY <1>1 DEF barePc, bareAnswer
  <1> QED BY <1>2 DEF Init, BareInit, Bare!BareInit

\* Goroutine t goes to s with answer a.
Turns(t, s, a) ==
    /\ pc' = [pc EXCEPT ![t] = s]
    /\ answer' = [answer EXCEPT ![t] = a]
    /\ UNCHANGED <<caps, op>>

\* The mapped state then turns to where s and a map to.
BareTurns(t, s, a) ==
    /\ barePc' = [barePc EXCEPT ![t] = s]
    /\ bareAnswer' = [bareAnswer EXCEPT ![t] = a]

LEMMA Lands ==
    ASSUME IInv, IInv', NEW t \in Thread, NEW s, NEW a, Turns(t, s, a)
    PROVE  BareTurns(t, Place(op[t], s, a), Reply(op[t], s, a))
PROOF
  <1>0. TypeOK /\ TypeOK'
    BY DEF IInv, BookInv
  <1>1. pc'[t] = s /\ answer'[t] = a /\ op'[t] = op[t]
    BY <1>0 DEF TypeOK, BareTypeOK, Turns
  <1>2. \A u \in Thread \ {t} : op'[u] = op[u] /\ pc'[u] = pc[u] /\ answer'[u] = answer[u]
    BY <1>0 DEF TypeOK, BareTypeOK, Turns
  <1>3. caps' = caps
    BY DEF Turns
  <1> QED BY <1>0, <1>1, <1>2, <1>3, Moves DEF BareTurns

\* The same when the answer stays as it is.
LEMMA LandsQuietly ==
    ASSUME TypeOK, TypeOK', NEW t \in Thread, caps' = caps, op' = op, NEW s,
           pc' = [pc EXCEPT ![t] = s], answer' = answer
    PROVE  /\ barePc' = [barePc EXCEPT ![t] = Place(op[t], s, answer[t])]
           /\ bareAnswer' = [bareAnswer EXCEPT ![t] = Reply(op[t], s, answer[t])]
PROOF
  <1>1. pc'[t] = s /\ answer'[t] = answer[t] /\ op'[t] = op[t]
    BY DEF TypeOK, BareTypeOK
  <1>2. \A u \in Thread \ {t} : op'[u] = op[u] /\ pc'[u] = pc[u] /\ answer'[u] = answer[u]
    BY DEF TypeOK, BareTypeOK
  <1> QED BY <1>1, <1>2, Moves

\* Where neither side stands in, the mapping is the identity.
LEMMA PlainMove ==
    ASSUME NEW o, NEW s, NEW a, s \notin {"args", "direct", "analyze"}, s = "answered" => a # "skip"
    PROVE  Place(o, s, a) = s /\ Reply(o, s, a) = a
PROOF
  BY DEF Place, Reply, Stands

LEMMA StartAsBare ==
    ASSUME IInv, IInv', NEW t \in Thread, NEW o \in Operations, StartOperation(t, o)
    PROVE  Bare!Start(t, o)
PROOF
  <1>0. TypeOK /\ TypeOK' /\ AnswerInv
    BY DEF IInv, BookInv
  <1>1. /\ pc[t] = "idle" /\ pc' = [pc EXCEPT ![t] = "acquire"]
        /\ answer' = answer /\ answer[t] = "none" /\ caps' = caps
        /\ op' = [op EXCEPT ![t] = o]
    BY <1>0 DEF StartOperation, Start, Goto, AnswerInv
  <1>2. barePc[t] = "idle" /\ bareAnswer[t] = "none"
    BY <1>1, Mapped, PlainMove
  <1>3. /\ pc'[t] = "acquire" /\ answer'[t] = "none"
        /\ \A u \in Thread \ {t} : op'[u] = op[u] /\ pc'[u] = pc[u] /\ answer'[u] = answer[u]
    BY <1>0, <1>1 DEF TypeOK, BareTypeOK
  <1>4. /\ barePc' = [barePc EXCEPT ![t] = "acquire"]
        /\ bareAnswer' = [bareAnswer EXCEPT ![t] = "none"]
    <2>1. Place(op'[t], pc'[t], answer'[t]) = "acquire" /\ Reply(op'[t], pc'[t], answer'[t]) = "none"
      BY <1>3, PlainMove
    <2> QED BY <1>0, <1>1, <1>3, <2>1, Moves
  <1>5. bareAnswer' = bareAnswer
    BY <1>2, <1>4 DEF bareAnswer
  <1> QED BY <1>2, <1>4, <1>5 DEF StartOperation, Start, Bare!Start, Bare!Goto, pool, Bare!pool

LEMMA Still ==
    ASSUME UNCHANGED <<caps, op, pc, answer>>
    PROVE  barePc' = barePc /\ bareAnswer' = bareAnswer
PROOF
  <1>1. \A t \in Thread : StandsIn(t)' <=> StandsIn(t)
    BY DEF StandsIn
  <1> QED BY <1>1 DEF barePc, bareAnswer

\* Before the base has answered and away from the direct query, the bare
\* database/sql is where this one is.
LEMMA Waiting ==
    ASSUME IInv, NEW t \in Thread, pc[t] \notin {"args", "direct", "analyze", "answered"}
    PROVE  barePc[t] = pc[t] /\ bareAnswer[t] = "none" /\ answer[t] = "none"
PROOF
  <1>1. answer[t] = "none"
    BY DEF IInv, AnswerInv
  <1> QED BY <1>1, Mapped, PlainMove

LEMMA KillAsBare ==
    ASSUME IInv, NEW c \in Conn, Kill(c)
    PROVE  Bare!Kill(c)
PROOF
  <1>1. barePc' = barePc /\ bareAnswer' = bareAnswer
    BY Still DEF Kill, call
  <1> QED BY <1>1 DEF Kill, Bare!Kill, call, Bare!call, effects, Bare!effects

LEMMA CancelAsBare ==
    ASSUME IInv, NEW t \in Thread, Cancel(t)
    PROVE  Bare!Cancel(t)
PROOF
  <1>1. barePc' = barePc /\ bareAnswer' = bareAnswer
    BY Still DEF Cancel
  <1>2. barePc[t] # "idle"
    BY Mapped DEF Cancel, Place
  <1> QED BY <1>1, <1>2 DEF Cancel, Bare!Cancel, pool, Bare!pool, effects, Bare!effects

LEMMA GiveUpAsBare ==
    ASSUME IInv, IInv', NEW t \in Thread, GiveUp(t)
    PROVE  Bare!GiveUp(t)
PROOF
  <1>1. /\ pc[t] = "acquire" /\ pc' = [pc EXCEPT ![t] = "idle"]
        /\ UNCHANGED <<caps, op, answer>>
    BY DEF GiveUp, Goto
  <1>2. barePc[t] = "acquire" /\ bareAnswer[t] = "none" /\ answer[t] = "none"
    BY <1>1, Waiting
  <1>3. /\ barePc' = [barePc EXCEPT ![t] = "idle"]
        /\ bareAnswer' = [bareAnswer EXCEPT ![t] = "none"]
    <2>1. Place(op[t], "idle", answer[t]) = "idle" /\ Reply(op[t], "idle", answer[t]) = "none"
      BY <1>2, PlainMove
    <2>2. TypeOK /\ TypeOK'
      BY DEF IInv, BookInv
    <2>3. /\ barePc' = [barePc EXCEPT ![t] = Place(op[t], "idle", answer[t])]
          /\ bareAnswer' = [bareAnswer EXCEPT ![t] = Reply(op[t], "idle", answer[t])]
      BY <1>1, <2>2, LandsQuietly
    <2> QED BY <2>1, <2>3
  <1>4. bareAnswer' = bareAnswer
    BY <1>2, <1>3 DEF bareAnswer
  <1> QED BY <1>2, <1>3, <1>4 DEF GiveUp, Bare!GiveUp, Bare!Goto, pool, Bare!pool

\* Over the wrapper every query is first sent directly; over a base that has
\* no direct query it goes to Prepare, where the mapping has it.
LEMMA EntryAsBare ==
    ASSUME IInv, NEW t \in Thread, NEW c
    PROVE  /\ Place(op[t], Entry(t, c, TRUE), "none") = Bare!Entry(t, c, caps.direct # "none")
           /\ Reply(op[t], Entry(t, c, TRUE), "none") = "none"
PROOF
  <1>1. op[t].kind \in {"query", "stmt", "ping", "begin"}
    BY DEF IInv, BookInv, TypeOK, BareTypeOK, Operation
  <1>2. CASE op[t].kind = "query"
    BY <1>2 DEF Entry, Bare!Entry, Place, Reply, Stands
  <1>3. CASE op[t].kind = "stmt"
    BY <1>3 DEF Entry, Bare!Entry, Place, Reply, Stands
  <1>4. CASE op[t].kind \in {"ping", "begin"}
    BY <1>4 DEF Entry, Bare!Entry, Place, Reply, Stands
  <1> QED BY <1>1, <1>2, <1>3, <1>4

LEMMA EntersAsBare ==
    ASSUME IInv, IInv', NEW t \in Thread, NEW c, pc[t] = "acquire",
           Goto(t, Entry(t, c, TRUE)), UNCHANGED <<caps, op, answer>>
    PROVE  Bare!Goto(t, Bare!Entry(t, c, caps.direct # "none")) /\ bareAnswer' = bareAnswer
PROOF
  <1> DEFINE e == Entry(t, c, TRUE)
  <1>1. bareAnswer[t] = "none" /\ answer[t] = "none"
    BY Waiting
  <1>2. /\ Place(op[t], e, answer[t]) = Bare!Entry(t, c, caps.direct # "none")
        /\ Reply(op[t], e, answer[t]) = "none"
    BY <1>1, EntryAsBare
  <1>3. pc' = [pc EXCEPT ![t] = e]
    BY DEF Goto
  <1> HIDE DEF e
  <1>4. /\ barePc' = [barePc EXCEPT ![t] = Place(op[t], e, answer[t])]
        /\ bareAnswer' = [bareAnswer EXCEPT ![t] = Reply(op[t], e, answer[t])]
    <2>1. TypeOK /\ TypeOK'
      BY DEF IInv, BookInv
    <2> QED BY <1>3, <2>1, LandsQuietly
  <1>5. bareAnswer' = bareAnswer
    BY <1>1, <1>2, <1>4 DEF bareAnswer
  <1> QED BY <1>2, <1>4, <1>5 DEF Bare!Goto

LEMMA AnsweredAsBare ==
    ASSUME IInv, IInv', NEW t \in Thread, NEW a, ~Stands(op[t], "answered", a),
           Answered(t, a), UNCHANGED <<caps, op>>
    PROVE  Bare!Answered(t, a)
PROOF
  <1>1. Place(op[t], "answered", a) = "answered" /\ Reply(op[t], "answered", a) = a
    BY DEF Place, Reply
  <1>2. Turns(t, "answered", a)
    BY DEF Answered, Goto, Turns
  <1>3. BareTurns(t, "answered", a)
    BY <1>1, <1>2, Lands
  <1> QED BY <1>3 DEF BareTurns, Bare!Answered, Bare!Goto

\* The analysis comes after the answer that the bare driver would have given.
LEMMA AnalyzesAsBare ==
    ASSUME IInv, IInv', NEW t \in Thread, NEW a,
           Goto(t, "analyze"), answer' = [answer EXCEPT ![t] = a], UNCHANGED <<caps, op>>
    PROVE  Bare!Answered(t, a)
PROOF
  <1>1. Place(op[t], "analyze", a) = "answered" /\ Reply(op[t], "analyze", a) = a
    BY DEF Place, Reply, Stands
  <1>2. Turns(t, "analyze", a)
    BY DEF Goto, Turns
  <1>3. BareTurns(t, "answered", a)
    BY <1>1, <1>2, Lands
  <1> QED BY <1>3 DEF BareTurns, Bare!Answered, Bare!Goto

LEMMA GoesAsBare ==
    ASSUME IInv, IInv', NEW t \in Thread, NEW s, ~Stands(op[t], pc[t], answer[t]),
           s \notin {"args", "direct", "analyze", "answered"},
           Goto(t, s), UNCHANGED <<caps, op, answer>>
    PROVE  Bare!Goto(t, s) /\ bareAnswer' = bareAnswer
PROOF
  <1>1. Place(op[t], s, answer[t]) = s /\ Reply(op[t], s, answer[t]) = answer[t]
    BY PlainMove
  <1>2. pc' = [pc EXCEPT ![t] = s]
    BY DEF Goto
  <1>3. /\ barePc' = [barePc EXCEPT ![t] = s]
        /\ bareAnswer' = [bareAnswer EXCEPT ![t] = answer[t]]
    <2>1. TypeOK /\ TypeOK'
      BY DEF IInv, BookInv
    <2>2. /\ barePc' = [barePc EXCEPT ![t] = Place(op[t], s, answer[t])]
          /\ bareAnswer' = [bareAnswer EXCEPT ![t] = Reply(op[t], s, answer[t])]
      BY <1>2, <2>1, LandsQuietly
    <2> QED BY <1>1, <2>2
  <1>4. bareAnswer[t] = answer[t]
    BY Mapped DEF Reply
  <1>5. bareAnswer' = bareAnswer
    BY <1>3, <1>4 DEF bareAnswer
  <1> QED BY <1>3, <1>5 DEF Bare!Goto

LEMMA AcquireCachedAsBare ==
    ASSUME IInv, IInv', NEW t \in Thread, AcquireCached(t, TRUE, ForwardsPooling)
    PROVE  Bare!AcquireCached(t, caps.direct # "none", caps.pooled)
PROOF
  <1>1. PICK c \in Conn :
           /\ conns[c] = "idle"
           /\ conns' = [conns EXCEPT ![c] = "busy"]
           /\ conn' = [conn EXCEPT ![t] = c]
           /\ IF caps.pooled /\ ~alive[c] THEN Answered(t, "badconn")
              ELSE Goto(t, Entry(t, c, TRUE)) /\ UNCHANGED answer
    BY DEF AcquireCached, ForwardsPooling
  <1>2. /\ pc[t] = "acquire" /\ attempt[t] < 2 /\ ~done[t]
        /\ UNCHANGED <<caps, alive, prepared, op, done, attempt, effects, calls>>
    BY DEF AcquireCached
  <1>3. barePc[t] = "acquire"
    BY <1>2, Waiting
  <1>4. IF caps.pooled /\ ~alive[c] THEN Bare!Answered(t, "badconn")
        ELSE Bare!Goto(t, Bare!Entry(t, c, caps.direct # "none")) /\ UNCHANGED bareAnswer
    <2>1. CASE caps.pooled /\ ~alive[c]
      <3>1. ~Stands(op[t], "answered", "badconn")
        BY DEF Stands
      <3> QED BY <1>1, <1>2, <2>1, <3>1, AnsweredAsBare
    <2>2. CASE ~(caps.pooled /\ ~alive[c])
      <3>1. Goto(t, Entry(t, c, TRUE)) /\ UNCHANGED answer
        BY <1>1, <2>2
      <3>2. Bare!Goto(t, Bare!Entry(t, c, caps.direct # "none")) /\ bareAnswer' = bareAnswer
        BY <1>2, <3>1, EntersAsBare
      <3> QED BY <2>2, <3>2
    <2> QED BY <2>1, <2>2
  <1> QED BY <1>1, <1>2, <1>3, <1>4 DEF Bare!AcquireCached, effects, Bare!effects

LEMMA AcquireNewAsBare ==
    ASSUME IInv, IInv', NEW t \in Thread, AcquireNew(t, TRUE)
    PROVE  Bare!AcquireNew(t, caps.direct # "none")
PROOF
  <1>1. PICK c \in Conn :
           /\ conns[c] = "closed"
           /\ conns' = [conns EXCEPT ![c] = "busy"]
           /\ alive' = [alive EXCEPT ![c] = TRUE]
           /\ conn' = [conn EXCEPT ![t] = c]
           /\ Goto(t, Entry(t, c, TRUE))
    BY DEF AcquireNew
  <1>2. /\ pc[t] = "acquire" /\ ~done[t]
        /\ attempt[t] < 2 => \A d \in Conn : conns[d] # "idle"
        /\ UNCHANGED <<caps, prepared, op, done, attempt, answer, effects, calls>>
    BY DEF AcquireNew
  <1>3. barePc[t] = "acquire"
    BY <1>2, Waiting
  <1>4. Bare!Goto(t, Bare!Entry(t, c, caps.direct # "none")) /\ bareAnswer' = bareAnswer
    BY <1>1, <1>2, EntersAsBare
  <1> QED BY <1>1, <1>2, <1>3, <1>4 DEF Bare!AcquireNew, effects, Bare!effects

\* Falling back from wConn's own ErrSkip is no step of the bare database/sql.
LEMMA FallBackAsBare ==
    ASSUME IInv, IInv', NEW t \in Thread, FallBack(t)
    PROVE  Bare!FallBack(t) \/ UNCHANGED <<barePc, bareAnswer>>
PROOF
  <1>1. /\ pc[t] = "answered" /\ answer[t] = "skip" /\ op[t].kind = "query"
        /\ pc' = [pc EXCEPT ![t] = "prepare"] /\ answer' = [answer EXCEPT ![t] = "none"]
        /\ UNCHANGED <<caps, pool, op, done, conn, attempt, effects, calls>>
    BY DEF FallBack, Goto
  <1>2. /\ barePc' = [barePc EXCEPT ![t] = "prepare"]
        /\ bareAnswer' = [bareAnswer EXCEPT ![t] = "none"]
    <2>1. Place(op[t], "prepare", "none") = "prepare" /\ Reply(op[t], "prepare", "none") = "none"
      BY PlainMove
    <2>2. Turns(t, "prepare", "none")
      BY <1>1 DEF Turns
    <2>3. BareTurns(t, "prepare", "none")
      BY <2>1, <2>2, Lands
    <2> QED BY <2>3 DEF BareTurns
  <1>3. CASE caps.direct = "none"
    <2>1. barePc[t] = "prepare" /\ bareAnswer[t] = "none"
      BY <1>1, <1>3, Mapped DEF Place, Reply, Stands
    <2> QED BY <1>2, <2>1 DEF barePc, bareAnswer
  <1>4. CASE caps.direct # "none"
    <2>1. barePc[t] = "answered" /\ bareAnswer[t] = "skip"
      BY <1>1, <1>4, Mapped DEF Place, Reply, Stands
    <2> QED BY <1>1, <1>2, <2>1 DEF Bare!FallBack, Bare!Goto, pool, Bare!pool, effects, Bare!effects
  <1> QED BY <1>3, <1>4

LEMMA RetryAsBare ==
    ASSUME IInv, IInv', NEW t \in Thread, Retry(t)
    PROVE  Bare!Retry(t)
PROOF
  <1>1. /\ pc[t] = "answered" /\ answer[t] = "badconn" /\ attempt[t] < 2
        /\ pc' = [pc EXCEPT ![t] = "acquire"] /\ answer' = [answer EXCEPT ![t] = "none"]
        /\ UNCHANGED <<caps, op, done, effects, calls>>
    BY DEF Retry, Goto
  <1>2. barePc[t] = "answered" /\ bareAnswer[t] = "badconn"
    BY <1>1, Mapped DEF Place, Reply, Stands
  <1>3. /\ barePc' = [barePc EXCEPT ![t] = "acquire"]
        /\ bareAnswer' = [bareAnswer EXCEPT ![t] = "none"]
    <2>1. Place(op[t], "acquire", "none") = "acquire" /\ Reply(op[t], "acquire", "none") = "none"
      BY PlainMove
    <2>2. Turns(t, "acquire", "none")
      BY <1>1 DEF Turns
    <2>3. BareTurns(t, "acquire", "none")
      BY <2>1, <2>2, Lands
    <2> QED BY <2>3 DEF BareTurns
  <1> QED BY <1>1, <1>2, <1>3 DEF Retry, CloseConn, Bare!Retry, Bare!CloseConn, Bare!Goto,
                                  effects, Bare!effects

LEMMA FinishAsBare ==
    ASSUME IInv, IInv', NEW t \in Thread, Finish(t, ForwardsPooling)
    PROVE  Bare!Finish(t, caps.pooled)
PROOF
  <1>1. /\ pc[t] = "answered" /\ (answer[t] = "skip" => op[t].kind # "query")
        /\ pc' = [pc EXCEPT ![t] = "idle"] /\ answer' = [answer EXCEPT ![t] = "none"]
        /\ UNCHANGED <<caps, op>>
    BY DEF Finish, Goto
  <1>2. barePc[t] = "answered" /\ bareAnswer[t] = answer[t]
    BY <1>1, Mapped DEF Place, Reply, Stands
  <1>3. /\ barePc' = [barePc EXCEPT ![t] = "idle"]
        /\ bareAnswer' = [bareAnswer EXCEPT ![t] = "none"]
    <2>1. Place(op[t], "idle", "none") = "idle" /\ Reply(op[t], "idle", "none") = "none"
      BY PlainMove
    <2>2. Turns(t, "idle", "none")
      BY <1>1 DEF Turns
    <2>3. BareTurns(t, "idle", "none")
      BY <2>1, <2>2, Lands
    <2> QED BY <2>3 DEF BareTurns
  <1>4. Bare!CloseConn(conn[t]) <=> CloseConn(conn[t])
    BY DEF CloseConn, Bare!CloseConn
  <1>0. \A S : Bare!Cardinality(S) = Cardinality(S)
    BY DEF Bare!Cardinality, Cardinality
  <1>5. IF bareAnswer[t] # "badconn" /\ (caps.pooled => alive[conn[t]])
              /\ Bare!Cardinality({c \in Conn : conns[c] = "idle"}) < MaxIdle
        THEN conns' = [conns EXCEPT ![conn[t]] = "idle"] /\ UNCHANGED <<alive, prepared>>
        ELSE Bare!CloseConn(conn[t])
    BY <1>0, <1>2, <1>4 DEF Finish, ForwardsPooling
  <1>6. /\ answer[t] = "badconn" => attempt[t] = 2
        /\ outcome' = [outcome EXCEPT ![t] = answer[t]]
        /\ attempt' = [attempt EXCEPT ![t] = 0]
        /\ conn' = [conn EXCEPT ![t] = NoConn]
        /\ done' = [done EXCEPT ![t] = FALSE]
        /\ UNCHANGED <<caps, op, executed, mode, calls>>
    BY DEF Finish
  <1>7. /\ barePc[t] = "answered"
        /\ bareAnswer[t] = "skip" => op[t].kind # "query"
        /\ bareAnswer[t] = "badconn" => attempt[t] = 2
        /\ outcome' = [outcome EXCEPT ![t] = bareAnswer[t]]
    BY <1>1, <1>2, <1>6
  <1>8. Bare!Goto(t, "idle") /\ bareAnswer' = [bareAnswer EXCEPT ![t] = "none"]
    BY <1>3 DEF Bare!Goto
  <1> QED BY <1>5, <1>6, <1>7, <1>8, Zenon DEF Bare!Finish

\* What AsBareButForKnown allows of a step.
BareOrKnown ==
    \/ Bare!BareNext
    \/ \E t \in Thread : Deviates(t)
    \/ UNCHANGED Bare!bareVars

LEMMA SqlAsBare ==
    ASSUME IInv, IInv', NEW t \in Thread, SqlSteps(t, TRUE, ForwardsPooling)
    PROVE  BareOrKnown
PROOF
  <1>1. CASE FallBack(t)
    <2>1. CASE UNCHANGED <<barePc, bareAnswer>>
      <3>1. UNCHANGED <<caps, pool, op, done, conn, attempt, effects, calls>>
        BY <1>1 DEF FallBack
      <3> QED BY <2>1, <3>1 DEF BareOrKnown, Bare!bareVars, Bare!call, pool, Bare!pool, effects, Bare!effects
    <2>2. CASE Bare!FallBack(t)
      BY <2>2 DEF BareOrKnown, Bare!BareNext, Bare!SqlSteps
    <2> QED BY <1>1, <2>1, <2>2, FallBackAsBare
  <1>2. CASE ~FallBack(t)
    <2>1. Bare!SqlSteps(t, caps.direct # "none", caps.pooled)
      BY <1>2, CancelAsBare, GiveUpAsBare, AcquireCachedAsBare, AcquireNewAsBare, RetryAsBare,
         FinishAsBare DEF SqlSteps, Bare!SqlSteps
    <2> QED BY <2>1 DEF BareOrKnown, Bare!BareNext
  <1> QED BY <1>1, <1>2

\* wConn shows its arguments to the Conn's checker although the bare
\* database/sql is on its way to Prepare.
LEMMA ConnCheckAsBare ==
    ASSUME IInv, IInv', NEW t \in Thread, ConnCheckNamedValue(t)
    PROVE  BareOrKnown
PROOF
  <1>1. /\ pc[t] = "args" /\ op[t].kind = "query" /\ answer[t] = "none"
        /\ UNCHANGED <<caps, pool, op, done, conn, attempt, effects, calls>>
        /\ IF op[t].args = "special" /\ ~caps.connArgs
           THEN Answered(t, "rejected")
           ELSE Goto(t, "direct") /\ UNCHANGED answer
    BY DEF ConnCheckNamedValue, CheckArgs, IInv, AnswerInv
  <1>2. CASE op[t].args = "special" /\ ~caps.connArgs
    <2>1. Answered(t, "rejected") /\ ~Stands(op[t], "answered", "rejected")
      BY <1>1, <1>2 DEF Stands
    <2>2. CASE caps.direct = "none"
      <3>1. pc'[t] = "answered" /\ answer'[t] = "rejected"
        BY <2>1 DEF Answered, Goto, IInv, BookInv, TypeOK, BareTypeOK
      <3> QED BY <1>1, <1>2, <2>2, <3>1 DEF BareOrKnown, Deviates, ArgumentRefused
    <2>3. CASE caps.direct # "none"
      <3>1. Bare!Answered(t, "rejected")
        BY <1>1, <2>1, AnsweredAsBare
      <3>2. barePc[t] = "args"
        BY <1>1, <2>3, Mapped DEF Place, Stands
      <3>3. Bare!CheckArgs(t, "direct", caps.connArgs)
        BY <1>1, <1>2, <3>1 DEF Bare!CheckArgs, pool, Bare!pool, effects, Bare!effects
      <3> QED BY <3>2, <3>3 DEF BareOrKnown, Bare!BareNext, Bare!BareDriver
    <2> QED BY <2>2, <2>3
  <1>3. CASE ~(op[t].args = "special" /\ ~caps.connArgs)
    <2>1. Goto(t, "direct") /\ UNCHANGED answer
      BY <1>1, <1>3
    <2>2. Turns(t, "direct", "none")
      BY <1>1, <2>1 DEF Turns, Goto, IInv, BookInv, TypeOK, BareTypeOK
    <2>3. BareTurns(t, Place(op[t], "direct", "none"), Reply(op[t], "direct", "none"))
      BY <2>2, Lands
    <2>4. CASE caps.direct = "none"
      <3>1. /\ Place(op[t], "direct", "none") = barePc[t]
            /\ Reply(op[t], "direct", "none") = bareAnswer[t]
        BY <1>1, <2>4, Mapped DEF Place, Reply, Stands
      <3>2. UNCHANGED <<barePc, bareAnswer>>
        BY <2>3, <3>1 DEF BareTurns, barePc, bareAnswer
      <3> QED BY <1>1, <3>2 DEF BareOrKnown, Bare!bareVars, Bare!call, pool, Bare!pool, effects, Bare!effects
    <2>5. CASE caps.direct # "none"
      <3>1. Place(op[t], "direct", "none") = "direct" /\ Reply(op[t], "direct", "none") = "none"
        BY <2>5 DEF Place, Reply, Stands
      <3>2. barePc[t] = "args" /\ bareAnswer[t] = "none"
        BY <1>1, <2>5, Mapped DEF Place, Reply, Stands
      <3>3. Bare!Goto(t, "direct") /\ UNCHANGED bareAnswer
        BY <2>3, <3>1, <3>2 DEF BareTurns, Bare!Goto, bareAnswer
      <3>4. Bare!CheckArgs(t, "direct", caps.connArgs)
        BY <1>1, <1>3, <3>3 DEF Bare!CheckArgs, pool, Bare!pool, effects, Bare!effects
      <3> QED BY <3>2, <3>4 DEF BareOrKnown, Bare!BareNext, Bare!BareDriver
    <2> QED BY <2>4, <2>5
  <1> QED BY <1>2, <1>3

LEMMA StmtCheckAsBare ==
    ASSUME IInv, IInv', NEW t \in Thread, StmtCheckNamedValue(t)
    PROVE  BareOrKnown
PROOF
  <1>1. /\ pc[t] = "stmtargs"
        /\ UNCHANGED <<caps, pool, op, done, conn, attempt, effects, calls>>
        /\ IF op[t].args = "special" /\ ~caps.stmtArgs
           THEN Answered(t, "rejected")
           ELSE Goto(t, "stmt") /\ UNCHANGED answer
    BY DEF StmtCheckNamedValue, CheckArgs
  <1>2. barePc[t] = "stmtargs"
    BY <1>1, Waiting
  <1>3. CASE op[t].args = "special" /\ ~caps.stmtArgs
    <2>1. Answered(t, "rejected") /\ ~Stands(op[t], "answered", "rejected")
      BY <1>1, <1>3 DEF Stands
    <2>2. CASE caps.connArgs
      <3>1. pc'[t] = "answered" /\ answer'[t] = "rejected"
        BY <2>1 DEF Answered, Goto, IInv, BookInv, TypeOK, BareTypeOK
      <3> QED BY <1>1, <1>3, <2>2, <3>1 DEF BareOrKnown, Deviates, ArgumentRefused
    <2>3. CASE ~caps.connArgs
      <3>1. Bare!Answered(t, "rejected")
        BY <1>1, <2>1, AnsweredAsBare
      <3>2. Bare!CheckArgs(t, "stmt", caps.stmtArgs \/ caps.connArgs)
        BY <1>1, <1>3, <2>3, <3>1 DEF Bare!CheckArgs, pool, Bare!pool, effects, Bare!effects
      <3> QED BY <1>2, <3>2 DEF BareOrKnown, Bare!BareNext, Bare!BareDriver
    <2> QED BY <2>2, <2>3
  <1>4. CASE ~(op[t].args = "special" /\ ~caps.stmtArgs)
    <2>1. Goto(t, "stmt") /\ UNCHANGED answer
      BY <1>1, <1>4
    <2>2. ~Stands(op[t], pc[t], answer[t])
      BY <1>1 DEF Stands
    <2>3. Bare!Goto(t, "stmt") /\ bareAnswer' = bareAnswer
      BY <1>1, <2>1, <2>2, GoesAsBare
    <2>4. Bare!CheckArgs(t, "stmt", caps.stmtArgs \/ caps.connArgs)
      BY <1>1, <1>4, <2>3 DEF Bare!CheckArgs, pool, Bare!pool, effects, Bare!effects
    <2> QED BY <1>2, <2>4 DEF BareOrKnown, Bare!BareNext, Bare!BareDriver
  <1> QED BY <1>3, <1>4

\* The analysis itself is the wrapper's own.
LEMMA AnalyzeAsBare ==
    ASSUME IInv, IInv', NEW t \in Thread, AnalyzeExecuted(t)
    PROVE  UNCHANGED Bare!bareVars
PROOF
  <1>1. /\ pc[t] = "analyze" /\ pc' = [pc EXCEPT ![t] = "answered"]
        /\ UNCHANGED <<caps, pool, op, done, conn, attempt, answer, effects, calls>>
    BY DEF AnalyzeExecuted, Goto
  <1>2. answer[t] = "skip" => caps.direct # "none"
    BY <1>1 DEF IInv, AnswerInv
  <1>3. /\ Place(op[t], "answered", answer[t]) = barePc[t]
        /\ Reply(op[t], "answered", answer[t]) = bareAnswer[t]
    BY <1>1, <1>2, Mapped DEF Place, Reply, Stands
  <1>4. /\ barePc' = [barePc EXCEPT ![t] = Place(op[t], "answered", answer[t])]
        /\ bareAnswer' = [bareAnswer EXCEPT ![t] = Reply(op[t], "answered", answer[t])]
    <2>1. TypeOK /\ TypeOK'
      BY DEF IInv, BookInv
    <2> QED BY <1>1, <2>1, LandsQuietly
  <1>5. UNCHANGED <<barePc, bareAnswer>>
    BY <1>3, <1>4 DEF barePc, bareAnswer
  <1> QED BY <1>1, <1>5 DEF Bare!bareVars, Bare!call, pool, Bare!pool, effects, Bare!effects

\* The base runs a query or declines it: the bare database/sql is answered,
\* unless it would not have called a base that is not told of the context.
LEMMA QueryAsBare ==
    ASSUME IInv, IInv', NEW t \in Thread, QueryContext(t)
    PROVE  BareOrKnown
PROOF
  <1>1. pc[t] = "direct" /\ op[t].kind = "query" /\ answer[t] = "none"
    BY DEF QueryContext, IInv, AnswerInv
  <1> DEFINE same == UNCHANGED <<caps, pool, op, done, conn, attempt, effects, calls>>
  <1>2. CASE caps.direct = "none" /\ Answered(t, "skip") /\ same
    <2>1. Turns(t, "answered", "skip")
      BY <1>2 DEF Turns, Answered, Goto
    <2>2. /\ Place(op[t], "answered", "skip") = barePc[t]
          /\ Reply(op[t], "answered", "skip") = bareAnswer[t]
      BY <1>1, <1>2, Mapped DEF Place, Reply, Stands
    <2>3. BareTurns(t, barePc[t], bareAnswer[t])
      BY <2>1, <2>2, Lands
    <2>4. UNCHANGED <<barePc, bareAnswer>>
      BY <2>3 DEF BareTurns, barePc, bareAnswer
    <2> QED BY <1>2, <2>4 DEF BareOrKnown, Bare!bareVars, Bare!call, pool, Bare!pool, effects, Bare!effects
  <1>3. CASE Refused(t, caps.direct) /\ Answered(t, "rejected") /\ same
    <2>1. caps.direct # "none" /\ ~Stands(op[t], "answered", "rejected")
      BY <1>3 DEF Refused, Stands
    <2>2. Bare!Answered(t, "rejected")
      BY <1>3, <2>1, AnsweredAsBare
    <2>3. barePc[t] = "direct"
      BY <1>1, <2>1, Mapped DEF Place, Stands
    <2>4. Bare!Direct(t)
      BY <1>3, <2>2, <2>3 DEF Bare!Direct, Bare!Held, Refused, Bare!Refused, pool, Bare!pool,
         effects, Bare!effects
    <2> QED BY <2>4 DEF BareOrKnown, Bare!BareNext, Bare!BareDriver
  <1>4. ASSUME caps.direct # "none", ~Refused(t, caps.direct), NEW a \in Answers,
               BaseRuns(t, a) \/ BaseDeclines(t, a), Goto(t, "analyze"),
               answer' = [answer EXCEPT ![t] = a]
        PROVE  BareOrKnown
    <2>1. UNCHANGED <<caps, op>>
      BY <1>4 DEF BaseRuns, BaseDeclines
    <2>2. CASE NotCalled(t, caps.direct)
      <3>1. pc'[t] = "analyze"
        BY <1>4 DEF Goto, IInv, BookInv, TypeOK, BareTypeOK
      <3> QED BY <1>1, <2>2, <3>1 DEF BareOrKnown, Deviates, CancelIgnored, NotCalled
    <2>3. CASE ~NotCalled(t, caps.direct)
      <3>1. Bare!Answered(t, a)
        BY <1>4, <2>1, AnalyzesAsBare
      <3>2. barePc[t] = "direct"
        BY <1>1, <1>4, Mapped DEF Place, Stands
      <3>3. Bare!BaseRuns(t, a) \/ Bare!BaseDeclines(t, a)
        BY <1>4 DEF BaseRuns, Bare!BaseRuns, BaseDeclines, Bare!BaseDeclines, pool, Bare!pool,
           effects, Bare!effects
      <3>4. ~Bare!Refused(t, caps.direct) /\ ~Bare!NotCalled(t, caps.direct)
        BY <1>4, <2>3 DEF Refused, Bare!Refused, NotCalled, Bare!NotCalled
      <3>5. a \in Bare!Answers
        BY <1>4 DEF Answers, Bare!Answers
      <3>6. Bare!Direct(t)
        BY <3>1, <3>2, <3>3, <3>4, <3>5 DEF Bare!Direct
      <3> QED BY <3>6 DEF BareOrKnown, Bare!BareNext, Bare!BareDriver
    <2> QED BY <2>2, <2>3
  <1> QED BY <1>2, <1>3, <1>4 DEF QueryContext, NoDirect

LEMMA StmtQueryAsBare ==
    ASSUME IInv, IInv', NEW t \in Thread, StmtQueryContext(t)
    PROVE  BareOrKnown
PROOF
  <1>1. pc[t] = "stmt"
    BY DEF StmtQueryContext
  <1>2. barePc[t] = "stmt"
    BY <1>1, Waiting
  <1> DEFINE same == UNCHANGED <<caps, pool, op, done, conn, attempt, effects, calls>>
  <1>3. CASE Refused(t, caps.stmt) /\ Answered(t, "rejected") /\ same
    <2>1. ~Stands(op[t], "answered", "rejected")
      BY DEF Stands
    <2>2. Bare!Answered(t, "rejected")
      BY <1>3, <2>1, AnsweredAsBare
    <2>3. Bare!RunStmt(t)
      BY <1>2, <1>3, <2>2 DEF Bare!RunStmt, Bare!Held, Refused, Bare!Refused, pool, Bare!pool,
         effects, Bare!effects
    <2> QED BY <2>3 DEF BareOrKnown, Bare!BareNext, Bare!BareDriver
  <1>4. ASSUME ~Refused(t, caps.stmt), NEW a \in Answers, BaseRuns(t, a), Goto(t, "analyze"),
               answer' = [answer EXCEPT ![t] = a]
        PROVE  BareOrKnown
    <2>1. UNCHANGED <<caps, op>>
      BY <1>4 DEF BaseRuns
    <2>2. CASE NotCalled(t, caps.stmt)
      <3>1. pc'[t] = "analyze"
        BY <1>4 DEF Goto, IInv, BookInv, TypeOK, BareTypeOK
      <3> QED BY <1>1, <2>2, <3>1 DEF BareOrKnown, Deviates, CancelIgnored, NotCalled
    <2>3. CASE ~NotCalled(t, caps.stmt)
      <3>1. Bare!Answered(t, a)
        BY <1>4, <2>1, AnalyzesAsBare
      <3>2. Bare!BaseRuns(t, a)
        BY <1>4 DEF BaseRuns, Bare!BaseRuns, pool, Bare!pool
      <3>3. ~Bare!Refused(t, caps.stmt) /\ ~Bare!NotCalled(t, caps.stmt)
        BY <1>4, <2>3 DEF Refused, Bare!Refused, NotCalled, Bare!NotCalled
      <3>4. a \in Bare!Answers
        BY <1>4 DEF Answers, Bare!Answers
      <3>5. Bare!RunStmt(t)
        BY <1>2, <3>1, <3>2, <3>3, <3>4 DEF Bare!RunStmt
      <3> QED BY <3>5 DEF BareOrKnown, Bare!BareNext, Bare!BareDriver
    <2> QED BY <2>2, <2>3
  <1> QED BY <1>3, <1>4 DEF StmtQueryContext

LEMMA PrepareAsBare ==
    ASSUME IInv, IInv', NEW t \in Thread, PrepareContext(t)
    PROVE  BareOrKnown
PROOF
  <1> DEFINE reply == IF alive[conn[t]] THEN "failed" ELSE "badconn"
  <1>1. /\ pc[t] = "prepare" /\ barePc[t] = "prepare"
        /\ UNCHANGED <<caps, conns, alive, op, done, conn, attempt, effects, calls>>
    BY Waiting DEF PrepareContext, BasePrepares
  <1>2. CASE /\ alive[conn[t]] /\ Goto(t, "stmtargs") /\ UNCHANGED answer
             /\ prepared' = IF op[t].kind = "stmt" THEN prepared \cup {conn[t]} ELSE prepared
    <2>1. CASE NotCalled(t, caps.prepare)
      <3>1. pc'[t] = "stmtargs"
        BY <1>2 DEF Goto, IInv, BookInv, TypeOK, BareTypeOK
      <3> QED BY <1>1, <2>1, <3>1 DEF BareOrKnown, Deviates, CancelIgnored, NotCalled
    <2>2. CASE ~NotCalled(t, caps.prepare)
      <3>1. ~Stands(op[t], pc[t], answer[t])
        BY <1>1 DEF Stands
      <3>2. Bare!Goto(t, "stmtargs") /\ bareAnswer' = bareAnswer
        BY <1>1, <1>2, <3>1, GoesAsBare
      <3>3. ~Bare!NotCalled(t, caps.prepare)
        BY <2>2 DEF NotCalled, Bare!NotCalled
      <3>4. Bare!BasePrepares(t)
        BY <1>1, <1>2, <3>2 DEF Bare!BasePrepares, effects, Bare!effects
      <3>5. Bare!Prepare(t)
        BY <1>1, <3>3, <3>4 DEF Bare!Prepare
      <3> QED BY <3>5 DEF BareOrKnown, Bare!BareNext, Bare!BareDriver
    <2> QED BY <2>1, <2>2
  <1>3. CASE Answered(t, reply) /\ UNCHANGED prepared
    <2>1. ~Stands(op[t], "answered", reply)
      BY DEF Stands
    <2>2. UNCHANGED <<caps, op>> /\ Answered(t, reply)
      BY <1>1, <1>3
    <2> HIDE DEF reply
    <2>3. Bare!Answered(t, reply)
      BY <2>1, <2>2, AnsweredAsBare
    <2> USE DEF reply
    <2>4. CASE NotCalled(t, caps.prepare)
      <3>1. Bare!NotCalled(t, caps.prepare)
        BY <2>4 DEF NotCalled, Bare!NotCalled
      <3>2. Bare!Prepare(t)
        BY <1>1, <1>3, <2>3, <3>1 DEF Bare!Prepare, Bare!pool, effects, Bare!effects
      <3> QED BY <3>2 DEF BareOrKnown, Bare!BareNext, Bare!BareDriver
    <2>5. CASE ~NotCalled(t, caps.prepare)
      <3>1. ~Bare!NotCalled(t, caps.prepare)
        BY <2>5 DEF NotCalled, Bare!NotCalled
      <3>2. Bare!BasePrepares(t)
        BY <1>1, <1>3, <2>3 DEF Bare!BasePrepares, effects, Bare!effects
      <3>3. Bare!Prepare(t)
        BY <1>1, <3>1, <3>2 DEF Bare!Prepare
      <3> QED BY <3>3 DEF BareOrKnown, Bare!BareNext, Bare!BareDriver
    <2> QED BY <2>4, <2>5
  <1> QED BY <1>2, <1>3 DEF PrepareContext, BasePrepares

\* Only a base that is no Pinger shows: it fails where the bare one succeeds.
LEMMA PingAsBare ==
    ASSUME IInv, IInv', NEW t \in Thread, WrapperPing(t)
    PROVE  BareOrKnown
PROOF
  <1>1. /\ pc[t] = "ping" /\ barePc[t] = "ping"
        /\ UNCHANGED <<caps, pool, op, done, conn, attempt, effects, calls>>
    BY Waiting DEF WrapperPing, BasePings
  <1>2. CASE ~caps.ping
    <2>1. Answered(t, "skip")
      BY <1>2 DEF WrapperPing
    <2>2. pc'[t] = "answered" /\ answer'[t] = "skip"
      BY <2>1 DEF Answered, Goto, IInv, BookInv, TypeOK, BareTypeOK
    <2> QED BY <1>1, <1>2, <2>2 DEF BareOrKnown, Deviates, PingFails
  <1>3. CASE caps.ping
    <2>1. PICK a \in (IF alive[conn[t]] THEN {"ok", "failed"} ELSE {"badconn"}) : Answered(t, a)
      BY <1>3 DEF WrapperPing, BasePings
    <2>2. ~Stands(op[t], "answered", a)
      BY <2>1 DEF Stands
    <2>3. Bare!Answered(t, a)
      BY <1>1, <2>1, <2>2, AnsweredAsBare
    <2>4. Bare!BasePings(t)
      BY <1>1, <2>1, <2>3 DEF Bare!BasePings, pool, Bare!pool, effects, Bare!effects
    <2>5. Bare!Ping(t)
      BY <1>1, <1>3, <2>4 DEF Bare!Ping
    <2> QED BY <2>5 DEF BareOrKnown, Bare!BareNext, Bare!BareDriver
  <1> QED BY <1>2, <1>3

\* Without BeginTx the options are dropped, and a context that is done is not
\* looked at.
LEMMA BeginAsBare ==
    ASSUME IInv, IInv', NEW t \in Thread, WrapperBegin(t)
    PROVE  BareOrKnown
PROOF
  <1> DEFINE reply == IF alive[conn[t]] THEN "failed" ELSE "badconn"
             readOnly == caps.beginTx /\ op[t].readOnly
  <1>1. /\ pc[t] = "begin" /\ barePc[t] = "begin" /\ mode[t] = "none"
        /\ UNCHANGED <<caps, pool, op, done, conn, attempt, executed, outcome, calls>>
    BY Waiting DEF WrapperBegin, BaseBegins, IInv, AnswerInv
  <1>2. CASE /\ alive[conn[t]] /\ Goto(t, "tx") /\ UNCHANGED answer
             /\ mode' = [mode EXCEPT ![t] = IF readOnly THEN "readonly" ELSE "readwrite"]
    <2>1. pc'[t] = "tx" /\ mode'[t] = (IF readOnly THEN "readonly" ELSE "readwrite")
      BY <1>2 DEF Goto, IInv, BookInv, TypeOK, BareTypeOK
    <2>2. CASE ~caps.beginTx /\ op[t].readOnly
      BY <1>1, <2>1, <2>2 DEF BareOrKnown, Deviates, OptionsDropped
    <2>3. CASE ~caps.beginTx /\ done[t]
      BY <1>1, <2>1, <2>3 DEF BareOrKnown, Deviates, CancelIgnored
    <2>4. CASE caps.beginTx \/ (~op[t].readOnly /\ ~done[t])
      <3>1. ~Stands(op[t], pc[t], answer[t])
        BY <1>1 DEF Stands
      <3>2. Bare!Goto(t, "tx") /\ bareAnswer' = bareAnswer
        BY <1>1, <1>2, <3>1, GoesAsBare
      <3>3. mode' = [mode EXCEPT ![t] = IF op[t].readOnly THEN "readonly" ELSE "readwrite"]
        BY <1>2, <2>4
      <3>4. Bare!BaseBegins(t, op[t].readOnly)
        BY <1>1, <1>2, <3>2, <3>3 DEF Bare!BaseBegins, pool, Bare!pool
      <3>5. Bare!Begin(t)
        BY <1>1, <2>4, <3>4 DEF Bare!Begin
      <3> QED BY <3>5 DEF BareOrKnown, Bare!BareNext, Bare!BareDriver
    <2> QED BY <2>2, <2>3, <2>4
  <1>3. CASE Answered(t, reply) /\ UNCHANGED mode
    <2>1. ~Stands(op[t], "answered", reply)
      BY DEF Stands
    <2>2. UNCHANGED <<caps, op>> /\ Answered(t, reply)
      BY <1>1, <1>3
    <2> HIDE DEF reply
    <2>3. Bare!Answered(t, reply)
      BY <2>1, <2>2, AnsweredAsBare
    <2> USE DEF reply
    <2>4. CASE ~caps.beginTx /\ op[t].readOnly
      <3>1. pc'[t] = "answered" /\ mode'[t] = "none"
        BY <1>1, <1>3 DEF Answered, Goto, IInv, BookInv, TypeOK, BareTypeOK
      <3> QED BY <1>1, <2>4, <3>1 DEF BareOrKnown, Deviates, OptionsDropped
    <2>5. CASE ~caps.beginTx /\ ~op[t].readOnly /\ done[t]
      <3>1. Bare!Begin(t)
        BY <1>1, <1>3, <2>3, <2>5 DEF Bare!Begin, pool, Bare!pool, effects, Bare!effects
      <3> QED BY <3>1 DEF BareOrKnown, Bare!BareNext, Bare!BareDriver
    <2>6. CASE caps.beginTx \/ (~op[t].readOnly /\ ~done[t])
      <3>1. Bare!BaseBegins(t, op[t].readOnly)
        BY <1>1, <1>3, <2>3 DEF Bare!BaseBegins, pool, Bare!pool
      <3>2. Bare!Begin(t)
        BY <1>1, <2>6, <3>1 DEF Bare!Begin
      <3> QED BY <3>2 DEF BareOrKnown, Bare!BareNext, Bare!BareDriver
    <2> QED BY <2>4, <2>5, <2>6
  <1> QED BY <1>2, <1>3 DEF WrapperBegin, BaseBegins

LEMMA EndTxAsBare ==
    ASSUME IInv, IInv', NEW t \in Thread, EndTx(t)
    PROVE  Bare!EndTx(t)
PROOF
  <1>1. /\ pc[t] = "tx" /\ barePc[t] = "tx" /\ mode' = [mode EXCEPT ![t] = "none"]
        /\ UNCHANGED <<caps, pool, op, done, conn, attempt, executed, outcome, calls>>
    BY Waiting DEF EndTx
  <1>2. PICK a \in {"ok", "failed"} : /\ a = "ok" => alive[conn[t]]
                                      /\ a = "failed" => ~alive[conn[t]] \/ done[t]
                                      /\ Answered(t, a)
    BY DEF EndTx
  <1>3. ~Stands(op[t], "answered", a)
    BY <1>2 DEF Stands
  <1>4. Bare!Answered(t, a)
    BY <1>1, <1>2, <1>3, AnsweredAsBare
  <1> QED BY <1>1, <1>2, <1>4 DEF Bare!EndTx, pool, Bare!pool

LEMMA NextAsBare ==
    ASSUME IInv, IInv', [Next]_vars
    PROVE  BareOrKnown
PROOF
  <1>1. ASSUME NEW c \in Conn, Kill(c) PROVE BareOrKnown
    BY <1>1, KillAsBare DEF BareOrKnown, Bare!BareNext
  <1>2. ASSUME NEW t \in Thread, NEW o \in Operations, StartOperation(t, o) PROVE BareOrKnown
    BY <1>2, StartAsBare DEF BareOrKnown, Bare!BareNext
  <1>3. ASSUME NEW t \in Thread, SqlSteps(t, TRUE, ForwardsPooling) PROVE BareOrKnown
    BY <1>3, SqlAsBare
  <1>4. ASSUME NEW t \in Thread, Wrapper(t) PROVE BareOrKnown
    <2>1. CASE EndTx(t)
      BY <2>1, EndTxAsBare DEF BareOrKnown, Bare!BareNext, Bare!BareDriver
    <2> QED BY <1>4, <2>1, ConnCheckAsBare, QueryAsBare, PrepareAsBare, StmtCheckAsBare,
               StmtQueryAsBare, PingAsBare, BeginAsBare DEF Wrapper
  <1>5. ASSUME NEW t \in Thread, AnalyzeExecuted(t) PROVE BareOrKnown
    BY <1>5, AnalyzeAsBare DEF BareOrKnown
  <1>6. CASE UNCHANGED vars
    <2>1. barePc' = barePc /\ bareAnswer' = bareAnswer
      BY <1>6, Still DEF vars, bareVars, call
    <2> QED BY <1>6, <2>1 DEF BareOrKnown, Bare!bareVars, Bare!call, pool, Bare!pool, effects,
               Bare!effects, vars, bareVars, call
  <1> QED BY <1>1, <1>2, <1>3, <1>4, <1>5, <1>6 DEF Next, Done

\* But for the four deviations named in Deviates, everything database/sql does
\* over the wrapper it could have done over the bare driver: the same calls of
\* the base, retries, fallbacks and outcomes (driver.go:22-28).
THEOREM Refinement == Spec => AsBareButForKnown
PROOF
  <1>1. IInv /\ IInv' /\ [Next]_vars
        => [Bare!BareNext \/ \E t \in Thread : Deviates(t)]_(Bare!bareVars)
    BY NextAsBare DEF BareOrKnown
  <1> QED BY BareStart, Invariance, <1>1, PTL DEF Spec, AsBareButForKnown
=============================================================================
