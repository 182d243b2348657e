---------------------------- MODULE Interception ----------------------------
(***************************************************************************)
(* The surfaces sqlguard intercepts statements at (middleware/driver.go    *)
(* and integrations/), each of which has to make the same calls of one     *)
(* Guard from whatever hooks its library offers: Check once for every      *)
(* statement that ran, and CheckLatency with the time the database took if *)
(* it succeeded.  A surface is the order in which it makes its calls and   *)
(* the answers after which it returns early.                               *)
(*                                                                         *)
(* Check takes time (locks, a cold analysis, the reporter's output), and   *)
(* so does the database; reading the clock and handing over do not.        *)
(*                                                                         *)
(* History: took[t] is how long the database had the statement of t,       *)
(* checked[t] how often Check was called with it, slow[t][g] how often     *)
(* CheckLatency of the g-th Guard reported it: there is one Guard, except  *)
(* where pgx was given two tracers.                                        *)
(***************************************************************************)
EXTENDS Integers, Sequences, FiniteSets

CONSTANTS
    Thread,         \* goroutines executing statements
    Surfaces,       \* the surfaces in use
    SlowThreshold,  \* WithSlowQueryThreshold, in clock ticks
    MaxTime,        \* bound on the clock
    MaxCalls        \* bound on the number of statements

Surface == {"driver", "pgx", "composed", "batch", "sqlx", "ent", "xorm", "bun", "gorm"}

ASSUME InterceptionAssumption ==
    /\ Surfaces \subseteq Surface
    /\ Surfaces # {}
    /\ SlowThreshold \in Nat \ {0}

VARIABLES clock, surface, rest, start, holder, elapsed, answer, calls,
          took, spent, checked, slow

measured == <<start, holder, elapsed>>
history == <<took, spent, checked, slow>>

vars == <<clock, surface, rest, measured, answer, calls, history>>

\* What becomes of a statement.  "empty" is a success without the row that was
\* asked for; "unsent" is a statement that did not reach the database, such as
\* after driver.ErrSkip and driver.ErrBadConn; "unrendered" is one for which
\* its library did not even build the SQL.
Answers == {"ok", "empty", "failed", "unsent", "unrendered"}

Ran(a) == a \in {"ok", "empty", "failed"}
Succeeded(a) == a \in {"ok", "empty"}

\* The libraries that render the SQL themselves, and those of them where the
\* surface stops the clock in an after-hook.
Renders(s) == s \in {"xorm", "bun", "gorm"}
StopsInHook(s) == s \in {"bun", "gorm"}

BugObserve == <<"start", "check", "database", "measure", "latency">>

\* Guard.Observe before the call and its closure after it: pgx's
\* TraceQueryStart and TraceQueryEnd, and the methods of sqlx and ent.
Observe == <<"check", "start", "database", "measure", "latency">>

BugAnalyzeExecuted == <<"start", "database", "check", "measure", "latency">>

\* pgxguard.Apply on a config that has a sqlguard tracer already: pgx's
\* multitracer calls both, one after the other, and hands to each what the one
\* before it made of the context.  They stash their closures under one key, so
\* at the end both find that of the second.
Composed == <<"check", "start", "check", "restart", "database",
              "measure", "latency", "measure", "latency">>

\* The driver wrapper, whose elapsed is read before Check.
AnalyzeExecuted == <<"start", "database", "measure", "check", "latency">>

\* xorm measures ExecuteTime itself, then AfterProcess runs.
AfterProcess == <<"start", "database", "measure", "check", "latency">>

\* bun's AfterQuery and gorm's after-callbacks: start was stamped before the
\* statement, and time.Since(start) is read after Check.
AfterQuery == <<"start", "database", "check", "measure", "latency">>

\* pgx's TraceBatchQuery: one statement of a batch, not timed.
TraceBatchQuery == <<"database", "check">>

Calls(s) ==
    CASE s \in {"pgx", "sqlx", "ent"} -> Observe
      [] s = "composed"               -> Composed
      [] s = "driver"                 -> AnalyzeExecuted
      [] s = "xorm"                   -> AfterProcess
      [] StopsInHook(s)               -> AfterQuery
      [] s = "batch"                  -> TraceBatchQuery

Guards(s) == IF s = "composed" THEN {1, 2} ELSE {1}

\* Their libraries report a missing row as an error: sql.ErrNoRows,
\* gorm.ErrRecordNotFound.
EmptyIsError(s) == s \in {"sqlx", "bun", "gorm"}

\* The error the surface is given.
Err(s, a) == ~Succeeded(a) \/ (a = "empty" /\ EmptyIsError(s))

NotReported == [g \in {1, 2} |-> 0]

TypeOK ==
    /\ clock \in Nat
    /\ surface \in [Thread -> Surface]
    /\ rest \in [Thread -> Seq({"check", "start", "restart", "database", "measure", "latency"})]
    /\ start \in [Thread -> Nat]
    /\ holder \in [Thread -> {1, 2}]
    /\ elapsed \in [Thread -> Nat]
    /\ answer \in [Thread -> Answers \cup {"none"}]
    /\ calls \in Nat
    /\ took \in [Thread -> Nat]
    /\ spent \in [Thread -> Nat]
    /\ checked \in [Thread -> Nat]
    /\ slow \in [Thread -> [{1, 2} -> Nat]]

Init ==
    /\ clock = 0
    /\ surface = [t \in Thread |-> CHOOSE s \in Surfaces : TRUE]
    /\ rest = [t \in Thread |-> << >>]
    /\ start = [t \in Thread |-> 0]
    /\ holder = [t \in Thread |-> 1]
    /\ elapsed = [t \in Thread |-> 0]
    /\ answer = [t \in Thread |-> "none"]
    /\ calls = 0
    /\ took = [t \in Thread |-> 0]
    /\ spent = [t \in Thread |-> 0]
    /\ checked = [t \in Thread |-> 0]
    /\ slow = [t \in Thread |-> NotReported]

At(t, step) == rest[t] # << >> /\ Head(rest[t]) = step

\* The next call of the surface, or none if it returns early.
Proceed(t) == rest' = [rest EXCEPT ![t] = Tail(@)]
ReturnEarly(t) == rest' = [rest EXCEPT ![t] = << >>]

\* Time passes for the database and for Check.
Tick ==
    /\ clock < MaxTime
    /\ \A t \in Thread : rest[t] = << >> \/ At(t, "check") \/ At(t, "database")
    /\ clock' = clock + 1
    /\ took' = [t \in Thread |-> IF At(t, "database") THEN took[t] + 1 ELSE took[t]]
    /\ spent' = [t \in Thread |-> IF At(t, "check") THEN spent[t] + 1 ELSE spent[t]]
    /\ UNCHANGED <<surface, rest, measured, answer, calls, checked, slow>>

\* A goroutine executes a statement.
Execute(t, s) ==
    /\ rest[t] = << >>
    /\ calls < MaxCalls
    /\ calls' = calls + 1
    /\ surface' = [surface EXCEPT ![t] = s]
    /\ rest' = [rest EXCEPT ![t] = Calls(s)]
    /\ answer' = [answer EXCEPT ![t] = "none"]
    /\ took' = [took EXCEPT ![t] = 0]
    /\ spent' = [spent EXCEPT ![t] = 0]
    /\ checked' = [checked EXCEPT ![t] = 0]
    /\ slow' = [slow EXCEPT ![t] = NotReported]
    /\ start' = [start EXCEPT ![t] = 0]
    /\ holder' = [holder EXCEPT ![t] = 1]
    /\ elapsed' = [elapsed EXCEPT ![t] = 0]
    /\ UNCHANGED clock

Check(t) ==
    /\ At(t, "check")
    /\ Proceed(t)
    /\ checked' = [checked EXCEPT ![t] = @ + 1]
    /\ UNCHANGED <<clock, surface, measured, answer, calls, took, spent, slow>>

\* start := time.Now()
Start(t) ==
    /\ At(t, "start")
    /\ Proceed(t)
    /\ start' = [start EXCEPT ![t] = clock]
    /\ UNCHANGED <<clock, surface, holder, elapsed, answer, calls, history>>

\* The second tracer's closure takes the place of the first's.
Restart(t) ==
    /\ At(t, "restart")
    /\ Proceed(t)
    /\ start' = [start EXCEPT ![t] = clock]
    /\ holder' = [holder EXCEPT ![t] = 2]
    /\ UNCHANGED <<clock, surface, elapsed, answer, calls, history>>

BugSkipsAnalysis(s, a) == a = "unrendered"

\* analyzeExecuted returns at once when the base did not run the statement, and
\* an after-hook when there is no SQL; pgx traces only what it sent of a batch.
SkipsAnalysis(s, a) ==
    \/ a = "unsent" /\ s \in {"driver", "batch"}
    \/ a = "unrendered"

\* The statement comes back from the database.
Database(t) ==
    /\ At(t, "database")
    /\ \E a \in Answers :
         /\ a = "unrendered" => Renders(surface[t])
         /\ answer' = [answer EXCEPT ![t] = a]
         /\ IF SkipsAnalysis(surface[t], a) THEN ReturnEarly(t) ELSE Proceed(t)
    /\ UNCHANGED <<clock, surface, measured, calls, history>>

\* elapsed := time.Since(start)
Measure(t) ==
    /\ At(t, "measure")
    /\ Proceed(t)
    /\ elapsed' = [elapsed EXCEPT ![t] = clock - start[t]]
    /\ UNCHANGED <<clock, surface, start, holder, answer, calls, history>>

\* CheckLatency, unless the surface was given an error, of the Guard the clock
\* is of.
CheckLatency(t) ==
    /\ At(t, "latency")
    /\ Proceed(t)
    /\ slow' = IF ~Err(surface[t], answer[t]) /\ elapsed[t] >= SlowThreshold
               THEN [slow EXCEPT ![t][holder[t]] = @ + 1] ELSE slow
    /\ UNCHANGED <<clock, surface, measured, answer, calls, took, spent, checked>>

Done ==
    /\ calls = MaxCalls
    /\ \A t \in Thread : rest[t] = << >>
    /\ UNCHANGED vars

Next ==
    \/ Tick
    \/ \E t \in Thread :
         \/ \E s \in Surfaces : Execute(t, s)
         \/ Check(t) \/ Start(t) \/ Restart(t) \/ Database(t) \/ Measure(t) \/ CheckLatency(t)
    \/ Done

Spec == Init /\ [][Next]_vars
-----------------------------------------------------------------------------
\* The time a surface is meant to measure: the database's, plus that of Check
\* where Check comes in between.
Counted(t) == IF StopsInHook(surface[t]) THEN took[t] + spent[t] ELSE took[t]

\* How many calls of one kind are among the first n of a surface, and how many
\* calls that of t has made.
Made(s, n, step) ==
    LET program == Calls(s)
    IN  Cardinality({i \in 1..n : program[i] = step})
Position(t) == Len(Calls(surface[t])) - Len(rest[t])

\* What a surface has left to call after n calls.
Remaining(s, n) == SubSeq(Calls(s), n + 1, Len(Calls(s)))

\* No statement yet, or one that its surface returned from early.
Early(t) ==
    /\ rest[t] = << >>
    /\ answer[t] = "none" \/ SkipsAnalysis(surface[t], answer[t])

\* What a surface left early has done: nothing.
EarlyInv(t) ==
    /\ answer[t] = "unrendered" => Renders(surface[t])
    /\ checked[t] = 0
    /\ slow[t] = NotReported

\* The calls t still has to make are the end of its program, and what it has
\* done is what the calls before them do.
CallsInv(t) ==
    LET s       == surface[t]
        n       == Position(t)
        made(x) == Made(s, n, x)
    IN  /\ n \in Nat
        /\ rest[t] = Remaining(s, n)
        /\ (answer[t] = "none") <=> (made("database") = 0)
        /\ ~SkipsAnalysis(s, answer[t])
        /\ checked[t] = made("check")
        /\ holder[t] = 1 + made("restart")
        /\ slow[t] = [g \in {1, 2} |->
                        IF /\ g = holder[t]
                           /\ ~Err(s, answer[t])
                           /\ elapsed[t] >= SlowThreshold
                        THEN made("latency") ELSE 0]

\* What is on the clock of a surface is the time it is meant to measure: while
\* that runs, and once it was measured.
ClockInv(t) ==
    LET s       == surface[t]
        n       == Position(t)
        made(x) == Made(s, n, x)
        timing  == \/ At(t, "database")
                   \/ At(t, "measure")
                   \/ At(t, "check") /\ StopsInHook(s)
                   \/ At(t, "latency") /\ s = "composed"
    IN  /\ made("database") = 0 /\ ~At(t, "database") => took[t] = 0
        /\ StopsInHook(s) /\ made("check") = 0 /\ ~At(t, "check") => spent[t] = 0
        /\ timing /\ s # "batch" => clock - start[t] = Counted(t)
        /\ made("measure") > 0 => elapsed[t] = Counted(t)

\* Types, and every surface in step with its program and its clock (guard.go:
\* Observe; driver.go: analyzeExecuted; bunguard.go: AfterQuery; gormguard.go:
\* analyze).
IInv ==
    /\ TypeOK
    /\ \A t \in Thread :
         IF Early(t) THEN EarlyInv(t) ELSE CallsInv(t) /\ ClockInv(t)

\* The statement of t is over and its surface has returned.
Over(t) == rest[t] = << >> /\ answer[t] # "none"

\* A statement that ran was checked exactly once by each Guard, whatever surface it
\* came through and whether or not it succeeded; one that database/sql will issue
\* again was not checked yet (driver.go: analyzeExecuted; gormguard.go:73,
\* "every db.Raw and db.Exec bypassed analysis").
CheckedOnce ==
    \A t \in Thread : Over(t) =>
        /\ checked[t] <= Cardinality(Guards(surface[t]))
        /\ Ran(answer[t]) => checked[t] = Cardinality(Guards(surface[t]))
        /\ answer[t] = "unsent" /\ surface[t] = "driver" => checked[t] = 0

\* What the documentation calls slow, on every surface: the statement succeeded
\* and the database took that long (rules.md:224).
Slow(t) == Succeeded(answer[t]) /\ took[t] >= SlowThreshold

Timed(s) == s # "batch"

\* Nothing else is reported as slow (driver.go:418-421: analysis time must not
\* push a query past the threshold).
NeverFalselySlow == \A t \in Thread : Over(t) /\ slow[t] # NotReported => Slow(t)

\* The three ways a surface differs from the driver wrapper.  An after-hook
\* counts the time of its own Check ...
CountsCheck(t) ==
    /\ StopsInHook(surface[t])
    /\ took[t] < SlowThreshold
    /\ took[t] + spent[t] >= SlowThreshold

\* ... a surface whose library makes a missing row an error takes a success for a
\* failure ...
TakenForFailure(t) == EmptyIsError(surface[t]) /\ answer[t] = "empty"

\* ... and of two tracers the first reports nothing and the second everything twice.
ReportsOf(s, g) == IF s # "composed" THEN 1 ELSE IF g = 1 THEN 0 ELSE 2

\* Nothing else does: on every surface the time between start and elapsed is
\* the database's alone, and the verdict that of the driver wrapper
\* (guard.go: Observe; driver.go:418-421).
SlowButForKnown ==
    \A t \in Thread : Over(t) /\ Timed(surface[t]) =>
        LET reported == /\ Slow(t) \/ (Succeeded(answer[t]) /\ CountsCheck(t))
                        /\ ~TakenForFailure(t)
        IN  \A g \in Guards(surface[t]) :
              slow[t][g] = IF reported THEN ReportsOf(surface[t], g) ELSE 0
=============================================================================
