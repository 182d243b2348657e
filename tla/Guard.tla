-------------------------------- MODULE Guard --------------------------------
(***************************************************************************)
(* Guard (middleware/guard.go): the analysis core every integration        *)
(* drives, as the composition of its analysis cache, finding deduper and   *)
(* N+1 tracker.  A goroutine observes a query: Check analyzes it through   *)
(* the cache, reports its findings through the deduper and counts it in    *)
(* the tracker; then the database works on it, and the closure Observe     *)
(* returned records the latency.  A goroutine serving a request may call   *)
(* ResetN1 between queries.                                                *)
(*                                                                         *)
(* Each component's steps are that component's own actions.  History:      *)
(* executions lists the queries the tracker counted, and sent[t] is when   *)
(* the database got the query of t.                                        *)
(***************************************************************************)
EXTENDS Integers, Sequences, FiniteSets

CONSTANTS
    Thread,         \* goroutines executing queries
    Query,          \* query strings
    Rule, Rules,    \* Rules[q]: the rules that find something in q, in order
    Dialect,        \* the dialect of the Guard's analyzer
    Redacted,       \* redacted texts
    Redact,         \* Redact[d][q]: q as redact leaves it in dialect d
    Fingerprint,
    Fold,           \* Fold[r]: what foldRedacted makes of the redacted text r
    Nothing,        \* no result list, no report
    CacheSizes,     \* values of WithAnalysisCacheSize
    DedupWindow, DedupKeys,
    N1Threshold, N1Window, N1Keys,
    SlowThreshold,
    Profiles,       \* resolved policies: [n1 : BOOLEAN, slow : BOOLEAN]
    MaxTime, MaxCalls, MaxResets

ASSUME GuardAssumption ==
    /\ Rules \in [Query -> Seq(Rule)]
    /\ Redact \in [{Dialect, "unknown"} -> [Query -> Redacted]]
    /\ Fold \in [Redacted -> Fingerprint]
    /\ CacheSizes \subseteq Int
    /\ DedupWindow \in Int /\ DedupKeys \in Nat \ {0}
    /\ N1Threshold \in Int /\ N1Window \in Nat /\ N1Keys \in Nat \ {0}
    /\ SlowThreshold \in Nat
    /\ Profiles \subseteq [n1 : BOOLEAN, slow : BOOLEAN]
    /\ MaxTime \in Nat /\ MaxCalls \in Nat

\* PrepareQuery: the fingerprint Analyze gives all findings of q.
PrepareQuery(q) == Fold[Redact[Dialect][q]]

\* Analyze: a finding for each rule that finds something.
Findings ==
    [q \in Query |-> [i \in DOMAIN Rules[q] |->
                       [fingerprint |-> PrepareQuery(q), rule |-> Rules[q][i]]]]

\* What the deduper knows a finding by.
Finding == UNION {{Findings[q][i] : i \in DOMAIN Findings[q]} : q \in Query}

\* Analyzer.Fingerprint: the analyzer's identity of q.
Shape == [q \in Query |-> Fold[Redact[Dialect][q]]]

BugNormalized(q) == Fold[Redact["unknown"][q]]

\* The fingerprint function NewGuard gives the tracker.
Normalized(q) == Shape[q]

ASSUME NothingAssumption == Nothing \notin {Findings[q] : q \in Query} \cup {<< >>}

VARIABLES
    clock, profile, stage, found, start, slow, executions, sent,
    capacity, ll, items, pc, query, results, calls, uses, analyses,
    seen, reporting, now, todo, kept, batches, admitted, admittedAt, emitted,
    queries, pending, log, era, refused, warned

cache == <<capacity, ll, items, pc, query, results, calls, uses, analyses>>
dedup == <<seen, reporting, now, todo, kept, batches, admitted, admittedAt, emitted>>
tracker == <<queries, pending, log, era, refused, warned>>
timing == <<start, slow, sent>>

vars == <<clock, profile, stage, found, timing, executions, cache, dedup, tracker>>

Cache == INSTANCE AnalysisCache WITH
    NoFindings <- << >>, Capacities <- CacheSizes

Dedup == INSTANCE FindingDedup WITH
    Key <- Finding, Window <- DedupWindow, MaxKeys <- DedupKeys,
    Batches <- {Findings[q] : q \in Query} \ {<< >>},
    MaxLag <- MaxTime, pc <- reporting, calls <- batches

Tracker == INSTANCE QueryTracker WITH
    Threshold <- N1Threshold, Window <- N1Window, MaxKeys <- N1Keys,
    None <- Nothing, MaxTracks <- MaxCalls, emitted <- warned

ASSUME NothingIsNoReport == Nothing \notin Tracker!Report

TypeOK ==
    /\ Cache!TypeOK /\ Dedup!TypeOK /\ Tracker!TypeOK
    /\ profile \in [n1 : BOOLEAN, slow : BOOLEAN]
    /\ stage \in [Thread -> {"idle", "analyze", "report", "track", "warn",
                             "checked", "running"}]
    /\ start \in [Thread -> Nat] /\ sent \in [Thread -> Nat] /\ slow \in Nat
    /\ executions \in Seq([query : Query, at : Nat, era : Nat])

\* NewGuard
Init ==
    /\ Cache!Init /\ Dedup!Init /\ Tracker!Init
    /\ profile \in Profiles
    /\ stage = [t \in Thread |-> "idle"]
    /\ found = [t \in Thread |-> << >>]
    /\ start = [t \in Thread |-> 0]
    /\ sent = [t \in Thread |-> 0]
    /\ slow = 0
    /\ executions = << >>

Goto(t, s) == stage' = [stage EXCEPT ![t] = s]

Tick ==
    /\ Dedup!Tick
    /\ UNCHANGED <<profile, stage, found, timing, executions, cache, tracker>>

\* Observe(query) calls Check, and Check calls analyze.
Observe(t, q) ==
    /\ stage[t] = "idle"
    /\ Cache!Call(t, q)
    /\ Goto(t, "analyze")
    /\ UNCHANGED <<clock, profile, found, timing, executions, dedup, tracker>>

\* The steps of analyze, through the cache.
LookUp(t) ==
    /\ stage[t] = "analyze"
    /\ \/ Cache!Hit(t)
       \/ Cache!Miss(t)
       \/ Cache!Analyze(t)
       \/ Cache!Refresh(t)
       \/ Cache!Store(t)
    /\ UNCHANGED <<clock, profile, stage, found, timing, executions, dedup, tracker>>

\* analyze returned findings: report reads the clock.
ReportFindings(t) ==
    /\ stage[t] = "analyze"
    /\ Cache!Return(t)
    /\ Len(results[t]) > 0
    /\ Dedup!Begin(t, results[t])
    /\ found' = [found EXCEPT ![t] = results[t]]
    /\ Goto(t, "report")
    /\ UNCHANGED <<profile, timing, executions, tracker>>

\* analyze returned none.
FoundNothing(t) ==
    /\ stage[t] = "analyze"
    /\ Cache!Return(t)
    /\ Len(results[t]) = 0
    /\ found' = [found EXCEPT ![t] = results[t]]
    /\ Goto(t, "track")
    /\ UNCHANGED <<clock, profile, timing, executions, dedup, tracker>>

\* The loop of report over the findings.
Deduplicate(t) ==
    /\ stage[t] = "report"
    /\ Dedup!Admit(t) \/ Dedup!Suppress(t)
    /\ UNCHANGED <<profile, stage, found, timing, executions, cache, tracker>>

\* report hands what passed to the reporter, if anything did.
Reported(t) ==
    /\ stage[t] = "report"
    /\ Dedup!Emit(t) \/ Dedup!Return(t)
    /\ Goto(t, "track")
    /\ UNCHANGED <<profile, found, timing, executions, cache, tracker>>

\* The fingerprint the tracker counts the query under: the one its first
\* finding carries, cached or not; and if it has none what Track makes of it.
CountedAs(t) ==
    IF Len(found[t]) > 0 THEN found[t][1].fingerprint ELSE Normalized(query[t])

\* Check feeds the tracker, whatever the deduper let through.
Track(t) ==
    /\ stage[t] = "track"
    /\ profile.n1
    /\ Tracker!Track(t, CountedAs(t))
    /\ found' = [found EXCEPT ![t] = << >>]
    /\ Goto(t, IF pending'[t] = Nothing THEN "checked" ELSE "warn")
    /\ executions' =
         IF log' # log
         THEN Append(executions, [query |-> query[t], at |-> clock, era |-> era])
         ELSE executions
    /\ UNCHANGED <<clock, profile, timing, cache, dedup>>

\* g.tracker is nil: N+1 detection was not asked for, or its rule is off.
NoTracker(t) ==
    /\ stage[t] = "track"
    /\ ~profile.n1
    /\ found' = [found EXCEPT ![t] = << >>]
    /\ Goto(t, "checked")
    /\ UNCHANGED <<clock, profile, timing, executions, cache, dedup, tracker>>

\* The tracker reports outside its mutex.
Warn(t) ==
    /\ stage[t] = "warn"
    /\ Tracker!Emit(t)
    /\ Goto(t, "checked")
    /\ UNCHANGED <<profile, found, timing, executions, cache, dedup>>

BugStartOf(t) == now[t]

\* start := time.Now(), after Check.
StartOf(t) == clock

\* Observe returns, and the caller hands the query to the database.
Execute(t) ==
    /\ stage[t] = "checked"
    /\ Goto(t, "running")
    /\ start' = [start EXCEPT ![t] = StartOf(t)]
    /\ sent' = [sent EXCEPT ![t] = clock]
    /\ UNCHANGED <<clock, profile, slow, found, executions, cache, dedup, tracker>>

\* The operation succeeded: CheckLatency.
Succeed(t) ==
    /\ stage[t] = "running"
    /\ Goto(t, "idle")
    /\ slow' = IF profile.slow /\ clock - start[t] >= SlowThreshold
               THEN slow + 1 ELSE slow
    /\ start' = [start EXCEPT ![t] = 0]
    /\ sent' = [sent EXCEPT ![t] = 0]
    /\ UNCHANGED <<clock, profile, found, executions, cache, dedup, tracker>>

\* The operation failed: its latency is meaningless.
Fail(t) ==
    /\ stage[t] = "running"
    /\ Goto(t, "idle")
    /\ start' = [start EXCEPT ![t] = 0]
    /\ sent' = [sent EXCEPT ![t] = 0]
    /\ UNCHANGED <<clock, profile, slow, found, executions, cache, dedup, tracker>>

\* The goroutine ends its request.
ResetN1(t) ==
    /\ stage[t] = "idle"
    /\ profile.n1
    /\ Tracker!Reset(t)
    /\ UNCHANGED <<profile, stage, found, timing, executions, cache, dedup>>

Work(t) ==
    \/ LookUp(t) \/ ReportFindings(t) \/ FoundNothing(t)
    \/ Deduplicate(t) \/ Reported(t)
    \/ Track(t) \/ NoTracker(t) \/ Warn(t)

Done ==
    /\ calls = MaxCalls
    /\ clock = MaxTime
    /\ \A t \in Thread : stage[t] = "idle"
    /\ UNCHANGED vars

Next ==
    \/ Tick
    \/ \E t \in Thread :
         \/ \E q \in Query : Observe(t, q)
         \/ Work(t)
         \/ Execute(t) \/ Succeed(t) \/ Fail(t)
         \/ ResetN1(t)
    \/ Done

Spec == Init /\ [][Next]_vars

\* A goroutine inside Check keeps running.  Nothing is assumed of the
\* database.
FairSpec == Spec /\ \A t \in Thread : WF_vars(Work(t))
-----------------------------------------------------------------------------
\* Each goroutine is inside the component its stage says, and in no other.
StagesAgree ==
    \A t \in Thread :
        /\ stage[t] = "analyze" <=> pc[t] # "idle"
        /\ stage[t] = "report" <=> reporting[t] # "idle"
        /\ stage[t] = "warn" <=> pending[t] # Nothing

\* Check goes on with the findings of its own query, wherever analyze had them
\* from.
FoundInv ==
    found = [t \in Thread |->
               IF stage[t] \in {"report", "track"} THEN Findings[query[t]] ELSE << >>]

\* The executions are the tracker's log, in the order it numbered them.
ExecutionsLogged ==
    /\ Len(executions) = Cardinality(log)
    /\ log = {[id |-> i - 1, fp |-> Shape[executions[i].query],
               at |-> executions[i].at, era |-> executions[i].era] : i \in DOMAIN executions}

\* The invariants of the three components hold of their composition: in
\* particular the cache, the deduper's map and the tracker's map all stay
\* within their bounds, and the counters are exact (guard.go: Check, report).
IInv ==
    /\ TypeOK
    /\ StagesAgree
    /\ FoundInv
    /\ ExecutionsLogged
    /\ start = sent
    /\ Cache!IInv
    /\ Dedup!IInv
    /\ Tracker!IInv

\* The N+1 count of a pattern is the number of executions of all queries of
\* that shape since its window began, whatever their literals, whether or not
\* they had findings, came from the cache or were deduplicated (guard.go:
\* Check, "A finding already carries the fingerprint; reuse it"; n_plus_one.go:
\* "pass the Analyzer's Fingerprint so the dialect is honoured").
PatternCounted ==
    \A f \in DOMAIN queries :
        queries[f].count =
          Cardinality({i \in DOMAIN executions :
                         /\ Shape[executions[i].query] = f
                         /\ executions[i].era = era
                         /\ executions[i].at >= queries[f].firstSeen})

FindingsOf(q) == {Findings[q][i] : i \in DOMAIN Findings[q]}

\* While the deduper has room, a query with findings cannot run without each of
\* them being reported: not because the cache answers for another query, nor
\* because a goroutine that was allowed to report it does not get to (guard.go:
\* Check, analyze, report).
FindingsReachReporter ==
    \A k \in Finding :
        (\E t \in Thread : stage[t] = "analyze" /\ k \in FindingsOf(query[t]))
          ~> emitted[k] > 0

\* A query is called slow only for the time the database had it: time spent
\* in Check does not count (guard.go: Observe; driver.go:418, "running the
\* rules inside the window would let analysis time push a query past the
\* slow-query threshold").
LatencyIsTheDatabases ==
    [][slow' # slow =>
         \E t \in Thread : stage[t] = "running" /\ clock - sent[t] >= SlowThreshold]_vars
=============================================================================
