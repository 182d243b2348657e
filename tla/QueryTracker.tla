---------------------------- MODULE QueryTracker ----------------------------
(***************************************************************************)
(* QueryTracker (middleware/n_plus_one.go) fed by several goroutines.      *)
(* trackFingerprint reads the clock under its mutex, decides there whether *)
(* to report, and calls the reporter after releasing it; Reset may run at  *)
(* any time, also between a decision and its report.                       *)
(*                                                                         *)
(* History: log is every execution the tracker counted, era the number of  *)
(* Resets before it, refused the fingerprints turned away at the cap, and  *)
(* emitted what the reporter was handed.                                   *)
(***************************************************************************)
EXTENDS N1Records

CONSTANTS
    Thread,     \* goroutines executing queries
    None,       \* no report is waiting to be delivered
    MaxTime,    \* bound on the clock
    MaxTracks,  \* bound on the number of counted executions
    MaxResets   \* bound on the number of Resets

ASSUME QueryTrackerAssumption == MaxTime \in Nat

VARIABLES clock, queries, pending, log, era, refused, emitted

vars == <<clock, queries, pending, log, era, refused, emitted>>

Execution == [id : Nat, fp : Fingerprint, at : Nat, era : Nat]
Report == [id : Nat, fp : Fingerprint, at : Nat, era : Nat,
           since : Nat, count : Nat]

ASSUME NoneIsNoReport == None \notin Report

TypeOK ==
    /\ clock \in Nat
    /\ QueryMap(queries)
    /\ pending \in [Thread -> Report \cup {None}]
    /\ log \subseteq Execution
    /\ era \in Nat
    /\ refused \subseteq Nat \X Fingerprint
    /\ emitted \subseteq Report

Init ==
    /\ clock = 0
    /\ queries = NoQueries
    /\ pending = [t \in Thread |-> None]
    /\ log = {}
    /\ era = 0
    /\ refused = {}
    /\ emitted = {}

Tick ==
    /\ clock < MaxTime
    /\ clock' = clock + 1
    /\ UNCHANGED <<queries, pending, log, era, refused, emitted>>

ThisExecution(f) == [id |-> Cardinality(log), fp |-> f, at |-> clock, era |-> era]

\* A new fingerprint arrives while the map is full of live ones.
TrackDropped(t, f) ==
    /\ pending[t] = None
    /\ Dropped(queries, f, clock)
    /\ queries' = QueriesAfter(queries, f, clock)
    /\ refused' = refused \cup {<<era, f>>}
    /\ UNCHANGED <<clock, pending, log, era, emitted>>

\* The execution is counted and nothing is to be reported.
TrackQuietly(t, f) ==
    /\ pending[t] = None
    /\ Cardinality(log) < MaxTracks
    /\ ~Dropped(queries, f, clock)
    /\ ~Reports(queries, f, clock)
    /\ queries' = QueriesAfter(queries, f, clock)
    /\ log' = log \cup {ThisExecution(f)}
    /\ UNCHANGED <<clock, pending, era, refused, emitted>>

\* The execution is counted and reaches the threshold: the record is marked
\* and its count copied under the mutex, the reporter is called later.
TrackAndReport(t, f) ==
    /\ pending[t] = None
    /\ Cardinality(log) < MaxTracks
    /\ Reports(queries, f, clock)
    /\ queries' = QueriesAfter(queries, f, clock)
    /\ log' = log \cup {ThisExecution(f)}
    /\ pending' = [pending EXCEPT ![t] =
                     [id |-> Cardinality(log), fp |-> f, at |-> clock, era |-> era,
                      since |-> queries[f].firstSeen,
                      count |-> queries[f].count + 1]]
    /\ UNCHANGED <<clock, era, refused, emitted>>

BugDelivered(t) ==
    IF pending[t].fp \in DOMAIN queries
    THEN [pending[t] EXCEPT !.count = queries[pending[t].fp].count]
    ELSE pending[t]

\* The count in the message is the copy made under the mutex.
Delivered(t) == pending[t]

\* qt.reporter(...), the mutex released.
Emit(t) ==
    /\ pending[t] # None
    /\ emitted' = emitted \cup {Delivered(t)}
    /\ pending' = [pending EXCEPT ![t] = None]
    /\ UNCHANGED <<clock, queries, log, era, refused>>

\* Reset, called by a goroutine at a request boundary.
Reset(t) ==
    /\ pending[t] = None
    /\ era < MaxResets
    /\ queries' = NoQueries
    /\ era' = era + 1
    /\ UNCHANGED <<clock, pending, log, refused, emitted>>

Track(t, f) == TrackDropped(t, f) \/ TrackQuietly(t, f) \/ TrackAndReport(t, f)

\* The clock has reached its bound and every report was delivered.
Done ==
    /\ clock = MaxTime
    /\ \A t \in Thread : pending[t] = None
    /\ UNCHANGED vars

Next ==
    \/ Tick
    \/ \E t \in Thread :
         \/ \E f \in Fingerprint : Track(t, f)
         \/ Emit(t)
         \/ Reset(t)
    \/ Done

Spec == Init /\ [][Next]_vars
-----------------------------------------------------------------------------
\* The threshold the detector acts on: the first execution of a window is
\* never reported, whatever the threshold.
Effective == IF Threshold > 2 THEN Threshold ELSE 2

\* Reports decided so far, delivered or not.
Decided == emitted \cup ({pending[t] : t \in Thread} \ {None})

\* The executions of f that belong to the window its record is counting.
Epoch(f) ==
    {e \in log : e.fp = f /\ e.era = era /\ e.at >= queries[f].firstSeen}

\* The map never holds more than maxKeys fingerprints (n_plus_one.go: "a new
\* key past the cap is dropped rather than grown without bound").
Bounded == Size(queries) <= MaxKeys

\* A record's count is exactly the number of executions since its first one,
\* through evictions, refusals, expired windows and Resets.
CountExact ==
    \A f \in DOMAIN queries : queries[f].count = Cardinality(Epoch(f))

\* A report is never a false alarm: the executions it counts happened, in one
\* era and within one window of one another, and there are as many of them as
\* it says, at least Threshold and at least two, even when the record was
\* evicted, restarted or Reset before the reporter was called.
Witnesses(r) ==
    {e \in log : /\ e.fp = r.fp
                 /\ e.era = r.era
                 /\ e.at \in r.since .. r.at
                 /\ e.id <= r.id}

NoFalseAlarm ==
    \A r \in Decided :
        /\ r.at - r.since <= Window
        /\ Cardinality(Witnesses(r)) = r.count
        /\ r.count >= Threshold
        /\ r.count >= 2

\* A pattern is reported once per window: two reports of it in one era count
\* from first executions more than a window apart.
OneReportPerWindow ==
    \A r, s \in Decided :
        r.fp = s.fp /\ r.era = s.era /\ r.id < s.id
          => s.since - r.since > Window

\* What makes the above inductive.  Executions are numbered in the order they
\* were counted, and none lies in the future.
LogInv ==
    /\ IsFiniteSet(log)
    /\ \A e \in log : e.id < Cardinality(log) /\ e.at <= clock /\ e.era <= era

\* The executions of this era that a record does not count are over: they ran
\* before it started, or before now if there is no record.
CoverInv ==
    \A e \in log :
        e.era = era =>
            IF e.fp \in DOMAIN queries
            THEN e.at - queries[e.fp].firstSeen <= Window
            ELSE e.at < clock

\* A record that was not reported is still below the threshold.
BelowInv ==
    \A f \in DOMAIN queries :
        /\ queries[f].firstSeen <= clock
        /\ ~queries[f].reported => queries[f].count < Effective

\* A report of this era belongs to the record its fingerprint has now, which
\* is marked, or to a window that is over.
DecidedInv ==
    \A r \in Decided :
        /\ r.id < Cardinality(log)
        /\ r.era <= era
        /\ r.era = era =>
             IF r.fp \in DOMAIN queries
             THEN \/ queries[r.fp].reported /\ queries[r.fp].firstSeen = r.since
                  \/ queries[r.fp].firstSeen - r.since > Window
             ELSE clock - r.since > Window

\* The inductive invariant: the bound, the counters against the executions
\* that really happened, and the reports against both (n_plus_one.go).
IInv ==
    /\ TypeOK
    /\ IsFiniteSet(DOMAIN queries)
    /\ Bounded
    /\ LogInv
    /\ CoverInv
    /\ BelowInv
    /\ DecidedInv
    /\ CountExact
    /\ NoFalseAlarm
    /\ OneReportPerWindow

\* A record whose window is running keeps its start and its count; only Reset
\* takes it away (n_plus_one.go: "in-flight N+1 detection is never lost").
InFlightStep ==
    \A f \in DOMAIN queries :
        ~Expired(queries[f], clock) /\ era' = era
          => /\ f \in DOMAIN queries'
             /\ queries'[f].firstSeen = queries[f].firstSeen
             /\ queries'[f].count >= queries[f].count

InFlightKept == [][InFlightStep]_vars

\* The executions of f in the current era that fall in the window from start.
Burst(f, start) ==
    {e \in log : /\ e.fp = f
                 /\ e.era = era
                 /\ e.at \in start .. start + Window}

ReportedNear(f, start) ==
    \E r \in Decided :
        r.fp = f /\ r.era = era /\ r.at \in start - Window .. start + Window

\* What the tumbling window does guarantee.  A window-long burst meets at most
\* two of the tracker's windows, and if it meets two, the first of them began
\* with an execution before the burst; so 2 * Effective - 2 executions in a
\* burst always lead to a report, unless the fingerprint was refused.
BurstDetected ==
    \A f \in Fingerprint, start \in 0 .. MaxTime :
        /\ <<era, f>> \notin refused
        /\ Cardinality(Burst(f, start)) >= 2 * Effective - 2
        => ReportedNear(f, start)
=============================================================================
