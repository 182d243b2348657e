------------------------------ MODULE N1Records ------------------------------
(***************************************************************************)
(* The records behind the N+1 detector of middleware/n_plus_one.go: per    *)
(* query fingerprint, how often it ran since it was first seen and whether *)
(* that was reported.  The operators are what one trackFingerprint does    *)
(* between taking the mutex and releasing it.                              *)
(***************************************************************************)
EXTENDS Integers, GoMap

CONSTANTS
    Fingerprint,  \* normalized queries
    Threshold,    \* qt.threshold
    Window,       \* qt.window, in clock ticks
    MaxKeys       \* qt.maxKeys

ASSUME N1RecordsAssumption ==
    /\ Threshold \in Int
    /\ Window \in Nat
    /\ MaxKeys \in Nat \ {0}

QueryRecord == [count : Nat \ {0}, firstSeen : Nat, reported : BOOLEAN]

QueryMap(q) ==
    /\ DOMAIN q \subseteq Fingerprint
    /\ q \in [DOMAIN q -> QueryRecord]

\* NewQueryTracker, and what Reset puts back.
NoQueries == EmptyMap

Expired(rec, now) == now - rec.firstSeen > Window

EvictExpired(q, now) ==
    Restrict(q, {f \in DOMAIN q : ~Expired(q[f], now)})

BugMakeRoomByClearing(q, now) == IF Size(q) >= MaxKeys THEN NoQueries ELSE q

\* Expired records are evicted only once the map is at its capacity.
MakeRoom(q, now) == IF Size(q) >= MaxKeys THEN EvictExpired(q, now) ELSE q

BugDroppedNever(q, f, now) == FALSE

\* A new fingerprint past the cap is not tracked.
Dropped(q, f, now) ==
    /\ f \notin DOMAIN MakeRoom(q, now)
    /\ Size(MakeRoom(q, now)) >= MaxKeys

BugStartsEpochOnce(q, f, now) == f \notin DOMAIN MakeRoom(q, now)

\* This execution is the first of a new window for f: f was not tracked, or
\* its window is over.
StartsEpoch(q, f, now) ==
    f \in DOMAIN MakeRoom(q, now) => Expired(MakeRoom(q, now)[f], now)

FirstRecord(now) == [count |-> 1, firstSeen |-> now, reported |-> FALSE]

BugShouldReportAgain(rec) == rec.count + 1 >= Threshold
BugShouldReportBeyond(rec) == rec.count + 1 > Threshold + 1 /\ ~rec.reported

\* The execution counted on top of rec is the one to report.
ShouldReport(rec) == rec.count + 1 >= Threshold /\ ~rec.reported

Counted(rec) ==
    [rec EXCEPT !.count = @ + 1,
                !.reported = rec.reported \/ ShouldReport(rec)]

\* trackFingerprint(f) at time now: whether it reports ...
Reports(q, f, now) ==
    /\ ~Dropped(q, f, now)
    /\ ~StartsEpoch(q, f, now)
    /\ ShouldReport(MakeRoom(q, now)[f])

\* ... and the map it leaves behind.
QueriesAfter(q, f, now) ==
    LET room == MakeRoom(q, now)
    IN  IF Dropped(q, f, now) THEN room
        ELSE Put(room, f, IF StartsEpoch(q, f, now)
                          THEN FirstRecord(now) ELSE Counted(room[f]))
=============================================================================
