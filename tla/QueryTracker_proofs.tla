------------------------- MODULE QueryTracker_proofs -------------------------
(***************************************************************************)
(* What the N+1 detector guarantees for every threshold, window, capacity, *)
(* number of goroutines and set of fingerprints: its counters are exact,   *)
(* its reports are true and come once per window, its memory is bounded.   *)
(***************************************************************************)
EXTENDS QueryTracker, FiniteSetTheorems, TLAPS

-----------------------------------------------------------------------------
(* One call of trackFingerprint.                                           *)

\* Making room only removes records, and only expired ones (n_plus_one.go:
\* evictExpired).
LEMMA MakeRoomKeepsLive ==
    ASSUME NEW q, QueryMap(q), NEW n \in Nat
    PROVE  /\ QueryMap(MakeRoom(q, n))
           /\ DOMAIN MakeRoom(q, n) \subseteq DOMAIN q
           /\ \A g \in DOMAIN MakeRoom(q, n) : MakeRoom(q, n)[g] = q[g]
           /\ \A g \in DOMAIN q \ DOMAIN MakeRoom(q, n) : Expired(q[g], n)
  <1>1. CASE Size(q) >= MaxKeys
    BY <1>1 DEF MakeRoom, EvictExpired, Restrict, QueryMap
  <1>2. CASE ~(Size(q) >= MaxKeys)
    BY <1>2 DEF MakeRoom, QueryMap
  <1>3. QED
    BY <1>1, <1>2

\* What a call does to the map: every surviving record of another fingerprint
\* is untouched, a lost one is expired, and the record of the call's own is a
\* first record or the old one counted up.
LEMMA QueriesAfterRecords ==
    ASSUME NEW q, QueryMap(q), NEW f \in Fingerprint, NEW n \in Nat
    PROVE  /\ QueryMap(QueriesAfter(q, f, n))
           /\ \A g \in DOMAIN q \ DOMAIN QueriesAfter(q, f, n) : Expired(q[g], n)
           /\ \A g \in DOMAIN QueriesAfter(q, f, n) :
                g # f => g \in DOMAIN q /\ QueriesAfter(q, f, n)[g] = q[g]
           /\ Dropped(q, f, n) => f \notin DOMAIN QueriesAfter(q, f, n)
           /\ ~Dropped(q, f, n) => f \in DOMAIN QueriesAfter(q, f, n)
           /\ ~Dropped(q, f, n) /\ StartsEpoch(q, f, n) =>
                /\ QueriesAfter(q, f, n)[f] = FirstRecord(n)
                /\ f \in DOMAIN q => Expired(q[f], n)
           /\ ~Dropped(q, f, n) /\ ~StartsEpoch(q, f, n) =>
                /\ f \in DOMAIN q
                /\ ~Expired(q[f], n)
                /\ QueriesAfter(q, f, n)[f] = Counted(q[f])
                /\ Reports(q, f, n) <=> ShouldReport(q[f])
  <1> DEFINE room == MakeRoom(q, n)
             rec == IF StartsEpoch(q, f, n) THEN FirstRecord(n) ELSE Counted(room[f])
  <1>1. CASE Dropped(q, f, n)
    <2>1. QueriesAfter(q, f, n) = room
      BY <1>1 DEF QueriesAfter
    <2>2. QED
      BY <1>1, <2>1, MakeRoomKeepsLive DEF Dropped
  <1>2. CASE ~Dropped(q, f, n)
    <2>1. QueriesAfter(q, f, n) = Put(room, f, rec)
      BY <1>2 DEF QueriesAfter
    <2> DEFINE after == Put(room, f, rec)
    <2>2. /\ DOMAIN after = DOMAIN room \cup {f}
          /\ after[f] = rec
          /\ \A g \in DOMAIN room : g # f => after[g] = room[g]
          /\ after \in [DOMAIN room \cup {f} -> {room[g] : g \in DOMAIN room} \cup {rec}]
      BY DEF Put
    <2>3. ~StartsEpoch(q, f, n) => f \in DOMAIN room /\ ~Expired(room[f], n)
      BY DEF StartsEpoch
    <2>4. rec \in QueryRecord
      <3>1. CASE StartsEpoch(q, f, n)
        BY <3>1 DEF FirstRecord, QueryRecord
      <3>2. CASE ~StartsEpoch(q, f, n)
        <4>1. room[f] \in QueryRecord
          BY <2>3, <3>2, MakeRoomKeepsLive DEF QueryMap
        <4>2. Counted(room[f]) \in QueryRecord
          <5> DEFINE c == room[f].count + 1
                     m == room[f].reported \/ ShouldReport(room[f])
          <5>1. c \in Nat \ {0}
            BY <4>1 DEF QueryRecord
          <5>2. m \in BOOLEAN
            OBVIOUS
          <5>3. Counted(room[f]) = [room[f] EXCEPT !.count = c, !.reported = m]
            BY DEF Counted
          <5> HIDE DEF c, m
          <5>4. QED
            BY <4>1, <5>1, <5>2, <5>3 DEF QueryRecord
        <4>3. QED
          BY <3>2, <4>2
      <3>3. QED
        BY <3>1, <3>2
    <2>5. QueryMap(after)
      <3>1. \A g \in DOMAIN after : after[g] \in QueryRecord
        BY <2>2, <2>4, MakeRoomKeepsLive DEF QueryMap
      <3>2. DOMAIN after \subseteq Fingerprint
        BY <2>2, MakeRoomKeepsLive DEF QueryMap
      <3>3. QED
        BY <2>2, <3>1, <3>2 DEF QueryMap
    <2>6. \A g \in DOMAIN q \ DOMAIN after : Expired(q[g], n)
      BY <2>2, MakeRoomKeepsLive
    <2>7. \A g \in DOMAIN after : g # f => g \in DOMAIN q /\ after[g] = q[g]
      BY <2>2, MakeRoomKeepsLive
    <2>8. StartsEpoch(q, f, n) => (f \in DOMAIN q => Expired(q[f], n))
      BY MakeRoomKeepsLive DEF StartsEpoch
    <2>9. ~StartsEpoch(q, f, n) =>
            /\ f \in DOMAIN q
            /\ room[f] = q[f]
            /\ Reports(q, f, n) <=> ShouldReport(q[f])
      BY <1>2, <2>3, MakeRoomKeepsLive DEF Reports
    <2>10. QED
      BY <1>2, <2>1, <2>2, <2>3, <2>5, <2>6, <2>7, <2>8, <2>9
  <1>3. QED
    BY <1>1, <1>2

\* A finite map within the capacity stays so.
LEMMA QueriesAfterBounded ==
    ASSUME NEW q, QueryMap(q), NEW f \in Fingerprint, NEW n \in Nat,
           IsFiniteSet(DOMAIN q), Size(q) <= MaxKeys
    PROVE  /\ IsFiniteSet(DOMAIN QueriesAfter(q, f, n))
           /\ Size(QueriesAfter(q, f, n)) <= MaxKeys
  <1> DEFINE room == MakeRoom(q, n)
  <1>1. IsFiniteSet(DOMAIN room) /\ Size(room) <= Size(q)
    <2>1. DOMAIN room \in SUBSET DOMAIN q
      BY MakeRoomKeepsLive
    <2>2. QED
      BY <2>1, FS_Subset DEF Size
  <1>2. Size(room) \in Nat /\ Size(q) \in Nat
    BY <1>1, FS_CardinalityType DEF Size
  <1>3. CASE Dropped(q, f, n)
    BY <1>1, <1>2, <1>3, N1RecordsAssumption DEF QueriesAfter
  <1>4. CASE ~Dropped(q, f, n)
    <2>1. DOMAIN QueriesAfter(q, f, n) = DOMAIN room \cup {f}
      BY <1>4 DEF QueriesAfter, Put
    <2>2. f \in DOMAIN room \/ Size(room) < MaxKeys
      BY <1>2, <1>4, N1RecordsAssumption DEF Dropped
    <2>3. /\ IsFiniteSet(DOMAIN room \cup {f})
          /\ Cardinality(DOMAIN room \cup {f}) =
               IF f \in DOMAIN room THEN Size(room) ELSE Size(room) + 1
      BY <1>1, FS_AddElement DEF Size
    <2>4. QED
      BY <1>1, <1>2, <2>1, <2>2, <2>3, N1RecordsAssumption DEF Size
  <1>5. QED
    BY <1>3, <1>4

-----------------------------------------------------------------------------
(* Steps.                                                                  *)

\* A step that counts an execution of f, reporting it or not.
Counts(t, f) == TrackQuietly(t, f) \/ TrackAndReport(t, f)

\* A counted execution gets a number of its own.
LEMMA ExecutionIsNew ==
    ASSUME TypeOK, LogInv, NEW f \in Fingerprint
    PROVE  /\ ThisExecution(f) \in Execution
           /\ ThisExecution(f) \notin log
           /\ IsFiniteSet(log \cup {ThisExecution(f)})
           /\ Cardinality(log) \in Nat
           /\ Cardinality(log \cup {ThisExecution(f)}) = Cardinality(log) + 1
  <1>1. Cardinality(log) \in Nat
    BY FS_CardinalityType DEF LogInv
  <1>2. ThisExecution(f) \in Execution /\ ThisExecution(f).id = Cardinality(log)
    BY <1>1 DEF ThisExecution, Execution, TypeOK
  <1>3. ThisExecution(f) \notin log
    BY <1>1, <1>2 DEF LogInv
  <1>4. QED
    BY <1>1, <1>2, <1>3, FS_AddElement DEF LogInv

\* What a counting step does, in terms of the record it finds.
LEMMA CountsFacts ==
    ASSUME TypeOK, NEW t \in Thread, NEW f \in Fingerprint, Counts(t, f)
    PROVE  /\ ~Dropped(queries, f, clock)
           /\ queries' = QueriesAfter(queries, f, clock)
           /\ log' = log \cup {ThisExecution(f)}
           /\ UNCHANGED <<clock, era, emitted>>
  BY DEF Counts, TrackQuietly, TrackAndReport, Reports

\* The clock, the records, the pending reports and the histories keep their
\* types.
THEOREM TypeCorrect == Spec => [](TypeOK /\ LogInv)
  <1>1. Init => TypeOK /\ LogInv
    <2> SUFFICES ASSUME Init PROVE TypeOK /\ LogInv
      OBVIOUS
    <2>1. TypeOK
      BY DEF Init, TypeOK, NoQueries, EmptyMap, QueryMap
    <2>2. LogInv
      BY FS_EmptySet DEF Init, LogInv
    <2>3. QED
      BY <2>1, <2>2
  <1>2. TypeOK /\ LogInv /\ [Next]_vars => (TypeOK /\ LogInv)'
    <2> SUFFICES ASSUME TypeOK, LogInv, [Next]_vars PROVE TypeOK' /\ LogInv'
      OBVIOUS
    <2>1. CASE Tick
      BY <2>1 DEF Tick, TypeOK, LogInv, Execution, QueryMap
    <2>2. ASSUME NEW t \in Thread, NEW f \in Fingerprint, TrackDropped(t, f)
          PROVE  TypeOK' /\ LogInv'
      <3>1. QueryMap(queries')
        BY <2>2, QueriesAfterRecords DEF TrackDropped, TypeOK
      <3>2. refused' \subseteq Nat \X Fingerprint
        BY <2>2 DEF TrackDropped, TypeOK
      <3>3. QED
        BY <2>2, <3>1, <3>2 DEF TrackDropped, TypeOK, LogInv
    <2>3. ASSUME NEW t \in Thread, NEW f \in Fingerprint, Counts(t, f)
          PROVE  TypeOK' /\ LogInv'
      <3>1. QueryMap(queries') /\ UNCHANGED <<clock, era, emitted, refused>>
        BY <2>3, CountsFacts, QueriesAfterRecords
        DEF TypeOK, Counts, TrackQuietly, TrackAndReport
      <3>2. /\ log' = log \cup {ThisExecution(f)}
            /\ ThisExecution(f) \in Execution
            /\ IsFiniteSet(log')
            /\ Cardinality(log) \in Nat
            /\ Cardinality(log') = Cardinality(log) + 1
        BY <2>3, CountsFacts, ExecutionIsNew
      <3>3. LogInv'
        <4> SUFFICES ASSUME NEW e \in log'
                     PROVE  e.id < Cardinality(log') /\ e.at <= clock /\ e.era <= era
          BY <3>1, <3>2 DEF LogInv
        <4>1. CASE e \in log
          BY <3>2, <4>1 DEF LogInv, TypeOK, Execution
        <4>2. CASE e = ThisExecution(f)
          BY <3>2, <4>2 DEF ThisExecution, TypeOK
        <4>3. QED
          BY <3>2, <4>1, <4>2
      <3>4. pending' \in [Thread -> Report \cup {None}]
        <4>1. CASE TrackQuietly(t, f)
          BY <4>1 DEF TrackQuietly, TypeOK
        <4>2. CASE TrackAndReport(t, f)
          <5>1. f \in DOMAIN queries /\ queries[f] \in QueryRecord
            BY <4>2, QueriesAfterRecords
            DEF TrackAndReport, Reports, TypeOK, QueryMap
          <5>2. [id |-> Cardinality(log), fp |-> f, at |-> clock, era |-> era,
                 since |-> queries[f].firstSeen,
                 count |-> queries[f].count + 1] \in Report
            BY <3>2, <5>1 DEF Report, QueryRecord, TypeOK
          <5>3. QED
            BY <4>2, <5>2 DEF TrackAndReport, TypeOK
        <4>3. QED
          BY <2>3, <4>1, <4>2 DEF Counts
      <3>5. log' \subseteq Execution
        BY <3>2 DEF TypeOK
      <3>6. QED
        BY <3>1, <3>3, <3>4, <3>5 DEF TypeOK
    <2>4. ASSUME NEW t \in Thread, Emit(t) PROVE TypeOK' /\ LogInv'
      BY <2>4 DEF Emit, Delivered, TypeOK, LogInv, QueryMap
    <2>5. ASSUME NEW t \in Thread, Reset(t) PROVE TypeOK' /\ LogInv'
      BY <2>5 DEF Reset, NoQueries, EmptyMap, TypeOK, LogInv, Execution, QueryMap
    <2>6. CASE UNCHANGED vars
      BY <2>6 DEF vars, TypeOK, LogInv, QueryMap
    <2>7. QED
      BY <2>1, <2>2, <2>3, <2>4, <2>5, <2>6 DEF Next, Track, Counts, Done
  <1>3. QED
    BY <1>1, <1>2, PTL DEF Spec

-----------------------------------------------------------------------------
(* The inductive invariant, step by step.                                  *)

\* Counting an execution keeps every counter exact: the new execution joins
\* the window its record counts, or is the whole of the one it starts.
LEMMA CountsKeepsCounters ==
    ASSUME IInv, NEW t \in Thread, NEW f \in Fingerprint, Counts(t, f)
    PROVE  CountExact' /\ CoverInv' /\ BelowInv'
  <1> DEFINE e == ThisExecution(f)
  <1>1. /\ ~Dropped(queries, f, clock)
        /\ queries' = QueriesAfter(queries, f, clock)
        /\ log' = log \cup {e}
        /\ UNCHANGED <<clock, era>>
    BY CountsFacts DEF IInv
  <1>2. /\ e.fp = f /\ e.at = clock /\ e.era = era
        /\ e \notin log
    BY ExecutionIsNew DEF ThisExecution, IInv
  <1>3. /\ QueryMap(queries) /\ QueryMap(queries')
        /\ clock \in Nat /\ era \in Nat /\ Window \in Nat
        /\ \A x \in log : x \in Execution
    BY <1>1, QueriesAfterRecords, N1RecordsAssumption DEF IInv, TypeOK
  <1>4. f \in DOMAIN queries'
    BY <1>1, <1>3, QueriesAfterRecords
  <1>5. \A g \in DOMAIN queries' : g # f => g \in DOMAIN queries /\ queries'[g] = queries[g]
    BY <1>1, <1>3, QueriesAfterRecords
  <1>6. \A g \in DOMAIN queries \ DOMAIN queries' : clock - queries[g].firstSeen > Window
    BY <1>1, <1>3, QueriesAfterRecords DEF Expired
  <1>7. CASE StartsEpoch(queries, f, clock)
    <2>1. queries'[f] = FirstRecord(clock)
      BY <1>1, <1>3, <1>7, QueriesAfterRecords
    <2>2. f \in DOMAIN queries => clock - queries[f].firstSeen > Window
      BY <1>1, <1>3, <1>7, QueriesAfterRecords DEF Expired
    <2>3. \A x \in log : x.fp = f /\ x.era = era => x.at < clock
      <3> SUFFICES ASSUME NEW x \in log, x.fp = f, x.era = era PROVE x.at < clock
        OBVIOUS
      <3>1. x.at \in Nat
        BY <1>3 DEF Execution
      <3>2. CASE f \in DOMAIN queries
        <4>1. x.at - queries[f].firstSeen <= Window
          BY <3>2 DEF IInv, CoverInv
        <4>2. queries[f].firstSeen \in Nat
          BY <1>3, <3>2 DEF QueryMap, QueryRecord
        <4>3. QED
          BY <1>3, <2>2, <3>1, <3>2, <4>1, <4>2
      <3>3. CASE f \notin DOMAIN queries
        BY <3>3 DEF IInv, CoverInv
      <3>4. QED
        BY <3>2, <3>3
    <2>4. CountExact'
      <3> SUFFICES ASSUME NEW g \in DOMAIN queries'
                   PROVE  queries'[g].count = Cardinality(Epoch(g)')
        BY DEF CountExact
      <3>1. CASE g = f
        <4>1. Epoch(g)' = {e}
          BY <1>1, <1>2, <1>3, <2>1, <2>3, <3>1 DEF Epoch, FirstRecord, Execution
        <4>2. QED
          <5>1. Cardinality({e}) = 1
            BY FS_Singleton
          <5>2. queries'[g].count = 1
            BY <2>1, <3>1 DEF FirstRecord
          <5>3. QED
            BY <4>1, <5>1, <5>2
      <3>2. CASE g # f
        <4>1. Epoch(g)' = Epoch(g)
          BY <1>1, <1>2, <1>5, <3>2 DEF Epoch
        <4>2. QED
          BY <1>5, <3>2, <4>1 DEF IInv, CountExact
      <3>3. QED
        BY <3>1, <3>2
    <2>5. CoverInv'
      <3> SUFFICES ASSUME NEW x \in log', x.era = era
                   PROVE  IF x.fp \in DOMAIN queries'
                          THEN x.at - queries'[x.fp].firstSeen <= Window
                          ELSE x.at < clock
        BY <1>1 DEF CoverInv
      <3>1. CASE x.fp = f
        <4>1. x.at <= clock /\ x.at \in Nat
          BY <1>1, <1>2, <1>3 DEF IInv, LogInv, Execution
        <4>2. QED
          BY <1>3, <1>4, <2>1, <3>1, <4>1 DEF FirstRecord
      <3>2. CASE x.fp # f
        <4>1. x \in log /\ x.at \in Nat
          BY <1>1, <1>2, <1>3, <3>2 DEF Execution
        <4>2. CASE x.fp \in DOMAIN queries'
          BY <1>5, <3>2, <4>1, <4>2 DEF IInv, CoverInv
        <4>3. CASE x.fp \in DOMAIN queries \ DOMAIN queries'
          <5>1. x.at - queries[x.fp].firstSeen <= Window
            BY <4>1, <4>3 DEF IInv, CoverInv
          <5>2. queries[x.fp].firstSeen \in Nat
            BY <1>3, <4>3 DEF QueryMap, QueryRecord
          <5>3. QED
            BY <1>3, <1>6, <4>1, <4>3, <5>1, <5>2
        <4>4. CASE x.fp \notin DOMAIN queries /\ x.fp \notin DOMAIN queries'
          BY <4>1, <4>4 DEF IInv, CoverInv
        <4>5. QED
          BY <4>2, <4>3, <4>4
      <3>3. QED
        BY <3>1, <3>2
    <2>6. BelowInv'
      <3> SUFFICES ASSUME NEW g \in DOMAIN queries'
                   PROVE  /\ queries'[g].firstSeen <= clock
                          /\ ~queries'[g].reported => queries'[g].count < Effective
        BY <1>1 DEF BelowInv, Effective
      <3>1. CASE g = f
        <4>1. queries'[g].firstSeen = clock /\ queries'[g].count = 1
          BY <2>1, <3>1 DEF FirstRecord
        <4>2. 1 < Effective
          BY N1RecordsAssumption DEF Effective
        <4>3. QED
          BY <1>3, <4>1, <4>2
      <3>2. CASE g # f
        BY <1>5, <3>2 DEF IInv, BelowInv
      <3>3. QED
        BY <3>1, <3>2
    <2>7. QED
      BY <2>4, <2>5, <2>6
  <1>8. CASE ~StartsEpoch(queries, f, clock)
    <2>1. /\ f \in DOMAIN queries
          /\ queries'[f] = Counted(queries[f])
          /\ ~(clock - queries[f].firstSeen > Window)
      BY <1>1, <1>3, <1>8, QueriesAfterRecords DEF Expired
    <2>2. /\ queries[f].count \in Nat /\ queries[f].firstSeen \in Nat
          /\ queries[f].firstSeen <= clock
      BY <1>3, <2>1 DEF QueryMap, QueryRecord, IInv, BelowInv
    <2>3. /\ queries'[f].count = queries[f].count + 1
          /\ queries'[f].firstSeen = queries[f].firstSeen
          /\ queries'[f].reported = (queries[f].reported \/ ShouldReport(queries[f]))
      <3>1. queries[f] \in QueryRecord
        BY <1>3, <2>1 DEF QueryMap
      <3>2. QED
        BY <2>1, <3>1 DEF Counted, QueryRecord
    <2>4. CountExact'
      <3> SUFFICES ASSUME NEW g \in DOMAIN queries'
                   PROVE  queries'[g].count = Cardinality(Epoch(g)')
        BY DEF CountExact
      <3>1. CASE g = f
        <4>1. Epoch(f)' = Epoch(f) \cup {e}
          BY <1>1, <1>2, <1>3, <2>2, <2>3 DEF Epoch
        <4>2. IsFiniteSet(Epoch(f)) /\ e \notin Epoch(f)
          <5>1. Epoch(f) \in SUBSET log
            BY DEF Epoch
          <5>2. QED
            BY <1>2, <5>1, FS_Subset DEF IInv, LogInv
        <4>3. Cardinality(Epoch(f)') = Cardinality(Epoch(f)) + 1
          BY <4>1, <4>2, FS_AddElement
        <4>4. QED
          BY <2>1, <2>3, <3>1, <4>3 DEF IInv, CountExact
      <3>2. CASE g # f
        <4>1. Epoch(g)' = Epoch(g)
          BY <1>1, <1>2, <1>5, <3>2 DEF Epoch
        <4>2. QED
          BY <1>5, <3>2, <4>1 DEF IInv, CountExact
      <3>3. QED
        BY <3>1, <3>2
    <2>5. CoverInv'
      <3> SUFFICES ASSUME NEW x \in log', x.era = era
                   PROVE  IF x.fp \in DOMAIN queries'
                          THEN x.at - queries'[x.fp].firstSeen <= Window
                          ELSE x.at < clock
        BY <1>1 DEF CoverInv
      <3>1. CASE x = e
        BY <1>2, <1>3, <1>4, <2>1, <2>2, <2>3, <3>1
      <3>2. CASE x \in log
        <4>1. x.at \in Nat
          BY <1>3, <3>2 DEF Execution
        <4>2. CASE x.fp \in DOMAIN queries'
          <5>1. x.fp \in DOMAIN queries /\ queries'[x.fp].firstSeen = queries[x.fp].firstSeen
            BY <1>5, <2>1, <2>3, <4>2
          <5>2. QED
            BY <3>2, <4>2, <5>1 DEF IInv, CoverInv
        <4>3. CASE x.fp \in DOMAIN queries \ DOMAIN queries'
          <5>1. x.at - queries[x.fp].firstSeen <= Window
            BY <3>2, <4>3 DEF IInv, CoverInv
          <5>2. queries[x.fp].firstSeen \in Nat
            BY <1>3, <4>3 DEF QueryMap, QueryRecord
          <5>3. QED
            BY <1>3, <1>6, <4>1, <4>3, <5>1, <5>2
        <4>4. CASE x.fp \notin DOMAIN queries /\ x.fp \notin DOMAIN queries'
          BY <3>2, <4>4 DEF IInv, CoverInv
        <4>5. QED
          BY <4>2, <4>3, <4>4
      <3>3. QED
        BY <1>1, <3>1, <3>2
    <2>6. BelowInv'
      <3> SUFFICES ASSUME NEW g \in DOMAIN queries'
                   PROVE  /\ queries'[g].firstSeen <= clock
                          /\ ~queries'[g].reported => queries'[g].count < Effective
        BY <1>1 DEF BelowInv, Effective
      <3>1. CASE g = f
        <4>1. ~queries'[f].reported => ~(queries[f].count + 1 >= Threshold)
          BY <2>3 DEF ShouldReport
        <4>2. QED
          BY <2>2, <2>3, <3>1, <4>1, N1RecordsAssumption DEF Effective
      <3>2. CASE g # f
        BY <1>5, <3>2 DEF IInv, BelowInv
      <3>3. QED
        BY <3>1, <3>2
    <2>7. QED
      BY <2>4, <2>5, <2>6
  <1>9. QED
    BY <1>7, <1>8

\* The report a counting step decides.
NewReport(f) ==
    [id |-> Cardinality(log), fp |-> f, at |-> clock, era |-> era,
     since |-> queries[f].firstSeen, count |-> queries[f].count + 1]

\* Only TrackAndReport decides a report; Emit only moves one along.
LEMMA DecidedSteps ==
    ASSUME TypeOK, LogInv, NEW t \in Thread
    PROVE  /\ \A f \in Fingerprint :
                TrackAndReport(t, f) => Decided' = Decided \cup {NewReport(f)}
           /\ \A f \in Fingerprint : TrackQuietly(t, f) => Decided' = Decided
           /\ \A f \in Fingerprint : TrackDropped(t, f) => Decided' = Decided
           /\ Emit(t) => Decided' = Decided
           /\ Reset(t) => Decided' = Decided
           /\ Decided \subseteq Report
  <1>1. ASSUME NEW f \in Fingerprint, TrackAndReport(t, f)
        PROVE  Decided' = Decided \cup {NewReport(f)}
    <2>1. /\ pending[t] = None
          /\ pending' = [pending EXCEPT ![t] = NewReport(f)]
          /\ emitted' = emitted
      BY <1>1 DEF TrackAndReport, NewReport
    <2>3. pending \in [Thread -> Report \cup {None}]
      BY DEF TypeOK
    <2>4. {pending'[u] : u \in Thread} \cup {None}
            = {pending[u] : u \in Thread} \cup {None, NewReport(f)}
      <3>1. \A u \in Thread : pending'[u] = IF u = t THEN NewReport(f) ELSE pending[u]
        BY <2>1, <2>3
      <3>2. QED
        BY <2>1, <3>1
    <2>5. NewReport(f) # None
      <3>1. f \in DOMAIN queries /\ queries[f] \in QueryRecord
        BY <1>1, QueriesAfterRecords
        DEF TrackAndReport, Reports, TypeOK, QueryMap
      <3>2. Cardinality(log) \in Nat
        BY FS_CardinalityType DEF LogInv
      <3>3. NewReport(f) \in Report
        BY <3>1, <3>2 DEF NewReport, Report, QueryRecord, TypeOK
      <3>4. QED
        BY <3>3, NoneIsNoReport
    <2>6. QED
      BY <2>1, <2>4, <2>5 DEF Decided
  <1>2. ASSUME Emit(t) PROVE Decided' = Decided
    <2>1. /\ emitted' = emitted \cup {pending[t]} /\ pending[t] # None
          /\ \A u \in Thread : pending'[u] = IF u = t THEN None ELSE pending[u]
      BY <1>2 DEF Emit, Delivered, TypeOK
    <2>2. QED
      BY <2>1 DEF Decided
  <1>3. QED
    BY <1>1, <1>2 DEF TrackQuietly, TrackDropped, Reset, Decided, TypeOK

\* Counting an execution keeps the reports true, one per window, and tied to
\* the records.
LEMMA CountsKeepsReports ==
    ASSUME IInv, NEW t \in Thread, NEW f \in Fingerprint, Counts(t, f),
           CountExact'
    PROVE  DecidedInv' /\ NoFalseAlarm' /\ OneReportPerWindow'
  <1> DEFINE e == ThisExecution(f)
             new == NewReport(f)
  <1>1. /\ ~Dropped(queries, f, clock)
        /\ queries' = QueriesAfter(queries, f, clock)
        /\ log' = log \cup {e}
        /\ UNCHANGED <<clock, era>>
    BY CountsFacts DEF IInv
  <1>2. /\ e.fp = f /\ e.at = clock /\ e.era = era /\ e.id = Cardinality(log)
        /\ Cardinality(log) \in Nat
        /\ Cardinality(log') = Cardinality(log) + 1
    BY <1>1, ExecutionIsNew DEF ThisExecution, IInv
  <1>3. /\ QueryMap(queries) /\ QueryMap(queries')
        /\ clock \in Nat /\ era \in Nat /\ Window \in Nat
        /\ \A x \in log : x \in Execution
        /\ Decided \subseteq Report
    BY <1>1, QueriesAfterRecords, DecidedSteps, N1RecordsAssumption DEF IInv, TypeOK
  <1>4. f \in DOMAIN queries'
    BY <1>1, <1>3, QueriesAfterRecords
  <1>5. \A g \in DOMAIN queries' : g # f => g \in DOMAIN queries /\ queries'[g] = queries[g]
    BY <1>1, <1>3, QueriesAfterRecords
  <1>6. \A g \in DOMAIN queries \ DOMAIN queries' : clock - queries[g].firstSeen > Window
    BY <1>1, <1>3, QueriesAfterRecords DEF Expired
  <1>7. \A g \in DOMAIN queries : queries[g].firstSeen \in Nat /\ queries[g].firstSeen <= clock
    BY <1>3 DEF QueryMap, QueryRecord, IInv, BelowInv
  \* What the record of f says after the step about reports decided before it.
  <1>8. ASSUME NEW r \in Decided
        PROVE  /\ r.id < Cardinality(log')
               /\ r.era <= era
               /\ r.era = era =>
                    IF r.fp \in DOMAIN queries'
                    THEN \/ queries'[r.fp].reported /\ queries'[r.fp].firstSeen = r.since
                         \/ queries'[r.fp].firstSeen - r.since > Window
                    ELSE clock - r.since > Window
    <2>1. /\ r.id < Cardinality(log) /\ r.era <= era
          /\ r.id \in Nat /\ r.since \in Nat
      BY <1>3 DEF IInv, DecidedInv, Report
    <2>2. ASSUME r.era = era, r.fp \in DOMAIN queries,
                 clock - queries[r.fp].firstSeen > Window
          PROVE  clock - r.since > Window
      <3>1. \/ queries[r.fp].firstSeen = r.since
            \/ queries[r.fp].firstSeen - r.since > Window
        BY <2>2 DEF IInv, DecidedInv
      <3>2. QED
        BY <1>3, <1>7, <2>1, <2>2, <3>1
    <2>3. ASSUME r.era = era, r.fp # f
          PROVE  IF r.fp \in DOMAIN queries'
                 THEN \/ queries'[r.fp].reported /\ queries'[r.fp].firstSeen = r.since
                      \/ queries'[r.fp].firstSeen - r.since > Window
                 ELSE clock - r.since > Window
      <3>1. CASE r.fp \in DOMAIN queries'
        BY <1>5, <2>3, <3>1 DEF IInv, DecidedInv
      <3>2. CASE r.fp \in DOMAIN queries \ DOMAIN queries'
        BY <1>6, <2>2, <2>3, <3>2
      <3>3. CASE r.fp \notin DOMAIN queries /\ r.fp \notin DOMAIN queries'
        BY <2>3, <3>3 DEF IInv, DecidedInv
      <3>4. QED
        BY <3>1, <3>2, <3>3
    <2>4. ASSUME r.era = era, r.fp = f
          PROVE  \/ queries'[f].reported /\ queries'[f].firstSeen = r.since
                 \/ queries'[f].firstSeen - r.since > Window
      <3>1. CASE StartsEpoch(queries, f, clock)
        <4>1. /\ queries'[f] = FirstRecord(clock)
              /\ f \in DOMAIN queries => Expired(queries[f], clock)
          BY <1>1, <1>3, <3>1, QueriesAfterRecords
        <4>2. f \notin DOMAIN queries => clock - r.since > Window
          BY <2>4 DEF IInv, DecidedInv
        <4>3. QED
          BY <2>2, <2>4, <4>1, <4>2 DEF FirstRecord, Expired
      <3>2. CASE ~StartsEpoch(queries, f, clock)
        <4>1. f \in DOMAIN queries /\ queries'[f] = Counted(queries[f])
          BY <1>1, <1>3, <3>2, QueriesAfterRecords
        <4>2. /\ queries'[f].firstSeen = queries[f].firstSeen
              /\ queries'[f].reported = (queries[f].reported \/ ShouldReport(queries[f]))
          <5>1. queries[f] \in QueryRecord
            BY <1>3, <4>1 DEF QueryMap
          <5>2. QED
            BY <4>1, <5>1 DEF Counted, QueryRecord
        <4>3. \/ queries[f].reported /\ queries[f].firstSeen = r.since
              \/ queries[f].firstSeen - r.since > Window
          BY <2>4, <4>1 DEF IInv, DecidedInv
        <4>4. QED
          BY <4>2, <4>3
      <3>3. QED
        BY <3>1, <3>2
    <2>5. QED
      BY <1>2, <1>4, <2>1, <2>3, <2>4
  \* Earlier reports keep their witnesses.
  <1>9. ASSUME NEW r \in Decided
        PROVE  /\ r.at - r.since <= Window
               /\ Cardinality(Witnesses(r)') = r.count
               /\ r.count >= Threshold
               /\ r.count >= 2
    <2>1. r.id < Cardinality(log) /\ r.id \in Nat
      BY <1>3 DEF IInv, DecidedInv, Report
    <2>2. Witnesses(r)' = Witnesses(r)
      BY <1>1, <1>2, <2>1 DEF Witnesses
    <2>3. QED
      BY <2>2 DEF IInv, NoFalseAlarm
  <1>10. CASE TrackQuietly(t, f)
    <2>1. Decided' = Decided
      BY <1>10, DecidedSteps DEF IInv
    <2>2. DecidedInv'
      BY <1>1, <1>8, <2>1 DEF DecidedInv
    <2>3. NoFalseAlarm'
      BY <1>9, <2>1 DEF NoFalseAlarm
    <2>4. OneReportPerWindow'
      BY <2>1 DEF IInv, OneReportPerWindow
    <2>5. QED
      BY <2>2, <2>3, <2>4
  <1>11. CASE TrackAndReport(t, f)
    <2>1. Decided' = Decided \cup {new}
      BY <1>11, DecidedSteps DEF IInv
    <2>2. /\ f \in DOMAIN queries
          /\ ~(clock - queries[f].firstSeen > Window)
          /\ queries'[f] = Counted(queries[f])
          /\ ShouldReport(queries[f])
      BY <1>1, <1>3, <1>11, QueriesAfterRecords DEF TrackAndReport, Reports, Expired
    <2>3. /\ queries[f].count \in Nat \ {0}
          /\ queries'[f].count = queries[f].count + 1
          /\ queries'[f].firstSeen = queries[f].firstSeen
          /\ queries'[f].reported
      <3>1. queries[f] \in QueryRecord
        BY <1>3, <2>2 DEF QueryMap
      <3>2. QED
        BY <2>2, <3>1 DEF Counted, QueryRecord
    <2>4. /\ new.id = Cardinality(log) /\ new.fp = f /\ new.at = clock /\ new.era = era
          /\ new.since = queries[f].firstSeen /\ new.count = queries'[f].count
      BY <2>3 DEF NewReport
    <2> HIDE DEF new, e
    <2>5. DecidedInv'
      <3> SUFFICES ASSUME NEW r \in Decided'
                   PROVE  /\ r.id < Cardinality(log')
                          /\ r.era <= era
                          /\ r.era = era =>
                              IF r.fp \in DOMAIN queries'
                              THEN \/ queries'[r.fp].reported /\ queries'[r.fp].firstSeen = r.since
                                   \/ queries'[r.fp].firstSeen - r.since > Window
                              ELSE clock - r.since > Window
        BY <1>1 DEF DecidedInv
      <3>1. CASE r \in Decided
        BY <1>8, <3>1
      <3>2. CASE r = new
        BY <1>2, <1>3, <1>4, <2>3, <2>4, <3>2
      <3>3. QED
        BY <2>1, <3>1, <3>2
    <2>6. NoFalseAlarm'
      <3> SUFFICES ASSUME NEW r \in Decided'
                   PROVE  /\ r.at - r.since <= Window
                          /\ Cardinality(Witnesses(r)') = r.count
                          /\ r.count >= Threshold
                          /\ r.count >= 2
        BY DEF NoFalseAlarm
      <3>1. CASE r \in Decided
        BY <1>9, <3>1
      <3>2. CASE r = new
        <4>1. Witnesses(r)' = Epoch(f)'
          <5>1. ASSUME NEW x \in log'
                PROVE  x.id <= Cardinality(log) /\ x.at \in Nat /\ x.at <= clock
            BY <1>1, <1>2, <1>3, <5>1 DEF IInv, LogInv, Execution
          <5>2. \A x \in log' : x.at \in queries[f].firstSeen .. clock
                                 <=> x.at >= queries[f].firstSeen
            BY <1>3, <1>7, <2>2, <5>1
          <5>3. QED
            BY <1>1, <2>3, <2>4, <3>2, <5>1, <5>2 DEF Witnesses, Epoch
        <4>2. Cardinality(Witnesses(r)') = queries'[f].count
          BY <1>4, <4>1 DEF CountExact
        <4>3. r.at - r.since <= Window
          BY <1>3, <1>7, <2>2, <2>4, <3>2
        <4>4. r.count >= Threshold /\ r.count >= 2
          BY <2>2, <2>3, <2>4, <3>2, N1RecordsAssumption DEF ShouldReport
        <4>5. QED
          BY <2>4, <3>2, <4>2, <4>3, <4>4
      <3>3. QED
        BY <2>1, <3>1, <3>2
    <2>7. OneReportPerWindow'
      <3> SUFFICES ASSUME NEW r \in Decided', NEW s \in Decided',
                          r.fp = s.fp, r.era = s.era, r.id < s.id
                   PROVE  s.since - r.since > Window
        BY DEF OneReportPerWindow
      <3>1. CASE r \in Decided /\ s \in Decided
        BY <3>1 DEF IInv, OneReportPerWindow
      <3>2. CASE r \in Decided /\ s = new
        <4>1. ~queries[f].reported
          BY <2>2 DEF ShouldReport
        <4>2. queries[f].firstSeen - r.since > Window
          BY <2>2, <2>4, <3>2, <4>1 DEF IInv, DecidedInv
        <4>3. QED
          BY <2>4, <3>2, <4>2
      <3>3. CASE r = new
        <4>1. s \in Decided => s.id < Cardinality(log) /\ s.id \in Nat
          BY <1>3 DEF IInv, DecidedInv, Report
        <4>2. QED
          BY <1>2, <2>1, <2>4, <3>3, <4>1
      <3>4. QED
        BY <2>1, <3>1, <3>2, <3>3
    <2>8. QED
      BY <2>5, <2>6, <2>7
  <1>12. QED
    BY <1>10, <1>11 DEF Counts

\* A refused fingerprint changes no counter and no report: at most it made
\* the map forget expired records.
LEMMA DroppedKeepsInv ==
    ASSUME IInv, NEW t \in Thread, NEW f \in Fingerprint, TrackDropped(t, f)
    PROVE  CountExact' /\ CoverInv' /\ BelowInv' /\ DecidedInv' /\ NoFalseAlarm'
           /\ OneReportPerWindow'
  <1>1. /\ queries' = QueriesAfter(queries, f, clock)
        /\ Dropped(queries, f, clock)
        /\ UNCHANGED <<clock, era, log>>
        /\ Decided' = Decided
        /\ QueryMap(queries)
        /\ clock \in Nat /\ Window \in Nat
    BY DecidedSteps, N1RecordsAssumption DEF TrackDropped, IInv, TypeOK
  <1>2. \A g \in DOMAIN queries' : g \in DOMAIN queries /\ queries'[g] = queries[g]
    BY <1>1, QueriesAfterRecords
  <1>3. \A g \in DOMAIN queries \ DOMAIN queries' : clock - queries[g].firstSeen > Window
    BY <1>1, QueriesAfterRecords DEF Expired
  <1>4. \A g \in DOMAIN queries : queries[g].firstSeen \in Nat
    BY <1>1 DEF QueryMap, QueryRecord
  <1>5. CountExact'
    BY <1>1, <1>2 DEF IInv, CountExact, Epoch
  <1>6. CoverInv'
    <2> SUFFICES ASSUME NEW x \in log, x.era = era, x.fp \notin DOMAIN queries'
                 PROVE  x.at < clock
      BY <1>1, <1>2 DEF IInv, CoverInv
    <2>1. x.at \in Nat
      BY DEF IInv, TypeOK, Execution
    <2>2. QED
      BY <1>1, <1>3, <1>4, <2>1 DEF IInv, CoverInv
  <1>7. BelowInv'
    BY <1>1, <1>2 DEF IInv, BelowInv, Effective
  <1>8. DecidedInv'
    <2> SUFFICES ASSUME NEW r \in Decided, r.era = era, r.fp \notin DOMAIN queries'
                 PROVE  clock - r.since > Window
      BY <1>1, <1>2 DEF IInv, DecidedInv
    <2>1. r.since \in Nat
      BY DecidedSteps DEF IInv, Report
    <2>2. CASE r.fp \in DOMAIN queries
      <3>1. \/ queries[r.fp].firstSeen = r.since
            \/ queries[r.fp].firstSeen - r.since > Window
        BY <2>2 DEF IInv, DecidedInv
      <3>2. QED
        BY <1>1, <1>3, <1>4, <2>1, <2>2, <3>1
    <2>3. QED
      BY <2>2 DEF IInv, DecidedInv
  <1>9. NoFalseAlarm' /\ OneReportPerWindow'
    BY <1>1 DEF IInv, NoFalseAlarm, OneReportPerWindow, Witnesses
  <1>10. QED
    BY <1>5, <1>6, <1>7, <1>8, <1>9

-----------------------------------------------------------------------------
\* The counters, the reports and the bound, in every reachable state.
THEOREM Invariance == Spec => []IInv
  <1>1. Init => IInv
    <2> SUFFICES ASSUME Init PROVE IInv
      OBVIOUS
    <2>1. TypeOK
      BY DEF Init, TypeOK, NoQueries, EmptyMap, QueryMap
    <2>2. IsFiniteSet(DOMAIN queries) /\ Bounded /\ LogInv
      BY FS_EmptySet, N1RecordsAssumption
      DEF Init, NoQueries, EmptyMap, Bounded, Size, LogInv
    <2>3. Decided = {}
      BY DEF Init, Decided
    <2>4. /\ CoverInv /\ BelowInv /\ DecidedInv /\ CountExact
          /\ NoFalseAlarm /\ OneReportPerWindow
      BY <2>3 DEF Init, NoQueries, EmptyMap, CoverInv, BelowInv, DecidedInv,
                 CountExact, NoFalseAlarm, OneReportPerWindow
    <2>5. QED
      BY <2>1, <2>2, <2>4 DEF IInv
  <1>2. (TypeOK /\ LogInv)' /\ IInv /\ [Next]_vars => IInv'
    <2> SUFFICES ASSUME TypeOK', LogInv', IInv, [Next]_vars PROVE IInv'
      OBVIOUS
    <2>1. CASE Tick
      <3>1. /\ UNCHANGED <<queries, pending, log, era, emitted>>
            /\ clock' = clock + 1
        BY <2>1 DEF Tick
      <3>2. Decided' = Decided /\ Decided \subseteq Report
        BY <3>1 DEF Decided, IInv, TypeOK
      <3>3. CoverInv'
        BY <3>1 DEF IInv, CoverInv, TypeOK, Execution
      <3>4. BelowInv'
        BY <3>1 DEF IInv, BelowInv, Effective, TypeOK, QueryMap, QueryRecord
      <3>5. DecidedInv'
        <4> SUFFICES ASSUME NEW r \in Decided, r.era = era, r.fp \notin DOMAIN queries
                     PROVE  clock' - r.since > Window
          BY <3>1, <3>2 DEF IInv, DecidedInv
        <4>1. r.since \in Nat /\ clock \in Nat /\ Window \in Nat
          BY <3>2, N1RecordsAssumption DEF IInv, TypeOK, Report
        <4>2. QED
          BY <3>1, <4>1 DEF IInv, DecidedInv
      <3>6. CountExact' /\ NoFalseAlarm' /\ OneReportPerWindow' /\ Bounded'
        <4>1. Bounded' /\ CountExact'
          BY <3>1 DEF IInv, Bounded, CountExact, Epoch
        <4>2. NoFalseAlarm' /\ OneReportPerWindow'
          BY <3>1, <3>2 DEF IInv, NoFalseAlarm, Witnesses, OneReportPerWindow
        <4>3. QED
          BY <4>1, <4>2
      <3>7. QED
        BY <3>1, <3>3, <3>4, <3>5, <3>6 DEF IInv
    <2>2. ASSUME NEW t \in Thread, NEW f \in Fingerprint, TrackDropped(t, f)
          PROVE  IInv'
      <3>1. IsFiniteSet(DOMAIN queries') /\ Bounded'
        BY <2>2, QueriesAfterBounded DEF TrackDropped, IInv, Bounded, TypeOK
      <3>2. QED
        BY <2>2, <3>1, DroppedKeepsInv DEF IInv
    <2>3. ASSUME NEW t \in Thread, NEW f \in Fingerprint, Counts(t, f)
          PROVE  IInv'
      <3>1. IsFiniteSet(DOMAIN queries') /\ Bounded'
        BY <2>3, CountsFacts, QueriesAfterBounded DEF IInv, Bounded, TypeOK
      <3>2. CountExact' /\ CoverInv' /\ BelowInv'
        BY <2>3, CountsKeepsCounters
      <3>3. DecidedInv' /\ NoFalseAlarm' /\ OneReportPerWindow'
        BY <2>3, <3>2, CountsKeepsReports
      <3>4. QED
        BY <3>1, <3>2, <3>3 DEF IInv
    <2>4. ASSUME NEW t \in Thread, Emit(t) PROVE IInv'
      <3>1. UNCHANGED <<clock, queries, log, era>>
        BY <2>4 DEF Emit
      <3>2. Decided' = Decided
        BY <2>4, DecidedSteps DEF IInv
      <3>3. QED
        BY <3>1, <3>2 DEF IInv, Bounded, CoverInv, BelowInv, DecidedInv,
           CountExact, Epoch, NoFalseAlarm, Witnesses, OneReportPerWindow
    <2>5. ASSUME NEW t \in Thread, Reset(t) PROVE IInv'
      <3>1. UNCHANGED <<clock, log>> /\ queries' = NoQueries /\ era' = era + 1
        BY <2>5 DEF Reset
      <3>2. Decided' = Decided /\ Decided \subseteq Report
        BY <2>5, DecidedSteps DEF IInv
      <3>3. IsFiniteSet(DOMAIN queries') /\ Bounded'
        BY <3>1, FS_EmptySet, N1RecordsAssumption DEF NoQueries, EmptyMap, Bounded, Size
      <3>4. CountExact' /\ BelowInv'
        BY <3>1 DEF NoQueries, EmptyMap, CountExact, BelowInv
      <3>5. CoverInv'
        <4>1. \A x \in log : x.era # era + 1
          BY DEF IInv, LogInv, TypeOK, Execution
        <4>2. QED
          BY <3>1, <4>1 DEF CoverInv
      <3>6. DecidedInv'
        <4>1. \A r \in Decided : r.era <= era + 1 /\ r.era # era + 1
          BY <3>2 DEF IInv, DecidedInv, TypeOK, Report
        <4>2. QED
          BY <3>1, <3>2, <4>1 DEF IInv, DecidedInv
      <3>7. NoFalseAlarm' /\ OneReportPerWindow'
        BY <3>1, <3>2 DEF IInv, NoFalseAlarm, Witnesses, OneReportPerWindow
      <3>8. QED
        BY <3>3, <3>4, <3>5, <3>6, <3>7 DEF IInv
    <2>6. CASE UNCHANGED vars
      <3>1. UNCHANGED <<clock, queries, pending, log, era, emitted>> /\ Decided' = Decided
        BY <2>6 DEF vars, Decided
      <3>2. Bounded' /\ CoverInv' /\ BelowInv' /\ DecidedInv' /\ CountExact'
        BY <3>1 DEF IInv, Bounded, CoverInv, BelowInv, DecidedInv, CountExact, Epoch
      <3>3. NoFalseAlarm' /\ OneReportPerWindow'
        BY <3>1 DEF IInv, NoFalseAlarm, Witnesses, OneReportPerWindow
      <3>4. QED
        BY <3>1, <3>2, <3>3 DEF IInv
    <2>7. QED
      BY <2>1, <2>2, <2>3, <2>4, <2>5, <2>6 DEF Next, Track, Counts, Done
  <1>3. QED
    BY <1>1, <1>2, TypeCorrect, PTL DEF Spec

\* A record counts exactly the executions since its window began.
THEOREM CountExactHolds == Spec => []CountExact
  <1>1. IInv => CountExact
    BY DEF IInv
  <1>2. QED
    BY <1>1, Invariance, PTL

\* No report claims executions that did not happen, whenever it is delivered.
THEOREM NoFalseAlarmHolds == Spec => []NoFalseAlarm
  <1>1. IInv => NoFalseAlarm
    BY DEF IInv
  <1>2. QED
    BY <1>1, Invariance, PTL

\* A pattern is reported at most once per window of the tracker.
THEOREM OneReportPerWindowHolds == Spec => []OneReportPerWindow
  <1>1. IInv => OneReportPerWindow
    BY DEF IInv
  <1>2. QED
    BY <1>1, Invariance, PTL

\* A record whose window is running is never lost, restarted or counted down,
\* whatever else is tracked, refused or evicted.
THEOREM InFlightKeptHolds == Spec => InFlightKept
  <1>1. ASSUME IInv, [Next]_vars, NEW f \in DOMAIN queries,
               ~Expired(queries[f], clock), era' = era
        PROVE  /\ f \in DOMAIN queries'
               /\ queries'[f].firstSeen = queries[f].firstSeen
               /\ queries'[f].count >= queries[f].count
    <2>1. QueryMap(queries) /\ clock \in Nat /\ era \in Nat
      BY <1>1 DEF IInv, TypeOK
    <2>2. queries[f] \in QueryRecord
      BY <1>1, <2>1 DEF QueryMap
    <2>3. CASE UNCHANGED queries
      BY <1>1, <2>2, <2>3 DEF QueryRecord
    <2>4. ASSUME NEW h \in Fingerprint, queries' = QueriesAfter(queries, h, clock)
          PROVE  /\ f \in DOMAIN queries'
                 /\ queries'[f].firstSeen = queries[f].firstSeen
                 /\ queries'[f].count >= queries[f].count
      <3>1. f \in DOMAIN queries'
        BY <1>1, <2>1, <2>4, QueriesAfterRecords
      <3>2. CASE f # h
        BY <2>1, <2>2, <2>4, <3>1, <3>2, QueriesAfterRecords DEF QueryRecord
      <3>3. CASE f = h
        <4>1. ~Dropped(queries, h, clock) /\ ~StartsEpoch(queries, h, clock)
          BY <1>1, <2>1, <2>4, <3>1, <3>3, QueriesAfterRecords
        <4>2. queries'[f] = Counted(queries[f])
          BY <2>1, <2>4, <3>3, <4>1, QueriesAfterRecords
        <4>3. QED
          BY <2>2, <3>1, <4>2 DEF Counted, QueryRecord
      <3>4. QED
        BY <3>2, <3>3
    <2>5. ASSUME NEW t \in Thread, Reset(t) PROVE FALSE
      BY <1>1, <2>1, <2>5 DEF Reset
    <2>6. QED
      BY <1>1, <2>3, <2>4, <2>5
      DEF Next, Track, TrackDropped, TrackQuietly, TrackAndReport, Tick, Emit, Done, vars
  <1>2. IInv /\ [Next]_vars => [InFlightStep]_vars
    BY <1>1 DEF InFlightStep
  <1>3. QED
    BY <1>2, Invariance, PTL DEF Spec, InFlightKept
-----------------------------------------------------------------------------
(* Bursts.                                                                 *)

\* The executions of f in this era, and those in the window from s.
Runs(f) == {e \in log : e.fp = f /\ e.era = era}
InWindow(f, s) == {e \in Runs(f) : e.at \in s .. s + Window}

ReportSince(f, s) == \E r \in Decided : r.fp = f /\ r.era = era /\ r.since = s

Settled(f, s) == Cardinality(InWindow(f, s)) >= Effective => ReportSince(f, s)

\* S is where the windows of f in this era start: at an execution each, more
\* than a window apart, and every execution is in one of them.  The record of
\* f counts the last; the others were reported if they had to be.
Windows(f, S) ==
    /\ S \subseteq Nat
    /\ \A s, u \in S : s < u => u - s > Window
    /\ \A s \in S : \E e \in Runs(f) : e.at = s
    /\ \A e \in Runs(f) : \E s \in S : s <= e.at /\ e.at <= s + Window
    /\ f \in DOMAIN queries => queries[f].firstSeen \in S
    /\ \A s \in S : IF f \in DOMAIN queries THEN s <= queries[f].firstSeen ELSE clock - s > Window
    /\ \A s \in S : (f \in DOMAIN queries => s # queries[f].firstSeen) => Settled(f, s)

\* A marked record has its report.
MarkedInv ==
    \A f \in DOMAIN queries : queries[f].reported => ReportSince(f, queries[f].firstSeen)

\* A report is made by the execution that reaches the threshold, which comes
\* after all that ran before it.
PromptInv ==
    \A r \in Decided :
        /\ r.count <= Effective
        /\ \E e \in log : e.id = r.id /\ e.fp = r.fp /\ e.era = r.era /\ e.at = r.at
        /\ \A e \in log : e.at < r.at => e.id < r.id

BurstInv ==
    /\ MarkedInv
    /\ PromptInv
    /\ \A f \in Fingerprint : \E S : Windows(f, S)

LEMMA Types ==
    ASSUME IInv
    PROVE  /\ clock \in Nat /\ era \in Nat /\ Window \in Nat /\ Effective \in Nat /\ Effective >= 2
           /\ QueryMap(queries)
           /\ \A f \in DOMAIN queries : /\ f \in Fingerprint /\ queries[f].firstSeen \in Nat
                                        /\ queries[f].firstSeen <= clock
                                        /\ queries[f].count \in Nat /\ queries[f].reported \in BOOLEAN
           /\ \A e \in log : e.id \in Nat /\ e.at \in Nat /\ e.at <= clock /\ e.id < Cardinality(log)
           /\ IsFiniteSet(log) /\ Cardinality(log) \in Nat
           /\ Decided \subseteq Report
           /\ \A r \in Decided : r.id \in Nat /\ r.at \in Nat /\ r.since \in Nat /\ r.count \in Nat
PROOF
  <1>1. clock \in Nat /\ era \in Nat /\ Window \in Nat /\ Threshold \in Int /\ QueryMap(queries)
    BY N1RecordsAssumption DEF IInv, TypeOK
  <1>2. Effective \in Nat /\ Effective >= 2
    BY <1>1 DEF Effective
  <1>3. \A f \in DOMAIN queries : /\ f \in Fingerprint /\ queries[f].firstSeen \in Nat
                                  /\ queries[f].firstSeen <= clock
                                  /\ queries[f].count \in Nat /\ queries[f].reported \in BOOLEAN
    BY <1>1 DEF QueryMap, QueryRecord, IInv, BelowInv
  <1>4. \A e \in log : e.id \in Nat /\ e.at \in Nat /\ e.at <= clock /\ e.id < Cardinality(log)
    BY DEF IInv, TypeOK, Execution, LogInv
  <1>5. IsFiniteSet(log) /\ Cardinality(log) \in Nat
    BY FS_CardinalityType DEF IInv, LogInv
  <1>6. Decided \subseteq Report
    BY DEF IInv, TypeOK, Decided
  <1> QED BY <1>1, <1>2, <1>3, <1>4, <1>5, <1>6 DEF Report

\* All windows of f are settled, also the one being counted.
LEMMA AllSettled ==
    ASSUME IInv, MarkedInv, NEW f, NEW S, Windows(f, S)
    PROVE  \A s \in S : Settled(f, s)
PROOF
  <1> SUFFICES ASSUME NEW s \in S, f \in DOMAIN queries, s = queries[f].firstSeen,
                      Cardinality(InWindow(f, s)) >= Effective
               PROVE  ReportSince(f, s)
    BY DEF Windows, Settled
  <1>1. InWindow(f, s) = Epoch(f)
    <2>1. \A e \in log : e.fp = f /\ e.era = era => e.at - s <= Window
      BY DEF IInv, CoverInv
    <2>2. s \in Nat /\ Window \in Nat /\ \A e \in log : e.at \in Nat
      BY Types
    <2>3. \A e \in log : e.fp = f /\ e.era = era => (e.at \in s .. s + Window <=> e.at >= s)
      BY <2>1, <2>2
    <2> QED BY <2>3 DEF InWindow, Runs, Epoch
  <1>2. queries[f].count >= Effective
    BY <1>1 DEF IInv, CountExact
  <1>3. queries[f].reported
    BY <1>2, Types DEF IInv, BelowInv
  <1> QED BY <1>3 DEF MarkedInv

\* What a step leaves settled.
LEMMA StaysSettled ==
    ASSUME NEW f, NEW s, Settled(f, s), InWindow(f, s)' = InWindow(f, s), era' = era,
           Decided \subseteq Decided'
    PROVE  Settled(f, s)'
PROOF
  BY DEF Settled, ReportSince, Effective

\* A step that does not count an execution of f may forget its record if its
\* window is over ...
LEMMA WindowsSame ==
    ASSUME IInv, MarkedInv, NEW f \in Fingerprint, NEW S, Windows(f, S),
           Runs(f)' = Runs(f), era' = era, Decided \subseteq Decided',
           clock' \in Nat, clock <= clock',
           f \in DOMAIN queries' =>
             f \in DOMAIN queries /\ queries'[f].firstSeen = queries[f].firstSeen,
           f \in DOMAIN queries \ DOMAIN queries' => clock - queries[f].firstSeen > Window
    PROVE  Windows(f, S)'
PROOF
  <1>1. \A s \in S : Settled(f, s)
    BY AllSettled
  <1>2. \A s \in S : InWindow(f, s)' = InWindow(f, s)
    BY DEF InWindow
  <1>3. \A s \in S : Settled(f, s)'
    BY <1>1, <1>2, StaysSettled
  <1>4. \A s \in S : IF f \in DOMAIN queries' THEN s <= queries'[f].firstSeen ELSE clock' - s > Window
    <2> SUFFICES ASSUME NEW s \in S
                 PROVE  IF f \in DOMAIN queries' THEN s <= queries'[f].firstSeen ELSE clock' - s > Window
      OBVIOUS
    <2>1. /\ s \in Nat
          /\ IF f \in DOMAIN queries THEN s <= queries[f].firstSeen ELSE clock - s > Window
      BY DEF Windows
    <2>2. /\ clock \in Nat /\ Window \in Nat
          /\ f \in DOMAIN queries => queries[f].firstSeen \in Nat
      BY Types
    <2>3. CASE f \in DOMAIN queries'
      BY <2>1, <2>3
    <2>4. CASE f \in DOMAIN queries \ DOMAIN queries'
      <3> DEFINE first == queries[f].firstSeen
                 now == clock
                 later == clock'
      <3>1. /\ first \in Nat /\ s \in Nat /\ s <= first /\ now - first > Window
            /\ now \in Nat /\ later \in Nat /\ now <= later /\ Window \in Nat
        BY <2>1, <2>2, <2>4
      <3> HIDE DEF first, now, later
      <3>2. later - s > Window
        BY <3>1
      <3> QED BY <2>4, <3>2 DEF later
    <2>5. CASE f \notin DOMAIN queries /\ f \notin DOMAIN queries'
      <3> DEFINE now == clock
                 later == clock'
      <3>1. /\ s \in Nat /\ now - s > Window /\ now \in Nat /\ later \in Nat
            /\ now <= later /\ Window \in Nat
        BY <2>1, <2>2, <2>5
      <3> HIDE DEF now, later
      <3>2. later - s > Window
        BY <3>1
      <3> QED BY <2>5, <3>2 DEF later
    <2> QED BY <2>3, <2>4, <2>5
  <1> QED BY <1>3, <1>4 DEF Windows

\* ... one that counts an execution in the running window adds to it ...
LEMMA WindowsCount ==
    ASSUME IInv, MarkedInv, NEW f \in Fingerprint, NEW S, Windows(f, S),
           NEW e, e.at = clock, Runs(f)' = Runs(f) \cup {e}, era' = era, Decided \subseteq Decided',
           clock' = clock, f \in DOMAIN queries, f \in DOMAIN queries',
           queries'[f].firstSeen = queries[f].firstSeen,
           ~(clock - queries[f].firstSeen > Window)
    PROVE  Windows(f, S)'
PROOF
  <1> DEFINE first == queries[f].firstSeen
  <1>1. /\ clock \in Nat /\ Window \in Nat /\ first \in Nat /\ first <= clock
        /\ S \subseteq Nat /\ first \in S /\ \A s \in S : s <= first
    BY Types DEF Windows
  <1> HIDE DEF first
  <1>2. \A s \in S : s # first => InWindow(f, s)' = InWindow(f, s)
    <2> SUFFICES ASSUME NEW s \in S, s # first PROVE InWindow(f, s)' = InWindow(f, s)
      OBVIOUS
    <2>1. first - s > Window
      BY <1>1 DEF Windows
    <2>2. clock \notin s .. s + Window
      BY <1>1, <2>1
    <2> QED BY <2>2 DEF InWindow
  <1>3. \A s \in S : s # first => Settled(f, s)'
    BY <1>2, AllSettled, StaysSettled
  <1>4. first <= e.at /\ e.at <= first + Window
    BY <1>1 DEF first
  <1>5. \A x \in Runs(f)' : \E s \in S : s <= x.at /\ x.at <= s + Window
    BY <1>1, <1>4 DEF Windows
  <1>6. \A s \in S : \E x \in Runs(f)' : x.at = s
    BY DEF Windows
  <1> QED BY <1>1, <1>3, <1>5, <1>6 DEF Windows, first

\* ... and one that starts a window comes after all others.
LEMMA WindowsStart ==
    ASSUME IInv, MarkedInv, NEW f \in Fingerprint, NEW S, Windows(f, S),
           NEW e, e.at = clock, Runs(f)' = Runs(f) \cup {e}, era' = era, Decided \subseteq Decided',
           clock' = clock, f \in DOMAIN queries', queries'[f].firstSeen = clock,
           f \in DOMAIN queries => clock - queries[f].firstSeen > Window
    PROVE  Windows(f, S \cup {clock})'
PROOF
  <1> DEFINE now == clock
             T == S \cup {now}
  <1>1. now \in Nat /\ Window \in Nat /\ S \subseteq Nat /\ T \subseteq Nat
    BY Types DEF Windows
  <1>2. \A s \in S : now - s > Window
    <2> SUFFICES ASSUME NEW s \in S PROVE now - s > Window
      OBVIOUS
    <2>1. IF f \in DOMAIN queries THEN s <= queries[f].firstSeen ELSE clock - s > Window
      BY DEF Windows
    <2>2. f \in DOMAIN queries => queries[f].firstSeen \in Nat
      BY Types
    <2> QED BY <1>1, <2>1, <2>2
  <1>3. \A s \in S : InWindow(f, s)' = InWindow(f, s)
    <2> SUFFICES ASSUME NEW s \in S PROVE InWindow(f, s)' = InWindow(f, s)
      OBVIOUS
    <2>1. clock \notin s .. s + Window
      BY <1>1, <1>2
    <2> QED BY <2>1 DEF InWindow
  <1>4. \A s \in S : Settled(f, s)'
    BY <1>3, AllSettled, StaysSettled
  <1>5. \A s, u \in T : s < u => u - s > Window
    <2>1. \A s, u \in S : s < u => u - s > Window
      BY DEF Windows
    <2> QED BY <1>1, <1>2, <2>1
  <1>6. \A s \in T : s <= now
    BY <1>1, <1>2
  <1>7. e \in Runs(f)' /\ Runs(f) \subseteq Runs(f)' /\ now <= e.at /\ e.at <= now + Window
    BY <1>1
  <1>8. \A s \in T : \E x \in Runs(f)' : x.at = s
    BY <1>7 DEF Windows
  <1>9. \A x \in Runs(f)' : \E s \in T : s <= x.at /\ x.at <= s + Window
    BY <1>7 DEF Windows
  <1> QED BY <1>1, <1>4, <1>5, <1>6, <1>8, <1>9 DEF Windows

\* A counted execution: either it starts a window, or the one of its record is
\* running and the record is counted up, and marked if there is a report.
LEMMA CountsRecord ==
    ASSUME IInv, NEW t \in Thread, NEW f \in Fingerprint, Counts(t, f)
    PROVE  /\ f \in DOMAIN queries'
           /\ \/ /\ queries'[f].firstSeen = clock /\ ~queries'[f].reported
                 /\ f \in DOMAIN queries => clock - queries[f].firstSeen > Window
                 /\ Decided' = Decided
              \/ /\ f \in DOMAIN queries /\ ~(clock - queries[f].firstSeen > Window)
                 /\ queries'[f].firstSeen = queries[f].firstSeen
                 /\ \/ Decided' = Decided /\ (queries'[f].reported => queries[f].reported)
                    \/ Decided' = Decided \cup {NewReport(f)} /\ ~queries[f].reported
PROOF
  <1>1. /\ ~Dropped(queries, f, clock) /\ queries' = QueriesAfter(queries, f, clock)
        /\ QueryMap(queries) /\ clock \in Nat
    BY CountsFacts, Types DEF IInv
  <1>2. f \in DOMAIN queries'
    BY <1>1, QueriesAfterRecords
  <1>3. CASE StartsEpoch(queries, f, clock)
    <2>1. queries'[f] = FirstRecord(clock) /\ (f \in DOMAIN queries => Expired(queries[f], clock))
      BY <1>1, <1>3, QueriesAfterRecords
    <2>2. TrackQuietly(t, f)
      BY <1>3 DEF Counts, TrackAndReport, Reports
    <2>3. Decided' = Decided
      BY <2>2, DecidedSteps DEF IInv
    <2> QED BY <1>2, <2>1, <2>3 DEF FirstRecord, Expired
  <1>4. CASE ~StartsEpoch(queries, f, clock)
    <2>1. /\ f \in DOMAIN queries /\ ~Expired(queries[f], clock)
          /\ queries'[f] = Counted(queries[f])
          /\ Reports(queries, f, clock) <=> ShouldReport(queries[f])
      BY <1>1, <1>4, QueriesAfterRecords
    <2>2. queries[f] \in QueryRecord
      BY <1>1, <2>1 DEF QueryMap
    <2>3. /\ queries'[f].firstSeen = queries[f].firstSeen
          /\ queries'[f].reported = (queries[f].reported \/ ShouldReport(queries[f]))
      <3> DEFINE c == queries[f].count + 1
                 m == queries[f].reported \/ ShouldReport(queries[f])
      <3>1. queries'[f] = [queries[f] EXCEPT !.count = c, !.reported = m]
        BY <2>1 DEF Counted
      <3> HIDE DEF c, m
      <3>2. queries'[f].firstSeen = queries[f].firstSeen /\ queries'[f].reported = m
        BY <2>2, <3>1 DEF QueryRecord
      <3> QED BY <3>2 DEF m
    <2>4. CASE TrackQuietly(t, f)
      <3>1. ~ShouldReport(queries[f]) /\ Decided' = Decided
        BY <2>1, <2>4, DecidedSteps DEF TrackQuietly, IInv
      <3>2. queries'[f].reported => queries[f].reported
        BY <2>3, <3>1
      <3> QED BY <1>2, <2>1, <2>3, <3>1, <3>2 DEF Expired
    <2>5. CASE TrackAndReport(t, f)
      <3>1. ShouldReport(queries[f]) /\ Decided' = Decided \cup {NewReport(f)}
        BY <2>1, <2>5, DecidedSteps DEF TrackAndReport, IInv
      <3>2. ~queries[f].reported
        BY <3>1 DEF ShouldReport
      <3> QED BY <1>2, <2>1, <2>3, <3>1, <3>2 DEF Expired
    <2> QED BY <2>4, <2>5 DEF Counts
  <1> QED BY <1>3, <1>4

\* No report is ever taken back, and what a step does to the record of f.
LEMMA StepRecords ==
    ASSUME IInv, [Next]_vars
    PROVE  /\ Decided \subseteq Decided'
           /\ clock' \in Nat /\ clock <= clock'
           /\ \/ /\ log' = log /\ era' = era /\ Decided' = Decided
                 /\ \A g \in DOMAIN queries' : g \in DOMAIN queries /\ queries'[g] = queries[g]
                 /\ \A g \in DOMAIN queries \ DOMAIN queries' : clock - queries[g].firstSeen > Window
              \/ \E t \in Thread, f \in Fingerprint :
                   /\ Counts(t, f)
                   /\ log' = log \cup {ThisExecution(f)} /\ era' = era /\ clock' = clock
                   /\ \A g \in DOMAIN queries' : g # f => g \in DOMAIN queries /\ queries'[g] = queries[g]
                   /\ \A g \in DOMAIN queries \ DOMAIN queries' : clock - queries[g].firstSeen > Window
              \/ log' = log /\ era' = era + 1 /\ Decided' = Decided /\ queries' = NoQueries
PROOF
  <1>1. clock \in Nat /\ QueryMap(queries)
    BY Types
  <1>2. CASE Tick \/ UNCHANGED vars
    <2>1. UNCHANGED <<queries, pending, log, era, emitted>> /\ clock' \in {clock, clock + 1}
      BY <1>2 DEF Tick, vars
    <2>2. Decided' = Decided
      BY <2>1 DEF Decided
    <2> QED BY <1>1, <2>1, <2>2
  <1>3. ASSUME NEW t \in Thread, NEW f \in Fingerprint, TrackDropped(t, f)
        PROVE  /\ log' = log /\ era' = era /\ clock' = clock /\ Decided' = Decided
               /\ \A g \in DOMAIN queries' : g \in DOMAIN queries /\ queries'[g] = queries[g]
               /\ \A g \in DOMAIN queries \ DOMAIN queries' : clock - queries[g].firstSeen > Window
    <2>1. /\ log' = log /\ era' = era /\ clock' = clock /\ Dropped(queries, f, clock)
          /\ queries' = QueriesAfter(queries, f, clock)
      BY <1>3 DEF TrackDropped
    <2>2. Decided' = Decided
      BY <1>3, DecidedSteps DEF IInv
    <2> QED BY <1>1, <2>1, <2>2, QueriesAfterRecords DEF Expired
  <1>4. ASSUME NEW t \in Thread, NEW f \in Fingerprint, Counts(t, f)
        PROVE  /\ Counts(t, f) /\ Decided \subseteq Decided'
               /\ log' = log \cup {ThisExecution(f)} /\ era' = era /\ clock' = clock
               /\ \A g \in DOMAIN queries' : g # f => g \in DOMAIN queries /\ queries'[g] = queries[g]
               /\ \A g \in DOMAIN queries \ DOMAIN queries' : clock - queries[g].firstSeen > Window
    <2>1. /\ queries' = QueriesAfter(queries, f, clock) /\ UNCHANGED <<clock, era>>
          /\ log' = log \cup {ThisExecution(f)}
      BY <1>4, CountsFacts DEF IInv
    <2>2. Decided \subseteq Decided'
      BY <1>4, CountsRecord
    <2> QED BY <1>1, <1>4, <2>1, <2>2, QueriesAfterRecords DEF Expired
  <1>5. ASSUME NEW t \in Thread, Emit(t)
        PROVE  UNCHANGED <<log, era, clock, queries>> /\ Decided' = Decided
    BY <1>5, DecidedSteps DEF Emit, IInv
  <1>6. ASSUME NEW t \in Thread, Reset(t)
        PROVE  /\ log' = log /\ era' = era + 1 /\ clock' = clock /\ Decided' = Decided
               /\ queries' = NoQueries
    BY <1>6, DecidedSteps DEF Reset, IInv
  <1>7. CASE \E t \in Thread, f \in Fingerprint : TrackDropped(t, f)
    BY <1>1, <1>3, <1>7
  <1>8. CASE \E t \in Thread, f \in Fingerprint : Counts(t, f)
    BY <1>1, <1>4, <1>8
  <1>9. CASE \E t \in Thread : Emit(t)
    BY <1>1, <1>5, <1>9
  <1>10. CASE \E t \in Thread : Reset(t)
    BY <1>1, <1>6, <1>10
  <1> QED BY <1>2, <1>7, <1>8, <1>9, <1>10 DEF Next, Track, Counts, Done

LEMMA MarkedStep == IInv /\ MarkedInv /\ [Next]_vars => MarkedInv'
PROOF
  <1> SUFFICES ASSUME IInv, MarkedInv, [Next]_vars, NEW g \in DOMAIN queries', queries'[g].reported
               PROVE  ReportSince(g, queries[g].firstSeen)'
    BY DEF MarkedInv
  <1>1. Decided \subseteq Decided'
    BY StepRecords
  <1>2. ASSUME g \in DOMAIN queries, queries[g].reported, queries'[g].firstSeen = queries[g].firstSeen,
               era' = era
        PROVE  ReportSince(g, queries[g].firstSeen)'
    BY <1>1, <1>2 DEF MarkedInv, ReportSince
  <1>3. CASE /\ era' = era
             /\ \A h \in DOMAIN queries' : h \in DOMAIN queries /\ queries'[h] = queries[h]
    BY <1>2, <1>3
  <1>4. ASSUME NEW t \in Thread, NEW f \in Fingerprint, Counts(t, f), era' = era,
               \A h \in DOMAIN queries' : h # f => h \in DOMAIN queries /\ queries'[h] = queries[h]
        PROVE  ReportSince(g, queries[g].firstSeen)'
    <2>1. CASE g # f
      BY <1>2, <1>4, <2>1
    <2>2. CASE g = f
      <3>1. /\ f \in DOMAIN queries /\ queries'[f].firstSeen = queries[f].firstSeen
            /\ \/ queries[f].reported
               \/ NewReport(f) \in Decided'
        BY <1>4, <2>2, CountsRecord
      <3>2. CASE queries[f].reported
        BY <1>2, <1>4, <2>2, <3>1, <3>2
      <3>3. CASE NewReport(f) \in Decided'
        <4>1. NewReport(f).fp = f /\ NewReport(f).era = era /\ NewReport(f).since = queries[f].firstSeen
          BY DEF NewReport
        <4> QED BY <1>4, <2>2, <3>1, <3>3, <4>1 DEF ReportSince
      <3> QED BY <3>1, <3>2, <3>3
    <2> QED BY <2>1, <2>2
  <1>5. CASE queries' = NoQueries
    BY <1>5 DEF NoQueries, EmptyMap
  <1> QED BY <1>3, <1>4, <1>5, StepRecords

LEMMA PromptStep == IInv /\ PromptInv /\ [Next]_vars => PromptInv'
PROOF
  <1> SUFFICES ASSUME IInv, PromptInv, [Next]_vars, NEW r \in Decided'
               PROVE  /\ r.count <= Effective
                      /\ \E e \in log' : e.id = r.id /\ e.fp = r.fp /\ e.era = r.era /\ e.at = r.at
                      /\ \A e \in log' : e.at < r.at => e.id < r.id
    BY DEF PromptInv, Effective
  <1>1. CASE log' = log /\ Decided' = Decided
    BY <1>1 DEF PromptInv
  <1>2. ASSUME NEW t \in Thread, NEW f \in Fingerprint, Counts(t, f), log' = log \cup {ThisExecution(f)}
        PROVE  /\ r.count <= Effective
               /\ \E e \in log' : e.id = r.id /\ e.fp = r.fp /\ e.era = r.era /\ e.at = r.at
               /\ \A e \in log' : e.at < r.at => e.id < r.id
    <2> DEFINE x == ThisExecution(f)
    <2>1. /\ x.id = Cardinality(log) /\ x.fp = f /\ x.at = clock /\ x.era = era
          /\ x \in log' /\ log \subseteq log' /\ clock \in Nat
      BY <1>2, Types DEF ThisExecution
    <2>2. \A e \in log : e.at \in Nat /\ e.at <= clock /\ e.id \in Nat /\ e.id < Cardinality(log)
      BY Types
    <2> HIDE DEF x
    <2>3. CASE r \in Decided
      <3>1. /\ r.count <= Effective
            /\ \E e \in log : e.id = r.id /\ e.fp = r.fp /\ e.era = r.era /\ e.at = r.at
            /\ \A e \in log : e.at < r.at => e.id < r.id
        BY <2>3 DEF PromptInv
      <3>2. r.at \in Nat /\ r.at <= clock
        BY <2>2, <3>1
      <3>3. ~(x.at < r.at)
        BY <2>1, <3>2
      <3> QED BY <1>2, <2>1, <3>1, <3>3 DEF x
    <2>4. CASE r \notin Decided
      <3>1. r = NewReport(f) /\ f \in DOMAIN queries /\ ~queries[f].reported
        BY <1>2, <2>4, CountsRecord
      <3>2. r.count = queries[f].count + 1 /\ r.id = x.id /\ r.fp = f /\ r.era = era /\ r.at = clock
        BY <2>1, <3>1 DEF NewReport
      <3>3. queries[f].count \in Nat /\ queries[f].count < Effective /\ Effective \in Nat
        BY <3>1, Types DEF IInv, BelowInv
      <3>4. r.count <= Effective
        BY <3>2, <3>3
      <3>5. \A e \in log' : e.at < r.at => e.id < r.id
        BY <1>2, <2>1, <2>2, <3>2 DEF x
      <3> QED BY <2>1, <3>2, <3>4, <3>5
    <2> QED BY <2>3, <2>4
  <1> QED BY <1>1, <1>2, StepRecords

LEMMA BurstStep == IInv /\ BurstInv /\ [Next]_vars => BurstInv'
PROOF
  <1> SUFFICES ASSUME IInv, BurstInv, [Next]_vars, NEW g \in Fingerprint
               PROVE  \E S : Windows(g, S)'
    BY MarkedStep, PromptStep DEF BurstInv
  <1>1. PICK S : Windows(g, S)
    BY DEF BurstInv
  <1>2. MarkedInv /\ Decided \subseteq Decided' /\ clock' \in Nat /\ clock <= clock'
    BY StepRecords DEF BurstInv
  <1>3. ASSUME log' = log, era' = era,
               \A h \in DOMAIN queries' : h \in DOMAIN queries /\ queries'[h] = queries[h],
               \A h \in DOMAIN queries \ DOMAIN queries' : clock - queries[h].firstSeen > Window
        PROVE  \E T : Windows(g, T)'
    <2>1. Runs(g)' = Runs(g)
      BY <1>3 DEF Runs
    <2>2. Windows(g, S)'
      BY <1>1, <1>2, <1>3, <2>1, WindowsSame
    <2> QED BY <2>2
  <1>4. ASSUME NEW t \in Thread, NEW f \in Fingerprint, Counts(t, f),
               log' = log \cup {ThisExecution(f)}, era' = era, clock' = clock,
               \A h \in DOMAIN queries' : h # f => h \in DOMAIN queries /\ queries'[h] = queries[h],
               \A h \in DOMAIN queries \ DOMAIN queries' : clock - queries[h].firstSeen > Window
        PROVE  \E T : Windows(g, T)'
    <2> DEFINE x == ThisExecution(f)
    <2>1. x.fp = f /\ x.at = clock /\ x.era = era
      BY DEF ThisExecution
    <2>2. log' = log \cup {x}
      BY <1>4
    <2> HIDE DEF x
    <2>3. CASE g # f
      <3>1. Runs(g)' = Runs(g)
        BY <1>4, <2>1, <2>2, <2>3 DEF Runs
      <3>2. Windows(g, S)'
        BY <1>1, <1>2, <1>4, <2>3, <3>1, WindowsSame
      <3> QED BY <3>2
    <2>4. CASE g = f
      <3>1. Runs(g)' = Runs(g) \cup {x}
        BY <1>4, <2>1, <2>2, <2>4 DEF Runs
      <3>2. /\ g \in DOMAIN queries'
            /\ \/ /\ queries'[g].firstSeen = clock
                  /\ g \in DOMAIN queries => clock - queries[g].firstSeen > Window
               \/ /\ g \in DOMAIN queries /\ ~(clock - queries[g].firstSeen > Window)
                  /\ queries'[g].firstSeen = queries[g].firstSeen
        BY <1>4, <2>4, CountsRecord
      <3>3. \/ Windows(g, S)'
            \/ Windows(g, S \cup {clock})'
        BY <1>1, <1>2, <1>4, <2>1, <3>1, <3>2, WindowsCount, WindowsStart
      <3>4. CASE Windows(g, S)'
        BY <3>4
      <3>5. CASE Windows(g, S \cup {clock})'
        <4>1. PICK now : now = clock
          OBVIOUS
        <4>2. clock' = now
          BY <1>4, <4>1
        <4> QED BY <3>5, <4>1, <4>2
      <3> QED BY <3>3, <3>4, <3>5
    <2> QED BY <2>3, <2>4
  <1>5. ASSUME log' = log, era' = era + 1, queries' = NoQueries
        PROVE  \E T : Windows(g, T)'
    <2>1. Runs(g)' = {}
      BY <1>5 DEF Runs, IInv, LogInv, TypeOK, Execution
    <2>2. g \notin DOMAIN queries'
      BY <1>5 DEF NoQueries, EmptyMap
    <2>3. Windows(g, {})'
      BY <2>1, <2>2 DEF Windows
    <2> QED BY <2>3
  <1> QED BY <1>3, <1>4, <1>5, StepRecords

\* Enough executions in one window of f: its report, and when it was made.
LEMMA ReportOf ==
    ASSUME IInv, BurstInv, NEW f, NEW S, Windows(f, S), NEW s \in S,
           NEW A, A \subseteq InWindow(f, s), Cardinality(A) >= Effective
    PROVE  /\ \E r \in Decided : r.fp = f /\ r.era = era /\ r.since = s
           /\ \A r \in Decided : r.since = s => s <= r.at /\ r.at <= s + Window
PROOF
  <1>1. InWindow(f, s) \subseteq log /\ IsFiniteSet(InWindow(f, s))
    BY Types, FS_Subset DEF InWindow, Runs
  <1>2. /\ Cardinality(A) <= Cardinality(InWindow(f, s))
        /\ Cardinality(A) \in Nat /\ Cardinality(InWindow(f, s)) \in Nat
    BY <1>1, FS_Subset, FS_CardinalityType
  <1>3. Cardinality(InWindow(f, s)) >= Effective
    BY <1>2, Types
  <1>4. ReportSince(f, s)
    BY <1>3, AllSettled DEF BurstInv, Settled
  <1>5. ASSUME NEW r \in Decided, r.since = s
        PROVE  s <= r.at /\ r.at <= s + Window
    <2>1. r.at \in Nat /\ r.since \in Nat /\ Window \in Nat /\ r.at - r.since <= Window
      BY Types DEF IInv, NoFalseAlarm
    <2>2. Cardinality(Witnesses(r)) # 0
      BY Types DEF IInv, NoFalseAlarm
    <2>3. Witnesses(r) # {}
      BY <2>2, FS_EmptySet
    <2>4. PICK e \in log : e.at \in r.since .. r.at
      BY <2>3 DEF Witnesses
    <2>5. e.at \in Nat
      BY Types
    <2> QED BY <1>5, <2>1, <2>4, <2>5
  <1> QED BY <1>4, <1>5 DEF ReportSince

\* The burst meets at most one window that began before it, and one that began
\* in it: one of them holds enough executions to be reported.
LEMMA BurstIsDetected ==
    ASSUME IInv, BurstInv, NEW f \in Fingerprint, NEW start \in Nat,
           Cardinality(Burst(f, start)) >= 2 * Effective - 2
    PROVE  ReportedNear(f, start)
PROOF
  <1> DEFINE B == Burst(f, start)
             In(e, s) == s <= e.at /\ e.at <= s + Window
  <1>1. PICK S : Windows(f, S)
    BY DEF BurstInv
  <1> DEFINE A1 == {e \in B : \E s \in S : s < start /\ In(e, s)}
             A2 == {e \in B : \E s \in S : s >= start /\ In(e, s)}
  <1>2. /\ S \subseteq Nat /\ Window \in Nat /\ Effective \in Nat /\ Effective >= 2 /\ start \in Nat
        /\ \A s, u \in S : s < u => u - s > Window
    BY <1>1, Types DEF Windows
  <1>3. \A e \in B : /\ e \in log /\ e.fp = f /\ e.era = era /\ e.at \in Nat
                     /\ start <= e.at /\ e.at <= start + Window
    BY <1>2, Types DEF Burst
  <1>4. B = A1 \cup A2
    <2>1. \A e \in B : \E s \in S : In(e, s)
      BY <1>1, <1>3 DEF Windows, Runs
    <2>2. \A s \in S : s < start \/ s >= start
      BY <1>2
    <2> QED BY <2>1, <2>2
  <1>5. /\ IsFiniteSet(A1) /\ IsFiniteSet(A2) /\ Cardinality(A1) \in Nat /\ Cardinality(A2) \in Nat
        /\ IsFiniteSet(log)
    <2>1. A1 \subseteq log /\ A2 \subseteq log /\ IsFiniteSet(log)
      BY <1>3, Types
    <2> HIDE DEF A1, A2
    <2> QED BY <2>1, FS_Subset, FS_CardinalityType
  <1>6. Cardinality(B) <= Cardinality(A1) + Cardinality(A2)
    <2>1. Cardinality(A1 \cap A2) \in Nat
      <3> HIDE DEF A1, A2
      <3>1. IsFiniteSet(A1 \cap A2)
        BY <1>5, FS_Intersection
      <3> QED BY <3>1, FS_CardinalityType
    <2> HIDE DEF A1, A2, B
    <2>2. Cardinality(A1 \cup A2) = Cardinality(A1) + Cardinality(A2) - Cardinality(A1 \cap A2)
      BY <1>5, FS_Union
    <2> QED BY <1>4, <1>5, <2>1, <2>2
  <1>7. Cardinality(A1) >= Effective - 1 \/ Cardinality(A2) >= Effective
    <2> HIDE DEF A1, A2
    <2>1. Cardinality(B) >= 2 * Effective - 2 /\ Cardinality(B) \in Int
      <3>1. IsFiniteSet(B)
        BY <1>4, <1>5, FS_Union
      <3> QED BY <3>1, FS_CardinalityType
    <2> HIDE DEF B
    <2> QED BY <1>2, <1>5, <1>6, <2>1
  <1>8. ASSUME NEW r \in Decided, r.fp = f, r.era = era, r.at >= start - Window, r.at <= start + Window
        PROVE  ReportedNear(f, start)
    <2>1. r.at \in Nat
      BY Types
    <2>2. r.at \in start - Window .. start + Window
      BY <1>2, <1>8, <2>1
    <2> QED BY <1>8, <2>2 DEF ReportedNear
  <1>9. CASE Cardinality(A1) >= Effective - 1
    <2>1. A1 # {}
      <3> HIDE DEF A1
      <3>1. Cardinality(A1) # 0
        BY <1>2, <1>5, <1>9
      <3> QED BY <3>1, FS_EmptySet
    <2>2. PICK e \in A1 : TRUE
      BY <2>1
    <2>3. PICK s \in S : s < start /\ In(e, s)
      BY <2>2
    <2>4. s \in Nat /\ s < start /\ start <= s + Window
      BY <1>2, <1>3, <2>2, <2>3
    <2>5. ASSUME NEW u \in S, NEW x \in B, u < start, In(x, u)
          PROVE  u = s
      <3>1. u \in Nat /\ x.at \in Nat /\ start <= x.at /\ u < start /\ x.at <= u + Window
        BY <1>2, <1>3, <2>5
      <3>2. (s < u => u - s > Window) /\ (u < s => s - u > Window)
        BY <1>2
      <3> QED BY <1>2, <2>4, <3>1, <3>2
    <2>6. A1 \subseteq InWindow(f, s)
      <3> SUFFICES ASSUME NEW x \in A1 PROVE x \in InWindow(f, s)
        OBVIOUS
      <3>1. In(x, s)
        BY <2>5
      <3>2. x.at \in s .. s + Window
        BY <1>2, <1>3, <2>4, <3>1
      <3> QED BY <1>3, <3>2 DEF InWindow, Runs
    <2>7. PICK x \in Runs(f) : x.at = s
      BY <1>1 DEF Windows
    <2>8. x \notin A1
      <3>1. ~(start <= x.at)
        BY <2>4, <2>7
      <3> QED BY <1>3, <3>1
    <2>9. A1 \cup {x} \subseteq InWindow(f, s)
      <3>1. x.at \in s .. s + Window
        BY <1>2, <2>4, <2>7
      <3> HIDE DEF A1
      <3> QED BY <2>6, <2>7, <3>1 DEF InWindow
    <2>10. Cardinality(A1 \cup {x}) >= Effective
      <3> HIDE DEF A1
      <3>1. Cardinality(A1 \cup {x}) = Cardinality(A1) + 1
        BY <1>5, <2>8, FS_AddElement
      <3> QED BY <1>2, <1>5, <1>9, <3>1
    <2>11. PICK r \in Decided : r.fp = f /\ r.era = era /\ r.since = s /\ s <= r.at /\ r.at <= s + Window
      <3> HIDE DEF A1
      <3>1. /\ \E r \in Decided : r.fp = f /\ r.era = era /\ r.since = s
            /\ \A r \in Decided : r.since = s => s <= r.at /\ r.at <= s + Window
        BY <1>1, <2>9, <2>10, ReportOf
      <3> QED BY <3>1
    <2>12. r.at \in Nat
      BY Types
    <2>13. r.at >= start - Window /\ r.at <= start + Window
      BY <1>2, <2>4, <2>11, <2>12
    <2> QED BY <1>8, <2>11, <2>13
  <1>10. CASE Cardinality(A2) >= Effective
    <2>1. A2 # {}
      <3> HIDE DEF A2
      <3>1. Cardinality(A2) # 0
        BY <1>2, <1>5, <1>10
      <3> QED BY <3>1, FS_EmptySet
    <2>2. PICK e \in A2 : TRUE
      BY <2>1
    <2>3. PICK s \in S : s >= start /\ In(e, s)
      BY <2>2
    <2>4. s \in Nat /\ s >= start /\ s <= start + Window
      BY <1>2, <1>3, <2>2, <2>3
    <2>5. ASSUME NEW u \in S, NEW x \in B, u >= start, In(x, u)
          PROVE  u = s
      <3>1. u \in Nat /\ x.at \in Nat /\ x.at <= start + Window /\ u >= start /\ u <= x.at
        BY <1>2, <1>3, <2>5
      <3>2. (s < u => u - s > Window) /\ (u < s => s - u > Window)
        BY <1>2
      <3> QED BY <1>2, <2>4, <3>1, <3>2
    <2>6. \A x \in A2 : x \in B /\ In(x, s)
      BY <2>5
    <2>7. A2 \subseteq InWindow(f, s)
      <3> SUFFICES ASSUME NEW x \in A2 PROVE x \in InWindow(f, s)
        OBVIOUS
      <3>1. x.at \in s .. s + Window
        BY <1>2, <1>3, <2>4, <2>6
      <3> QED BY <1>3, <2>6, <3>1 DEF InWindow, Runs
    <2>8. PICK r \in Decided : r.fp = f /\ r.era = era /\ r.since = s /\ s <= r.at /\ r.at <= s + Window
      <3> HIDE DEF A2
      <3>1. /\ \E r \in Decided : r.fp = f /\ r.era = era /\ r.since = s
            /\ \A r \in Decided : r.since = s => s <= r.at /\ r.at <= s + Window
        BY <1>1, <1>10, <2>7, ReportOf
      <3> QED BY <3>1
    <2>9. r.at \in Nat /\ r.id \in Nat /\ r.count \in Nat
      BY Types
    <2>10. r.at <= start + Window
      <3> SUFFICES ASSUME ~(r.at <= start + Window) PROVE FALSE
        OBVIOUS
      <3>1. /\ r.count <= Effective /\ Cardinality(Witnesses(r)) = r.count
            /\ \A x \in log : x.at < r.at => x.id < r.id
        BY DEF BurstInv, PromptInv, IInv, NoFalseAlarm
      <3>2. PICK y \in log : y.id = r.id /\ y.fp = r.fp /\ y.era = r.era /\ y.at = r.at
        BY DEF BurstInv, PromptInv
      <3>3. y \notin A2
        BY <1>3, <3>2
      <3>4. A2 \subseteq Witnesses(r)
        <4> SUFFICES ASSUME NEW x \in A2 PROVE x \in Witnesses(r)
          OBVIOUS
        <4>1. /\ x \in log /\ x.fp = f /\ x.era = era /\ x.at \in Nat /\ s <= x.at
              /\ x.at <= start + Window
          BY <1>3, <2>6
        <4>2. x.at < r.at
          BY <1>2, <2>9, <4>1
        <4>3. x.id < r.id /\ x.id \in Nat
          BY <3>1, <4>1, <4>2, Types
        <4>4. x.at \in r.since .. r.at /\ x.id <= r.id
          BY <2>4, <2>8, <2>9, <4>1, <4>2, <4>3
        <4> QED BY <2>8, <4>1, <4>4 DEF Witnesses
      <3>5. y \in Witnesses(r)
        <4>1. y.at \in r.since .. r.at /\ y.id <= r.id
          BY <2>4, <2>8, <2>9, <3>2
        <4> QED BY <3>2, <4>1 DEF Witnesses
      <3> DEFINE W == Witnesses(r)
      <3>6. W \subseteq log
        BY DEF Witnesses
      <3>7. A2 \cup {y} \subseteq W
        BY <3>4, <3>5
      <3> HIDE DEF A2, W
      <3>8. IsFiniteSet(W) /\ Cardinality(A2 \cup {y}) <= Cardinality(W)
        BY <1>5, <3>6, <3>7, FS_Subset
      <3>9. Cardinality(A2 \cup {y}) = Cardinality(A2) + 1
        BY <1>5, <3>3, FS_AddElement
      <3>10. Cardinality(W) = r.count /\ r.count <= Effective
        BY <3>1 DEF W
      <3> QED BY <1>2, <1>5, <1>10, <2>9, <3>8, <3>9, <3>10
    <2>11. r.at >= start - Window
      BY <1>2, <2>4, <2>8, <2>9
    <2> QED BY <1>8, <2>8, <2>10, <2>11
  <1> QED BY <1>7, <1>9, <1>10

\* A burst of 2 * Effective - 2 executions within a window's length is always
\* reported (n_plus_one.go: tumbling windows, one record per fingerprint).
THEOREM BurstDetectedHolds == Spec => []BurstDetected
PROOF
  <1>1. Init => BurstInv
    <2> SUFFICES ASSUME Init PROVE BurstInv
      OBVIOUS
    <2>1. Decided = {} /\ log = {} /\ DOMAIN queries = {}
      BY DEF Init, Decided, NoQueries, EmptyMap
    <2>2. MarkedInv /\ PromptInv
      BY <2>1 DEF MarkedInv, PromptInv
    <2>3. \A f \in Fingerprint : Windows(f, {})
      BY <2>1 DEF Windows, Runs
    <2> QED BY <2>2, <2>3 DEF BurstInv
  <1>2. IInv /\ BurstInv => BurstDetected
    <2> SUFFICES ASSUME IInv, BurstInv, NEW f \in Fingerprint, NEW start \in 0 .. MaxTime,
                        Cardinality(Burst(f, start)) >= 2 * Effective - 2
                 PROVE  ReportedNear(f, start)
      BY DEF BurstDetected
    <2>1. start \in Nat
      BY QueryTrackerAssumption
    <2> QED BY <2>1, BurstIsDetected
  <1> QED BY <1>1, <1>2, BurstStep, Invariance, PTL DEF Spec
=============================================================================
