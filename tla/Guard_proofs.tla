---------------------------- MODULE Guard_proofs ----------------------------
(***************************************************************************)
(* The Guard composes its components without breaking them: whatever the   *)
(* number of goroutines and the policies, its analysis cache, deduper and  *)
(* N+1 tracker each see only steps of their own specifications, so what is *)
(* proved of each holds inside the Guard; and on top of that a pattern's   *)
(* count is of all executions of its shape, whichever way each was         *)
(* fingerprinted, and latency is the database's.                           *)
(*                                                                         *)
(* CacheP, DedupP and TrackerP are the components with the theorems about  *)
(* them; that they are Cache, Dedup and Tracker is shown by expanding both.*)
(***************************************************************************)
EXTENDS Guard, FunctionTheorems, FiniteSetTheorems, SequenceTheorems, TLAPS

CacheP == INSTANCE AnalysisCache_proofs WITH
    NoFindings <- << >>, Capacities <- CacheSizes

DedupP == INSTANCE FindingDedup_proofs WITH
    Key <- Finding, Window <- DedupWindow, MaxKeys <- DedupKeys,
    Batches <- {Findings[q] : q \in Query} \ {<< >>},
    MaxLag <- MaxTime, pc <- reporting, calls <- batches

TrackerP == INSTANCE QueryTracker_proofs WITH
    Threshold <- N1Threshold, Window <- N1Window, MaxKeys <- N1Keys,
    None <- Nothing, MaxTracks <- MaxCalls, emitted <- warned
-----------------------------------------------------------------------------
(* What the analyzer makes of a query.                                     *)

LEMMA FindingsType ==
  /\ DOMAIN Findings = Query
  /\ \A q \in Query : Findings[q] \in Seq(Finding)
PROOF
  <1>1. DOMAIN Findings = Query
    BY DEF Findings
  <1>2. ASSUME NEW q \in Query PROVE Findings[q] \in Seq(Finding)
    <2>1. PICK n \in Nat : DOMAIN Rules[q] = 1 .. n
      BY GuardAssumption
    <2>2. DOMAIN Findings[q] = 1 .. n /\ Findings[q] = [i \in 1 .. n |-> Findings[q][i]]
      BY <2>1 DEF Findings
    <2>3. \A i \in 1 .. n : Findings[q][i] \in Finding
      BY <2>2 DEF Finding
    <2> QED BY <2>2, <2>3
  <1> QED BY <1>1, <1>2

\* The fingerprint a finding carries is the one Track would compute: Analyze
\* redacts for the dialect the tracker's fingerprint function redacts for
\* (analyzer.go: PrepareQuery; redact.go: Analyzer.Fingerprint).
LEMMA OneFingerprint ==
  ASSUME NEW q \in Query
  PROVE  /\ Normalized(q) = Shape[q] /\ Shape[q] \in Fingerprint
         /\ Len(Findings[q]) > 0 => Findings[q][1].fingerprint = Shape[q]
PROOF
  <1>1. Normalized(q) = Shape[q] /\ Shape[q] = PrepareQuery(q)
    BY DEF Normalized, Shape, PrepareQuery
  <1>2. Shape[q] \in Fingerprint
    BY <1>1, GuardAssumption DEF PrepareQuery
  <1>3. ASSUME Len(Findings[q]) > 0 PROVE Findings[q][1].fingerprint = PrepareQuery(q)
    <2>1. 1 \in DOMAIN Findings[q]
      BY <1>3, FindingsType
    <2> QED BY <2>1 DEF Findings
  <1> QED BY <1>1, <1>2, <1>3
-----------------------------------------------------------------------------
(* The analysis cache.                                                     *)

LEMMA SameCacheInv == Cache!IInv <=> CacheP!IInv
PROOF
  BY DEF Cache!IInv, CacheP!IInv, Cache!TypeOK, CacheP!TypeOK, Cache!ResultList, CacheP!ResultList,
         Cache!ListMapAgree, CacheP!ListMapAgree, Cache!NoDuplicates, CacheP!NoDuplicates,
         Cache!Elements, CacheP!Elements, Cache!Bounded, CacheP!Bounded, Cache!Caching, CacheP!Caching,
         Cache!Coherent, CacheP!Coherent, Cache!HeldInv, CacheP!HeldInv, Cache!PutInv, CacheP!PutInv,
         Cache!LeastRecentlyUsedEvicted, CacheP!LeastRecentlyUsedEvicted, Cache!Recent, CacheP!Recent

LEMMA SameCacheSpec == Cache!Spec <=> CacheP!Spec
PROOF
  <1>1. Cache!Init <=> CacheP!Init
    BY DEF Cache!Init, CacheP!Init, Cache!EmptyMap, CacheP!EmptyMap
  <1>2. Cache!Next <=> CacheP!Next
    <2> USE DEF Cache!Caching, CacheP!Caching, Cache!KeyOf, CacheP!KeyOf
    <2>1. \A t : (Cache!Hit(t) <=> CacheP!Hit(t)) /\ (Cache!Miss(t) <=> CacheP!Miss(t))
      BY DEF Cache!Hit, CacheP!Hit, Cache!Miss, CacheP!Miss, Cache!Cached, CacheP!Cached,
             Cache!Used, CacheP!Used, Cache!MoveToFront, CacheP!MoveToFront, Cache!Touch, CacheP!Touch,
             Cache!Elements, CacheP!Elements, Cache!PushFront, CacheP!PushFront
    <2>2. \A t : (Cache!Analyze(t) <=> CacheP!Analyze(t)) /\ (Cache!Return(t) <=> CacheP!Return(t))
      BY DEF Cache!Analyze, CacheP!Analyze, Cache!Return, CacheP!Return
    <2>3. \A t : Cache!Refresh(t) <=> CacheP!Refresh(t)
      BY DEF Cache!Refresh, CacheP!Refresh, Cache!MoveToFront, CacheP!MoveToFront, Cache!Touch,
             CacheP!Touch, Cache!Elements, CacheP!Elements, Cache!PushFront, CacheP!PushFront,
             Cache!Put, CacheP!Put
    <2>4. \A t : Cache!Store(t) <=> CacheP!Store(t)
      BY DEF Cache!Store, CacheP!Store, Cache!MoveToFront, CacheP!MoveToFront, Cache!Touch,
             CacheP!Touch, Cache!Elements, CacheP!Elements, Cache!PushFront, CacheP!PushFront,
             Cache!Put, CacheP!Put, Cache!RemoveBack, CacheP!RemoveBack, Cache!Back, CacheP!Back,
             Cache!Forget, CacheP!Forget, Cache!Delete, CacheP!Delete, Cache!Restrict, CacheP!Restrict
    <2>5. \A t, q : Cache!Call(t, q) <=> CacheP!Call(t, q)
      BY DEF Cache!Call, CacheP!Call
    <2>6. Cache!Done <=> CacheP!Done
      BY DEF Cache!Done, CacheP!Done, Cache!vars, CacheP!vars
    <2> QED BY <2>1, <2>2, <2>3, <2>4, <2>5, <2>6, Zenon DEF Cache!Next, CacheP!Next, Cache!Work, CacheP!Work
  <1>3. [Cache!Next]_(Cache!vars) <=> [CacheP!Next]_(CacheP!vars)
    BY <1>2 DEF Cache!vars, CacheP!vars
  <1> QED BY <1>1, <1>3, PTL DEF Cache!Spec, CacheP!Spec
-----------------------------------------------------------------------------
(* The deduper.                                                            *)

LEMMA SameDedupSets ==
  /\ \A S : Dedup!Cardinality(S) = Cardinality(S) /\ DedupP!Cardinality(S) = Cardinality(S)
  /\ \A S : Dedup!IsFiniteSet(S) = IsFiniteSet(S) /\ DedupP!IsFiniteSet(S) = IsFiniteSet(S)
  /\ \A m : Dedup!Size(m) = Cardinality(DOMAIN m) /\ DedupP!Size(m) = Cardinality(DOMAIN m)
PROOF
  <1>1. \A S : Dedup!Cardinality(S) = Cardinality(S)
    BY DEF Dedup!Cardinality, Cardinality
  <1>2. \A S : DedupP!Cardinality(S) = Cardinality(S)
    BY DEF DedupP!Cardinality, Cardinality
  <1>3. \A S : Dedup!IsFiniteSet(S) = IsFiniteSet(S) /\ DedupP!IsFiniteSet(S) = IsFiniteSet(S)
    BY DEF Dedup!IsFiniteSet, DedupP!IsFiniteSet, IsFiniteSet
  <1> QED BY <1>1, <1>2, <1>3 DEF Dedup!Size, DedupP!Size

LEMMA SameDedupInv == Dedup!IInv <=> DedupP!IInv
PROOF
  <1>1. Dedup!Enabled <=> DedupP!Enabled
    BY DEF Dedup!Enabled, DedupP!Enabled
  <1> QED
    BY <1>1, SameDedupSets DEF Dedup!IInv, DedupP!IInv, Dedup!TypeOK, DedupP!TypeOK, Dedup!SeenMap, DedupP!SeenMap,
           Dedup!Bounded, DedupP!Bounded, Dedup!LagInv, DedupP!LagInv,
           Dedup!SeenInv, DedupP!SeenInv, Dedup!EvictedInv, DedupP!EvictedInv

LEMMA SameDedupSpec == Dedup!Spec <=> DedupP!Spec
PROOF
  <1>1. Dedup!Init <=> DedupP!Init
    BY DEF Dedup!Init, DedupP!Init, Dedup!NewSeen, DedupP!NewSeen, Dedup!EmptyMap, DedupP!EmptyMap
  <1>2. Dedup!Next <=> DedupP!Next
    <2> USE DEF Dedup!Enabled, DedupP!Enabled, Dedup!history, DedupP!history
    <2>1. \A s, n : Dedup!MakeRoom(s, n) = DedupP!MakeRoom(s, n)
      BY SameDedupSets
      DEF Dedup!MakeRoom, DedupP!MakeRoom, Dedup!EvictExpired, DedupP!EvictExpired,
          Dedup!Restrict, DedupP!Restrict
    <2>2. \A s, k, n : Dedup!Allows(s, k, n) <=> DedupP!Allows(s, k, n)
      BY <2>1, SameDedupSets
      DEF Dedup!Allows, DedupP!Allows, Dedup!Dropped, DedupP!Dropped, Dedup!Due, DedupP!Due
    <2>3. \A s, k, n : Dedup!SeenAfter(s, k, n) = DedupP!SeenAfter(s, k, n)
      BY <2>1, <2>2 DEF Dedup!SeenAfter, DedupP!SeenAfter, Dedup!Put, DedupP!Put
    <2>4. \A t : (Dedup!Admit(t) <=> DedupP!Admit(t)) /\ (Dedup!Suppress(t) <=> DedupP!Suppress(t))
      BY <2>2, <2>3 DEF Dedup!Admit, DedupP!Admit, Dedup!Suppress, DedupP!Suppress, Dedup!Keep, DedupP!Keep
    <2>5. \A t : (Dedup!Emit(t) <=> DedupP!Emit(t)) /\ (Dedup!Return(t) <=> DedupP!Return(t))
      BY SameDedupSets DEF Dedup!Emit, DedupP!Emit, Dedup!Return, DedupP!Return, Dedup!WorthReporting, DedupP!WorthReporting,
             Dedup!Copies, DedupP!Copies
    <2>6. \A t, b : Dedup!Begin(t, b) <=> DedupP!Begin(t, b)
      BY DEF Dedup!Begin, DedupP!Begin
    <2>7. Dedup!Tick <=> DedupP!Tick
      BY DEF Dedup!Tick, DedupP!Tick
    <2>8. Dedup!Done <=> DedupP!Done
      BY DEF Dedup!Done, DedupP!Done, Dedup!vars, DedupP!vars
    <2> QED BY <2>4, <2>5, <2>6, <2>7, <2>8, Zenon DEF Dedup!Next, DedupP!Next, Dedup!Work, DedupP!Work
  <1>3. [Dedup!Next]_(Dedup!vars) <=> [DedupP!Next]_(DedupP!vars)
    BY <1>2 DEF Dedup!vars, DedupP!vars, Dedup!history, DedupP!history
  <1> QED BY <1>1, <1>3, PTL DEF Dedup!Spec, DedupP!Spec
-----------------------------------------------------------------------------
(* The N+1 tracker.                                                        *)

LEMMA SameTrackerSets ==
  /\ \A S : Tracker!Cardinality(S) = Cardinality(S) /\ TrackerP!Cardinality(S) = Cardinality(S)
  /\ \A S : Tracker!IsFiniteSet(S) = IsFiniteSet(S) /\ TrackerP!IsFiniteSet(S) = IsFiniteSet(S)
  /\ \A m : Tracker!Size(m) = Cardinality(DOMAIN m) /\ TrackerP!Size(m) = Cardinality(DOMAIN m)
PROOF
  <1>1. \A S : Tracker!Cardinality(S) = Cardinality(S)
    BY DEF Tracker!Cardinality, Cardinality
  <1>2. \A S : TrackerP!Cardinality(S) = Cardinality(S)
    BY DEF TrackerP!Cardinality, Cardinality
  <1>3. \A S : Tracker!IsFiniteSet(S) = IsFiniteSet(S) /\ TrackerP!IsFiniteSet(S) = IsFiniteSet(S)
    BY DEF Tracker!IsFiniteSet, TrackerP!IsFiniteSet, IsFiniteSet
  <1> QED BY <1>1, <1>2, <1>3 DEF Tracker!Size, TrackerP!Size

LEMMA SameTrackerInv == Tracker!IInv <=> TrackerP!IInv
PROOF
  <1> USE DEF Tracker!Report, TrackerP!Report
  <1>1. Tracker!Decided = TrackerP!Decided
    BY DEF Tracker!Decided, TrackerP!Decided
  <1>2. Tracker!TypeOK <=> TrackerP!TypeOK
    BY DEF Tracker!TypeOK, TrackerP!TypeOK, Tracker!QueryMap, TrackerP!QueryMap,
           Tracker!QueryRecord, TrackerP!QueryRecord, Tracker!Execution, TrackerP!Execution
  <1>3. (Tracker!Bounded <=> TrackerP!Bounded) /\ (Tracker!LogInv <=> TrackerP!LogInv)
    BY SameTrackerSets DEF Tracker!Bounded, TrackerP!Bounded, Tracker!LogInv, TrackerP!LogInv
  <1>4. (Tracker!CoverInv <=> TrackerP!CoverInv) /\ (Tracker!BelowInv <=> TrackerP!BelowInv)
    BY DEF Tracker!CoverInv, TrackerP!CoverInv, Tracker!BelowInv, TrackerP!BelowInv,
           Tracker!Effective, TrackerP!Effective
  <1>5. Tracker!CountExact <=> TrackerP!CountExact
    BY SameTrackerSets DEF Tracker!CountExact, TrackerP!CountExact, Tracker!Epoch, TrackerP!Epoch
  <1>6. Tracker!DecidedInv <=> TrackerP!DecidedInv
    BY <1>1, SameTrackerSets DEF Tracker!DecidedInv, TrackerP!DecidedInv
  <1>7. Tracker!NoFalseAlarm <=> TrackerP!NoFalseAlarm
    BY <1>1, SameTrackerSets DEF Tracker!NoFalseAlarm, TrackerP!NoFalseAlarm, Tracker!Witnesses, TrackerP!Witnesses
  <1>8. Tracker!OneReportPerWindow <=> TrackerP!OneReportPerWindow
    BY <1>1 DEF Tracker!OneReportPerWindow, TrackerP!OneReportPerWindow
  <1> QED
    BY <1>2, <1>3, <1>4, <1>5, <1>6, <1>7, <1>8, SameTrackerSets DEF Tracker!IInv, TrackerP!IInv

LEMMA SameTrackerSpec == Tracker!Spec <=> TrackerP!Spec
PROOF
  <1>1. Tracker!Init <=> TrackerP!Init
    BY DEF Tracker!Init, TrackerP!Init, Tracker!NoQueries, TrackerP!NoQueries,
           Tracker!EmptyMap, TrackerP!EmptyMap
  <1>2. Tracker!Next <=> TrackerP!Next
    <2>1. \A q, n : Tracker!MakeRoom(q, n) = TrackerP!MakeRoom(q, n)
      BY SameTrackerSets
      DEF Tracker!MakeRoom, TrackerP!MakeRoom, Tracker!EvictExpired, TrackerP!EvictExpired,
          Tracker!Restrict, TrackerP!Restrict, Tracker!Expired, TrackerP!Expired
    <2>2. \A q, f, n : Tracker!Dropped(q, f, n) <=> TrackerP!Dropped(q, f, n)
      BY <2>1, SameTrackerSets DEF Tracker!Dropped, TrackerP!Dropped
    <2>3. \A q, f, n : Tracker!StartsEpoch(q, f, n) <=> TrackerP!StartsEpoch(q, f, n)
      BY <2>1 DEF Tracker!StartsEpoch, TrackerP!StartsEpoch, Tracker!Expired, TrackerP!Expired
    <2>4. \A q, f, n : Tracker!Reports(q, f, n) <=> TrackerP!Reports(q, f, n)
      BY <2>1, <2>2, <2>3 DEF Tracker!Reports, TrackerP!Reports, Tracker!ShouldReport, TrackerP!ShouldReport
    <2>5. \A q, f, n : Tracker!QueriesAfter(q, f, n) = TrackerP!QueriesAfter(q, f, n)
      <3>1. \A rec : Tracker!Counted(rec) = TrackerP!Counted(rec)
        BY DEF Tracker!Counted, TrackerP!Counted, Tracker!ShouldReport, TrackerP!ShouldReport
      <3>2. \A m, f, r : Tracker!Put(m, f, r) = TrackerP!Put(m, f, r)
        BY DEF Tracker!Put, TrackerP!Put
      <3>3. \A n : Tracker!FirstRecord(n) = TrackerP!FirstRecord(n)
        BY DEF Tracker!FirstRecord, TrackerP!FirstRecord
      <3> QED
        BY <2>1, <2>2, <2>3, <3>1, <3>2, <3>3 DEF Tracker!QueriesAfter, TrackerP!QueriesAfter
    <2>6. \A t, f : Tracker!Track(t, f) <=> TrackerP!Track(t, f)
      BY <2>2, <2>4, <2>5, SameTrackerSets DEF Tracker!Track, TrackerP!Track, Tracker!TrackDropped, TrackerP!TrackDropped,
             Tracker!TrackQuietly, TrackerP!TrackQuietly, Tracker!TrackAndReport, TrackerP!TrackAndReport,
             Tracker!ThisExecution, TrackerP!ThisExecution
    <2>7. \A t : (Tracker!Emit(t) <=> TrackerP!Emit(t)) /\ (Tracker!Reset(t) <=> TrackerP!Reset(t))
      BY DEF Tracker!Emit, TrackerP!Emit, Tracker!Reset, TrackerP!Reset, Tracker!Delivered, TrackerP!Delivered,
             Tracker!NoQueries, TrackerP!NoQueries, Tracker!EmptyMap, TrackerP!EmptyMap
    <2>8. (Tracker!Tick <=> TrackerP!Tick) /\ (Tracker!Done <=> TrackerP!Done)
      BY DEF Tracker!Tick, TrackerP!Tick, Tracker!Done, TrackerP!Done, Tracker!vars, TrackerP!vars
    <2> QED BY <2>6, <2>7, <2>8, Zenon DEF Tracker!Next, TrackerP!Next
  <1>3. [Tracker!Next]_(Tracker!vars) <=> [TrackerP!Next]_(TrackerP!vars)
    BY <1>2 DEF Tracker!vars, TrackerP!vars
  <1> QED BY <1>1, <1>3, PTL DEF Tracker!Spec, TrackerP!Spec
-----------------------------------------------------------------------------
(* The composition.                                                        *)

LEMMA CacheStep == [Next]_vars => [Cache!Next]_(Cache!vars)
PROOF
  <1> SUFFICES ASSUME [Next]_vars PROVE [Cache!Next]_(Cache!vars)
    OBVIOUS
  <1>2. (\E t \in Thread : Cache!Work(t) \/ \E q \in Query : Cache!Call(t, q)) => Cache!Next
    BY DEF Cache!Next
  <1>3. CASE Tick
    BY <1>3 DEF Cache!vars, Tick, cache
  <1>4. CASE \E t \in Thread, q \in Query : Observe(t, q)
    BY <1>2, <1>4 DEF Observe
  <1>5. CASE \E t \in Thread : LookUp(t) \/ ReportFindings(t) \/ FoundNothing(t)
    BY <1>2, <1>5, Zenon DEF LookUp, ReportFindings, FoundNothing, Cache!Work
  <1>6. CASE \E t \in Thread : \/ Deduplicate(t) \/ Reported(t) \/ Track(t) \/ NoTracker(t) \/ Warn(t)
                               \/ Execute(t) \/ Succeed(t) \/ Fail(t) \/ ResetN1(t)
    BY <1>6 DEF Cache!vars, Deduplicate, Reported, Track, NoTracker, Warn, Execute, Succeed, Fail, ResetN1, cache
  <1>7. CASE UNCHANGED vars
    BY <1>7 DEF Cache!vars, vars, cache
  <1>8. CASE Done
    BY <1>7, <1>8 DEF Done
  <1> QED
    BY <1>3, <1>4, <1>5, <1>6, <1>7, <1>8, Zenon DEF Next, Work

LEMMA CacheKept == Spec => []Cache!IInv
PROOF
  <1>1. CacheP!Spec => []CacheP!IInv
    BY CacheP!Invariance, GuardAssumption, NothingAssumption, FindingsType
  <1>2. Spec => Cache!Spec
    BY CacheStep, PTL DEF Spec, Init, Cache!Spec
  <1> QED BY <1>1, <1>2, SameCacheSpec, SameCacheInv, PTL

\* What a goroutine that has its findings asked about, and got.
LEMMA Held ==
  ASSUME Cache!IInv, NEW t \in Thread
  PROVE  /\ query[t] \in Query
         /\ pc[t] = "return" => results[t] = Findings[query[t]]
PROOF
  BY DEF Cache!IInv, Cache!TypeOK, Cache!HeldInv

\* Where each goroutine is in Check, and what it has found there.
Located ==
    /\ stage \in [Thread -> {"idle", "analyze", "report", "track", "warn",
                             "checked", "running"}]
    /\ FoundInv

LEMMA LocatedStep ==
  ASSUME Located, Cache!IInv, [Next]_vars
  PROVE  Located'
PROOF
  <1> DEFINE S == {"idle", "analyze", "report", "track", "warn", "checked", "running"}
             list(s, q) == IF s \in {"report", "track"} THEN Findings[q] ELSE << >>
  <1>0. /\ stage \in [Thread -> S]
        /\ found = [t \in Thread |-> list(stage[t], query[t])]
        /\ query = [t \in Thread |-> query[t]]
    BY Zenon DEF Located, FoundInv, Cache!IInv, Cache!TypeOK
  <1>q. SUFFICES /\ stage' \in [Thread -> S]
                 /\ found' = [t \in Thread |-> list(stage'[t], query'[t])]
    BY DEF Located, FoundInv
  \* A step of t that leaves it with the list l at stage s, asking about q.
  <1>m. ASSUME NEW t \in Thread, NEW s \in S, NEW q, NEW l,
               stage' = [stage EXCEPT ![t] = s], query' = [query EXCEPT ![t] = q],
               found' = [found EXCEPT ![t] = l], l = list(s, q)
        PROVE  /\ stage' \in [Thread -> S]
               /\ found' = [u \in Thread |-> list(stage'[u], query'[u])]
    <2>1. /\ stage' \in [Thread -> S] /\ stage'[t] = s /\ query'[t] = q
          /\ \A u \in Thread \ {t} : stage'[u] = stage[u] /\ query'[u] = query[u]
      BY <1>0, <1>m
    <2> HIDE DEF S, list
    <2>2. found' = [u \in Thread |-> IF u = t THEN l ELSE list(stage[u], query[u])]
      BY <1>0, <1>m
    <2> QED BY <2>1, <2>2, <1>m
  <1>u. ASSUME NEW t \in Thread PROVE query = [query EXCEPT ![t] = query[t]]
    BY <1>0
  <1>f. ASSUME NEW t \in Thread PROVE found = [found EXCEPT ![t] = list(stage[t], query[t])]
    BY <1>0
  <1>g. ASSUME NEW t \in Thread, NEW s \in S, stage' = [stage EXCEPT ![t] = s],
               UNCHANGED <<found, query>>, list(stage[t], query[t]) = list(s, query[t])
        PROVE  /\ stage' \in [Thread -> S]
               /\ found' = [u \in Thread |-> list(stage'[u], query'[u])]
    <2> HIDE DEF S, list
    <2> QED BY <1>g, <1>m, <1>u, <1>f
  <1>e. ASSUME UNCHANGED <<stage, found, query>>
        PROVE  /\ stage' \in [Thread -> S]
               /\ found' = [u \in Thread |-> list(stage'[u], query'[u])]
    BY <1>0, <1>e
  <1>1. ASSUME NEW t \in Thread, NEW q \in Query, Observe(t, q)
        PROVE  /\ stage' \in [Thread -> S]
               /\ found' = [u \in Thread |-> list(stage'[u], query'[u])]
    <2>1. /\ stage[t] = "idle" /\ stage' = [stage EXCEPT ![t] = "analyze"]
          /\ query' = [query EXCEPT ![t] = q] /\ found' = found
      BY <1>1 DEF Observe, Cache!Call, Goto
    <2>2. list(stage[t], query[t]) = list("analyze", q)
      BY <2>1
    <2>3. "analyze" \in S
      OBVIOUS
    <2> HIDE DEF S, list
    <2> QED BY <2>1, <2>2, <2>3, <1>m, <1>f
  <1>2. ASSUME NEW t \in Thread, ReportFindings(t) \/ FoundNothing(t)
        PROVE  /\ stage' \in [Thread -> S]
               /\ found' = [u \in Thread |-> list(stage'[u], query'[u])]
    <2>1. /\ pc[t] = "return" /\ query' = query
          /\ found' = [found EXCEPT ![t] = results[t]]
      BY <1>2 DEF ReportFindings, FoundNothing, Cache!Return
    <2>2. PICK s \in {"report", "track"} : stage' = [stage EXCEPT ![t] = s]
      BY <1>2 DEF ReportFindings, FoundNothing, Goto
    <2>3. s \in S /\ results[t] = list(s, query[t])
      BY <2>1, <2>2, Held
    <2> HIDE DEF S, list
    <2> QED BY <2>1, <2>2, <2>3, <1>m, <1>u
  <1>3. ASSUME NEW t \in Thread, Track(t) \/ NoTracker(t)
        PROVE  /\ stage' \in [Thread -> S]
               /\ found' = [u \in Thread |-> list(stage'[u], query'[u])]
    <2>1. query' = query /\ found' = [found EXCEPT ![t] = << >>]
      BY <1>3 DEF Track, NoTracker, cache
    <2>2. PICK s \in {"checked", "warn"} : stage' = [stage EXCEPT ![t] = s]
      BY <1>3 DEF Track, NoTracker, Goto
    <2>3. s \in S /\ << >> = list(s, query[t])
      BY <2>2
    <2> HIDE DEF S, list
    <2> QED BY <2>1, <2>2, <2>3, <1>m, <1>u
  <1>4. ASSUME NEW t \in Thread, Reported(t)
        PROVE  /\ stage' \in [Thread -> S]
               /\ found' = [u \in Thread |-> list(stage'[u], query'[u])]
    <2>1. /\ stage[t] = "report" /\ stage' = [stage EXCEPT ![t] = "track"]
          /\ UNCHANGED <<found, query>>
      BY <1>4 DEF Reported, Goto, cache
    <2>2. "track" \in S /\ list(stage[t], query[t]) = list("track", query[t])
      BY <2>1
    <2> HIDE DEF S, list
    <2> QED BY <2>1, <2>2, <1>g
  <1>5. ASSUME NEW t \in Thread, Warn(t) \/ Execute(t) \/ Succeed(t) \/ Fail(t)
        PROVE  /\ stage' \in [Thread -> S]
               /\ found' = [u \in Thread |-> list(stage'[u], query'[u])]
    <2>1. stage[t] \in {"warn", "checked", "running"} /\ UNCHANGED <<found, query>>
      BY <1>5, <1>0 DEF Warn, Execute, Succeed, Fail, Tracker!Emit, cache
    <2>2. PICK s \in {"checked", "running", "idle"} : stage' = [stage EXCEPT ![t] = s]
      BY <1>5 DEF Warn, Execute, Succeed, Fail, Goto
    <2>3. s \in S /\ list(stage[t], query[t]) = list(s, query[t])
      BY <2>1, <2>2
    <2> HIDE DEF S, list
    <2> QED BY <2>1, <2>2, <2>3, <1>g
  <1>6. ASSUME NEW t \in Thread, LookUp(t) \/ Deduplicate(t) \/ ResetN1(t)
        PROVE  UNCHANGED <<stage, found, query>>
    BY <1>6 DEF LookUp, Deduplicate, ResetN1, Cache!Hit, Cache!Miss, Cache!Analyze, Cache!Refresh, Cache!Store, cache
  <1>7. CASE Tick \/ Done \/ UNCHANGED vars
    BY <1>7, <1>e DEF Tick, Done, vars, cache
  <1> HIDE DEF S, list
  <1> QED
    BY <1>1, <1>2, <1>3, <1>4, <1>5, <1>6, <1>7, <1>e, Zenon DEF Next, Work

LEMMA LocatedKept == Spec => []Located
PROOF
  <1>1. Init => Located
    BY DEF Init, Located, FoundInv
  <1>2. Located /\ Cache!IInv /\ [Next]_vars => Located'
    BY LocatedStep
  <1> QED BY <1>1, <1>2, CacheKept, PTL DEF Spec

\* Both branches of Check count a query under its shape (guard.go: Check).
LEMMA CountedByShape ==
  ASSUME Located, Cache!IInv, NEW t \in Thread, stage[t] = "track"
  PROVE  CountedAs(t) = Shape[query[t]] /\ CountedAs(t) \in Fingerprint
PROOF
  <1>1. found[t] = Findings[query[t]] /\ query[t] \in Query
    BY Held DEF Located, FoundInv
  <1> QED BY <1>1, OneFingerprint DEF CountedAs

LEMMA DedupStep == Cache!IInv /\ [Next]_vars => [Dedup!Next]_(Dedup!vars)
PROOF
  <1> SUFFICES ASSUME Cache!IInv, [Next]_vars PROVE [Dedup!Next]_(Dedup!vars)
    OBVIOUS
  <1>2. CASE Tick
    BY <1>2 DEF Tick, Dedup!Next
  <1>3. CASE \E t \in Thread : ReportFindings(t)
    <2>1. PICK t \in Thread : ReportFindings(t)
      BY <1>3
    <2>2. Dedup!Begin(t, results[t]) /\ Len(results[t]) > 0 /\ pc[t] = "return"
      BY <2>1 DEF ReportFindings, Cache!Return
    <2>3. results[t] = Findings[query[t]] /\ query[t] \in Query
      BY <2>2, Held
    <2>4. results[t] # << >>
      BY <2>2
    <2> QED BY <2>2, <2>3, <2>4 DEF Dedup!Next
  <1>4. CASE \E t \in Thread : Deduplicate(t) \/ Reported(t)
    BY <1>4, Zenon DEF Deduplicate, Reported, Dedup!Next, Dedup!Work
  <1>5. CASE \E t \in Thread : \/ FoundNothing(t) \/ Track(t) \/ NoTracker(t) \/ LookUp(t)
                               \/ Execute(t) \/ Succeed(t) \/ Fail(t) \/ \E q \in Query : Observe(t, q)
    BY <1>5 DEF Dedup!vars, FoundNothing, Track, NoTracker, LookUp, Execute, Succeed, Fail, Observe, dedup
  <1>6. CASE \E t \in Thread : Warn(t) \/ ResetN1(t)
    BY <1>6 DEF Dedup!vars, Warn, ResetN1, dedup, Tracker!Emit, Tracker!Reset
  <1>7. CASE UNCHANGED vars
    BY <1>7 DEF Dedup!vars, vars, dedup
  <1>8. CASE Done
    BY <1>7, <1>8 DEF Done
  <1> QED
    BY <1>2, <1>3, <1>4, <1>5, <1>6, <1>7, <1>8, Zenon DEF Next, Work

LEMMA DedupKept == Spec => Dedup!Spec /\ []Dedup!IInv
PROOF
  <1>1. DedupP!Spec => []DedupP!IInv
    BY DedupP!Invariance, GuardAssumption, FindingsType
  <1>2. Spec => Dedup!Spec
    BY CacheKept, DedupStep, PTL DEF Spec, Init, Dedup!Spec
  <1> QED BY <1>1, <1>2, SameDedupSpec, SameDedupInv, PTL

LEMMA TrackerStep == Located /\ Cache!IInv /\ [Next]_vars => [Tracker!Next]_(Tracker!vars)
PROOF
  <1> SUFFICES ASSUME Located, Cache!IInv, [Next]_vars PROVE [Tracker!Next]_(Tracker!vars)
    OBVIOUS
  <1>2. CASE Tick
    BY <1>2 DEF Tick, Dedup!Tick, Tracker!Tick, Tracker!Next, tracker
  <1>3. CASE \E t \in Thread : Track(t)
    BY <1>3, CountedByShape, Zenon DEF Track, Tracker!Next
  <1>4. CASE \E t \in Thread : Warn(t) \/ ResetN1(t)
    BY <1>4, Zenon DEF Warn, ResetN1, Tracker!Next
  <1>5. CASE \E t \in Thread : \/ FoundNothing(t) \/ NoTracker(t) \/ LookUp(t)
                               \/ Execute(t) \/ Succeed(t) \/ Fail(t) \/ \E q \in Query : Observe(t, q)
    BY <1>5 DEF Tracker!vars, FoundNothing, NoTracker, LookUp, Execute, Succeed, Fail, Observe, tracker
  <1>6. CASE \E t \in Thread : ReportFindings(t) \/ Deduplicate(t) \/ Reported(t)
    BY <1>6 DEF Tracker!vars, ReportFindings, Deduplicate, Reported, tracker, Dedup!Begin, Dedup!Admit, Dedup!Suppress,
                      Dedup!Emit, Dedup!Return
  <1>7. CASE UNCHANGED vars
    BY <1>7 DEF Tracker!vars, vars, tracker
  <1>8. CASE Done
    BY <1>7, <1>8 DEF Done
  <1> QED
    BY <1>2, <1>3, <1>4, <1>5, <1>6, <1>7, <1>8, Zenon DEF Next, Work

LEMMA TrackerKept == Spec => Tracker!Spec /\ []Tracker!IInv
PROOF
  <1>1. TrackerP!Spec => []TrackerP!IInv
    BY TrackerP!Invariance, GuardAssumption, NothingIsNoReport DEF Tracker!Report, TrackerP!Report
  <1>2. Spec => Tracker!Spec
    BY CacheKept, LocatedKept, TrackerStep, PTL DEF Spec, Init, Tracker!Spec
  <1> QED BY <1>1, <1>2, SameTrackerSpec, SameTrackerInv, PTL

\* Inside the Guard each component behaves as its own specification says,
\* whatever the other two and the goroutines do (guard.go: Check, analyze,
\* report, Observe, ResetN1).
THEOREM Composition == Spec => Cache!Spec /\ Dedup!Spec /\ Tracker!Spec
PROOF
  <1>1. Spec => Cache!Spec
    BY CacheStep, PTL DEF Spec, Init, Cache!Spec
  <1> QED BY <1>1, DedupKept, TrackerKept, PTL
-----------------------------------------------------------------------------
(* The Guard's own part of the invariant.                                  *)

Own ==
    /\ profile \in [n1 : BOOLEAN, slow : BOOLEAN]
    /\ stage \in [Thread -> {"idle", "analyze", "report", "track", "warn",
                             "checked", "running"}]
    /\ start \in [Thread -> Nat] /\ slow \in Nat
    /\ executions \in Seq([query : Query, at : Nat, era : Nat])
    /\ StagesAgree
    /\ start = sent

LEMMA InitOwn == Init => Own /\ ExecutionsLogged
PROOF
  <1> SUFFICES ASSUME Init PROVE Own /\ ExecutionsLogged
    OBVIOUS
  <1>1. Own
    BY GuardAssumption DEF Init, Own, StagesAgree, Cache!Init, Dedup!Init, Tracker!Init
  <1>2. ExecutionsLogged
    BY FS_EmptySet DEF Init, Tracker!Init, ExecutionsLogged
  <1> QED BY <1>1, <1>2

\* What one step of a goroutine does to the stages and the timing of all.
LEMMA OwnStep ==
  ASSUME Own, Cache!IInv, Dedup!IInv, Tracker!IInv, [Next]_vars
  PROVE  Own'
PROOF
  <1> USE DEF Own, StagesAgree, Goto
  <1>0. /\ pc \in [Thread -> {"idle", "get", "analyze", "put", "return"}]
        /\ reporting \in [Thread -> {"idle", "dedup"}]
        /\ pending = [t \in Thread |-> pending[t]]
        /\ clock \in Nat /\ era \in Nat
    BY Zenon DEF Cache!IInv, Cache!TypeOK, Dedup!IInv, Dedup!TypeOK, Tracker!IInv, Tracker!TypeOK
  <1>1. CASE Tick
    BY <1>1 DEF Tick, Dedup!Tick, timing, cache, tracker
  <1>2. ASSUME NEW t \in Thread, NEW q \in Query, Observe(t, q) PROVE Own'
    BY <1>0, <1>2 DEF Observe, Cache!Call, timing, dedup, tracker
  <1>3. ASSUME NEW t \in Thread, LookUp(t) PROVE Own'
    BY <1>0, <1>3 DEF LookUp, Cache!Hit, Cache!Miss, Cache!Analyze, Cache!Refresh, Cache!Store, timing, dedup, tracker
  <1>4. ASSUME NEW t \in Thread, ReportFindings(t) PROVE Own'
    BY <1>0, <1>4 DEF ReportFindings, Cache!Return, Dedup!Begin, timing, tracker
  <1>5. ASSUME NEW t \in Thread, FoundNothing(t) PROVE Own'
    BY <1>0, <1>5 DEF FoundNothing, Cache!Return, timing, dedup, tracker
  <1>6. ASSUME NEW t \in Thread, Deduplicate(t) PROVE Own'
    BY <1>0, <1>6 DEF Deduplicate, Dedup!Admit, Dedup!Suppress, timing, cache, tracker
  <1>7. ASSUME NEW t \in Thread, Reported(t) PROVE Own'
    BY <1>0, <1>7 DEF Reported, Dedup!Emit, Dedup!Return, timing, cache, tracker
  <1>8. ASSUME NEW t \in Thread, Track(t) PROVE Own'
    <2>1. \A u \in Thread : u # t => pending'[u] = pending[u]
      BY <1>0, <1>8 DEF Track, Tracker!Track, Tracker!TrackDropped, Tracker!TrackQuietly, Tracker!TrackAndReport
    <2>2. stage' = [stage EXCEPT ![t] = IF pending'[t] = Nothing THEN "checked" ELSE "warn"]
      BY <1>8 DEF Track
    <2>3. executions' \in Seq([query : Query, at : Nat, era : Nat])
      <3>1. [query |-> query[t], at |-> clock, era |-> era] \in [query : Query, at : Nat, era : Nat]
        BY <1>0, Held
      <3>2. \/ executions' = executions
            \/ executions' = Append(executions, [query |-> query[t], at |-> clock, era |-> era])
        BY <1>8 DEF Track
      <3>3. ASSUME NEW S, NEW e \in S, executions \in Seq(S) PROVE Append(executions, e) \in Seq(S)
        BY <3>3, AppendProperties
      <3>4. executions \in Seq([query : Query, at : Nat, era : Nat])
        OBVIOUS
      <3>5. Append(executions, [query |-> query[t], at |-> clock, era |-> era])
              \in Seq([query : Query, at : Nat, era : Nat])
        BY <3>1, <3>3, <3>4
      <3> QED BY <3>2, <3>4, <3>5
    <2>4. stage[t] = "track" /\ UNCHANGED <<profile, start, slow, sent, pc, reporting>>
      BY <1>8 DEF Track, timing, cache, dedup
    <2> QED BY <2>1, <2>2, <2>3, <2>4
  <1>9. ASSUME NEW t \in Thread, NoTracker(t) PROVE Own'
    BY <1>0, <1>9 DEF NoTracker, timing, cache, dedup, tracker
  <1>10. ASSUME NEW t \in Thread, Warn(t) PROVE Own'
    BY <1>0, <1>10 DEF Warn, Tracker!Emit, timing, cache, dedup
  <1>11. ASSUME NEW t \in Thread, Execute(t) PROVE Own'
    <2>1. /\ start' = [start EXCEPT ![t] = clock]
          /\ sent' = [sent EXCEPT ![t] = clock]
          /\ stage' = [stage EXCEPT ![t] = "running"]
          /\ stage[t] = "checked"
          /\ UNCHANGED <<profile, slow, executions, pc, reporting, pending>>
      BY <1>11 DEF Execute, StartOf, cache, dedup, tracker
    <2> QED BY <1>0, <2>1
  <1>12. ASSUME NEW t \in Thread, Succeed(t) \/ Fail(t) PROVE Own'
    <2>1. /\ start' = [start EXCEPT ![t] = 0]
          /\ sent' = [sent EXCEPT ![t] = 0]
          /\ stage' = [stage EXCEPT ![t] = "idle"]
          /\ stage[t] = "running"
          /\ slow' = slow \/ slow' = slow + 1
          /\ UNCHANGED <<profile, executions, pc, reporting, pending>>
      BY <1>12 DEF Succeed, Fail, cache, dedup, tracker
    <2> QED BY <1>0, <2>1
  <1>13. ASSUME NEW t \in Thread, ResetN1(t) PROVE Own'
    BY <1>0, <1>13 DEF ResetN1, Tracker!Reset, timing, cache, dedup
  <1>14. CASE UNCHANGED vars
    BY <1>14 DEF vars, timing, cache, dedup, tracker
  <1>15. CASE Done
    BY <1>14, <1>15, Zenon DEF Done
  <1> QED
    BY <1>1, <1>2, <1>3, <1>4, <1>5, <1>6, <1>7, <1>8, <1>9, <1>10, <1>11, <1>12, <1>13, <1>14, <1>15, Zenon
    DEF Next, Work

LEMMA LoggedStep ==
  ASSUME Own, Located, ExecutionsLogged, Cache!IInv, Tracker!IInv, [Next]_vars
  PROVE  ExecutionsLogged'
PROOF
  <1>1. ASSUME UNCHANGED <<log, executions>> PROVE ExecutionsLogged'
    BY <1>1 DEF ExecutionsLogged
  <1>2. ASSUME NEW t \in Thread, Track(t) PROVE ExecutionsLogged'
    <2> DEFINE r == [query |-> query[t], at |-> clock, era |-> era]
               e == [id |-> Cardinality(log), fp |-> Shape[query[t]], at |-> clock, era |-> era]
               entry(s, i) == [id |-> i - 1, fp |-> Shape[s[i].query], at |-> s[i].at, era |-> s[i].era]
    <2>1. \/ log' = log /\ executions' = executions
          \/ log' = log \cup {e} /\ executions' = IF log' # log THEN Append(executions, r) ELSE executions
      <3>1. CountedAs(t) = Shape[query[t]]
        BY <1>2, CountedByShape DEF Track
      <3> QED
        BY <1>2, <3>1, SameTrackerSets
        DEF Track, Tracker!Track, Tracker!TrackDropped, Tracker!TrackQuietly, Tracker!TrackAndReport,
            Tracker!ThisExecution
    <2>2. IsFiniteSet(log) /\ Cardinality(log) \in Nat /\ e \notin log
      <3>1. IsFiniteSet(log) /\ \A x \in log : x.id < Cardinality(log)
        BY SameTrackerSets DEF Tracker!IInv, Tracker!LogInv
      <3>2. Cardinality(log) \in Nat
        BY <3>1, FS_CardinalityType
      <3> QED BY <3>1, <3>2
    <2>3. CASE log' = log \cup {e} /\ executions' = Append(executions, r)
      <3>1. Cardinality(log') = Cardinality(log) + 1
        BY <2>2, <2>3, FS_AddElement
      <3>2. executions \in Seq([query : Query, at : Nat, era : Nat]) /\ Len(executions) = Cardinality(log)
        BY DEF Own, ExecutionsLogged
      <3>3. r \in [query : Query, at : Nat, era : Nat]
        BY Held DEF Tracker!IInv, Tracker!TypeOK
      <3> DEFINE n == Len(executions)
      <3>4. /\ Len(executions') = n + 1
            /\ \A i \in 1 .. n : executions'[i] = executions[i]
            /\ executions'[n + 1] = r
        BY <2>3, <3>2, <3>3, AppendProperties
      <3>5. DOMAIN executions = 1 .. n /\ DOMAIN executions' = 1 .. n + 1 /\ n \in Nat
        BY <2>3, <3>2, <3>3, <3>4
      <3>6. log = {entry(executions, i) : i \in 1 .. n}
        BY <3>5 DEF ExecutionsLogged
      <3>7. entry(executions', n + 1) = e
        BY <3>2, <3>4, <3>5
      <3>8. \A i \in 1 .. n : entry(executions', i) = entry(executions, i)
        BY <3>4
      <3> HIDE DEF n, r, e, entry
      <3>9. log' = {entry(executions', i) : i \in 1 .. n + 1}
        <4>1. 1 .. n + 1 = (1 .. n) \cup {n + 1}
          BY <3>5
        <4>2. log' = log \cup {e}
          BY <2>3
        <4> QED BY <4>1, <4>2, <3>6, <3>7, <3>8
      <3> QED BY <3>1, <3>2, <3>4, <3>5, <3>9 DEF ExecutionsLogged, n, entry
    <2> QED BY <1>1, <2>1, <2>2, <2>3
  <1>3. CASE Tick
    BY <1>1, <1>3 DEF Tick, tracker
  <1>4. ASSUME NEW t \in Thread, NEW q \in Query, Observe(t, q) PROVE ExecutionsLogged'
    BY <1>1, <1>4 DEF Observe, tracker
  <1>5. ASSUME NEW t \in Thread,
               \/ LookUp(t) \/ ReportFindings(t) \/ FoundNothing(t) \/ Deduplicate(t) \/ Reported(t)
               \/ NoTracker(t) \/ Warn(t) \/ Execute(t) \/ Succeed(t) \/ Fail(t) \/ ResetN1(t)
        PROVE  ExecutionsLogged'
    BY <1>1, <1>5 DEF LookUp, ReportFindings, FoundNothing, Deduplicate, Reported, NoTracker, Warn, Execute,
                      Succeed, Fail, ResetN1, Tracker!Emit, Tracker!Reset, tracker
  <1>6. CASE UNCHANGED vars \/ Done
    BY <1>1, <1>6 DEF Done, vars, tracker
  <1> QED
    BY <1>2, <1>3, <1>4, <1>5, <1>6, Zenon DEF Next, Work

\* Whatever the policies and however many goroutines, the parts of the Guard
\* stay consistent with one another, and each with itself (guard.go).
THEOREM Invariance == Spec => []IInv
PROOF
  <1>1. Cache!IInv /\ Dedup!IInv /\ Tracker!IInv /\ Own /\ Located /\ ExecutionsLogged => IInv
    BY DEF IInv, TypeOK, Own, Located, Cache!IInv, Dedup!IInv, Tracker!IInv
  <1>2. (Own /\ ExecutionsLogged) /\ Located /\ (Cache!IInv /\ Dedup!IInv /\ Tracker!IInv) /\ [Next]_vars
          => (Own /\ ExecutionsLogged)'
    BY OwnStep, LoggedStep
  <1> QED
    BY <1>1, <1>2, InitOwn, CacheKept, LocatedKept, DedupKept, TrackerKept, PTL DEF Spec

\* A pattern's count is the number of executions of all queries of that shape
\* since its window began: those counted under the fingerprint of a finding,
\* analyzed now or cached, and those fingerprinted by Track, whatever the
\* deduper let through (guard.go: Check; analyzer.go: PrepareQuery).
THEOREM PatternCountedHolds == Spec => []PatternCounted
PROOF
  <1>1. IInv => PatternCounted
    <2> SUFFICES ASSUME IInv, NEW f \in DOMAIN queries
                 PROVE  queries[f].count =
                          Cardinality({i \in DOMAIN executions :
                                         /\ Shape[executions[i].query] = f
                                         /\ executions[i].era = era
                                         /\ executions[i].at >= queries[f].firstSeen})
      BY DEF PatternCounted
    <2> DEFINE I == {i \in DOMAIN executions :
                       /\ Shape[executions[i].query] = f
                       /\ executions[i].era = era
                       /\ executions[i].at >= queries[f].firstSeen}
               entry(i) == [id |-> i - 1, fp |-> Shape[executions[i].query],
                            at |-> executions[i].at, era |-> executions[i].era]
               b == [i \in I |-> entry(i)]
    <2>1. queries[f].count = Cardinality(Tracker!Epoch(f))
      BY SameTrackerSets DEF IInv, Tracker!IInv, Tracker!CountExact
    <2>2. log = {entry(i) : i \in DOMAIN executions}
      BY DEF IInv, ExecutionsLogged
    <2>3. DOMAIN executions = 1 .. Len(executions) /\ Len(executions) \in Nat
      BY DEF IInv, TypeOK
    <2>4. IsFiniteSet(I)
      <3>1. I \subseteq 1 .. Len(executions)
        BY <2>3
      <3> HIDE DEF I
      <3>2. IsFiniteSet(1 .. Len(executions))
        BY <2>3, FS_Interval
      <3> QED BY <3>1, <3>2, FS_Subset
    <2>5. \A i, j \in I : entry(i) = entry(j) => i = j
      <3>1. \A i, j \in I : i \in Nat /\ j \in Nat /\ (i - 1 = j - 1 => i = j)
        BY <2>3
      <3> QED BY <3>1
    <2>6. \A i \in I : entry(i) \in Tracker!Epoch(f)
      BY <2>2 DEF Tracker!Epoch
    <2>7. \A e \in Tracker!Epoch(f) : \E i \in I : entry(i) = e
      BY <2>2 DEF Tracker!Epoch
    <2> HIDE DEF I, entry
    <2>8. b \in Bijection(I, Tracker!Epoch(f))
      BY <2>5, <2>6, <2>7, Fun_IsBij
    <2>9. Cardinality(Tracker!Epoch(f)) = Cardinality(I)
      BY <2>4, <2>8, FS_Bijection DEF ExistsBijection
    <2> QED BY <2>1, <2>9 DEF I
  <1> QED BY <1>1, Invariance, PTL

\* Time spent in Check is never called slowness of the database: the clock of
\* a query starts when the database gets it (guard.go: Observe).
THEOREM LatencyHolds == Spec => LatencyIsTheDatabases
PROOF
  <1>1. IInv /\ [Next]_vars
          => [slow' # slow => \E t \in Thread : stage[t] = "running" /\ clock - sent[t] >= SlowThreshold]_vars
    <2> SUFFICES ASSUME IInv, Next, slow' # slow
                 PROVE  \E t \in Thread : stage[t] = "running" /\ clock - sent[t] >= SlowThreshold
      OBVIOUS
    <2>1. PICK t \in Thread : Succeed(t)
      <3>1. Tick \/ Done => slow' = slow
        BY DEF Tick, Done, timing, vars
      <3>2. \A t \in Thread, q \in Query : Observe(t, q) => slow' = slow
        BY DEF Observe, timing
      <3>3. \A t \in Thread : Work(t) \/ Execute(t) \/ Fail(t) \/ ResetN1(t) => slow' = slow
        BY DEF Work, LookUp, ReportFindings, FoundNothing, Deduplicate, Reported, Track, NoTracker, Warn,
               Execute, Fail, ResetN1, timing
      <3> QED BY <3>1, <3>2, <3>3 DEF Next
    <2> QED BY <2>1 DEF Succeed, IInv
  <1> QED BY <1>1, Invariance, PTL DEF Spec, LatencyIsTheDatabases
=============================================================================
