---------------------------- MODULE AnalysisCache ----------------------------
(***************************************************************************)
(* Guard.analyze (middleware/guard.go) on several goroutines that share    *)
(* one analysisCache (middleware/cache.go): a bounded LRU from the exact   *)
(* query string to its findings.  `get` and `put` hold the mutex, the      *)
(* analysis between them does not.                                         *)
(*                                                                         *)
(* History: `uses` orders all queries ever looked up with success or       *)
(* stored, most recent first, and `analyses` counts the analyzer's runs.   *)
(***************************************************************************)
EXTENDS LruList, GoMap

CONSTANTS
    Thread,      \* goroutines executing queries
    Query,       \* query strings
    Findings,    \* Findings[q]: what analyzer.Analyze returns for q
    Shape,       \* Shape[q]: the fingerprint of q
    NoFindings,  \* the nil slice
    Nothing,     \* a value that is no result list
    Capacities,  \* values of WithAnalysisCacheSize
    MaxCalls     \* bound on the number of queries executed

ASSUME AnalysisCacheAssumption ==
    /\ Capacities \subseteq Int
    /\ MaxCalls \in Nat
    /\ DOMAIN Findings = Query
    /\ Nothing \notin {Findings[q] : q \in Query} \cup {NoFindings}

VARIABLES capacity, ll, items, pc, query, results, calls, uses, analyses

vars == <<capacity, ll, items, pc, query, results, calls, uses, analyses>>

ResultList == {Findings[q] : q \in Query} \cup {NoFindings}

TypeOK ==
    /\ capacity \in Int
    /\ ll \in Seq(Query)
    /\ DOMAIN items \subseteq Query
    /\ items \in [DOMAIN items -> ResultList]
    /\ pc \in [Thread -> {"idle", "get", "analyze", "put", "return"}]
    /\ query \in [Thread -> Query]
    /\ results \in [Thread -> ResultList]
    /\ calls \in Nat
    /\ uses \in Seq(Query)
    /\ analyses \in [Query -> Nat]

\* newAnalysisCache; a size of 0 or less leaves g.cache nil (Caching).
Init ==
    /\ capacity \in Capacities
    /\ ll = << >>
    /\ items = EmptyMap
    /\ pc = [t \in Thread |-> "idle"]
    /\ query \in {[t \in Thread |-> q] : q \in Query}
    /\ results = [t \in Thread |-> NoFindings]
    /\ calls = 0
    /\ uses = << >>
    /\ analyses = [q \in Query |-> 0]

\* g.cache # nil
Caching == capacity > 0

BugKeyOf(q) == CHOOSE p \in Query : Shape[p] = Shape[q]

\* The cache is keyed on the exact string, not on the fingerprint.
KeyOf(q) == q

BugCached(q) == KeyOf(q) \in DOMAIN items /\ items[KeyOf(q)] # NoFindings

\* The `ok` of get: a cached nil slice is a hit.
Cached(q) == KeyOf(q) \in DOMAIN items

BugUsed(q) == ll

\* c.ll.MoveToFront(el) on a hit.
Used(q) == MoveToFront(ll, KeyOf(q))

Call(t, q) ==
    /\ pc[t] = "idle"
    /\ calls < MaxCalls
    /\ pc' = [pc EXCEPT ![t] = "get"]
    /\ query' = [query EXCEPT ![t] = q]
    /\ calls' = calls + 1
    /\ UNCHANGED <<capacity, ll, items, results, uses, analyses>>

\* get finds the query and returns the slice it shares with everyone.
Hit(t) ==
    /\ pc[t] = "get"
    /\ Caching
    /\ Cached(query[t])
    /\ ll' = Used(query[t])
    /\ results' = [results EXCEPT ![t] = items[KeyOf(query[t])]]
    /\ pc' = [pc EXCEPT ![t] = "return"]
    /\ uses' = Touch(uses, query[t])
    /\ UNCHANGED <<capacity, items, query, calls, analyses>>

\* get does not find it, or there is no cache.
Miss(t) ==
    /\ pc[t] = "get"
    /\ Caching => ~Cached(query[t])
    /\ pc' = [pc EXCEPT ![t] = "analyze"]
    /\ UNCHANGED <<capacity, ll, items, query, results, calls, uses, analyses>>

\* The analyzer runs with no lock held.
Analyze(t) ==
    /\ pc[t] = "analyze"
    /\ results' = [results EXCEPT ![t] = Findings[query[t]]]
    /\ pc' = [pc EXCEPT ![t] = IF Caching THEN "put" ELSE "return"]
    /\ analyses' = [analyses EXCEPT ![query[t]] = @ + 1]
    /\ UNCHANGED <<capacity, ll, items, query, calls, uses>>

\* put of a query another goroutine stored in the meantime ...
Refresh(t) ==
    /\ pc[t] = "put"
    /\ KeyOf(query[t]) \in DOMAIN items
    /\ ll' = MoveToFront(ll, KeyOf(query[t]))
    /\ items' = Put(items, KeyOf(query[t]), results[t])
    /\ pc' = [pc EXCEPT ![t] = "return"]
    /\ uses' = Touch(uses, query[t])
    /\ UNCHANGED <<capacity, query, results, calls, analyses>>

BugForget(m, k) == m

\* delete(c.items, oldest)
Forget(m, k) == Delete(m, k)

\* ... or of a new one, which may push the least recently used one out.
Store(t) ==
    /\ pc[t] = "put"
    /\ KeyOf(query[t]) \notin DOMAIN items
    /\ LET pushed == PushFront(ll, KeyOf(query[t]))
           filled == Put(items, KeyOf(query[t]), results[t])
       IN  /\ ll' = IF Len(pushed) > capacity THEN RemoveBack(pushed) ELSE pushed
           /\ items' = IF Len(pushed) > capacity THEN Forget(filled, Back(pushed))
                                                 ELSE filled
    /\ pc' = [pc EXCEPT ![t] = "return"]
    /\ uses' = Touch(uses, query[t])
    /\ UNCHANGED <<capacity, query, results, calls, analyses>>

\* analyze returns its results to Check.
Return(t) ==
    /\ pc[t] = "return"
    /\ pc' = [pc EXCEPT ![t] = "idle"]
    /\ results' = [results EXCEPT ![t] = NoFindings]
    /\ UNCHANGED <<capacity, ll, items, query, calls, uses, analyses>>

Work(t) == Hit(t) \/ Miss(t) \/ Analyze(t) \/ Refresh(t) \/ Store(t) \/ Return(t)

Done ==
    /\ calls = MaxCalls
    /\ \A t \in Thread : pc[t] = "idle"
    /\ UNCHANGED vars

Next ==
    \/ \E t \in Thread : Work(t) \/ \E q \in Query : Call(t, q)
    \/ Done

Spec == Init /\ [][Next]_vars

\* A goroutine inside analyze keeps running: the mutex is held for list and
\* map operations only, and the analyzer terminates.
FairSpec == Spec /\ \A t \in Thread : WF_vars(Work(t))
-----------------------------------------------------------------------------
\* The list and the map hold the same queries, each once (cache.go: get, put).
ListMapAgree == NoDuplicates(ll) /\ Elements(ll) = DOMAIN items

\* The cache never exceeds its capacity, and is empty when there is none.
Bounded == Len(ll) <= (IF Caching THEN capacity ELSE 0)

\* What is cached for a query is what the analyzer says of it.
Coherent == \A q \in DOMAIN items : items[q] = Findings[q]

\* So is what a goroutine holds between its lookup and its return.
HeldInv ==
    \A t \in Thread : pc[t] \in {"put", "return"} => results[t] = Findings[query[t]]

\* Only a goroutine that found a cache stores.
PutInv == \A t \in Thread : pc[t] = "put" => Caching

\* Eviction is exactly least-recently-used: the cache holds the `capacity` most
\* recently used queries of the whole past, in that order (cache.go: put,
\* "evicting the least-recently-used entry").
LeastRecentlyUsedEvicted ==
    /\ NoDuplicates(uses)
    /\ Caching => ll = Recent(uses, capacity)

\* The inductive invariant: the two halves of the cache agree, stay within the
\* capacity, and hold the analyzer's own answers (cache.go; guard.go: analyze).
IInv ==
    /\ TypeOK
    /\ ListMapAgree
    /\ Bounded
    /\ Coherent
    /\ HeldInv
    /\ PutInv
    /\ LeastRecentlyUsedEvicted

\* While the queries used so far fit in the cache, a query is analyzed at most
\* once per goroutine, however often it is executed: only goroutines that
\* miss it together analyze it again.
FewAnalyses ==
    Caching /\ Len(uses) <= capacity
      => \A q \in Query : analyses[q] <= Cardinality(Thread)

\* The cache is invisible: every call is answered, with the findings of the
\* query it asked about, as if there were no cache (guard.go: analyze).
Uncached == INSTANCE Analysis WITH
    stage  <- [t \in Thread |-> CASE pc[t] = "idle"   -> "idle"
                                  [] pc[t] = "return" -> "answered"
                                  [] OTHER            -> "asked"],
    asked  <- query,
    answer <- [t \in Thread |-> IF pc[t] = "return" THEN results[t] ELSE Nothing]

ImplementsAnalysis == Uncached!Spec
AnswersEveryCall == Uncached!FairSpec
=============================================================================
