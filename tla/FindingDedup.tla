---------------------------- MODULE FindingDedup ----------------------------
(***************************************************************************)
(* Guard.report (middleware/guard.go) running on several goroutines that   *)
(* share one deduper.  A batch of findings reads the clock once, then asks *)
(* the deduper about each finding in turn; other goroutines and the clock  *)
(* may move between any two of those calls, so the deduper can be asked    *)
(* with a time that is already in the past.                                *)
(*                                                                         *)
(* The history variables admitted, admittedAt and emitted count, per       *)
(* finding, the calls of `allow` that answered true, the real time of the  *)
(* last of them, and the times the reporter was handed the finding.        *)
(***************************************************************************)
EXTENDS Deduper, Sequences, FiniteSetsExt

CONSTANTS
    Thread,    \* goroutines executing queries
    Batches,   \* the non-empty result lists the analyzer can return
    MaxLag,    \* longest time a batch is in flight after it read the clock
    MaxTime,   \* bound on the clock
    MaxCalls   \* bound on the number of batches

ASSUME FindingDedupAssumption ==
    /\ Batches \subseteq Seq(Key) \ {<< >>}
    /\ MaxLag \in Nat
    /\ MaxTime \in Nat
    /\ MaxCalls \in Nat

VARIABLES clock, seen, pc, now, todo, kept, calls,
          admitted, admittedAt, emitted

vars == <<clock, seen, pc, now, todo, kept, calls,
          admitted, admittedAt, emitted>>

history == <<admitted, admittedAt, emitted>>

TypeOK ==
    /\ clock \in Nat
    /\ SeenMap(seen)
    /\ pc \in [Thread -> {"idle", "dedup"}]
    /\ now \in [Thread -> Nat]
    /\ todo \in [Thread -> Seq(Key)]
    /\ kept \in [Thread -> Seq(Key)]
    /\ calls \in Nat
    /\ admitted \in [Key -> Nat]
    /\ admittedAt \in [Key -> Nat]
    /\ emitted \in [Key -> Nat]

Init ==
    /\ clock = 0
    /\ seen = NewSeen
    /\ pc = [t \in Thread |-> "idle"]
    /\ now = [t \in Thread |-> 0]
    /\ todo = [t \in Thread |-> << >>]
    /\ kept = [t \in Thread |-> << >>]
    /\ calls = 0
    /\ admitted = [k \in Key |-> 0]
    /\ admittedAt = [k \in Key |-> 0]
    /\ emitted = [k \in Key |-> 0]

\* Time passes, but no batch stays in flight longer than MaxLag: that is the
\* scheduler's bound under which the quiet period of a finding is stated.
Tick ==
    /\ clock < MaxTime
    /\ \A t \in Thread : pc[t] = "dedup" => clock + 1 - now[t] <= MaxLag
    /\ clock' = clock + 1
    /\ UNCHANGED <<seen, pc, now, todo, kept, calls, history>>

\* report(results): now := time.Now(), before any lock is taken.
Begin(t, b) ==
    /\ pc[t] = "idle"
    /\ calls < MaxCalls
    /\ todo' = [todo EXCEPT ![t] = b]
    /\ kept' = [kept EXCEPT ![t] = << >>]
    /\ now' = [now EXCEPT ![t] = clock]
    /\ pc' = [pc EXCEPT ![t] = "dedup"]
    /\ calls' = calls + 1
    /\ UNCHANGED <<clock, seen, history>>

\* How often finding k occurs in a list of findings.
Copies(ks, k) == Cardinality({i \in DOMAIN ks : ks[i] = k})

\* kept = append(kept, r)
BugKeepLatest(ks, k) == <<k>>
Keep(ks, k) == Append(ks, k)

\* len(kept) > 0
BugWorthReportingSeveral(ks) == Len(ks) > 1
WorthReporting(ks) == Len(ks) > 0

\* One iteration of the loop over results, the deduper answering true.
Admit(t) ==
    /\ pc[t] = "dedup"
    /\ todo[t] # << >>
    /\ LET k == Head(todo[t])
       IN  /\ Allows(seen, k, now[t])
           /\ seen' = SeenAfter(seen, k, now[t])
           /\ kept' = [kept EXCEPT ![t] = Keep(@, k)]
           /\ admitted' = [admitted EXCEPT ![k] = @ + 1]
           /\ admittedAt' = [admittedAt EXCEPT ![k] = clock]
    /\ todo' = [todo EXCEPT ![t] = Tail(@)]
    /\ UNCHANGED <<clock, pc, now, calls, emitted>>

\* The same iteration with the answer false.
Suppress(t) ==
    /\ pc[t] = "dedup"
    /\ todo[t] # << >>
    /\ ~Allows(seen, Head(todo[t]), now[t])
    /\ seen' = SeenAfter(seen, Head(todo[t]), now[t])
    /\ todo' = [todo EXCEPT ![t] = Tail(@)]
    /\ UNCHANGED <<clock, pc, now, kept, calls, history>>

\* The loop is over: the reporter is handed everything that was kept ...
Emit(t) ==
    /\ pc[t] = "dedup"
    /\ todo[t] = << >>
    /\ WorthReporting(kept[t])
    /\ pc' = [pc EXCEPT ![t] = "idle"]
    /\ kept' = [kept EXCEPT ![t] = << >>]
    /\ now' = [now EXCEPT ![t] = 0]
    /\ emitted' = [k \in Key |-> emitted[k] + Copies(kept[t], k)]
    /\ UNCHANGED <<clock, seen, todo, calls, admitted, admittedAt>>

\* ... or is not called at all when every finding was suppressed.
Return(t) ==
    /\ pc[t] = "dedup"
    /\ todo[t] = << >>
    /\ ~WorthReporting(kept[t])
    /\ pc' = [pc EXCEPT ![t] = "idle"]
    /\ kept' = [kept EXCEPT ![t] = << >>]
    /\ now' = [now EXCEPT ![t] = 0]
    /\ UNCHANGED <<clock, seen, todo, calls, history>>

Work(t) == Admit(t) \/ Suppress(t) \/ Emit(t) \/ Return(t)

\* Every batch has been reported and no further query will come.
Done ==
    /\ calls = MaxCalls
    /\ clock = MaxTime
    /\ \A t \in Thread : pc[t] = "idle"
    /\ UNCHANGED vars

Next ==
    \/ Tick
    \/ \E t \in Thread : Work(t) \/ \E b \in Batches : Begin(t, b)
    \/ Done

Spec == Init /\ [][Next]_vars

\* A goroutine inside report keeps running: nothing it does there blocks for
\* ever, since allow only holds its mutex for a map operation.
FairSpec == Spec /\ \A t \in Thread : WF_vars(Work(t))
-----------------------------------------------------------------------------
\* The map never outgrows maxKeys, whatever mix of stale and fresh times the
\* goroutines bring (dedup.go: allow drops a new key rather than grow).
Bounded == Size(seen) <= MaxKeys

\* The inductive invariant behind QuietPeriod and SuppressedForCause.  A batch
\* is never ahead of the clock nor more than MaxLag behind it ...
LagInv ==
    \A t \in Thread :
        pc[t] = "dedup" => now[t] <= clock /\ clock - now[t] <= MaxLag

\* ... so the time written in an entry is at most MaxLag older than the
\* admission that wrote it, ...
SeenInv ==
    Enabled => \A k \in DOMAIN seen :
        /\ admitted[k] > 0
        /\ seen[k] <= admittedAt[k]
        /\ admittedAt[k] <= seen[k] + MaxLag

\* ... and a finding whose entry was evicted had its quiet period.
EvictedInv ==
    Enabled => \A k \in Key \ DOMAIN seen :
        admitted[k] > 0 => clock - admittedAt[k] > Window - MaxLag

\* Types, the bound, and the three facts that relate the deduper's map to what
\* the reporter was told and when (dedup.go: allow; guard.go: report).
IInv ==
    /\ TypeOK
    /\ IsFiniteSet(DOMAIN seen)
    /\ Bounded
    /\ LagInv
    /\ SeenInv
    /\ EvictedInv

\* Between two answers `true` for one finding, more than Window - MaxLag ticks
\* of real time pass: eviction at the cap, entries written with an old time
\* and goroutines overtaking each other cannot shorten it further
\* (dedup.go: allow; guard.go: report).
QuietPeriod ==
    [][\A k \in Key :
         Enabled /\ admitted'[k] # admitted[k] /\ admitted[k] > 0
           => clock - admittedAt[k] > Window - MaxLag]_vars

\* The keys whose last admission is at most one window older than time n.
Recent(n) == {k \in Key : admitted[k] > 0 /\ n - admittedAt[k] <= Window}

\* A finding is withheld only when it was let through within the last window,
\* or when maxKeys other findings were: repeating a finding does not extend
\* its silence, and a map full of expired entries withholds nothing.
SuppressedForCause ==
    [][\A t \in Thread :
         todo'[t] # todo[t] /\ pc[t] = "dedup" /\ kept'[t] = kept[t]
           => \/ Head(todo[t]) \in Recent(now[t])
              \/ \E others \in SUBSET (Recent(now[t]) \ {Head(todo[t])}) :
                    IsFiniteSet(others) /\ Cardinality(others) >= MaxKeys]_vars

\* Each admitted finding reaches the reporter exactly once: it is either still
\* kept by the goroutine that got the answer, or it was reported (guard.go:
\* report collects kept over the whole batch and reports it at the end).
Conservation ==
    \A k \in Key : admitted[k] = emitted[k] + MapThenSumSet(LAMBDA t : Copies(kept[t], k), Thread)

\* Once callers stop (MaxCalls is where they do), every admitted finding has
\* been handed to the reporter: the copies that were suppressed meanwhile were
\* suppressed in favour of a report that really happens.
AdmittedIsReported == <>[](\A k \in Key : emitted[k] = admitted[k])
=============================================================================
