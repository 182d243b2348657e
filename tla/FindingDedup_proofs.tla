------------------------- MODULE FindingDedup_proofs -------------------------
(***************************************************************************)
(* What the finding deduper guarantees for every number of goroutines,     *)
(* every set of findings and every window, capacity and lag: types, the    *)
(* bound on its memory, the quiet period of a finding, and that nothing is *)
(* withheld without cause.                                                 *)
(***************************************************************************)
EXTENDS FindingDedup, NaturalsInduction, WellFoundedInduction, FiniteSetTheorems,
        SequenceTheorems, TLAPS

-----------------------------------------------------------------------------
(* One call of allow.                                                      *)

\* Making room only removes entries, and only expired ones (dedup.go:
\* evictExpired).
LEMMA MakeRoomKeepsLive ==
    ASSUME NEW s, SeenMap(s), NEW n \in Nat
    PROVE  /\ SeenMap(MakeRoom(s, n))
           /\ DOMAIN MakeRoom(s, n) \subseteq DOMAIN s
           /\ \A j \in DOMAIN MakeRoom(s, n) : MakeRoom(s, n)[j] = s[j]
           /\ \A j \in DOMAIN s \ DOMAIN MakeRoom(s, n) : n - s[j] > Window
           /\ Size(MakeRoom(s, n)) >= MaxKeys =>
                \A j \in DOMAIN MakeRoom(s, n) : n - s[j] <= Window
  <1>1. CASE Size(s) >= MaxKeys
    BY <1>1, DeduperAssumption DEF MakeRoom, EvictExpired, Restrict, SeenMap
  <1>2. CASE ~(Size(s) >= MaxKeys)
    BY <1>2 DEF MakeRoom, SeenMap
  <1>3. QED
    BY <1>1, <1>2

\* What a call does to the map: the key of an allowed finding gets the call's
\* time, every other surviving entry keeps its own, and an entry disappears
\* only when its window is over.
LEMMA SeenAfterEntries ==
    ASSUME NEW s, SeenMap(s), NEW k \in Key, NEW n \in Nat
    PROVE  /\ SeenMap(SeenAfter(s, k, n))
           /\ \A j \in DOMAIN s \ DOMAIN SeenAfter(s, k, n) :
                Enabled /\ n - s[j] > Window
           /\ \A j \in DOMAIN SeenAfter(s, k, n) :
                \/ j \in DOMAIN s /\ SeenAfter(s, k, n)[j] = s[j]
                \/ j = k /\ Allows(s, k, n) /\ SeenAfter(s, k, n)[j] = n
           /\ Enabled /\ Allows(s, k, n) =>
                k \in DOMAIN SeenAfter(s, k, n) /\ SeenAfter(s, k, n)[k] = n
  <1> DEFINE room == MakeRoom(s, n)
  <1>1. CASE ~Enabled
    <2>1. SeenAfter(s, k, n) = s
      BY <1>1 DEF SeenAfter
    <2>2. QED
      BY <1>1, <2>1
  <1>2. CASE Enabled /\ Allows(s, k, n)
    <2>1. SeenAfter(s, k, n) = Put(room, k, n)
      BY <1>2 DEF SeenAfter
    <2>2. /\ DOMAIN Put(room, k, n) = DOMAIN room \cup {k}
          /\ Put(room, k, n)[k] = n
          /\ \A j \in DOMAIN room \ {k} : Put(room, k, n)[j] = room[j]
          /\ SeenMap(room) => SeenMap(Put(room, k, n))
      BY DEF Put, SeenMap
    <2>3. QED
      BY <1>2, <2>1, <2>2, MakeRoomKeepsLive
  <1>3. CASE Enabled /\ ~Allows(s, k, n)
    <2>1. SeenAfter(s, k, n) = room
      BY <1>3 DEF SeenAfter
    <2>2. QED
      BY <1>3, <2>1, MakeRoomKeepsLive
  <1>4. QED
    BY <1>1, <1>2, <1>3

\* A finite map within the capacity stays so (dedup.go: a new key is dropped
\* when eviction made no room).
LEMMA SeenAfterBounded ==
    ASSUME NEW s, SeenMap(s), NEW k \in Key, NEW n \in Nat,
           IsFiniteSet(DOMAIN s), Size(s) <= MaxKeys
    PROVE  /\ IsFiniteSet(DOMAIN SeenAfter(s, k, n))
           /\ Size(SeenAfter(s, k, n)) <= MaxKeys
  <1> DEFINE room == MakeRoom(s, n)
  <1>1. IsFiniteSet(DOMAIN room) /\ Size(room) <= Size(s)
    <2>1. DOMAIN room \in SUBSET DOMAIN s
      BY MakeRoomKeepsLive
    <2>2. QED
      BY <2>1, FS_Subset DEF Size
  <1>2. Size(room) \in Nat /\ Size(s) \in Nat
    BY <1>1, FS_CardinalityType DEF Size
  <1>3. CASE SeenAfter(s, k, n) \in {s, room}
    BY <1>1, <1>2, <1>3, DeduperAssumption
  <1>4. CASE Enabled /\ Allows(s, k, n)
    <2>1. DOMAIN SeenAfter(s, k, n) = DOMAIN room \cup {k}
      BY <1>4 DEF SeenAfter, Put
    <2>2. k \in DOMAIN room \/ Size(room) < MaxKeys
      BY <1>2, <1>4, DeduperAssumption DEF Allows, Dropped
    <2>3. /\ IsFiniteSet(DOMAIN room \cup {k})
          /\ Cardinality(DOMAIN room \cup {k}) =
               IF k \in DOMAIN room THEN Size(room) ELSE Size(room) + 1
      BY <1>1, FS_AddElement DEF Size
    <2>4. QED
      BY <1>1, <1>2, <2>1, <2>2, <2>3, DeduperAssumption DEF Size
  <1>5. QED
    BY <1>3, <1>4 DEF SeenAfter

-----------------------------------------------------------------------------
\* The clock, the deduper's map and every goroutine's locals stay within
\* their types.
THEOREM TypeCorrect == Spec => []TypeOK
  <1>1. Init => TypeOK
    BY DEF Init, TypeOK, NewSeen, EmptyMap, SeenMap
  <1>2. TypeOK /\ [Next]_vars => TypeOK'
    <2> SUFFICES ASSUME TypeOK, [Next]_vars PROVE TypeOK'
      OBVIOUS
    <2> USE DEF TypeOK
    <2>1. CASE Tick
      BY <2>1 DEF Tick, history, SeenMap
    <2>2. ASSUME NEW t \in Thread, NEW b \in Batches, Begin(t, b) PROVE TypeOK'
      <3>1. todo' = [todo EXCEPT ![t] = b]
        BY <2>2 DEF Begin
      <3>2. todo' \in [Thread -> Seq(Key)] /\ kept' \in [Thread -> Seq(Key)]
        BY <2>2, <3>1, FindingDedupAssumption, EmptySeq DEF Begin
      <3>3. now' \in [Thread -> Nat] /\ pc' \in [Thread -> {"idle", "dedup"}]
        BY <2>2 DEF Begin
      <3>4. QED
        BY <2>2, <3>2, <3>3 DEF Begin, history, SeenMap
    <2>3. ASSUME NEW t \in Thread, Admit(t) PROVE TypeOK'
      <3>1. Head(todo[t]) \in Key /\ Tail(todo[t]) \in Seq(Key)
        BY <2>3 DEF Admit
      <3>2. SeenMap(seen')
        BY <2>3, <3>1, SeenAfterEntries DEF Admit
      <3>3. kept' \in [Thread -> Seq(Key)] /\ todo' \in [Thread -> Seq(Key)]
        BY <2>3, <3>1 DEF Admit, Keep
      <3>4. admitted' \in [Key -> Nat] /\ admittedAt' \in [Key -> Nat]
        BY <2>3, <3>1 DEF Admit
      <3>5. QED
        BY <2>3, <3>2, <3>3, <3>4 DEF Admit
    <2>4. ASSUME NEW t \in Thread, Suppress(t) PROVE TypeOK'
      <3>1. Head(todo[t]) \in Key /\ Tail(todo[t]) \in Seq(Key)
        BY <2>4 DEF Suppress
      <3>2. SeenMap(seen')
        BY <2>4, <3>1, SeenAfterEntries DEF Suppress
      <3>3. QED
        BY <2>4, <3>1, <3>2 DEF Suppress, history
    <2>5. ASSUME NEW t \in Thread, Emit(t) PROVE TypeOK'
      <3>1. ASSUME NEW k \in Key PROVE Copies(kept[t], k) \in Nat
        <4>1. kept[t] \in Seq(Key)
          OBVIOUS
        <4>2. IsFiniteSet(DOMAIN kept[t])
          BY <4>1, FS_Interval
        <4>3. IsFiniteSet({i \in DOMAIN kept[t] : kept[t][i] = k})
          BY <4>2, FS_Subset
        <4>4. QED
          BY <4>3, FS_CardinalityType DEF Copies
      <3>2. emitted' \in [Key -> Nat]
        BY <2>5, <3>1 DEF Emit
      <3>3. QED
        BY <2>5, <3>2 DEF Emit, SeenMap
    <2>6. ASSUME NEW t \in Thread, Return(t) PROVE TypeOK'
      BY <2>6 DEF Return, history, SeenMap
    <2>7. CASE UNCHANGED vars
      BY <2>7 DEF vars, SeenMap
    <2>8. QED
      BY <2>1, <2>2, <2>3, <2>4, <2>5, <2>6, <2>7 DEF Next, Work, Done
  <1>3. QED
    BY <1>1, <1>2, PTL DEF Spec

-----------------------------------------------------------------------------
\* The map's bound and the facts that tie each entry to the last admission of
\* its finding are inductive.
THEOREM Invariance == Spec => []IInv
  <1>1. Init => IInv
    <2> SUFFICES ASSUME Init PROVE IInv
      OBVIOUS
    <2>1. TypeOK
      BY DEF Init, TypeOK, NewSeen, EmptyMap, SeenMap
    <2>2. IsFiniteSet(DOMAIN seen) /\ Bounded
      BY FS_EmptySet, DeduperAssumption DEF Init, NewSeen, EmptyMap, Bounded, Size
    <2>3. LagInv /\ SeenInv /\ EvictedInv
      BY DEF Init, NewSeen, EmptyMap, LagInv, SeenInv, EvictedInv
    <2>4. QED
      BY <2>1, <2>2, <2>3 DEF IInv
  <1>2. TypeOK' /\ IInv /\ [Next]_vars => IInv'
    <2> SUFFICES ASSUME TypeOK', IInv, [Next]_vars PROVE IInv'
      OBVIOUS
    <2> USE DEF IInv
    <2>1. CASE Tick
      <3>1. UNCHANGED <<seen, pc, now, admitted, admittedAt>> /\ clock' = clock + 1
        BY <2>1 DEF Tick, history
      <3>2. LagInv'
        BY <2>1, <3>1 DEF Tick, LagInv, TypeOK
      <3>3. EvictedInv'
        BY <3>1, DeduperAssumption, FindingDedupAssumption DEF EvictedInv, TypeOK
      <3>4. QED
        BY <3>1, <3>2, <3>3 DEF Bounded, SeenInv
    <2>2. ASSUME NEW t \in Thread, NEW b \in Batches, Begin(t, b) PROVE IInv'
      <3>1. UNCHANGED <<seen, clock, admitted, admittedAt>>
        BY <2>2 DEF Begin, history
      <3>2. LagInv'
        BY <2>2, <3>1, FindingDedupAssumption DEF Begin, LagInv, TypeOK
      <3>3. QED
        BY <3>1, <3>2 DEF Bounded, SeenInv, EvictedInv
    <2>3. ASSUME NEW t \in Thread, Admit(t) PROVE IInv'
      <3> DEFINE k == Head(todo[t])
      <3>1. /\ k \in Key
            /\ now[t] \in Nat /\ now[t] <= clock /\ clock - now[t] <= MaxLag
            /\ Allows(seen, k, now[t])
            /\ seen' = SeenAfter(seen, k, now[t])
            /\ admitted' = [admitted EXCEPT ![k] = @ + 1]
            /\ admittedAt' = [admittedAt EXCEPT ![k] = clock]
            /\ UNCHANGED <<clock, pc, now>>
        BY <2>3 DEF Admit, TypeOK, LagInv
      <3> HIDE DEF k
      <3>2. IsFiniteSet(DOMAIN seen') /\ Bounded'
        BY <3>1, SeenAfterBounded DEF Bounded, TypeOK
      <3>3. LagInv'
        BY <3>1 DEF LagInv
      <3>4. SeenInv'
        <4> SUFFICES ASSUME Enabled, NEW j \in DOMAIN seen'
                     PROVE  /\ admitted'[j] > 0
                            /\ seen'[j] <= admittedAt'[j]
                            /\ admittedAt'[j] <= seen'[j] + MaxLag
          BY DEF SeenInv, Enabled
        <4>1. j \in Key /\ seen'[j] \in Nat
          BY DEF TypeOK, SeenMap
        <4>2. CASE j = k
          <5>1. seen'[j] = now[t]
            BY <3>1, <4>2, SeenAfterEntries DEF TypeOK
          <5>2. admitted'[j] = admitted[j] + 1 /\ admittedAt'[j] = clock
            BY <3>1, <4>1, <4>2 DEF TypeOK
          <5>3. admitted[j] \in Nat /\ clock \in Nat /\ now[t] \in Nat /\ MaxLag \in Nat
            BY <3>1, <4>1, FindingDedupAssumption DEF TypeOK
          <5>4. QED
            BY <3>1, <5>1, <5>2, <5>3
        <4>3. CASE j # k
          <5>1. j \in DOMAIN seen /\ seen'[j] = seen[j]
            BY <3>1, <4>3, SeenAfterEntries DEF TypeOK
          <5>2. admitted'[j] = admitted[j] /\ admittedAt'[j] = admittedAt[j]
            BY <3>1, <4>1, <4>3 DEF TypeOK
          <5>3. QED
            BY <5>1, <5>2 DEF SeenInv
        <4>4. QED
          BY <4>2, <4>3
      <3>5. EvictedInv'
        <4> SUFFICES ASSUME Enabled, NEW j \in Key \ DOMAIN seen', admitted'[j] > 0
                     PROVE  clock - admittedAt'[j] > Window - MaxLag
          BY <3>1 DEF EvictedInv, Enabled
        <4>1. j # k
          BY <3>1, SeenAfterEntries DEF TypeOK
        <4>2. admitted[j] > 0 /\ admittedAt'[j] = admittedAt[j]
          BY <3>1, <4>1 DEF TypeOK
        <4>3. CASE j \in DOMAIN seen
          <5>1. now[t] - seen[j] > Window
            BY <3>1, <4>3, SeenAfterEntries DEF TypeOK
          <5>2. admittedAt[j] <= seen[j] + MaxLag
            BY <4>3 DEF SeenInv
          <5>3. /\ seen[j] \in Nat /\ admittedAt[j] \in Nat /\ clock \in Nat
                /\ Window \in Int /\ MaxLag \in Nat
            BY <4>3, DeduperAssumption, FindingDedupAssumption DEF TypeOK, SeenMap
          <5>4. QED
            BY <3>1, <4>2, <5>1, <5>2, <5>3
        <4>4. QED
          BY <4>2, <4>3 DEF EvictedInv
      <3>6. QED
        BY <3>2, <3>3, <3>4, <3>5
    <2>4. ASSUME NEW t \in Thread, Suppress(t) PROVE IInv'
      <3> DEFINE k == Head(todo[t])
      <3>1. /\ k \in Key
            /\ now[t] \in Nat /\ now[t] <= clock /\ clock - now[t] <= MaxLag
            /\ ~Allows(seen, k, now[t])
            /\ seen' = SeenAfter(seen, k, now[t])
            /\ UNCHANGED <<clock, pc, now, admitted, admittedAt>>
        BY <2>4 DEF Suppress, TypeOK, LagInv, history
      <3> HIDE DEF k
      <3>2. IsFiniteSet(DOMAIN seen') /\ Bounded'
        BY <3>1, SeenAfterBounded DEF Bounded, TypeOK
      <3>3. LagInv'
        BY <3>1 DEF LagInv
      <3>4. SeenInv'
        BY <3>1, SeenAfterEntries DEF SeenInv, TypeOK
      <3>5. EvictedInv'
        <4> SUFFICES ASSUME Enabled, NEW j \in Key \ DOMAIN seen', admitted[j] > 0
                     PROVE  clock - admittedAt[j] > Window - MaxLag
          BY <3>1 DEF EvictedInv, Enabled
        <4>1. CASE j \in DOMAIN seen
          <5>1. now[t] - seen[j] > Window
            BY <3>1, <4>1, SeenAfterEntries DEF TypeOK
          <5>2. admittedAt[j] <= seen[j] + MaxLag
            BY <4>1 DEF SeenInv
          <5>3. /\ seen[j] \in Nat /\ admittedAt[j] \in Nat /\ clock \in Nat
                /\ Window \in Int /\ MaxLag \in Nat
            BY <4>1, DeduperAssumption, FindingDedupAssumption DEF TypeOK, SeenMap
          <5>4. QED
            BY <3>1, <5>1, <5>2, <5>3
        <4>2. QED
          BY <4>1 DEF EvictedInv
      <3>6. QED
        BY <3>2, <3>3, <3>4, <3>5
    <2>5. ASSUME NEW t \in Thread, Emit(t) \/ Return(t) PROVE IInv'
      <3>1. /\ UNCHANGED <<clock, seen, admitted, admittedAt>>
            /\ pc' = [pc EXCEPT ![t] = "idle"]
            /\ now' = [now EXCEPT ![t] = 0]
        BY <2>5 DEF Emit, Return, history
      <3>2. LagInv'
        BY <3>1 DEF LagInv, TypeOK
      <3>3. QED
        BY <3>1, <3>2 DEF Bounded, SeenInv, EvictedInv
    <2>6. CASE UNCHANGED vars
      BY <2>6 DEF vars, Bounded, LagInv, SeenInv, EvictedInv
    <2>7. QED
      BY <2>1, <2>2, <2>3, <2>4, <2>5, <2>6 DEF Next, Work, Done
  <1>3. QED
    BY <1>1, <1>2, TypeCorrect, PTL DEF Spec

\* The deduper's map never holds more than MaxKeys findings.
THEOREM BoundedAlways == Spec => []Bounded
  <1>1. IInv => Bounded
    BY DEF IInv
  <1>2. QED
    BY <1>1, Invariance, PTL

\* A step that counts an admission of a finding is that finding's Admit.
LEMMA AdmissionIsAdmit ==
    ASSUME IInv, [Next]_vars, NEW k \in Key, admitted'[k] # admitted[k]
    PROVE  \E t \in Thread : Admit(t) /\ k = Head(todo[t])
  <1>1. ASSUME NEW t \in Thread, Admit(t) PROVE k = Head(todo[t])
    BY <1>1 DEF Admit, IInv, TypeOK
  <1>2. ~(\E t \in Thread : Admit(t)) => UNCHANGED admitted
    BY DEF Next, Work, Tick, Begin, Suppress, Emit, Return, Done, vars, history
  <1>3. QED
    BY <1>1, <1>2

\* Two reports of one finding are always more than Window - MaxLag ticks apart.
THEOREM QuietPeriodHolds == Spec => QuietPeriod
  <1>1. ASSUME IInv, [Next]_vars, NEW k \in Key,
               Enabled, admitted'[k] # admitted[k], admitted[k] > 0
        PROVE  clock - admittedAt[k] > Window - MaxLag
    <2>1. PICK t \in Thread : Admit(t) /\ k = Head(todo[t])
      BY <1>1, AdmissionIsAdmit
    <2>2. Allows(seen, k, now[t]) /\ now[t] \in Nat /\ now[t] <= clock
      BY <1>1, <2>1 DEF Admit, IInv, TypeOK, LagInv
    <2>3. CASE k \in DOMAIN seen
      <3>1. now[t] - seen[k] > Window
        BY <1>1, <2>2, <2>3, MakeRoomKeepsLive DEF Allows, Due, IInv, TypeOK
      <3>2. QED
        BY <1>1, <2>2, <2>3, <3>1, DeduperAssumption, FindingDedupAssumption
        DEF IInv, TypeOK, SeenMap, SeenInv
    <2>4. QED
      BY <1>1, <2>3 DEF IInv, EvictedInv
  <1>2. IInv /\ [Next]_vars =>
          [\A k \in Key :
             Enabled /\ admitted'[k] # admitted[k] /\ admitted[k] > 0
               => clock - admittedAt[k] > Window - MaxLag]_vars
    BY <1>1
  <1>3. QED
    BY <1>2, Invariance, PTL DEF Spec, QuietPeriod

\* A finding is withheld only if it, or MaxKeys other findings, were let
\* through within the window that ends when its batch read the clock.
THEOREM SuppressedForCauseHolds == Spec => SuppressedForCause
  <1>1. ASSUME IInv, [Next]_vars, NEW t \in Thread,
               todo'[t] # todo[t], pc[t] = "dedup", kept'[t] = kept[t]
        PROVE  \/ Head(todo[t]) \in Recent(now[t])
               \/ \E others \in SUBSET (Recent(now[t]) \ {Head(todo[t])}) :
                     IsFiniteSet(others) /\ Cardinality(others) >= MaxKeys
    <2> DEFINE k == Head(todo[t])
               room == MakeRoom(seen, now[t])
    <2>1. Suppress(t)
      <3>1. ~Admit(t)
        <4> SUFFICES ASSUME Admit(t) PROVE FALSE
          OBVIOUS
        <4>1. k \in Key /\ kept[t] \in Seq(Key)
          BY <1>1 DEF Admit, IInv, TypeOK
        <4>2. kept'[t] = Append(kept[t], k)
          BY <1>1 DEF Admit, Keep, IInv, TypeOK
        <4>3. Len(kept'[t]) = Len(kept[t]) + 1 /\ Len(kept[t]) \in Nat
          BY <4>1, <4>2, AppendProperties, LenProperties
        <4>4. QED
          BY <1>1, <4>3
      <3>2. ASSUME NEW u \in Thread, u # t, Admit(u) \/ Suppress(u)
            PROVE  FALSE
        BY <1>1, <3>2 DEF Admit, Suppress, IInv, TypeOK
      <3>3. ASSUME NEW u \in Thread, NEW b \in Batches, Begin(u, b) PROVE FALSE
        BY <1>1, <3>3 DEF Begin, IInv, TypeOK
      <3>4. QED
        BY <1>1, <3>1, <3>2, <3>3
        DEF Next, Work, Tick, Emit, Return, Done, vars
    <2>2. /\ k \in Key /\ ~Allows(seen, k, now[t])
          /\ now[t] \in Nat /\ SeenMap(seen)
      BY <1>1, <2>1 DEF Suppress, IInv, TypeOK
    <2>3. Enabled
      BY <2>2 DEF Allows
    <2>4. ASSUME NEW j \in DOMAIN room, now[t] - room[j] <= Window
          PROVE  j \in Recent(now[t])
      <3>1. j \in DOMAIN seen /\ room[j] = seen[j]
        BY <2>2, <2>4, MakeRoomKeepsLive
      <3>2. QED
        BY <1>1, <2>2, <2>3, <2>4, <3>1, DeduperAssumption
        DEF Recent, IInv, SeenInv, TypeOK, SeenMap
    <2>5. CASE Dropped(seen, k, now[t])
      <3>1. k \notin DOMAIN room /\ Size(room) >= MaxKeys
        BY <2>5 DEF Dropped
      <3>2. DOMAIN room \in SUBSET (Recent(now[t]) \ {k})
        BY <2>2, <2>4, <3>1, MakeRoomKeepsLive
      <3>3. IsFiniteSet(DOMAIN room)
        <4>1. DOMAIN room \in SUBSET DOMAIN seen
          BY <2>2, MakeRoomKeepsLive
        <4>2. QED
          BY <1>1, <4>1, FS_Subset DEF IInv
      <3>4. QED
        BY <3>1, <3>2, <3>3 DEF Size
    <2>6. CASE ~Dropped(seen, k, now[t])
      <3>1. k \in DOMAIN room /\ ~(now[t] - room[k] > Window)
        BY <2>2, <2>6 DEF Allows, Due
      <3>2. now[t] - room[k] \in Int
        BY <2>2, <3>1, MakeRoomKeepsLive DEF SeenMap
      <3>3. QED
        BY <2>4, <3>1, <3>2, DeduperAssumption
    <2>7. QED
      BY <2>5, <2>6
  <1>2. IInv /\ [Next]_vars =>
          [\A t \in Thread :
             todo'[t] # todo[t] /\ pc[t] = "dedup" /\ kept'[t] = kept[t]
               => \/ Head(todo[t]) \in Recent(now[t])
                  \/ \E others \in SUBSET (Recent(now[t]) \ {Head(todo[t])}) :
                        IsFiniteSet(others) /\ Cardinality(others) >= MaxKeys]_vars
    BY <1>1
  <1>3. QED
    BY <1>2, Invariance, PTL DEF Spec, SuppressedForCause

-----------------------------------------------------------------------------
(* Conservation: sums over the goroutines.                                 *)

\* Induction, over the set of the numbers for which the claim holds.
LEMMA Induct ==
  ASSUME NEW T, 0 \in T, \A n \in Nat : n \in T => n + 1 \in T
  PROVE  Nat \subseteq T
PROOF
  <1> SUFFICES ASSUME NEW z \in Nat, z \notin T PROVE FALSE
    OBVIOUS
  <1> DEFINE B == {n \in Nat : n \notin T}
  <1>1. B \subseteq Nat /\ B # {}
    OBVIOUS
  <1>2. PICK m \in B : \A k \in B : <<k, m>> \notin OpToRel(<, Nat)
    BY <1>1, NatLessThanWellFounded, WFMin
  <1>3. \A k \in B : ~(k < m)
    BY <1>2 DEF OpToRel
  <1>4. m # 0 /\ m \in Nat
    OBVIOUS
  <1>5. m - 1 \in Nat /\ m - 1 \notin B
    BY <1>3, <1>4
  <1>6. (m - 1) + 1 = m
    BY <1>4
  <1> QED BY <1>5, <1>6

\* The copies of k that the goroutines of a set hold, summed one by one.
Some(s) == CHOOSE x \in s : TRUE
SumsOf(ks, k, iter) ==
    iter = [s \in SUBSET Thread |->
              IF s = {} THEN 0
              ELSE Copies(ks[CHOOSE x \in s : TRUE], k) + iter[s \ {CHOOSE x \in s : TRUE}]]
Sums(ks, k) == CHOOSE iter : SumsOf(ks, k, iter)

LEMMA CopiesNone == \A k : Copies(<< >>, k) = 0
PROOF
  <1>1. \A k : {i \in DOMAIN << >> : << >>[i] = k} = {}
    OBVIOUS
  <1> QED BY <1>1, FS_EmptySet DEF Copies

LEMMA CopiesNat ==
  ASSUME NEW ks \in Seq(Key), NEW k
  PROVE  Copies(ks, k) \in Nat
PROOF
  <1>1. IsFiniteSet(DOMAIN ks)
    BY FS_Interval
  <1>2. IsFiniteSet({i \in DOMAIN ks : ks[i] = k})
    BY <1>1, FS_Subset
  <1> QED BY <1>2, FS_CardinalityType DEF Copies

\* One more finding of a list counts for itself only.
LEMMA CopiesAppend ==
  ASSUME NEW ks \in Seq(Key), NEW e \in Key, NEW k
  PROVE  Copies(Append(ks, e), k) = Copies(ks, k) + (IF e = k THEN 1 ELSE 0)
PROOF
  <1> DEFINE n == Len(ks)
             t == Append(ks, e)
             P == {i \in DOMAIN ks : ks[i] = k}
             Q == {i \in DOMAIN t : t[i] = k}
  <1>1. n \in Nat /\ DOMAIN ks = 1 .. n /\ DOMAIN t = 1 .. n + 1 /\ t[n + 1] = e
        /\ \A i \in 1 .. n : t[i] = ks[i]
    BY AppendProperties
  <1> HIDE DEF n, t
  <1>2. 1 .. n + 1 = (1 .. n) \cup {n + 1} /\ n + 1 \notin 1 .. n
    BY <1>1
  <1>3. n + 1 \notin P /\ Q = IF e = k THEN P \cup {n + 1} ELSE P
    BY <1>1, <1>2
  <1>4. IsFiniteSet(P)
    <2>1. IsFiniteSet(1 .. n) /\ P \subseteq 1 .. n
      BY <1>1, FS_Interval
    <2> QED BY <2>1, FS_Subset
  <1>5. Copies(ks, k) = Cardinality(P) /\ Copies(t, k) = Cardinality(Q)
    BY DEF Copies
  <1>6. Cardinality(P) \in Nat
    BY <1>4, FS_CardinalityType
  <1> HIDE DEF P, Q
  <1>7. Cardinality(P \cup {n + 1}) = Cardinality(P) + 1
    BY <1>3, <1>4, FS_AddElement
  <1> QED BY <1>3, <1>5, <1>6, <1>7 DEF t

\* The element a nonempty set gives up, and what is left.
LEMMA OneLess ==
  ASSUME IsFiniteSet(Thread), NEW s \in SUBSET Thread, s # {}
  PROVE  /\ Some(s) \in s /\ s \ {Some(s)} \in SUBSET Thread
         /\ IsFiniteSet(s) /\ Cardinality(s) \in Nat
         /\ Cardinality(s \ {Some(s)}) = Cardinality(s) - 1
PROOF
  <1>1. Some(s) \in s
    BY DEF Some
  <1>2. IsFiniteSet(s) /\ Cardinality(s) \in Nat
    BY FS_Subset, FS_CardinalityType
  <1>3. Cardinality(s \ {Some(s)}) = Cardinality(s) - 1
    BY <1>1, <1>2, FS_RemoveElement
  <1> QED BY <1>1, <1>2, <1>3

\* The sum is what its recursive equation says: the equation has a solution.
LEMMA SumsExist ==
  ASSUME IsFiniteSet(Thread), NEW ks, NEW k
  PROVE  SumsOf(ks, k, Sums(ks, k))
PROOF
  <1> DEFINE More(s, x) == Copies(ks[Some(s)], k) + x
             Next1(g) == [s \in SUBSET Thread |-> IF s = {} THEN 0 ELSE More(s, g[s \ {Some(s)}])]
             Right(g, n) == \A s \in SUBSET Thread : Cardinality(s) <= n => g[s] = Next1(g)[s]
             T == {n \in Nat : \E g : Right(g, n)}
  <1>1. 0 \in T
    <2> DEFINE g == [s \in SUBSET Thread |-> 0]
    <2>1. ASSUME NEW s \in SUBSET Thread, Cardinality(s) <= 0 PROVE g[s] = Next1(g)[s]
      <3>1. s = {}
        <4>1. IsFiniteSet(s) /\ Cardinality(s) \in Nat
          BY FS_Subset, FS_CardinalityType
        <4>2. Cardinality(s) = 0
          BY <2>1, <4>1
        <4> QED BY <4>1, <4>2, FS_EmptySet
      <3> QED BY <3>1
    <2>2. Right(g, 0)
      BY <2>1
    <2> QED BY <2>2
  <1>2. ASSUME NEW n \in Nat, n \in T PROVE n + 1 \in T
    <2>1. PICK g : Right(g, n)
      BY <1>2
    <2> DEFINE h == Next1(g)
    <2>2. ASSUME NEW s \in SUBSET Thread, Cardinality(s) <= n + 1 PROVE h[s] = Next1(h)[s]
      <3>1. CASE s = {}
        BY <3>1
      <3>2. CASE s # {}
        <4> DEFINE r == s \ {Some(s)}
        <4>1. r \in SUBSET Thread /\ Cardinality(r) <= n
          BY <2>2, <3>2, OneLess
        <4>2. g[r] = h[r]
          <5> HIDE DEF h, r
          <5>1. g[r] = Next1(g)[r]
            BY <2>1, <4>1
          <5> QED BY <5>1 DEF h
        <4>3. h[s] = More(s, g[r]) /\ Next1(h)[s] = More(s, h[r])
          <5> HIDE DEF More
          <5> QED BY <3>2
        <4> HIDE DEF h, More, r
        <4> QED BY <4>2, <4>3
      <3> QED BY <3>1, <3>2
    <2> HIDE DEF h, Next1
    <2>3. Right(h, n + 1)
      BY <2>2
    <2> QED BY <2>3
  <1> HIDE DEF T
  <1>3. Nat \subseteq T
    BY <1>1, <1>2, Induct
  <1> USE DEF T
  <1>4. Cardinality(Thread) \in Nat
    BY FS_CardinalityType
  <1>5. PICK g : Right(g, Cardinality(Thread))
    BY <1>3, <1>4
  <1>6. \A s \in SUBSET Thread : Cardinality(s) <= Cardinality(Thread)
    BY FS_Subset
  <1>7. \A s \in SUBSET Thread : g[s] = Next1(g)[s]
    <2> HIDE DEF Next1
    <2> QED BY <1>5, <1>6
  <1> DEFINE h == Next1(g)
  <1>8. \A s \in SUBSET Thread : h[s] = Next1(h)[s]
    <2> SUFFICES ASSUME NEW s \in SUBSET Thread PROVE h[s] = Next1(h)[s]
      OBVIOUS
    <2>1. CASE s = {}
      BY <2>1
    <2>2. CASE s # {}
      <3> DEFINE r == s \ {Some(s)}
      <3>1. g[r] = h[r]
        <4> HIDE DEF Next1
        <4> QED BY <1>7
      <3>2. h[s] = More(s, g[r]) /\ Next1(h)[s] = More(s, h[r])
        <4> HIDE DEF More
        <4> QED BY <2>2
      <3> HIDE DEF h, More, r
      <3> QED BY <3>1, <3>2
    <2> QED BY <2>1, <2>2
  <1>9. h = Next1(h)
    <2>1. h = [s \in SUBSET Thread |-> h[s]]
      OBVIOUS
    <2>2. Next1(h) = [s \in SUBSET Thread |-> Next1(h)[s]]
      OBVIOUS
    <2> HIDE DEF h, Next1
    <2> QED BY <1>8, <2>1, <2>2
  <1>10. SumsOf(ks, k, h)
    <2> HIDE DEF h
    <2> QED BY <1>9 DEF SumsOf, Some
  <1> QED BY <1>10 DEF Sums

\* What the sum of a set is, by the element it gives up first.
Splits(ks, k) ==
  /\ Sums(ks, k)[{}] = 0
  /\ \A s \in SUBSET Thread : s # {} =>
       Sums(ks, k)[s] = Copies(ks[Some(s)], k) + Sums(ks, k)[s \ {Some(s)}]

LEMMA SumsSplit ==
  ASSUME IsFiniteSet(Thread), NEW ks, NEW k
  PROVE  Splits(ks, k)
PROOF
  <1> DEFINE it == Sums(ks, k)
  <1>1. SumsOf(ks, k, it)
    BY SumsExist
  <1> HIDE DEF it
  <1>2. it[{}] = 0
    BY <1>1 DEF SumsOf
  <1>3. \A s \in SUBSET Thread : s # {} => it[s] = Copies(ks[Some(s)], k) + it[s \ {Some(s)}]
    BY <1>1 DEF SumsOf, Some
  <1> QED BY <1>2, <1>3 DEF it, Splits

\* When one goroutine's list changes, the sum changes by its copies.
LEMMA SumsChange ==
  ASSUME IsFiniteSet(Thread), NEW t \in Thread, NEW k,
         NEW ks \in [Thread -> Seq(Key)], NEW ls \in [Thread -> Seq(Key)],
         \A u \in Thread : u # t => ls[u] = ks[u]
  PROVE  /\ Sums(ks, k)[Thread] \in Nat /\ Sums(ls, k)[Thread] \in Nat
         /\ Sums(ls, k)[Thread] + Copies(ks[t], k) = Sums(ks, k)[Thread] + Copies(ls[t], k)
PROOF
  <1> DEFINE it == Sums(ks, k)
             jt == Sums(ls, k)
             a(u) == Copies(ks[u], k)
             b(u) == Copies(ls[u], k)
             Holds(s) == /\ it[s] \in Nat /\ jt[s] \in Nat
                         /\ jt[s] + (IF t \in s THEN a(t) ELSE 0) = it[s] + (IF t \in s THEN b(t) ELSE 0)
             T == {n \in Nat : \A s \in SUBSET Thread : Cardinality(s) = n => Holds(s)}
  <1>1. /\ it[{}] = 0 /\ jt[{}] = 0
        /\ \A s \in SUBSET Thread : s # {} =>
             it[s] = a(Some(s)) + it[s \ {Some(s)}] /\ jt[s] = b(Some(s)) + jt[s \ {Some(s)}]
    <2> HIDE DEF it, jt, a, b
    <2>1. Splits(ks, k) /\ Splits(ls, k)
      BY SumsSplit
    <2> QED BY <2>1 DEF Splits, it, jt, a, b
  <1>2. \A u \in Thread : a(u) \in Nat /\ b(u) \in Nat /\ (u # t => a(u) = b(u))
    BY CopiesNat
  <1> HIDE DEF it, jt, a, b
  <1>3. 0 \in T
    <2> SUFFICES ASSUME NEW s \in SUBSET Thread, Cardinality(s) = 0 PROVE Holds(s)
      OBVIOUS
    <2>1. s = {}
      BY FS_Subset, FS_EmptySet
    <2> QED BY <1>1, <2>1
  <1>4. ASSUME NEW n \in Nat, n \in T PROVE n + 1 \in T
    <2> SUFFICES ASSUME NEW s \in SUBSET Thread, Cardinality(s) = n + 1 PROVE Holds(s)
      OBVIOUS
    <2>1. s # {}
      <3>1. Cardinality({}) = 0 /\ n + 1 # 0
        BY FS_EmptySet
      <3> QED BY <3>1
    <2> DEFINE c == Some(s)
               r == s \ {c}
    <2>2. c \in s /\ r \in SUBSET Thread /\ Cardinality(r) = n
      <3>1. /\ Some(s) \in s /\ s \ {Some(s)} \in SUBSET Thread
            /\ Cardinality(s \ {Some(s)}) = Cardinality(s) - 1
        BY <2>1, OneLess
      <3> QED BY <3>1
    <2>3. it[s] = a(c) + it[r] /\ jt[s] = b(c) + jt[r]
      BY <1>1, <2>1
    <2>4. Holds(r)
      <3> HIDE DEF Holds, r
      <3> QED BY <1>4, <2>2
    <2>5. (t \in s <=> t \in r \/ t = c) /\ c \notin r /\ c \in Thread
      BY <2>2
    <2>6. a(c) \in Nat /\ b(c) \in Nat /\ a(t) \in Nat /\ b(t) \in Nat /\ (c # t => a(c) = b(c))
      BY <1>2, <2>5
    <2> DEFINE x == it[r]
               y == jt[r]
    <2>7. /\ x \in Nat /\ y \in Nat /\ it[s] = a(c) + x /\ jt[s] = b(c) + y
          /\ y + (IF t \in r THEN a(t) ELSE 0) = x + (IF t \in r THEN b(t) ELSE 0)
      BY <2>3, <2>4
    <2> HIDE DEF c, r, x, y
    <2>8. CASE c = t
      <3>1. t \in s /\ t \notin r
        BY <2>5, <2>8
      <3>2. x = y
        BY <2>7, <3>1
      <3>3. jt[s] + a(t) = it[s] + b(t)
        BY <2>6, <2>7, <2>8, <3>2
      <3> QED BY <2>6, <2>7, <3>1, <3>3
    <2>9. CASE c # t
      <3>1. t \in s <=> t \in r
        BY <2>5, <2>9
      <3>2. a(c) = b(c)
        BY <2>6, <2>9
      <3>3. CASE t \in r
        <4>1. y + a(t) = x + b(t)
          BY <2>7, <3>3
        <4>2. jt[s] + a(t) = it[s] + b(t)
          <5> DEFINE p == a(c)
                     q == a(t)
                     z == b(t)
          <5>1. /\ it[s] = p + x /\ jt[s] = p + y /\ y + q = x + z
                /\ x \in Nat /\ y \in Nat /\ p \in Nat /\ q \in Nat /\ z \in Nat
            BY <2>6, <2>7, <3>2, <4>1
          <5> HIDE DEF p, q, z
          <5>2. (p + y) + q = (p + x) + z
            BY <5>1
          <5> QED BY <5>1, <5>2 DEF q, z
        <4>3. it[s] \in Nat /\ jt[s] \in Nat
          BY <2>6, <2>7
        <4>4. t \in s
          BY <3>1, <3>3
        <4> QED BY <4>2, <4>3, <4>4
      <3>4. CASE t \notin r
        <4>1. x = y
          BY <2>7, <3>4
        <4> QED BY <2>6, <2>7, <3>1, <3>2, <3>4, <4>1
      <3> QED BY <3>3, <3>4
    <2> QED BY <2>8, <2>9
  <1> HIDE DEF T
  <1>5. Nat \subseteq T
    BY <1>3, <1>4, Induct
  <1>6. Cardinality(Thread) \in Nat /\ Thread \in SUBSET Thread
    BY FS_CardinalityType
  <1>7. Holds(Thread)
    <2> HIDE DEF Holds
    <2> QED BY <1>5, <1>6 DEF T
  <1> QED BY <1>7 DEF it, jt, a, b

\* Goroutines that hold nothing hold no copies.
LEMMA SumsNone ==
  ASSUME IsFiniteSet(Thread), NEW k, NEW ks, \A t \in Thread : ks[t] = << >>
  PROVE  Sums(ks, k)[Thread] = 0
PROOF
  <1> DEFINE it == Sums(ks, k)
             T == {n \in Nat : \A s \in SUBSET Thread : Cardinality(s) = n => it[s] = 0}
  <1>1. it[{}] = 0 /\ \A s \in SUBSET Thread : s # {} => it[s] = Copies(ks[Some(s)], k) + it[s \ {Some(s)}]
    <2> HIDE DEF it
    <2>1. Splits(ks, k)
      BY SumsSplit
    <2> QED BY <2>1 DEF Splits, it
  <1> HIDE DEF it
  <1>2. 0 \in T
    <2>1. \A s \in SUBSET Thread : Cardinality(s) = 0 => s = {}
      BY FS_Subset, FS_EmptySet
    <2> QED BY <1>1, <2>1
  <1>3. ASSUME NEW n \in Nat, n \in T PROVE n + 1 \in T
    <2> SUFFICES ASSUME NEW s \in SUBSET Thread, Cardinality(s) = n + 1 PROVE it[s] = 0
      OBVIOUS
    <2>1. s # {}
      <3>1. Cardinality({}) = 0 /\ n + 1 # 0
        BY FS_EmptySet
      <3> QED BY <3>1
    <2> DEFINE r == s \ {Some(s)}
    <2>2. Some(s) \in Thread /\ r \in SUBSET Thread /\ Cardinality(r) = n
      <3>1. /\ Some(s) \in s /\ s \ {Some(s)} \in SUBSET Thread
            /\ Cardinality(s \ {Some(s)}) = Cardinality(s) - 1
        BY <2>1, OneLess
      <3> QED BY <3>1
    <2>3. it[s] = Copies(ks[Some(s)], k) + it[r]
      BY <1>1, <2>1
    <2>4. Copies(ks[Some(s)], k) = 0
      BY <2>2, CopiesNone
    <2>5. it[r] = 0
      <3> HIDE DEF r
      <3> QED BY <1>3, <2>2
    <2> HIDE DEF r
    <2> QED BY <2>3, <2>4, <2>5
  <1> HIDE DEF T
  <1>4. Nat \subseteq T
    BY <1>2, <1>3, Induct
  <1>5. Cardinality(Thread) \in Nat /\ Thread \in SUBSET Thread
    BY FS_CardinalityType
  <1>6. it[Thread] = 0
    BY <1>4, <1>5 DEF T
  <1> QED BY <1>6 DEF it

\* A goroutine keeps findings only while it is in report.
IdleInv == \A t \in Thread : pc[t] = "idle" => kept[t] = << >>

LEMMA ConservationSums ==
    Conservation <=> \A k \in Key : admitted[k] = emitted[k] + Sums(kept, k)[Thread]
PROOF
  BY DEF Conservation, MapThenSumSet, MapThenFoldSet, Sums, SumsOf

LEMMA IdleStep == TypeOK /\ IdleInv /\ [Next]_vars => IdleInv'
PROOF
  <1> SUFFICES ASSUME TypeOK, IdleInv, [Next]_vars PROVE IdleInv'
    OBVIOUS
  <1> USE DEF TypeOK, IdleInv
  <1>1. ASSUME NEW t \in Thread, NEW b \in Batches, Begin(t, b) PROVE IdleInv'
    BY <1>1 DEF Begin
  <1>2. ASSUME NEW t \in Thread, Admit(t) PROVE IdleInv'
    <2>1. pc' = pc /\ pc[t] # "idle" /\ \A u \in Thread : u # t => kept'[u] = kept[u]
      BY <1>2 DEF Admit
    <2> QED BY <2>1
  <1>3. ASSUME NEW t \in Thread, Suppress(t) PROVE IdleInv'
    BY <1>3 DEF Suppress
  <1>4. ASSUME NEW t \in Thread, Emit(t) \/ Return(t) PROVE IdleInv'
    BY <1>4 DEF Emit, Return
  <1>5. CASE Tick \/ UNCHANGED vars
    BY <1>5 DEF Tick, vars
  <1> QED BY <1>1, <1>2, <1>3, <1>4, <1>5 DEF Next, Work, Done

\* Admit moves a copy into the goroutine's list, Emit moves the list to the
\* reporter; every other step leaves all copies where they are.
LEMMA ConservationStep ==
    ASSUME IsFiniteSet(Thread), TypeOK, TypeOK', IdleInv, [Next]_vars, NEW k \in Key,
           admitted[k] = emitted[k] + Sums(kept, k)[Thread]
    PROVE  (admitted[k] = emitted[k] + Sums(kept, k)[Thread])'
PROOF
  <1>1. /\ kept \in [Thread -> Seq(Key)] /\ kept' \in [Thread -> Seq(Key)]
        /\ admitted[k] \in Nat /\ admitted'[k] \in Nat
        /\ emitted[k] \in Nat /\ emitted'[k] \in Nat
    BY DEF TypeOK
  <1>2. CASE kept' = kept /\ emitted' = emitted /\ admitted' = admitted
    BY <1>2 DEF Sums, SumsOf
  <1>3. ASSUME NEW t \in Thread, NEW b \in Batches, Begin(t, b)
        PROVE  kept' = kept /\ emitted' = emitted /\ admitted' = admitted
    BY <1>1, <1>3 DEF Begin, IdleInv, history
  <1>4. ASSUME NEW t \in Thread, Return(t)
        PROVE  kept' = kept /\ emitted' = emitted /\ admitted' = admitted
    <2>1. kept[t] \in Seq(Key) /\ ~(Len(kept[t]) > 0)
      BY <1>1, <1>4 DEF Return, WorthReporting
    <2>2. kept[t] = << >>
      BY <2>1, LenProperties, EmptySeq
    <2> QED BY <1>1, <1>4, <2>2 DEF Return, history
  <1>5. ASSUME NEW t \in Thread, \A u \in Thread : u # t => kept'[u] = kept[u]
        PROVE  /\ Sums(kept, k)[Thread] \in Nat /\ Sums(kept', k)[Thread] \in Nat
               /\ Sums(kept', k)[Thread] + Copies(kept[t], k)
                    = Sums(kept, k)[Thread] + Copies(kept'[t], k)
               /\ Copies(kept[t], k) \in Nat /\ Copies(kept'[t], k) \in Nat
    <2>1. kept[t] \in Seq(Key) /\ kept'[t] \in Seq(Key)
      BY <1>1
    <2>2. Copies(kept[t], k) \in Nat /\ Copies(kept'[t], k) \in Nat
      BY <2>1, CopiesNat
    <2> DEFINE ks == kept
               ls == kept'
    <2>3. /\ ks \in [Thread -> Seq(Key)] /\ ls \in [Thread -> Seq(Key)]
          /\ \A u \in Thread : u # t => ls[u] = ks[u]
      BY <1>1, <1>5
    <2> HIDE DEF ks, ls
    <2>4. /\ Sums(ks, k)[Thread] \in Nat /\ Sums(ls, k)[Thread] \in Nat
          /\ Sums(ls, k)[Thread] + Copies(ks[t], k) = Sums(ks, k)[Thread] + Copies(ls[t], k)
      BY <2>3, SumsChange
    <2> QED BY <2>2, <2>4 DEF ks, ls
  <1> DEFINE before == Sums(kept, k)[Thread]
             after == Sums(kept', k)[Thread]
             had(t) == Copies(kept[t], k)
             has(t) == Copies(kept'[t], k)
  <1>6. ASSUME NEW t \in Thread, Admit(t) PROVE admitted'[k] = emitted'[k] + after
    <2> DEFINE e == Head(todo[t])
    <2>1. /\ e \in Key /\ kept[t] \in Seq(Key) /\ kept'[t] = Append(kept[t], e)
          /\ \A u \in Thread : u # t => kept'[u] = kept[u]
          /\ admitted'[k] = admitted[k] + (IF e = k THEN 1 ELSE 0)
          /\ emitted' = emitted
      <3>1. /\ e \in Key /\ kept[t] \in Seq(Key) /\ admitted \in [Key -> Nat]
            /\ kept' = [kept EXCEPT ![t] = Append(@, e)]
            /\ admitted' = [admitted EXCEPT ![e] = @ + 1]
            /\ emitted' = emitted
        BY <1>6 DEF Admit, Keep, TypeOK
      <3> HIDE DEF e
      <3>2. kept'[t] = Append(kept[t], e) /\ \A u \in Thread : u # t => kept'[u] = kept[u]
        BY <1>1, <3>1
      <3>3. admitted'[k] = admitted[k] + (IF e = k THEN 1 ELSE 0)
        BY <1>1, <3>1
      <3> QED BY <3>1, <3>2, <3>3
    <2> HIDE DEF e
    <2>2. has(t) = had(t) + (IF e = k THEN 1 ELSE 0)
      BY <2>1, CopiesAppend
    <2>3. before \in Nat /\ after \in Nat /\ after + had(t) = before + has(t) /\ had(t) \in Nat
      BY <1>5, <2>1
    <2> HIDE DEF had, has, after
    <2>4. after = before + (IF e = k THEN 1 ELSE 0)
      <3> HIDE DEF before
      <3> QED BY <2>2, <2>3
    <2>5. admitted[k] = emitted[k] + before
      OBVIOUS
    <2> HIDE DEF before
    <2> QED BY <1>1, <2>1, <2>3, <2>4, <2>5
  <1>7. ASSUME NEW t \in Thread, Emit(t) PROVE admitted'[k] = emitted'[k] + after
    <2>1. /\ kept'[t] = << >>
          /\ \A u \in Thread : u # t => kept'[u] = kept[u]
          /\ admitted' = admitted
          /\ emitted'[k] = emitted[k] + had(t)
      BY <1>1, <1>7 DEF Emit
    <2>2. has(t) = 0
      BY <2>1, CopiesNone
    <2>3. before \in Nat /\ after \in Nat /\ after + had(t) = before + has(t) /\ had(t) \in Nat
      BY <1>5, <2>1
    <2>4. admitted[k] = emitted[k] + before
      OBVIOUS
    <2> HIDE DEF had, has, after, before
    <2> QED BY <1>1, <2>1, <2>2, <2>3, <2>4
  <1>8. CASE Tick \/ UNCHANGED vars
    BY <1>2, <1>8 DEF Tick, vars, history
  <1>9. CASE \E t \in Thread : Suppress(t)
    BY <1>2, <1>9 DEF Suppress, history
  <1> QED
    BY <1>2, <1>3, <1>4, <1>6, <1>7, <1>8, <1>9 DEF Next, Work, Done

\* Every admitted finding is kept by one goroutine or was reported, once
\* (guard.go: report), for any finite number of goroutines.
THEOREM ConservationHolds ==
    ASSUME IsFiniteSet(Thread) PROVE Spec => []Conservation
PROOF
  <1> DEFINE Counted == \A k \in Key : admitted[k] = emitted[k] + Sums(kept, k)[Thread]
  <1>1. Init => IdleInv /\ Counted
    <2> SUFFICES ASSUME Init PROVE IdleInv /\ Counted
      OBVIOUS
    <2>1. IdleInv
      BY DEF Init, IdleInv
    <2>2. ASSUME NEW k \in Key PROVE admitted[k] = emitted[k] + Sums(kept, k)[Thread]
      <3>1. \A t \in Thread : kept[t] = << >>
        BY DEF Init
      <3>2. Sums(kept, k)[Thread] = 0
        BY <3>1, SumsNone
      <3>3. admitted[k] = 0 /\ emitted[k] = 0
        BY DEF Init
      <3> QED BY <3>2, <3>3
    <2> QED BY <2>1, <2>2
  <1>2. TypeOK /\ TypeOK' /\ IdleInv /\ Counted /\ [Next]_vars => Counted'
    BY ConservationStep
  <1>3. Counted => Conservation
    BY ConservationSums
  <1> HIDE DEF Counted
  <1> QED BY <1>1, <1>2, <1>3, IdleStep, TypeCorrect, PTL DEF Spec
=============================================================================
