------------------------ MODULE AnalysisCache_proofs ------------------------
(***************************************************************************)
(* For any number of goroutines, queries and any capacity: the cache is    *)
(* coherent, bounded and exactly least-recently-used, and analyzing        *)
(* through it cannot be told from analyzing without it.                    *)
(***************************************************************************)
EXTENDS AnalysisCache, FiniteSetTheorems, TLAPS
-----------------------------------------------------------------------------
(* The operators of LruList, for lists over any set Q.                     *)


\* MoveToFront is a permutation that puts k first and keeps the list free of
\* duplicates (cache.go: ll.MoveToFront).
LEMMA MoveToFrontPermutes ==
    ASSUME NEW Q, NEW s \in Seq(Q), NEW k \in Elements(s), NoDuplicates(s)
    PROVE  /\ MoveToFront(s, k) \in Seq(Q)
           /\ Len(MoveToFront(s, k)) = Len(s)
           /\ Elements(MoveToFront(s, k)) = Elements(s)
           /\ NoDuplicates(MoveToFront(s, k))
PROOF
  <1> DEFINE at == CHOOSE i \in DOMAIN s : s[i] = k
             m == MoveToFront(s, k)
  <1>1. at \in 1 .. Len(s) /\ s[at] = k
    BY DEF Elements
  <1>2. m = [i \in 1 .. Len(s) |-> IF i = 1 THEN k
                                   ELSE IF i <= at THEN s[i - 1] ELSE s[i]]
    BY DEF MoveToFront
  <1>3. Len(s) \in Nat /\ DOMAIN s = 1 .. Len(s) /\ \A i \in 1 .. Len(s) : s[i] \in Q
    OBVIOUS
  <1> HIDE DEF at, m
  <1>4. \A i \in 1 .. Len(s) : m[i] \in Q
    BY <1>1, <1>2, <1>3
  <1>5. m \in Seq(Q) /\ Len(m) = Len(s)
    BY <1>2, <1>3, <1>4
  <1>6. DOMAIN m = 1 .. Len(s)
    BY <1>2
  <1>7. Elements(m) \subseteq Elements(s)
    <2> SUFFICES ASSUME NEW i \in 1 .. Len(s) PROVE \E j \in 1 .. Len(s) : s[j] = m[i]
      BY <1>3, <1>6 DEF Elements
    <2>1. CASE i = 1
      BY <1>1, <1>2, <2>1
    <2>2. CASE i # 1 /\ i <= at
      BY <1>1, <1>2, <1>3, <2>2
    <2>3. CASE i # 1 /\ ~(i <= at)
      BY <1>1, <1>2, <1>3, <2>3
    <2> QED BY <2>1, <2>2, <2>3
  <1>8. Elements(s) \subseteq Elements(m)
    <2> SUFFICES ASSUME NEW i \in 1 .. Len(s) PROVE \E j \in 1 .. Len(s) : m[j] = s[i]
      BY <1>3, <1>6 DEF Elements
    <2>1. CASE i = at
      BY <1>1, <1>2, <1>3, <2>1
    <2>2. CASE i < at
      <3>1. i + 1 \in 1 .. Len(s) /\ i + 1 # 1 /\ i + 1 <= at /\ (i + 1) - 1 = i
        BY <1>1, <1>3, <2>2
      <3> QED BY <1>2, <3>1
    <2>3. CASE i > at
      BY <1>1, <1>2, <1>3, <2>3
    <2> QED BY <1>1, <2>1, <2>2, <2>3
  <1>9. NoDuplicates(m)
    <2> SUFFICES ASSUME NEW i \in 1 .. Len(s), NEW j \in 1 .. Len(s), i < j
                 PROVE  m[i] # m[j]
      BY <1>3, <1>6 DEF NoDuplicates
    <2>1. \A x, y \in 1 .. Len(s) : x # y => s[x] # s[y]
      BY <1>3 DEF NoDuplicates
    <2>2. CASE j <= at
      <3>1. m[j] = s[j - 1] /\ j - 1 \in 1 .. Len(s) /\ j - 1 # at
        BY <1>1, <1>2, <1>3, <2>2
      <3>2. CASE i = 1
        BY <1>1, <1>2, <2>1, <3>1, <3>2
      <3>3. CASE i # 1
        BY <1>1, <1>2, <1>3, <2>1, <2>2, <3>1, <3>3
      <3> QED BY <3>2, <3>3
    <2>3. CASE j > at
      <3>1. m[j] = s[j] /\ j # at
        BY <1>1, <1>2, <1>3, <2>3
      <3>2. CASE i = 1
        BY <1>1, <1>2, <2>1, <3>1, <3>2
      <3>3. CASE i # 1 /\ i <= at
        BY <1>1, <1>2, <1>3, <2>1, <2>3, <3>1, <3>3
      <3>4. CASE i # 1 /\ ~(i <= at)
        BY <1>1, <1>2, <1>3, <2>1, <2>3, <3>1, <3>4
      <3> QED BY <3>2, <3>3, <3>4
    <2> QED BY <1>1, <1>3, <2>2, <2>3
  <1> QED BY <1>5, <1>7, <1>8, <1>9 DEF m

\* PushFront of a new element (cache.go: ll.PushFront).
LEMMA PushFrontAdds ==
    ASSUME NEW Q, NEW s \in Seq(Q), NEW k \in Q, k \notin Elements(s), NoDuplicates(s)
    PROVE  /\ PushFront(s, k) \in Seq(Q)
           /\ Len(PushFront(s, k)) = Len(s) + 1
           /\ \A i \in 1 .. Len(s) + 1 :
                PushFront(s, k)[i] = IF i = 1 THEN k ELSE s[i - 1]
           /\ Elements(PushFront(s, k)) = Elements(s) \cup {k}
           /\ NoDuplicates(PushFront(s, k))
PROOF
  <1> DEFINE p == PushFront(s, k)
  <1>1. p \in Seq(Q) /\ Len(p) = Len(s) + 1
    BY DEF PushFront
  <1>2. \A i \in 1 .. Len(s) + 1 : p[i] = IF i = 1 THEN k ELSE s[i - 1]
    BY DEF PushFront
  <1>3. DOMAIN p = 1 .. Len(s) + 1 /\ DOMAIN s = 1 .. Len(s) /\ Len(s) \in Nat
    BY <1>1
  <1> HIDE DEF p
  <1>4. Elements(p) \subseteq Elements(s) \cup {k}
    BY <1>2, <1>3 DEF Elements
  <1>5. Elements(s) \cup {k} \subseteq Elements(p)
    <2>1. k \in Elements(p)
      BY <1>2, <1>3 DEF Elements
    <2>2. ASSUME NEW i \in 1 .. Len(s) PROVE s[i] \in Elements(p)
      <3>1. i + 1 \in 1 .. Len(s) + 1 /\ i + 1 # 1 /\ (i + 1) - 1 = i
        BY <1>3
      <3> QED BY <1>2, <1>3, <3>1 DEF Elements
    <2> QED BY <1>3, <2>1, <2>2 DEF Elements
  <1>6. NoDuplicates(p)
    <2> SUFFICES ASSUME NEW i \in 1 .. Len(s) + 1, NEW j \in 1 .. Len(s) + 1, i < j
                 PROVE  p[i] # p[j]
      BY <1>3 DEF NoDuplicates
    <2>1. p[j] = s[j - 1] /\ j - 1 \in 1 .. Len(s)
      BY <1>2, <1>3
    <2>2. CASE i = 1
      BY <1>2, <1>3, <2>1, <2>2 DEF Elements
    <2>3. CASE i # 1
      BY <1>2, <1>3, <2>1, <2>3 DEF NoDuplicates
    <2> QED BY <2>2, <2>3
  <1> QED BY <1>1, <1>2, <1>4, <1>5, <1>6 DEF p

\* Removing the back removes just that element (cache.go: ll.Remove(oldest)).
LEMMA RemoveBackRemoves ==
    ASSUME NEW Q, NEW s \in Seq(Q), Len(s) > 0, NoDuplicates(s)
    PROVE  /\ RemoveBack(s) \in Seq(Q)
           /\ Len(RemoveBack(s)) = Len(s) - 1
           /\ \A i \in 1 .. Len(s) - 1 : RemoveBack(s)[i] = s[i]
           /\ Elements(RemoveBack(s)) = Elements(s) \ {Back(s)}
           /\ NoDuplicates(RemoveBack(s))
PROOF
  <1> DEFINE r == RemoveBack(s)
  <1>1. Len(s) \in Nat /\ DOMAIN s = 1 .. Len(s) /\ \A i \in 1 .. Len(s) : s[i] \in Q
    OBVIOUS
  <1>2. r \in Seq(Q) /\ Len(r) = Len(s) - 1 /\ \A i \in 1 .. Len(s) - 1 : r[i] = s[i]
    BY <1>1 DEF RemoveBack
  <1>3. DOMAIN r = 1 .. Len(s) - 1
    BY <1>2
  <1> HIDE DEF r
  <1>4. Elements(r) = Elements(s) \ {Back(s)}
    BY <1>1, <1>2, <1>3 DEF Elements, Back, NoDuplicates
  <1>5. NoDuplicates(r)
    BY <1>1, <1>2, <1>3 DEF NoDuplicates
  <1> QED BY <1>2, <1>4, <1>5 DEF r

\* Touch in all its cases.
LEMMA TouchUses ==
    ASSUME NEW Q, NEW s \in Seq(Q), NEW k \in Q, NoDuplicates(s)
    PROVE  /\ Touch(s, k) \in Seq(Q)
           /\ NoDuplicates(Touch(s, k))
PROOF
  BY MoveToFrontPermutes, PushFrontAdds DEF Touch

\* Lists with the same length and elements at the same places are equal.
LEMMA SameList ==
    ASSUME NEW Q, NEW a \in Seq(Q), NEW b \in Seq(Q), Len(a) = Len(b),
           \A i \in 1 .. Len(a) : a[i] = b[i]
    PROVE  a = b
PROOF
  <1>1. a = [i \in 1 .. Len(a) |-> a[i]] /\ b = [i \in 1 .. Len(b) |-> b[i]]
    OBVIOUS
  <1> QED BY <1>1

\* A prefix of a list (cache.go: the entries that fit).
LEMMA RecentPrefix ==
    ASSUME NEW Q, NEW s \in Seq(Q), NEW n \in Nat
    PROVE  /\ Recent(s, n) \in Seq(Q)
           /\ Len(Recent(s, n)) = (IF Len(s) <= n THEN Len(s) ELSE n)
           /\ \A i \in 1 .. Len(Recent(s, n)) : Recent(s, n)[i] = s[i]
           /\ NoDuplicates(s) => NoDuplicates(Recent(s, n))
PROOF
  <1> DEFINE r == Recent(s, n)
  <1>1. Len(s) \in Nat /\ DOMAIN s = 1 .. Len(s) /\ \A i \in 1 .. Len(s) : s[i] \in Q
    OBVIOUS
  <1>2. r \in Seq(Q) /\ Len(r) = (IF Len(s) <= n THEN Len(s) ELSE n)
    BY <1>1 DEF Recent
  <1>3. \A i \in 1 .. Len(r) : r[i] = s[i]
    BY <1>1 DEF Recent
  <1>4. DOMAIN r = 1 .. Len(r)
    BY <1>2
  <1> HIDE DEF r
  <1>5. NoDuplicates(s) => NoDuplicates(r)
    BY <1>1, <1>2, <1>3, <1>4 DEF NoDuplicates
  <1> QED BY <1>2, <1>3, <1>5 DEF r

\* Moving to the front commutes with keeping the n most recent: what a hit
\* does to the cache is what it does to the whole past.
LEMMA RecentOfHit ==
    ASSUME NEW Q, NEW s \in Seq(Q), NEW n \in Nat, NEW k \in Elements(Recent(s, n)),
           NoDuplicates(s)
    PROVE  MoveToFront(Recent(s, n), k) = Recent(Touch(s, k), n)
PROOF
  <1> DEFINE r == Recent(s, n)
             m == MoveToFront(r, k)
             u == MoveToFront(s, k)
             at == CHOOSE i \in DOMAIN s : s[i] = k
             rat == CHOOSE i \in DOMAIN r : r[i] = k
  <1>1. /\ r \in Seq(Q) /\ Len(r) = (IF Len(s) <= n THEN Len(s) ELSE n)
        /\ \A i \in 1 .. Len(r) : r[i] = s[i]
        /\ NoDuplicates(r)
    BY RecentPrefix
  <1>2. Len(s) \in Nat /\ DOMAIN s = 1 .. Len(s) /\ DOMAIN r = 1 .. Len(r)
    BY <1>1
  <1> HIDE DEF r
  <1>3. rat \in 1 .. Len(r) /\ r[rat] = k
    BY <1>2 DEF Elements, r
  <1>4. k \in Elements(s) /\ at \in 1 .. Len(s) /\ s[at] = k
    BY <1>1, <1>2, <1>3 DEF Elements
  <1>5. at = rat
    BY <1>1, <1>2, <1>3, <1>4 DEF NoDuplicates
  <1>6. u \in Seq(Q) /\ Len(u) = Len(s) /\ m \in Seq(Q) /\ Len(m) = Len(r)
    <2>1. k \in Elements(r)
      BY DEF r
    <2> QED BY <1>1, <1>4, <2>1, MoveToFrontPermutes
  <1>7. \A i \in 1 .. Len(s) : u[i] = IF i = 1 THEN k ELSE IF i <= at THEN s[i - 1] ELSE s[i]
    BY DEF MoveToFront
  <1>8. \A i \in 1 .. Len(r) : m[i] = IF i = 1 THEN k ELSE IF i <= rat THEN r[i - 1] ELSE r[i]
    BY DEF MoveToFront
  <1> HIDE DEF at, rat, m, u
  <1>9. /\ Recent(u, n) \in Seq(Q) /\ Len(Recent(u, n)) = Len(r)
        /\ \A i \in 1 .. Len(r) : Recent(u, n)[i] = u[i]
    BY <1>1, <1>6, RecentPrefix
  <1>10. \A i \in 1 .. Len(r) : m[i] = u[i]
    <2> SUFFICES ASSUME NEW i \in 1 .. Len(r) PROVE m[i] = u[i]
      OBVIOUS
    <2>1. i \in 1 .. Len(s) /\ r[i] = s[i] /\ (i # 1 => r[i - 1] = s[i - 1])
      BY <1>1, <1>2
    <2> QED BY <1>5, <1>7, <1>8, <2>1
  <1>11. m = Recent(u, n)
    BY <1>6, <1>9, <1>10, SameList
  <1>12. Touch(s, k) = u
    BY <1>4 DEF Touch, u
  <1> QED BY <1>11, <1>12 DEF m, r

\* So does a store that pushes the least recently used element out.
LEMMA RecentOfStore ==
    ASSUME NEW Q, NEW s \in Seq(Q), NEW n \in Nat \ {0}, NEW k \in Q,
           k \notin Elements(Recent(s, n)), NoDuplicates(s)
    PROVE  LET pushed == PushFront(Recent(s, n), k)
           IN  (IF Len(pushed) > n THEN RemoveBack(pushed) ELSE pushed)
                 = Recent(Touch(s, k), n)
PROOF
  <1> DEFINE r == Recent(s, n)
             pushed == PushFront(r, k)
             kept == IF Len(pushed) > n THEN RemoveBack(pushed) ELSE pushed
             u == Touch(s, k)
  <1>1. /\ r \in Seq(Q) /\ Len(r) = (IF Len(s) <= n THEN Len(s) ELSE n)
        /\ \A i \in 1 .. Len(r) : r[i] = s[i]
        /\ NoDuplicates(r)
    BY RecentPrefix
  <1>2. Len(s) \in Nat /\ Len(r) \in Nat /\ n \in Nat /\ n > 0
    BY <1>1
  <1>11. DOMAIN s = 1 .. Len(s) /\ DOMAIN r = 1 .. Len(r)
    BY <1>1
  <1>12. (Len(s) <= n => Len(r) = Len(s)) /\ (~(Len(s) <= n) => Len(r) = n)
    BY <1>1
  <1>3. k \notin Elements(r)
    OBVIOUS
  <1> HIDE DEF r
  <1>4. /\ pushed \in Seq(Q) /\ Len(pushed) = Len(r) + 1
        /\ \A i \in 1 .. Len(r) + 1 : pushed[i] = IF i = 1 THEN k ELSE r[i - 1]
        /\ NoDuplicates(pushed)
    <2>1. r \in Seq(Q) /\ NoDuplicates(r) /\ k \in Q
      BY <1>1
    <2> HIDE DEF kept, u
    <2> QED BY <1>3, <2>1, PushFrontAdds
  <1> HIDE DEF pushed
  <1>5. /\ kept \in Seq(Q)
        /\ Len(kept) = (IF Len(r) + 1 > n THEN Len(r) ELSE Len(r) + 1)
        /\ \A i \in 1 .. Len(kept) : kept[i] = pushed[i]
    <2>1. CASE Len(pushed) > n
      <3>1. Len(pushed) > 0 /\ kept = RemoveBack(pushed)
        BY <1>2, <1>4, <2>1
      <3>2. /\ kept \in Seq(Q) /\ Len(kept) = Len(pushed) - 1
            /\ \A i \in 1 .. Len(pushed) - 1 : kept[i] = pushed[i]
        BY <1>4, <3>1, RemoveBackRemoves
      <3> HIDE DEF kept
      <3>3. Len(kept) = Len(r) /\ Len(r) + 1 > n
        BY <1>2, <1>4, <2>1, <3>2
      <3> QED BY <1>2, <1>4, <3>2, <3>3
    <2>2. CASE ~(Len(pushed) > n)
      BY <1>2, <1>4, <2>2
    <2> QED BY <2>1, <2>2
  <1> HIDE DEF kept
  <1>10. /\ Len(kept) \in Nat
         /\ Len(r) + 1 > n => Len(kept) = Len(r)
         /\ ~(Len(r) + 1 > n) => Len(kept) = Len(r) + 1
    BY <1>5
  <1>6. /\ u \in Seq(Q) /\ NoDuplicates(u)
    BY TouchUses
  <1>7. /\ Len(u) >= Len(kept)
        /\ Len(u) > n => Len(kept) = n
        /\ Len(u) <= n => Len(kept) = Len(u)
        /\ \A i \in 1 .. Len(kept) : u[i] = pushed[i]
    <2>1. CASE k \in Elements(s)
      <3> DEFINE at == CHOOSE i \in DOMAIN s : s[i] = k
      <3>1. at \in 1 .. Len(s) /\ s[at] = k
        BY <1>11, <2>1 DEF Elements
      <3>2. u = [i \in 1 .. Len(s) |-> IF i = 1 THEN k ELSE IF i <= at THEN s[i - 1] ELSE s[i]]
        BY <2>1 DEF Touch, MoveToFront
      <3> HIDE DEF at, u
      <3>3. Len(u) = Len(s)
        BY <1>2, <1>6, <3>2
      <3>4. at > Len(r)
        BY <1>1, <1>2, <1>3, <1>11, <3>1 DEF Elements
      <3>5. Len(r) = n /\ Len(s) > n /\ Len(kept) = n
        BY <1>1, <1>2, <1>5, <3>1, <3>4
      <3>6. ASSUME NEW i \in 1 .. n PROVE u[i] = pushed[i]
        <4>1. i # 1 => r[i - 1] = s[i - 1]
          BY <1>1, <1>2, <3>5
        <4>4. i \in 1 .. Len(s) /\ i <= at
          BY <1>2, <3>1, <3>4, <3>5
        <4>2. u[i] = IF i = 1 THEN k ELSE s[i - 1]
          BY <3>2, <4>4
        <4>3. pushed[i] = IF i = 1 THEN k ELSE r[i - 1]
          BY <1>2, <1>4, <3>5
        <4> QED BY <4>1, <4>2, <4>3
      <3>7. Len(u) >= Len(kept) /\ Len(u) > n
        BY <1>2, <3>3, <3>5
      <3> QED BY <1>2, <3>3, <3>5, <3>6, <3>7
    <2>2. CASE k \notin Elements(s)
      <3>1. /\ Len(u) = Len(s) + 1
            /\ \A i \in 1 .. Len(s) + 1 : u[i] = IF i = 1 THEN k ELSE s[i - 1]
        BY <2>2, PushFrontAdds DEF Touch
      <3> HIDE DEF u
      <3>2. /\ Len(kept) <= Len(s) + 1 /\ Len(kept) <= Len(r) + 1
            /\ Len(s) + 1 > n => Len(kept) = n
            /\ Len(s) + 1 <= n => Len(kept) = Len(s) + 1
        BY <1>2, <1>10, <1>12
      <3>3. ASSUME NEW i \in 1 .. Len(kept) PROVE u[i] = pushed[i]
        <4>1. i \in 1 .. Len(s) + 1 /\ i \in 1 .. Len(r) + 1
          BY <1>2, <1>10, <1>12, <3>2
        <4>2. i # 1 => r[i - 1] = s[i - 1]
          BY <1>1, <1>2, <4>1
        <4> QED BY <1>4, <3>1, <4>1, <4>2
      <3> QED BY <1>2, <1>5, <3>1, <3>2, <3>3
    <2> QED BY <2>1, <2>2
  <1> HIDE DEF u
  <1>8. /\ Recent(u, n) \in Seq(Q) /\ Len(Recent(u, n)) = Len(kept)
        /\ \A i \in 1 .. Len(kept) : Recent(u, n)[i] = u[i]
    <2>1. n \in Nat /\ Len(u) \in Nat /\ Len(kept) \in Nat
      BY <1>5, <1>6
    <2> QED BY <1>6, <1>7, <2>1, RecentPrefix
  <1>9. kept = Recent(u, n)
    BY <1>5, <1>7, <1>8, SameList
  <1> QED BY <1>9 DEF kept, pushed, u, r
-----------------------------------------------------------------------------
(* The cache.                                                              *)

\* The findings of a query are a result list, and Nothing is none.
LEMMA FindingsTyped ==
    /\ \A q \in Query : Findings[q] \in ResultList
    /\ NoFindings \in ResultList
    /\ Nothing \notin ResultList
PROOF BY AnalysisCacheAssumption DEF ResultList

\* Init has a well-formed, empty cache (cache.go: newAnalysisCache).
LEMMA InitIInv == Init => IInv
PROOF
  <1> SUFFICES ASSUME Init PROVE IInv
    OBVIOUS
  <1>1. TypeOK
    BY FindingsTyped, AnalysisCacheAssumption DEF Init, TypeOK, EmptyMap
  <1>2. ListMapAgree
    BY DEF Init, ListMapAgree, NoDuplicates, Elements, EmptyMap
  <1>3. Bounded
    BY AnalysisCacheAssumption DEF Init, Bounded, Caching
  <1>4. Coherent /\ HeldInv /\ PutInv
    BY DEF Init, Coherent, HeldInv, PutInv, EmptyMap
  <1>5. LeastRecentlyUsedEvicted
    BY AnalysisCacheAssumption
    DEF Init, LeastRecentlyUsedEvicted, NoDuplicates, Recent, Caching
  <1> QED BY <1>1, <1>2, <1>3, <1>4, <1>5 DEF IInv

\* Using a cached query does to the list what it does to the whole past.
LEMMA UseList ==
    ASSUME IInv, Caching, NEW k \in DOMAIN items
    PROVE  /\ MoveToFront(ll, k) \in Seq(Query)
           /\ Len(MoveToFront(ll, k)) = Len(ll)
           /\ Elements(MoveToFront(ll, k)) = Elements(ll)
           /\ NoDuplicates(MoveToFront(ll, k))
           /\ MoveToFront(ll, k) = Recent(Touch(uses, k), capacity)
           /\ Touch(uses, k) \in Seq(Query) /\ NoDuplicates(Touch(uses, k))
PROOF
  <1>1. /\ ll \in Seq(Query) /\ k \in Elements(ll) /\ NoDuplicates(ll) /\ k \in Query
        /\ uses \in Seq(Query) /\ NoDuplicates(uses) /\ ll = Recent(uses, capacity)
        /\ capacity \in Nat
    BY DEF IInv, TypeOK, ListMapAgree, LeastRecentlyUsedEvicted, Caching
  <1>2. MoveToFront(ll, k) = Recent(Touch(uses, k), capacity)
    BY <1>1, RecentOfHit
  <1> QED BY <1>1, <1>2, MoveToFrontPermutes, TouchUses

\* What storing a query another goroutine stored first does to the map.
LEMMA RefreshItems ==
    ASSUME IInv, NEW t \in Thread, Refresh(t)
    PROVE  /\ DOMAIN items' = DOMAIN items
           /\ \A q \in DOMAIN items : items'[q] = Findings[q]
           /\ items' \in [DOMAIN items' -> ResultList]
PROOF
  <1>1. query[t] \in DOMAIN items /\ results[t] = Findings[query[t]]
    BY DEF IInv, HeldInv, Refresh, KeyOf
  <1>2. items' = [q \in DOMAIN items \cup {query[t]} |->
                    IF q = query[t] THEN results[t] ELSE items[q]]
    BY DEF Refresh, Put, KeyOf
  <1>3. \A q \in DOMAIN items : items'[q] = Findings[q]
    BY <1>1, <1>2 DEF IInv, Coherent
  <1> QED BY <1>1, <1>2, <1>3, FindingsTyped DEF IInv, TypeOK

\* What storing a new query does: it evicts at most the back of the list, and
\* that from both halves of the cache.
LEMMA StoreCache ==
    ASSUME IInv, NEW t \in Thread, Store(t)
    PROVE  /\ ll' \in Seq(Query) /\ Len(ll') <= capacity
           /\ Elements(ll') = DOMAIN items' /\ NoDuplicates(ll')
           /\ DOMAIN items' \subseteq Query
           /\ \A q \in DOMAIN items' : items'[q] = Findings[q]
           /\ items' \in [DOMAIN items' -> ResultList]
           /\ uses' \in Seq(Query) /\ NoDuplicates(uses')
           /\ ll' = Recent(uses', capacity)
PROOF
  <1> DEFINE k == query[t]
             pushed == PushFront(ll, k)
             filled == Put(items, k, results[t])
  <1>1. /\ ll \in Seq(Query) /\ k \in Query /\ k \notin Elements(ll) /\ NoDuplicates(ll)
        /\ Elements(ll) = DOMAIN items /\ Len(ll) <= capacity /\ capacity \in Int
        /\ DOMAIN items \subseteq Query
    BY DEF IInv, TypeOK, ListMapAgree, Bounded, Caching, PutInv, Store, KeyOf
  <1>2. results[t] = Findings[k]
    BY DEF IInv, HeldInv, Store
  <1>3. /\ ll' = IF Len(pushed) > capacity THEN RemoveBack(pushed) ELSE pushed
        /\ items' = IF Len(pushed) > capacity THEN Delete(filled, Back(pushed)) ELSE filled
    BY DEF Store, KeyOf, Forget
  <1>4. /\ pushed \in Seq(Query) /\ Len(pushed) = Len(ll) + 1
        /\ Elements(pushed) = Elements(ll) \cup {k} /\ NoDuplicates(pushed)
    BY <1>1, PushFrontAdds
  <1>5. /\ filled = [q \in DOMAIN items \cup {k} |-> IF q = k THEN results[t] ELSE items[q]]
        /\ DOMAIN filled = Elements(pushed)
        /\ \A q \in DOMAIN filled : filled[q] = Findings[q]
    BY <1>1, <1>2, <1>4 DEF Put, IInv, Coherent
  <1> HIDE DEF k, pushed, filled
  <1>6. ll' \in Seq(Query) /\ NoDuplicates(ll') /\ Len(ll') <= capacity
    <2>1. CASE Len(pushed) > capacity
      <3>1. RemoveBack(pushed) \in Seq(Query) /\ NoDuplicates(RemoveBack(pushed))
            /\ Len(RemoveBack(pushed)) = Len(pushed) - 1
        BY <1>1, <1>4, RemoveBackRemoves
      <3> QED BY <1>1, <1>3, <1>4, <2>1, <3>1
    <2>2. CASE ~(Len(pushed) > capacity)
      BY <1>1, <1>3, <1>4, <2>2
    <2> QED BY <2>1, <2>2
  <1>7. /\ Elements(ll') = DOMAIN items'
        /\ \A q \in DOMAIN items' : items'[q] = Findings[q]
        /\ DOMAIN items' \subseteq DOMAIN filled
        /\ items' = [q \in DOMAIN items' |-> items'[q]]
    <2>1. CASE Len(pushed) > capacity
      <3>1. Elements(RemoveBack(pushed)) = Elements(pushed) \ {Back(pushed)}
        BY <1>1, <1>4, RemoveBackRemoves
      <3>2. items' = [q \in DOMAIN filled \ {Back(pushed)} |-> filled[q]]
        BY <1>3, <2>1 DEF Delete, Restrict
      <3>3. ll' = RemoveBack(pushed)
        BY <1>3, <2>1
      <3> QED BY <1>5, <3>1, <3>2, <3>3
    <2>2. CASE ~(Len(pushed) > capacity)
      BY <1>3, <1>5, <2>2
    <2> QED BY <2>1, <2>2
  <1>8. DOMAIN items' \subseteq Query
    BY <1>1, <1>4, <1>5, <1>7
  <1>9. items' \in [DOMAIN items' -> ResultList]
    BY <1>7, <1>8, FindingsTyped
  <1>10. /\ uses' = Touch(uses, k) /\ uses \in Seq(Query) /\ NoDuplicates(uses)
         /\ ll = Recent(uses, capacity) /\ capacity \in Nat \ {0}
    BY DEF IInv, TypeOK, PutInv, Caching, LeastRecentlyUsedEvicted, Store, k
  <1>11. ll' = Recent(uses', capacity)
    BY <1>1, <1>3, <1>10, RecentOfStore DEF pushed
  <1>12. uses' \in Seq(Query) /\ NoDuplicates(uses')
    BY <1>1, <1>10, TouchUses
  <1> QED BY <1>6, <1>7, <1>8, <1>9, <1>11, <1>12

\* One step preserves the invariant (cache.go: get, put; guard.go: analyze).
LEMMA NextIInv == IInv /\ [Next]_vars => IInv'
PROOF
  <1> SUFFICES ASSUME IInv, [Next]_vars PROVE IInv'
    OBVIOUS
  <1> USE DEF IInv
  <1>1. ASSUME NEW t \in Thread, NEW q \in Query, Call(t, q) PROVE IInv'
    <2>1. TypeOK'
      BY <1>1 DEF Call, TypeOK, ResultList
    <2>2. HeldInv' /\ PutInv'
      BY <1>1 DEF Call, TypeOK, HeldInv, PutInv, Caching
    <2> QED BY <1>1, <2>1, <2>2
            DEF Call, ListMapAgree, Bounded, Caching, Coherent, LeastRecentlyUsedEvicted
  <1>2. ASSUME NEW t \in Thread, Hit(t) PROVE IInv'
    <2>1. query[t] \in DOMAIN items /\ Caching
      BY <1>2 DEF Hit, Cached, KeyOf
    <2>2. /\ results' = [results EXCEPT ![t] = items[query[t]]]
          /\ ll' = MoveToFront(ll, query[t]) /\ uses' = Touch(uses, query[t])
      BY <1>2 DEF Hit, Used, KeyOf
    <2>3. /\ ll' \in Seq(Query) /\ Len(ll') = Len(ll)
          /\ Elements(ll') = Elements(ll) /\ NoDuplicates(ll')
          /\ ll' = Recent(uses', capacity)
          /\ uses' \in Seq(Query) /\ NoDuplicates(uses')
      BY <2>1, <2>2, UseList
    <2>4. TypeOK'
      BY <1>2, <2>1, <2>2, <2>3 DEF Hit, TypeOK, ResultList
    <2>5. HeldInv' /\ PutInv'
      BY <1>2, <2>1, <2>2 DEF Hit, TypeOK, HeldInv, PutInv, Caching, Coherent
    <2> QED BY <1>2, <2>3, <2>4, <2>5
            DEF Hit, ListMapAgree, Bounded, Caching, Coherent, LeastRecentlyUsedEvicted
  <1>3. ASSUME NEW t \in Thread, Miss(t) PROVE IInv'
    <2>1. TypeOK'
      BY <1>3 DEF Miss, TypeOK, ResultList
    <2>2. HeldInv' /\ PutInv'
      BY <1>3 DEF Miss, TypeOK, HeldInv, PutInv, Caching
    <2> QED BY <1>3, <2>1, <2>2
            DEF Miss, ListMapAgree, Bounded, Caching, Coherent, LeastRecentlyUsedEvicted
  <1>4. ASSUME NEW t \in Thread, Analyze(t) PROVE IInv'
    <2>1. query[t] \in Query
      BY DEF TypeOK
    <2>2. TypeOK'
      BY <1>4, <2>1, FindingsTyped DEF Analyze, TypeOK, ResultList
    <2>3. HeldInv' /\ PutInv'
      BY <1>4 DEF Analyze, TypeOK, HeldInv, PutInv, Caching
    <2> QED BY <1>4, <2>2, <2>3
            DEF Analyze, ListMapAgree, Bounded, Caching, Coherent, LeastRecentlyUsedEvicted
  <1>5. ASSUME NEW t \in Thread, Refresh(t) PROVE IInv'
    <2>1. /\ query[t] \in DOMAIN items /\ Caching
          /\ ll' = MoveToFront(ll, query[t]) /\ uses' = Touch(uses, query[t])
      BY <1>5 DEF Refresh, KeyOf, PutInv
    <2>2. /\ ll' \in Seq(Query) /\ Len(ll') = Len(ll)
          /\ Elements(ll') = Elements(ll) /\ NoDuplicates(ll')
          /\ ll' = Recent(uses', capacity)
          /\ uses' \in Seq(Query) /\ NoDuplicates(uses')
      BY <2>1, UseList
    <2>3. /\ DOMAIN items' = DOMAIN items
          /\ \A q \in DOMAIN items : items'[q] = Findings[q]
          /\ items' \in [DOMAIN items' -> ResultList]
      BY <1>5, RefreshItems
    <2>4. TypeOK'
      BY <1>5, <2>2, <2>3 DEF Refresh, TypeOK, ResultList
    <2>5. HeldInv' /\ PutInv'
      BY <1>5 DEF Refresh, TypeOK, HeldInv, PutInv, Caching
    <2> QED BY <1>5, <2>2, <2>3, <2>4, <2>5
            DEF Refresh, ListMapAgree, Bounded, Caching, Coherent, LeastRecentlyUsedEvicted
  <1>6. ASSUME NEW t \in Thread, Store(t) PROVE IInv'
    <2>1. /\ ll' \in Seq(Query) /\ Len(ll') <= capacity
          /\ Elements(ll') = DOMAIN items' /\ NoDuplicates(ll')
          /\ DOMAIN items' \subseteq Query
          /\ \A q \in DOMAIN items' : items'[q] = Findings[q]
          /\ items' \in [DOMAIN items' -> ResultList]
          /\ uses' \in Seq(Query) /\ NoDuplicates(uses')
          /\ ll' = Recent(uses', capacity)
      BY <1>6, StoreCache
    <2>2. Caching /\ capacity' = capacity
      BY <1>6 DEF Store, PutInv
    <2>3. TypeOK'
      BY <1>6, <2>1 DEF Store, TypeOK, ResultList
    <2>4. HeldInv' /\ PutInv'
      BY <1>6 DEF Store, TypeOK, HeldInv, PutInv, Caching
    <2> QED BY <2>1, <2>2, <2>3, <2>4
            DEF ListMapAgree, Bounded, Caching, Coherent, LeastRecentlyUsedEvicted
  <1>7. ASSUME NEW t \in Thread, Return(t) PROVE IInv'
    <2>1. TypeOK'
      BY <1>7, FindingsTyped DEF Return, TypeOK, ResultList
    <2>2. HeldInv' /\ PutInv'
      BY <1>7 DEF Return, TypeOK, HeldInv, PutInv, Caching
    <2> QED BY <1>7, <2>1, <2>2
            DEF Return, ListMapAgree, Bounded, Caching, Coherent, LeastRecentlyUsedEvicted
  <1>8. CASE UNCHANGED vars
    BY <1>8 DEF vars, TypeOK, ResultList, ListMapAgree, Bounded, Caching, Coherent,
                HeldInv, PutInv, LeastRecentlyUsedEvicted
  <1> QED BY <1>1, <1>2, <1>3, <1>4, <1>5, <1>6, <1>7, <1>8 DEF Next, Work, Done

\* The cache stays coherent, bounded and least-recently-used whatever the
\* goroutines, queries and capacity (cache.go: get, put; guard.go: analyze).
THEOREM Invariance == Spec => []IInv
PROOF
  <1> QED BY InitIInv, NextIInv, PTL DEF Spec

\* The cache holds exactly the most recently used queries (cache.go: put,
\* "evicting the least-recently-used entry").
THEOREM LeastRecentlyUsedHolds == Spec => []LeastRecentlyUsedEvicted
PROOF
  <1>1. IInv => LeastRecentlyUsedEvicted
    BY DEF IInv
  <1> QED BY <1>1, Invariance, PTL

\* Every step of a goroutine through the cache is a step of analyzing without
\* one, or changes nothing the caller sees (guard.go: analyze).
LEMMA StepRefines == IInv /\ IInv' /\ [Next]_vars => [Uncached!Next]_Uncached!vars
PROOF
  <1> SUFFICES ASSUME IInv, IInv', [Next]_vars
               PROVE  Uncached!Next \/ UNCHANGED Uncached!vars
    BY DEF Uncached!vars
  <1> DEFINE stage  == [t \in Thread |-> CASE pc[t] = "idle"   -> "idle"
                                           [] pc[t] = "return" -> "answered"
                                           [] OTHER            -> "asked"]
             answer == [t \in Thread |-> IF pc[t] = "return" THEN results[t] ELSE Nothing]
  <1> USE DEF IInv
  <1>1. ASSUME NEW t \in Thread, NEW q \in Query, Call(t, q) PROVE Uncached!Next
    <2>1. stage[t] = "idle" /\ stage' = [stage EXCEPT ![t] = "asked"] /\ answer' = answer
      BY <1>1 DEF Call, TypeOK
    <2>2. query' = [query EXCEPT ![t] = q]
      BY <1>1 DEF Call
    <2> QED BY <2>1, <2>2 DEF Uncached!Next, Uncached!Ask
  <1>2. ASSUME NEW t \in Thread, Hit(t) PROVE Uncached!Next
    <2>1. results'[t] = Findings[query[t]]
      BY <1>2 DEF Hit, Cached, KeyOf, Coherent, TypeOK
    <2>2. /\ stage[t] = "asked" /\ stage' = [stage EXCEPT ![t] = "answered"]
          /\ answer' = [answer EXCEPT ![t] = Findings[query[t]]]
      BY <1>2, <2>1 DEF Hit, TypeOK
    <2> QED BY <1>2, <2>2 DEF Hit, Uncached!Next, Uncached!Answer
  <1>3. ASSUME NEW t \in Thread, Miss(t) PROVE UNCHANGED Uncached!vars
    <2>1. stage' = stage /\ answer' = answer
      BY <1>3 DEF Miss, TypeOK
    <2> QED BY <1>3, <2>1 DEF Miss, Uncached!vars
  <1>4. ASSUME NEW t \in Thread, Analyze(t) PROVE Uncached!Next \/ UNCHANGED Uncached!vars
    <2>1. CASE Caching
      <3>1. stage' = stage /\ answer' = answer
        BY <1>4, <2>1 DEF Analyze, TypeOK
      <3> QED BY <1>4, <3>1 DEF Analyze, Uncached!vars
    <2>2. CASE ~Caching
      <3>1. /\ stage[t] = "asked" /\ stage' = [stage EXCEPT ![t] = "answered"]
            /\ answer' = [answer EXCEPT ![t] = Findings[query[t]]]
        BY <1>4, <2>2 DEF Analyze, TypeOK
      <3> QED BY <1>4, <3>1 DEF Analyze, Uncached!Next, Uncached!Answer
    <2> QED BY <2>1, <2>2
  <1>5. ASSUME NEW t \in Thread,
               pc[t] = "put", pc' = [pc EXCEPT ![t] = "return"],
               UNCHANGED <<query, results>>
        PROVE  Uncached!Next
    <2>1. results[t] = Findings[query[t]]
      BY <1>5 DEF HeldInv
    <2>2. /\ stage[t] = "asked" /\ stage' = [stage EXCEPT ![t] = "answered"]
          /\ answer' = [answer EXCEPT ![t] = Findings[query[t]]]
      BY <1>5, <2>1 DEF TypeOK
    <2> QED BY <1>5, <2>2 DEF Uncached!Next, Uncached!Answer
  <1>6. ASSUME NEW t \in Thread, Refresh(t) \/ Store(t) PROVE Uncached!Next
    BY <1>5, <1>6 DEF Refresh, Store
  <1>7. ASSUME NEW t \in Thread, Return(t) PROVE Uncached!Next
    <2>1. /\ stage[t] = "answered" /\ stage' = [stage EXCEPT ![t] = "idle"]
          /\ answer' = [answer EXCEPT ![t] = Nothing]
      BY <1>7 DEF Return, TypeOK
    <2> QED BY <1>7, <2>1 DEF Return, Uncached!Next, Uncached!Take
  <1>8. CASE UNCHANGED vars
    BY <1>8 DEF vars, Uncached!vars
  <1> QED BY <1>1, <1>2, <1>3, <1>4, <1>6, <1>7, <1>8 DEF Next, Work, Done

\* Analyzing through the cache implements analyzing without it: whatever the
\* other goroutines evict, refresh or store, a caller gets the findings of the
\* query it asked about (guard.go: analyze).
THEOREM Implements == Spec => ImplementsAnalysis
PROOF
  <1>1. Init => Uncached!Init
    BY DEF Init, Uncached!Init
  <1> QED BY <1>1, StepRefines, Invariance, PTL DEF Spec, ImplementsAnalysis, Uncached!Spec
-----------------------------------------------------------------------------
(* While everything used fits.                                             *)

\* The goroutines on their way between a miss of q and the answer of the
\* analyzer, and between that and the cache.
Analyzing(q) == {t \in Thread : pc[t] = "analyze" /\ query[t] = q}
Putting(q) == {t \in Thread : pc[t] = "put" /\ query[t] = q}

\* A query that is not cached yet was analyzed by those who are about to store
\* it; once it is cached, only those who missed it before will analyze it.
AnalysesOf(q) ==
    /\ q \notin DOMAIN items => analyses[q] = Cardinality(Putting(q))
    /\ q \in DOMAIN items => analyses[q] + Cardinality(Analyzing(q)) <= Cardinality(Thread)

AnalysesInv == Caching /\ Len(uses) <= capacity => \A q \in Query : AnalysesOf(q)

\* Using a query never shortens the past.
LEMMA TouchGrows ==
    ASSUME NEW Q, NEW s \in Seq(Q), NEW k \in Q
    PROVE  /\ Len(Touch(s, k)) = Len(s) + (IF k \in Elements(s) THEN 0 ELSE 1)
           /\ Len(s) \in Nat
PROOF
  <1>1. Len(PushFront(s, k)) = Len(s) + 1
    BY DEF PushFront
  <1>2. Len(MoveToFront(s, k)) = Len(s)
    BY DEF MoveToFront
  <1> QED BY <1>1, <1>2 DEF Touch

\* What is used and fits is cached, so storing evicts nothing.
LEMMA StoreKeeps ==
    ASSUME IInv, NEW t \in Thread, Store(t), Len(uses') <= capacity
    PROVE  DOMAIN items' = DOMAIN items \cup {query[t]} /\ Len(uses) <= capacity
PROOF
  <1> DEFINE k == query[t]
             pushed == PushFront(ll, k)
  <1>1. /\ k \in Query /\ k \notin DOMAIN items /\ uses \in Seq(Query) /\ NoDuplicates(uses)
        /\ Caching /\ capacity \in Nat /\ ll = Recent(uses, capacity) /\ uses' = Touch(uses, k)
        /\ Elements(ll) = DOMAIN items /\ ll \in Seq(Query)
    BY DEF IInv, TypeOK, PutInv, LeastRecentlyUsedEvicted, ListMapAgree, Store, KeyOf, Caching
  <1>2. Len(uses) \in Nat /\ Len(uses) <= capacity
    BY <1>1, TouchGrows
  <1>3. ll = uses
    BY <1>1, <1>2 DEF Recent
  <1>4. Len(uses') = Len(uses) + 1 /\ Len(pushed) = Len(ll) + 1
    <2>1. Len(pushed) = Len(ll) + 1
      BY <1>1, PushFrontAdds DEF ListMapAgree, IInv
    <2> QED BY <1>1, <1>3, <2>1, TouchGrows
  <1>5. ~(Len(pushed) > capacity)
    BY <1>1, <1>2, <1>3, <1>4
  <1>6. items' = Put(items, k, results[t])
    BY <1>5 DEF Store, KeyOf, Forget
  <1> QED BY <1>2, <1>6 DEF Put

\* A goroutine more or less.
LEMMA OneMore ==
    ASSUME IsFiniteSet(Thread), NEW S \in SUBSET Thread, NEW t \in Thread, t \notin S
    PROVE  /\ Cardinality(S) \in Nat
           /\ Cardinality(S \cup {t}) = Cardinality(S) + 1
PROOF
  BY FS_Subset, FS_CardinalityType, FS_AddElement

\* Steps that analyze, store and evict nothing leave a query as it was.
LEMMA AnalysesSame ==
    ASSUME NEW q \in Query, AnalysesOf(q), analyses' = analyses, DOMAIN items' = DOMAIN items,
           q \notin DOMAIN items => Putting(q)' = Putting(q),
           q \in DOMAIN items => Analyzing(q)' = Analyzing(q)
    PROVE  AnalysesOf(q)'
PROOF
  BY DEF AnalysesOf

LEMMA AnalysesStep ==
    ASSUME IsFiniteSet(Thread), IInv, AnalysesInv, [Next]_vars
    PROVE  AnalysesInv'
PROOF
  <1> SUFFICES ASSUME Caching', Len(uses') <= capacity', NEW q \in Query
               PROVE  AnalysesOf(q)'
    BY DEF AnalysesInv
  <1>1. /\ pc \in [Thread -> {"idle", "get", "analyze", "put", "return"}]
        /\ query \in [Thread -> Query] /\ analyses \in [Query -> Nat]
        /\ uses \in Seq(Query) /\ capacity \in Int /\ Len(uses) \in Nat
    BY DEF IInv, TypeOK
  <1>2. Analyzing(q) \in SUBSET Thread /\ Putting(q) \in SUBSET Thread
    BY DEF Analyzing, Putting
  <1>3. /\ Cardinality(Analyzing(q)) \in Nat /\ Cardinality(Putting(q)) \in Nat
        /\ Cardinality(Thread) \in Nat
    BY <1>2, FS_Subset, FS_CardinalityType
  <1>4. ASSUME capacity' = capacity, uses' = uses PROVE AnalysesOf(q)
    BY <1>4 DEF AnalysesInv, Caching
  <1>5. ASSUME capacity' = capacity, NEW k \in Query, uses' = Touch(uses, k) PROVE AnalysesOf(q)
    <2>1. Len(uses') = Len(uses) + (IF k \in Elements(uses) THEN 0 ELSE 1)
      BY <1>1, <1>5, TouchGrows
    <2>2. Len(uses) <= capacity
      BY <1>1, <1>5, <2>1
    <2> QED BY <1>5, <2>2 DEF AnalysesInv, Caching
  <1>6. ASSUME NEW t \in Thread, NEW p \in Query, Call(t, p) PROVE AnalysesOf(q)'
    <2>1. AnalysesOf(q) /\ analyses' = analyses /\ items' = items
      BY <1>4, <1>6 DEF Call
    <2>2. Putting(q)' = Putting(q) /\ Analyzing(q)' = Analyzing(q)
      BY <1>1, <1>6 DEF Call, Putting, Analyzing
    <2> QED BY <2>1, <2>2, AnalysesSame
  <1>7. ASSUME NEW t \in Thread, Hit(t) PROVE AnalysesOf(q)'
    <2>1. AnalysesOf(q) /\ analyses' = analyses /\ items' = items
      BY <1>1, <1>5, <1>7 DEF Hit
    <2>2. Putting(q)' = Putting(q) /\ Analyzing(q)' = Analyzing(q)
      BY <1>1, <1>7 DEF Hit, Putting, Analyzing
    <2> QED BY <2>1, <2>2, AnalysesSame
  <1>8. ASSUME NEW t \in Thread, Miss(t) PROVE AnalysesOf(q)'
    <2>1. AnalysesOf(q) /\ analyses' = analyses /\ items' = items
      BY <1>4, <1>8 DEF Miss
    <2>2. query[t] \notin DOMAIN items
      BY <1>8 DEF Miss, Cached, KeyOf, Caching
    <2>3. Putting(q)' = Putting(q) /\ (q \in DOMAIN items => Analyzing(q)' = Analyzing(q))
      BY <1>1, <1>8, <2>2 DEF Miss, Putting, Analyzing
    <2> QED BY <2>1, <2>3, AnalysesSame
  <1>9. ASSUME NEW t \in Thread, Analyze(t) PROVE AnalysesOf(q)'
    <2>1. /\ AnalysesOf(q) /\ items' = items /\ pc[t] = "analyze" /\ pc' = [pc EXCEPT ![t] = "put"]
          /\ query' = query /\ analyses' = [analyses EXCEPT ![query[t]] = @ + 1]
      BY <1>4, <1>9 DEF Analyze, Caching
    <2>2. CASE query[t] # q
      <3>1. Putting(q)' = Putting(q) /\ Analyzing(q)' = Analyzing(q) /\ analyses'[q] = analyses[q]
        BY <1>1, <2>1, <2>2 DEF Putting, Analyzing
      <3> QED BY <2>1, <3>1 DEF AnalysesOf
    <2>3. CASE query[t] = q
      <3>1. /\ t \notin Putting(q) /\ Putting(q)' = Putting(q) \cup {t}
            /\ t \notin Analyzing(q)' /\ Analyzing(q) = Analyzing(q)' \cup {t}
            /\ Analyzing(q)' \in SUBSET Thread /\ analyses'[q] = analyses[q] + 1
        BY <1>1, <2>1, <2>3 DEF Putting, Analyzing
      <3>2. Cardinality(Putting(q)') = Cardinality(Putting(q)) + 1
        BY <1>2, <3>1, OneMore
      <3>3. Cardinality(Analyzing(q)') \in Nat /\ Cardinality(Analyzing(q)) = Cardinality(Analyzing(q)') + 1
        BY <3>1, OneMore
      <3>4. analyses[q] \in Nat
        BY <1>1
      <3> QED BY <1>3, <2>1, <3>1, <3>2, <3>3, <3>4 DEF AnalysesOf
    <2> QED BY <2>2, <2>3
  <1>10. ASSUME NEW t \in Thread, Refresh(t) PROVE AnalysesOf(q)'
    <2>1. AnalysesOf(q) /\ analyses' = analyses /\ DOMAIN items' = DOMAIN items
      BY <1>1, <1>5, <1>10, RefreshItems DEF Refresh
    <2>2. query[t] \in DOMAIN items
      BY <1>10 DEF Refresh, KeyOf
    <2>3. (q \notin DOMAIN items => Putting(q)' = Putting(q)) /\ Analyzing(q)' = Analyzing(q)
      BY <1>1, <1>10, <2>2 DEF Refresh, Putting, Analyzing
    <2> QED BY <2>1, <2>3, AnalysesSame
  <1>11. ASSUME NEW t \in Thread, Store(t) PROVE AnalysesOf(q)'
    <2>1. /\ AnalysesOf(q) /\ analyses' = analyses /\ pc[t] = "put" /\ query' = query
          /\ pc' = [pc EXCEPT ![t] = "return"] /\ capacity' = capacity /\ query[t] \notin DOMAIN items
      BY <1>1, <1>5, <1>11 DEF Store, KeyOf
    <2>2. DOMAIN items' = DOMAIN items \cup {query[t]}
      BY <1>11, <2>1, StoreKeeps
    <2>3. Analyzing(q)' = Analyzing(q) /\ (query[t] # q => Putting(q)' = Putting(q))
      BY <1>1, <2>1 DEF Putting, Analyzing
    <2>4. CASE query[t] # q
      BY <2>1, <2>2, <2>3, <2>4 DEF AnalysesOf
    <2>5. CASE query[t] = q
      <3>1. analyses[q] = Cardinality(Putting(q))
        BY <2>1, <2>5 DEF AnalysesOf
      <3> DEFINE P == Putting(q)
                 A == Analyzing(q)
      <3>2. IsFiniteSet(P) /\ IsFiniteSet(A) /\ P \cap A = {} /\ P \cup A \in SUBSET Thread
        BY <1>2, FS_Subset DEF Putting, Analyzing
      <3> HIDE DEF P, A
      <3>3. Cardinality(P \cup A) = Cardinality(P) + Cardinality(A) - Cardinality(P \cap A)
        BY <3>2, FS_Union
      <3>4. Cardinality(P \cap A) = 0 /\ Cardinality(P \cup A) <= Cardinality(Thread)
        BY <3>2, FS_EmptySet, FS_Subset
      <3>5. Cardinality(P) + Cardinality(A) <= Cardinality(Thread)
        BY <1>3, <3>3, <3>4 DEF P, A
      <3> QED BY <2>1, <2>2, <2>3, <2>5, <3>1, <3>5 DEF AnalysesOf, P, A
    <2> QED BY <2>4, <2>5
  <1>12. ASSUME NEW t \in Thread, Return(t) PROVE AnalysesOf(q)'
    <2>1. AnalysesOf(q) /\ analyses' = analyses /\ items' = items
      BY <1>4, <1>12 DEF Return
    <2>2. Putting(q)' = Putting(q) /\ Analyzing(q)' = Analyzing(q)
      BY <1>1, <1>12 DEF Return, Putting, Analyzing
    <2> QED BY <2>1, <2>2, AnalysesSame
  <1>13. CASE UNCHANGED vars
    <2>1. AnalysesOf(q) /\ analyses' = analyses /\ items' = items
      BY <1>4, <1>13 DEF vars
    <2>2. Putting(q)' = Putting(q) /\ Analyzing(q)' = Analyzing(q)
      BY <1>13 DEF vars, Putting, Analyzing
    <2> QED BY <2>1, <2>2, AnalysesSame
  <1> QED BY <1>6, <1>7, <1>8, <1>9, <1>10, <1>11, <1>12, <1>13 DEF Next, Work, Done

\* While everything used fits in the cache, no query is analyzed more often
\* than there are goroutines that can miss it together (guard.go: analyze,
\* which runs the analyzer without the lock of the cache).
THEOREM FewAnalysesHolds == ASSUME IsFiniteSet(Thread) PROVE Spec => []FewAnalyses
PROOF
  <1>1. Init => AnalysesInv
    <2> SUFFICES ASSUME Init, NEW q \in Query PROVE AnalysesOf(q)
      BY DEF AnalysesInv
    <2>1. Putting(q) = {} /\ items = EmptyMap /\ analyses[q] = 0
      BY DEF Init, Putting
    <2>2. q \notin DOMAIN items
      BY <2>1 DEF EmptyMap
    <2> QED BY <2>1, <2>2, FS_EmptySet DEF AnalysesOf
  <1>2. IInv /\ AnalysesInv => FewAnalyses
    <2> SUFFICES ASSUME IInv, NEW q \in Query, AnalysesOf(q) PROVE analyses[q] <= Cardinality(Thread)
      BY DEF AnalysesInv, FewAnalyses
    <2>1. analyses[q] \in Nat /\ Putting(q) \in SUBSET Thread /\ Analyzing(q) \in SUBSET Thread
      BY DEF IInv, TypeOK, Putting, Analyzing
    <2>2. /\ Cardinality(Putting(q)) <= Cardinality(Thread) /\ Cardinality(Thread) \in Nat
          /\ Cardinality(Analyzing(q)) \in Nat
      BY <2>1, FS_Subset, FS_CardinalityType
    <2> QED BY <2>1, <2>2 DEF AnalysesOf
  <1>3. IInv /\ AnalysesInv /\ [Next]_vars => AnalysesInv'
    BY AnalysesStep
  <1> QED BY <1>1, <1>2, <1>3, Invariance, PTL DEF Spec
=============================================================================
