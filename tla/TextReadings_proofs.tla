------------------------ MODULE TextReadings_proofs ------------------------
(***************************************************************************)
(* What holds of the scanners for every text over every alphabet.  A       *)
(* database R reads a text s in a run of modes, ms: ms[i] is its mode      *)
(* after s[i].  The lemmas say of each scanner what the pieces it takes    *)
(* are in such a run, of stripComments how R reads what it leaves, and of  *)
(* the passes after it what they keep of that.                             *)
(***************************************************************************)
EXTENDS TextReadings, NaturalsInduction, WellFoundedInduction, FiniteSetTheorems, TLAPS
-----------------------------------------------------------------------------
(* Numbers and functions defined from the end of a text.                   *)

LEMMA Induct ==
  ASSUME NEW T, 0 \in T, \A n \in Nat : n \in T => n + 1 \in T
  PROVE  Nat \subseteq T
PROOF
  <1> SUFFICES ASSUME NEW z \in Nat, z \notin T PROVE FALSE
    OBVIOUS
  <1> DEFINE B == {n \in Nat : n \notin T}
  <1>2. PICK m \in B : \A k \in B : <<k, m>> \notin OpToRel(<, Nat)
    BY NatLessThanWellFounded, WFMin
  <1>3. \A k \in B : ~(k < m)
    BY <1>2 DEF OpToRel
  <1>4. m # 0 /\ m \in Nat
    OBVIOUS
  <1>5. m - 1 \in Nat /\ m - 1 \notin B
    BY <1>3, <1>4
  <1> QED BY <1>4, <1>5

\* The least element of a set of places, which is what FirstFrom finds.
LEMMA MinIs ==
  ASSUME NEW lo \in Nat, NEW hi \in Nat, NEW S, S \subseteq lo .. hi, S # {}
  PROVE  Min(S) \in S /\ \A y \in S : Min(S) <= y
PROOF
  <1> DEFINE T == {n \in Nat : \A x \in S : x <= lo + n => \E y \in S : \A z \in S : y <= z}
  <1>1. 0 \in T
    OBVIOUS
  <1>2. ASSUME NEW n \in Nat, n \in T PROVE n + 1 \in T
    <2> SUFFICES ASSUME NEW x \in S, x <= lo + (n + 1) PROVE \E y \in S : \A z \in S : y <= z
      OBVIOUS
    <2>1. CASE \E y \in S : y <= lo + n
      BY <1>2, <2>1
    <2>2. CASE ~\E y \in S : y <= lo + n
      BY <2>2
    <2> QED BY <2>1, <2>2
  <1> HIDE DEF T
  <1>3. Nat \subseteq T
    BY <1>1, <1>2, Induct
  <1>4. PICK x \in S : TRUE
    OBVIOUS
  <1>6. \E y \in S : \A z \in S : y <= z
    BY <1>3, <1>4 DEF T
  <1> QED BY <1>6 DEF Min

\* A function that at each place is known or is given by its value at a later
\* place, after an element of its own if wrap.
Backward(f, a, b, stop, val, wrap, pre, nxt) ==
    f = [j \in a .. b |-> IF stop[j] THEN val[j]
                          ELSE IF wrap THEN <<pre[j]>> \o f[nxt[j]] ELSE f[nxt[j]]]

LEMMA BackwardExists ==
  ASSUME NEW a \in Nat, NEW b \in Nat, NEW stop, NEW val, NEW wrap, NEW pre, NEW nxt,
         \A j \in a .. b : stop[j] \/ (nxt[j] \in a .. b /\ nxt[j] > j)
  PROVE  \E f : Backward(f, a, b, stop, val, wrap, pre, nxt)
PROOF
  <1> DEFINE More(j, x) == IF wrap THEN <<pre[j]>> \o x ELSE x
             Next1(g) == [j \in a .. b |-> IF stop[j] THEN val[j] ELSE More(j, g[nxt[j]])]
             Right(g, n) == \A j \in a .. b : j + n >= b => g[j] = Next1(g)[j]
             T == {n \in Nat : \E g : Right(g, n)}
  <1> HIDE DEF More
  <1>1. 0 \in T
    <2> DEFINE g == [j \in a .. b |-> val[j]]
    <2>1. ASSUME NEW j \in a .. b, j + 0 >= b PROVE g[j] = Next1(g)[j]
      BY <2>1
    <2> QED BY <2>1
  <1>2. ASSUME NEW n \in Nat, n \in T PROVE n + 1 \in T
    <2>1. PICK g : Right(g, n)
      BY <1>2
    <2> DEFINE h == Next1(g)
    <2>2. ASSUME NEW j \in a .. b, j + (n + 1) >= b PROVE h[j] = Next1(h)[j]
      <3>1. CASE stop[j]
        BY <3>1
      <3>2. CASE ~stop[j]
        <4>2. g[nxt[j]] = h[nxt[j]]
          BY <2>1, <2>2, <3>2
        <4> QED BY <3>2, <4>2
      <3> QED BY <3>1, <3>2
    <2> HIDE DEF h, Next1
    <2> QED BY <2>2
  <1> HIDE DEF T
  <1>4. PICK g : Right(g, b)
    BY <1>1, <1>2, Induct DEF T
  <1> DEFINE h == Next1(g)
  <1>6. \A j \in a .. b : h[j] = Next1(h)[j]
    <2> SUFFICES ASSUME NEW j \in a .. b PROVE h[j] = Next1(h)[j]
      OBVIOUS
    <2>1. CASE stop[j]
      BY <2>1
    <2>2. CASE ~stop[j]
      <3>1. g[nxt[j]] = h[nxt[j]]
        BY <1>4, <2>2
      <3> QED BY <2>2, <3>1
    <2> QED BY <2>1, <2>2
  <1>7. h = Next1(h)
    <2>1. h = [j \in a .. b |-> h[j]]
      OBVIOUS
    <2>2. Next1(h) = [j \in a .. b |-> Next1(h)[j]]
      OBVIOUS
    <2> HIDE DEF h, Next1
    <2> QED BY <1>6, <2>1, <2>2
  <1>8. Backward(h, a, b, stop, val, wrap, pre, nxt)
    <2> HIDE DEF h
    <2> QED BY <1>7 DEF Backward, More
  <1> QED BY <1>8
-----------------------------------------------------------------------------
(* The loops.                                                              *)

\* What scanQuotedRunClosed computes from each place on.
QuotedFrom(f, s, i, backslash) ==
    f = [j \in i + 1 .. Len(s) + 2 |->
           IF j > Len(s) THEN [hi |-> Len(s) + 1, closed |-> FALSE]
           ELSE IF backslash /\ s[j].char = "\\" THEN f[j + 2]
           ELSE IF s[j].char # s[i].char THEN f[j + 1]
           ELSE IF j < Len(s) /\ s[j + 1].char = s[i].char THEN f[j + 2]
           ELSE [hi |-> j + 1, closed |-> TRUE]]

LEMMA QuotedRun ==
  ASSUME NEW C, NEW s \in Seq(C), NEW i \in 1 .. Len(s), NEW backslash
  PROVE  \E f : QuotedFrom(f, s, i, backslash) /\ scanQuotedRunClosed(s, i, backslash) = f[i + 1]
PROOF
  <1> DEFINE n == Len(s)
             q == s[i].char
             End(j) == IF j > n THEN [hi |-> n + 1, closed |-> FALSE]
                       ELSE [hi |-> j + 1, closed |-> TRUE]
             Escaped(j) == backslash /\ s[j].char = "\\"
             Doubled(j) == j < n /\ s[j + 1].char = q
             Stops(j) == j > n \/ (~Escaped(j) /\ s[j].char = q /\ ~Doubled(j))
             Goes(j) == IF Escaped(j) \/ (s[j].char = q /\ Doubled(j)) THEN j + 2 ELSE j + 1
             stop == [j \in i + 1 .. n + 2 |-> Stops(j)]
             nxt == [j \in i + 1 .. n + 2 |-> Goes(j)]
             val == [j \in i + 1 .. n + 2 |-> End(j)]
  <1>1. n \in Nat /\ i + 1 \in Nat /\ n + 2 \in Nat
    OBVIOUS
  <1>2. \A j \in i + 1 .. n + 2 : stop[j] \/ (nxt[j] \in i + 1 .. n + 2 /\ nxt[j] > j)
    <2> SUFFICES ASSUME NEW j \in i + 1 .. n + 2, ~Stops(j) PROVE Goes(j) \in i + 1 .. n + 2 /\ Goes(j) > j
      OBVIOUS
    <2>1. j <= n /\ j \in Nat
      BY <1>1
    <2>2. Goes(j) = j + 1 \/ Goes(j) = j + 2
      OBVIOUS
    <2> HIDE DEF Goes, Stops
    <2> QED BY <1>1, <2>1, <2>2
  <1>3. PICK f : Backward(f, i + 1, n + 2, stop, val, FALSE, val, nxt)
    <2> HIDE DEF stop, nxt, val
    <2> QED BY <1>1, <1>2, BackwardExists
  <1> DEFINE F(j) == IF stop[j] THEN val[j] ELSE f[nxt[j]]
             G(j) == IF j > n THEN [hi |-> n + 1, closed |-> FALSE]
                     ELSE IF backslash /\ s[j].char = "\\" THEN f[j + 2]
                     ELSE IF s[j].char # q THEN f[j + 1]
                     ELSE IF j < n /\ s[j + 1].char = q THEN f[j + 2]
                     ELSE [hi |-> j + 1, closed |-> TRUE]
  <1>4. f = [j \in i + 1 .. n + 2 |-> F(j)]
    <2> HIDE DEF stop, nxt, val
    <2> QED BY <1>3 DEF Backward
  <1>5. ASSUME NEW j \in i + 1 .. n + 2 PROVE F(j) = G(j)
    <2>1. CASE j > n
      BY <2>1
    <2>2. CASE j <= n /\ Escaped(j)
      BY <2>2
    <2>3. CASE j <= n /\ ~Escaped(j) /\ s[j].char # q
      BY <2>3
    <2>4. CASE j <= n /\ ~Escaped(j) /\ s[j].char = q /\ Doubled(j)
      BY <2>4
    <2>5. CASE j <= n /\ ~Escaped(j) /\ s[j].char = q /\ ~Doubled(j)
      BY <2>5
    <2> QED BY <2>1, <2>2, <2>3, <2>4, <2>5
  <1>6. f = [j \in i + 1 .. n + 2 |-> G(j)]
    <2> HIDE DEF F, G
    <2> QED BY <1>4, <1>5
  <1>7. QuotedFrom(f, s, i, backslash)
    BY <1>6 DEF QuotedFrom
  <1> DEFINE g == CHOOSE h : QuotedFrom(h, s, i, backslash)
  <1>8. QuotedFrom(g, s, i, backslash)
    <2> HIDE DEF F, G
    <2> QED BY <1>7
  <1> HIDE DEF g
  <1> QED BY <1>8 DEF scanQuotedRunClosed, QuotedFrom

\* What Pieces computes from each place on.
PiecesFrom(f, s, pieceAt) ==
    f = [i \in 1 .. Len(s) + 1 |->
           IF i > Len(s) THEN << >> ELSE <<pieceAt[i]>> \o f[pieceAt[i].hi]]

\* The pieces a loop takes go from one place to a later one.
Advances(s, pieceAt) ==
    \A i \in 1 .. Len(s) : pieceAt[i].hi \in Nat /\ i < pieceAt[i].hi /\ pieceAt[i].hi <= Len(s) + 1

LEMMA PiecesAre ==
  ASSUME NEW C, NEW s \in Seq(C), NEW pieceAt, Advances(s, pieceAt)
  PROVE  \E f : PiecesFrom(f, s, pieceAt) /\ Pieces(s, pieceAt) = f[1]
PROOF
  <1> DEFINE n == Len(s)
             stop == [j \in 1 .. n + 1 |-> j > n]
             nxt == [j \in 1 .. n + 1 |-> IF j > n THEN 0 ELSE pieceAt[j].hi]
             val == [j \in 1 .. n + 1 |-> << >>]
  <1>1. n \in Nat /\ 1 \in Nat /\ n + 1 \in Nat
    OBVIOUS
  <1>2. \A j \in 1 .. n + 1 : stop[j] \/ (nxt[j] \in 1 .. n + 1 /\ nxt[j] > j)
    <2>1. ASSUME NEW j \in 1 .. n + 1, ~(j > n) PROVE nxt[j] \in 1 .. n + 1 /\ nxt[j] > j
      <3>1. j \in 1 .. n /\ nxt[j] = pieceAt[j].hi
        BY <1>1, <2>1
      <3> HIDE DEF nxt
      <3> QED BY <1>1, <3>1 DEF Advances
    <2>2. ASSUME NEW j \in 1 .. n + 1 PROVE stop[j] = (j > n)
      OBVIOUS
    <2> HIDE DEF nxt, stop
    <2> QED BY <2>1, <2>2
  <1>3. PICK f : Backward(f, 1, n + 1, stop, val, TRUE, pieceAt, nxt)
    <2> HIDE DEF stop, nxt, val
    <2> QED BY <1>1, <1>2, BackwardExists
  <1> DEFINE F(j) == IF stop[j] THEN val[j] ELSE <<pieceAt[j]>> \o f[nxt[j]]
             G(j) == IF j > n THEN << >> ELSE <<pieceAt[j]>> \o f[pieceAt[j].hi]
  <1>4. f = [j \in 1 .. n + 1 |-> F(j)]
    <2> HIDE DEF stop, nxt, val
    <2> QED BY <1>3 DEF Backward
  <1>5. ASSUME NEW j \in 1 .. n + 1 PROVE F(j) = G(j)
    <2>1. CASE j > n
      BY <2>1
    <2>2. CASE ~(j > n)
      <3>1. ~stop[j] /\ nxt[j] = pieceAt[j].hi
        BY <2>2
      <3> HIDE DEF stop, nxt, val
      <3> QED BY <2>2, <3>1
    <2> QED BY <2>1, <2>2
  <1>6. f = [j \in 1 .. n + 1 |-> G(j)]
    <2> HIDE DEF F, G
    <2> QED BY <1>4, <1>5
  <1>7. PiecesFrom(f, s, pieceAt)
    BY <1>6 DEF PiecesFrom
  <1> DEFINE g == CHOOSE h : PiecesFrom(h, s, pieceAt)
  <1>8. PiecesFrom(g, s, pieceAt)
    <2> HIDE DEF F, G
    <2> QED BY <1>7
  <1> HIDE DEF g
  <1> QED BY <1>8 DEF Pieces, PiecesFrom

LEMMA Prepended ==
  ASSUME NEW X, NEW x, NEW y, NEW z, x \in X, y \in Seq(X), z = <<x>> \o y
  PROVE  /\ z \in Seq(X) /\ Len(z) = Len(y) + 1 /\ z[1] = x
         /\ \A m \in 1 .. Len(y) : z[m + 1] = y[m]
PROOF
  OBVIOUS

\* The pieces of a text follow each other and leave nothing out.
Chained(ps, s, pieceAt, i) ==
    /\ ps \in Seq({pieceAt[j] : j \in 1 .. Len(s)})
    /\ i <= Len(s) => ps # << >> /\ ps[1] = pieceAt[i]
    /\ i > Len(s) => ps = << >>
    /\ \A m \in 1 .. Len(ps) :
         IF m < Len(ps) THEN ps[m].hi <= Len(s) /\ ps[m + 1] = pieceAt[ps[m].hi]
                        ELSE ps[m].hi = Len(s) + 1
    /\ \A k \in i .. Len(s) : \E m \in 1 .. Len(ps) : ps[m].lo <= k /\ k < ps[m].hi

LEMMA PiecesChained ==
  ASSUME NEW C, NEW s \in Seq(C), NEW pieceAt, Advances(s, pieceAt),
         \A i \in 1 .. Len(s) : pieceAt[i].lo = i
  PROVE  Chained(Pieces(s, pieceAt), s, pieceAt, 1)
PROOF
  <1> DEFINE n == Len(s)
             X == {pieceAt[j] : j \in 1 .. n}
  <1>1. PICK f : PiecesFrom(f, s, pieceAt) /\ Pieces(s, pieceAt) = f[1]
    BY PiecesAre
  <1> DEFINE T == {d \in Nat : \A i \in 1 .. n + 1 : i + d >= n + 1 => Chained(f[i], s, pieceAt, i)}
  <1>2. n \in Nat
    OBVIOUS
  <1>3. Chained(f[n + 1], s, pieceAt, n + 1)
    <2>1. f[n + 1] = << >>
      BY <1>1, <1>2 DEF PiecesFrom
    <2> QED BY <1>2, <2>1 DEF Chained
  <1>4. 0 \in T
    BY <1>2, <1>3
  <1>5. ASSUME NEW d \in Nat, d \in T PROVE d + 1 \in T
    <2> SUFFICES ASSUME NEW i \in 1 .. n + 1, i + (d + 1) >= n + 1 PROVE Chained(f[i], s, pieceAt, i)
      OBVIOUS
    <2>1. CASE i = n + 1
      BY <1>3, <2>1
    <2>2. CASE i # n + 1
      <3>1. i \in 1 .. n
        BY <1>2, <2>2
      <3> DEFINE p == pieceAt[i]
                 h == p.hi
                 y == f[h]
                 z == f[i]
      <3>2. h \in 1 .. n + 1 /\ i < h /\ p.lo = i /\ p \in X
        BY <1>2, <3>1 DEF Advances
      <3>3. Chained(y, s, pieceAt, h)
        BY <1>2, <1>5, <3>1, <3>2
      <3>4. z = <<p>> \o y
        <4>1. \A j \in 1 .. n + 1 : f[j] = IF j > n THEN << >> ELSE <<pieceAt[j]>> \o f[pieceAt[j].hi]
          BY <1>1 DEF PiecesFrom
        <4>2. i \in 1 .. n + 1 /\ ~(i > n)
          BY <1>2, <3>1
        <4> HIDE DEF n
        <4> QED BY <4>1, <4>2
      <3> HIDE DEF y, z, h, p, X, n
      <3>5. y \in Seq(X)
        BY <3>3 DEF Chained, X, n
      <3>6. /\ z \in Seq(X) /\ Len(z) = Len(y) + 1 /\ z[1] = p
            /\ \A m \in 1 .. Len(y) : z[m + 1] = y[m]
        BY <3>2, <3>4, <3>5, Prepended
      <3>7. Len(y) \in Nat
        BY <3>5
      <3>8. ASSUME NEW m \in 1 .. Len(z)
            PROVE  IF m < Len(z) THEN z[m].hi <= n /\ z[m + 1] = pieceAt[z[m].hi]
                                 ELSE z[m].hi = n + 1
        <4>1. CASE m = 1
          <5>1. CASE h <= n
            <6>1. Len(y) >= 1 /\ y[1] = pieceAt[h]
              BY <3>3, <3>5, <3>7, <5>1 DEF Chained, n
            <6> QED BY <3>6, <3>7, <4>1, <5>1, <6>1 DEF h
          <5>2. CASE h > n
            BY <1>2, <3>2, <3>3, <3>6, <4>1, <5>2 DEF Chained, n, h
          <5> QED BY <1>2, <3>2, <5>1, <5>2
        <4>2. CASE m # 1
          <5> DEFINE l == m - 1
          <5>1. l \in 1 .. Len(y) /\ m = l + 1 /\ (m < Len(z) <=> l < Len(y))
            BY <3>6, <3>7, <4>2
          <5>2. IF l < Len(y) THEN y[l].hi <= n /\ y[l + 1] = pieceAt[y[l].hi] ELSE y[l].hi = n + 1
            BY <3>3, <5>1 DEF Chained, n
          <5>3. z[m] = y[l]
            BY <3>6, <5>1
          <5>4. CASE l < Len(y)
            <6>1. z[m + 1] = y[l + 1]
              <7> HIDE DEF l
              <7> QED BY <3>6, <3>7, <5>1, <5>4
            <6> QED BY <5>1, <5>2, <5>3, <5>4, <6>1
          <5>5. CASE ~(l < Len(y))
            BY <5>1, <5>2, <5>3, <5>5
          <5> QED BY <5>4, <5>5
        <4> QED BY <4>1, <4>2
      <3>9. ASSUME NEW k \in i .. n PROVE \E m \in 1 .. Len(z) : z[m].lo <= k /\ k < z[m].hi
        <4>1. CASE k < h
          BY <1>2, <3>2, <3>6, <3>7, <4>1 DEF h
        <4>2. CASE ~(k < h)
          <5>2. PICK m \in 1 .. Len(y) : y[m].lo <= k /\ k < y[m].hi
            BY <1>2, <3>2, <3>3, <4>2 DEF Chained, n
          <5>3. m + 1 \in 1 .. Len(z) /\ z[m + 1] = y[m]
            BY <3>6, <3>7
          <5> QED BY <5>2, <5>3
        <4> QED BY <4>1, <4>2
      <3>10. z # << >>
        BY <3>6, <3>7
      <3>11. i <= n /\ ~(i > n)
        BY <1>2, <3>1
      <3>12. z \in Seq({pieceAt[j] : j \in 1 .. Len(s)})
        BY <3>6 DEF X, n
      <3> QED BY <3>6, <3>8, <3>9, <3>10, <3>11, <3>12 DEF Chained, n, z, p
    <2> QED BY <2>1, <2>2
  <1> HIDE DEF T
  <1>6. Nat \subseteq T
    BY <1>4, <1>5, Induct
  <1>7. 1 \in 1 .. n + 1 /\ 1 + n >= n + 1
    BY <1>2
  <1> QED BY <1>1, <1>2, <1>6, <1>7 DEF T
-----------------------------------------------------------------------------
(* The databases.                                                          *)

LEMMA DatabaseIs ==
  ASSUME NEW R \in Reader
  PROVE  /\ Databases[R].strings \subseteq Quote
         /\ Databases[R].names \subseteq {"dq", "bt"}
         /\ Databases[R].escapes \subseteq Databases[R].strings
         /\ Databases[R].strings \cap Databases[R].names = {}
         /\ Quote \subseteq Databases[R].strings \cup Databases[R].names
         /\ Databases[R].dollar \in BOOLEAN
         /\ Databases[R].hash \in BOOLEAN
         /\ Databases[R].looseDash \in BOOLEAN
PROOF
  <1>2. CASE R = "postgres"
    BY <1>2 DEF Databases, Quote
  <1>3. CASE R = "postgresE"
    BY <1>3 DEF Databases, Quote
  <1>4. CASE R = "mysql"
    BY <1>4 DEF Databases, Quote
  <1>5. CASE R = "mysqlPlain"
    BY <1>5 DEF Databases, Quote
  <1>6. CASE R = "sqlite"
    BY <1>6 DEF Databases, Quote
  <1> QED BY <1>2, <1>3, <1>4, <1>5, <1>6 DEF Reader, Databases

LEMMA Fields ==
  ASSUME NEW w, NEW q, NEW t, NEW m
  PROVE  /\ Mode(w, q, t, m).in = w /\ Mode(w, q, t, m).quote = q
         /\ Mode(w, q, t, m).tag = t /\ Mode(w, q, t, m).match = m
PROOF
  BY DEF Mode

LEMMA FieldsOf ==
  ASSUME NEW w, NEW q
  PROVE  /\ InRun(w, q).in = w /\ InRun(w, q).quote = q
         /\ In(w).in = w /\ In(w).quote = "none" /\ In(w).tag = << >> /\ In(w).match = << >>
PROOF
  BY Fields DEF InRun, In

LEMMA FieldsOfTag ==
  ASSUME NEW w, NEW t, NEW m
  PROVE  InTag(w, t, m).in = w /\ InTag(w, t, m).tag = t /\ InTag(w, t, m).match = m
PROOF
  BY Fields DEF InTag

(* How a database reads on.                                                *)

\* R reads on like this unless a comment begins in a comment.
Steps(R, m, c, prev) ==
    IF m.in = "block" THEN IF c = "*/" THEN Plain ELSE m
    ELSE Reads(R, m, c, prev)

LEMMA ReadsRun ==
  ASSUME NEW R \in Reader, NEW w \in {"string", "name"}, NEW q, NEW c, NEW prev
  PROVE  Steps(R, InRun(w, q), c, prev) =
           IF c = "\\" /\ q \in Databases[R].escapes THEN InRun("escape", q)
           ELSE IF c = q THEN Mode("closed", q, <<w>>, << >>)
           ELSE InRun(w, q)
PROOF
  <1> DEFINE m == InRun(w, q)
  <1>1. m.in = w /\ m.quote = q
    BY FieldsOf
  <1> HIDE DEF m
  <1>2. Steps(R, m, c, prev) =
           IF c = "\\" /\ q \in Databases[R].escapes THEN InRun("escape", q)
           ELSE IF c = q THEN Mode("closed", q, <<w>>, << >>)
           ELSE m
    BY <1>1 DEF Steps, Reads
  <1> QED BY <1>2 DEF m

LEMMA ReadsEscape ==
  ASSUME NEW R \in Reader, NEW q, NEW c, NEW prev
  PROVE  Steps(R, InRun("escape", q), c, prev) = InRun("string", q)
PROOF
  BY FieldsOf DEF Steps, Reads

LEMMA ReadsClosed ==
  ASSUME NEW R \in Reader, NEW w, NEW q, NEW c, NEW prev
  PROVE  Steps(R, Mode("closed", q, <<w>>, << >>), c, prev) =
           IF c = q THEN InRun(w, q) ELSE Begins(R, c, prev)
PROOF
  <1> DEFINE m == Mode("closed", q, <<w>>, << >>)
  <1>1. m.in = "closed" /\ m.quote = q /\ m.tag = <<w>>
    BY Fields
  <1> HIDE DEF m
  <1>3. Steps(R, m, c, prev) = IF c = m.quote THEN InRun(m.tag[1], c) ELSE Begins(R, c, prev)
    BY <1>1 DEF Steps, Reads
  <1>4. Steps(R, m, c, prev) = IF c = q THEN InRun(w, q) ELSE Begins(R, c, prev)
    BY <1>1, <1>3
  <1> QED BY <1>4 DEF m

LEMMA ReadsTag ==
  ASSUME NEW R \in Reader, NEW t, NEW x, NEW c, NEW prev
  PROVE  Steps(R, InTag("tag", t, x), c, prev) =
           IF c \in isIdentByte /\ (t = << >> => c \notin isDigit)
           THEN InTag("tag", Append(t, c), << >>)
           ELSE IF c = "$" THEN InTag("dollar", t, << >>)
           ELSE Begins(R, c, prev)
PROOF
  BY FieldsOfTag DEF Steps, Reads

LEMMA ReadsDollar ==
  ASSUME NEW R \in Reader, NEW t, NEW x, NEW c, NEW prev
  PROVE  Steps(R, InTag("dollar", t, x), c, prev) =
           IF c = "$" /\ x = <<"$">> \o t THEN Plain
           ELSE IF IsPrefix(Append(x, c), <<"$">> \o t) THEN InTag("dollar", t, Append(x, c))
           ELSE InTag("dollar", t, IF c = "$" THEN <<"$">> ELSE << >>)
PROOF
  <1> DEFINE m == InTag("dollar", t, x)
  <1>1. m.in = "dollar" /\ m.tag = t /\ m.match = x
    BY FieldsOfTag
  <1> HIDE DEF m
  <1>2. Steps(R, m, c, prev) = Reads(R, m, c, prev)
    BY <1>1 DEF Steps
  <1>3. Reads(R, m, c, prev) =
           IF c = "$" /\ x = <<"$">> \o t THEN Plain
           ELSE IF IsPrefix(Append(x, c), <<"$">> \o t) THEN InTag("dollar", t, Append(x, c))
           ELSE InTag("dollar", t, IF c = "$" THEN <<"$">> ELSE << >>)
    BY <1>1 DEF Reads
  <1> QED BY <1>2, <1>3 DEF m

LEMMA ReadsRest ==
  ASSUME NEW R \in Reader, NEW c, NEW prev
  PROVE  /\ Steps(R, Plain, c, prev) = Begins(R, c, prev)
         /\ Steps(R, In("block"), c, prev) = IF c = "*/" THEN Plain ELSE In("block")
         /\ Steps(R, In("comment"), c, prev) = IF c = "nl" THEN Plain ELSE In("comment")
         /\ Steps(R, In("dash"), c, prev) = IF c = "sp" THEN In("comment")
                                            ELSE IF c = "nl" THEN Plain ELSE Begins(R, c, prev)
PROOF
  <1>1. Steps(R, Plain, c, prev) = Begins(R, c, prev)
    BY FieldsOf DEF Steps, Reads, Plain
  <1>2. Steps(R, In("block"), c, prev) = IF c = "*/" THEN Plain ELSE In("block")
    BY FieldsOf DEF Steps, Reads
  <1>3. Steps(R, In("comment"), c, prev) = IF c = "nl" THEN Plain ELSE In("comment")
    BY FieldsOf DEF Steps, Reads
  <1>4. Steps(R, In("dash"), c, prev) = IF c = "sp" THEN In("comment")
                                        ELSE IF c = "nl" THEN Plain ELSE Begins(R, c, prev)
    BY FieldsOf DEF Steps, Reads
  <1> QED BY <1>1, <1>2, <1>3, <1>4

\* What begins something for one database or other.
Special == Quote \cup {"bt", "$", "--", "#", "/*"}

LEMMA BeginsQuoted ==
  ASSUME NEW R \in Reader, NEW c, NEW prev
  PROVE  /\ c \in Databases[R].strings => Begins(R, c, prev) = InRun("string", c)
         /\ c \in Databases[R].names => Begins(R, c, prev) = InRun("name", c)
         /\ c = "bt" /\ c \notin Databases[R].names => Begins(R, c, prev) = Plain
PROOF
  <1>1. /\ c \in Databases[R].strings => c \in {"'", "dq"}
        /\ c \in Databases[R].names => c \in {"dq", "bt"} /\ c \notin Databases[R].strings
    BY DatabaseIs DEF Quote
  <1>2. c \in Databases[R].strings => Begins(R, c, prev) = InRun("string", c)
    <2> SUFFICES ASSUME c \in Databases[R].strings PROVE Begins(R, c, prev) = InRun("string", c)
      OBVIOUS
    <2> QED BY <1>1 DEF Begins
  <1>4. ASSUME c = "bt", c \notin Databases[R].names PROVE Begins(R, c, prev) = Plain
    BY <1>1, <1>4 DEF Begins
  <1> QED BY <1>1, <1>2, <1>4 DEF Begins

LEMMA BeginsOther ==
  ASSUME NEW R \in Reader, NEW c, NEW prev
  PROVE  /\ c = "$" => Begins(R, c, prev) =
              IF Databases[R].dollar /\ prev \notin isIdentByte \cup Directive THEN In("tag") ELSE Plain
         /\ c = "--" => Begins(R, c, prev) = In(IF Databases[R].looseDash THEN "comment" ELSE "dash")
         /\ c = "#" => Begins(R, c, prev) = IF Databases[R].hash THEN In("comment") ELSE Plain
         /\ c = "/*" => Begins(R, c, prev) = In("block")
         /\ c \notin Special => Begins(R, c, prev) = Plain
PROOF
  <1> DEFINE db == Databases[R]
  <1>1. \A x \in db.strings \cup db.names : x \in {"'", "dq", "bt"}
    BY DatabaseIs DEF Quote
  <1> HIDE DEF db
  <1>3. CASE c = "$"
    BY <1>1, <1>3 DEF Begins, db, Special
  <1>4. CASE c = "--"
    BY <1>1, <1>4 DEF Begins, db, Special
  <1>5. CASE c = "#"
    BY <1>1, <1>5 DEF Begins, db, Special
  <1>6. CASE c = "/*"
    BY <1>1, <1>6 DEF Begins, db, Special
  <1>7. CASE c \notin Special
    <2>1. /\ c \notin db.strings /\ c \notin db.names
          /\ c # "$" /\ c # "--" /\ c # "#" /\ c # "/*"
      BY <1>1, <1>7 DEF Special, Quote
    <2> QED BY <1>7, <2>1 DEF Begins, db
  <1>8. CASE c \in Special /\ c \notin {"$", "--", "#", "/*"}
    BY <1>8
  <1> QED BY <1>3, <1>4, <1>5, <1>6, <1>7, <1>8
-----------------------------------------------------------------------------
(* A text that a database reads.                                           *)

Prev(s, i) == IF i = 1 THEN "start" ELSE s[i - 1].char

\* What R is in the middle of, before the text and after each of its bytes.
Run(R, s, ms) ==
    /\ ms[0] = Plain
    /\ \A k \in 1 .. Len(s) : ms[k] = Steps(R, ms[k - 1], s[k].char, Prev(s, k))

\* After a "$" that begins no string, R waits for the tag to end to know.
Dead(s, ms, i) ==
    /\ \E t : t # << >> /\ ms[i] = InTag("tag", t, << >>)
    /\ s[i].char \in isIdentByte
    /\ \A e \in i + 1 .. Len(s) :
         s[e].char = "$" => \E k \in i + 1 .. e - 1 : s[k].char \notin isIdentByte

\* At i R is outside everything, as a scanner is that takes its next piece there.
Boundary(R, s, ms, i) ==
    i <= Len(s) => ms[i] = Begins(R, s[i].char, Prev(s, i)) \/ Dead(s, ms, i)

\* The byte k belongs to a literal or to a quoted name, or delimits one.
InLiteral(s, ms, k) ==
    \/ ms[k].in \in {"string", "escape", "name", "tag", "dollar"}
    \/ ms[k].in \in {"closed", "plain"} /\ s[k].char \in Quote \cup {"bt", "$"}

\* What the bytes of a literal or of a quoted name belong to.
Contents == {"literal", "double-quoted", "name", "backticked", "tag"}

\* The byte k belongs to the run that q opened, or delimits it.
OfRun(s, ms, w, q, k) ==
    /\ InLiteral(s, ms, k)
    /\ ms[k].in \in {w, "closed"} \cup (IF w = "string" THEN {"escape"} ELSE {})
    /\ ms[k].quote = q

\* A quoted run that R reads ends for the scanner where it ends for R.
LEMMA QuotedFollows ==
  ASSUME NEW R \in Reader, NEW C, NEW s \in Seq(C), NEW ms, Run(R, s, ms),
         NEW i \in 1 .. Len(s), NEW w \in {"string", "name"}, NEW backslash \in BOOLEAN,
         ms[i] = InRun(w, s[i].char), s[i].char \in Quote \cup {"bt"},
         s[i].char \in Databases[R].escapes => w = "string",
         \A j \in 1 .. Len(s) : s[j].char = "\\" => (backslash <=> s[i].char \in Databases[R].escapes)
  PROVE  LET h == scanQuotedRun(s, i, backslash)
         IN  /\ h \in Nat /\ i < h /\ h <= Len(s) + 1
             /\ Boundary(R, s, ms, h)
             /\ \A k \in i .. h - 1 : OfRun(s, ms, w, s[i].char, k)
PROOF
  <1> DEFINE n == Len(s)
             q == s[i].char
             esc == Databases[R].escapes
  <1>1. n \in Nat /\ i \in Nat /\ i >= 1 /\ i <= n
    OBVIOUS
  <1>2. PICK f : QuotedFrom(f, s, i, backslash) /\ scanQuotedRunClosed(s, i, backslash) = f[i + 1]
    BY QuotedRun
  <1>3. \A j \in i + 1 .. n + 2 : f[j] =
           IF j > n THEN [hi |-> n + 1, closed |-> FALSE]
           ELSE IF backslash /\ s[j].char = "\\" THEN f[j + 2]
           ELSE IF s[j].char # q THEN f[j + 1]
           ELSE IF j < n /\ s[j + 1].char = q THEN f[j + 2]
           ELSE [hi |-> j + 1, closed |-> TRUE]
    BY <1>2 DEF QuotedFrom
  <1>4. ASSUME NEW k \in i + 1 .. n
        PROVE  k \in Nat /\ k - 1 \in Nat /\ ms[k] = Steps(R, ms[k - 1], s[k].char, Prev(s, k))
    BY <1>1 DEF Run
  <1>6. q # "\\"
    BY DEF Quote
  <1> DEFINE Good(j) == /\ f[j].hi \in Nat /\ f[j].hi <= n + 1 /\ (j <= n + 1 => j <= f[j].hi)
                        /\ Boundary(R, s, ms, f[j].hi)
                        /\ \A k \in j .. f[j].hi - 1 : OfRun(s, ms, w, q, k)
             T == {d \in Nat : \A j \in i + 1 .. n + 2 :
                     /\ j + d >= n + 1
                     /\ j <= n + 1 => ms[j - 1] = InRun(w, q)
                     => Good(j)}
  <1>7. ASSUME NEW j \in i + 1 .. n + 2, j > n PROVE Good(j)
    <2>1. f[j].hi = n + 1
      <3>1. f[j] = [hi |-> n + 1, closed |-> FALSE]
        BY <1>3, <1>7
      <3> QED BY <3>1
    <2> QED BY <1>1, <1>7, <2>1 DEF Boundary
  <1>8. 0 \in T
    BY <1>1, <1>7
  <1>9. ASSUME NEW d \in Nat, d \in T PROVE d + 1 \in T
    <2> SUFFICES ASSUME NEW j \in i + 1 .. n + 2, j + (d + 1) >= n + 1,
                        j <= n + 1 => ms[j - 1] = InRun(w, q)
                 PROVE  Good(j)
      BY SMTT(30)
    <2>1. CASE j > n
      BY <1>7, <2>1
    <2>2. CASE j <= n
      <3> DEFINE c == s[j].char
      <3>1. j \in i + 1 .. n /\ j \in Nat /\ ms[j - 1] = InRun(w, q) /\ j + 2 \in i + 1 .. n + 2
            /\ j + 1 \in i + 1 .. n + 2
        BY <1>1, <2>2
      <3>0. f[j] = IF backslash /\ c = "\\" THEN f[j + 2]
                   ELSE IF c # q THEN f[j + 1]
                   ELSE IF j < n /\ s[j + 1].char = q THEN f[j + 2]
                   ELSE [hi |-> j + 1, closed |-> TRUE]
        <4> HIDE DEF n, q
        <4> QED BY <1>1, <1>3, <2>2, <3>1
      <3>2. ms[j] = IF c = "\\" /\ q \in esc THEN InRun("escape", q)
                    ELSE IF c = q THEN Mode("closed", q, <<w>>, << >>)
                    ELSE InRun(w, q)
        <4> DEFINE prev == Prev(s, j)
        <4>1. ms[j] = Steps(R, InRun(w, q), c, prev)
          BY <1>4, <3>1
        <4> HIDE DEF c, q, n, prev, T, Good
        <4> QED BY <4>1, ReadsRun
      <3>3. \A x : (x \in i + 1 .. n + 2 /\ x > j /\ (x <= n + 1 => ms[x - 1] = InRun(w, q))) => Good(x)
        BY <1>1, <1>9, <3>1
      <3>4. j < n => ms[j + 1] = Steps(R, ms[j], s[j + 1].char, Prev(s, j + 1))
        <4>1. ASSUME j < n PROVE j + 1 \in i + 1 .. n /\ (j + 1) - 1 = j
          BY <1>1, <3>1, <4>1, SMTT(30)
        <4> QED BY <1>4, <4>1
      <3>5. c = "\\" => (backslash <=> q \in esc)
        <4>1. j \in 1 .. n
          BY <1>1, <3>1
        <4> QED BY <4>1
      <3>6. (j + 2) - 1 = j + 1 /\ (j + 1) - 1 = j
        BY <3>1
      <3> HIDE DEF n, q, esc, c, T, Good
      <3>7. CASE backslash /\ c = "\\"
        <4>2. ms[j] = InRun("escape", q)
          BY <3>2, <3>5, <3>7
        <4>3. w = "string"
          BY <3>5, <3>7 DEF q, esc
        <4>4. j < n => ms[j + 1] = InRun(w, q)
          BY <3>4, <4>2, <4>3, ReadsEscape
        <4>5. Good(j + 2)
          BY <1>1, <3>1, <3>3, <3>6, <4>4
        <4>7. OfRun(s, ms, w, q, j) /\ (j < n => OfRun(s, ms, w, q, j + 1))
          BY <4>2, <4>3, <4>4, FieldsOf DEF OfRun, InLiteral
        <4>8. \A k \in j .. f[j + 2].hi - 1 : OfRun(s, ms, w, q, k)
          <5> SUFFICES ASSUME NEW k \in j .. f[j + 2].hi - 1 PROVE OfRun(s, ms, w, q, k)
            OBVIOUS
          <5>1. f[j + 2].hi \in Nat /\ f[j + 2].hi <= n + 1 /\ \A l \in j + 2 .. f[j + 2].hi - 1 : OfRun(s, ms, w, q, l)
            BY <4>5 DEF Good
          <5> QED BY <1>1, <3>1, <4>7, <5>1
        <4>9. j <= f[j + 2].hi
          <5>1. CASE j < n
            BY <1>1, <3>1, <4>5, <5>1 DEF Good
          <5>2. CASE ~(j < n)
            <6>1. j + 2 > n /\ ~(j + 2 <= n + 1) /\ j = n
              BY <1>1, <2>2, <3>1, <5>2
            <6>2. f[j + 2].hi = n + 1
              <7>1. f[j + 2] = [hi |-> n + 1, closed |-> FALSE]
                BY <1>3, <3>1, <6>1
              <7> QED BY <7>1
            <6> QED BY <1>1, <6>1, <6>2
          <5> QED BY <5>1, <5>2
        <4> QED BY <3>0, <3>7, <4>5, <4>8, <4>9 DEF Good
      <3>8. CASE ~(backslash /\ c = "\\") /\ c # q
        <4>2. ms[j] = InRun(w, q)
          BY <3>2, <3>5, <3>8
        <4>3. Good(j + 1)
          BY <3>1, <3>3, <3>6, <4>2
        <4>5. \A k \in j .. f[j + 1].hi - 1 : OfRun(s, ms, w, q, k)
          <5> SUFFICES ASSUME NEW k \in j .. f[j + 1].hi - 1 PROVE OfRun(s, ms, w, q, k)
            OBVIOUS
          <5>1. f[j + 1].hi \in Nat /\ \A l \in j + 1 .. f[j + 1].hi - 1 : OfRun(s, ms, w, q, l)
            BY <4>3 DEF Good
          <5>2. k = j \/ k \in j + 1 .. f[j + 1].hi - 1
            BY <3>1, <5>1
          <5> QED BY <4>2, <5>1, <5>2, FieldsOf DEF OfRun, InLiteral
        <4>6. j <= f[j + 1].hi
          BY <1>1, <2>2, <3>1, <4>3 DEF Good
        <4> QED BY <3>0, <3>8, <4>3, <4>5, <4>6 DEF Good
      <3>9. CASE ~(backslash /\ c = "\\") /\ c = q /\ j < n /\ s[j + 1].char = q
        <4>2. ms[j] = Mode("closed", q, <<w>>, << >>)
          BY <1>6, <3>2, <3>9 DEF q
        <4>3. ms[j + 1] = InRun(w, q)
          BY <3>4, <3>9, <4>2, ReadsClosed
        <4>4. Good(j + 2)
          BY <3>1, <3>3, <3>6, <4>3, SMTT(30)
        <4>5. OfRun(s, ms, w, q, j) /\ OfRun(s, ms, w, q, j + 1)
          <5>2. ms[j].in = "closed" /\ ms[j + 1].in = w /\ ms[j].quote = q /\ ms[j + 1].quote = q
            BY <4>2, <4>3, Fields, FieldsOf
          <5> QED BY <3>9, <5>2 DEF q, c, OfRun, InLiteral
        <4>6. \A k \in j .. f[j + 2].hi - 1 : OfRun(s, ms, w, q, k)
          <5> SUFFICES ASSUME NEW k \in j .. f[j + 2].hi - 1 PROVE OfRun(s, ms, w, q, k)
            OBVIOUS
          <5>1. f[j + 2].hi \in Nat /\ \A l \in j + 2 .. f[j + 2].hi - 1 : OfRun(s, ms, w, q, l)
            BY <4>4 DEF Good
          <5>2. k = j \/ k = j + 1 \/ k \in j + 2 .. f[j + 2].hi - 1
            BY <3>1, <5>1
          <5> QED BY <4>5, <5>1, <5>2
        <4>7. j <= f[j + 2].hi
          BY <1>1, <3>1, <3>9, <4>4 DEF Good
        <4> QED BY <3>0, <3>9, <4>4, <4>6, <4>7 DEF Good
      <3>10. CASE ~(backslash /\ c = "\\") /\ c = q /\ ~(j < n /\ s[j + 1].char = q)
        <4>1. f[j].hi = j + 1
          BY <3>0, <3>10
        <4>2. ms[j] = Mode("closed", q, <<w>>, << >>)
          BY <1>6, <3>2, <3>10 DEF q
        <4>3. Boundary(R, s, ms, j + 1)
          <5> SUFFICES ASSUME j + 1 <= n PROVE ms[j + 1] = Begins(R, s[j + 1].char, Prev(s, j + 1))
            BY DEF Boundary, n
          <5>1. j < n /\ s[j + 1].char # q
            BY <1>1, <3>1, <3>10
          <5> QED BY <3>4, <4>2, <5>1, ReadsClosed
        <4>4. OfRun(s, ms, w, q, j)
          <5>2. ms[j].in = "closed" /\ ms[j].quote = q
            BY <4>2, Fields
          <5> QED BY <3>10, <5>2 DEF q, c, OfRun, InLiteral
        <4>6. f[j].hi \in Nat /\ f[j].hi <= n + 1 /\ j <= f[j].hi
          BY <1>1, <3>1, <4>1, SMTT(30)
        <4> QED BY <3>1, <4>1, <4>3, <4>4, <4>6 DEF Good
      <3> QED BY <3>7, <3>8, <3>9, <3>10
    <2> QED BY <1>1, <2>1, <2>2
  <1> HIDE DEF T
  <1>10. n \in T
    BY <1>1, <1>8, <1>9, Induct
  <1>11. Good(i + 1)
    <2> HIDE DEF Good
    <2> QED BY <1>1, <1>10 DEF T
  <1>14. \A k \in i .. f[i + 1].hi - 1 : OfRun(s, ms, w, q, k)
    <2> SUFFICES ASSUME NEW k \in i .. f[i + 1].hi - 1 PROVE OfRun(s, ms, w, q, k)
      OBVIOUS
    <2>1. k = i \/ k \in i + 1 .. f[i + 1].hi - 1
      BY <1>1, <1>11
    <2> QED BY <1>11, <2>1, FieldsOf DEF OfRun, InLiteral
  <1>15. i < f[i + 1].hi
    BY <1>1, <1>11
  <1> HIDE DEF n
  <1> QED BY <1>2, <1>11, <1>14, <1>15 DEF scanQuotedRun, n

\* The first place of a set of places, or just past the last that could be.
First1(S, hi) == IF S = {} THEN hi + 1 ELSE Min(S)

LEMMA FirstIn ==
  ASSUME NEW lo \in Nat, NEW hi \in Nat, lo <= hi + 1, NEW S, S \subseteq lo .. hi
  PROVE  /\ First1(S, hi) \in Nat /\ lo <= First1(S, hi) /\ First1(S, hi) <= hi + 1
         /\ First1(S, hi) <= hi => First1(S, hi) \in S
         /\ \A y \in S : First1(S, hi) <= y
PROOF
  <1>1. CASE S = {}
    BY <1>1 DEF First1
  <1>2. CASE S # {}
    <2>1. Min(S) \in S /\ \A y \in S : Min(S) <= y
      BY <1>2, MinIs
    <2>2. Min(S) \in lo .. hi /\ First1(S, hi) = Min(S)
      BY <1>2, <2>1 DEF First1
    <2> QED BY <2>1, <2>2
  <1> QED BY <1>1, <1>2

LEMMA LineEnd ==
  ASSUME NEW C, NEW s \in Seq(C), NEW i \in 1 .. Len(s), s[i].char # "nl"
  PROVE  LET h == skipLineComment(s, i)
         IN  /\ h \in Nat /\ i < h /\ h <= Len(s) + 1
             /\ h <= Len(s) => s[h].char = "nl"
             /\ \A k \in i .. h - 1 : s[k].char # "nl"
PROOF
  <1> DEFINE n == Len(s)
             S == {j \in i .. n : s[j].char = "nl"}
             h == skipLineComment(s, i)
  <1>1. n \in Nat /\ i \in Nat /\ i <= n /\ i <= n + 1
    OBVIOUS
  <1>2. h = First1(S, n)
    BY DEF skipLineComment, FirstFrom, First1
  <1>3. S \subseteq i .. n
    OBVIOUS
  <1>4. /\ h \in Nat /\ i <= h /\ h <= n + 1
        /\ h <= n => h \in S
        /\ \A y \in S : h <= y
    <2> HIDE DEF S, h, n
    <2> QED BY <1>1, <1>2, <1>3, FirstIn
  <1>6. \A k \in i .. h - 1 : s[k].char # "nl"
    <2> SUFFICES ASSUME NEW k \in i .. h - 1, s[k].char = "nl" PROVE FALSE
      OBVIOUS
    <2>1. k \in i .. n /\ k < h
      <3> HIDE DEF n, h, S
      <3> QED BY <1>1, <1>4
    <2>2. k \in S
      BY <2>1
    <2> HIDE DEF S, h, n
    <2> QED BY <1>4, <2>1, <2>2
  <1>7. h <= n => s[h].char = "nl"
    BY <1>4
  <1> HIDE DEF h, n, S
  <1> QED BY <1>1, <1>4, <1>6, <1>7 DEF h, n

LEMMA BlockEnd ==
  ASSUME NEW C, NEW s \in Seq(C), NEW i \in 1 .. Len(s)
  PROVE  \E e \in i + 1 .. Len(s) + 1 :
             /\ skipBlockComment(s, i) = IF e > Len(s) THEN e ELSE e + 1
             /\ e <= Len(s) => s[e].char = "*/"
             /\ \A k \in i + 1 .. e - 1 : s[k].char # "*/"
PROOF
  <1> DEFINE n == Len(s)
             S == {j \in i + 1 .. n : s[j].char = "*/"}
             e == First1(S, n)
  <1>1. n \in Nat /\ i \in Nat /\ i <= n /\ i + 1 \in Nat /\ i + 1 <= n + 1
    OBVIOUS
  <1>2. S \subseteq i + 1 .. n
    OBVIOUS
  <1>3. /\ e \in Nat /\ i + 1 <= e /\ e <= n + 1
        /\ e <= n => e \in S
        /\ \A y \in S : e <= y
    <2> HIDE DEF S, n
    <2> QED BY <1>1, <1>2, FirstIn
  <1>4. skipBlockComment(s, i) = IF e > n THEN e ELSE e + 1
    BY DEF skipBlockComment, FirstFrom, First1
  <1>5. \A k \in i + 1 .. e - 1 : s[k].char # "*/"
    <2> SUFFICES ASSUME NEW k \in i + 1 .. e - 1, s[k].char = "*/" PROVE FALSE
      OBVIOUS
    <2>1. k \in i + 1 .. n /\ k < e
      <3> HIDE DEF n, e, S
      <3> QED BY <1>1, <1>3
    <2>2. k \in S
      BY <2>1
    <2> HIDE DEF S, e, n
    <2> QED BY <1>3, <2>1, <2>2
  <1>6. e <= n => s[e].char = "*/"
    BY <1>3
  <1>7. e \in i + 1 .. n + 1
    <2> HIDE DEF e, n, S
    <2> QED BY <1>1, <1>3
  <1> HIDE DEF e, S
  <1> QED BY <1>4, <1>5, <1>6, <1>7

\* The byte k belongs to a comment, and is not what begins it.
InComment(ms, k) == ms[k].in = "comment" \/ ms[k - 1].in = "block"

LEMMA LineFollows ==
  ASSUME NEW R \in Reader, NEW C, NEW s \in Seq(C), NEW ms, Run(R, s, ms),
         NEW i \in 1 .. Len(s), s[i].char # "nl",
         \/ ms[i] = In("comment")
         \/ ms[i] = In("dash") /\ (i = Len(s) \/ s[i + 1].char \in Blank)
  PROVE  LET h == skipLineComment(s, i)
         IN  /\ h \in Nat /\ i < h /\ h <= Len(s) + 1
             /\ Boundary(R, s, ms, h)
             /\ \A k \in i + 1 .. h - 1 : InComment(ms, k)
PROOF
  <1> DEFINE n == Len(s)
             h == skipLineComment(s, i)
  <1>1. n \in Nat /\ i \in Nat /\ i >= 1 /\ i <= n
    OBVIOUS
  <1>2. /\ h \in Nat /\ i < h /\ h <= n + 1
        /\ h <= n => s[h].char = "nl"
        /\ \A k \in i .. h - 1 : s[k].char # "nl"
    BY LineEnd
  <1> HIDE DEF h
  <1>3. ASSUME NEW k \in i + 1 .. n
        PROVE  k \in Nat /\ k - 1 \in Nat /\ ms[k] = Steps(R, ms[k - 1], s[k].char, Prev(s, k))
    BY <1>1 DEF Run
  <1> DEFINE T == {d \in Nat : i + 1 + d < h => ms[i + 1 + d] = In("comment")}
  <1>4. 0 \in T
    <2> SUFFICES ASSUME i + 1 < h PROVE ms[i + 1] = In("comment")
      BY <1>1
    <2>1. i + 1 \in i + 1 .. n /\ (i + 1) - 1 = i /\ i + 1 \in i .. h - 1 /\ i # n
      BY <1>1, <1>2
    <2>2. ms[i + 1] = Steps(R, ms[i], s[i + 1].char, Prev(s, i + 1)) /\ s[i + 1].char # "nl"
      BY <1>2, <1>3, <2>1
    <2>3. CASE ms[i] = In("comment")
      BY <2>2, <2>3, ReadsRest
    <2>4. CASE ms[i] = In("dash") /\ s[i + 1].char \in Blank
      BY <2>2, <2>4, ReadsRest DEF Blank
    <2> QED BY <2>1, <2>3, <2>4
  <1>5. ASSUME NEW d \in Nat, d \in T PROVE d + 1 \in T
    <2> SUFFICES ASSUME i + 1 + (d + 1) < h PROVE ms[i + 1 + (d + 1)] = In("comment")
      OBVIOUS
    <2> DEFINE k == i + 1 + (d + 1)
    <2>1. k \in i + 1 .. n /\ k - 1 = i + 1 + d /\ k \in i .. h - 1 /\ i + 1 + d < h
      BY <1>1, <1>2
    <2> HIDE DEF k
    <2>2. ms[k] = Steps(R, In("comment"), s[k].char, Prev(s, k)) /\ s[k].char # "nl"
      BY <1>2, <1>3, <1>5, <2>1
    <2> QED BY <2>2, ReadsRest DEF k
  <1> HIDE DEF T
  <1>7. ASSUME NEW k \in i + 1 .. h - 1 PROVE ms[k] = In("comment")
    <2>1. k - (i + 1) \in Nat /\ i + 1 + (k - (i + 1)) = k /\ k < h
      BY <1>1, <1>2
    <2> QED BY <1>4, <1>5, <2>1, Induct DEF T
  <1>8. Boundary(R, s, ms, h)
    <2> SUFFICES ASSUME h <= n PROVE ms[h] = Begins(R, s[h].char, Prev(s, h))
      BY DEF Boundary
    <2>2. ms[h] = Steps(R, ms[h - 1], s[h].char, Prev(s, h)) /\ s[h].char = "nl"
      BY <1>1, <1>2, <1>3
    <2>3. Begins(R, s[h].char, Prev(s, h)) = Plain
      BY <2>2, BeginsOther DEF Special, Quote
    <2>5. ms[h - 1] = In("comment") \/ ms[h - 1] = In("dash")
      BY <1>1, <1>2, <1>7
    <2> QED BY <2>2, <2>3, <2>5, ReadsRest
  <1> QED BY <1>2, <1>7, <1>8, FieldsOf DEF InComment, h

LEMMA BlockFollows ==
  ASSUME NEW R \in Reader, NEW C, NEW s \in Seq(C), NEW ms, Run(R, s, ms),
         NEW i \in 1 .. Len(s), ms[i] = In("block")
  PROVE  LET h == skipBlockComment(s, i)
         IN  /\ h \in Nat /\ i < h /\ h <= Len(s) + 1
             /\ Boundary(R, s, ms, h)
             /\ \A k \in i + 1 .. h - 1 : InComment(ms, k)
             /\ h <= Len(s) => ms[h - 1] = Plain /\ s[h - 1].char = "*/"
PROOF
  <1> DEFINE n == Len(s)
             h == skipBlockComment(s, i)
  <1>1. n \in Nat /\ i \in Nat /\ i >= 1 /\ i <= n
    OBVIOUS
  <1>2. PICK e \in i + 1 .. n + 1 :
             /\ h = IF e > n THEN e ELSE e + 1
             /\ e <= n => s[e].char = "*/"
             /\ \A k \in i + 1 .. e - 1 : s[k].char # "*/"
    BY BlockEnd
  <1> HIDE DEF h
  <1>3. ASSUME NEW k \in i + 1 .. n
        PROVE  k \in Nat /\ k - 1 \in Nat /\ ms[k] = Steps(R, ms[k - 1], s[k].char, Prev(s, k))
    BY <1>1 DEF Run
  <1> DEFINE T == {d \in Nat : i + d < e => ms[i + d] = In("block")}
  <1>4. 0 \in T
    BY <1>1
  <1>5. ASSUME NEW d \in Nat, d \in T PROVE d + 1 \in T
    <2> SUFFICES ASSUME i + (d + 1) < e PROVE ms[i + (d + 1)] = In("block")
      OBVIOUS
    <2> DEFINE k == i + (d + 1)
    <2>1. k \in i + 1 .. n /\ k - 1 = i + d /\ k \in i + 1 .. e - 1 /\ i + d < e
      BY <1>1, <1>2
    <2> HIDE DEF k
    <2>2. ms[k] = Steps(R, In("block"), s[k].char, Prev(s, k)) /\ s[k].char # "*/"
      BY <1>2, <1>3, <1>5, <2>1
    <2> QED BY <2>2, ReadsRest DEF k
  <1> HIDE DEF T
  <1>6. Nat \subseteq T
    BY <1>4, <1>5, Induct
  <1>7. ASSUME NEW k \in i .. e - 1 PROVE ms[k] = In("block")
    BY <1>1, <1>2, <1>6 DEF T
  <1>8. h \in Nat /\ i < h /\ h <= n + 1 /\ (h <= n => e \in i + 1 .. n /\ h = e + 1) /\ h - 1 <= e
    BY <1>1, <1>2
  <1>9. Boundary(R, s, ms, h)
    <2> SUFFICES ASSUME h <= n PROVE ms[h] = Begins(R, s[h].char, Prev(s, h))
      BY DEF Boundary
    <2>1. h \in i + 1 .. n /\ e \in i + 1 .. n /\ h - 1 = e /\ e - 1 \in i .. e - 1
      BY <1>1, <1>8
    <2>3. ms[e] = Steps(R, In("block"), "*/", Prev(s, e))
      BY <1>2, <1>3, <1>7, <2>1
    <2> QED BY <1>3, <2>1, <2>3, ReadsRest
  <1>10. \A k \in i + 1 .. h - 1 : InComment(ms, k)
    <2> SUFFICES ASSUME NEW k \in i + 1 .. h - 1 PROVE ms[k - 1].in = "block"
      BY DEF InComment
    <2>1. k - 1 \in i .. e - 1
      BY <1>1, <1>8
    <2> QED BY <1>7, <2>1, FieldsOf
  <1>11. ASSUME h <= n PROVE ms[h - 1] = Plain /\ s[h - 1].char = "*/"
    <2>1. e \in i + 1 .. n /\ h - 1 = e /\ e - 1 \in i .. e - 1
      BY <1>1, <1>8, <1>11
    <2> QED BY <1>2, <1>3, <1>7, <2>1, ReadsRest
  <1> QED BY <1>8, <1>9, <1>10, <1>11 DEF h
-----------------------------------------------------------------------------
(* Dollar-quoted strings.                                                  *)

\* The text at j is what it is at i, len bytes long.
Same(s, i, j, len) == \A x \in 0 .. len - 1 : s[j + x].char = s[i + x].char
Occurs(s, i, len, j) == j + len - 1 <= Len(s) /\ Same(s, i, j, len)

\* What scanDollarQuoted(s, i) returns: end is where the tag ends, closing where
\* the closing delimiter begins.
DollarScanned(s, i, end, closing) ==
    LET q == scanDollarQuoted(s, i)
        len == end + 1 - i
    IN  /\ end \in i + 1 .. Len(s) + 1
        /\ \A k \in i + 1 .. end - 1 : s[k].char \in isIdentByte
        /\ end <= Len(s) => s[end].char \notin isIdentByte
        /\ q.ok <=> /\ ~(i > 1 /\ s[i - 1].char \in isIdentByte \cup Directive)
                    /\ end <= Len(s) /\ s[end].char = "$"
                    /\ s[i + 1].char \notin isDigit
        /\ q.tag = len
        /\ end <= Len(s) =>
             /\ closing \in end + 1 .. Len(s) + 1
             /\ closing <= Len(s) => Occurs(s, i, len, closing)
             /\ \A j \in end + 1 .. closing - 1 : ~Occurs(s, i, len, j)
             /\ q.hi = IF closing > Len(s) THEN closing ELSE closing + len

LEMMA DollarIs ==
  ASSUME NEW C, NEW s \in Seq(C), NEW i \in 1 .. Len(s)
  PROVE  \E end, closing : DollarScanned(s, i, end, closing)
PROOF
  <1> DEFINE n == Len(s)
             S == {j \in i + 1 .. n : s[j].char \notin isIdentByte}
             end == First1(S, n)
             len == end + 1 - i
             O == {j \in end + 1 .. n : /\ j + len - 1 <= Len(s)
                                        /\ \A k \in 0 .. len - 1 : s[j + k].char = s[i + k].char}
             closing == First1(O, n)
             q == scanDollarQuoted(s, i)
  <1>1. n \in Nat /\ i \in Nat /\ i <= n /\ i + 1 \in Nat /\ i + 1 <= n + 1
    OBVIOUS
  <1>2. S \subseteq i + 1 .. n /\ O \subseteq end + 1 .. n
    OBVIOUS
  <1>3. q = [ok  |-> /\ ~(i > 1 /\ s[i - 1].char \in isIdentByte \cup Directive)
                     /\ end <= n /\ s[end].char = "$"
                     /\ s[i + 1].char \notin isDigit,
             tag |-> len,
             hi  |-> IF closing > n THEN closing ELSE closing + len]
    BY DEF scanDollarQuoted, FirstFrom, First1
  <1>4. /\ end \in Nat /\ i + 1 <= end /\ end <= n + 1
        /\ end <= n => end \in S
        /\ \A y \in S : end <= y
    <2> HIDE DEF S, n
    <2> QED BY <1>1, <1>2, FirstIn
  <1>5. \A k \in i + 1 .. end - 1 : s[k].char \in isIdentByte
    <2> SUFFICES ASSUME NEW k \in i + 1 .. end - 1, s[k].char \notin isIdentByte PROVE FALSE
      OBVIOUS
    <2>1. k \in i + 1 .. n /\ k < end
      <3> HIDE DEF n, end, S
      <3> QED BY <1>1, <1>4
    <2>2. k \in S
      BY <2>1
    <2> HIDE DEF S, end, n
    <2> QED BY <1>4, <2>1, <2>2
  <1>6. end <= n => s[end].char \notin isIdentByte
    BY <1>4
  <1>7. ASSUME end <= n
        PROVE  /\ closing \in Nat /\ end + 1 <= closing /\ closing <= n + 1
               /\ closing <= n => closing \in O
               /\ \A y \in O : closing <= y
    <2>1. end + 1 \in Nat /\ end + 1 <= n + 1
      BY <1>1, <1>4, <1>7
    <2> HIDE DEF S, n, O, end
    <2> QED BY <1>1, <1>2, <2>1, FirstIn
  <1> HIDE DEF S
  <1>8. \A j \in end + 1 .. n : j \in O <=> Occurs(s, i, len, j)
    BY DEF Occurs, Same
  <1>9. ASSUME end <= n
        PROVE  /\ closing <= n => Occurs(s, i, len, closing)
               /\ \A j \in end + 1 .. closing - 1 : ~Occurs(s, i, len, j)
    <2> HIDE DEF O, closing, end, n
    <2>1. closing <= n => closing \in end + 1 .. n
      BY <1>1, <1>4, <1>7, <1>9
    <2>2. ASSUME NEW j \in end + 1 .. closing - 1 PROVE j \in end + 1 .. n /\ ~(closing <= j)
      BY <1>1, <1>4, <1>7, <1>9
    <2> QED BY <1>7, <1>8, <1>9, <2>1, <2>2
  <1>10. /\ q.ok <=> /\ ~(i > 1 /\ s[i - 1].char \in isIdentByte \cup Directive)
                     /\ end <= n /\ s[end].char = "$"
                     /\ s[i + 1].char \notin isDigit
         /\ q.tag = len
         /\ q.hi = IF closing > n THEN closing ELSE closing + len
    <2> HIDE DEF q, closing, end, len, n
    <2> QED BY <1>3
  <1>11. end \in i + 1 .. n + 1 /\ (end <= n => closing \in end + 1 .. n + 1)
    <2> HIDE DEF closing, end, n
    <2> QED BY <1>1, <1>4, <1>7
  <1> HIDE DEF closing, end, O
  <1>12. DollarScanned(s, i, end, closing)
    BY <1>5, <1>6, <1>9, <1>10, <1>11 DEF DollarScanned
  <1> QED BY <1>12

\* The characters of the text from lo to hi.
Cut(s, lo, hi) == [x \in 1 .. hi + 1 - lo |-> s[lo + x - 1].char]

\* u has the l characters from lo on.
IsCut(u, s, lo, l) ==
    /\ u \in Seq({s[k].char : k \in lo .. lo + l - 1})
    /\ Len(u) = l
    /\ \A x \in 1 .. l : u[x] = s[lo + x - 1].char

LEMMA CutIs ==
  ASSUME NEW s, NEW lo \in Nat, NEW hi \in Nat, NEW l \in Nat, hi = lo + l - 1
  PROVE  IsCut(Cut(s, lo, hi), s, lo, l)
PROOF
  <1>1. Cut(s, lo, hi) = [x \in 1 .. l |-> s[lo + x - 1].char]
    BY DEF Cut
  <1>3. Cut(s, lo, hi) \in [1 .. l -> {s[k].char : k \in lo .. lo + l - 1}]
    BY <1>1
  <1>4. Cut(s, lo, hi) \in Seq({s[k].char : k \in lo .. lo + l - 1}) /\ Len(Cut(s, lo, hi)) = l
    BY <1>3
  <1> QED BY <1>1, <1>4 DEF IsCut

LEMMA SameSequence ==
  ASSUME NEW A, NEW B, NEW u \in Seq(A), NEW v \in Seq(B), Len(u) = Len(v),
         \A x \in 1 .. Len(u) : u[x] = v[x]
  PROVE  u = v
PROOF
  OBVIOUS

LEMMA CutGrows ==
  ASSUME NEW s, NEW lo \in Nat, NEW hi \in Nat, lo <= hi + 1
  PROVE  Append(Cut(s, lo, hi), s[hi + 1].char) = Cut(s, lo, hi + 1)
PROOF
  <1> DEFINE u == Cut(s, lo, hi)
             h == hi + 1
             v == Cut(s, lo, h)
             c == s[hi + 1].char
             l == hi + 1 - lo
             A == {s[k].char : k \in lo .. lo + l - 1}
             B == {s[k].char : k \in lo .. lo + (l + 1) - 1}
  <1>0. l \in Nat /\ l + 1 \in Nat /\ h \in Nat /\ hi = lo + l - 1 /\ h = lo + (l + 1) - 1
    OBVIOUS
  <1>1. /\ u \in Seq(A) /\ Len(u) = l
        /\ \A x \in 1 .. l : u[x] = s[lo + x - 1].char
    <2> HIDE DEF l, h
    <2>1. IsCut(u, s, lo, l)
      BY <1>0, CutIs
    <2> QED BY <2>1 DEF IsCut
  <1>2. /\ v \in Seq(B) /\ Len(v) = l + 1
        /\ \A x \in 1 .. l + 1 : v[x] = s[lo + x - 1].char
    <2> HIDE DEF l, h
    <2>1. IsCut(v, s, lo, l + 1)
      BY <1>0, CutIs
    <2> QED BY <2>1 DEF IsCut
  <1>3. lo + (l + 1) - 1 = hi + 1 /\ l \in Nat
    OBVIOUS
  <1> HIDE DEF u, v, A, B, l
  <1>5. /\ Append(u, c) \in Seq(A \cup {c}) /\ Len(Append(u, c)) = l + 1
        /\ \A x \in 1 .. l : Append(u, c)[x] = u[x]
        /\ Append(u, c)[l + 1] = c
    BY <1>1, <1>3
  <1>7. \A x \in 1 .. l + 1 : Append(u, c)[x] = v[x]
    <2> SUFFICES ASSUME NEW x \in 1 .. l + 1 PROVE Append(u, c)[x] = v[x]
      OBVIOUS
    <2>1. CASE x = l + 1
      BY <1>2, <1>3, <1>5, <2>1
    <2>2. CASE x # l + 1
      <3>1. x \in 1 .. l
        BY <1>3, <2>2
      <3> QED BY <1>1, <1>2, <1>5, <3>1
    <2> QED BY <2>1, <2>2
  <1>8. Append(u, c) = v
    BY <1>2, <1>5, <1>7, SameSequence
  <1> QED BY <1>8 DEF u, v

LEMMA PrefixIs ==
  ASSUME NEW A, NEW u \in Seq(A), NEW v \in Seq(A)
  PROVE  IsPrefix(u, v) <=> Len(u) <= Len(v) /\ \A x \in 1 .. Len(u) : u[x] = v[x]
PROOF
  <1> DEFINE a == SubSeq(u, 1, Len(u))
             b == SubSeq(v, 1, Len(u))
  <1>1. Len(u) \in Nat /\ Len(v) \in Nat
    OBVIOUS
  <1>2. a \in Seq(A) /\ Len(a) = Len(u) /\ \A x \in 1 .. Len(u) : a[x] = u[x]
    OBVIOUS
  <1>3. Len(u) <= Len(v) => b \in Seq(A) /\ Len(b) = Len(u) /\ \A x \in 1 .. Len(u) : b[x] = v[x]
    OBVIOUS
  <1> HIDE DEF a, b
  <1>5. ASSUME Len(u) <= Len(v) PROVE a = b <=> \A x \in 1 .. Len(u) : u[x] = v[x]
    <2>2. ASSUME \A x \in 1 .. Len(u) : u[x] = v[x] PROVE a = b
      BY <1>2, <1>3, <1>5, <2>2, SameSequence
    <2> QED BY <1>2, <1>3, <1>5, <2>2
  <1> QED BY <1>5 DEF IsPrefix

LEMMA CutSame ==
  ASSUME NEW s, NEW i \in Nat, NEW L \in Nat, NEW dl \in Nat,
         NEW u, NEW v, IsCut(u, s, i, L), IsCut(v, s, i, dl)
  PROVE  u = v <=> L = dl
PROOF
  <1>1. Len(u) = L /\ Len(v) = dl
    BY DEF IsCut
  <1>2. ASSUME L = dl PROVE u = v
    <2>1. /\ u \in Seq({s[k].char : k \in i .. i + L - 1})
          /\ \A x \in 1 .. L : u[x] = s[i + x - 1].char
      BY DEF IsCut
    <2>2. /\ v \in Seq({s[k].char : k \in i .. i + dl - 1})
          /\ \A x \in 1 .. dl : v[x] = s[i + x - 1].char
      BY DEF IsCut
    <2>3. \A x \in 1 .. Len(u) : u[x] = v[x]
      BY <1>1, <1>2, <2>1, <2>2
    <2> QED BY <1>1, <1>2, <2>1, <2>2, <2>3, SameSequence
  <1> QED BY <1>1, <1>2

\* The beginning of a text's piece against more of it.
LEMMA CutPrefix ==
  ASSUME NEW s, NEW i \in Nat, NEW L \in Nat, NEW dl \in Nat, i >= 1, L <= dl, NEW c,
         NEW z, z = s[i + L].char, NEW u, NEW v, IsCut(u, s, i, L), IsCut(v, s, i, dl)
  PROVE  /\ IsPrefix(Append(u, c), v) => L < dl
         /\ IsPrefix(Append(u, c), v) => c = z
         /\ L < dl /\ c = z => IsPrefix(Append(u, c), v)
PROOF
  <1> DEFINE A == {s[k].char : k \in i .. i + L - 1}
             B == {s[k].char : k \in i .. i + dl - 1}
             X == A \cup B \cup {c}
             w == Append(u, c)
  <1>1. /\ u \in Seq(X) /\ Len(u) = L
        /\ \A x \in 1 .. L : u[x] = s[i + x - 1].char
    <2>1. A \subseteq X
      OBVIOUS
    <2>2. u \in Seq(A) /\ Len(u) = L /\ \A x \in 1 .. L : u[x] = s[i + x - 1].char
      BY DEF IsCut
    <2> HIDE DEF A, X
    <2> QED BY <2>1, <2>2
  <1>2. /\ v \in Seq(X) /\ Len(v) = dl
        /\ \A x \in 1 .. dl : v[x] = s[i + x - 1].char
    <2>1. B \subseteq X
      OBVIOUS
    <2>2. v \in Seq(B) /\ Len(v) = dl /\ \A x \in 1 .. dl : v[x] = s[i + x - 1].char
      BY DEF IsCut
    <2> HIDE DEF B, X
    <2> QED BY <2>1, <2>2
  <1>3. c \in X
    OBVIOUS
  <1> HIDE DEF X, A, B
  <1>4. /\ w \in Seq(X) /\ Len(w) = L + 1
        /\ \A x \in 1 .. L : w[x] = u[x]
        /\ w[L + 1] = c
    BY <1>1, <1>3
  <1> HIDE DEF w
  <1>6. IsPrefix(w, v) <=> L + 1 <= dl /\ \A x \in 1 .. L + 1 : w[x] = v[x]
    <2>0. w \in Seq(X) /\ v \in Seq(X)
      BY <1>2, <1>4
    <2>1. IsPrefix(w, v) <=> Len(w) <= Len(v) /\ \A x \in 1 .. Len(w) : w[x] = v[x]
      BY <2>0, PrefixIs
    <2> QED BY <1>2, <1>4, <2>1
  <1>7. ASSUME L < dl PROVE (\A x \in 1 .. L + 1 : w[x] = v[x]) <=> c = s[i + L].char
    <2>1. \A x \in 1 .. L : w[x] = v[x]
      <3> SUFFICES ASSUME NEW x \in 1 .. L PROVE w[x] = v[x]
        OBVIOUS
      <3>1. x \in 1 .. dl
        BY <1>7
      <3> QED BY <1>1, <1>2, <1>4, <3>1
    <2>2. v[L + 1] = s[i + L].char
      BY <1>2, <1>7
    <2>4. L + 1 \in 1 .. L + 1
      OBVIOUS
    <2> QED BY <1>4, <2>1, <2>2, <2>4
  <1>8. L + 1 <= dl <=> L < dl
    OBVIOUS
  <1> QED BY <1>6, <1>7, <1>8 DEF w

\* R in a dollar-quoted string that began at i, its tag up to end, when L bytes
\* of the delimiter have been matched.
Waits(s, i, end, L) == InTag("dollar", Cut(s, i + 1, end - 1), Cut(s, i, i + L - 1))

LEMMA DollarStep ==
  ASSUME NEW R \in Reader, NEW s, NEW i \in Nat, i >= 1, NEW end \in Nat, i < end,
         s[i].char = "$", NEW L \in Nat, L <= end - i, NEW c, NEW prev
  PROVE  Steps(R, Waits(s, i, end, L), c, prev) =
           IF c = "$" /\ L = end - i THEN Plain
           ELSE IF L < end - i /\ c = s[i + L].char THEN Waits(s, i, end, L + 1)
           ELSE IF c = "$" THEN Waits(s, i, end, 1) ELSE Waits(s, i, end, 0)
PROOF
  <1> DEFINE dl == end - i
             t == Cut(s, i + 1, end - 1)
             D == Cut(s, i, end - 1)
             u == Cut(s, i, i + L - 1)
  <1>1. dl \in Nat /\ dl - 1 \in Nat /\ end - 1 = i + dl - 1 /\ end - 1 = (i + 1) + (dl - 1) - 1 /\ end - 1 \in Nat
        /\ i + L - 1 \in Nat /\ L <= dl
    OBVIOUS
  <1>2. IsCut(u, s, i, L)
    BY <1>1, CutIs
  <1>3. IsCut(D, s, i, dl)
    <2> HIDE DEF dl
    <2> QED BY <1>1, CutIs
  <1>4. IsCut(t, s, i + 1, dl - 1)
    <2> HIDE DEF dl
    <2> QED BY <1>1, CutIs
  <1>5. <<"$">> \o t = D
    <2> DEFINE T == {s[k].char : k \in i + 1 .. (i + 1) + (dl - 1) - 1}
               A == {s[k].char : k \in i .. i + dl - 1}
               y == <<"$">> \o t
    <2>1. t \in Seq(T) /\ Len(t) = dl - 1 /\ \A x \in 1 .. dl - 1 : t[x] = s[(i + 1) + x - 1].char
      BY <1>4 DEF IsCut
    <2>2. D \in Seq(A) /\ Len(D) = dl /\ \A x \in 1 .. dl : D[x] = s[i + x - 1].char
      BY <1>3 DEF IsCut
    <2> HIDE DEF T, A, t, D
    <2>4. y \in Seq(T \cup {"$"}) /\ Len(y) = Len(t) + 1 /\ y[1] = "$"
          /\ \A m \in 1 .. Len(t) : y[m + 1] = t[m]
      <3>1. "$" \in T \cup {"$"}
        OBVIOUS
      <3> HIDE DEF T
      <3> QED BY <2>1, <3>1, Prepended
    <2>5. ASSUME NEW x \in 1 .. dl PROVE y[x] = D[x]
      <3>1. CASE x = 1
        BY <1>1, <2>2, <2>4, <3>1
      <3>2. CASE x # 1
        <4>1. x - 1 \in 1 .. dl - 1 /\ (x - 1) + 1 = x /\ (i + 1) + (x - 1) - 1 = i + x - 1
          BY <1>1, <3>2
        <4>3. t[x - 1] = s[i + x - 1].char
          BY <2>1, <4>1
        <4> QED BY <2>1, <2>2, <2>4, <4>1, <4>3
      <3> QED BY <3>1, <3>2
    <2> HIDE DEF y, dl
    <2>7. y = D
      BY <1>1, <2>1, <2>2, <2>4, <2>5, SameSequence
    <2> QED BY <2>7 DEF y
  <1>6. /\ u = D <=> L = dl
        /\ IsPrefix(Append(u, c), D) <=> L < dl /\ c = s[i + L].char
    <2> HIDE DEF dl, u, D
    <2> DEFINE z == s[i + L].char
    <2>0. z = s[i + L].char
      OBVIOUS
    <2> HIDE DEF z
    <2>2. IsPrefix(Append(u, c), D) => L < dl
      BY <2>0, <1>1, <1>2, <1>3, CutPrefix
    <2>4. IsPrefix(Append(u, c), D) => c = z
      BY <2>0, <1>1, <1>2, <1>3, CutPrefix
    <2>3. L < dl /\ c = z => IsPrefix(Append(u, c), D)
      BY <2>0, <1>1, <1>2, <1>3, CutPrefix
    <2> QED BY <1>1, <1>2, <1>3, <2>0, <2>2, <2>3, <2>4, CutSame
  <1>7. c = s[i + L].char => Append(u, c) = Cut(s, i, i + (L + 1) - 1)
    <2>1. (i + L - 1) + 1 = i + L /\ i + (L + 1) - 1 = i + L /\ i <= (i + L - 1) + 1
      OBVIOUS
    <2>2. Append(Cut(s, i, i + L - 1), s[(i + L - 1) + 1].char) = Cut(s, i, (i + L - 1) + 1)
      BY <1>1, <2>1, CutGrows
    <2> QED BY <2>1, <2>2
  <1>8. <<"$">> = Cut(s, i, i + 1 - 1)
    <2> DEFINE y == Cut(s, i, i)
    <2>1. i = i + 1 - 1
      OBVIOUS
    <2>2. IsCut(y, s, i, 1)
      BY <2>1, CutIs
    <2> HIDE DEF y
    <2>3. Len(y) = 1 /\ y[1] = s[i].char /\ y \in Seq({s[k].char : k \in i .. i + 1 - 1})
      BY <2>2 DEF IsCut
    <2> QED BY <2>1, <2>3 DEF y
  <1>9. << >> = Cut(s, i, i + 0 - 1)
    <2> DEFINE y == Cut(s, i, i - 1)
    <2>1. i - 1 = i + 0 - 1 /\ i - 1 \in Nat
      OBVIOUS
    <2>2. IsCut(y, s, i, 0)
      BY <2>1, CutIs
    <2> HIDE DEF y
    <2>3. Len(y) = 0 /\ y \in Seq({s[k].char : k \in i .. i + 0 - 1})
      BY <2>2 DEF IsCut
    <2> QED BY <2>1, <2>3 DEF y
  <1>10. Steps(R, InTag("dollar", t, u), c, prev) =
           IF c = "$" /\ u = <<"$">> \o t THEN Plain
           ELSE IF IsPrefix(Append(u, c), <<"$">> \o t) THEN InTag("dollar", t, Append(u, c))
           ELSE InTag("dollar", t, IF c = "$" THEN <<"$">> ELSE << >>)
    <2> HIDE DEF t, u
    <2> QED BY ReadsDollar
  <1>11. Steps(R, InTag("dollar", t, u), c, prev) =
           IF c = "$" /\ L = dl THEN Plain
           ELSE IF L < dl /\ c = s[i + L].char THEN InTag("dollar", t, Append(u, c))
           ELSE IF c = "$" THEN InTag("dollar", t, <<"$">>) ELSE InTag("dollar", t, << >>)
    <2> HIDE DEF t, u, D, dl
    <2> QED BY <1>5, <1>6, <1>10
  <1>12. Steps(R, Waits(s, i, end, L), c, prev) =
           IF c = "$" /\ L = dl THEN Plain
           ELSE IF L < dl /\ c = s[i + L].char THEN Waits(s, i, end, L + 1)
           ELSE IF c = "$" THEN Waits(s, i, end, 1) ELSE Waits(s, i, end, 0)
    <2>1. c = s[i + L].char => InTag("dollar", t, Append(u, c)) = Waits(s, i, end, L + 1)
      BY <1>7 DEF Waits
    <2>2. InTag("dollar", t, <<"$">>) = Waits(s, i, end, 1)
      BY <1>8 DEF Waits
    <2>3. InTag("dollar", t, << >>) = Waits(s, i, end, 0)
      BY <1>9 DEF Waits
    <2>4. InTag("dollar", t, u) = Waits(s, i, end, L)
      BY DEF Waits
    <2> HIDE DEF t, u, D, dl
    <2> QED BY <1>11, <2>1, <2>2, <2>3, <2>4
  <1> QED BY <1>12

LEMMA TagEmpty == In("tag") = InTag("tag", << >>, << >>)
PROOF
  BY DEF In, InRun, InTag

LEMMA CutEmpty ==
  ASSUME NEW s, NEW i \in Nat
  PROVE  Cut(s, i + 1, i) = << >>
PROOF
  <1> DEFINE y == Cut(s, i + 1, i)
  <1>2. IsCut(y, s, i + 1, 0)
    BY CutIs
  <1> HIDE DEF y
  <1>4. y = << >>
    BY <1>2 DEF IsCut
  <1> QED BY <1>4 DEF y

\* While the tag may go on R collects it.
LEMMA TagFollows ==
  ASSUME NEW R \in Reader, NEW C, NEW s \in Seq(C), NEW ms, Run(R, s, ms),
         NEW i \in 1 .. Len(s), ms[i] = In("tag"), NEW end \in i + 1 .. Len(s) + 1,
         \A k \in i + 1 .. end - 1 : s[k].char \in isIdentByte,
         i + 1 <= Len(s) => s[i + 1].char \notin isDigit
  PROVE  \A k \in i .. end - 1 : ms[k] = InTag("tag", Cut(s, i + 1, k), << >>)
PROOF
  <1> DEFINE n == Len(s)
             T == {d \in Nat : i + d < end => ms[i + d] = InTag("tag", Cut(s, i + 1, i + d), << >>)}
  <1>1. n \in Nat /\ i \in Nat /\ i >= 1 /\ i <= n /\ end \in Nat /\ end <= n + 1
    OBVIOUS
  <1>2. ASSUME NEW k \in i + 1 .. n
        PROVE  k \in Nat /\ k - 1 \in Nat /\ ms[k] = Steps(R, ms[k - 1], s[k].char, Prev(s, k))
    BY <1>1 DEF Run
  <1>3. 0 \in T
    <2>2. ms[i] = InTag("tag", Cut(s, i + 1, i), << >>)
      BY <1>1, CutEmpty, TagEmpty
    <2> QED BY <2>2
  <1>4. ASSUME NEW d \in Nat, d \in T PROVE d + 1 \in T
    <2> SUFFICES ASSUME i + (d + 1) < end
                 PROVE  ms[i + (d + 1)] = InTag("tag", Cut(s, i + 1, i + (d + 1)), << >>)
      OBVIOUS
    <2> DEFINE k == i + (d + 1)
               h == i + d
               c == s[k].char
               t == Cut(s, i + 1, h)
    <2>1. /\ k \in i + 1 .. n /\ k - 1 = h /\ k \in i + 1 .. end - 1 /\ h < end /\ h \in Nat
          /\ h + 1 = k /\ i + 1 \in Nat /\ i + 1 <= h + 1
      BY <1>1
    <2>2. ms[h] = InTag("tag", t, << >>)
      BY <1>4, <2>1
    <2>3. t = << >> => h = i
      <3> DEFINE l == h - i
      <3>1. l \in Nat /\ h = (i + 1) + l - 1
        BY <1>1
      <3> HIDE DEF l, h
      <3>2. IsCut(t, s, i + 1, l)
        BY <2>1, <3>1, CutIs
      <3> HIDE DEF t
      <3>4. t = << >> => l = 0
        BY <3>2 DEF IsCut
      <3> QED BY <1>1, <2>1, <3>4 DEF l
    <2> HIDE DEF k, h, T
    <2>4. c \in isIdentByte
      BY <2>1
    <2>5. t = << >> => c \notin isDigit
      BY <1>1, <2>1, <2>3
    <2>6. ms[k] = Steps(R, ms[h], c, Prev(s, k))
      BY <1>2, <2>1
    <2>7. Append(t, c) = Cut(s, i + 1, k)
      BY <2>1, CutGrows, ZenonT(30)
    <2> HIDE DEF t, c
    <2>8. ms[k] = InTag("tag", Append(t, c), << >>)
      BY <2>2, <2>4, <2>5, <2>6, ReadsTag
    <2> QED BY <2>7, <2>8 DEF k
  <1> HIDE DEF T
  <1> SUFFICES ASSUME NEW k \in i .. end - 1 PROVE ms[k] = InTag("tag", Cut(s, i + 1, k), << >>)
    OBVIOUS
  <1>6. k - i \in Nat /\ i + (k - i) = k /\ k < end
    BY <1>1
  <1> QED BY <1>3, <1>4, <1>6, Induct DEF T

\* A "$" that opens no string: R goes on as if it had not been there.
LEMMA DollarFails ==
  ASSUME NEW R \in Reader, NEW C, NEW s \in Seq(C), NEW ms, Run(R, s, ms),
         NEW i \in 1 .. Len(s), s[i].char = "$", ms[i] = In("tag"),
         Prev(s, i) \notin isIdentByte \cup Directive, ~scanDollarQuoted(s, i).ok
  PROVE  Boundary(R, s, ms, i + 1)
PROOF
  <1> DEFINE n == Len(s)
             c == s[i + 1].char
  <1> SUFFICES ASSUME i + 1 <= n
               PROVE  ms[i + 1] = Begins(R, c, Prev(s, i + 1)) \/ Dead(s, ms, i + 1)
    BY DEF Boundary
  <1>1. n \in Nat /\ i \in Nat /\ i >= 1 /\ i + 1 \in 1 .. n /\ (i + 1) - 1 = i
    OBVIOUS
  <1>3. PICK end, closing : DollarScanned(s, i, end, closing)
    BY DollarIs
  <1>4. ~(i > 1 /\ s[i - 1].char \in isIdentByte \cup Directive)
    BY <1>1 DEF Prev
  <1>5. /\ end \in i + 1 .. n + 1
        /\ \A k \in i + 1 .. end - 1 : s[k].char \in isIdentByte
        /\ end <= n => s[end].char \notin isIdentByte
        /\ ~(end <= n /\ s[end].char = "$" /\ c \notin isDigit)
    BY <1>3, <1>4 DEF DollarScanned
  <1>6. "$" \notin isIdentByte /\ isDigit \subseteq isIdentByte
    BY DEF isIdentByte, isDigit, Letter
  <1>7. ms[i + 1] = IF c \in isIdentByte /\ c \notin isDigit THEN InTag("tag", Append(<< >>, c), << >>)
                    ELSE IF c = "$" THEN InTag("dollar", << >>, << >>)
                    ELSE Begins(R, c, Prev(s, i + 1))
    <2> DEFINE p == Prev(s, i + 1)
               t == << >>
    <2>1. ms[i + 1] = Steps(R, InTag("tag", t, << >>), c, p)
      BY <1>1, TagEmpty DEF Run
    <2>2. t = << >>
      OBVIOUS
    <2> HIDE DEF c, p, t
    <2>3. Steps(R, InTag("tag", t, << >>), c, p) =
            IF c \in isIdentByte /\ (t = << >> => c \notin isDigit)
            THEN InTag("tag", Append(t, c), << >>)
            ELSE IF c = "$" THEN InTag("dollar", t, << >>)
            ELSE Begins(R, c, p)
      BY ReadsTag
    <2> QED BY <2>1, <2>2, <2>3 DEF p
  <1> HIDE DEF c, n
  <1>8. CASE c \notin isIdentByte \/ c \in isDigit
    <2>1. c # "$"
      <3> SUFFICES ASSUME c = "$" PROVE FALSE
        OBVIOUS
      <3>1. c \notin isIdentByte /\ c \notin isDigit
        BY <1>6
      <3>2. end = i + 1
        BY <1>1, <1>5, <3>1 DEF c
      <3> QED BY <1>1, <1>5, <3>1, <3>2 DEF c
    <2> QED BY <1>6, <1>7, <1>8, <2>1
  <1>9. CASE c \in isIdentByte /\ c \notin isDigit
    <2>1. ms[i + 1] = InTag("tag", Append(<< >>, c), << >>) /\ Append(<< >>, c) # << >>
      BY <1>7, <1>9
    <2>2. ASSUME NEW e \in (i + 1) + 1 .. n, s[e].char = "$",
                 \A k \in (i + 1) + 1 .. e - 1 : s[k].char \in isIdentByte
          PROVE  FALSE
      <3>1. s[e].char \notin isIdentByte /\ e \in Nat
        BY <1>6, <2>2
      <3>2. ~(e < end)
        BY <1>1, <1>5, <3>1
      <3>3. ~(end < e)
        <4> SUFFICES ASSUME end < e PROVE FALSE
          OBVIOUS
        <4>1. end <= n /\ (end = i + 1 \/ end \in (i + 1) + 1 .. e - 1)
          BY <1>1, <1>5, <3>1
        <4> QED BY <1>5, <1>9, <2>2, <4>1 DEF c
      <3> QED BY <1>1, <1>5, <1>9, <2>2, <3>2, <3>3
    <2>3. Dead(s, ms, i + 1)
      <3>2. s[i + 1].char \in isIdentByte
        BY <1>9 DEF c
      <3>3. \A e \in (i + 1) + 1 .. Len(s) :
              s[e].char = "$" => \E k \in (i + 1) + 1 .. e - 1 : s[k].char \notin isIdentByte
        BY <2>2 DEF n
      <3> QED BY <2>1, <3>2, <3>3 DEF Dead
    <2> QED BY <2>3
  <1> QED BY <1>8, <1>9

\* R waits for the closing delimiter of the string that began at i, and has
\* matched the last bytes up to k with as much of it as it can.
Waiting(s, ms, i, end, k) ==
    \E L \in 0 .. end - i : /\ end <= k - L
                            /\ ms[k] = Waits(s, i, end, L)
                            /\ Same(s, i, k - L + 1, L)

\* A dollar-quoted string that R reads ends for the scanner where it ends for R.
LEMMA DollarFollows ==
  ASSUME NEW R \in Reader, NEW C, NEW s \in Seq(C), NEW ms, Run(R, s, ms),
         NEW i \in 1 .. Len(s), s[i].char = "$", ms[i] = In("tag"),
         scanDollarQuoted(s, i).ok
  PROVE  LET h == scanDollarQuoted(s, i).hi
         IN  /\ h \in Nat /\ i < h /\ h <= Len(s) + 1
             /\ Boundary(R, s, ms, h)
             /\ \A k \in i .. h - 1 : InLiteral(s, ms, k)
PROOF
  <1> DEFINE n == Len(s)
             h == scanDollarQuoted(s, i).hi
  <1>1. n \in Nat /\ i \in Nat /\ i >= 1 /\ i <= n
    OBVIOUS
  <1>2. PICK end, cl : DollarScanned(s, i, end, cl)
    BY DollarIs
  <1> DEFINE dl == end - i
             len == end + 1 - i
  <1>3. /\ end \in i + 1 .. n /\ s[end].char = "$" /\ s[i + 1].char \notin isDigit
        /\ \A k \in i + 1 .. end - 1 : s[k].char \in isIdentByte
        /\ cl \in end + 1 .. n + 1
        /\ cl <= n => Occurs(s, i, len, cl)
        /\ \A j \in end + 1 .. cl - 1 : ~Occurs(s, i, len, j)
        /\ h = IF cl > n THEN cl ELSE cl + len
    BY <1>1, <1>2 DEF DollarScanned
  <1>3a. h = IF cl > n THEN cl ELSE cl + len
    BY <1>3
  <1>3b. end \in i + 1 .. n /\ cl \in end + 1 .. n + 1
    BY <1>3
  <1> HIDE DEF h, n
  <1>4. /\ end \in Nat /\ i < end /\ end <= n /\ cl \in Nat /\ end < cl /\ cl <= n + 1
        /\ dl \in Nat /\ dl >= 1 /\ len = dl + 1 /\ i + dl = end
    <2>1. end \in Nat /\ i < end /\ end <= n /\ cl \in Nat /\ end < cl /\ cl <= n + 1
      BY <1>1, <1>3b
    <2>2. dl \in Nat /\ dl >= 1 /\ i + dl = end
      BY <1>1, <2>1
    <2>3. len = dl + 1
      BY <1>1, <2>1
    <2> HIDE DEF dl, len
    <2> QED BY <2>1, <2>2, <2>3
  <1>5. ASSUME NEW k \in i + 1 .. n
        PROVE  k \in Nat /\ k - 1 \in Nat /\ ms[k] = Steps(R, ms[k - 1], s[k].char, Prev(s, k))
    BY <1>1 DEF Run, n
  <1>6. "$" \notin isIdentByte
    BY DEF isIdentByte, isDigit, Letter
  <1>7. \A k \in i .. end - 1 : ms[k] = InTag("tag", Cut(s, i + 1, k), << >>)
    <2>1. end \in i + 1 .. n + 1
      BY <1>1, <1>4, SMTT(30)
    <2>2. i + 1 <= n => s[i + 1].char \notin isDigit
      BY <1>3
    <2>3. \A k \in i + 1 .. end - 1 : s[k].char \in isIdentByte
      BY <1>3
    <2> QED BY <2>1, <2>2, <2>3, TagFollows DEF n
  <1> HIDE DEF dl, len
  <1>8. ms[end] = Waits(s, i, end, 0)
    <2>1. end \in i + 1 .. n /\ end - 1 \in i .. end - 1
      BY <1>1, <1>4
    <2> DEFINE t == Cut(s, i + 1, end - 1)
               p == Prev(s, end)
    <2>2. ms[end] = Steps(R, InTag("tag", t, << >>), "$", p)
      BY <1>3, <1>5, <1>7, <2>1
    <2> HIDE DEF t, p
    <2>4. Cut(s, i, i + 0 - 1) = << >>
      <3> DEFINE a == i - 1
      <3>1. a \in Nat /\ a + 1 = i /\ i + 0 - 1 = a
        BY <1>1
      <3> HIDE DEF a
      <3> QED BY <3>1, CutEmpty
    <2> QED BY <1>6, <2>2, <2>4, ReadsTag DEF Waits, t
  <1>9. ASSUME NEW L \in 0 .. dl, NEW k \in i + 1 .. n, ms[k - 1] = Waits(s, i, end, L)
        PROVE  LET c == s[k].char
               IN  ms[k] = IF c = "$" /\ L = dl THEN Plain
                           ELSE IF L < dl /\ c = s[i + L].char THEN Waits(s, i, end, L + 1)
                           ELSE IF c = "$" THEN Waits(s, i, end, 1) ELSE Waits(s, i, end, 0)
    <2> DEFINE c == s[k].char
               p == Prev(s, k)
    <2>1. ms[k] = Steps(R, Waits(s, i, end, L), c, p)
      BY <1>5, <1>9
    <2>2. L \in Nat /\ L <= end - i
      BY <1>4 DEF dl
    <2> HIDE DEF c, p
    <2>3. Steps(R, Waits(s, i, end, L), c, p) =
           IF c = "$" /\ L = end - i THEN Plain
           ELSE IF L < end - i /\ c = s[i + L].char THEN Waits(s, i, end, L + 1)
           ELSE IF c = "$" THEN Waits(s, i, end, 1) ELSE Waits(s, i, end, 0)
      BY <1>1, <1>3, <1>4, <2>2, DollarStep
    <2> QED BY <2>1, <2>3 DEF c, dl
  \* Where R would be through with the string the scanner would have stopped.
  <1>10. ASSUME NEW L \in 0 .. dl, NEW k \in end .. n, k + 1 <= n, k + 1 < cl + dl,
                end <= k - L, Same(s, i, k - L + 1, L), s[k + 1].char = "$", L = dl
         PROVE  FALSE
    <2> DEFINE j == k - L + 1
    <2>1. j \in end + 1 .. cl - 1 /\ j + len - 1 = k + 1 /\ j + dl = k + 1 /\ len - 1 = dl
      <3>1. k \in Nat /\ k + 1 < cl + dl /\ end <= k - dl /\ j = k - dl + 1
        BY <1>1, <1>4, <1>10
      <3> HIDE DEF j
      <3>2. j \in Nat /\ j + dl = k + 1
        BY <1>4, <3>1
      <3>3. j >= end + 1 /\ j <= cl - 1
        BY <1>4, <3>1
      <3>4. j + len - 1 = j + dl /\ len - 1 = dl
        BY <1>4, <3>2
      <3> QED BY <1>4, <3>2, <3>3, <3>4
    <2>2. Same(s, i, j, len)
      <3> SUFFICES ASSUME NEW x \in 0 .. len - 1 PROVE s[j + x].char = s[i + x].char
        BY DEF Same
      <3>2. CASE x = dl
        BY <1>3, <1>4, <1>10, <2>1, <3>2
      <3>3. CASE x \in 0 .. L - 1
        BY <1>10, <3>3 DEF Same
      <3> QED BY <1>4, <1>10, <2>1, <3>2, <3>3
    <2> QED BY <1>3, <1>10, <2>1, <2>2 DEF Occurs, n
  <1> DEFINE J(k) == Waiting(s, ms, i, end, k)
             T == {d \in Nat : end + d <= n /\ end + d < cl + dl => J(end + d)}
  <1>11. 0 \in T
    <2>1. end + 0 = end /\ 0 \in 0 .. end - i /\ end <= end - 0
      BY <1>1, <1>4
    <2>2. Same(s, i, end - 0 + 1, 0)
      BY <1>4 DEF Same
    <2>3. J(end)
      BY <1>8, <2>1, <2>2 DEF Waiting
    <2> QED BY <2>1, <2>3
  <1>12. ASSUME NEW d \in Nat, d \in T PROVE d + 1 \in T
    <2> SUFFICES ASSUME end + (d + 1) <= n, end + (d + 1) < cl + dl PROVE J(end + (d + 1))
      OBVIOUS
    <2> DEFINE k == end + d
               c == s[k + 1].char
    <2>1. /\ k \in end .. n /\ k + 1 <= n /\ k + 1 < cl + dl /\ k <= n /\ k < cl + dl
          /\ k + 1 \in i + 1 .. n /\ (k + 1) - 1 = k /\ end + (d + 1) = k + 1 /\ k \in Nat
      BY <1>1, <1>4
    <2>2. J(k)
      BY <1>12, <2>1
    <2> HIDE DEF k, T
    <2>3. PICK L \in 0 .. dl : end <= k - L /\ ms[k] = Waits(s, i, end, L) /\ Same(s, i, k - L + 1, L)
      BY <2>2 DEF Waiting, dl
    <2>4. ~(c = "$" /\ L = dl)
      BY <1>10, <2>1, <2>3
    <2>5. ms[k + 1] = IF c = "$" /\ L = dl THEN Plain
                      ELSE IF L < dl /\ c = s[i + L].char THEN Waits(s, i, end, L + 1)
                      ELSE IF c = "$" THEN Waits(s, i, end, 1) ELSE Waits(s, i, end, 0)
      BY <1>9, <2>1, <2>3
    <2>6. L \in Nat /\ L <= dl
      BY <1>4
    <2>7. ASSUME NEW M \in 0 .. dl, end <= (k + 1) - M, ms[k + 1] = Waits(s, i, end, M),
                 Same(s, i, (k + 1) - M + 1, M)
          PROVE  J(k + 1)
      BY <2>7 DEF Waiting, dl
    <2> HIDE DEF J
    <2> SUFFICES J(k + 1)
      BY <2>1
    <2>8. CASE L < dl /\ c = s[i + L].char
      <3>1. L + 1 \in 0 .. dl /\ end <= (k + 1) - (L + 1) /\ (k + 1) - (L + 1) + 1 = k - L + 1
            /\ (k - L + 1) + L = k + 1
        BY <1>4, <2>1, <2>3, <2>6, <2>8
      <3>3. Same(s, i, k - L + 1, L + 1)
        <4> SUFFICES ASSUME NEW x \in 0 .. (L + 1) - 1 PROVE s[k - L + 1 + x].char = s[i + x].char
          BY DEF Same
        <4>2. CASE x = L
          BY <2>8, <3>1, <4>2
        <4>3. CASE x \in 0 .. L - 1
          BY <2>3, <4>3 DEF Same
        <4> QED BY <2>6, <4>2, <4>3
      <3> QED BY <2>4, <2>5, <2>7, <2>8, <3>1, <3>3
    <2>9. CASE ~(L < dl /\ c = s[i + L].char) /\ c = "$"
      <3>2. ms[k + 1] = Waits(s, i, end, 1)
        BY <2>4, <2>5, <2>9
      <3>3. Same(s, i, k + 1, 1)
        <4> SUFFICES ASSUME NEW x \in 0 .. 1 - 1 PROVE s[k + 1 + x].char = s[i + x].char
          BY DEF Same
        <4> QED BY <1>1, <2>1, <2>9
      <3> QED BY <1>4, <2>1, <2>7, <3>2, <3>3
    <2>10. CASE ~(L < dl /\ c = s[i + L].char) /\ c # "$"
      <3>2. ms[k + 1] = Waits(s, i, end, 0)
        BY <2>4, <2>5, <2>10
      <3>3. Same(s, i, (k + 1) - 0 + 1, 0)
        BY DEF Same
      <3> QED BY <1>4, <2>1, <2>7, <3>2, <3>3
    <2> QED BY <2>8, <2>9, <2>10
  <1> HIDE DEF T, J
  <1>14. ASSUME NEW k \in end .. n, k < cl + dl PROVE J(k)
    <2>1. k - end \in Nat /\ end + (k - end) = k /\ k <= n
      BY <1>1, <1>4
    <2> QED BY <1>11, <1>12, <1>14, <2>1, Induct DEF T
  <1>15. ASSUME NEW k \in i .. n, k < cl + dl PROVE InLiteral(s, ms, k)
    <2>1. CASE k < end
      <3>2. ms[k].in = "tag"
        BY <1>1, <1>4, <1>7, <2>1, FieldsOfTag
      <3> QED BY <3>2 DEF InLiteral
    <2>2. CASE k >= end
      <3>2. PICK L \in 0 .. end - i : ms[k] = Waits(s, i, end, L)
        BY <1>1, <1>4, <1>14, <1>15, <2>2 DEF J, Waiting
      <3> QED BY <3>2, FieldsOfTag DEF Waits, InLiteral
    <2> QED BY <1>1, <1>4, <2>1, <2>2
  <1>16. CASE cl > n
    <2>1. h = cl /\ cl = n + 1
      BY <1>1, <1>3a, <1>4, <1>16
    <2>3. ASSUME NEW k \in i .. h - 1 PROVE InLiteral(s, ms, k)
      BY <1>1, <1>4, <1>15, <2>1
    <2>4. h \in Nat /\ i < h /\ h <= n + 1
      BY <1>1, <2>1
    <2> QED BY <1>1, <2>1, <2>3, <2>4 DEF Boundary, n, h
  <1>17. CASE cl <= n
    <2> DEFINE B == {l \in Nat : l < dl => ms[cl + l] = Waits(s, i, end, l + 1)}
    <2>1. /\ h = cl + dl + 1 /\ cl + dl \in i + 1 .. n /\ cl + dl <= n
      <3>2. cl + len - 1 <= n
        BY <1>3, <1>17 DEF Occurs, n
      <3> QED BY <1>1, <1>3a, <1>4, <1>17, <3>2, SMTT(30)
    <2>2. \A x \in 0 .. dl : s[cl + x].char = s[i + x].char
      BY <1>3, <1>4, <1>17 DEF Occurs, Same
    <2>3. 0 \in B
      <3> DEFINE k == cl - 1
      <3>1. /\ k \in end .. n /\ k < cl + dl /\ k + 1 = cl /\ k + 1 <= n /\ k + 1 < cl + dl
            /\ cl \in i + 1 .. n /\ cl - 1 = k /\ cl + 0 = cl /\ i + 0 = i /\ k \in Nat
        BY <1>1, <1>4, <1>17
      <3> HIDE DEF k
      <3>2. PICK L \in 0 .. dl : end <= k - L /\ ms[k] = Waits(s, i, end, L) /\ Same(s, i, k - L + 1, L)
        BY <1>14, <3>1 DEF J, Waiting, dl
      <3>3. s[cl].char = "$"
        <4>1. 0 \in 0 .. dl
          BY <1>4
        <4> QED BY <1>3, <2>2, <3>1, <4>1
      <3>4. L # dl
        BY <1>10, <3>1, <3>2, <3>3
      <3>5. ms[cl] = IF "$" = "$" /\ L = dl THEN Plain
                     ELSE IF L < dl /\ "$" = s[i + L].char THEN Waits(s, i, end, L + 1)
                     ELSE IF "$" = "$" THEN Waits(s, i, end, 1) ELSE Waits(s, i, end, 0)
        BY <1>9, <3>1, <3>2, <3>3
      <3>6. L < dl /\ "$" = s[i + L].char => L = 0
        <4> SUFFICES ASSUME L < dl, "$" = s[i + L].char, L # 0 PROVE FALSE
          OBVIOUS
        <4>1. i + L \in i + 1 .. end - 1
          BY <1>1, <1>4
        <4> QED BY <1>3, <1>6, <4>1
      <3>7. ms[cl] = Waits(s, i, end, 1)
        <4>1. CASE L < dl /\ "$" = s[i + L].char
          BY <3>4, <3>5, <3>6, <4>1
        <4>2. CASE ~(L < dl /\ "$" = s[i + L].char)
          BY <3>4, <3>5, <4>2
        <4> QED BY <4>1, <4>2
      <3> QED BY <3>1, <3>7
    <2>4. ASSUME NEW l \in Nat, l \in B PROVE l + 1 \in B
      <3> SUFFICES ASSUME l + 1 < dl PROVE ms[cl + (l + 1)] = Waits(s, i, end, (l + 1) + 1)
        OBVIOUS
      <3> DEFINE k == cl + (l + 1)
                 M == l + 1
                 c == s[k].char
      <3>1. /\ k \in i + 1 .. n /\ k - 1 = cl + l /\ M \in 0 .. dl /\ l < dl /\ M < dl
            /\ i + M \in i + 1 .. end - 1
        BY <1>1, <1>4, <2>1
      <3>2. ms[cl + l] = Waits(s, i, end, M)
        BY <2>4, <3>1
      <3>3. c = s[i + M].char /\ c # "$"
        BY <1>3, <1>6, <2>2, <3>1
      <3> HIDE DEF k, M
      <3>4. ms[k] = IF c = "$" /\ M = dl THEN Plain
                    ELSE IF M < dl /\ c = s[i + M].char THEN Waits(s, i, end, M + 1)
                    ELSE IF c = "$" THEN Waits(s, i, end, 1) ELSE Waits(s, i, end, 0)
        BY <1>9, <3>1, <3>2, ZenonT(30)
      <3>5. ms[k] = Waits(s, i, end, M + 1)
        BY <3>1, <3>3, <3>4
      <3> QED BY <3>5 DEF k, M
    <2> HIDE DEF B
    <2>6. ms[cl + dl] = Plain
      <3> DEFINE l == dl - 1
                 k == cl + dl
      <3>1. l \in Nat /\ l < dl /\ l + 1 = dl /\ cl + l = k - 1 /\ k \in i + 1 .. n /\ dl \in 0 .. dl
        BY <1>4, <2>1
      <3>2. ms[k - 1] = Waits(s, i, end, dl)
        <4> HIDE DEF l, k
        <4>1. l \in B
          BY <2>3, <2>4, <3>1, Induct
        <4> QED BY <3>1, <4>1 DEF B
      <3>3. s[k].char = "$"
        BY <1>3, <1>4, <2>2, <3>1
      <3> HIDE DEF k, l
      <3>4. ms[k] = Plain
        BY <1>9, <3>1, <3>2, <3>3
      <3> QED BY <3>4 DEF k
    <2>7. h \in Nat /\ i < h /\ h <= n + 1 /\ h - 1 = cl + dl
      BY <1>1, <1>4, <2>1, SMTT(30)
    <2>8. Boundary(R, s, ms, h)
      <3> SUFFICES ASSUME h <= n PROVE ms[h] = Begins(R, s[h].char, Prev(s, h))
        BY DEF Boundary, n
      <3>2. ms[h] = Steps(R, Plain, s[h].char, Prev(s, h))
        BY <1>1, <1>5, <2>6, <2>7
      <3> QED BY <3>2, ReadsRest
    <2>9. ASSUME NEW k \in i .. h - 1 PROVE InLiteral(s, ms, k)
      <3>1. k \in i .. n /\ (k < cl + dl \/ k = cl + dl)
        BY <1>1, <1>4, <2>1, <2>7
      <3>2. s[cl + dl].char = "$"
        <4>1. dl \in 0 .. dl
          BY <1>4
        <4> QED BY <1>3, <1>4, <2>2, <4>1
      <3>3. InLiteral(s, ms, cl + dl)
        <4>1. ms[cl + dl].in = "plain"
          BY <2>6, FieldsOf DEF Plain
        <4> QED BY <3>2, <4>1 DEF InLiteral
      <3> QED BY <1>15, <3>1, <3>3
    <2> QED BY <2>7, <2>8, <2>9 DEF h, n
  <1> QED BY <1>1, <1>4, <1>16, <1>17
-----------------------------------------------------------------------------
(* The lexer of the directives.                                            *)

LEMMA PlainStep ==
  ASSUME NEW R \in Reader, NEW C, NEW s \in Seq(C), NEW ms, Run(R, s, ms),
         NEW i \in 1 .. Len(s), ms[i] = Plain
  PROVE  Boundary(R, s, ms, i + 1)
PROOF
  <1> SUFFICES ASSUME i + 1 <= Len(s) PROVE ms[i + 1] = Begins(R, s[i + 1].char, Prev(s, i + 1))
    BY DEF Boundary
  <1>2. ms[i + 1] = Steps(R, Plain, s[i + 1].char, Prev(s, i + 1))
    BY DEF Run
  <1> QED BY <1>2, ReadsRest

LEMMA DeadStep ==
  ASSUME NEW R \in Reader, NEW C, NEW s \in Seq(C), NEW ms, Run(R, s, ms),
         NEW i \in 1 .. Len(s), Dead(s, ms, i)
  PROVE  Boundary(R, s, ms, i + 1)
PROOF
  <1> DEFINE n == Len(s)
             c == s[i + 1].char
             p == Prev(s, i + 1)
  <1> SUFFICES ASSUME i + 1 <= n PROVE ms[i + 1] = Begins(R, c, p) \/ Dead(s, ms, i + 1)
    BY DEF Boundary
  <1>1. n \in Nat /\ i \in Nat /\ i + 1 \in 1 .. n /\ (i + 1) - 1 = i /\ i + 1 \in i + 1 .. n
    OBVIOUS
  <1>2. PICK t : t # << >> /\ ms[i] = InTag("tag", t, << >>)
    BY DEF Dead
  <1>3. ms[i + 1] = Steps(R, InTag("tag", t, << >>), c, p)
    BY <1>1, <1>2 DEF Run
  <1> HIDE DEF p
  <1>4. c # "$"
    <2> SUFFICES ASSUME c = "$" PROVE FALSE
      OBVIOUS
    <2> QED BY <1>1 DEF Dead
  <1>5. CASE c \notin isIdentByte
    <2> HIDE DEF c
    <2> QED BY <1>3, <1>4, <1>5, ReadsTag
  <1>6. CASE c \in isIdentByte
    <2> DEFINE u == Append(t, c)
    <2>1. ms[i + 1] = InTag("tag", u, << >>)
      <3> HIDE DEF c
      <3> QED BY <1>2, <1>3, <1>6, ReadsTag
    <2>2. u # << >>
      <3>2. 1 \in DOMAIN u
        OBVIOUS
      <3> QED BY <3>2
    <2>3. ASSUME NEW e \in (i + 1) + 1 .. n, s[e].char = "$"
          PROVE  \E k \in (i + 1) + 1 .. e - 1 : s[k].char \notin isIdentByte
      <3>1. e \in i + 1 .. n /\ e \in Nat
        BY <1>1
      <3>2. PICK k \in i + 1 .. e - 1 : s[k].char \notin isIdentByte
        BY <2>3, <3>1 DEF Dead
      <3>4. k \in (i + 1) + 1 .. e - 1
        BY <1>1, <1>6, <3>1, <3>2
      <3> QED BY <3>2, <3>4
    <2> HIDE DEF u
    <2> QED BY <1>6, <2>1, <2>2, <2>3 DEF Dead
  <1> QED BY <1>5, <1>6

\* The lexer's flags are those of R, for all that is in the text.
FlagsFit(R, s, backslash, dollar, hash, looseDash) ==
    LET db == Databases[R]
    IN  /\ \A i, j \in 1 .. Len(s) :
             s[i].char = "\\" /\ s[j].char \in Quote => (backslash <=> s[j].char \in db.escapes)
        /\ \A i \in 1 .. Len(s) :
             /\ s[i].char = "$" => dollar = db.dollar
             /\ s[i].char = "#" => hash = db.hash
             /\ s[i].char = "--" /\ i < Len(s) /\ s[i + 1].char \notin Blank => looseDash = db.looseDash
             /\ s[i].char = "bt" => "bt" \in db.names

\* They are at i.
FlagsAt(R, s, i, backslash, dollar, hash, looseDash) ==
    LET db == Databases[R]
        c == s[i].char
    IN  /\ \A j \in 1 .. Len(s) : s[j].char = "\\" /\ c \in Quote => (backslash <=> c \in db.escapes)
        /\ c = "$" => dollar = db.dollar
        /\ c = "#" => hash = db.hash
        /\ c = "--" /\ ~(i = Len(s)) /\ s[i + 1].char \notin Blank => looseDash = db.looseDash
        /\ c = "bt" => "bt" \in db.names

\* The piece is one of R's, and what it is for R.
PieceFits(R, s, ms, i, p) ==
    /\ p.lo = i /\ p.hi \in Nat /\ i < p.hi /\ p.hi <= Len(s) + 1
    /\ Boundary(R, s, ms, p.hi)
    /\ \/ p.kind = "literal" /\ \A k \in i .. p.hi - 1 : InLiteral(s, ms, k)
       \/ /\ p.kind = "comment" /\ s[i].char \in Special
          /\ \A k \in i + 1 .. p.hi - 1 : InComment(ms, k)
       \/ /\ p.kind = "byte" /\ p.hi = i + 1
          /\ s[i].char \in Special \cup isIdentByte \/ ms[i] = Plain

LEMMA PieceIs ==
  ASSUME NEW kind, NEW lo, NEW hi
  PROVE  Piece(kind, lo, hi).kind = kind /\ Piece(kind, lo, hi).lo = lo /\ Piece(kind, lo, hi).hi = hi
PROOF
  BY DEF Piece

LEMMA ByteFits ==
  ASSUME NEW R \in Reader, NEW C, NEW s \in Seq(C), NEW ms,
         NEW i \in 1 .. Len(s), Boundary(R, s, ms, i + 1),
         s[i].char \in Special \cup isIdentByte \/ ms[i] = Plain
  PROVE  PieceFits(R, s, ms, i, Byte(i))
PROOF
  <1>2. i + 1 \in Nat /\ i < i + 1 /\ i + 1 <= Len(s) + 1
    OBVIOUS
  <1> QED BY <1>2, PieceIs DEF Byte, PieceFits

LEMMA FlagsHere ==
  ASSUME NEW R, NEW C, NEW s \in Seq(C), NEW b, NEW d, NEW h, NEW l,
         FlagsFit(R, s, b, d, h, l), NEW i \in 1 .. Len(s)
  PROVE  FlagsAt(R, s, i, b, d, h, l)
PROOF
  BY DEF FlagsFit, FlagsAt

LEMMA LexStep ==
  ASSUME NEW R \in Reader, NEW C, NEW s \in Seq(C), NEW ms, Run(R, s, ms),
         NEW b \in BOOLEAN, NEW d \in BOOLEAN, NEW h \in BOOLEAN, NEW l \in BOOLEAN,
         NEW i \in 1 .. Len(s), FlagsAt(R, s, i, b, d, h, l), Boundary(R, s, ms, i)
  PROVE  PieceFits(R, s, ms, i, LexPiece(s, i, b, d, h, l))
PROOF
  <1> DEFINE c == s[i].char
             db == Databases[R]
             p == LexPiece(s, i, b, d, h, l)
             line == isLineComment(s, i, h, l)
             loose == l \/ i = Len(s) \/ s[i + 1].char \in Blank
  <1>1. i \in Nat /\ i >= 1 /\ i <= Len(s)
    OBVIOUS
  <1>2. ms[i] = Begins(R, c, Prev(s, i)) \/ Dead(s, ms, i)
    BY <1>1 DEF Boundary
  <1>3. Dead(s, ms, i) => c \in isIdentByte
    BY DEF Dead
  <1>4. line <=> (c = "#" /\ h) \/ (c = "--" /\ loose)
    BY DEF isLineComment
  <1>5. \A x \in isIdentByte : x \notin Special
    BY DEF isIdentByte, isDigit, Letter, Special, Quote
  <1>6. p = CASE c \in Quote \cup {"bt"} -> Piece("literal", i, scanQuotedRun(s, i, b /\ c # "bt"))
              [] c = "$" /\ d -> DollarPiece("literal", i, scanDollarQuoted(s, i))
              [] line -> Piece("comment", i, skipLineComment(s, i))
              [] c = "/*" -> Piece("comment", i, skipBlockComment(s, i))
              [] OTHER -> Byte(i)
    BY DEF LexPiece
  <1>7. /\ \A j \in 1 .. Len(s) : s[j].char = "\\" /\ c \in Quote => (b <=> c \in db.escapes)
        /\ c = "$" => d = db.dollar
        /\ c = "#" => h = db.hash
        /\ c = "--" /\ ~(i = Len(s)) /\ s[i + 1].char \notin Blank => l = db.looseDash
        /\ c = "bt" => "bt" \in db.names
    BY DEF FlagsAt
  <1>8. db.dollar \in BOOLEAN /\ db.hash \in BOOLEAN /\ db.looseDash \in BOOLEAN
    BY DatabaseIs
  <1> HIDE DEF c, p, db, line, loose
  <1>9. CASE c \in Quote \cup {"bt"}
    <2> DEFINE e == b /\ c # "bt"
               q == scanQuotedRun(s, i, e)
    <2>1. p = Piece("literal", i, q)
      BY <1>4, <1>6, <1>9 DEF Quote
    <2>3. c \notin isIdentByte
      BY <1>5, <1>9 DEF Special
    <2>4. PICK w \in {"string", "name"} : ms[i] = InRun(w, c) /\ (c \in db.escapes => w = "string")
      <3>1. CASE c \in db.strings
        BY <1>2, <1>3, <2>3, <3>1, BeginsQuoted DEF db
      <3>2. CASE c \in db.names
        BY <1>2, <1>3, <2>3, <3>2, DatabaseIs, BeginsQuoted DEF db
      <3> QED BY <1>7, <1>9, <3>1, <3>2, DatabaseIs DEF db
    <2>5. ASSUME NEW j \in 1 .. Len(s), s[j].char = "\\" PROVE e <=> c \in db.escapes
      <3>1. CASE c \in Quote
        BY <1>7, <2>5, <3>1 DEF Quote
      <3>2. CASE c = "bt"
        BY <3>2, DatabaseIs DEF db, Quote
      <3> QED BY <1>9, <3>1, <3>2
    <2>6. e \in BOOLEAN
      OBVIOUS
    <2> HIDE DEF e
    <2>7. /\ q \in Nat /\ i < q /\ q <= Len(s) + 1
          /\ Boundary(R, s, ms, q)
          /\ \A k \in i .. q - 1 : InLiteral(s, ms, k)
      <3>1. ms[i] = InRun(w, s[i].char) /\ s[i].char \in Quote \cup {"bt"}
        BY <1>9, <2>4 DEF c
      <3>2. s[i].char \in Databases[R].escapes => w = "string"
        BY <2>4 DEF c, db
      <3>3. \A j \in 1 .. Len(s) : s[j].char = "\\" => (e <=> s[i].char \in Databases[R].escapes)
        BY <2>5 DEF c, db
      <3>4. /\ q \in Nat /\ i < q /\ q <= Len(s) + 1
            /\ Boundary(R, s, ms, q)
            /\ \A k \in i .. q - 1 : OfRun(s, ms, w, s[i].char, k)
        BY <2>6, <3>1, <3>2, <3>3, QuotedFollows
      <3> HIDE DEF q
      <3> QED BY <3>4 DEF OfRun
    <2> HIDE DEF q
    <2> QED BY <2>1, <2>7, PieceIs DEF PieceFits, p
  <1>10. CASE c = "$"
    <2> DEFINE q == scanDollarQuoted(s, i)
               prev == Prev(s, i)
    <2>1. c \notin Quote \cup {"bt"} /\ c # "/*" /\ c # "#" /\ c # "--" /\ c \in Special /\ c \notin isIdentByte
      BY <1>5, <1>10 DEF Quote, Special
    <2>2. p = IF d THEN DollarPiece("literal", i, q) ELSE Byte(i)
      BY <1>4, <1>6, <1>10, <2>1
    <2>3. ms[i] = IF d /\ prev \notin isIdentByte \cup Directive THEN In("tag") ELSE Plain
      BY <1>2, <1>3, <1>7, <1>8, <1>10, <2>1, BeginsOther DEF db
    <2>4. s[i].char = "$"
      BY <1>10 DEF c
    <2>5. CASE d /\ prev \notin isIdentByte \cup Directive /\ q.ok
      <3>1. ms[i] = In("tag") /\ p = Piece("literal", i, q.hi)
        BY <2>2, <2>3, <2>5 DEF DollarPiece
      <3>2. /\ q.hi \in Nat /\ i < q.hi /\ q.hi <= Len(s) + 1
            /\ Boundary(R, s, ms, q.hi)
            /\ \A k \in i .. q.hi - 1 : InLiteral(s, ms, k)
        BY <2>4, <2>5, <3>1, DollarFollows
      <3> HIDE DEF q
      <3> QED BY <3>1, <3>2, PieceIs DEF PieceFits, p
    <2>6. CASE d /\ prev \notin isIdentByte \cup Directive /\ ~q.ok
      <3>1. ms[i] = In("tag") /\ p = Byte(i)
        BY <2>2, <2>3, <2>6 DEF DollarPiece
      <3> QED BY <2>1, <2>4, <2>6, <3>1, DollarFails, ByteFits DEF c, p
    <2>7. CASE ~(d /\ prev \notin isIdentByte \cup Directive)
      <3>1. ms[i] = Plain
        BY <2>3, <2>7
      <3>2. p = Byte(i)
        <4>1. CASE ~d
          BY <2>2, <4>1
        <4>2. CASE prev \in isIdentByte \cup Directive
          <5>1. i > 1 /\ s[i - 1].char \in isIdentByte \cup Directive
            BY <1>1, <4>2 DEF isIdentByte, isDigit, Letter, Directive, Prev
          <5>2. ~q.ok
            <6>1. PICK end, cl : DollarScanned(s, i, end, cl)
              BY DollarIs
            <6> QED BY <5>1, <6>1 DEF DollarScanned
          <5> QED BY <2>2, <5>2 DEF DollarPiece
        <4> QED BY <2>7, <4>1, <4>2
      <3> QED BY <3>1, <3>2, PlainStep, ByteFits DEF p
    <2> QED BY <2>5, <2>6, <2>7
  <1>11. CASE c \in {"#", "--"}
    <2> DEFINE q == skipLineComment(s, i)
    <2>1. c \notin Quote \cup {"bt"} /\ c # "/*" /\ c # "$" /\ c \in Special /\ c \notin isIdentByte /\ c # "nl"
      BY <1>5, <1>11 DEF Quote, Special
    <2>2. p = IF line THEN Piece("comment", i, q) ELSE Byte(i)
      BY <1>6, <2>1
    <2>3. /\ c = "#" => ms[i] = IF h THEN In("comment") ELSE Plain
          /\ c = "--" => ms[i] = In(IF db.looseDash THEN "comment" ELSE "dash")
      BY <1>2, <1>3, <1>7, <1>8, <2>1, BeginsOther DEF db
    <2>4. CASE line
      <3>1. \/ ms[i] = In("comment")
            \/ ms[i] = In("dash") /\ (i = Len(s) \/ s[i + 1].char \in Blank)
        <4>1. CASE c = "#"
          BY <1>4, <2>3, <2>4, <4>1
        <4>2. CASE c = "--" /\ db.looseDash
          BY <2>3, <4>2
        <4>3. CASE c = "--" /\ ~db.looseDash
          <5>2. i = Len(s) \/ s[i + 1].char \in Blank
            BY <1>4, <1>7, <2>4, <4>3 DEF loose
          <5> QED BY <2>3, <4>3, <5>2
        <4> QED BY <1>11, <4>1, <4>2, <4>3
      <3>2. /\ q \in Nat /\ i < q /\ q <= Len(s) + 1
            /\ Boundary(R, s, ms, q)
            /\ \A k \in i + 1 .. q - 1 : InComment(ms, k)
        BY <2>1, <3>1, LineFollows DEF c
      <3> HIDE DEF q
      <3> QED BY <2>1, <2>2, <2>4, <3>2, PieceIs DEF PieceFits, c, p
    <2>5. CASE ~line
      <3>1. Boundary(R, s, ms, i + 1)
        <4>1. CASE c = "#"
          BY <1>4, <2>3, <2>5, <4>1, PlainStep
        <4>2. CASE c = "--"
          <5>1. ~l /\ i < Len(s) /\ s[i + 1].char \notin Blank
            BY <1>1, <1>4, <2>5, <4>2 DEF loose
          <5>3. i + 1 \in 1 .. Len(s) /\ (i + 1) - 1 = i
            BY <1>1, <5>1
          <5>4. ms[i + 1] = Steps(R, In("dash"), s[i + 1].char, Prev(s, i + 1))
            BY <1>7, <1>8, <2>3, <4>2, <5>1, <5>3 DEF Run
          <5>6. ms[i + 1] = Begins(R, s[i + 1].char, Prev(s, i + 1))
            BY <5>1, <5>4, ReadsRest DEF Blank
          <5> QED BY <5>6 DEF Boundary
        <4> QED BY <1>11, <4>1, <4>2
      <3> QED BY <2>1, <2>2, <2>5, <3>1, ByteFits DEF c, p
    <2> QED BY <2>4, <2>5
  <1>12. CASE c = "/*"
    <2> DEFINE q == skipBlockComment(s, i)
    <2>1. c \notin Quote \cup {"bt"} /\ c # "#" /\ c # "--" /\ c # "$" /\ c \in Special /\ c \notin isIdentByte
      BY <1>5, <1>12 DEF Quote, Special
    <2>2. p = Piece("comment", i, q)
      BY <1>4, <1>6, <1>12, <2>1
    <2>4. /\ q \in Nat /\ i < q /\ q <= Len(s) + 1
          /\ Boundary(R, s, ms, q)
          /\ \A k \in i + 1 .. q - 1 : InComment(ms, k)
      BY <1>2, <1>3, <1>12, <2>1, BeginsOther, BlockFollows
    <2> HIDE DEF q
    <2> QED BY <2>1, <2>2, <2>4, PieceIs DEF PieceFits, c, p
  <1>13. CASE c \notin Special
    <2>2. p = Byte(i)
      BY <1>4, <1>6, <1>13 DEF Special
    <2>3. CASE Dead(s, ms, i)
      <3>2. s[i].char \in isIdentByte
        BY <1>3, <2>3 DEF c
      <3> QED BY <2>2, <2>3, <3>2, DeadStep, ByteFits DEF p
    <2>4. CASE ~Dead(s, ms, i)
      <3>1. ms[i] = Plain
        BY <1>2, <1>13, <2>4, BeginsOther
      <3> QED BY <2>2, <3>1, PlainStep, ByteFits DEF p
    <2> QED BY <2>3, <2>4
  <1> QED BY <1>9, <1>10, <1>11, <1>12, <1>13 DEF Special, p

LEMMA QuotedAdvances ==
  ASSUME NEW C, NEW s \in Seq(C), NEW i \in 1 .. Len(s), NEW backslash
  PROVE  LET h == scanQuotedRun(s, i, backslash)
         IN  h \in Nat /\ i < h /\ h <= Len(s) + 1
PROOF
  <1> DEFINE n == Len(s)
  <1>1. n \in Nat /\ i \in Nat /\ i >= 1 /\ i <= n
    OBVIOUS
  <1>2. PICK f : QuotedFrom(f, s, i, backslash) /\ scanQuotedRunClosed(s, i, backslash) = f[i + 1]
    BY QuotedRun
  <1> DEFINE Good(j) == f[j].hi \in Nat /\ i < f[j].hi /\ f[j].hi <= n + 1
             T == {d \in Nat : \A j \in i + 1 .. n + 2 : j + d > n => Good(j)}
  <1>3. ASSUME NEW j \in i + 1 .. n + 2
        PROVE  \/ f[j] = [hi |-> n + 1, closed |-> FALSE]
               \/ j <= n /\ f[j] = f[j + 1]
               \/ j <= n /\ f[j] = f[j + 2]
               \/ j <= n /\ f[j] = [hi |-> j + 1, closed |-> TRUE]
    <2>1. f[j] =
           IF j > n THEN [hi |-> n + 1, closed |-> FALSE]
           ELSE IF backslash /\ s[j].char = "\\" THEN f[j + 2]
           ELSE IF s[j].char # s[i].char THEN f[j + 1]
           ELSE IF j < n /\ s[j + 1].char = s[i].char THEN f[j + 2]
           ELSE [hi |-> j + 1, closed |-> TRUE]
      BY <1>2 DEF QuotedFrom
    <2>2. j > n \/ j <= n
      BY <1>1
    <2> HIDE DEF n
    <2> QED BY <2>1, <2>2
  <1> HIDE DEF n
  <1>4. ASSUME NEW j \in i + 1 .. n + 2, f[j] = [hi |-> n + 1, closed |-> FALSE] PROVE Good(j)
    BY <1>1, <1>4
  <1>5. ASSUME NEW j \in i + 1 .. n + 2, j <= n, f[j] = [hi |-> j + 1, closed |-> TRUE] PROVE Good(j)
    BY <1>1, <1>5
  <1> HIDE DEF Good
  <1>6. 0 \in T
    <2> SUFFICES ASSUME NEW j \in i + 1 .. n + 2, j + 0 > n PROVE Good(j)
      OBVIOUS
    <2>1. ~(j <= n)
      BY <1>1
    <2> QED BY <1>3, <1>4, <2>1
  <1>7. ASSUME NEW d \in Nat, d \in T PROVE d + 1 \in T
    <2> SUFFICES ASSUME NEW j \in i + 1 .. n + 2, j + (d + 1) > n PROVE Good(j)
      OBVIOUS
    <2>1. ASSUME j <= n, f[j] = f[j + 1] PROVE Good(j)
      <3>2. Good(j + 1)
        BY <1>1, <1>7, <2>1
      <3> QED BY <2>1, <3>2 DEF Good
    <2>2. ASSUME j <= n, f[j] = f[j + 2] PROVE Good(j)
      <3>2. Good(j + 2)
        BY <1>1, <1>7, <2>2
      <3> QED BY <2>2, <3>2 DEF Good
    <2> QED BY <1>3, <1>4, <1>5, <2>1, <2>2
  <1> HIDE DEF T
  <1>9. i + 1 \in i + 1 .. n + 2 /\ (i + 1) + n > n
    BY <1>1
  <1>10. Good(i + 1)
    BY <1>1, <1>6, <1>7, <1>9, Induct DEF T
  <1> QED BY <1>2, <1>10 DEF Good, scanQuotedRun, n

LEMMA DollarAdvances ==
  ASSUME NEW C, NEW s \in Seq(C), NEW i \in 1 .. Len(s), NEW kind
  PROVE  LET p == DollarPiece(kind, i, scanDollarQuoted(s, i))
         IN  p.lo = i /\ p.hi \in Nat /\ i < p.hi /\ p.hi <= Len(s) + 1
PROOF
  <1> DEFINE q == scanDollarQuoted(s, i)
             n == Len(s)
             p == DollarPiece(kind, i, q)
  <1>1. n \in Nat /\ i \in Nat /\ i >= 1 /\ i <= n
    OBVIOUS
  <1>2. PICK end, cl : DollarScanned(s, i, end, cl)
    BY DollarIs
  <1>3. CASE ~q.ok
    BY <1>1, <1>3, PieceIs DEF DollarPiece, Byte
  <1>4. CASE q.ok
    <2> DEFINE len == end + 1 - i
    <2>1. end \in i + 1 .. n + 1 /\ end <= n
      BY <1>2, <1>4 DEF DollarScanned
    <2>2. /\ cl \in end + 1 .. n + 1 /\ (cl <= n => cl + len - 1 <= n)
          /\ q.hi = IF cl > n THEN cl ELSE cl + len
      BY <1>2, <2>1 DEF DollarScanned, Occurs
    <2>3. p.lo = i /\ p.hi = q.hi
      BY <1>4, PieceIs DEF DollarPiece
    <2> HIDE DEF p, n, q
    <2>4. CASE cl > n
      <3>2. cl \in Nat /\ i < cl /\ cl <= n + 1
        BY <1>1, <2>1, <2>2
      <3> QED BY <2>2, <2>3, <2>4, <3>2 DEF p, n, q
    <2>5. CASE cl <= n
      <3>1. cl \in Nat /\ end \in Nat /\ i < end /\ end < cl /\ len \in Nat /\ len >= 2
        BY <1>1, <2>1, <2>2
      <3> HIDE DEF len
      <3> QED BY <1>1, <2>2, <2>3, <2>5, <3>1 DEF p, n, q
    <2> QED BY <1>1, <2>1, <2>2, <2>4, <2>5 DEF p, n, q
  <1> QED BY <1>3, <1>4

LEMMA LexAdvances ==
  ASSUME NEW C, NEW s \in Seq(C), NEW i \in 1 .. Len(s), NEW b, NEW d, NEW h, NEW l
  PROVE  LET p == LexPiece(s, i, b, d, h, l)
         IN  p.lo = i /\ p.hi \in Nat /\ i < p.hi /\ p.hi <= Len(s) + 1
PROOF
  <1> DEFINE c == s[i].char
             p == LexPiece(s, i, b, d, h, l)
             line == isLineComment(s, i, h, l)
             Ok(x) == x.lo = i /\ x.hi \in Nat /\ i < x.hi /\ x.hi <= Len(s) + 1
  <1>1. i \in Nat /\ i >= 1 /\ i <= Len(s) /\ Len(s) \in Nat
    OBVIOUS
  <1>2. p = CASE c \in Quote \cup {"bt"} -> Piece("literal", i, scanQuotedRun(s, i, b /\ c # "bt"))
              [] c = "$" /\ d -> DollarPiece("literal", i, scanDollarQuoted(s, i))
              [] line -> Piece("comment", i, skipLineComment(s, i))
              [] c = "/*" -> Piece("comment", i, skipBlockComment(s, i))
              [] OTHER -> Byte(i)
    BY DEF LexPiece
  <1>3. line => c \in {"#", "--"}
    BY DEF isLineComment
  <1>4. Ok(Byte(i))
    BY <1>1, PieceIs DEF Byte
  <1>6. Ok(Piece("literal", i, scanQuotedRun(s, i, b /\ c # "bt")))
    <2> DEFINE e == b /\ c # "bt"
               q == scanQuotedRun(s, i, e)
    <2> HIDE DEF e
    <2>1. q \in Nat /\ i < q /\ q <= Len(s) + 1
      BY QuotedAdvances
    <2> HIDE DEF q
    <2>2. Ok(Piece("literal", i, q))
      BY <2>1, PieceIs
    <2> QED BY <2>2 DEF q, e
  <1>7. c \in {"#", "--"} => Ok(Piece("comment", i, skipLineComment(s, i)))
    <2> DEFINE q == skipLineComment(s, i)
    <2> SUFFICES ASSUME c \in {"#", "--"} PROVE Ok(Piece("comment", i, q))
      OBVIOUS
    <2>1. q \in Nat /\ i < q /\ q <= Len(s) + 1
      BY LineEnd
    <2> HIDE DEF q
    <2> QED BY <2>1, PieceIs
  <1>8. Ok(Piece("comment", i, skipBlockComment(s, i)))
    <2> DEFINE q == skipBlockComment(s, i)
    <2>1. PICK e \in i + 1 .. Len(s) + 1 : q = IF e > Len(s) THEN e ELSE e + 1
      BY BlockEnd
    <2>2. q \in Nat /\ i < q /\ q <= Len(s) + 1
      <3> HIDE DEF q
      <3> QED BY <1>1, <2>1
    <2> HIDE DEF q
    <2> QED BY <2>2, PieceIs DEF q
  <1> HIDE DEF p, line, Ok
  <1>9. CASE c \in Quote \cup {"bt"}
    BY <1>2, <1>3, <1>6, <1>9 DEF Quote, Ok, p
  <1>10. CASE c \notin Quote \cup {"bt"} /\ c = "$" /\ d
    <2>1. c # "/*" /\ ~line
      BY <1>3, <1>10
    <2> QED BY <1>2, <1>10, <2>1, DollarAdvances DEF Ok, p
  <1>11. CASE c \notin Quote \cup {"bt"} /\ ~(c = "$" /\ d) /\ line
    BY <1>2, <1>3, <1>7, <1>11 DEF Ok, p
  <1>12. CASE c \notin Quote \cup {"bt"} /\ ~(c = "$" /\ d) /\ ~line /\ c = "/*"
    BY <1>2, <1>8, <1>12 DEF Ok, p
  <1>13. CASE c \notin Quote \cup {"bt"} /\ ~(c = "$" /\ d) /\ ~line /\ c # "/*"
    BY <1>2, <1>4, <1>13 DEF Ok, p
  <1> QED BY <1>9, <1>10, <1>11, <1>12, <1>13

LEMMA BlockStays ==
  ASSUME NEW R \in Reader, NEW m, NEW c, NEW prev, m.in = "block"
  PROVE  Steps(R, m, c, prev) = IF c = "*/" THEN Plain ELSE m
PROOF
  BY DEF Steps, Reads

\* What a byte belongs to for R follows from the piece it is in.
LEMMA KindsOf ==
  ASSUME NEW R \in Reader, NEW C, NEW s \in Seq(C), NEW ms, Run(R, s, ms), NEW k \in 1 .. Len(s)
  PROVE  LET kind == Kind(ms[k - 1], ms[k])
         IN  /\ InLiteral(s, ms, k) /\ s[k].char \notin Special =>
                  kind \in Contents
             /\ InComment(ms, k) => kind = "comment"
             /\ ms[k] = Plain /\ s[k].char # "*/" => kind = "plain"
PROOF
  <1> DEFINE m == ms[k - 1]
             x == ms[k]
             c == s[k].char
             p == Prev(s, k)
  <1>1. x = Steps(R, m, c, p)
    BY DEF Run
  <1>2. Plain.in = "plain"
    BY FieldsOf DEF Plain
  <1> HIDE DEF m, x, p
  <1>3. ASSUME InLiteral(s, ms, k), c \notin Special
        PROVE  Kind(m, x) \in Contents
    <2>1. x.in \in {"string", "escape", "name", "tag", "dollar"}
      BY <1>3 DEF InLiteral, Special, x
    <2>2. m.in # "block"
      <3> SUFFICES ASSUME m.in = "block" PROVE FALSE
        OBVIOUS
      <3> QED BY <1>1, <1>2, <2>1, BlockStays
    <2>3. CASE x.in \in {"string", "escape"}
      BY <2>2, <2>3 DEF Kind, Contents
    <2>4. CASE x.in = "name"
      BY <2>2, <2>4 DEF Kind, Contents
    <2>5. CASE x.in \in {"tag", "dollar"}
      BY <2>2, <2>5 DEF Kind, Contents
    <2> QED BY <2>1, <2>3, <2>4, <2>5
  <1>4. ASSUME InComment(ms, k) PROVE Kind(m, x) = "comment"
    BY <1>4 DEF InComment, x, m, Kind
  <1>5. ASSUME x = Plain, c # "*/" PROVE Kind(m, x) = "plain"
    <2>1. x.in = "plain"
      BY <1>2, <1>5
    <2>2. m.in # "block"
      <3> SUFFICES ASSUME m.in = "block" PROVE FALSE
        OBVIOUS
      <3>1. Steps(R, m, c, p) = IF c = "*/" THEN Plain ELSE m
        BY BlockStays
      <3>2. x = m
        BY <1>1, <1>5, <3>1
      <3> QED BY <2>1, <3>2
    <2> QED BY <2>1, <2>2 DEF Kind
  <1> QED BY <1>3, <1>4, <1>5 DEF m, x

LexPieces(s, b, d, h, l) == Pieces(s, [i \in DOMAIN s |-> LexPiece(s, i, b, d, h, l)])

AllFit(R, s, ms, ps) ==
    /\ \A m \in 1 .. Len(ps) : ps[m].lo \in 1 .. Len(s) /\ PieceFits(R, s, ms, ps[m].lo, ps[m])
    /\ \A k \in 1 .. Len(s) : \E m \in 1 .. Len(ps) : ps[m].lo <= k /\ k < ps[m].hi
    /\ Len(ps) \in Nat

\* Every piece the lexer takes is one of R's.
LEMMA LexFits ==
  ASSUME NEW R \in Reader, NEW C, NEW s \in Seq(C), NEW ms, Run(R, s, ms),
         NEW b \in BOOLEAN, NEW d \in BOOLEAN, NEW h \in BOOLEAN, NEW l \in BOOLEAN,
         FlagsFit(R, s, b, d, h, l), NEW ps,
         ps = LexPieces(s, b, d, h, l)
  PROVE  AllFit(R, s, ms, ps)
PROOF
  <1> DEFINE n == Len(s)
             pa == [i \in DOMAIN s |-> LexPiece(s, i, b, d, h, l)]
  <1>1. n \in Nat /\ DOMAIN s = 1 .. n
    OBVIOUS
  <1>2. \A i \in 1 .. n : pa[i] = LexPiece(s, i, b, d, h, l)
    BY <1>1
  <1>3. ASSUME NEW i \in 1 .. n
        PROVE  pa[i].lo = i /\ pa[i].hi \in Nat /\ i < pa[i].hi /\ pa[i].hi <= n + 1
    <2> DEFINE p == LexPiece(s, i, b, d, h, l)
    <2> HIDE DEF pa
    <2> QED BY <1>2, LexAdvances
  <1> HIDE DEF pa
  <1>4. Chained(ps, s, pa, 1)
    <2>2. \A i \in 1 .. Len(s) : pa[i].lo = i
      BY <1>3
    <2>3. Chained(Pieces(s, pa), s, pa, 1)
      BY <1>3, <2>2, PiecesChained DEF Advances
    <2> QED BY <2>3 DEF pa, LexPieces
  <1>5. /\ ps \in Seq({pa[j] : j \in 1 .. n})
        /\ 1 <= n => ps # << >> /\ ps[1] = pa[1]
        /\ 1 > n => ps = << >>
        /\ \A m \in 1 .. Len(ps) : m < Len(ps) => ps[m].hi <= n /\ ps[m + 1] = pa[ps[m].hi]
        /\ \A k \in 1 .. n : \E m \in 1 .. Len(ps) : ps[m].lo <= k /\ k < ps[m].hi
    BY <1>4 DEF Chained
  <1>6. ASSUME NEW i \in 1 .. n, Boundary(R, s, ms, i)
        PROVE  pa[i].lo \in 1 .. n /\ PieceFits(R, s, ms, pa[i].lo, pa[i])
    BY <1>2, <1>3, <1>6, LexStep, FlagsHere
  <1>7. Len(ps) \in Nat
    BY <1>5
  <1> DEFINE T == {e \in Nat : e + 1 <= Len(ps) =>
                     ps[e + 1].lo \in 1 .. n /\ PieceFits(R, s, ms, ps[e + 1].lo, ps[e + 1])}
  <1>8. 0 \in T
    <2> SUFFICES ASSUME 1 <= Len(ps) PROVE ps[1].lo \in 1 .. n /\ PieceFits(R, s, ms, ps[1].lo, ps[1])
      OBVIOUS
    <2>1. 1 <= n
      <3> SUFFICES ASSUME 1 > n PROVE FALSE
        BY <1>1
      <3> QED BY <1>5
    <2>2. 1 \in 1 .. n /\ ps[1] = pa[1]
      BY <1>1, <1>5, <2>1
    <2>3. Boundary(R, s, ms, 1)
      <3>2. ms[1] = Steps(R, Plain, s[1].char, Prev(s, 1))
        BY <2>2 DEF Run
      <3> QED BY <3>2, ReadsRest DEF Boundary
    <2> HIDE DEF n
    <2> QED BY <1>6, <2>2, <2>3
  <1>9. ASSUME NEW e \in Nat, e \in T PROVE e + 1 \in T
    <2> DEFINE m == e + 1
    <2> SUFFICES ASSUME m + 1 <= Len(ps)
                 PROVE  ps[m + 1].lo \in 1 .. n /\ PieceFits(R, s, ms, ps[m + 1].lo, ps[m + 1])
      OBVIOUS
    <2>1. m \in 1 .. Len(ps) /\ m < Len(ps) /\ m <= Len(ps)
      BY <1>7
    <2>2. ps[m].lo \in 1 .. n /\ PieceFits(R, s, ms, ps[m].lo, ps[m])
      BY <1>9, <2>1
    <2> HIDE DEF m, n, T
    <2>3. ps[m].hi <= n /\ ps[m + 1] = pa[ps[m].hi]
      BY <1>5, <2>1
    <2>4. ps[m].hi \in 1 .. n /\ Boundary(R, s, ms, ps[m].hi)
      BY <1>1, <2>2, <2>3 DEF PieceFits
    <2> QED BY <1>6, <2>3, <2>4
  <1> HIDE DEF T, n
  <1>11. ASSUME NEW m \in 1 .. Len(ps)
         PROVE  ps[m].lo \in 1 .. n /\ PieceFits(R, s, ms, ps[m].lo, ps[m])
    <2>1. m - 1 \in Nat /\ (m - 1) + 1 = m /\ m <= Len(ps)
      BY <1>7
    <2> QED BY <1>8, <1>9, <2>1, Induct DEF T
  <1> QED BY <1>5, <1>7, <1>11 DEF n, AllFit

\* A character that neither begins nor goes on with anything is for R what the
\* lexer's pieces make of it.
LEMMA LexKinds ==
  ASSUME NEW R \in Reader, NEW C, NEW s \in Seq(C), NEW ms, Run(R, s, ms),
         NEW b \in BOOLEAN, NEW d \in BOOLEAN, NEW h \in BOOLEAN, NEW l \in BOOLEAN,
         FlagsFit(R, s, b, d, h, l), NEW k \in 1 .. Len(s),
         s[k].char \notin Special \cup isIdentByte \cup {"*/"}
  PROVE  LET kind == Kind(ms[k - 1], ms[k])
         IN  /\ Inside(lexSQL(s, b, d, h, l, "literal"), k) = {} => kind \in {"plain", "comment"}
             /\ kind = "comment" => /\ Inside(lexSQL(s, b, d, h, l, "literal"), k) = {}
                                    /\ Inside(lexSQL(s, b, d, h, l, "comment"), k) # {}
PROOF
  <1> DEFINE ps == LexPieces(s, b, d, h, l)
             kind == Kind(ms[k - 1], ms[k])
  <1>1. /\ \A m \in 1 .. Len(ps) : ps[m].lo \in 1 .. Len(s) /\ PieceFits(R, s, ms, ps[m].lo, ps[m])
        /\ \E m \in 1 .. Len(ps) : ps[m].lo <= k /\ k < ps[m].hi
    <2> HIDE DEF ps
    <2>2. AllFit(R, s, ms, ps)
      BY LexFits DEF ps
    <2> QED BY <2>2 DEF AllFit
  <1>2. \A w, q : q \in Inside(lexSQL(s, b, d, h, l, w), k) <=>
                    q \in ToSet(ps) /\ q.kind = w /\ q.lo <= k /\ k < q.hi
    BY DEF Inside, lexSQL, Spans, LexPieces
  <1>3. DOMAIN ps = 1 .. Len(ps)
    <2>1. ps \in Seq({LexPiece(s, i, b, d, h, l) : i \in DOMAIN s})
      <3> DEFINE pa == [i \in DOMAIN s |-> LexPiece(s, i, b, d, h, l)]
      <3>1. \A i \in 1 .. Len(s) : pa[i].lo = i /\ pa[i].hi \in Nat /\ i < pa[i].hi /\ pa[i].hi <= Len(s) + 1
        BY LexAdvances
      <3> HIDE DEF pa
      <3>2. Chained(Pieces(s, pa), s, pa, 1)
        BY <3>1, PiecesChained DEF Advances
      <3>4. {pa[j] : j \in 1 .. Len(s)} = {LexPiece(s, i, b, d, h, l) : i \in DOMAIN s}
        <4>2. \A j \in DOMAIN s : pa[j] = LexPiece(s, j, b, d, h, l)
          BY DEF pa
        <4> QED BY <4>2
      <3> QED BY <3>2, <3>4 DEF Chained, pa, LexPieces
    <2> HIDE DEF ps
    <2> QED BY <2>1
  <1> HIDE DEF ps
  <1>4. ToSet(ps) = {ps[m] : m \in 1 .. Len(ps)}
    BY <1>3 DEF ToSet
  <1>5. /\ InLiteral(s, ms, k) => kind \in Contents
        /\ InComment(ms, k) => kind = "comment"
        /\ ms[k] = Plain => kind = "plain"
    BY KindsOf
  <1>6. ASSUME NEW m \in 1 .. Len(ps), ps[m].lo <= k, k < ps[m].hi
        PROVE  \/ ps[m].kind = "literal" /\ kind \in Contents
               \/ ps[m].kind = "comment" /\ kind = "comment"
               \/ ps[m].kind = "byte" /\ kind = "plain"
    <2> DEFINE p == ps[m]
    <2>1. p.lo \in 1 .. Len(s) /\ PieceFits(R, s, ms, p.lo, p)
      BY <1>1
    <2>2. p.hi \in Nat /\ p.lo \in Nat
      BY <2>1 DEF PieceFits
    <2>3. CASE p.kind = "literal" /\ \A j \in p.lo .. p.hi - 1 : InLiteral(s, ms, j)
      BY <1>5, <1>6, <2>2, <2>3
    <2>4. CASE /\ p.kind = "comment" /\ s[p.lo].char \in Special
               /\ \A j \in p.lo + 1 .. p.hi - 1 : InComment(ms, j)
      <3>2. k \in p.lo + 1 .. p.hi - 1
        <4>1. k \in Nat /\ p.lo <= k /\ k < p.hi
          BY <1>6
        <4> HIDE DEF p
        <4> QED BY <2>2, <2>4, <4>1
      <3> QED BY <1>5, <2>4, <3>2
    <2>5. CASE /\ p.kind = "byte" /\ p.hi = p.lo + 1
               /\ s[p.lo].char \in Special \cup isIdentByte \/ ms[p.lo] = Plain
      BY <1>5, <1>6, <2>2, <2>5
    <2> QED BY <2>1, <2>3, <2>4, <2>5 DEF PieceFits
  <1>7. ASSUME Inside(lexSQL(s, b, d, h, l, "literal"), k) = {} PROVE kind \in {"plain", "comment"}
    <2>1. PICK m \in 1 .. Len(ps) : ps[m].lo <= k /\ k < ps[m].hi
      BY <1>1
    <2>2. ps[m].kind # "literal"
      <3> SUFFICES ASSUME ps[m].kind = "literal" PROVE FALSE
        OBVIOUS
      <3>2. ps[m] \in Inside(lexSQL(s, b, d, h, l, "literal"), k)
        BY <1>2, <1>4, <2>1
      <3> QED BY <1>7, <3>2
    <2> QED BY <1>6, <2>1, <2>2
  <1>8. ASSUME kind = "comment"
        PROVE  /\ Inside(lexSQL(s, b, d, h, l, "literal"), k) = {}
               /\ Inside(lexSQL(s, b, d, h, l, "comment"), k) # {}
    <2>1. PICK m \in 1 .. Len(ps) : ps[m].lo <= k /\ k < ps[m].hi
      BY <1>1
    <2>3. ps[m] \in Inside(lexSQL(s, b, d, h, l, "comment"), k)
      BY <1>2, <1>4, <1>6, <1>8, <2>1 DEF Contents
    <2>4. ASSUME NEW q \in Inside(lexSQL(s, b, d, h, l, "literal"), k) PROVE FALSE
      <3>1. PICK j \in 1 .. Len(ps) : q = ps[j]
        BY <1>2, <1>4
      <3> QED BY <1>2, <1>6, <1>8, <3>1 DEF Contents
    <2> QED BY <2>3, <2>4
  <1> QED BY <1>7, <1>8
-----------------------------------------------------------------------------
(* What the directives in the comments turn off.                           *)

Offs == {Off(TRUE, {}), Off(FALSE, {}), Off(FALSE, {"r"})}

LEMMA OffIs ==
  ASSUME NEW a, NEW r
  PROVE  Off(a, r).all = a /\ Off(a, r).rules = r
PROOF
  BY DEF Off

\* The places commentDirective reads directives at.
Heard(s, b, d) ==
    {i \in DOMAIN s :
       /\ s[i].char \in Directive
       /\ Inside(lexSQL(s, b, d, TRUE, TRUE, "comment"), i) # {}
       /\ \A h \in BOOLEAN, l \in BOOLEAN : Inside(lexSQL(s, b, d, h, l, "literal"), i) = {}}

Heeds(o, s, b, d) ==
    /\ o \in Offs
    /\ o.all <=> \E i \in Heard(s, b, d) : s[i].char = "all"
    /\ o.all \/ o.rules # {} <=> Heard(s, b, d) # {}

LEMMA DirectiveIs ==
  ASSUME NEW s, NEW b, NEW d
  PROVE  Heeds(commentDirective(s, b, d), s, b, d)
PROOF
  <1> DEFINE comments == lexSQL(s, b, d, TRUE, TRUE, "comment")
             Of(h, l) == lexSQL(s, b, d, h, l, "literal")
             literals == UNION {Of(h, l) : h, l \in BOOLEAN}
             heard == {i \in DOMAIN s : /\ s[i].char \in Directive
                                        /\ Inside(comments, i) # {}
                                        /\ Inside(literals, i) = {}}
             all == \E i \in heard : s[i].char = "all"
             o == commentDirective(s, b, d)
  <1>1. o = IF all THEN Off(TRUE, {}) ELSE Off(FALSE, {"r" : i \in heard})
    BY DEF commentDirective
  <1>2. heard = Heard(s, b, d)
    <2> HIDE DEF comments, Of
    <2>1. ASSUME NEW i
          PROVE  Inside(literals, i) = {} <=> \A h \in BOOLEAN, l \in BOOLEAN : Inside(Of(h, l), i) = {}
      BY DEF Inside
    <2> HIDE DEF literals
    <2>2. ASSUME NEW i PROVE i \in heard <=> i \in Heard(s, b, d)
      BY <2>1 DEF Heard, comments, Of
    <2> HIDE DEF heard
    <2> QED BY <2>2
  <1> HIDE DEF heard, o
  <1>4. CASE all
    BY <1>1, <1>2, <1>4, OffIs DEF Offs, Heeds, o
  <1>5. CASE ~all
    <2>1. o = Off(FALSE, IF heard = {} THEN {} ELSE {"r"})
      BY <1>1, <1>5
    <2>2. CASE heard = {}
      BY <1>2, <1>5, <2>1, <2>2, OffIs DEF Offs, Heeds, o
    <2>3. CASE heard # {}
      <3>2. o \in Offs /\ ~o.all /\ o.rules # {}
        BY <2>1, <2>3 DEF Offs, Off
      <3> HIDE DEF all
      <3> QED BY <1>2, <1>5, <2>3, <3>2 DEF Heeds, o, all
    <2> QED BY <2>2, <2>3
  <1> QED BY <1>4, <1>5

Placed(s, ms, k, D, kinds1) == s[k].char \in D /\ Kind(ms[k - 1], ms[k]) \in kinds1

\* What a reading turns off is turned off by a directive that is outside every
\* literal for the databases that read so.
LEMMA DirectiveHeard ==
  ASSUME NEW R \in Reader, NEW C, NEW s \in Seq(C), NEW ms, Run(R, s, ms),
         NEW b \in BOOLEAN, NEW d \in BOOLEAN, NEW h \in BOOLEAN, NEW l \in BOOLEAN,
         FlagsFit(R, s, b, d, h, l), NEW o, o = commentDirective(s, b, d)
  PROVE  /\ o.all => \E k \in 1 .. Len(s) : Placed(s, ms, k, {"all"}, {"plain", "comment"})
         /\ o.rules # {} => \E k \in 1 .. Len(s) : Placed(s, ms, k, Directive, {"plain", "comment"})
PROOF
  <1>1. Heeds(o, s, b, d)
    BY DirectiveIs
  <1>2. ASSUME NEW k \in Heard(s, b, d)
        PROVE  k \in 1 .. Len(s) /\ Placed(s, ms, k, Directive, {"plain", "comment"})
    <2>1. /\ k \in 1 .. Len(s) /\ s[k].char \in Directive
          /\ Inside(lexSQL(s, b, d, h, l, "literal"), k) = {}
      BY <1>2 DEF Heard
    <2>3. Kind(ms[k - 1], ms[k]) \in {"plain", "comment"}
      BY <2>1, LexKinds DEF Special, Quote, Directive, isIdentByte, Letter, isDigit
    <2> QED BY <2>1, <2>3 DEF Placed
  <1>4. o.rules # {} => \E k \in Heard(s, b, d) : TRUE
    BY <1>1 DEF Heeds
  <1> QED BY <1>1, <1>2, <1>4 DEF Heeds, Placed

\* A directive in a comment counts, where every reading of the markers is R's.
LEMMA DirectiveCounts ==
  ASSUME NEW R \in Reader, NEW C, NEW s \in Seq(C), NEW ms, Run(R, s, ms),
         NEW b \in BOOLEAN, NEW d \in BOOLEAN,
         \A h \in BOOLEAN, l \in BOOLEAN : FlagsFit(R, s, b, d, h, l),
         NEW o, o = commentDirective(s, b, d), NEW k \in 1 .. Len(s)
  PROVE  /\ Placed(s, ms, k, {"all"}, {"comment"}) => o.all
         /\ Placed(s, ms, k, Directive, {"comment"}) => o.all \/ o.rules # {}
PROOF
  <1>1. Heeds(o, s, b, d)
    BY DirectiveIs
  <1>2. ASSUME Placed(s, ms, k, Directive, {"comment"}) PROVE k \in Heard(s, b, d)
    <2>1. s[k].char \in Directive /\ Kind(ms[k - 1], ms[k]) = "comment"
      BY <1>2 DEF Placed
    <2>3. ASSUME NEW h \in BOOLEAN, NEW l \in BOOLEAN
          PROVE  /\ Inside(lexSQL(s, b, d, h, l, "literal"), k) = {}
                 /\ Inside(lexSQL(s, b, d, h, l, "comment"), k) # {}
      <3>1. FlagsFit(R, s, b, d, h, l)
        OBVIOUS
      <3> QED BY <2>1, <3>1, LexKinds DEF Special, Quote, Directive, isIdentByte, Letter, isDigit
    <2>4. DOMAIN s = 1 .. Len(s)
      OBVIOUS
    <2> QED BY <2>1, <2>3, <2>4 DEF Heard
  <1>4. (\E i \in Heard(s, b, d) : s[i].char = "all") => o.all
    BY <1>1 DEF Heeds
  <1>5. Heard(s, b, d) # {} => o.all \/ o.rules # {}
    BY <1>1 DEF Heeds
  <1> QED BY <1>2, <1>4, <1>5 DEF Placed, Directive

\* What the intersection of a set of directives is, by the one it takes first.
Some(S) == CHOOSE x \in S : TRUE
Meeting(G, it) ==
    it = [S \in SUBSET G |-> IF S = {} THEN Off(TRUE, {})
                             ELSE intersectDirectives(Some(S), it[S \ {Some(S)}])]
Meet(G) == CHOOSE it : Meeting(G, it)

LEMMA OneLess ==
  ASSUME NEW G, IsFiniteSet(G), NEW S \in SUBSET G, S # {}
  PROVE  /\ Some(S) \in S /\ S \ {Some(S)} \in SUBSET G
         /\ IsFiniteSet(S) /\ Cardinality(S) \in Nat
         /\ Cardinality(S \ {Some(S)}) = Cardinality(S) - 1
PROOF
  <1>1. Some(S) \in S
    BY DEF Some
  <1>2. IsFiniteSet(S) /\ Cardinality(S) \in Nat
    BY FS_Subset, FS_CardinalityType
  <1> QED BY <1>1, <1>2, FS_RemoveElement

\* The recursive equation of FoldSet has a solution.
LEMMA MeetExists ==
  ASSUME NEW G, IsFiniteSet(G)
  PROVE  Meeting(G, Meet(G))
PROOF
  <1> DEFINE More(S, x) == intersectDirectives(Some(S), x)
             Next1(g) == [S \in SUBSET G |-> IF S = {} THEN Off(TRUE, {}) ELSE More(S, g[S \ {Some(S)}])]
             Right(g, n) == \A S \in SUBSET G : Cardinality(S) <= n => g[S] = Next1(g)[S]
             T == {n \in Nat : \E g : Right(g, n)}
  <1>1. 0 \in T
    <2> DEFINE g == [S \in SUBSET G |-> Off(TRUE, {})]
    <2>1. ASSUME NEW S \in SUBSET G, Cardinality(S) <= 0 PROVE g[S] = Next1(g)[S]
      <3>1. S = {}
        <4>1. IsFiniteSet(S) /\ Cardinality(S) \in Nat
          BY FS_Subset, FS_CardinalityType
        <4> QED BY <2>1, <4>1, FS_EmptySet
      <3> QED BY <3>1
    <2> QED BY <2>1
  <1>2. ASSUME NEW n \in Nat, n \in T PROVE n + 1 \in T
    <2>1. PICK g : Right(g, n)
      BY <1>2
    <2> DEFINE h == Next1(g)
    <2>2. ASSUME NEW S \in SUBSET G, Cardinality(S) <= n + 1 PROVE h[S] = Next1(h)[S]
      <3>1. CASE S = {}
        BY <3>1
      <3>2. CASE S # {}
        <4> DEFINE r == S \ {Some(S)}
        <4>1. r \in SUBSET G /\ Cardinality(r) <= n
          BY <2>2, <3>2, OneLess
        <4>2. g[r] = h[r]
          <5> HIDE DEF h, r
          <5>1. g[r] = Next1(g)[r]
            BY <2>1, <4>1
          <5> QED BY <5>1 DEF h
        <4>3. h[S] = More(S, g[r]) /\ Next1(h)[S] = More(S, h[r])
          <5> HIDE DEF More
          <5> QED BY <3>2
        <4> HIDE DEF h, More, r
        <4> QED BY <4>2, <4>3
      <3> QED BY <3>1, <3>2
    <2> HIDE DEF h, Next1
    <2> QED BY <2>2
  <1> HIDE DEF T
  <1>3. Nat \subseteq T
    BY <1>1, <1>2, Induct
  <1> USE DEF T
  <1>4. Cardinality(G) \in Nat
    BY FS_CardinalityType
  <1>5. PICK g : Right(g, Cardinality(G))
    BY <1>3, <1>4
  <1>7. \A S \in SUBSET G : g[S] = Next1(g)[S]
    <2> HIDE DEF Next1
    <2> QED BY <1>5, FS_Subset
  <1> DEFINE h == Next1(g)
  <1>8. \A S \in SUBSET G : h[S] = Next1(h)[S]
    <2> SUFFICES ASSUME NEW S \in SUBSET G PROVE h[S] = Next1(h)[S]
      OBVIOUS
    <2>1. CASE S = {}
      BY <2>1
    <2>2. CASE S # {}
      <3> DEFINE r == S \ {Some(S)}
      <3>1. g[r] = h[r]
        <4> HIDE DEF Next1
        <4> QED BY <1>7
      <3>2. h[S] = More(S, g[r]) /\ Next1(h)[S] = More(S, h[r])
        <4> HIDE DEF More
        <4> QED BY <2>2
      <3> HIDE DEF h, More, r
      <3> QED BY <3>1, <3>2
    <2> QED BY <2>1, <2>2
  <1>9. h = Next1(h)
    <2>1. h = [S \in SUBSET G |-> h[S]]
      OBVIOUS
    <2>2. Next1(h) = [S \in SUBSET G |-> Next1(h)[S]]
      OBVIOUS
    <2> HIDE DEF h, Next1
    <2> QED BY <1>8, <2>1, <2>2
  <1>10. Meeting(G, h)
    <2> HIDE DEF h
    <2> QED BY <1>9 DEF Meeting
  <1> QED BY <1>10 DEF Meet

\* A rule, or every rule, is off.
On(o) == o.all \/ o.rules # {}

\* o is what the directives of S turn off between them.
Agreed(o, S) ==
    /\ o \in Offs
    /\ o.all <=> \A x \in S : x.all
    /\ On(o) <=> \A x \in S : On(x)

LEMMA MeetOfTwo ==
  ASSUME NEW a \in Offs, NEW b \in Offs
  PROVE  LET o == intersectDirectives(a, b)
         IN  o \in Offs /\ (o.all <=> a.all /\ b.all) /\ (On(o) <=> On(a) /\ On(b))
PROOF
  <1>1. /\ Off(TRUE, {}).all /\ On(Off(TRUE, {}))
        /\ ~Off(FALSE, {}).all /\ ~On(Off(FALSE, {})) /\ Off(FALSE, {}).rules = {}
        /\ ~Off(FALSE, {"r"}).all /\ On(Off(FALSE, {"r"})) /\ Off(FALSE, {"r"}).rules = {"r"}
    BY DEF On, Off
  <1>2. CASE a.all /\ b.all
    BY <1>1, <1>2 DEF intersectDirectives, Offs, On
  <1>3. CASE a.all /\ ~b.all
    BY <1>3 DEF intersectDirectives, On
  <1>4. CASE ~a.all /\ b.all
    BY <1>4 DEF intersectDirectives, On
  <1>5. CASE ~a.all /\ ~b.all
    <2>1. intersectDirectives(a, b) = Off(FALSE, a.rules \cap b.rules)
      BY <1>5 DEF intersectDirectives
    <2>3. a.rules \cap b.rules = IF a.rules # {} /\ b.rules # {} THEN {"r"} ELSE {}
      BY <1>1, <1>5 DEF Offs
    <2>4. CASE a.rules # {} /\ b.rules # {}
      BY <1>1, <1>5, <2>1, <2>3, <2>4 DEF Offs, On
    <2>5. CASE ~(a.rules # {} /\ b.rules # {})
      BY <1>1, <1>5, <2>1, <2>3, <2>5 DEF Offs, On
    <2> QED BY <2>4, <2>5
  <1> QED BY <1>2, <1>3, <1>4, <1>5

LEMMA MeetAgrees ==
  ASSUME NEW G, IsFiniteSet(G), G \subseteq Offs
  PROVE  Agreed(Meet(G)[G], G)
PROOF
  <1> DEFINE it == Meet(G)
             T == {n \in Nat : \A S \in SUBSET G : Cardinality(S) <= n => Agreed(it[S], S)}
  <1>2. \A S \in SUBSET G : it[S] = IF S = {} THEN Off(TRUE, {})
                                    ELSE intersectDirectives(Some(S), it[S \ {Some(S)}])
    BY MeetExists DEF Meeting
  <1> HIDE DEF it
  <1>3. Agreed(it[{}], {})
    BY <1>2, OffIs DEF Agreed, Offs, On
  <1>4. 0 \in T
    <2> SUFFICES ASSUME NEW S \in SUBSET G, Cardinality(S) <= 0 PROVE Agreed(it[S], S)
      OBVIOUS
    <2>1. IsFiniteSet(S) /\ Cardinality(S) \in Nat
      BY FS_Subset, FS_CardinalityType
    <2>3. S = {}
      BY <2>1, FS_EmptySet
    <2> QED BY <1>3, <2>3
  <1>5. ASSUME NEW n \in Nat, n \in T PROVE n + 1 \in T
    <2> SUFFICES ASSUME NEW S \in SUBSET G, Cardinality(S) <= n + 1 PROVE Agreed(it[S], S)
      OBVIOUS
    <2>1. CASE S = {}
      BY <1>3, <2>1
    <2>2. CASE S # {}
      <3> DEFINE x == Some(S)
                 r == S \ {x}
                 o == it[S]
      <3>1. x \in S /\ r \in SUBSET G /\ Cardinality(r) <= n
        BY <2>2, OneLess
      <3>2. Agreed(it[r], r)
        BY <1>5, <3>1
      <3>3. o = intersectDirectives(x, it[r])
        BY <1>2, <2>2
      <3>4. x \in Offs /\ it[r] \in Offs
        BY <3>1, <3>2 DEF Agreed
      <3>5. S = r \cup {x}
        BY <3>1
      <3> HIDE DEF x, r, o
      <3>6. /\ o \in Offs
            /\ o.all <=> x.all /\ it[r].all
            /\ On(o) <=> On(x) /\ On(it[r])
        BY <3>3, <3>4, MeetOfTwo
      <3>7. Agreed(o, S)
        BY <3>2, <3>5, <3>6 DEF Agreed
      <3> QED BY <3>7 DEF o
    <2> QED BY <2>1, <2>2
  <1> HIDE DEF T
  <1>6. Nat \subseteq T
    BY <1>4, <1>5, Induct
  <1>7. Cardinality(G) \in Nat
    BY FS_CardinalityType
  <1> QED BY <1>6, <1>7 DEF T, it

LEMMA FoldIsMeet ==
  ASSUME NEW G
  PROVE  FoldSet(intersectDirectives, Off(TRUE, {}), G) = Meet(G)[G]
PROOF
  BY DEF FoldSet, MapThenFoldSet, Meet, Meeting, Some
-----------------------------------------------------------------------------
(* The text as it is written.                                              *)

LEMMA BytesAre ==
  ASSUME NEW A, NEW t \in Seq(A)
  PROVE  /\ \E C : Bytes(t) \in Seq(C)
         /\ Len(Bytes(t)) = Len(t)
         /\ \A k \in 1 .. Len(t) : Bytes(t)[k].char = t[k] /\ Bytes(t)[k].at = k
         /\ DOMAIN Bytes(t) = 1 .. Len(t)
PROOF
  <1> DEFINE C == [char : A, at : Nat]
             s == Bytes(t)
             n == Len(t)
  <1>1. n \in Nat /\ DOMAIN t = 1 .. n /\ \A k \in 1 .. n : t[k] \in A
    OBVIOUS
  <1>2. s = [i \in 1 .. n |-> [char |-> t[i], at |-> i]]
    BY <1>1 DEF Bytes
  <1>3. \A i \in 1 .. n : [char |-> t[i], at |-> i] \in C
    BY <1>1
  <1> HIDE DEF n, C, s
  <1>4. s \in [1 .. n -> C]
    BY <1>2, <1>3
  <1>5. s \in Seq(C) /\ Len(s) = n
    BY <1>1, <1>4
  <1>6. \A k \in 1 .. n : s[k].char = t[k] /\ s[k].at = k
    BY <1>2
  <1> QED BY <1>2, <1>5, <1>6 DEF n, s

InComments == {"comment", "dash", "block"}

\* What a database can be in the middle of.
Shaped(m) ==
    /\ m.in \in {"string", "escape", "name", "closed"} => m.quote \in Quote \cup {"bt"}
    /\ m.in = "closed" => m.tag[1] \in {"string", "name"}
    /\ m.in = "block" => m.tag = << >>
    /\ m.in \in {"plain", "string", "escape", "name", "closed", "tag", "dollar"} \cup InComments

LEMMA BeginsShaped ==
  ASSUME NEW R \in Reader, NEW c, NEW prev
  PROVE  Shaped(Begins(R, c, prev))
PROOF
  <1>1. \A w, q : Shaped(InRun(w, q)) <=>
           /\ w \in {"string", "escape", "name", "closed"} => q \in Quote \cup {"bt"}
           /\ w = "closed" => InRun(w, q).tag[1] \in {"string", "name"}
           /\ w = "block" => InRun(w, q).tag = << >>
           /\ w \in {"plain", "string", "escape", "name", "closed", "tag", "dollar"} \cup InComments
    BY FieldsOf DEF Shaped
  <1>2. \A w \in {"plain", "tag", "comment", "dash", "block"} : Shaped(In(w))
    BY FieldsOf DEF Shaped, InComments
  <1>3. Databases[R].strings \subseteq Quote /\ Databases[R].names \subseteq {"dq", "bt"}
    BY DatabaseIs
  <1>4. CASE c \in Databases[R].strings
    BY <1>1, <1>3, <1>4, BeginsQuoted
  <1>5. CASE c \in Databases[R].names
    BY <1>1, <1>3, <1>5, BeginsQuoted DEF Quote
  <1>6. CASE c \notin Databases[R].strings \cup Databases[R].names
    <2>1. Begins(R, c, prev) \in {Plain} \cup {In(w) : w \in {"tag", "comment", "dash", "block"}}
      <3>1. CASE c \in {"$", "--", "#", "/*"}
        BY <3>1, BeginsOther
      <3>2. CASE c = "bt"
        BY <1>6, <3>2, BeginsQuoted
      <3>3. CASE c \notin Special
        BY <3>3, BeginsOther
      <3> QED BY <1>6, <3>1, <3>2, <3>3, DatabaseIs DEF Special
    <2> QED BY <1>2, <2>1 DEF Plain
  <1> QED BY <1>4, <1>5, <1>6

LEMMA StepsShaped ==
  ASSUME NEW R \in Reader, NEW m, Shaped(m), NEW c, NEW prev
  PROVE  Shaped(Steps(R, m, c, prev))
PROOF
  <1> DEFINE x == Steps(R, m, c, prev)
             y == Begins(R, c, prev)
  <1>0. Shaped(y) /\ Shaped(Plain)
    BY FieldsOf, BeginsShaped DEF Shaped, Plain
  <1>1. \A w \in {"string", "escape", "name"}, q \in Quote \cup {"bt"} : Shaped(InRun(w, q))
    BY FieldsOf DEF Shaped
  <1>2. \A t, z : \A w \in {"tag", "dollar"} : Shaped(InTag(w, t, z))
    BY FieldsOfTag DEF Shaped
  <1>3. CASE m.in \in {"string", "name"}
    <2>2. m.quote \in Quote \cup {"bt"}
      BY <1>3 DEF Shaped
    <2>3. c = m.quote => Shaped(Mode("closed", c, <<m.in>>, << >>))
      BY <1>3, <2>2, Fields DEF Shaped
    <2> HIDE DEF x
    <2> QED BY <1>1, <1>3, <2>2, <2>3 DEF Steps, Reads, x
  <1>4. CASE m.in = "escape"
    BY <1>1, <1>4 DEF Steps, Reads, Shaped
  <1>5. CASE m.in = "closed"
    <2>2. m.tag[1] \in {"string", "name"} /\ m.quote \in Quote \cup {"bt"}
      BY <1>5 DEF Shaped
    <2> HIDE DEF x, y
    <2> QED BY <1>0, <1>1, <1>5, <2>2 DEF Steps, Reads, x, y
  <1>6. CASE m.in = "tag"
    <2> HIDE DEF x, y
    <2> QED BY <1>0, <1>2, <1>6 DEF Steps, Reads, x, y
  <1>7. CASE m.in = "dollar"
    <2>1. PICK z : x = Plain \/ x = InTag("dollar", m.tag, z)
      <3> DEFINE d == <<"$">> \o m.tag
      <3>1. x = IF c = "$" /\ m.match = d THEN Plain
                ELSE IF IsPrefix(Append(m.match, c), d)
                THEN InTag("dollar", m.tag, Append(m.match, c))
                ELSE InTag("dollar", m.tag, IF c = "$" THEN <<"$">> ELSE << >>)
        BY <1>7 DEF Steps, Reads
      <3> HIDE DEF x, d
      <3> QED BY <3>1
    <2> QED BY <1>0, <1>2, <2>1
  <1>8. CASE m.in = "dash"
    <2>2. Shaped(In("comment"))
      BY FieldsOf DEF Shaped, InComments
    <2> HIDE DEF x, y
    <2> QED BY <1>0, <1>8, <2>2 DEF Steps, Reads, x, y
  <1>9. CASE m.in \in {"comment", "block"}
    <2>1. CASE m.in = "comment"
      BY <1>0, <2>1 DEF Steps, Reads
    <2>2. CASE m.in = "block"
      BY <1>0, <2>2 DEF Steps, Reads
    <2> QED BY <1>9, <2>1, <2>2
  <1>10. CASE m.in = "plain"
    BY <1>0, <1>10 DEF Steps, Reads
  <1> QED BY <1>3, <1>4, <1>5, <1>6, <1>7, <1>8, <1>9, <1>10 DEF Shaped, InComments

LEMMA StepsAre ==
  ASSUME NEW R \in Reader, NEW m, Shaped(m), NEW c, NEW prev, ~Nests(R, m, c)
  PROVE  Reads(R, m, c, prev) = Steps(R, m, c, prev)
PROOF
  <1>1. CASE m.in = "block"
    BY <1>1 DEF Steps, Reads, Shaped
  <1>2. CASE m.in # "block"
    BY <1>2 DEF Steps
  <1> QED BY <1>1, <1>2

\* The modes and the kinds are those of R reading the text.
Followed(R, t, m, ks) ==
    \E ms : /\ Run(R, Bytes(t), ms) /\ m = ms[Len(t)]
            /\ \E K : ks \in Seq(K)
            /\ Len(ks) = Len(t)
            /\ \A k \in 1 .. Len(t) : ks[k] = Kind(ms[k - 1], ms[k])

LEMMA FollowedOn ==
  ASSUME NEW R \in Reader, NEW A, NEW t \in Seq(A), NEW c \in A, NEW m, NEW ks,
         Followed(R, t, m, ks), NEW x,
         x = Steps(R, m, c, IF t = << >> THEN "start" ELSE Last(t))
  PROVE  Followed(R, Append(t, c), x, Append(ks, Kind(m, x)))
PROOF
  <1> DEFINE n == Len(t)
             u == Append(t, c)
             kind == Kind(m, x)
             ls == Append(ks, kind)
             s == Bytes(t)
             r == Bytes(u)
  <1>1. PICK ms : /\ Run(R, s, ms) /\ m = ms[n]
                  /\ \E K : ks \in Seq(K)
                  /\ Len(ks) = n
                  /\ \A k \in 1 .. n : ks[k] = Kind(ms[k - 1], ms[k])
    BY DEF Followed
  <1>2. PICK K : ks \in Seq(K)
    BY <1>1
  <1>3. /\ n \in Nat /\ u \in Seq(A) /\ Len(u) = n + 1 /\ u[n + 1] = c
        /\ \A k \in 1 .. n : u[k] = t[k]
    OBVIOUS
  <1>4. /\ ls \in Seq(K \cup {kind}) /\ Len(ls) = n + 1 /\ ls[n + 1] = kind
        /\ \A k \in 1 .. n : ls[k] = ks[k]
    <2> HIDE DEF kind, n
    <2> QED BY <1>1, <1>2 DEF n
  <1>5. Len(s) = n /\ \A k \in 1 .. n : s[k].char = t[k]
    BY BytesAre
  <1>6. Len(r) = n + 1 /\ \A k \in 1 .. n + 1 : r[k].char = u[k]
    <2> HIDE DEF u
    <2> QED BY <1>3, BytesAre DEF u
  <1>7. (IF t = << >> THEN "start" ELSE Last(t)) = Prev(r, n + 1)
    <2>1. CASE t = << >>
      BY <2>1 DEF Prev
    <2>2. CASE t # << >>
      <3>1. n >= 1 /\ n \in 1 .. n + 1 /\ n + 1 # 1 /\ n \in 1 .. n /\ (n + 1) - 1 = n
        BY <2>2
      <3>2. Last(t) = t[n]
        BY DEF Last
      <3> HIDE DEF n, u, r
      <3>3. r[n].char = t[n]
        BY <1>3, <1>6, <3>1
      <3> QED BY <2>2, <3>1, <3>2, <3>3 DEF Prev
    <2> QED BY <2>1, <2>2
  <1> DEFINE ns == [k \in 0 .. n + 1 |-> IF k = n + 1 THEN x ELSE ms[k]]
  <1>8. ns[n + 1] = x /\ \A k \in 0 .. n : ns[k] = ms[k]
    <2> HIDE DEF n
    <2> QED BY <1>3
  <1> HIDE DEF ns, n, u, r, s, ls, kind
  <1>9. Run(R, r, ns)
    <2>1. ns[0] = Plain
      BY <1>1, <1>3, <1>8 DEF Run
    <2>2. ASSUME NEW k \in 1 .. n + 1
          PROVE  ns[k] = Steps(R, ns[k - 1], r[k].char, Prev(r, k))
      <3>1. CASE k = n + 1
        <4>2. ns[k - 1] = m /\ r[k].char = c
          BY <1>1, <1>3, <1>6, <1>8, <3>1
        <4> QED BY <1>7, <1>8, <3>1, <4>2
      <3>2. CASE k # n + 1
        <4>1. k \in 1 .. n /\ k \in 0 .. n /\ k - 1 \in 0 .. n
          BY <1>3, <3>2
        <4>3. r[k].char = s[k].char
          BY <1>3, <1>5, <1>6, <4>1
        <4>4. Prev(r, k) = Prev(s, k)
          <5>1. CASE k = 1
            BY <5>1 DEF Prev
          <5>2. CASE k # 1
            <6>2. r[k - 1].char = s[k - 1].char
              BY <1>3, <1>5, <1>6, <4>1, <5>2
            <6> QED BY <5>2, <6>2 DEF Prev
          <5> QED BY <5>1, <5>2
        <4>5. ns[k] = ms[k] /\ ns[k - 1] = ms[k - 1]
          BY <1>8, <4>1
        <4> QED BY <1>1, <1>5, <4>1, <4>3, <4>4, <4>5 DEF Run
      <3> QED BY <3>1, <3>2
    <2> QED BY <1>6, <2>1, <2>2 DEF Run
  <1>10. ASSUME NEW k \in 1 .. n + 1 PROVE ls[k] = Kind(ns[k - 1], ns[k])
    <2>1. CASE k = n + 1
      BY <1>1, <1>3, <1>4, <1>8, <2>1 DEF kind
    <2>2. CASE k # n + 1
      BY <1>1, <1>3, <1>4, <1>8, <2>2
    <2> QED BY <2>1, <2>2
  <1>11. x = ns[Len(u)]
    BY <1>3, <1>8
  <1>12. \E L : ls \in Seq(L)
    BY <1>4
  <1>13. Followed(R, u, x, ls)
    BY <1>3, <1>4, <1>9, <1>10, <1>11, <1>12 DEF Followed, r
  <1> QED BY <1>13 DEF u, ls, kind

\* The text is a sequence of characters, and every database has read it so far
\* as one without a comment in a comment, unless it has met one.
TextInv ==
    /\ text \in Seq(alphabet)
    /\ nested \subseteq {R \in Reader : Databases[R].nests}
    /\ \A R \in Reader \ nested : Shaped(mode[R]) /\ Followed(R, text, mode[R], kinds[R])

LEMMA TextInvInit == Init => TextInv
PROOF
  <1> SUFFICES ASSUME Init PROVE TextInv
    OBVIOUS
  <1>1. text = << >> /\ text \in Seq(alphabet) /\ Len(text) = 0
    BY DEF Init
  <1>2. ASSUME NEW R \in Reader PROVE Followed(R, text, mode[R], kinds[R])
    <2> DEFINE ms == [k \in 0 .. 0 |-> Plain]
    <2>1. ms[0] = Plain
      OBVIOUS
    <2> HIDE DEF ms
    <2>4. Run(R, Bytes(text), ms)
      <3>1. \A k \in 1 .. 0 : FALSE
        OBVIOUS
      <3> QED BY <1>1, <2>1, <3>1, BytesAre DEF Run
    <2>5. << >> \in Seq({}) /\ Len(<< >>) = 0 /\ \A k \in 1 .. 0 : FALSE
      OBVIOUS
    <2> QED BY <1>1, <2>1, <2>4, <2>5 DEF Init, Followed
  <1>3. nested = {} /\ \A R \in Reader : mode[R] = Plain
    BY DEF Init
  <1>4. Shaped(Plain)
    BY FieldsOf DEF Shaped, Plain
  <1> QED BY <1>1, <1>2, <1>3, <1>4 DEF TextInv

LEMMA TextInvNext == TextInv /\ [Next]_vars => TextInv'
PROOF
  <1> SUFFICES ASSUME TextInv, [Next]_vars PROVE TextInv'
    OBVIOUS
  <1>1. CASE UNCHANGED vars
    BY <1>1 DEF TextInv, vars
  <1>2. ASSUME NEW c \in alphabet, Type(c) PROVE TextInv'
    <2> DEFINE prev == IF text = << >> THEN "start" ELSE Last(text)
               next(R) == Reads(R, mode[R], c, prev)
               step(R) == Steps(R, mode[R], c, prev)
    <2>1. /\ text' = Append(text, c) /\ alphabet' = alphabet
          /\ mode' = [R \in Reader |-> next(R)]
          /\ kinds' = [R \in Reader |-> Append(kinds[R], Kind(mode[R], next(R)))]
          /\ nested' = nested \cup {R \in Reader : Nests(R, mode[R], c)}
      <3>1. /\ mode' = [R \in Reader |-> next(R)] /\ text' = Append(text, c) /\ alphabet' = alphabet
            /\ nested' = nested \cup {R \in Reader : Nests(R, mode[R], c)}
        BY <1>2 DEF Type
      <3>3. \A R \in Reader : mode'[R] = next(R)
        BY <3>1
      <3> HIDE DEF next
      <3> QED BY <1>2, <3>1, <3>3 DEF Type
    <2>2. \A R \in Reader \ nested' : Shaped(mode[R]) /\ next(R) = step(R)
      <3> HIDE DEF prev
      <3>1. \A R \in Reader \ nested' : Shaped(mode[R]) /\ ~Nests(R, mode[R], c)
        BY <2>1 DEF TextInv
      <3> QED BY <3>1, StepsAre
    <2>3. ASSUME NEW R \in Reader \ nested'
          PROVE  Shaped(mode'[R]) /\ Followed(R, text', mode'[R], kinds'[R])
      <3>2. Shaped(step(R))
        BY <2>2, StepsShaped
      <3>3. \A x : x = step(R) =>
              Followed(R, Append(text, c), x, Append(kinds[R], Kind(mode[R], x)))
        BY <2>1, FollowedOn DEF TextInv
      <3> HIDE DEF next, step
      <3> QED BY <2>1, <2>2, <3>2, <3>3
    <2>4. nested' \subseteq {R \in Reader : Databases[R].nests}
      BY <2>1 DEF TextInv, Nests
    <2> HIDE DEF next, step
    <2> QED BY <2>1, <2>3, <2>4 DEF TextInv
  <1> QED BY <1>1, <1>2 DEF Next
-----------------------------------------------------------------------------
(* The directives of the text.                                             *)

LEMMA ToSetOf ==
  ASSUME NEW A, NEW t \in Seq(A), NEW c
  PROVE  c \in ToSet(t) <=> \E i \in 1 .. Len(t) : t[i] = c
PROOF
  BY DEF ToSet

\* The reading parseIgnoreDirective tries that is R's.
LEMMA ReadingOf ==
  ASSUME TextInv, NEW R \in Reader, KnowsQuotes(R), ~EscapesApart(R)
  PROVE  \E b \in BOOLEAN, d \in BOOLEAN, h \in BOOLEAN, l \in BOOLEAN :
           /\ b => "\\" \in ToSet(text)
           /\ d \/ "$" \in ToSet(text)
           /\ FlagsFit(R, Bytes(text), b, d, h, l)
PROOF
  <1> DEFINE db == Databases[R]
             s == Bytes(text)
             b == "\\" \in ToSet(text) /\ db.escapes # {}
             d == IF "$" \in ToSet(text) THEN db.dollar ELSE TRUE
  <1>1. text \in Seq(alphabet)
    BY DEF TextInv
  <1>3. \A i \in 1 .. Len(s) : s[i].char \in ToSet(text)
    BY <1>1, BytesAre, ToSetOf
  <1>4. db.escapes \in {{}, {"'"}, Quote}
    BY DEF Reader, Databases
  <1>5. db.dollar \in BOOLEAN /\ db.hash \in BOOLEAN /\ db.looseDash \in BOOLEAN
    BY DatabaseIs
  <1> HIDE DEF s
  <1>6. ASSUME NEW i \in 1 .. Len(s), NEW j \in 1 .. Len(s), s[i].char = "\\", s[j].char \in Quote
        PROVE  b <=> s[j].char \in db.escapes
    <2>1. "\\" \in ToSet(text) /\ s[j].char \in ToSet(text)
      BY <1>3, <1>6
    <2>2. db.escapes = {"'"} => s[j].char = "'"
      BY <1>6, <2>1 DEF EscapesApart, Quote
    <2>3. b <=> db.escapes # {}
      BY <2>1
    <2> HIDE DEF b, db
    <2>4. CASE db.escapes = {}
      BY <2>3, <2>4
    <2>5. CASE db.escapes = {"'"}
      BY <2>2, <2>3, <2>5
    <2>6. CASE db.escapes = Quote
      BY <1>6, <2>3, <2>6 DEF Quote
    <2> QED BY <1>4, <2>4, <2>5, <2>6
  <1>7. ASSUME NEW i \in 1 .. Len(s), s[i].char = "$" PROVE d = db.dollar
    BY <1>3, <1>7
  <1>8. ASSUME NEW i \in 1 .. Len(s), s[i].char = "bt" PROVE "bt" \in db.names
    BY <1>3, <1>8 DEF KnowsQuotes
  <1>9. b \in BOOLEAN /\ d \in BOOLEAN
    BY <1>5
  <1>10. (b => "\\" \in ToSet(text)) /\ (d \/ "$" \in ToSet(text))
    OBVIOUS
  <1> HIDE DEF b, d, db
  <1>11. FlagsFit(R, s, b, d, db.hash, db.looseDash)
    BY <1>6, <1>7, <1>8 DEF FlagsFit, db
  <1> QED BY <1>5, <1>9, <1>10, <1>11 DEF s

\* In SQLite comments do not nest.
LEMMA SQLiteReads ==
  ASSUME TextInv
  PROVE  "sqlite" \in Reader /\ "sqlite" \notin nested
PROOF
  <1>1. "sqlite" \in Reader /\ Databases["sqlite"].nests = FALSE
    BY DEF Reader, Databases
  <1> QED BY <1>1 DEF TextInv

\* Where the databases agree on comments, every reading is SQLite's.
LEMMA ReadingsAgree ==
  ASSUME TextInv, SameComments, {"\\", "$"} \cap ToSet(text) = {},
         NEW b \in BOOLEAN, NEW d \in BOOLEAN, NEW h \in BOOLEAN, NEW l \in BOOLEAN
  PROVE  FlagsFit("sqlite", Bytes(text), b, d, h, l)
PROOF
  <1> DEFINE s == Bytes(text)
  <1>1. text \in Seq(alphabet)
    BY DEF TextInv
  <1>2. /\ Len(s) = Len(text) /\ DOMAIN text = 1 .. Len(text) /\ Len(text) \in Nat
        /\ \A i \in 1 .. Len(text) : s[i].char = text[i]
    BY <1>1, BytesAre
  <1> HIDE DEF s
  <1>4. \A i \in 1 .. Len(s) : s[i].char \notin {"\\", "$", "#"}
    BY <1>1, <1>2, ToSetOf DEF SameComments
  <1>5. ASSUME NEW i \in 1 .. Len(s), s[i].char = "--", i < Len(s) PROVE s[i + 1].char \in Blank
    <2>1. text[i] = "--" /\ i \in DOMAIN text /\ i < Len(text) /\ i + 1 \in 1 .. Len(text)
      BY <1>2, <1>5
    <2> QED BY <1>2, <2>1 DEF SameComments
  <1> QED BY <1>4, <1>5 DEF Databases, FlagsFit, s

LEMMA DirectivesAgree ==
  ASSUME TextInv, Directed
  PROVE  HeardWhereVisible(parseIgnoreDirective(text))
PROOF
  <1> DEFINE s == Bytes(text)
             backslashes == {b \in BOOLEAN : b => "\\" \in ToSet(text)}
             dollars == {d \in BOOLEAN : d \/ "$" \in ToSet(text)}
             G == {commentDirective(s, b, d) : b \in backslashes, d \in dollars}
             o == parseIgnoreDirective(text)
             n == Len(text)
  <1>1. o = Meet(G)[G]
    <2>1. o = FoldSet(intersectDirectives, Off(TRUE, {}), directiveReadings(text))
      BY DEF parseIgnoreDirective, Directed
    <2> HIDE DEF o
    <2>2. FoldSet(intersectDirectives, Off(TRUE, {}), directiveReadings(text))
          = Meet(directiveReadings(text))[directiveReadings(text)]
      BY FoldIsMeet
    <2>3. directiveReadings(text) = G
      BY DEF directiveReadings
    <2> HIDE DEF G
    <2> QED BY <2>1, <2>2, <2>3
  <1>2. G \subseteq Offs
    BY DirectiveIs DEF Heeds
  <1>3. IsFiniteSet(G)
    <2>1. IsFiniteSet(Offs)
      <3>1. Offs = {Off(TRUE, {})} \cup {Off(FALSE, {})} \cup {Off(FALSE, {"r"})}
        BY DEF Offs
      <3> QED BY <3>1, FS_Singleton, FS_Union
    <2> HIDE DEF G
    <2> QED BY <1>2, <2>1, FS_Subset
  <1> HIDE DEF o
  <1>4. Agreed(o, G)
    <2> HIDE DEF G
    <2> QED BY <1>1, <1>2, <1>3, MeetAgrees
  <1>5. text \in Seq(alphabet) /\ \A R \in Reader \ nested : Followed(R, text, mode[R], kinds[R])
    BY DEF TextInv
  <1>6. /\ n \in Nat /\ DOMAIN text = 1 .. n /\ Len(s) = n
        /\ \A k \in 1 .. n : s[k].char = text[k]
        /\ \E C : s \in Seq(C)
    BY <1>5, BytesAre
  <1>7. PICK C : s \in Seq(C)
    BY <1>6
  <1> HIDE DEF s, n
  <1>8. ASSUME NEW R \in Reader \ nested, KnowsQuotes(R), ~EscapesApart(R)
        PROVE  /\ o.all => \E k \in 1 .. n : text[k] = "all" /\ kinds[R][k] \in {"plain", "comment"}
               /\ o.rules # {} => \E k \in 1 .. n : text[k] \in Directive /\ kinds[R][k] \in {"plain", "comment"}
    <2>1. PICK ms : /\ Run(R, s, ms)
                    /\ \A k \in 1 .. n : kinds[R][k] = Kind(ms[k - 1], ms[k])
      BY <1>5 DEF Followed, s, n
    <2>2. PICK b \in BOOLEAN, d \in BOOLEAN, h \in BOOLEAN, l \in BOOLEAN :
             b \in backslashes /\ d \in dollars /\ FlagsFit(R, s, b, d, h, l)
      BY <1>8, ReadingOf DEF s
    <2> DEFINE p == commentDirective(s, b, d)
    <2>3. p \in G
      BY <2>2
    <2>4. (o.all => p.all) /\ (On(o) => On(p))
      <3> HIDE DEF p, G
      <3> QED BY <1>4, <2>3 DEF Agreed
    <2>5. /\ p.all => \E k \in 1 .. n : Placed(s, ms, k, {"all"}, {"plain", "comment"})
          /\ p.rules # {} => \E k \in 1 .. n : Placed(s, ms, k, Directive, {"plain", "comment"})
      <3>1. \A q : q = p =>
              /\ q.all => \E k \in 1 .. Len(s) : Placed(s, ms, k, {"all"}, {"plain", "comment"})
              /\ q.rules # {} => \E k \in 1 .. Len(s) : Placed(s, ms, k, Directive, {"plain", "comment"})
        BY <1>7, <2>1, <2>2, DirectiveHeard
      <3> HIDE DEF p
      <3> QED BY <1>6, <3>1
    <2>6. \A D : \A k \in 1 .. n : Placed(s, ms, k, D, {"plain", "comment"}) =>
             text[k] \in D /\ kinds[R][k] \in {"plain", "comment"}
      BY <1>6, <2>1 DEF Placed
    <2> HIDE DEF p, G
    <2> QED BY <2>4, <2>5, <2>6 DEF On, Directive
  <1>9. ASSUME SameComments, {"\\", "$"} \cap ToSet(text) = {}, NEW k \in 1 .. n,
               \A R \in Reader : kinds[R][k] = "comment"
        PROVE  /\ text[k] = "all" => o.all
               /\ text[k] = "one" => o.all \/ o.rules # {}
    <2>1. "sqlite" \in Reader /\ "sqlite" \notin nested
      BY SQLiteReads
    <2>2. PICK ms : /\ Run("sqlite", s, ms)
                    /\ \A i \in 1 .. n : kinds["sqlite"][i] = Kind(ms[i - 1], ms[i])
      BY <1>5, <2>1 DEF Followed, s, n
    <2>4. ASSUME NEW q \in G
          PROVE  (text[k] = "all" => q.all) /\ (text[k] = "one" => On(q))
      <3>1. PICK b \in BOOLEAN, d \in BOOLEAN : q = commentDirective(s, b, d)
        OBVIOUS
      <3>3. k \in 1 .. Len(s)
        BY <1>6
      <3>4. /\ Placed(s, ms, k, {"all"}, {"comment"}) => q.all
            /\ Placed(s, ms, k, Directive, {"comment"}) => q.all \/ q.rules # {}
        BY <1>7, <1>9, <2>1, <2>2, <3>1, <3>3, ReadingsAgree, DirectiveCounts DEF s
      <3>5. Kind(ms[k - 1], ms[k]) = "comment"
        BY <1>9, <2>1, <2>2
      <3> QED BY <1>6, <3>4, <3>5 DEF Placed, Directive, On
    <2> HIDE DEF G
    <2> QED BY <1>4, <2>4 DEF Agreed, On
  <1> HIDE DEF G
  <1>10. HeardWhereVisible(o)
    <2> DEFINE commented(D) == \E i \in DOMAIN text :
                                 text[i] \in D /\ \A R \in Reader : kinds[R][i] = "comment"
               heard(R, D) == \E i \in DOMAIN text :
                                text[i] \in D /\ kinds[R][i] \in {"plain", "comment"}
               readers == {R \in Reader \ nested : KnowsQuotes(R) /\ ~EscapesApart(R)}
    <2>1. ASSUME NEW R \in readers
          PROVE  (o.all => heard(R, {"all"})) /\ (o.rules # {} => heard(R, Directive))
      BY <1>6, <1>8
    <2>2. ASSUME SameComments, {"\\", "$"} \cap ToSet(text) = {}
          PROVE  (commented({"all"}) => o.all) /\ (commented({"one"}) => o.all \/ o.rules # {})
      BY <1>6, <1>9, <2>2
    <2> HIDE DEF commented, heard, readers
    <2> QED BY <2>1, <2>2 DEF HeardWhereVisible, commented, heard, readers
  <1> QED BY <1>10 DEF o

\* Each text that is written has for each database a run of its modes, along which
\* the lemmas below follow the scanners (TextReadings: Type).
LEMMA TextRead == Spec => []TextInv
PROOF
  BY TextInvInit, TextInvNext, PTL DEF Spec

\* For every alphabet and every length: a rule is off only by a directive that is
\* outside every literal, for each database that found no comment in a comment and
\* whose escapes are those of one of the readings parseIgnoreDirective tries, and
\* every directive in a comment all of them see counts (suppress.go: parseIgnoreDirective, commentDirective, lexSQL).
THEOREM DirectiveOutsideLiteralsHolds == Spec => []DirectiveOutsideLiterals
PROOF
  <1>1. TextInv => DirectiveOutsideLiterals
    BY DirectivesAgree DEF DirectiveOutsideLiterals
  <1> QED BY <1>1, TextRead, PTL
-----------------------------------------------------------------------------
(* What the code takes in the order a database reads it.                   *)

\* A run is in one of these modes after each byte.
LEMMA RunShaped ==
  ASSUME NEW R \in Reader, NEW C, NEW s \in Seq(C), NEW ms, Run(R, s, ms),
         NEW k \in 0 .. Len(s)
  PROVE  Shaped(ms[k])
PROOF
  <1> DEFINE n == Len(s)
             T == {d \in Nat : d <= n => Shaped(ms[d])}
  <1>1. n \in Nat
    OBVIOUS
  <1>2. 0 \in T
    <2>1. Shaped(Plain)
      BY FieldsOf DEF Shaped, Plain
    <2> QED BY <2>1 DEF Run
  <1>3. ASSUME NEW d \in Nat, d \in T PROVE d + 1 \in T
    <2> SUFFICES ASSUME d + 1 <= n PROVE Shaped(ms[d + 1])
      OBVIOUS
    <2>1. d + 1 \in 1 .. n /\ (d + 1) - 1 = d /\ Shaped(ms[d])
      BY <1>1, <1>3
    <2> QED BY <2>1, StepsShaped DEF Run
  <1> HIDE DEF T
  <1>4. Nat \subseteq T
    BY <1>2, <1>3, Induct
  <1> QED BY <1>1, <1>4 DEF T

\* Nothing but a place outside everything leads into a comment.
LEMMA IntoComment ==
  ASSUME NEW R \in Reader, NEW m, Shaped(m), m.in \notin InComments, NEW c, NEW prev,
         Steps(R, m, c, prev).in \in InComments
  PROVE  m.in \in {"plain", "closed", "tag"}
PROOF
  <1> DEFINE x == Steps(R, m, c, prev)
  <1>2. ASSUME m.in \in {"string", "name"} PROVE x.in \notin InComments
    <2>2. InRun("escape", m.quote).in = "escape" /\ Mode("closed", c, <<m.in>>, << >>).in = "closed"
      BY FieldsOf, Fields
    <2> HIDE DEF x
    <2> QED BY <1>2, <2>2 DEF Steps, Reads, InComments
  <1>3. ASSUME m.in = "escape" PROVE x.in \notin InComments
    BY <1>3, FieldsOf DEF Steps, Reads, InComments
  <1>4. ASSUME m.in = "dollar" PROVE x.in \notin InComments
    <2>1. \E z : x = Plain \/ x = InTag("dollar", m.tag, z)
      <3> DEFINE d == <<"$">> \o m.tag
      <3>1. x = IF c = "$" /\ m.match = d THEN Plain
                ELSE IF IsPrefix(Append(m.match, c), d)
                THEN InTag("dollar", m.tag, Append(m.match, c))
                ELSE InTag("dollar", m.tag, IF c = "$" THEN <<"$">> ELSE << >>)
        BY <1>4 DEF Steps, Reads
      <3> HIDE DEF x, d
      <3> QED BY <3>1
    <2> QED BY <2>1, FieldsOf, FieldsOfTag DEF InComments, Plain
  <1> QED BY <1>2, <1>3, <1>4 DEF Shaped, InComments

\* There a blank is outside everything.
LEMMA BlankAfter ==
  ASSUME NEW R \in Reader, NEW m, Shaped(m), m.in \in {"plain", "closed", "tag"}, NEW prev
  PROVE  Steps(R, m, "sp", prev) = Plain
PROOF
  <1>1. Begins(R, "sp", prev) = Plain
    BY BeginsOther DEF Special, Quote
  <1>2. "sp" \notin isIdentByte /\ "sp" \notin Quote \cup {"bt"}
    BY DEF isIdentByte, isDigit, Letter, Quote
  <1>3. CASE m.in = "plain"
    BY <1>1, <1>3 DEF Steps, Reads
  <1>4. CASE m.in = "closed"
    BY <1>1, <1>2, <1>4 DEF Shaped, Steps, Reads
  <1>5. CASE m.in = "tag"
    BY <1>1, <1>2, <1>5 DEF Steps, Reads
  <1> QED BY <1>3, <1>4, <1>5

\* The character before counts for "$" only, and by whether it is of a word.
LEMMA BeginsPrev ==
  ASSUME NEW R \in Reader, NEW c, NEW p, NEW q,
         p \in isIdentByte \cup Directive <=> q \in isIdentByte \cup Directive
  PROVE  Begins(R, c, p) = Begins(R, c, q)
PROOF
  <1>1. CASE c \in Quote \cup {"bt"}
    BY <1>1, DatabaseIs, BeginsQuoted
  <1>2. CASE c \in {"$", "--", "#", "/*"}
    BY <1>2, BeginsOther
  <1>3. CASE c \notin Special
    BY <1>3, BeginsOther
  <1> QED BY <1>1, <1>2, <1>3 DEF Special

\* R reads the text as a scanner that knows no escapes, no "#", no names in
\* backticks and, unless dollar, no "$" can follow.
Suits(R, s, ms, dollar) ==
    LET db == Databases[R]
    IN  /\ \A i \in 1 .. Len(s) :
             /\ s[i].char = "\\" => db.escapes = {}
             /\ s[i].char # "#"
             /\ s[i].char = "bt" => "bt" \in db.names
             /\ Kind(ms[i - 1], ms[i]) = "backticked" => s[i].char \notin Quote \cup {"$", "--", "/*"}
        /\ \A i \in 1 .. Len(s) :
             s[i].char = "$" =>
               IF dollar THEN db.dollar \/ (ms[i] = Plain => i > 1 /\ s[i - 1].char \in isIdentByte)
                         ELSE ~db.dollar

\* At i R is outside everything, or in a name in backticks if those are not taken
\* for quotes.
Tick == InRun("name", "bt")
Beyond(R, s, ms, ticks, i) ==
    Boundary(R, s, ms, i) \/ (~ticks /\ i > 1 /\ i <= Len(s) /\ ms[i - 1] = Tick)

\* What a piece of a scanner is for R.
LiteralTaken(s, ms, p) ==
    p.kind \in {"copy", "quoted", "dollar", "redact", "keep"} /\ \A k \in p.lo .. p.hi - 1 : InLiteral(s, ms, k)
CommentTaken(R, s, ms, p) ==
    /\ p.kind = "comment" /\ ms[p.lo].in \in InComments
    /\ \A k \in p.lo .. p.hi - 1 : Kind(ms[k - 1], ms[k]) \in {"comment", "dash"}
    /\ p.hi <= Len(s) =>
         /\ ms[p.hi - 1].in # "block"
         /\ ms[p.hi] = Begins(R, s[p.hi].char, "sp")
         /\ s[p.hi].char = "nl" \/ s[p.hi - 1].char = "*/"
ByteTaken(ms, ticks, p) ==
    /\ p.kind = "byte" /\ p.hi = p.lo + 1
    /\ \/ ms[p.lo].in \in {"plain", "tag"}
       \/ ~ticks /\ ms[p.lo].in \in {"name", "closed"} /\ ms[p.lo].quote = "bt"
Taken(R, s, ms, ticks, i, p) ==
    /\ p.lo = i /\ p.hi \in Nat /\ i < p.hi /\ p.hi <= Len(s) + 1
    /\ Beyond(R, s, ms, ticks, p.hi)
    /\ LiteralTaken(s, ms, p) \/ CommentTaken(R, s, ms, p) \/ ByteTaken(ms, ticks, p)

LEMMA TakesQuote ==
  ASSUME NEW R \in Reader, NEW C, NEW s \in Seq(C), NEW ms, Run(R, s, ms),
         NEW dollar, Suits(R, s, ms, dollar), NEW ticks, NEW i \in 1 .. Len(s), Boundary(R, s, ms, i),
         s[i].char \in Quote \cup {"bt"}, NEW kind \in {"copy", "quoted", "dollar", "redact", "keep"}
  PROVE  Taken(R, s, ms, ticks, i, Piece(kind, i, scanQuotedRun(s, i, FALSE)))
PROOF
  <1> DEFINE c == s[i].char
             h == scanQuotedRun(s, i, FALSE)
             l == LexPiece(s, i, FALSE, FALSE, FALSE, TRUE)
             p == Piece(kind, i, h)
  <1>1. FlagsAt(R, s, i, FALSE, FALSE, FALSE, TRUE)
    <2>2. \A j \in 1 .. Len(s) : s[j].char = "\\" => Databases[R].escapes = {}
      BY DEF Suits
    <2>3. c = "bt" => "bt" \in Databases[R].names
      BY DEF Suits
    <2> QED BY <2>2, <2>3 DEF Quote, FlagsAt
  <1>2. PieceFits(R, s, ms, i, l)
    BY <1>1, LexStep
  <1>3. l = Piece("literal", i, h)
    <2>3. l = Piece("literal", i, scanQuotedRun(s, i, FALSE /\ c # "bt"))
      BY DEF isLineComment, Quote, LexPiece
    <2> QED BY <2>3
  <1>4. l.kind = "literal" /\ l.hi = h /\ p.kind = kind /\ p.lo = i /\ p.hi = h
    <2> HIDE DEF l, h
    <2> QED BY <1>3, PieceIs
  <1> HIDE DEF l, p, h
  <1>5. /\ h \in Nat /\ i < h /\ h <= Len(s) + 1 /\ Boundary(R, s, ms, h)
        /\ \A k \in i .. h - 1 : InLiteral(s, ms, k)
    BY <1>2, <1>4 DEF PieceFits
  <1> QED BY <1>4, <1>5 DEF LiteralTaken, Taken, Beyond, p, h

LEMMA TakesByte ==
  ASSUME NEW R \in Reader, NEW C, NEW s \in Seq(C), NEW ms, Run(R, s, ms),
         NEW ticks, NEW i \in 1 .. Len(s), Boundary(R, s, ms, i),
         s[i].char \notin Quote \cup {"bt", "--", "#", "/*"}, s[i].char = "$" => ~Databases[R].dollar
  PROVE  Taken(R, s, ms, ticks, i, Byte(i))
PROOF
  <1>1. /\ Byte(i).lo = i /\ Byte(i).hi = i + 1 /\ Byte(i).kind = "byte"
        /\ i \in Nat /\ i + 1 \in Nat /\ i < i + 1 /\ i + 1 <= Len(s) + 1 /\ i <= Len(s)
    BY PieceIs DEF Byte
  <1>3. CASE Dead(s, ms, i)
    <2>3. ByteTaken(ms, ticks, Byte(i))
      BY <1>1, <1>3, FieldsOfTag DEF Dead, ByteTaken
    <2> QED BY <1>1, <1>3, <2>3, DeadStep DEF Taken, Beyond
  <1>4. CASE ms[i] = Begins(R, s[i].char, Prev(s, i))
    <2>1. ms[i] = Plain
      <3>1. CASE s[i].char = "$"
        BY <1>4, <3>1, BeginsOther
      <3>2. CASE s[i].char # "$"
        BY <1>4, <3>2, BeginsOther DEF Special
      <3> QED BY <3>1, <3>2
    <2>4. ByteTaken(ms, ticks, Byte(i))
      BY <1>1, <2>1, FieldsOf DEF Plain, ByteTaken
    <2> QED BY <1>1, <2>1, <2>4, PlainStep DEF Taken, Beyond
  <1> QED BY <1>1, <1>3, <1>4 DEF Boundary

LEMMA TakesDollar ==
  ASSUME NEW R \in Reader, NEW C, NEW s \in Seq(C), NEW ms, Run(R, s, ms),
         NEW ticks, NEW i \in 1 .. Len(s), Boundary(R, s, ms, i), s[i].char = "$",
         Databases[R].dollar \/ (ms[i] = Plain => i > 1 /\ s[i - 1].char \in isIdentByte),
         NEW kind \in {"copy", "quoted", "dollar", "redact", "keep"}
  PROVE  Taken(R, s, ms, ticks, i, DollarPiece(kind, i, scanDollarQuoted(s, i)))
PROOF
  <1> DEFINE q == scanDollarQuoted(s, i)
             p == DollarPiece(kind, i, q)
             db == Databases[R]
  <1>0. "$" \notin Quote \cup {"bt", "--", "#", "/*"} /\ "$" \notin isIdentByte
    BY DEF Quote, isIdentByte, isDigit, Letter
  <1>1. i \in Nat /\ i >= 1 /\ i <= Len(s)
    OBVIOUS
  <1>2. PICK end, cl : DollarScanned(s, i, end, cl)
    BY DollarIs
  <1>3. ms[i] = IF db.dollar /\ Prev(s, i) \notin isIdentByte \cup Directive THEN In("tag") ELSE Plain
    BY <1>0, <1>1, BeginsOther DEF Boundary, Dead
  <1>4. CASE ~db.dollar
    <2>2. i > 1 /\ s[i - 1].char \in isIdentByte
      BY <1>3, <1>4
    <2>4. p = Byte(i)
      BY <1>2, <2>2 DEF DollarScanned, DollarPiece
    <2> QED BY <1>0, <1>4, <2>4, TakesByte
  <1>5. CASE db.dollar /\ q.ok
    <2>1. Prev(s, i) \notin isIdentByte \cup Directive
      <3>2. ~(i > 1 /\ s[i - 1].char \in isIdentByte \cup Directive)
        BY <1>2, <1>5 DEF DollarScanned
      <3> QED BY <1>1, <3>2 DEF isIdentByte, isDigit, Letter, Directive, Prev
    <2>3. /\ q.hi \in Nat /\ i < q.hi /\ q.hi <= Len(s) + 1
          /\ Boundary(R, s, ms, q.hi)
          /\ \A k \in i .. q.hi - 1 : InLiteral(s, ms, k)
      BY <1>3, <1>5, <2>1, DollarFollows
    <2>4. p.lo = i /\ p.hi = q.hi /\ p.kind = kind
      BY <1>5, PieceIs DEF DollarPiece
    <2> HIDE DEF p, q
    <2> QED BY <2>3, <2>4 DEF LiteralTaken, Taken, Beyond, p, q
  <1>6. CASE db.dollar /\ ~q.ok
    <2>2. Boundary(R, s, ms, i + 1) /\ ms[i].in \in {"plain", "tag"}
      <3>1. CASE ms[i] = In("tag")
        <4>1. ms[i].in = "tag"
          BY <3>1, FieldsOf
        <4>2. Prev(s, i) \notin isIdentByte \cup Directive
          BY <1>3, <4>1, FieldsOf DEF Plain
        <4> QED BY <1>6, <3>1, <4>1, <4>2, DollarFails
      <3>2. CASE ms[i] = Plain
        BY <3>2, PlainStep, FieldsOf DEF Plain
      <3> QED BY <1>3, <3>1, <3>2
    <2>3. Byte(i).lo = i /\ Byte(i).hi = i + 1 /\ Byte(i).kind = "byte"
      BY PieceIs DEF Byte
    <2>5. Taken(R, s, ms, ticks, i, Byte(i))
      BY <1>1, <2>2, <2>3 DEF ByteTaken, Taken, Beyond
    <2> QED BY <1>6, <2>5 DEF DollarPiece
  <1> QED BY <1>4, <1>5, <1>6, DatabaseIs

LEMMA KindOf ==
  ASSUME NEW m, NEW x
  PROVE  /\ m.in = "block" => Kind(m, x) = "comment"
         /\ m.in # "block" =>
              /\ x.in \in InComments => Kind(m, x) = IF x.in = "dash" THEN "dash" ELSE "comment"
              /\ x.in \in {"closed", "plain"} => Kind(m, x) = "plain"
              /\ x.in = "tag" => Kind(m, x) = "tag"
              /\ x.in = "name" => Kind(m, x) = IF x.quote = "bt" THEN "backticked" ELSE "name"
PROOF
  <1>2. ASSUME m.in # "block"
        PROVE  /\ x.in = "comment" => Kind(m, x) = "comment"
               /\ x.in = "dash" => Kind(m, x) = "dash"
               /\ x.in = "block" => Kind(m, x) = "comment"
               /\ x.in = "closed" => Kind(m, x) = "plain"
               /\ x.in = "plain" => Kind(m, x) = "plain"
               /\ x.in = "tag" => Kind(m, x) = "tag"
               /\ x.in = "name" => Kind(m, x) = IF x.quote = "bt" THEN "backticked" ELSE "name"
    BY <1>2 DEF Kind
  <1> QED BY <1>2 DEF Kind, InComments

\* The bytes of a comment after its marker.
LEMMA CommentKinds ==
  ASSUME NEW R \in Reader, NEW C, NEW s \in Seq(C), NEW ms, Run(R, s, ms),
         NEW i \in 1 .. Len(s), ms[i].in \in InComments,
         NEW h \in Nat, h <= Len(s) + 1, \A k \in i + 1 .. h - 1 : InComment(ms, k)
  PROVE  \A k \in i .. h - 1 : Kind(ms[k - 1], ms[k]) \in {"comment", "dash"}
PROOF
  <1>1. i \in Nat /\ i <= Len(s) /\ i >= 1
    OBVIOUS
  <1>2. Kind(ms[i - 1], ms[i]) \in {"comment", "dash"}
    <2>1. CASE ms[i - 1].in = "block"
      BY <2>1, KindOf
    <2>2. CASE ms[i - 1].in # "block"
      BY <2>2, KindOf
    <2> QED BY <2>1, <2>2
  <1>3. ASSUME NEW k \in i + 1 .. h - 1 PROVE Kind(ms[k - 1], ms[k]) \in {"comment", "dash"}
    <2>2. InComment(ms, k)
      OBVIOUS
    <2> QED BY <1>1, <2>2, KindsOf
  <1> QED BY <1>1, <1>2, <1>3

LEMMA TakesComment ==
  ASSUME NEW R \in Reader, NEW C, NEW s \in Seq(C), NEW ms, Run(R, s, ms),
         NEW ticks, NEW i \in 1 .. Len(s), Boundary(R, s, ms, i),
         s[i].char = "--" /\ i < Len(s) => s[i + 1].char \in Blank
  PROVE  /\ s[i].char = "--" => Taken(R, s, ms, ticks, i, Piece("comment", i, skipLineComment(s, i)))
         /\ s[i].char = "/*" => Taken(R, s, ms, ticks, i, Piece("comment", i, skipBlockComment(s, i)))
PROOF
  <1> DEFINE db == Databases[R]
             Start(h) == Begins(R, s[h].char, "sp")
  <1>1. i \in Nat /\ i <= Len(s) /\ Len(s) \in Nat /\ i >= 1
    OBVIOUS
  <1>2. "--" \notin isIdentByte /\ "/*" \notin isIdentByte /\ "nl" \notin Special /\ "nl" \notin isIdentByte
        /\ "*/" \notin isIdentByte \cup Directive /\ "sp" \notin isIdentByte \cup Directive
    BY DEF isIdentByte, isDigit, Letter, Special, Quote, Directive
  <1>3. ms[i] = Begins(R, s[i].char, Prev(s, i)) \/ Dead(s, ms, i)
    BY <1>1 DEF Boundary
  <1>4. ASSUME NEW h \in Nat, i < h, h <= Len(s) + 1, Boundary(R, s, ms, h), ms[i].in \in InComments,
               \A k \in i + 1 .. h - 1 : InComment(ms, k),
               h <= Len(s) => /\ ms[h - 1].in # "block" /\ ms[h] = Start(h)
                              /\ s[h].char = "nl" \/ s[h - 1].char = "*/"
        PROVE  Taken(R, s, ms, ticks, i, Piece("comment", i, h))
    <2> DEFINE p == Piece("comment", i, h)
    <2>1. p.lo = i /\ p.hi = h /\ p.kind = "comment"
      BY PieceIs
    <2> HIDE DEF p
    <2>3. CommentTaken(R, s, ms, p)
      BY <1>4, <2>1, CommentKinds DEF CommentTaken
    <2> QED BY <1>1, <1>4, <2>1, <2>3 DEF Taken, Beyond, p
  <1> HIDE DEF Start
  <1>5. ASSUME s[i].char = "--" PROVE Taken(R, s, ms, ticks, i, Piece("comment", i, skipLineComment(s, i)))
    <2> DEFINE h == skipLineComment(s, i)
    <2>2. ms[i] = In("comment") \/ (ms[i] = In("dash") /\ (i = Len(s) \/ s[i + 1].char \in Blank))
      <3>1. ms[i] = In("comment") \/ ms[i] = In("dash")
        BY <1>2, <1>3, <1>5, BeginsOther DEF Dead
      <3> QED BY <1>1, <1>5, <3>1
    <2>3. s[i].char # "nl"
      BY <1>5
    <2>4. h \in Nat /\ i < h /\ h <= Len(s) + 1 /\ Boundary(R, s, ms, h)
          /\ \A k \in i + 1 .. h - 1 : InComment(ms, k)
      BY <2>2, <2>3, LineFollows
    <2>5. h <= Len(s) => s[h].char = "nl"
      BY <2>3, LineEnd
    <2>6. ms[i].in \in InComments /\ ms[i].in # "block"
      BY <2>2, FieldsOf DEF InComments
    <2> HIDE DEF h
    <2>7. ASSUME h <= Len(s) PROVE ms[h - 1].in # "block" /\ ms[h] = Start(h)
      <3>1. s[h].char = "nl" /\ ms[h] = Begins(R, "nl", Prev(s, h))
        BY <1>2, <2>4, <2>5, <2>7 DEF Boundary, Dead
      <3>2. ms[h] = Plain /\ Start(h) = Plain
        BY <1>2, <3>1, BeginsOther DEF Start
      <3>3. ms[h - 1].in # "block"
        <4> SUFFICES ASSUME ms[h - 1].in = "block" PROVE FALSE
          OBVIOUS
        <4>1. ms[h] = Steps(R, ms[h - 1], "nl", Prev(s, h))
          BY <1>1, <2>4, <2>7, <3>1 DEF Run
        <4> QED BY <3>2, <4>1, BlockStays, FieldsOf DEF Plain
      <3> QED BY <3>2, <3>3
    <2> QED BY <1>4, <2>4, <2>5, <2>6, <2>7 DEF h
  <1>6. ASSUME s[i].char = "/*" PROVE Taken(R, s, ms, ticks, i, Piece("comment", i, skipBlockComment(s, i)))
    <2> DEFINE h == skipBlockComment(s, i)
    <2>1. ms[i] = In("block")
      BY <1>2, <1>3, <1>6, BeginsOther DEF Dead
    <2>2. /\ h \in Nat /\ i < h /\ h <= Len(s) + 1 /\ Boundary(R, s, ms, h)
          /\ \A k \in i + 1 .. h - 1 : InComment(ms, k)
          /\ h <= Len(s) => ms[h - 1] = Plain /\ s[h - 1].char = "*/"
      BY <2>1, BlockFollows
    <2> HIDE DEF h
    <2>4. ASSUME h <= Len(s) PROVE ms[h - 1].in # "block" /\ ms[h] = Start(h)
      <3>2. ms[h] = Steps(R, Plain, s[h].char, "*/")
        BY <1>1, <2>2, <2>4 DEF Run, Prev
      <3>3. ms[h] = Begins(R, s[h].char, "*/")
        BY <3>2, ReadsRest
      <3>4. Begins(R, s[h].char, "*/") = Begins(R, s[h].char, "sp")
        BY <1>2, BeginsPrev
      <3> QED BY <2>2, <2>4, <3>3, <3>4, FieldsOf DEF Start, Plain
    <2> QED BY <1>4, <2>1, <2>2, <2>4, FieldsOf DEF InComments, h
  <1> QED BY <1>5, <1>6

\* A scanner that does not know backticks passes a name in them byte by byte.
LEMMA TakesTick ==
  ASSUME NEW R \in Reader, NEW C, NEW s \in Seq(C), NEW ms, Run(R, s, ms),
         NEW dollar, Suits(R, s, ms, dollar), NEW i \in 1 .. Len(s), Boundary(R, s, ms, i),
         s[i].char = "bt"
  PROVE  Taken(R, s, ms, FALSE, i, Byte(i)) /\ ms[i] = Tick
PROOF
  <1>1. /\ Byte(i).lo = i /\ Byte(i).hi = i + 1 /\ Byte(i).kind = "byte"
        /\ i \in Nat /\ i >= 1 /\ i + 1 \in Nat /\ i < i + 1 /\ i + 1 <= Len(s) + 1 /\ i <= Len(s)
        /\ (i + 1) - 1 = i /\ i + 1 > 1
    BY PieceIs DEF Byte
  <1>2. ms[i] = Tick
    <2>3. ms[i] = Begins(R, "bt", Prev(s, i))
      BY <1>1 DEF isIdentByte, isDigit, Letter, Boundary, Dead
    <2> QED BY <2>3, BeginsQuoted DEF Suits, Tick
  <1>3. ByteTaken(ms, FALSE, Byte(i))
    BY <1>1, <1>2, FieldsOf DEF Tick, ByteTaken
  <1>4. Beyond(R, s, ms, FALSE, i + 1)
    <2>1. CASE i + 1 <= Len(s)
      BY <1>1, <1>2, <2>1 DEF Beyond
    <2>2. CASE ~(i + 1 <= Len(s))
      BY <2>2 DEF Beyond, Boundary
    <2> QED BY <2>1, <2>2
  <1> QED BY <1>1, <1>2, <1>3, <1>4 DEF Taken

LEMMA TakesName ==
  ASSUME NEW R \in Reader, NEW C, NEW s \in Seq(C), NEW ms, Run(R, s, ms),
         NEW dollar, Suits(R, s, ms, dollar), NEW i \in 1 .. Len(s), i > 1, ms[i - 1] = Tick
  PROVE  Taken(R, s, ms, FALSE, i, Byte(i)) /\ s[i].char \notin Quote \cup {"$", "--", "/*", "#"}
PROOF
  <1> DEFINE c == s[i].char
  <1>1. /\ Byte(i).lo = i /\ Byte(i).hi = i + 1 /\ Byte(i).kind = "byte"
        /\ i \in Nat /\ i >= 1 /\ i + 1 \in Nat /\ i < i + 1 /\ i + 1 <= Len(s) + 1 /\ i <= Len(s)
        /\ (i + 1) - 1 = i /\ i + 1 > 1
    BY PieceIs DEF Byte
  <1>2. ms[i] = IF c = "bt" THEN Mode("closed", "bt", <<"name">>, << >>) ELSE Tick
    <2>2. "bt" \notin Databases[R].escapes
      BY DatabaseIs DEF Quote
    <2> QED BY <2>2, ReadsRun DEF Run, Tick
  <1>3. Tick.in = "name" /\ Tick.quote = "bt"
    BY FieldsOf DEF Tick
  <1> HIDE DEF c
  <1>4. CASE c = "bt"
    <2>2. Boundary(R, s, ms, i + 1)
      <3> SUFFICES ASSUME i + 1 <= Len(s)
                   PROVE  ms[i + 1] = Begins(R, s[i + 1].char, Prev(s, i + 1))
        BY DEF Boundary
      <3>2. ms[i + 1] = Steps(R, Mode("closed", "bt", <<"name">>, << >>), s[i + 1].char, Prev(s, i + 1))
        BY <1>1, <1>2, <1>4 DEF Run
      <3> QED BY <1>4, <3>2, ReadsClosed, BeginsQuoted DEF Suits, c
    <2>3. ByteTaken(ms, FALSE, Byte(i))
      BY <1>1, <1>2, <1>4, Fields DEF ByteTaken
    <2> QED BY <1>1, <1>4, <2>2, <2>3 DEF Taken, Beyond, c, Quote
  <1>5. CASE c # "bt"
    <2>1. ms[i] = Tick
      BY <1>2, <1>5
    <2>3. c \notin Quote \cup {"$", "--", "/*", "#"}
      BY <1>3, <2>1, KindOf DEF Suits, c
    <2>4. Beyond(R, s, ms, FALSE, i + 1)
      <3>1. CASE i + 1 <= Len(s)
        BY <1>1, <2>1, <3>1 DEF Beyond
      <3>2. CASE ~(i + 1 <= Len(s))
        BY <3>2 DEF Beyond, Boundary
      <3> QED BY <3>1, <3>2
    <2> QED BY <1>1, <1>3, <2>1, <2>3, <2>4 DEF ByteTaken, Taken, c
  <1> QED BY <1>4, <1>5

\* Each "--" is followed by a blank.
Dashes(s) == \A i \in 1 .. Len(s) : s[i].char = "--" /\ i < Len(s) => s[i + 1].char \in Blank

LEMMA StripTakes ==
  ASSUME NEW R \in Reader, NEW C, NEW s \in Seq(C), NEW ms, Run(R, s, ms),
         Suits(R, s, ms, TRUE), Dashes(s), NEW i \in 1 .. Len(s), Beyond(R, s, ms, FALSE, i)
  PROVE  Taken(R, s, ms, FALSE, i, StripPiece(s, i))
PROOF
  <1> DEFINE c == s[i].char
             p == StripPiece(s, i)
  <1>1. p = CASE c \in Quote -> Piece("copy", i, scanQuotedRun(s, i, FALSE))
              [] c = "$"  -> DollarPiece("copy", i, scanDollarQuoted(s, i))
              [] c = "--" -> Piece("comment", i, skipLineComment(s, i))
              [] c = "/*" -> Piece("comment", i, skipBlockComment(s, i))
              [] OTHER    -> Byte(i)
    BY DEF StripPiece
  <1>3. c = "--" /\ i < Len(s) => s[i + 1].char \in Blank
    BY DEF Dashes
  <1>4. c \in Quote => c \notin {"$", "--", "/*", "bt"}
    BY DEF Quote
  <1> HIDE DEF p
  <1>5. ASSUME Boundary(R, s, ms, i) PROVE Taken(R, s, ms, FALSE, i, p)
    <2>1. CASE c \in Quote
      BY <1>1, <1>4, <1>5, <2>1, TakesQuote
    <2>2. CASE c = "$"
      <3>2. Databases[R].dollar \/ (ms[i] = Plain => i > 1 /\ s[i - 1].char \in isIdentByte)
        BY <2>2 DEF Suits
      <3> QED BY <1>1, <1>4, <1>5, <2>2, <3>2, TakesDollar
    <2>3. CASE c = "--"
      BY <1>1, <1>3, <1>4, <1>5, <2>3, TakesComment
    <2>4. CASE c = "/*"
      BY <1>1, <1>3, <1>4, <1>5, <2>4, TakesComment
    <2>5. CASE c \notin Quote \cup {"$", "--", "/*"}
      <3>1. p = Byte(i)
        BY <1>1, <2>5
      <3>2. CASE c = "bt"
        BY <1>5, <3>1, <3>2, TakesTick
      <3>3. CASE c # "bt"
        <4>1. s[i].char \notin Quote \cup {"bt", "--", "#", "/*"} /\ s[i].char # "$"
          BY <2>5, <3>3 DEF Suits
        <4> QED BY <1>5, <3>1, <4>1, TakesByte
      <3> QED BY <3>2, <3>3
    <2> QED BY <2>1, <2>2, <2>3, <2>4, <2>5
  <1>6. ASSUME i > 1, ms[i - 1] = Tick PROVE Taken(R, s, ms, FALSE, i, p)
    <2>1. Taken(R, s, ms, FALSE, i, Byte(i)) /\ c \notin Quote \cup {"$", "--", "/*", "#"}
      BY <1>6, TakesName
    <2> QED BY <1>1, <2>1
  <1> QED BY <1>5, <1>6 DEF Beyond, p

\* There are no comments in the text.
Uncommented(s, ms) == \A k \in 1 .. Len(s) : ms[k].in \notin InComments

\* A name in backticks that nothing closes lasts to the end.
LEMMA TickStays ==
  ASSUME NEW R \in Reader, NEW C, NEW s \in Seq(C), NEW ms, Run(R, s, ms),
         NEW i \in 1 .. Len(s), ms[i] = Tick, \A j \in i + 1 .. Len(s) : s[j].char # "bt"
  PROVE  ms[Len(s)] = Tick
PROOF
  <1> DEFINE n == Len(s)
             T == {d \in Nat : i + d <= n => ms[i + d] = Tick}
  <1>1. n \in Nat /\ i \in Nat /\ i >= 1 /\ i <= n
    OBVIOUS
  <1>2. 0 \in T
    BY <1>1
  <1>3. ASSUME NEW d \in Nat, d \in T PROVE d + 1 \in T
    <2> SUFFICES ASSUME i + (d + 1) <= n PROVE ms[i + (d + 1)] = Tick
      OBVIOUS
    <2> DEFINE k == i + (d + 1)
    <2>1. k \in 1 .. n /\ k \in i + 1 .. n /\ k - 1 = i + d /\ i + d <= n
      BY <1>1
    <2> HIDE DEF k
    <2>2. ms[k] = Steps(R, InRun("name", "bt"), s[k].char, Prev(s, k)) /\ s[k].char # "bt"
      BY <1>3, <2>1 DEF Run, Tick
    <2>4. ms[k] = Tick
      BY <2>2, DatabaseIs, ReadsRun DEF Quote, Tick
    <2> QED BY <2>4 DEF k
  <1> HIDE DEF T
  <1>4. Nat \subseteq T
    BY <1>2, <1>3, Induct
  <1> HIDE DEF n
  <1>6. ms[n] = Tick
    BY <1>1, <1>4 DEF T
  <1> QED BY <1>6 DEF n

LEMMA BlankTakes ==
  ASSUME NEW R \in Reader, NEW C, NEW s \in Seq(C), NEW ms, Run(R, s, ms),
         NEW dollar \in BOOLEAN, NEW ticks \in BOOLEAN,
         Suits(R, s, ms, dollar), Uncommented(s, ms), ticks => ms[Len(s)].in # "name",
         NEW i \in 1 .. Len(s), Beyond(R, s, ms, ticks, i)
  PROVE  Taken(R, s, ms, ticks, i, BlankPiece(s, i, dollar, ticks))
PROOF
  <1> DEFINE c == s[i].char
             p == BlankPiece(s, i, dollar, ticks)
             run == Piece("quoted", i, scanQuotedRun(s, i, FALSE))
             later == \E j \in i + 1 .. Len(s) : s[j].char = "bt"
  <1>1. p = CASE dollar /\ c = "$" -> DollarPiece("dollar", i, scanDollarQuoted(s, i))
              [] c \in Quote \/ (ticks /\ c = "bt" /\ later) -> run
              [] OTHER -> Byte(i)
    BY DEF BlankPiece
  <1>3. c \in Quote => c \notin {"$", "--", "/*", "bt"}
    BY DEF Quote
  <1> HIDE DEF p, run, later
  <1>5. ASSUME Boundary(R, s, ms, i) PROVE Taken(R, s, ms, ticks, i, p)
    <2>1. CASE c \in Quote
      BY <1>1, <1>3, <1>5, <2>1, TakesQuote DEF run
    <2>2. CASE c = "$" /\ dollar
      <3>2. Databases[R].dollar \/ (ms[i] = Plain => i > 1 /\ s[i - 1].char \in isIdentByte)
        BY <2>2 DEF Suits
      <3> QED BY <1>1, <1>3, <1>5, <2>2, <3>2, TakesDollar
    <2>3. CASE c = "$" /\ ~dollar
      <3>2. ~Databases[R].dollar
        BY <2>3 DEF Suits
      <3>3. s[i].char \notin Quote \cup {"bt", "--", "#", "/*"}
        BY <2>3 DEF Quote
      <3> QED BY <1>1, <1>3, <1>5, <2>3, <3>2, <3>3, TakesByte
    <2>4. CASE c \in {"--", "/*"}
      <3>1. c \notin isIdentByte
        BY <2>4 DEF isIdentByte, isDigit, Letter
      <3>2. ms[i] = Begins(R, c, Prev(s, i))
        BY <1>5, <3>1 DEF Boundary, Dead
      <3>3. ms[i] = In("comment") \/ ms[i] = In("dash") \/ ms[i] = In("block")
        BY <2>4, <3>2, BeginsOther
      <3>4. ms[i].in \in InComments
        BY <3>3, FieldsOf, ZenonT(30) DEF InComments
      <3> QED BY <3>4 DEF Uncommented
    <2>5. CASE c = "bt" /\ ticks
      <3>1. ms[i] = Tick
        BY <1>5, <2>5, TakesTick
      <3>2. later
        <4> SUFFICES ASSUME ~later PROVE FALSE
          OBVIOUS
        <4>1. ms[Len(s)] = Tick
          BY <3>1, TickStays DEF later
        <4> QED BY <2>5, <4>1, FieldsOf DEF Tick
      <3> QED BY <1>1, <1>5, <2>5, <3>2, TakesQuote DEF run
    <2>6. CASE c = "bt" /\ ~ticks
      <3>2. ticks = FALSE
        BY <2>6
      <3> QED BY <1>1, <1>3, <1>5, <2>6, <3>2, TakesTick
    <2>7. CASE c \notin Quote \cup {"$", "--", "/*", "bt"}
      <3>2. s[i].char \notin Quote \cup {"bt", "--", "#", "/*"} /\ s[i].char # "$"
        BY <2>7 DEF Suits
      <3> QED BY <1>1, <1>5, <2>7, <3>2, TakesByte
    <2> QED BY <2>1, <2>2, <2>3, <2>4, <2>5, <2>6, <2>7
  <1>6. ASSUME ~ticks, i > 1, ms[i - 1] = Tick PROVE Taken(R, s, ms, ticks, i, p)
    <2>2. Taken(R, s, ms, FALSE, i, Byte(i)) /\ c \notin Quote \cup {"$", "--", "/*", "#"}
      BY <1>6, TakesName
    <2>3. p = Byte(i)
      BY <1>1, <1>6, <2>2
    <2> QED BY <1>6, <2>2, <2>3
  <1> QED BY <1>5, <1>6 DEF Beyond, p

LEMMA StripAdvances ==
  ASSUME NEW C, NEW s \in Seq(C), NEW i \in 1 .. Len(s)
  PROVE  LET p == StripPiece(s, i)
         IN  p.lo = i /\ p.hi \in Nat /\ i < p.hi /\ p.hi <= Len(s) + 1
PROOF
  <1> DEFINE c == s[i].char
             p == StripPiece(s, i)
             l == LexPiece(s, i, FALSE, TRUE, FALSE, TRUE)
             Ok(x) == x.lo = i /\ x.hi \in Nat /\ i < x.hi /\ x.hi <= Len(s) + 1
  <1>1. p = CASE c \in Quote -> Piece("copy", i, scanQuotedRun(s, i, FALSE))
              [] c = "$"  -> DollarPiece("copy", i, scanDollarQuoted(s, i))
              [] c = "--" -> Piece("comment", i, skipLineComment(s, i))
              [] c = "/*" -> Piece("comment", i, skipBlockComment(s, i))
              [] OTHER    -> Byte(i)
    BY DEF StripPiece
  <1>2. Ok(l)
    BY LexAdvances
  <1>3. c \in Quote => c \notin {"$", "--", "/*", "bt"}
    BY DEF Quote
  <1>5. Ok(Byte(i))
    <2>2. i \in Nat /\ i <= Len(s) /\ Len(s) \in Nat
      OBVIOUS
    <2> QED BY <2>2, PieceIs DEF Byte
  <1> HIDE DEF p, Ok
  <1>6. CASE c \in Quote
    <2> DEFINE h == scanQuotedRun(s, i, FALSE)
    <2>1. p = Piece("copy", i, h)
      BY <1>1, <1>3, <1>6
    <2>2. h \in Nat /\ i < h /\ h <= Len(s) + 1
      BY QuotedAdvances
    <2> HIDE DEF h
    <2> QED BY <2>1, <2>2, PieceIs DEF Ok, p
  <1>7. CASE c = "$"
    <2>2. Ok(DollarPiece("copy", i, scanDollarQuoted(s, i)))
      BY DollarAdvances DEF Ok
    <2> QED BY <1>1, <1>3, <1>7, <2>2 DEF Ok, p
  <1>8. CASE c \in {"--", "/*"}
    <2>1. p = l
      BY <1>1, <1>3, <1>8 DEF isLineComment, LexPiece
    <2> QED BY <1>2, <2>1 DEF Ok, p
  <1>9. CASE c \notin Quote \cup {"$", "--", "/*"}
    BY <1>1, <1>5, <1>9 DEF Ok, p
  <1> QED BY <1>6, <1>7, <1>8, <1>9

LEMMA BlankAdvances ==
  ASSUME NEW C, NEW s \in Seq(C), NEW i \in 1 .. Len(s), NEW dollar \in BOOLEAN, NEW ticks \in BOOLEAN
  PROVE  LET p == BlankPiece(s, i, dollar, ticks)
         IN  p.lo = i /\ p.hi \in Nat /\ i < p.hi /\ p.hi <= Len(s) + 1
PROOF
  <1> DEFINE c == s[i].char
             p == BlankPiece(s, i, dollar, ticks)
             h == scanQuotedRun(s, i, FALSE)
             later == \E j \in i + 1 .. Len(s) : s[j].char = "bt"
             Ok(x) == x.lo = i /\ x.hi \in Nat /\ i < x.hi /\ x.hi <= Len(s) + 1
  <1>1. p = CASE dollar /\ c = "$" -> DollarPiece("dollar", i, scanDollarQuoted(s, i))
              [] c \in Quote \/ (ticks /\ c = "bt" /\ later) -> Piece("quoted", i, h)
              [] OTHER -> Byte(i)
    BY DEF BlankPiece
  <1>3. Ok(Byte(i))
    <2>2. i \in Nat /\ i <= Len(s) /\ Len(s) \in Nat
      OBVIOUS
    <2> QED BY <2>2, PieceIs DEF Byte
  <1>4. Ok(DollarPiece("dollar", i, scanDollarQuoted(s, i)))
    BY DollarAdvances
  <1>5. Ok(Piece("quoted", i, h))
    <2>1. h \in Nat /\ i < h /\ h <= Len(s) + 1
      BY QuotedAdvances
    <2> HIDE DEF h
    <2> QED BY <2>1, PieceIs
  <1> HIDE DEF p, Ok, h, later
  <1>6. Ok(p)
    BY <1>1, <1>3, <1>4, <1>5 DEF Quote
  <1> QED BY <1>6 DEF Ok, p

\* A scanner that is at a place of R's takes a piece of R's there.
Takes(R, s, ms, ticks, pa) ==
    \A i \in 1 .. Len(s) : Beyond(R, s, ms, ticks, i) => Taken(R, s, ms, ticks, i, pa[i])

\* The pieces follow each other from the beginning of s to its end.
InTurn(s, ps) ==
    /\ Len(ps) \in Nat /\ DOMAIN ps = 1 .. Len(ps)
    /\ Len(ps) = 0 => Len(s) = 0
    /\ Len(ps) > 0 => ps[1].lo = 1
    /\ \A m \in 1 .. Len(ps) :
         /\ ps[m].lo \in 1 .. Len(s) /\ ps[m].hi \in Nat
         /\ ps[m].lo < ps[m].hi /\ ps[m].hi <= Len(s) + 1
         /\ ps[m].hi = IF m < Len(ps) THEN ps[m + 1].lo ELSE Len(s) + 1
    /\ \A k \in 1 .. Len(s) : \E m \in 1 .. Len(ps) : ps[m].lo <= k /\ k < ps[m].hi

LEMMA PiecesInTurn ==
  ASSUME NEW C, NEW s \in Seq(C), NEW pa, Advances(s, pa), \A i \in 1 .. Len(s) : pa[i].lo = i,
         NEW ps, ps = Pieces(s, pa)
  PROVE  InTurn(s, ps) /\ \A m \in 1 .. Len(ps) : ps[m] = pa[ps[m].lo]
PROOF
  <1> DEFINE n == Len(s)
  <1>1. n \in Nat
    OBVIOUS
  <1>2. Chained(ps, s, pa, 1)
    BY PiecesChained
  <1> HIDE DEF n
  <1>3. ASSUME NEW i \in 1 .. n
        PROVE  pa[i].lo = i /\ pa[i].hi \in Nat /\ i < pa[i].hi /\ pa[i].hi <= n + 1
    BY DEF Advances, n
  <1> DEFINE X == {pa[j] : j \in 1 .. n}
  <1>4. ps \in Seq(X)
    BY <1>2 DEF Chained, n
  <1>5. \A x \in X : \E j \in 1 .. n : x = pa[j]
    OBVIOUS
  <1> HIDE DEF X
  <1>6. Len(ps) \in Nat /\ DOMAIN ps = 1 .. Len(ps) /\ \A m \in 1 .. Len(ps) : ps[m] \in X
    BY <1>4
  <1>7. /\ 1 <= n => ps # << >> /\ ps[1] = pa[1]
        /\ 1 > n => ps = << >>
        /\ \A m \in 1 .. Len(ps) :
             IF m < Len(ps) THEN ps[m].hi <= n /\ ps[m + 1] = pa[ps[m].hi] ELSE ps[m].hi = n + 1
        /\ \A k \in 1 .. n : \E m \in 1 .. Len(ps) : ps[m].lo <= k /\ k < ps[m].hi
    BY <1>2 DEF Chained, n
  <1>8. ASSUME NEW m \in 1 .. Len(ps)
        PROVE  /\ ps[m].lo \in 1 .. n /\ ps[m].hi \in Nat /\ ps[m].lo < ps[m].hi /\ ps[m].hi <= n + 1
               /\ ps[m] = pa[ps[m].lo]
    <2>1. PICK j \in 1 .. n : ps[m] = pa[j]
      BY <1>5, <1>6
    <2> QED BY <1>3, <2>1
  <1>9. ASSUME NEW m \in 1 .. Len(ps) PROVE ps[m].hi = IF m < Len(ps) THEN ps[m + 1].lo ELSE n + 1
    <2>1. CASE m < Len(ps)
      <3> DEFINE h == ps[m].hi
      <3>1. h <= n /\ ps[m + 1] = pa[h] /\ h \in Nat /\ ps[m].lo \in 1 .. n /\ ps[m].lo < h
        BY <1>7, <1>8, <2>1
      <3> HIDE DEF h
      <3>3. ps[m + 1].lo = h
        BY <1>1, <1>3, <3>1
      <3> QED BY <2>1, <3>3 DEF h
    <2> QED BY <1>7, <2>1
  <1>11. Len(ps) > 0 => ps[1].lo = 1
    <2>2. 1 <= n => 1 \in 1 .. n
      BY <1>1
    <2> QED BY <1>1, <1>3, <1>7, <2>2
  <1> QED BY <1>1, <1>6, <1>7, <1>8, <1>9, <1>11 DEF InTurn, n

LEMMA Below ==
  ASSUME NEW a \in Nat, NEW b \in Nat, NEW c \in Nat, a <= b, b < c
  PROVE  a <= c
PROOF OBVIOUS

LEMMA InTurnOrdered ==
  ASSUME NEW s, NEW ps, InTurn(s, ps), NEW m \in 1 .. Len(ps), NEW k \in 1 .. Len(ps), m < k
  PROVE  ps[m].hi <= ps[k].lo
PROOF
  <1> DEFINE c == Len(ps)
             T == {d \in Nat : m + 1 + d <= c => ps[m].hi <= ps[m + 1 + d].lo}
  <1>1. c \in Nat /\ m \in Nat /\ m >= 1
    BY DEF InTurn
  <1>2. \A y \in 1 .. c : /\ ps[y].lo \in Nat /\ ps[y].hi \in Nat /\ ps[y].lo < ps[y].hi
                          /\ y < c => ps[y].hi = ps[y + 1].lo
    BY DEF InTurn
  <1> HIDE DEF c
  <1>3. 0 \in T
    <2>2. m + 1 <= c => ps[m].hi <= ps[m + 1].lo
      <3> SUFFICES ASSUME m + 1 <= c PROVE ps[m].hi <= ps[m + 1].lo
        OBVIOUS
      <3>2. ps[m].hi = ps[m + 1].lo /\ ps[m].hi \in Nat
        BY <1>1, <1>2
      <3> QED BY <3>2
    <2> QED BY <1>1, <2>2
  <1>4. ASSUME NEW d \in Nat, d \in T PROVE d + 1 \in T
    <2> SUFFICES ASSUME m + 1 + (d + 1) <= c PROVE ps[m].hi <= ps[m + 1 + (d + 1)].lo
      OBVIOUS
    <2> DEFINE y == m + 1 + d
    <2>1. y \in 1 .. c /\ y < c /\ y + 1 = m + 1 + (d + 1) /\ y <= c
      BY <1>1
    <2>2. ps[m].hi <= ps[y].lo
      BY <1>4, <2>1
    <2> HIDE DEF y, T
    <2> DEFINE a == ps[m].hi
               lo == ps[y].lo
               hi == ps[y].hi
    <2>3. lo \in Nat /\ hi \in Nat /\ lo < hi /\ hi = ps[y + 1].lo
      BY <1>2, <2>1
    <2>4. m \in 1 .. c
      BY DEF c
    <2>5. a \in Nat /\ a <= lo
      BY <1>2, <2>2, <2>4
    <2> HIDE DEF a, lo, hi
    <2> QED BY <2>1, <2>3, <2>5, Below DEF a
  <1> HIDE DEF T
  <1>6. k - (m + 1) \in Nat /\ m + 1 + (k - (m + 1)) = k /\ k <= c
    BY <1>1 DEF c
  <1> QED BY <1>3, <1>4, <1>6, Induct DEF T

\* Then the pieces are R's.
InOrder(R, s, ms, ticks, pa, ps) ==
    /\ InTurn(s, ps)
    /\ \A m \in 1 .. Len(ps) :
         /\ ps[m].lo \in 1 .. Len(s) /\ ps[m] = pa[ps[m].lo]
         /\ Beyond(R, s, ms, ticks, ps[m].lo) /\ Taken(R, s, ms, ticks, ps[m].lo, ps[m])

LEMMA AllTaken ==
  ASSUME NEW R \in Reader, NEW C, NEW s \in Seq(C), NEW ms, Run(R, s, ms), NEW ticks,
         NEW pa, Takes(R, s, ms, ticks, pa), Advances(s, pa), \A i \in 1 .. Len(s) : pa[i].lo = i,
         NEW ps, ps = Pieces(s, pa)
  PROVE  InOrder(R, s, ms, ticks, pa, ps)
PROOF
  <1> DEFINE c == Len(ps)
             At(m) == ps[m].lo
             T == {e \in Nat : e + 1 <= c => Beyond(R, s, ms, ticks, At(e + 1))}
  <1>1. InTurn(s, ps) /\ \A m \in 1 .. c : ps[m] = pa[At(m)]
    BY PiecesInTurn
  <1>2. /\ c \in Nat /\ (c > 0 => At(1) = 1)
        /\ \A m \in 1 .. c : At(m) \in 1 .. Len(s) /\ (m < c => ps[m].hi = At(m + 1))
    BY <1>1 DEF InTurn
  <1>3. ASSUME NEW m \in 1 .. c, Beyond(R, s, ms, ticks, At(m)) PROVE Taken(R, s, ms, ticks, At(m), ps[m])
    BY <1>1, <1>2, <1>3 DEF Takes
  <1> HIDE DEF c, At
  <1>4. 0 \in T
    <2>2. 1 \in 1 .. Len(s) => ms[1] = Steps(R, Plain, s[1].char, Prev(s, 1))
      BY DEF Run
    <2>3. 1 <= c => Beyond(R, s, ms, ticks, 1)
      BY <1>2, <2>2, ReadsRest DEF Beyond, Boundary
    <2> QED BY <1>2, <2>3
  <1>5. ASSUME NEW e \in Nat, e \in T PROVE e + 1 \in T
    <2> DEFINE m == e + 1
    <2> SUFFICES ASSUME m + 1 <= c PROVE Beyond(R, s, ms, ticks, At(m + 1))
      OBVIOUS
    <2>1. m \in 1 .. c /\ m < c /\ Beyond(R, s, ms, ticks, At(m))
      BY <1>2, <1>5
    <2> HIDE DEF m
    <2> QED BY <1>2, <1>3, <2>1 DEF Taken
  <1> HIDE DEF T
  <1>7. ASSUME NEW m \in 1 .. c PROVE Beyond(R, s, ms, ticks, At(m))
    <2>1. m - 1 \in Nat /\ (m - 1) + 1 = m /\ m <= c
      BY <1>2
    <2> QED BY <1>4, <1>5, <2>1, Induct DEF T
  <1> QED BY <1>1, <1>2, <1>3, <1>7 DEF InOrder, At, c

\* What a scanner writes, piece by piece.
Flattens(f, q) ==
    /\ f[0] = << >>
    /\ \A m \in 1 .. Len(q) : f[m] = f[m - 1] \o q[m]

LEMMA FlattenIs ==
  ASSUME NEW C, NEW q \in Seq(Seq(C))
  PROVE  \E f : Flattens(f, q) /\ FlattenSeq(q) = f[Len(q)]
PROOF
  <1> DEFINE n == Len(q)
             Is(g, d) == g = [i \in 1 .. d |-> IF i = 1 THEN q[i] ELSE g[i - 1] \o q[i]]
             T == {d \in Nat : \E g : Is(g, d)}
  <1>1. n \in Nat
    OBVIOUS
  <1>2. 0 \in T
    <2> DEFINE g == [i \in 1 .. 0 |-> << >>]
    <2>1. Is(g, 0)
      OBVIOUS
    <2> QED BY <2>1
  <1>3. ASSUME NEW d \in Nat, d \in T PROVE d + 1 \in T
    <2>1. PICK g : Is(g, d)
      BY <1>3
    <2> DEFINE h == [i \in 1 .. d + 1 |-> IF i <= d THEN g[i] ELSE IF i = 1 THEN q[i] ELSE g[i - 1] \o q[i]]
    <2>2. ASSUME NEW i \in 1 .. d + 1 PROVE h[i] = IF i = 1 THEN q[i] ELSE h[i - 1] \o q[i]
      <3>1. CASE i <= d
        <4>1. i \in 1 .. d /\ h[i] = g[i]
          BY <3>1
        <4>4. i # 1 => h[i - 1] = g[i - 1]
          BY <3>1
        <4> HIDE DEF h
        <4> QED BY <2>1, <4>1, <4>4
      <3>2. CASE ~(i <= d)
        <4>2. i # 1 => h[i - 1] = g[i - 1]
          BY <3>2
        <4>3. h[i] = IF i = 1 THEN q[i] ELSE g[i - 1] \o q[i]
          BY <3>2
        <4> HIDE DEF h
        <4> QED BY <4>2, <4>3
      <3> QED BY <3>1, <3>2
    <2>3. h = [i \in 1 .. d + 1 |-> h[i]]
      OBVIOUS
    <2> HIDE DEF h
    <2>4. Is(h, d + 1)
      BY <2>2, <2>3
    <2> HIDE DEF Is
    <2> QED BY <2>4
  <1> HIDE DEF T
  <1> DEFINE fl == CHOOSE g : Is(g, n)
  <1>5. Is(fl, n)
    <2> HIDE DEF Is, n
    <2>1. \E g : Is(g, n)
      BY <1>1, <1>2, <1>3, Induct DEF T
    <2> QED BY <2>1
  <1> DEFINE f == [m \in 0 .. n |-> IF m = 0 THEN << >> ELSE fl[m]]
  <1>6. FlattenSeq(q) = IF n = 0 THEN q ELSE fl[n]
    BY DEF FlattenSeq
  <1> HIDE DEF fl
  <1>7. FlattenSeq(q) = f[n]
    <2>1. CASE n = 0
      <3>2. f[n] = << >>
        BY <2>1
      <3> QED BY <1>6, <2>1, <3>2
    <2>2. CASE n # 0
      BY <1>1, <1>6, <2>2
    <2> QED BY <2>1, <2>2
  <1>8. ASSUME NEW m \in 1 .. n PROVE f[m] = f[m - 1] \o q[m]
    <2>1. m \in Nat /\ m # 0 /\ m - 1 \in 0 .. n /\ m \in 0 .. n
      BY <1>1
    <2>2. f[m] = fl[m]
      BY <2>1
    <2>3. fl[m] = IF m = 1 THEN q[m] ELSE fl[m - 1] \o q[m]
      BY <1>5
    <2>5. CASE m = 1
      <3>1. f[m - 1] = << >>
        BY <1>1, <2>5
      <3>2. << >> \o q[m] = q[m]
        OBVIOUS
      <3> HIDE DEF f
      <3> QED BY <2>2, <2>3, <2>5, <3>1, <3>2
    <2>6. CASE m # 1
      <3>1. f[m - 1] = fl[m - 1]
        BY <2>1, <2>6
      <3> HIDE DEF f
      <3> QED BY <2>2, <2>3, <2>6, <3>1
    <2> QED BY <2>5, <2>6
  <1>9. f[0] = << >>
    BY <1>1
  <1> HIDE DEF f, n, fl
  <1>10. Flattens(f, q)
    BY <1>8, <1>9 DEF Flattens, n
  <1> QED BY <1>7, <1>10 DEF n
-----------------------------------------------------------------------------
(* The text without its comments, as a database reads it.                  *)

\* The blank that stands for a comment.
Gap == [char |-> "sp", at |-> 0]

\* The bytes of a text know their places.
Numbered(s) == \A k \in 1 .. Len(s) : s[k].at = k

\* The byte k of w stands for a comment, or is one of the bytes of s before i that
\* R reads in w as in s, after a word if it did in s.
Stands(s, ms, i, w, ns, k) ==
    \/ w[k] = Gap /\ ns[k] = Plain
    \/ \E j \in 1 .. i - 1 :
         /\ w[k] = s[j] /\ ns[k] = ms[j]
         /\ ms[j].in \notin InComments /\ ms[j - 1].in # "block"
         /\ s[j].char = "$" /\ j > 1 /\ s[j - 1].char \in isIdentByte
            => k > 1 /\ w[k - 1].char \in isIdentByte

\* Where w ends R is as it is in s before i, or where the comment before i began.
Ends(R, s, ms, i, w, ns) ==
    LET l == Len(w)
    IN  \/ i = 1 /\ l = 0
        \/ i > 1 /\ l > 0 /\ w[l] = s[i - 1] /\ ns[l] = ms[i - 1] /\ ms[i - 1].in \notin InComments
        \/ /\ i > 1 /\ l > 0 /\ w[l] = Gap /\ ns[l] = Plain
           /\ i <= Len(s) => /\ ms[i] = Begins(R, s[i].char, "sp") /\ ms[i - 1].in # "block"
                             /\ s[i].char = "nl" \/ s[i - 1].char = "*/"

\* After a byte of s comes the next one, or the blank for a comment that begins there.
Adjoins(s, ms, w) ==
    \A k, l \in 1 .. Len(w) :
      l = k + 1 /\ w[k].at # 0 =>
        \/ w[l].at = w[k].at + 1
        \/ w[l] = Gap /\ Kind(ms[w[k].at], ms[w[k].at + 1]) \in {"comment", "dash"}

\* w is what stripComments writes for the bytes of s before i.
Copied(R, D, s, ms, i, w, ns) ==
    /\ w \in Seq(D)
    /\ Run(R, w, ns)
    /\ Adjoins(s, ms, w)
    /\ \A k \in 1 .. Len(w) : Stands(s, ms, i, w, ns, k)
    /\ \A k, l \in 1 .. Len(w) : k < l /\ w[l].at # 0 => w[k].at < w[l].at
    /\ \A j \in 1 .. i - 1 : \/ Kind(ms[j - 1], ms[j]) \in {"comment", "dash"}
                             \/ \E k \in 1 .. Len(w) : w[k] = s[j]
    /\ Ends(R, s, ms, i, w, ns)

LEMMA Appended ==
  ASSUME NEW D, NEW w \in Seq(D), NEW b \in D, NEW v, v = Append(w, b)
  PROVE  /\ v \in Seq(D) /\ Len(v) = Len(w) + 1 /\ Len(w) \in Nat /\ v[Len(w) + 1] = b
         /\ \A k \in 1 .. Len(w) : v[k] = w[k]
PROOF
  OBVIOUS

\* R has read w and one byte more.
Onward(w, ns, x) == [k \in 0 .. Len(w) + 1 |-> IF k <= Len(w) THEN ns[k] ELSE x]

LEMMA OnwardIs ==
  ASSUME NEW w, Len(w) \in Nat, NEW ns, NEW x
  PROVE  /\ Onward(w, ns, x)[Len(w) + 1] = x
         /\ \A k \in 0 .. Len(w) : Onward(w, ns, x)[k] = ns[k]
PROOF
  BY DEF Onward

LEMMA RunOn ==
  ASSUME NEW R \in Reader, NEW D, NEW w \in Seq(D), NEW ns, Run(R, w, ns), NEW b \in D, NEW x,
         x = Steps(R, ns[Len(w)], b.char, Prev(w, Len(w) + 1))
  PROVE  Run(R, Append(w, b), Onward(w, ns, x))
PROOF
  <1> DEFINE l == Len(w)
             v == Append(w, b)
             n2 == Onward(w, ns, x)
  <1>1. /\ Len(v) = l + 1 /\ l \in Nat /\ v[l + 1] = b
        /\ \A k \in 1 .. l : v[k] = w[k]
    BY Appended
  <1>2. n2[l + 1] = x /\ \A k \in 0 .. l : n2[k] = ns[k]
    BY <1>1, OnwardIs
  <1> HIDE DEF v, n2, l
  <1>3. ns[0] = Plain /\ \A k \in 1 .. l : ns[k] = Steps(R, ns[k - 1], w[k].char, Prev(w, k))
    BY DEF Run, l
  <1>4. ASSUME NEW k \in 1 .. l + 1 PROVE Prev(v, k) = Prev(w, k)
    <2>1. CASE k = 1
      BY <2>1 DEF Prev
    <2>2. CASE k # 1
      BY <1>1, <2>2 DEF Prev
    <2> QED BY <2>1, <2>2
  <1>5. ASSUME NEW k \in 1 .. l + 1 PROVE n2[k] = Steps(R, n2[k - 1], v[k].char, Prev(v, k))
    <2>1. k - 1 \in 0 .. l /\ k \in Nat
      BY <1>1
    <2>2. CASE k <= l
      <3>1. k \in 1 .. l /\ k \in 0 .. l
        BY <1>1, <2>2
      <3> QED BY <1>1, <1>2, <1>3, <1>4, <2>1, <3>1
    <2>3. CASE k = l + 1
      <3>2. n2[k] = x /\ n2[k - 1] = ns[l] /\ v[k].char = b.char
        BY <1>1, <1>2, <2>1, <2>3
      <3> QED BY <1>4, <2>3, <3>2 DEF l
    <2> QED BY <1>1, <2>1, <2>2, <2>3
  <1>6. n2[0] = Plain
    BY <1>1, <1>2, <1>3
  <1> QED BY <1>1, <1>5, <1>6 DEF Run, v, n2

\* Stands survives more of s and more of w.
LEMMA StandsOn ==
  ASSUME NEW s, NEW ms, NEW i \in Nat, NEW h \in Nat, i <= h, NEW D, NEW w \in Seq(D), NEW b \in D, NEW ns, NEW x,
         NEW k \in 1 .. Len(w), Stands(s, ms, i, w, ns, k)
  PROVE  Stands(s, ms, h, Append(w, b), Onward(w, ns, x), k)
PROOF
  <1> DEFINE l == Len(w)
             v == Append(w, b)
             n2 == Onward(w, ns, x)
  <1>1. /\ l \in Nat /\ \A y \in 1 .. l : v[y] = w[y]
    BY Appended
  <1>2. \A y \in 0 .. l : n2[y] = ns[y]
    BY <1>1, OnwardIs
  <1> HIDE DEF v, n2
  <1>3. k \in Nat /\ k \in 0 .. l /\ v[k] = w[k] /\ (k > 1 => v[k - 1] = w[k - 1])
    <2>2. k \in Nat /\ k \in 0 .. l
      BY <1>1
    <2> QED BY <1>1, <2>2
  <1>4. n2[k] = ns[k]
    BY <1>2, <1>3
  <1>5. CASE w[k] = Gap /\ ns[k] = Plain
    BY <1>3, <1>4, <1>5 DEF Stands, v, n2
  <1>6. ASSUME NEW j \in 1 .. i - 1,
               w[k] = s[j], ns[k] = ms[j],
               ms[j].in \notin InComments, ms[j - 1].in # "block",
               s[j].char = "$" /\ j > 1 /\ s[j - 1].char \in isIdentByte
               => k > 1 /\ w[k - 1].char \in isIdentByte
        PROVE  Stands(s, ms, h, v, n2, k)
    <2> HIDE DEF l
    <2> QED BY <1>3, <1>4, <1>6 DEF Stands
  <1> QED BY <1>5, <1>6 DEF Stands, v, n2

\* The bytes of w and one more know the order they were copied in.
LEMMA OrderOn ==
  ASSUME NEW D, NEW w \in Seq(D), NEW b \in D, b.at \in Nat,
         \A k, l \in 1 .. Len(w) : k < l /\ w[l].at # 0 => w[k].at < w[l].at,
         b.at # 0 => \A k \in 1 .. Len(w) : w[k].at < b.at,
         NEW v, v = Append(w, b)
  PROVE  \A k, l \in 1 .. Len(v) : k < l /\ v[l].at # 0 => v[k].at < v[l].at
PROOF
  <1>1. /\ Len(v) = Len(w) + 1 /\ Len(w) \in Nat /\ v[Len(w) + 1] = b
        /\ \A y \in 1 .. Len(w) : v[y] = w[y]
    BY Appended
  <1> SUFFICES ASSUME NEW k \in 1 .. Len(v), NEW l \in 1 .. Len(v), k < l, v[l].at # 0
               PROVE  v[k].at < v[l].at
    OBVIOUS
  <1>2. k \in 1 .. Len(w)
    BY <1>1
  <1>3. CASE l \in 1 .. Len(w)
    BY <1>1, <1>2, <1>3
  <1>4. CASE l = Len(w) + 1
    BY <1>1, <1>2, <1>4
  <1> QED BY <1>1, <1>3, <1>4

LEMMA AdjoinsOn ==
  ASSUME NEW s, NEW ms, NEW D, NEW w \in Seq(D), NEW b \in D, Adjoins(s, ms, w),
         NEW l, l = Len(w),
         l > 0 /\ w[l].at # 0 => \/ b.at = w[l].at + 1
                                 \/ b = Gap /\ Kind(ms[w[l].at], ms[w[l].at + 1]) \in {"comment", "dash"},
         NEW v, v = Append(w, b)
  PROVE  Adjoins(s, ms, v)
PROOF
  <1>1. /\ Len(v) = l + 1 /\ l \in Nat /\ v[l + 1] = b
        /\ \A y \in 1 .. l : v[y] = w[y]
    BY Appended
  <1> SUFFICES ASSUME NEW k \in 1 .. Len(v), k + 1 \in 1 .. Len(v), v[k].at # 0
               PROVE  \/ v[k + 1].at = v[k].at + 1
                      \/ v[k + 1] = Gap /\ Kind(ms[v[k].at], ms[v[k].at + 1]) \in {"comment", "dash"}
    BY DEF Adjoins
  <1>2. k \in 1 .. l /\ k \in 1 .. Len(w) /\ v[k] = w[k]
    BY <1>1
  <1>3. CASE k = l
    BY <1>1, <1>2, <1>3
  <1>4. CASE k # l
    <2>1. k + 1 \in 1 .. l /\ k + 1 \in 1 .. Len(w)
      BY <1>1, <1>2, <1>4
    <2> QED BY <1>1, <1>2, <2>1 DEF Adjoins
  <1> QED BY <1>3, <1>4

\* What w stands for is before i.
LEMMA StandsBefore ==
  ASSUME NEW s, Numbered(s), NEW ms, NEW i \in 1 .. Len(s) + 1, NEW w, NEW ns, NEW k,
         Stands(s, ms, i, w, ns, k)
  PROVE  w[k].at \in Nat /\ w[k].at < i
PROOF
  <1>1. CASE w[k] = Gap
    BY <1>1 DEF Gap
  <1>2. ASSUME NEW j \in 1 .. i - 1, w[k] = s[j] PROVE w[k].at \in Nat /\ w[k].at < i
    BY <1>2 DEF Numbered
  <1> QED BY <1>1, <1>2 DEF Stands

LEMMA PrevIs ==
  ASSUME NEW s, NEW l \in Nat
  PROVE  Prev(s, l + 1) = IF l = 0 THEN "start" ELSE s[l].char
PROOF
  BY DEF Prev

\* stripComments copies a byte that begins no comment.
LEMMA CopyOne ==
  ASSUME NEW R \in Reader, NEW D, NEW s \in Seq(D), Gap \in D, Numbered(s), NEW ms, Run(R, s, ms),
         NEW i \in 1 .. Len(s), ms[i].in \notin InComments, NEW w, NEW ns, Copied(R, D, s, ms, i, w, ns)
  PROVE  \E n2 : Copied(R, D, s, ms, i + 1, Append(w, s[i]), n2)
PROOF
  <1> DEFINE l == Len(w)
             b == s[i]
             v == Append(w, b)
             x == ms[i]
             n2 == Onward(w, ns, x)
  <1>1. /\ w \in Seq(D) /\ Run(R, w, ns)
        /\ \A k \in 1 .. l : Stands(s, ms, i, w, ns, k)
        /\ \A k, y \in 1 .. l : k < y /\ w[y].at # 0 => w[k].at < w[y].at
        /\ \A j \in 1 .. i - 1 : \/ Kind(ms[j - 1], ms[j]) \in {"comment", "dash"}
                                 \/ \E k \in 1 .. l : w[k] = s[j]
        /\ Ends(R, s, ms, i, w, ns)
    BY DEF Copied
  <1>2. b \in D /\ i \in Nat /\ b.at = i /\ i >= 1 /\ i <= Len(s)
    BY DEF Numbered
  <1>3. /\ v \in Seq(D) /\ Len(v) = l + 1 /\ l \in Nat /\ v[l + 1] = b
        /\ \A k \in 1 .. l : v[k] = w[k]
    BY <1>1, <1>2, Appended
  <1>4. ms[i] = Steps(R, ms[i - 1], b.char, Prev(s, i))
    BY DEF Run
  <1>5. Prev(w, l + 1) = IF l = 0 THEN "start" ELSE w[l].char
    BY <1>3, PrevIs
  <1>7. n2[l + 1] = x
    BY <1>3, OnwardIs
  <1> HIDE DEF l, v, n2
  <1>8. /\ x = Steps(R, ns[l], b.char, Prev(w, l + 1))
        /\ ms[i - 1].in # "block"
        /\ b.char = "$" /\ i > 1 /\ s[i - 1].char \in isIdentByte
           => l > 0 /\ w[l].char \in isIdentByte
    <2>1. CASE i = 1 /\ l = 0
      <3>1. Prev(s, i) = "start" /\ i - 1 = 0
        BY <2>1 DEF Prev
      <3>2. Plain.in # "block"
        BY FieldsOf DEF Plain
      <3> QED BY <1>1, <1>4, <1>5, <2>1, <3>1, <3>2 DEF Run
    <2>2. CASE i > 1 /\ l > 0 /\ w[l] = s[i - 1] /\ ns[l] = ms[i - 1] /\ ms[i - 1].in \notin InComments
      <3>2. Prev(w, l + 1) = Prev(s, i)
        BY <1>5, <2>2 DEF Prev
      <3> QED BY <1>4, <2>2, <3>2 DEF InComments
    <2>3. CASE /\ i > 1 /\ l > 0 /\ w[l] = Gap /\ ns[l] = Plain
               /\ i <= Len(s) => /\ ms[i] = Begins(R, s[i].char, "sp") /\ ms[i - 1].in # "block"
                                 /\ s[i].char = "nl" \/ s[i - 1].char = "*/"
      <3>2. Steps(R, Plain, b.char, "sp") = Begins(R, b.char, "sp")
        BY ReadsRest
      <3>3. "*/" \notin isIdentByte
        BY DEF isIdentByte, isDigit, Letter
      <3> QED BY <1>2, <1>5, <2>3, <3>2, <3>3 DEF Gap
    <2> QED BY <1>1, <2>1, <2>2, <2>3 DEF Ends, l
  <1>10. ASSUME NEW k \in 1 .. l + 1 PROVE Stands(s, ms, i + 1, v, n2, k)
    <2>1. CASE k \in 1 .. l
      <3> HIDE DEF b, x
      <3> QED BY <1>1, <1>2, <2>1, StandsOn DEF v, n2, l
    <2>2. CASE k = l + 1
      <3>2. v[k] = s[i] /\ n2[k] = ms[i] /\ ms[i].in \notin InComments /\ ms[i - 1].in # "block"
        BY <1>3, <1>7, <1>8, <2>2
      <3>3. s[i].char = "$" /\ i > 1 /\ s[i - 1].char \in isIdentByte
            => k > 1 /\ v[k - 1].char \in isIdentByte
        BY <1>3, <1>8, <2>2
      <3> HIDE DEF b, x
      <3> QED BY <1>2, <3>2, <3>3 DEF Stands
    <2> QED BY <1>3, <2>1, <2>2
  <1>11. \A k, y \in 1 .. Len(v) : k < y /\ v[y].at # 0 => v[k].at < v[y].at
    <2>1. ASSUME NEW k \in 1 .. Len(w) PROVE w[k].at < b.at
      <3>2. i \in 1 .. Len(s) + 1
        OBVIOUS
      <3> QED BY <1>1, <1>2, <3>2, StandsBefore DEF l
    <2> HIDE DEF b
    <2> QED BY <1>1, <1>2, <2>1, OrderOn DEF v, l
  <1>12. ASSUME NEW j \in 1 .. (i + 1) - 1
         PROVE  \/ Kind(ms[j - 1], ms[j]) \in {"comment", "dash"}
                \/ \E k \in 1 .. Len(v) : v[k] = s[j]
    <2>1. CASE j \in 1 .. i - 1
      BY <1>1, <1>3, <2>1
    <2>2. CASE j = i
      BY <1>3, <2>2
    <2> QED BY <1>2, <2>1, <2>2
  <1>13. Ends(R, s, ms, i + 1, v, n2)
    BY <1>2, <1>3, <1>7 DEF Ends
  <1>14. \A k \in 1 .. Len(v) : Stands(s, ms, i + 1, v, n2, k)
    BY <1>3, <1>10
  <1>15. v \in Seq(D)
    BY <1>3
  <1>16. Adjoins(s, ms, v)
    <2>1. l > 0 /\ w[l].at # 0 => b.at = w[l].at + 1
      <3>2. CASE i > 1 /\ l > 0 /\ w[l] = s[i - 1]
        <4>1. i - 1 \in 1 .. Len(s) /\ (i - 1) + 1 = i
          BY <1>2, <3>2
        <4> QED BY <1>2, <3>2, <4>1 DEF Numbered
      <3> QED BY <1>1, <1>3, <3>2 DEF Gap, Ends, l
    <2>3. Adjoins(s, ms, w)
      BY DEF Copied
    <2> HIDE DEF b
    <2> QED BY <1>1, <1>2, <2>1, <2>3, AdjoinsOn DEF v, l
  <1> HIDE DEF b, x
  <1>17. Copied(R, D, s, ms, i + 1, v, n2)
    BY <1>1, <1>2, <1>8, <1>11, <1>12, <1>13, <1>14, <1>15, <1>16, RunOn DEF v, n2, l, Copied
  <1> QED BY <1>17 DEF v, b

\* stripComments writes a blank for a comment.
LEMMA CopyGap ==
  ASSUME NEW R \in Reader, NEW D, NEW s \in Seq(D), Gap \in D, Numbered(s), NEW ms, Run(R, s, ms),
         NEW i \in 1 .. Len(s), NEW w, NEW ns, Copied(R, D, s, ms, i, w, ns),
         NEW p, CommentTaken(R, s, ms, p), p.lo = i, NEW h \in Nat, p.hi = h, i < h, h <= Len(s) + 1
  PROVE  \E n2 : Copied(R, D, s, ms, h, Append(w, Gap), n2)
PROOF
  <1> DEFINE l == Len(w)
             v == Append(w, Gap)
             n2 == Onward(w, ns, Plain)
  <1>1. /\ w \in Seq(D) /\ Run(R, w, ns) /\ Adjoins(s, ms, w)
        /\ \A k \in 1 .. l : Stands(s, ms, i, w, ns, k)
        /\ \A k, y \in 1 .. l : k < y /\ w[y].at # 0 => w[k].at < w[y].at
        /\ \A j \in 1 .. i - 1 : \/ Kind(ms[j - 1], ms[j]) \in {"comment", "dash"}
                                 \/ \E k \in 1 .. l : w[k] = s[j]
        /\ Ends(R, s, ms, i, w, ns)
    BY DEF Copied
  <1>2. i \in Nat /\ i >= 1 /\ i <= Len(s)
    OBVIOUS
  <1>3. /\ v \in Seq(D) /\ Len(v) = l + 1 /\ l \in Nat /\ v[l + 1] = Gap
        /\ \A k \in 1 .. l : v[k] = w[k]
    BY <1>1, Appended
  <1>4. /\ ms[i].in \in InComments
        /\ \A k \in i .. h - 1 : Kind(ms[k - 1], ms[k]) \in {"comment", "dash"}
        /\ h <= Len(s) => /\ ms[h - 1].in # "block"
                          /\ ms[h] = Begins(R, s[h].char, "sp")
                          /\ s[h].char = "nl" \/ s[h - 1].char = "*/"
    BY DEF CommentTaken
  <1>5. Gap.char = "sp" /\ Gap.at = 0
    BY DEF Gap
  <1>6. n2[l + 1] = Plain
    BY <1>3, OnwardIs
  <1> HIDE DEF l, v, n2
  <1>7. Plain = Steps(R, ns[l], "sp", Prev(w, l + 1))
    <2>1. Shaped(ns[l])
      BY <1>1, <1>3, RunShaped DEF l
    <2>2. Plain.in = "plain"
      BY FieldsOf DEF Plain
    <2>3. ns[l].in \in {"plain", "closed", "tag"}
      <3>1. CASE i = 1 /\ l = 0
        BY <1>1, <2>2, <3>1 DEF Run
      <3>2. CASE i > 1 /\ l > 0 /\ w[l] = s[i - 1] /\ ns[l] = ms[i - 1] /\ ms[i - 1].in \notin InComments
        <4>3. Shaped(ms[i - 1])
          BY <1>2, RunShaped
        <4> QED BY <1>4, <3>2, <4>3, IntoComment DEF Run
      <3>3. CASE ns[l] = Plain
        BY <2>2, <3>3
      <3> QED BY <1>1, <3>1, <3>2, <3>3 DEF Ends, l
    <2> QED BY <2>1, <2>3, BlankAfter
  <1>9. ASSUME NEW k \in 1 .. l + 1 PROVE Stands(s, ms, h, v, n2, k)
    <2>1. CASE k \in 1 .. l
      BY <1>1, <1>2, <2>1, StandsOn DEF v, n2, l
    <2>2. CASE k = l + 1
      BY <1>3, <1>6, <2>2 DEF Stands
    <2> QED BY <1>3, <2>1, <2>2
  <1>10. \A k, y \in 1 .. Len(v) : k < y /\ v[y].at # 0 => v[k].at < v[y].at
    <2>2. \A k, y \in 1 .. Len(w) : k < y /\ w[y].at # 0 => w[k].at < w[y].at
      BY <1>1 DEF l
    <2> QED BY <1>1, <1>5, <2>2, OrderOn DEF v
  <1>11. ASSUME NEW j \in 1 .. h - 1
         PROVE  \/ Kind(ms[j - 1], ms[j]) \in {"comment", "dash"}
                \/ \E k \in 1 .. Len(v) : v[k] = s[j]
    <2>1. CASE j \in 1 .. i - 1
      BY <1>1, <1>3, <2>1
    <2>2. CASE j \in i .. h - 1
      BY <1>4, <2>2
    <2> QED BY <1>2, <2>1, <2>2
  <1>12. Ends(R, s, ms, h, v, n2)
    BY <1>2, <1>3, <1>4, <1>6 DEF Ends
  <1>13. \A k \in 1 .. Len(v) : Stands(s, ms, h, v, n2, k)
    BY <1>3, <1>9
  <1>14. v \in Seq(D)
    BY <1>3
  <1>15. Adjoins(s, ms, v)
    <2>1. l > 0 /\ w[l].at # 0 => Kind(ms[w[l].at], ms[w[l].at + 1]) \in {"comment", "dash"}
      <3>1. CASE i > 1 /\ l > 0 /\ w[l] = s[i - 1]
        <4>1. i - 1 \in 1 .. Len(s) /\ (i - 1) + 1 = i /\ i \in i .. h - 1
          BY <1>2, <3>1
        <4>3. Kind(ms[i - 1], ms[i]) \in {"comment", "dash"}
          BY <1>4, <4>1
        <4> QED BY <3>1, <4>1, <4>3 DEF Numbered
      <3> QED BY <1>1, <1>3, <1>5, <3>1 DEF Ends, l
    <2> QED BY <1>1, <2>1, AdjoinsOn DEF v, l
  <1>16. Copied(R, D, s, ms, h, v, n2)
    BY <1>1, <1>5, <1>7, <1>10, <1>11, <1>12, <1>13, <1>14, <1>15, RunOn DEF v, n2, l, Copied
  <1> QED BY <1>16 DEF v

\* u is v followed by w.
IsJoined(D, v, w, u) ==
    /\ u \in Seq(D) /\ Len(u) = Len(v) + Len(w) /\ Len(v) \in Nat /\ Len(w) \in Nat
    /\ \A x \in 1 .. Len(v) : u[x] = v[x]
    /\ \A x \in 1 .. Len(w) : u[Len(v) + x] = w[x]

LEMMA Joined ==
  ASSUME NEW D, NEW v \in Seq(D), NEW w \in Seq(D)
  PROVE  IsJoined(D, v, w, v \o w)
PROOF
  <1> DEFINE u == v \o w
  <1>1. u \in Seq(D) /\ Len(u) = Len(v) + Len(w) /\ Len(v) \in Nat /\ Len(w) \in Nat
    OBVIOUS
  <1>2. \A x \in 1 .. Len(v) : u[x] = v[x]
    OBVIOUS
  <1>3. ASSUME NEW x \in 1 .. Len(w) PROVE u[Len(v) + x] = w[x]
    <2>2. \A y \in 1 .. Len(v) + Len(w) : u[y] = IF y <= Len(v) THEN v[y] ELSE w[y - Len(v)]
      OBVIOUS
    <2> QED BY <1>1, <2>2
  <1> HIDE DEF u
  <1>4. IsJoined(D, v, w, u)
    BY <1>1, <1>2, <1>3 DEF IsJoined
  <1> QED BY <1>4 DEF u

\* w and what follows it in s from lo to h.
Through(s, w, lo, h) == w \o SubSeq(s, lo, h)

LEMMA CopyGrows ==
  ASSUME NEW D, NEW s \in Seq(D), NEW w \in Seq(D), NEW lo \in 1 .. Len(s)
  PROVE  /\ Through(s, w, lo, lo - 1) = w
         /\ \A h \in lo .. Len(s) : Through(s, w, lo, h) = Append(Through(s, w, lo, h - 1), s[h])
PROOF
  <1>1. w \o SubSeq(s, lo, lo - 1) = w
    <2> QED OBVIOUS
  <1>2. ASSUME NEW h \in lo .. Len(s)
        PROVE  w \o SubSeq(s, lo, h) = Append(w \o SubSeq(s, lo, h - 1), s[h])
    <2> DEFINE a == SubSeq(s, lo, h)
               b == SubSeq(s, lo, h - 1)
               e == s[h]
    <2>1. a \in Seq(D) /\ b \in Seq(D) /\ Len(a) = h + 1 - lo /\ Len(b) = h - lo
      OBVIOUS
    <2>2. \A x \in 1 .. Len(a) : a[x] = s[lo + x - 1]
      OBVIOUS
    <2>3. \A x \in 1 .. Len(b) : b[x] = s[lo + x - 1]
      OBVIOUS
    <2>4. e \in D
      OBVIOUS
    <2>5. a[Len(a)] = e /\ Len(a) = Len(b) + 1 /\ \A x \in 1 .. Len(b) : a[x] = b[x]
      <3>1. Len(a) \in 1 .. Len(a) /\ lo + Len(a) - 1 = h /\ Len(a) = Len(b) + 1 /\ Len(b) \in Nat
        BY <2>1
      <3> HIDE DEF a, b
      <3> QED BY <2>2, <2>3, <3>1
    <2> HIDE DEF a, b, e
    <2>6. w \o a = Append(w \o b, e)
      <3> DEFINE u == w \o a
                 o == w \o b
                 v == Append(o, e)
      <3>0. u = w \o a /\ o = w \o b /\ v = Append(o, e)
        OBVIOUS
      <3> HIDE DEF u, o, v
      <3>1. /\ u \in Seq(D) /\ Len(u) = Len(w) + Len(a) /\ Len(w) \in Nat
            /\ \A x \in 1 .. Len(w) : u[x] = w[x]
            /\ \A x \in 1 .. Len(a) : u[Len(w) + x] = a[x]
        <4>1. IsJoined(D, w, a, w \o a)
          BY <2>1, Joined
        <4> QED BY <3>0, <4>1 DEF IsJoined
      <3>2. /\ o \in Seq(D) /\ Len(o) = Len(w) + Len(b) /\ Len(b) \in Nat
            /\ \A x \in 1 .. Len(w) : o[x] = w[x]
            /\ \A x \in 1 .. Len(b) : o[Len(w) + x] = b[x]
        <4>1. IsJoined(D, w, b, w \o b)
          BY <2>1, Joined
        <4> QED BY <3>0, <4>1 DEF IsJoined
      <3>4. v \in Seq(D) /\ Len(v) = Len(o) + 1 /\ v[Len(o) + 1] = e /\ \A x \in 1 .. Len(o) : v[x] = o[x]
        BY <2>4, <3>0, <3>2, Appended
      <3>5. Len(u) = Len(v)
        BY <2>5, <3>1, <3>2, <3>4
      <3>6. ASSUME NEW x \in 1 .. Len(u) PROVE u[x] = v[x]
        <4>1. CASE x \in 1 .. Len(w)
          BY <3>1, <3>2, <3>4, <4>1
        <4>2. ASSUME NEW y \in 1 .. Len(b), x = Len(w) + y PROVE u[x] = v[x]
          BY <2>5, <3>1, <3>2, <3>4, <4>2
        <4>3. CASE x = Len(w) + Len(a)
          BY <2>5, <3>1, <3>2, <3>4, <4>3
        <4>4. x \in 1 .. Len(w) \/ x = Len(w) + Len(a) \/ x - Len(w) \in 1 .. Len(b)
          <5> DEFINE k == Len(w)
                     d == Len(b)
          <5>1. x \in Nat /\ x >= 1 /\ x <= k + d + 1 /\ Len(a) = d + 1 /\ k \in Nat /\ d \in Nat
            BY <2>5, <3>1, <3>2
          <5> HIDE DEF k, d
          <5> QED BY <5>1 DEF k, d
        <4>5. x - Len(w) \in 1 .. Len(b) => x = Len(w) + (x - Len(w))
          BY <3>1
        <4> QED BY <4>1, <4>2, <4>3, <4>4, <4>5
      <3>7. u = v
        BY <3>1, <3>4, <3>5, <3>6, SameSequence
      <3> QED BY <3>7 DEF u, v, o
    <2> QED BY <2>6 DEF a, b, e
  <1> QED BY <1>1, <1>2 DEF Through

\* stripComments copies a piece that is no comment byte for byte.
LEMMA CopySpan ==
  ASSUME NEW R \in Reader, NEW D, NEW s \in Seq(D), Gap \in D, Numbered(s), NEW ms, Run(R, s, ms),
         NEW lo \in 1 .. Len(s), NEW w, NEW ns, Copied(R, D, s, ms, lo, w, ns),
         NEW h \in Nat, lo < h, h <= Len(s) + 1, \A k \in lo .. h - 1 : ms[k].in \notin InComments
  PROVE  \E n2 : Copied(R, D, s, ms, h, Through(s, w, lo, h - 1), n2)
PROOF
  <1> DEFINE Out(d) == Through(s, w, lo, lo + d - 1)
             T == {d \in Nat : lo + d <= h => \E n2 : Copied(R, D, s, ms, lo + d, Out(d), n2)}
  <1>1. w \in Seq(D) /\ lo \in Nat /\ lo >= 1 /\ Len(s) \in Nat
    BY DEF Copied
  <1>2. /\ Through(s, w, lo, lo - 1) = w
        /\ \A k \in lo .. Len(s) : Through(s, w, lo, k) = Append(Through(s, w, lo, k - 1), s[k])
    BY <1>1, CopyGrows
  <1>3. 0 \in T
    <2>2. Copied(R, D, s, ms, lo + 0, Out(0), ns)
      BY <1>2
    <2> HIDE DEF Out
    <2> QED BY <2>2
  <1>4. ASSUME NEW d \in Nat, d \in T PROVE d + 1 \in T
    <2> SUFFICES ASSUME lo + (d + 1) <= h
                 PROVE  \E n2 : Copied(R, D, s, ms, lo + (d + 1), Out(d + 1), n2)
      OBVIOUS
    <2> DEFINE k == lo + d
    <2>1. k \in lo .. h - 1 /\ k \in lo .. Len(s) /\ k \in 1 .. Len(s) /\ lo + d <= h
      BY <1>1
    <2>2. lo + (d + 1) = k + 1 /\ lo + (d + 1) - 1 = k /\ lo + d - 1 = k - 1
      OBVIOUS
    <2>3. PICK n1 : Copied(R, D, s, ms, k, Out(d), n1)
      BY <1>4, <2>1
    <2>4. Out(d + 1) = Append(Out(d), s[k])
      BY <1>2, <2>1, <2>2
    <2> HIDE DEF k, Out, T
    <2>6. \E n2 : Copied(R, D, s, ms, k + 1, Append(Out(d), s[k]), n2)
      BY <2>1, <2>3, CopyOne
    <2> QED BY <2>2, <2>4, <2>6
  <1> HIDE DEF T
  <1>5. Nat \subseteq T
    BY <1>3, <1>4, Induct
  <1>6. PICK e \in Nat : lo + e = h
    BY <1>1
  <1>7. lo + e <= h /\ e \in T
    BY <1>5, <1>6
  <1>8. \E n2 : Copied(R, D, s, ms, lo + e, Out(e), n2)
    BY <1>7 DEF T
  <1> QED BY <1>6, <1>8

LEMMA CutOut ==
  ASSUME NEW D, NEW s \in Seq(D), NEW lo \in 1 .. Len(s), NEW h \in Nat, lo < h, h <= Len(s) + 1,
         NEW u, u = SubSeq(s, lo, h - 1)
  PROVE  u \in Seq(D) /\ Len(u) = h - lo /\ \A x \in 1 .. h - lo : u[x] = s[lo + x - 1]
PROOF BY SMTT(60)

StripPieces(s) == Pieces(s, [i \in DOMAIN s |-> StripPiece(s, i)])

LEMMA StripInTurn ==
  ASSUME NEW C, NEW s \in Seq(C), NEW ps, ps = StripPieces(s)
  PROVE  InTurn(s, ps) /\ \A m \in 1 .. Len(ps) : ps[m] = StripPiece(s, ps[m].lo)
PROOF
  <1> DEFINE pa == [i \in DOMAIN s |-> StripPiece(s, i)]
  <1>1. \A i \in 1 .. Len(s) : pa[i] = StripPiece(s, i)
    OBVIOUS
  <1>2. ps = Pieces(s, pa)
    BY DEF StripPieces
  <1> HIDE DEF pa
  <1>3. ASSUME NEW i \in 1 .. Len(s)
        PROVE  pa[i].lo = i /\ pa[i].hi \in Nat /\ i < pa[i].hi /\ pa[i].hi <= Len(s) + 1
    <2> DEFINE p == StripPiece(s, i)
    <2> QED BY <1>1, StripAdvances
  <1>4. Advances(s, pa) /\ \A i \in 1 .. Len(s) : pa[i].lo = i
    BY <1>3 DEF Advances
  <1>5. InTurn(s, ps) /\ \A m \in 1 .. Len(ps) : ps[m] = pa[ps[m].lo]
    BY <1>2, <1>4, PiecesInTurn
  <1> QED BY <1>1, <1>5 DEF InTurn

\* q is what stripComments writes for the pieces ps.
StripWrites(D, s, ps, q) ==
    /\ q \in Seq(Seq(D)) /\ Len(q) = Len(ps)
    /\ \A m \in 1 .. Len(ps) :
         q[m] = IF ps[m].kind = "comment" THEN <<Gap>> ELSE SubSeq(s, ps[m].lo, ps[m].hi - 1)

LEMMA StripWritten ==
  ASSUME NEW D, NEW s \in Seq(D), Gap \in D, InTurn(s, StripPieces(s))
  PROVE  \E q : StripWrites(D, s, StripPieces(s), q) /\ stripComments(s) = FlattenSeq(q)
PROOF
  <1> DEFINE ps == StripPieces(s)
             W(p) == IF p.kind = "comment" THEN Write("sp") ELSE Copy(s, p)
             q == [k \in DOMAIN ps |-> W(ps[k])]
             c == Len(ps)
             E == Seq(D)
  <1>1. Len(s) \in Nat
    OBVIOUS
  <1>2. stripComments(s) = FlattenSeq(q)
    BY DEF stripComments, Written, StripPieces
  <1> HIDE DEF ps
  <1>3. c \in Nat /\ DOMAIN ps = 1 .. c
    BY DEF InTurn, ps
  <1>4. \A m \in 1 .. c : /\ ps[m].lo \in 1 .. Len(s) /\ ps[m].hi \in Nat
                          /\ ps[m].lo < ps[m].hi /\ ps[m].hi <= Len(s) + 1
    BY DEF InTurn, ps
  <1> HIDE DEF c
  <1>6. ASSUME NEW m \in 1 .. c
        PROVE  q[m] = IF ps[m].kind = "comment" THEN <<Gap>> ELSE SubSeq(s, ps[m].lo, ps[m].hi - 1)
    BY <1>3 DEF Write, Gap, Copy
  <1>7. q = [m \in 1 .. c |-> q[m]]
    BY <1>3
  <1> HIDE DEF q
  <1>8. ASSUME NEW m \in 1 .. c PROVE q[m] \in Seq(D)
    <2>1. <<Gap>> \in Seq(D)
      OBVIOUS
    <2> DEFINE lo == ps[m].lo
               h == ps[m].hi
               u == SubSeq(s, lo, h - 1)
    <2>2. lo \in 1 .. Len(s) /\ h \in Nat /\ lo < h /\ h <= Len(s) + 1
      BY <1>4
    <2> HIDE DEF lo, h, u
    <2>3. u \in Seq(D)
      BY <2>2, CutOut DEF u
    <2> QED BY <1>6, <2>1, <2>3 DEF u, lo, h
  <1>9. q \in Seq(E) /\ Len(q) = c
    <2> HIDE DEF E
    <2>1. \A m \in 1 .. c : q[m] \in E
      BY <1>8 DEF E
    <2>2. q \in [1 .. c -> E]
      BY <1>7, <2>1
    <2> QED BY <1>3, <2>2
  <1>10. StripWrites(D, s, ps, q)
    BY <1>6, <1>9 DEF StripWrites, c
  <1> QED BY <1>2, <1>10 DEF ps

\* The pieces of stripComments are R's: what it takes for comments, and nothing else,
\* is one for R.
StripFits(R, s, ms, ps) ==
    /\ InTurn(s, ps)
    /\ \A m \in 1 .. Len(ps) :
         \/ CommentTaken(R, s, ms, ps[m])
         \/ ps[m].kind # "comment" /\ \A k \in ps[m].lo .. ps[m].hi - 1 : ms[k].in \notin InComments

\* What stripComments then makes of a text is the text without its comments.
LEMMA FitCopies ==
  ASSUME NEW R \in Reader, NEW D, NEW s \in Seq(D), Gap \in D, Numbered(s), NEW ms, Run(R, s, ms),
         StripFits(R, s, ms, StripPieces(s))
  PROVE  \E ns : Copied(R, D, s, ms, Len(s) + 1, stripComments(s), ns)
PROOF
  <1> DEFINE ps == StripPieces(s)
             c == Len(ps)
             At(m) == IF m < c THEN ps[m + 1].lo ELSE Len(s) + 1
  <1>1. InTurn(s, ps)
    BY DEF StripFits
  <1>2. PICK q : StripWrites(D, s, ps, q) /\ stripComments(s) = FlattenSeq(q)
    BY <1>1, StripWritten
  <1> HIDE DEF ps
  <1>3. /\ c \in Nat /\ DOMAIN ps = 1 .. c
        /\ c = 0 => Len(s) = 0
        /\ c > 0 => ps[1].lo = 1
        /\ \A m \in 1 .. c : ps[m].hi = IF m < c THEN ps[m + 1].lo ELSE Len(s) + 1
    BY <1>1 DEF InTurn
  <1>4. \A m \in 1 .. c : /\ ps[m].lo \in 1 .. Len(s) /\ ps[m].hi \in Nat
                          /\ ps[m].lo < ps[m].hi /\ ps[m].hi <= Len(s) + 1
    BY <1>1 DEF InTurn
  <1>5. \A m \in 1 .. c :
             \/ CommentTaken(R, s, ms, ps[m])
             \/ ps[m].kind # "comment" /\ \A k \in ps[m].lo .. ps[m].hi - 1 : ms[k].in \notin InComments
    BY DEF StripFits, ps
  <1>6. /\ q \in Seq(Seq(D)) /\ Len(q) = c
        /\ \A m \in 1 .. c :
             q[m] = IF ps[m].kind = "comment" THEN <<Gap>> ELSE SubSeq(s, ps[m].lo, ps[m].hi - 1)
    BY <1>2 DEF StripWrites
  <1> HIDE DEF c
  <1>10. PICK f : Flattens(f, q) /\ FlattenSeq(q) = f[Len(q)]
    BY <1>6, FlattenIs
  <1> DEFINE T == {m \in Nat : m <= c => \E ns : Copied(R, D, s, ms, At(m), f[m], ns)}
  <1>11. 0 \in T
    <2> DEFINE n0 == [k \in {0} |-> Plain]
    <2>2. n0[0] = Plain
      OBVIOUS
    <2> HIDE DEF n0
    <2>3. Copied(R, D, s, ms, 1, << >>, n0)
      <3>1. << >> \in Seq(D) /\ Len(<< >>) = 0 /\ 1 .. 0 = {} /\ 1 - 1 = 0
        OBVIOUS
      <3>2. Run(R, << >>, n0)
        BY <2>2, <3>1 DEF Run
      <3>4. Adjoins(s, ms, << >>)
        BY <3>1 DEF Adjoins
      <3> QED BY <3>1, <3>2, <3>4 DEF Ends, Copied
    <2>4. f[0] = << >>
      BY <1>10 DEF Flattens
    <2> QED BY <1>3, <2>3, <2>4
  <1>12. ASSUME NEW e \in Nat, e \in T PROVE e + 1 \in T
    <2> DEFINE m == e + 1
    <2> SUFFICES ASSUME m <= c PROVE \E ns : Copied(R, D, s, ms, At(m), f[m], ns)
      OBVIOUS
    <2>1. m \in 1 .. c /\ e < c /\ e <= c /\ m - 1 = e
      BY <1>3
    <2>2. PICK n1 : Copied(R, D, s, ms, At(e), f[e], n1)
      BY <1>12, <2>1
    <2> HIDE DEF T
    <2> DEFINE p == ps[m]
               i == p.lo
               h == p.hi
    <2>3. At(e) = i /\ At(m) = h
      BY <1>3, <2>1
    <2> HIDE DEF At, m
    <2>4. i \in 1 .. Len(s) /\ h \in Nat /\ i < h /\ h <= Len(s) + 1
      BY <1>4, <2>1
    <2>9. \/ CommentTaken(R, s, ms, p)
          \/ p.kind # "comment" /\ \A k \in i .. h - 1 : ms[k].in \notin InComments
      BY <1>5, <2>1
    <2>5. /\ f[m] = f[e] \o q[m]
          /\ q[m] = IF p.kind = "comment" THEN <<Gap>> ELSE SubSeq(s, i, h - 1)
      BY <1>6, <1>10, <2>1 DEF Flattens
    <2> HIDE DEF p, i, h
    <2>6. Copied(R, D, s, ms, i, f[e], n1)
      BY <2>2, <2>3
    <2>7. CASE CommentTaken(R, s, ms, p)
      <3>2. q[m] = <<Gap>>
        BY <2>5, <2>7 DEF CommentTaken
      <3>4. f[m] = Append(f[e], Gap)
        <4>1. f[e] \o <<Gap>> = Append(f[e], Gap)
          BY <2>6 DEF Copied
        <4> QED BY <2>5, <3>2, <4>1
      <3>6. \E n2 : Copied(R, D, s, ms, h, Append(f[e], Gap), n2)
        BY <2>4, <2>6, <2>7, CopyGap DEF i, h
      <3> QED BY <2>3, <3>4, <3>6
    <2>8. CASE p.kind # "comment" /\ \A k \in i .. h - 1 : ms[k].in \notin InComments
      <3>5. f[m] = Through(s, f[e], i, h - 1)
        BY <2>5, <2>8 DEF Through
      <3> QED BY <2>3, <2>4, <2>6, <2>8, <3>5, CopySpan
    <2> QED BY <2>7, <2>8, <2>9
  <1> HIDE DEF T
  <1>13. c \in T
    BY <1>3, <1>11, <1>12, Induct
  <1>14. At(c) = Len(s) + 1
    BY <1>3
  <1> HIDE DEF At
  <1>15. \E ns : Copied(R, D, s, ms, Len(s) + 1, f[c], ns)
    BY <1>3, <1>13, <1>14 DEF T
  <1> QED BY <1>2, <1>6, <1>10, <1>15

LEMMA StripCopies ==
  ASSUME NEW R \in Reader, NEW D, NEW s \in Seq(D), Gap \in D, Numbered(s), NEW ms, Run(R, s, ms),
         Suits(R, s, ms, TRUE), Dashes(s)
  PROVE  \E ns : Copied(R, D, s, ms, Len(s) + 1, stripComments(s), ns)
PROOF
  <1> DEFINE pa == [i \in DOMAIN s |-> StripPiece(s, i)]
             ps == Pieces(s, pa)
             c == Len(ps)
  <1>2. \A i \in 1 .. Len(s) : pa[i] = StripPiece(s, i)
    OBVIOUS
  <1>3. ps = StripPieces(s)
    BY DEF StripPieces
  <1> HIDE DEF pa
  <1>4. InOrder(R, s, ms, FALSE, pa, ps)
    <2>2. ASSUME NEW i \in 1 .. Len(s)
          PROVE  pa[i].lo = i /\ pa[i].hi \in Nat /\ i < pa[i].hi /\ pa[i].hi <= Len(s) + 1
      <3> DEFINE p == StripPiece(s, i)
      <3> QED BY <1>2, StripAdvances
    <2>3. Advances(s, pa)
      BY <2>2 DEF Advances
    <2> QED BY <1>2, <2>2, <2>3, StripTakes, AllTaken DEF Takes
  <1> HIDE DEF ps
  <1>5. InTurn(s, ps) /\ \A m \in 1 .. c : Taken(R, s, ms, FALSE, ps[m].lo, ps[m])
    BY <1>4 DEF InOrder
  <1> HIDE DEF c
  <1>7. ASSUME NEW m \in 1 .. c, LiteralTaken(s, ms, ps[m]) \/ ByteTaken(ms, FALSE, ps[m])
        PROVE  ps[m].kind # "comment" /\ \A k \in ps[m].lo .. ps[m].hi - 1 : ms[k].in \notin InComments
    <2> DEFINE p == ps[m]
               i == p.lo
               h == p.hi
    <2>1. p.kind # "comment" /\ i \in 1 .. Len(s) /\ h \in Nat
      BY <1>5, <1>7 DEF InTurn, c, LiteralTaken, ByteTaken
    <2>2. LiteralTaken(s, ms, p) \/ ByteTaken(ms, FALSE, p)
      BY <1>7
    <2> HIDE DEF p, i, h
    <2>3. ASSUME NEW k \in i .. h - 1 PROVE ms[k].in \notin InComments
      <3>1. CASE LiteralTaken(s, ms, p)
        BY <3>1 DEF LiteralTaken, i, h, InLiteral, InComments
      <3>2. CASE ByteTaken(ms, FALSE, p)
        <4>1. h = i + 1 /\ ms[i].in \in {"plain", "tag", "name", "closed"}
          BY <3>2 DEF ByteTaken, i, h
        <4> QED BY <2>1, <4>1 DEF InComments
      <3> QED BY <2>2, <3>1, <3>2
    <2> QED BY <2>1, <2>3 DEF p, i, h
  <1>8. ASSUME NEW m \in 1 .. c
        PROVE  \/ CommentTaken(R, s, ms, ps[m])
               \/ ps[m].kind # "comment" /\ \A k \in ps[m].lo .. ps[m].hi - 1 : ms[k].in \notin InComments
    BY <1>5, <1>7 DEF Taken
  <1>9. StripFits(R, s, ms, ps)
    BY <1>5, <1>8 DEF StripFits, c
  <1> QED BY <1>3, <1>9, FitCopies
-----------------------------------------------------------------------------
(* What a scanner writes for its pieces, one after the other.              *)

\* F holds the elements of q in turn, those of q[m] after off[m] others.
Spread(q, F, off) ==
    /\ \A m \in 1 .. Len(q) :
         /\ off[m] \in Nat
         /\ \A x \in 1 .. Len(q[m]) : off[m] + x \in 1 .. Len(F) /\ F[off[m] + x] = q[m][x]
    /\ \A m, k \in 1 .. Len(q) : m < k => off[m] + Len(q[m]) <= off[k]
    /\ \A y \in 1 .. Len(F) : \E m \in 1 .. Len(q) : \E x \in 1 .. Len(q[m]) : y = off[m] + x

\* After the first e of them.
SpreadTo(q, D, f, e) ==
    /\ f[e] \in Seq(D)
    /\ \A m \in 1 .. e :
         /\ Len(f[m - 1]) \in Nat /\ Len(q[m]) \in Nat /\ Len(f[m - 1]) + Len(q[m]) <= Len(f[e])
         /\ \A x \in 1 .. Len(q[m]) : f[e][Len(f[m - 1]) + x] = q[m][x]
    /\ \A y \in 1 .. Len(f[e]) : \E m \in 1 .. e : \E x \in 1 .. Len(q[m]) : y = Len(f[m - 1]) + x

LEMMA SpreadStep ==
  ASSUME NEW D, NEW q, NEW f, NEW e \in Nat, SpreadTo(q, D, f, e), q[e + 1] \in Seq(D),
         f[e + 1] = f[e] \o q[e + 1]
  PROVE  SpreadTo(q, D, f, e + 1)
PROOF
  <1> DEFINE k == e + 1
             l == Len(f[e])
             n == Len(f[k])
             dk == Len(q[k])
  <1>1. IsJoined(D, f[e], q[k], f[k])
    <2>2. IsJoined(D, f[e], q[k], f[e] \o q[k])
      BY Joined DEF SpreadTo
    <2> QED BY <2>2
  <1>2. /\ f[k] \in Seq(D)
        /\ \A x \in 1 .. l : f[k][x] = f[e][x]
        /\ \A x \in 1 .. dk : f[k][l + x] = q[k][x]
    <2> HIDE DEF k
    <2>2. \A x \in 1 .. l : f[k][x] = f[e][x]
      BY <1>1 DEF IsJoined
    <2>3. \A x \in 1 .. dk : f[k][l + x] = q[k][x]
      BY <1>1 DEF IsJoined
    <2> QED BY <1>1, <2>2, <2>3 DEF IsJoined
  <1>3. n = l + dk /\ l \in Nat /\ dk \in Nat /\ n \in Nat
    <2> HIDE DEF k
    <2>1. n = l + dk /\ l \in Nat /\ dk \in Nat
      BY <1>1 DEF IsJoined
    <2> HIDE DEF n, l, dk
    <2> QED BY <2>1
  <1>4. /\ \A m \in 1 .. e :
             /\ Len(f[m - 1]) \in Nat /\ Len(q[m]) \in Nat /\ Len(f[m - 1]) + Len(q[m]) <= l
             /\ \A x \in 1 .. Len(q[m]) : f[e][Len(f[m - 1]) + x] = q[m][x]
        /\ \A y \in 1 .. l : \E m \in 1 .. e : \E x \in 1 .. Len(q[m]) : y = Len(f[m - 1]) + x
    BY DEF SpreadTo
  <1>5. k - 1 = e /\ k \in 1 .. k /\ (\A m \in 1 .. k : m \in 1 .. e \/ m = k) /\ \A m \in 1 .. e : m \in 1 .. k
    OBVIOUS
  <1>6. l = Len(f[k - 1]) /\ n = Len(f[k]) /\ dk = Len(q[k])
    BY <1>5
  <1> HIDE DEF k, l, n, dk
  <1>7. ASSUME NEW m \in 1 .. k
        PROVE  /\ Len(f[m - 1]) \in Nat /\ Len(q[m]) \in Nat /\ Len(f[m - 1]) + Len(q[m]) <= n
               /\ \A x \in 1 .. Len(q[m]) : f[k][Len(f[m - 1]) + x] = q[m][x]
    <2>1. CASE m \in 1 .. e
      <3> DEFINE o == Len(f[m - 1])
                 d == Len(q[m])
      <3>1. o \in Nat /\ d \in Nat /\ o + d <= l
        BY <1>4, <2>1
      <3>2. \A x \in 1 .. d : f[e][o + x] = q[m][x]
        BY <1>4, <2>1
      <3> HIDE DEF o, d
      <3>3. \A x \in 1 .. d : o + x \in 1 .. l
        BY <1>3, <3>1
      <3>4. \A x \in 1 .. d : f[k][o + x] = q[m][x]
        BY <1>2, <3>2, <3>3
      <3>5. o + d <= n
        BY <1>3, <3>1
      <3> QED BY <3>1, <3>4, <3>5 DEF o, d
    <2>2. CASE m = k
      <3>1. Len(f[m - 1]) = l /\ Len(q[m]) = dk
        BY <1>6, <2>2
      <3> QED BY <1>2, <1>3, <2>2, <3>1
    <2> QED BY <1>5, <2>1, <2>2
  <1>8. ASSUME NEW y \in 1 .. n
        PROVE  \E m \in 1 .. k : \E x \in 1 .. Len(q[m]) : y = Len(f[m - 1]) + x
    <2>2. CASE y \in 1 .. l
      BY <1>4, <1>5, <2>2
    <2>3. CASE y - l \in 1 .. dk /\ y = l + (y - l)
      BY <1>5, <1>6, <2>3
    <2> QED BY <1>3, <2>2, <2>3
  <1> QED BY <1>2, <1>6, <1>7, <1>8 DEF SpreadTo, k

\* FlattenSeq puts one sequence after the other.
LEMMA FlattenSpreads ==
  ASSUME NEW D, NEW q \in Seq(Seq(D))
  PROVE  FlattenSeq(q) \in Seq(D) /\ \E off : Spread(q, FlattenSeq(q), off)
PROOF
  <1> DEFINE n == Len(q)
  <1>1. PICK f : Flattens(f, q) /\ FlattenSeq(q) = f[n]
    BY FlattenIs
  <1>2. n \in Nat /\ \A m \in 1 .. n : q[m] \in Seq(D)
    OBVIOUS
  <1>3. f[0] = << >> /\ \A m \in 1 .. n : f[m] = f[m - 1] \o q[m]
    BY <1>1 DEF Flattens
  <1> HIDE DEF n
  <1> DEFINE G == {e \in Nat : e <= n => SpreadTo(q, D, f, e)}
  <1>4. 0 \in G
    <2>2. SpreadTo(q, D, f, 0)
      BY <1>3 DEF SpreadTo
    <2> QED BY <2>2
  <1>5. ASSUME NEW e \in Nat, e \in G PROVE e + 1 \in G
    <2> SUFFICES ASSUME e + 1 <= n PROVE SpreadTo(q, D, f, e + 1)
      OBVIOUS
    <2>1. e + 1 \in 1 .. n /\ e <= n /\ (e + 1) - 1 = e
      BY <1>2
    <2>3. q[e + 1] \in Seq(D) /\ f[e + 1] = f[e] \o q[e + 1]
      BY <1>2, <1>3, <2>1
    <2> QED BY <1>5, <2>1, <2>3, SpreadStep
  <1> HIDE DEF G
  <1>6. Nat \subseteq G
    BY <1>4, <1>5, Induct
  <1>7. \A e \in 0 .. n : SpreadTo(q, D, f, e)
    BY <1>2, <1>6 DEF G
  <1> DEFINE off == [m \in 1 .. n |-> Len(f[m - 1])]
             F == f[n]
  <1>8. \A m \in 1 .. n : off[m] = Len(f[m - 1])
    OBVIOUS
  <1> HIDE DEF off
  <1>9. SpreadTo(q, D, f, n)
    BY <1>2, <1>7
  <1>10. /\ F \in Seq(D) /\ Len(F) \in Nat
         /\ \A m \in 1 .. n :
              /\ off[m] \in Nat /\ Len(q[m]) \in Nat /\ off[m] + Len(q[m]) <= Len(F)
              /\ \A x \in 1 .. Len(q[m]) : F[off[m] + x] = q[m][x]
         /\ \A y \in 1 .. Len(F) : \E m \in 1 .. n : \E x \in 1 .. Len(q[m]) : y = off[m] + x
    <2>1. F \in Seq(D) /\ Len(F) \in Nat
      BY <1>9 DEF SpreadTo
    <2>2. \A m \in 1 .. n :
              /\ off[m] \in Nat /\ Len(q[m]) \in Nat /\ off[m] + Len(q[m]) <= Len(F)
              /\ \A x \in 1 .. Len(q[m]) : F[off[m] + x] = q[m][x]
      BY <1>8, <1>9 DEF SpreadTo
    <2>3. \A y \in 1 .. Len(F) : \E m \in 1 .. n : \E x \in 1 .. Len(q[m]) : y = off[m] + x
      BY <1>8, <1>9 DEF SpreadTo
    <2> QED BY <2>1, <2>2, <2>3
  <1>11. ASSUME NEW m \in 1 .. n, NEW k \in 1 .. n, m < k PROVE off[m] + Len(q[m]) <= off[k]
    <2>1. k - 1 \in 0 .. n /\ m \in 1 .. k - 1
      BY <1>2, <1>11
    <2>3. Len(f[m - 1]) + Len(q[m]) <= Len(f[k - 1])
      BY <1>7, <2>1 DEF SpreadTo
    <2> QED BY <1>8, <2>3
  <1> HIDE DEF F
  <1>12. ASSUME NEW m \in 1 .. n, NEW x \in 1 .. Len(q[m]) PROVE off[m] + x \in 1 .. Len(F)
    <2> DEFINE o == off[m]
               d == Len(q[m])
               L == Len(F)
    <2>1. o \in Nat /\ d \in Nat /\ o + d <= L /\ L \in Nat /\ x \in 1 .. d
      BY <1>10
    <2> HIDE DEF o, d, L
    <2>2. o + x \in 1 .. L
      BY <2>1
    <2> QED BY <2>2 DEF o, L
  <1>13. Spread(q, F, off)
    BY <1>10, <1>11, <1>12 DEF Spread, n
  <1> QED BY <1>1, <1>10, <1>13 DEF F

-----------------------------------------------------------------------------
(* What is left of a text when its comments are gone.                      *)

\* The byte k of w is a blank that stands for a comment, or what R has read as ms
\* at its place in s.
LeftAt(s, ms, w, ns, k) ==
    /\ ns[k].in \notin InComments /\ ns[k - 1].in # "block"
    /\ \/ w[k] = Gap /\ ns[k] = Plain
       \/ LET j == w[k].at
          IN  /\ j \in 1 .. Len(s) /\ w[k] = s[j] /\ ns[k] = ms[j]
              /\ Kind(ns[k - 1], ns[k]) = Kind(ms[j - 1], ms[j])
              /\ s[j].char = "$" /\ j > 1 /\ s[j - 1].char \in isIdentByte
                 => k > 1 /\ w[k - 1].char \in isIdentByte

LEMMA KindFrom ==
  ASSUME NEW m, NEW n, m.in # "block", n.in # "block", NEW x
  PROVE  Kind(m, x) = Kind(n, x)
PROOF
  BY DEF Kind

LEMMA CopiedAt ==
  ASSUME NEW R \in Reader, NEW D, NEW s \in Seq(D), Numbered(s), NEW ms, NEW w, NEW ns,
         Copied(R, D, s, ms, Len(s) + 1, w, ns), NEW k \in 1 .. Len(w)
  PROVE  LeftAt(s, ms, w, ns, k)
PROOF
  <1> DEFINE n == Len(s)
  <1>1. w \in Seq(D) /\ Len(w) \in Nat /\ Run(R, w, ns) /\ n \in Nat /\ (n + 1) - 1 = n
    BY DEF Copied
  <1>2. \A y \in 1 .. Len(w) : Stands(s, ms, n + 1, w, ns, y)
    BY DEF Copied
  <1>3. Plain.in = "plain"
    BY FieldsOf DEF Plain
  <1> HIDE DEF n
  <1>4. ASSUME NEW y \in 1 .. Len(w) PROVE ns[y].in \notin InComments
    BY <1>2, <1>3 DEF Stands, InComments
  <1>5. ns[k - 1].in # "block"
    <2>1. CASE k = 1
      BY <1>1, <1>3, <2>1 DEF Run
    <2>2. CASE k # 1
      BY <1>1, <1>4, <2>2 DEF InComments
    <2> QED BY <2>1, <2>2
  <1>6. ASSUME NEW j \in 1 .. n,
               w[k] = s[j], ns[k] = ms[j], ms[j].in \notin InComments, ms[j - 1].in # "block",
               s[j].char = "$" /\ j > 1 /\ s[j - 1].char \in isIdentByte
               => k > 1 /\ w[k - 1].char \in isIdentByte
        PROVE  LeftAt(s, ms, w, ns, k)
    <2>2. Kind(ns[k - 1], ns[k]) = Kind(ms[j - 1], ms[j])
      BY <1>5, <1>6, KindFrom
    <2>3. j \in 1 .. Len(s)
      BY DEF n
    <2> QED BY <1>4, <1>5, <1>6, <2>2, <2>3 DEF Numbered, n, LeftAt
  <1>7. CASE w[k] = Gap /\ ns[k] = Plain
    BY <1>4, <1>5, <1>7 DEF LeftAt
  <1> QED BY <1>1, <1>2, <1>6, <1>7 DEF Stands

\* R reads what is left as the scanners of the second pass do.
LEMMA CopiedSuits ==
  ASSUME NEW R \in Reader, NEW D, NEW s \in Seq(D), Numbered(s), NEW ms, NEW w, NEW ns,
         Copied(R, D, s, ms, Len(s) + 1, w, ns), NEW dollar, Suits(R, s, ms, dollar)
  PROVE  Suits(R, w, ns, dollar) /\ Uncommented(w, ns)
PROOF
  <1> DEFINE db == Databases[R]
  <1>1. /\ \A i \in 1 .. Len(s) :
             /\ s[i].char = "\\" => db.escapes = {}
             /\ s[i].char # "#"
             /\ s[i].char = "bt" => "bt" \in db.names
             /\ Kind(ms[i - 1], ms[i]) = "backticked" => s[i].char \notin Quote \cup {"$", "--", "/*"}
        /\ \A i \in 1 .. Len(s) :
             s[i].char = "$" =>
               IF dollar THEN db.dollar \/ (ms[i] = Plain => i > 1 /\ s[i - 1].char \in isIdentByte)
                         ELSE ~db.dollar
    BY DEF Suits
  <1> HIDE DEF db
  <1>3. ASSUME NEW k \in 1 .. Len(w)
        PROVE  /\ ns[k].in \notin InComments
               /\ w[k].char = "\\" => db.escapes = {}
               /\ w[k].char # "#"
               /\ w[k].char = "bt" => "bt" \in db.names
               /\ Kind(ns[k - 1], ns[k]) = "backticked" => w[k].char \notin Quote \cup {"$", "--", "/*"}
               /\ w[k].char = "$" =>
                    IF dollar THEN db.dollar \/ (ns[k] = Plain => k > 1 /\ w[k - 1].char \in isIdentByte)
                              ELSE ~db.dollar
    <2>1. LeftAt(s, ms, w, ns, k)
      BY CopiedAt
    <2>2. CASE w[k] = Gap /\ ns[k] = Plain
      <3>1. w[k].char = "sp" /\ ns[k].in \notin InComments
        BY <2>1, <2>2 DEF Gap, LeftAt
      <3> QED BY <3>1 DEF Quote
    <2>3. CASE ~(w[k] = Gap /\ ns[k] = Plain)
      <3> DEFINE j == w[k].at
      <3>1. /\ j \in 1 .. Len(s) /\ w[k] = s[j] /\ ns[k] = ms[j]
            /\ Kind(ns[k - 1], ns[k]) = Kind(ms[j - 1], ms[j])
            /\ s[j].char = "$" /\ j > 1 /\ s[j - 1].char \in isIdentByte
               => k > 1 /\ w[k - 1].char \in isIdentByte
            /\ ns[k].in \notin InComments
        BY <2>1, <2>3 DEF LeftAt
      <3> HIDE DEF j
      <3> QED BY <1>1, <3>1
    <2> QED BY <2>2, <2>3
  <1> QED BY <1>3 DEF Suits, Uncommented, db

\* The tag of a dollar-quoted string: an identifier between two "$".
LEMMA DollarTag ==
  ASSUME NEW C, NEW s \in Seq(C), NEW i \in 1 .. Len(s), scanDollarQuoted(s, i).ok, s[i].char = "$",
         NEW e, e = i + scanDollarQuoted(s, i).tag - 1
  PROVE  /\ e \in i + 1 .. Len(s) /\ s[e].char = "$" /\ s[i + 1].char \notin isDigit
         /\ \A k \in i + 1 .. e - 1 : s[k].char \in isIdentByte
         /\ ~(i > 1 /\ s[i - 1].char \in isIdentByte \cup Directive)
PROOF
  <1>1. PICK end, closing : DollarScanned(s, i, end, closing)
    BY DollarIs
  <1>2. /\ end \in i + 1 .. Len(s) + 1
        /\ \A k \in i + 1 .. end - 1 : s[k].char \in isIdentByte
        /\ end <= Len(s) /\ s[end].char = "$" /\ s[i + 1].char \notin isDigit
        /\ ~(i > 1 /\ s[i - 1].char \in isIdentByte \cup Directive)
        /\ scanDollarQuoted(s, i).tag = end + 1 - i
    BY <1>1 DEF DollarScanned
  <1>3. e = end
    BY <1>2
  <1>5. \A k \in i + 1 .. e - 1 : s[k].char \in isIdentByte
    BY <1>2, <1>3
  <1>6. s[e].char = "$"
    BY <1>2, <1>3
  <1> QED BY <1>2, <1>3, <1>5, <1>6

\* The bytes blankQuoted writes.
BlankBytes(s) ==
    {s[k] : k \in 1 .. Len(s)} \cup {[char |-> c, at |-> 0] : c \in {"x", "bt"} \cup Quote}

BlankWrites(s, p) ==
    CASE p.kind = "byte"   -> Copy(s, p)
      [] p.kind = "dollar" ->
           LET tag == SubSeq(s, p.lo, p.lo + scanDollarQuoted(s, p.lo).tag - 1)
           IN  tag \o tag
      [] p.kind = "quoted" ->
           Write(s[p.lo].char)
             \o (IF s[p.lo].char = "bt" THEN Write("x") ELSE << >>)
             \o Write(s[p.lo].char)

\* What it writes for a piece: the byte, an empty run, or the tag twice.
BlankedTo(s, i, p, e) ==
    \/ p.kind = "byte" /\ p.hi = i + 1 /\ Len(e) = 1 /\ e[1] = s[i]
    \/ /\ p.kind = "quoted" /\ s[i].char \in Quote \cup {"bt"}
       /\ Len(e) > 0 /\ e[1].char = s[i].char
       /\ \A x \in 1 .. Len(e) : e[x].at = 0 /\ e[x].char \in Quote \cup {"bt", "x"}
    \/ /\ p.kind = "dollar" /\ s[i].char = "$" /\ scanDollarQuoted(s, i).ok
       /\ Len(e) > 0 /\ e[1] = s[i]
       /\ \A x \in 1 .. Len(e) : \E k \in i .. i + scanDollarQuoted(s, i).tag - 1 : e[x] = s[k]

LEMMA BlankWritten ==
  ASSUME NEW C, NEW s \in Seq(C), NEW i \in 1 .. Len(s),
         NEW dollar \in BOOLEAN, NEW ticks \in BOOLEAN, NEW p, p = BlankPiece(s, i, dollar, ticks)
  PROVE  BlankWrites(s, p) \in Seq(BlankBytes(s)) /\ BlankedTo(s, i, p, BlankWrites(s, p))
PROOF
  <1> DEFINE c == s[i].char
             e == BlankWrites(s, p)
             B == BlankBytes(s)
             later == \E j \in i + 1 .. Len(s) : s[j].char = "bt"
             h == scanQuotedRun(s, i, FALSE)
  <1>1. p = CASE dollar /\ c = "$" -> DollarPiece("dollar", i, scanDollarQuoted(s, i))
              [] c \in Quote \/ (ticks /\ c = "bt" /\ later) -> Piece("quoted", i, h)
              [] OTHER -> Byte(i)
    BY DEF BlankPiece
  <1>2. c \in Quote \cup {"bt"} => c # "$"
    BY DEF Quote
  <1>3. \A k \in 1 .. Len(s) : s[k] \in B
    BY DEF BlankBytes
  <1>4. ASSUME NEW x \in {"x", "bt"} \cup Quote PROVE [char |-> x, at |-> 0] \in B
    BY DEF BlankBytes
  <1>5. p.lo = i
    BY BlankAdvances
  <1> HIDE DEF later, h, B
  <1>6. e = CASE p.kind = "byte"   -> Copy(s, p)
              [] p.kind = "dollar" ->
                   SubSeq(s, i, i + scanDollarQuoted(s, i).tag - 1) \o SubSeq(s, i, i + scanDollarQuoted(s, i).tag - 1)
              [] p.kind = "quoted" ->
                   Write(c) \o (IF c = "bt" THEN Write("x") ELSE << >>) \o Write(c)
    BY <1>5 DEF BlankWrites
  <1> HIDE DEF e
  <1>7. CASE p = Byte(i)
    <2>1. p.kind = "byte" /\ p.hi = i + 1
      BY <1>7, PieceIs DEF Byte
    <2>3. (i + 1) - 1 = i /\ i \in Nat
      OBVIOUS
    <2> DEFINE b == s[i]
               t == SubSeq(s, i, i)
    <2>4. t \in Seq(C) /\ Len(t) = 1 /\ t[1] = b
      OBVIOUS
    <2>5. e = t
      BY <1>5, <1>6, <2>1, <2>3 DEF Copy
    <2>6. b \in B
      BY <1>3
    <2> HIDE DEF b, t
    <2>7. e \in Seq(B) /\ Len(e) = 1 /\ e[1] = b
      <3>1. t = <<b>>
        <4>1. b \in {b} /\ <<b>> \in Seq({b}) /\ Len(<<b>>) = 1 /\ <<b>>[1] = b
          OBVIOUS
        <4> QED BY <2>4, <4>1, SameSequence
      <3> QED BY <2>5, <2>6, <3>1
    <2> QED BY <2>1, <2>7 DEF BlankedTo, b, e, B
  <1>8. CASE p = Piece("quoted", i, h) /\ c \in Quote \cup {"bt"}
    <2>1. p.kind = "quoted"
      BY <1>8, PieceIs
    <2> DEFINE b == [char |-> c, at |-> 0]
               x1 == [char |-> "x", at |-> 0]
    <2>2. b \in B /\ x1 \in B /\ b.char = c /\ b.at = 0 /\ x1.char = "x" /\ x1.at = 0
      BY <1>4, <1>8
    <2>3. Write(c) = <<b>> /\ Write("x") = <<x1>>
      BY DEF Write
    <2> HIDE DEF b, x1
    <2>4. e = <<b>> \o (IF c = "bt" THEN <<x1>> ELSE << >>) \o <<b>>
      BY <1>6, <2>1, <2>3
    <2>5. <<b>> \in Seq(B) /\ Len(<<b>>) = 1 /\ <<b>>[1] = b
      BY <2>2
    <2> DEFINE Ok(v) == \A y \in 1 .. Len(v) : v[y].at = 0 /\ v[y].char \in Quote \cup {"bt", "x"}
    <2>6. Ok(<<b>>)
      BY <1>8, <2>2, <2>5
    <2>7. ASSUME NEW u \in Seq(B), Len(u) >= 1, u[1] = b, Ok(u), NEW z \in {b, x1}
          PROVE  LET v == u \o <<z>>
                 IN  v \in Seq(B) /\ Len(v) >= 1 /\ v[1] = b /\ Ok(v)
      <3> DEFINE v == Append(u, z)
      <3>1. z \in B /\ z.at = 0 /\ z.char \in Quote \cup {"bt", "x"}
        BY <1>8, <2>2
      <3>3. /\ v \in Seq(B) /\ Len(v) = Len(u) + 1 /\ Len(u) \in Nat /\ v[Len(u) + 1] = z
            /\ \A y \in 1 .. Len(u) : v[y] = u[y]
        BY <3>1, Appended
      <3> HIDE DEF v
      <3>4. ASSUME NEW y \in 1 .. Len(v) PROVE v[y].at = 0 /\ v[y].char \in Quote \cup {"bt", "x"}
        BY <2>7, <3>1, <3>3
      <3>5. v[1] = b /\ Len(v) >= 1
        BY <2>7, <3>3
      <3> QED BY <2>7, <3>1, <3>3, <3>4, <3>5
    <2> HIDE DEF Ok
    <2>8. e \in Seq(B) /\ Len(e) >= 1 /\ e[1] = b /\ Ok(e)
      <3> DEFINE u == IF c = "bt" THEN <<b>> \o <<x1>> ELSE <<b>>
      <3>1. u \in Seq(B) /\ Len(u) >= 1 /\ u[1] = b /\ Ok(u)
        <4>1. CASE c = "bt"
          <5> DEFINE t == <<b>>
          <5>1. u = t \o <<x1>>
            BY <4>1
          <5>2. t \in Seq(B) /\ Len(t) >= 1 /\ t[1] = b /\ Ok(t)
            BY <2>5, <2>6
          <5> HIDE DEF u, t
          <5> QED BY <2>7, <5>1, <5>2
        <4>2. CASE c # "bt"
          <5>1. u = <<b>>
            BY <4>2
          <5> HIDE DEF u
          <5> QED BY <2>5, <2>6, <5>1
        <4> QED BY <4>1, <4>2
      <3>2. e = u \o <<b>>
        <4>2. CASE c = "bt"
          BY <2>4, <4>2
        <4>3. CASE c # "bt"
          BY <2>4, <4>3
        <4> QED BY <4>2, <4>3
      <3> HIDE DEF u
      <3> QED BY <2>7, <3>1, <3>2
    <2> QED BY <1>8, <2>1, <2>2, <2>8 DEF BlankedTo, e, B, Ok
  <1>9. CASE scanDollarQuoted(s, i).ok /\ c = "$" /\ p = Piece("dollar", i, scanDollarQuoted(s, i).hi)
    <2>1. p.kind = "dollar"
      BY <1>9, PieceIs
    <2> DEFINE k == i + scanDollarQuoted(s, i).tag - 1
               t == SubSeq(s, i, k)
    <2>2. k \in i + 1 .. Len(s)
      BY <1>9, DollarTag
    <2>3. e = t \o t
      BY <1>6, <2>1
    <2> HIDE DEF k
    <2>4. /\ Len(t) = k + 1 - i /\ \A y \in 1 .. Len(t) : t[y] = s[i + y - 1]
      BY <2>2
    <2>5. t \in Seq(B)
      <3>1. Len(t) \in Nat /\ t = [y \in 1 .. Len(t) |-> t[y]]
        BY <2>2
      <3>2. ASSUME NEW y \in 1 .. Len(t) PROVE t[y] \in B
        BY <1>3, <2>2, <2>4
      <3> HIDE DEF t
      <3> QED BY <3>1, <3>2
    <2> HIDE DEF t
    <2>6. IsJoined(B, t, t, e)
      <3>1. IsJoined(B, t, t, t \o t)
        BY <2>5, Joined
      <3> QED BY <2>3, <3>1
    <2> DEFINE l == Len(t)
    <2>7. /\ e \in Seq(B) /\ Len(e) = l + l /\ l \in Nat
          /\ \A x \in 1 .. l : e[x] = t[x]
          /\ \A x \in 1 .. l : e[l + x] = t[x]
      BY <2>6 DEF IsJoined
    <2>8. l = k + 1 - i /\ \A y \in 1 .. l : t[y] = s[i + y - 1] /\ i + y - 1 \in i .. k
      BY <2>2, <2>4
    <2>9. l > 0 /\ 1 \in 1 .. l /\ i + 1 - 1 = i
      BY <2>2, <2>8
    <2> HIDE DEF l
    <2>10. Len(e) > 0 /\ e[1] = s[i]
      BY <2>7, <2>8, <2>9
    <2>11. ASSUME NEW x \in 1 .. Len(e) PROVE \E y \in i .. k : e[x] = s[y]
      <3>2. ASSUME NEW y \in 1 .. l, e[x] = t[y] PROVE \E z \in i .. k : e[x] = s[z]
        BY <2>8, <3>2
      <3>3. CASE x \in 1 .. l
        BY <2>7, <3>2, <3>3
      <3>4. CASE x - l \in 1 .. l /\ x = l + (x - l)
        BY <2>7, <3>2, <3>4
      <3> QED BY <2>7, <3>3, <3>4
    <2>13. e \in Seq(B)
      BY <2>7
    <2> QED BY <1>9, <2>1, <2>10, <2>11, <2>13 DEF BlankedTo, k, e, B
  <1>10. \/ p = Byte(i)
         \/ p = Piece("quoted", i, h) /\ c \in Quote \cup {"bt"}
         \/ scanDollarQuoted(s, i).ok /\ c = "$" /\ p = Piece("dollar", i, scanDollarQuoted(s, i).hi)
    <2>1. CASE dollar /\ c = "$"
      BY <1>1, <1>2, <2>1 DEF DollarPiece
    <2>2. CASE c \in Quote \/ (ticks /\ c = "bt" /\ later)
      BY <1>1, <1>2, <2>2
    <2>3. CASE ~(dollar /\ c = "$") /\ ~(c \in Quote \/ (ticks /\ c = "bt" /\ later))
      BY <1>1, <2>3
    <2> QED BY <2>1, <2>2, <2>3
  <1> QED BY <1>7, <1>8, <1>9, <1>10 DEF e, B

\* What blankQuoted writes, v, by the pieces it takes.
Blanked(R, s, ms, ticks, v, ps, q, off) ==
    /\ Len(ps) \in Nat /\ Len(q) = Len(ps) /\ v \in Seq(BlankBytes(s)) /\ Spread(q, v, off)
    /\ \A m \in 1 .. Len(ps) :
         /\ ps[m].lo \in 1 .. Len(s)
         /\ Beyond(R, s, ms, ticks, ps[m].lo) /\ Taken(R, s, ms, ticks, ps[m].lo, ps[m])
         /\ BlankedTo(s, ps[m].lo, ps[m], q[m])
    /\ \A m, k \in 1 .. Len(ps) : m < k => ps[m].hi <= ps[k].lo
    /\ \A k \in 1 .. Len(s) : \E m \in 1 .. Len(ps) : ps[m].lo <= k /\ k < ps[m].hi

LEMMA BlankIs ==
  ASSUME NEW R \in Reader, NEW C, NEW s \in Seq(C), NEW ms, Run(R, s, ms),
         NEW dollar \in BOOLEAN, NEW ticks \in BOOLEAN,
         Suits(R, s, ms, dollar), Uncommented(s, ms), ticks => ms[Len(s)].in # "name"
  PROVE  \E ps, q, off : Blanked(R, s, ms, ticks, blankQuoted(s, dollar, ticks), ps, q, off)
PROOF
  <1> DEFINE pa == [i \in DOMAIN s |-> BlankPiece(s, i, dollar, ticks)]
             ps == Pieces(s, pa)
             q == [k \in DOMAIN ps |-> BlankWrites(s, ps[k])]
             c == Len(ps)
             v == blankQuoted(s, dollar, ticks)
             E == Seq(BlankBytes(s))
  <1>2. \A i \in 1 .. Len(s) : pa[i] = BlankPiece(s, i, dollar, ticks)
    OBVIOUS
  <1>3. v = FlattenSeq(q)
    BY DEF blankQuoted, Written, BlankWrites
  <1> HIDE DEF pa, v
  <1>4. InOrder(R, s, ms, ticks, pa, ps)
    <2>1. ASSUME NEW i \in 1 .. Len(s), Beyond(R, s, ms, ticks, i) PROVE Taken(R, s, ms, ticks, i, pa[i])
      BY <1>2, <2>1, BlankTakes
    <2>3. ASSUME NEW i \in 1 .. Len(s)
          PROVE  pa[i].lo = i /\ pa[i].hi \in Nat /\ i < pa[i].hi /\ pa[i].hi <= Len(s) + 1
      <3> DEFINE p == BlankPiece(s, i, dollar, ticks)
      <3> QED BY <1>2, BlankAdvances
    <2>4. Advances(s, pa)
      BY <2>3 DEF Advances
    <2> QED BY <2>1, <2>3, <2>4, AllTaken DEF Takes
  <1> HIDE DEF ps
  <1>5. /\ InTurn(s, ps) /\ c \in Nat /\ DOMAIN ps = 1 .. c
        /\ \A m \in 1 .. c :
             /\ ps[m].lo \in 1 .. Len(s) /\ ps[m] = pa[ps[m].lo]
             /\ Beyond(R, s, ms, ticks, ps[m].lo) /\ Taken(R, s, ms, ticks, ps[m].lo, ps[m])
        /\ \A k \in 1 .. Len(s) : \E m \in 1 .. c : ps[m].lo <= k /\ k < ps[m].hi
    BY <1>4 DEF InOrder, InTurn
  <1>7. ASSUME NEW m \in 1 .. c PROVE q[m] \in E /\ BlankedTo(s, ps[m].lo, ps[m], q[m])
    <2>1. q[m] = BlankWrites(s, ps[m])
      BY <1>5
    <2>2. ps[m].lo \in 1 .. Len(s) /\ ps[m] = BlankPiece(s, ps[m].lo, dollar, ticks)
      BY <1>2, <1>5
    <2>3. BlankWrites(s, ps[m]) \in E /\ BlankedTo(s, ps[m].lo, ps[m], BlankWrites(s, ps[m]))
      BY <2>2, BlankWritten
    <2> HIDE DEF q, E
    <2> QED BY <2>1, <2>3
  <1>8. q \in Seq(E) /\ Len(q) = c
    <2>1. q = [m \in 1 .. c |-> q[m]]
      BY <1>5
    <2> HIDE DEF q, E, c
    <2>3. q \in [1 .. c -> E]
      BY <1>7, <2>1
    <2> QED BY <1>5, <2>3
  <1> HIDE DEF q
  <1>9. v \in Seq(BlankBytes(s)) /\ \E off : Spread(q, v, off)
    BY <1>3, <1>8, FlattenSpreads DEF E
  <1>10. PICK off : Spread(q, v, off)
    BY <1>9
  <1>11. Blanked(R, s, ms, ticks, v, ps, q, off)
    BY <1>5, <1>7, <1>8, <1>9, <1>10, InTurnOrdered DEF Blanked
  <1> QED BY <1>11 DEF v
-----------------------------------------------------------------------------
(* The words the fallback parser sees.                                     *)

\* A dollar-quoted string that the scanner takes is one of R's.
LEMMA TagKinds ==
  ASSUME NEW R \in Reader, NEW C, NEW s \in Seq(C), NEW ms, Run(R, s, ms), Suits(R, s, ms, TRUE),
         NEW i \in 1 .. Len(s), Boundary(R, s, ms, i), s[i].char = "$", scanDollarQuoted(s, i).ok,
         NEW k \in i .. i + scanDollarQuoted(s, i).tag - 1, s[k].char \in Letter
  PROVE  k \in 1 .. Len(s) /\ ms[k].in = "tag"
PROOF
  <1> DEFINE e == i + scanDollarQuoted(s, i).tag - 1
  <1>1. /\ e \in i + 1 .. Len(s) /\ s[e].char = "$" /\ s[i + 1].char \notin isDigit
        /\ \A y \in i + 1 .. e - 1 : s[y].char \in isIdentByte
        /\ ~(i > 1 /\ s[i - 1].char \in isIdentByte \cup Directive)
    BY DollarTag
  <1>2. k \in i .. e
    OBVIOUS
  <1> HIDE DEF e
  <1>3. "$" \notin isIdentByte /\ "$" \notin Letter /\ "start" \notin isIdentByte \cup Directive
    BY DEF isIdentByte, isDigit, Letter, Directive
  <1>4. k \in i .. e - 1 /\ k \in 1 .. Len(s)
    <2>1. k # e
      BY <1>1, <1>3
    <2> QED BY <1>1, <1>2, <2>1
  <1>6. ms[i] = Begins(R, "$", Prev(s, i))
    BY <1>3 DEF Boundary, Dead
  <1>7. ms[i] = In("tag")
    <2>1. ms[i] = IF Databases[R].dollar THEN In("tag") ELSE Plain
      BY <1>1, <1>3, <1>6, BeginsOther DEF Prev
    <2> QED BY <1>1, <2>1 DEF Suits
  <1>8. e \in i + 1 .. Len(s) + 1 /\ i + 1 <= Len(s)
    BY <1>1
  <1>9. \A y \in i .. e - 1 : ms[y] = InTag("tag", Cut(s, i + 1, y), << >>)
    BY <1>1, <1>7, <1>8, TagFollows
  <1> QED BY <1>4, <1>9, FieldsOfTag

LEMMA Within ==
  ASSUME NEW n \in Nat, NEW i \in 1 .. n, NEW e \in i + 1 .. n, NEW k \in i .. e
  PROVE  k \in 1 .. n
PROOF OBVIOUS

LEMMA Only ==
  ASSUME NEW a \in Nat, NEW i \in Nat, a <= i, i < a + 1
  PROVE  a = i
PROOF OBVIOUS

LEMMA UpTo ==
  ASSUME NEW a \in Nat, NEW l, NEW b \in Nat, NEW w \in 1 .. l, a + l <= b, l \in Nat
  PROVE  a + w <= b
PROOF OBVIOUS

LEMMA After ==
  ASSUME NEW a \in Nat
  PROVE  a + 1 > a
PROOF OBVIOUS

LEMMA NotBetween ==
  ASSUME NEW b \in Nat, NEW y, NEW z \in Nat, z <= b, y = b + 1
  PROVE  ~(y < z)
PROOF OBVIOUS

LEMMA InRange ==
  ASSUME NEW i \in Nat, NEW h \in Nat, NEW k \in Nat, i <= k, k < h
  PROVE  k \in i .. h - 1
PROOF OBVIOUS

\* blankStringLiterals leaves the letters that are outside everything, and of
\* the others none but those of the tags it copies.
SeenIn(s, ms, v) ==
    /\ v \in Seq(BlankBytes(s))
    /\ \A k \in 1 .. Len(s) :
         s[k].char \in Letter /\ Kind(ms[k - 1], ms[k]) = "plain" => \E y \in 1 .. Len(v) : v[y] = s[k]
    /\ \A y \in 1 .. Len(v) :
         \/ v[y].at = 0
         \/ \E k \in 1 .. Len(s) :
              v[y] = s[k] /\ (s[k].char \in Letter => Kind(ms[k - 1], ms[k]) \in {"plain", "tag"})

LEMMA LettersSeen ==
  ASSUME NEW R \in Reader, NEW C, NEW s \in Seq(C), NEW ms, Run(R, s, ms),
         Suits(R, s, ms, TRUE), Uncommented(s, ms), ms[Len(s)].in # "name"
  PROVE  SeenIn(s, ms, blankStringLiterals(s))
PROOF
  <1> DEFINE v == blankStringLiterals(s)
             K(k) == Kind(ms[k - 1], ms[k])
  <1>1. PICK ps, q, off : Blanked(R, s, ms, TRUE, v, ps, q, off)
    BY BlankIs DEF blankStringLiterals
  <1> HIDE DEF v
  <1>2. /\ Len(ps) \in Nat /\ Len(q) = Len(ps) /\ v \in Seq(BlankBytes(s)) /\ Spread(q, v, off)
        /\ \A m \in 1 .. Len(ps) :
             /\ ps[m].lo \in 1 .. Len(s)
             /\ Beyond(R, s, ms, TRUE, ps[m].lo) /\ Taken(R, s, ms, TRUE, ps[m].lo, ps[m])
             /\ BlankedTo(s, ps[m].lo, ps[m], q[m])
        /\ \A k \in 1 .. Len(s) : \E m \in 1 .. Len(ps) : ps[m].lo <= k /\ k < ps[m].hi
    BY <1>1 DEF Blanked
  <1>3. ASSUME NEW k \in 1 .. Len(s), s[k].char \in Letter, K(k) = "plain"
        PROVE  \E y \in 1 .. Len(v) : v[y] = s[k]
    <2>1. PICK m \in 1 .. Len(ps) : ps[m].lo <= k /\ k < ps[m].hi
      BY <1>2
    <2> DEFINE p == ps[m]
    <2>2. /\ p.lo \in 1 .. Len(s) /\ BlankedTo(s, p.lo, p, q[m])
          /\ p.hi \in Nat
          /\ LiteralTaken(s, ms, p) \/ CommentTaken(R, s, ms, p) \/ ByteTaken(ms, TRUE, p)
      BY <1>2 DEF Taken
    <2>11. p.lo <= k /\ k < p.hi
      BY <2>1
    <2> HIDE DEF p
    <2>12. p.lo \in Nat /\ p.hi \in Nat /\ k \in Nat
      BY <2>2
    <2>3. k \in p.lo .. p.hi - 1
      BY <2>11, <2>12, InRange
    <2>4. ~LiteralTaken(s, ms, p)
      <3> SUFFICES ASSUME InLiteral(s, ms, k) PROVE FALSE
        BY <2>3 DEF LiteralTaken
      <3>2. K(k) \in Contents
        BY <1>3, KindsOf DEF Special, Quote, Letter
      <3> QED BY <1>3, <3>2 DEF Contents
    <2>6. p.kind = "byte" /\ p.hi = p.lo + 1
      BY <1>3, <2>2, <2>3, <2>4 DEF CommentTaken, ByteTaken
    <2>8. Len(q[m]) = 1 /\ q[m][1] = s[k]
      BY <2>2, <2>3, <2>6 DEF BlankedTo
    <2>9. 1 \in 1 .. Len(q[m]) /\ m \in 1 .. Len(q)
      BY <1>2, <2>8
    <2>10. off[m] + 1 \in 1 .. Len(v) /\ v[off[m] + 1] = q[m][1]
      BY <1>2, <2>9 DEF Spread
    <2> QED BY <2>8, <2>10
  <1>4. ASSUME NEW y \in 1 .. Len(v), v[y].at # 0
        PROVE  \E k \in 1 .. Len(s) : v[y] = s[k] /\ (s[k].char \in Letter => K(k) \in {"plain", "tag"})
    <2>1. PICK m \in 1 .. Len(q) : \E x \in 1 .. Len(q[m]) : y = off[m] + x
      BY <1>2 DEF Spread
    <2>2. PICK x \in 1 .. Len(q[m]) : y = off[m] + x
      BY <2>1
    <2>3. v[y] = q[m][x] /\ m \in 1 .. Len(ps)
      BY <1>2, <2>2 DEF Spread
    <2> DEFINE p == ps[m]
               i == p.lo
    <2>4. /\ i \in 1 .. Len(s) /\ Beyond(R, s, ms, TRUE, i) /\ BlankedTo(s, i, p, q[m])
          /\ LiteralTaken(s, ms, p) \/ CommentTaken(R, s, ms, p) \/ ByteTaken(ms, TRUE, p)
      BY <1>2, <2>3 DEF Taken
    <2> HIDE DEF p
    <2>5. ASSUME NEW k \in 1 .. Len(s), ms[k].in \in {"plain", "tag"} PROVE K(k) \in {"plain", "tag"}
      <3>1. ms[k - 1].in # "block"
        <4>1. CASE k = 1
          <5>1. ms[k - 1] = Plain
            BY <4>1 DEF Run
          <5> QED BY <5>1, FieldsOf DEF Plain
        <4>2. CASE k # 1
          BY <4>2 DEF Uncommented, InComments
        <4> QED BY <4>1, <4>2
      <3> QED BY <2>5, <3>1, KindOf
    <2>6. CASE p.kind = "byte" /\ p.hi = i + 1 /\ Len(q[m]) = 1 /\ q[m][1] = s[i]
      <3>3. v[y] = s[i]
        BY <2>3, <2>6
      <3>4. K(i) \in {"plain", "tag"}
        BY <2>4, <2>5, <2>6 DEF LiteralTaken, CommentTaken, ByteTaken
      <3> QED BY <2>4, <3>3, <3>4
    <2>7. CASE \A z \in 1 .. Len(q[m]) : q[m][z].at = 0
      BY <1>4, <2>3, <2>7
    <2>8. CASE /\ s[i].char = "$" /\ scanDollarQuoted(s, i).ok
               /\ \A z \in 1 .. Len(q[m]) : \E k \in i .. i + scanDollarQuoted(s, i).tag - 1 : q[m][z] = s[k]
      <3> DEFINE e == i + scanDollarQuoted(s, i).tag - 1
      <3> HIDE DEF i
      <3>1. PICK k \in i .. e : q[m][x] = s[k]
        BY <2>8
      <3> DEFINE n == Len(s)
      <3>6. n \in Nat /\ i \in 1 .. n /\ e \in i + 1 .. n
        BY <2>4, <2>8, DollarTag
      <3>2. k \in 1 .. Len(s)
        <4> HIDE DEF e, n
        <4> QED BY <3>1, <3>6, Within DEF n
      <3>4. ASSUME s[k].char \in Letter PROVE ms[k].in = "tag"
        <4>1. k \in i .. i + scanDollarQuoted(s, i).tag - 1
          BY <3>1
        <4>2. s[i].char = "$" /\ scanDollarQuoted(s, i).ok
          BY <2>8
        <4> HIDE DEF e
        <4> QED BY <2>4, <3>4, <4>1, <4>2, TagKinds DEF Beyond
      <3> QED BY <2>3, <2>5, <3>1, <3>2, <3>4
    <2> QED BY <2>4, <2>6, <2>7, <2>8 DEF BlankedTo
  <1> QED BY <1>2, <1>3, <1>4 DEF SeenIn, v
-----------------------------------------------------------------------------
(* What a database reads of the text and of what stripComments leaves.     *)

\* s holds the characters of the text, and a blank for a comment is like them.
IsText(D, s) ==
    /\ s \in Seq(D) /\ Gap \in D /\ Numbered(s)
    /\ Len(s) = Len(text) /\ DOMAIN text = 1 .. Len(s)
    /\ \A k \in 1 .. Len(s) : s[k].char = text[k] /\ s[k].at = k

LEMMA TextIs ==
  ASSUME TextInv
  PROVE  \E D : IsText(D, Bytes(text))
PROOF
  <1> DEFINE s == Bytes(text)
             n == Len(text)
  <1>2. /\ \E C : s \in Seq(C)
        /\ Len(s) = n /\ n \in Nat /\ DOMAIN text = 1 .. n
        /\ \A k \in 1 .. n : s[k].char = text[k] /\ s[k].at = k
    BY BytesAre DEF TextInv
  <1> HIDE DEF s
  <1>3. PICK C : s \in Seq(C)
    BY <1>2
  <1>5. s \in [1 .. n -> C \cup {Gap}]
    BY <1>2, <1>3
  <1>7. IsText(C \cup {Gap}, s)
    BY <1>2, <1>5 DEF IsText, Numbered
  <1> QED BY <1>7 DEF s

\* R reads the text as ms, and its kinds are those of ms.
IsRun(R, s, ms) ==
    /\ Run(R, s, ms) /\ mode[R] = ms[Len(s)]
    /\ \A k \in 1 .. Len(s) : kinds[R][k] = Kind(ms[k - 1], ms[k])

LEMMA RunIs ==
  ASSUME TextInv, NEW R \in Reader \ nested, NEW D, IsText(D, Bytes(text))
  PROVE  \E ms : IsRun(R, Bytes(text), ms)
PROOF
  <1> DEFINE s == Bytes(text)
  <1>2. Followed(R, text, mode[R], kinds[R])
    BY DEF TextInv
  <1> QED BY <1>2 DEF IsText, Followed, IsRun

\* The text is one that the scanners read as R does.
LEMMA TextSuits ==
  ASSUME SameComments, NEW R \in Reader, KnowsQuotes(R), PlainNames(R), Unescaped(R),
         NEW D, NEW s, IsText(D, s), NEW ms, IsRun(R, s, ms), NEW dollar,
         \A i \in 1 .. Len(s) :
           s[i].char = "$" =>
             IF dollar THEN Databases[R].dollar \/ (ms[i] = Plain => i > 1 /\ s[i - 1].char \in isIdentByte)
                       ELSE ~Databases[R].dollar
  PROVE  Suits(R, s, ms, dollar) /\ Dashes(s)
PROOF
  <1>2. ASSUME NEW i \in 1 .. Len(s)
        PROVE  /\ s[i].char = text[i] /\ i \in DOMAIN text /\ text[i] \in ToSet(text)
               /\ kinds[R][i] = Kind(ms[i - 1], ms[i])
    BY DEF IsText, IsRun, ToSet
  <1>3. ASSUME NEW i \in 1 .. Len(s)
        PROVE  /\ s[i].char = "\\" => Databases[R].escapes = {}
               /\ s[i].char # "#"
               /\ s[i].char = "bt" => "bt" \in Databases[R].names
               /\ Kind(ms[i - 1], ms[i]) = "backticked" => s[i].char \notin Quote \cup {"$", "--", "/*"}
    BY <1>2 DEF Unescaped, SameComments, KnowsQuotes, PlainNames
  <1>5. ASSUME NEW i \in 1 .. Len(s), s[i].char = "--", i < Len(s)
        PROVE  s[i + 1].char \in Blank
    <2>1. i + 1 \in 1 .. Len(s) /\ Len(s) = Len(text)
      BY <1>5 DEF IsText
    <2> QED BY <1>2, <1>5, <2>1 DEF SameComments
  <1> QED BY <1>3, <1>5 DEF Suits, Dashes

\* The "$" of a text that fits R.
LEMMA DollarFits ==
  ASSUME NEW R \in Reader, Fits(R), NEW D, NEW s, IsText(D, s), NEW ms, IsRun(R, s, ms),
         NEW i \in 1 .. Len(s), s[i].char = "$"
  PROVE  Databases[R].dollar \/ (ms[i] = Plain => i > 1 /\ s[i - 1].char \in isIdentByte)
PROOF
  <1> SUFFICES ASSUME ~Databases[R].dollar, ms[i] = Plain
               PROVE  i > 1 /\ s[i - 1].char \in isIdentByte
    OBVIOUS
  <1>1. s \in Seq(D) /\ Run(R, s, ms) /\ kinds[R][i] = Kind(ms[i - 1], ms[i])
    BY DEF IsText, IsRun
  <1>3. i \in DOMAIN text /\ text[i] = "$"
    BY DEF IsText
  <1>4. i > 1 /\ text[i - 1] \in isIdentByte
    BY <1>1, <1>3, KindsOf DEF Fits
  <1> QED BY <1>1, <1>4 DEF IsText

\* The fallback parser sees a word where a database does.
LEMMA KeywordsFound ==
  ASSUME TextInv, SameComments, NEW R \in Reader, Fits(R), Unescaped(R), NEW i \in DOMAIN text,
         text[i] \in Letter, kinds[R][i] # "tag", mode[R].in # "name"
  PROVE  i \in Survivors(blankStringLiterals(stripComments(Bytes(text)))) <=> kinds[R][i] = "plain"
PROOF
  <1> DEFINE s == Bytes(text)
             u == stripComments(s)
             v == blankStringLiterals(u)
  <1>1. PICK D : IsText(D, s)
    BY TextIs
  <1>2. PICK ms : IsRun(R, s, ms)
    BY <1>1, RunIs DEF Fits
  <1> HIDE DEF s
  <1>3. /\ s \in Seq(D) /\ Gap \in D /\ Numbered(s) /\ i \in 1 .. Len(s) /\ s[i].char = text[i] /\ s[i].at = i
        /\ i # 0 /\ Len(s) \in Nat
        /\ Run(R, s, ms) /\ mode[R] = ms[Len(s)] /\ kinds[R][i] = Kind(ms[i - 1], ms[i])
    BY <1>1, <1>2 DEF IsText, IsRun
  <1>4. Suits(R, s, ms, TRUE) /\ Dashes(s)
    <2>2. \A k \in 1 .. Len(s) : s[k].char = "$" =>
            (Databases[R].dollar \/ (ms[k] = Plain => k > 1 /\ s[k - 1].char \in isIdentByte))
      BY <1>1, <1>2, DollarFits
    <2> QED BY <1>1, <1>2, <2>2, TextSuits DEF Fits
  <1>5. PICK ns : Copied(R, D, s, ms, Len(s) + 1, u, ns)
    BY <1>3, <1>4, StripCopies
  <1> HIDE DEF u
  <1>7. ns[Len(u)].in # "name"
    <2>2. Len(s) + 1 # 1 /\ Len(s) + 1 - 1 = Len(s)
      BY <1>3
    <2>3. ns[Len(u)] = Plain \/ ns[Len(u)] = ms[Len(s)]
      BY <1>5, <2>2 DEF Copied, Ends
    <2> QED BY <1>3, <2>3, FieldsOf DEF Plain
  <1>8. SeenIn(u, ns, v)
    BY <1>3, <1>4, <1>5, <1>7, CopiedSuits, LettersSeen DEF Copied
  <1> HIDE DEF v
  <1>10. ASSUME NEW k \in 1 .. Len(u), u[k].at = i
         PROVE  u[k] = s[i] /\ Kind(ns[k - 1], ns[k]) = kinds[R][i]
    <2>1. LeftAt(s, ms, u, ns, k)
      BY <1>3, <1>5, CopiedAt
    <2>2. u[k] # Gap
      BY <1>3, <1>10 DEF Gap
    <2> QED BY <1>3, <1>10, <2>1, <2>2 DEF LeftAt
  <1>11. ASSUME NEW y \in 1 .. Len(v), v[y].at = i PROVE kinds[R][i] = "plain"
    <2>1. PICK k \in 1 .. Len(u) :
            v[y] = u[k] /\ (u[k].char \in Letter => Kind(ns[k - 1], ns[k]) \in {"plain", "tag"})
      BY <1>3, <1>8, <1>11 DEF SeenIn
    <2> QED BY <1>3, <1>10, <1>11, <2>1
  <1>12. ASSUME kinds[R][i] = "plain" PROVE \E y \in 1 .. Len(v) : v[y].at = i
    <2>1. PICK k \in 1 .. Len(u) : u[k] = s[i]
      <3>2. Kind(ms[i - 1], ms[i]) \notin {"comment", "dash"}
        BY <1>3, <1>12
      <3> QED BY <1>3, <1>5, <3>2 DEF Copied
    <2>3. PICK y \in 1 .. Len(v) : v[y] = u[k]
      BY <1>3, <1>8, <1>10, <1>12, <2>1 DEF SeenIn
    <2> QED BY <1>3, <2>1, <2>3
  <1>13. i \in Survivors(v) <=> kinds[R][i] = "plain"
    BY <1>8, <1>11, <1>12 DEF SeenIn, Survivors
  <1> QED BY <1>13 DEF v, u, s

\* For every alphabet and every length: the fallback parser looks for its words in
\* what the statement really says.  It sees a letter if and only if the letter is
\* outside every literal, name and comment, for each database that reads the text
\* without escapes, knows its quotes and found no comment in a comment
\* (fallback.go: blankStringLiterals; redact.go: stripComments).
THEOREM KeywordsSeenHolds == Spec => []KeywordsSeen
PROOF
  <1>1. TextInv => KeywordsSeen
    BY KeywordsFound DEF KeywordsSeen
  <1> QED BY <1>1, TextRead, PTL
-----------------------------------------------------------------------------
(* The separators.                                                         *)

\* After a ";" that is outside everything for R comes something that is no blank.
Follows(s, ms, i, j) ==
    /\ i \in 1 .. Len(s) /\ j \in 1 .. Len(s) /\ i < j
    /\ s[i].char = "semi" /\ Kind(ms[i - 1], ms[i]) = "plain"
    /\ s[j].char \notin Blank

\* Each piece has a first byte, which is no blank if one of the text's is none.
LEMMA Begun ==
  ASSUME NEW s, NEW i, NEW p, NEW e, BlankedTo(s, i, p, e)
  PROVE  Len(e) > 0 /\ ((p.kind = "byte" /\ p.hi = i + 1 /\ e[1] = s[i]) \/ e[1].char \notin Blank)
PROOF
  <1>1. CASE p.kind = "byte" /\ p.hi = i + 1 /\ Len(e) = 1 /\ e[1] = s[i]
    BY <1>1
  <1>2. CASE Len(e) > 0 /\ e[1].char \in Quote \cup {"bt", "$"}
    BY <1>2 DEF Quote, Blank
  <1> QED BY <1>1, <1>2 DEF BlankedTo

\* blankLiterals leaves a separator that R sees.
LEMMA SeparatorLeft ==
  ASSUME NEW R \in Reader, NEW C, NEW s \in Seq(C), NEW ms, Run(R, s, ms),
         NEW dollar \in BOOLEAN, Suits(R, s, ms, dollar), Uncommented(s, ms),
         NEW i, NEW j, Follows(s, ms, i, j)
  PROVE  hasStatementSeparator(blankLiterals(s, dollar))
PROOF
  <1> DEFINE v == blankLiterals(s, dollar)
  <1>1. PICK ps, q, off : Blanked(R, s, ms, FALSE, v, ps, q, off)
    BY BlankIs DEF blankLiterals
  <1> HIDE DEF v
  <1>2. /\ Len(ps) \in Nat /\ Len(q) = Len(ps) /\ v \in Seq(BlankBytes(s))
        /\ \A m \in 1 .. Len(ps) :
             /\ ps[m].lo \in 1 .. Len(s)
             /\ Taken(R, s, ms, FALSE, ps[m].lo, ps[m]) /\ BlankedTo(s, ps[m].lo, ps[m], q[m])
        /\ \A m, k \in 1 .. Len(ps) : m < k => ps[m].hi <= ps[k].lo
        /\ \A k \in 1 .. Len(s) : \E m \in 1 .. Len(ps) : ps[m].lo <= k /\ k < ps[m].hi
    BY <1>1 DEF Blanked
  <1>3. /\ \A m \in 1 .. Len(q) :
             /\ off[m] \in Nat
             /\ \A x \in 1 .. Len(q[m]) : off[m] + x \in 1 .. Len(v) /\ v[off[m] + x] = q[m][x]
        /\ \A m, k \in 1 .. Len(q) : m < k => off[m] + Len(q[m]) <= off[k]
    BY <1>1 DEF Blanked, Spread
  <1>4. /\ i \in 1 .. Len(s) /\ j \in 1 .. Len(s) /\ i < j
        /\ s[i].char = "semi" /\ Kind(ms[i - 1], ms[i]) = "plain" /\ s[j].char \notin Blank
    BY DEF Follows
  <1>5. PICK m \in 1 .. Len(ps) : ps[m].lo <= i /\ i < ps[m].hi
    BY <1>2, <1>4
  <1>6. PICK k \in 1 .. Len(ps) : ps[k].lo <= j /\ j < ps[k].hi
    BY <1>2, <1>4
  <1>7. ASSUME NEW x \in 1 .. Len(ps) PROVE ps[x].lo \in Nat /\ ps[x].hi \in Nat
    <2>1. ps[x].lo \in 1 .. Len(s) /\ Taken(R, s, ms, FALSE, ps[x].lo, ps[x])
      BY <1>2
    <2> QED BY <2>1 DEF Taken
  <1>8. ps[m].kind = "byte" /\ ps[m].hi = ps[m].lo + 1
    <2> DEFINE p == ps[m]
    <2>2. p.lo <= i /\ i < p.hi /\ p.lo \in Nat /\ p.hi \in Nat /\ i \in Nat
      <3>2. i \in Nat
        BY <1>4
      <3> QED BY <1>5, <1>7, <3>2
    <2> HIDE DEF p
    <2>3. i \in p.lo .. p.hi - 1
      BY <2>2, InRange
    <2>4. ~LiteralTaken(s, ms, p)
      <3> SUFFICES ASSUME InLiteral(s, ms, i) PROVE FALSE
        BY <2>3 DEF LiteralTaken
      <3>2. Kind(ms[i - 1], ms[i]) \in Contents
        BY <1>4, KindsOf DEF Special, Quote
      <3> QED BY <1>4, <3>2 DEF Contents
    <2>5. ~CommentTaken(R, s, ms, p)
      BY <1>4, <2>3 DEF CommentTaken
    <2> QED BY <1>2, <2>4, <2>5 DEF Taken, ByteTaken, p
  <1>9. ps[m].lo = i
    BY <1>4, <1>5, <1>7, <1>8, Only, SMTT(30)
  <1>10. Len(q[m]) = 1 /\ q[m][1] = s[i]
    BY <1>2, <1>8, <1>9 DEF BlankedTo
  <1>11. m < k
    <2>2. ~(k < m)
      <3> SUFFICES ASSUME k < m PROVE FALSE
        OBVIOUS
      <3> QED BY <1>2, <1>4, <1>6, <1>7, <1>9
    <2> QED BY <1>4, <1>6, <1>8, <1>9, <2>2
  <1> DEFINE y == off[m] + 1
             z == off[k] + 1
  <1>12. Len(q[k]) > 0 /\ q[k][1].char \notin Blank
    <2>1. BlankedTo(s, ps[k].lo, ps[k], q[k])
      BY <1>2
    <2>2. ps[k].hi = ps[k].lo + 1 => ps[k].lo = j
      BY <1>4, <1>6, <1>7
    <2>3. Len(q[k]) > 0
      BY <2>1 DEF BlankedTo
    <2>4. CASE q[k][1].char \notin Blank
      BY <2>3, <2>4
    <2>5. CASE ps[k].kind = "byte" /\ ps[k].hi = ps[k].lo + 1 /\ q[k][1] = s[ps[k].lo]
      BY <1>4, <2>2, <2>3, <2>5
    <2> QED BY <2>1, <2>4, <2>5, Begun
  <1>13. 1 \in 1 .. Len(q[k])
    BY <1>12
  <1>14. y \in 1 .. Len(v) /\ v[y] = s[i] /\ z \in 1 .. Len(v) /\ v[z] = q[k][1]
    BY <1>2, <1>3, <1>10, <1>13
  <1>15. y < z
    BY <1>2, <1>3, <1>10, <1>11, SMTT(30)
  <1> HIDE DEF y, z
  <1>16. DOMAIN v = 1 .. Len(v) /\ Len(v) \in Nat /\ z \in y + 1 .. Len(v)
    BY <1>2, <1>14, <1>15
  <1>17. hasStatementSeparator(v)
    BY <1>4, <1>12, <1>14, <1>16 DEF hasStatementSeparator
  <1> QED BY <1>17 DEF v

\* R is in no dollar-quoted string, and in nothing between backticks.
Unticked(m) == m.in \notin {"tag", "dollar"} /\ m.quote # "bt"

LEMMA ReadsUnticked ==
  ASSUME NEW R \in Reader, NEW m, Shaped(m), Unticked(m), NEW c, c \notin {"bt", "$"}, NEW prev
  PROVE  Unticked(Steps(R, m, c, prev))
PROOF
  <1> DEFINE y == Begins(R, c, prev)
  <1>1. /\ \A x : \A w \in {"string", "name", "escape"} : x # "bt" => Unticked(InRun(w, x))
        /\ \A w \in {"plain", "comment", "dash", "block"} : Unticked(In(w))
        /\ \A t : c # "bt" => Unticked(Mode("closed", c, t, << >>))
    <2>2. \A w \in {"plain", "comment", "dash", "block"} : Unticked(In(w))
      BY FieldsOf DEF Unticked
    <2>3. ASSUME NEW t PROVE Unticked(Mode("closed", c, t, << >>))
      BY Fields DEF Unticked
    <2> QED BY <2>2, <2>3, FieldsOf DEF Unticked
  <1>2. Unticked(Plain)
    BY <1>1 DEF Plain
  <1>3. Unticked(y)
    <2>1. CASE c \in Databases[R].strings
      BY <1>1, <2>1, BeginsQuoted
    <2>2. CASE c \in Databases[R].names
      BY <1>1, <2>2, BeginsQuoted
    <2>3. CASE c \notin Databases[R].strings \cup Databases[R].names
      <3>2. CASE c \in {"--", "#", "/*"}
        BY <1>1, <1>2, <3>2, BeginsOther
      <3>3. CASE c \notin Special
        BY <1>2, <3>3, BeginsOther
      <3> QED BY <2>3, <3>2, <3>3, DatabaseIs DEF Special
    <2> QED BY <2>1, <2>2, <2>3
  <1> HIDE DEF y
  <1>5. m.quote # "bt"
    BY DEF Unticked
  <1>6. ASSUME m.in \in {"string", "name"} PROVE Unticked(Steps(R, m, c, prev))
    BY <1>1, <1>5, <1>6 DEF Steps, Reads
  <1>7. ASSUME m.in = "escape" PROVE Unticked(Steps(R, m, c, prev))
    BY <1>1, <1>5, <1>7 DEF Steps, Reads
  <1>8. ASSUME m.in = "closed" PROVE Unticked(Steps(R, m, c, prev))
    <2>2. m.tag[1] \in {"string", "name"}
      BY <1>8 DEF Shaped
    <2> QED BY <1>1, <1>3, <1>8, <2>2 DEF Steps, Reads, y
  <1>9. ASSUME m.in = "dash" PROVE Unticked(Steps(R, m, c, prev))
    BY <1>1, <1>2, <1>3, <1>9 DEF Steps, Reads, y
  <1>10. ASSUME m.in \in {"plain", "comment", "block"} PROVE Unticked(Steps(R, m, c, prev))
    BY <1>2, <1>3, <1>10 DEF Steps, Reads, y
  <1> QED BY <1>6, <1>7, <1>8, <1>9, <1>10 DEF Shaped, Unticked, InComments

LEMMA RunUnticked ==
  ASSUME NEW R \in Reader, NEW C, NEW s \in Seq(C), NEW ms, Run(R, s, ms),
         \A i \in 1 .. Len(s) : s[i].char \notin {"bt", "$"}, NEW k \in 0 .. Len(s)
  PROVE  Unticked(ms[k])
PROOF
  <1> DEFINE n == Len(s)
             T == {d \in Nat : d <= n => Unticked(ms[d])}
  <1>1. n \in Nat
    OBVIOUS
  <1>2. 0 \in T
    BY FieldsOf DEF Unticked, Plain, Run
  <1>3. ASSUME NEW d \in Nat, d \in T PROVE d + 1 \in T
    <2> SUFFICES ASSUME d + 1 <= n PROVE Unticked(ms[d + 1])
      OBVIOUS
    <2>1. d + 1 \in 1 .. n /\ (d + 1) - 1 = d /\ d \in 0 .. Len(s) /\ Unticked(ms[d])
      BY <1>1, <1>3
    <2>3. Shaped(ms[d])
      BY <2>1, RunShaped
    <2>4. s[d + 1].char \notin {"bt", "$"}
      BY <2>1
    <2> HIDE DEF T
    <2> QED BY <2>1, <2>3, <2>4, ReadsUnticked DEF Run
  <1> HIDE DEF T
  <1>4. Nat \subseteq T
    BY <1>2, <1>3, Induct
  <1> QED BY <1>1, <1>4 DEF T

\* What is blank, or is the first byte of a piece that is not.
LEMMA NotBlank ==
  ASSUME NEW s, \A k \in 1 .. Len(s) : s[k].char # "$", NEW i \in 1 .. Len(s), NEW p, NEW e,
         BlankedTo(s, i, p, e), NEW x \in 1 .. Len(e), e[x].char \notin Blank
  PROVE  /\ s[i].char \notin Blank
         /\ e[x].char = "semi" => p.kind = "byte" /\ p.hi = i + 1 /\ Len(e) = 1 /\ e[x] = s[i]
PROOF
  <1>1. CASE p.kind = "byte" /\ p.hi = i + 1 /\ Len(e) = 1 /\ e[1] = s[i]
    BY <1>1
  <1>2. CASE s[i].char \in Quote \cup {"bt"} /\ \A z \in 1 .. Len(e) : e[z].char \in Quote \cup {"bt", "x"}
    BY <1>2 DEF Quote, Blank
  <1> QED BY <1>1, <1>2 DEF BlankedTo

\* A separator that blankLiterals leaves is one R sees, if there are no "$" and no
\* backticks.
LEMMA SeparatorReal ==
  ASSUME NEW R \in Reader, NEW C, NEW s \in Seq(C), NEW ms, Run(R, s, ms),
         NEW dollar \in BOOLEAN, Suits(R, s, ms, dollar), Uncommented(s, ms),
         \A k \in 1 .. Len(s) : s[k].char \notin {"bt", "$"},
         hasStatementSeparator(blankLiterals(s, dollar))
  PROVE  \E i, j : Follows(s, ms, i, j)
PROOF
  <1> DEFINE v == blankLiterals(s, dollar)
  <1>1. PICK ps, q, off : Blanked(R, s, ms, FALSE, v, ps, q, off)
    BY BlankIs DEF blankLiterals
  <1>0. hasStatementSeparator(v)
    OBVIOUS
  <1> HIDE DEF v
  <1>2. /\ Len(ps) \in Nat /\ Len(q) = Len(ps) /\ v \in Seq(BlankBytes(s))
        /\ \A m \in 1 .. Len(ps) :
             /\ ps[m].lo \in 1 .. Len(s)
             /\ Taken(R, s, ms, FALSE, ps[m].lo, ps[m]) /\ BlankedTo(s, ps[m].lo, ps[m], q[m])
        /\ \A m, k \in 1 .. Len(ps) : m < k => ps[m].hi <= ps[k].lo
    BY <1>1 DEF Blanked
  <1>3. /\ \A m \in 1 .. Len(q) :
             /\ off[m] \in Nat
             /\ \A x \in 1 .. Len(q[m]) : off[m] + x \in 1 .. Len(v) /\ v[off[m] + x] = q[m][x]
        /\ \A m, k \in 1 .. Len(q) : m < k => off[m] + Len(q[m]) <= off[k]
        /\ \A y \in 1 .. Len(v) : \E m \in 1 .. Len(q) : \E x \in 1 .. Len(q[m]) : y = off[m] + x
    BY <1>1 DEF Blanked, Spread
  <1>4. PICK y \in 1 .. Len(v) : v[y].char = "semi" /\ \E z \in y + 1 .. Len(v) : v[z].char \notin Blank
    <2>1. DOMAIN v = 1 .. Len(v)
      BY <1>2
    <2> QED BY <1>0, <2>1 DEF hasStatementSeparator
  <1>5. PICK z \in y + 1 .. Len(v) : v[z].char \notin Blank
    BY <1>4
  <1>6. z \in 1 .. Len(v) /\ y < z
    BY <1>2, <1>4, <1>5
  <1>7. PICK m \in 1 .. Len(ps) : \E x \in 1 .. Len(q[m]) : y = off[m] + x
    BY <1>2, <1>3, ZenonT(30)
  <1>8. PICK x \in 1 .. Len(q[m]) : y = off[m] + x
    BY <1>7
  <1>9. PICK k \in 1 .. Len(ps) : \E w \in 1 .. Len(q[k]) : z = off[k] + w
    BY <1>2, <1>3, <1>6
  <1>10. PICK w \in 1 .. Len(q[k]) : z = off[k] + w
    BY <1>9
  <1> DEFINE i == ps[m].lo
             j == ps[k].lo
  <1>11. q[m][x].char = "semi" /\ q[k][w].char \notin Blank
    BY <1>2, <1>3, <1>4, <1>5, <1>8, <1>10
  <1>13. /\ i \in 1 .. Len(s) /\ Taken(R, s, ms, FALSE, i, ps[m]) /\ BlankedTo(s, i, ps[m], q[m])
         /\ j \in 1 .. Len(s) /\ BlankedTo(s, j, ps[k], q[k])
    BY <1>2
  <1> HIDE DEF i, j
  <1>14. ps[m].kind = "byte" /\ ps[m].hi = i + 1 /\ Len(q[m]) = 1 /\ q[m][x] = s[i]
    <2>1. q[m][x].char \notin Blank
      BY <1>11 DEF Blank
    <2>2. \A l \in 1 .. Len(s) : s[l].char # "$"
      OBVIOUS
    <2> DEFINE e == q[m]
               p == ps[m]
    <2>3. x \in 1 .. Len(e) /\ BlankedTo(s, i, p, e) /\ e[x].char \notin Blank /\ e[x].char = "semi"
      BY <1>11, <1>13, <2>1
    <2> HIDE DEF e, p
    <2>4. i \in 1 .. Len(s)
      BY <1>13
    <2>5. p.kind = "byte" /\ p.hi = i + 1 /\ Len(e) = 1 /\ e[x] = s[i]
      BY <2>2, <2>3, <2>4, NotBlank, SMTT(30)
    <2> QED BY <2>5 DEF e, p
  <1>15. s[j].char \notin Blank
    BY <1>11, <1>13, NotBlank
  <1>16. m < k
    <2>1. off[m] \in Nat /\ off[k] \in Nat /\ x = 1
      BY <1>2, <1>3, <1>14
    <2>2. m # k
      <3> SUFFICES ASSUME m = k PROVE FALSE
        OBVIOUS
      <3> QED BY <1>6, <1>8, <1>10, <1>14, <2>1
    <2>3. ~(k < m)
      <3> SUFFICES ASSUME k < m PROVE FALSE
        OBVIOUS
      <3>2. z <= off[m]
        <4>1. w \in 1 .. Len(q[k]) /\ z = off[k] + w
          BY <1>10
        <4>2. Len(q[k]) \in Nat
          BY <4>1
        <4>3. off[k] + w <= off[m]
          <5>1. off[k] + Len(q[k]) <= off[m]
            BY <1>2, <1>3
          <5> QED BY <2>1, <4>1, <4>2, <5>1, UpTo
        <4> QED BY <4>1, <4>3
      <3> DEFINE b == off[m]
      <3>4. z <= b /\ y = b + 1 /\ y < z /\ b \in Nat
        BY <1>6, <1>8, <2>1, <3>2, After
      <3> HIDE DEF b
      <3> QED BY <1>6, <3>4, NotBetween
    <2> QED BY <2>2, <2>3
  <1>17. i < j
    <2>1. ps[m].hi <= j
      BY <1>2, <1>16 DEF j
    <2> QED BY <1>13, <1>14, <2>1
  <1>18. Kind(ms[i - 1], ms[i]) = "plain"
    <2>2. Unticked(ms[i])
      <3>1. i \in 0 .. Len(s)
        BY <1>13
      <3> QED BY <3>1, RunUnticked
    <2>3. ms[i].in \in {"plain", "closed"}
      BY <1>13, <1>14, <2>2 DEF Taken, LiteralTaken, CommentTaken, ByteTaken, Unticked, i
    <2>4. ms[i - 1].in # "block"
      <3>1. CASE i = 1
        <4>1. ms[i - 1] = Plain
          BY <3>1 DEF Run
        <4> QED BY <4>1, FieldsOf, SMTT(30) DEF Plain
      <3>2. CASE i # 1
        <4>1. i - 1 \in 1 .. Len(s)
          BY <1>13, <3>2
        <4> QED BY <4>1 DEF Uncommented, InComments
      <3> QED BY <3>1, <3>2
    <2> QED BY <2>3, <2>4, KindOf
  <1>20. Follows(s, ms, i, j)
    BY <1>11, <1>13, <1>14, <1>15, <1>17, <1>18 DEF Follows
  <1> QED BY <1>20

\* u is the first l elements of s.
FirstOf(D, s, u, l) == u \in Seq(D) /\ Len(u) = l /\ \A x \in 1 .. l : u[x] = s[x]

LEMMA BeginsOn ==
  ASSUME NEW D, NEW s \in Seq(D), NEW u, NEW i \in 1 .. Len(s), FirstOf(D, s, u, i - 1),
         NEW h \in Nat, i < h, h <= Len(s) + 1,
         NEW w \in Seq(D), Len(w) = h - i, \A x \in 1 .. h - i : w[x] = s[i + x - 1]
  PROVE  FirstOf(D, s, u \o w, h - 1)
PROOF
  <1> DEFINE v == u \o w
             n == Len(s)
             l == i - 1
  <1>1. u \in Seq(D) /\ Len(u) = l /\ \A x \in 1 .. l : u[x] = s[x]
    BY DEF FirstOf
  <1>2. IsJoined(D, u, w, v)
    BY <1>1, Joined
  <1> HIDE DEF v
  <1>3. /\ v \in Seq(D) /\ Len(v) = l + (h - i)
        /\ \A x \in 1 .. l : v[x] = s[x]
        /\ \A x \in 1 .. h - i : v[l + x] = s[i + x - 1]
    BY <1>1, <1>2 DEF IsJoined
  <1>4. n \in Nat /\ i \in 1 .. n
    OBVIOUS
  <1> HIDE DEF n
  <1>6. ASSUME NEW x \in 1 .. h - 1 PROVE v[x] = s[x]
    <2>1. CASE x <= l
      BY <1>3, <1>4, <2>1
    <2>2. CASE x > l
      <3> DEFINE y == x - l
      <3>1. y \in 1 .. h - i /\ l + y = x /\ i + y - 1 = x
        BY <1>4, <2>2
      <3> HIDE DEF y, l
      <3> QED BY <1>3, <3>1
    <2> QED BY <1>4, <2>1, <2>2
  <1>7. FirstOf(D, s, v, h - 1)
    BY <1>3, <1>4, <1>6 DEF FirstOf
  <1> QED BY <1>7 DEF v

\* A text without a comment stays as it is.
LEMMA Unchanged ==
  ASSUME NEW D, NEW s \in Seq(D), \A k \in 1 .. Len(s) : s[k].char \notin {"--", "/*"}
  PROVE  stripComments(s) = s
PROOF
  <1> DEFINE pa == [i \in DOMAIN s |-> StripPiece(s, i)]
             ps == Pieces(s, pa)
             W(p) == IF p.kind = "comment" THEN Write("sp") ELSE Copy(s, p)
             q == [k \in DOMAIN ps |-> W(ps[k])]
             c == Len(ps)
             n == Len(s)
             At(m) == IF m < c THEN ps[m + 1].lo ELSE n + 1
  <1>1. DOMAIN s = 1 .. n /\ n \in Nat
    OBVIOUS
  <1>2. \A i \in 1 .. n : pa[i] = StripPiece(s, i)
    BY <1>1
  <1>3. stripComments(s) = FlattenSeq(q)
    BY DEF stripComments, Written
  <1> HIDE DEF pa
  <1>4. ASSUME NEW i \in 1 .. n
        PROVE  /\ pa[i].lo = i /\ pa[i].hi \in Nat /\ i < pa[i].hi /\ pa[i].hi <= n + 1
               /\ pa[i].kind # "comment"
    <2> DEFINE p == StripPiece(s, i)
    <2>1. p.lo = i /\ p.hi \in Nat /\ i < p.hi /\ p.hi <= n + 1
      BY StripAdvances
    <2>3. p.kind # "comment"
      <3>1. CASE s[i].char \in Quote
        BY <3>1 DEF StripPiece, Piece, Quote
      <3>2. CASE s[i].char \notin Quote /\ s[i].char = "$"
        BY <3>2 DEF StripPiece, DollarPiece, Piece, Byte
      <3>3. CASE s[i].char \notin Quote /\ s[i].char # "$"
        BY <3>3 DEF StripPiece, Byte, Piece
      <3> QED BY <3>1, <3>2, <3>3
    <2> QED BY <1>2, <2>1, <2>3
  <1>5. Chained(ps, s, pa, 1)
    <2>2. \A i \in 1 .. Len(s) : pa[i].lo = i
      BY <1>4
    <2> QED BY <1>4, <2>2, PiecesChained DEF Advances
  <1> HIDE DEF ps
  <1>6. /\ c \in Nat /\ DOMAIN ps = 1 .. c
        /\ c = 0 => n = 0
        /\ c > 0 => ps[1].lo = 1
        /\ \A m \in 1 .. c : /\ ps[m].lo \in 1 .. n /\ ps[m] = pa[ps[m].lo]
                             /\ ps[m].hi = At(m)
    <2> DEFINE E == {pa[j] : j \in 1 .. Len(s)}
    <2>1. ps \in Seq(E)
      BY <1>5 DEF Chained
    <2>2. c \in Nat /\ DOMAIN ps = 1 .. c /\ \A m \in 1 .. c : ps[m] \in E
      BY <2>1
    <2>3. ASSUME NEW m \in 1 .. c PROVE ps[m].lo \in 1 .. n /\ ps[m] = pa[ps[m].lo]
      <3>1. PICK j \in 1 .. n : ps[m] = pa[j]
        BY <2>2
      <3> QED BY <1>4, <3>1
    <2>4. ASSUME NEW m \in 1 .. c PROVE ps[m].hi = At(m)
      <3>1. IF m < c THEN ps[m].hi <= n /\ ps[m + 1] = pa[ps[m].hi] ELSE ps[m].hi = n + 1
        BY <1>5 DEF Chained
      <3>2. CASE m < c
        <4>1. ps[m].hi \in 1 .. n
          BY <1>4, <2>3, <3>1, <3>2
        <4> QED BY <1>4, <3>1, <3>2, <4>1
      <3>3. CASE ~(m < c)
        BY <3>1, <3>3
      <3> QED BY <3>2, <3>3
    <2>5. c = 0 => n = 0
      <3> SUFFICES ASSUME c = 0 PROVE ~(1 <= n)
        BY <1>1
      <3>2. ps = << >>
        BY <2>1
      <3> QED BY <1>5, <3>2 DEF Chained
    <2>6. c > 0 => ps[1].lo = 1
      <3> SUFFICES ASSUME c > 0 PROVE ps[1].lo = 1
        OBVIOUS
      <3>1. 1 <= n
        <4> SUFFICES ASSUME 1 > n PROVE FALSE
          BY <1>1
        <4> QED BY <1>5 DEF Chained
      <3>2. ps[1] = pa[1]
        BY <1>5, <3>1 DEF Chained
      <3> QED BY <1>1, <1>4, <3>1, <3>2
    <2> QED BY <2>2, <2>3, <2>4, <2>5, <2>6
  <1> HIDE DEF c
  <1>7. ASSUME NEW m \in 1 .. c
        PROVE  LET lo == ps[m].lo
                   h == ps[m].hi
               IN  /\ lo \in 1 .. n /\ h \in Nat /\ lo < h /\ h <= n + 1
                   /\ q[m] \in Seq(D) /\ Len(q[m]) = h - lo
                   /\ \A x \in 1 .. h - lo : q[m][x] = s[lo + x - 1]
    <2> DEFINE lo == ps[m].lo
               h == ps[m].hi
    <2>1. lo \in 1 .. n /\ h \in Nat /\ lo < h /\ h <= n + 1 /\ ps[m].kind # "comment"
      BY <1>4, <1>6, SMTT(30)
    <2>2. q[m] = SubSeq(s, lo, h - 1)
      BY <1>6, <2>1 DEF Copy
    <2> HIDE DEF lo, h, q
    <2>3. q[m] \in Seq(D) /\ Len(q[m]) = h - lo /\ \A x \in 1 .. h - lo : q[m][x] = s[lo + x - 1]
      BY <1>1, <2>1, <2>2, CutOut
    <2> QED BY <2>1, <2>3 DEF lo, h
  <1>8. q \in Seq(Seq(D)) /\ Len(q) = c
    <2>1. q = [m \in 1 .. c |-> q[m]] /\ c \in Nat
      BY <1>6
    <2> DEFINE E == Seq(D)
    <2> HIDE DEF q, E
    <2>3. q \in [1 .. c -> E]
      BY <1>7, <2>1 DEF E
    <2> QED BY <2>1, <2>3 DEF E
  <1> HIDE DEF q
  <1>9. PICK f : Flattens(f, q) /\ FlattenSeq(q) = f[Len(q)]
    BY <1>8, FlattenIs
  <1> DEFINE T == {m \in Nat : m <= c => FirstOf(D, s, f[m], At(m) - 1)}
  <1>10. 0 \in T
    <2>2. f[0] = << >>
      BY <1>9 DEF Flattens
    <2>4. FirstOf(D, s, << >>, 0)
      BY DEF FirstOf
    <2> QED BY <1>6, <2>2, <2>4
  <1>11. ASSUME NEW e \in Nat, e \in T PROVE e + 1 \in T
    <2> DEFINE m == e + 1
    <2> SUFFICES ASSUME m <= c PROVE FirstOf(D, s, f[m], At(m) - 1)
      OBVIOUS
    <2>1. m \in 1 .. c /\ e < c /\ e <= c /\ m - 1 = e
      BY <1>6
    <2>2. FirstOf(D, s, f[e], At(e) - 1)
      BY <1>11, <2>1
    <2> HIDE DEF T
    <2> DEFINE i == ps[m].lo
               h == ps[m].hi
    <2>3. At(e) = i /\ At(m) = h
      BY <1>6, <2>1
    <2> HIDE DEF At, m
    <2>4. /\ i \in 1 .. n /\ h \in Nat /\ i < h /\ h <= n + 1
          /\ q[m] \in Seq(D) /\ Len(q[m]) = h - i
          /\ \A x \in 1 .. h - i : q[m][x] = s[i + x - 1]
      BY <1>7, <2>1
    <2> HIDE DEF i, h
    <2>6. FirstOf(D, s, f[e] \o q[m], h - 1)
      BY <2>2, <2>3, <2>4, BeginsOn
    <2> QED BY <1>8, <1>9, <2>1, <2>3, <2>6 DEF Flattens
  <1> HIDE DEF T
  <1>12. c \in T
    BY <1>6, <1>10, <1>11, Induct
  <1>13. At(c) - 1 = n
    BY <1>1, <1>6
  <1> HIDE DEF At
  <1>14. FirstOf(D, s, f[c], n)
    BY <1>6, <1>12, <1>13 DEF T
  <1>15. f[c] = s
    BY <1>1, <1>14 DEF FirstOf
  <1> QED BY <1>3, <1>8, <1>9, <1>15

LEMMA ReadsUncommented ==
  ASSUME NEW R \in Reader, NEW m, Shaped(m), m.in \notin InComments,
         NEW c, c \notin {"--", "/*", "#"}, NEW prev
  PROVE  Steps(R, m, c, prev).in \notin InComments
PROOF
  <1> DEFINE x == Steps(R, m, c, prev)
             y == Begins(R, c, prev)
  <1>1. y.in \notin InComments
    <2>1. \A w \in {"string", "name", "plain", "tag"} : w \notin InComments
      BY DEF InComments
    <2>2. CASE c \in Databases[R].strings \cup Databases[R].names
      BY <2>1, <2>2, BeginsQuoted, FieldsOf
    <2>3. CASE c \notin Databases[R].strings \cup Databases[R].names
      <3>2. CASE c = "$"
        BY <2>1, <3>2, BeginsOther, FieldsOf DEF Plain
      <3>3. CASE c = "bt"
        BY <2>1, <2>3, <3>3, BeginsQuoted, FieldsOf DEF Plain
      <3>4. CASE c \notin Special
        BY <2>1, <3>4, BeginsOther, FieldsOf DEF Plain
      <3> QED BY <2>3, <3>2, <3>3, <3>4, DatabaseIs DEF Special
    <2> QED BY <2>2, <2>3
  <1>2. ASSUME x.in \in InComments PROVE FALSE
    <2> HIDE DEF y
    <2>2. CASE m.in = "plain"
      BY <1>1, <1>2, <2>2 DEF Steps, Reads, y
    <2>3. CASE m.in = "closed"
      <3>3. InRun(m.tag[1], c).in \notin InComments
        BY <2>3, FieldsOf DEF Shaped, InComments
      <3> QED BY <1>1, <1>2, <2>3, <3>3 DEF Steps, Reads, y
    <2>4. CASE m.in = "tag"
      <3>1. x \in {InTag("tag", Append(m.tag, c), << >>), InTag("dollar", m.tag, << >>), y}
        BY <2>4 DEF Steps, Reads, y
      <3>2. \A t : InTag("tag", t, << >>).in \notin InComments /\ InTag("dollar", t, << >>).in \notin InComments
        BY FieldsOfTag DEF InComments
      <3> HIDE DEF x
      <3> QED BY <1>1, <1>2, <3>1, <3>2
    <2> QED BY <1>2, <2>2, <2>3, <2>4, IntoComment
  <1> QED BY <1>2

LEMMA NoComments ==
  ASSUME NEW R \in Reader, NEW C, NEW s \in Seq(C), NEW ms, Run(R, s, ms),
         \A k \in 1 .. Len(s) : s[k].char \notin {"--", "/*", "#"}
  PROVE  Uncommented(s, ms)
PROOF
  <1> DEFINE n == Len(s)
             T == {d \in Nat : d <= n => ms[d].in \notin InComments}
  <1>1. n \in Nat
    OBVIOUS
  <1>2. 0 \in T
    <2>1. Plain.in \notin InComments
      BY FieldsOf DEF Plain, InComments
    <2> QED BY <2>1 DEF Run
  <1>3. ASSUME NEW d \in Nat, d \in T PROVE d + 1 \in T
    <2> SUFFICES ASSUME d + 1 <= n PROVE ms[d + 1].in \notin InComments
      OBVIOUS
    <2>1. d + 1 \in 1 .. n /\ (d + 1) - 1 = d /\ d \in 0 .. Len(s) /\ ms[d].in \notin InComments
      BY <1>1, <1>3
    <2> DEFINE m == ms[d]
               c == s[d + 1].char
               p == Prev(s, d + 1)
    <2>2. ms[d + 1] = Steps(R, m, c, p)
      BY <2>1 DEF Run
    <2>3. Shaped(m)
      BY <2>1, RunShaped
    <2>4. c \notin {"--", "/*", "#"} /\ m.in \notin InComments
      BY <2>1
    <2> HIDE DEF T, m, c, p
    <2>5. Steps(R, m, c, p).in \notin InComments
      BY <2>3, <2>4, ReadsUncommented
    <2> QED BY <2>2, <2>5
  <1> HIDE DEF T
  <1>4. Nat \subseteq T
    BY <1>2, <1>3, Induct
  <1>5. \A k \in 1 .. n : ms[k].in \notin InComments
    BY <1>1, <1>4 DEF T
  <1> QED BY <1>5 DEF Uncommented

\* Such a text is what stripComments leaves of itself.
LEMMA CopiedWhole ==
  ASSUME NEW R \in Reader, NEW D, NEW s \in Seq(D), Numbered(s), NEW ms, Run(R, s, ms), Uncommented(s, ms)
  PROVE  Copied(R, D, s, ms, Len(s) + 1, s, ms)
PROOF
  <1> DEFINE n == Len(s)
  <1>1. n \in Nat /\ (n + 1) - 1 = n
    OBVIOUS
  <1>2. Plain.in # "block"
    BY FieldsOf DEF Plain
  <1>3. ASSUME NEW k \in 1 .. n PROVE Stands(s, ms, n + 1, s, ms, k)
    <2>1. ms[k].in \notin InComments
      BY DEF Uncommented
    <2>2. ms[k - 1].in # "block"
      <3>1. CASE k = 1
        BY <1>2, <3>1 DEF Run
      <3>2. CASE k # 1
        BY <3>2 DEF Uncommented, InComments
      <3> QED BY <3>1, <3>2
    <2>3. k \in 1 .. (n + 1) - 1
      BY <1>1
    <2> HIDE DEF n
    <2> QED BY <2>1, <2>2, <2>3 DEF Stands
  <1>5. \A j \in 1 .. (n + 1) - 1 : \E k \in 1 .. n : s[k] = s[j]
    BY <1>1
  <1>6. Ends(R, s, ms, n + 1, s, ms)
    <2>1. CASE n = 0
      BY <2>1 DEF Ends
    <2>2. CASE n # 0
      <3>1. n \in 1 .. Len(s) /\ n + 1 > 1 /\ n > 0
        BY <1>1, <2>2
      <3> QED BY <1>1, <3>1 DEF Uncommented, Ends
    <2> QED BY <2>1, <2>2
  <1>7. Adjoins(s, ms, s)
    BY DEF Numbered, Adjoins
  <1> QED BY <1>3, <1>5, <1>6, <1>7 DEF Numbered, Copied

\* The separators of the text are those of what stripComments leaves.
LEMMA SeparatorsKept ==
  ASSUME NEW R \in Reader, NEW D, NEW s, IsText(D, s), NEW ms, IsRun(R, s, ms),
         NEW u, NEW ns, Copied(R, D, s, ms, Len(s) + 1, u, ns)
  PROVE  Separated(R) <=> \E k, l : Follows(u, ns, k, l)
PROOF
  <1> DEFINE n == Len(s)
  <1>1. /\ s \in Seq(D) /\ Numbered(s) /\ n \in Nat /\ (n + 1) - 1 = n /\ DOMAIN text = 1 .. n
        /\ \A k \in 1 .. n : s[k].char = text[k] /\ s[k].at = k /\ kinds[R][k] = Kind(ms[k - 1], ms[k])
    BY DEF IsText, IsRun
  <1>2. /\ u \in Seq(D) /\ Len(u) \in Nat /\ Run(R, u, ns)
        /\ \A k, l \in 1 .. Len(u) : k < l /\ u[l].at # 0 => u[k].at < u[l].at
        /\ \A j \in 1 .. n : Kind(ms[j - 1], ms[j]) \in {"comment", "dash"} \/ \E k \in 1 .. Len(u) : u[k] = s[j]
    BY <1>1 DEF Copied
  <1>4. Gap.char = "sp" /\ Gap.at = 0 /\ "sp" \in Blank
    BY DEF Gap, Blank
  <1> HIDE DEF n
  <1>5. ASSUME NEW k \in 1 .. Len(u), u[k].at # 0 \/ u[k].char \notin Blank
        PROVE  LET j == u[k].at
               IN  /\ j \in 1 .. n /\ u[k] = s[j] /\ u[k].char = text[j]
                   /\ kinds[R][j] = Kind(ns[k - 1], ns[k]) /\ kinds[R][j] \notin {"comment", "dash"}
    <2> DEFINE j == u[k].at
    <2>1. LeftAt(s, ms, u, ns, k) /\ u[k] # Gap
      BY <1>1, <1>4, <1>5, CopiedAt
    <2>2. /\ j \in 1 .. n /\ u[k] = s[j] /\ Kind(ns[k - 1], ns[k]) = Kind(ms[j - 1], ms[j])
          /\ ns[k].in \notin InComments /\ ns[k - 1].in # "block"
      BY <2>1 DEF LeftAt, n
    <2>3. Kind(ns[k - 1], ns[k]) \notin {"comment", "dash"}
      BY <2>2 DEF Kind, InComments
    <2> QED BY <1>1, <2>2, <2>3
  <1>6. ASSUME Separated(R) PROVE \E k, l : Follows(u, ns, k, l)
    <2>1. PICK i \in 1 .. n, j \in 1 .. n :
            /\ i < j /\ text[i] = "semi" /\ kinds[R][i] = "plain"
            /\ text[j] \notin Blank /\ kinds[R][j] \notin {"comment", "dash"}
      BY <1>1, <1>6 DEF Separated
    <2>2. PICK k \in 1 .. Len(u) : u[k] = s[i]
      BY <1>1, <1>2, <2>1
    <2>3. PICK l \in 1 .. Len(u) : u[l] = s[j]
      BY <1>1, <1>2, <2>1
    <2>4. u[k].at = i /\ u[l].at = j /\ i # 0 /\ j # 0 /\ i \in Nat /\ j \in Nat
      BY <1>1, <2>2, <2>3
    <2>6. k < l
      <3>2. ~(l < k)
        <4> SUFFICES ASSUME l < k PROVE FALSE
          OBVIOUS
        <4>2. j < i
          BY <1>2, <2>4
        <4> QED BY <2>1, <2>4, <4>2
      <3> QED BY <1>2, <2>1, <2>4, <3>2
    <2>7. Follows(u, ns, k, l)
      BY <1>1, <1>5, <2>1, <2>2, <2>3, <2>4, <2>6 DEF Follows
    <2> QED BY <2>7
  <1>7. ASSUME NEW k, NEW l, Follows(u, ns, k, l) PROVE Separated(R)
    <2>1. /\ k \in 1 .. Len(u) /\ l \in 1 .. Len(u) /\ k < l
          /\ u[k].char = "semi" /\ Kind(ns[k - 1], ns[k]) = "plain" /\ u[l].char \notin Blank
      BY <1>7 DEF Follows
    <2> DEFINE i == u[k].at
               j == u[l].at
    <2>3. /\ i \in 1 .. n /\ u[k].char = text[i] /\ kinds[R][i] = Kind(ns[k - 1], ns[k])
          /\ j \in 1 .. n /\ u[l].char = text[j] /\ kinds[R][j] \notin {"comment", "dash"}
      BY <1>5, <2>1 DEF Blank
    <2>4. i < j
      BY <1>2, <2>1, <2>3
    <2> HIDE DEF i, j
    <2> QED BY <1>1, <2>1, <2>3, <2>4 DEF Separated
  <1> QED BY <1>6, <1>7

\* A separator that a database sees is seen.
LEMMA SeparatorFound ==
  ASSUME TextInv, SameComments, NEW R \in Reader \ nested, KnowsQuotes(R), PlainNames(R), Unescaped(R),
         Separated(R), Databases[R].dollar \/ CommentsApart
  PROVE  IsMultiStatement(text)
PROOF
  <1> DEFINE s == Bytes(text)
             u == stripComments(s)
  <1>1. PICK D : IsText(D, s)
    BY TextIs
  <1>2. PICK ms : IsRun(R, s, ms)
    BY <1>1, RunIs
  <1>3. IsMultiStatement(text) <=> \E d \in BOOLEAN : hasStatementSeparator(blankLiterals(u, d))
    BY DEF IsMultiStatement
  <1> HIDE DEF s
  <1>4. s \in Seq(D) /\ Gap \in D /\ Numbered(s) /\ Run(R, s, ms)
    BY <1>1, <1>2 DEF IsText, IsRun
  <1>5. \A k \in 1 .. Len(s) : s[k].char = text[k] /\ text[k] \in ToSet(text)
    BY <1>1 DEF IsText, ToSet
  <1> HIDE DEF u
  <1>6. ASSUME NEW d \in BOOLEAN, Suits(R, s, ms, d), NEW ns, Copied(R, D, s, ms, Len(s) + 1, u, ns)
        PROVE  hasStatementSeparator(blankLiterals(u, d))
    <2>2. Suits(R, u, ns, d) /\ Uncommented(u, ns)
      BY <1>4, <1>6, CopiedSuits
    <2>3. PICK k, l : Follows(u, ns, k, l)
      BY <1>1, <1>2, <1>6, SeparatorsKept
    <2> QED BY <1>6, <2>2, <2>3, SeparatorLeft DEF Copied
  <1>7. CASE Databases[R].dollar \/ "$" \notin ToSet(text)
    <2>2. Suits(R, s, ms, TRUE) /\ Dashes(s)
      BY <1>1, <1>2, <1>5, <1>7, TextSuits
    <2>3. PICK ns : Copied(R, D, s, ms, Len(s) + 1, u, ns)
      BY <1>4, <2>2, StripCopies DEF u
    <2> QED BY <1>3, <1>6, <2>2, <2>3
  <1>8. CASE ~Databases[R].dollar /\ "$" \in ToSet(text)
    <2>2. \A k \in 1 .. Len(s) : s[k].char \notin {"--", "/*", "#"}
      BY <1>5, <1>8 DEF CommentsApart, SameComments
    <2>4. Suits(R, s, ms, FALSE)
      BY <1>1, <1>2, <1>8, TextSuits
    <2>6. Uncommented(s, ms)
      BY <1>4, <2>2, NoComments
    <2>7. Copied(R, D, s, ms, Len(s) + 1, u, ms)
      BY <1>4, <2>2, <2>6, Unchanged, CopiedWhole DEF u
    <2> QED BY <1>3, <1>6, <2>4, <2>7
  <1> QED BY <1>7, <1>8

\* In a text without "$", "\" and backticks SQLite sees every separator.
LEMMA SeparatorProper ==
  ASSUME TextInv, SameComments, {"$", "\\", "bt"} \cap ToSet(text) = {}, IsMultiStatement(text)
  PROVE  LET R == "sqlite"
         IN  /\ R \in Reader \ nested /\ KnowsQuotes(R) /\ PlainNames(R) /\ Unescaped(R)
             /\ Separated(R) /\ CommentsApart
PROOF
  <1> DEFINE R == "sqlite"
             s == Bytes(text)
             u == stripComments(s)
  <1>0. R \in Reader /\ R \notin nested /\ Databases[R].escapes = {} /\ "bt" \in Databases[R].names
    BY SQLiteReads DEF Databases
  <1>1. PICK D : IsText(D, s)
    BY TextIs
  <1> HIDE DEF R
  <1>2. PICK ms : IsRun(R, s, ms)
    BY <1>0, <1>1, RunIs
  <1>3. PICK d \in BOOLEAN : hasStatementSeparator(blankLiterals(u, d))
    BY DEF IsMultiStatement
  <1> HIDE DEF s
  <1>4. s \in Seq(D) /\ Gap \in D /\ Numbered(s) /\ Run(R, s, ms) /\ DOMAIN text = 1 .. Len(s)
    BY <1>1, <1>2 DEF IsText, IsRun
  <1>5. ASSUME NEW k \in 1 .. Len(s)
        PROVE  s[k].char = text[k] /\ text[k] \in ToSet(text) /\ s[k].char \notin {"$", "\\", "bt"}
    BY <1>1 DEF IsText, ToSet
  <1> HIDE DEF u
  <1>6. KnowsQuotes(R) /\ Unescaped(R) /\ CommentsApart
    BY <1>0 DEF KnowsQuotes, Unescaped, CommentsApart
  <1>7. PlainNames(R)
    <2> SUFFICES ASSUME NEW i \in 1 .. Len(s), kinds[R][i] = "backticked" PROVE FALSE
      BY <1>4 DEF PlainNames
    <2>2. i \in 0 .. Len(s)
      OBVIOUS
    <2>3. Shaped(ms[i])
      BY <1>0, <1>4, <2>2, RunShaped
    <2>4. ms[i].in = "name" /\ ms[i].quote = "bt"
      <3> DEFINE x == ms[i]
                 m == ms[i - 1]
      <3>1. Kind(m, x) = "backticked" /\ Shaped(x)
        BY <1>2, <2>3 DEF IsRun
      <3> HIDE DEF x, m
      <3>3. x.in = "name" /\ x.quote = "bt"
        BY <3>1 DEF Shaped, InComments, Kind
      <3> QED BY <3>3 DEF x
    <2>6. Unticked(ms[i])
      BY <1>0, <1>4, <1>5, <2>2, RunUnticked
    <2> QED BY <2>6, <2>4 DEF Unticked
  <1>8. Suits(R, s, ms, TRUE) /\ Dashes(s)
    BY <1>0, <1>1, <1>2, <1>5, <1>6, <1>7, TextSuits
  <1>9. Suits(R, s, ms, d)
    BY <1>5, <1>8 DEF Suits
  <1>10. PICK ns : Copied(R, D, s, ms, Len(s) + 1, u, ns)
    BY <1>0, <1>4, <1>8, StripCopies DEF u
  <1>12. Suits(R, u, ns, d) /\ Uncommented(u, ns)
    BY <1>0, <1>4, <1>9, <1>10, CopiedSuits
  <1>13. ASSUME NEW k \in 1 .. Len(u) PROVE u[k].char \notin {"bt", "$"}
    <2>1. LeftAt(s, ms, u, ns, k)
      BY <1>0, <1>4, <1>10, CopiedAt
    <2>2. CASE u[k] = Gap
      BY <2>2 DEF Gap
    <2>3. CASE u[k] # Gap
      BY <1>5, <2>1, <2>3 DEF LeftAt
    <2> QED BY <2>2, <2>3
  <1>14. PICK k, l : Follows(u, ns, k, l)
    BY <1>0, <1>3, <1>10, <1>12, <1>13, SeparatorReal DEF Copied
  <1> QED BY <1>0, <1>1, <1>2, <1>6, <1>7, <1>10, <1>14, SeparatorsKept DEF R

\* For every alphabet and every length: whatever statement separator is seen by a
\* database that found no comment in a comment is seen by IsMultiStatement, and
\* without a "$", a "\" and a backtick it sees no other (redact.go: IsMultiStatement, blankLiterals,
\* hasStatementSeparator, stripComments).
THEOREM SeparatorSeenHolds == Spec => []SeparatorSeen
PROOF
  <1>1. ASSUME TextInv PROVE SeparatorSeen
    <2> DEFINE sees == {R \in Reader :
                          /\ R \notin nested
                          /\ KnowsQuotes(R) /\ PlainNames(R) /\ Unescaped(R) /\ Separated(R)
                          /\ Databases[R].dollar \/ CommentsApart}
    <2>1. ASSUME SameComments
          PROVE  /\ sees # {} => IsMultiStatement(text)
                 /\ {"$", "\\", "bt"} \cap ToSet(text) = {} /\ sees = {} => ~IsMultiStatement(text)
      <3>1. ASSUME NEW R \in sees PROVE IsMultiStatement(text)
        BY <1>1, <2>1, SeparatorFound
      <3>2. ASSUME {"$", "\\", "bt"} \cap ToSet(text) = {}, IsMultiStatement(text) PROVE "sqlite" \in sees
        BY <1>1, <2>1, <3>2, SeparatorProper
      <3> HIDE DEF sees
      <3> QED BY <3>1, <3>2
    <2> QED BY <2>1 DEF SeparatorSeen
  <1> QED BY <1>1, TextRead, PTL
-----------------------------------------------------------------------------
(* What Redact leaves of the text.                                         *)

Dec == isDigit \cup {"."}
Hex == isDigit \cup {"a", "e"}

LEMMA EndOfIs ==
  ASSUME NEW C, NEW s \in Seq(C), NEW i \in 1 .. Len(s) + 1, NEW A
  PROVE  LET e == EndOf(s, i, A)
         IN  /\ e \in i .. Len(s) + 1
             /\ e <= Len(s) => s[e].char \notin A
             /\ \A k \in i .. e - 1 : s[k].char \in A
PROOF
  <1> DEFINE n == Len(s)
             S == {j \in i .. n : s[j].char \notin A}
             e == EndOf(s, i, A)
  <1>1. n \in Nat /\ i \in Nat /\ i <= n + 1
    OBVIOUS
  <1>2. e = First1(S, n)
    BY DEF EndOf, FirstFrom, First1
  <1>3. S \subseteq i .. n
    OBVIOUS
  <1>4. /\ e \in Nat /\ i <= e /\ e <= n + 1
        /\ e <= n => e \in S
        /\ \A y \in S : e <= y
    <2> HIDE DEF S, e, n
    <2> QED BY <1>1, <1>2, <1>3, FirstIn
  <1>5. \A k \in i .. e - 1 : s[k].char \in A
    <2> SUFFICES ASSUME NEW k \in i .. e - 1, s[k].char \notin A PROVE FALSE
      OBVIOUS
    <2>1. k \in i .. n /\ k < e
      <3> HIDE DEF n, e, S
      <3> QED BY <1>1, <1>4
    <2>2. k \in S
      BY <2>1
    <2> HIDE DEF S, e, n
    <2> QED BY <1>4, <2>1, <2>2
  <1>6. e <= n => s[e].char \notin A
    BY <1>4
  <1> HIDE DEF e, n, S
  <1> QED BY <1>1, <1>4, <1>5, <1>6 DEF e, n

\* What scanNumber goes by: a radix prefix, where the mantissa ends, where the
\* digits of an exponent would begin, and whether they do.
Radix(s, i) == /\ s[i].char = "0" /\ i < Len(s) /\ s[i + 1].char = "x"
               /\ EndOf(s, i + 2, Hex) > i + 2
ExponentAt(s, m) == IF m + 1 <= Len(s) /\ s[m + 1].char \in {"+", "-"} THEN m + 2 ELSE m + 1
HasExponent(s, m) ==
    /\ m <= Len(s) /\ s[m].char = "e"
    /\ ExponentAt(s, m) <= Len(s) /\ s[ExponentAt(s, m)].char \in isDigit

LEMMA NumberScanned ==
  ASSUME NEW C, NEW s \in Seq(C), NEW i \in 1 .. Len(s), NEW m, m = EndOf(s, i, Dec)
  PROVE  /\ Radix(s, i) => scanNumber(s, i) = EndOf(s, i + 2, Hex)
         /\ ~Radix(s, i) /\ HasExponent(s, m) => scanNumber(s, i) = EndOf(s, ExponentAt(s, m), isDigit)
         /\ ~Radix(s, i) /\ ~HasExponent(s, m) => scanNumber(s, i) = m
PROOF
  <1> DEFINE n == Len(s)
             CharAt(j) == IF j <= n THEN s[j].char ELSE "end"
             g == IF CharAt(m + 1) \in {"+", "-"} THEN m + 2 ELSE m + 1
             r == scanRadixNumber(s, i)
  <1>1. r.ok = Radix(s, i) /\ r.hi = EndOf(s, i + 2, Hex)
    BY DEF scanRadixNumber, Radix, Hex
  <1>2. scanNumber(s, i) = IF r.ok THEN r.hi
                           ELSE IF CharAt(m) = "e" /\ CharAt(g) \in isDigit THEN EndOf(s, g, isDigit)
                           ELSE m
    BY DEF scanNumber, Dec
  <1>3. g = ExponentAt(s, m)
    BY DEF ExponentAt
  <1> HIDE DEF g, r
  <1>4. (CharAt(m) = "e" /\ CharAt(g) \in isDigit) <=> HasExponent(s, m)
    BY <1>3 DEF HasExponent, isDigit
  <1> HIDE DEF CharAt
  <1> QED BY <1>1, <1>2, <1>3, <1>4

LEMMA NumberAdvances ==
  ASSUME NEW C, NEW s \in Seq(C), NEW i \in 1 .. Len(s), s[i].char \in isDigit
  PROVE  scanNumber(s, i) \in i + 1 .. Len(s) + 1
PROOF
  <1> DEFINE n == Len(s)
             m == EndOf(s, i, Dec)
             g == ExponentAt(s, m)
  <1>1. n \in Nat /\ i \in Nat /\ i >= 1 /\ i <= n /\ i \in 1 .. n + 1
    OBVIOUS
  <1>2. m \in i .. n + 1 /\ (m <= n => s[m].char \notin Dec)
    BY <1>1, EndOfIs
  <1>3. m \in i + 1 .. n + 1
    <2>1. s[i].char \in Dec
      BY DEF Dec
    <2> HIDE DEF m, n
    <2> QED BY <1>1, <1>2, <2>1
  <1>4. CASE Radix(s, i)
    <2>1. i + 2 \in 1 .. n + 1 /\ EndOf(s, i + 2, Hex) > i + 2
      BY <1>1, <1>4 DEF Radix
    <2>3. scanNumber(s, i) = EndOf(s, i + 2, Hex)
      BY <1>4, NumberScanned
    <2> DEFINE e == EndOf(s, i + 2, Hex)
    <2> HIDE DEF e, n
    <2> QED BY <1>1, <2>1, <2>3, EndOfIs DEF e, n
  <1>5. CASE ~Radix(s, i) /\ HasExponent(s, m)
    <2>1. g \in {m + 1, m + 2} /\ g <= n
      BY <1>5 DEF ExponentAt, HasExponent
    <2>2. scanNumber(s, i) = EndOf(s, g, isDigit)
      BY <1>5, NumberScanned
    <2> HIDE DEF g, m, n
    <2>3. g \in 1 .. n + 1 /\ g > i
      BY <1>1, <1>3, <2>1
    <2> DEFINE e == EndOf(s, g, isDigit)
    <2> HIDE DEF e
    <2>5. e \in i + 1 .. n + 1
      BY <1>1, <2>3, EndOfIs DEF n, e
    <2> QED BY <2>2, <2>5 DEF e, n
  <1>6. CASE ~Radix(s, i) /\ ~HasExponent(s, m)
    BY <1>3, <1>6, NumberScanned
  <1> QED BY <1>4, <1>5, <1>6

\* At j is the sign of an exponent.
Exponent(s, j) == s[j].char \in {"+", "-"} /\ s[j - 1].char = "e" /\ s[j - 2].char \in Dec

\* A number that begins before a, where a word begins, ends before a.
LEMMA NumberBefore ==
  ASSUME NEW C, NEW s \in Seq(C), NEW i \in 1 .. Len(s), s[i].char \in isDigit,
         NEW a \in 1 .. Len(s), i < a, s[a - 1].char \notin WordByte, s[a].char # "x",
         ~(a > 3 /\ Exponent(s, a - 1))
  PROVE  scanNumber(s, i) <= a
PROOF
  <1> DEFINE n == Len(s)
             m == EndOf(s, i, Dec)
             g == ExponentAt(s, m)
  <1>1. n \in Nat /\ i \in Nat /\ i >= 1 /\ i <= n /\ i \in 1 .. n + 1 /\ a \in Nat /\ a <= n /\ i <= a - 1
    OBVIOUS
  <1>2. /\ Dec \subseteq WordByte /\ Hex \subseteq WordByte /\ isDigit \subseteq WordByte
        /\ isDigit \subseteq Dec /\ "e" \in WordByte /\ "x" \in WordByte /\ "e" \notin Dec
        /\ "+" \notin WordByte
    BY DEF Dec, Hex, WordByte, isIdentByte, Letter, isDigit
  <1>3. /\ m \in i .. n + 1 /\ (m <= n => s[m].char \notin Dec)
        /\ \A k \in i .. m - 1 : s[k].char \in Dec
    BY <1>1, EndOfIs
  <1> HIDE DEF m, n
  <1>4. m <= a - 1 /\ m > i /\ m \in Nat
    <2>2. ~(m > a - 1)
      <3> SUFFICES ASSUME m > a - 1 PROVE FALSE
        OBVIOUS
      <3> QED BY <1>1, <1>2, <1>3
    <2> QED BY <1>1, <1>2, <1>3, <2>2
  <1>5. CASE Radix(s, i)
    <2> DEFINE e == EndOf(s, i + 2, Hex)
    <2>1. i < n /\ s[i + 1].char = "x"
      BY <1>5 DEF Radix, n
    <2>2. i + 2 <= a - 1
      <3>2. i + 1 # a
        BY <1>1, <2>1
      <3> QED BY <1>1, <1>2, <2>1, <3>2
    <2>4. e \in i + 2 .. n + 1 /\ \A k \in i + 2 .. e - 1 : s[k].char \in Hex
      BY <1>1, <2>1, EndOfIs DEF n
    <2>5. scanNumber(s, i) = e
      BY <1>5, NumberScanned DEF m
    <2> HIDE DEF e
    <2>6. ~(e > a - 1)
      <3> SUFFICES ASSUME e > a - 1 PROVE FALSE
        OBVIOUS
      <3> QED BY <1>1, <1>2, <2>2, <2>4
    <2> QED BY <1>1, <2>4, <2>5, <2>6
  <1>6. CASE ~Radix(s, i) /\ HasExponent(s, m)
    <2> DEFINE e == EndOf(s, g, isDigit)
    <2>1. s[m].char = "e" /\ g <= n
      BY <1>6 DEF HasExponent, n
    <2>2. g = m + 1 \/ (g = m + 2 /\ s[m + 1].char \in {"+", "-"})
      BY DEF ExponentAt
    <2> HIDE DEF g
    <2>3. m <= a - 2
      BY <1>1, <1>2, <1>4, <2>1
    <2>4. g <= a - 1 /\ g \in Nat /\ g > i
      <3>1. g # a
        <4> SUFFICES ASSUME g = a PROVE FALSE
          OBVIOUS
        <4>1. m = a - 2 /\ g = m + 2 /\ m + 1 = a - 1
          BY <1>1, <1>4, <2>2, <2>3
        <4>2. a - 3 \in i .. m - 1 /\ (a - 1) - 1 = a - 2 /\ (a - 1) - 2 = a - 3 /\ a > 3
          BY <1>1, <1>4, <4>1
        <4>4. s[a - 1].char \in {"+", "-"} /\ s[a - 2].char = "e"
          BY <1>1, <2>1, <2>2, <4>1
        <4> QED BY <1>3, <4>2, <4>4 DEF Exponent
      <3> QED BY <1>1, <1>4, <2>2, <2>3, <3>1
    <2>6. e \in g .. n + 1 /\ \A k \in g .. e - 1 : s[k].char \in isDigit
      BY <1>1, <2>1, <2>4, EndOfIs DEF n
    <2>7. scanNumber(s, i) = e
      BY <1>6, NumberScanned DEF m, g
    <2> HIDE DEF e
    <2>8. ~(e > a - 1)
      <3> SUFFICES ASSUME e > a - 1 PROVE FALSE
        OBVIOUS
      <3> QED BY <1>1, <1>2, <2>4, <2>6
    <2> QED BY <1>1, <2>4, <2>6, <2>7, <2>8
  <1>7. CASE ~Radix(s, i) /\ ~HasExponent(s, m)
    BY <1>1, <1>4, <1>7, NumberScanned DEF m
  <1> QED BY <1>5, <1>6, <1>7

LEMMA EndPast ==
  ASSUME NEW C, NEW s \in Seq(C), NEW i \in 1 .. Len(s) + 1, NEW A, NEW b \in Nat, b <= Len(s),
         \A k \in i .. b : s[k].char \in A
  PROVE  EndOf(s, i, A) > b
PROOF
  <1> DEFINE e == EndOf(s, i, A)
             n == Len(s)
  <1>1. e \in i .. n + 1 /\ (e <= n => s[e].char \notin A)
    BY EndOfIs
  <1>2. n \in Nat /\ i \in Nat
    OBVIOUS
  <1> HIDE DEF e, n
  <1> SUFFICES ASSUME e <= b PROVE FALSE
    BY <1>1, <1>2 DEF e
  <1> QED BY <1>1, <1>2 DEF n

\* The bytes from a to b are a number (TextReadings: Number).
Numeral(s, a, b) ==
    \/ \A k \in a .. b : s[k].char \in Dec
    \/ /\ s[a].char = "0" /\ s[a + 1].char = "x" /\ a + 2 <= b
       /\ \A k \in a + 2 .. b : s[k].char \in Hex
    \/ \E m \in a + 1 .. b - 1 :
         /\ \A k \in a .. m - 1 : s[k].char \in Dec
         /\ s[m].char = "e"
         /\ \/ \A k \in m + 1 .. b : s[k].char \in isDigit
            \/ s[m + 1].char \in {"+", "-"} /\ m + 2 <= b /\ \A k \in m + 2 .. b : s[k].char \in isDigit

LEMMA NumberPast ==
  ASSUME NEW C, NEW s \in Seq(C), NEW a \in 1 .. Len(s), NEW b \in a .. Len(s), s[a].char \in isDigit,
         Numeral(s, a, b)
  PROVE  scanNumber(s, a) > b
PROOF
  <1> DEFINE n == Len(s)
             m == EndOf(s, a, Dec)
             g == ExponentAt(s, m)
  <1>1. n \in Nat /\ a \in Nat /\ a >= 1 /\ a <= n /\ a \in 1 .. n + 1 /\ b \in Nat /\ a <= b /\ b <= n
    OBVIOUS
  <1>2. "e" \notin Dec /\ "x" \notin Dec /\ isDigit \cap {"+", "-"} = {}
    BY DEF Dec, isDigit
  <1>3. /\ m \in a .. n + 1 /\ (m <= n => s[m].char \notin Dec)
        /\ \A k \in a .. m - 1 : s[k].char \in Dec
    BY <1>1, EndOfIs
  <1>4. CASE \A k \in a .. b : s[k].char \in Dec
    <2>1. m > b
      BY <1>1, <1>4, EndPast
    <2>2. CASE Radix(s, a)
      <3>1. EndOf(s, a + 2, Hex) > a + 2 /\ a + 1 <= n /\ s[a + 1].char = "x"
        BY <1>1, <2>2 DEF Radix
      <3>2. b = a
        <4> SUFFICES ASSUME b # a PROVE FALSE
          OBVIOUS
        <4> QED BY <1>1, <1>2, <1>4, <3>1
      <3>4. EndOf(s, a + 2, Hex) \in a + 2 .. n + 1
        BY <1>1, <3>1, EndOfIs
      <3> DEFINE e == EndOf(s, a + 2, Hex)
      <3> HIDE DEF e, n
      <3>6. e > b
        BY <1>1, <3>2, <3>4 DEF e
      <3> QED BY <2>2, <3>6, NumberScanned DEF e
    <2>3. CASE ~Radix(s, a) /\ HasExponent(s, m)
      <3>1. g \in {m + 1, m + 2} /\ g <= n
        BY <2>3 DEF ExponentAt, HasExponent
      <3>2. scanNumber(s, a) = EndOf(s, g, isDigit)
        BY <2>3, NumberScanned
      <3> HIDE DEF g, m, n
      <3>3. g \in 1 .. n + 1 /\ g > b
        BY <1>1, <1>3, <2>1, <3>1
      <3> DEFINE e == EndOf(s, g, isDigit)
      <3> HIDE DEF e
      <3>5. e > b
        BY <1>1, <3>3, EndOfIs DEF n, e
      <3> QED BY <3>2, <3>5 DEF e
    <2>4. CASE ~Radix(s, a) /\ ~HasExponent(s, m)
      BY <2>1, <2>4, NumberScanned
    <2> QED BY <2>2, <2>3, <2>4
  <1>5. CASE /\ s[a].char = "0" /\ s[a + 1].char = "x" /\ a + 2 <= b
             /\ \A k \in a + 2 .. b : s[k].char \in Hex
    <2>1. a + 2 \in 1 .. n + 1 /\ a < n
      BY <1>1, <1>5
    <2>2. EndOf(s, a + 2, Hex) > b
      BY <1>1, <1>5, <2>1, EndPast
    <2>4. Radix(s, a)
      <3> DEFINE e == EndOf(s, a + 2, Hex)
      <3> HIDE DEF e, n
      <3>1. e > a + 2
        BY <1>1, <1>5, <2>1, <2>2, EndOfIs DEF e
      <3> QED BY <1>5, <2>1, <3>1 DEF Radix, e, n
    <2> QED BY <2>2, <2>4, NumberScanned
  <1>6. ASSUME NEW x \in a + 1 .. b - 1,
               \A k \in a .. x - 1 : s[k].char \in Dec,
               s[x].char = "e",
               \/ \A k \in x + 1 .. b : s[k].char \in isDigit
               \/ s[x + 1].char \in {"+", "-"} /\ x + 2 <= b /\ \A k \in x + 2 .. b : s[k].char \in isDigit
        PROVE  scanNumber(s, a) > b
    <2>0. x \in Nat /\ a < x /\ x < b /\ x <= n
      BY <1>1
    <2>1. m = x
      <3>1. ~(m < x)
        <4> SUFFICES ASSUME m < x PROVE FALSE
          OBVIOUS
        <4> HIDE DEF m, n
        <4> QED BY <1>1, <1>3, <1>6, <2>0
      <3>2. ~(x < m)
        <4> SUFFICES ASSUME x < m PROVE FALSE
          OBVIOUS
        <4> HIDE DEF m, n
        <4> QED BY <1>1, <1>2, <1>3, <1>6, <2>0
      <3> HIDE DEF m, n
      <3> QED BY <1>1, <1>3, <2>0, <3>1, <3>2
    <2>2. ~Radix(s, a)
      <3>1. CASE a + 1 = x
        BY <1>6, <3>1 DEF Radix
      <3>2. CASE a + 1 # x
        BY <1>1, <1>2, <1>6, <2>0, <3>2 DEF Radix
      <3> QED BY <3>1, <3>2
    <2> HIDE DEF m
    <2>3. /\ g \in Nat /\ g <= b /\ g >= 1
          /\ \A k \in g .. b : s[k].char \in isDigit
      <3>1. CASE \A k \in x + 1 .. b : s[k].char \in isDigit
        <4>1. x + 1 \in x + 1 .. b /\ x + 1 <= n
          BY <1>1, <2>0
        <4> QED BY <1>2, <2>0, <2>1, <3>1, <4>1 DEF ExponentAt
      <3>2. CASE s[x + 1].char \in {"+", "-"} /\ x + 2 <= b /\ \A k \in x + 2 .. b : s[k].char \in isDigit
        <4>2. g = x + 2
          BY <1>1, <2>0, <2>1, <3>2 DEF ExponentAt
        <4> QED BY <2>0, <3>2, <4>2
      <3> QED BY <1>6, <3>1, <3>2
    <2> HIDE DEF g
    <2>4. g \in 1 .. n + 1 /\ g \in g .. b /\ g <= n
      BY <1>1, <2>3
    <2>6. EndOf(s, g, isDigit) > b
      BY <1>1, <2>3, <2>4, EndPast
    <2> QED BY <1>6, <2>0, <2>1, <2>2, <2>3, <2>4, <2>6, NumberScanned DEF HasExponent, g, m
  <1> QED BY <1>4, <1>5, <1>6 DEF Numeral

\* What Redacted has before a byte, and what it writes from i on when prev is before.
Before(s) == ToSet(Chars(s)) \cup {"?", "start"}
RedactedTo(f, s, spans, i, prev) ==
    IF i > Len(s) THEN << >>
    ELSE IF Inside(spans.redact, i) # {}
    THEN Write("?") \o f[(CHOOSE p \in Inside(spans.redact, i) : TRUE).hi]["?"]
    ELSE IF /\ s[i].char \in isDigit
            /\ Inside(spans.keep, i) = {}
            /\ prev \notin suppressesNumber
    THEN Write("?") \o f[scanNumber(s, i)]["?"]
    ELSE <<s[i]>> \o f[i + 1][s[i].char]

RedactedFrom(f, s, spans) ==
    f = [i \in 1 .. Len(s) + 1 |-> [prev \in Before(s) |-> RedactedTo(f, s, spans, i, prev)]]

\* No span ends before the text begins or behind its end.
EndsIn(s, spans) == \A p \in spans.redact : p.hi \in 1 .. Len(s) + 1

LEMMA SpanAhead ==
  ASSUME NEW s, NEW spans, EndsIn(s, spans), NEW i \in 1 .. Len(s), Inside(spans.redact, i) # {},
         Len(s) \in Nat, NEW h, h = (CHOOSE p \in Inside(spans.redact, i) : TRUE).hi
  PROVE  h \in i + 1 .. Len(s) + 1 /\ \E p \in Inside(spans.redact, i) : h = p.hi
PROOF
  <1>1. PICK p \in Inside(spans.redact, i) : h = p.hi
    OBVIOUS
  <1>3. h \in 1 .. Len(s) + 1 /\ i < h
    BY <1>1 DEF Inside, EndsIn
  <1>4. h \in i + 1 .. Len(s) + 1
    BY <1>3
  <1> QED BY <1>1, <1>4

LEMMA RedactedSame ==
  ASSUME NEW C, NEW s \in Seq(C), NEW spans, EndsIn(s, spans), NEW i \in 1 .. Len(s) + 1, NEW prev,
         NEW f, NEW g, \A j \in i + 1 .. Len(s) + 1 : f[j] = g[j]
  PROVE  RedactedTo(f, s, spans, i, prev) = RedactedTo(g, s, spans, i, prev)
PROOF
  <1>1. CASE i > Len(s)
    BY <1>1 DEF RedactedTo
  <1>2. CASE ~(i > Len(s)) /\ Inside(spans.redact, i) # {}
    <2> DEFINE h == (CHOOSE p \in Inside(spans.redact, i) : TRUE).hi
    <2>1. i \in 1 .. Len(s) /\ Len(s) \in Nat
      BY <1>2
    <2>2. h \in i + 1 .. Len(s) + 1
      BY <1>2, <2>1, SpanAhead
    <2>4. \A z : RedactedTo(z, s, spans, i, prev) = Write("?") \o z[h]["?"]
      BY <1>2 DEF RedactedTo
    <2> HIDE DEF h
    <2> QED BY <2>2, <2>4
  <1>3. CASE /\ ~(i > Len(s)) /\ ~(Inside(spans.redact, i) # {})
             /\ s[i].char \in isDigit /\ Inside(spans.keep, i) = {} /\ prev \notin suppressesNumber
    <2> DEFINE h == scanNumber(s, i)
    <2>2. h \in i + 1 .. Len(s) + 1
      BY <1>3, NumberAdvances
    <2>4. \A z : RedactedTo(z, s, spans, i, prev) = Write("?") \o z[h]["?"]
      BY <1>3 DEF RedactedTo
    <2> HIDE DEF h
    <2> QED BY <2>2, <2>4
  <1>4. CASE /\ ~(i > Len(s)) /\ ~(Inside(spans.redact, i) # {})
             /\ ~(s[i].char \in isDigit /\ Inside(spans.keep, i) = {} /\ prev \notin suppressesNumber)
    <2>1. i + 1 \in i + 1 .. Len(s) + 1
      BY <1>4
    <2>2. f[i + 1] = g[i + 1]
      BY <2>1
    <2> QED BY <1>4, <2>2 DEF RedactedTo
  <1> QED BY <1>1, <1>2, <1>3, <1>4

LEMMA RedactedExists ==
  ASSUME NEW C, NEW s \in Seq(C), NEW spans, EndsIn(s, spans)
  PROVE  \E f : RedactedFrom(f, s, spans) /\ Redacted(s, spans) = f[1]["start"]
PROOF
  <1> DEFINE b == Len(s) + 1
             Row(g, j) == [prev \in Before(s) |-> RedactedTo(g, s, spans, j, prev)]
             Next1(g) == [j \in 1 .. b |-> Row(g, j)]
             Right(g, n) == \A j \in 1 .. b : j + n >= b => g[j] = Row(g, j)
             T == {n \in Nat : \E g : Right(g, n)}
  <1>0. b \in Nat
    OBVIOUS
  <1>1. ASSUME NEW f, NEW g, NEW j \in 1 .. b, \A k \in j + 1 .. b : f[k] = g[k]
        PROVE  Row(f, j) = Row(g, j)
    BY <1>1, RedactedSame
  <1> HIDE DEF Row, b
  <1>2. \A g : \A j \in 1 .. b : Next1(g)[j] = Row(g, j)
    OBVIOUS
  <1>3. 0 \in T
    <2> DEFINE e == [j \in 1 .. b |-> << >>]
               g == Next1(e)
    <2>1. ASSUME NEW j \in 1 .. b, j + 0 >= b PROVE g[j] = Row(g, j)
      <3> HIDE DEF e
      <3>2. g[j] = Row(e, j)
        BY <1>2
      <3> HIDE DEF g
      <3>3. Row(e, j) = Row(g, j)
        BY <1>0, <1>1, <2>1
      <3> QED BY <3>2, <3>3
    <2> HIDE DEF g
    <2> QED BY <2>1
  <1>4. ASSUME NEW n \in Nat, n \in T PROVE n + 1 \in T
    <2>1. PICK g : Right(g, n)
      BY <1>4
    <2> DEFINE h == Next1(g)
    <2>2. ASSUME NEW j \in 1 .. b, j + (n + 1) >= b PROVE h[j] = Row(h, j)
      <3>1. ASSUME NEW k \in j + 1 .. b PROVE g[k] = h[k]
        <4>1. k \in 1 .. b /\ k + n >= b
          BY <1>0, <2>2
        <4>3. h[k] = Row(g, k)
          BY <1>2, <4>1
        <4> QED BY <2>1, <4>1, <4>3
      <3>2. h[j] = Row(g, j)
        BY <1>2
      <3> HIDE DEF h
      <3>3. Row(g, j) = Row(h, j)
        BY <1>1, <3>1
      <3> QED BY <3>2, <3>3
    <2> HIDE DEF h
    <2> QED BY <2>2
  <1> HIDE DEF T
  <1>6. PICK g : Right(g, b)
    BY <1>0, <1>3, <1>4, Induct DEF T
  <1> DEFINE h == Next1(g)
  <1>7. ASSUME NEW j \in 1 .. b PROVE h[j] = Row(h, j)
    <2>1. \A k \in 1 .. b : g[k] = h[k]
      <3> TAKE k \in 1 .. b
      <3>2. g[k] = Row(g, k)
        BY <1>0, <1>6
      <3> QED BY <1>2, <3>2
    <2>3. h[j] = Row(g, j)
      BY <1>2
    <2> HIDE DEF h
    <2>4. Row(g, j) = Row(h, j)
      BY <1>0, <1>1, <2>1
    <2> QED BY <2>3, <2>4
  <1>8. h = [j \in 1 .. b |-> Row(h, j)]
    <2>1. h = [j \in 1 .. b |-> h[j]]
      OBVIOUS
    <2> HIDE DEF h
    <2> QED BY <1>7, <2>1
  <1> HIDE DEF h
  <1> DEFINE r == CHOOSE f : RedactedFrom(f, s, spans)
  <1>10. RedactedFrom(r, s, spans)
    BY <1>8 DEF RedactedFrom, Row, b
  <1> HIDE DEF r
  <1> QED BY <1>10 DEF Redacted, RedactedFrom, RedactedTo, Before

Mark == [char |-> "?", at |-> 0]

\* The bytes of s outside the spans and outside a .. b, and what Redacted writes itself.
Left(D, s, spans, a, b) ==
    {e \in D : \/ e.at = 0
               \/ \E k \in 1 .. Len(s) : k \notin a .. b /\ e = s[k] /\ Inside(spans.redact, k) = {}}

\* From a to b there is a number for Redacted, a word of its own; or a and b are 0.
Lone(s, spans, a, b) ==
    /\ a \in Nat /\ b \in Nat /\ a <= b /\ (a = 0 => b = 0)
    /\ \A p \in spans.redact : p.hi \notin a + 1 .. b
    /\ a > 0 => s[a].char \in isDigit /\ Inside(spans.keep, a) = {} /\ scanNumber(s, a) > b
    /\ \A i \in 1 .. Len(s) : i < a /\ s[i].char \in isDigit => scanNumber(s, i) <= a
    /\ a > 1 => s[a - 1].char \notin suppressesNumber

LEMMA RedactedLeaves ==
  ASSUME NEW D, NEW s \in Seq(D), Mark \in D, NEW spans, EndsIn(s, spans), NEW a, NEW b, Lone(s, spans, a, b)
  PROVE  Redacted(s, spans) \in Seq(Left(D, s, spans, a, b))
PROOF
  <1> DEFINE n == Len(s)
             X == Left(D, s, spans, a, b)
  <1>1. n \in Nat /\ a \in Nat /\ b \in Nat /\ a <= b /\ (a = 0 => b = 0)
    BY DEF Lone
  <1>2. PICK f : RedactedFrom(f, s, spans) /\ Redacted(s, spans) = f[1]["start"]
    BY RedactedExists
  <1>3. ASSUME NEW i \in 1 .. n + 1, NEW prev \in Before(s) PROVE f[i][prev] = RedactedTo(f, s, spans, i, prev)
    <2> DEFINE Row(j) == [x \in Before(s) |-> RedactedTo(f, s, spans, j, x)]
    <2>1. f = [j \in 1 .. n + 1 |-> Row(j)]
      BY <1>2 DEF RedactedFrom
    <2>2. Row(i)[prev] = RedactedTo(f, s, spans, i, prev)
      OBVIOUS
    <2> HIDE DEF Row
    <2>3. f[i] = Row(i)
      BY <2>1
    <2> QED BY <2>2, <2>3
  <1>4. Write("?") = <<Mark>> /\ Mark \in X
    BY DEF Write, Mark, Left
  <1>5. "?" \in Before(s) /\ "start" \in Before(s) /\ "?" \notin suppressesNumber /\ "start" \notin suppressesNumber
    BY DEF Before, suppressesNumber, Letter, isDigit, Directive
  <1>6. ASSUME NEW i \in 1 .. n PROVE s[i].char \in Before(s)
    BY DEF Chars, Before, ToSet
  <1> HIDE DEF X
  <1>7. ASSUME NEW e \in X, NEW v \in Seq(X) PROVE <<e>> \o v \in Seq(X)
    BY <1>7, Prepended
  <1> DEFINE Fine(i) == \A prev \in Before(s) : (i = a => prev \notin suppressesNumber) => f[i][prev] \in Seq(X)
             T == {d \in Nat : \A i \in 1 .. n + 1 : i + d > n /\ i \notin a + 1 .. b => Fine(i)}
  <1>8. ASSUME NEW i \in 1 .. n, i \notin a + 1 .. b,
               \A h \in i + 1 .. n + 1 : h \notin a + 1 .. b => Fine(h)
        PROVE  Fine(i)
    <2> SUFFICES ASSUME NEW prev \in Before(s), i = a => prev \notin suppressesNumber
                 PROVE  f[i][prev] \in Seq(X)
      OBVIOUS
    <2>1. i \in 1 .. n + 1 /\ ~(i > n) /\ i \in Nat
      BY <1>1
    <2>2. f[i][prev] = RedactedTo(f, s, spans, i, prev)
      BY <1>3, <2>1
    <2>3. CASE Inside(spans.redact, i) # {}
      <3> DEFINE h == (CHOOSE p \in Inside(spans.redact, i) : TRUE).hi
      <3>1. h \in i + 1 .. n + 1 /\ \E p \in Inside(spans.redact, i) : h = p.hi
        BY <1>1, <2>3, SpanAhead
      <3>2. f[i][prev] = Write("?") \o f[h]["?"]
        BY <2>1, <2>2, <2>3 DEF RedactedTo
      <3> HIDE DEF h
      <3>4. f[h]["?"] \in Seq(X)
        BY <1>5, <1>8, <3>1 DEF Inside, Lone
      <3> QED BY <1>4, <1>7, <3>2, <3>4
    <2>4. CASE /\ Inside(spans.redact, i) = {}
               /\ s[i].char \in isDigit /\ Inside(spans.keep, i) = {} /\ prev \notin suppressesNumber
      <3> DEFINE h == scanNumber(s, i)
      <3>1. h \in i + 1 .. n + 1
        BY <2>4, NumberAdvances
      <3>2. f[i][prev] = Write("?") \o f[h]["?"]
        BY <2>1, <2>2, <2>4 DEF RedactedTo
      <3>5. i < a => h <= a
        BY <2>4 DEF Lone
      <3>6. i = a => h > b
        BY <1>1 DEF Lone
      <3> HIDE DEF h
      <3>3. h \notin a + 1 .. b
        BY <1>1, <1>8, <2>1, <3>1, <3>5, <3>6
      <3>4. f[h]["?"] \in Seq(X)
        BY <1>5, <1>8, <3>1, <3>3
      <3> QED BY <1>4, <1>7, <3>2, <3>4
    <2>5. CASE /\ Inside(spans.redact, i) = {}
               /\ ~(s[i].char \in isDigit /\ Inside(spans.keep, i) = {} /\ prev \notin suppressesNumber)
      <3>3. i \notin a .. b
        BY <1>1, <1>8, <2>1, <2>5 DEF Lone
      <3>4. s[i] \in X
        BY <2>5, <3>3 DEF X, Left
      <3>6. i + 1 = a => s[i].char \notin suppressesNumber
        <4> SUFFICES ASSUME i + 1 = a PROVE s[i].char \notin suppressesNumber
          OBVIOUS
        <4> QED BY <2>1 DEF Lone
      <3>7. f[i + 1][s[i].char] \in Seq(X)
        BY <1>1, <1>6, <1>8, <2>1, <3>3, <3>6
      <3> QED BY <1>7, <2>1, <2>2, <2>5, <3>4, <3>7 DEF RedactedTo
    <2> QED BY <2>3, <2>4, <2>5
  <1>9. ASSUME NEW i \in 1 .. n + 1, i > n PROVE Fine(i)
    <2>1. << >> \in Seq(X)
      OBVIOUS
    <2> QED BY <1>3, <1>9, <2>1 DEF RedactedTo
  <1> HIDE DEF Fine, n
  <1>10. 0 \in T
    <2> SUFFICES ASSUME NEW i \in 1 .. n + 1, i + 0 > n PROVE Fine(i)
      OBVIOUS
    <2> QED BY <1>1, <1>9
  <1>11. ASSUME NEW d \in Nat, d \in T PROVE d + 1 \in T
    <2> SUFFICES ASSUME NEW i \in 1 .. n + 1, i + (d + 1) > n, i \notin a + 1 .. b PROVE Fine(i)
      OBVIOUS
    <2>1. CASE i > n
      BY <1>9, <2>1
    <2>2. CASE ~(i > n)
      <3>2. ASSUME NEW h \in i + 1 .. n + 1, h \notin a + 1 .. b PROVE Fine(h)
        BY <1>1, <1>11, <3>2
      <3> QED BY <1>1, <1>8, <2>2, <3>2
    <2> QED BY <2>1, <2>2
  <1> HIDE DEF T
  <1>13. 1 \in 1 .. n + 1 /\ 1 + n > n /\ 1 \notin a + 1 .. b
    BY <1>1
  <1>14. Fine(1)
    BY <1>1, <1>10, <1>11, <1>13, Induct DEF T
  <1> QED BY <1>2, <1>5, <1>14 DEF Fine, X

LEMMA MaxIs ==
  ASSUME NEW lo \in Nat, NEW hi \in Nat, NEW S, S \subseteq lo .. hi, S # {}
  PROVE  Max(S) \in S /\ \A y \in S : y <= Max(S)
PROOF
  <1> DEFINE U == {z \in 0 .. hi : hi - z \in S}
  <1>1. U \subseteq 0 .. hi /\ U # {}
    <2>1. PICK y \in S : TRUE
      OBVIOUS
    <2>2. hi - y \in 0 .. hi /\ hi - (hi - y) = y
      BY <2>1
    <2> QED BY <2>1, <2>2
  <1> DEFINE z == Min(U)
             x == hi - z
  <1>2. z \in U /\ \A y \in U : z <= y
    BY <1>1, MinIs
  <1>3. x \in S /\ z \in Nat
    BY <1>2
  <1>4. ASSUME NEW y \in S PROVE y <= x
    <2>1. hi - y \in 0 .. hi /\ hi - (hi - y) = y /\ y \in Nat
      OBVIOUS
    <2>3. z <= hi - y
      BY <1>2, <2>1
    <2> HIDE DEF z
    <2> QED BY <1>3, <2>1, <2>3
  <1> HIDE DEF x
  <1>5. \E m \in S : \A y \in S : m >= y
    <2>1. \A y \in S : x >= y
      <3> TAKE y \in S
      <3> QED BY <1>3, <1>4
    <2> QED BY <1>3, <2>1
  <1>6. Max(S) \in S /\ \A y \in S : Max(S) >= y
    BY <1>5 DEF Max
  <1>7. ASSUME NEW y \in S PROVE y <= Max(S)
    <2> DEFINE m == Max(S)
    <2>1. m \in S /\ m >= y
      BY <1>6
    <2> HIDE DEF m
    <2>3. y <= m
      BY <2>1
    <2> QED BY <2>3 DEF m
  <1> QED BY <1>6, <1>7

\* The spans are in a text of n bytes.
SpansOf(n, A) == \A p \in A : p.lo \in 1 .. n /\ p.hi \in p.lo + 1 .. n + 1

LEMMA UnionIs ==
  ASSUME NEW n \in Nat, NEW A, NEW B, SpansOf(n, A), SpansOf(n, B), NEW U, U = unionSpans(A, B)
  PROVE  /\ \A p \in U : \E q \in A \cup B : p.hi = q.hi
         /\ \A q \in A \cup B : \A k \in q.lo .. q.hi - 1 : Inside(U, k) # {}
PROOF
  <1>1. ASSUME NEW q \in A \cup B PROVE q.lo \in 1 .. n /\ q.hi \in q.lo + 1 .. n + 1
    BY DEF SpansOf
  <1>2. CASE A = {} \/ B = {}
    <2>1. U = A \cup B
      BY <1>2 DEF unionSpans
    <2>2. ASSUME NEW q \in A \cup B, NEW k \in q.lo .. q.hi - 1 PROVE q \in Inside(U, k)
      BY <1>1, <2>1 DEF Inside
    <2> QED BY <2>1, <2>2
  <1>3. CASE ~(A = {} \/ B = {})
    <2> DEFINE covered == UNION {p.lo .. p.hi - 1 : p \in A \cup B}
               top == Max(covered)
               S(lo) == {i \in lo .. top + 1 : i \notin covered}
               end(lo) == Min(S(lo))
    <2>1. U = {Piece("redact", lo, end(lo)) : lo \in {i \in covered : i - 1 \notin covered}}
      BY <1>3 DEF unionSpans
    <2>2. ASSUME NEW q \in A \cup B, NEW k \in q.lo .. q.hi - 1 PROVE k \in covered
      OBVIOUS
    <2>3. ASSUME NEW k \in covered PROVE \E q \in A \cup B : k \in q.lo .. q.hi - 1
      OBVIOUS
    <2> HIDE DEF covered
    <2>4. covered \subseteq 1 .. n /\ covered # {}
      <3>1. ASSUME NEW k \in covered PROVE k \in 1 .. n
        <4>1. PICK q \in A \cup B : k \in q.lo .. q.hi - 1
          BY <2>3
        <4> QED BY <1>1, <4>1
      <3>2. PICK q \in A \cup B : TRUE
        BY <1>3
      <3>4. q.lo \in q.lo .. q.hi - 1
        BY <1>1
      <3> QED BY <2>2, <3>1, <3>4
    <2>5. top \in covered /\ \A y \in covered : y <= top
      BY <2>4, MaxIs
    <2> HIDE DEF top
    <2>6. top \in 1 .. n
      BY <2>4, <2>5
    <2>7. ASSUME NEW lo \in covered
          PROVE  /\ end(lo) \in Nat /\ lo < end(lo) /\ end(lo) \notin covered
                 /\ \A k \in lo .. end(lo) - 1 : k \in covered
      <3>1. lo \in 1 .. n /\ lo <= top
        BY <2>4, <2>5
      <3>2. top + 1 \notin covered
        <4> SUFFICES ASSUME top + 1 \in covered PROVE FALSE
          OBVIOUS
        <4> QED BY <2>5, <2>6
      <3>3. top + 1 \in S(lo) /\ S(lo) \subseteq lo .. top + 1
        BY <2>6, <3>1, <3>2
      <3>4. end(lo) \in S(lo) /\ \A y \in S(lo) : end(lo) <= y
        <4> HIDE DEF S
        <4> QED BY <2>6, <3>1, <3>3, MinIs
      <3> DEFINE e == end(lo)
      <3> HIDE DEF e
      <3>6. e \in lo .. top + 1 /\ e \notin covered /\ \A y \in S(lo) : e <= y
        BY <3>4 DEF e
      <3>7. ASSUME NEW k \in lo .. e - 1, k \notin covered PROVE FALSE
        <4>1. k \in lo .. top + 1 /\ k < e /\ k \in Nat /\ e \in Nat
          BY <2>6, <3>1, <3>6
        <4>3. e <= k
          BY <3>6, <3>7, <4>1
        <4> QED BY <4>1, <4>3
      <3> QED BY <2>6, <3>1, <3>6, <3>7 DEF e
    <2> HIDE DEF end, S
    <2>8. ASSUME NEW p \in U PROVE \E q \in A \cup B : p.hi = q.hi
      <3>1. PICK lo \in covered : p = Piece("redact", lo, end(lo))
        BY <2>1
      <3> DEFINE h == end(lo)
      <3>2. h \in Nat /\ lo < h /\ h \notin covered /\ \A k \in lo .. h - 1 : k \in covered
        BY <2>7
      <3>3. p.hi = h
        BY <3>1, PieceIs
      <3> HIDE DEF h
      <3>5. PICK q \in A \cup B : h - 1 \in q.lo .. q.hi - 1
        BY <2>3, <2>4, <3>2
      <3>7. h \notin q.lo .. q.hi - 1
        BY <2>2, <3>2
      <3>8. h = q.hi
        <4> DEFINE lq == q.lo
                   hq == q.hi
        <4>1. h - 1 \in lq .. hq - 1 /\ h \notin lq .. hq - 1 /\ lq \in Nat /\ hq \in Nat
          BY <1>1, <3>5, <3>7
        <4> HIDE DEF lq, hq
        <4> QED BY <3>2, <4>1 DEF hq
      <3> QED BY <3>3, <3>8
    <2>9. ASSUME NEW k \in covered PROVE Inside(U, k) # {}
      <3> DEFINE L == {l \in 1 .. k : \A j \in l .. k : j \in covered}
                 lo == Min(L)
      <3>1. k \in 1 .. n /\ k \in Nat
        BY <2>4
      <3>2. k \in L /\ L \subseteq 1 .. k
        BY <3>1
      <3>3. lo \in L /\ \A y \in L : lo <= y
        <4> HIDE DEF L
        <4> QED BY <3>1, <3>2, MinIs
      <3>4. lo \in 1 .. k /\ \A j \in lo .. k : j \in covered
        BY <3>3
      <3> HIDE DEF lo
      <3>5. lo \in covered
        BY <3>1, <3>4
      <3>6. lo - 1 \notin covered
        <4> SUFFICES ASSUME lo - 1 \in covered PROVE FALSE
          OBVIOUS
        <4>1. lo - 1 \in 1 .. k /\ lo \in Nat
          BY <2>4, <3>1, <3>4
        <4>2. ASSUME NEW j \in lo - 1 .. k PROVE j \in covered
          BY <3>1, <3>4, <4>1
        <4>4. lo <= lo - 1
          BY <3>3, <4>1, <4>2
        <4> QED BY <4>1, <4>4
      <3> DEFINE p == Piece("redact", lo, end(lo))
                 h == end(lo)
      <3>7. p \in U
        BY <2>1, <3>5, <3>6
      <3>8. p.lo = lo /\ p.hi = h
        BY PieceIs
      <3>9. h \in Nat /\ h \notin covered /\ lo < h
        BY <2>7, <3>5
      <3> HIDE DEF p, h, L
      <3>10. k < h
        <4> SUFFICES ASSUME ~(k < h) PROVE FALSE
          OBVIOUS
        <4> QED BY <3>1, <3>4, <3>9
      <3>11. lo <= k
        BY <3>4
      <3> QED BY <3>7, <3>8, <3>10, <3>11 DEF Inside
    <2> QED BY <2>2, <2>8, <2>9
  <1> QED BY <1>2, <1>3

\* A run that its quote closes ends behind another one.
LEMMA QuotedEnds ==
  ASSUME NEW C, NEW s \in Seq(C), NEW i \in 1 .. Len(s), NEW backslash,
         NEW run, run = scanQuotedRunClosed(s, i, backslash)
  PROVE  /\ run.hi \in i + 1 .. Len(s) + 1
         /\ run.closed => run.hi - 1 > i /\ s[run.hi - 1].char = s[i].char
         /\ ~run.closed => run.hi = Len(s) + 1
PROOF
  <1> DEFINE n == Len(s)
             c == s[i].char
  <1>1. n \in Nat /\ i \in Nat /\ i >= 1 /\ i <= n
    OBVIOUS
  <1>2. PICK f : QuotedFrom(f, s, i, backslash) /\ scanQuotedRunClosed(s, i, backslash) = f[i + 1]
    BY QuotedRun
  <1> DEFINE Good(j) == /\ f[j].hi \in i + 1 .. n + 1
                        /\ f[j].closed => f[j].hi - 1 > i /\ s[f[j].hi - 1].char = c
                        /\ ~f[j].closed => f[j].hi = n + 1
             T == {d \in Nat : \A j \in i + 1 .. n + 2 : j + d > n => Good(j)}
  <1>3. ASSUME NEW j \in i + 1 .. n + 2
        PROVE  \/ f[j] = [hi |-> n + 1, closed |-> FALSE]
               \/ j <= n /\ f[j] = f[j + 1]
               \/ j <= n /\ f[j] = f[j + 2]
               \/ j <= n /\ s[j].char = c /\ f[j] = [hi |-> j + 1, closed |-> TRUE]
    <2>1. f[j] =
           IF j > n THEN [hi |-> n + 1, closed |-> FALSE]
           ELSE IF backslash /\ s[j].char = "\\" THEN f[j + 2]
           ELSE IF s[j].char # c THEN f[j + 1]
           ELSE IF j < n /\ s[j + 1].char = c THEN f[j + 2]
           ELSE [hi |-> j + 1, closed |-> TRUE]
      BY <1>2 DEF QuotedFrom
    <2>2. j > n \/ j <= n
      BY <1>1
    <2> HIDE DEF n, c
    <2> QED BY <2>1, <2>2
  <1> HIDE DEF n, c
  <1>4. ASSUME NEW j \in i + 1 .. n + 2, f[j] = [hi |-> n + 1, closed |-> FALSE] PROVE Good(j)
    BY <1>1, <1>4
  <1>5. ASSUME NEW j \in i + 1 .. n + 2, j <= n, s[j].char = c, f[j] = [hi |-> j + 1, closed |-> TRUE] PROVE Good(j)
    <2>1. f[j].hi = j + 1 /\ f[j].closed = TRUE
      BY <1>5
    <2>2. (j + 1) - 1 = j /\ j > i /\ j + 1 \in i + 1 .. n + 1
      BY <1>1, <1>5
    <2> QED BY <1>5, <2>1, <2>2
  <1> HIDE DEF Good
  <1>6. 0 \in T
    <2> SUFFICES ASSUME NEW j \in i + 1 .. n + 2, j + 0 > n PROVE Good(j)
      OBVIOUS
    <2>1. ~(j <= n)
      BY <1>1
    <2> QED BY <1>3, <1>4, <2>1
  <1>7. ASSUME NEW d \in Nat, d \in T PROVE d + 1 \in T
    <2> SUFFICES ASSUME NEW j \in i + 1 .. n + 2, j + (d + 1) > n PROVE Good(j)
      OBVIOUS
    <2>1. ASSUME j <= n, f[j] = f[j + 1] PROVE Good(j)
      <3>2. Good(j + 1)
        BY <1>1, <1>7, <2>1
      <3> QED BY <2>1, <3>2 DEF Good
    <2>2. ASSUME j <= n, f[j] = f[j + 2] PROVE Good(j)
      <3>2. Good(j + 2)
        BY <1>1, <1>7, <2>2
      <3> QED BY <2>2, <3>2 DEF Good
    <2> QED BY <1>3, <1>4, <1>5, <2>1, <2>2
  <1> HIDE DEF T
  <1>9. i + 1 \in i + 1 .. n + 2 /\ (i + 1) + n > n
    BY <1>1
  <1>10. Good(i + 1)
    BY <1>1, <1>6, <1>7, <1>9, Induct DEF T
  <1> QED BY <1>2, <1>10 DEF Good, n, c

LEMMA DollarEnds ==
  ASSUME NEW C, NEW s \in Seq(C), NEW i \in 1 .. Len(s), s[i].char = "$", NEW q, q = scanDollarQuoted(s, i), q.ok
  PROVE  q.hi \in i + 1 .. Len(s) + 1 /\ (q.hi = Len(s) + 1 \/ s[q.hi - 1].char = "$")
PROOF
  <1> DEFINE n == Len(s)
             h == q.hi
  <1>1. n \in Nat /\ i \in Nat /\ i >= 1 /\ i <= n
    OBVIOUS
  <1>2. PICK end, cl : DollarScanned(s, i, end, cl)
    BY DollarIs
  <1> DEFINE len == end + 1 - i
  <1>3. end \in i + 1 .. n + 1 /\ end <= n /\ s[end].char = "$"
    BY <1>2 DEF DollarScanned
  <1>4. /\ cl \in end + 1 .. n + 1 /\ (cl <= n => cl + len - 1 <= n /\ Same(s, i, cl, len))
        /\ h = IF cl > n THEN cl ELSE cl + len
    BY <1>2, <1>3 DEF DollarScanned, Occurs
  <1>5. CASE cl > n
    BY <1>1, <1>3, <1>4, <1>5
  <1>6. CASE cl <= n
    <2>1. cl \in Nat /\ end \in Nat /\ len \in Nat /\ len >= 2 /\ i < cl
      BY <1>1, <1>3, <1>4
    <2>2. h = cl + len /\ len - 1 \in 0 .. len - 1 /\ cl + (len - 1) = h - 1 /\ i + (len - 1) = end
      BY <1>1, <1>3, <1>4, <1>6, <2>1
    <2>4. s[h - 1].char = "$"
      BY <1>3, <1>4, <1>6, <2>2 DEF Same
    <2> QED BY <1>1, <1>4, <1>6, <2>1, <2>2, <2>4
  <1> QED BY <1>1, <1>3, <1>4, <1>5, <1>6

\* What a literal can end with.
Closers == {"'", "dq", "$"}

\* What literalSpans takes at i, as far as it ends and begins where literals do.
LEMMA LiteralEnds ==
  ASSUME NEW C, NEW s \in Seq(C), NEW i \in 1 .. Len(s), NEW b \in BOOLEAN, NEW d, NEW p, p = LiteralPiece(s, i, b, d)
  PROVE  /\ p.lo = i /\ p.hi \in i + 1 .. Len(s) + 1 /\ p.kind \in {"redact", "keep", "byte"}
         /\ p.kind = "redact" => p.hi = Len(s) + 1 \/ s[p.hi - 1].char \in Closers
         /\ p.kind = "keep" => s[i].char \in {"dq", "bt"}
PROOF
  <1> DEFINE c == s[i].char
             n == Len(s)
             q == scanDollarQuoted(s, i)
             one == scanQuotedRunClosed(s, i, b)
             dq == DoubleQuoted(s, i, b, d)
             bt == scanQuotedRunClosed(s, i, FALSE)
             name == dq.closed /\ doubleQuotedIsIdent(SubSeq(s, i + 1, dq.hi - 2), d)
             which == IF name THEN "keep" ELSE "redact"
  <1>1. p = CASE c = "'" -> Piece("redact", i, one.hi)
              [] c = "dq" -> Piece(which, i, dq.hi)
              [] c = "bt" -> Piece("keep", i, bt.hi)
              [] c = "$" -> DollarPiece("redact", i, q)
              [] OTHER -> Byte(i)
    BY DEF LiteralPiece, scanQuotedRun
  <1>2. which \in {"keep", "redact"}
    OBVIOUS
  <1>3. n \in Nat /\ i \in Nat /\ i >= 1 /\ i <= n /\ i + 1 \in i + 1 .. n + 1
    OBVIOUS
  <1>4. dq = scanQuotedRunClosed(s, i, b /\ d # "postgres")
    BY DEF DoubleQuoted
  <1> HIDE DEF which, one, dq, bt, q, n
  <1>5. CASE c = "'"
    <2>2. one.hi \in i + 1 .. n + 1 /\ (s[one.hi - 1].char = c \/ one.hi = n + 1)
      BY QuotedEnds DEF one, n
    <2> QED BY <1>1, <1>5, <2>2, PieceIs DEF n, Closers
  <1>6. CASE c = "dq"
    <2>1. p.kind = which /\ p.lo = i /\ p.hi = dq.hi
      BY <1>1, <1>6, PieceIs
    <2>2. dq.hi \in i + 1 .. n + 1 /\ (s[dq.hi - 1].char = c \/ dq.hi = n + 1)
      BY <1>4, QuotedEnds DEF n
    <2> QED BY <1>2, <1>6, <2>1, <2>2 DEF n, Closers
  <1>7. CASE c = "bt"
    <2>2. bt.hi \in i + 1 .. n + 1
      BY QuotedEnds DEF bt, n
    <2> QED BY <1>1, <1>7, <2>2, PieceIs DEF n, Closers
  <1>8. CASE c = "$"
    <2>1. p = DollarPiece("redact", i, q)
      BY <1>1, <1>8
    <2>2. CASE q.ok
      <3>2. q.hi \in i + 1 .. n + 1 /\ (q.hi = n + 1 \/ s[q.hi - 1].char = "$")
        BY <1>8, <2>2, DollarEnds DEF q, n
      <3> QED BY <2>1, <2>2, <3>2, PieceIs DEF DollarPiece, n, Closers
    <2>3. CASE ~q.ok
      BY <1>3, <2>1, <2>3, PieceIs DEF DollarPiece, Byte, n
    <2> QED BY <2>2, <2>3
  <1>9. CASE c \notin {"'", "dq", "bt", "$"}
    <2>2. p.kind = "byte" /\ p.lo = i /\ p.hi = i + 1
      BY <1>1, <1>9, PieceIs DEF Byte
    <2> QED BY <1>3, <2>2 DEF n
  <1> QED BY <1>5, <1>6, <1>7, <1>8, <1>9

LEMMA LiteralSpan ==
  ASSUME NEW C, NEW s \in Seq(C), NEW b \in BOOLEAN, NEW d, NEW kind, NEW p \in Spans(literalSpans(s, b, d), kind)
  PROVE  p.kind = kind /\ p.lo \in 1 .. Len(s) /\ p = LiteralPiece(s, p.lo, b, d)
PROOF
  <1> DEFINE pa == [i \in DOMAIN s |-> LiteralPiece(s, i, b, d)]
             ps == Pieces(s, pa)
  <1>2. ASSUME NEW i \in 1 .. Len(s)
        PROVE  pa[i] = LiteralPiece(s, i, b, d) /\ pa[i].lo = i /\ pa[i].hi \in i + 1 .. Len(s) + 1
    <2>1. pa[i] = LiteralPiece(s, i, b, d)
      OBVIOUS
    <2> HIDE DEF pa
    <2> QED BY <2>1, LiteralEnds
  <1>3. p \in ToSet(ps) /\ p.kind = kind
    BY DEF Spans, literalSpans
  <1> HIDE DEF pa
  <1>5. Chained(ps, s, pa, 1)
    BY <1>2, PiecesChained DEF Advances
  <1> HIDE DEF ps
  <1>6. ps \in Seq({pa[j] : j \in 1 .. Len(s)})
    BY <1>5 DEF Chained
  <1>7. PICK m \in 1 .. Len(ps) : p = ps[m]
    BY <1>3, <1>6, ToSetOf
  <1>8. PICK j \in 1 .. Len(s) : p = pa[j]
    <2> DEFINE all == {pa[j] : j \in 1 .. Len(s)}
    <2>1. ASSUME NEW x \in all PROVE \E j \in 1 .. Len(s) : x = pa[j]
      OBVIOUS
    <2>2. ps \in Seq(all)
      BY <1>6
    <2> HIDE DEF all
    <2>3. p \in all
      BY <1>7, <2>2
    <2> QED BY <2>1, <2>3
  <1> QED BY <1>2, <1>3, <1>8

\* What redactSpans returns: each span ends where the text or a literal ends, and
\* what is a literal in a reading it tries is in one of them.
RedactSpansOf(s, d, spans) ==
    /\ EndsIn(s, spans)
    /\ \A p \in spans.redact : p.hi = Len(s) + 1 \/ s[p.hi - 1].char \in Closers
    /\ \A b \in BOOLEAN : \A p \in Spans(literalSpans(s, b, d), "redact") :
         (b => \E j \in 1 .. Len(s) : s[j].char = "\\") =>
         \A k \in p.lo .. p.hi - 1 : Inside(spans.redact, k) # {}
    /\ spans.keep = Spans(literalSpans(s, FALSE, d), "keep")

LEMMA RedactSpansAre ==
  ASSUME NEW C, NEW s \in Seq(C), NEW d
  PROVE  RedactSpansOf(s, d, redactSpans(s, d))
PROOF
  <1> DEFINE n == Len(s)
             A == Spans(literalSpans(s, FALSE, d), "redact")
             B == Spans(literalSpans(s, TRUE, d), "redact")
             spans == redactSpans(s, d)
             escape == "\\" \in ToSet(Chars(s))
             Ends1(p) == p.hi = n + 1 \/ s[p.hi - 1].char \in Closers
  <1>1. n \in Nat
    OBVIOUS
  <1>2. /\ spans.redact = IF escape THEN unionSpans(A, B) ELSE A
        /\ spans.keep = Spans(literalSpans(s, FALSE, d), "keep")
    BY DEF redactSpans
  <1>3. escape <=> \E j \in 1 .. Len(s) : s[j].char = "\\"
    BY DEF Chars, ToSet
  <1>4. ASSUME NEW b \in BOOLEAN, NEW p \in Spans(literalSpans(s, b, d), "redact")
        PROVE  p.lo \in 1 .. n /\ p.hi \in p.lo + 1 .. n + 1 /\ Ends1(p)
    <2>1. p.kind = "redact" /\ p.lo \in 1 .. n /\ p = LiteralPiece(s, p.lo, b, d)
      BY LiteralSpan
    <2> QED BY <2>1, LiteralEnds
  <1> HIDE DEF n, spans, escape
  <1>5. /\ \A p \in A : p.lo \in 1 .. n /\ p.hi \in p.lo + 1 .. n + 1 /\ Ends1(p)
        /\ \A p \in B : p.lo \in 1 .. n /\ p.hi \in p.lo + 1 .. n + 1 /\ Ends1(p)
    BY <1>4
  <1> HIDE DEF A, B
  <1>6. SpansOf(n, A) /\ SpansOf(n, B)
    BY <1>5 DEF SpansOf
  <1>7. /\ \A p \in unionSpans(A, B) : \E q \in A \cup B : p.hi = q.hi
        /\ \A q \in A \cup B : \A k \in q.lo .. q.hi - 1 : Inside(unionSpans(A, B), k) # {}
    BY <1>1, <1>6, UnionIs
  <1>8. ASSUME NEW p \in spans.redact PROVE \E q \in A \cup B : p.hi = q.hi
    BY <1>2, <1>7
  <1>9. ASSUME NEW p \in spans.redact PROVE p.hi \in 1 .. n + 1 /\ Ends1(p)
    <2>1. PICK q \in A \cup B : p.hi = q.hi
      BY <1>8
    <2> QED BY <1>1, <1>5, <2>1
  <1>10. ASSUME NEW p \in A, NEW k \in p.lo .. p.hi - 1 PROVE Inside(A, k) # {}
    <2>2. p.lo <= k /\ k < p.hi
      <3> DEFINE l == p.lo
                 h == p.hi
      <3>1. l \in Nat /\ h \in Nat /\ k \in l .. h - 1
        BY <1>1, <1>5
      <3> HIDE DEF l, h
      <3> QED BY <3>1 DEF l, h
    <2> QED BY <2>2 DEF Inside
  <1>11. ASSUME NEW b \in BOOLEAN, NEW p \in Spans(literalSpans(s, b, d), "redact"), b => escape,
                NEW k \in p.lo .. p.hi - 1
         PROVE  Inside(spans.redact, k) # {}
    <2>1. p \in A \/ (escape /\ p \in B)
      <3>1. CASE b = FALSE
        BY <3>1 DEF A
      <3>2. CASE b = TRUE
        BY <1>11, <3>2 DEF B
      <3> QED BY <3>1, <3>2
    <2>2. CASE escape
      BY <1>2, <1>7, <2>1, <2>2
    <2>3. CASE ~escape
      BY <1>2, <1>10, <2>1, <2>3
    <2> QED BY <2>2, <2>3
  <1> QED BY <1>2, <1>3, <1>9, <1>11 DEF EndsIn, n, RedactSpansOf, spans

\* A quoted run as R reads it: of a string or of a name, up to where the scanner ends it.
RunOf(R, s, ms, i, h) ==
    /\ h \in i + 1 .. Len(s) + 1 /\ Boundary(R, s, ms, h)
    /\ \E w \in {"string", "name"} :
         /\ w = "string" <=> s[i].char \in Databases[R].strings
         /\ \A k \in i .. h - 1 : OfRun(s, ms, w, s[i].char, k)

LEMMA RunTaken ==
  ASSUME NEW R \in Reader, NEW C, NEW s \in Seq(C), NEW ms, Run(R, s, ms), NEW i \in 1 .. Len(s), Boundary(R, s, ms, i),
         s[i].char \in Quote \cup {"bt"}, s[i].char = "bt" => "bt" \in Databases[R].names,
         NEW backslash \in BOOLEAN,
         \A j \in 1 .. Len(s) : s[j].char = "\\" => (backslash <=> s[i].char \in Databases[R].escapes)
  PROVE  RunOf(R, s, ms, i, scanQuotedRun(s, i, backslash))
PROOF
  <1> DEFINE c == s[i].char
             h == scanQuotedRun(s, i, backslash)
             db == Databases[R]
  <1>1. i \in Nat /\ i <= Len(s) /\ Len(s) \in Nat
    OBVIOUS
  <1>2. ms[i] = Begins(R, c, Prev(s, i))
    BY <1>1 DEF Quote, isIdentByte, isDigit, Letter, Boundary, Dead
  <1>3. /\ db.strings \subseteq Quote /\ db.names \subseteq {"dq", "bt"} /\ db.escapes \subseteq db.strings
        /\ db.strings \cap db.names = {} /\ Quote \subseteq db.strings \cup db.names
    BY DatabaseIs
  <1>4. c \in db.strings \/ (c \in db.names /\ c \notin db.strings)
    BY <1>3
  <1> HIDE DEF db, c
  <1>5. PICK w \in {"string", "name"} :
           ms[i] = InRun(w, c) /\ (w = "string" <=> c \in db.strings) /\ (c \in db.escapes => w = "string")
    <2>1. CASE c \in db.strings
      BY <1>2, <2>1, BeginsQuoted DEF db
    <2>2. CASE c \in db.names /\ c \notin db.strings
      BY <1>2, <1>3, <2>2, BeginsQuoted DEF db
    <2> QED BY <1>4, <2>1, <2>2
  <1>6. /\ h \in Nat /\ i < h /\ h <= Len(s) + 1
        /\ Boundary(R, s, ms, h)
        /\ \A k \in i .. h - 1 : OfRun(s, ms, w, c, k)
    BY <1>5, QuotedFollows DEF c, db
  <1> HIDE DEF h
  <1> QED BY <1>1, <1>5, <1>6 DEF RunOf, c, db, h

\* R reads s as literalSpans does with these flags.
ReadsAs(R, s, ms, backslash, d) ==
    LET db == Databases[R]
        escape == \E j \in 1 .. Len(s) : s[j].char = "\\"
    IN  \A i \in 1 .. Len(s) :
          /\ s[i].char # "#"
          /\ s[i].char = "bt" => "bt" \in db.names
          /\ s[i].char = "$" => db.dollar \/ (ms[i] = Plain => i > 1 /\ s[i - 1].char \in isIdentByte)
          /\ escape /\ s[i].char = "'" => (backslash <=> "'" \in db.escapes)
          /\ escape /\ s[i].char = "dq" => (backslash /\ d # "postgres" <=> "dq" \in db.escapes)

\* The end of the quoted run that literalSpans finds at i.
RunEnd(s, i, backslash, d) ==
    scanQuotedRun(s, i, CASE s[i].char = "'" -> backslash
                          [] s[i].char = "dq" -> backslash /\ d # "postgres"
                          [] OTHER -> FALSE)

LEMMA LiteralRun ==
  ASSUME NEW R \in Reader, NEW C, NEW s \in Seq(C), NEW ms, Run(R, s, ms), NEW i \in 1 .. Len(s), Boundary(R, s, ms, i),
         NEW backslash \in BOOLEAN, NEW d, ReadsAs(R, s, ms, backslash, d),
         s[i].char \in Quote \cup {"bt"}
  PROVE  RunOf(R, s, ms, i, RunEnd(s, i, backslash, d))
PROOF
  <1> DEFINE db == Databases[R]
  <1>1. "bt" \notin db.escapes
    BY DatabaseIs DEF Quote
  <1>2. CASE s[i].char = "'"
    <2>2. \A j \in 1 .. Len(s) : s[j].char = "\\" => (backslash <=> s[i].char \in db.escapes)
      BY <1>2 DEF ReadsAs
    <2> QED BY <1>2, <2>2, RunTaken DEF RunEnd
  <1>3. CASE s[i].char = "dq"
    <2> DEFINE b == backslash /\ d # "postgres"
    <2>1. RunEnd(s, i, backslash, d) = scanQuotedRun(s, i, b)
      BY <1>3 DEF RunEnd
    <2>2. \A j \in 1 .. Len(s) : s[j].char = "\\" => (b <=> s[i].char \in db.escapes)
      BY <1>3 DEF ReadsAs
    <2>3. b \in BOOLEAN /\ s[i].char # "bt"
      BY <1>3
    <2> HIDE DEF b
    <2> QED BY <2>1, <2>2, <2>3, RunTaken
  <1>4. CASE s[i].char = "bt"
    <2>1. RunEnd(s, i, backslash, d) = scanQuotedRun(s, i, FALSE)
      BY <1>4 DEF RunEnd
    <2>2. "bt" \in db.names
      BY <1>4 DEF ReadsAs
    <2> QED BY <1>1, <1>4, <2>1, <2>2, RunTaken
  <1> QED BY <1>2, <1>3, <1>4 DEF Quote

LEMMA LiteralPieceIs ==
  ASSUME NEW C, NEW s \in Seq(C), NEW i \in 1 .. Len(s), NEW b \in BOOLEAN, NEW d, NEW p, p = LiteralPiece(s, i, b, d)
  PROVE  /\ s[i].char \in Quote \cup {"bt"} =>
              p.lo = i /\ p.hi = RunEnd(s, i, b, d) /\ p.kind \in {"redact", "keep"}
         /\ s[i].char = "$" => p = DollarPiece("redact", i, scanDollarQuoted(s, i))
         /\ s[i].char \notin Quote \cup {"bt", "$"} => p = Byte(i)
         /\ p.kind = "keep" /\ s[i].char = "dq" =>
              /\ s[p.hi - 1].char = "dq" /\ p.hi - 1 > i
              /\ doubleQuotedIsIdent(SubSeq(s, i + 1, p.hi - 2), d)
PROOF
  <1> DEFINE c == s[i].char
             q == scanDollarQuoted(s, i)
             one == scanQuotedRun(s, i, b)
             two == b /\ d # "postgres"
             dq == scanQuotedRunClosed(s, i, two)
             bt == scanQuotedRun(s, i, FALSE)
             name == dq.closed /\ doubleQuotedIsIdent(SubSeq(s, i + 1, dq.hi - 2), d)
             which == IF name THEN "keep" ELSE "redact"
  <1>1. p = CASE c = "'" -> Piece("redact", i, one)
              [] c = "dq" -> Piece(which, i, dq.hi)
              [] c = "bt" -> Piece("keep", i, bt)
              [] c = "$" -> DollarPiece("redact", i, q)
              [] OTHER -> Byte(i)
    BY DEF LiteralPiece, DoubleQuoted
  <1>2. which \in {"keep", "redact"} /\ (which = "keep" => name) /\ (which = "redact" => ~name)
    OBVIOUS
  <1>3. /\ c = "'" => RunEnd(s, i, b, d) = one
        /\ c = "dq" => RunEnd(s, i, b, d) = scanQuotedRun(s, i, two)
        /\ c = "bt" => RunEnd(s, i, b, d) = bt
    BY DEF RunEnd
  <1>4. scanQuotedRun(s, i, two) = dq.hi
    BY DEF scanQuotedRun
  <1>5. /\ dq.closed => dq.hi - 1 > i /\ s[dq.hi - 1].char = c
        /\ ~dq.closed => dq.hi = Len(s) + 1
    <2> HIDE DEF two
    <2> QED BY QuotedEnds
  <1> HIDE DEF which, one, bt, q
  <1>7. CASE c = "'"
    <2>1. p.kind = "redact" /\ p.lo = i /\ p.hi = one
      BY <1>1, <1>7, PieceIs
    <2>3. c # "$" /\ c # "dq" /\ c \in Quote
      BY <1>7 DEF Quote
    <2> HIDE DEF c
    <2> QED BY <1>3, <1>7, <2>1, <2>3 DEF c
  <1>8. CASE c = "dq"
    <2> HIDE DEF dq
    <2>1. p.kind = which /\ p.lo = i /\ p.hi = dq.hi
      BY <1>1, <1>8, PieceIs
    <2>2. p.hi = RunEnd(s, i, b, d)
      BY <1>3, <1>4, <1>8, <2>1
    <2>4. c # "$" /\ c \in Quote
      BY <1>8 DEF Quote
    <2>5. which = "keep" \/ which = "redact"
      BY <1>2
    <2> QED BY <1>2, <1>5, <1>8, <2>1, <2>2, <2>4, <2>5
  <1>9. CASE c = "bt"
    BY <1>1, <1>3, <1>9, PieceIs
  <1>10. CASE c = "$"
    BY <1>1, <1>10 DEF Quote, q
  <1>11. CASE c \notin Quote \cup {"bt", "$"}
    <2>1. c \notin {"'", "dq", "bt", "$"}
      BY <1>11 DEF Quote
    <2>2. p = Byte(i)
      BY <1>1, <2>1
    <2> QED BY <1>11, <2>1, <2>2, PieceIs DEF Byte
  <1> QED BY <1>7, <1>8, <1>9, <1>10, <1>11 DEF Quote

LEMMA LiteralTakes ==
  ASSUME NEW R \in Reader, NEW C, NEW s \in Seq(C), NEW ms, Run(R, s, ms), Uncommented(s, ms),
         NEW b \in BOOLEAN, NEW d, ReadsAs(R, s, ms, b, d), NEW i \in 1 .. Len(s), Boundary(R, s, ms, i)
  PROVE  Taken(R, s, ms, TRUE, i, LiteralPiece(s, i, b, d))
PROOF
  <1> DEFINE c == s[i].char
             p == LiteralPiece(s, i, b, d)
  <1>0. i \in Nat /\ i <= Len(s)
    OBVIOUS
  <1>1. /\ c \in Quote \cup {"bt"} => p.lo = i /\ p.hi = RunEnd(s, i, b, d) /\ p.kind \in {"redact", "keep"}
        /\ c = "$" => p = DollarPiece("redact", i, scanDollarQuoted(s, i))
        /\ c \notin Quote \cup {"bt", "$"} => p = Byte(i)
    BY LiteralPieceIs
  <1> HIDE DEF p
  <1>2. CASE c \in Quote \cup {"bt"}
    <2> DEFINE h == RunEnd(s, i, b, d)
    <2>1. RunOf(R, s, ms, i, h)
      BY <1>2, LiteralRun
    <2> HIDE DEF h
    <2>2. h \in i + 1 .. Len(s) + 1 /\ Boundary(R, s, ms, h) /\ \A k \in i .. h - 1 : InLiteral(s, ms, k)
      BY <2>1 DEF RunOf, OfRun
    <2>3. p.lo = i /\ p.hi = h /\ p.kind \in {"redact", "keep"}
      BY <1>1, <1>2 DEF h
    <2>5. h \in Nat /\ i < h /\ h <= Len(s) + 1
      BY <1>0, <2>2
    <2> QED BY <2>2, <2>3, <2>5 DEF LiteralTaken, Taken, Beyond, p
  <1>3. CASE c = "$"
    <2>2. p = DollarPiece("redact", i, scanDollarQuoted(s, i))
      BY <1>1, <1>3
    <2> QED BY <1>3, <2>2, TakesDollar DEF ReadsAs, p
  <1>4. CASE c \in {"--", "/*"}
    <2>2. ms[i] = Begins(R, c, Prev(s, i))
      BY <1>0, <1>4 DEF isIdentByte, isDigit, Letter, Boundary, Dead
    <2>3. ms[i] = In("comment") \/ ms[i] = In("dash") \/ ms[i] = In("block")
      BY <1>4, <2>2, BeginsOther
    <2>4. ms[i].in \in InComments
      BY <2>3, FieldsOf, ZenonT(30) DEF InComments
    <2> QED BY <2>4 DEF Uncommented
  <1>5. CASE c \notin Quote \cup {"$", "--", "/*", "bt"}
    <2>1. p = Byte(i)
      BY <1>1, <1>5
    <2>3. s[i].char \notin Quote \cup {"bt", "--", "#", "/*"} /\ s[i].char # "$"
      BY <1>5 DEF ReadsAs
    <2> QED BY <2>1, <2>3, TakesByte DEF p
  <1> QED BY <1>2, <1>3, <1>4, <1>5

\* The pieces that literalSpans takes are R's, and leave nothing out.
LiteralsOf(R, s, ms, b, d) ==
    /\ \A p \in ToSet(literalSpans(s, b, d)) :
         /\ p.lo \in 1 .. Len(s) /\ p.hi \in p.lo + 1 .. Len(s) + 1 /\ p = LiteralPiece(s, p.lo, b, d)
         /\ Boundary(R, s, ms, p.lo) /\ Taken(R, s, ms, TRUE, p.lo, p)
    /\ \A k \in 1 .. Len(s) : \E p \in ToSet(literalSpans(s, b, d)) : p.lo <= k /\ k < p.hi

LEMMA LiteralsAre ==
  ASSUME NEW R \in Reader, NEW C, NEW s \in Seq(C), NEW ms, Run(R, s, ms), Uncommented(s, ms),
         NEW b \in BOOLEAN, NEW d, ReadsAs(R, s, ms, b, d)
  PROVE  LiteralsOf(R, s, ms, b, d)
PROOF
  <1> DEFINE pa == [i \in DOMAIN s |-> LiteralPiece(s, i, b, d)]
             ps == literalSpans(s, b, d)
  <1>2. ASSUME NEW i \in 1 .. Len(s)
        PROVE  pa[i] = LiteralPiece(s, i, b, d) /\ pa[i].lo = i /\ pa[i].hi \in i + 1 .. Len(s) + 1
    <2>1. pa[i] = LiteralPiece(s, i, b, d)
      OBVIOUS
    <2> HIDE DEF pa
    <2> QED BY <2>1, LiteralEnds
  <1>3. ps = Pieces(s, pa)
    BY DEF literalSpans
  <1> HIDE DEF pa
  <1>4. Advances(s, pa)
    BY <1>2 DEF Advances
  <1>5. Takes(R, s, ms, TRUE, pa)
    <2> SUFFICES ASSUME NEW i \in 1 .. Len(s), Beyond(R, s, ms, TRUE, i)
                 PROVE  Taken(R, s, ms, TRUE, i, pa[i])
      BY DEF Takes
    <2>2. Taken(R, s, ms, TRUE, i, LiteralPiece(s, i, b, d))
      BY LiteralTakes DEF Beyond
    <2> QED BY <1>2, <2>2
  <1>6. InOrder(R, s, ms, TRUE, pa, ps)
    BY <1>2, <1>3, <1>4, <1>5, AllTaken
  <1> HIDE DEF ps
  <1>8. ToSet(ps) = {ps[m] : m \in 1 .. Len(ps)}
    BY <1>6 DEF InOrder, InTurn, ToSet
  <1>9. ASSUME NEW m \in 1 .. Len(ps)
        PROVE  LET p == ps[m]
               IN  /\ p.lo \in 1 .. Len(s) /\ p.hi \in p.lo + 1 .. Len(s) + 1 /\ p = LiteralPiece(s, p.lo, b, d)
                   /\ Boundary(R, s, ms, p.lo) /\ Taken(R, s, ms, TRUE, p.lo, p)
    <2> DEFINE p == ps[m]
    <2>1. p.lo \in 1 .. Len(s) /\ p = pa[p.lo] /\ Beyond(R, s, ms, TRUE, p.lo) /\ Taken(R, s, ms, TRUE, p.lo, p)
      BY <1>6 DEF InOrder
    <2> HIDE DEF p
    <2>3. p = LiteralPiece(s, p.lo, b, d)
      BY <1>2, <2>1
    <2>4. p.hi \in p.lo + 1 .. Len(s) + 1
      BY <1>2, <2>1
    <2> QED BY <2>1, <2>3, <2>4 DEF Beyond, p
  <1>10. \A k \in 1 .. Len(s) : \E m \in 1 .. Len(ps) : ps[m].lo <= k /\ k < ps[m].hi
    BY <1>6 DEF InOrder, InTurn
  <1> QED BY <1>8, <1>9, <1>10 DEF LiteralsOf, ps

\* Between double quotes at lo and hi stands what is shaped like a name.
NameAt(s, lo, hi) ==
    /\ s[lo].char = "dq" /\ s[hi].char = "dq" /\ s[lo + 1].char \in Letter \cup {"low"}
    /\ \A j \in lo + 1 .. hi - 1 : s[j].char \in (isIdentByte \ {"u8"}) \cup {"$"}

LEMMA NameIs ==
  ASSUME NEW C, NEW s \in Seq(C), NEW lo \in 1 .. Len(s), NEW hi \in lo + 2 .. Len(s), NEW d,
         s[lo].char = "dq", s[hi].char = "dq", doubleQuotedIsIdent(SubSeq(s, lo + 1, hi - 1), d)
  PROVE  d = "postgres" \/ (d = "unknown" /\ NameAt(s, lo, hi))
PROOF
  <1> DEFINE body == SubSeq(s, lo + 1, hi - 1)
  <1>1. lo \in Nat /\ hi \in Nat /\ lo + 1 \in 1 .. Len(s) /\ lo + 1 < hi /\ hi <= Len(s) + 1
    OBVIOUS
  <1>2. Len(body) = hi - (lo + 1) /\ \A x \in 1 .. hi - (lo + 1) : body[x] = s[(lo + 1) + x - 1]
    BY <1>1, CutOut
  <1>4. \/ d = "postgres"
        \/ /\ d = "unknown" /\ body[1].char \in Letter \cup {"low"}
           /\ \A i \in DOMAIN body : body[i].char \in (isIdentByte \ {"u8"}) \cup {"$"}
    BY DEF doubleQuotedIsIdent
  <1> HIDE DEF body
  <1>5. DOMAIN body = 1 .. hi - (lo + 1)
    BY <1>1, <1>2, CutOut
  <1>7. body[1] = s[lo + 1]
    BY <1>1, <1>2
  <1>8. ASSUME NEW j \in lo + 1 .. hi - 1 PROVE j - lo \in DOMAIN body /\ body[j - lo] = s[j]
    <2>1. j - lo \in 1 .. hi - (lo + 1) /\ (lo + 1) + (j - lo) - 1 = j
      BY <1>1
    <2> QED BY <1>2, <1>5, <2>1
  <1> QED BY <1>4, <1>7, <1>8 DEF NameAt

LEMMA StringIs ==
  ASSUME NEW m, NEW x, Shaped(x), Kind(m, x) \in {"literal", "double-quoted"}
  PROVE  /\ x.in \in {"string", "escape", "dollar"}
         /\ x.in \in {"string", "escape"} => Kind(m, x) = IF x.quote = "'" THEN "literal" ELSE "double-quoted"
PROOF
  <1>2. Kind(m, x) = CASE x.in \in {"string", "escape"} ->
                            IF x.quote = "'" THEN "literal" ELSE "double-quoted"
                       [] x.in = "name"   -> IF x.quote = "bt" THEN "backticked" ELSE "name"
                       [] x.in = "dollar" -> "literal"
                       [] x.in = "block"  -> "comment"
                       [] x.in = "closed" -> "plain"
                       [] OTHER -> x.in
    BY DEF Kind
  <1>3. CASE x.in \in {"string", "escape"}
    BY <1>2, <1>3
  <1>4. CASE x.in \in {"name", "block", "closed"}
    BY <1>2, <1>4
  <1>5. CASE x.in = "dollar"
    BY <1>5
  <1>6. CASE x.in \notin {"string", "escape", "name", "block", "closed", "dollar"}
    <2>2. x.in \in {"plain", "tag", "comment", "dash"}
      BY <1>6 DEF Shaped, InComments
    <2> QED BY <1>2, <1>6, <2>2
  <1> QED BY <1>3, <1>4, <1>5, <1>6

\* What is left of the strings of R is what is taken for a name.
LEMMA StringLeft ==
  ASSUME NEW R \in Reader, NEW C, NEW s \in Seq(C), NEW ms, Run(R, s, ms), Uncommented(s, ms),
         NEW b \in BOOLEAN, NEW d, ReadsAs(R, s, ms, b, d), b => \E j \in 1 .. Len(s) : s[j].char = "\\",
         NEW spans, RedactSpansOf(s, d, spans),
         NEW k \in 1 .. Len(s), Inside(spans.redact, k) = {}, s[k].char \notin Quote,
         Kind(ms[k - 1], ms[k]) \in {"literal", "double-quoted"}
  PROVE  /\ "dq" \in Databases[R].strings /\ Kind(ms[k - 1], ms[k]) = "double-quoted"
         /\ \E lo \in 1 .. k - 1, hi \in k + 1 .. Len(s) :
              d = "postgres" \/ (d = "unknown" /\ NameAt(s, lo, hi))
PROOF
  <1> DEFINE x == ms[k]
  <1>1. /\ x.in \in {"string", "escape", "dollar"}
        /\ x.in \in {"string", "escape"} => Kind(ms[k - 1], x) = IF x.quote = "'" THEN "literal" ELSE "double-quoted"
    <2>2. Shaped(x)
      BY RunShaped
    <2> QED BY <2>2, StringIs
  <1>2. LiteralsOf(R, s, ms, b, d)
    BY LiteralsAre
  <1>3. PICK p \in ToSet(literalSpans(s, b, d)) : p.lo <= k /\ k < p.hi
    BY <1>2 DEF LiteralsOf
  <1> DEFINE i == p.lo
             h == p.hi
  <1>4. /\ i \in 1 .. Len(s) /\ h \in i + 1 .. Len(s) + 1 /\ p = LiteralPiece(s, i, b, d)
        /\ Boundary(R, s, ms, i) /\ Taken(R, s, ms, TRUE, i, p)
    BY <1>2 DEF LiteralsOf
  <1> HIDE DEF i
  <1>6. p.kind # "byte"
    <2> SUFFICES ASSUME p.kind = "byte" PROVE FALSE
      OBVIOUS
    <2>2. h = i + 1 /\ ms[i].in \in {"plain", "tag"}
      BY <1>4 DEF Taken, LiteralTaken, CommentTaken, ByteTaken, i
    <2>3. k = i
      <3> HIDE DEF h
      <3> QED BY <1>3, <1>4, <2>2 DEF i, h
    <2> QED BY <1>1, <2>2, <2>3
  <1>7. p.kind # "redact"
    <2> SUFFICES ASSUME p.kind = "redact" PROVE FALSE
      OBVIOUS
    <2>2. \A y \in p.lo .. p.hi - 1 : Inside(spans.redact, y) # {}
      BY <1>3 DEF Spans, RedactSpansOf
    <2>3. k \in i .. h - 1
      <3>1. i \in Nat /\ h \in Nat /\ i <= k /\ k < h /\ k \in Nat
        <4> HIDE DEF h
        <4> QED BY <1>3, <1>4 DEF i, h
      <3> HIDE DEF h
      <3> QED BY <3>1, InRange
    <2> QED BY <2>2, <2>3 DEF i
  <1>8. p.kind = "keep" /\ s[i].char \in {"dq", "bt"}
    BY <1>4, <1>6, <1>7, LiteralEnds
  <1>10. RunOf(R, s, ms, i, p.hi)
    BY <1>4, <1>8, LiteralPieceIs, LiteralRun DEF Quote
  <1> HIDE DEF h
  <1>11. i \in Nat /\ h \in Nat /\ k \in Nat /\ i <= k /\ k < h /\ k \in i .. h - 1
    BY <1>3, <1>4 DEF i, h
  <1>12. PICK w \in {"string", "name"} :
           /\ w = "string" <=> s[i].char \in Databases[R].strings
           /\ \A y \in i .. h - 1 : OfRun(s, ms, w, s[i].char, y)
    BY <1>10 DEF RunOf, h
  <1>13. OfRun(s, ms, w, s[i].char, k)
    BY <1>11, <1>12
  <1>14. w = "string"
    <2> SUFFICES ASSUME w = "name" PROVE FALSE
      OBVIOUS
    <2> QED BY <1>1, <1>13 DEF OfRun
  <1>15. s[i].char = "dq" /\ "dq" \in Databases[R].strings
    <2>2. "bt" \notin Databases[R].strings
      BY DatabaseIs DEF Quote
    <2> QED BY <1>8, <1>12, <1>14, <2>2
  <1>16. x.in \in {"string", "escape"} /\ x.quote = "dq"
    BY <1>1, <1>13, <1>14, <1>15 DEF OfRun
  <1>17. s[h - 1].char = "dq" /\ h - 1 > i /\ doubleQuotedIsIdent(SubSeq(s, i + 1, h - 2), d)
    BY <1>4, <1>8, <1>15, LiteralPieceIs DEF h
  <1>18. k # i /\ k # h - 1
    BY <1>15, <1>17 DEF Quote
  <1>19. /\ i \in 1 .. k - 1 /\ h - 1 \in k + 1 .. Len(s) /\ h - 1 \in i + 2 .. Len(s)
         /\ (h - 1) - 1 = h - 2
    BY <1>4, <1>11, <1>18
  <1>20. d = "postgres" \/ (d = "unknown" /\ NameAt(s, i, h - 1))
    <2> DEFINE e == h - 1
    <2>1. e \in i + 2 .. Len(s) /\ s[e].char = "dq" /\ e - 1 = h - 2
      BY <1>17, <1>19
    <2> HIDE DEF e
    <2> QED BY <1>4, <1>15, <1>17, <2>1, NameIs DEF e
  <1> QED BY <1>1, <1>15, <1>16, <1>19, <1>20

LEMMA EscapesOf ==
  ASSUME NEW d \in Dialect, NEW R \in ReadersOf[d]
  PROVE  /\ R \in Reader /\ d \in {"unknown", "postgres", "mysql"}
         /\ Databases[R].escapes = {} \/ Databases[R].escapes = {"'"} \/ Databases[R].escapes = Quote
         /\ d = "postgres" => "dq" \notin Databases[R].strings /\ "dq" \notin Databases[R].escapes
         /\ d = "mysql" => Databases[R].escapes # {"'"}
PROOF
  <1>1. Reader = {"postgres", "postgresE", "mysql", "mysqlPlain", "sqlite"}
    BY DEF Reader, Databases
  <1>2. d \in {"unknown", "postgres", "mysql"}
    BY DEF Dialect, ReadersOf
  <1>3. CASE R = "postgres"
    BY <1>1, <1>2, <1>3 DEF Databases, ReadersOf, Quote
  <1>4. CASE R = "postgresE"
    BY <1>1, <1>2, <1>4 DEF Databases, ReadersOf, Quote
  <1>5. CASE R = "mysql"
    BY <1>1, <1>2, <1>5 DEF Databases, ReadersOf, Quote
  <1>6. CASE R = "mysqlPlain"
    BY <1>1, <1>2, <1>6 DEF Databases, ReadersOf, Quote
  <1>7. CASE R = "sqlite"
    BY <1>1, <1>2, <1>7 DEF Databases, ReadersOf, Quote
  <1> QED BY <1>1, <1>2, <1>3, <1>4, <1>5, <1>6, <1>7 DEF ReadersOf

\* R reads the text s as ms, and u, the text without its comments, as ns.
Rest(R, D, s, ms, u, ns) ==
    /\ IsText(D, s) /\ IsRun(R, s, ms)
    /\ Copied(R, D, s, ms, Len(s) + 1, u, ns)

\* A byte of u is the blank for a comment or a byte of the text.
LEMMA RestAt ==
  ASSUME NEW R \in Reader, NEW D, NEW s, NEW ms, NEW u, NEW ns, Rest(R, D, s, ms, u, ns),
         NEW k \in 1 .. Len(u)
  PROVE  /\ ns[k].in \notin InComments
         /\ \/ u[k] = Gap
            \/ \E j \in 1 .. Len(s) :
                 /\ u[k] = s[j] /\ u[k].at = j /\ u[k].char = text[j] /\ j \in DOMAIN text /\ ns[k] = ms[j]
                 /\ Kind(ns[k - 1], ns[k]) = kinds[R][j]
                 /\ s[j].char = "$" /\ j > 1 /\ s[j - 1].char \in isIdentByte
                    => k > 1 /\ u[k - 1].char \in isIdentByte
PROOF
  <1>1. /\ s \in Seq(D) /\ Numbered(s) /\ Copied(R, D, s, ms, Len(s) + 1, u, ns)
        /\ DOMAIN text = 1 .. Len(s)
        /\ \A j \in 1 .. Len(s) : s[j].char = text[j] /\ s[j].at = j /\ kinds[R][j] = Kind(ms[j - 1], ms[j])
    BY DEF Rest, IsText, IsRun
  <1>2. LeftAt(s, ms, u, ns, k)
    BY <1>1, CopiedAt
  <1> DEFINE j == u[k].at
  <1>3. \/ u[k] = Gap
        \/ /\ j \in 1 .. Len(s) /\ u[k] = s[j] /\ ns[k] = ms[j]
           /\ Kind(ns[k - 1], ns[k]) = Kind(ms[j - 1], ms[j])
           /\ s[j].char = "$" /\ j > 1 /\ s[j - 1].char \in isIdentByte
              => k > 1 /\ u[k - 1].char \in isIdentByte
    BY <1>2 DEF LeftAt
  <1>4. ns[k].in \notin InComments
    BY <1>2 DEF LeftAt
  <1> QED BY <1>1, <1>3, <1>4, SMTT(30)

\* Unless it escapes otherwise than the scanners of the dialect, R reads u as the
\* one does that knows escapes if there are any for R.
LEMMA RestReads ==
  ASSUME SameComments, NEW d \in Dialect, NEW R \in ReadersOf[d], Fits(R), ~(d = "unknown" /\ EscapesApart(R)),
         NEW D, NEW s, NEW ms, NEW u, NEW ns, Rest(R, D, s, ms, u, ns),
         NEW b \in BOOLEAN,
         (\E j \in 1 .. Len(u) : u[j].char = "\\") => (b <=> Databases[R].escapes # {})
  PROVE  ReadsAs(R, u, ns, b, d) /\ Uncommented(u, ns)
PROOF
  <1> DEFINE db == Databases[R]
             escape == \E j \in 1 .. Len(u) : u[j].char = "\\"
  <1>1. /\ R \in Reader /\ d \in {"unknown", "postgres", "mysql"}
        /\ db.escapes = {} \/ db.escapes = {"'"} \/ db.escapes = Quote
        /\ d = "postgres" => "dq" \notin db.escapes
        /\ d = "mysql" => db.escapes # {"'"}
    BY EscapesOf
  <1>2. ASSUME NEW k \in 1 .. Len(u), u[k].char # "sp"
        PROVE  \E j \in 1 .. Len(s) :
                 /\ u[k] = s[j] /\ u[k].char = text[j] /\ j \in DOMAIN text /\ ns[k] = ms[j]
                 /\ s[j].char = "$" /\ j > 1 /\ s[j - 1].char \in isIdentByte
                    => k > 1 /\ u[k - 1].char \in isIdentByte
    BY <1>1, <1>2, RestAt DEF Gap
  <1>3. ASSUME NEW k \in 1 .. Len(u), u[k].char # "sp" PROVE u[k].char \in ToSet(text)
    BY <1>2, <1>3 DEF ToSet
  <1>4. ASSUME NEW k \in 1 .. Len(u), u[k].char = "$"
        PROVE  db.dollar \/ (ns[k] = Plain => k > 1 /\ u[k - 1].char \in isIdentByte)
    <2>1. PICK j \in 1 .. Len(s) :
                 /\ u[k] = s[j] /\ ns[k] = ms[j]
                 /\ s[j].char = "$" /\ j > 1 /\ s[j - 1].char \in isIdentByte
                    => k > 1 /\ u[k - 1].char \in isIdentByte
      BY <1>2, <1>4
    <2> QED BY <1>1, <1>4, <2>1, DollarFits DEF Rest
  <1>5. ASSUME escape PROVE "\\" \in ToSet(text)
    BY <1>3, <1>5
  <1>6. ASSUME escape, NEW k \in 1 .. Len(u), u[k].char = "dq" PROVE b /\ d # "postgres" <=> "dq" \in db.escapes
    <2>2. b <=> db.escapes # {}
      BY <1>6
    <2>3. d = "unknown" => db.escapes # {"'"}
      BY <1>3, <1>5, <1>6 DEF EscapesApart
    <2>4. "dq" \in Quote /\ "dq" \notin {"'"} /\ Quote # {}
      BY DEF Quote
    <2> HIDE DEF db, escape
    <2>5. CASE d = "postgres"
      BY <1>1, <2>5
    <2>6. CASE d # "postgres"
      <3>1. db.escapes = {} \/ db.escapes = Quote
        BY <1>1, <2>3, <2>6
      <3> QED BY <2>2, <2>4, <2>6, <3>1
    <2> QED BY <2>5, <2>6
  <1>7. ASSUME escape PROVE b <=> "'" \in db.escapes
    <2>2. b <=> db.escapes # {}
      BY <1>7
    <2> HIDE DEF db, escape
    <2> QED BY <1>1, <2>2 DEF Quote
  <1>8. ASSUME NEW k \in 1 .. Len(u) PROVE u[k].char # "#" /\ (u[k].char = "bt" => "bt" \in db.names)
    <2>1. CASE u[k].char \in {"#", "bt"}
      BY <1>3, <2>1 DEF SameComments, Fits, KnowsQuotes
    <2> QED BY <2>1
  <1> QED BY <1>1, <1>4, <1>6, <1>7, <1>8, RestAt DEF ReadsAs, Uncommented

\* Bytes that follow each other in u do so in the text, with no comment between them.
LEMMA Contiguous ==
  ASSUME NEW R \in Reader, NEW D, NEW s, NEW ms, NEW u, NEW ns, Rest(R, D, s, ms, u, ns),
         NEW k \in 1 .. Len(u), NEW l \in k .. Len(u), \A j \in k .. l : u[j].char # "sp"
  PROVE  \A j \in k .. l : /\ u[j].at = u[k].at + (j - k)
                           /\ u[j].at \in 1 .. Len(s) /\ u[j] = s[u[j].at] /\ u[j].char = text[u[j].at]
PROOF
  <1>1. Len(u) \in Nat /\ Len(s) \in Nat /\ Adjoins(s, ms, u)
    BY DEF Rest, Copied, IsText
  <1>2. ASSUME NEW j \in k .. l
        PROVE  j \in 1 .. Len(u) /\ u[j].at \in 1 .. Len(s) /\ u[j] = s[u[j].at] /\ u[j].char = text[u[j].at] /\ u[j] # Gap
    <2>1. j \in 1 .. Len(u)
      BY <1>1
    <2>2. u[j] # Gap
      BY DEF Gap
    <2>3. PICK y \in 1 .. Len(s) : u[j] = s[y] /\ u[j].at = y /\ u[j].char = text[y]
      BY <2>1, <2>2, RestAt
    <2> QED BY <2>1, <2>2, <2>3
  <1> DEFINE At(x) == k + x <= l => u[k + x].at = u[k].at + x
             T == {x \in Nat : At(x)}
  <1>3. 0 \in T
    <2>1. k + 0 = k /\ k \in k .. l
      OBVIOUS
    <2> DEFINE y == u[k].at
    <2>3. y + 0 = y
      <3> HIDE DEF y
      <3> QED BY <1>2, <2>1 DEF y
    <2> QED BY <2>1, <2>3
  <1>4. ASSUME NEW x \in Nat, x \in T PROVE x + 1 \in T
    <2> SUFFICES ASSUME k + (x + 1) <= l PROVE u[k + (x + 1)].at = u[k].at + (x + 1)
      OBVIOUS
    <2> DEFINE e == k + x
               g == k + (x + 1)
    <2>1. e \in k .. l /\ g \in k .. l /\ g = e + 1 /\ e <= l
      OBVIOUS
    <2> HIDE DEF e, g
    <2>3. e \in 1 .. Len(u) /\ g \in 1 .. Len(u) /\ u[e].at \in 1 .. Len(s) /\ u[g] # Gap
      BY <1>2, <2>1
    <2>4. u[g].at = u[e].at + 1
      BY <1>1, <2>1, <2>3 DEF Adjoins
    <2>6. u[k].at \in Nat
      BY <1>2
    <2> DEFINE y == u[k].at
    <2>7. y \in Nat
      BY <2>6
    <2>8. (y + x) + 1 = y + (x + 1)
      <3> HIDE DEF y, At, T
      <3> QED BY <2>7
    <2> QED BY <1>4, <2>1, <2>4, <2>8 DEF g
  <1> HIDE DEF T
  <1>6. ASSUME NEW j \in k .. l PROVE u[j].at = u[k].at + (j - k)
    <2>1. j - k \in Nat /\ k + (j - k) = j /\ j <= l
      OBVIOUS
    <2>2. At(j - k)
      BY <1>3, <1>4, <2>1, Induct DEF T
    <2> QED BY <2>1, <2>2
  <1> QED BY <1>2, <1>6

\* What has the shape of a name in u has it in the text.
LEMMA NameRead ==
  ASSUME NEW R \in Reader, NEW D, NEW s, NEW ms, NEW u, NEW ns, Rest(R, D, s, ms, u, ns),
         NEW k \in 1 .. Len(u), NEW lo \in 1 .. k - 1, NEW hi \in k + 1 .. Len(u), NameAt(u, lo, hi)
  PROVE  NameShaped(u[k].at)
PROOF
  <1> DEFINE Name == (isIdentByte \ {"u8"}) \cup {"$"}
  <1>1. Len(u) \in Nat /\ Len(s) \in Nat /\ Len(text) = Len(s)
    BY DEF Rest, Copied, IsText
  <1>2. lo \in Nat /\ hi \in Nat /\ k \in Nat /\ lo < k /\ k < hi /\ lo \in 1 .. Len(u) /\ hi \in lo .. Len(u)
    BY <1>1
  <1>3. /\ u[lo].char = "dq" /\ u[hi].char = "dq" /\ u[lo + 1].char \in Letter \cup {"low"}
        /\ \A j \in lo + 1 .. hi - 1 : u[j].char \in Name
    BY DEF NameAt
  <1>4. "sp" \notin Name /\ "sp" # "dq"
    BY DEF isIdentByte, isDigit, Letter
  <1> HIDE DEF Name
  <1>5. ASSUME NEW j \in lo .. hi PROVE u[j].char # "sp"
    <2>1. j = lo \/ j = hi \/ j \in lo + 1 .. hi - 1
      BY <1>2
    <2> QED BY <1>3, <1>4, <2>1
  <1> DEFINE p == u[lo].at
  <1>6. \A j \in lo .. hi : /\ u[j].at = p + (j - lo)
                            /\ u[j].at \in 1 .. Len(s) /\ u[j].char = text[u[j].at]
    BY <1>2, <1>5, Contiguous, SMTT(30)
  <1> HIDE DEF p
  <1>7. p \in Nat /\ p >= 1 /\ u[lo].char = text[p]
    <2>1. lo \in lo .. hi
      BY <1>2
    <2>2. u[lo].at \in 1 .. Len(s) /\ u[lo].char = text[u[lo].at]
      BY <1>6, <2>1
    <2> QED BY <2>2 DEF p
  <1> DEFINE q == p + (hi - lo)
             i == p + (k - lo)
  <1>8. u[k].at = i /\ u[hi].at = q /\ u[hi].char = text[q] /\ q \in 1 .. Len(s)
    <2>1. k \in lo .. hi /\ hi \in lo .. hi
      BY <1>2
    <2> QED BY <1>6, <2>1
  <1>9. ASSUME NEW j \in p + 1 .. q - 1 PROVE text[j] \in Name /\ (j = p + 1 => text[j] \in Letter \cup {"low"})
    <2> DEFINE y == lo + (j - p)
    <2>1. y \in lo .. hi /\ y \in lo + 1 .. hi - 1 /\ p + (y - lo) = j
      BY <1>2, <1>7, SMTT(30)
    <2>2. j = p + 1 => y = lo + 1
      BY <1>2, <1>7
    <2> HIDE DEF y
    <2>3. u[y].char = text[j]
      BY <1>6, <2>1
    <2> QED BY <1>3, <2>1, <2>2, <2>3
  <1>10. p + 1 \in p + 1 .. q - 1 /\ p \in 1 .. i - 1 /\ q \in i + 1 .. Len(text)
    BY <1>1, <1>2, <1>7, <1>8
  <1>12. NameShaped(i)
    <2> HIDE DEF i, q
    <2> QED BY <1>3, <1>7, <1>8, <1>9, <1>10 DEF NameShaped, Name
  <1> QED BY <1>8, <1>12

\* The byte i of the text is in u, outside the spans and outside a .. b.
Outside(u, spans, a, b, i) ==
    \E k \in 1 .. Len(u) : u[k].at = i /\ k \notin a .. b /\ Inside(spans.redact, k) = {}

\* What Redacted leaves of u.
LEMMA LeftOver ==
  ASSUME NEW D, NEW u \in Seq(D), NEW spans, EndsIn(u, spans), NEW a, NEW b, Lone(u, spans, a, b),
         NEW i, i # 0, i \in Survivors(Redacted(u, spans))
  PROVE  Outside(u, spans, a, b, i)
PROOF
  <1> DEFINE D2 == D \cup {Mark}
             L == Left(D2, u, spans, a, b)
             v == Redacted(u, spans)
  <1>1. u \in Seq(D2) /\ Mark \in D2
    <2>1. u \in [1 .. Len(u) -> D] /\ Len(u) \in Nat
      OBVIOUS
    <2> QED BY <2>1
  <1> HIDE DEF D2
  <1>2. v \in Seq(L)
    BY <1>1, RedactedLeaves
  <1> HIDE DEF v, L
  <1>3. PICK y \in DOMAIN v : v[y].at = i
    BY DEF Survivors, v
  <1>4. v[y] \in L
    BY <1>2
  <1> QED BY <1>3, <1>4 DEF L, Left, Outside

LEMMA StringsRedacted ==
  ASSUME SameComments, NEW d \in Dialect, NEW R \in ReadersOf[d], Fits(R),
         NEW D, NEW s, NEW ms, NEW u, NEW ns, Rest(R, D, s, ms, u, ns),
         NEW i \in Survivors(Redacted(u, redactSpans(u, d))), i \in DOMAIN text, text[i] \notin Quote, String(R, i)
  PROVE  d = "unknown" /\ (EscapesApart(R) \/ (kinds[R][i] = "double-quoted" /\ NameShaped(i)))
PROOF
  <1> SUFFICES ASSUME ~(d = "unknown" /\ EscapesApart(R))
               PROVE  d = "unknown" /\ kinds[R][i] = "double-quoted" /\ NameShaped(i)
    BY EscapesOf
  <1> DEFINE spans == redactSpans(u, d)
             escape == \E j \in 1 .. Len(u) : u[j].char = "\\"
             b == escape /\ Databases[R].escapes # {}
  <1>1. R \in Reader /\ (d = "postgres" => "dq" \notin Databases[R].strings)
    BY EscapesOf
  <1>2. u \in Seq(D) /\ Run(R, u, ns)
    BY DEF Rest, Copied
  <1>3. RedactSpansOf(u, d, spans)
    BY <1>2, RedactSpansAre
  <1> HIDE DEF spans
  <1>5. Lone(u, spans, 0, 0)
    <2>2. 0 + 1 .. 0 = {} /\ ~(0 > 0) /\ ~(0 > 1)
      OBVIOUS
    <2> QED BY <2>2 DEF Lone
  <1>6. i # 0 /\ i \in 1 .. Len(s)
    BY DEF Rest, IsText
  <1>7. PICK k \in 1 .. Len(u) : u[k].at = i /\ Inside(spans.redact, k) = {}
    <2>1. i \in Survivors(Redacted(u, spans))
      BY DEF spans
    <2> DEFINE z == 0
    <2>2. Lone(u, spans, z, z)
      BY <1>5
    <2> HIDE DEF z
    <2>3. u \in Seq(D) /\ i # 0
      BY <1>2, <1>6
    <2>4. Outside(u, spans, z, z, i)
      BY <1>3, <2>1, <2>2, <2>3, LeftOver DEF RedactSpansOf
    <2> QED BY <2>4 DEF Outside
  <1>8. u[k].char = text[i] /\ Kind(ns[k - 1], ns[k]) = kinds[R][i]
    BY <1>1, <1>6, <1>7, RestAt DEF Gap
  <1>9. b \in BOOLEAN /\ (escape => (b <=> Databases[R].escapes # {})) /\ (b => escape)
    OBVIOUS
  <1> HIDE DEF b
  <1>11. Kind(ns[k - 1], ns[k]) \in {"literal", "double-quoted"}
    BY <1>8 DEF String
  <1>12. /\ "dq" \in Databases[R].strings /\ Kind(ns[k - 1], ns[k]) = "double-quoted"
         /\ \E lo \in 1 .. k - 1, hi \in k + 1 .. Len(u) :
              d = "postgres" \/ (d = "unknown" /\ NameAt(u, lo, hi))
    BY <1>1, <1>2, <1>3, <1>7, <1>8, <1>9, <1>11, RestReads, StringLeft
  <1>13. PICK lo \in 1 .. k - 1, hi \in k + 1 .. Len(u) : d = "unknown" /\ NameAt(u, lo, hi)
    BY <1>1, <1>12
  <1> QED BY <1>1, <1>7, <1>8, <1>12, <1>13, NameRead

\* A byte of the text has one place in u.
LEMMA OnePlace ==
  ASSUME NEW R \in Reader, NEW D, NEW s, NEW ms, NEW u, NEW ns, Rest(R, D, s, ms, u, ns),
         NEW k \in 1 .. Len(u), NEW l \in 1 .. Len(u), u[k].at = u[l].at, u[k].at \in Nat, u[k].at # 0
  PROVE  k = l
PROOF
  <1>1. \A x, y \in 1 .. Len(u) : x < y /\ u[y].at # 0 => u[x].at < u[y].at
    BY DEF Rest, Copied
  <1>3. ~(k < l)
    BY <1>1
  <1>4. ~(l < k)
    BY <1>1
  <1> QED BY <1>3, <1>4

\* A byte that is outside everything is in u, and so is the one after it.
LEMMA PlainPlace ==
  ASSUME NEW R \in Reader, NEW D, NEW s, NEW ms, NEW u, NEW ns, Rest(R, D, s, ms, u, ns),
         NEW j \in 1 .. Len(s), kinds[R][j] = "plain"
  PROVE  \E k \in 1 .. Len(u) : u[k] = s[j] /\ u[k].at = j
PROOF
  <1>2. \A x \in 1 .. (Len(s) + 1) - 1 : \/ Kind(ms[x - 1], ms[x]) \in {"comment", "dash"}
                                        \/ \E k \in 1 .. Len(u) : u[k] = s[x]
    BY DEF Rest, Copied
  <1>1. j \in 1 .. (Len(s) + 1) - 1 /\ Kind(ms[j - 1], ms[j]) = "plain" /\ s[j].at = j
    BY DEF Rest, IsText, IsRun
  <1> QED BY <1>1, <1>2

LEMMA NextPlace ==
  ASSUME NEW R \in Reader, NEW D, NEW s, NEW ms, NEW u, NEW ns, Rest(R, D, s, ms, u, ns),
         NEW k \in 1 .. Len(u), NEW j \in 1 .. Len(s), u[k].at = j, NEW g \in 1 .. Len(s), g = j + 1, kinds[R][g] = "plain"
  PROVE  k + 1 \in 1 .. Len(u) /\ u[k + 1] = s[g] /\ u[k + 1].at = g
PROOF
  <1>1. Len(u) \in Nat /\ Len(s) \in Nat /\ Adjoins(s, ms, u) /\ Kind(ms[g - 1], ms[g]) = "plain"
    BY DEF Rest, Copied, IsText, IsRun
  <1>2. PICK l \in 1 .. Len(u) : u[l] = s[g] /\ u[l].at = g
    BY PlainPlace
  <1>3. k < l
    <2>1. \A x, y \in 1 .. Len(u) : x < y /\ u[y].at # 0 => u[x].at < u[y].at
      BY DEF Rest, Copied
    <2>3. ~(l < k)
      BY <1>2, <2>1
    <2> QED BY <1>2, <2>3
  <1> DEFINE e == k + 1
  <1>4. e \in 1 .. Len(u) /\ e = k + 1
    BY <1>1, <1>3
  <1> HIDE DEF e
  <1>5. u[e].at = g \/ (u[e] = Gap /\ Kind(ms[j], ms[g]) \in {"comment", "dash"})
    BY <1>1, <1>4 DEF Adjoins
  <1>6. g - 1 = j
    OBVIOUS
  <1>7. u[e].at = g
    BY <1>1, <1>5, <1>6
  <1> QED BY <1>2, <1>4, <1>7, OnePlace

\* Before a byte of the text comes the one before it, or a blank.
LEMMA PrevPlace ==
  ASSUME NEW R \in Reader, NEW D, NEW s, NEW ms, NEW u, NEW ns, Rest(R, D, s, ms, u, ns),
         NEW k \in 1 .. Len(u), u[k] # Gap, NEW e \in 1 .. Len(u), k = e + 1
  PROVE  u[e].char = "sp" \/ (u[k].at = u[e].at + 1 /\ u[e] # Gap /\ u[e].at \in 1 .. Len(s) /\ u[e].char = text[u[e].at])
PROOF
  <1>2. CASE u[e] = Gap
    BY <1>2 DEF Gap
  <1>3. CASE u[e] # Gap
    <2>1. PICK j \in 1 .. Len(s) : u[e].at = j /\ u[e].char = text[j]
      BY <1>3, RestAt
    <2>2. j # 0
      OBVIOUS
    <2> QED BY <1>3, <2>1, <2>2 DEF Rest, Copied, Adjoins
  <1> QED BY <1>2, <1>3

\* What the text has from lo to hi, all of it outside everything, u has from a to b.
Moved(s, u, lo, hi, a, b) ==
    /\ a \in 1 .. Len(u) /\ b \in a .. Len(u) /\ b - a = hi - lo
    /\ \A k \in a .. b : u[k] = s[lo + (k - a)] /\ u[k].at = lo + (k - a)

LEMMA PlainMoved ==
  ASSUME NEW R \in Reader, NEW D, NEW s, NEW ms, NEW u, NEW ns, Rest(R, D, s, ms, u, ns),
         NEW lo \in 1 .. Len(s), NEW hi \in lo .. Len(s), \A j \in lo .. hi : kinds[R][j] = "plain"
  PROVE  \E a, b : Moved(s, u, lo, hi, a, b)
PROOF
  <1>1. Len(u) \in Nat /\ Len(s) \in Nat
    BY DEF Rest, Copied, IsText
  <1>2. PICK a \in 1 .. Len(u) : u[a] = s[lo] /\ u[a].at = lo
    BY PlainPlace
  <1> DEFINE At(x) == lo + x <= hi => a + x \in 1 .. Len(u) /\ u[a + x] = s[lo + x] /\ u[a + x].at = lo + x
             T == {x \in Nat : At(x)}
  <1>3. 0 \in T
    BY <1>2
  <1>4. ASSUME NEW x \in Nat, x \in T PROVE x + 1 \in T
    <2> DEFINE k == a + x
               j == lo + x
               g == lo + (x + 1)
    <2> SUFFICES ASSUME g <= hi
                 PROVE  a + (x + 1) \in 1 .. Len(u) /\ u[a + (x + 1)] = s[g] /\ u[a + (x + 1)].at = g
      OBVIOUS
    <2>1. j <= hi /\ j \in 1 .. Len(s) /\ g \in 1 .. Len(s) /\ g = j + 1 /\ g \in lo .. hi /\ a + (x + 1) = k + 1
      BY <1>1
    <2>2. k \in 1 .. Len(u) /\ u[k].at = j
      BY <1>4, <2>1
    <2> HIDE DEF k, j, g
    <2>3. kinds[R][g] = "plain"
      BY <2>1
    <2>4. k + 1 \in 1 .. Len(u) /\ u[k + 1] = s[g] /\ u[k + 1].at = g
      BY <2>1, <2>2, <2>3, NextPlace
    <2> QED BY <2>1, <2>4
  <1> HIDE DEF T
  <1>5. Nat \subseteq T
    BY <1>3, <1>4, Induct
  <1> DEFINE b == a + (hi - lo)
  <1>6. hi - lo \in Nat /\ lo + (hi - lo) = hi
    OBVIOUS
  <1>7. b \in 1 .. Len(u)
    <2>1. At(hi - lo)
      BY <1>5, <1>6 DEF T
    <2> QED BY <1>6, <2>1
  <1>8. b \in a .. Len(u) /\ b - a = hi - lo
    BY <1>1, <1>6, <1>7
  <1>9. ASSUME NEW k \in a .. b PROVE u[k] = s[lo + (k - a)] /\ u[k].at = lo + (k - a)
    <2>1. k - a \in Nat /\ lo + (k - a) <= hi /\ a + (k - a) = k
      BY <1>6
    <2> QED BY <1>5, <2>1 DEF T
  <1>10. Moved(s, u, lo, hi, a, b)
    <2> HIDE DEF b
    <2> QED BY <1>8, <1>9 DEF Moved
  <1> QED BY <1>10

\* A number of the text is one as it is written.
LEMMA NumberIs ==
  ASSUME NEW D, NEW s, IsText(D, s), NEW lo \in 1 .. Len(s), NEW hi \in lo .. Len(s), Number(lo, hi)
  PROVE  s[lo].char \in isDigit /\ Numeral(s, lo, hi)
PROOF
  <1> DEFINE All(i, j, set) == i <= j /\ \A k \in i .. j : text[k] \in set
             decimal(i, j) == All(i, j, isDigit \cup {"."}) /\ text[i] # "."
  <1>1. \/ decimal(lo, hi)
        \/ text[lo] = "0" /\ lo < hi /\ text[lo + 1] = "x" /\ All(lo + 2, hi, isDigit \cup {"a", "e"})
        \/ \E m \in lo + 1 .. hi - 1 :
             /\ decimal(lo, m - 1) /\ text[m] = "e"
             /\ \/ All(m + 1, hi, isDigit)
                \/ text[m + 1] \in {"+", "-"} /\ All(m + 2, hi, isDigit)
    BY DEF Number
  <1>2. /\ Len(s) \in Nat /\ lo \in Nat /\ hi \in Nat /\ lo <= hi /\ lo >= 1 /\ hi <= Len(s)
        /\ \A k \in 1 .. Len(s) : s[k].char = text[k]
    BY DEF IsText
  <1>3. ASSUME NEW i \in lo .. hi, NEW j \in lo .. hi, decimal(i, j)
        PROVE  s[i].char \in isDigit /\ \A k \in i .. j : s[k].char \in Dec
    <2>2. \A k \in i .. j : k \in 1 .. Len(s)
      BY <1>2
    <2> QED BY <1>2, <1>3, <2>2 DEF Dec
  <1>4. CASE decimal(lo, hi)
    <2> HIDE DEF decimal
    <2>2. s[lo].char \in isDigit /\ \A k \in lo .. hi : s[k].char \in Dec
      BY <1>2, <1>3, <1>4
    <2> QED BY <2>2 DEF Numeral
  <1>5. CASE text[lo] = "0" /\ lo < hi /\ text[lo + 1] = "x" /\ All(lo + 2, hi, isDigit \cup {"a", "e"})
    <2>1. lo + 1 \in 1 .. Len(s) /\ lo + 2 <= hi
      BY <1>2, <1>5
    <2>3. ASSUME NEW k \in lo + 2 .. hi PROVE s[k].char \in Hex
      BY <1>2, <1>5 DEF Hex
    <2> QED BY <1>2, <1>5, <2>1, <2>3 DEF Numeral, isDigit
  <1>6. ASSUME NEW m \in lo + 1 .. hi - 1, decimal(lo, m - 1), text[m] = "e",
               All(m + 1, hi, isDigit) \/ (text[m + 1] \in {"+", "-"} /\ All(m + 2, hi, isDigit))
        PROVE  s[lo].char \in isDigit /\ Numeral(s, lo, hi)
    <2>1. lo \in lo .. hi /\ m - 1 \in lo .. hi /\ m \in 1 .. Len(s) /\ m + 1 \in 1 .. Len(s)
      BY <1>2
    <2>2. s[lo].char \in isDigit /\ (\A k \in lo .. m - 1 : s[k].char \in Dec) /\ s[m].char = "e"
      <3> HIDE DEF decimal
      <3> QED BY <1>2, <1>3, <1>6, <2>1
    <2>3. ASSUME NEW k \in m + 1 .. hi PROVE s[k].char = text[k]
      BY <1>2
    <2>4. CASE All(m + 1, hi, isDigit)
      BY <2>2, <2>3, <2>4 DEF Numeral
    <2>5. CASE text[m + 1] \in {"+", "-"} /\ All(m + 2, hi, isDigit)
      <3>1. m + 2 <= hi /\ \A k \in m + 2 .. hi : k \in m + 1 .. hi
        BY <1>2, <2>5
      <3>3. s[m + 1].char \in {"+", "-"}
        BY <1>2, <2>1, <2>5
      <3> QED BY <2>2, <2>3, <2>5, <3>1, <3>3 DEF Numeral
    <2> HIDE DEF All, decimal
    <2> QED BY <1>6, <2>4, <2>5
  <1> HIDE DEF All, decimal
  <1> QED BY <1>1, <1>4, <1>5, <1>6

LEMMA NumeralMoved ==
  ASSUME NEW s, NEW u, NEW lo \in Nat, NEW hi \in Nat, Len(u) \in Nat, NEW a, NEW b,
         Moved(s, u, lo, hi, a, b), Numeral(s, lo, hi)
  PROVE  Numeral(u, a, b)
PROOF
  <1>1. a \in Nat /\ b \in Nat /\ a >= 1 /\ a <= b /\ b - a = hi - lo
    BY DEF Moved
  <1>2. ASSUME NEW k \in a .. b PROVE u[k].char = s[lo + (k - a)].char
    BY DEF Moved
  <1>4. CASE \A k \in lo .. hi : s[k].char \in Dec
    <2>1. ASSUME NEW k \in a .. b PROVE u[k].char \in Dec
      <3>1. lo + (k - a) \in lo .. hi
        BY <1>1
      <3> QED BY <1>2, <1>4, <3>1
    <2> QED BY <2>1 DEF Numeral
  <1>5. CASE /\ s[lo].char = "0" /\ s[lo + 1].char = "x" /\ lo + 2 <= hi
             /\ \A k \in lo + 2 .. hi : s[k].char \in Hex
    <2>1. a \in a .. b /\ a + 1 \in a .. b /\ lo + (a - a) = lo /\ lo + ((a + 1) - a) = lo + 1 /\ a + 2 <= b
      BY <1>1, <1>5
    <2>3. ASSUME NEW k \in a + 2 .. b PROVE u[k].char \in Hex
      <3>1. lo + (k - a) \in lo + 2 .. hi /\ k \in a .. b
        BY <1>1
      <3> QED BY <1>2, <1>5, <3>1
    <2> QED BY <1>2, <1>5, <2>1, <2>3 DEF Numeral
  <1>6. ASSUME NEW m \in lo + 1 .. hi - 1,
               \A k \in lo .. m - 1 : s[k].char \in Dec, s[m].char = "e",
               \/ \A k \in m + 1 .. hi : s[k].char \in isDigit
               \/ s[m + 1].char \in {"+", "-"} /\ m + 2 <= hi /\ \A k \in m + 2 .. hi : s[k].char \in isDigit
        PROVE  Numeral(u, a, b)
    <2> DEFINE e == a + (m - lo)
    <2>1. e \in a + 1 .. b - 1 /\ lo + (e - a) = m /\ e \in a .. b /\ e + 1 \in a .. b /\ lo + ((e + 1) - a) = m + 1
      BY <1>1
    <2> HIDE DEF e
    <2>3. u[e].char = "e" /\ u[e + 1].char = s[m + 1].char
      BY <1>2, <1>6, <2>1
    <2>4. ASSUME NEW k \in a .. e - 1 PROVE u[k].char \in Dec
      <3>1. lo + (k - a) \in lo .. m - 1 /\ k \in a .. b
        BY <1>1, <2>1
      <3> QED BY <1>2, <1>6, <3>1
    <2>5. CASE \A k \in m + 1 .. hi : s[k].char \in isDigit
      <3>1. ASSUME NEW k \in e + 1 .. b PROVE u[k].char \in isDigit
        <4>1. lo + (k - a) \in m + 1 .. hi /\ k \in a .. b
          BY <1>1, <2>1
        <4> QED BY <1>2, <2>5, <4>1
      <3> QED BY <2>1, <2>3, <2>4, <3>1 DEF Numeral
    <2>6. CASE s[m + 1].char \in {"+", "-"} /\ m + 2 <= hi /\ \A k \in m + 2 .. hi : s[k].char \in isDigit
      <3>1. ASSUME NEW k \in e + 2 .. b PROVE u[k].char \in isDigit
        <4>1. lo + (k - a) \in m + 2 .. hi /\ k \in a .. b
          BY <1>1, <2>1
        <4> QED BY <1>2, <2>6, <4>1
      <3>2. e + 2 <= b
        BY <1>1, <2>1, <2>6
      <3> QED BY <2>1, <2>3, <2>4, <2>6, <3>1, <3>2 DEF Numeral
    <2> QED BY <1>6, <2>5, <2>6
  <1> QED BY <1>4, <1>5, <1>6 DEF Numeral

\* No byte of a number is a quote, a "$" or a blank.
LEMMA NumeralBytes ==
  ASSUME NEW s, NEW a \in Nat, NEW b \in Nat, Numeral(s, a, b), NEW k \in a .. b
  PROVE  s[k].char \notin Closers \cup Special \cup {"sp"}
PROOF
  <1>1. s[k].char \in {"0", "1", ".", "a", "e", "x", "+", "-"}
    <2>1. Dec \cup Hex \subseteq {"0", "1", ".", "a", "e", "x", "+", "-"}
      BY DEF Dec, Hex, isDigit
    <2>3. CASE \A j \in a .. b : s[j].char \in Dec
      BY <2>1, <2>3
    <2>4. CASE /\ s[a].char = "0" /\ s[a + 1].char = "x" /\ a + 2 <= b
               /\ \A j \in a + 2 .. b : s[j].char \in Hex
      BY <2>1, <2>4
    <2>5. ASSUME NEW m \in a + 1 .. b - 1,
                 \A j \in a .. m - 1 : s[j].char \in Dec, s[m].char = "e",
                 \/ \A j \in m + 1 .. b : s[j].char \in isDigit
                 \/ s[m + 1].char \in {"+", "-"} /\ m + 2 <= b /\ \A j \in m + 2 .. b : s[j].char \in isDigit
          PROVE  s[k].char \in {"0", "1", ".", "a", "e", "x", "+", "-"}
      <3>1. k \in a .. m - 1 \/ k = m \/ k = m + 1 \/ k \in m + 2 .. b
        OBVIOUS
      <3>2. k \in m + 2 .. b => k \in m + 1 .. b
        OBVIOUS
      <3>3. m + 1 \in m + 1 .. b
        OBVIOUS
      <3> QED BY <2>1, <2>5, <3>1, <3>2, <3>3 DEF Dec
    <2> QED BY <2>3, <2>4, <2>5 DEF Numeral
  <1> QED BY <1>1 DEF Closers, Special, Quote

\* What may not stand before a number may not stand before it in u.
LEMMA WordBefore ==
  ASSUME ~Directed, NEW R \in Reader, NEW D, NEW s, NEW ms, NEW u, NEW ns, Rest(R, D, s, ms, u, ns),
         NEW lo \in 1 .. Len(s), NEW hi \in lo .. Len(s), Number(lo, hi),
         NEW a \in 1 .. Len(u), u[a].at = lo, u[a] # Gap, a > 1
  PROVE  /\ u[a - 1].char \notin WordByte \cup suppressesNumber
         /\ ~(a > 3 /\ Exponent(u, a - 1))
PROOF
  <1>0. Len(u) \in Nat /\ Len(s) \in Nat /\ DOMAIN text = 1 .. Len(s)
    BY DEF Rest, Copied, IsText
  <1>1. /\ lo > 1 => text[lo - 1] \notin WordByte
        /\ ~(lo > 3 /\ ExponentSign(lo - 1))
    BY DEF Number
  <1> DEFINE e == a - 1
             sound(k) == /\ u[k] # Gap /\ u[k].at \in 1 .. Len(s) /\ u[k].char = text[u[k].at]
  <1>2. e \in 1 .. Len(u) /\ a = e + 1 /\ e \in Nat
    BY <1>0
  <1>4. "sp" \notin WordByte \cup suppressesNumber /\ "sp" \notin {"+", "-"}
    BY DEF WordByte, suppressesNumber, isIdentByte, isDigit, Letter, Directive
  <1>5. CASE u[e].char = "sp"
    <2> HIDE DEF e
    <2> QED BY <1>4, <1>5 DEF Exponent, e
  <1>6. CASE u[a].at = u[e].at + 1 /\ sound(e)
    <2>1. lo > 1 /\ u[e].at = lo - 1 /\ u[e].char = text[lo - 1]
      <3> DEFINE y == u[e].at
      <3>1. y \in 1 .. Len(s) /\ lo = y + 1 /\ u[e].char = text[y]
        BY <1>6
      <3> HIDE DEF y
      <3> QED BY <3>1 DEF y
    <2>2. text[lo - 1] \in ToSet(text)
      BY <1>0, <2>1 DEF ToSet
    <2>3. text[lo - 1] \notin suppressesNumber
      <3>2. suppressesNumber \subseteq WordByte \cup Directive
        BY DEF WordByte, suppressesNumber, isIdentByte
      <3> QED BY <1>1, <2>1, <2>2, <3>2 DEF Directed
    <2>4. ASSUME a > 3, Exponent(u, e) PROVE FALSE
      <3>1. u[e].char \in {"+", "-"} /\ u[e - 1].char = "e" /\ u[e - 2].char \in Dec
        BY <2>4 DEF Exponent
      <3> DEFINE f == e - 1
                 g == e - 2
      <3>2. f \in 1 .. Len(u) /\ e = f + 1 /\ g \in 1 .. Len(u) /\ f = g + 1
        BY <1>0, <1>2, <2>4
      <3>3. u[f].char # "sp" /\ u[g].char # "sp"
        BY <3>1 DEF Dec, isDigit
      <3> HIDE DEF f, g
      <3>4. u[e].at = u[f].at + 1 /\ sound(f)
        BY <1>2, <1>6, <3>2, <3>3, PrevPlace
      <3> DEFINE x == u[f].at
                 z == u[g].at
      <3>5. u[f].at = u[g].at + 1 /\ sound(g)
        BY <3>2, <3>3, <3>4, PrevPlace
      <3>6. z \in 1 .. Len(s) /\ x = z + 1 /\ lo - 1 = x + 1 /\ u[f].char = text[x] /\ u[g].char = text[z]
        BY <2>1, <3>4, <3>5
      <3> HIDE DEF x, z
      <3>7. lo > 3 /\ x = (lo - 1) - 1 /\ z = (lo - 1) - 2
        BY <3>6
      <3> DEFINE y == lo - 1
      <3> HIDE DEF y
      <3>9. ExponentSign(y)
        BY <2>1, <3>1, <3>6, <3>7 DEF f, g, Dec, ExponentSign, y
      <3> QED BY <1>1, <3>7, <3>9 DEF y
    <2> QED BY <1>1, <2>1, <2>3, <2>4
  <1> QED BY <1>2, <1>5, <1>6, PrevPlace

\* No name is kept where R has a number, but for a database with escapes.
LEMMA NoneKept ==
  ASSUME SameComments, NEW d \in Dialect, NEW R \in ReadersOf[d], Fits(R), ~NamesApart(R),
         NEW D, NEW s, NEW ms, NEW u, NEW ns, Rest(R, D, s, ms, u, ns),
         NEW a \in 1 .. Len(u), u[a].char \notin Special, Kind(ns[a - 1], ns[a]) = "plain"
  PROVE  Inside(Spans(literalSpans(u, FALSE, d), "keep"), a) = {}
PROOF
  <1> SUFFICES ASSUME NEW p \in Spans(literalSpans(u, FALSE, d), "keep"), p.lo <= a, a < p.hi PROVE FALSE
    BY DEF Inside
  <1>1. R \in Reader
    BY EscapesOf
  <1>2. u \in Seq(D) /\ Run(R, u, ns) /\ Len(u) \in Nat
    BY DEF Rest, Copied
  <1> DEFINE i == p.lo
             b == FALSE
  <1>3. b \in BOOLEAN /\ p \in Spans(literalSpans(u, b, d), "keep")
    OBVIOUS
  <1> HIDE DEF b, i
  <1>4. p.kind = "keep" /\ i \in 1 .. Len(u) /\ p = LiteralPiece(u, i, b, d)
    BY <1>2, <1>3, LiteralSpan DEF i
  <1>5. u[i].char \in {"dq", "bt"} /\ p.hi \in i + 1 .. Len(u) + 1
    BY <1>2, <1>3, <1>4, LiteralEnds
  <1>6. ASSUME NEW k \in 1 .. Len(u), u[k].char # "sp" PROVE u[k].char \in ToSet(text)
    BY <1>1, <1>6, RestAt DEF Gap, ToSet
  <1>7. Unescaped(R)
    BY <1>4, <1>5, <1>6 DEF NamesApart
  <1>9. (\E j \in 1 .. Len(u) : u[j].char = "\\") => (FALSE <=> Databases[R].escapes # {})
    <2> SUFFICES ASSUME NEW j \in 1 .. Len(u), u[j].char = "\\" PROVE Databases[R].escapes = {}
      OBVIOUS
    <2> QED BY <1>6, <1>7 DEF Unescaped
  <1>10. ReadsAs(R, u, ns, FALSE, d) /\ Uncommented(u, ns)
    BY <1>7, <1>9, RestReads DEF Unescaped, EscapesApart
  <1>12. p \in ToSet(literalSpans(u, FALSE, d))
    BY DEF Spans
  <1>13. Taken(R, u, ns, TRUE, i, p)
    BY <1>1, <1>2, <1>10, <1>12, LiteralsAre DEF LiteralsOf, i
  <1>15. a \in p.lo .. p.hi - 1
    <2> DEFINE h == p.hi
    <2>1. i \in Nat /\ h \in Nat /\ a \in Nat /\ i <= a /\ a < h
      BY <1>2, <1>4, <1>5 DEF i
    <2> HIDE DEF h
    <2>2. a \in i .. h - 1
      BY <2>1, InRange
    <2> QED BY <2>2 DEF h, i
  <1>16. InLiteral(u, ns, a)
    BY <1>4, <1>13, <1>15 DEF Taken, CommentTaken, ByteTaken, LiteralTaken
  <1> QED BY <1>1, <1>2, <1>16, KindsOf DEF Contents

\* A number of R is one for Redacted, as a whole.
LEMMA NumberLone ==
  ASSUME SameComments, ~Directed, NEW d \in Dialect, NEW R \in ReadersOf[d], Fits(R), ~NamesApart(R),
         NEW D, NEW s, NEW ms, NEW u, NEW ns, Rest(R, D, s, ms, u, ns),
         NEW lo \in 1 .. Len(s), NEW hi \in lo .. Len(s), Number(lo, hi), \A j \in lo .. hi : kinds[R][j] = "plain",
         NEW a, NEW b, Moved(s, u, lo, hi, a, b),
         NEW spans, RedactSpansOf(u, d, spans)
  PROVE  Lone(u, spans, a, b)
PROOF
  <1>1. R \in Reader
    BY EscapesOf
  <1>2. /\ u \in Seq(D) /\ Len(u) \in Nat /\ Len(s) \in Nat /\ IsText(D, s)
        /\ a \in 1 .. Len(u) /\ b \in a .. Len(u) /\ a \in Nat /\ b \in Nat /\ a <= b /\ a > 0 /\ b <= Len(u)
    BY DEF Rest, Copied, IsText, Moved
  <1>3. s[lo].char \in isDigit /\ Numeral(s, lo, hi)
    BY <1>2, NumberIs
  <1>4. Numeral(u, a, b)
    BY <1>2, <1>3, NumeralMoved
  <1>5. u[a] = s[lo] /\ u[a].at = lo
    <2>1. a \in a .. b /\ lo + (a - a) = lo
      BY <1>2
    <2> QED BY <2>1 DEF Moved
  <1>6. u[a].char \in isDigit /\ u[a].char # "x" /\ u[a] # Gap
    BY <1>3, <1>5 DEF Gap, isDigit
  <1>7. a > 1 => /\ u[a - 1].char \notin WordByte \cup suppressesNumber
                 /\ ~(a > 3 /\ Exponent(u, a - 1))
    BY <1>1, <1>2, <1>5, <1>6, WordBefore
  <1>9. ASSUME NEW i \in 1 .. Len(u), i < a, u[i].char \in isDigit PROVE scanNumber(u, i) <= a
    <2>2. u[a - 1].char \notin WordByte /\ ~(a > 3 /\ Exponent(u, a - 1))
      BY <1>2, <1>7, <1>9
    <2> QED BY <1>2, <1>6, <1>9, <2>2, NumberBefore
  <1>10. u[a].char \notin Special /\ Kind(ns[a - 1], ns[a]) = "plain"
    <2>2. u[a].char \notin Special
      BY <1>2, <1>4, NumeralBytes
    <2>3. PICK j \in 1 .. Len(s) : u[a].at = j /\ Kind(ns[a - 1], ns[a]) = kinds[R][j]
      BY <1>1, <1>2, <1>6, RestAt
    <2> QED BY <1>5, <2>2, <2>3
  <1>11. Inside(spans.keep, a) = {}
    <2>1. spans.keep = Spans(literalSpans(u, FALSE, d), "keep")
      BY DEF RedactSpansOf
    <2> QED BY <1>2, <1>10, <2>1, NoneKept
  <1>12. ASSUME NEW p \in spans.redact PROVE p.hi \notin a + 1 .. b
    <2> DEFINE h == p.hi
    <2> SUFFICES ASSUME h \in a + 1 .. b PROVE FALSE
      OBVIOUS
    <2>1. h = Len(u) + 1 \/ u[h - 1].char \in Closers
      BY DEF RedactSpansOf
    <2> HIDE DEF h
    <2>2. h - 1 \in a .. b /\ h # Len(u) + 1
      BY <1>2
    <2>3. u[h - 1].char \notin Closers
      BY <1>2, <1>4, <2>2, NumeralBytes
    <2> QED BY <2>1, <2>2, <2>3
  <1> QED BY <1>2, <1>4, <1>6, <1>7, <1>9, <1>11, <1>12, NumberPast DEF Lone

LEMMA Shifted ==
  ASSUME NEW a \in Nat, NEW b \in Nat, NEW lo \in Nat, NEW hi \in Nat, NEW i \in Nat, lo <= i, i <= hi,
         b - a = hi - lo, NEW l, l = a + (i - lo)
  PROVE  l \in a .. b /\ lo + (l - a) = i
PROOF OBVIOUS

LEMMA NumbersRedacted ==
  ASSUME SameComments, ~Directed, NEW d \in Dialect, NEW R \in ReadersOf[d], Fits(R),
         NEW D, NEW s, NEW ms, NEW u, NEW ns, Rest(R, D, s, ms, u, ns),
         NEW i \in Survivors(Redacted(u, redactSpans(u, d))), i \in DOMAIN text, InNumber(R, i)
  PROVE  NamesApart(R)
PROOF
  <1> SUFFICES ASSUME ~NamesApart(R) PROVE FALSE
    OBVIOUS
  <1> DEFINE spans == redactSpans(u, d)
  <1>1. R \in Reader
    BY EscapesOf
  <1>2. u \in Seq(D) /\ Len(u) \in Nat /\ Len(s) \in Nat /\ Len(text) = Len(s) /\ i \in 1 .. Len(s)
    BY DEF Rest, Copied, IsText
  <1>3. RedactSpansOf(u, d, spans)
    BY <1>2, RedactSpansAre
  <1>4. EndsIn(u, spans) /\ i \in Survivors(Redacted(u, spans)) /\ i # 0
    BY <1>2, <1>3 DEF RedactSpansOf
  <1> HIDE DEF spans
  <1>5. PICK lo \in 1 .. i, hi \in i .. Len(text) : Number(lo, hi) /\ \A j \in lo .. hi : kinds[R][j] = "plain"
    BY DEF InNumber
  <1>6. lo \in 1 .. Len(s) /\ hi \in lo .. Len(s) /\ lo \in Nat /\ hi \in Nat /\ lo <= i /\ i <= hi
    BY <1>2
  <1>7. PICK a, b : Moved(s, u, lo, hi, a, b)
    BY <1>1, <1>5, <1>6, PlainMoved
  <1>8. Lone(u, spans, a, b)
    BY <1>3, <1>5, <1>6, <1>7, NumberLone
  <1>9. Outside(u, spans, a, b, i)
    BY <1>2, <1>4, <1>8, LeftOver
  <1>10. PICK k \in 1 .. Len(u) : u[k].at = i /\ k \notin a .. b
    BY <1>9 DEF Outside
  <1>11. a \in 1 .. Len(u) /\ b \in a .. Len(u) /\ b - a = hi - lo
    BY <1>7 DEF Moved
  <1> DEFINE l == a + (i - lo)
  <1>12. l \in a .. b /\ lo + (l - a) = i /\ l \in 1 .. Len(u)
    <2>1. a \in Nat /\ b \in Nat /\ i \in Nat
      BY <1>2, <1>11
    <2>2. l \in a .. b /\ lo + (l - a) = i
      BY <1>6, <1>11, <2>1, Shifted
    <2> HIDE DEF l
    <2> QED BY <1>2, <1>11, <2>1, <2>2
  <1> HIDE DEF l
  <1>13. u[l].at = i
    BY <1>7, <1>12 DEF Moved
  <1>14. k = l
    BY <1>1, <1>2, <1>10, <1>12, <1>13, OnePlace
  <1> QED BY <1>10, <1>12, <1>14
-----------------------------------------------------------------------------
(* What stripComments finds and what R finds.                              *)

\* It keeps the bytes of a piece that is no comment, and those only.
LEMMA StripKeeps ==
  ASSUME NEW D, NEW s \in Seq(D), Gap \in D, Numbered(s), NEW ps, ps = StripPieces(s),
         NEW m \in 1 .. Len(ps), NEW k \in ps[m].lo .. ps[m].hi - 1
  PROVE  k \in Survivors(stripComments(s)) <=> ps[m].kind # "comment"
PROOF
  <1> DEFINE w == stripComments(s)
             c == Len(ps)
  <1>0. InTurn(s, ps)
    BY StripInTurn
  <1>1. PICK q : StripWrites(D, s, ps, q) /\ w = FlattenSeq(q)
    BY <1>0, StripWritten
  <1> HIDE DEF w
  <1>2. q \in Seq(Seq(D)) /\ Len(q) = c
    BY <1>1 DEF StripWrites
  <1>3. w \in Seq(D) /\ \E off : Spread(q, w, off)
    BY <1>1, <1>2, FlattenSpreads
  <1>4. PICK off : Spread(q, w, off)
    BY <1>3
  <1>6. ASSUME NEW y \in 1 .. c
        PROVE  /\ ps[y].lo \in 1 .. Len(s) /\ ps[y].hi \in Nat /\ ps[y].lo < ps[y].hi /\ ps[y].hi <= Len(s) + 1
    BY <1>0 DEF InTurn
  <1>7. ASSUME NEW y \in 1 .. c, ps[y].kind = "comment"
        PROVE  Len(q[y]) = 1 /\ q[y][1] = Gap
    BY <1>1, <1>7 DEF StripWrites
  <1>8. ASSUME NEW y \in 1 .. c, ps[y].kind # "comment"
        PROVE  /\ Len(q[y]) = ps[y].hi - ps[y].lo
               /\ \A x \in 1 .. ps[y].hi - ps[y].lo : q[y][x].at = ps[y].lo + x - 1
    <2> DEFINE lo == ps[y].lo
               h == ps[y].hi
               u == q[y]
    <2>1. lo \in 1 .. Len(s) /\ h \in Nat /\ lo < h /\ h <= Len(s) + 1
      BY <1>6
    <2>2. u = SubSeq(s, lo, h - 1)
      BY <1>1, <1>8 DEF StripWrites
    <2> HIDE DEF lo, h, u
    <2>3. Len(u) = h - lo /\ \A x \in 1 .. h - lo : u[x] = s[lo + x - 1]
      BY <2>1, <2>2, CutOut
    <2>4. \A x \in 1 .. h - lo : lo + x - 1 \in 1 .. Len(s)
      BY <2>1
    <2>5. \A x \in 1 .. h - lo : u[x].at = lo + x - 1
      BY <2>3, <2>4 DEF Numbered
    <2> QED BY <2>3, <2>5 DEF lo, h, u
  <1> HIDE DEF c
  <1>9. m \in 1 .. c
    BY DEF c
  <1>10. ASSUME ps[m].kind # "comment" PROVE \E y \in 1 .. Len(w) : w[y].at = k
    <2> DEFINE lo == ps[m].lo
               h == ps[m].hi
               x == k - lo + 1
    <2>1. lo \in Nat /\ h \in Nat /\ k \in lo .. h - 1
      BY <1>6, <1>9
    <2>2. Len(q[m]) = h - lo /\ \A z \in 1 .. h - lo : q[m][z].at = lo + z - 1
      BY <1>8, <1>9, <1>10
    <2> HIDE DEF lo, h
    <2>3. x \in 1 .. h - lo /\ lo + x - 1 = k
      BY <2>1
    <2> HIDE DEF x
    <2>4. off[m] + x \in 1 .. Len(w) /\ w[off[m] + x] = q[m][x]
      BY <1>2, <1>4, <1>9, <2>2, <2>3 DEF Spread
    <2> QED BY <2>2, <2>3, <2>4
  <1>11. ASSUME NEW y \in 1 .. Len(w), w[y].at = k PROVE ps[m].kind # "comment"
    <2>1. PICK e \in 1 .. c : \E x \in 1 .. Len(q[e]) : y = off[e] + x
      BY <1>2, <1>4 DEF Spread
    <2>2. PICK x \in 1 .. Len(q[e]) : y = off[e] + x
      BY <2>1
    <2>3. q[e][x].at = k
      BY <1>2, <1>4, <1>11, <2>2 DEF Spread
    <2>4. k >= 1 /\ k \in Nat
      <3> DEFINE lo == ps[m].lo
                 h == ps[m].hi
      <3>1. lo \in 1 .. Len(s) /\ h \in Nat /\ k \in lo .. h - 1
        BY <1>6, <1>9
      <3> HIDE DEF lo, h
      <3> QED BY <3>1
    <2>5. ps[e].kind # "comment"
      <3> SUFFICES ASSUME ps[e].kind = "comment" PROVE FALSE
        OBVIOUS
      <3>1. Len(q[e]) = 1 /\ q[e][1] = Gap
        BY <1>7
      <3> QED BY <2>3, <2>4, <3>1 DEF Gap
    <2>6. k \in ps[e].lo .. ps[e].hi - 1
      <3> DEFINE lo == ps[e].lo
                 h == ps[e].hi
      <3>1. x \in 1 .. h - lo /\ q[e][x].at = lo + x - 1 /\ lo \in 1 .. Len(s) /\ h \in Nat
        BY <1>6, <1>8, <2>5
      <3> HIDE DEF lo, h
      <3>2. k \in lo .. h - 1
        BY <2>3, <3>1
      <3> QED BY <3>2 DEF lo, h
    <2>7. e = m
      <3>1. ASSUME NEW a \in 1 .. c, NEW b \in 1 .. c, a < b, k \in ps[a].lo .. ps[a].hi - 1, k \in ps[b].lo .. ps[b].hi - 1
            PROVE  FALSE
        <4> DEFINE h == ps[a].hi
                   lo == ps[b].lo
        <4>1. h <= lo /\ h \in Nat /\ lo \in Nat
          <5>2. h <= lo
            BY <1>0, <3>1, InTurnOrdered DEF c
          <5>3. h \in Nat
            BY <1>6
          <5>4. lo \in 1 .. Len(s)
            BY <1>6
          <5> HIDE DEF h, lo
          <5> QED BY <5>2, <5>3, <5>4
        <4>2. k <= h - 1 /\ lo <= k
          BY <3>1, <4>1
        <4> HIDE DEF h, lo
        <4> QED BY <2>4, <4>1, <4>2
      <3>3. e < m \/ m < e \/ e = m
        BY <1>0, <1>9 DEF InTurn, c
      <3> QED BY <1>9, <2>6, <3>1, <3>3
    <2> QED BY <2>5, <2>7
  <1> QED BY <1>3, <1>10, <1>11 DEF Survivors, w

\* Outside everything, and not in a comment, the marker of one begins it.
LEMMA MarkerBegins ==
  ASSUME NEW R \in Reader, NEW m, Shaped(m), m.in \in {"plain", "closed", "tag"}, NEW c \in {"--", "/*"}, NEW prev
  PROVE  Steps(R, m, c, prev) = Begins(R, c, prev)
PROOF
  <1>1. c \notin isIdentByte /\ c \notin Quote \cup {"bt"} /\ c # "$"
    BY DEF isIdentByte, isDigit, Letter, Quote
  <1>2. CASE m.in = "plain"
    BY <1>2 DEF Steps, Reads
  <1>3. CASE m.in = "closed"
    BY <1>1, <1>3 DEF Shaped, Steps, Reads
  <1>4. CASE m.in = "tag"
    BY <1>1, <1>4 DEF Steps, Reads
  <1> QED BY <1>2, <1>3, <1>4

\* Where stripComments may begin: after no comment, or outside everything after one.
Fresh(R, s, ms, i) ==
    i <= Len(s) =>
      \/ i = 1
      \/ Kind(ms[i - 2], ms[i - 1]) \notin {"comment", "dash"}
      \/ ms[i] = Begins(R, s[i].char, "sp") /\ ms[i - 1].in # "block"

LEMMA KindIn ==
  ASSUME NEW m, NEW x
  PROVE  Kind(m, x) \in {"comment", "dash"} <=> m.in = "block" \/ x.in \in InComments
PROOF
  <1>1. CASE m.in = "block" \/ x.in \in InComments
    BY <1>1, KindOf
  <1>2. ASSUME m.in # "block", x.in \notin InComments PROVE Kind(m, x) \notin {"comment", "dash"}
    BY <1>2 DEF InComments, Kind
  <1> QED BY <1>1, <1>2

\* There a marker begins a comment if what it begins is not in the text for R.
LEMMA CommentBegins ==
  ASSUME NEW R \in Reader, NEW C, NEW s \in Seq(C), NEW ms, Run(R, s, ms), NEW i \in 1 .. Len(s),
         Fresh(R, s, ms, i), s[i].char \in {"--", "/*"}, Kind(ms[i - 1], ms[i]) \in {"comment", "dash"}
  PROVE  Boundary(R, s, ms, i)
PROOF
  <1> DEFINE c == s[i].char
  <1>1. i \in Nat /\ i <= Len(s) /\ i >= 1 /\ (i = 1 => i - 1 = 0)
    OBVIOUS
  <1>2. ms[i] = Steps(R, ms[i - 1], c, Prev(s, i))
    BY DEF Run
  <1>3. \A p : Begins(R, c, p) = Begins(R, c, "sp")
    <2> TAKE p
    <2> QED BY BeginsOther
  <1>4. CASE i = 1
    BY <1>1, <1>2, <1>4, ReadsRest DEF Run, Boundary
  <1>5. CASE i # 1 /\ Kind(ms[i - 2], ms[i - 1]) \notin {"comment", "dash"}
    <2>1. ms[i - 1].in \notin InComments
      BY <1>5, KindIn
    <2>2. ms[i].in \in InComments
      BY <2>1, KindIn DEF InComments
    <2>3. Shaped(ms[i - 1])
      BY <1>1, RunShaped
    <2> QED BY <1>2, <2>1, <2>2, <2>3, IntoComment, MarkerBegins DEF Boundary
  <1>6. CASE ms[i] = Begins(R, c, "sp")
    BY <1>3, <1>6 DEF Boundary
  <1> QED BY <1>1, <1>4, <1>5, <1>6 DEF Fresh

\* What stripComments takes for a comment is one for R.
LEMMA StripComment ==
  ASSUME NEW R \in Reader, NEW C, NEW s \in Seq(C), NEW ms, Run(R, s, ms), Dashes(s), NEW i \in 1 .. Len(s),
         Fresh(R, s, ms, i), NEW p, p = StripPiece(s, i), p.kind = "comment",
         Kind(ms[i - 1], ms[i]) \in {"comment", "dash"}
  PROVE  CommentTaken(R, s, ms, p) /\ Fresh(R, s, ms, p.hi)
PROOF
  <1> DEFINE c == s[i].char
  <1>1. p = CASE c \in Quote -> Piece("copy", i, scanQuotedRun(s, i, FALSE))
              [] c = "$"  -> DollarPiece("copy", i, scanDollarQuoted(s, i))
              [] c = "--" -> Piece("comment", i, skipLineComment(s, i))
              [] c = "/*" -> Piece("comment", i, skipBlockComment(s, i))
              [] OTHER    -> Byte(i)
    BY DEF StripPiece
  <1>2. c \in Quote => c \notin {"$", "--", "/*", "bt"}
    BY DEF Quote
  <1>3. c \in {"--", "/*"}
    <2>1. CASE c \in Quote
      <3> DEFINE h == scanQuotedRun(s, i, FALSE)
      <3>1. p = Piece("copy", i, h)
        BY <1>1, <1>2, <2>1
      <3> HIDE DEF h
      <3> QED BY <3>1, PieceIs
    <2>2. CASE c = "$"
      <3>2. p.kind \in {"copy", "byte"}
        BY <1>1, <1>2, <2>2, PieceIs DEF DollarPiece, Byte
      <3> QED BY <3>2
    <2>3. CASE c \notin Quote \cup {"$", "--", "/*"}
      <3>1. p = Byte(i)
        BY <1>1, <2>3
      <3> QED BY <3>1, PieceIs DEF Byte
    <2> QED BY <2>1, <2>2, <2>3
  <1>5. Boundary(R, s, ms, i)
    BY <1>3, CommentBegins
  <1>6. s[i].char = "--" /\ i < Len(s) => s[i + 1].char \in Blank
    BY DEF Dashes
  <1> DEFINE b == FALSE
  <1> HIDE DEF b
  <1>7. Taken(R, s, ms, b, i, p)
    BY <1>1, <1>2, <1>3, <1>5, <1>6, TakesComment
  <1>8. CommentTaken(R, s, ms, p)
    BY <1>7 DEF Taken, LiteralTaken, ByteTaken
  <1> QED BY <1>8 DEF CommentTaken, Fresh

\* If stripComments takes out what is a comment for R, its pieces are R's.
LEMMA CommentsFit ==
  ASSUME NEW R \in Reader, CommentsFound(R), NEW D, NEW s, IsText(D, s), s = Bytes(text),
         NEW ms, IsRun(R, s, ms), Dashes(s), NEW ps, ps = StripPieces(s)
  PROVE  StripFits(R, s, ms, ps)
PROOF
  <1> DEFINE c == Len(ps)
             Found(k) == Kind(ms[k - 1], ms[k]) \notin {"comment", "dash"}
  <1>1. /\ s \in Seq(D) /\ Gap \in D /\ Numbered(s) /\ Run(R, s, ms) /\ Len(s) \in Nat /\ DOMAIN text = 1 .. Len(s)
        /\ \A k \in 1 .. Len(s) : kinds[R][k] = Kind(ms[k - 1], ms[k])
    BY DEF IsText, IsRun
  <1>2. InTurn(s, ps) /\ \A m \in 1 .. c : ps[m] = StripPiece(s, ps[m].lo)
    BY <1>1, StripInTurn
  <1>3. /\ c \in Nat /\ DOMAIN ps = 1 .. c
        /\ c > 0 => ps[1].lo = 1
        /\ \A m \in 1 .. c :
             /\ ps[m].lo \in 1 .. Len(s) /\ ps[m].hi \in Nat
             /\ ps[m].lo < ps[m].hi /\ ps[m].hi <= Len(s) + 1
             /\ ps[m].hi = IF m < c THEN ps[m + 1].lo ELSE Len(s) + 1
    BY <1>2 DEF InTurn
  <1>4. ASSUME NEW m \in 1 .. c, NEW k \in ps[m].lo .. ps[m].hi - 1
        PROVE  k \in 1 .. Len(s) /\ (Found(k) <=> ps[m].kind # "comment")
    <2> DEFINE lo == ps[m].lo
               h == ps[m].hi
    <2> HIDE DEF lo, h
    <2>2. k \in 1 .. Len(s)
      BY <1>1, <1>3
    <2>4. k \in Survivors(stripComments(s)) <=> kinds[R][k] \notin {"comment", "dash"}
      BY <1>1, <2>2 DEF CommentsFound
    <2> QED BY <1>1, <2>2, <2>4, StripKeeps
  <1> HIDE DEF c
  <1> DEFINE T == {e \in Nat : e + 1 <= c => Fresh(R, s, ms, ps[e + 1].lo)}
  <1>5. 0 \in T
    BY <1>3 DEF Fresh
  <1>6. ASSUME NEW m \in 1 .. c, Fresh(R, s, ms, ps[m].lo)
        PROVE  /\ Fresh(R, s, ms, ps[m].hi)
               /\ \/ CommentTaken(R, s, ms, ps[m])
                  \/ ps[m].kind # "comment" /\ \A k \in ps[m].lo .. ps[m].hi - 1 : ms[k].in \notin InComments
    <2> DEFINE p == ps[m]
               lo == p.lo
               h == p.hi
    <2>1. lo \in 1 .. Len(s) /\ h \in Nat /\ lo < h /\ h <= Len(s) + 1 /\ p = StripPiece(s, lo) /\ Fresh(R, s, ms, lo)
      BY <1>2, <1>3, <1>6 DEF c
    <2>2. \A k \in lo .. h - 1 : k \in 1 .. Len(s) /\ (Found(k) <=> p.kind # "comment")
      BY <1>4
    <2> HIDE DEF p, lo, h
    <2>3. lo \in lo .. h - 1 /\ h - 1 \in lo .. h - 1 /\ (h - 1) - 1 = h - 2
      BY <2>1
    <2>4. CASE p.kind = "comment"
      <3>2. CommentTaken(R, s, ms, p) /\ Fresh(R, s, ms, p.hi)
        BY <1>1, <2>1, <2>2, <2>3, <2>4, StripComment
      <3> QED BY <3>2 DEF p
    <2>5. CASE p.kind # "comment"
      <3>2. Fresh(R, s, ms, h)
        BY <2>2, <2>3, <2>5 DEF Fresh
      <3>3. ASSUME NEW k \in lo .. h - 1 PROVE ms[k].in \notin InComments
        BY <2>2, <2>5, KindIn
      <3> QED BY <2>5, <3>2, <3>3 DEF p, lo, h
    <2> QED BY <2>4, <2>5
  <1>7. ASSUME NEW e \in Nat, e \in T PROVE e + 1 \in T
    <2> DEFINE m == e + 1
    <2> SUFFICES ASSUME m + 1 <= c PROVE Fresh(R, s, ms, ps[m + 1].lo)
      OBVIOUS
    <2>1. m \in 1 .. c /\ m < c /\ Fresh(R, s, ms, ps[m].lo)
      BY <1>3, <1>7
    <2> HIDE DEF m
    <2>2. Fresh(R, s, ms, ps[m].hi) /\ ps[m].hi = ps[m + 1].lo
      BY <1>3, <1>6, <2>1
    <2> QED BY <2>2
  <1> HIDE DEF T
  <1>9. ASSUME NEW m \in 1 .. c
        PROVE  \/ CommentTaken(R, s, ms, ps[m])
               \/ ps[m].kind # "comment" /\ \A k \in ps[m].lo .. ps[m].hi - 1 : ms[k].in \notin InComments
    <2>1. m - 1 \in Nat /\ (m - 1) + 1 = m /\ m <= c
      BY <1>3
    <2>2. Fresh(R, s, ms, ps[m].lo)
      BY <1>5, <1>7, <2>1, Induct DEF T
    <2> QED BY <1>6, <2>2
  <1> QED BY <1>2, <1>9 DEF StripFits, c

\* Then R reads what stripComments leaves of the text as it reads the text.
LEMMA RestExists ==
  ASSUME TextInv, SameComments, NEW R \in Reader, Fits(R), Unescaped(R) \/ CommentsFound(R),
         NEW s, s = Bytes(text)
  PROVE  \E D, ms, ns : Rest(R, D, s, ms, stripComments(s), ns)
PROOF
  <1>1. PICK D : IsText(D, s)
    BY TextIs
  <1>2. PICK ms : IsRun(R, s, ms)
    BY <1>1, RunIs DEF Fits
  <1>3. s \in Seq(D) /\ Gap \in D /\ Numbered(s) /\ Run(R, s, ms)
    BY <1>1, <1>2 DEF IsText, IsRun
  <1>4. CASE Unescaped(R)
    <2>2. \A k \in 1 .. Len(s) : s[k].char = "$" =>
            (Databases[R].dollar \/ (ms[k] = Plain => k > 1 /\ s[k - 1].char \in isIdentByte))
      BY <1>1, <1>2, DollarFits
    <2>3. Suits(R, s, ms, TRUE) /\ Dashes(s)
      BY <1>1, <1>2, <1>4, <2>2, TextSuits DEF Fits
    <2> QED BY <1>1, <1>2, <1>3, <2>3, StripCopies DEF Rest
  <1>5. CASE CommentsFound(R)
    <2>1. Dashes(s)
      <3>1. ASSUME NEW k \in 1 .. Len(s), s[k].char = "--", k < Len(s) PROVE s[k + 1].char \in Blank
        <4>1. Len(s) \in Nat /\ Len(s) = Len(text)
          BY <1>1, <1>3 DEF IsText
        <4>3. text[k] = "--" /\ k \in DOMAIN text /\ s[k + 1].char = text[k + 1]
          BY <1>1, <3>1, <4>1 DEF IsText
        <4> QED BY <3>1, <4>1, <4>3 DEF SameComments
      <3> QED BY <3>1 DEF Dashes
    <2>3. \E ns : Copied(R, D, s, ms, Len(s) + 1, stripComments(s), ns)
      BY <1>1, <1>2, <1>3, <1>5, <2>1, CommentsFit, FitCopies
    <2> QED BY <1>1, <1>2, <2>3 DEF Rest
  <1> QED BY <1>4, <1>5

\* For every alphabet and every length: what Redact returns holds no letter or digit
\* of a string or a number, whatever database of the dialect reads the text, but for
\* those that found a comment in a comment and those whose escapes no scanner of
\* the dialect knows (redact.go: Redact, redactSpans, unionSpans).  A database reads what stripComments leaves as it reads
\* the text (RestExists); one of the readings that redactSpans unites is that
\* database's, so a string of it is in a span (StringsRedacted), and no span or
\* number that begins elsewhere ends inside a number (NumbersRedacted).
THEOREM LiteralsRedactedHolds == Spec => []LiteralsRedacted
PROOF
  <1>1. TextInv => LiteralsRedacted
    <2> SUFFICES ASSUME TextInv, SameComments, ~Directed,
                        NEW d \in Dialect,
                        NEW R \in ReadersOf[d], R \in Reader, Fits(R), Unescaped(R) \/ CommentsFound(R),
                        NEW i \in Survivors(redact(Bytes(text), d)) \cap Payload
                 PROVE  /\ String(R, i) =>
                             /\ d = "unknown"
                             /\ EscapesApart(R) \/ (kinds[R][i] = "double-quoted" /\ NameShaped(i))
                        /\ InNumber(R, i) => NamesApart(R)
      BY DEF LiteralsRedacted
    <2> DEFINE s == Bytes(text)
               u == stripComments(s)
    <2>1. i \in Survivors(Redacted(u, redactSpans(u, d)))
      BY DEF redact
    <2>2. i \in DOMAIN text /\ text[i] \notin Quote
      BY DEF Payload, Letter, isDigit, Quote
    <2> HIDE DEF s
    <2>4. PICK D, ms, ns : Rest(R, D, s, ms, u, ns)
      BY RestExists DEF s
    <2> HIDE DEF u
    <2>6. InNumber(R, i) => NamesApart(R)
      BY <2>1, <2>2, <2>4, NumbersRedacted
    <2> QED BY <2>1, <2>2, <2>4, <2>6, StringsRedacted
  <1> QED BY <1>1, TextRead, PTL
=============================================================================
