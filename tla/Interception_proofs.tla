------------------------- MODULE Interception_proofs -------------------------
(***************************************************************************)
(* Proofs about Interception, for any goroutines, surfaces, threshold and   *)
(* bounds: every surface is in step with its program and its clock, checks *)
(* a statement that ran exactly once per Guard, and reports it as slow     *)
(* when the driver wrapper would, apart from the three named deviations.   *)
(***************************************************************************)
EXTENDS Interception, FiniteSetTheorems, SequenceTheorems, TLAPS

Step == {"check", "start", "restart", "database", "measure", "latency"}

\* What IInv says of one goroutine.
ThreadInv(t) == IF Early(t) THEN EarlyInv(t) ELSE CallsInv(t) /\ ClockInv(t)

-----------------------------------------------------------------------------
(***************************************************************************)
(* The programs.                                                           *)
(***************************************************************************)

\* Each program is a sequence of calls, and the surfaces that share it.
LEMMA Programs ==
    /\ \A s \in Surface : Calls(s) \in Seq(Step)
    /\ \A s \in {"pgx", "sqlx", "ent"} : Calls(s) = Observe /\ Len(Calls(s)) = 5
    /\ \A s \in {"driver", "xorm"} : Calls(s) = AnalyzeExecuted /\ Len(Calls(s)) = 5
    /\ \A s \in {"bun", "gorm"} : Calls(s) = AfterQuery /\ Len(Calls(s)) = 5
    /\ Calls("batch") = TraceBatchQuery /\ Len(Calls("batch")) = 2
    /\ Calls("composed") = Composed /\ Len(Calls("composed")) = 9
<1>1. Observe \in Seq(Step) /\ Len(Observe) = 5
  BY DEF Observe, Step
<1>2. AnalyzeExecuted \in Seq(Step) /\ Len(AnalyzeExecuted) = 5
  BY DEF AnalyzeExecuted, Step
<1>3. AfterQuery \in Seq(Step) /\ Len(AfterQuery) = 5
  BY DEF AfterQuery, Step
<1>4. TraceBatchQuery \in Seq(Step) /\ Len(TraceBatchQuery) = 2
  BY DEF TraceBatchQuery, Step
<1>5. Composed \in Seq(Step) /\ Len(Composed) = 9
  BY DEF Composed, Step
<1>6. \A s \in {"pgx", "sqlx", "ent"} : Calls(s) = Observe
  BY DEF Calls, StopsInHook
<1>7. \A s \in {"driver", "xorm"} : Calls(s) = AnalyzeExecuted
  BY DEF Calls, StopsInHook, AfterProcess, AnalyzeExecuted
<1>8. \A s \in {"bun", "gorm"} : Calls(s) = AfterQuery
  BY DEF Calls, StopsInHook
<1>9. Calls("batch") = TraceBatchQuery /\ Calls("composed") = Composed
  BY DEF Calls, StopsInHook
<1>10. QED
  BY <1>1, <1>2, <1>3, <1>4, <1>5, <1>6, <1>7, <1>8, <1>9 DEF Surface

\* The calls of a kind are counted one call at a time.
LEMMA MadeStep ==
    ASSUME NEW s, NEW x
    PROVE  /\ Made(s, 0, x) = 0
           /\ \A n \in Nat :
                /\ Made(s, n, x) \in Nat
                /\ Made(s, n + 1, x)
                     = Made(s, n, x) + (IF Calls(s)[n + 1] = x THEN 1 ELSE 0)
<1>. DEFINE S(n) == {i \in 1..n : Calls(s)[i] = x}
<1>1. ASSUME NEW n \in Nat
      PROVE  /\ Cardinality(S(n)) \in Nat
             /\ Cardinality(S(n + 1))
                  = Cardinality(S(n)) + (IF Calls(s)[n + 1] = x THEN 1 ELSE 0)
  <2>1. IsFiniteSet(S(n))
    <3>1. IsFiniteSet(1..n) /\ S(n) \subseteq 1..n
      BY FS_Interval
    <3>2. QED
      BY <3>1, FS_Subset
  <2>2. Cardinality(S(n)) \in Nat
    BY <2>1, FS_CardinalityType
  <2>3. CASE Calls(s)[n + 1] = x
    <3>1. S(n + 1) = S(n) \cup {n + 1} /\ n + 1 \notin S(n)
      BY <2>3
    <3>2. QED
      BY <2>1, <2>2, <2>3, <3>1, FS_AddElement
  <2>4. CASE Calls(s)[n + 1] # x
    <3>1. S(n + 1) = S(n)
      BY <2>4
    <3>2. QED
      BY <2>2, <2>4, <3>1
  <2>5. QED
    BY <2>2, <2>3, <2>4
<1>2. S(0) = {}
  OBVIOUS
<1>3. QED
  BY <1>1, <1>2, FS_EmptySet DEF Made

\* The same, call by call of the longest program.
LEMMA MadeUnrolled ==
    ASSUME NEW s, NEW x
    PROVE  /\ Made(s, 0, x) = 0
           /\ Made(s, 1, x) = Made(s, 0, x) + (IF Calls(s)[1] = x THEN 1 ELSE 0)
           /\ Made(s, 2, x) = Made(s, 1, x) + (IF Calls(s)[2] = x THEN 1 ELSE 0)
           /\ Made(s, 3, x) = Made(s, 2, x) + (IF Calls(s)[3] = x THEN 1 ELSE 0)
           /\ Made(s, 4, x) = Made(s, 3, x) + (IF Calls(s)[4] = x THEN 1 ELSE 0)
           /\ Made(s, 5, x) = Made(s, 4, x) + (IF Calls(s)[5] = x THEN 1 ELSE 0)
           /\ Made(s, 6, x) = Made(s, 5, x) + (IF Calls(s)[6] = x THEN 1 ELSE 0)
           /\ Made(s, 7, x) = Made(s, 6, x) + (IF Calls(s)[7] = x THEN 1 ELSE 0)
           /\ Made(s, 8, x) = Made(s, 7, x) + (IF Calls(s)[8] = x THEN 1 ELSE 0)
           /\ Made(s, 9, x) = Made(s, 8, x) + (IF Calls(s)[9] = x THEN 1 ELSE 0)
<1>. DEFINE M(n) == Made(s, n, x)
            One(n) == IF Calls(s)[n] = x THEN 1 ELSE 0
<1>1. M(0) = 0 /\ \A n \in Nat : M(n + 1) = M(n) + One(n + 1)
  BY MadeStep
<1>. HIDE DEF M, One
<1>2. /\ M(0 + 1) = M(0) + One(0 + 1) /\ M(1 + 1) = M(1) + One(1 + 1)
      /\ M(2 + 1) = M(2) + One(2 + 1) /\ M(3 + 1) = M(3) + One(3 + 1)
      /\ M(4 + 1) = M(4) + One(4 + 1) /\ M(5 + 1) = M(5) + One(5 + 1)
      /\ M(6 + 1) = M(6) + One(6 + 1) /\ M(7 + 1) = M(7) + One(7 + 1)
      /\ M(8 + 1) = M(8) + One(8 + 1)
  BY <1>1
<1>3. /\ M(1) = M(0) + One(1) /\ M(2) = M(1) + One(2) /\ M(3) = M(2) + One(3)
      /\ M(4) = M(3) + One(4) /\ M(5) = M(4) + One(5) /\ M(6) = M(5) + One(6)
      /\ M(7) = M(6) + One(7) /\ M(8) = M(7) + One(8) /\ M(9) = M(8) + One(9)
  BY <1>2
<1>4. QED
  BY <1>1, <1>3 DEF M, One

\* What holds before each kind of call, by the order of the program.
InOrder(s, n) ==
    LET N       == Len(Calls(s))
        made(x) == Made(s, n, x)
        next(x) == Calls(s)[n + 1] = x
        then(x) == n + 1 < N /\ Calls(s)[n + 2] = x
    IN  /\ next("start") => made("database") = 0 /\ (StopsInHook(s) => made("check") = 0)
        /\ next("restart") => /\ made("database") = 0 /\ made("restart") = 0
                              /\ made("latency") = 0 /\ ~StopsInHook(s)
        /\ next("check") /\ ~StopsInHook(s) =>
             ~then("database") /\ ~then("measure") /\ ~(s = "composed" /\ then("latency"))
        /\ next("check") /\ StopsInHook(s) => made("measure") = 0
        /\ next("database") => made("latency") = 0 /\ made("measure") = 0
        /\ next("database") /\ (s \in {"driver", "batch"} \/ Renders(s)) => made("check") = 0
        /\ next("measure") => s # "batch" /\ (made("latency") = 0 \/ made("measure") > 0)
        /\ next("latency") /\ s # "composed" => n + 1 = N

\* A surface whose clock counts starts it before the database and, where it counts
\* Check, before that.
Begins(s) ==
    s # "batch" => Calls(s)[1] = "start" \/ (Calls(s)[1] = "check" /\ ~StopsInHook(s))

\* The calls a surface makes in all.
Totals(s) ==
    LET made(x) == Made(s, Len(Calls(s)), x)
        twice   == IF s = "composed" THEN 2 ELSE 1
    IN  /\ made("database") = 1
        /\ made("check") = twice
        /\ made("restart") = twice - 1
        /\ s # "batch" => made("measure") = twice /\ made("latency") = twice

\* Each program is in order, whatever calls it has made, and asks the database once.
LEMMA ObserveOrder ==
    ASSUME NEW s \in {"pgx", "sqlx", "ent"}
    PROVE  /\ \A n \in 0..(Len(Calls(s)) - 1) : InOrder(s, n)
           /\ Totals(s) /\ Begins(s)
<1>1. Calls(s) = Observe /\ Len(Calls(s)) = 5
  BY Programs
<1>2. /\ Calls(s)[1] = "check" /\ Calls(s)[2] = "start" /\ Calls(s)[3] = "database"
      /\ Calls(s)[4] = "measure" /\ Calls(s)[5] = "latency"
  BY <1>1 DEF Observe
<1>3. /\ Made(s, 0, "check") = 0 /\ Made(s, 1, "check") = 1 /\ Made(s, 2, "check") = 1
      /\ Made(s, 3, "check") = 1 /\ Made(s, 4, "check") = 1 /\ Made(s, 5, "check") = 1
  BY <1>2, MadeUnrolled
<1>4. /\ Made(s, 0, "restart") = 0 /\ Made(s, 1, "restart") = 0 /\ Made(s, 2, "restart") = 0
      /\ Made(s, 3, "restart") = 0 /\ Made(s, 4, "restart") = 0 /\ Made(s, 5, "restart") = 0
  BY <1>2, MadeUnrolled
<1>5. /\ Made(s, 0, "database") = 0 /\ Made(s, 1, "database") = 0 /\ Made(s, 2, "database") = 0
      /\ Made(s, 3, "database") = 1 /\ Made(s, 4, "database") = 1 /\ Made(s, 5, "database") = 1
  BY <1>2, MadeUnrolled
<1>6. /\ Made(s, 0, "measure") = 0 /\ Made(s, 1, "measure") = 0 /\ Made(s, 2, "measure") = 0
      /\ Made(s, 3, "measure") = 0 /\ Made(s, 4, "measure") = 1 /\ Made(s, 5, "measure") = 1
  BY <1>2, MadeUnrolled
<1>7. /\ Made(s, 0, "latency") = 0 /\ Made(s, 1, "latency") = 0 /\ Made(s, 2, "latency") = 0
      /\ Made(s, 3, "latency") = 0 /\ Made(s, 4, "latency") = 0 /\ Made(s, 5, "latency") = 1
  BY <1>2, MadeUnrolled
<1>8. InOrder(s, 0) /\ InOrder(s, 1) /\ InOrder(s, 2) /\ InOrder(s, 3) /\ InOrder(s, 4)
  BY <1>1, <1>2, <1>3, <1>4, <1>5, <1>6, <1>7 DEF InOrder, StopsInHook, Renders
<1>9. \A n \in 0..4 : n = 0 \/ n = 1 \/ n = 2 \/ n = 3 \/ n = 4
  OBVIOUS
<1>10. QED
  BY <1>1, <1>2, <1>3, <1>4, <1>5, <1>6, <1>7, <1>8, <1>9 DEF Begins, Totals, StopsInHook

LEMMA AnalyzeExecutedOrder ==
    ASSUME NEW s \in {"driver", "xorm"}
    PROVE  /\ \A n \in 0..(Len(Calls(s)) - 1) : InOrder(s, n)
           /\ Totals(s) /\ Begins(s)
<1>1. Calls(s) = AnalyzeExecuted /\ Len(Calls(s)) = 5
  BY Programs
<1>2. /\ Calls(s)[1] = "start" /\ Calls(s)[2] = "database" /\ Calls(s)[3] = "measure"
      /\ Calls(s)[4] = "check" /\ Calls(s)[5] = "latency"
  BY <1>1 DEF AnalyzeExecuted
<1>3. /\ Made(s, 0, "check") = 0 /\ Made(s, 1, "check") = 0 /\ Made(s, 2, "check") = 0
      /\ Made(s, 3, "check") = 0 /\ Made(s, 4, "check") = 1 /\ Made(s, 5, "check") = 1
  BY <1>2, MadeUnrolled
<1>4. /\ Made(s, 0, "restart") = 0 /\ Made(s, 1, "restart") = 0 /\ Made(s, 2, "restart") = 0
      /\ Made(s, 3, "restart") = 0 /\ Made(s, 4, "restart") = 0 /\ Made(s, 5, "restart") = 0
  BY <1>2, MadeUnrolled
<1>5. /\ Made(s, 0, "database") = 0 /\ Made(s, 1, "database") = 0 /\ Made(s, 2, "database") = 1
      /\ Made(s, 3, "database") = 1 /\ Made(s, 4, "database") = 1 /\ Made(s, 5, "database") = 1
  BY <1>2, MadeUnrolled
<1>6. /\ Made(s, 0, "measure") = 0 /\ Made(s, 1, "measure") = 0 /\ Made(s, 2, "measure") = 0
      /\ Made(s, 3, "measure") = 1 /\ Made(s, 4, "measure") = 1 /\ Made(s, 5, "measure") = 1
  BY <1>2, MadeUnrolled
<1>7. /\ Made(s, 0, "latency") = 0 /\ Made(s, 1, "latency") = 0 /\ Made(s, 2, "latency") = 0
      /\ Made(s, 3, "latency") = 0 /\ Made(s, 4, "latency") = 0 /\ Made(s, 5, "latency") = 1
  BY <1>2, MadeUnrolled
<1>8. InOrder(s, 0) /\ InOrder(s, 1) /\ InOrder(s, 2) /\ InOrder(s, 3) /\ InOrder(s, 4)
  BY <1>1, <1>2, <1>3, <1>4, <1>5, <1>6, <1>7 DEF InOrder, StopsInHook, Renders
<1>9. \A n \in 0..4 : n = 0 \/ n = 1 \/ n = 2 \/ n = 3 \/ n = 4
  OBVIOUS
<1>10. QED
  BY <1>1, <1>2, <1>3, <1>4, <1>5, <1>6, <1>7, <1>8, <1>9 DEF Begins, Totals, StopsInHook

LEMMA AfterQueryOrder ==
    ASSUME NEW s \in {"bun", "gorm"}
    PROVE  /\ \A n \in 0..(Len(Calls(s)) - 1) : InOrder(s, n)
           /\ Totals(s) /\ Begins(s)
<1>1. Calls(s) = AfterQuery /\ Len(Calls(s)) = 5
  BY Programs
<1>2. /\ Calls(s)[1] = "start" /\ Calls(s)[2] = "database" /\ Calls(s)[3] = "check"
      /\ Calls(s)[4] = "measure" /\ Calls(s)[5] = "latency"
  BY <1>1 DEF AfterQuery
<1>3. /\ Made(s, 0, "check") = 0 /\ Made(s, 1, "check") = 0 /\ Made(s, 2, "check") = 0
      /\ Made(s, 3, "check") = 1 /\ Made(s, 4, "check") = 1 /\ Made(s, 5, "check") = 1
  BY <1>2, MadeUnrolled
<1>4. /\ Made(s, 0, "restart") = 0 /\ Made(s, 1, "restart") = 0 /\ Made(s, 2, "restart") = 0
      /\ Made(s, 3, "restart") = 0 /\ Made(s, 4, "restart") = 0 /\ Made(s, 5, "restart") = 0
  BY <1>2, MadeUnrolled
<1>5. /\ Made(s, 0, "database") = 0 /\ Made(s, 1, "database") = 0 /\ Made(s, 2, "database") = 1
      /\ Made(s, 3, "database") = 1 /\ Made(s, 4, "database") = 1 /\ Made(s, 5, "database") = 1
  BY <1>2, MadeUnrolled
<1>6. /\ Made(s, 0, "measure") = 0 /\ Made(s, 1, "measure") = 0 /\ Made(s, 2, "measure") = 0
      /\ Made(s, 3, "measure") = 0 /\ Made(s, 4, "measure") = 1 /\ Made(s, 5, "measure") = 1
  BY <1>2, MadeUnrolled
<1>7. /\ Made(s, 0, "latency") = 0 /\ Made(s, 1, "latency") = 0 /\ Made(s, 2, "latency") = 0
      /\ Made(s, 3, "latency") = 0 /\ Made(s, 4, "latency") = 0 /\ Made(s, 5, "latency") = 1
  BY <1>2, MadeUnrolled
<1>8. InOrder(s, 0) /\ InOrder(s, 1) /\ InOrder(s, 2) /\ InOrder(s, 3) /\ InOrder(s, 4)
  BY <1>1, <1>2, <1>3, <1>4, <1>5, <1>6, <1>7 DEF InOrder, StopsInHook, Renders
<1>9. \A n \in 0..4 : n = 0 \/ n = 1 \/ n = 2 \/ n = 3 \/ n = 4
  OBVIOUS
<1>10. QED
  BY <1>1, <1>2, <1>3, <1>4, <1>5, <1>6, <1>7, <1>8, <1>9 DEF Begins, Totals, StopsInHook

LEMMA TraceBatchQueryOrder ==
    ASSUME NEW s \in {"batch"}
    PROVE  /\ \A n \in 0..(Len(Calls(s)) - 1) : InOrder(s, n)
           /\ Totals(s) /\ Begins(s)
<1>1. Calls(s) = TraceBatchQuery /\ Len(Calls(s)) = 2
  BY Programs
<1>2. /\ Calls(s)[1] = "database" /\ Calls(s)[2] = "check"
  BY <1>1 DEF TraceBatchQuery
<1>3. /\ Made(s, 0, "check") = 0 /\ Made(s, 1, "check") = 0 /\ Made(s, 2, "check") = 1
  BY <1>2, MadeUnrolled
<1>4. /\ Made(s, 0, "restart") = 0 /\ Made(s, 1, "restart") = 0 /\ Made(s, 2, "restart") = 0
  BY <1>2, MadeUnrolled
<1>5. /\ Made(s, 0, "database") = 0 /\ Made(s, 1, "database") = 1 /\ Made(s, 2, "database") = 1
  BY <1>2, MadeUnrolled
<1>6. /\ Made(s, 0, "measure") = 0 /\ Made(s, 1, "measure") = 0 /\ Made(s, 2, "measure") = 0
  BY <1>2, MadeUnrolled
<1>7. /\ Made(s, 0, "latency") = 0 /\ Made(s, 1, "latency") = 0 /\ Made(s, 2, "latency") = 0
  BY <1>2, MadeUnrolled
<1>8. InOrder(s, 0) /\ InOrder(s, 1)
  BY <1>1, <1>2, <1>3, <1>4, <1>5, <1>6, <1>7 DEF InOrder, StopsInHook, Renders
<1>9. \A n \in 0..1 : n = 0 \/ n = 1
  OBVIOUS
<1>10. QED
  BY <1>1, <1>2, <1>3, <1>4, <1>5, <1>6, <1>7, <1>8, <1>9 DEF Begins, Totals, StopsInHook

LEMMA ComposedOrder ==
    ASSUME NEW s \in {"composed"}
    PROVE  /\ \A n \in 0..(Len(Calls(s)) - 1) : InOrder(s, n)
           /\ Totals(s) /\ Begins(s)
<1>1. Calls(s) = Composed /\ Len(Calls(s)) = 9
  BY Programs
<1>2. /\ Calls(s)[1] = "check" /\ Calls(s)[2] = "start" /\ Calls(s)[3] = "check"
      /\ Calls(s)[4] = "restart" /\ Calls(s)[5] = "database" /\ Calls(s)[6] = "measure"
      /\ Calls(s)[7] = "latency" /\ Calls(s)[8] = "measure" /\ Calls(s)[9] = "latency"
  BY <1>1 DEF Composed
<1>3. /\ Made(s, 0, "check") = 0 /\ Made(s, 1, "check") = 1 /\ Made(s, 2, "check") = 1
      /\ Made(s, 3, "check") = 2 /\ Made(s, 4, "check") = 2 /\ Made(s, 5, "check") = 2
      /\ Made(s, 6, "check") = 2 /\ Made(s, 7, "check") = 2 /\ Made(s, 8, "check") = 2
      /\ Made(s, 9, "check") = 2
  BY <1>2, MadeUnrolled
<1>4. /\ Made(s, 0, "restart") = 0 /\ Made(s, 1, "restart") = 0 /\ Made(s, 2, "restart") = 0
      /\ Made(s, 3, "restart") = 0 /\ Made(s, 4, "restart") = 1 /\ Made(s, 5, "restart") = 1
      /\ Made(s, 6, "restart") = 1 /\ Made(s, 7, "restart") = 1 /\ Made(s, 8, "restart") = 1
      /\ Made(s, 9, "restart") = 1
  BY <1>2, MadeUnrolled
<1>5. /\ Made(s, 0, "database") = 0 /\ Made(s, 1, "database") = 0 /\ Made(s, 2, "database") = 0
      /\ Made(s, 3, "database") = 0 /\ Made(s, 4, "database") = 0 /\ Made(s, 5, "database") = 1
      /\ Made(s, 6, "database") = 1 /\ Made(s, 7, "database") = 1 /\ Made(s, 8, "database") = 1
      /\ Made(s, 9, "database") = 1
  BY <1>2, MadeUnrolled
<1>6. /\ Made(s, 0, "measure") = 0 /\ Made(s, 1, "measure") = 0 /\ Made(s, 2, "measure") = 0
      /\ Made(s, 3, "measure") = 0 /\ Made(s, 4, "measure") = 0 /\ Made(s, 5, "measure") = 0
      /\ Made(s, 6, "measure") = 1 /\ Made(s, 7, "measure") = 1 /\ Made(s, 8, "measure") = 2
      /\ Made(s, 9, "measure") = 2
  BY <1>2, MadeUnrolled
<1>7. /\ Made(s, 0, "latency") = 0 /\ Made(s, 1, "latency") = 0 /\ Made(s, 2, "latency") = 0
      /\ Made(s, 3, "latency") = 0 /\ Made(s, 4, "latency") = 0 /\ Made(s, 5, "latency") = 0
      /\ Made(s, 6, "latency") = 0 /\ Made(s, 7, "latency") = 1 /\ Made(s, 8, "latency") = 1
      /\ Made(s, 9, "latency") = 2
  BY <1>2, MadeUnrolled
<1>8. /\ InOrder(s, 0) /\ InOrder(s, 1) /\ InOrder(s, 2) /\ InOrder(s, 3) /\ InOrder(s, 4)
      /\ InOrder(s, 5) /\ InOrder(s, 6) /\ InOrder(s, 7) /\ InOrder(s, 8)
  BY <1>1, <1>2, <1>3, <1>4, <1>5, <1>6, <1>7 DEF InOrder, StopsInHook, Renders
<1>9. \A n \in 0..8 : n = 0 \/ n = 1 \/ n = 2 \/ n = 3 \/ n = 4 \/ n = 5 \/ n = 6 \/ n = 7 \/ n = 8
  OBVIOUS
<1>10. QED
  BY <1>1, <1>2, <1>3, <1>4, <1>5, <1>6, <1>7, <1>8, <1>9 DEF Begins, Totals, StopsInHook

LEMMA Order ==
    ASSUME NEW s \in Surface
    PROVE  /\ \A n \in 0..(Len(Calls(s)) - 1) : InOrder(s, n)
           /\ Totals(s) /\ Begins(s)
<1>1. \/ s \in {"pgx", "sqlx", "ent"} \/ s \in {"driver", "xorm"} \/ s \in {"bun", "gorm"}
      \/ s \in {"batch"} \/ s \in {"composed"}
  BY DEF Surface
<1>2. QED
  BY <1>1, ObserveOrder, AnalyzeExecutedOrder, AfterQueryOrder, TraceBatchQueryOrder,
     ComposedOrder, Zenon

\* A program that is not over, without its next call.
LEMMA Sequel ==
    ASSUME NEW s \in Surface, NEW r, NEW n
    PROVE  /\ r \in Seq(Step) /\ r # << >>
           /\ n \in Nat /\ Len(r) = Len(Calls(s)) - n
           /\ r = Remaining(s, n)
           => /\ n \in 0..(Len(Calls(s)) - 1) /\ Len(Calls(s)) \in Nat
              /\ Head(r) = Calls(s)[n + 1]
              /\ Tail(r) \in Seq(Step)
              /\ Tail(r) = Remaining(s, n + 1)
              /\ Len(Tail(r)) = Len(Calls(s)) - (n + 1)
              /\ Tail(r) = << >> => n + 1 = Len(Calls(s))
<1>. DEFINE P == Calls(s)
            q == Tail(r)
<1>1. P \in Seq(Step) /\ Len(P) \in Nat
  BY Programs
<1>. HIDE DEF P
<1>2. SUFFICES ASSUME r \in Seq(Step) /\ r # << >>,
                      n \in Nat /\ Len(r) = Len(P) - n,
                      r = SubSeq(P, n + 1, Len(P))
               PROVE  /\ n \in 0..(Len(P) - 1) /\ Len(P) \in Nat
                      /\ Head(r) = P[n + 1]
                      /\ q \in Seq(Step)
                      /\ q = SubSeq(P, (n + 1) + 1, Len(P))
                      /\ Len(q) = Len(P) - (n + 1)
                      /\ q = << >> => n + 1 = Len(P)
  BY DEF P, Remaining
<1>3. Len(r) \in Nat /\ Len(r) > 0
  BY <1>2
<1>4. n \in 0..(Len(P) - 1)
  BY <1>1, <1>2, <1>3
<1>5. Head(r) = P[n + 1] /\ q = SubSeq(P, (n + 1) + 1, Len(P))
  BY <1>1, <1>2, <1>4, HeadTailOfSubSeq, n + 1 \in 1..Len(P), Len(P) \in (n + 1)..Len(P)
<1>6. q \in Seq(Step) /\ Len(q) = Len(r) - 1
  BY <1>2, <1>3
<1>. HIDE DEF q
<1>7. Len(q) = Len(P) - (n + 1)
  BY <1>1, <1>2, <1>3, <1>6
<1>8. q = << >> => n + 1 = Len(P)
  BY <1>1, <1>4, <1>7
<1>9. QED
  BY <1>1, <1>4, <1>5, <1>6, <1>7, <1>8

-----------------------------------------------------------------------------
(***************************************************************************)
(* One step of a goroutine.                                                *)
(***************************************************************************)

\* A goroutine that makes its next call, whatever the call does.
Moves(t) ==
    /\ TypeOK /\ TypeOK' /\ ThreadInv(t)
    /\ rest[t] # << >>
    /\ rest'[t] = Tail(rest[t])
    /\ surface'[t] = surface[t]

\* Where it stands, with s and n its surface and position before.
Advances(t, s, n) ==
    /\ CallsInv(t) /\ ClockInv(t) /\ InOrder(s, n)
    /\ s \in Surface /\ Len(Calls(s)) \in Nat /\ n \in 0..(Len(Calls(s)) - 1)
    /\ \A x : At(t, x) <=> Calls(s)[n + 1] = x
    /\ Position(t)' = n + 1
    /\ rest'[t] = Remaining(s, n + 1)
    /\ \A x : At(t, x)' <=> n + 1 < Len(Calls(s)) /\ Calls(s)[n + 2] = x
    /\ \A x : /\ Made(s, n, x) \in Nat
             /\ Made(s, n + 1, x) = Made(s, n, x) + (IF Calls(s)[n + 1] = x THEN 1 ELSE 0)

LEMMA Moved ==
    ASSUME NEW t \in Thread, NEW s, NEW n
    PROVE  Moves(t) /\ s = surface[t] /\ n = Position(t) => Advances(t, s, n)
<1>. DEFINE N == Len(Calls(s))
            r == rest[t]
            q == rest'[t]
<1>1. SUFFICES ASSUME Moves(t), s = surface[t], n = Position(t)
               PROVE  Advances(t, s, n)
  OBVIOUS
<1>2. /\ s \in Surface /\ r \in Seq(Step) /\ r # << >>
      /\ q \in Seq(Step) /\ q = Tail(r)
  BY <1>1 DEF TypeOK, Step, Moves
<1>3. CallsInv(t) /\ ClockInv(t)
  BY <1>1 DEF ThreadInv, Early, Moves
<1>4. n \in Nat /\ Len(r) = N - n /\ r = Remaining(s, n)
  <2>1. n \in Nat /\ r = Remaining(s, n)
    BY <1>1, <1>3 DEF CallsInv
  <2>2. n = N - Len(r) /\ Len(r) \in Nat /\ N \in Nat
    BY <1>1, <1>2, Programs DEF Position
  <2>3. QED
    BY <2>1, <2>2
<1>. HIDE DEF r, q
<1>5. /\ n \in 0..(N - 1) /\ N \in Nat
      /\ Head(r) = Calls(s)[n + 1]
      /\ Tail(r) = Remaining(s, n + 1)
      /\ Len(Tail(r)) = N - (n + 1)
      /\ Tail(r) = << >> => n + 1 = N
  BY <1>2, <1>4, Sequel, Zenon
<1>6. q # << >> => n + 1 < N /\ Head(q) = Calls(s)[n + 2]
  <2>1. n + 1 \in Nat /\ (n + 1 \in 0..(N - 1) => n + 1 < N) /\ (n + 1) + 1 = n + 2
    BY <1>5
  <2>2. q # << >> => n + 1 \in 0..(N - 1) /\ Head(q) = Calls(s)[(n + 1) + 1]
    BY <1>2, <1>5, <2>1, Sequel, Zenon
  <2>3. QED
    BY <2>1, <2>2, Zenon
<1>7. \A x : At(t, x) <=> Calls(s)[n + 1] = x
  BY <1>2, <1>5, Zenon DEF At, r
<1>8. q # << >> <=> n + 1 < N
  <2>1. q = << >> => n + 1 = N
    BY <1>2, <1>5, Zenon
  <2>2. n + 1 = N => ~(n + 1 < N)
    BY <1>5
  <2>3. QED
    BY <1>6, <2>1, <2>2, Zenon
<1>9. \A x : At(t, x)' <=> n + 1 < N /\ Calls(s)[n + 2] = x
  BY <1>6, <1>8, Zenon DEF At, q
<1>10. Position(t)' = n + 1
  <2>1. Position(t)' = N - Len(q)
    BY <1>1, Zenon DEF Position, Moves, q
  <2>2. Len(q) = N - (n + 1)
    BY <1>2, <1>5, Zenon
  <2>3. QED
    BY <1>5, <2>1, <2>2
<1>11. InOrder(s, n)
  BY <1>2, <1>5, Order
<1>12. \A x : /\ Made(s, n, x) \in Nat
              /\ Made(s, n + 1, x) = Made(s, n, x) + (IF Calls(s)[n + 1] = x THEN 1 ELSE 0)
  <2>1. n \in Nat
    BY <1>5
  <2>2. QED
    BY <2>1, MadeStep, Zenon
<1>13. QED
  BY <1>2, <1>3, <1>5, <1>7, <1>9, <1>10, <1>11, <1>12 DEF Advances, q

\* A surface in step with its program, at the call it makes next.
LEMMA Standing ==
    ASSUME NEW t \in Thread
    PROVE  TypeOK /\ CallsInv(t) /\ rest[t] # << >>
           => /\ InOrder(surface[t], Position(t))
              /\ \A x : At(t, x) <=> Calls(surface[t])[Position(t) + 1] = x
<1>. DEFINE s == surface[t]
            n == Position(t)
            r == rest[t]
<1>1. SUFFICES ASSUME TypeOK, CallsInv(t), r # << >>
               PROVE  InOrder(s, n) /\ \A x : At(t, x) <=> Calls(s)[n + 1] = x
  OBVIOUS
<1>2. s \in Surface /\ r \in Seq(Step) /\ n \in Nat /\ r = Remaining(s, n)
  BY <1>1 DEF CallsInv, TypeOK, Step
<1>3. Len(r) = Len(Calls(s)) - n
  BY <1>2, Programs DEF Position
<1>4. n \in 0..(Len(Calls(s)) - 1) /\ Head(r) = Calls(s)[n + 1]
  BY <1>1, <1>2, <1>3, Sequel, Zenon
<1>5. QED
  BY <1>1, <1>2, <1>4, Order DEF At

\* A surface in step with its program did not return early.
LEMMA InStep ==
    TypeOK => \A t \in Thread : CallsInv(t) => ~Early(t)
<1>. SUFFICES ASSUME TypeOK, NEW t \in Thread, CallsInv(t)
              PROVE  ~Early(t)
  OBVIOUS
<1>1. rest[t] = << >> => Position(t) = Len(Calls(surface[t])) /\ surface[t] \in Surface
  BY Programs DEF Position, TypeOK
<1>2. rest[t] = << >> => answer[t] # "none"
  BY <1>1, Order DEF CallsInv, Totals
<1>3. QED
  BY <1>2 DEF Early, CallsInv

LEMMA InStepNext ==
    (TypeOK => \A t \in Thread : CallsInv(t) => ~Early(t))'
BY InStep, PTL

\* Check.
LEMMA CheckStep ==
    ASSUME NEW t \in Thread, TypeOK, TypeOK', ThreadInv(t), Check(t)
    PROVE  ThreadInv(t)'
<1>. DEFINE s == surface[t]
            n == Position(t)
<1>1. Moves(t) /\ At(t, "check")
  BY DEF Moves, Check, At, Proceed, TypeOK, measured
<1>2. Advances(t, s, n)
  BY <1>1, Moved
<1>3. /\ checked'[t] = checked[t] + 1 /\ surface'[t] = s
      /\ UNCHANGED <<clock, start[t], holder[t], elapsed[t], answer[t], took[t], spent[t], slow[t]>>
  BY DEF Check, measured, TypeOK
<1>. HIDE DEF s, n
<1>4. CallsInv(t)'
  BY <1>1, <1>2, <1>3 DEF Advances, CallsInv, InOrder, s, n
<1>5. ClockInv(t)'
  BY <1>1, <1>2, <1>3 DEF Advances, ClockInv, Counted, InOrder, s, n
<1>6. QED
  BY <1>4, <1>5, InStepNext DEF ThreadInv

\* Start.
LEMMA StartStep ==
    ASSUME NEW t \in Thread, TypeOK, TypeOK', ThreadInv(t), Start(t)
    PROVE  ThreadInv(t)'
<1>. DEFINE s == surface[t]
            n == Position(t)
<1>1. Moves(t) /\ At(t, "start")
  BY DEF Moves, Start, At, Proceed, TypeOK, history
<1>2. Advances(t, s, n)
  BY <1>1, Moved
<1>3. /\ start'[t] = clock /\ surface'[t] = s
      /\ UNCHANGED <<clock, holder[t], elapsed[t], answer[t], took[t], spent[t], checked[t], slow[t]>>
  BY DEF Start, history, TypeOK
<1>. HIDE DEF s, n
<1>4. CallsInv(t)'
  BY <1>1, <1>2, <1>3 DEF Advances, CallsInv, InOrder, s, n
<1>5. took[t] = 0 /\ (StopsInHook(s) => spent[t] = 0)
  BY <1>1, <1>2 DEF Advances, ClockInv, InOrder, s, n
<1>6. Counted(t)' = 0 /\ clock' - start'[t] = 0
  BY <1>3, <1>5 DEF Counted, TypeOK
<1>7. ClockInv(t)'
  BY <1>1, <1>2, <1>3, <1>5, <1>6 DEF Advances, ClockInv, InOrder, Counted, s, n
<1>8. QED
  BY <1>4, <1>7, InStepNext DEF ThreadInv

\* Restart.
LEMMA RestartStep ==
    ASSUME NEW t \in Thread, TypeOK, TypeOK', ThreadInv(t), Restart(t)
    PROVE  ThreadInv(t)'
<1>. DEFINE s == surface[t]
            n == Position(t)
<1>1. Moves(t) /\ At(t, "restart")
  BY DEF Moves, Restart, At, Proceed, TypeOK, history
<1>2. Advances(t, s, n)
  BY <1>1, Moved
<1>3. /\ start'[t] = clock /\ holder'[t] = 2 /\ surface'[t] = s
      /\ UNCHANGED <<clock, elapsed[t], answer[t], took[t], spent[t], checked[t], slow[t]>>
  BY DEF Restart, history, TypeOK
<1>. HIDE DEF s, n
<1>4. CallsInv(t)'
  BY <1>1, <1>2, <1>3 DEF Advances, CallsInv, InOrder, s, n
<1>5. took[t] = 0 /\ (StopsInHook(s) => spent[t] = 0)
  BY <1>1, <1>2 DEF Advances, ClockInv, InOrder, s, n
<1>6. Counted(t)' = 0 /\ clock' - start'[t] = 0
  BY <1>3, <1>5 DEF Counted, TypeOK
<1>7. ClockInv(t)'
  BY <1>1, <1>2, <1>3, <1>5, <1>6 DEF Advances, ClockInv, InOrder, Counted, s, n
<1>8. QED
  BY <1>4, <1>7, InStepNext DEF ThreadInv

\* Measure.
LEMMA MeasureStep ==
    ASSUME NEW t \in Thread, TypeOK, TypeOK', ThreadInv(t), Measure(t)
    PROVE  ThreadInv(t)'
<1>. DEFINE s == surface[t]
            n == Position(t)
<1>1. Moves(t) /\ At(t, "measure")
  BY DEF Moves, Measure, At, Proceed, TypeOK, history
<1>2. Advances(t, s, n)
  BY <1>1, Moved
<1>3. /\ elapsed'[t] = clock - start[t] /\ surface'[t] = s
      /\ UNCHANGED <<clock, start[t], holder[t], answer[t], took[t], spent[t], checked[t], slow[t]>>
  BY DEF Measure, history, TypeOK
<1>. HIDE DEF s, n
<1>4. Made(s, n, "latency") = 0 \/ elapsed'[t] = elapsed[t]
  BY <1>1, <1>2, <1>3 DEF Advances, ClockInv, InOrder, s, n
<1>5. CallsInv(t)'
  <2>1. CASE Made(s, n, "latency") = 0
    <3>1. slow'[t] = [g \in {1, 2} |-> 0]
      BY <1>2, <1>3, <2>1 DEF Advances, CallsInv, s, n
    <3>2. Made(s, n + 1, "latency") = 0
      BY <1>1, <1>2, <2>1 DEF Advances
    <3>3. QED
      BY <1>1, <1>2, <1>3, <3>1, <3>2 DEF Advances, CallsInv, s, n
  <2>2. CASE elapsed'[t] = elapsed[t]
    BY <1>1, <1>2, <1>3, <2>2 DEF Advances, CallsInv, s, n
  <2>3. QED
    BY <1>4, <2>1, <2>2
<1>6. ClockInv(t)'
  BY <1>1, <1>2, <1>3 DEF Advances, ClockInv, Counted, InOrder, s, n
<1>7. QED
  BY <1>5, <1>6, InStepNext DEF ThreadInv

\* CheckLatency.
LEMMA CheckLatencyStep ==
    ASSUME NEW t \in Thread, TypeOK, TypeOK', ThreadInv(t), CheckLatency(t)
    PROVE  ThreadInv(t)'
<1>. DEFINE s == surface[t]
            n == Position(t)
<1>1. Moves(t) /\ At(t, "latency")
  BY DEF Moves, CheckLatency, At, Proceed, TypeOK, measured
<1>2. Advances(t, s, n)
  BY <1>1, Moved
<1>3. /\ slow'[t] = IF ~Err(s, answer[t]) /\ elapsed[t] >= SlowThreshold
                    THEN [slow[t] EXCEPT ![holder[t]] = @ + 1] ELSE slow[t]
      /\ surface'[t] = s
      /\ UNCHANGED <<clock, start[t], holder[t], elapsed[t], answer[t], took[t], spent[t], checked[t]>>
  BY DEF CheckLatency, measured, TypeOK
<1>. HIDE DEF s, n
<1>4. slow'[t] = [g \in {1, 2} |->
                   IF /\ g = holder[t]
                      /\ ~Err(s, answer[t])
                      /\ elapsed[t] >= SlowThreshold
                   THEN Made(s, n + 1, "latency") ELSE 0]
  <2>1. slow[t] = [g \in {1, 2} |->
                    IF /\ g = holder[t]
                       /\ ~Err(s, answer[t])
                       /\ elapsed[t] >= SlowThreshold
                    THEN Made(s, n, "latency") ELSE 0]
    BY <1>2 DEF Advances, CallsInv, s, n
  <2>2. Made(s, n + 1, "latency") = Made(s, n, "latency") + 1
    BY <1>1, <1>2 DEF Advances
  <2>3. holder[t] \in {1, 2} /\ slow[t] \in [{1, 2} -> Nat] /\ slow'[t] \in [{1, 2} -> Nat]
    BY DEF TypeOK
  <2>4. CASE ~Err(s, answer[t]) /\ elapsed[t] >= SlowThreshold
    <3>1. slow'[t] = [slow[t] EXCEPT ![holder[t]] = @ + 1]
      BY <1>3, <2>4
    <3>2. \A g \in {1, 2} : slow[t][g] = IF g = holder[t] THEN Made(s, n, "latency") ELSE 0
      BY <2>1, <2>4
    <3>3. \A g \in {1, 2} : slow'[t][g] = IF g = holder[t] THEN Made(s, n + 1, "latency") ELSE 0
      BY <2>2, <2>3, <3>1, <3>2
    <3>4. QED
      BY <2>3, <2>4, <3>3
  <2>5. CASE ~(~Err(s, answer[t]) /\ elapsed[t] >= SlowThreshold)
    BY <1>3, <2>1, <2>5
  <2>6. QED
    BY <2>4, <2>5
<1>5. CallsInv(t)'
  BY <1>1, <1>2, <1>3, <1>4 DEF Advances, CallsInv, s, n
<1>6. ClockInv(t)'
  BY <1>1, <1>2, <1>3 DEF Advances, ClockInv, Counted, InOrder, s, n
<1>7. QED
  BY <1>5, <1>6, InStepNext DEF ThreadInv

\* The answer of the database, after which the surface goes on or returns early.
LEMMA DatabaseStep ==
    ASSUME NEW t \in Thread, TypeOK, TypeOK', ThreadInv(t), Database(t)
    PROVE  ThreadInv(t)'
<1>. DEFINE s == surface[t]
            n == Position(t)
<1>1. PICK a \in Answers :
        /\ a = "unrendered" => Renders(s)
        /\ answer' = [answer EXCEPT ![t] = a]
        /\ IF SkipsAnalysis(s, a) THEN ReturnEarly(t) ELSE Proceed(t)
  BY DEF Database
<1>2. /\ answer'[t] = a /\ surface'[t] = s
      /\ UNCHANGED <<clock, start[t], holder[t], elapsed[t], took[t], spent[t], checked[t], slow[t]>>
  BY <1>1 DEF Database, measured, history, TypeOK
<1>3. rest[t] # << >> /\ At(t, "database") /\ a # "none"
  BY DEF Database, At, Answers
<1>4. CASE SkipsAnalysis(s, a)
  <2>1. rest'[t] = << >>
    BY <1>1, <1>4 DEF ReturnEarly, TypeOK
  <2>2. CallsInv(t)
    BY <1>3 DEF ThreadInv, Early
  <2>3. InOrder(s, n) /\ Calls(s)[n + 1] = "database"
    BY <1>3, <2>2, Standing
  <2>4. Made(s, n, "check") = 0 /\ Made(s, n, "latency") = 0
    BY <1>1, <1>4, <2>3 DEF InOrder, SkipsAnalysis
  <2>5. checked[t] = 0 /\ slow[t] = NotReported
    BY <2>2, <2>4 DEF CallsInv, NotReported
  <2>6. Early(t)' /\ EarlyInv(t)'
    BY <1>1, <1>2, <1>4, <2>1, <2>5 DEF Early, EarlyInv
  <2>7. QED
    BY <2>6 DEF ThreadInv
<1>5. CASE ~SkipsAnalysis(s, a)
  <2>1. Moves(t)
    BY <1>1, <1>2, <1>3, <1>5 DEF Moves, Proceed, TypeOK
  <2>2. Advances(t, s, n)
    BY <2>1, Moved
  <2>. HIDE DEF s, n
  <2>3. Made(s, n, "latency") = 0 /\ Made(s, n + 1, "latency") = 0
    BY <1>3, <2>2 DEF Advances, InOrder
  <2>4. slow'[t] = [g \in {1, 2} |-> 0]
    BY <1>2, <2>2, <2>3 DEF Advances, CallsInv, s, n
  <2>5. CallsInv(t)'
    BY <1>2, <1>3, <1>5, <2>2, <2>3, <2>4 DEF Advances, CallsInv, s, n
  <2>6. ClockInv(t)'
    BY <1>2, <1>3, <2>2 DEF Advances, ClockInv, Counted, InOrder, s, n
  <2>7. QED
    BY <2>5, <2>6, InStepNext DEF ThreadInv
<1>6. QED
  BY <1>4, <1>5

\* A statement is executed: its surface is at the first of its calls.
LEMMA ExecuteStep ==
    ASSUME NEW t \in Thread, NEW s \in Surfaces, TypeOK, TypeOK', Execute(t, s)
    PROVE  ThreadInv(t)'
<1>1. /\ surface'[t] = s /\ rest'[t] = Calls(s) /\ answer'[t] = "none"
      /\ took'[t] = 0 /\ spent'[t] = 0 /\ checked'[t] = 0 /\ slow'[t] = NotReported
      /\ holder'[t] = 1
  BY DEF Execute, TypeOK
<1>2. s \in Surface /\ Calls(s) \in Seq(Step)
  BY InterceptionAssumption, Programs
<1>3. Position(t)' = 0
  BY <1>1, <1>2 DEF Position
<1>4. rest'[t] = Remaining(s, 0)
  BY <1>1, <1>2 DEF Remaining
<1>5. \A x : Made(s, 0, x) = 0
  BY MadeStep
<1>6. CallsInv(t)'
  BY <1>1, <1>3, <1>4, <1>5 DEF CallsInv, NotReported, SkipsAnalysis
<1>7. ClockInv(t)'
  <2>1. \A x : At(t, x)' => Calls(s)[1] = x
    BY <1>1, <1>2 DEF At
  <2>2. Begins(s)
    BY <1>2, Order
  <2>3. QED
    BY <1>1, <1>3, <1>5, <2>1, <2>2 DEF ClockInv, Counted, Begins
<1>8. QED
  BY <1>6, <1>7, InStepNext DEF ThreadInv

\* Time passes for the database and for Check, never between reading the clock
\* and handing over.
LEMMA TickStep ==
    ASSUME NEW t \in Thread, TypeOK, TypeOK', ThreadInv(t), Tick
    PROVE  ThreadInv(t)'
<1>. DEFINE s == surface[t]
            n == Position(t)
<1>1. /\ clock' = clock + 1
      /\ UNCHANGED <<surface, rest, start, holder, elapsed, answer, checked, slow>>
      /\ took'[t] = IF At(t, "database") THEN took[t] + 1 ELSE took[t]
      /\ spent'[t] = IF At(t, "check") THEN spent[t] + 1 ELSE spent[t]
      /\ rest[t] = << >> \/ At(t, "check") \/ At(t, "database")
  BY DEF Tick, measured
<1>2. CASE Early(t)
  BY <1>1, <1>2 DEF ThreadInv, Early, EarlyInv
<1>3. CASE ~Early(t)
  <2>1. CallsInv(t) /\ ClockInv(t)
    BY <1>3 DEF ThreadInv
  <2>2. CallsInv(t)' /\ ~Early(t)'
    BY <1>1, <1>3, <2>1 DEF CallsInv, Early, Position
  <2>3. Position(t)' = n /\ \A x : At(t, x)' <=> At(t, x)
    BY <1>1 DEF Position, At
  <2>4. (At(t, "check") /\ StopsInHook(s)) \/ At(t, "database") => Made(s, n, "measure") = 0
    <3>1. SUFFICES ASSUME (At(t, "check") /\ StopsInHook(s)) \/ At(t, "database")
                   PROVE  Made(s, n, "measure") = 0
      OBVIOUS
    <3>2. rest[t] # << >>
      BY <3>1 DEF At
    <3>3. InOrder(s, n) /\ \A x : At(t, x) <=> Calls(s)[n + 1] = x
      BY <2>1, <3>2, Standing
    <3>4. QED
      BY <3>1, <3>3 DEF InOrder
  <2>5. ~(At(t, "check") /\ At(t, "database")) /\ ~At(t, "measure") /\ ~At(t, "latency")
    BY <1>1 DEF At
  <2>6. Counted(t)' = IF At(t, "database") \/ (At(t, "check") /\ StopsInHook(s))
                      THEN Counted(t) + 1 ELSE Counted(t)
    <3>1. took[t] \in Nat /\ spent[t] \in Nat /\ surface'[t] = s
      BY <1>1 DEF TypeOK
    <3>2. CASE StopsInHook(s)
      BY <1>1, <2>5, <3>1, <3>2 DEF Counted
    <3>3. CASE ~StopsInHook(s)
      BY <1>1, <2>5, <3>1, <3>3 DEF Counted
    <3>4. QED
      BY <3>2, <3>3
  <2>7. Counted(t) \in Nat /\ clock \in Nat /\ start[t] \in Nat /\ s = surface'[t]
    BY <1>1 DEF Counted, TypeOK
  <2>. HIDE DEF s, n
  <2>8. ClockInv(t)'
    BY <1>1, <2>1, <2>3, <2>4, <2>5, <2>6, <2>7 DEF ClockInv, s, n
  <2>9. QED
    BY <2>2, <2>8 DEF ThreadInv
<1>4. QED
  BY <1>2, <1>3

\* A step of another goroutine.
LEMMA OtherStep ==
    ASSUME NEW t \in Thread, ThreadInv(t), UNCHANGED clock,
           UNCHANGED <<surface[t], rest[t], start[t], holder[t], elapsed[t], answer[t],
                       took[t], spent[t], checked[t], slow[t]>>
    PROVE  ThreadInv(t)'
<1>1. /\ Early(t)' <=> Early(t)
      /\ EarlyInv(t)' <=> EarlyInv(t)
      /\ Position(t)' = Position(t)
      /\ \A x : At(t, x)' <=> At(t, x)
      /\ Counted(t)' = Counted(t)
  BY DEF Early, EarlyInv, Position, At, Counted
<1>2. CallsInv(t)' <=> CallsInv(t)
  BY <1>1 DEF CallsInv
<1>3. ClockInv(t)' <=> ClockInv(t)
  BY <1>1 DEF ClockInv
<1>4. QED
  BY <1>1, <1>2, <1>3 DEF ThreadInv

-----------------------------------------------------------------------------
(***************************************************************************)
(* Types, and the invariant.                                               *)
(***************************************************************************)

\* A measured time is a natural number: the clock started before.
LEMMA TypeStep ==
    ASSUME IInv, [Next]_vars
    PROVE  TypeOK'
<1>. USE DEF TypeOK
<1>1. CASE Tick
  BY <1>1 DEF Tick, measured, IInv
<1>2. ASSUME NEW t \in Thread, NEW s \in Surfaces, Execute(t, s)
      PROVE  TypeOK'
  <2>1. s \in Surface /\ Calls(s) \in Seq(Step)
    BY InterceptionAssumption, Programs
  <2>2. rest' \in [Thread -> Seq(Step)] /\ surface' \in [Thread -> Surface]
    BY <1>2, <2>1 DEF Execute, Step, IInv
  <2>3. QED
    BY <1>2, <2>2 DEF Execute, Step, Answers, NotReported, IInv
<1>3. ASSUME NEW t \in Thread, Proceed(t), rest[t] # << >>, TypeOK
      PROVE  rest' \in [Thread -> Seq(Step)]
  BY <1>3 DEF Proceed, Step
<1>4. ASSUME NEW t \in Thread, Check(t)
      PROVE  TypeOK'
  <2>1. rest' \in [Thread -> Seq(Step)]
    BY <1>3, <1>4 DEF Check, At, IInv
  <2>2. checked' \in [Thread -> Nat]
    BY <1>4 DEF Check, IInv
  <2>3. QED
    BY <1>4, <2>1, <2>2 DEF Check, measured, Step, IInv
<1>5. ASSUME NEW t \in Thread, Start(t)
      PROVE  TypeOK'
  BY <1>3, <1>5 DEF Start, history, At, Step, IInv
<1>6. ASSUME NEW t \in Thread, Restart(t)
      PROVE  TypeOK'
  BY <1>3, <1>6 DEF Restart, history, At, Step, IInv
<1>7. ASSUME NEW t \in Thread, Database(t)
      PROVE  TypeOK'
  <2>1. rest[t] # << >> /\ (Proceed(t) \/ ReturnEarly(t))
    BY <1>7 DEF Database, At
  <2>2. rest' \in [Thread -> Seq(Step)]
    <3>1. ReturnEarly(t) => rest' \in [Thread -> Seq(Step)]
      BY DEF ReturnEarly, Step, IInv
    <3>2. QED
      BY <1>3, <2>1, <3>1 DEF IInv
  <2>3. answer' \in [Thread -> Answers \cup {"none"}]
    BY <1>7 DEF Database, IInv
  <2>4. QED
    BY <1>7, <2>2, <2>3 DEF Database, measured, history, Step, IInv
<1>8. ASSUME NEW t \in Thread, Measure(t)
      PROVE  TypeOK'
  <2>1. rest[t] # << >> /\ At(t, "measure") /\ CallsInv(t) /\ ClockInv(t)
    BY <1>8 DEF Measure, At, IInv, Early
  <2>2. surface[t] # "batch"
    BY <2>1, Standing DEF InOrder, IInv
  <2>3. clock - start[t] = Counted(t)
    BY <2>1, <2>2 DEF ClockInv
  <2>4. Counted(t) \in Nat
    BY DEF Counted, IInv
  <2>5. elapsed' \in [Thread -> Nat]
    BY <1>8, <2>3, <2>4 DEF Measure, IInv
  <2>6. rest' \in [Thread -> Seq(Step)]
    BY <1>3, <1>8, <2>1 DEF Measure, IInv
  <2>7. QED
    BY <1>8, <2>5, <2>6 DEF Measure, history, Step, IInv
<1>9. ASSUME NEW t \in Thread, CheckLatency(t)
      PROVE  TypeOK'
  <2>1. rest' \in [Thread -> Seq(Step)]
    BY <1>3, <1>9 DEF CheckLatency, At, IInv
  <2>2. slow' \in [Thread -> [{1, 2} -> Nat]]
    <3>1. [slow[t] EXCEPT ![holder[t]] = @ + 1] \in [{1, 2} -> Nat]
      BY DEF IInv
    <3>2. slow' = slow \/ slow' = [slow EXCEPT ![t] = [slow[t] EXCEPT ![holder[t]] = @ + 1]]
      BY <1>9 DEF CheckLatency, IInv
    <3>3. QED
      BY <3>1, <3>2 DEF IInv
  <2>3. QED
    BY <1>9, <2>1, <2>2 DEF CheckLatency, measured, Step, IInv
<1>10. CASE UNCHANGED vars
  BY <1>10 DEF vars, measured, history, IInv
<1>11. QED
  BY <1>1, <1>2, <1>4, <1>5, <1>6, <1>7, <1>8, <1>9, <1>10 DEF Next, Done

\* Every surface is in step with its program and its clock, whatever the
\* interleaving of their statements.
THEOREM Invariance == Spec => []IInv
<1>1. Init => IInv
  <2>. SUFFICES ASSUME Init PROVE IInv
    OBVIOUS
  <2>1. (CHOOSE s \in Surfaces : TRUE) \in Surface
    BY InterceptionAssumption
  <2>2. TypeOK
    <3>1. << >> \in Seq(Step)
      OBVIOUS
    <3>2. rest \in [Thread -> Seq(Step)]
      BY <3>1 DEF Init
    <3>3. surface \in [Thread -> Surface] /\ slow \in [Thread -> [{1, 2} -> Nat]]
      BY <2>1 DEF Init, NotReported
    <3>4. QED
      BY <3>2, <3>3 DEF Init, TypeOK, Step
  <2>3. \A t \in Thread : Early(t) /\ EarlyInv(t)
    BY DEF Init, Early, EarlyInv
  <2>4. QED
    BY <2>2, <2>3 DEF IInv
<1>2. IInv /\ [Next]_vars => IInv'
  <2>. SUFFICES ASSUME IInv, [Next]_vars PROVE IInv'
    OBVIOUS
  <2>1. TypeOK /\ TypeOK' /\ \A t \in Thread : ThreadInv(t)
    BY TypeStep DEF IInv, ThreadInv
  <2>2. CASE Tick
    BY <2>1, <2>2, TickStep DEF IInv, ThreadInv
  <2>3. ASSUME NEW t \in Thread,
               \/ \E s \in Surfaces : Execute(t, s)
               \/ Check(t) \/ Start(t) \/ Restart(t) \/ Database(t) \/ Measure(t)
               \/ CheckLatency(t)
        PROVE  IInv'
    <3>1. ThreadInv(t)'
      BY <2>1, <2>3, ExecuteStep, CheckStep, StartStep, RestartStep, DatabaseStep,
         MeasureStep, CheckLatencyStep
    <3>2. ASSUME NEW u \in Thread, u # t PROVE ThreadInv(u)'
      <4>1. UNCHANGED clock
        BY <2>3 DEF Execute, Check, Start, Restart, Database, Measure, CheckLatency
      <4>2. UNCHANGED <<surface[u], rest[u], answer[u]>>
        BY <2>1, <2>3, <3>2 DEF Execute, Check, Start, Restart, Database, Measure,
           CheckLatency, Proceed, ReturnEarly, TypeOK
      <4>3. UNCHANGED <<start[u], holder[u], elapsed[u]>>
        BY <2>1, <2>3, <3>2 DEF Execute, Check, Start, Restart, Database, Measure,
           CheckLatency, measured, TypeOK
      <4>4. UNCHANGED <<took[u], spent[u], checked[u], slow[u]>>
        BY <2>1, <2>3, <3>2 DEF Execute, Check, Start, Restart, Database, Measure,
           CheckLatency, history, TypeOK
      <4>5. QED
        BY <2>1, <4>1, <4>2, <4>3, <4>4, OtherStep
    <3>3. QED
      BY <2>1, <3>1, <3>2 DEF IInv, ThreadInv
  <2>4. CASE UNCHANGED vars
    BY <2>1, <2>4, OtherStep DEF vars, measured, history, IInv, ThreadInv
  <2>5. QED
    BY <2>2, <2>3, <2>4 DEF Next, Done
<1>3. QED
  BY <1>1, <1>2, PTL DEF Spec

\* A surface that made all its calls, with nothing left open.
LEMMA Complete ==
    ASSUME IInv, NEW t \in Thread, Over(t), ~SkipsAnalysis(surface[t], answer[t])
    PROVE  /\ CallsInv(t) /\ ClockInv(t) /\ surface[t] \in Surface
           /\ Position(t) = Len(Calls(surface[t]))
<1>1. ~Early(t) /\ rest[t] = << >> /\ surface[t] \in Surface
  BY DEF Over, Early, IInv, TypeOK
<1>2. Position(t) = Len(Calls(surface[t]))
  BY <1>1, Programs DEF Position
<1>3. QED
  BY <1>1, <1>2 DEF IInv

\* One Guard, or the two of composed tracers.
LEMMA GuardCount ==
    \A s : Cardinality(Guards(s)) = IF s = "composed" THEN 2 ELSE 1
<1>1. Cardinality({1}) = 1 /\ IsFiniteSet({1})
  BY FS_Singleton
<1>2. Cardinality({1} \cup {2}) = 2
  BY <1>1, FS_AddElement
<1>3. {1} \cup {2} = {1, 2}
  OBVIOUS
<1>4. QED
  BY <1>1, <1>2, <1>3 DEF Guards

\* A statement that ran was checked exactly once by each Guard.
THEOREM CheckedOnceHolds == Spec => []CheckedOnce
<1>1. IInv => CheckedOnce
  <2>. SUFFICES ASSUME IInv, NEW t \in Thread, Over(t)
                PROVE  /\ checked[t] <= Cardinality(Guards(surface[t]))
                       /\ Ran(answer[t]) => checked[t] = Cardinality(Guards(surface[t]))
                       /\ answer[t] = "unsent" /\ surface[t] = "driver" => checked[t] = 0
    BY DEF CheckedOnce
  <2>1. CASE SkipsAnalysis(surface[t], answer[t])
    <3>1. checked[t] = 0
      BY <2>1 DEF IInv, Over, Early, EarlyInv
    <3>2. QED
      BY <2>1, <3>1, GuardCount DEF Ran, SkipsAnalysis
  <2>2. CASE ~SkipsAnalysis(surface[t], answer[t])
    <3>1. /\ CallsInv(t) /\ Totals(surface[t])
          /\ Position(t) = Len(Calls(surface[t]))
      BY <2>2, Complete, Order
    <3>2. checked[t] = IF surface[t] = "composed" THEN 2 ELSE 1
      BY <3>1 DEF CallsInv, Totals
    <3>3. QED
      BY <2>2, <3>2, GuardCount DEF SkipsAnalysis
  <2>3. QED
    BY <2>1, <2>2
<1>2. QED
  BY <1>1, Invariance, PTL

\* The slow-query verdict of every surface is that of the driver wrapper, apart from
\* the three named deviations.
THEOREM SlowButForKnownHolds == Spec => []SlowButForKnown
<1>1. IInv => SlowButForKnown
  <2>. SUFFICES ASSUME IInv, NEW t \in Thread, Over(t), Timed(surface[t]),
                       NEW g \in Guards(surface[t])
                PROVE  slow[t][g] =
                         IF /\ Slow(t) \/ (Succeeded(answer[t]) /\ CountsCheck(t))
                            /\ ~TakenForFailure(t)
                         THEN ReportsOf(surface[t], g) ELSE 0
    BY DEF SlowButForKnown
  <2>. DEFINE s == surface[t]
              reported == /\ Slow(t) \/ (Succeeded(answer[t]) /\ CountsCheck(t))
                          /\ ~TakenForFailure(t)
  <2>1. g \in {1, 2} /\ SlowThreshold \in Nat /\ took[t] \in Nat /\ spent[t] \in Nat
        /\ s \in Surface
    BY InterceptionAssumption DEF Guards, IInv, TypeOK
  <2>2. CASE SkipsAnalysis(s, answer[t])
    <3>1. slow[t] = NotReported
      BY <2>2 DEF IInv, Over, Early, EarlyInv
    <3>2. ~Succeeded(answer[t])
      BY <2>2 DEF Succeeded, SkipsAnalysis
    <3>3. QED
      BY <2>1, <3>1, <3>2 DEF NotReported, Slow
  <2>3. CASE ~SkipsAnalysis(s, answer[t])
    <3>1. /\ CallsInv(t) /\ ClockInv(t) /\ Totals(s)
          /\ Position(t) = Len(Calls(s))
      BY <2>1, <2>3, Complete, Order
    <3>2. elapsed[t] = Counted(t)
      BY <3>1 DEF ClockInv, Totals, Timed
    <3>3. reported <=> ~Err(s, answer[t]) /\ elapsed[t] >= SlowThreshold
      BY <2>1, <3>2 DEF Counted, Slow, CountsCheck, TakenForFailure, Err, Succeeded
    <3>4. holder[t] = IF s = "composed" THEN 2 ELSE 1
      BY <3>1 DEF CallsInv, Totals
    <3>5. slow[t][g] = IF g = holder[t] /\ reported
                       THEN IF s = "composed" THEN 2 ELSE 1 ELSE 0
      BY <2>1, <3>1, <3>3 DEF CallsInv, Totals, Timed
    <3>6. QED
      BY <2>1, <3>4, <3>5 DEF ReportsOf, Guards
  <2>4. QED
    BY <2>2, <2>3
<1>2. QED
  BY <1>1, Invariance, PTL
=============================================================================
