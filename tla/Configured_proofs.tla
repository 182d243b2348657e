-------------------------- MODULE Configured_proofs --------------------------
(***************************************************************************)
(* What the programs that read a configuration file make of it, for every  *)
(* file, every list of options and every plan: the precedence between Go   *)
(* code, file and detection, what `only`, `disable` and `severity` reach,  *)
(* what EXPLAIN may run, and what a scan reports: each rule a call can be  *)
(* seen to break, once, unless a directive on its line or the one above    *)
(* names it.                                                               *)
(***************************************************************************)
EXTENDS Configured, NaturalsInduction, WellFoundedInduction, FiniteSetTheorems, SequenceTheorems, TLAPS
-----------------------------------------------------------------------------
(* Explain.                                                                *)

\* Where Analyze is, and what it has open and sent by then.
ExplainInv ==
    /\ server \in {"postgres", "mysql"}
    /\ allowDML \in BOOLEAN
    /\ pc \in {"idle", "begin", "query", "read", "leave", "profile", "returned"}
    /\ open \in BOOLEAN
    /\ pc \in {"idle", "begin"} => sent = "none" /\ tx = "none" /\ ~open
    /\ pc \in {"begin", "query", "read", "leave", "profile"} => Accepted(statement)
    /\ pc = "query" => sent = "none" /\ ~open
    /\ pc \in {"query", "read", "leave"} => tx = (IF ReadOnly THEN "readonly" ELSE "readwrite")
    /\ pc \in {"read", "leave", "profile", "returned"} /\ sent # "none" =>
         Accepted(statement) /\ sent = (IF ReadOnly THEN "readonly" ELSE "readwrite")
    /\ pc = "profile" => tx = "rolled back" /\ ~open
    /\ pc = "returned" => tx \in {"none", "rolled back"} /\ ~open

LEMMA ExplainStep == ExplainInv /\ [ExplainNext]_explainVars => ExplainInv'
PROOF
  <1> SUFFICES ASSUME ExplainInv, [ExplainNext]_explainVars PROVE ExplainInv'
    OBVIOUS
  <1> USE DEF ExplainInv, Accepted, ReadOnly
  <1>1. ASSUME NEW s \in Statements, Validate(s) PROVE ExplainInv'
    BY <1>1 DEF Validate
  <1>2. CASE Begin
    BY <1>2 DEF Begin
  <1>3. CASE Query
    BY <1>3 DEF Query
  <1>4. CASE ReadPlan
    BY <1>4 DEF ReadPlan
  <1>5. CASE EndOfPlan
    BY <1>5 DEF EndOfPlan
  <1>6. CASE Leave
    BY <1>6 DEF Leave
  <1>7. CASE Return
    BY <1>7 DEF Return
  <1>8. CASE UNCHANGED explainVars
    BY <1>8 DEF explainVars
  <1> QED BY <1>1, <1>2, <1>3, <1>4, <1>5, <1>6, <1>7, <1>8 DEF ExplainNext

\* The other two processes leave explain alone.
LEMMA ExplainMoves == [Next]_vars => [ExplainNext]_explainVars /\ file' = file
PROOF
  BY DEF Next, vars, ScanNext, Configure, LoadPackages, SkipFile, ScanFile, WalkFails, Report,
         GuardNext, Wrap, Pass, PassFile, Build, guardVars

LEMMA ExplainKept == Spec => []ExplainInv
PROOF
  <1>1. Init => ExplainInv
    BY DEF Init, ExplainInit, ExplainInv
  <1> QED BY <1>1, ExplainStep, ExplainMoves, PTL DEF Spec

\* Whatever the statement, the flag and the failures of the server, Analyze
\* sends no more than it was allowed to, in a transaction as read-only as the
\* server can plan it in, and leaves nothing open (explain.go: Analyze).
THEOREM NothingExecutedHolds == Spec => []NothingExecuted
PROOF
  <1>1. ExplainInv => NothingExecuted
    BY DEF ExplainInv, NothingExecuted, Accepted, ReadOnly, ServerRefuses
  <1> QED BY <1>1, ExplainKept, PTL
-----------------------------------------------------------------------------
(* Scan.                                                                   *)

\* A scan that is about to load packages has been told what to run, and what
\* its user was.
ConfiguredInv ==
    /\ "pc" \in DOMAIN scan
    /\ scan.pc = "start" => scan = NotScanned
    /\ scan.pc = "load" => /\ scan.warned = Warned(file)
                           /\ scan.rules = DefaultWithProfile(Profile(file)).rules

LEMMA ConfiguredStep == ConfiguredInv /\ [Next]_vars => ConfiguredInv'
PROOF
  <1> SUFFICES ASSUME ConfiguredInv, [Next]_vars PROVE ConfiguredInv'
    OBVIOUS
  <1> USE DEF ConfiguredInv
  <1>1. ASSUME Configure, file' = file PROVE ConfiguredInv'
    <2> DEFINE rules == DefaultWithProfile(Profile(file)).rules
               warned == Warned(file)
               refused == format \notin {"console", "", "json"} \/ Refused(file)
    <2>1. rules' = rules /\ warned' = warned
      BY <1>1 DEF Profile, SeverityIs, CheckSettings, Warned, ScanHasNoRules
    <2>2. /\ scan = NotScanned
          /\ scan' = IF refused THEN [scan EXCEPT !.pc = "ended", !.exit = "failed"]
                     ELSE [scan EXCEPT !.pc = "load", !.warned = warned, !.rules = rules]
      BY <1>1 DEF Configure
    <2> HIDE DEF rules, warned, refused
    <2>3. "pc" \in DOMAIN scan' /\ scan'.pc # "start"
          /\ (scan'.pc = "load" => scan'.warned = warned /\ scan'.rules = rules)
      BY <2>2 DEF NotScanned
    <2> QED BY <2>1, <2>3 DEF rules, warned
  <1>2. ASSUME \/ LoadPackages \/ SkipFile \/ ScanFile \/ WalkFails
               \/ \E written \in BOOLEAN : Report(written)
        PROVE  ConfiguredInv'
    <2>1. "pc" \in DOMAIN scan' /\ scan'.pc \in {"scan", "ended"}
      BY <1>2 DEF LoadPackages, SkipFile, ScanFile, WalkFails, Report
    <2> QED BY <2>1
  <1>3. ASSUME UNCHANGED <<scan, file>> PROVE ConfiguredInv'
    BY <1>3 DEF Profile, SeverityIs, CheckSettings, Warned, ScanHasNoRules
  <1>4. [ScanNext]_scan /\ file' = file
    BY DEF Next, vars, scanVars, ExplainNext, explainVars, Validate, Begin, Query, ReadPlan, EndOfPlan, Leave, Return,
           GuardNext, Wrap, Pass, PassFile, Build, guardVars
  <1> QED BY <1>1, <1>2, <1>3, <1>4 DEF ScanNext

\* A scan runs what the file narrows it to, less what the file turns off, and
\* says so when that is not what `only` lists or is nothing at all (config.go:
\* checkScanHasRules).
THEOREM NarrowingHonouredHolds == Spec => []NarrowingHonoured
PROOF
  <1>1. Init => ConfiguredInv
    BY DEF Init, ScanInit, NotScanned, ConfiguredInv
  <1>2. ConfiguredInv => NarrowingHonoured
    <2> SUFFICES ASSUME scan.pc = "load", ConfiguredInv
                 PROVE  /\ \A r \in scan.rules : ~TurnedOff(r)
                        /\ IF file.only = {}
                           THEN scan.rules = {r \in Evaluated : ~TurnedOff(r)}
                           ELSE /\ scan.rules \subseteq file.only \/ scan.warned
                                /\ scan.rules # {} \/ scan.warned
      BY DEF NarrowingHonoured
    <2> DEFINE p == Profile(file)
    <2>1. scan.rules = {r \in Evaluated : ~Skip(p, r)} /\ scan.warned = Warned(file)
      BY DEF ConfiguredInv, DefaultWithProfile
    <2>2. \A r \in Evaluated : r \in p.disabled <=> TurnedOff(r)
      BY DEF Profile, CollectNames, SeverityIs, TurnedOff, Rule
    <2>3. p.only = file.only \cap Rule
      BY DEF Profile, CollectNames
    <2>4. ScanHasNoRules(file) => Warned(file)
      BY DEF Warned
    <2>5. ScanHasNoRules(file) <=>
            file.only # {} /\ (p.only = {} \/ \A r \in Evaluated : Skip(p, r))
      BY DEF ScanHasNoRules
    <2> HIDE DEF p
    <2> QED BY <2>1, <2>2, <2>3, <2>4, <2>5 DEF Skip
  <1> QED BY <1>1, <1>2, ConfiguredStep, PTL DEF Spec
-----------------------------------------------------------------------------
(* The options of a Guard.                                                 *)

\* Every nonempty set of naturals has a least element, ...
LEMMA Least ==
  ASSUME NEW T, T \subseteq Nat, T # {}
  PROVE  \E m \in T : \A k \in T : m <= k
PROOF
  <1>1. PICK m \in T : \A k \in T : <<k, m>> \notin OpToRel(<, Nat)
    BY NatLessThanWellFounded, WFMin
  <1>2. \A k \in T : ~(k < m)
    BY <1>1 DEF OpToRel
  <1> QED BY <1>2

\* ... and one of bounded ones a greatest.
LEMMA Greatest ==
  ASSUME NEW n \in Nat, NEW T, T \subseteq 1 .. n, T # {}
  PROVE  \E m \in T : \A k \in T : k <= m
PROOF
  <1> DEFINE U == {j \in 0 .. n : n - j \in T}
  <1>1. U \subseteq Nat /\ U # {}
    <2>1. PICK k \in T : TRUE
      OBVIOUS
    <2>2. k \in 1 .. n /\ n - k \in 0 .. n /\ n - (n - k) = k
      BY <2>1
    <2>3. n - k \in U
      BY <2>1, <2>2
    <2>4. U \subseteq Nat
      OBVIOUS
    <2> HIDE DEF U
    <2> QED BY <2>3, <2>4
  <1>2. PICK j \in U : \A k \in U : j <= k
    BY <1>1, Least
  <1>3. n - j \in T /\ \A k \in T : k \in 1 .. n /\ n - k \in U
    BY <1>2
  <1>4. \A k \in T : k <= n - j
    BY <1>2, <1>3
  <1> QED BY <1>3, <1>4

\* Every option there is: those of Go code, and those a file makes.
AnyOption ==
    Option \cup {[kind |-> "analyzer", value |-> "file"], [kind |-> "dedup", value |-> "file"]}

\* What the last option in A of a list was called with.
Latest(g, A) ==
    LET of == {i \in DOMAIN g : g[i] \in A}
    IN  IF of = {} THEN "none" ELSE g[CHOOSE i \in of : \A j \in of : j <= i].value

OfKind(kind) == {o \in AnyOption : o.kind = kind}
OfDetection == {o \in AnyOption : o.kind = "detected" /\ o.value # "unknown"}

LEMMA LatestOfNone == \A A : Latest(<< >>, A) = "none"
PROOF
  BY DEF Latest

\* The last option of a list that is one longer.
LEMMA LatestAppend ==
  ASSUME NEW g \in Seq(AnyOption), NEW o \in AnyOption, NEW A
  PROVE  Latest(Append(g, o), A) = IF o \in A THEN o.value ELSE Latest(g, A)
PROOF
  <1> DEFINE n == Len(g)
             h == Append(g, o)
             of(s) == {i \in DOMAIN s : s[i] \in A}
             last(s) == CHOOSE i \in of(s) : \A j \in of(s) : j <= i
  <1>1. n \in Nat /\ DOMAIN g = 1 .. n /\ DOMAIN h = 1 .. n + 1 /\ h[n + 1] = o
        /\ \A i \in 1 .. n : h[i] = g[i]
    BY AppendProperties
  <1> HIDE DEF n, h
  <1>2. CASE o \in A
    <2>1. n + 1 \in of(h) /\ \A j \in of(h) : j <= n + 1
      BY <1>1, <1>2
    <2>2. \A i \in of(h) : (\A j \in of(h) : j <= i) => i = n + 1
      BY <1>1, <2>1
    <2> HIDE DEF of
    <2>3. last(h) = n + 1
      BY <2>1, <2>2
    <2>4. Latest(h, A) = h[last(h)].value
      BY <2>1 DEF Latest, of
    <2> QED BY <1>1, <1>2, <2>3, <2>4 DEF h
  <1>3. CASE o \notin A
    <2>1. of(h) = of(g) /\ of(g) \subseteq 1 .. n
      BY <1>1, <1>3
    <2>2. Latest(h, A) = (IF of(h) = {} THEN "none" ELSE h[last(h)].value)
          /\ Latest(g, A) = (IF of(g) = {} THEN "none" ELSE g[last(g)].value)
      BY DEF Latest
    <2> HIDE DEF of
    <2>3. last(h) = last(g)
      BY <2>1
    <2>4. of(g) # {} => last(g) \in of(g)
      BY <1>1, <2>1, Greatest
    <2> HIDE DEF last
    <2> QED BY <1>1, <1>3, <2>1, <2>2, <2>3, <2>4 DEF h
  <1> QED BY <1>2, <1>3

Or(value, default) == IF value = "none" THEN default ELSE value
IsSet(value) == value # "none"

\* The options struct after a list of options: of each kind the last counts.
Collected(g) ==
    LET was(kind) == Latest(g, OfKind(kind))
    IN  [slow |-> Or(was("slow"), "default"), slowSet |-> IsSet(was("slow")),
         n1 |-> Or(was("n1"), "off"), n1Set |-> IsSet(was("n1")),
         dedup |-> Or(was("dedup"), "default"),
         parser |-> Or(was("parser"), "nil"),
         analyzer |-> DefaultWithProfile(Using(was("analyzer"))),
         dialect |-> Or(was("dialect"), "unknown"), dialectSet |-> IsSet(was("dialect")),
         detected |-> Or(Latest(g, OfDetection), "unknown")]

LEMMA CollectedNone == Collected(<< >>) = DefaultOptions
PROOF
  BY LatestOfNone DEF Collected, DefaultOptions, Using, Or, IsSet

LEMMA CollectedAppend ==
  ASSUME NEW g \in Seq(AnyOption), NEW o \in AnyOption
  PROVE  Collected(Append(g, o)) = Apply(Collected(g), o)
PROOF
  <1> DEFINE was(kind) == Latest(g, OfKind(kind))
             is(kind) == Latest(Append(g, o), OfKind(kind))
  <1>1. \A kind : is(kind) = IF o.kind = kind THEN o.value ELSE was(kind)
    BY LatestAppend DEF OfKind
  <1>2. Latest(Append(g, o), OfDetection) =
          IF o.kind = "detected" /\ o.value # "unknown" THEN o.value ELSE Latest(g, OfDetection)
    BY LatestAppend DEF OfDetection
  <1>3. o.value # "none"
        /\ o.kind \in {"slow", "n1", "dedup", "parser", "dialect", "detected", "analyzer"}
    BY DEF AnyOption, Option, Dialects
  <1>4. \A value, default : Or(value, default) = IF value = "none" THEN default ELSE value
    BY DEF Or
  <1>5. Collected(g) =
          [slow |-> Or(was("slow"), "default"), slowSet |-> IsSet(was("slow")),
           n1 |-> Or(was("n1"), "off"), n1Set |-> IsSet(was("n1")), dedup |-> Or(was("dedup"), "default"),
           parser |-> Or(was("parser"), "nil"), analyzer |-> DefaultWithProfile(Using(was("analyzer"))),
           dialect |-> Or(was("dialect"), "unknown"), dialectSet |-> IsSet(was("dialect")),
           detected |-> Or(Latest(g, OfDetection), "unknown")]
    BY DEF Collected
  <1>6. Collected(Append(g, o)) =
          [slow |-> Or(is("slow"), "default"), slowSet |-> IsSet(is("slow")),
           n1 |-> Or(is("n1"), "off"), n1Set |-> IsSet(is("n1")), dedup |-> Or(is("dedup"), "default"),
           parser |-> Or(is("parser"), "nil"), analyzer |-> DefaultWithProfile(Using(is("analyzer"))),
           dialect |-> Or(is("dialect"), "unknown"), dialectSet |-> IsSet(is("dialect")),
           detected |-> Or(Latest(Append(g, o), OfDetection), "unknown")]
    BY DEF Collected
  <1> HIDE DEF was, is
  <1>7. CASE o.kind = "slow"
    <2> DEFINE halfway == [Collected(g) EXCEPT !.slow = o.value]
    <2>1. Apply(Collected(g), o) = [halfway EXCEPT !.slowSet = IsSet(o.value)]
      BY <1>3, <1>7 DEF Apply, IsSet
    <2>2. /\ is("n1") = was("n1") /\ is("dedup") = was("dedup") /\ is("parser") = was("parser")
          /\ is("analyzer") = was("analyzer") /\ is("dialect") = was("dialect") /\ is("slow") = o.value
          /\ Latest(Append(g, o), OfDetection) = Latest(g, OfDetection)
      BY <1>1, <1>2, <1>7
    <2>3. Or(o.value, "default") = o.value
      BY <1>3, <1>4
    <2>4. halfway =
            [slow |-> o.value, slowSet |-> IsSet(was("slow")),
             n1 |-> Or(was("n1"), "off"), n1Set |-> IsSet(was("n1")), dedup |-> Or(was("dedup"), "default"),
             parser |-> Or(was("parser"), "nil"), analyzer |-> DefaultWithProfile(Using(was("analyzer"))),
             dialect |-> Or(was("dialect"), "unknown"), dialectSet |-> IsSet(was("dialect")),
             detected |-> Or(Latest(g, OfDetection), "unknown")]
      BY <1>5
    <2> HIDE DEF halfway
    <2>5. Apply(Collected(g), o) =
            [slow |-> o.value, slowSet |-> IsSet(o.value),
             n1 |-> Or(was("n1"), "off"), n1Set |-> IsSet(was("n1")), dedup |-> Or(was("dedup"), "default"),
             parser |-> Or(was("parser"), "nil"), analyzer |-> DefaultWithProfile(Using(was("analyzer"))),
             dialect |-> Or(was("dialect"), "unknown"), dialectSet |-> IsSet(was("dialect")),
             detected |-> Or(Latest(g, OfDetection), "unknown")]
      BY <2>1, <2>4
    <2> QED BY <1>6, <2>2, <2>3, <2>5
  <1>8. CASE o.kind = "n1"
    <2> DEFINE halfway == [Collected(g) EXCEPT !.n1 = o.value]
    <2>1. Apply(Collected(g), o) = [halfway EXCEPT !.n1Set = IsSet(o.value)]
      BY <1>3, <1>8 DEF Apply, IsSet
    <2>2. /\ is("slow") = was("slow") /\ is("dedup") = was("dedup") /\ is("parser") = was("parser")
          /\ is("analyzer") = was("analyzer") /\ is("dialect") = was("dialect") /\ is("n1") = o.value
          /\ Latest(Append(g, o), OfDetection) = Latest(g, OfDetection)
      BY <1>1, <1>2, <1>8
    <2>3. Or(o.value, "off") = o.value
      BY <1>3, <1>4
    <2>4. halfway =
            [slow |-> Or(was("slow"), "default"), slowSet |-> IsSet(was("slow")),
             n1 |-> o.value, n1Set |-> IsSet(was("n1")), dedup |-> Or(was("dedup"), "default"),
             parser |-> Or(was("parser"), "nil"), analyzer |-> DefaultWithProfile(Using(was("analyzer"))),
             dialect |-> Or(was("dialect"), "unknown"), dialectSet |-> IsSet(was("dialect")),
             detected |-> Or(Latest(g, OfDetection), "unknown")]
      BY <1>5
    <2> HIDE DEF halfway
    <2>5. Apply(Collected(g), o) =
            [slow |-> Or(was("slow"), "default"), slowSet |-> IsSet(was("slow")),
             n1 |-> o.value, n1Set |-> IsSet(o.value), dedup |-> Or(was("dedup"), "default"),
             parser |-> Or(was("parser"), "nil"), analyzer |-> DefaultWithProfile(Using(was("analyzer"))),
             dialect |-> Or(was("dialect"), "unknown"), dialectSet |-> IsSet(was("dialect")),
             detected |-> Or(Latest(g, OfDetection), "unknown")]
      BY <2>1, <2>4
    <2> QED BY <1>6, <2>2, <2>3, <2>5
  <1>9. CASE o.kind = "dedup"
    <2>1. Apply(Collected(g), o) = [Collected(g) EXCEPT !.dedup = o.value]
      BY <1>9 DEF Apply
    <2>2. /\ is("slow") = was("slow") /\ is("n1") = was("n1") /\ is("parser") = was("parser")
          /\ is("analyzer") = was("analyzer") /\ is("dialect") = was("dialect") /\ is("dedup") = o.value
          /\ Latest(Append(g, o), OfDetection) = Latest(g, OfDetection)
      BY <1>1, <1>2, <1>9
    <2>3. Or(o.value, "default") = o.value
      BY <1>3, <1>4
    <2> QED BY <1>5, <1>6, <2>1, <2>2, <2>3
  <1>10. CASE o.kind = "parser"
    <2>1. Apply(Collected(g), o) = [Collected(g) EXCEPT !.parser = o.value]
      BY <1>10 DEF Apply, TakeParser
    <2>2. /\ is("slow") = was("slow") /\ is("n1") = was("n1") /\ is("dedup") = was("dedup")
          /\ is("analyzer") = was("analyzer") /\ is("dialect") = was("dialect") /\ is("parser") = o.value
          /\ Latest(Append(g, o), OfDetection) = Latest(g, OfDetection)
      BY <1>1, <1>2, <1>10
    <2>3. Or(o.value, "nil") = o.value
      BY <1>3, <1>4
    <2> QED BY <1>5, <1>6, <2>1, <2>2, <2>3
  <1>11. CASE o.kind = "dialect"
    <2> DEFINE halfway == [Collected(g) EXCEPT !.dialect = o.value]
    <2>1. Apply(Collected(g), o) = [halfway EXCEPT !.dialectSet = IsSet(o.value)]
      BY <1>3, <1>11 DEF Apply, IsSet
    <2>2. /\ is("slow") = was("slow") /\ is("n1") = was("n1") /\ is("dedup") = was("dedup")
          /\ is("parser") = was("parser") /\ is("analyzer") = was("analyzer") /\ is("dialect") = o.value
          /\ Latest(Append(g, o), OfDetection) = Latest(g, OfDetection)
      BY <1>1, <1>2, <1>11
    <2>3. Or(o.value, "unknown") = o.value
      BY <1>3, <1>4
    <2>4. halfway =
            [slow |-> Or(was("slow"), "default"), slowSet |-> IsSet(was("slow")),
             n1 |-> Or(was("n1"), "off"), n1Set |-> IsSet(was("n1")), dedup |-> Or(was("dedup"), "default"),
             parser |-> Or(was("parser"), "nil"), analyzer |-> DefaultWithProfile(Using(was("analyzer"))),
             dialect |-> o.value, dialectSet |-> IsSet(was("dialect")),
             detected |-> Or(Latest(g, OfDetection), "unknown")]
      BY <1>5
    <2> HIDE DEF halfway
    <2>5. Apply(Collected(g), o) =
            [slow |-> Or(was("slow"), "default"), slowSet |-> IsSet(was("slow")),
             n1 |-> Or(was("n1"), "off"), n1Set |-> IsSet(was("n1")), dedup |-> Or(was("dedup"), "default"),
             parser |-> Or(was("parser"), "nil"), analyzer |-> DefaultWithProfile(Using(was("analyzer"))),
             dialect |-> o.value, dialectSet |-> IsSet(o.value),
             detected |-> Or(Latest(g, OfDetection), "unknown")]
      BY <2>1, <2>4
    <2> QED BY <1>6, <2>2, <2>3, <2>5
  <1>12. CASE o.kind = "analyzer"
    <2>1. Apply(Collected(g), o) = [Collected(g) EXCEPT !.analyzer = DefaultWithProfile(Using(o.value))]
      BY <1>12 DEF Apply
    <2>2. /\ is("slow") = was("slow") /\ is("n1") = was("n1") /\ is("dedup") = was("dedup")
          /\ is("parser") = was("parser") /\ is("dialect") = was("dialect") /\ is("analyzer") = o.value
          /\ Latest(Append(g, o), OfDetection) = Latest(g, OfDetection)
      BY <1>1, <1>2, <1>12
    <2> QED BY <1>5, <1>6, <2>1, <2>2
  <1>13. CASE o.kind = "detected"
    BY <1>1, <1>2, <1>3, <1>4, <1>5, <1>6, <1>13 DEF Apply
  <1> QED BY <1>3, <1>7, <1>8, <1>9, <1>10, <1>11, <1>12, <1>13

\* The struct is what the list makes of it, and the Guard what the struct says.
GuardInv ==
    /\ given \in Seq(AnyOption)
    /\ options = Collected(given)
    /\ given = << >> => guard = NoGuard
    /\ guard.built => guard = NewGuard(options)

LEMMA GuardStep == GuardInv /\ [Next]_vars => GuardInv'
PROOF
  <1> SUFFICES ASSUME GuardInv, [Next]_vars PROVE GuardInv'
    OBVIOUS
  <1>1. ASSUME NEW o \in AnyOption, given' = Append(given, o), options' = Apply(options, o),
               ~guard.built, UNCHANGED <<guard, file>>
        PROVE  GuardInv'
    <2>1. given' \in Seq(AnyOption) /\ given' # << >>
      BY <1>1, AppendProperties DEF GuardInv
    <2>2. options' = Collected(given')
      BY <1>1, CollectedAppend DEF GuardInv
    <2>3. Collected(given)' = Collected(given')
      BY <1>1 DEF Collected, Using, Profile, SeverityIs, CheckSettings
    <2> QED BY <1>1, <2>1, <2>2, <2>3 DEF GuardInv
  <1>2. ASSUME NEW d \in Dialects, Wrap(d), file' = file PROVE GuardInv'
    <2> DEFINE o == [kind |-> "detected", value |-> d]
    <2>1. o \in AnyOption
      BY DEF AnyOption, Option
    <2>2. given' = Append(given, o) /\ options' = Apply(options, o) /\ ~guard.built /\ guard' = guard
      BY <1>2 DEF Wrap, GuardInv, NoGuard
    <2> HIDE DEF o
    <2> QED BY <1>1, <1>2, <2>1, <2>2
  <1>3. ASSUME NEW o \in Option, Pass(o), file' = file PROVE GuardInv'
    BY <1>1, <1>3 DEF Pass, AnyOption
  <1>4. ASSUME PassFile, file' = file PROVE GuardInv'
    <2> DEFINE analyzer == [kind |-> "analyzer", value |-> "file"]
               deduped == [kind |-> "dedup", value |-> "file"]
    <2>1. analyzer \in AnyOption /\ deduped \in AnyOption
      BY DEF AnyOption
    <2>2. ~guard.built /\ guard' = guard
      BY <1>4 DEF PassFile
    <2>3. \/ given' = Append(given, analyzer) /\ options' = Apply(options, analyzer)
          \/ /\ given' = given \o <<analyzer, deduped>>
             /\ options' = Apply(Apply(options, analyzer), deduped)
      BY <1>4 DEF PassFile
    <2> HIDE DEF analyzer, deduped
    <2>4. given \in Seq(AnyOption) /\ options = Collected(given)
      BY DEF GuardInv
    <2>5. CASE given' = given \o <<analyzer, deduped>> /\ options' = Apply(Apply(options, analyzer), deduped)
      <3> DEFINE half == Append(given, analyzer)
      <3>1. half \in Seq(AnyOption)
        BY <2>1, <2>4, AppendProperties
      <3>2. given \o <<analyzer, deduped>> = Append(half, deduped)
        BY <2>1, <2>4
      <3>3. given' \in Seq(AnyOption) /\ given' # << >>
        BY <2>1, <2>5, <3>1, <3>2, AppendProperties
      <3>4. Collected(half) = Apply(options, analyzer)
        BY <2>1, <2>4, CollectedAppend
      <3>5. Collected(Append(half, deduped)) = Apply(Collected(half), deduped)
        BY <2>1, <3>1, CollectedAppend
      <3>6. options' = Collected(given')
        BY <2>5, <3>2, <3>4, <3>5
      <3>7. Collected(given)' = Collected(given')
        BY <1>4 DEF Collected, Using, Profile, SeverityIs, CheckSettings
      <3> QED BY <2>2, <3>3, <3>6, <3>7 DEF GuardInv
    <2> QED BY <1>1, <1>4, <2>1, <2>2, <2>3, <2>5
  <1>5. ASSUME UNCHANGED <<given, options, guard, file>> PROVE GuardInv'
    BY <1>5 DEF GuardInv, Collected, Using, Profile, SeverityIs, CheckSettings
  <1>6. ASSUME Build, file' = file PROVE GuardInv'
    <2>1. options' = options /\ given' = given /\ given # << >> /\ guard' = NewGuard(options)
      BY <1>6 DEF Build
    <2>2. Collected(given)' = Collected(given)
      BY <1>6, <2>1 DEF Collected, Using, Profile, SeverityIs, CheckSettings
    <2>3. NewGuard(options)' = NewGuard(options)
      BY <2>1
    <2> QED BY <2>1, <2>2, <2>3 DEF GuardInv
  <1>7. file' = file /\ (GuardNext \/ UNCHANGED guardVars)
    BY DEF Next, vars, ScanNext, Configure, LoadPackages, SkipFile, ScanFile, WalkFails, Report,
           ExplainNext, explainVars, Validate, Begin, Query, ReadPlan, EndOfPlan, Leave, Return
  <1> QED BY <1>2, <1>3, <1>4, <1>5, <1>6, <1>7 DEF GuardNext, guardVars

LEMMA GuardKept == Spec => []GuardInv
PROOF
  <1>1. Init => GuardInv
    BY CollectedNone DEF Init, GuardInit, GuardInv, NoGuard
  <1> QED BY <1>1, GuardStep, PTL DEF Spec

\* A file of the application or of explain is one a configuration can be.
FileInv == process \in {"app", "explain"} => FileType(file)

LEMMA FileKept == Spec => []FileInv
PROOF
  <1>1. Init => FileInv
    BY ConfiguredAssumption DEF Init, FileInv
  <1>2. FileInv /\ [Next]_vars => FileInv'
    BY DEF FileInv, FileType, Next, vars, GuardNext, Wrap, Pass, PassFile, Build, guardVars, ScanNext,
           Configure, LoadPackages, SkipFile, ScanFile, WalkFails, Report,
           ExplainNext, explainVars, Validate, Begin, Query, ReadPlan, EndOfPlan, Leave, Return
  <1> QED BY <1>1, <1>2, PTL DEF Spec

\* Only an application builds a Guard.
BuiltInv == guard.built => process = "app"

LEMMA BuiltKept == Spec => []BuiltInv
PROOF
  <1>1. Init => BuiltInv
    BY DEF Init, GuardInit, NoGuard, BuiltInv
  <1>2. BuiltInv /\ [Next]_vars => BuiltInv'
    BY DEF BuiltInv, Next, vars, GuardNext, Wrap, Pass, PassFile, Build, guardVars, ScanNext,
           Configure, LoadPackages, SkipFile, ScanFile, WalkFails, Report,
           ExplainNext, explainVars, Validate, Begin, Query, ReadPlan, EndOfPlan, Leave, Return
  <1> QED BY <1>1, <1>2, PTL DEF Spec

\* The first of a list of sources that names something.
LEMMA FirstOfTwo ==
  ASSUME NEW a, NEW b, b # "none"
  PROVE  FirstNamed(<<a, b>>) = IF a # "none" THEN a ELSE b
PROOF
  <1> DEFINE sources == <<a, b>>
             naming == {i \in DOMAIN sources : sources[i] # "none"}
             first == CHOOSE i \in naming : \A j \in naming : i <= j
  <1>1. FirstNamed(sources) = sources[first]
    BY DEF FirstNamed
  <1>2. DOMAIN sources = {1, 2} /\ sources[1] = a /\ sources[2] = b
    OBVIOUS
  <1>3. first \in naming /\ \A j \in naming : first <= j
    <2>1. \E i \in naming : \A j \in naming : i <= j
      BY <1>2
    <2> QED BY <2>1
  <1> HIDE DEF first
  <1> QED BY <1>1, <1>2, <1>3

LEMMA FirstOfThree ==
  ASSUME NEW a, NEW b, NEW c, c # "none"
  PROVE  FirstNamed(<<a, b, c>>) = IF a # "none" THEN a ELSE IF b # "none" THEN b ELSE c
PROOF
  <1> DEFINE sources == <<a, b, c>>
             naming == {i \in DOMAIN sources : sources[i] # "none"}
             first == CHOOSE i \in naming : \A j \in naming : i <= j
  <1>1. FirstNamed(sources) = sources[first]
    BY DEF FirstNamed
  <1>2. DOMAIN sources = {1, 2, 3} /\ sources[1] = a /\ sources[2] = b /\ sources[3] = c
    OBVIOUS
  <1>3. first \in naming /\ \A j \in naming : first <= j
    <2>1. \E i \in naming : \A j \in naming : i <= j
      BY <1>2
    <2> QED BY <2>1
  <1> HIDE DEF first
  <1> QED BY <1>1, <1>2, <1>3

LEMMA FirstOfFive ==
  ASSUME NEW a, NEW b, NEW c, NEW d, NEW e, e # "none"
  PROVE  FirstNamed(<<a, b, c, d, e>>) =
           IF a # "none" THEN a ELSE IF b # "none" THEN b ELSE IF c # "none" THEN c
           ELSE IF d # "none" THEN d ELSE e
PROOF
  <1> DEFINE sources == <<a, b, c, d, e>>
             naming == {i \in DOMAIN sources : sources[i] # "none"}
             first == CHOOSE i \in naming : \A j \in naming : i <= j
  <1>1. FirstNamed(sources) = sources[first]
    BY DEF FirstNamed
  <1>2. /\ DOMAIN sources = {1, 2, 3, 4, 5}
        /\ sources[1] = a /\ sources[2] = b /\ sources[3] = c /\ sources[4] = d /\ sources[5] = e
    OBVIOUS
  <1>3. first \in naming /\ \A j \in naming : first <= j
    <2>1. \E i \in naming : \A j \in naming : i <= j
      BY <1>2
    <2> QED BY <2>1
  <1> HIDE DEF first
  <1> QED BY <1>1, <1>2, <1>3

\* Given and Detected are what Latest says, and an option has the values of its kind.
LEMMA GivenIsLatest ==
  ASSUME given \in Seq(AnyOption)
  PROVE  /\ \A kind : Given(kind) = Latest(given, OfKind(kind))
         /\ Detected = Latest(given, OfDetection)
PROOF
  <1>1. \A i \in DOMAIN given : given[i] \in AnyOption
    OBVIOUS
  <1>2. ASSUME NEW kind PROVE Given(kind) = Latest(given, OfKind(kind))
    <2> DEFINE here == {i \in DOMAIN given : given[i].kind = kind}
               there == {i \in DOMAIN given : given[i] \in OfKind(kind)}
    <2>1. here = there
      BY <1>1 DEF OfKind
    <2>2. Given(kind) = IF here = {} THEN "none"
                        ELSE given[CHOOSE i \in here : \A j \in here : j <= i].value
      BY DEF Given
    <2>3. Latest(given, OfKind(kind)) = IF there = {} THEN "none"
                                        ELSE given[CHOOSE i \in there : \A j \in there : j <= i].value
      BY DEF Latest
    <2> HIDE DEF here, there
    <2> QED BY <2>1, <2>2, <2>3
  <1>3. Detected = Latest(given, OfDetection)
    <2> DEFINE here == {i \in DOMAIN given : given[i].kind = "detected" /\ given[i].value # "unknown"}
               there == {i \in DOMAIN given : given[i] \in OfDetection}
    <2>1. here = there
      BY <1>1 DEF OfDetection
    <2>2. Detected = IF here = {} THEN "none"
                     ELSE given[CHOOSE i \in here : \A j \in here : j <= i].value
      BY DEF Detected
    <2>3. Latest(given, OfDetection) = IF there = {} THEN "none"
                                       ELSE given[CHOOSE i \in there : \A j \in there : j <= i].value
      BY DEF Latest
    <2> HIDE DEF here, there
    <2> QED BY <2>1, <2>2, <2>3
  <1> QED BY <1>2, <1>3

LEMMA LatestValue ==
  ASSUME NEW g \in Seq(AnyOption), NEW A
  PROVE  Latest(g, A) = "none" \/ \E o \in AnyOption : o \in A /\ Latest(g, A) = o.value
PROOF
  <1> DEFINE of == {i \in DOMAIN g : g[i] \in A}
             last == CHOOSE i \in of : \A j \in of : j <= i
  <1>1. CASE of = {}
    BY <1>1 DEF Latest
  <1>2. CASE of # {}
    <2>1. of \subseteq 1 .. Len(g) /\ Len(g) \in Nat
      OBVIOUS
    <2>2. Latest(g, A) = g[last].value
      BY <1>2 DEF Latest
    <2> HIDE DEF of
    <2>3. last \in of
      BY <1>2, <2>1, Greatest
    <2> HIDE DEF last
    <2>4. g[last] \in AnyOption /\ g[last] \in A
      BY <2>3 DEF of
    <2> QED BY <2>2, <2>4
  <1> QED BY <1>1, <1>2

LEMMA GivenValues ==
  ASSUME given \in Seq(AnyOption)
  PROVE  /\ Given("slow") \in {"none", "go"} /\ Given("n1") \in {"none", "go"}
         /\ Given("dedup") \in {"none", "go", "file"}
         /\ Given("analyzer") \in {"none", "default", "file"}
         /\ Given("parser") \in Dialects \cup {"none", "nil"}
         /\ Given("dialect") \in Dialects \cup {"none"}
         /\ Detected \in (Dialects \cup {"none"}) \ {"unknown"}
PROOF
  <1>1. ASSUME NEW kind
        PROVE  Given(kind) = "none" \/ \E o \in AnyOption : o.kind = kind /\ Given(kind) = o.value
    <2>1. Given(kind) = Latest(given, OfKind(kind))
      BY GivenIsLatest
    <2>2. \/ Latest(given, OfKind(kind)) = "none"
          \/ \E o \in AnyOption : o \in OfKind(kind) /\ Latest(given, OfKind(kind)) = o.value
      BY LatestValue
    <2> QED BY <2>1, <2>2 DEF OfKind
  <1>2. Detected = "none" \/ \E o \in AnyOption : /\ o.kind = "detected" /\ o.value # "unknown"
                                                  /\ Detected = o.value
    BY GivenIsLatest, LatestValue DEF OfDetection
  <1> QED BY <1>1, <1>2 DEF AnyOption, Option, Dialects

\* Settling the dialect changes nothing else about the analyzer.
LEMMA ResolvedAnalyzer ==
  ASSUME NEW p, NEW o, o.analyzer = DefaultWithProfile(p)
  PROVE  /\ Resolved(o).rules = {r \in Evaluated : ~Skip(p, r)}
         /\ Resolved(o).disabled = p.disabled
         /\ Resolved(o).severity = p.severity
         /\ Resolved(o).settings = p.settings
         /\ LET parsed == IF o.parser = "nil" \/ p.dialect # "unknown" THEN p.dialect ELSE o.parser
            IN  Resolved(o).dialect = IF o.dialectSet THEN o.dialect
                                      ELSE IF parsed = "unknown" /\ o.detected # "unknown"
                                      THEN o.detected ELSE parsed
PROOF
  <1> DEFINE a == DefaultWithProfile(p)
             parsed == IF o.parser = "nil" THEN a ELSE WithParser(a, o.parser)
             Same(b) == /\ b.rules = a.rules /\ b.disabled = a.disabled
                        /\ b.severity = a.severity /\ b.settings = a.settings
  <1>1. /\ a.rules = {r \in Evaluated : ~Skip(p, r)} /\ a.disabled = p.disabled
        /\ a.severity = p.severity /\ a.settings = p.settings
        /\ a.dialect = p.dialect /\ a.dialectSet = (p.dialect # "unknown")
        /\ DOMAIN a = {"rules", "disabled", "severity", "settings", "dialect", "dialectSet"}
    BY DEF DefaultWithProfile, Disabled
  <1> HIDE DEF a
  <1>2. /\ Same(parsed) /\ DOMAIN parsed = DOMAIN a
        /\ parsed.dialect = IF o.parser = "nil" \/ p.dialect # "unknown" THEN p.dialect ELSE o.parser
    BY <1>1 DEF WithParser
  <1>3. Resolved(o) = CASE o.dialectSet -> WithDialect(parsed, o.dialect)
                        [] ~o.dialectSet /\ parsed.dialect = "unknown" /\ o.detected # "unknown"
                             -> WithDialect(parsed, o.detected)
                        [] OTHER -> parsed
    BY DEF Resolved, a
  <1> HIDE DEF parsed
  <1>4. \A d : Same(WithDialect(parsed, d)) /\ WithDialect(parsed, d).dialect = d
    BY <1>1, <1>2 DEF WithDialect
  <1>5. CASE o.dialectSet
    BY <1>1, <1>2, <1>3, <1>4, <1>5
  <1>6. CASE ~o.dialectSet /\ parsed.dialect = "unknown" /\ o.detected # "unknown"
    BY <1>1, <1>2, <1>3, <1>4, <1>6
  <1>7. CASE ~o.dialectSet /\ ~(parsed.dialect = "unknown" /\ o.detected # "unknown")
    BY <1>1, <1>2, <1>3, <1>7
  <1> QED BY <1>5, <1>6, <1>7

\* The options and the policies of a Guard that was built.
LEMMA BuiltGuard ==
  ASSUME GuardInv, guard.built
  PROVE  /\ given \in Seq(AnyOption)
         /\ guard.analyzer = Resolved(options)
         /\ options.analyzer = DefaultWithProfile(Active)
         /\ guard.slow = IF Given("slow") = "none" /\ "threshold" \in Active.settings["slow-query"] THEN "file"
                         ELSE Or(Given("slow"), "default")
         /\ guard.n1 = IF "n-plus-one" \in Active.disabled THEN "off"
                       ELSE IF Given("n1") = "none" /\ Active.settings["n-plus-one"] = Pair THEN "file"
                       ELSE Or(Given("n1"), "off")
         /\ guard.slowEnabled = ("slow-query" \notin Active.disabled)
         /\ guard.slowSeverity = RuleSeverity(Active, "slow-query", DefaultSeverity)
         /\ guard.n1Severity = RuleSeverity(Active, "n-plus-one", DefaultSeverity)
         /\ guard.dedup = Or(Given("dedup"), "default")
         /\ options.dialectSet = (Given("dialect") # "none")
         /\ options.dialect = Or(Given("dialect"), "unknown")
         /\ options.parser = Or(Given("parser"), "nil")
         /\ options.detected = Or(Detected, "unknown")
PROOF
  <1>1. /\ options.slow = Or(Given("slow"), "default") /\ options.slowSet = (Given("slow") # "none")
        /\ options.n1 = Or(Given("n1"), "off") /\ options.n1Set = (Given("n1") # "none")
        /\ options.dedup = Or(Given("dedup"), "default") /\ options.parser = Or(Given("parser"), "nil")
        /\ options.analyzer = DefaultWithProfile(Active)
        /\ options.dialect = Or(Given("dialect"), "unknown")
        /\ options.dialectSet = (Given("dialect") # "none")
        /\ options.detected = Or(Detected, "unknown")
    BY GivenIsLatest DEF GuardInv, Collected, Active, IsSet
  <1>2. /\ Resolved(options).disabled = Active.disabled /\ Resolved(options).severity = Active.severity
        /\ Resolved(options).settings = Active.settings
    BY <1>1, ResolvedAnalyzer
  <1>3. guard = NewGuard(options)
    BY DEF GuardInv
  <1>4. /\ guard.analyzer = Resolved(options)
        /\ guard.slow = IF ~options.slowSet /\ "threshold" \in Resolved(options).settings["slow-query"]
                        THEN "file" ELSE options.slow
        /\ guard.n1 = IF "n-plus-one" \notin Resolved(options).disabled
                      THEN IF ~options.n1Set /\ Resolved(options).settings["n-plus-one"] = Pair
                           THEN "file" ELSE options.n1
                      ELSE "off"
        /\ guard.slowEnabled = ("slow-query" \notin Resolved(options).disabled)
        /\ guard.slowSeverity = RuleSeverity(Resolved(options), "slow-query", DefaultSeverity)
        /\ guard.n1Severity = RuleSeverity(Resolved(options), "n-plus-one", DefaultSeverity)
        /\ guard.dedup = options.dedup
    BY <1>3 DEF NewGuard, RuleEnabled
  <1>5. /\ guard.slow = IF Given("slow") = "none" /\ "threshold" \in Active.settings["slow-query"] THEN "file"
                        ELSE Or(Given("slow"), "default")
        /\ guard.n1 = IF "n-plus-one" \in Active.disabled THEN "off"
                      ELSE IF Given("n1") = "none" /\ Active.settings["n-plus-one"] = Pair THEN "file"
                      ELSE Or(Given("n1"), "off")
    BY <1>1, <1>2, <1>4
  <1>6. /\ guard.slowSeverity = RuleSeverity(Active, "slow-query", DefaultSeverity)
        /\ guard.n1Severity = RuleSeverity(Active, "n-plus-one", DefaultSeverity)
    BY <1>2, <1>4 DEF RuleSeverity
  <1> QED BY <1>1, <1>2, <1>4, <1>5, <1>6 DEF GuardInv

\* A profile names a dialect, or none is known.
LEMMA ActiveDialect == FileType(file) => Active.dialect \in Dialects
PROOF
  BY DEF FileType, Active, Using, Profile, NoProfile, Dialects

\* Whatever options come in whatever order, a policy is what Go code says, else
\* the file, else what was detected, except that a rule that is turned off
\* stays off (options.go, dialect.go, guard.go: NewGuard).
THEOREM PrecedenceHolds == Spec => []Precedence
PROOF
  <1>1. GuardInv /\ FileInv /\ BuiltInv => Precedence
    <2> SUFFICES ASSUME GuardInv, FileInv, BuiltInv, guard.built PROVE Precedence
      BY DEF Precedence
    <2>1. Active.dialect \in Dialects
      BY ActiveDialect DEF FileInv, BuiltInv
    <2>2. \A value, default : Or(value, default) = IF value = "none" THEN default ELSE value
      BY DEF Or
    <2>3. \A condition, source : Names(condition, source) = IF condition THEN source ELSE "none"
      BY DEF Names
    <2>4. guard.slow = FirstNamed(<<Given("slow"),
                                    Names("threshold" \in Active.settings["slow-query"], "file"),
                                    "default">>)
      <3> DEFINE named == Names("threshold" \in Active.settings["slow-query"], "file")
      <3>1. FirstNamed(<<Given("slow"), named, "default">>)
              = IF Given("slow") # "none" THEN Given("slow") ELSE IF named # "none" THEN named ELSE "default"
        BY FirstOfThree
      <3>2. guard.slow = IF Given("slow") = "none" /\ "threshold" \in Active.settings["slow-query"] THEN "file"
                         ELSE Or(Given("slow"), "default")
        BY BuiltGuard
      <3> QED BY <2>2, <2>3, <3>1, <3>2
    <2>5. guard.n1 = IF "n-plus-one" \in Active.disabled THEN "off"
                     ELSE FirstNamed(<<Given("n1"), Names(Active.settings["n-plus-one"] = Pair, "file"), "off">>)
      <3> DEFINE named == Names(Active.settings["n-plus-one"] = Pair, "file")
      <3>1. FirstNamed(<<Given("n1"), named, "off">>)
              = IF Given("n1") # "none" THEN Given("n1") ELSE IF named # "none" THEN named ELSE "off"
        BY FirstOfThree
      <3>2. guard.n1 = IF "n-plus-one" \in Active.disabled THEN "off"
                       ELSE IF Given("n1") = "none" /\ Active.settings["n-plus-one"] = Pair THEN "file"
                       ELSE Or(Given("n1"), "off")
        BY BuiltGuard
      <3> QED BY <2>2, <2>3, <3>1, <3>2
    <2>6. guard.dedup = FirstNamed(<<Given("dedup"), "default">>)
      BY <2>2, BuiltGuard, FirstOfTwo
    <2>7. guard.analyzer.dialect =
            FirstNamed(<<Given("dialect"),
                         Names(Active.dialect # "unknown", Active.dialect),
                         Names(Given("parser") \notin {"nil", "unknown"}, Given("parser")),
                         Detected,
                         "unknown">>)
      <3> DEFINE parser == Or(Given("parser"), "nil")
                 parsed == IF parser = "nil" \/ Active.dialect # "unknown" THEN Active.dialect ELSE parser
      <3>1. guard.analyzer.dialect =
              IF Given("dialect") # "none" THEN Given("dialect")
              ELSE IF parsed = "unknown" /\ Or(Detected, "unknown") # "unknown" THEN Detected ELSE parsed
        <4> DEFINE o == options
        <4>1. /\ o.analyzer = DefaultWithProfile(Active) /\ guard.analyzer = Resolved(o)
              /\ o.dialectSet = (Given("dialect") # "none") /\ o.dialect = Or(Given("dialect"), "unknown")
              /\ o.parser = parser /\ o.detected = Or(Detected, "unknown")
          BY BuiltGuard
        <4> HIDE DEF o
        <4>2. LET was == IF o.parser = "nil" \/ Active.dialect # "unknown" THEN Active.dialect ELSE o.parser
              IN  Resolved(o).dialect = IF o.dialectSet THEN o.dialect
                                        ELSE IF was = "unknown" /\ o.detected # "unknown"
                                        THEN o.detected ELSE was
          BY <4>1, ResolvedAnalyzer
        <4> QED BY <2>2, <4>1, <4>2
      <3>2. /\ Given("dialect") \in Dialects \cup {"none"} /\ Given("parser") \in Dialects \cup {"none", "nil"}
            /\ Detected \in (Dialects \cup {"none"}) \ {"unknown"}
        BY BuiltGuard, GivenValues
      <3>3. FirstNamed(<<Given("dialect"),
                         Names(Active.dialect # "unknown", Active.dialect),
                         Names(Given("parser") \notin {"nil", "unknown"}, Given("parser")),
                         Detected,
                         "unknown">>)
              = IF Given("dialect") # "none" THEN Given("dialect")
                ELSE IF Names(Active.dialect # "unknown", Active.dialect) # "none"
                THEN Names(Active.dialect # "unknown", Active.dialect)
                ELSE IF Names(Given("parser") \notin {"nil", "unknown"}, Given("parser")) # "none"
                THEN Names(Given("parser") \notin {"nil", "unknown"}, Given("parser"))
                ELSE IF Detected # "none" THEN Detected ELSE "unknown"
        BY FirstOfFive
      <3> QED BY <2>1, <2>2, <2>3, <3>1, <3>2, <3>3 DEF Dialects
    <2> QED BY <2>4, <2>5, <2>6, <2>7, BuiltGuard DEF Precedence
  <1> QED BY <1>1, GuardKept, FileKept, BuiltKept, PTL
-----------------------------------------------------------------------------
(* The issues of a plan.                                                   *)

\* Induction, over the set of the numbers for which the claim holds.
LEMMA Induct ==
  ASSUME NEW T, 0 \in T, \A n \in Nat : n \in T => n + 1 \in T
  PROVE  Nat \subseteq T
PROOF
  <1> SUFFICES ASSUME NEW z \in Nat, z \notin T PROVE FALSE
    OBVIOUS
  <1> DEFINE B == {n \in Nat : n \notin T}
  <1>1. B \subseteq Nat /\ B # {}
    OBVIOUS
  <1>2. PICK m \in B : \A k \in B : m <= k
    BY <1>1, Least
  <1>3. m # 0
    OBVIOUS
  <1>4. m - 1 \in Nat /\ m - 1 \notin B
    BY <1>2, <1>3
  <1>5. (m - 1) + 1 = m
    BY <1>2
  <1> QED BY <1>4, <1>5

PlanIssue == [rule : Plan, severity : Severities]

\* How often a rule is reported.
CountOf(found, r) == Cardinality({i \in DOMAIN found : found[i].rule = r})

LEMMA CountNone == \A r : CountOf(<< >>, r) = 0
PROOF
  <1>1. \A r : {i \in DOMAIN << >> : << >>[i].rule = r} = {}
    OBVIOUS
  <1> QED BY <1>1, FS_EmptySet DEF CountOf

\* One more element of a sequence that has property P or not.
LEMMA CountUpTo ==
  ASSUME NEW n \in Nat, NEW P, P \subseteq 1 .. n + 1
  PROVE  /\ Cardinality(P \cap (1 .. n)) \in Nat
         /\ Cardinality(P) = Cardinality(P \cap (1 .. n)) + (IF n + 1 \in P THEN 1 ELSE 0)
PROOF
  <1> DEFINE Q == P \cap (1 .. n)
  <1>1. IsFiniteSet(1 .. n) /\ Q \subseteq 1 .. n
    BY FS_Interval
  <1>2. IsFiniteSet(Q) /\ Cardinality(Q) \in Nat
    BY <1>1, FS_Subset, FS_CardinalityType
  <1>3. 1 .. n + 1 = (1 .. n) \cup {n + 1} /\ n + 1 \notin 1 .. n
    OBVIOUS
  <1>4. /\ n + 1 \in P => P = Q \cup {n + 1}
        /\ n + 1 \notin P => P = Q
        /\ n + 1 \notin Q
    BY <1>3
  <1>5. Cardinality(P) = Cardinality(Q) + (IF n + 1 \in P THEN 1 ELSE 0)
    <2> HIDE DEF Q
    <2>1. CASE n + 1 \in P
      <3>1. Cardinality(Q \cup {n + 1}) = Cardinality(Q) + 1
        BY <1>2, <1>4, FS_AddElement
      <3> QED BY <1>4, <2>1, <3>1
    <2>2. CASE n + 1 \notin P
      BY <1>2, <1>4, <2>2
    <2> QED BY <2>1, <2>2
  <1> QED BY <1>2, <1>5

LEMMA CountAppend ==
  ASSUME NEW S, NEW s \in Seq(S), NEW e \in S, NEW r
  PROVE  /\ CountOf(s, r) \in Nat
         /\ CountOf(Append(s, e), r) = CountOf(s, r) + (IF e.rule = r THEN 1 ELSE 0)
PROOF
  <1> DEFINE n == Len(s)
             t == Append(s, e)
             P == {i \in DOMAIN t : t[i].rule = r}
  <1>1. n \in Nat /\ DOMAIN s = 1 .. n /\ DOMAIN t = 1 .. n + 1 /\ t[n + 1] = e
        /\ \A i \in 1 .. n : t[i] = s[i]
    BY AppendProperties
  <1> HIDE DEF n, t
  <1>2. P \subseteq 1 .. n + 1 /\ (n + 1 \in P <=> e.rule = r)
    BY <1>1
  <1>3. P \cap (1 .. n) = {i \in DOMAIN s : s[i].rule = r}
    BY <1>1
  <1>4. CountOf(s, r) = Cardinality(P \cap (1 .. n)) /\ CountOf(t, r) = Cardinality(P)
    BY <1>3 DEF CountOf
  <1> HIDE DEF P
  <1>5. /\ Cardinality(P \cap (1 .. n)) \in Nat
        /\ Cardinality(P) = Cardinality(P \cap (1 .. n)) + (IF n + 1 \in P THEN 1 ELSE 0)
    BY <1>1, <1>2, CountUpTo
  <1> QED BY <1>2, <1>4, <1>5 DEF t

\* What the filter keeps of one issue.
Overridden(a, i) == [i EXCEPT !.severity = RuleSeverity(a, i.rule, @)]

Filters(kept, a, found, m) ==
    kept = [n \in 0 .. m |->
              IF n = 0 THEN << >>
              ELSE IF RuleEnabled(a, found[n].rule) THEN Append(kept[n - 1], Overridden(a, found[n]))
              ELSE kept[n - 1]]

LEMMA FilterExists ==
  ASSUME NEW a, NEW found, NEW m \in Nat
  PROVE  \E kept : Filters(kept, a, found, m)
PROOF
  <1> DEFINE T == {n \in Nat : \E kept : Filters(kept, a, found, n)}
  <1>1. 0 \in T
    <2> DEFINE kept == [n \in 0 .. 0 |-> << >>]
    <2>1. kept = [n \in 0 .. 0 |->
              IF n = 0 THEN << >>
              ELSE IF RuleEnabled(a, found[n].rule) THEN Append(kept[n - 1], Overridden(a, found[n]))
              ELSE kept[n - 1]]
      OBVIOUS
    <2>2. Filters(kept, a, found, 0)
      BY <2>1 DEF Filters
    <2> QED BY <2>2
  <1>2. ASSUME NEW n \in Nat, n \in T PROVE n + 1 \in T
    <2>1. PICK kept : Filters(kept, a, found, n)
      BY <1>2
    <2> DEFINE next == IF RuleEnabled(a, found[n + 1].rule) THEN Append(kept[n], Overridden(a, found[n + 1]))
                       ELSE kept[n]
               more == [k \in 0 .. n + 1 |-> IF k = n + 1 THEN next ELSE kept[k]]
    <2>2. \A k \in 0 .. n : kept[k] = IF k = 0 THEN << >>
                                      ELSE IF RuleEnabled(a, found[k].rule)
                                      THEN Append(kept[k - 1], Overridden(a, found[k])) ELSE kept[k - 1]
      BY <2>1 DEF Filters
    <2>3. \A k \in 0 .. n + 1 : k # 0 => k - 1 \in 0 .. n /\ k - 1 # n + 1
      OBVIOUS
    <2>4. \A k \in 0 .. n : k # n + 1 /\ k \in 0 .. n + 1
      OBVIOUS
    <2>5. more[n + 1] = next /\ (\A k \in 0 .. n : more[k] = kept[k]) /\ DOMAIN more = 0 .. n + 1
      BY <2>4
    <2>6. next = IF RuleEnabled(a, found[n + 1].rule) THEN Append(more[n], Overridden(a, found[n + 1])) ELSE more[n]
      BY <2>5
    <2>7. more = [k \in 0 .. n + 1 |-> more[k]]
      OBVIOUS
    <2> HIDE DEF next, more
    <2>8. \A k \in 0 .. n + 1 : more[k] = IF k = 0 THEN << >>
                                          ELSE IF RuleEnabled(a, found[k].rule)
                                          THEN Append(more[k - 1], Overridden(a, found[k])) ELSE more[k - 1]
      <3>1. CASE n + 1 = 0
        BY <3>1
      <3> SUFFICES ASSUME NEW k \in 0 .. n + 1
                   PROVE  more[k] = IF k = 0 THEN << >>
                                    ELSE IF RuleEnabled(a, found[k].rule)
                                    THEN Append(more[k - 1], Overridden(a, found[k])) ELSE more[k - 1]
        OBVIOUS
      <3>2. CASE k = n + 1
        <4>1. k # 0 /\ k - 1 = n
          BY <3>2
        <4> QED BY <2>5, <2>6, <3>2, <4>1
      <3>3. CASE k \in 0 .. n
        <4>1. k # 0 => k - 1 \in 0 .. n
          BY <3>3
        <4> QED BY <2>2, <2>5, <3>3, <4>1
      <3> QED BY <3>2, <3>3
    <2>9. Filters(more, a, found, n + 1)
      BY <2>7, <2>8 DEF Filters
    <2> QED BY <2>9
  <1> HIDE DEF T
  <1>3. m \in T
    BY <1>1, <1>2, Induct
  <1> QED BY <1>3 DEF T

\* How often it is among the first n.
CountTo(found, n, r) == Cardinality({i \in 1 .. n : found[i].rule = r})

LEMMA CountToNext ==
  ASSUME NEW found, NEW n \in Nat, NEW r
  PROVE  CountTo(found, n + 1, r) = CountTo(found, n, r) + (IF found[n + 1].rule = r THEN 1 ELSE 0)
PROOF
  <1> DEFINE P == {i \in 1 .. n + 1 : found[i].rule = r}
  <1>1. P \subseteq 1 .. n + 1 /\ (n + 1 \in P <=> found[n + 1].rule = r)
    OBVIOUS
  <1>2. P \cap (1 .. n) = {i \in 1 .. n : found[i].rule = r}
    OBVIOUS
  <1> HIDE DEF P
  <1>3. Cardinality(P) = Cardinality(P \cap (1 .. n)) + (IF n + 1 \in P THEN 1 ELSE 0)
    BY <1>1, CountUpTo
  <1> QED BY <1>1, <1>2, <1>3 DEF CountTo, P

\* A filtered list holds the enabled issues of the first ones, as often as they
\* were found, each as severe as the profile says.
Kept(a, issue) ==
    /\ RuleEnabled(a, issue.rule)
    /\ issue.severity = RuleSeverity(a, issue.rule, issue.severity)

FilteredTo(a, found, n, list) ==
    /\ list \in Seq(PlanIssue)
    /\ \A i \in DOMAIN list : Kept(a, list[i])
    /\ \A r : CountOf(list, r) = IF RuleEnabled(a, r) THEN CountTo(found, n, r) ELSE 0

LEMMA FilteredNext ==
  ASSUME NEW a, \A r \in DOMAIN a.severity : a.severity[r] \in Severities,
         NEW found, NEW n \in Nat, found[n + 1] \in PlanIssue,
         NEW list, FilteredTo(a, found, n, list)
  PROVE  FilteredTo(a, found, n + 1,
                    IF RuleEnabled(a, found[n + 1].rule) THEN Append(list, Overridden(a, found[n + 1])) ELSE list)
PROOF
  <1> DEFINE e == found[n + 1]
             o == Overridden(a, e)
  <1>1. e \in PlanIssue
    OBVIOUS
  <1>2. list \in Seq(PlanIssue) /\ (\A i \in DOMAIN list : Kept(a, list[i]))
        /\ \A r : CountOf(list, r) = IF RuleEnabled(a, r) THEN CountTo(found, n, r) ELSE 0
    BY DEF FilteredTo
  <1>3. \A r : CountTo(found, n + 1, r) = CountTo(found, n, r) + (IF e.rule = r THEN 1 ELSE 0)
    BY CountToNext
  <1>4. o = [rule |-> e.rule, severity |-> RuleSeverity(a, e.rule, e.severity)]
    BY <1>1 DEF Overridden, PlanIssue
  <1> HIDE DEF o, e
  <1>5. o \in PlanIssue /\ o.rule = e.rule /\ (RuleEnabled(a, e.rule) => Kept(a, o))
    BY <1>1, <1>4 DEF PlanIssue, Kept, RuleSeverity
  <1>6. CASE RuleEnabled(a, e.rule)
    <2>1. Append(list, o) \in Seq(PlanIssue)
      BY <1>2, <1>5, AppendProperties
    <2>2. \A i \in DOMAIN Append(list, o) : Kept(a, Append(list, o)[i])
      <3>1. /\ \A i \in DOMAIN Append(list, o) : i \in DOMAIN list \/ i = Len(list) + 1
            /\ \A i \in DOMAIN list : Append(list, o)[i] = list[i]
            /\ Append(list, o)[Len(list) + 1] = o
        <4>1. /\ Len(list) \in Nat /\ DOMAIN list = 1 .. Len(list)
              /\ Len(Append(list, o)) = Len(list) + 1 /\ Append(list, o) \in Seq(PlanIssue)
              /\ \A i \in 1 .. Len(list) : Append(list, o)[i] = list[i]
              /\ Append(list, o)[Len(list) + 1] = o
          BY <1>2, <1>5, AppendProperties
        <4>2. DOMAIN Append(list, o) = 1 .. Len(list) + 1
          BY <4>1
        <4> QED BY <4>1, <4>2
      <3> QED BY <1>2, <1>5, <1>6, <3>1
    <2>3. ASSUME NEW r
          PROVE  CountOf(Append(list, o), r) = IF RuleEnabled(a, r) THEN CountTo(found, n + 1, r) ELSE 0
      <3>1. /\ CountOf(list, r) \in Nat
            /\ CountOf(Append(list, o), r) = CountOf(list, r) + (IF o.rule = r THEN 1 ELSE 0)
        BY <1>2, <1>5, CountAppend
      <3>2. CASE e.rule = r
        BY <1>2, <1>3, <1>5, <1>6, <3>1, <3>2
      <3>3. CASE e.rule # r
        <4>1. CountOf(Append(list, o), r) = CountOf(list, r)
          BY <1>5, <3>1, <3>3
        <4>2. RuleEnabled(a, r) => CountTo(found, n, r) \in Nat /\ CountTo(found, n + 1, r) = CountTo(found, n, r)
          BY <1>2, <1>3, <3>1, <3>3
        <4> QED BY <1>2, <4>1, <4>2
      <3> QED BY <3>2, <3>3
    <2> QED BY <1>6, <2>1, <2>2, <2>3 DEF FilteredTo, e, o
  <1>7. CASE ~RuleEnabled(a, e.rule)
    <2>1. ASSUME NEW r
          PROVE  CountOf(list, r) = IF RuleEnabled(a, r) THEN CountTo(found, n + 1, r) ELSE 0
      <3>1. CountOf(list, r) \in Nat
        BY <1>2, <1>5, CountAppend
      <3>2. CASE RuleEnabled(a, r)
        <4>1. e.rule # r /\ CountTo(found, n, r) = CountOf(list, r)
          BY <1>2, <1>7, <3>2
        <4>2. CountTo(found, n + 1, r) = CountTo(found, n, r)
          BY <1>3, <3>1, <4>1
        <4> QED BY <3>2, <4>1, <4>2
      <3>3. CASE ~RuleEnabled(a, r)
        BY <1>2, <3>3
      <3> QED BY <3>2, <3>3
    <2> QED BY <1>2, <1>7, <2>1 DEF FilteredTo, e
  <1> QED BY <1>6, <1>7

LEMMA Filtered ==
  ASSUME NEW a, \A r \in DOMAIN a.severity : a.severity[r] \in Severities,
         NEW found \in Seq(PlanIssue)
  PROVE  FilteredTo(a, found, Len(found), ApplyProfile(a, found))
PROOF
  <1> DEFINE m == Len(found)
             kept == CHOOSE f : Filters(f, a, found, m)
  <1>1. m \in Nat /\ \A n \in 1 .. m : found[n] \in PlanIssue
    OBVIOUS
  <1>2. Filters(kept, a, found, m)
    BY <1>1, FilterExists
  <1>3. ApplyProfile(a, found) = kept[m]
    BY DEF ApplyProfile, Filters, Overridden
  <1> HIDE DEF kept, m
  <1>4. \A n \in 0 .. m :
          kept[n] = IF n = 0 THEN << >>
                    ELSE IF RuleEnabled(a, found[n].rule) THEN Append(kept[n - 1], Overridden(a, found[n]))
                    ELSE kept[n - 1]
    BY <1>2 DEF Filters
  <1> DEFINE T == {n \in Nat : n <= m => FilteredTo(a, found, n, kept[n])}
  <1>5. 0 \in T
    <2>1. kept[0] = << >>
      BY <1>1, <1>4
    <2>2. \A r : CountTo(found, 0, r) = 0
      <3>1. \A r : {i \in 1 .. 0 : found[i].rule = r} = {}
        OBVIOUS
      <3> QED BY <3>1, FS_EmptySet DEF CountTo
    <2>3. FilteredTo(a, found, 0, << >>)
      BY <2>2, CountNone DEF FilteredTo
    <2> QED BY <2>1, <2>3
  <1>6. ASSUME NEW n \in Nat, n \in T PROVE n + 1 \in T
    <2> SUFFICES ASSUME n + 1 <= m PROVE FilteredTo(a, found, n + 1, kept[n + 1])
      OBVIOUS
    <2>1. FilteredTo(a, found, n, kept[n]) /\ found[n + 1] \in PlanIssue
      BY <1>1, <1>6
    <2>2. n + 1 \in 0 .. m /\ n + 1 # 0 /\ (n + 1) - 1 = n
      BY <1>1
    <2>3. kept[n + 1] = IF RuleEnabled(a, found[n + 1].rule) THEN Append(kept[n], Overridden(a, found[n + 1]))
                        ELSE kept[n]
      BY <1>4, <2>2
    <2> QED BY <2>1, <2>3, FilteredNext
  <1> HIDE DEF T
  <1>7. m \in T
    BY <1>1, <1>5, <1>6, Induct
  <1> QED BY <1>1, <1>3, <1>7 DEF T, m

\* One more issue, if there is reason for it.
LEMMA CountIf ==
  ASSUME NEW s \in Seq(PlanIssue), NEW issue \in PlanIssue, NEW c \in BOOLEAN
  PROVE  /\ s \o If(c, issue) \in Seq(PlanIssue)
         /\ \A r : CountOf(s \o If(c, issue), r) = CountOf(s, r) + (IF c /\ issue.rule = r THEN 1 ELSE 0)
PROOF
  <1>1. s \o <<issue>> = Append(s, issue) /\ Append(s, issue) \in Seq(PlanIssue)
    BY AppendIsConcat, AppendProperties
  <1>2. s \o << >> = s
    BY ConcatEmptySeq
  <1>3. \A r : /\ CountOf(s, r) \in Nat
               /\ CountOf(Append(s, issue), r) = CountOf(s, r) + (IF issue.rule = r THEN 1 ELSE 0)
    <2> TAKE r
    <2> QED BY CountAppend
  <1>4. CASE c
    <2>1. s \o If(c, issue) = Append(s, issue)
      BY <1>1, <1>4 DEF If
    <2> QED BY <1>1, <1>3, <1>4, <2>1
  <1>5. CASE ~c
    <2>1. s \o If(c, issue) = s
      BY <1>2, <1>5 DEF If
    <2> QED BY <1>3, <1>5, <2>1
  <1> QED BY <1>4, <1>5

LEMMA IfIssues ==
  ASSUME NEW issue \in PlanIssue, NEW c \in BOOLEAN
  PROVE  If(c, issue) \in Seq(PlanIssue)
PROOF
  BY DEF If

\* Issues of one part after another may be added one part at a time.
LEMMA Reassociated ==
  ASSUME NEW S, NEW s \in Seq(S), NEW t \in Seq(S), NEW u \in Seq(S)
  PROVE  s \o (t \o u) = (s \o t) \o u
PROOF
  <1> DEFINE tu == t \o u
             st == s \o t
             left == s \o tu
             right == st \o u
  <1>1. /\ tu \in Seq(S) /\ Len(tu) = Len(t) + Len(u)
        /\ \A i \in 1 .. Len(t) + Len(u) : tu[i] = IF i <= Len(t) THEN t[i] ELSE u[i - Len(t)]
    BY ConcatProperties
  <1>2. /\ st \in Seq(S) /\ Len(st) = Len(s) + Len(t)
        /\ \A i \in 1 .. Len(s) + Len(t) : st[i] = IF i <= Len(s) THEN s[i] ELSE t[i - Len(s)]
    BY ConcatProperties
  <1> HIDE DEF tu, st
  <1>3. /\ left \in Seq(S) /\ Len(left) = Len(s) + Len(tu)
        /\ \A i \in 1 .. Len(s) + Len(tu) : left[i] = IF i <= Len(s) THEN s[i] ELSE tu[i - Len(s)]
    <2>1. tu \in Seq(S)
      BY <1>1
    <2> QED BY <2>1, ConcatProperties
  <1>4. /\ right \in Seq(S) /\ Len(right) = Len(st) + Len(u)
        /\ \A i \in 1 .. Len(st) + Len(u) : right[i] = IF i <= Len(st) THEN st[i] ELSE u[i - Len(st)]
    <2>1. st \in Seq(S)
      BY <1>2
    <2> QED BY <2>1, ConcatProperties
  <1> HIDE DEF left, right
  <1>5. Len(s) \in Nat /\ Len(t) \in Nat /\ Len(u) \in Nat
    BY LenProperties
  <1>6. Len(left) = Len(right)
    BY <1>1, <1>2, <1>3, <1>4, <1>5
  <1>7. \A i \in 1 .. Len(left) : left[i] = right[i]
    <2> DEFINE a == Len(s)
               b == Len(t)
               c == Len(u)
    <2>1. a \in Nat /\ b \in Nat /\ c \in Nat /\ Len(left) = a + (b + c)
          /\ Len(tu) = b + c /\ Len(st) = a + b
      BY <1>1, <1>2, <1>3, <1>5
    <2>2. /\ \A i \in 1 .. b + c : tu[i] = IF i <= b THEN t[i] ELSE u[i - b]
          /\ \A i \in 1 .. a + b : st[i] = IF i <= a THEN s[i] ELSE t[i - a]
      BY <1>1, <1>2
    <2>3. /\ \A i \in 1 .. a + (b + c) : left[i] = IF i <= a THEN s[i] ELSE tu[i - a]
          /\ \A i \in 1 .. (a + b) + c : right[i] = IF i <= a + b THEN st[i] ELSE u[i - (a + b)]
      BY <1>3, <1>4, <2>1
    <2> HIDE DEF a, b, c
    <2> SUFFICES ASSUME NEW i \in 1 .. a + (b + c) PROVE left[i] = right[i]
      BY <2>1
    <2>4. i \in 1 .. (a + b) + c
      BY <2>1
    <2>5. CASE i <= a
      <3>1. i \in 1 .. a + b /\ i <= a + b
        BY <2>1, <2>5
      <3> QED BY <2>2, <2>3, <2>4, <2>5, <3>1
    <2>6. CASE i > a /\ i <= a + b
      <3>1. i \in 1 .. a + b /\ ~(i <= a) /\ i - a \in 1 .. b + c /\ i - a <= b
        BY <2>1, <2>6
      <3> QED BY <2>2, <2>3, <2>4, <2>6, <3>1
    <2>7. CASE i > a + b
      <3>1. /\ ~(i <= a) /\ ~(i <= a + b) /\ i - a \in 1 .. b + c /\ ~(i - a <= b)
            /\ (i - a) - b = i - (a + b)
        BY <2>1, <2>7
      <3> QED BY <2>2, <2>3, <2>4, <3>1
    <2> QED BY <2>1, <2>5, <2>6, <2>7
  <1> QED BY <1>3, <1>4, <1>6, <1>7, SeqEqual DEF left, right, tu, st

\* What a node or a row adds to the issues.
LEMMA IssuesFound ==
  ASSUME server \in {"postgres", "mysql"}, NEW node \in SUBSET Features, NEW s \in Seq(PlanIssue)
  PROVE  /\ s \o IssuesOf(node) \in Seq(PlanIssue)
         /\ \A r \in Plan : CountOf(s \o IssuesOf(node), r)
                              = CountOf(s, r) + (IF Shows(node, r) THEN 1 ELSE 0)
PROOF
  <1>1. \A rule \in Plan, severity \in Severities :
          Issue(rule, severity) \in PlanIssue /\ Issue(rule, severity).rule = rule
    BY DEF Issue, PlanIssue
  <1>2. /\ {"seq-scan", "high-cost", "full-table-scan", "no-index-used", "filesort"} = Plan
        /\ {"info", "warning"} \subseteq Severities
    BY DEF Plan, Severities
  <1>3. /\ Sign["seq-scan"] = "SeqScan" /\ Sign["high-cost"] = "costly"
        /\ Sign["full-table-scan"] = "ALL" /\ Sign["no-index-used"] = "keyless"
        /\ Sign["filesort"] = "filesort"
    BY DEF Sign, Plan
  <1>4. \A r : CountOf(s, r) \in Nat
    <2> TAKE r
    <2>1. Issue("filesort", "info") \in PlanIssue
      BY <1>1, <1>2
    <2> QED BY <2>1, CountAppend
  <1>5. CASE server = "postgres"
    <2> DEFINE c1 == "SeqScan" \in node
               i1 == Issue("seq-scan", IF "wide" \in node THEN "warning" ELSE "info")
               c2 == "costly" \in node
               i2 == Issue("high-cost", "warning")
               s1 == s \o If(c1, i1)
               s2 == s1 \o If(c2, i2)
    <2>1. c1 \in BOOLEAN /\ c2 \in BOOLEAN
      OBVIOUS
    <2>2. i1 \in PlanIssue /\ i1.rule = "seq-scan" /\ i2 \in PlanIssue /\ i2.rule = "high-cost"
      BY <1>1, <1>2
    <2>3. "temporary" \notin node /\ "ALL" \notin node /\ "keyless" \notin node /\ "filesort" \notin node
      BY <1>5 DEF Features
    <2>4. \A r \in Plan : Shows(node, r) <=> (c1 /\ r = "seq-scan") \/ (c2 /\ r = "high-cost")
      BY <1>2, <1>3, <2>3 DEF Shows
    <2>5. IssuesOf(node) = If(c1, i1) \o If(c2, i2)
      BY <1>5 DEF IssuesOf, WalkPgPlan
    <2> HIDE DEF c1, c2, i1, i2
    <2>6. If(c1, i1) \in Seq(PlanIssue) /\ If(c2, i2) \in Seq(PlanIssue)
      BY <2>1, <2>2, IfIssues
    <2>7. s \o IssuesOf(node) = s2
      <3> DEFINE f1 == If(c1, i1)
                 f2 == If(c2, i2)
      <3>1. f1 \in Seq(PlanIssue) /\ f2 \in Seq(PlanIssue)
        BY <2>6
      <3>2. IssuesOf(node) = f1 \o f2 /\ s2 = (s \o f1) \o f2
        BY <2>5
      <3> HIDE DEF f1, f2, s2
      <3>3. s \o (f1 \o f2) = (s \o f1) \o f2
        BY <3>1, Reassociated
      <3> QED BY <3>2, <3>3
    <2>8. /\ s1 \in Seq(PlanIssue)
          /\ \A r : CountOf(s1, r) = CountOf(s, r) + (IF c1 /\ i1.rule = r THEN 1 ELSE 0)
      BY <2>1, <2>2, CountIf
    <2> HIDE DEF s1
    <2>9. /\ s2 \in Seq(PlanIssue)
          /\ \A r : CountOf(s2, r) = CountOf(s1, r) + (IF c2 /\ i2.rule = r THEN 1 ELSE 0)
      BY <2>1, <2>2, <2>8, CountIf
    <2> HIDE DEF s2
    <2> QED BY <1>4, <2>2, <2>4, <2>7, <2>8, <2>9
  <1>6. CASE server = "mysql" /\ "temporary" \in node
    <2>1. \A r \in Plan : ~Shows(node, r)
      BY <1>6 DEF Shows
    <2>2. IssuesOf(node) = << >>
      BY <1>6 DEF IssuesOf, MysqlRowIssues
    <2>3. s \o IssuesOf(node) = s
      BY <2>2, ConcatEmptySeq
    <2> QED BY <1>4, <2>1, <2>3
  <1>7. CASE server = "mysql" /\ "temporary" \notin node
    <2> DEFINE c1 == "ALL" \in node
               i1 == Issue("full-table-scan", "warning")
               c2 == "keyless" \in node
               i2 == Issue("no-index-used", "warning")
               c3 == "filesort" \in node
               i3 == Issue("filesort", "info")
               s1 == s \o If(c1, i1)
               s2 == s1 \o If(c2, i2)
               s3 == s2 \o If(c3, i3)
    <2>1. c1 \in BOOLEAN /\ c2 \in BOOLEAN /\ c3 \in BOOLEAN
      OBVIOUS
    <2>2. /\ i1 \in PlanIssue /\ i1.rule = "full-table-scan"
          /\ i2 \in PlanIssue /\ i2.rule = "no-index-used"
          /\ i3 \in PlanIssue /\ i3.rule = "filesort"
      BY <1>1, <1>2
    <2>3. "SeqScan" \notin node /\ "costly" \notin node
      BY <1>7 DEF Features
    <2>4. \A r \in Plan : Shows(node, r) <=> \/ c1 /\ r = "full-table-scan"
                                             \/ c2 /\ r = "no-index-used"
                                             \/ c3 /\ r = "filesort"
      BY <1>2, <1>3, <1>7, <2>3 DEF Shows
    <2>5. IssuesOf(node) = (If(c1, i1) \o If(c2, i2)) \o If(c3, i3)
      BY <1>7 DEF IssuesOf, MysqlRowIssues
    <2> HIDE DEF c1, c2, c3, i1, i2, i3
    <2>6. If(c1, i1) \in Seq(PlanIssue) /\ If(c2, i2) \in Seq(PlanIssue) /\ If(c3, i3) \in Seq(PlanIssue)
      BY <2>1, <2>2, IfIssues
    <2>7. s \o IssuesOf(node) = s3
      <3> DEFINE f1 == If(c1, i1)
                 f2 == If(c2, i2)
                 f3 == If(c3, i3)
      <3>1. f1 \in Seq(PlanIssue) /\ f2 \in Seq(PlanIssue) /\ f3 \in Seq(PlanIssue)
        BY <2>6
      <3>2. IssuesOf(node) = (f1 \o f2) \o f3 /\ s3 = ((s \o f1) \o f2) \o f3
        BY <2>5
      <3> HIDE DEF f1, f2, f3, s3
      <3>3. f1 \o f2 \in Seq(PlanIssue)
        BY <3>1, ConcatProperties
      <3>4. s \o ((f1 \o f2) \o f3) = (s \o (f1 \o f2)) \o f3
        BY <3>1, <3>3, Reassociated
      <3>5. s \o (f1 \o f2) = (s \o f1) \o f2
        BY <3>1, Reassociated
      <3> QED BY <3>2, <3>4, <3>5
    <2>8. /\ s1 \in Seq(PlanIssue)
          /\ \A r : CountOf(s1, r) = CountOf(s, r) + (IF c1 /\ i1.rule = r THEN 1 ELSE 0)
      BY <2>1, <2>2, CountIf
    <2> HIDE DEF s1
    <2>9. /\ s2 \in Seq(PlanIssue)
          /\ \A r : CountOf(s2, r) = CountOf(s1, r) + (IF c2 /\ i2.rule = r THEN 1 ELSE 0)
      BY <2>1, <2>2, <2>8, CountIf
    <2> HIDE DEF s2
    <2>10. /\ s3 \in Seq(PlanIssue)
           /\ \A r : CountOf(s3, r) = CountOf(s2, r) + (IF c3 /\ i3.rule = r THEN 1 ELSE 0)
      BY <2>1, <2>2, <2>9, CountIf
    <2> HIDE DEF s3
    <2>11. ASSUME NEW r \in Plan
           PROVE  CountOf(s3, r) = CountOf(s, r) + (IF Shows(node, r) THEN 1 ELSE 0)
      <3>1. /\ CountOf(s1, r) = CountOf(s, r) + (IF c1 /\ r = "full-table-scan" THEN 1 ELSE 0)
            /\ CountOf(s2, r) = CountOf(s1, r) + (IF c2 /\ r = "no-index-used" THEN 1 ELSE 0)
            /\ CountOf(s3, r) = CountOf(s2, r) + (IF c3 /\ r = "filesort" THEN 1 ELSE 0)
            /\ CountOf(s, r) \in Nat
        BY <1>4, <2>2, <2>8, <2>9, <2>10
      <3>2. Shows(node, r) <=> \/ c1 /\ r = "full-table-scan"
                               \/ c2 /\ r = "no-index-used"
                               \/ c3 /\ r = "filesort"
        BY <2>4
      <3>3. /\ ~(r = "full-table-scan" /\ r = "no-index-used")
            /\ ~(r = "full-table-scan" /\ r = "filesort")
            /\ ~(r = "no-index-used" /\ r = "filesort")
        OBVIOUS
      <3> QED BY <2>1, <3>1, <3>2, <3>3
    <2> QED BY <2>7, <2>10, <2>11
  <1> QED BY <1>5, <1>6, <1>7

\* How many of the first n nodes or rows show r.
ShownTo(nodes, n, r) == Cardinality({k \in 1 .. n : Shows(nodes[k], r)})

LEMMA ShownNext ==
  ASSUME NEW nodes, NEW n \in Nat, NEW r
  PROVE  /\ ShownTo(nodes, 0, r) = 0
         /\ ShownTo(nodes, n + 1, r) = ShownTo(nodes, n, r) + (IF Shows(nodes[n + 1], r) THEN 1 ELSE 0)
PROOF
  <1> DEFINE P == {k \in 1 .. n + 1 : Shows(nodes[k], r)}
  <1>1. P \subseteq 1 .. n + 1 /\ (n + 1 \in P <=> Shows(nodes[n + 1], r))
    OBVIOUS
  <1>2. P \cap (1 .. n) = {k \in 1 .. n : Shows(nodes[k], r)}
    OBVIOUS
  <1>3. {k \in 1 .. 0 : Shows(nodes[k], r)} = {}
    OBVIOUS
  <1> HIDE DEF P
  <1>4. Cardinality(P) = Cardinality(P \cap (1 .. n)) + (IF n + 1 \in P THEN 1 ELSE 0)
    BY <1>1, CountUpTo
  <1>5. ShownTo(nodes, n + 1, r) = ShownTo(nodes, n, r) + (IF Shows(nodes[n + 1], r) THEN 1 ELSE 0)
    BY <1>1, <1>2, <1>4 DEF ShownTo, P
  <1> QED BY <1>3, <1>5, FS_EmptySet DEF ShownTo

FileAnalyzer == DefaultWithProfile(Profile(file))

\* The issues so far are those of the nodes read; those returned are what the
\* profile leaves of them.
PlanInv ==
    /\ issues \in Seq(PlanIssue)
    /\ plan \in Seq(SUBSET Features)
    /\ read \in 0 .. Len(plan)
    /\ pc \in {"idle", "begin", "query"} => issues = << >> /\ read = 0
    /\ pc \in {"read", "leave", "profile"} => \A r \in Plan : CountOf(issues, r) = ShownTo(plan, read, r)
    /\ pc \in {"leave", "profile"} => failed \/ read = Len(plan)
    /\ pc = "returned" =>
         /\ \A i \in DOMAIN issues : Kept(FileAnalyzer, issues[i])
         /\ failed \/ \A r \in Plan :
              CountOf(issues, r) = IF RuleEnabled(FileAnalyzer, r) THEN ShownTo(plan, Len(plan), r) ELSE 0

LEMMA FileSeverities == \A r \in DOMAIN FileAnalyzer.severity : FileAnalyzer.severity[r] \in Severities
PROOF
  BY DEF FileAnalyzer, DefaultWithProfile, Profile, CollectNames, SeverityIs

LEMMA PlanStep == ExplainInv /\ PlanInv /\ [Next]_vars => PlanInv'
PROOF
  <1> SUFFICES ASSUME ExplainInv, PlanInv, [Next]_vars PROVE PlanInv'
    OBVIOUS
  <1>1. [ExplainNext]_explainVars /\ file' = file
    BY ExplainMoves
  <1>2. server' = server /\ server \in {"postgres", "mysql"} /\ Features' = Features /\ FileAnalyzer' = FileAnalyzer
    BY <1>1 DEF ExplainNext, explainVars, Validate, Begin, Query, ReadPlan, EndOfPlan, Leave, Return,
                ExplainInv, Features, FileAnalyzer, DefaultWithProfile, Profile, SeverityIs, CheckSettings
  <1>3. ASSUME UNCHANGED <<issues, plan, read>>, pc' = "returned" => issues = << >> /\ failed',
               pc' \in {"idle", "begin", "query"} => pc \in {"idle", "begin", "query"},
               pc' \notin {"read", "leave", "profile"}
        PROVE  PlanInv'
    BY <1>2, <1>3 DEF PlanInv
  <1>4. ASSUME NEW s \in Statements, Validate(s) PROVE PlanInv'
    <2>1. UNCHANGED <<issues, plan, read>> /\ pc' \in {"begin", "returned"} /\ (pc' = "returned" => failed')
      BY <1>4 DEF Validate
    <2>2. issues = << >> /\ pc = "idle"
      BY <1>4 DEF Validate, PlanInv
    <2> QED BY <1>3, <2>1, <2>2
  <1>5. CASE Begin
    <2>1. UNCHANGED <<issues, plan, read>> /\ pc' \in {"query", "returned"} /\ (pc' = "returned" => failed')
      BY <1>5 DEF Begin
    <2>2. issues = << >> /\ pc = "begin"
      BY <1>5 DEF Begin, PlanInv
    <2> QED BY <1>3, <2>1, <2>2
  <1>6. CASE Query
    <2>1. issues = << >> /\ read = 0 /\ issues' = issues /\ read' = read
      BY <1>6 DEF Query, PlanInv
    <2>2. plan' \in Seq(SUBSET Features)
      <3>1. ASSUME NEW n \in 0 .. MaxPlan, plan' \in [1 .. n -> SUBSET Features] PROVE plan' \in Seq(SUBSET Features)
        <4>1. n \in Nat
          OBVIOUS
        <4> QED BY <3>1, <4>1
      <3> QED BY <1>6, <3>1 DEF Query, PlanInv
    <2>3. \A r \in Plan : CountOf(issues, r) = 0 /\ ShownTo(plan', 0, r) = 0
      BY <2>1, CountNone, ShownNext
    <2>4. pc' \in {"read", "leave"} /\ (pc' = "leave" => failed')
      BY <1>6 DEF Query
    <2>5. 0 \in 0 .. Len(plan')
      BY <2>2
    <2> QED BY <1>2, <2>1, <2>2, <2>3, <2>4, <2>5 DEF PlanInv
  <1>7. CASE ReadPlan
    <2> DEFINE node == plan[read + 1]
    <2>1. /\ pc = "read" /\ pc' = "read" /\ read < Len(plan) /\ read' = read + 1 /\ plan' = plan
          /\ issues' = issues \o IssuesOf(node)
      BY <1>7 DEF ReadPlan
    <2>2. /\ issues \in Seq(PlanIssue) /\ plan \in Seq(SUBSET Features) /\ read \in Nat /\ Len(plan) \in Nat
          /\ \A r \in Plan : CountOf(issues, r) = ShownTo(plan, read, r)
      BY <2>1 DEF PlanInv
    <2>3. node \in SUBSET Features /\ read + 1 \in 0 .. Len(plan)
      <3>1. read + 1 \in 1 .. Len(plan)
        BY <2>1, <2>2
      <3> QED BY <2>2, <3>1
    <2> HIDE DEF node
    <2>4. /\ issues \o IssuesOf(node) \in Seq(PlanIssue)
          /\ \A r \in Plan : CountOf(issues \o IssuesOf(node), r)
                               = CountOf(issues, r) + (IF Shows(node, r) THEN 1 ELSE 0)
      BY <1>2, <2>2, <2>3, IssuesFound
    <2>5. \A r \in Plan : ShownTo(plan, read + 1, r) = ShownTo(plan, read, r) + (IF Shows(node, r) THEN 1 ELSE 0)
      BY <2>2, ShownNext DEF node
    <2> QED BY <1>2, <2>1, <2>2, <2>3, <2>4, <2>5 DEF PlanInv
  <1>8. CASE EndOfPlan
    <2>1. /\ pc = "read" /\ pc' = "leave" /\ UNCHANGED <<issues, plan, read>>
          /\ failed' \/ read = Len(plan)
      BY <1>8 DEF EndOfPlan
    <2> QED BY <1>2, <2>1 DEF PlanInv
  <1>9. CASE Leave
    <2>1. pc = "leave" /\ pc' = "profile" /\ UNCHANGED <<issues, plan, read, failed>>
      BY <1>9 DEF Leave
    <2> QED BY <1>2, <2>1 DEF PlanInv
  <1>10. CASE Return
    <2>1. /\ pc = "profile" /\ pc' = "returned" /\ UNCHANGED <<plan, read, failed>>
          /\ issues' = ApplyProfile(FileAnalyzer, issues)
      BY <1>10 DEF Return, FileAnalyzer
    <2>2. /\ issues \in Seq(PlanIssue)
          /\ failed \/ read = Len(plan)
          /\ \A r \in Plan : CountOf(issues, r) = ShownTo(plan, read, r)
      BY <2>1 DEF PlanInv
    <2>3. FilteredTo(FileAnalyzer, issues, Len(issues), issues')
      BY <2>1, <2>2, FileSeverities, Filtered
    <2>4. \A r : CountTo(issues, Len(issues), r) = CountOf(issues, r)
      <3>1. DOMAIN issues = 1 .. Len(issues)
        BY <2>2
      <3> QED BY <3>1 DEF CountTo, CountOf
    <2> QED BY <1>2, <2>1, <2>2, <2>3, <2>4 DEF PlanInv, FilteredTo
  <1>11. CASE UNCHANGED explainVars
    BY <1>2, <1>11 DEF explainVars, PlanInv
  <1> QED BY <1>1, <1>4, <1>5, <1>6, <1>7, <1>8, <1>9, <1>10, <1>11 DEF ExplainNext

LEMMA PlanKept == Spec => []PlanInv
PROOF
  <1>1. Init => PlanInv
    <2> SUFFICES ASSUME Init PROVE PlanInv
      OBVIOUS
    <2>1. issues = << >> /\ plan = << >> /\ read = 0 /\ pc = "idle"
      BY DEF Init, ExplainInit
    <2> QED BY <2>1 DEF PlanInv
  <1> QED BY <1>1, PlanStep, ExplainKept, PTL DEF Spec

\* What the documentation says of a rule is what the profile does.
LEMMA ProfileSays ==
  ASSUME NEW r \in Rule
  PROVE  /\ r \in Profile(file).disabled <=> TurnedOff(r)
         /\ \A def : (IF r \in DOMAIN Profile(file).severity THEN Profile(file).severity[r] ELSE def)
                       = SeverityOf(r, def)
PROOF
  <1> DEFINE p == Profile(file)
  <1>1. /\ p.disabled = (file.disable \cup SeverityIs(file, {"off"})) \cap Rule
        /\ p.severity = [n \in SeverityIs(file, Severities) \cap Rule |-> file.severity[n]]
    BY DEF Profile, CollectNames
  <1> HIDE DEF p
  <1>2. r \in p.disabled <=> TurnedOff(r)
    BY <1>1 DEF SeverityIs, TurnedOff
  <1>3. ASSUME NEW def
        PROVE  (IF r \in DOMAIN p.severity THEN p.severity[r] ELSE def) = SeverityOf(r, def)
    BY <1>1 DEF SeverityIs, SeverityOf
  <1> QED BY <1>2, <1>3 DEF p

\* Turning a rule off or changing its severity reaches the statement rules and
\* the two runtime rules of every Guard that uses the file, and every issue
\* EXPLAIN returns (analyzer.go: RuleEnabled; guard.go: NewGuard; explain.go:
\* applyProfile).
THEOREM ProfileReachesEverySurfaceHolds == Spec => []ProfileReachesEverySurface
PROOF
  <1>1. GuardInv /\ PlanInv => ProfileReachesEverySurface
    <2> SUFFICES ASSUME GuardInv, PlanInv PROVE ProfileReachesEverySurface
      OBVIOUS
    <2>1. ASSUME guard.built, Given("analyzer") = "file"
          PROVE  /\ guard.slowEnabled = ~TurnedOff("slow-query")
                 /\ TurnedOff("n-plus-one") => guard.n1 = "off"
                 /\ Given("n1") # "none" /\ ~TurnedOff("n-plus-one") => guard.n1 = "go"
                 /\ guard.slowSeverity = SeverityOf("slow-query", "warning")
                 /\ guard.n1Severity = SeverityOf("n-plus-one", "warning")
                 /\ \A r \in guard.analyzer.rules : ~TurnedOff(r)
      <3> DEFINE p == Profile(file)
      <3>1. Active = p
        BY <2>1 DEF Active, Using
      <3>2. /\ given \in Seq(AnyOption)
            /\ guard.slowEnabled = ("slow-query" \notin Active.disabled)
            /\ guard.n1 = IF "n-plus-one" \in Active.disabled THEN "off"
                          ELSE IF Given("n1") = "none" /\ Active.settings["n-plus-one"] = Pair THEN "file"
                          ELSE Or(Given("n1"), "off")
            /\ guard.slowSeverity = RuleSeverity(Active, "slow-query", DefaultSeverity)
            /\ guard.n1Severity = RuleSeverity(Active, "n-plus-one", DefaultSeverity)
            /\ guard.analyzer = Resolved(options)
            /\ options.analyzer = DefaultWithProfile(Active)
        BY <2>1, BuiltGuard
      <3>3. guard.analyzer.rules = {r \in Evaluated : ~Skip(p, r)}
        BY <3>1, <3>2, ResolvedAnalyzer
      <3>4. Given("n1") \in {"none", "go"}
        BY <3>2, GivenValues
      <3> HIDE DEF p
      <3>5. {"slow-query", "n-plus-one"} \subseteq Rule /\ Evaluated \subseteq Rule
        BY DEF Rule, Runtime
      <3>6. \A r \in Rule : /\ r \in p.disabled <=> TurnedOff(r)
                            /\ \A def : (IF r \in DOMAIN p.severity THEN p.severity[r] ELSE def)
                                          = SeverityOf(r, def)
        BY ProfileSays DEF p
      <3>7. \A r \in guard.analyzer.rules : ~TurnedOff(r)
        BY <3>3, <3>5, <3>6 DEF Skip
      <3>8. /\ guard.slowSeverity = SeverityOf("slow-query", "warning")
            /\ guard.n1Severity = SeverityOf("n-plus-one", "warning")
        BY <3>1, <3>2, <3>5, <3>6 DEF RuleSeverity, DefaultSeverity
      <3>9. guard.slowEnabled = ~TurnedOff("slow-query")
        BY <3>1, <3>2, <3>5, <3>6
      <3>10. /\ TurnedOff("n-plus-one") => guard.n1 = "off"
             /\ Given("n1") # "none" /\ ~TurnedOff("n-plus-one") => guard.n1 = "go"
        BY <3>1, <3>2, <3>4, <3>5, <3>6 DEF Or
      <3> QED BY <3>7, <3>8, <3>9, <3>10
    <2>2. ASSUME pc = "returned", NEW i \in DOMAIN issues
          PROVE  /\ ~TurnedOff(issues[i].rule)
                 /\ issues[i].severity = SeverityOf(issues[i].rule, issues[i].severity)
      <3> DEFINE issue == issues[i]
                 p == Profile(file)
      <3>1. issue \in PlanIssue /\ Kept(FileAnalyzer, issue)
        BY <2>2 DEF PlanInv
      <3> HIDE DEF issue
      <3>2. issue.rule \in Rule
        BY <3>1 DEF PlanIssue, Rule
      <3>3. FileAnalyzer.disabled = p.disabled /\ FileAnalyzer.severity = p.severity
        BY DEF FileAnalyzer, DefaultWithProfile, Disabled
      <3>4. /\ issue.rule \in p.disabled <=> TurnedOff(issue.rule)
            /\ (IF issue.rule \in DOMAIN p.severity THEN p.severity[issue.rule] ELSE issue.severity)
                 = SeverityOf(issue.rule, issue.severity)
        BY <3>2, ProfileSays
      <3> HIDE DEF p
      <3> QED BY <3>1, <3>3, <3>4 DEF Kept, RuleEnabled, RuleSeverity, issue
    <2> QED BY <2>1, <2>2 DEF ProfileReachesEverySurface
  <1> QED BY <1>1, GuardKept, PlanKept, PTL

\* For every plan, an EXPLAIN that did not fail reports a rule once for each
\* node or row that shows it, or not at all if the rule is turned off; the
\* filter that drops some of them loses and repeats none of the others
\* (explain.go: walkPgPlan, analyzeMySQL, applyProfile).
THEOREM PlanReportedHolds == Spec => []PlanReported
PROOF
  <1>1. PlanInv => PlanReported
    <2> SUFFICES ASSUME PlanInv, pc = "returned", ~failed, NEW r \in Plan
                 PROVE  Cardinality({i \in DOMAIN issues : issues[i].rule = r})
                          = IF TurnedOff(r) THEN 0 ELSE Cardinality({n \in DOMAIN plan : Shows(plan[n], r)})
      BY DEF PlanReported
    <2>1. CountOf(issues, r) = IF RuleEnabled(FileAnalyzer, r) THEN ShownTo(plan, Len(plan), r) ELSE 0
      BY DEF PlanInv
    <2>2. DOMAIN plan = 1 .. Len(plan)
      BY DEF PlanInv
    <2>3. r \in Rule
      BY DEF Rule
    <2>4. FileAnalyzer.disabled = Profile(file).disabled
      BY DEF FileAnalyzer, DefaultWithProfile, Disabled
    <2>5. r \in Profile(file).disabled <=> TurnedOff(r)
      BY <2>3, ProfileSays
    <2> QED BY <2>1, <2>2, <2>4, <2>5 DEF RuleEnabled, CountOf, ShownTo
  <1> QED BY <1>1, PlanKept, PTL
-----------------------------------------------------------------------------
-----------------------------------------------------------------------------
(* Lists.                                                                  *)

\* What taking the first element of a list leaves.
LEMMA HeadAndTail ==
  ASSUME NEW S, NEW s \in Seq(S), s # << >>
  PROVE  /\ Head(s) \in S /\ Tail(s) \in Seq(S)
         /\ ToSet(s) = {Head(s)} \cup ToSet(Tail(s))
         /\ IsInjective(s) => IsInjective(Tail(s)) /\ Head(s) \notin ToSet(Tail(s))
PROOF
  <1> DEFINE n == Len(s)
             t == Tail(s)
  <1>1. /\ n \in Nat /\ n >= 1 /\ DOMAIN s = 1 .. n /\ Head(s) = s[1] /\ s[1] \in S
        /\ t \in Seq(S) /\ DOMAIN t = 1 .. n - 1 /\ \A i \in 1 .. n - 1 : t[i] = s[i + 1]
    BY HeadTailProperties, EmptySeq, LenProperties
  <1> HIDE DEF n, t
  <1>2. ToSet(s) = {s[1]} \cup ToSet(t)
    <2>1. ASSUME NEW i \in 1 .. n PROVE i = 1 \/ \E j \in 1 .. n - 1 : s[i] = t[j]
      <3>1. CASE i = 1
        BY <3>1
      <3>2. CASE i # 1
        <4> DEFINE j == i - 1
        <4>1. j \in 1 .. n - 1 /\ j + 1 = i
          BY <1>1, <3>2
        <4> HIDE DEF j
        <4>2. t[j] = s[i]
          BY <1>1, <4>1
        <4> QED BY <4>1, <4>2
      <3> QED BY <3>1, <3>2
    <2>2. ASSUME NEW j \in 1 .. n - 1 PROVE j + 1 \in 1 .. n /\ t[j] = s[j + 1]
      BY <1>1
    <2>3. 1 \in 1 .. n
      BY <1>1
    <2>4. ToSet(s) = {s[i] : i \in 1 .. n} /\ ToSet(t) = {t[j] : j \in 1 .. n - 1}
      BY <1>1 DEF ToSet
    <2>5. ToSet(s) \subseteq {s[1]} \cup ToSet(t)
      BY <2>1, <2>2, <2>4
    <2>6. {s[1]} \subseteq ToSet(s)
      BY <2>3, <2>4
    <2>7. ToSet(t) \subseteq ToSet(s)
      BY <2>2, <2>4
    <2> QED BY <2>5, <2>6, <2>7
  <1>3. ASSUME IsInjective(s) PROVE IsInjective(t) /\ s[1] \notin ToSet(t)
    <2>1. \A a, b \in 1 .. n : s[a] = s[b] => a = b
      BY <1>1, <1>3 DEF IsInjective
    <2>2. \A j \in 1 .. n - 1 : j + 1 \in 1 .. n /\ 1 \in 1 .. n /\ t[j] = s[j + 1] /\ j + 1 # 1
      BY <1>1
    <2>3. ASSUME NEW a \in 1 .. n - 1, NEW b \in 1 .. n - 1, t[a] = t[b] PROVE a = b
      <3>1. a + 1 = b + 1
        BY <2>1, <2>2, <2>3
      <3> QED BY <1>1, <3>1
    <2>4. s[1] \notin ToSet(t)
      BY <1>1, <2>1, <2>2 DEF ToSet
    <2> QED BY <1>1, <2>3, <2>4 DEF IsInjective
  <1> QED BY <1>1, <1>2, <1>3 DEF t

\* SetToSeq lists a finite set, each element once.
LEMMA Listing ==
  ASSUME NEW S, IsFiniteSet(S)
  PROVE  /\ SetToSeq(S) \in Seq(S)
         /\ IsInjective(SetToSeq(S))
         /\ ToSet(SetToSeq(S)) = S
PROOF
  <1> DEFINE n == Cardinality(S)
             f == SetToSeq(S)
  <1>1. n \in Nat /\ ExistsBijection(1 .. n, S)
    BY FS_CardinalityType
  <1>2. \E g \in [1 .. n -> S] : IsInjective(g)
    BY <1>1 DEF ExistsBijection, Bijection, Injection, IsInjective
  <1>3. f \in [1 .. n -> S] /\ IsInjective(f)
    BY <1>2 DEF SetToSeq
  <1> HIDE DEF f
  <1>4. f \in Seq(S) /\ DOMAIN f = 1 .. n
    BY <1>1, <1>3
  <1>5. f \in Injection(1 .. n, S)
    BY <1>3 DEF Injection
  <1>6. Cardinality(1 .. n) = n
    BY <1>1, FS_Interval
  <1>7. f \in Surjection(1 .. n, S)
    BY <1>5, <1>6, FS_Injection
  <1>8. ToSet(f) = S
    BY <1>3, <1>4, <1>7 DEF ToSet, Surjection
  <1> QED BY <1>3, <1>4, <1>8 DEF f

\* The elements of two lists, one after the other.
LEMMA JoinedElements ==
  ASSUME NEW R, NEW r \in Seq(R), NEW q \in Seq(R)
  PROVE  r \o q \in Seq(R) /\ ToSet(r \o q) = ToSet(r) \cup ToSet(q)
PROOF
  <1> DEFINE c == r \o q
             m == Len(r)
             n == Len(q)
  <1>1. /\ c \in Seq(R) /\ Len(c) = m + n
        /\ \A i \in 1 .. m + n : c[i] = IF i <= m THEN r[i] ELSE q[i - m]
    BY ConcatProperties
  <1>2. /\ m \in Nat /\ n \in Nat /\ DOMAIN r = 1 .. m /\ DOMAIN q = 1 .. n /\ DOMAIN c = 1 .. m + n
    BY <1>1, LenProperties
  <1> HIDE DEF c, m, n
  <1>3. ToSet(c) = {c[i] : i \in 1 .. m + n} /\ ToSet(r) = {r[i] : i \in 1 .. m} /\ ToSet(q) = {q[i] : i \in 1 .. n}
    BY <1>2 DEF ToSet
  <1>4. \A i \in 1 .. m : i \in 1 .. m + n /\ c[i] = r[i]
    BY <1>1, <1>2
  <1>5. \A j \in 1 .. n : j + m \in 1 .. m + n /\ c[j + m] = q[j]
    <2> SUFFICES ASSUME NEW j \in 1 .. n PROVE j + m \in 1 .. m + n /\ c[j + m] = q[j]
      OBVIOUS
    <2> DEFINE i == j + m
    <2>1. i \in 1 .. m + n /\ ~(i <= m) /\ i - m = j
      BY <1>2
    <2> HIDE DEF i
    <2>2. c[i] = q[j]
      BY <1>1, <2>1
    <2> QED BY <2>1, <2>2 DEF i
  <1>6. \A i \in 1 .. m + n : i \in 1 .. m \/ \E j \in 1 .. n : i = j + m
    <2> SUFFICES ASSUME NEW i \in 1 .. m + n, ~(i \in 1 .. m) PROVE \E j \in 1 .. n : i = j + m
      OBVIOUS
    <2>1. i - m \in 1 .. n /\ i = (i - m) + m
      BY <1>2
    <2> QED BY <2>1
  <1>7. ToSet(c) \subseteq ToSet(r) \cup ToSet(q)
    <2>1. \A i \in 1 .. m + n : c[i] \in ToSet(r) \cup ToSet(q)
      <3>1. \A i \in 1 .. m : c[i] \in ToSet(r)
        BY <1>3, <1>4
      <3>2. \A j \in 1 .. n : c[j + m] \in ToSet(q)
        BY <1>3, <1>5
      <3> QED BY <1>6, <3>1, <3>2
    <2> QED BY <1>3, <2>1
  <1>8. ToSet(r) \subseteq ToSet(c)
    BY <1>3, <1>4
  <1>9. ToSet(q) \subseteq ToSet(c)
    BY <1>3, <1>5
  <1> QED BY <1>1, <1>7, <1>8, <1>9 DEF c

\* A list without duplicates, followed by the elements of another set.
LEMMA Appended ==
  ASSUME NEW R, NEW r \in Seq(R), IsInjective(r),
         NEW S \in SUBSET R, IsFiniteSet(S), S \cap ToSet(r) = {}
  PROVE  /\ r \o SetToSeq(S) \in Seq(R)
         /\ IsInjective(r \o SetToSeq(S))
         /\ ToSet(r \o SetToSeq(S)) = ToSet(r) \cup S
PROOF
  <1> DEFINE q == SetToSeq(S)
             c == r \o q
             m == Len(r)
             n == Len(q)
  <1>1. q \in Seq(S) /\ IsInjective(q) /\ ToSet(q) = S
    BY Listing
  <1> HIDE DEF q
  <1>2. q \in Seq(R)
    BY <1>1
  <1>3. /\ c \in Seq(R) /\ Len(c) = m + n
        /\ \A i \in 1 .. m + n : c[i] = IF i <= m THEN r[i] ELSE q[i - m]
    BY <1>2, ConcatProperties
  <1>4. /\ m \in Nat /\ n \in Nat /\ DOMAIN r = 1 .. m /\ DOMAIN q = 1 .. n /\ DOMAIN c = 1 .. m + n
    BY <1>2, <1>3, LenProperties
  <1> HIDE DEF c, m, n
  <1>5. \A i \in 1 .. m : i \in 1 .. m + n /\ c[i] = r[i] /\ c[i] \in ToSet(r)
    BY <1>3, <1>4 DEF ToSet
  <1>6. \A j \in 1 .. n : j + m \in 1 .. m + n /\ c[j + m] = q[j] /\ q[j] \in S
    <2> SUFFICES ASSUME NEW j \in 1 .. n PROVE j + m \in 1 .. m + n /\ c[j + m] = q[j] /\ q[j] \in S
      OBVIOUS
    <2> DEFINE i == j + m
    <2>1. i \in 1 .. m + n /\ ~(i <= m) /\ i - m = j
      BY <1>4
    <2> HIDE DEF i
    <2>2. c[i] = q[j]
      BY <1>3, <2>1
    <2> QED BY <1>1, <1>4, <2>1, <2>2 DEF ToSet, i
  <1>7. \A i \in 1 .. m + n : i \in 1 .. m \/ \E j \in 1 .. n : i = j + m
    <2> SUFFICES ASSUME NEW i \in 1 .. m + n, ~(i \in 1 .. m) PROVE \E j \in 1 .. n : i = j + m
      OBVIOUS
    <2>1. i - m \in 1 .. n /\ i = (i - m) + m
      BY <1>4
    <2> QED BY <2>1
  <1>8. ToSet(c) = ToSet(r) \cup S
    <2>1. ToSet(c) \subseteq ToSet(r) \cup S
      <3>1. \A i \in 1 .. m + n : c[i] \in ToSet(r) \cup S
        BY <1>5, <1>6, <1>7
      <3>2. ToSet(c) = {c[i] : i \in 1 .. m + n}
        BY <1>4 DEF ToSet
      <3> QED BY <3>1, <3>2
    <2>2. ToSet(r) \subseteq ToSet(c)
      BY <1>4, <1>5 DEF ToSet
    <2>3. ToSet(q) \subseteq ToSet(c)
      BY <1>4, <1>6 DEF ToSet
    <2> QED BY <1>1, <2>1, <2>2, <2>3
  <1>9. IsInjective(c)
    <2>1. \A a, b \in 1 .. m : r[a] = r[b] => a = b
      BY <1>4 DEF IsInjective
    <2>2. \A a, b \in 1 .. n : q[a] = q[b] => a = b
      BY <1>1, <1>4 DEF IsInjective
    <2>3. ASSUME NEW a \in 1 .. m + n, NEW b \in 1 .. m + n, c[a] = c[b] PROVE a = b
      <3>1. CASE a \in 1 .. m /\ b \in 1 .. m
        BY <1>5, <2>1, <2>3, <3>1
      <3>2. CASE a \in 1 .. m /\ b \notin 1 .. m
        BY <1>5, <1>6, <1>7, <2>3, <3>2
      <3>3. CASE a \notin 1 .. m /\ b \in 1 .. m
        BY <1>5, <1>6, <1>7, <2>3, <3>3
      <3>4. CASE a \notin 1 .. m /\ b \notin 1 .. m
        <4>1. PICK j \in 1 .. n, k \in 1 .. n : a = j + m /\ b = k + m
          BY <1>7, <3>4
        <4>2. q[j] = q[k]
          BY <1>6, <2>3, <4>1
        <4> QED BY <2>2, <4>1, <4>2
      <3> QED BY <3>1, <3>2, <3>3, <3>4
    <2> QED BY <1>4, <2>3 DEF IsInjective
  <1> QED BY <1>3, <1>8, <1>9 DEF c, q

\* FlattenSeq joins the lists one by one; its recursive equation has a solution.
Joins(flat, seqs, n) ==
    flat = [i \in 1 .. n |-> IF i = 1 THEN seqs[i] ELSE flat[i - 1] \o seqs[i]]

LEMMA JoinsExist ==
  ASSUME NEW seqs, NEW m \in Nat
  PROVE  \E flat : Joins(flat, seqs, m)
PROOF
  <1> DEFINE T == {n \in Nat : \E flat : Joins(flat, seqs, n)}
  <1>1. 0 \in T
    <2> DEFINE flat == [i \in 1 .. 0 |-> << >>]
    <2>1. flat = [i \in 1 .. 0 |-> IF i = 1 THEN seqs[i] ELSE flat[i - 1] \o seqs[i]]
      OBVIOUS
    <2>2. Joins(flat, seqs, 0)
      BY <2>1 DEF Joins
    <2> QED BY <2>2
  <1>2. ASSUME NEW n \in Nat, n \in T PROVE n + 1 \in T
    <2>1. PICK flat : Joins(flat, seqs, n)
      BY <1>2
    <2> DEFINE next == IF n = 0 THEN seqs[n + 1] ELSE flat[n] \o seqs[n + 1]
               more == [i \in 1 .. n + 1 |-> IF i = n + 1 THEN next ELSE flat[i]]
    <2>2. \A i \in 1 .. n : flat[i] = IF i = 1 THEN seqs[i] ELSE flat[i - 1] \o seqs[i]
      BY <2>1 DEF Joins
    <2>3. \A i \in 1 .. n : i # n + 1 /\ i \in 1 .. n + 1
      OBVIOUS
    <2>4. n + 1 \in 1 .. n + 1
      OBVIOUS
    <2>5. more[n + 1] = next /\ (\A i \in 1 .. n : more[i] = flat[i]) /\ DOMAIN more = 1 .. n + 1
      BY <2>3, <2>4
    <2>6. more = [i \in 1 .. n + 1 |-> more[i]]
      OBVIOUS
    <2>7. next = IF n = 0 THEN seqs[n + 1] ELSE flat[n] \o seqs[n + 1]
      OBVIOUS
    <2> HIDE DEF next, more
    <2>8. ASSUME NEW i \in 1 .. n + 1
          PROVE  more[i] = IF i = 1 THEN seqs[i] ELSE more[i - 1] \o seqs[i]
      <3>1. CASE i = n + 1 /\ n = 0
        BY <2>5, <2>7, <3>1
      <3>2. CASE i = n + 1 /\ n # 0
        <4>1. i # 1 /\ i - 1 = n /\ n \in 1 .. n
          BY <3>2
        <4>2. more[n] = flat[n]
          BY <2>5, <4>1
        <4>3. more[i] = next /\ next = flat[n] \o seqs[i]
          BY <2>5, <2>7, <3>2
        <4> QED BY <4>1, <4>2, <4>3
      <3>3. CASE i \in 1 .. n
        <4>1. i # 1 => i - 1 \in 1 .. n
          BY <3>3
        <4>2. i # 1 => more[i - 1] = flat[i - 1]
          BY <2>5, <4>1
        <4> QED BY <2>2, <2>5, <3>3, <4>2
      <3> QED BY <3>1, <3>2, <3>3
    <2>9. Joins(more, seqs, n + 1)
      BY <2>6, <2>8 DEF Joins
    <2> QED BY <2>9
  <1> HIDE DEF T
  <1>3. m \in T
    BY <1>1, <1>2, Induct
  <1> QED BY <1>3 DEF T

\* The elements of the list of all lists are those of the lists.
LEMMA Flattened ==
  ASSUME NEW S, NEW seqs \in Seq(Seq(S))
  PROVE  /\ FlattenSeq(seqs) \in Seq(S)
         /\ ToSet(FlattenSeq(seqs)) = UNION {ToSet(p) : p \in ToSet(seqs)}
PROOF
  <1> DEFINE m == Len(seqs)
             chosen == CHOOSE flat : Joins(flat, seqs, m)
  <1>1. m \in Nat /\ DOMAIN seqs = 1 .. m /\ \A i \in 1 .. m : seqs[i] \in Seq(S)
    BY LenProperties
  <1>2. CASE m = 0
    <2>1. FlattenSeq(seqs) = seqs
      BY <1>2 DEF FlattenSeq
    <2>2. seqs = << >> /\ DOMAIN seqs = {}
      BY <1>1, <1>2, EmptySeq
    <2>3. << >> \in Seq(S) /\ ToSet(seqs) = {}
      BY <2>2, EmptySeq DEF ToSet
    <2> QED BY <2>1, <2>2, <2>3
  <1>3. CASE m # 0
    <2>1. FlattenSeq(seqs) = chosen[m]
      BY <1>3 DEF FlattenSeq, Joins
    <2>2. Joins(chosen, seqs, m)
      BY <1>1, JoinsExist
    <2> HIDE DEF chosen, m
    <2>3. \A i \in 1 .. m : chosen[i] = IF i = 1 THEN seqs[i] ELSE chosen[i - 1] \o seqs[i]
      BY <2>2 DEF Joins
    <2> DEFINE Below(n) == UNION {ToSet(seqs[i]) : i \in 1 .. n}
               T == {n \in Nat : n \in 1 .. m => chosen[n] \in Seq(S) /\ ToSet(chosen[n]) = Below(n)}
    <2>4. 0 \in T
      OBVIOUS
    <2>5. ASSUME NEW n \in Nat, n \in T PROVE n + 1 \in T
      <3> SUFFICES ASSUME n + 1 \in 1 .. m
                   PROVE  chosen[n + 1] \in Seq(S) /\ ToSet(chosen[n + 1]) = Below(n + 1)
        OBVIOUS
      <3>1. seqs[n + 1] \in Seq(S)
        BY <1>1
      <3>2. CASE n = 0
        <4>1. chosen[n + 1] = seqs[1] /\ n + 1 = 1 /\ 1 .. 1 = {1}
          BY <2>3, <3>2
        <4>2. Below(1) = ToSet(seqs[1])
          BY <4>1
        <4> QED BY <3>1, <4>1, <4>2
      <3>3. CASE n # 0
        <4>1. n \in 1 .. m /\ n + 1 # 1 /\ (n + 1) - 1 = n
          BY <1>1, <3>3
        <4>2. chosen[n] \in Seq(S) /\ ToSet(chosen[n]) = Below(n)
          BY <2>5, <4>1
        <4>3. chosen[n + 1] = chosen[n] \o seqs[n + 1]
          <5> DEFINE k == n + 1
          <5>1. k \in 1 .. m /\ k # 1 /\ k - 1 = n
            BY <4>1
          <5> HIDE DEF k
          <5> QED BY <2>3, <5>1 DEF k
        <4>4. 1 .. n + 1 = (1 .. n) \cup {n + 1}
          OBVIOUS
        <4>5. Below(n + 1) = Below(n) \cup ToSet(seqs[n + 1])
          BY <4>4
        <4> HIDE DEF Below
        <4>6. /\ chosen[n] \o seqs[n + 1] \in Seq(S)
              /\ ToSet(chosen[n] \o seqs[n + 1]) = ToSet(chosen[n]) \cup ToSet(seqs[n + 1])
          BY <3>1, <4>2, JoinedElements
        <4> QED BY <4>2, <4>3, <4>5, <4>6
      <3> QED BY <3>2, <3>3
    <2> HIDE DEF T
    <2>6. m \in T
      BY <1>1, <2>4, <2>5, Induct
    <2>7. chosen[m] \in Seq(S) /\ ToSet(chosen[m]) = Below(m)
      BY <1>1, <1>3, <2>6 DEF T
    <2>8. Below(m) = UNION {ToSet(p) : p \in ToSet(seqs)}
      <3>1. ToSet(seqs) = {seqs[i] : i \in 1 .. m}
        BY <1>1 DEF ToSet
      <3> QED BY <3>1
    <2> QED BY <2>1, <2>7, <2>8
  <1> QED BY <1>2, <1>3
-----------------------------------------------------------------------------
(* Directives.                                                             *)

Alone(lines) == {i \in DOMAIN lines : lines[i].comment # "none" /\ lines[i].code = "none"}

LEMMA GroupsInFile == \A lines : \A g \in Groups(lines) : g.last \in DOMAIN lines
PROOF
  <1> SUFFICES ASSUME NEW lines, NEW g \in Groups(lines) PROVE g.last \in DOMAIN lines
    OBVIOUS
  <1>1. \/ \E k \in DOMAIN lines : g = [first |-> k, last |-> k]
        \/ \E a, b \in Alone(lines) : g = [first |-> a, last |-> b]
    BY DEF Groups, Alone
  <1> QED BY <1>1 DEF Alone

\* A comment after code is a group by itself, and what else ends a group
\* stands on a line of its own.
LEMMA GroupOfCode ==
  ASSUME NEW lines \in Seq(Lines), NEW i \in DOMAIN lines, lines[i].code # "none"
  PROVE  /\ \A g \in Groups(lines) : g.last = i => g = [first |-> i, last |-> i]
         /\ lines[i].comment # "none" => [first |-> i, last |-> i] \in Groups(lines)
PROOF
  <1>1. i \notin Alone(lines)
    BY DEF Alone
  <1>2. ASSUME NEW g \in Groups(lines), g.last = i PROVE g = [first |-> i, last |-> i]
    <2> SUFFICES ASSUME NEW a \in Alone(lines), NEW b \in Alone(lines), g = [first |-> a, last |-> b]
                 PROVE  FALSE
      BY <1>2 DEF Groups, Alone
    <2> QED BY <1>1, <1>2
  <1>3. ASSUME lines[i].comment # "none" PROVE [first |-> i, last |-> i] \in Groups(lines)
    BY <1>3 DEF Groups
  <1> QED BY <1>2, <1>3

\* Above a call with no other comment around, also a comment on a line of its
\* own is a group by itself.
LEMMA GroupAbove ==
  ASSUME NEW lines \in Seq(Lines), NEW i \in DOMAIN lines, lines[i].code # "none",
         ~Tangled(lines, i), i > 1
  PROVE  /\ \A g \in Groups(lines) : g.last = i - 1 => g = [first |-> i - 1, last |-> i - 1]
         /\ lines[i - 1].comment # "none" => [first |-> i - 1, last |-> i - 1] \in Groups(lines)
PROOF
  <1> DEFINE j == i - 1
  <1>1. /\ DOMAIN lines = 1 .. Len(lines) /\ Len(lines) \in Nat
        /\ i \in 1 .. Len(lines) /\ j \in 1 .. Len(lines) /\ j \in DOMAIN lines
    BY LenProperties
  <1>2. CASE lines[j].code # "none"
    BY <1>1, <1>2, GroupOfCode
  <1>3. CASE lines[j].code = "none"
    <2>1. j - 1 \notin Alone(lines) \/ lines[j].comment = "none"
      <3> SUFFICES ASSUME j - 1 \in DOMAIN lines, lines[j - 1].comment # "none",
                          lines[j - 1].code = "none", lines[j].comment # "none"
                   PROVE  FALSE
        BY DEF Alone
      <3>1. i > 2 /\ j - 1 = i - 2
        BY <1>1
      <3>2. \A k \in {i - 1, i - 2} : lines[k].code = "none" /\ lines[k].comment # "none"
        BY <1>3, <3>1
      <3> QED BY <3>1, <3>2 DEF Tangled
    <2>2. j + 1 \notin Alone(lines)
      <3>1. j + 1 = i
        BY <1>1
      <3> QED BY <3>1 DEF Alone
    <2>3. ASSUME NEW g \in Groups(lines), g.last = j PROVE g = [first |-> j, last |-> j]
      <3>1. CASE g = [first |-> j, last |-> j]
        BY <3>1
      <3>2. ASSUME NEW a \in Alone(lines), NEW b \in Alone(lines), g = [first |-> a, last |-> b],
                   a .. b \subseteq Alone(lines), a <= b
            PROVE  g = [first |-> j, last |-> j]
        <4>1. b = j /\ a \in 1 .. Len(lines)
          BY <1>1, <2>3, <3>2 DEF Alone
        <4>2. a # j => j - 1 \in a .. b
          BY <1>1, <3>2, <4>1
        <4>3. lines[j].comment # "none"
          BY <4>1 DEF Alone
        <4>4. a = j
          BY <2>1, <3>2, <4>2, <4>3
        <4> QED BY <3>2, <4>1, <4>4
      <3> HIDE DEF j
      <3>3. \/ \E k \in DOMAIN lines : g = [first |-> k, last |-> k]
            \/ \E a, b \in Alone(lines) : /\ g = [first |-> a, last |-> b]
                                          /\ a .. b \subseteq Alone(lines) /\ a <= b
        BY DEF Groups, Alone
      <3>4. CASE \E k \in DOMAIN lines : g = [first |-> k, last |-> k]
        BY <2>3, <3>4
      <3> QED BY <3>2, <3>3, <3>4
    <2>4. ASSUME lines[j].comment # "none" PROVE [first |-> j, last |-> j] \in Groups(lines)
      <3> DEFINE g == [first |-> j, last |-> j]
      <3>1. j \in Alone(lines) /\ j .. j = {j} /\ j <= j
        BY <1>1, <1>3, <2>4 DEF Alone
      <3>2. g \in [first : Alone(lines), last : Alone(lines)] /\ g.first = j /\ g.last = j
        BY <3>1
      <3>3. g.first .. g.last \subseteq Alone(lines) /\ g.first <= g.last
            /\ {g.first - 1, g.last + 1} \cap Alone(lines) = {}
        BY <2>1, <2>2, <2>4, <3>1, <3>2
      <3> HIDE DEF g, j
      <3> QED BY <3>2, <3>3 DEF Groups, Alone, g
    <2> QED BY <2>3, <2>4
  <1> QED BY <1>2, <1>3

\* What a comment that is a group by itself turns off.
LEMMA SingleComment ==
  ASSUME NEW lines, NEW j \in Nat
  PROVE  LET p == ParseIgnoreComment(lines, Text(lines, [first |-> j, last |-> j]))
         IN  /\ p.found <=> lines[j].comment \in Directives
             /\ p.found => p.rules = {r \in Evaluated : lines[j].comment \in {"all", r}}
PROOF
  <1> DEFINE g == [first |-> j, last |-> j]
             text == Text(lines, g)
             at == {i \in text : lines[i].comment \in Directives}
             c == lines[j].comment
  <1>1. text = {i \in {j} : lines[i].comment # "tight"}
    <2>1. g.first .. g.last = {j}
      OBVIOUS
    <2> QED BY <2>1 DEF Text
  <1>2. "tight" \notin Directives
    BY SourceScanAssumption DEF Directives
  <1>3. at = IF c \in Directives THEN {j} ELSE {}
    <2> HIDE DEF text
    <2> QED BY <1>1, <1>2
  <1>4. c \in Directives => Min(at) = j /\ \A i \in text : i <= Min(at)
    <2> SUFFICES ASSUME c \in Directives PROVE Min(at) = j /\ \A i \in text : i <= Min(at)
      OBVIOUS
    <2>1. at = {j}
      BY <1>3
    <2>2. Min({j}) = j
      BY DEF Min
    <2> HIDE DEF at, text
    <2>3. Min(at) = j
      BY <2>1, <2>2
    <2> QED BY <1>1, <2>3
  <1>5. ParseIgnoreComment(lines, text) =
          [found |-> at # {},
           rules |-> {r \in Evaluated : /\ at # {}
                                        /\ \/ lines[Min(at)].comment = "all"
                                           \/ lines[Min(at)].comment = r /\ \A i \in text : i <= Min(at)}]
    BY DEF ParseIgnoreComment
  <1> DEFINE p == ParseIgnoreComment(lines, text)
  <1>6. /\ p.found = (at # {})
        /\ p.rules = {r \in Evaluated : /\ at # {}
                                        /\ \/ lines[Min(at)].comment = "all"
                                           \/ lines[Min(at)].comment = r /\ \A i \in text : i <= Min(at)}
    <2> HIDE DEF text, at
    <2> QED BY <1>5
  <1>7. (at # {}) <=> c \in Directives
    BY <1>3
  <1>8. ASSUME c \in Directives PROVE p.rules = {r \in Evaluated : c \in {"all", r}}
    <2>1. at # {} /\ lines[Min(at)].comment = c /\ \A i \in text : i <= Min(at)
      BY <1>4, <1>7, <1>8
    <2> HIDE DEF text, at, c, p
    <2> QED BY <1>6, <2>1
  <1>9. /\ p.found <=> c \in Directives
        /\ p.found => p.rules = {r \in Evaluated : c \in {"all", r}}
    <2> HIDE DEF text, at, c, p
    <2> QED BY <1>6, <1>7, <1>8
  <1> QED BY <1>9 DEF p

\* The comment groups that buildSuppressor hears, those over a line, and the
\* one of them that counts.
Heard(lines) == {g \in Groups(lines) : ParseIgnoreComment(lines, Text(lines, g)).found}
Over(lines, i) == {g \in Heard(lines) : g.last \in {i - 1, i}}
IsLatest(lines, i, g) == g \in Over(lines, i) /\ \A h \in Over(lines, i) : h.last <= g.last

LEMMA Suppressed ==
  ASSUME NEW lines \in Seq(Lines), NEW i \in DOMAIN lines
  PROVE  /\ Over(lines, i) = {} => buildSuppressor(lines)[i] = {}
         /\ (\E g : IsLatest(lines, i, g)) =>
              \E g : /\ IsLatest(lines, i, g)
                     /\ buildSuppressor(lines)[i] = ParseIgnoreComment(lines, Text(lines, g)).rules
PROOF
  <1> DEFINE latest == CHOOSE g \in Over(lines, i) : \A h \in Over(lines, i) : h.last <= g.last
  <1>1. buildSuppressor(lines)[i] =
          IF Over(lines, i) = {} THEN {} ELSE ParseIgnoreComment(lines, Text(lines, latest)).rules
    BY DEF buildSuppressor, Over, Heard
  <1>2. (\E g : IsLatest(lines, i, g)) => IsLatest(lines, i, latest)
    BY DEF IsLatest
  <1> HIDE DEF latest
  <1>3. IsLatest(lines, i, latest) => Over(lines, i) # {}
    BY DEF IsLatest
  <1> QED BY <1>1, <1>2, <1>3

\* A directive on the line of a call decides for it.
LEMMA OwnLine ==
  ASSUME NEW lines \in Seq(Lines), NEW i \in DOMAIN lines, lines[i].code # "none",
         lines[i].comment \in Directives
  PROVE  buildSuppressor(lines)[i] = {r \in Evaluated : lines[i].comment \in {"all", r}}
PROOF
  <1> DEFINE own == [first |-> i, last |-> i]
             rules(g) == ParseIgnoreComment(lines, Text(lines, g)).rules
  <1>1. i \in Nat /\ lines[i].comment # "none"
    <2>1. "none" \notin Directives
      BY SourceScanAssumption DEF Directives
    <2> QED BY <2>1, LenProperties
  <1>2. ParseIgnoreComment(lines, Text(lines, own)).found
        /\ rules(own) = {r \in Evaluated : lines[i].comment \in {"all", r}}
    BY <1>1, SingleComment
  <1>3. own \in Groups(lines) /\ \A g \in Groups(lines) : g.last = i => g = own
    BY <1>1, GroupOfCode
  <1>4. own.last = i
    OBVIOUS
  <1> HIDE DEF own
  <1>5. own \in Over(lines, i)
    BY <1>2, <1>3, <1>4 DEF Over, Heard
  <1>6. IsLatest(lines, i, own)
    <2>1. \A h \in Over(lines, i) : h.last \in {i - 1, i}
      BY DEF Over
    <2>2. \A x \in {i - 1, i} : x <= i
      BY <1>1
    <2> QED BY <1>4, <1>5, <2>1, <2>2 DEF IsLatest
  <1>7. \A g : IsLatest(lines, i, g) => g = own
    <2> SUFFICES ASSUME NEW g, IsLatest(lines, i, g) PROVE g = own
      OBVIOUS
    <2>1. g \in Groups(lines) /\ g.last \in {i - 1, i} /\ i <= g.last
      BY <1>4, <1>5 DEF IsLatest, Over, Heard
    <2>2. g.last = i
      BY <1>1, <2>1
    <2> QED BY <1>3, <2>1, <2>2
  <1>8. PICK g : IsLatest(lines, i, g) /\ buildSuppressor(lines)[i] = rules(g)
    BY <1>6, Suppressed
  <1> QED BY <1>2, <1>7, <1>8

\* A call without other comments around is under the directives of its own
\* line and the line above.
LEMMA Untangled ==
  ASSUME NEW lines \in Seq(Lines), NEW i \in DOMAIN lines, lines[i].code # "none",
         ~Tangled(lines, i), NEW r \in Evaluated
  PROVE  r \in buildSuppressor(lines)[i] <=> Directs(lines, i, r) \/ Directs(lines, i - 1, r)
PROOF
  <1> DEFINE j == i - 1
             above == [first |-> j, last |-> j]
             rules(g) == ParseIgnoreComment(lines, Text(lines, g)).rules
  <1>1. i \in Nat /\ i >= 1 /\ (i > 1 => j \in DOMAIN lines /\ j \in Nat) /\ (~(i > 1) => j \notin DOMAIN lines)
    BY LenProperties
  <1>2. "none" \notin Directives /\ r \in Directives /\ "all" \in Directives
    BY SourceScanAssumption DEF Directives
  <1>3. CASE lines[i].comment \in Directives
    <2>1. r \in buildSuppressor(lines)[i] <=> lines[i].comment \in {"all", r}
      BY <1>3, OwnLine
    <2>2. i > 1 => lines[j].comment \notin Directives
      BY <1>3 DEF Tangled
    <2>3. ~Directs(lines, j, r)
      BY <1>1, <1>2, <2>2 DEF Directs
    <2> QED BY <2>1, <2>3 DEF Directs
  <1>4. CASE lines[i].comment \notin Directives
    <2>1. ~Directs(lines, i, r)
      BY <1>2, <1>4 DEF Directs
    <2>2. \A g \in Over(lines, i) : g.last = j
      <3> SUFFICES ASSUME NEW g \in Over(lines, i), g.last = i PROVE FALSE
        BY DEF Over
      <3>1. g = [first |-> i, last |-> i] /\ ParseIgnoreComment(lines, Text(lines, g)).found
        BY GroupOfCode DEF Over, Heard
      <3> QED BY <1>1, <1>4, <3>1, SingleComment
    <2>3. CASE i > 1 /\ lines[j].comment \in Directives
      <3>1. above \in Groups(lines) /\ \A g \in Groups(lines) : g.last = j => g = above
        BY <1>2, <2>3, GroupAbove
      <3>2. ParseIgnoreComment(lines, Text(lines, above)).found
            /\ rules(above) = {q \in Evaluated : lines[j].comment \in {"all", q}}
        BY <1>1, <2>3, SingleComment
      <3>3. above.last = j
        OBVIOUS
      <3> HIDE DEF above
      <3>4. above \in Over(lines, i) /\ \A g \in Over(lines, i) : g = above
        BY <2>2, <3>1, <3>2, <3>3 DEF Over, Heard
      <3>5. j <= j
        BY <1>1, <2>3
      <3>6. IsLatest(lines, i, above) /\ \A g : IsLatest(lines, i, g) => g = above
        BY <3>3, <3>4, <3>5 DEF IsLatest
      <3>7. buildSuppressor(lines)[i] = rules(above)
        BY <3>6, Suppressed
      <3>8. r \in buildSuppressor(lines)[i] <=> lines[j].comment \in {"all", r}
        BY <3>2, <3>7
      <3> QED BY <1>1, <2>1, <2>3, <3>8 DEF Directs
    <2>4. CASE ~(i > 1 /\ lines[j].comment \in Directives)
      <3>1. ~Directs(lines, j, r)
        BY <1>1, <1>2, <2>4 DEF Directs
      <3>2. Over(lines, i) = {}
        <4> SUFFICES ASSUME NEW g \in Over(lines, i) PROVE FALSE
          OBVIOUS
        <4>1. g \in Groups(lines) /\ g.last = j /\ ParseIgnoreComment(lines, Text(lines, g)).found
          BY <2>2 DEF Over, Heard
        <4>2. j \in DOMAIN lines
          BY <4>1, GroupsInFile
        <4>3. i > 1
          BY <1>1, <4>2
        <4>4. g = above
          BY <4>1, <4>3, GroupAbove
        <4>5. lines[j].comment \in Directives
          BY <1>1, <4>1, <4>3, <4>4, SingleComment
        <4> QED BY <2>4, <4>3, <4>5
      <3>3. buildSuppressor(lines)[i] = {}
        BY <3>2, Suppressed
      <3> QED BY <2>1, <3>1, <3>3
    <2> QED BY <2>3, <2>4
  <1> QED BY <1>3, <1>4
-----------------------------------------------------------------------------
(* The calls of a file.                                                    *)

Firsts(lines) == {c.first : c \in Calls(lines)}
Entry(n, i, r) == [file |-> n, line |-> i, rule |-> r]

\* A call starts on a line that has code.
LEMMA FirstLine ==
  ASSUME NEW lines \in Seq(Lines), NEW i \in Firsts(lines)
  PROVE  i \in DOMAIN lines /\ i \in Nat /\ lines[i].code # "none"
PROOF
  <1>1. PICK c \in Calls(lines) : i = c.first
    BY DEF Firsts
  <1>2. \E k \in DOMAIN lines : c.first = k /\ lines[k].code \in {"call", "open"}
    <2> DEFINE close(k) == Min({j \in k + 1 .. Len(lines) : lines[j].code = "close"})
    <2>1. \/ \E k \in DOMAIN lines : lines[k].code = "call" /\ c = [first |-> k, last |-> k]
          \/ \E k \in DOMAIN lines : lines[k].code = "open" /\ c = [first |-> k, last |-> close(k)]
      BY <1>1 DEF Calls
    <2> HIDE DEF close
    <2> QED BY <2>1
  <1>3. i \in DOMAIN lines /\ lines[i].code \in {"call", "open"}
    BY <1>1, <1>2
  <1> QED BY <1>3, LenProperties

\* There are finitely many entries for finitely many lines and rules.
LEMMA FiniteEntries ==
  ASSUME NEW n, NEW S, NEW T, IsFiniteSet(S), IsFiniteSet(T)
  PROVE  IsFiniteSet([file : {n}, line : S, rule : T])
PROOF
  <1> DEFINE All == [file : {n}, line : S, rule : T]
             P == S \X T
             entry == [p \in P |-> [file |-> n, line |-> p[1], rule |-> p[2]]]
  <1>1. IsFiniteSet(P)
    BY FS_Product
  <1>2. entry \in [P -> All]
    OBVIOUS
  <1>3. ASSUME NEW x \in All PROVE \E p \in P : entry[p] = x
    <2> DEFINE a == x.line
               b == x.rule
    <2>1. a \in S /\ b \in T /\ x = [file |-> n, line |-> a, rule |-> b]
      OBVIOUS
    <2> HIDE DEF a, b
    <2>2. <<a, b>> \in P /\ entry[<<a, b>>] = [file |-> n, line |-> a, rule |-> b]
      BY <2>1
    <2> QED BY <2>1, <2>2
  <1>4. entry \in Surjection(P, All)
    BY <1>2, <1>3 DEF Surjection
  <1> QED BY <1>1, <1>4, FS_Surjection

\* scanASTFile finds entries for the file alone, and finitely many.
LEMMA FoundType ==
  ASSUME TreeType(tree), NEW n \in DOMAIN tree.files, NEW typed, NEW rules \in SUBSET Evaluated
  PROVE  /\ scanASTFile(n, typed, rules) \subseteq [file : {n}, line : Nat, rule : Evaluated]
         /\ IsFiniteSet(scanASTFile(n, typed, rules))
PROOF
  <1> DEFINE f == tree.files[n]
             lines == f.lines
             arg == queryArgExpr(f.method, f.args)
             query == IF arg = << >> THEN << >> ELSE resolveQuery(typed /\ f.typed, arg[1], f.query)
             off == buildSuppressor(lines)
             F == scanASTFile(n, typed, rules)
             All == [file : {n}, line : DOMAIN lines, rule : Evaluated]
  <1>1. F = IF query = << >> THEN {}
            ELSE UNION {[file : {n}, line : {c.first}, rule : Analyze(rules, query[1]) \ off[c.first]] : c \in Calls(lines)}
    BY DEF scanASTFile
  <1>2. lines \in Seq(Lines)
    BY DEF TreeType, FileOfTree, ToSet
  <1> HIDE DEF lines, query, off, F
  <1>3. \A c \in Calls(lines) : c.first \in DOMAIN lines
    BY <1>2, FirstLine DEF Firsts
  <1>4. Analyze(rules, query[1]) \subseteq Evaluated
    BY DEF Analyze
  <1>5. F \subseteq All
    BY <1>1, <1>3, <1>4
  <1>6. IsFiniteSet(All)
    <2>1. IsFiniteSet(DOMAIN lines)
      BY <1>2, LenProperties, FS_Interval
    <2>2. IsFiniteSet(Evaluated)
      BY SourceScanAssumption
    <2> QED BY <2>1, <2>2, FiniteEntries
  <1>7. IsFiniteSet(F)
    BY <1>5, <1>6, FS_Subset
  <1>8. DOMAIN lines \subseteq Nat
    BY <1>2, LenProperties
  <1> QED BY <1>5, <1>7, <1>8 DEF F

\* What scanASTFile finds at a call is what it can be seen to send, less what
\* the directives turn off.
LEMMA FoundAtCall ==
  ASSUME TreeType(tree), NEW n \in DOMAIN tree.files, NEW rules \in SUBSET Evaluated,
         NEW i \in Firsts(tree.files[n].lines), NEW r \in Evaluated
  PROVE  Entry(n, i, r) \in scanASTFile(n, Loaded, rules)
           <=> r \in rules \cap Sent(tree.files[n]) /\ r \notin buildSuppressor(tree.files[n].lines)[i]
PROOF
  <1> DEFINE f == tree.files[n]
             lines == f.lines
             arg == queryArgExpr(f.method, f.args)
             typed == Loaded /\ f.typed
             query == IF arg = << >> THEN << >> ELSE resolveQuery(typed, arg[1], f.query)
             off == buildSuppressor(lines)
             F == scanASTFile(n, Loaded, rules)
  <1>1. F = IF query = << >> THEN {}
            ELSE UNION {[file : {n}, line : {c.first}, rule : Analyze(rules, query[1]) \ off[c.first]] : c \in Calls(lines)}
    BY DEF scanASTFile
  <1>2. Sent(f) = IF query = << >> THEN {} ELSE query[1].breaks \ query[1].off
    <2> DEFINE at == IF f.method = "Query" THEN 1 ELSE 2
               a == f.args[at]
               q == f.query
               constants == {"literal"} \cup (IF typed THEN {"const"} ELSE {})
               fmt == a.package = "fmt" \/ a.package = (IF typed THEN "alias" ELSE "other")
    <2>1. Sent(f) = IF f.method \notin {"Query", "QueryContext"} \/ at > Len(f.args) THEN {}
                    ELSE IF a.is \in constants THEN q.breaks \ q.off
                    ELSE IF a.is = "sprintf" /\ fmt /\ a.format \in constants
                    THEN q.breaks \ (q.byNumber \cup q.off)
                    ELSE {}
      BY DEF Sent
    <2>2. f.args \in Seq(Arguments) /\ QueryType(q)
      BY DEF TreeType, FileOfTree, ToSet
    <2>3. arg = IF f.method \notin {"Query", "QueryContext"} \/ at > Len(f.args) THEN << >> ELSE <<a>>
      <3>1. Len(f.args) \in Nat /\ at \in {1, 2}
        BY <2>2, LenProperties
      <3>2. ~(at > Len(f.args)) <=> at <= Len(f.args)
        BY <3>1
      <3>3. f.method \in {"Query", "QueryContext"} => at = IF f.method = "QueryContext" THEN 2 ELSE 1
        OBVIOUS
      <3> QED BY <3>2, <3>3 DEF queryArgExpr
    <2>4. \A c : constString(typed, c) <=> c \in constants
      BY DEF constString
    <2>5. sprintfFormatArg(typed, a.package) <=> fmt
      BY DEF sprintfFormatArg
    <2>6. neutralizeFormat(q).off = q.off /\ neutralizeFormat(q).breaks = q.breaks \ q.byNumber
      BY <2>2 DEF neutralizeFormat, QueryType
    <2> HIDE DEF a, q, constants, fmt, typed, at
    <2>7. resolveQuery(typed, a, q) =
            IF a.is \in constants THEN <<q>>
            ELSE IF a.is = "sprintf" /\ fmt /\ a.format \in constants THEN <<neutralizeFormat(q)>>
            ELSE << >>
      BY <2>4, <2>5 DEF resolveQuery
    <2> DEFINE none == f.method \notin {"Query", "QueryContext"} \/ at > Len(f.args)
               sprintf == a.is = "sprintf" /\ fmt /\ a.format \in constants
    <2>8. query = IF none THEN << >> ELSE IF a.is \in constants THEN <<q>>
                  ELSE IF sprintf THEN <<neutralizeFormat(q)>> ELSE << >>
      BY <2>3, <2>7 DEF q
    <2> HIDE DEF none, sprintf, query
    <2>9. Sent(f) = IF none THEN {} ELSE IF a.is \in constants THEN q.breaks \ q.off
                    ELSE IF sprintf THEN q.breaks \ (q.byNumber \cup q.off) ELSE {}
      BY <2>1 DEF none, sprintf
    <2>10. q.breaks \ (q.byNumber \cup q.off) = neutralizeFormat(q).breaks \ neutralizeFormat(q).off
      BY <2>6
    <2>11. \A x : <<x>> # << >> /\ <<x>>[1] = x
      OBVIOUS
    <2> QED BY <2>8, <2>9, <2>10, <2>11
  <1>3. \E c \in Calls(lines) : c.first = i
    BY DEF Firsts
  <1> HIDE DEF query, off, F
  <1>4. query # << >> => \A s : s \in Analyze(rules, query[1]) <=> s \in rules \cap Sent(f)
    BY <1>2 DEF Analyze
  <1>5. ASSUME NEW c \in Calls(lines)
        PROVE  Entry(n, i, r) \in [file : {n}, line : {c.first}, rule : Analyze(rules, query[1]) \ off[c.first]]
                 <=> c.first = i /\ r \in Analyze(rules, query[1]) /\ r \notin off[i]
    BY DEF Entry
  <1>6. CASE query = << >>
    BY <1>1, <1>2, <1>6 DEF off, F
  <1>7. CASE query # << >>
    <2>1. Entry(n, i, r) \in F <=> r \in Analyze(rules, query[1]) /\ r \notin off[i]
      BY <1>1, <1>3, <1>5, <1>7
    <2> QED BY <1>4, <1>7, <2>1 DEF off, F
  <1> QED BY <1>6, <1>7
-----------------------------------------------------------------------------
(* The scan.                                                               *)

Found(n) == scanASTFile(n, scan.typed, scan.rules)

\* What go/packages or the walk offers, and what the scan takes of it.
Offered(n) == Loaded => \E p \in ToSet(tree.packages) : n \in ToSet(p)
Taken(n) ==
    /\ keepFile(tree.files[n])
    /\ Loaded \/ (~shouldSkipDir(tree.files[n]) /\ tree.files[n].parses)

Result == [file : DOMAIN tree.files, line : Nat, rule : Evaluated]

ScanTypes ==
    /\ DOMAIN NotScanned \subseteq DOMAIN scan
    /\ scan.pc \in {"start", "load", "scan", "ended"}
    /\ scan.rules \in SUBSET Evaluated
    /\ scan.todo \in Seq(DOMAIN tree.files)
    /\ scan.seen \in SUBSET DOMAIN tree.files
    /\ scan.results \in Seq(Result)

\* The results are what is found in the files seen, each once.
Accounted ==
    /\ scan.pc \in {"start", "load"} => scan.seen = {} /\ scan.results = << >>
    /\ IsInjective(scan.results)
    /\ ToSet(scan.results) = UNION {Found(n) : n \in scan.seen}

\* Every file that is to be scanned is seen or still to come; the walk comes
\* to each once.
Underway ==
    /\ scan.typed = Loaded
    /\ \A n \in DOMAIN tree.files : Offered(n) /\ Taken(n) => n \in scan.seen \cup ToSet(scan.todo)
    /\ \A n \in scan.seen : Offered(n) /\ Taken(n) /\ tree.files[n].path # "unreadable"
    /\ \A n \in ToSet(scan.todo) : Offered(n)
    /\ ~Loaded => IsInjective(scan.todo) /\ ToSet(scan.todo) \cap scan.seen = {}

Finished ==
    /\ scan.todo = << >>
    /\ scan.exit = "issues" <=> scan.results # << >>
    /\ format = "json" => scan.written

ScanInv ==
    /\ TreeType(tree)
    /\ ScanTypes
    /\ Accounted
    /\ scan.pc = "scan" \/ (Ended /\ scan.exit # "failed") => Underway
    /\ Ended /\ scan.exit # "failed" => Finished

LEMMA ScanStarts == Init => ScanInv
PROOF
  <1> SUFFICES ASSUME Init PROVE ScanInv
    OBVIOUS
  <1>1. TreeType(tree)
    <2>1. CASE process = "scan"
      BY <2>1, ConfiguredAssumption DEF Init
    <2>2. CASE process # "scan"
      <3>1. tree.files = << >> /\ tree.packages = << >>
        BY <2>2 DEF Init
      <3>2. ToSet(<< >>) = {} /\ DOMAIN << >> = {}
        BY EmptySeq DEF ToSet
      <3>3. \A S : << >> \in Seq(S)
        BY EmptySeq
      <3> QED BY <3>1, <3>2, <3>3 DEF TreeType
    <2> QED BY <2>1, <2>2
  <1>2. scan = NotScanned
    BY DEF Init, ScanInit
  <1>3. scan.pc = "start" /\ scan.seen = {} /\ scan.results = << >> /\ scan.todo = << >> /\ scan.rules = {}
    BY <1>2 DEF NotScanned
  <1>4. \A S : << >> \in Seq(S)
    BY EmptySeq
  <1>5. ScanTypes
    BY <1>2, <1>3, <1>4 DEF ScanTypes
  <1>6. IsInjective(<< >>) /\ ToSet(<< >>) = {}
    BY EmptySeq DEF IsInjective, ToSet
  <1>7. Accounted
    BY <1>3, <1>6 DEF Accounted
  <1> QED BY <1>1, <1>3, <1>5, <1>7 DEF ScanInv, Ended

\* The tree and the format stay, and only the scan changes what it has done.
LEMMA ScanMoves == [Next]_vars => [ScanNext]_scan /\ tree' = tree /\ format' = format
PROOF
  <1> SUFFICES ASSUME [Next]_vars PROVE [ScanNext]_scan /\ tree' = tree /\ format' = format
    OBVIOUS
  <1>1. CASE ScanNext /\ UNCHANGED <<tree, format>>
    BY <1>1
  <1>2. CASE UNCHANGED scanVars
    BY <1>2 DEF scanVars
  <1> QED BY <1>1, <1>2 DEF Next, vars

\* What depends on the tree alone.
LEMMA TreeStays ==
  ASSUME tree' = tree
  PROVE  /\ TreeType(tree)' <=> TreeType(tree)
         /\ Loaded' <=> Loaded
         /\ \A n : Offered(n)' <=> Offered(n)
         /\ \A n : Taken(n)' <=> Taken(n)
         /\ Result' = Result
         /\ scan'.typed = scan.typed /\ scan'.rules = scan.rules => \A n : Found(n)' = Found(n)
PROOF
  <1>1. Loaded' <=> Loaded
    BY DEF Loaded
  <1>2. \A n : Offered(n)' <=> Offered(n)
    BY <1>1 DEF Offered
  <1>3. \A n : Taken(n)' <=> Taken(n)
    BY <1>1 DEF Taken
  <1>4. ASSUME scan'.typed = scan.typed, scan'.rules = scan.rules
        PROVE  \A n : Found(n)' = Found(n)
    BY <1>4 DEF Found, scanASTFile
  <1> QED BY <1>1, <1>2, <1>3, <1>4 DEF Result

\* A step that changes neither what was seen nor what was found.
LEMMA AccountKept ==
  ASSUME Accounted, tree' = tree, scan'.typed = scan.typed, scan'.rules = scan.rules,
         scan'.seen = scan.seen, scan'.results = scan.results, scan'.pc \notin {"start", "load"}
  PROVE  Accounted'
PROOF
  <1>1. \A n : Found(n)' = Found(n)
    BY TreeStays
  <1> QED BY <1>1 DEF Accounted

\* The files that are listed are those of the packages, or of the tree.
LEMMA FilesListed ==
  ASSUME TreeType(tree)
  PROVE  LET listed == FlattenSeq(tree.packages)
             walked == [n \in DOMAIN tree.files |-> n]
             todo   == IF listed # << >> THEN listed ELSE walked
         IN  /\ listed # << >> <=> Loaded
             /\ todo \in Seq(DOMAIN tree.files)
             /\ \A n \in DOMAIN tree.files : Offered(n) <=> n \in ToSet(todo)
             /\ ~Loaded => IsInjective(todo)
PROOF
  <1> DEFINE listed == FlattenSeq(tree.packages)
             walked == [n \in DOMAIN tree.files |-> n]
             D == DOMAIN tree.files
  <1>1. tree.packages \in Seq(Seq(D))
    BY DEF TreeType
  <1>2. listed \in Seq(D) /\ ToSet(listed) = UNION {ToSet(p) : p \in ToSet(tree.packages)}
    BY <1>1, Flattened
  <1>3. \A p \in ToSet(tree.packages) : p \in Seq(D)
    BY <1>1 DEF ToSet
  <1>4. \A s \in Seq(D) : s # << >> <=> ToSet(s) # {}
    <2> SUFFICES ASSUME NEW s \in Seq(D) PROVE s # << >> <=> ToSet(s) # {}
      OBVIOUS
    <2>1. s = << >> => ToSet(s) = {}
      BY EmptySeq DEF ToSet
    <2>2. s # << >> => ToSet(s) # {}
      BY HeadAndTail
    <2> QED BY <2>1, <2>2
  <1>5. DOMAIN walked = D /\ D = 1 .. Len(tree.files) /\ Len(tree.files) \in Nat /\ \A n \in D : walked[n] = n
    BY LenProperties DEF TreeType
  <1>6. walked \in Seq(D)
    BY <1>5
  <1>7. ToSet(walked) = D /\ IsInjective(walked)
    BY <1>5 DEF ToSet, IsInjective
  <1> HIDE DEF listed, walked, D
  <1>8. listed # << >> <=> Loaded
    BY <1>2, <1>3, <1>4 DEF Loaded
  <1>9. \A n : (\E p \in ToSet(tree.packages) : n \in ToSet(p)) <=> n \in ToSet(listed)
    BY <1>2
  <1> DEFINE todo == IF listed # << >> THEN listed ELSE walked
  <1>10. todo \in Seq(D) /\ (~Loaded => IsInjective(todo))
    BY <1>2, <1>6, <1>7, <1>8
  <1>11. \A n \in D : Offered(n) <=> n \in ToSet(todo)
    BY <1>7, <1>8, <1>9 DEF Offered
  <1> QED BY <1>8, <1>10, <1>11 DEF D, listed, walked

LEMMA ScanFields ==
  DOMAIN NotScanned = {"pc", "rules", "warned", "typed", "todo", "seen", "results", "written", "exit"}
PROOF
  BY DEF NotScanned

LEMMA ConfigureKeeps == ScanInv /\ Configure /\ tree' = tree => ScanInv'
PROOF
  <1> SUFFICES ASSUME ScanInv, Configure, tree' = tree PROVE ScanInv'
    OBVIOUS
  <1> DEFINE rules == DefaultWithProfile(Profile(file)).rules
             warned == Warned(file)
             refused == format \notin {"console", "", "json"} \/ Refused(file)
  <1>1. rules \in SUBSET Evaluated
    BY DEF DefaultWithProfile
  <1>2. /\ scan.pc = "start"
        /\ scan' = IF refused THEN [scan EXCEPT !.pc = "ended", !.exit = "failed"]
                   ELSE [scan EXCEPT !.pc = "load", !.warned = warned, !.rules = rules]
    <2> HIDE DEF ScanInv
    <2> QED BY Zenon DEF Configure
  <1> HIDE DEF rules, warned, refused
  <1>3. ScanTypes /\ Accounted /\ TreeType(tree)
    BY DEF ScanInv
  <1>4. {"pc", "rules", "warned", "typed", "todo", "seen", "results", "written", "exit"} \subseteq DOMAIN scan
    BY <1>3, ScanFields DEF ScanTypes
  <1>5. /\ DOMAIN scan' = DOMAIN scan
        /\ scan'.todo = scan.todo /\ scan'.seen = scan.seen /\ scan'.results = scan.results
        /\ \/ scan'.pc = "ended" /\ scan'.exit = "failed" /\ scan'.rules = scan.rules
           \/ scan'.pc = "load" /\ scan'.rules = rules
    BY <1>2, <1>4
  <1>6. scan.seen = {} /\ scan.results = << >>
    BY <1>2, <1>3 DEF Accounted
  <1>7. ScanTypes'
    <2>1. DOMAIN NotScanned \subseteq DOMAIN scan'
      BY <1>3, <1>5 DEF ScanTypes
    <2>2. scan'.pc \in {"ended", "load"} /\ scan'.rules \in SUBSET Evaluated
      BY <1>1, <1>3, <1>5 DEF ScanTypes
    <2>3. Result' = Result
      BY TreeStays
    <2> QED BY <1>3, <1>5, <2>1, <2>2, <2>3 DEF ScanTypes
  <1>8. Accounted'
    <2>1. IsInjective(<< >>) /\ ToSet(<< >>) = {}
      BY EmptySeq DEF IsInjective, ToSet
    <2> QED BY <1>5, <1>6, <2>1 DEF Accounted
  <1>9. TreeType(tree)'
    BY <1>3, TreeStays
  <1> QED BY <1>5, <1>7, <1>8, <1>9 DEF ScanInv, Ended

LEMMA LoadPackagesKeeps == ScanInv /\ LoadPackages /\ tree' = tree => ScanInv'
PROOF
  <1> SUFFICES ASSUME ScanInv, LoadPackages, tree' = tree PROVE ScanInv'
    OBVIOUS
  <1> DEFINE listed == FlattenSeq(tree.packages)
             todo == IF listed # << >> THEN listed ELSE [n \in DOMAIN tree.files |-> n]
             typed == listed # << >>
  <1>1. scan.pc = "load" /\ scan' = [scan EXCEPT !.pc = "scan", !.typed = typed, !.todo = todo]
    BY DEF LoadPackages
  <1>2. ScanTypes /\ Accounted /\ TreeType(tree)
    BY DEF ScanInv
  <1>3. /\ typed <=> Loaded
        /\ todo \in Seq(DOMAIN tree.files)
        /\ \A n \in DOMAIN tree.files : Offered(n) <=> n \in ToSet(todo)
        /\ ~Loaded => IsInjective(todo)
    BY <1>2, FilesListed
  <1>4. typed \in BOOLEAN
    OBVIOUS
  <1> HIDE DEF todo, typed
  <1>5. {"pc", "rules", "warned", "typed", "todo", "seen", "results", "written", "exit"} \subseteq DOMAIN scan
    BY <1>2, ScanFields DEF ScanTypes
  <1>6. /\ DOMAIN scan' = DOMAIN scan
        /\ scan'.todo = todo /\ scan'.seen = scan.seen /\ scan'.results = scan.results
        /\ scan'.pc = "scan" /\ scan'.rules = scan.rules /\ scan'.typed = typed
    BY <1>1, <1>5
  <1>7. scan.seen = {} /\ scan.results = << >>
    BY <1>1, <1>2 DEF Accounted
  <1>8. ScanTypes'
    <2>1. Result' = Result
      BY TreeStays
    <2> QED BY <1>2, <1>3, <1>6, <2>1 DEF ScanTypes
  <1>9. Accounted'
    <2>1. IsInjective(<< >>) /\ ToSet(<< >>) = {}
      BY EmptySeq DEF IsInjective, ToSet
    <2> QED BY <1>6, <1>7, <2>1 DEF Accounted
  <1>10. Underway'
    <2>1. (Loaded' <=> Loaded) /\ \A n : (Offered(n)' <=> Offered(n)) /\ (Taken(n)' <=> Taken(n))
      BY TreeStays
    <2>2. \A n \in ToSet(todo) : n \in DOMAIN tree.files
      BY <1>3 DEF ToSet
    <2>3. scan'.typed = Loaded'
      BY <1>3, <1>4, <1>6, <2>1 DEF Loaded
    <2> QED BY <1>3, <1>6, <1>7, <2>1, <2>2, <2>3 DEF Underway
  <1>11. TreeType(tree)'
    BY <1>2, TreeStays
  <1> QED BY <1>6, <1>8, <1>9, <1>10, <1>11 DEF ScanInv, Ended

\* The next file is one the scan takes, or skips for good.
LEMMA FileIsNext ==
  ASSUME ScanInv, scan.pc = "scan", scan.todo # << >>
  PROVE  LET h == Head(scan.todo)
         IN  /\ ScanTypes /\ Accounted /\ Underway /\ TreeType(tree)
             /\ h \in DOMAIN tree.files /\ Offered(h)
             /\ Tail(scan.todo) \in Seq(DOMAIN tree.files)
             /\ ToSet(scan.todo) = {h} \cup ToSet(Tail(scan.todo))
             /\ Skipped => ~Taken(h) \/ h \in scan.seen
             /\ ~Skipped => Taken(h) /\ h \notin scan.seen
             /\ ~Loaded => IsInjective(Tail(scan.todo)) /\ h \notin ToSet(Tail(scan.todo))
PROOF
  <1> DEFINE h == Head(scan.todo)
             t == Tail(scan.todo)
             s == scan.todo
  <1>1. ScanTypes /\ Accounted /\ Underway /\ TreeType(tree)
    BY DEF ScanInv
  <1>2. s \in Seq(DOMAIN tree.files)
    BY <1>1 DEF ScanTypes
  <1>3. /\ h \in DOMAIN tree.files /\ t \in Seq(DOMAIN tree.files)
        /\ ToSet(s) = {h} \cup ToSet(t)
        /\ IsInjective(s) => IsInjective(t) /\ h \notin ToSet(t)
    BY <1>2, HeadAndTail
  <1>4. /\ Skipped <=> \/ ~keepFile(tree.files[h])
                       \/ scan.typed /\ h \in scan.seen
                       \/ ~scan.typed /\ (shouldSkipDir(tree.files[h]) \/ ~tree.files[h].parses)
    BY DEF Skipped, NextFile
  <1> HIDE DEF h, t, s
  <1>5. Offered(h) /\ scan.typed = Loaded
    BY <1>1, <1>3 DEF Underway, s
  <1>6. ~Loaded => IsInjective(s) /\ h \notin scan.seen
    BY <1>1, <1>3 DEF Underway, s
  <1>7. Skipped => ~Taken(h) \/ h \in scan.seen
    BY <1>4, <1>5 DEF Taken
  <1>8. ~Skipped => Taken(h) /\ h \notin scan.seen
    BY <1>4, <1>5, <1>6 DEF Taken
  <1> QED BY <1>1, <1>3, <1>5, <1>6, <1>7, <1>8 DEF h, t, s

LEMMA SkipFileKeeps == ScanInv /\ SkipFile /\ tree' = tree => ScanInv'
PROOF
  <1> SUFFICES ASSUME ScanInv, SkipFile, tree' = tree PROVE ScanInv'
    OBVIOUS
  <1> DEFINE h == Head(scan.todo)
             t == Tail(scan.todo)
  <1>1. scan.pc = "scan" /\ scan.todo # << >> /\ Skipped /\ scan' = [scan EXCEPT !.todo = t]
    BY DEF SkipFile
  <1>2. /\ ScanTypes /\ Accounted /\ Underway /\ TreeType(tree)
        /\ h \in DOMAIN tree.files /\ Offered(h) /\ t \in Seq(DOMAIN tree.files)
        /\ ToSet(scan.todo) = {h} \cup ToSet(t)
        /\ ~Taken(h) \/ h \in scan.seen
        /\ ~Loaded => IsInjective(t) /\ h \notin ToSet(t)
    BY <1>1, FileIsNext
  <1> HIDE DEF h, t
  <1>3. {"pc", "rules", "warned", "typed", "todo", "seen", "results", "written", "exit"} \subseteq DOMAIN scan
    BY <1>2, ScanFields DEF ScanTypes
  <1>4. /\ DOMAIN scan' = DOMAIN scan /\ scan'.todo = t
        /\ scan'.seen = scan.seen /\ scan'.results = scan.results
        /\ scan'.pc = "scan" /\ scan'.rules = scan.rules /\ scan'.typed = scan.typed
    BY <1>1, <1>3
  <1>5. ScanTypes'
    <2>1. Result' = Result
      BY TreeStays
    <2> QED BY <1>2, <1>4, <2>1 DEF ScanTypes
  <1>6. Accounted'
    BY <1>2, <1>4, AccountKept
  <1>7. Underway'
    <2>1. (Loaded' <=> Loaded) /\ \A n : (Offered(n)' <=> Offered(n)) /\ (Taken(n)' <=> Taken(n))
      BY TreeStays
    <2>2. scan'.typed = Loaded'
      BY <1>2, <1>4, <2>1 DEF Underway, Loaded
    <2> QED BY <1>2, <1>4, <2>1, <2>2 DEF Underway
  <1>8. TreeType(tree)'
    BY <1>2, TreeStays
  <1> QED BY <1>4, <1>5, <1>6, <1>7, <1>8 DEF ScanInv, Ended

LEMMA ScanFileKeeps == ScanInv /\ ScanFile /\ tree' = tree => ScanInv'
PROOF
  <1> SUFFICES ASSUME ScanInv, ScanFile, tree' = tree PROVE ScanInv'
    OBVIOUS
  <1> DEFINE h == Head(scan.todo)
             t == Tail(scan.todo)
             F == scanASTFile(h, scan.typed, scan.rules)
             more == scan.results \o SetToSeq(F)
             seen == scan.seen \cup {h}
  <1>1. /\ scan.pc = "scan" /\ scan.todo # << >> /\ ~Skipped
        /\ tree.files[h].path # "unreadable"
        /\ scan' = [scan EXCEPT !.todo = t, !.seen = seen, !.results = more]
    BY DEF ScanFile, NextFile
  <1>2. /\ ScanTypes /\ Accounted /\ Underway /\ TreeType(tree)
        /\ h \in DOMAIN tree.files /\ Offered(h) /\ t \in Seq(DOMAIN tree.files)
        /\ ToSet(scan.todo) = {h} \cup ToSet(t)
        /\ Taken(h) /\ h \notin scan.seen
        /\ ~Loaded => IsInjective(t) /\ h \notin ToSet(t)
    BY <1>1, FileIsNext
  <1> HIDE DEF h, t
  <1>3. /\ scan.rules \in SUBSET Evaluated /\ scan.seen \subseteq DOMAIN tree.files
        /\ scan.results \in Seq(Result) /\ IsInjective(scan.results)
        /\ ToSet(scan.results) = UNION {Found(n) : n \in scan.seen}
    BY <1>2 DEF ScanTypes, Accounted
  <1>4. \A n \in DOMAIN tree.files : /\ Found(n) \subseteq [file : {n}, line : Nat, rule : Evaluated]
                                     /\ IsFiniteSet(Found(n))
    BY <1>2, <1>3, FoundType DEF Found
  <1>5. F = Found(h)
    BY DEF Found
  <1> HIDE DEF F
  <1>6. F \in SUBSET Result /\ IsFiniteSet(F)
    BY <1>2, <1>4, <1>5 DEF Result
  <1>7. F \cap ToSet(scan.results) = {}
    <2> SUFFICES ASSUME NEW x \in F, NEW n \in scan.seen, x \in Found(n) PROVE FALSE
      BY <1>3
    <2>1. x.file = h /\ x.file = n
      BY <1>2, <1>3, <1>4, <1>5
    <2> QED BY <1>2, <2>1
  <1>8. more \in Seq(Result) /\ IsInjective(more) /\ ToSet(more) = ToSet(scan.results) \cup F
    BY <1>3, <1>6, <1>7, Appended
  <1> HIDE DEF more, seen
  <1>9. {"pc", "rules", "warned", "typed", "todo", "seen", "results", "written", "exit"} \subseteq DOMAIN scan
    BY <1>2, ScanFields DEF ScanTypes
  <1>10. /\ DOMAIN scan' = DOMAIN scan /\ scan'.todo = t
         /\ scan'.seen = seen /\ scan'.results = more
         /\ scan'.pc = "scan" /\ scan'.rules = scan.rules /\ scan'.typed = scan.typed
    BY <1>1, <1>9
  <1>11. ScanTypes'
    <2>1. Result' = Result
      BY TreeStays
    <2> QED BY <1>2, <1>8, <1>10, <2>1 DEF ScanTypes, seen
  <1>12. Accounted'
    <2>1. \A n : Found(n)' = Found(n)
      BY <1>10, TreeStays
    <2>2. ToSet(more) = UNION {Found(n) : n \in seen}
      BY <1>3, <1>5, <1>8 DEF seen
    <2>3. ToSet(scan'.results) = UNION {Found(n)' : n \in scan'.seen}
      BY <1>10, <2>1, <2>2
    <2> QED BY <1>8, <1>10, <2>3 DEF Accounted
  <1>13. Underway'
    <2>1. (Loaded' <=> Loaded) /\ \A n : (Offered(n)' <=> Offered(n)) /\ (Taken(n)' <=> Taken(n))
      BY TreeStays
    <2>2. scan'.typed = Loaded'
      BY <1>2, <1>10, <2>1 DEF Underway, Loaded
    <2> QED BY <1>1, <1>2, <1>10, <2>1, <2>2 DEF Underway, seen
  <1>14. TreeType(tree)'
    BY <1>2, TreeStays
  <1> QED BY <1>10, <1>11, <1>12, <1>13, <1>14 DEF ScanInv, Ended

LEMMA WalkFailsKeeps == ScanInv /\ WalkFails /\ tree' = tree => ScanInv'
PROOF
  <1> SUFFICES ASSUME ScanInv, WalkFails, tree' = tree PROVE ScanInv'
    OBVIOUS
  <1>1. scan' = [scan EXCEPT !.pc = "ended", !.exit = "failed"]
    BY DEF WalkFails
  <1>2. ScanTypes /\ Accounted /\ TreeType(tree)
    BY DEF ScanInv
  <1>3. {"pc", "rules", "warned", "typed", "todo", "seen", "results", "written", "exit"} \subseteq DOMAIN scan
    BY <1>2, ScanFields DEF ScanTypes
  <1>4. /\ DOMAIN scan' = DOMAIN scan /\ scan'.todo = scan.todo
        /\ scan'.seen = scan.seen /\ scan'.results = scan.results
        /\ scan'.pc = "ended" /\ scan'.exit = "failed" /\ scan'.rules = scan.rules /\ scan'.typed = scan.typed
    BY <1>1, <1>3
  <1>5. ScanTypes'
    <2>1. Result' = Result
      BY TreeStays
    <2> QED BY <1>2, <1>4, <2>1 DEF ScanTypes
  <1>6. Accounted'
    BY <1>2, <1>4, AccountKept
  <1>7. TreeType(tree)'
    BY <1>2, TreeStays
  <1> QED BY <1>4, <1>5, <1>6, <1>7 DEF ScanInv, Ended

LEMMA ReportKeeps ==
  ASSUME NEW written \in BOOLEAN
  PROVE  ScanInv /\ Report(written) /\ tree' = tree /\ format' = format => ScanInv'
PROOF
  <1> SUFFICES ASSUME ScanInv, Report(written), tree' = tree, format' = format PROVE ScanInv'
    OBVIOUS
  <1> DEFINE exit == IF format = "json" /\ ~written THEN "failed"
                     ELSE IF scan.results = << >> THEN "clean" ELSE "issues"
  <1>1. /\ scan.pc = "scan" /\ scan.todo = << >>
        /\ scan' = [scan EXCEPT !.pc = "ended", !.written = written, !.exit = exit]
    BY DEF Report
  <1>2. ScanTypes /\ Accounted /\ Underway /\ TreeType(tree)
    BY <1>1 DEF ScanInv
  <1>3. {"pc", "rules", "warned", "typed", "todo", "seen", "results", "written", "exit"} \subseteq DOMAIN scan
    BY <1>2, ScanFields DEF ScanTypes
  <1>4. exit # "failed" => (exit = "issues" <=> scan.results # << >>) /\ (format = "json" => written)
    OBVIOUS
  <1> HIDE DEF exit
  <1>5. /\ DOMAIN scan' = DOMAIN scan /\ scan'.todo = scan.todo
        /\ scan'.seen = scan.seen /\ scan'.results = scan.results
        /\ scan'.pc = "ended" /\ scan'.exit = exit /\ scan'.written = written
        /\ scan'.rules = scan.rules /\ scan'.typed = scan.typed
    BY <1>1, <1>3
  <1>6. ScanTypes'
    <2>1. Result' = Result
      BY TreeStays
    <2> QED BY <1>2, <1>5, <2>1 DEF ScanTypes
  <1>7. Accounted'
    BY <1>2, <1>5, AccountKept
  <1>8. Underway'
    <2>1. (Loaded' <=> Loaded) /\ \A n : (Offered(n)' <=> Offered(n)) /\ (Taken(n)' <=> Taken(n))
      BY TreeStays
    <2>2. scan'.typed = Loaded'
      BY <1>2, <1>5, <2>1 DEF Underway, Loaded
    <2> QED BY <1>2, <1>5, <2>1, <2>2 DEF Underway
  <1>9. scan'.exit # "failed" => Finished'
    BY <1>1, <1>4, <1>5 DEF Finished
  <1>10. TreeType(tree)'
    BY <1>2, TreeStays
  <1> QED BY <1>5, <1>6, <1>7, <1>8, <1>9, <1>10 DEF ScanInv, Ended

LEMMA ScanStep == ScanInv /\ [Next]_vars => ScanInv'
PROOF
  <1> SUFFICES ASSUME ScanInv, [Next]_vars PROVE ScanInv'
    OBVIOUS
  <1>1. [ScanNext]_scan /\ tree' = tree /\ format' = format
    BY ScanMoves
  <1>2. CASE UNCHANGED scan
    <2>1. /\ (Loaded' <=> Loaded) /\ Result' = Result /\ (TreeType(tree)' <=> TreeType(tree))
          /\ \A n : (Offered(n)' <=> Offered(n)) /\ (Taken(n)' <=> Taken(n)) /\ Found(n)' = Found(n)
      BY <1>1, <1>2, TreeStays
    <2>2. ScanTypes' <=> ScanTypes
      BY <1>1, <1>2, <2>1 DEF ScanTypes
    <2>3. Accounted' <=> Accounted
      BY <1>2, <2>1 DEF Accounted
    <2>4. Underway' <=> Underway
      <3>1. Loaded' = Loaded
        BY <2>1 DEF Loaded
      <3> QED BY <1>1, <1>2, <2>1, <3>1 DEF Underway
    <2>5. Finished' <=> Finished
      BY <1>1, <1>2 DEF Finished
    <2> QED BY <1>2, <2>1, <2>2, <2>3, <2>4, <2>5 DEF ScanInv, Ended
  <1>3. CASE ScanNext
    BY <1>1, <1>3, ConfigureKeeps, LoadPackagesKeeps, SkipFileKeeps, ScanFileKeeps, WalkFailsKeeps, ReportKeeps
       DEF ScanNext
  <1> QED BY <1>1, <1>2, <1>3

LEMMA ScanKept == Spec => []ScanInv
PROOF
  BY ScanStarts, ScanStep, PTL DEF Spec

\* What is left when nothing is left to scan.
LEMMA AllSearched ==
  ASSUME ScanInv, Ended, scan.exit # "failed"
  PROVE  \A n \in DOMAIN tree.files : n \in scan.seen <=> Searched(n)
PROOF
  <1>1. TreeType(tree) /\ Underway /\ Finished
    BY DEF ScanInv
  <1>2. ToSet(scan.todo) = {}
    BY <1>1, EmptySeq DEF Finished, ToSet
  <1> SUFFICES ASSUME NEW n \in DOMAIN tree.files PROVE n \in scan.seen <=> Searched(n)
    OBVIOUS
  <1> DEFINE path == tree.files[n].path
             parses == tree.files[n].parses
             listed == \E p \in ToSet(tree.packages) : n \in ToSet(p)
  <1>3. /\ n \in scan.seen => Offered(n) /\ Taken(n) /\ path # "unreadable"
        /\ Offered(n) /\ Taken(n) => n \in scan.seen
    BY <1>1, <1>2 DEF Underway
  <1>4. path \in Paths
    BY <1>1 DEF TreeType, FileOfTree, ToSet
  <1>5. listed => path \notin {"hidden", "vendor"}
    BY <1>1 DEF TreeType
  <1>6. Searched(n) <=> \/ Loaded /\ listed /\ path \in {"plain", "node_modules"}
                        \/ ~Loaded /\ path = "plain" /\ parses
    BY DEF Searched
  <1>7. Offered(n) <=> ~Loaded \/ listed
    BY DEF Offered
  <1>8. Taken(n) <=> /\ path \notin {"not-go", "test", "excluded"}
                     /\ Loaded \/ (path \notin {"hidden", "vendor", "node_modules"} /\ parses)
    BY DEF Taken, keepFile, shouldSkipDir
  <1> HIDE DEF path, parses, listed
  <1>9. n \in scan.seen => Searched(n)
    BY <1>3, <1>4, <1>5, <1>6, <1>7, <1>8 DEF Paths
  <1>10. Searched(n) => n \in scan.seen
    BY <1>3, <1>6, <1>7, <1>8
  <1> QED BY <1>9, <1>10

\* How often an entry is among results that are all different.
LEMMA OnceEach ==
  ASSUME IsInjective(scan.results), NEW n, NEW i, NEW r
  PROVE  Times(n, i, r) = IF Entry(n, i, r) \in ToSet(scan.results) THEN 1 ELSE 0
PROOF
  <1> DEFINE e == Entry(n, i, r)
             K == {k \in DOMAIN scan.results : scan.results[k] = e}
  <1>1. Times(n, i, r) = Cardinality(K)
    BY DEF Times, Entry
  <1> HIDE DEF e
  <1>2. CASE e \in ToSet(scan.results)
    <2>1. PICK k \in DOMAIN scan.results : scan.results[k] = e
      BY <1>2 DEF ToSet
    <2>2. K = {k}
      BY <2>1 DEF IsInjective
    <2> HIDE DEF K
    <2>3. Cardinality(K) = 1
      BY <2>2, FS_Singleton
    <2> QED BY <1>1, <1>2, <2>3 DEF e
  <1>3. CASE e \notin ToSet(scan.results)
    <2>1. K = {}
      BY <1>3 DEF ToSet
    <2> HIDE DEF K
    <2>2. Cardinality(K) = 0
      BY <2>1, FS_EmptySet
    <2> QED BY <1>1, <1>3, <2>2 DEF e
  <1> QED BY <1>2, <1>3

\* An entry for a call is among the results if the file was searched and the
\* call found to break the rule.
LEMMA EntryOf ==
  ASSUME ScanInv, Ended, scan.exit # "failed", NEW n \in DOMAIN tree.files,
         NEW i \in Firsts(tree.files[n].lines), NEW r \in Evaluated
  PROVE  Entry(n, i, r) \in ToSet(scan.results)
           <=> /\ Searched(n) /\ r \in scan.rules \cap Sent(tree.files[n])
               /\ r \notin buildSuppressor(tree.files[n].lines)[i]
PROOF
  <1> DEFINE e == Entry(n, i, r)
             off == buildSuppressor(tree.files[n].lines)
  <1>1. TreeType(tree) /\ ScanTypes /\ Accounted /\ Underway
    BY DEF ScanInv
  <1>2. /\ scan.rules \in SUBSET Evaluated /\ scan.seen \subseteq DOMAIN tree.files
        /\ ToSet(scan.results) = UNION {Found(m) : m \in scan.seen}
        /\ scan.typed = Loaded
    BY <1>1 DEF ScanTypes, Accounted, Underway
  <1>3. \A m \in DOMAIN tree.files : Found(m) \subseteq [file : {m}, line : Nat, rule : Evaluated]
    BY <1>1, <1>2, FoundType DEF Found
  <1>4. e \in Found(n) <=> r \in scan.rules \cap Sent(tree.files[n]) /\ r \notin off[i]
    <2>1. Found(n) = scanASTFile(n, Loaded, scan.rules)
      BY <1>2 DEF Found
    <2> QED BY <1>1, <1>2, <2>1, FoundAtCall
  <1>5. e.file = n
    BY DEF Entry
  <1>6. n \in scan.seen <=> Searched(n)
    BY AllSearched
  <1> HIDE DEF e, off
  <1>7. e \in ToSet(scan.results) <=> n \in scan.seen /\ e \in Found(n)
    <2>1. ASSUME NEW m \in scan.seen, e \in Found(m) PROVE m = n
      BY <1>2, <1>3, <1>5, <2>1
    <2> QED BY <1>2, <2>1
  <1> QED BY <1>4, <1>6, <1>7 DEF e, off

\* A scan that did not fail reports each rule a call can be seen to break, once,
\* at the first line of the call, but for what directives there or above turn
\* off; nothing else; and the exit code and a JSON document tell it (scan.go:
\* scanViaPackages, scanASTFile, buildSuppressor, report).
THEOREM ScanReportsHolds == Spec => []ScanReports
PROOF
  <1>1. ScanInv => ScanReports
    <2> SUFFICES ASSUME ScanInv, Ended, scan.exit # "failed" PROVE ScanReports
      BY DEF ScanReports
    <2>1. TreeType(tree) /\ Accounted /\ Finished
      BY DEF ScanInv
    <2>2. ASSUME NEW n \in DOMAIN tree.files, NEW r \in Evaluated,
                 NEW i \in Firsts(tree.files[n].lines)
          PROVE  LET lines == tree.files[n].lines
                     broken == Searched(n) /\ r \in scan.rules \cap Sent(tree.files[n])
                 IN  /\ Times(n, i, r) <= 1
                     /\ Times(n, i, r) = 1 => broken /\ ~Directs(lines, i, r)
                     /\ broken /\ ~Tangled(lines, i) =>
                          (Times(n, i, r) = 1 <=> ~Directs(lines, i, r) /\ ~Directs(lines, i - 1, r))
      <3> DEFINE lines == tree.files[n].lines
                 broken == Searched(n) /\ r \in scan.rules \cap Sent(tree.files[n])
                 off == buildSuppressor(lines)[i]
                 listed == Entry(n, i, r) \in ToSet(scan.results)
      <3>1. lines \in Seq(Lines)
        BY <2>1 DEF TreeType, FileOfTree, ToSet
      <3>2. i \in DOMAIN lines /\ lines[i].code # "none"
        BY <2>2, <3>1, FirstLine
      <3>3. Times(n, i, r) = IF listed THEN 1 ELSE 0
        BY <2>1, OnceEach DEF Accounted
      <3>4. listed <=> broken /\ r \notin off
        BY EntryOf
      <3>5. Directs(lines, i, r) => r \in off
        <4>1. r \in Directives /\ "all" \in Directives
          BY DEF Directives
        <4> SUFFICES ASSUME Directs(lines, i, r) PROVE r \in off
          OBVIOUS
        <4>2. lines[i].comment \in {"all", r}
          BY DEF Directs
        <4>3. off = {q \in Evaluated : lines[i].comment \in {"all", q}}
          BY <3>1, <3>2, <4>1, <4>2, OwnLine
        <4> QED BY <4>2, <4>3
      <3>6. ~Tangled(lines, i) => (r \in off <=> Directs(lines, i, r) \/ Directs(lines, i - 1, r))
        BY <3>1, <3>2, Untangled
      <3> HIDE DEF lines, broken, off, listed
      <3>7. Times(n, i, r) <= 1 /\ (Times(n, i, r) = 1 <=> listed)
        BY <3>3
      <3>8. /\ Times(n, i, r) <= 1
            /\ Times(n, i, r) = 1 => broken /\ ~Directs(lines, i, r)
            /\ broken /\ ~Tangled(lines, i) =>
                 (Times(n, i, r) = 1 <=> ~Directs(lines, i, r) /\ ~Directs(lines, i - 1, r))
        BY <3>4, <3>5, <3>6, <3>7
      <3> QED BY <3>8 DEF lines, broken
    <2>3. (scan.exit = "issues" <=> scan.results # << >>) /\ (format = "json" => scan.written)
      BY <2>1 DEF Finished
    <2> QED BY <2>2, <2>3 DEF ScanReports, Firsts
  <1> QED BY <1>1, ScanKept, PTL
=============================================================================
