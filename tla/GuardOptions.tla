---------------------------- MODULE GuardOptions ----------------------------
(***************************************************************************)
(* NewGuard (middleware/guard.go): an application, or an integration on    *)
(* its behalf, lists options in whatever order; each changes the options   *)
(* struct, and when all were applied the policies of the Guard are         *)
(* resolved from it and from the profile of the analyzer it ended up with. *)
(* A value is represented by who set it, a parser by its dialect.          *)
(*                                                                         *)
(* History: given is the list of options so far.                           *)
(***************************************************************************)
EXTENDS Policy, Sequences

CONSTANTS
    MaxOptions   \* bound on the number of options an application lists

VARIABLES given, options, guard

guardVars == <<given, options, guard>>

\* An option, as its kind and what it is called with.  WithParser may be given
\* nil, a single-dialect parser, or another ("unknown").
Option ==
    [kind : {"slow", "n1", "dedup"}, value : {"go"}]
    \cup [kind : {"parser"}, value : Dialects \cup {"nil"}]
    \cup [kind : {"dialect", "detected"}, value : Dialects]
    \cup [kind : {"analyzer"}, value : {"default"}]

DefaultOptions ==
    [slow |-> "default", slowSet |-> FALSE,
     n1 |-> "off", n1Set |-> FALSE,
     dedup |-> "default",
     parser |-> "nil",
     analyzer |-> DefaultWithProfile(NoProfile),
     dialect |-> "unknown", dialectSet |-> FALSE,
     detected |-> "unknown"]

NoGuard == [built |-> FALSE]

GuardInit ==
    /\ given = << >>
    /\ options = DefaultOptions
    /\ guard = NoGuard

\* The profile of the analyzer an option holds.
Using(value) == IF value = "file" THEN Profile(file) ELSE NoProfile

BugTakeParser(o, d) == [o EXCEPT !.analyzer = WithParser(@, d)]

\* WithParser only records the parser: an analyzer may come later.
TakeParser(o, d) == [o EXCEPT !.parser = d]

\* What the function an option is does to the struct.
Apply(o, opt) ==
    CASE opt.kind = "slow"     -> [o EXCEPT !.slow = opt.value, !.slowSet = TRUE]
      [] opt.kind = "n1"       -> [o EXCEPT !.n1 = opt.value, !.n1Set = TRUE]
      [] opt.kind = "dedup"    -> [o EXCEPT !.dedup = opt.value]
      [] opt.kind = "parser"   -> TakeParser(o, opt.value)
      [] opt.kind = "analyzer" -> [o EXCEPT !.analyzer = DefaultWithProfile(Using(opt.value))]
      [] opt.kind = "dialect"  -> [o EXCEPT !.dialect = opt.value, !.dialectSet = TRUE]
      [] opt.kind = "detected" -> IF opt.value = "unknown" THEN o
                                  ELSE [o EXCEPT !.detected = opt.value]

\* The analyzer once parser and dialect are settled (resolveDialect).
Resolved(o) ==
    LET parsed == IF o.parser = "nil" THEN o.analyzer ELSE WithParser(o.analyzer, o.parser)
    IN  CASE o.dialectSet -> WithDialect(parsed, o.dialect)
          [] ~o.dialectSet /\ parsed.dialect = "unknown" /\ o.detected # "unknown"
                         -> WithDialect(parsed, o.detected)
          [] OTHER       -> parsed

\* Both runtime rules are registered as warnings.
DefaultSeverity == "warning"

\* The policies of the Guard.
NewGuard(o) ==
    LET a  == Resolved(o)
        n1 == IF ~o.n1Set /\ a.settings["n-plus-one"] = Pair THEN "file" ELSE o.n1
    IN  [built        |-> TRUE,
         analyzer     |-> a,
         slow         |-> IF ~o.slowSet /\ "threshold" \in a.settings["slow-query"]
                          THEN "file" ELSE o.slow,
         slowEnabled  |-> RuleEnabled(a, "slow-query"),
         slowSeverity |-> RuleSeverity(a, "slow-query", DefaultSeverity),
         n1           |-> IF RuleEnabled(a, "n-plus-one") THEN n1 ELSE "off",
         n1Severity   |-> RuleSeverity(a, "n-plus-one", DefaultSeverity),
         dedup        |-> o.dedup]

\* Wrapping a driver or a connection puts what was detected from it first.
Wrap(d) ==
    /\ given = << >>
    /\ LET opt == [kind |-> "detected", value |-> d]
       IN  /\ given' = <<opt>>
           /\ options' = Apply(options, opt)
    /\ UNCHANGED guard

\* The application passes one more option.
Pass(opt) ==
    /\ given # << >>
    /\ ~guard.built
    /\ Len(given) <= MaxOptions
    /\ given' = Append(given, opt)
    /\ options' = Apply(options, opt)
    /\ UNCHANGED guard

\* It passes the options the file makes: MiddlewareOptions.
PassFile ==
    /\ given # << >>
    /\ ~guard.built
    /\ Len(given) <= MaxOptions
    /\ ~Refused(file)
    /\ file.dedup # "invalid"
    /\ LET analyzer == [kind |-> "analyzer", value |-> "file"]
           dedup    == [kind |-> "dedup", value |-> "file"]
           withAnalyzer == Apply(options, analyzer)
       IN  IF file.dedup = "unset"
           THEN /\ given' = Append(given, analyzer)
                /\ options' = withAnalyzer
           ELSE /\ given' = given \o <<analyzer, dedup>>
                /\ options' = Apply(withAnalyzer, dedup)
    /\ UNCHANGED guard

Build ==
    /\ given # << >>
    /\ ~guard.built
    /\ guard' = NewGuard(options)
    /\ UNCHANGED <<given, options>>

GuardNext ==
    \/ \E d \in Dialects : Wrap(d)
    \/ \E opt \in Option : Pass(opt)
    \/ PassFile
    \/ Build
-----------------------------------------------------------------------------
\* What the last option of a kind was called with, if there was one.
Given(kind) ==
    LET of == {i \in DOMAIN given : given[i].kind = kind}
    IN  IF of = {} THEN "none"
        ELSE given[CHOOSE i \in of : \A j \in of : j <= i].value

\* The last detection that did not fail.
Detected ==
    LET of == {i \in DOMAIN given : given[i].kind = "detected" /\ given[i].value # "unknown"}
    IN  IF of = {} THEN "none"
        ELSE given[CHOOSE i \in of : \A j \in of : j <= i].value

FirstNamed(sources) ==
    LET naming == {i \in DOMAIN sources : sources[i] # "none"}
    IN  sources[CHOOSE i \in naming : \A j \in naming : i <= j]

\* The profile that counts.
Active == Using(Given("analyzer"))

Names(condition, source) == IF condition THEN source ELSE "none"

\* A guard's policies depend on the options and the file in a fixed order of
\* precedence, and on nothing else about the order the options came in
\* (options.go:37-40, dialect.go:10-31, guard.go:66-79): Go over file over
\* detection, except that a rule the file disables stays off.
Precedence ==
    guard.built =>
      /\ guard.slow = FirstNamed(<<Given("slow"),
                                   Names("threshold" \in Active.settings["slow-query"], "file"),
                                   "default">>)
      /\ guard.n1 = IF "n-plus-one" \in Active.disabled THEN "off"
                    ELSE FirstNamed(<<Given("n1"),
                                      Names(Active.settings["n-plus-one"] = Pair, "file"),
                                      "off">>)
      /\ guard.slowEnabled = ("slow-query" \notin Active.disabled)
      /\ guard.dedup = FirstNamed(<<Given("dedup"), "default">>)
      /\ guard.analyzer.dialect =
           FirstNamed(<<Given("dialect"),
                        Names(Active.dialect # "unknown", Active.dialect),
                        Names(Given("parser") \notin {"nil", "unknown"}, Given("parser")),
                        Detected,
                        "unknown">>)
=============================================================================
