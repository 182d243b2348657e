---------------------------- MODULE MCConfigured ----------------------------
(***************************************************************************)
(* Instance of Configured for TLC.  Each process gets the files that       *)
(* differ in what it reads: a scan all combinations of the rule lists, an  *)
(* application those of the runtime rules, settings, dialect and dedup     *)
(* window, explain those of two plan rules.                                *)
(***************************************************************************)
EXTENDS Configured, TLC

MCEvaluated == {"select-star", "large-offset"}
MCTypo == {"selct-star"}

Empty ==
    [strict |-> FALSE, disable |-> {}, only |-> {}, severity |-> << >>,
     settings |-> << >>, dialect |-> "unknown", dedup |-> "unset"]

\* Up to two names for a list, one entry for the severities.
Lists(names) == {{m, n} : m, n \in names} \cup {{}}
Overrides(names, values) == {n :> v : n \in names, v \in values} \cup {<< >>}

ScanFiles ==
    {[Empty EXCEPT !.strict = s, !.disable = d, !.only = o, !.severity = v] :
        s \in BOOLEAN,
        d \in Lists({"select-star", "large-offset", "selct-star"}),
        o \in Lists({"select-star", "large-offset", "slow-query", "selct-star"}),
        v \in Overrides({"select-star", "seq-scan", "selct-star"}, {"info", "off", "invalid"})}

Settings ==
    {<< >>,
     <<"slow-query", "threshold">> :> TRUE,
     <<"slow-query", "threshold">> :> FALSE,
     <<"n-plus-one", "threshold">> :> TRUE,
     <<"n-plus-one", "threshold">> :> TRUE @@ <<"n-plus-one", "window">> :> TRUE,
     <<"n-plus-one", "threshold">> :> TRUE @@ <<"n-plus-one", "window">> :> FALSE}

AppFiles ==
    {[Empty EXCEPT !.only = o, !.disable = d, !.settings = s] :
        o \in {{}, {"select-star"}},
        d \in {{}, {"slow-query"}, {"n-plus-one"}, {"selct-star"}},
        s \in Settings}
    \cup {[Empty EXCEPT !.severity = v, !.dialect = d, !.dedup = w] :
        v \in Overrides({"slow-query", "n-plus-one"}, {"critical", "off"}),
        d \in {"unknown", "mysql", "invalid"},
        w \in {"unset", "valid", "invalid"}}
    \cup {[Empty EXCEPT !.strict = TRUE, !.dialect = d] : d \in {"mysql", "invalid"}}

ExplainFiles ==
    {[Empty EXCEPT !.only = o, !.disable = d, !.severity = v] :
        o \in {{}, {"select-star"}},
        d \in {{}, {"seq-scan"}, {"filesort"}},
        v \in {<< >>, "seq-scan" :> "critical", "no-index-used" :> "off"}}

MCFiles == [app |-> AppFiles, explain |-> ExplainFiles]

\* A call that breaks both rules, and one file with a call on its only line.
Sql == [breaks |-> MCEvaluated, byNumber |-> {"large-offset"}, off |-> {}]
Arg(is) == [is |-> is, package |-> "none", format |-> "none"]
Line(code, comment) == [code |-> code, comment |-> comment]
Source ==
    [path |-> "plain", typed |-> TRUE, parses |-> TRUE, method |-> "Query",
     args |-> <<Arg("literal")>>, query |-> Sql, lines |-> <<Line("call", "none")>>]

OnlyFile(f) == [files |-> <<f>>, packages |-> <<<<1>>>>]
ScanOf(f, t, fmt) == [file |-> f, tree |-> t, format |-> fmt]

\* Three lines with comments of every kind, and at most one call that spans.
Codes ==
    LET words == {"none", "other", "call"}
    IN  {<<a, b, c>> : a, b, c \in words}
          \cup UNION {{<<"open", "close", a>>, <<a, "open", "close">>} : a \in words}
          \cup {<<"open", a, "close">> : a \in {"none", "other"}}
Comments == {"none", "prose", "tight", "all"} \cup MCEvaluated
Layouts ==
    {[i \in 1 .. 3 |-> Line(codes[i], comments[i])] :
       codes \in Codes, comments \in [1 .. 3 -> Comments]}

\* The calls a scan may or may not see through, with and without types.
Sprintf(package, of) == [is |-> "sprintf", package |-> package, format |-> of]
Args ==
    {Arg(is) : is \in {"literal", "const", "runtime"}}
      \cup {Sprintf(package, of) : package \in {"fmt", "alias", "other"}, of \in {"literal", "const", "runtime"}}
SeenThrough ==
    {[Source EXCEPT !.method = m, !.args = a, !.typed = typed, !.query.off = off] :
       m \in {"Query", "QueryContext", "Get"},
       a \in {<<x>> : x \in Args} \cup {<<Arg("runtime"), x>> : x \in Args},
       typed \in BOOLEAN,
       off \in {{}, {"select-star"}}}

\* Two files anywhere in the tree, listed by go/packages or not, one of them twice.
TwoFiles ==
    {[files |-> <<[Source EXCEPT !.path = p, !.parses = parses], [Source EXCEPT !.path = q]>>,
      packages |-> packages] :
       p, q \in Paths, parses \in BOOLEAN, packages \in {<< >>, << << >>, << >> >>}}
Listed ==
    {[files |-> <<[Source EXCEPT !.path = p], [Source EXCEPT !.path = q]>>, packages |-> packages] :
       p, q \in {"plain", "node_modules", "excluded"},
       packages \in {<< <<1>> >>, << <<1>>, << >>, <<2>> >>, << <<1, 2>>, <<2>> >>}}

MCScans ==
    {ScanOf(f, OnlyFile(Source), fmt) : f \in ScanFiles, fmt \in {"console", "json"}}
      \cup {ScanOf(Empty, OnlyFile([Source EXCEPT !.lines = l]), "json") : l \in Layouts}
      \cup {ScanOf(Empty, t, "console") : t \in {OnlyFile(f) : f \in SeenThrough} \cup TwoFiles \cup Listed}
      \cup {ScanOf(Empty, OnlyFile(Source), fmt) : fmt \in {"", "xml"}}
=============================================================================
