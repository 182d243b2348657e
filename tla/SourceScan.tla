----------------------------- MODULE SourceScan -----------------------------
(***************************************************************************)
(* `sqlguard scan` (cmd/sqlguard/scan.go): the Go files of a tree are      *)
(* searched for calls that send SQL, and what the rules find in the SQL is *)
(* reported unless a comment in the Go source says otherwise.              *)
(*                                                                         *)
(* A file is a sequence of lines, each with some code and at most one      *)
(* comment, at its end.  The code is "none", "other", a whole "call", or   *)
(* the "open" or "close" line of a call that is longer.  The comment is    *)
(* "none", "prose", a directive: "all" or the name of one rule, or "tight":*)
(* a directive that nothing separates from the slashes.  The calls of a    *)
(* file are alike: of one method, with the same arguments and SQL.         *)
(***************************************************************************)
EXTENDS Policy, Sequences, FiniteSetsExt, SequencesExt

VARIABLES
    tree,    \* files, and packages: what go/packages makes of them
    format,  \* the --format flag
    scan     \* how far the scan is

scanVars == <<tree, format, scan>>

\* A directive in a comment is written as the rule it names, or "all".
ASSUME SourceScanAssumption ==
    /\ IsFiniteSet(Evaluated)
    /\ Evaluated \cap {"none", "prose", "tight", "all"} = {}

Directives == {"all"} \cup Evaluated
Lines == [code : {"none", "other", "call", "open", "close"},
          comment : {"none", "prose", "tight"} \cup Directives]

\* An argument, and what fmt.Sprintf's first one is if it is such a call.
Arguments == [is : {"literal", "const", "runtime", "sprintf"},
              package : {"none", "fmt", "alias", "other"},
              format : {"none", "literal", "const", "runtime"}]

\* What keepFile, shouldSkipDir and the file system make of a file.
Paths == {"plain", "not-go", "test", "hidden", "vendor", "node_modules", "excluded", "unreadable"}

\* The query of a call: the rules it breaks, those of them that only a number
\* put in by fmt would break, and those a comment in the SQL turns off.
QueryType(q) == q.breaks \in SUBSET Evaluated /\ q.byNumber \subseteq q.breaks /\ q.off \in SUBSET Evaluated

FileOfTree(f) ==
    /\ f.path \in Paths
    /\ f.typed \in BOOLEAN /\ f.parses \in BOOLEAN
    /\ f.lines \in Seq(Lines)
    /\ f.args \in Seq(Arguments)
    /\ QueryType(f.query)

\* A package's files are files of the tree.  The go command passes over hidden
\* and vendor directories when it expands "./...".
TreeType(t) ==
    /\ t.files \in Seq(ToSet(t.files))
    /\ \A f \in ToSet(t.files) : FileOfTree(f)
    /\ t.packages \in Seq(Seq(DOMAIN t.files))
    /\ \A p \in ToSet(t.packages) : \A n \in ToSet(p) : t.files[n].path \notin {"hidden", "vendor"}

\* Analyzer.Analyze
Analyze(rules, q) == (q.breaks \cap rules) \ q.off
-----------------------------------------------------------------------------
\* queryArgExpr: the argument that holds the SQL, if there is one.
queryArgExpr(method, args) ==
    LET n == IF method = "QueryContext" THEN 2 ELSE 1
    IN  IF method \in {"Query", "QueryContext"} /\ n <= Len(args) THEN <<args[n]>> ELSE << >>

\* constString: without type information a literal is the only constant.
constString(typed, is) == is = "literal" \/ (typed /\ is = "const")

\* sprintfFormatArg: package fmt under its own name or another, or some other
\* package under that name.
sprintfFormatArg(typed, package) == package \in (IF typed THEN {"fmt", "alias"} ELSE {"fmt", "other"})

\* neutralizeFormat: numeric verbs become 0.
neutralizeFormat(q) == [q EXCEPT !.breaks = @ \ q.byNumber]

\* resolveQuery: the query an argument stands for, if that can be told.
resolveQuery(typed, arg, q) ==
    IF constString(typed, arg.is) THEN <<q>>
    ELSE IF /\ arg.is = "sprintf"
            /\ sprintfFormatArg(typed, arg.package)
            /\ constString(typed, arg.format)
    THEN <<neutralizeFormat(q)>>
    ELSE << >>
-----------------------------------------------------------------------------
\* The calls of a file.
Calls(lines) ==
    {[first |-> i, last |-> i] : i \in {i \in DOMAIN lines : lines[i].code = "call"}}
      \cup {[first |-> i, last |-> Min({j \in i + 1 .. Len(lines) : lines[j].code = "close"})] :
              i \in {i \in DOMAIN lines : lines[i].code = "open"}}

\* go/parser: a comment after code is a group of its own, comments on lines of
\* their own that follow each other are one.
Groups(lines) ==
    LET commented == {i \in DOMAIN lines : lines[i].comment # "none"}
        alone == {i \in commented : lines[i].code = "none"}
    IN  {[first |-> i, last |-> i] : i \in commented \ alone}
          \cup {g \in [first : alone, last : alone] :
                  /\ g.first .. g.last \subseteq alone /\ g.first <= g.last
                  /\ {g.first - 1, g.last + 1} \cap alone = {}}

\* CommentGroup.Text: the lines of a group whose comments are not in directive
\* form.
Text(lines, g) == {i \in g.first .. g.last : lines[i].comment # "tight"}

\* ParseIgnoreComment: the first directive counts.  A list of names takes in the
\* words of the next line, and then names no rule.
ParseIgnoreComment(lines, text) ==
    LET at == {i \in text : lines[i].comment \in Directives}
        named == lines[Min(at)].comment
    IN  [found |-> at # {},
         rules |-> {r \in Evaluated : /\ at # {}
                                      /\ \/ named = "all"
                                         \/ named = r /\ \A i \in text : i <= Min(at)}]

BugBuildSuppressor(lines) ==
    LET heard == {g \in Groups(lines) : ParseIgnoreComment(lines, Text(lines, g)).found}
        over(i) == {g \in heard : g.last \in {i - 1, i}}
        latest(i) == CHOOSE g \in over(i) : \A h \in over(i) : h.last >= g.last
    IN  [i \in DOMAIN lines |->
           IF over(i) = {} THEN {} ELSE ParseIgnoreComment(lines, Text(lines, latest(i))).rules]

\* The rules that are off on each line: by the comment that ends on it, or else by
\* the one that ends on the line before.
buildSuppressor(lines) ==
    LET heard == {g \in Groups(lines) : ParseIgnoreComment(lines, Text(lines, g)).found}
        over(i) == {g \in heard : g.last \in {i - 1, i}}
        latest(i) == CHOOSE g \in over(i) : \A h \in over(i) : h.last <= g.last
    IN  [i \in DOMAIN lines |->
           IF over(i) = {} THEN {} ELSE ParseIgnoreComment(lines, Text(lines, latest(i))).rules]

\* What scanASTFile finds in the file with index n.
scanASTFile(n, typed, rules) ==
    LET f == tree.files[n]
        arg == queryArgExpr(f.method, f.args)
        query == IF arg = << >> THEN << >> ELSE resolveQuery(typed /\ f.typed, arg[1], f.query)
        suppress == buildSuppressor(f.lines)
    IN  IF query = << >> THEN {}
        ELSE UNION {[file : {n}, line : {c.first},
                     rule : Analyze(rules, query[1]) \ suppress[c.first]] : c \in Calls(f.lines)}
-----------------------------------------------------------------------------
keepFile(f) == f.path \notin {"not-go", "test", "excluded"}
shouldSkipDir(f) == f.path \in {"hidden", "vendor", "node_modules"}

NotScanned ==
    [pc |-> "start", rules |-> {}, warned |-> FALSE, typed |-> FALSE, todo |-> << >>,
     seen |-> {}, results |-> << >>, written |-> FALSE, exit |-> "none"]

ScanInit == scan = NotScanned

Ended == scan.pc = "ended"

\* runScan up to scanDir: an unknown format or a refused file ends it.
Configure ==
    /\ scan.pc = "start"
    /\ scan' = IF format \notin {"console", "", "json"} \/ Refused(file)
               THEN [scan EXCEPT !.pc = "ended", !.exit = "failed"]
               ELSE [scan EXCEPT !.pc = "load", !.warned = Warned(file),
                                 !.rules = DefaultWithProfile(Profile(file)).rules]

\* The packages' files if any package has one, or else those of the walk.
LoadPackages ==
    LET listed == FlattenSeq(tree.packages)
    IN  /\ scan.pc = "load"
        /\ scan' = [scan EXCEPT !.pc = "scan", !.typed = listed # << >>,
                                !.todo = IF listed # << >> THEN listed
                                         ELSE [n \in DOMAIN tree.files |-> n]]

NextFile == tree.files[Head(scan.todo)]

\* A file of two packages is scanned once, one that does not parse not at all.
Skipped ==
    \/ ~keepFile(NextFile)
    \/ scan.typed /\ Head(scan.todo) \in scan.seen
    \/ ~scan.typed /\ (shouldSkipDir(NextFile) \/ ~NextFile.parses)

SkipFile ==
    /\ scan.pc = "scan" /\ scan.todo # << >>
    /\ NextFile.path # "unreadable"
    /\ Skipped
    /\ scan' = [scan EXCEPT !.todo = Tail(@)]

ScanFile ==
    /\ scan.pc = "scan" /\ scan.todo # << >>
    /\ NextFile.path # "unreadable"
    /\ ~Skipped
    /\ scan' = [scan EXCEPT !.todo = Tail(@),
                            !.seen = @ \cup {Head(scan.todo)},
                            !.results = @ \o SetToSeq(scanASTFile(Head(scan.todo), scan.typed, scan.rules))]

\* filepath.Walk stops at what it cannot read, and the scan with it.  (go/packages
\* lists no syntax of such a file.)
WalkFails ==
    /\ scan.pc = "scan" /\ scan.todo # << >>
    /\ NextFile.path = "unreadable"
    /\ scan' = [scan EXCEPT !.pc = "ended", !.exit = "failed"]

\* report: JSON is always written, and an error in writing it comes first.
Report(written) ==
    /\ scan.pc = "scan" /\ scan.todo = << >>
    /\ scan' = [scan EXCEPT !.pc = "ended", !.written = written,
                            !.exit = IF format = "json" /\ ~written THEN "failed"
                                     ELSE IF scan.results = << >> THEN "clean" ELSE "issues"]

ScanNext ==
    \/ Configure
    \/ LoadPackages
    \/ SkipFile
    \/ ScanFile
    \/ WalkFails
    \/ \E written \in BOOLEAN : Report(written)
-----------------------------------------------------------------------------
\* What the documentation says of a scan (scan.md, suppressions.md).
Loaded == \E p \in ToSet(tree.packages) : p # << >>

\* Files are searched, but for those of a node_modules directory go/packages lists.
Searched(n) ==
    LET f == tree.files[n]
    IN  IF Loaded THEN /\ \E p \in ToSet(tree.packages) : n \in ToSet(p)
                       /\ f.path \in {"plain", "node_modules"}
        ELSE f.path = "plain" /\ f.parses

\* What the call can be seen to send, and the rules that breaks.
Sent(f) ==
    LET typed == Loaded /\ f.typed
        at == IF f.method = "Query" THEN 1 ELSE 2
        arg == f.args[at]
        constants == {"literal"} \cup (IF typed THEN {"const"} ELSE {})
        fmt == arg.package = "fmt" \/ arg.package = (IF typed THEN "alias" ELSE "other")
    IN  IF f.method \notin {"Query", "QueryContext"} \/ at > Len(f.args) THEN {}
        ELSE IF arg.is \in constants THEN f.query.breaks \ f.query.off
        ELSE IF arg.is = "sprintf" /\ fmt /\ arg.format \in constants
        THEN f.query.breaks \ (f.query.byNumber \cup f.query.off)
        ELSE {}

\* The comment of a line is a directive that names r.
Directs(lines, i, r) == i \in DOMAIN lines /\ lines[i].comment \in {"all", r}

\* The comment on the line above the call i is one of several, or overruled by one
\* on its own line.
Tangled(lines, i) ==
    /\ i > 1
    /\ \/ lines[i].comment \in Directives /\ lines[i - 1].comment \in Directives
       \/ i > 2 /\ \A j \in {i - 1, i - 2} : lines[j].code = "none" /\ lines[j].comment # "none"

Times(n, i, r) ==
    Cardinality({k \in DOMAIN scan.results : scan.results[k] = [file |-> n, line |-> i, rule |-> r]})

\* A scan that did not fail reports each rule a call breaks, once, at the first line
\* of the call; unless a directive on that line or the one above names it, and, of
\* two, the one on that line.  Nothing else is reported, and the exit code and a
\* JSON document tell all of it (scan.go: scanViaPackages, "seen", buildSuppressor,
\* report).
ScanReports ==
    Ended /\ scan.exit # "failed" =>
      /\ scan.exit = "issues" <=> scan.results # << >>
      /\ format = "json" => scan.written
      /\ \A n \in DOMAIN tree.files, r \in Evaluated :
           LET lines == tree.files[n].lines
               broken == Searched(n) /\ r \in scan.rules \cap Sent(tree.files[n])
           IN  \A i \in {c.first : c \in Calls(lines)} :
                 /\ Times(n, i, r) <= 1
                 /\ Times(n, i, r) = 1 => broken /\ ~Directs(lines, i, r)
                 /\ broken /\ ~Tangled(lines, i) =>
                      (Times(n, i, r) = 1 <=> ~Directs(lines, i, r) /\ ~Directs(lines, i - 1, r))
=============================================================================
