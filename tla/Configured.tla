----------------------------- MODULE Configured -----------------------------
(***************************************************************************)
(* What one configuration file makes of the three programs that read it:   *)
(* `sqlguard scan` (SourceScan), an application that builds a Guard with   *)
(* the options config.Middleware returns (GuardOptions), and               *)
(* `sqlguard explain` (Explain).                                           *)
(***************************************************************************)
EXTENDS GuardOptions, Explain, SourceScan

CONSTANTS
    Files,  \* Files[p]: configuration files of the process p
    Scans   \* what a scan may be given: a file, a tree and a format

ASSUME ConfiguredAssumption ==
    /\ \A f \in Files["app"] \cup Files["explain"] : FileType(f)
    /\ \A s \in Scans : FileType(s.file) /\ TreeType(s.tree)

VARIABLES process

Process == {"scan", "app", "explain"}

vars == <<file, process, scanVars, guardVars, explainVars>>

Init ==
    /\ process \in Process
    /\ IF process = "scan"
       THEN \E s \in Scans : file = s.file /\ tree = s.tree /\ format = s.format
       ELSE /\ file \in Files[process]
            /\ tree = [files |-> << >>, packages |-> << >>]
            /\ format = "console"
    /\ ScanInit
    /\ GuardInit
    /\ ExplainInit
    /\ process # "explain" => server = "postgres" /\ ~allowDML

\* A strict file that is warned about ends explain at once.
Stopped ==
    \/ process = "explain" /\ Refused(file)
    \/ Ended
    \/ guard.built
    \/ pc = "returned"

Next ==
    \/ /\ process = "scan"
       /\ ScanNext
       /\ UNCHANGED <<file, process, tree, format, guardVars, explainVars>>
    \/ process = "app" /\ GuardNext /\ UNCHANGED <<file, process, scanVars, explainVars>>
    \/ /\ process = "explain"
       /\ ~Refused(file)
       /\ ExplainNext
       /\ UNCHANGED <<file, process, scanVars, guardVars>>
    \/ Stopped /\ UNCHANGED vars

Spec == Init /\ [][Next]_vars
-----------------------------------------------------------------------------
\* What the documentation says of a file (configuration.md), in its own terms.
TurnedOff(r) ==
    r \in file.disable \/ (r \in DOMAIN file.severity /\ file.severity[r] = "off")

SeverityOf(r, def) ==
    IF r \in DOMAIN file.severity /\ file.severity[r] \in Severities
    THEN file.severity[r] ELSE def

\* A scan whose user was not warned runs what `only` lists, less what is turned
\* off, and then it runs something; without `only`, everything that is not
\* turned off.  An `only` that does not narrow is always warned about
\* (config.go: checkScanHasRules, "reads as a clean scan"; checkName).
NarrowingHonoured ==
    scan.pc = "load" =>
      /\ \A r \in scan.rules : ~TurnedOff(r)
      /\ IF file.only = {}
         THEN scan.rules = {r \in Evaluated : ~TurnedOff(r)}
         ELSE /\ scan.rules \subseteq file.only \/ scan.warned
              /\ scan.rules # {} \/ scan.warned

\* Turning a rule off, and changing its severity, has the same effect wherever
\* the rule is reported; `only` narrows the statement rules and no others
\* (analyzer.go: RuleEnabled, explain.go: applyProfile, guard.go: NewGuard).
ProfileReachesEverySurface ==
    /\ guard.built /\ Given("analyzer") = "file" =>
         /\ guard.slowEnabled = ~TurnedOff("slow-query")
         /\ TurnedOff("n-plus-one") => guard.n1 = "off"
         /\ Given("n1") # "none" /\ ~TurnedOff("n-plus-one") => guard.n1 = "go"
         /\ guard.slowSeverity = SeverityOf("slow-query", "warning")
         /\ guard.n1Severity = SeverityOf("n-plus-one", "warning")
         /\ \A r \in guard.analyzer.rules : ~TurnedOff(r)
    /\ pc = "returned" => \A i \in DOMAIN issues :
         /\ ~TurnedOff(issues[i].rule)
         /\ issues[i].severity = SeverityOf(issues[i].rule, issues[i].severity)

\* What a node or row has for r to report it.
Sign == [r \in Plan |->
    CASE r = "seq-scan"        -> "SeqScan"
      [] r = "high-cost"       -> "costly"
      [] r = "full-table-scan" -> "ALL"
      [] r = "no-index-used"   -> "keyless"
      [] r = "filesort"        -> "filesort"]

Shows(node, r) == Sign[r] \in node /\ "temporary" \notin node

\* Analyze that did not fail reports a rule once for each node or row that
\* shows it, unless the rule is turned off; whatever `only` says, and even if
\* some of them were dropped (explain.go: walkPgPlan, analyzeMySQL,
\* applyProfile, which filters in place).
PlanReported ==
    pc = "returned" /\ ~failed =>
      \A r \in Plan :
        LET shown    == {n \in DOMAIN plan : Shows(plan[n], r)}
            reported == {i \in DOMAIN issues : issues[i].rule = r}
        IN  Cardinality(reported) = IF TurnedOff(r) THEN 0 ELSE Cardinality(shown)
=============================================================================
