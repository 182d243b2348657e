------------------------------- MODULE Policy -------------------------------
(***************************************************************************)
(* From a configuration file to the decisions about rules: Config.Profile  *)
(* (config/config.go) checks a file and makes a profile of it,             *)
(* DefaultWithProfile (analyzer/analyzer.go) makes an analyzer of that.    *)
(* GuardOptions, Explain and Scan ask that analyzer.                       *)
(*                                                                         *)
(* In a file the severities are a function from the names it lists, the    *)
(* settings a function from pairs <<name, key>> to whether the value reads *)
(* as what the setting is (ReadsBack).  YAML is the library's.             *)
(***************************************************************************)
EXTENDS Naturals, FiniteSets

CONSTANTS
    Evaluated,  \* rules with a Factory: they run over a statement
    Typo        \* names that are no rule

VARIABLE file   \* the configuration file of the process

Runtime == {"slow-query", "n-plus-one"}
Plan == {"seq-scan", "high-cost", "full-table-scan", "no-index-used", "filesort"}
Rule == Evaluated \cup Plan \cup Runtime
Name == Rule \cup Typo

ASSUME PolicyAssumption ==
    /\ Evaluated \cap (Plan \cup Runtime) = {}
    /\ Typo \cap Rule = {}

Dialects == {"unknown", "postgres", "mysql"}
Severities == {"info", "warning", "critical"}

FileType(f) ==
    /\ f.strict \in BOOLEAN
    /\ f.disable \in SUBSET Name
    /\ f.only \in SUBSET Name
    /\ DOMAIN f.severity \in SUBSET Name
    /\ \A n \in DOMAIN f.severity : f.severity[n] \in Severities \cup {"off", "invalid"}
    /\ \A s \in DOMAIN f.settings : s[1] \in Name /\ f.settings[s] \in BOOLEAN
    /\ f.dialect \in Dialects \cup {"invalid"}
    /\ f.dedup \in {"unset", "valid", "invalid"}

Pair == {"threshold", "window"}

\* ruleSettings, for the rules whose settings another component reads.
RuleSettings(r) ==
    CASE r = "slow-query" -> {"threshold"}
      [] r = "n-plus-one" -> Pair
      [] OTHER            -> {}

\* The settings of r that survive: a value that was complained about is not
\* carried on.
CheckSettings(f, r) ==
    {k \in RuleSettings(r) : <<r, k>> \in DOMAIN f.settings /\ f.settings[<<r, k>>]}

BugSkip(p, r) == IF p.only # {} THEN r \notin p.only ELSE r \in p.disabled

\* Profile.Skip
Skip(p, r) ==
    \/ p.only # {} /\ r \notin p.only
    \/ r \in p.disabled

\* A name that is no rule is complained about and left out.
CollectNames(names) == names \cap Rule

SeverityIs(f, values) == {n \in DOMAIN f.severity : f.severity[n] \in values}

Profile(f) ==
    [disabled |-> CollectNames(f.disable \cup SeverityIs(f, {"off"})),
     only     |-> CollectNames(f.only),
     severity |-> [r \in CollectNames(SeverityIs(f, Severities)) |-> f.severity[r]],
     settings |-> [r \in Runtime |-> CheckSettings(f, r)],
     dialect  |-> IF f.dialect = "invalid" THEN "unknown" ELSE f.dialect]

\* checkScanHasRules
ScanHasNoRules(f) ==
    /\ f.only # {}
    /\ \/ Profile(f).only = {}
       \/ \A r \in Evaluated : Skip(Profile(f), r)

\* Whether anything in the file is warned about.
Warned(f) ==
    \/ ~(f.disable \cup f.only \cup DOMAIN f.severity \subseteq Rule)
    \/ "invalid" \in {f.severity[n] : n \in DOMAIN f.severity} \cup {f.dialect}
    \/ \E s \in DOMAIN f.settings : s[2] \notin RuleSettings(s[1]) \/ ~f.settings[s]
    \/ CheckSettings(f, "n-plus-one") \notin {{}, Pair}
    \/ ScanHasNoRules(f)

\* Under strict a warning is an error.
Refused(f) == f.strict /\ Warned(f)

NoProfile ==
    [disabled |-> {}, only |-> {}, severity |-> << >>,
     settings |-> [r \in Runtime |-> {}], dialect |-> "unknown"]

BugDisabled(p) == {r \in Rule : Skip(p, r)}

\* The rules RuleEnabled says are off: `only` does not count.
Disabled(p) == p.disabled

DefaultWithProfile(p) ==
    [rules      |-> {r \in Evaluated : ~Skip(p, r)},
     disabled   |-> Disabled(p),
     severity   |-> p.severity,
     settings   |-> p.settings,
     dialect    |-> p.dialect,
     dialectSet |-> p.dialect # "unknown"]

RuleEnabled(a, r) == r \notin a.disabled

\* An override of the profile, or else def.
RuleSeverity(a, r, def) == IF r \in DOMAIN a.severity THEN a.severity[r] ELSE def

WithDialect(a, d) == [a EXCEPT !.dialect = d, !.dialectSet = TRUE]

\* For a parser of dialect d, or of no single one: the dialect follows the
\* parser unless it was set.
WithParser(a, d) == IF a.dialectSet THEN a ELSE [a EXCEPT !.dialect = d]
=============================================================================
