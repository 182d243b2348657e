------------------------------ MODULE Explain ------------------------------
(***************************************************************************)
(* PlanAnalyzer.Analyze (explain/explain.go): a statement is validated,    *)
(* explained in a transaction that is rolled back on every way out, and    *)
(* what the plan rules find goes through the profile.                      *)
(*                                                                         *)
(* The plan is a sequence of nodes in the order they are walked (Postgres) *)
(* or of rows (MySQL), each as the set of what the rules look for in it.   *)
(* The server is external, and any call of it may fail.                    *)
(***************************************************************************)
EXTENDS Policy, Sequences

CONSTANTS
    MaxPlan     \* bound on the length of a plan

VARIABLES server, allowDML, pc, statement, tx, open, sent, plan, read, issues, failed

explainVars ==
    <<server, allowDML, pc, statement, tx, open, sent, plan, read, issues, failed>>

\* Statements as validate tells them apart: by the kind the fallback parser
\* sees, or several of them.
Statements == {"select", "dml", "other", "several"}

ExplainInit ==
    /\ server \in {"postgres", "mysql"}
    /\ allowDML \in BOOLEAN
    /\ pc = "idle"
    /\ statement = "none"
    /\ tx = "none"
    /\ open = FALSE
    /\ sent = "none"
    /\ plan = << >>
    /\ read = 0
    /\ issues = << >>
    /\ failed = FALSE

\* validate lets s through.
Accepted(s) == s = "select" \/ (s = "dml" /\ allowDML)

Validate(s) ==
    /\ pc = "idle"
    /\ statement' = s
    /\ pc' = IF Accepted(s) THEN "begin" ELSE "returned"
    /\ failed' = ~Accepted(s)
    /\ UNCHANGED <<server, allowDML, tx, open, sent, plan, read, issues>>

BugReadOnly == TRUE

\* TxOptions.ReadOnly.
ReadOnly == server = "postgres" \/ statement # "dml"

Begin ==
    /\ pc = "begin"
    /\ \/ /\ tx' = IF ReadOnly THEN "readonly" ELSE "readwrite"
          /\ pc' = "query"
          /\ UNCHANGED failed
       \/ /\ pc' = "returned"
          /\ failed' = TRUE
          /\ UNCHANGED tx
    /\ UNCHANGED <<server, allowDML, statement, open, sent, plan, read, issues>>

\* What a node or a row can have: a temporary table's row is "temporary".
Features ==
    IF server = "postgres" THEN {"SeqScan", "wide", "costly"}
    ELSE {"temporary", "ALL", "keyless", "filesort"}

\* MySQL and MariaDB refuse any DML statement in a read-only transaction, even
\* if it is only planned (error 1792).
ServerRefuses == server = "mysql" /\ statement = "dml" /\ tx = "readonly"

\* EXPLAIN is sent; a plan comes back, or an error.
Query ==
    /\ pc = "query"
    /\ sent' = tx
    /\ \/ /\ ~ServerRefuses
          /\ \E n \in 0 .. MaxPlan : plan' \in [1 .. n -> SUBSET Features]
          /\ open' = (server = "mysql")
          /\ pc' = "read"
          /\ UNCHANGED failed
       \/ /\ pc' = "leave"
          /\ failed' = TRUE
          /\ UNCHANGED <<plan, open>>
    /\ UNCHANGED <<server, allowDML, statement, tx, read, issues>>

Issue(rule, severity) == [rule |-> rule, severity |-> severity]

If(condition, issue) == IF condition THEN <<issue>> ELSE << >>

\* One node in walkPgPlan: a wide scan is never less than a warning.
WalkPgPlan(node) ==
    If("SeqScan" \in node,
       Issue("seq-scan", IF "wide" \in node THEN "warning" ELSE "info"))
    \o If("costly" \in node, Issue("high-cost", "warning"))

MysqlRowIssues(row) ==
    IF "temporary" \in row THEN << >>
    ELSE If("ALL" \in row, Issue("full-table-scan", "warning"))
         \o If("keyless" \in row, Issue("no-index-used", "warning"))
         \o If("filesort" \in row, Issue("filesort", "info"))

IssuesOf(node) == IF server = "postgres" THEN WalkPgPlan(node) ELSE MysqlRowIssues(node)

ReadPlan ==
    /\ pc = "read"
    /\ read < Len(plan)
    /\ read' = read + 1
    /\ issues' = issues \o IssuesOf(plan[read + 1])
    /\ UNCHANGED <<server, allowDML, pc, statement, tx, open, sent, plan, failed>>

\* The plan is over; or it does not parse (Postgres, before any node), has
\* columns nobody knows or breaks off (MySQL, after any number of rows).
EndOfPlan ==
    /\ pc = "read"
    /\ \/ read = Len(plan) /\ UNCHANGED failed
       \/ (server = "postgres" => read = 0) /\ failed' = TRUE
    /\ pc' = "leave"
    /\ UNCHANGED <<server, allowDML, statement, tx, open, sent, plan, read, issues>>

\* The deferred rows.Close and tx.Rollback.
Leave ==
    /\ pc = "leave"
    /\ open' = FALSE
    /\ tx' = "rolled back"
    /\ pc' = "profile"
    /\ UNCHANGED <<server, allowDML, statement, sent, plan, read, issues, failed>>

BugApplyProfile(a, found) == SelectSeq(found, LAMBDA i : i.rule \notin a.disabled)

\* Disabled findings are dropped, and an override outranks what was computed.
ApplyProfile(a, found) ==
    LET kept[n \in 0 .. Len(found)] ==
          IF n = 0 THEN << >>
          ELSE IF RuleEnabled(a, found[n].rule)
          THEN Append(kept[n - 1], [found[n] EXCEPT !.severity = RuleSeverity(a, found[n].rule, @)])
          ELSE kept[n - 1]
    IN  kept[Len(found)]

\* Whatever was found goes through the profile, also after a failure.
Return ==
    /\ pc = "profile"
    /\ issues' = ApplyProfile(DefaultWithProfile(Profile(file)), issues)
    /\ pc' = "returned"
    /\ UNCHANGED <<server, allowDML, statement, tx, open, sent, plan, read, failed>>

ExplainNext ==
    \/ \E s \in Statements : Validate(s)
    \/ Begin \/ Query \/ ReadPlan \/ EndOfPlan \/ Leave \/ Return
-----------------------------------------------------------------------------
\* What reached the server was a SELECT in a read-only transaction, or DML its
\* caller asked for, in one that is read-only wherever the server can plan it
\* there; DML that is let through is never refused for that reason; and once
\* Analyze has returned nothing is left open or uncommitted (explain.go:29-34,
\* 79-83, 295-300).
NothingExecuted ==
    /\ sent # "none" =>
         \/ statement = "select" /\ sent = "readonly"
         \/ statement = "dml" /\ allowDML /\ (server = "postgres" => sent = "readonly")
    /\ pc = "query" => ~ServerRefuses
    /\ pc = "returned" => ~open /\ tx \in {"none", "rolled back"}
=============================================================================
