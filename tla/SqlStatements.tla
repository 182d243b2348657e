--------------------------- MODULE SqlStatements ---------------------------
(***************************************************************************)
(* SQL statements: the syntax trees the dialect parsers read (tree.Select  *)
(* and its kin of pgparser's grammar), the text each is written as, a      *)
(* sequence of tokens, and what it means.  Names are all "id", literals    *)
(* "lit", a LIKE pattern that begins with a wildcard "%1" or "%2" by the   *)
(* length of its term; "?" is a parameter, "1" and "2" are numbers.        *)
(***************************************************************************)
EXTENDS Naturals, Sequences, FiniteSets, FiniteSetsExt, SequencesExt

\* A part of a statement: a select item, a FROM source, a predicate or a CTE.
Part(is) == [is |-> is, query |-> << >>]
PartOf(is, query) == [is |-> is, query |-> <<query>>]

\* How each part is written; "Q" stands for its query, in parentheses.
Template ==
    [column        |-> <<"id">>,
     star          |-> <<"*">>,
     extract       |-> <<"id", "(", "id", "FROM", "id", ")">>,
     filter        |-> <<"id", "(", "id", ")", "FILTER", "(", "WHERE", "id", "=", "lit", ")">>,
     window        |-> <<"id", "(", "id", ")", "OVER", "(", "ORDER BY", "id", ")">>,
     countDistinct |-> <<"id", "(", "DISTINCT", "id", ")">>,
     differs       |-> <<"id", "IS", "DISTINCT", "FROM", "id">>,
     subquery      |-> <<"Q">>,
     table         |-> <<"id">>,
     derived       |-> <<"Q", "id">>,
     lateral       |-> <<"LATERAL", "Q", "id">>,
     equals        |-> <<"id", "=", "lit">>,
     function      |-> <<"id", "(", "id", ")", "=", "lit">>,
     valueFunction |-> <<"id", "=", "id", "(", "id", ")">>,
     inList        |-> <<"id", "IN", "(", "lit", ",", "lit", ")">>,
     inOne         |-> <<"id", "IN", "(", "lit", ")">>,
     wildcard      |-> <<"id", "LIKE", "%1">>,
     longWildcard  |-> <<"id", "LIKE", "%2">>,
     inQuery       |-> <<"id", "IN", "Q">>,
     scalar        |-> <<"id", "=", "Q">>,
     exists        |-> <<"EXISTS", "Q">>,
     distinctFrom  |-> <<"id", "IS", "DISTINCT", "FROM", "Q">>,
     cte           |-> <<"id", "AS", "Q">>,
     materialized  |-> <<"id", "AS", "NOT", "MATERIALIZED", "Q">>]

\* A SELECT and what its body may be: a clause, a SELECT in parentheses, or a
\* set operation.  joined is how the second source is joined to the first.
Clause == [is |-> "clause", distinct |-> FALSE, items |-> <<Part("column")>>,
           from |-> <<Part("table")>>, joined |-> "comma", where |-> << >>]
Paren(query) == [is |-> "paren", query |-> query]
Union(left, op, right) == [is |-> "union", left |-> left, op |-> op, right |-> right]
Select(body) == [with |-> << >>, body |-> body, order |-> FALSE,
                 limit |-> "none", offset |-> "none", lock |-> FALSE]

\* The statements.  The rows of an INSERT are "values", "default" or "query".
Selection(query) == [kind |-> "select", query |-> query]
Insertion(verb, with, columns, rows, query) ==
    [kind |-> "insert", verb |-> verb, with |-> with, columns |-> columns,
     rows |-> rows, query |-> query]
Change(kind, with, set, where) ==
    [kind |-> kind, with |-> with, set |-> set, where |-> where,
     order |-> FALSE, limit |-> FALSE]
Alteration(actions) == [kind |-> "alter", actions |-> actions]
-----------------------------------------------------------------------------
When(c, tokens) == IF c THEN tokens ELSE << >>

Separated(seqs, sep) ==
    FlattenSeq([i \in DOMAIN seqs |-> When(i > 1, sep) \o seqs[i]])

RECURSIVE SelectTokens(_)

PartTokens(p) ==
    FlattenSeq([i \in DOMAIN Template[p.is] |->
        IF Template[p.is][i] = "Q"
        THEN <<"(">> \o SelectTokens(p.query[1]) \o <<")">>
        ELSE <<Template[p.is][i]>>])

PartsTokens(parts, sep) == Separated([i \in DOMAIN parts |-> PartTokens(parts[i])], sep)

JoinTokens == [comma |-> <<",">>, cross |-> <<"CROSS", "JOIN">>,
               on |-> <<"JOIN">>, natural |-> <<"NATURAL", "JOIN">>]

WithTokens(with) == When(with # << >>, <<"WITH">> \o PartsTokens(with, <<",">>))
WhereTokens(where) == When(where # << >>, <<"WHERE">> \o PartsTokens(where, <<"AND">>))

BodyTokens(b) ==
    CASE b.is = "clause" ->
           <<"SELECT">> \o When(b.distinct, <<"DISTINCT">>) \o PartsTokens(b.items, <<",">>)
             \o When(b.from # << >>, <<"FROM">> \o PartsTokens(b.from, JoinTokens[b.joined]))
             \o When(Len(b.from) > 1 /\ b.joined = "on", <<"ON", "id", "=", "id">>)
             \o WhereTokens(b.where)
      [] b.is = "paren" -> <<"(">> \o SelectTokens(b.query) \o <<")">>
      [] b.is = "union" -> SelectTokens(b.left) \o b.op \o SelectTokens(b.right)

TailTokens(q) ==
    When(q.order, <<"ORDER BY", "id">>)
      \o When(q.limit = "comma", <<"LIMIT", q.offset, ",", "1">>)
      \o When(q.limit = "count", <<"LIMIT", "1">>)
      \o When(q.limit # "comma" /\ q.offset # "none", <<"OFFSET", q.offset>>)
      \o When(q.lock, <<"FOR", "UPDATE">>)

SelectTokens(q) == WithTokens(q.with) \o BodyTokens(q.body) \o TailTokens(q)

RowsTokens(s) ==
    CASE s.rows = "values"  -> <<"VALUES", "(", "lit", ",", "lit", ")">>
      [] s.rows = "default" -> <<"DEFAULT", "VALUES">>
      [] s.rows = "query"   -> SelectTokens(s.query[1])

ActionTokens(a) ==
    (CASE a.adds = "column" -> <<"ADD", "COLUMN", "id", "id", "(", "1", ",", "2", ")">>
       [] a.adds = "check"  -> <<"ADD", "CHECK", "(", "id", "IS">>
       [] a.adds = "alter"  -> <<"ALTER", "COLUMN", "id", "SET">>)
      \o When(a.notNull, <<"NOT", "NULL">>) \o When(a.default, <<"DEFAULT", "lit">>)
      \o When(a.adds = "check", <<")">>)

Tokens(s) ==
    CASE s.kind = "select" -> SelectTokens(s.query)
      [] s.kind = "insert" ->
           WithTokens(s.with) \o <<s.verb, "INTO", "id">>
             \o When(s.columns, <<"(", "id", ",", "id", ")">>) \o RowsTokens(s)
      [] s.kind \in {"update", "delete"} ->
           WithTokens(s.with)
             \o (IF s.kind = "delete" THEN <<"DELETE", "FROM", "id">>
                 ELSE <<"UPDATE", "id", "SET">> \o PartsTokens(s.set, <<",">>))
             \o WhereTokens(s.where)
             \o When(s.order, <<"ORDER BY", "id">>) \o When(s.limit, <<"LIMIT", "1">>)
      [] s.kind = "alter" ->
           <<"ALTER", "TABLE", "id">>
             \o Separated([i \in DOMAIN s.actions |-> ActionTokens(s.actions[i])], <<",">>)
-----------------------------------------------------------------------------
Queries(parts) == {parts[i].query[1] : i \in {i \in DOMAIN parts : parts[i].query # << >>}}

Operands(q) ==
    CASE q.body.is = "clause" -> {}
      [] q.body.is = "paren"  -> {q.body.query}
      [] q.body.is = "union"  -> {q.body.left, q.body.right}

DerivedTables(q) == IF q.body.is = "clause" THEN Queries(q.body.from) ELSE {}
Subqueries(q) ==
    IF q.body.is = "clause" THEN Queries(q.body.items) \cup Queries(q.body.where) ELSE {}

\* The SELECTs whose rows are rows of q's result.
RECURSIVE Results(_)
Results(q) == {q} \cup UNION {Results(o) : o \in Operands(q)}

\* Those, and the ones their rows come from.
RECURSIVE RowSources(_)
RowSources(q) ==
    {q} \cup UNION {RowSources(o) : o \in Operands(q) \cup DerivedTables(q) \cup Queries(q.with)}

RECURSIVE AllSelects(_)
AllSelects(q) ==
    {q} \cup UNION {AllSelects(o) :
              o \in Operands(q) \cup DerivedTables(q) \cup Queries(q.with) \cup Subqueries(q)}

\* The clauses of a set of SELECTs.
Clauses(selects) == {q.body : q \in {q \in selects : q.body.is = "clause"}}

\* The result of q is sorted, by its own ORDER BY or inside parentheses.
RECURSIVE Sorted(_)
Sorted(q) == q.order \/ (q.body.is = "paren" /\ Sorted(q.body.query))

SelectsOf(s) ==
    CASE s.kind = "select" -> AllSelects(s.query)
      [] s.kind = "insert" -> UNION {AllSelects(q) : q \in ToSet(s.query) \cup Queries(s.with)}
      [] s.kind \in {"update", "delete"} ->
           UNION {AllSelects(q) : q \in Queries(s.where) \cup Queries(s.set) \cup Queries(s.with)}
      [] s.kind = "alter" -> {}

\* Every predicate of the statement.
Predicates(s) ==
    UNION {ToSet(c.where) : c \in Clauses(SelectsOf(s))}
      \cup (IF s.kind \in {"update", "delete"} THEN ToSet(s.where) ELSE {})
=============================================================================
