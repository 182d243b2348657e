-------------------------- MODULE DialectParsers --------------------------
(***************************************************************************)
(* The parsers with a real grammar: parsers/pgparser and                   *)
(* parsers/mysqlparser.  Each starts from the fallback's facts and         *)
(* overwrites those its syntax tree answers; what its grammar rejects      *)
(* keeps the fallback's.  The grammars are libraries: Accepts says which   *)
(* statements of SqlStatements they may take.                              *)
(***************************************************************************)
EXTENDS FallbackParser

\* A Statement of which nothing is known, and the reset of what the tree tells.
NoFacts ==
    [Kind |-> "other", HasWhere |-> FALSE, HasLimit |-> FALSE, HasOrderBy |-> FALSE,
     HasFrom |-> FALSE, SelectStar |-> FALSE, SelectDistinct |-> FALSE,
     OffsetValue |-> 0, InsertColumnsListed |-> FALSE]

resetStructural(st) == NoFacts @@ st

hasRowLimit(q) == q.limit # "none"
offsetValue(q) == IF q.offset \in DOMAIN Number THEN Number[q.offset] ELSE 0
Larger(a, b) == IF a > b THEN a ELSE b
hasStar(c) == \E p \in ToSet(c.items) : p.is = "star"

\* pgparser: ParenSelect, UnionClause and SelectClause of a tree.Select.
fillSelectClause(st, c) ==
    [st EXCEPT !.HasWhere = c.where # << >>, !.HasFrom = c.from # << >>,
               !.SelectDistinct = c.distinct, !.SelectStar = @ \/ hasStar(c)]

BugMergeArm(st, arm) ==
    [st EXCEPT !.HasFrom = @ \/ arm.HasFrom, !.SelectStar = @ \/ arm.SelectStar,
               !.SelectDistinct = @ \/ arm.SelectDistinct]

\* An operand's ORDER BY orders the operand, so it is not merged.
mergeArm(st, arm) ==
    [st EXCEPT !.HasFrom = @ \/ arm.HasFrom, !.SelectStar = @ \/ arm.SelectStar,
               !.SelectDistinct = @ \/ arm.SelectDistinct,
               !.OffsetValue = Larger(@, arm.OffsetValue)]

RECURSIVE fillSelectBody(_, _)
fillSelectBody(st, b) ==
    LET arm(q) == fillSelectBody([NoFacts EXCEPT !.OffsetValue = offsetValue(q)], q.body)
    IN  CASE b.is = "clause" -> fillSelectClause(st, b)
          [] b.is = "paren"  ->
               fillSelectBody([st EXCEPT !.HasOrderBy = @ \/ b.query.order,
                                         !.HasLimit = @ \/ hasRowLimit(b.query),
                                         !.OffsetValue = Larger(@, offsetValue(b.query))],
                              b.query.body)
          [] b.is = "union"  -> mergeArm(mergeArm(st, arm(b.left)), arm(b.right))

\* mysqlparser: top is false for the operands of a set operation.
RECURSIVE fillSelect(_, _, _)
fillSelect(st, q, top) ==
    LET bounds == IF ~top \/ q.body.is = "paren" THEN st
                  ELSE [st EXCEPT !.HasWhere = IF q.body.is = "clause" THEN q.body.where # << >> ELSE @,
                                  !.HasLimit = hasRowLimit(q), !.HasOrderBy = q.order]
        offset == [bounds EXCEPT !.OffsetValue = Larger(@, offsetValue(q))]
    IN  CASE q.body.is = "clause" ->
               [offset EXCEPT !.HasFrom = @ \/ q.body.from # << >>,
                              !.SelectDistinct = @ \/ q.body.distinct,
                              !.SelectStar = @ \/ hasStar(q.body)]
          [] q.body.is = "paren"  -> fillSelect(st, q.body.query, top)
          [] q.body.is = "union"  ->
               fillSelect(fillSelect(offset, q.body.left, FALSE), q.body.right, FALSE)

keepFallbackBounds(st, fb) ==
    [st EXCEPT !.HasWhere = @ \/ fb.HasWhere, !.HasLimit = @ \/ fb.HasLimit]
-----------------------------------------------------------------------------
\* What each parser reads of a SELECT, and whether the rows it returns have a star.
pgFacts(st, q) ==
    fillSelectBody([st EXCEPT !.HasOrderBy = q.order, !.HasLimit = hasRowLimit(q),
                              !.OffsetValue = offsetValue(q)], q.body)
mysqlFacts(st, q) == fillSelect(st, q, TRUE)

SelectFacts(parser, st, q) == IF parser = "pg" THEN pgFacts(st, q) ELSE mysqlFacts(st, q)

\* Parse of either parser, for a statement s its grammar takes.
ParseTree(parser, s, fb) ==
    LET st == resetStructural(fb)
        exact == [st EXCEPT !.Exact = TRUE]
    IN  CASE s.kind = "select" ->
               keepFallbackBounds([SelectFacts(parser, exact, s.query) EXCEPT !.Kind = "select"], fb)
          [] s.kind = "insert" ->
               [exact EXCEPT !.Kind = "insert",
                             !.InsertColumnsListed = s.columns \/ s.rows = "default",
                             !.SelectStar = /\ s.rows = "query"
                                            /\ SelectFacts(parser, NoFacts, s.query[1]).SelectStar]
          [] s.kind \in {"update", "delete"} ->
               [exact EXCEPT !.Kind = s.kind, !.HasWhere = s.where # << >>,
                             !.HasLimit = s.limit, !.HasOrderBy = s.order]
          [] OTHER -> fb

pgparser(s, fb) == ParseTree("pg", s, fb)
mysqlparser(s, fb) == ParseTree("mysql", s, fb)

\* Postgres has no LIMIT a, b and no REPLACE; MySQL's grammar no CTE, bare OFFSET,
\* EXCEPT, LATERAL, FILTER, OVER or IS DISTINCT FROM, no SELECT in parentheses
\* that is no operand, no UPSERT and no DEFAULT VALUES.
pgAccepts(s) ==
    /\ \A q \in SelectsOf(s) : q.limit # "comma"
    /\ s.kind = "insert" => s.verb # "REPLACE"

mysqlAccepts(s) ==
    LET all == SelectsOf(s)
        operands == UNION {IF q.body.is = "union" THEN Operands(q) ELSE {} : q \in all}
    IN  /\ \A q \in all :
             /\ q.with = << >>
             /\ q.offset # "none" => q.limit # "none"
             /\ q.body.is = "union" => "EXCEPT" \notin ToSet(q.body.op)
             /\ q.body.is = "paren" => /\ q \in operands
                                       /\ q = Select(q.body)
                                       /\ q.body.query.body.is # "paren"
        /\ \A c \in Clauses(all), p \in {"lateral", "filter", "window", "differs", "distinctFrom"} :
             \A part \in ToSet(c.items) \cup ToSet(c.from) \cup ToSet(c.where) : part.is # p
        /\ s.kind = "insert" => s.verb # "UPSERT" /\ s.rows # "default"
        /\ s.kind \in {"insert", "update", "delete"} => s.with = << >>
        /\ s.kind = "select" => s.query.body.is # "paren"
=============================================================================
