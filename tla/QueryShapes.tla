---------------------------- MODULE QueryShapes ----------------------------
(***************************************************************************)
(* Statements built up one edit at a time, and what the parsers make of    *)
(* each: the fallback reads its text, a dialect parser its tree, and both  *)
(* must tell what the statement means.                                     *)
(***************************************************************************)
EXTENDS DialectParsers, StatementRules

CONSTANTS
    Vocabularies,  \* sets of edits; a statement is built with one of them
    MaxEdits       \* the most edits with a vocabulary

VARIABLES
    vocabulary,
    stmt,    \* the statement so far
    text,    \* what a parser is given
    edits    \* how many edits made it

vars == <<vocabulary, stmt, text, edits>>

Init ==
    /\ vocabulary \in Vocabularies
    /\ stmt \in {Selection(Select(Clause))}
         \cup {Change(kind, << >>, <<Part("equals")>>, << >>) : kind \in {"update", "delete"} \cap vocabulary}
         \cup {Alteration(<< >>) : kind \in {"alter"} \cap vocabulary}
    /\ text = Tokens(stmt)
    /\ edits = 0

\* An edit that needs the words of the vocabulary named.
Edit(words, new) ==
    /\ words \subseteq vocabulary
    /\ edits < MaxEdits[vocabulary]
    /\ edits' = edits + 1
    /\ stmt' = new
    /\ text' = Tokens(new)
    /\ UNCHANGED vocabulary

query == stmt.query
IsSelect == stmt.kind = "select"
IsClause == IsSelect /\ query.body.is = "clause"
IsChange == stmt.kind \in {"update", "delete"}
WithBody(body) == [stmt EXCEPT !.query.body = body]
Around(body) == Selection(Select(body))

AddItem(word) ==
    /\ IsClause /\ Len(query.body.items) = 1
    /\ \E items \in {<<Part(word)>>, Append(query.body.items, Part(word))} :
         Edit({word}, WithBody([query.body EXCEPT !.items = items]))

SelectDistinct == IsClause /\ Edit({"distinct"}, WithBody([query.body EXCEPT !.distinct = TRUE]))

DropFrom ==
    /\ IsClause /\ query.body.where = << >>
    /\ Edit({"fromless"}, WithBody([query.body EXCEPT !.from = << >>]))

JoinTable(how) ==
    /\ IsClause /\ Len(query.body.from) = 1
    /\ Edit({how}, WithBody([query.body EXCEPT !.from = Append(@, Part("table")), !.joined = how]))

Filter(word) ==
    \/ /\ IsClause /\ query.body.from # << >> /\ Len(query.body.where) < 2
       /\ Edit({word}, WithBody([query.body EXCEPT !.where = Append(@, Part(word))]))
    \/ /\ IsChange /\ Len(stmt.where) < 2
       /\ Edit({word}, [stmt EXCEPT !.where = Append(@, Part(word))])

Order ==
    \/ IsSelect /\ Edit({"order"}, [stmt EXCEPT !.query.order = TRUE])
    \/ IsChange /\ Edit({"order"}, [stmt EXCEPT !.order = TRUE])

Limit ==
    \/ IsSelect /\ Edit({"limit"}, [stmt EXCEPT !.query.limit = "count"])
    \/ IsChange /\ Edit({"limit"}, [stmt EXCEPT !.limit = TRUE])

Offset(n) == IsSelect /\ Edit({"offset"}, [stmt EXCEPT !.query.offset = n])

LimitFrom(n) ==
    IsSelect /\ Edit({"comma-limit"}, [stmt EXCEPT !.query.limit = "comma", !.query.offset = n])

Lock == IsSelect /\ Edit({"lock"}, [stmt EXCEPT !.query.lock = TRUE])

\* The query becomes a derived table, alone or joined to a table.
Derive(word) ==
    /\ IsSelect
    /\ \/ Edit({word}, Around([Clause EXCEPT !.from = <<PartOf(word, query)>>]))
       \/ \E how \in {"comma", "cross", "on"} :
            Edit({word, how}, Around([Clause EXCEPT !.from = Append(@, PartOf(word, query)),
                                                    !.joined = how]))

\* It becomes a subquery of a predicate, or of a select item.
Compare(word) ==
    IsSelect /\ Edit({word}, Around([Clause EXCEPT !.where = <<PartOf(word, query)>>]))

SelectQuery ==
    IsSelect /\ Edit({"subquery"}, Around([Clause EXCEPT !.items = Append(@, PartOf("subquery", query))]))

Define(word) ==
    IsSelect /\ Edit({word}, Selection([Select(Clause) EXCEPT !.with = <<PartOf(word, query)>>]))

Parenthesise == IsSelect /\ Edit({"paren"}, Around(Paren(query)))

\* A SELECT in parentheses after a WITH clause.
DefineBefore ==
    IsSelect /\ Edit({"cte", "paren"},
                     Selection([Select(Paren(query)) EXCEPT !.with = <<PartOf("cte", Select(Clause))>>]))

\* It becomes an operand, first or second, bare where the grammar allows that.
Combine(op) ==
    LET plain == IsClause /\ query = Select(query.body)
        operands == {Select(Paren(query))} \cup (IF plain THEN {query} ELSE {})
        other == Select(Clause)
    IN  /\ IsSelect
        /\ \E operand \in operands :
             \/ Edit({Last(op)}, Around(Union(operand, op, other)))
             \/ Edit({Last(op)}, Around(Union(other, op, operand)))

\* It feeds an INSERT, or is a part of an UPDATE or DELETE.
InsertRows(verb) ==
    /\ IsSelect
    /\ \E columns \in BOOLEAN :
         \/ Edit({verb}, Insertion(verb, << >>, columns, "query", <<query>>))
         \/ Edit({verb, "cte"}, Insertion(verb, <<PartOf("cte", query)>>, columns, "values", << >>))
         \/ \E rows \in {"values", "default"} :
              query = Select(Clause) /\ Edit({verb}, Insertion(verb, << >>, columns, rows, << >>))

ChangeRows(kind) ==
    LET set == <<Part("equals")>>
    IN  /\ IsSelect
        /\ \/ Edit({kind}, Change(kind, << >>, set, <<PartOf("inQuery", query)>>))
           \/ Edit({kind, "cte"}, Change(kind, <<PartOf("cte", query)>>, set, << >>))
           \/ kind = "update" /\ Edit({kind}, Change(kind, << >>, <<PartOf("scalar", query)>>, << >>))

AddAction(adds) ==
    /\ stmt.kind = "alter"
    /\ \E notNull, default \in BOOLEAN :
         Edit({"alter"}, [stmt EXCEPT !.actions =
                            Append(@, [adds |-> adds, notNull |-> notNull, default |-> default])])

Next ==
    \/ \E w \in {"star", "extract", "filter", "window", "countDistinct", "differs"} : AddItem(w)
    \/ SelectDistinct
    \/ DropFrom
    \/ \E how \in {"comma", "cross", "on", "natural"} : JoinTable(how)
    \/ \E w \in {"equals", "function", "valueFunction", "inList", "inOne", "wildcard", "longWildcard"} : Filter(w)
    \/ Order
    \/ Limit
    \/ \E n \in {"1", "2", "?"} : Offset(n)
    \/ \E n \in {"1", "2", "?"} : LimitFrom(n)
    \/ Lock
    \/ \E w \in {"derived", "lateral"} : Derive(w)
    \/ \E w \in {"inQuery", "scalar", "exists", "distinctFrom"} : Compare(w)
    \/ SelectQuery
    \/ \E w \in {"cte", "materialized"} : Define(w)
    \/ Parenthesise
    \/ DefineBefore
    \/ \E op \in {<<"UNION">>, <<"UNION", "ALL">>, <<"EXCEPT">>} : Combine(op)
    \/ \E verb \in insertVerbs : InsertRows(verb)
    \/ \E kind \in {"update", "delete"} : ChangeRows(kind)
    \/ \E adds \in {"column", "check", "alter"} : AddAction(adds)

Spec == Init /\ [][Next]_vars
-----------------------------------------------------------------------------
\* What each parser whose grammar takes the statement reads in it.
Readings(fb) ==
    {fb} \cup (IF pgAccepts(stmt) THEN {pgparser(stmt, fb)} ELSE {})
         \cup (IF mysqlAccepts(stmt) THEN {mysqlparser(stmt, fb)} ELSE {})

\* A WHERE and a LIMIT that bound the statement's rows (Statement.HasWhere).
Bounded ==
    IF IsSelect
    THEN [where |-> \E c \in Clauses(RowSources(query)) : c.where # << >>,
          limit |-> \E q \in RowSources(query) : hasRowLimit(q)]
    ELSE [where |-> stmt.where # << >>, limit |-> stmt.limit]

\* Where the fallback takes a row source for something else: in parentheses that
\* follow another, a WITH clause, or a comma of a nested FROM; and everywhere
\* when the UPDATE of a FOR UPDATE after a WITH hides the kind.
Hidden(fb) ==
    LET t == unwrapStatementParens(text)
        d == Depths(t)
    IN  \/ fb.Kind # stmt.kind
        \/ \E i \in 1 .. Len(t) - 1 :
             t[i + 1] = "(" /\ (t[i] \in {"(", ")"} \/ (t[i] = "," /\ d[i] > 0))

\* What bounds the rows of a SELECT, an UPDATE or a DELETE is told from what
\* bounds a subquery, at any depth and in every parser, except where it is
\* hidden, and then it is only missed (fallback.go: scopedBounds,
\* opensRowSource; pgparser.go, mysqlparser.go: keepFallbackBounds).
BoundsExact ==
    IsSelect \/ IsChange =>
      LET fb == ParseText(text)
      IN  \A st \in {st \in Readings(fb) : st.Kind = stmt.kind} :
            /\ st.HasWhere => Bounded.where
            /\ st.HasLimit => Bounded.limit
            /\ Hidden(fb) \/ [where |-> st.HasWhere, limit |-> st.HasLimit] = Bounded

Sizes(parts) == {CASE p.is = "inList" -> 2 [] p.is = "inOne" -> 1 [] OTHER -> 0 : p \in parts}
Uses(words) == \E p \in Predicates(stmt) : p.is \in words

\* Several sources in one FROM of the statement's own, joined as how says.
Joins(how) ==
    {c \in Clauses(Results(query)) : Len(c.from) > 1 /\ c.joined \in how}

\* A SELECT of its own: nothing around it and nothing beside it.
Single == IsClause /\ query.with = << >>

\* The facts that no tree tells are those of the statement, whatever is nested in
\* it: an ORDER BY counts only where it sorts the result, a join only in a FROM of
\* its own, every IN list and pattern wherever it is (fallback.go: detectKind,
\* hasTopLevelOrderBy, hasImplicitCommaJoin, hasCartesianJoin, maxInListLen,
\* hasNonSargablePredicate, hasUnsafeAddNotNull, insertColumnsListed).
FactsExact ==
    LET fb == ParseText(text)
        words == ToSet(text)
        differs == \E c \in Clauses(Results(query)) : Part("differs") \in ToSet(c.items)
    IN  /\ ~{"WITH", "FOR"} \subseteq words =>
             fb.Kind = IF stmt.kind = "alter" THEN "other" ELSE stmt.kind
        /\ IsSelect =>
             /\ fb.HasOrderBy => Sorted(query)
             /\ Sorted(query) /\ ~fb.HasOrderBy =>
                  \E q \in Results(query) : q.body.is = "paren" /\ q # Select(q.body)
        /\ fb.MaxInListLen = Max(Sizes(Predicates(stmt)) \cup {0})
        /\ fb.LeadingWildcardLike = Uses({"wildcard", "longWildcard"})
        /\ fb.LeadingWildcardTermLen = 2 <=> Uses({"longWildcard"})
        /\ fb.NonSargablePredicate => Uses({"function"})
        /\ Single /\ Uses({"function"}) /\ Subqueries(query) = {} /\ DerivedTables(query) = {} =>
             fb.NonSargablePredicate \/ Part("filter") \in ToSet(query.body.items)
        /\ IsSelect =>
             /\ fb.ImplicitCommaJoin => Joins({"comma"}) # {} \/ differs
             /\ fb.CartesianJoin =>
                  \/ differs
                  \/ \E c \in Joins({"comma", "cross"}) : c.where = << >>
             /\ Single /\ Joins({"comma"}) # {} => fb.ImplicitCommaJoin
             /\ Single /\ Joins({"comma", "cross"}) # {} /\ query.body.where = << >>
                  /\ "ON" \notin words => fb.CartesianJoin
        /\ stmt.kind = "insert" /\ fb.Kind = "insert" =>
             \/ fb.InsertColumnsListed = (stmt.columns \/ stmt.rows = "default")
             \/ stmt.rows = "query" /\ stmt.query[1].body.is # "clause"
        /\ fb.AddNotNullNoDefault =
             (/\ stmt.kind = "alter"
              /\ \E a \in ToSet(stmt.actions) : a.adds = "column" /\ a.notNull /\ ~a.default)

\* What the statement's own rows are made of.
Structure(s) ==
    LET q == IF s.kind = "insert" THEN s.query[1] ELSE s.query
        own == Clauses(Results(q))
    IN  [HasFrom |-> \E c \in own : c.from # << >>,
         SelectStar |-> \E c \in own : Part("star") \in ToSet(c.items),
         SelectDistinct |-> \E c \in own : c.distinct,
         HasOrderBy |-> Sorted(q),
         OffsetValue |-> Max({offsetValue(r) : r \in Results(q)})]

\* A dialect parser tells the structure of the statement and adds no finding to
\* the fallback's but for four: a star that is not the first item, an ORDER BY in
\* parentheses, rows in parentheses, and a kind the fallback takes for another
\* (pgparser.go, mysqlparser.go: Parse; website/docs/parsers.md:95).
ParsersAgree ==
    LET fb == ParseText(text)
    IN  \A st \in Readings(fb) \ {fb} :
          /\ IsSelect => \A f \in DOMAIN Structure(stmt) : st[f] = Structure(stmt)[f]
          /\ stmt.kind = "insert" /\ stmt.rows = "query" =>
               st.SelectStar = Structure(stmt).SelectStar
          /\ \A rule \in Findings(st) \ Findings(fb) :
               \/ fb.Kind # stmt.kind
               \/ rule = "select-star" /\ \E c \in Clauses(SelectsOf(stmt)) : c.items[1] # Part("star")
               \/ rule = "orderby-without-limit" /\ query.body.is = "paren"
               \/ rule = "insert-without-columns" /\ stmt.query[1].body.is # "clause"
=============================================================================
