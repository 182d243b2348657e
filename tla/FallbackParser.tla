-------------------------- MODULE FallbackParser --------------------------
(***************************************************************************)
(* FallbackParser.Parse (analyzer/fallback.go): the facts the rules need,  *)
(* read from the words of a statement.  Its regular expressions are over   *)
(* the tokens of SqlStatements, comments gone and literals blanked.        *)
(***************************************************************************)
EXTENDS SqlStatements

Span(lo, hi) == [lo |-> lo, hi |-> hi]
FirstAfter(t, i, words) == Min({j \in i .. Len(t) : t[j] \in words} \cup {Len(t) + 1})

\* parenDepthBefore at each place, never below zero.
Depths(t) ==
    LET upTo[i \in 0 .. Len(t)] ==
            IF i = 0 THEN <<0>>
            ELSE LET before == upTo[i - 1]
                     d == before[i]
                 IN  Append(before, CASE t[i] = "(" -> d + 1
                                      [] t[i] = ")" /\ d > 0 -> d - 1
                                      [] OTHER -> d)
    IN  upTo[Len(t)]

topLevelMatches(t, words) ==
    LET d == Depths(t) IN {i \in DOMAIN t : t[i] \in words /\ d[i] = 0}

splitTopLevelCommas(t) ==
    LET cuts == topLevelMatches(t, {","}) \cup {0, Len(t) + 1}
        end(i) == Min({j \in cuts : j > i})
    IN  {Span(i + 1, end(i) - 1) : i \in cuts \ {Len(t) + 1}}

\* The end of the parenthesis that opens at i, 0 when nothing closes it.
parenContent(t, i) ==
    LET d == Depths(SubSeq(t, i, Len(t)))
        ends == {j \in i + 1 .. Len(t) : t[j] = ")" /\ d[j - i + 2] = 0}
    IN  IF ends = {} THEN 0 ELSE Min(ends)

RECURSIVE unwrapStatementParens(_)
unwrapStatementParens(t) ==
    IF t # << >> /\ t[1] = "(" /\ parenContent(t, 1) = Len(t)
    THEN unwrapStatementParens(SubSeq(t, 2, Len(t) - 1))
    ELSE t

fromRegionEnd == {"WHERE", "ORDER BY", "LIMIT", "OFFSET", "FOR", "UNION", "EXCEPT", "INTERSECT"}

fromRegions(t) ==
    {Span(i + 1, Min({e \in topLevelMatches(t, fromRegionEnd) : e > i} \cup {Len(t) + 1}) - 1) :
       i \in topLevelMatches(t, {"FROM"})}

\* The first top-level FROM clause, empty when there is none.
fromRegion(t) ==
    LET regions == fromRegions(t)
        first == CHOOSE r \in regions : \A s \in regions : r.lo <= s.lo
    IN  IF regions = {} THEN << >> ELSE SubSeq(t, first.lo, first.hi)
-----------------------------------------------------------------------------
insertVerbs == {"INSERT", "REPLACE", "UPSERT"}

\* The statement's verb, after any parentheses.
LeadWord(t) == SelectSeq(t, LAMBDA w : w # "(")[1]

detectKind(t) ==
    LET dml == FirstAfter(t, 1, {"INSERT", "UPDATE", "DELETE"})
        Kind(w) == CASE w \in insertVerbs -> "insert"
                     [] w = "UPDATE" -> "update"
                     [] w = "DELETE" -> "delete"
        lead == LeadWord(t)
    IN  CASE lead = "SELECT" -> "select"
          [] lead = "ALTER"  -> "other"
          [] lead = "WITH"   ->
               IF dml <= Len(t) THEN Kind(t[dml])
               ELSE IF FirstAfter(t, 1, insertVerbs) <= Len(t) THEN "insert" ELSE "select"
          [] OTHER -> Kind(lead)

\* What the last words of the prefix leave when they are words.
TrimWord(t, word) == IF t # << >> /\ Last(t) = word THEN Front(t) ELSE t
EndsIn(t, words) == t # << >> /\ Last(t) \in words

opensCTEBody(prefix) == EndsIn(TrimWord(TrimWord(prefix, "MATERIALIZED"), "NOT"), {"AS"})

BugOpensRowSource(prefix, inFrom) ==
    \/ prefix = << >>
    \/ inFrom /\ EndsIn(prefix, {","})
    \/ EndsIn(prefix, {"FROM", "JOIN", "LATERAL"})
    \/ EndsIn(TrimWord(TrimWord(prefix, "ALL"), "DISTINCT"), {"UNION", "INTERSECT", "EXCEPT"})
    \/ opensCTEBody(prefix)

\* A "(" after prefix opens a derived table, a CTE body or an operand.
opensRowSource(prefix, inFrom) ==
    \/ prefix = << >>
    \/ inFrom /\ EndsIn(prefix, {","})
    \/ EndsIn(prefix, {"FROM"}) /\ ~EndsIn(Front(prefix), {"DISTINCT"})
    \/ EndsIn(prefix, {"JOIN", "LATERAL"})
    \/ EndsIn(TrimWord(TrimWord(prefix, "ALL"), "DISTINCT"), {"UNION", "INTERSECT", "EXCEPT"})
    \/ opensCTEBody(prefix)

\* Whether a WHERE and a LIMIT are where every open parenthesis is a row source:
\* open holds, for each open one, whether it is not.
scopedBounds(tokens, kind) ==
    LET t == unwrapStatementParens(tokens)
        froms == IF kind = "select" THEN fromRegions(t) ELSE {}
        NotRowSource(i, open) ==
            \/ kind # "select"
            \/ ~opensRowSource(SubSeq(t, 1, i - 1),
                               open = << >> /\ \E f \in froms : i \in f.lo .. f.hi)
        scope[i \in 0 .. Len(t)] ==
            IF i = 0 THEN [open |-> << >>, where |-> FALSE, limit |-> FALSE]
            ELSE LET sc == scope[i - 1]
                     bounds == TRUE \notin ToSet(sc.open)
                 IN  CASE t[i] = "(" -> [sc EXCEPT !.open = Append(@, NotRowSource(i, sc.open))]
                       [] t[i] = ")" -> [sc EXCEPT !.open = IF @ = << >> THEN @ ELSE Front(@)]
                       [] t[i] = "WHERE" -> [sc EXCEPT !.where = @ \/ bounds]
                       [] t[i] = "LIMIT" -> [sc EXCEPT !.limit = @ \/ bounds]
                       [] OTHER -> sc
    IN  scope[Len(t)]

BugHasTopLevelOrderBy(t) == topLevelMatches(t, {"ORDER BY"}) # {}

hasTopLevelOrderBy(t) == topLevelMatches(unwrapStatementParens(t), {"ORDER BY"}) # {}

hasImplicitCommaJoin(t) == Cardinality(splitTopLevelCommas(fromRegion(t))) > 1

hasCartesianJoin(t) ==
    LET region == fromRegion(t)
    IN  /\ \/ Cardinality(splitTopLevelCommas(region)) > 1
           \/ topLevelMatches(region, {"JOIN"}) # {}
        /\ {"ON", "USING", "NATURAL"} \cap ToSet(region) = {}
        /\ topLevelMatches(t, {"WHERE"}) = {}

\* The largest IN list; a subquery is none.
maxInListLen(t) ==
    LET opens == {i \in DOMAIN t : i > 1 /\ t[i] = "(" /\ t[i - 1] = "IN"}
        body(i) == SubSeq(t, i + 1, parenContent(t, i) - 1)
        first(b) == SelectSeq(b, LAMBDA w : w # "(")[1]
        lists == {body(i) : i \in {i \in opens : first(body(i)) \notin {"SELECT", "WITH", "VALUES", "TABLE"}}}
    IN  Max({Cardinality(splitTopLevelCommas(b)) : b \in lists} \cup {0})

Number == [n \in {"1", "2"} |-> IF n = "1" THEN 1 ELSE 2]

\* The largest offset written as a number, in either form.
maxOffset(t) ==
    LET At(i) == IF i \in DOMAIN t THEN t[i] ELSE "end"
        standard == {i \in DOMAIN t : At(i - 1) = "OFFSET" /\ t[i] \in DOMAIN Number}
        mysql == {i \in DOMAIN t : /\ At(i - 1) = "LIMIT" /\ t[i] \in DOMAIN Number
                                   /\ At(i + 1) = "," /\ At(i + 2) \in DOMAIN Number}
    IN  Max({Number[t[i]] : i \in standard \cup mysql} \cup {0})

insertColumnsListed(t) ==
    LET head == IF t[1] \in insertVerbs THEN 1 ELSE FirstAfter(t, 1, {"INTO"})
        data == FirstAfter(t, head + 1, {"VALUES", "SELECT", "WITH", "TABLE", "SET", "DEFAULT"})
    IN  \/ head > Len(t) \/ data > Len(t)
        \/ t[data] \in {"SET", "DEFAULT"}
        \/ "(" \in ToSet(SubSeq(t, head + 1, data - 1))

whereRegionEnd == {"ORDER BY", "LIMIT", "OFFSET", "FOR"}

\* From the first WHERE to the next clause of its own level.
whereRegion(t) ==
    LET region == SubSeq(t, FirstAfter(t, 1, {"WHERE"}) + 1, Len(t))
        ends == topLevelMatches(region, whereRegionEnd)
    IN  IF ends = {} THEN region ELSE SubSeq(region, 1, Min(ends) - 1)

\* A word with letters: no literal, number or mark.
IsWord(w) == w \notin {"(", ")", ",", "=", "*", "lit", "?", "1", "2", "%1", "%2"}

\* name ( ... a name ... ) and a comparison, where name is no keyword.
hasNonSargablePredicate(t) ==
    LET r == whereRegion(t)
        call(i, j) == /\ r[i] = "(" /\ r[j] = ")"
                      /\ \A k \in i + 1 .. j - 1 : r[k] \notin {"(", ")"}
    IN  \E i \in 2 .. Len(r), j \in DOMAIN r :
          /\ i < j /\ j < Len(r) /\ call(i, j)
          /\ IsWord(r[i - 1]) /\ r[i - 1] \notin {"IN", "EXISTS", "AND", "NOT"}
          /\ r[j + 1] \in {"=", "LIKE", "IN"}
          /\ \E k \in i + 1 .. j - 1 : IsWord(r[k])

hasUnsafeAddNotNull(t) ==
    /\ IsPrefix(<<"ALTER", "TABLE">>, t)
    /\ \E p \in splitTopLevelCommas(t) :
         LET seg == SubSeq(t, p.lo, p.hi)
             add == FirstAfter(seg, 1, {"ADD"})
         IN  /\ add < Len(seg) /\ seg[add + 1] # "CHECK"
             /\ "NULL" \in ToSet(seg) /\ "DEFAULT" \notin ToSet(seg)

patterns(t) == {t[i] : i \in {i \in DOMAIN t : i > 1 /\ t[i - 1] = "LIKE"}}

ParseText(t) ==
    LET kind == detectKind(t)
        bounds == scopedBounds(t, kind)
        starred(i) == \/ t[i] = "SELECT" /\ t[i + 1] = "*"
                      \/ t[i] = "SELECT" /\ t[i + 1] = "DISTINCT" /\ t[i + 2] = "*"
    IN  [Kind |-> kind,
         HasWhere |-> bounds.where, HasLimit |-> bounds.limit,
         HasOrderBy |-> hasTopLevelOrderBy(t),
         HasFrom |-> "FROM" \in ToSet(t),
         SelectStar |-> \E i \in 1 .. Len(t) - 1 : starred(i),
         SelectDistinct |-> \E i \in 1 .. Len(t) - 1 : t[i] = "SELECT" /\ t[i + 1] = "DISTINCT",
         InsertColumnsListed |-> kind = "insert" /\ insertColumnsListed(t),
         LeadingWildcardLike |-> patterns(t) \cap {"%1", "%2"} # {},
         LeadingWildcardTermLen |-> IF "%2" \in patterns(t) THEN 2
                                    ELSE IF "%1" \in patterns(t) THEN 1 ELSE 0,
         NonSargablePredicate |-> hasNonSargablePredicate(t),
         AddNotNullNoDefault |-> hasUnsafeAddNotNull(t),
         ImplicitCommaJoin |-> hasImplicitCommaJoin(t),
         CartesianJoin |-> hasCartesianJoin(t),
         MaxInListLen |-> maxInListLen(t),
         OffsetValue |-> maxOffset(t),
         Exact |-> FALSE]
=============================================================================
