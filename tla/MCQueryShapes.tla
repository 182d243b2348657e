--------------------------- MODULE MCQueryShapes ---------------------------
EXTENDS QueryShapes

\* What bounds rows, and what it can be nested in.
Bounds == {"equals", "limit", "derived", "comma", "inQuery", "distinctFrom", "subquery", "cte",
           "paren", "UNION"}

\* The other words that may be before a parenthesis.
Openers == {"equals", "limit", "derived", "lateral", "on", "scalar", "materialized", "filter",
            "UNION", "ALL", "EXCEPT"}

\* What the facts of one SELECT are read from.
Facts == {"star", "extract", "filter", "window", "countDistinct", "differs", "distinct", "fromless",
          "comma", "cross", "on", "natural", "equals", "function", "valueFunction", "inList", "inOne",
          "wildcard", "longWildcard", "order", "limit", "offset", "comma-limit", "lock"}

\* The facts that nesting can confuse.
Nested == {"star", "distinct", "comma", "function", "inOne", "inList", "order", "limit", "offset", "lock",
           "derived", "inQuery", "scalar", "exists", "cte", "paren", "UNION", "EXCEPT"}

Changes == {"star", "equals", "function", "order", "limit", "lock", "cte", "paren", "UNION", "inQuery",
            "INSERT", "REPLACE", "UPSERT", "update", "delete"}

Altering == {"alter"}

MCVocabularies == {Bounds, Openers, Facts, Nested, Changes, Altering}
MCMaxEdits == [v \in MCVocabularies |-> IF v = Bounds THEN 4 ELSE 3]
=============================================================================
