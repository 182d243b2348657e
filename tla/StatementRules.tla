-------------------------- MODULE StatementRules --------------------------
(***************************************************************************)
(* The rules over a Statement (analyzer/rules.go): the names of those that *)
(* find something in st, under the settings of the three that have one.    *)
(***************************************************************************)
EXTENDS Naturals

CONSTANTS
    MinLength,  \* leading-wildcard: the shortest term worth reporting
    MaxLength,  \* in-list-too-large: the longest list that is not
    Threshold   \* large-offset: the largest offset that is not

ASSUME SettingsAssumption == {MinLength, MaxLength, Threshold} \subseteq Nat

Finds(st) ==
    [rule \in {"select-star", "leading-wildcard", "delete-without-where", "update-without-where",
               "insert-without-columns", "select-without-limit", "orderby-without-limit",
               "non-sargable-predicate", "add-not-null-without-default", "implicit-join",
               "cartesian-join", "in-list-too-large", "large-offset", "select-distinct"} |->
       CASE rule = "select-star"            -> st.SelectStar
         [] rule = "leading-wildcard"       ->
              /\ st.LeadingWildcardLike
              /\ st.LeadingWildcardTermLen > 0 => st.LeadingWildcardTermLen >= MinLength
         [] rule = "delete-without-where"   -> st.Kind = "delete" /\ ~st.HasWhere
         [] rule = "update-without-where"   -> st.Kind = "update" /\ ~st.HasWhere
         [] rule = "insert-without-columns" -> st.Kind = "insert" /\ ~st.InsertColumnsListed
         [] rule = "select-without-limit"   ->
              st.Kind = "select" /\ st.HasFrom /\ ~st.HasLimit /\ ~st.HasWhere
         [] rule = "orderby-without-limit"  -> st.HasOrderBy /\ ~st.HasLimit
         [] rule = "non-sargable-predicate" -> st.NonSargablePredicate
         [] rule = "add-not-null-without-default" -> st.AddNotNullNoDefault
         [] rule = "implicit-join"          -> st.ImplicitCommaJoin
         [] rule = "cartesian-join"         -> st.CartesianJoin
         [] rule = "in-list-too-large"      -> st.MaxInListLen > MaxLength
         [] rule = "large-offset"           -> st.OffsetValue > Threshold
         [] rule = "select-distinct"        -> st.SelectDistinct]

Findings(st) == {rule \in DOMAIN Finds(st) : Finds(st)[rule]}
=============================================================================
