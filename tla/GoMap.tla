-------------------------------- MODULE GoMap --------------------------------
(***************************************************************************)
(* Go's built-in map, as a function whose DOMAIN is the set of present     *)
(* keys.  The middleware keeps three of them behind mutexes: the deduper's *)
(* `seen`, the query tracker's `queries` and the analysis cache's `items`. *)
(***************************************************************************)
EXTENDS FiniteSets, Functions

EmptyMap == [k \in {} |-> k]

\* len(m)
Size(m) == Cardinality(DOMAIN m)

\* m[k] = v
Put(m, k, v) == [j \in DOMAIN m \cup {k} |-> IF j = k THEN v ELSE m[j]]

\* delete(m, k)
Delete(m, k) == Restrict(m, DOMAIN m \ {k})
=============================================================================
