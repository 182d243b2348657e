------------------------------- MODULE LruList -------------------------------
(***************************************************************************)
(* The container/list the analysis cache (middleware/cache.go) keeps its   *)
(* entries in, most recently used first, as a sequence without duplicates. *)
(***************************************************************************)
EXTENDS Integers, Sequences

Elements(s) == {s[i] : i \in DOMAIN s}

NoDuplicates(s) == \A i, j \in DOMAIN s : s[i] = s[j] => i = j

\* ll.PushFront(k)
PushFront(s, k) == <<k>> \o s

\* ll.MoveToFront(k), for an element k of the list: those before it move back.
MoveToFront(s, k) ==
    LET at == CHOOSE i \in DOMAIN s : s[i] = k
    IN  [i \in 1 .. Len(s) |-> IF i = 1 THEN k
                               ELSE IF i <= at THEN s[i - 1] ELSE s[i]]

\* ll.Back()
Back(s) == s[Len(s)]

\* ll.Remove(ll.Back())
RemoveBack(s) == SubSeq(s, 1, Len(s) - 1)

\* The list after k was used, whether or not it was in it.
Touch(s, k) == IF k \in Elements(s) THEN MoveToFront(s, k) ELSE PushFront(s, k)

\* Its n most recently used elements.
Recent(s, n) == SubSeq(s, 1, IF Len(s) <= n THEN Len(s) ELSE n)
=============================================================================
