------------------------------- MODULE MCGuard -------------------------------
(***************************************************************************)
(* Instances of Guard for TLC, on MySQL.  q1 and q2 have the same          *)
(* fingerprint, but only q1 a finding: q2 has a longer list, and a literal *)
(* between double quotes, which without a dialect passes for a name.  q3   *)
(* has another fingerprint, which the tracker has no room for while the    *)
(* first is live.                                                          *)
(***************************************************************************)
EXTENDS Guard, TLC

CONSTANTS t1, t2, q1, q2, q3, one, two, named, else, shape, apart, other, star

MCThread == {t1, t2}
MCRule == {star}
MCQuery == {q1, q2, q3}
MCRules == q1 :> <<star>> @@ q2 :> << >> @@ q3 :> << >>
MCRedacted == {one, two, named, else}
MCRedact ==
    [mysql   |-> q1 :> one @@ q2 :> two @@ q3 :> else,
     unknown |-> q1 :> one @@ q2 :> named @@ q3 :> else]
MCFingerprint == {shape, apart, other}
MCFold == one :> shape @@ two :> shape @@ named :> apart @@ else :> other
MCCacheSizes == {1}
MCProfiles == {[n1 |-> TRUE, slow |-> TRUE], [n1 |-> FALSE, slow |-> FALSE]}
=============================================================================
