--------------------------- MODULE MCAnalysisCache ---------------------------
(***************************************************************************)
(* Instance of AnalysisCache for TLC.  q1 and q2 have one fingerprint but  *)
(* different findings (they differ in a literal), q3 has none.  Three      *)
(* queries overflow a cache of two entries and fit in one of three.        *)
(***************************************************************************)
EXTENDS AnalysisCache, TLC

CONSTANTS t1, t2, q1, q2, q3, f

MCThread == {t1, t2}
MCQuery == {q1, q2, q3}
MCFindings == q1 :> <<f>> @@ q2 :> << >> @@ q3 :> << >>
MCShape == q1 :> q1 @@ q2 :> q1 @@ q3 :> q3
MCNoFindings == << >>
MCCapacities == 0 .. 3
=============================================================================
