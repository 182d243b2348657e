--------------------------- MODULE MCInterception ---------------------------
(***************************************************************************)
(* Instances of Interception for TLC.  With a threshold of two ticks and a *)
(* clock up to three, the database or a Check can take less than, exactly   *)
(* or more than the threshold.                                             *)
(***************************************************************************)
EXTENDS Interception, TLC

CONSTANTS t1, t2

MCThread == {t1, t2}
MCSurfaces == Surface

Symmetry == Permutations(MCThread)
=============================================================================
