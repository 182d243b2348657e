--------------------------- MODULE MCQueryTracker ---------------------------
(***************************************************************************)
(* Instances of QueryTracker for TLC.  Three fingerprints overflow a map   *)
(* of two; a clock past one window lets a record expire, restart and be    *)
(* evicted; with Threshold = 3, six executions make two reports, and are   *)
(* more than the four that must be detected.                               *)
(* Goroutines and fingerprints are interchangeable, and every property     *)
(* checked under Symmetry is a safety property.                            *)
(***************************************************************************)
EXTENDS QueryTracker, TLC

CONSTANTS t1, t2, q1, q2, q3

MCThread == {t1, t2}
MCFingerprint == {q1, q2, q3}

Symmetry == Permutations(MCThread) \cup Permutations(MCFingerprint)
=============================================================================
