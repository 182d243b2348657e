--------------------------- MODULE MCFindingDedup ---------------------------
(***************************************************************************)
(* Instances of FindingDedup for TLC.  Two goroutines are enough for one   *)
(* to overtake the other between reading the clock and locking; three      *)
(* findings overflow a map of two entries; Window = 2 with a clock up to 4 *)
(* lets an entry expire while another is live.                             *)
(***************************************************************************)
EXTENDS FindingDedup

CONSTANTS t1, t2, a, b, c

MCThread == {t1, t2}
MCKey == {a, b, c}
MCBatches == {<<a>>, <<b>>, <<c, a>>}
=============================================================================
