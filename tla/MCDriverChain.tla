--------------------------- MODULE MCDriverChain ---------------------------
(***************************************************************************)
(* Instances of DriverChain for TLC.  Two goroutines share a pool of three *)
(* connections, one of which may idle; the base drivers are the kinds met  *)
(* in practice and the ones at the edges.                                  *)
(***************************************************************************)
EXTENDS DriverChain, TLC

CONSTANTS t1, t2, c1, c2, c3

MCThread == {t1, t2}
MCConn == {c1, c2, c3}

Base(direct, stmt, connArgs, stmtArgs, modern) ==
    [direct |-> direct, stmt |-> stmt, connArgs |-> connArgs,
     stmtArgs |-> stmtArgs, prepare |-> IF modern THEN "ctx" ELSE "legacy",
     ping |-> modern, beginTx |-> modern, pooled |-> modern]

MCCapabilities ==
    { Base("ctx", "ctx", TRUE, TRUE, TRUE),
      Base("ctx", "ctx", TRUE, FALSE, TRUE),
      Base("legacy", "legacy", FALSE, FALSE, FALSE),
      Base("none", "ctx", FALSE, TRUE, TRUE),
      Base("none", "legacy", TRUE, FALSE, FALSE) }

\* The context of a plain call may be cancelled.
Op(kind, args, readOnly) ==
    [kind |-> kind, args |-> args, readOnly |-> readOnly, cancels |-> args = "plain" /\ ~readOnly /\ kind # "ping"]

MCOperations ==
    { Op(kind, args, FALSE) : kind \in {"query", "stmt"}, args \in {"plain", "special"} }
    \cup { Op("query", "named", FALSE) }
    \cup { Op("ping", "plain", FALSE) }
    \cup { Op("begin", "plain", readOnly) : readOnly \in BOOLEAN }

MCPing == { Op("ping", "plain", FALSE) }

Symmetry == Permutations(MCConn) \cup Permutations(MCThread)
=============================================================================
