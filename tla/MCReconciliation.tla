------------------------- MODULE MCReconciliation -------------------------
(* Model-checking instance of Reconciliation: two peers; the base dir has   *)
(* the append-only subdir p1 and the replaceable subdir p2.  S1 and S2      *)
(* hold different images of p2; S3 also holds p1, whose last signature     *)
(* does not verify although an earlier one does.                           *)
EXTENDS Reconciliation, TLC

CONSTANTS p1, p2, i1, i2, a, b

MCVPaths == {p1, p2}
MCAppendOnly == {p1}
MCImages == {i1, i2}
MCSigs == {1, 2}
MCGoodSigs == {1}
MCTimestamps == {1, 2}
MCPeers == {a, b}

S1 == p2 :> [image |-> i1, signatures |-> << <<2, 1>> >>]
S2 == p2 :> [image |-> i2, signatures |-> << <<1, 1>> >>]
S3 == (p1 :> [image |-> i1, signatures |-> << <<1, 1>>, <<2, 2>> >>])
      @@ (p2 :> [image |-> i1, signatures |-> << <<2, 1>> >>])
MCRemoteStates == {S1, S2, S3}

MCSymmetry == Permutations(MCPeers)
=============================================================================
