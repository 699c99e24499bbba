---------------------------- MODULE MCMetadata ----------------------------
(* Model-checking instance of Metadata: one append-only and one replaceable *)
(* path, two images, a verifying and a non-verifying signature.            *)
EXTENDS Metadata

CONSTANTS p1, p2, i1, i2

MCVPaths == {p1, p2}
MCAppendOnly == {p1}
MCImages == {i1, i2}
MCSigs == {1, 2}
MCGoodSigs == {1}
MCTimestamps == {1, 2}

MCSymmetry == Permutations(MCImages)
=============================================================================
