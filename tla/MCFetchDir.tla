---------------------------- MODULE MCFetchDir ----------------------------
(* Model-checking instance of FetchDir: two images, up to four calls.     *)
EXTENDS FetchDir, TLC

CONSTANTS i1, i2

MCImages == {i1, i2}
MCSymmetry == Permutations(MCImages)
=============================================================================
