---------------------------- MODULE MCCleanup ----------------------------
(* Model-checking instance of Cleanup: an auto_clean base dir d1 with two  *)
(* paths (p2 on its keep list), a base dir d2 that is not auto-cleaned,    *)
(* two images; index GC is due after one deletion.                         *)
EXTENDS Cleanup, TLC

CONSTANTS d1, d2, p1, p2, p3, i1, i2

MCBaseDirs == {d1, d2}
MCAutoClean == {d1}
MCDirPaths == (d1 :> {p1, p2}) @@ (d2 :> {p3})
MCKeepList == {p2}
MCImages == {i1, i2}

MCSymmetry == Permutations(MCImages)
=============================================================================
