------------------------------- MODULE MCDisk -------------------------------
(* Two images of one path: i1 spans slots b1 and b2, i2 only b1, so a     *)
(* stale or late block of i1 can land where i2 is assembled.              *)
EXTENDS Disk

CONSTANTS i1, i2, b1, b2

MCImages == {i1, i2}
MCBlocks == {b1, b2}
MCManifest == (i1 :> {b1, b2}) @@ (i2 :> {b1})
=============================================================================
