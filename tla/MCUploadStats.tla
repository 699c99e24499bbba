--------------------------- MODULE MCUploadStats ---------------------------
EXTENDS UploadStats, TLC

CONSTANTS h1, h2, h3

\* Two peers accept the upload, one rejects it.
MCHosts == {h1, h2, h3}
MCAnswer == (h1 :> "accept") @@ (h2 :> "accept") @@ (h3 :> "already_exists")
MCReasons == {"already_exists"}
=============================================================================
