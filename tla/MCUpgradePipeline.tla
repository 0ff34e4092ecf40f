------------------------- MODULE MCUpgradePipeline -------------------------
(* Two runners, two items, the JSON ledger. *)
EXTENDS UpgradePipeline
=============================================================================
