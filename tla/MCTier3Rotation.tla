------------------------- MODULE MCTier3Rotation -------------------------
(* Small registries for the model checker.                                 *)
EXTENDS Tier3Rotation
=============================================================================
