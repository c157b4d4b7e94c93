------------------------- MODULE MCSubscriptions -------------------------
(* Small instances of Subscriptions: no symmetry, since the run has a      *)
(* liveness property.                                                      *)
EXTENDS Subscriptions
=============================================================================
