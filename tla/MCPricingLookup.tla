------------------------- MODULE MCPricingLookup -------------------------
(* Small instances of PricingLookup: no symmetry, since the run has a      *)
(* liveness property.                                                      *)
EXTENDS PricingLookup
MCChain == <<"kicksdb", "pricecharting">>
MCRequests == [p \in {"kicksdb", "pricecharting"} |-> IF p = "kicksdb" THEN 2 ELSE 1]
=============================================================================
