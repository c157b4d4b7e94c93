------------------------- MODULE MCProviderSlot -------------------------
(* One essential job and two bulk jobs, one of a capped class. A tick is   *)
(* about 200 seconds: 610 and 900 seconds are 3 or 4 and 5 ticks.          *)
EXTENDS ProviderSlot

MCClassOf == [c \in Callers |-> CASE c = "refresh"  -> "categories"
                                  [] c = "sets"     -> "backfill"
                                  [] c = "rotation" -> "tier3"
                                  [] OTHER          -> NoClass]
MCEntitlement == [k \in Classes |-> IF k = "tier3" THEN Uncapped ELSE 1]
=============================================================================
