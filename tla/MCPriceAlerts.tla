--------------------------- MODULE MCPriceAlerts ---------------------------
(* All alerts watch one item.                                              *)
EXTENDS PriceAlerts

MCItemOf == [a \in Alerts |-> CHOOSE i \in Items : TRUE]
=============================================================================
