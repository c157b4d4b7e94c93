------------------------- MODULE MCCatalogWriter -------------------------
(* Two products, each a sub-batch of its own; the two metadata values have *)
(* different browse keys. Prices and metadata are only compared, so what   *)
(* the first file says may be fixed; the second says the same or something *)
(* else of each column of product 1, and of product 2 as a whole.          *)
EXTENDS CatalogWriter

CONSTANTS p1, p2, m1, m2

MCKeyOf == [m \in Metas |-> m]
MCSubBatches == <<{1}, {2}>>
MCOneSubBatch == <<{1}>>
MCContents == {c \in [Files -> [Ids -> Row]] :
                 /\ \A id \in Ids : c[1][id] = [price |-> p1, meta |-> m1]
                 /\ \A id \in Ids \ {1} : c[2][id].price = p1 <=> c[2][id].meta = m1}
=============================================================================
