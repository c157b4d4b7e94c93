------------------------- MODULE MCBackfillRun -------------------------
(* Sets of one tier: any of them may come first.                           *)
EXTENDS BackfillRun

MCTier == [s \in Sets |-> 1]
=============================================================================
