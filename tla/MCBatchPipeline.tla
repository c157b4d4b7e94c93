------------------------- MODULE MCBatchPipeline -------------------------
(* Small instances of BatchPipeline. Registry rows 2 and 3 are one vendor  *)
(* set registered twice.                                                   *)
EXTENDS BatchPipeline

MCUidOf == [s \in Registry |-> IF s = 3 THEN 2 ELSE s]
=============================================================================
