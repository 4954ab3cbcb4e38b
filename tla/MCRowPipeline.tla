--------------------------- MODULE MCRowPipeline ---------------------------
(* RowPipeline on small instances.                                         *)
EXTENDS RowPipeline
=============================================================================
