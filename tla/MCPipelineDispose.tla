------------------------- MODULE MCPipelineDispose -------------------------
(* The disposal of a pipeline with up to MaxMessages messages in its bus.  *)
EXTENDS PipelineDispose
=============================================================================
