------------------------------ MODULE MCPipeline ------------------------------
(* A first frequency in the band, a channel outside it, and two rates.     *)
EXTENDS PipelineProperties
=============================================================================
