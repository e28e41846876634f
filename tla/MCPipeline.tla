------------------------------ MODULE MCPipeline ------------------------------
(* Model-checking instance of Pipeline: the constants are in MCPipeline.cfg. *)
EXTENDS Pipeline
=============================================================================
