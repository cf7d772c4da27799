-------------------------- MODULE MCPipelineManager --------------------------
(* One shader pair used in two render passes, so that two keys share a      *)
(* layout; a material without shaders; a compute target. Two workers.       *)
EXTENDS PipelineManager, TLC

CONSTANTS lit, shadow, none, phong, blur

MCShaders == (lit :> phong) @@ (shadow :> phong)
=============================================================================
