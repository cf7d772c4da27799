------------------------ MODULE MCGPUResourceThread ------------------------
(* GPUResourceThread for TLC: the two clients are model values; each makes  *)
(* two requests, enough for one to be in process, one queued, and one of    *)
(* the loader's to arrive on either side of the shutdown.                   *)
EXTENDS GPUResourceThread
=============================================================================
