-------------------------- MODULE MCMaterialUpdates --------------------------
(* A material in the global buffer and one with a buffer of its own, one    *)
(* texture property, two textures. The loader makes three calls: a value, a *)
(* texture and the value that follows it, in any order.                     *)
EXTENDS MaterialUpdates
=============================================================================
