-------------------------- MODULE MCTransformUploads --------------------------
(* Three entities over buffers and a mirror of one slot: both grow twice, from *)
(* one to two and from two to four, the buffer also from one straight to three *)
(* entities. Two moves can touch one entity twice or two entities.             *)
EXTENDS TransformUploads
=============================================================================
