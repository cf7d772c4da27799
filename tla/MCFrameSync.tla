----------------------------- MODULE MCFrameSync -----------------------------
(* Three slots (kMaxFramesInFlight) and eight frames: every slot is used again *)
(* at least once, with frames of one command buffer (during the load) and two. *)
EXTENDS FrameSync

MCPassGroups == <<"Offscreen", "UI">>
=============================================================================
