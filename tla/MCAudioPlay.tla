----------------------------- MODULE MCAudioPlay -----------------------------
(* Three files, the last one shorter. *)
EXTENDS AudioPlay, TLC

MCLength == 0 :> 2 @@ 1 :> 2 @@ 2 :> 1
=============================================================================
