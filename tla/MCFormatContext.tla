---------------------------- MODULE MCFormatContext ----------------------------
(* Two files that do not fit into the ring of two slots. *)
EXTENDS FormatContext, TLC

MCLength == 0 :> 3 @@ 1 :> 3
=============================================================================
