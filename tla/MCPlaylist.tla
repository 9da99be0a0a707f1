------------------------------ MODULE MCPlaylist ------------------------------
(* An instance of Playlist for TLC: three files of unequal length, the      *)
(* second one starting in the middle of a second.                           *)
EXTENDS Playlist, TLC

MCLength == 0 :> 3 @@ 1 :> 2 @@ 2 :> 3
=============================================================================
