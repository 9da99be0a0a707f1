----------------------------- MODULE VideoQueueImpl -----------------------------
(***************************************************************************)
(* The ring of VideoQueue implements the seekable channel of VideoChannel. *)
(***************************************************************************)
EXTENDS VideoQueue, Sequences

(* The packets between the read and the write position, oldest first. *)
RingContents ==
  [k \in 1 .. (m_nPacket - (IF Holding THEN 1 ELSE 0)) |-> m_pkt[SlotAt(First, k - 1)]]

ChannelMode ==
  IF crossed THEN "broken" ELSE IF Flushing THEN "flushing" ELSE "open"

ConsumerState ==
  IF s_pc = "take" THEN "taking"
  ELSE IF s_pc = "hold" THEN "sending"
  ELSE IF s_pc \in {"pos", "load", "count"} THEN "returning" ELSE "idle"

(* The channel has contents only while it is open. *)
ChannelContents == IF ChannelMode = "open" THEN RingContents ELSE <<>>
ChannelSent     == IF ChannelMode = "open" THEN puts ELSE 0
ChannelHeld     == IF ChannelMode = "open" THEN s_pkt ELSE NoPacket

Channel == INSTANCE VideoChannel WITH
  Capacity <- NSlots,
  mode     <- ChannelMode,
  point    <- m_start_pts,
  chan     <- ChannelContents,
  sent     <- ChannelSent,
  consumer <- ConsumerState,
  held     <- ChannelHeld

(* Between two seeks the sender takes, in order and once each, the packets *)
(* the demuxer put; PutVideo never needs more room than the ring has; and  *)
(* a seek leaves nothing behind -- all of it as long as Clear does not     *)
(* overlap a GetVideo .. RetVideo of the sender thread.                    *)
ImplementsChannel == Channel!Spec

-----------------------------------------------------------------------------
(* Every packet of the recording that is put is also taken, provided the   *)
(* last Clear did not overlap a GetVideo .. RetVideo: neither the unlocked *)
(* test of m_bEnable nor the unlocked test of the fill level leaves the    *)
(* two threads waiting on each other.                                      *)
Delivery == <>[](crossed \/ (d_pc = "done" /\ Live = 0))

=============================================================================
