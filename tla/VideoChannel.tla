------------------------------ MODULE VideoChannel ------------------------------
(***************************************************************************)
(* What CQueue (src/queue.cpp) promises the demuxer and the sender about   *)
(* video: a bounded first-in first-out channel that a seek empties.        *)
(* VideoQueueImpl shows that the queue of VideoQueue implements it.        *)
(*                                                                         *)
(* The channel is "open" between two seeks and "flushing" while the        *)
(* demuxer empties it. It keeps its promise as long as the consumer is not *)
(* inside a GetVideo .. RetVideo during the flush; once it is, the channel *)
(* is "broken" and promises nothing until the next flush that meets an     *)
(* idle consumer.                                                          *)
(***************************************************************************)
EXTENDS Integers, Sequences

CONSTANTS
  Capacity,  \* packets the channel can hold, the consumer's one included
  NoPacket

VARIABLES
  mode,      \* "open", "flushing" or "broken"
  point,     \* the seek the packets belong to
  chan,      \* packets put and not yet taken
  sent,      \* packets put since the flush
  consumer,  \* where the consumer is between finding a packet and giving it back
  held       \* the packet the consumer is sending

chanVars == <<mode, point, chan, sent, consumer, held>>

ConsumerStates == {"idle", "taking", "sending", "returning"}

(* A packet counts against the capacity until the consumer has given it back. *)
InUse == Len(chan) + (IF consumer \in {"sending", "returning"} THEN 1 ELSE 0)

Init ==
  /\ mode = "open" /\ point = 0
  /\ chan = <<>> /\ sent = 0
  /\ consumer = "idle" /\ held = NoPacket

Put ==
  /\ mode = "open"
  /\ InUse < Capacity
  /\ sent' = sent + 1
  /\ chan' = Append(chan, [seek |-> point, no |-> sent'])
  /\ UNCHANGED <<mode, point, consumer, held>>

(* GetVideo finds a packet ... *)
Find ==
  /\ mode = "open" /\ consumer = "idle"
  /\ chan # <<>>
  /\ consumer' = "taking"
  /\ UNCHANGED <<mode, point, chan, sent, held>>

(* ... and takes the oldest one. *)
Take ==
  /\ mode = "open" /\ consumer = "taking"
  /\ held' = Head(chan) /\ chan' = Tail(chan)
  /\ consumer' = "sending"
  /\ UNCHANGED <<mode, point, sent>>

(* RetVideo releases the packet ... *)
Release ==
  /\ mode = "open" /\ consumer = "sending"
  /\ held' = NoPacket
  /\ consumer' = "returning"
  /\ UNCHANGED <<mode, point, chan, sent>>

(* ... and then counts its slot free. *)
Return ==
  /\ mode = "open" /\ consumer = "returning"
  /\ consumer' = "idle"
  /\ UNCHANGED <<mode, point, chan, sent, held>>

(* A seek drops what is in the channel. *)
BeginFlush ==
  /\ mode \in {"open", "broken"}
  /\ mode' = IF consumer = "idle" THEN "flushing" ELSE "broken"
  /\ chan' = <<>> /\ sent' = 0 /\ held' = NoPacket
  /\ UNCHANGED <<point, consumer>>

EndFlush ==
  /\ mode = "flushing" /\ consumer = "idle"
  /\ point' > point
  /\ mode' = "open"
  /\ UNCHANGED <<chan, sent, consumer, held>>

(* The consumer finds a packet of the old seek during the flush. *)
Overrun ==
  /\ mode = "flushing" /\ consumer = "idle"
  /\ mode' = "broken" /\ consumer' = "taking"
  /\ UNCHANGED <<point, chan, sent, held>>

(* A broken channel promises only that the seek point does not go back. *)
Broken ==
  /\ mode = "broken" /\ mode' = "broken"
  /\ point' >= point
  /\ consumer' \in ConsumerStates
  /\ UNCHANGED <<chan, sent, held>>

Next ==
  \/ Put \/ Find \/ Take \/ Release \/ Return
  \/ BeginFlush \/ EndFlush \/ Overrun \/ Broken

Spec == Init /\ [][Next]_chanVars

=============================================================================
