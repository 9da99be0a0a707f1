------------------------------- MODULE Bitstream -------------------------------
(***************************************************************************)
(* CSender::send_bitstream (src/sender.cpp): a frame is cut into datagrams, *)
(* each with the number of datagrams announced before the first is sent.   *)
(* A sendto may fail; CSender::Run goes on with the next frame.            *)
(***************************************************************************)
EXTENDS Integers, Sequences

CONSTANTS
  PACKET_SIZE,  \* bytes of a frame in one datagram
  Sizes         \* sizes of the frames (bound)

ASSUME BitstreamAssumption ==
  /\ PACKET_SIZE \in Nat \ {0}
  /\ Sizes \subseteq Nat \ {0}

VARIABLES
  call,          \* "idle", "loop", or how the last call returned: "sent", "failed"
  tot_size, tot_packet, cur_packet, remain,
  p,             \* offset of the next byte in the frame
  wire           \* the datagrams of this frame that were sent

streamVars == <<call, tot_size, tot_packet, cur_packet, remain, p, wire>>

Fragments(n) ==
  IF n % PACKET_SIZE = 0 THEN n \div PACKET_SIZE ELSE n \div PACKET_SIZE + 1

StreamInit ==
  /\ call = "idle"
  /\ tot_size = 0 /\ tot_packet = 0 /\ cur_packet = 1 /\ remain = 0 /\ p = 0
  /\ wire = <<>>

Call(size) ==
  /\ call \in {"idle", "sent", "failed"}
  /\ tot_size' = size /\ remain' = size
  /\ tot_packet' = Fragments(size)
  /\ cur_packet' = 1
  /\ p' = 0
  /\ wire' = <<>>
  /\ call' = "loop"

cur_size == IF remain > PACKET_SIZE THEN PACKET_SIZE ELSE remain

Fragment == [tot_size |-> tot_size, cur_size |-> cur_size, tot_packet |-> tot_packet,
             cur_packet |-> cur_packet, at |-> p]

SendDatagram ==
  /\ call = "loop" /\ remain > 0
  /\ wire' = Append(wire, Fragment)
  /\ remain' = remain - cur_size /\ p' = p + cur_size /\ cur_packet' = cur_packet + 1
  /\ UNCHANGED <<call, tot_size, tot_packet>>

(* A mutant: a datagram that was not sent does not end the call.           *)
SendFailsOn ==
  /\ call = "loop" /\ remain > 0
  /\ remain' = remain - cur_size /\ p' = p + cur_size /\ cur_packet' = cur_packet + 1
  /\ UNCHANGED <<call, tot_size, tot_packet, wire>>

SendFails ==
  /\ call = "loop" /\ remain > 0
  /\ call' = "failed"
  /\ UNCHANGED <<tot_size, tot_packet, cur_packet, remain, p, wire>>

SendReturns ==
  /\ call = "loop" /\ remain <= 0
  /\ call' = "sent"
  /\ UNCHANGED <<tot_size, tot_packet, cur_packet, remain, p, wire>>

StreamNext == (\E size \in Sizes : Call(size)) \/ SendDatagram \/ SendFails \/ SendReturns

StreamSpec == StreamInit /\ [][StreamNext]_streamVars

-----------------------------------------------------------------------------
StreamTypeOK ==
  /\ call \in {"idle", "loop", "sent", "failed"}
  /\ tot_size \in Nat /\ tot_packet \in Nat /\ cur_packet \in Nat \ {0}
  /\ remain \in Nat /\ p \in Nat
  /\ wire \in Seq([tot_size : Nat, cur_size : 0 .. PACKET_SIZE, tot_packet : Nat,
                   cur_packet : Nat, at : Nat])

(* What a receiver needs to put a frame together from any datagrams of it:  *)
(* each carries the total, is numbered by its place, and holds the bytes    *)
(* that belong there.                                                       *)
Placed ==
  \A k \in DOMAIN wire :
    /\ wire[k].tot_size = tot_size /\ wire[k].tot_packet = tot_packet
    /\ wire[k].cur_packet = k
    /\ wire[k].at = (k - 1) * PACKET_SIZE
    /\ wire[k].cur_size =
         IF k < tot_packet THEN PACKET_SIZE ELSE tot_size - (tot_packet - 1) * PACKET_SIZE

(* The announced number is right: a call that returns true has sent exactly *)
(* that many, and one that broke off has sent fewer, so that what it left   *)
(* on the wire is never taken for a whole frame.                            *)
Announced ==
  /\ call = "sent" => Len(wire) = tot_packet
  /\ call = "failed" => Len(wire) < tot_packet

(* The loop's counters, between two datagrams.                              *)
LoopInv ==
  /\ call # "idle" => tot_packet = Fragments(tot_size) /\ tot_size > 0
  /\ Len(wire) = cur_packet - 1
  /\ p + remain = tot_size
  /\ remain > 0 => p = (cur_packet - 1) * PACKET_SIZE
  /\ cur_packet - 1 + Fragments(remain) = tot_packet
  /\ call = "sent" => remain = 0
  /\ call = "failed" => remain > 0

StreamInv == StreamTypeOK /\ LoopInv /\ Placed
=============================================================================
