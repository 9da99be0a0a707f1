-------------------------------- MODULE Sender ---------------------------------
(***************************************************************************)
(* CSender::Run with send_bitstream: the paced loop of Pacing takes a      *)
(* packet and calls send_bitstream, whose datagrams leave one by one while *)
(* the clock runs on and the demuxer seeks. A datagram that cannot be sent *)
(* ends the call, and the loop returns the packet as if it had been sent.  *)
(***************************************************************************)
EXTENDS Pacing, Bitstream

senderVars == <<vars, streamVars>>

SenderInit == Init /\ StreamInit

(* A packet that is not skipped is sent, whatever its size.                *)
TakeAndCall ==
  /\ Take
  /\ IF skip_cnt > 0 THEN UNCHANGED streamVars ELSE \E size \in Sizes : Call(size)

(* The loop of send_bitstream; Run waits for it.                           *)
Sending ==
  /\ s_pc = "send"
  /\ SendDatagram \/ SendFails \/ SendReturns
  /\ UNCHANGED vars

Sent ==
  /\ Send /\ call # "loop"
  /\ UNCHANGED streamVars

Unsent == Clock \/ NotDue \/ GetStartPts \/ GetTestEnable \/ GetNothing \/ RetVideo

SenderNext ==
  \/ (Tick \/ Demuxer \/ Unsent) /\ UNCHANGED streamVars
  \/ TakeAndCall \/ Sending \/ Sent

SenderSpec == SenderInit /\ [][SenderNext]_senderVars
=============================================================================
