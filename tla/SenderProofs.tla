------------------------------ MODULE SenderProofs -----------------------------
(***************************************************************************)
(* Proofs about the sender of a video channel: its paced loop, the cutting *)
(* of frames into datagrams, and the two composed.                         *)
(*                                                                         *)
(* The loop does not run ahead of its clock, for any group of pictures, any*)
(* ring and any seeks: Paced speaks of one point of the loop, and ClockInv *)
(* carries what it needs from where the time is taken to that point. What  *)
(* a seek does to it is SeekInv, further down.                             *)
(*                                                                         *)
(* send_bitstream announces the number of datagrams it then sends, for     *)
(* every frame and every size of a datagram. The core is FragmentsStep: a  *)
(* full datagram leaves one datagram less to announce.                     *)
(*                                                                         *)
(* The sender with its datagrams implements both of its parts: seen through*)
(* the variables of the loop it is the paced sender, seen through those of *)
(* send_bitstream it is the machine that cuts frames. What is proved of a  *)
(* part holds of the whole.                                                *)
(***************************************************************************)
EXTENDS Sender, TLAPS

-----------------------------------------------------------------------------
(* The loop and its clock. *)

(* The constructors and the start of the two threads.                      *)
LEMMA InitIInv == Init => IInv
<1>. SUFFICES ASSUME Init PROVE IInv OBVIOUS
<1>1. m_bEnable \in BOOLEAN
  BY Zenon DEF Init
<1>2. queue \in Seq(Packet) /\ Len(queue) = 0
  BY DEF Init
<1>3. pkt \in Packet
  BY DEF Init, Packet
<1>. QED BY <1>1, <1>2, <1>3, PacingAssumption DEF Init, IInv, TypeOK, ClockInv, Filled

(* The demuxer's steps and the passing of time.                            *)
LEMMA DemuxerType ==
  ASSUME TypeOK, Tick \/ Demuxer
  PROVE  TypeOK'
<1>. USE PacingAssumption
<1>1. CASE Tick
  BY <1>1 DEF Tick, TypeOK, Filled, clockVars, ringVars, putVars
<1>2. ASSUME NEW t \in Targets, Clear(t) PROVE TypeOK'
  <2>1. t - (t % Gop) \in Nat
    <3>1. CASE t < Gop
      BY <3>1
    <3>2. CASE t >= Gop
      <4>1. t % Gop \in 0 .. Gop - 1
        OBVIOUS
      <4>. QED BY <3>2, <4>1
    <3>. QED BY <3>1, <3>2
  <2>2. queue' \in Seq(Packet) /\ Len(queue') = 0
    BY <1>2 DEF Clear
  <2>3. m_bEnable' \in BOOLEAN
    BY <1>2, Zenon DEF Clear
  <2>4. seek < MaxSeeks
    BY <1>2 DEF Clear
  <2>. QED BY <1>2, <2>1, <2>2, <2>3, <2>4 DEF Clear, TypeOK, Filled, clockVars
<1>3. CASE PutStartPts
  BY <1>3 DEF PutStartPts, TypeOK, Filled, clockVars
<1>4. CASE Put
  <2>1. [pts |-> next, seek |-> seek] \in Packet
    BY DEF TypeOK, Packet
  <2>. QED BY <1>4, <2>1 DEF Put, TypeOK, Filled, clockVars
<1>5. CASE PutEnable
  BY <1>5 DEF PutEnable, TypeOK, Filled, clockVars
<1>. QED BY <1>1, <1>2, <1>3, <1>4, <1>5 DEF Demuxer

(* The sender's steps.                                                     *)
LEMMA SenderType ==
  ASSUME TypeOK, Sender
  PROVE  TypeOK'
<1>. USE PacingAssumption
<1>1. CASE Clock
  BY <1>1 DEF Clock, TypeOK, Filled, ringVars, putVars
<1>2. CASE NotDue
  BY <1>2 DEF NotDue, TypeOK, Filled, clockVars, ringVars, putVars
<1>3. CASE GetStartPts
  BY <1>3 DEF GetStartPts, TypeOK, Filled, clockVars, ringVars, putVars
<1>4. CASE GetTestEnable \/ GetNothing
  BY <1>4 DEF GetTestEnable, GetNothing, TypeOK, Filled, clockVars, ringVars, putVars
<1>5. CASE Take
  <2>1. /\ Head(queue) \in Packet /\ Tail(queue) \in Seq(Packet)
        /\ Len(Tail(queue)) = Len(queue) - 1
    BY <1>5 DEF Take, TypeOK
  <2>. QED BY <1>5, <2>1 DEF Take, TypeOK, Filled, putVars
<1>6. CASE Send
  BY <1>6 DEF Send, TypeOK, Filled, clockVars, ringVars, putVars
<1>7. CASE RetVideo
  <2>1. pkt.pts \in Nat
    BY DEF TypeOK, Packet
  <2>. QED BY <1>7, <2>1 DEF RetVideo, TypeOK, Filled, clockVars, ringVars, putVars
<1>. QED BY <1>1, <1>2, <1>3, <1>4, <1>5, <1>6, <1>7 DEF Sender

(* Time only makes the clock in hand more cautious; the demuxer does not   *)
(* touch the sender's fields.                                              *)
LEMMA DemuxerClock ==
  ASSUME TypeOK, ClockInv, Tick \/ Demuxer
  PROVE  ClockInv'
<1>1. CASE Tick
  BY <1>1 DEF Tick, TypeOK, ClockInv, clockVars
<1>2. CASE Demuxer
  BY <1>2 DEF Demuxer, Clear, PutStartPts, Put, PutEnable, ClockInv, clockVars
<1>. QED BY <1>1, <1>2

(* Clock establishes it: either no seek is noticed and the time is counted *)
(* from the present seek point, or a whole group is to be skipped.         *)
LEMMA SenderClock ==
  ASSUME TypeOK, ClockInv, Sender
  PROVE  ClockInv'
<1>1. CASE Clock
  BY <1>1, PacingAssumption DEF Clock, TypeOK, ClockInv
<1>2. CASE NotDue
  BY <1>2 DEF NotDue, ClockInv, clockVars
<1>3. CASE GetStartPts
  BY <1>3 DEF GetStartPts, ClockInv, clockVars
<1>4. CASE GetTestEnable \/ GetNothing
  BY <1>4 DEF GetTestEnable, GetNothing, ClockInv, clockVars
<1>5. CASE Take
  BY <1>5 DEF Take, TypeOK, ClockInv
<1>6. CASE Send \/ RetVideo
  BY <1>6 DEF Send, RetVideo, ClockInv, clockVars
<1>. QED BY <1>1, <1>2, <1>3, <1>4, <1>5, <1>6 DEF Sender

(* IInv is inductive.                                                      *)
LEMMA NextIInv == IInv /\ [Next]_vars => IInv'
<1>. SUFFICES ASSUME IInv, [Next]_vars PROVE IInv' OBVIOUS
<1>1. CASE UNCHANGED vars
  BY <1>1 DEF vars, clockVars, ringVars, putVars, IInv, TypeOK, ClockInv, Filled
<1>2. CASE Tick \/ Demuxer
  BY <1>2, DemuxerType, DemuxerClock DEF IInv
<1>3. CASE Sender
  BY <1>3, SenderType, SenderClock DEF IInv
<1>. QED BY <1>1, <1>2, <1>3 DEF Next

(* It is an invariant of the sender's loop.                                *)
THEOREM PacingInvariance == Spec => []IInv
<1>. QED BY NextIInv, InitIInv, PTL DEF Spec

(* No packet is sent before the clock, counted from the seek point, has    *)
(* reached the packet before it.                                           *)
THEOREM NeverAheadOfClock == Spec => []Paced
<1>1. IInv => Paced
  BY DEF IInv, TypeOK, ClockInv, Paced
<1>. QED BY <1>1, PacingInvariance, PTL

-----------------------------------------------------------------------------
(* The loop and the seeks. *)

\* The pts of the first packet the sender has not taken.
Front == next - Len(queue)

\* Where the clock in hand may be compared with: from the seek point last told.
ClockNow == m_seek_pts + (time - m_begin)

\* The ring holds consecutive frames of the present seek, from a keyframe less
\* than a group of pictures before the seek point on, or nothing.
QueueInv ==
  /\ \A k \in 1 .. Len(queue) : queue[k] = [pts |-> Front + k - 1, seek |-> seek]
  /\ d_pc = "start" => queue = <<>> /\ next <= target /\ target - Gop <= next
  /\ pkt.seek <= seek
  /\ d_pc # "start" =>
       /\ m_start_pts - Gop <= Front
       /\ pkt.seek < seek => Front <= m_start_pts
       /\ pkt.seek = seek => Front <= pkt.pts + 1

\* What the sender has been told of the seeks. A packet of a seek it has not been
\* told of is the first of that seek.
ToldInv ==
  /\ reported = seek => m_seek_pts = m_start_pts
  /\ noticed = reported => m_seek_old_pts = m_seek_pts
  /\ s_pc = "due" => m_seek_old_pts = m_seek_pts
  /\ s_pc \in {"clock", "due", "enable", "take"} => m_out_pts = pkt.pts
  /\ s_pc \in {"enable", "take"} => pkt.seek <= reported
  /\ pkt.seek = seek /\ reported < seek => pkt.pts <= m_start_pts

\* Once a seek is noticed, what is left to skip reaches up to its seek point.
SkipInv ==
  /\ noticed = seek /\ d_pc # "start" => m_seek_old_pts <= Front + skip_cnt
  /\ NothingBeforeSeek

\* When the last packet is of the seek the sender was told of, the clock is at
\* most two frames behind it, and one until the next is taken.
WaitInv ==
  reported = pkt.seek =>
    /\ pkt.pts <= ClockNow + 2
    /\ m_seek_pts # m_seek_old_pts =>
         pkt.pts <= IF s_pc \in {"enable", "take"} THEN m_seek_pts ELSE m_seek_pts + 1
    /\ s_pc \in {"due", "enable", "take"} => m_now_pts <= ClockNow \/ pkt.pts <= m_seek_pts + 1
    /\ WaitIsShort

SeekInv == IInv /\ QueueInv /\ ToldInv /\ SkipInv /\ WaitInv

(* Before the first packet and the first seek.                             *)
LEMMA InitSeekInv == Init => SeekInv
<1>. SUFFICES ASSUME Init PROVE SeekInv OBVIOUS
<1>. USE PacingAssumption
<1>1. Len(queue) = 0 /\ pkt.seek = 0 /\ pkt.pts = 0
  BY DEF Init
<1>2. QueueInv
  BY <1>1 DEF Init, QueueInv, Front
<1>3. ToldInv /\ SkipInv /\ WaitInv
  BY <1>1 DEF Init, ToldInv, SkipInv, NothingBeforeSeek, WaitInv, WaitIsShort, Front, ClockNow
<1>. QED BY <1>2, <1>3, InitIInv DEF SeekInv

(* A seek point and the keyframe its packets begin with.                   *)
LEMMA KeyframeNear ==
  ASSUME NEW t \in Nat
  PROVE  t - (t % Gop) \in Int /\ t - (t % Gop) <= t /\ t - Gop <= t - (t % Gop)
<1>. t % Gop \in 0 .. Gop - 1
  BY PacingAssumption
<1>. QED BY PacingAssumption

(* What Head and Tail leave of consecutive frames.                         *)
LEMMA TakeFront ==
  ASSUME TypeOK, QueueInv, Take
  PROVE  /\ pkt' = [pts |-> Front, seek |-> seek] /\ Front' = Front + 1 /\ Front \in Int
         /\ Len(queue) > 0 /\ d_pc # "start"
<1>1. Len(queue) > 0 /\ Head(queue) = queue[1] /\ Len(Tail(queue)) = Len(queue) - 1
  BY DEF Take, TypeOK
<1>2. queue[1] = [pts |-> Front, seek |-> seek]
  BY <1>1 DEF QueueInv, Front, TypeOK
<1>. QED BY <1>1, <1>2 DEF Take, QueueInv, Front, TypeOK, putVars

(* The ring: PutVideo appends the next frame, Clear empties it.            *)
LEMMA QueueStep ==
  ASSUME TypeOK, QueueInv, [Next]_vars
  PROVE  QueueInv'
<1>. USE PacingAssumption
<1>1. CASE Tick
  BY <1>1 DEF Tick, QueueInv, Front, TypeOK, clockVars, ringVars, putVars
<1>2. CASE \E t \in Targets : Clear(t)
  <2>. PICK t \in Targets : Clear(t)
    BY <1>2
  <2>1. queue' = <<>> /\ Len(queue') = 0
    BY DEF Clear
  <2>2. next' <= target' /\ target' - Gop <= next'
    BY KeyframeNear DEF Clear
  <2>. QED BY <2>1, <2>2 DEF Clear, QueueInv, Front, TypeOK
<1>3. CASE PutStartPts
  <2>1. Len(queue) = 0
    BY <1>3 DEF PutStartPts, QueueInv
  <2>. QED BY <1>3, <2>1 DEF PutStartPts, QueueInv, Front, TypeOK, Packet
<1>4. CASE Put
  <2>. DEFINE put == [pts |-> next, seek |-> seek]
  <2>1. put \in Packet /\ queue \in Seq(Packet)
    BY DEF TypeOK, Packet
  <2>2. /\ Len(queue') = Len(queue) + 1 /\ queue'[Len(queue) + 1] = put
        /\ \A k \in 1 .. Len(queue) : queue'[k] = queue[k]
    BY <1>4, <2>1 DEF Put
  <2>3. Front' = Front /\ Front \in Int /\ Len(queue) \in Nat
    BY <1>4, <2>1, <2>2 DEF Put, Front, TypeOK
  <2>4. ASSUME NEW k \in 1 .. Len(queue')
        PROVE  queue'[k] = [pts |-> Front + k - 1, seek |-> seek]
    <3>1. CASE k = Len(queue) + 1
      BY <2>1, <2>2, <2>3, <3>1 DEF Front, TypeOK
    <3>2. CASE k # Len(queue) + 1
      <4>1. k \in 1 .. Len(queue)
        BY <2>2, <2>3, <3>2
      <4>. QED BY <2>2, <4>1 DEF QueueInv
    <3>. QED BY <3>1, <3>2
  <2>. QED BY <1>4, <2>3, <2>4 DEF Put, QueueInv
<1>5. CASE PutEnable
  BY <1>5 DEF PutEnable, QueueInv, Front, TypeOK, clockVars, ringVars, putVars
<1>6. CASE Clock
  BY <1>6 DEF Clock, QueueInv, Front, TypeOK, clockVars, ringVars, putVars
<1>7. CASE NotDue
  BY <1>7 DEF NotDue, QueueInv, Front, TypeOK, clockVars, ringVars, putVars
<1>8. CASE GetStartPts
  BY <1>8 DEF GetStartPts, QueueInv, Front, TypeOK, clockVars, ringVars, putVars
<1>9. CASE GetTestEnable
  BY <1>9 DEF GetTestEnable, QueueInv, Front, TypeOK, clockVars, ringVars, putVars
<1>10. CASE GetNothing
  BY <1>10 DEF GetNothing, QueueInv, Front, TypeOK, clockVars, ringVars, putVars
<1>11. CASE Take
  <2>1. /\ pkt' = [pts |-> Front, seek |-> seek] /\ Front' = Front + 1 /\ Front \in Int
        /\ d_pc # "start"
    BY <1>11, TakeFront
  <2>2. /\ Len(queue') = Len(queue) - 1 /\ Len(queue) \in Nat
        /\ \A k \in 1 .. Len(queue') : queue'[k] = queue[k + 1]
    BY <1>11 DEF Take, TypeOK
  <2>3. ASSUME NEW k \in 1 .. Len(queue')
        PROVE  queue'[k] = [pts |-> Front + 1 + k - 1, seek |-> seek]
    <3>1. k + 1 \in 1 .. Len(queue)
      BY <2>2
    <3>2. queue[k + 1] = [pts |-> Front + (k + 1) - 1, seek |-> seek]
      BY <3>1 DEF QueueInv
    <3>3. Front + (k + 1) - 1 = Front + 1 + k - 1
      BY <2>1, <2>2
    <3>. QED BY <2>2, <3>2, <3>3
  <2>. QED BY <1>11, <2>1, <2>3 DEF Take, QueueInv, TypeOK, putVars
<1>12. CASE Send
  BY <1>12 DEF Send, QueueInv, Front, TypeOK, clockVars, ringVars, putVars
<1>13. CASE RetVideo
  BY <1>13 DEF RetVideo, QueueInv, Front, TypeOK, clockVars, ringVars, putVars
<1>14. CASE UNCHANGED vars
  BY <1>14 DEF vars, QueueInv, Front, TypeOK, clockVars, ringVars, putVars
<1>. QED BY <1>1, <1>2, <1>3, <1>4, <1>5, <1>6, <1>7, <1>8, <1>9, <1>10, <1>11, <1>12,
            <1>13, <1>14 DEF Next, Demuxer, Sender

(* What the sender is told: GetVideo copies the seek point before it looks *)
(* for a packet.                                                           *)
LEMMA ToldStep ==
  ASSUME TypeOK, QueueInv, ToldInv, [Next]_vars
  PROVE  ToldInv'
<1>. USE PacingAssumption
<1>1. CASE Tick
  BY <1>1 DEF Tick, ToldInv, TypeOK, clockVars, ringVars, putVars
<1>2. CASE \E t \in Targets : Clear(t)
  BY <1>2 DEF Clear, ToldInv, TypeOK, clockVars, ringVars, putVars
<1>3. CASE PutStartPts
  BY <1>3 DEF PutStartPts, QueueInv, ToldInv, TypeOK, clockVars, ringVars, putVars
<1>4. CASE Put
  BY <1>4 DEF Put, ToldInv, TypeOK, clockVars, ringVars, putVars
<1>5. CASE PutEnable
  BY <1>5 DEF PutEnable, ToldInv, TypeOK, clockVars, ringVars, putVars
<1>6. CASE Clock
  BY <1>6 DEF Clock, ToldInv, TypeOK, clockVars, ringVars, putVars
<1>7. CASE NotDue
  BY <1>7 DEF NotDue, ToldInv, TypeOK, clockVars, ringVars, putVars
<1>8. CASE GetStartPts
  BY <1>8 DEF GetStartPts, QueueInv, Packet, ToldInv, TypeOK, clockVars, ringVars, putVars
<1>9. CASE GetTestEnable
  BY <1>9 DEF GetTestEnable, ToldInv, TypeOK, clockVars, ringVars, putVars
<1>10. CASE GetNothing
  BY <1>10 DEF GetNothing, ToldInv, TypeOK, clockVars, ringVars, putVars
<1>11. CASE Take
  <2>1. pkt'.pts = Front /\ pkt'.seek = seek /\ d_pc # "start" /\ Front \in Int
    BY <1>11, TakeFront
  <2>2. reported < seek => Front <= m_start_pts
    BY <1>11, <2>1 DEF Take, QueueInv, ToldInv, TypeOK, Packet
  <2>. QED BY <1>11, <2>1, <2>2 DEF Take, ToldInv, TypeOK
<1>12. CASE Send
  BY <1>12 DEF Send, ToldInv, TypeOK, clockVars, ringVars, putVars
<1>13. CASE RetVideo
  BY <1>13 DEF RetVideo, ToldInv, TypeOK, clockVars, ringVars, putVars
<1>14. CASE UNCHANGED vars
  BY <1>14 DEF vars, ToldInv, TypeOK, clockVars, ringVars, putVars
<1>. QED BY <1>1, <1>2, <1>3, <1>4, <1>5, <1>6, <1>7, <1>8, <1>9, <1>10, <1>11, <1>12,
            <1>13, <1>14 DEF Next, Demuxer, Sender

(* Skipping: a packet taken is one step towards the seek point.            *)
LEMMA SkipStep ==
  ASSUME TypeOK, QueueInv, ToldInv, SkipInv, [Next]_vars
  PROVE  SkipInv'
<1>. USE PacingAssumption
<1>1. CASE Tick
  BY <1>1 DEF Tick, SkipInv, NothingBeforeSeek, TypeOK, Packet, Front, clockVars, ringVars,
       putVars
<1>2. CASE \E t \in Targets : Clear(t)
  BY <1>2 DEF Clear, SkipInv, NothingBeforeSeek, TypeOK, Packet, Front, clockVars, ringVars,
       putVars
<1>3. CASE PutStartPts
  BY <1>3 DEF PutStartPts, SkipInv, NothingBeforeSeek, TypeOK, Packet, Front, clockVars,
       ringVars, putVars
<1>4. CASE Put
  <2>1. Len(queue') = Len(queue) + 1 /\ Len(queue) \in Nat
    BY <1>4 DEF Put, TypeOK
  <2>. QED BY <1>4, <2>1 DEF Put, SkipInv, NothingBeforeSeek, TypeOK, Packet, Front, clockVars,
       ringVars, putVars
<1>5. CASE PutEnable
  BY <1>5 DEF PutEnable, SkipInv, NothingBeforeSeek, TypeOK, Packet, Front, clockVars,
       ringVars, putVars
<1>6. CASE Clock
  <2>1. Front \in Int /\ Front' = Front
    BY <1>6 DEF Clock, Front, TypeOK, ringVars, putVars
  <2>2. noticed' = seek /\ d_pc # "start" => m_seek_old_pts' <= Front + skip_cnt'
    BY <1>6, <2>1 DEF Clock, QueueInv, ToldInv, SkipInv, TypeOK
  <2>. QED BY <1>6, <2>1, <2>2 DEF Clock, SkipInv, NothingBeforeSeek, ringVars, putVars
<1>7. CASE NotDue
  BY <1>7 DEF NotDue, SkipInv, NothingBeforeSeek, TypeOK, Packet, Front, clockVars, ringVars,
       putVars
<1>8. CASE GetStartPts
  BY <1>8 DEF GetStartPts, SkipInv, NothingBeforeSeek, TypeOK, Packet, Front, clockVars,
       ringVars, putVars
<1>9. CASE GetTestEnable
  BY <1>9 DEF GetTestEnable, SkipInv, NothingBeforeSeek, TypeOK, Packet, Front, clockVars,
       ringVars, putVars
<1>10. CASE GetNothing
  BY <1>10 DEF GetNothing, SkipInv, NothingBeforeSeek, TypeOK, Packet, Front, clockVars,
       ringVars, putVars
<1>11. CASE Take
  <2>1. /\ pkt'.pts = Front /\ pkt'.seek = seek /\ Front' = Front + 1 /\ Front \in Int
        /\ d_pc # "start"
    BY <1>11, TakeFront
  <2>. QED BY <1>11, <2>1 DEF Take, SkipInv, NothingBeforeSeek, TypeOK, putVars
<1>12. CASE Send
  BY <1>12 DEF Send, SkipInv, NothingBeforeSeek, TypeOK, Packet, Front, clockVars, ringVars,
       putVars
<1>13. CASE RetVideo
  BY <1>13 DEF RetVideo, SkipInv, NothingBeforeSeek, TypeOK, Packet, Front, clockVars,
       ringVars, putVars
<1>14. CASE UNCHANGED vars
  BY <1>14 DEF vars, SkipInv, NothingBeforeSeek, TypeOK, Packet, Front, clockVars, ringVars,
       putVars
<1>. QED BY <1>1, <1>2, <1>3, <1>4, <1>5, <1>6, <1>7, <1>8, <1>9, <1>10, <1>11, <1>12,
            <1>13, <1>14 DEF Next, Demuxer, Sender

(* Waiting: the clock of the turn that notices a seek is too far on, but   *)
(* then the sender has at most two packets of that seek.                   *)
LEMMA WaitStep ==
  ASSUME IInv, QueueInv, ToldInv, WaitInv, [Next]_vars
  PROVE  WaitInv'
<1>. USE PacingAssumption
<1>t. TypeOK /\ pkt.pts \in Nat /\ pkt.seek \in Nat
  BY DEF IInv, TypeOK, Packet
<1>1. CASE Tick
  BY <1>1, <1>t DEF Tick, WaitInv, WaitIsShort, ClockNow, ToldInv, TypeOK, clockVars, ringVars,
       putVars
<1>2. CASE \E t \in Targets : Clear(t)
  BY <1>2, <1>t DEF Clear, WaitInv, WaitIsShort, ClockNow, ToldInv, TypeOK, clockVars,
       ringVars, putVars
<1>3. CASE PutStartPts
  BY <1>3, <1>t DEF PutStartPts, WaitInv, WaitIsShort, ClockNow, ToldInv, TypeOK, clockVars,
       ringVars, putVars
<1>4. CASE Put
  BY <1>4, <1>t DEF Put, WaitInv, WaitIsShort, ClockNow, ToldInv, TypeOK, clockVars, ringVars,
       putVars
<1>5. CASE PutEnable
  BY <1>5, <1>t DEF PutEnable, WaitInv, WaitIsShort, ClockNow, ToldInv, TypeOK, clockVars,
       ringVars, putVars
<1>6. CASE Clock
  <2>1. /\ s_pc' = "due" /\ m_now_pts' = ClockNow /\ m_seek_old_pts' = m_seek_pts
        /\ UNCHANGED <<time, m_seek_pts, m_out_pts, pkt, reported>>
        /\ m_out_pts = pkt.pts
    BY <1>6 DEF Clock, ClockNow, ToldInv, TypeOK
  <2>. SUFFICES ASSUME reported = pkt.seek PROVE WaitInv'
    BY <2>1 DEF WaitInv
  <2>2. CASE m_seek_pts # m_seek_old_pts
    <3>1. m_begin' = time /\ pkt.pts <= m_seek_pts + 1 /\ pkt.pts <= ClockNow + 2
      BY <1>6, <1>t, <2>2 DEF Clock, WaitInv, TypeOK
    <3>2. ClockNow' = m_seek_pts
      BY <1>t, <2>1, <3>1 DEF ClockNow, TypeOK
    <3>. QED BY <1>t, <2>1, <3>1, <3>2 DEF WaitInv, WaitIsShort, TypeOK
  <2>3. CASE m_seek_pts = m_seek_old_pts
    <3>1. ClockNow' = ClockNow /\ ClockNow \in Int /\ pkt.pts <= ClockNow + 2
      BY <1>6, <1>t, <2>1, <2>3 DEF Clock, ClockNow, WaitInv, TypeOK
    <3>. QED BY <1>t, <2>1, <3>1 DEF WaitInv, WaitIsShort
  <2>. QED BY <2>2, <2>3
<1>7. CASE NotDue
  BY <1>7, <1>t DEF NotDue, WaitInv, WaitIsShort, ClockNow, ToldInv, TypeOK, clockVars,
       ringVars, putVars
<1>8. CASE GetStartPts
  BY <1>8, <1>t DEF GetStartPts, WaitInv, WaitIsShort, ClockNow, ToldInv, TypeOK, clockVars,
       ringVars, putVars
<1>9. CASE GetTestEnable
  BY <1>9, <1>t DEF GetTestEnable, WaitInv, WaitIsShort, ClockNow, ToldInv, TypeOK, clockVars,
       ringVars, putVars
<1>10. CASE GetNothing
  BY <1>10, <1>t DEF GetNothing, WaitInv, WaitIsShort, ClockNow, ToldInv, TypeOK, clockVars,
       ringVars, putVars
<1>11. CASE Take
  <2>1. /\ pkt'.pts = Front /\ pkt'.seek = seek /\ Front \in Int /\ d_pc # "start"
    BY <1>11, TakeFront, <1>t
  <2>. SUFFICES ASSUME reported = seek PROVE WaitInv'
    BY <1>11, <2>1 DEF Take, WaitInv
  <2>2. ClockNow' = ClockNow /\ ClockNow \in Int /\ ClockNow >= m_seek_pts
    BY <1>11, <1>t DEF Take, ClockNow, TypeOK
  <2>3. CASE pkt.seek < seek
    <3>1. Front <= m_seek_pts
      BY <2>1, <2>3 DEF QueueInv, ToldInv
    <3>. QED BY <1>11, <1>t, <2>1, <2>2, <3>1 DEF Take, WaitInv, WaitIsShort, TypeOK
  <2>4. CASE pkt.seek = seek
    <3>1. Front <= pkt.pts + 1
      BY <2>1, <2>4 DEF QueueInv
    <3>2. m_out_pts = pkt.pts /\ m_out_pts <= m_now_pts
      BY <1>11 DEF Take, ToldInv, IInv, ClockInv
    <3>3. Front <= ClockNow + 2
      BY <1>11, <1>t, <2>1, <2>2, <2>4, <3>1, <3>2 DEF Take, WaitInv, TypeOK
    <3>4. m_seek_pts # m_seek_old_pts => Front <= m_seek_pts + 1
      BY <1>11, <1>t, <2>1, <2>4, <3>1, <3>2 DEF Take, WaitInv, TypeOK
    <3>. QED BY <1>11, <2>1, <2>2, <3>3, <3>4 DEF Take, WaitInv, WaitIsShort
  <2>. QED BY <1>t, <2>3, <2>4 DEF QueueInv, TypeOK
<1>12. CASE Send
  BY <1>12, <1>t DEF Send, WaitInv, WaitIsShort, ClockNow, ToldInv, TypeOK, clockVars,
       ringVars, putVars
<1>13. CASE RetVideo
  BY <1>13, <1>t DEF RetVideo, WaitInv, WaitIsShort, ClockNow, ToldInv, TypeOK, clockVars,
       ringVars, putVars
<1>14. CASE UNCHANGED vars
  BY <1>14, <1>t DEF vars, WaitInv, WaitIsShort, ClockNow, ToldInv, TypeOK, clockVars,
       ringVars, putVars
<1>. QED BY <1>1, <1>2, <1>3, <1>4, <1>5, <1>6, <1>7, <1>8, <1>9, <1>10, <1>11, <1>12,
            <1>13, <1>14 DEF Next, Demuxer, Sender

(* The invariant of the loop and the seeks.                                *)
THEOREM SeekInvariance == Spec => []SeekInv
<1>1. IInv /\ [Next]_vars => IInv'
  BY NextIInv
<1>2. SeekInv /\ [Next]_vars => SeekInv'
  BY <1>1, QueueStep, ToldStep, SkipStep, WaitStep DEF SeekInv, IInv
<1>. QED BY <1>2, InitSeekInv, PTL DEF Spec

(* Once the clock has been restarted for a seek, nothing from before its   *)
(* seek point is sent, for any group of pictures and any number of seeks.  *)
THEOREM NoneBeforeSeek == Spec => []NothingBeforeSeek
<1>1. SeekInv => NothingBeforeSeek
  BY DEF SeekInv, SkipInv
<1>. QED BY <1>1, SeekInvariance, PTL

(* A sender whose last packet is of the seek it was told of is at most two *)
(* frames from its next turn, however the demuxer seeks to and fro.        *)
THEOREM WaitsBriefly == Spec => []WaitIsShort
<1>1. SeekInv => WaitIsShort
  BY DEF SeekInv, WaitInv, WaitIsShort
<1>. QED BY <1>1, SeekInvariance, PTL

-----------------------------------------------------------------------------
(* The datagrams. *)

(* Division with remainder, in the form the solvers can use.               *)
LEMMA DivMod ==
  ASSUME NEW n \in Nat
  PROVE  /\ n \div PACKET_SIZE \in Nat /\ n % PACKET_SIZE \in 0 .. PACKET_SIZE - 1
         /\ n = PACKET_SIZE * (n \div PACKET_SIZE) + (n % PACKET_SIZE)
BY BitstreamAssumption

(* ... and it is the only one.                                             *)
LEMMA DivModUnique ==
  ASSUME NEW n \in Nat, NEW q \in Nat, NEW r \in 0 .. PACKET_SIZE - 1,
         n = PACKET_SIZE * q + r
  PROVE  n \div PACKET_SIZE = q /\ n % PACKET_SIZE = r
BY BitstreamAssumption

(* A frame that fits into one datagram takes one.                          *)
LEMMA FragmentsOne ==
  ASSUME NEW n \in 1 .. PACKET_SIZE
  PROVE  Fragments(n) = 1
<1>1. CASE n = PACKET_SIZE
  <2>1. n = PACKET_SIZE * 1 + 0
    BY <1>1, BitstreamAssumption
  <2>2. n \div PACKET_SIZE = 1 /\ n % PACKET_SIZE = 0
    BY <2>1, DivModUnique, BitstreamAssumption
  <2>. QED BY <2>2 DEF Fragments
<1>2. CASE n < PACKET_SIZE
  <2>1. n = PACKET_SIZE * 0 + n
    BY BitstreamAssumption
  <2>2. n \div PACKET_SIZE = 0 /\ n % PACKET_SIZE = n
    BY <1>2, <2>1, DivModUnique, BitstreamAssumption
  <2>. QED BY <2>2 DEF Fragments
<1>. QED BY <1>1, <1>2, BitstreamAssumption

(* A longer one takes one more than what a full datagram leaves.           *)
LEMMA FragmentsStep ==
  ASSUME NEW n \in Nat, n > PACKET_SIZE
  PROVE  Fragments(n) = 1 + Fragments(n - PACKET_SIZE)
<1>. DEFINE m == n - PACKET_SIZE
            q == m \div PACKET_SIZE
            r == m % PACKET_SIZE
<1>1. m \in Nat
  BY BitstreamAssumption
<1>. HIDE DEF m
<1>2. q \in Nat /\ r \in 0 .. PACKET_SIZE - 1 /\ m = PACKET_SIZE * q + r
  BY <1>1, DivMod
<1>. HIDE DEF q, r
<1>3. n = PACKET_SIZE * (q + 1) + r
  BY <1>2, BitstreamAssumption DEF m
<1>4. n \div PACKET_SIZE = q + 1 /\ n % PACKET_SIZE = r
  BY <1>2, <1>3, DivModUnique
<1>. QED BY <1>2, <1>4 DEF Fragments, q, r, m

(* Nothing takes no datagram.                                              *)
LEMMA FragmentsZero == Fragments(0) = 0
<1>1. 0 = PACKET_SIZE * 0 + 0
  BY BitstreamAssumption
<1>2. 0 \div PACKET_SIZE = 0 /\ 0 % PACKET_SIZE = 0
  BY <1>1, DivModUnique, BitstreamAssumption
<1>. QED BY <1>2 DEF Fragments

(* Something takes at least one.                                           *)
LEMMA FragmentsPositive ==
  ASSUME NEW n \in Nat \ {0}
  PROVE  Fragments(n) \in Nat \ {0}
<1>1. n \div PACKET_SIZE \in Nat /\ n % PACKET_SIZE \in 0 .. PACKET_SIZE - 1
      /\ n = PACKET_SIZE * (n \div PACKET_SIZE) + (n % PACKET_SIZE)
  BY DivMod
<1>2. CASE n % PACKET_SIZE = 0
  <2>1. n \div PACKET_SIZE # 0
    BY <1>1, <1>2, BitstreamAssumption
  <2>. QED BY <1>1, <1>2, <2>1 DEF Fragments
<1>3. CASE n % PACKET_SIZE # 0
  BY <1>1, <1>3 DEF Fragments
<1>. QED BY <1>2, <1>3

(* The last datagram is the one that is announced last.                    *)
LEMMA LastFragment ==
  ASSUME NEW n \in Nat \ {0}
  PROVE  n > PACKET_SIZE <=> Fragments(n) > 1
<1>1. CASE n > PACKET_SIZE
  <2>1. n - PACKET_SIZE \in Nat \ {0}
    BY <1>1, BitstreamAssumption
  <2>2. Fragments(n - PACKET_SIZE) \in Nat \ {0}
    BY <2>1, FragmentsPositive
  <2>. QED BY <1>1, <2>2, FragmentsStep
<1>2. CASE ~(n > PACKET_SIZE)
  BY <1>2, FragmentsOne, BitstreamAssumption
<1>. QED BY <1>1, <1>2

(* Before the first call.                                                  *)
LEMMA InitStreamInv == StreamInit => StreamInv
BY FragmentsZero DEF StreamInit, StreamInv, StreamTypeOK, LoopInv, Placed

(* A call announces the datagrams of its frame.                            *)
LEMMA CallStreamInv ==
  ASSUME StreamInv, NEW size \in Sizes, Call(size)
  PROVE  StreamInv'
<1>1. size \in Nat \ {0}
  BY BitstreamAssumption
<1>2. Fragments(size) \in Nat \ {0}
  BY <1>1, FragmentsPositive
<1>3. wire' = <<>> /\ Len(wire') = 0 /\ DOMAIN wire' = {}
  BY DEF Call
<1>4. StreamTypeOK'
  BY <1>1, <1>2, <1>3 DEF Call, StreamTypeOK
<1>5. LoopInv'
  BY <1>1, <1>2, <1>3, BitstreamAssumption DEF Call, LoopInv
<1>6. Placed'
  BY <1>3 DEF Placed
<1>. QED BY <1>4, <1>5, <1>6 DEF StreamInv

(* One datagram: the next one in its place, and one less to come.          *)
LEMMA SendStreamInv ==
  ASSUME StreamInv, SendDatagram
  PROVE  StreamInv'
<1>. USE BitstreamAssumption
<1>1. /\ remain \in Nat \ {0} /\ cur_packet \in Nat \ {0} /\ tot_packet \in Nat
      /\ p \in Nat /\ tot_size \in Nat
  BY DEF StreamInv, StreamTypeOK, SendDatagram
<1>2. cur_size \in 1 .. PACKET_SIZE /\ cur_size <= remain
  BY <1>1 DEF cur_size
<1>3. Fragments(remain) \in Nat \ {0}
  BY <1>1, FragmentsPositive
<1>4. Fragments(remain - cur_size) = Fragments(remain) - 1
  <2>1. CASE remain > PACKET_SIZE
    <3>1. Fragments(remain - PACKET_SIZE) \in Nat \ {0}
      BY <1>1, <2>1, FragmentsPositive
    <3>. QED BY <1>1, <2>1, <3>1, FragmentsStep DEF cur_size
  <2>2. CASE ~(remain > PACKET_SIZE)
    <3>1. Fragments(remain) = 1
      BY <1>1, <2>2, FragmentsOne
    <3>2. remain - cur_size = 0
      BY <1>1, <2>2 DEF cur_size
    <3>. QED BY <3>1, <3>2, FragmentsZero
  <2>. QED BY <2>1, <2>2
<1>5. Len(wire) = cur_packet - 1 /\ p = (cur_packet - 1) * PACKET_SIZE
      /\ p + remain = tot_size /\ cur_packet - 1 + Fragments(remain) = tot_packet
  BY <1>1 DEF StreamInv, LoopInv
<1>6. Fragment \in [tot_size : Nat, cur_size : 0 .. PACKET_SIZE, tot_packet : Nat,
                    cur_packet : Nat, at : Nat]
  BY <1>1, <1>2 DEF Fragment
<1>7. /\ Len(wire') = Len(wire) + 1
      /\ DOMAIN wire' = DOMAIN wire \cup {cur_packet}
      /\ \A k \in DOMAIN wire : wire'[k] = wire[k] /\ k < cur_packet
      /\ wire'[cur_packet] = Fragment
  <2>. DEFINE D == [tot_size : Nat, cur_size : 0 .. PACKET_SIZE, tot_packet : Nat,
                    cur_packet : Nat, at : Nat]
  <2>1. wire \in Seq(D) /\ Fragment \in D /\ wire' = Append(wire, Fragment)
    BY <1>6 DEF StreamInv, StreamTypeOK, SendDatagram
  <2>. HIDE DEF D
  <2>2. /\ DOMAIN wire = 1 .. Len(wire) /\ DOMAIN wire' = 1 .. Len(wire) + 1
        /\ Len(wire) \in Nat /\ Len(wire') = Len(wire) + 1
        /\ \A k \in 1 .. Len(wire) : wire'[k] = wire[k]
        /\ wire'[Len(wire) + 1] = Fragment
    BY <2>1
  <2>3. cur_packet = Len(wire) + 1
    BY <1>1, <1>5, <2>2
  <2>. QED BY <2>2, <2>3
<1>8. StreamTypeOK'
  <2>1. wire' \in Seq([tot_size : Nat, cur_size : 0 .. PACKET_SIZE, tot_packet : Nat,
                       cur_packet : Nat, at : Nat])
    BY <1>6 DEF StreamInv, StreamTypeOK, SendDatagram
  <2>. QED BY <1>1, <1>2, <2>1 DEF StreamInv, StreamTypeOK, SendDatagram
<1>9. LoopInv'
  <2>1. remain' = remain - cur_size /\ p' = p + cur_size /\ cur_packet' = cur_packet + 1
        /\ call' = call /\ call = "loop" /\ tot_size' = tot_size /\ tot_packet' = tot_packet
    BY DEF SendDatagram
  <2>2. remain' > 0 => p' = (cur_packet' - 1) * PACKET_SIZE
    <3>1. remain' > 0 => cur_size = PACKET_SIZE
      BY <1>1, <2>1 DEF cur_size
    <3>. QED BY <1>1, <1>5, <2>1, <3>1
  <2>3. cur_packet' - 1 + Fragments(remain') = tot_packet'
    BY <1>1, <1>3, <1>4, <1>5, <2>1
  <2>4. tot_packet' = Fragments(tot_size') /\ tot_size' > 0
    BY <2>1 DEF StreamInv, LoopInv
  <2>5. Len(wire') = cur_packet' - 1 /\ p' + remain' = tot_size'
    BY <1>1, <1>2, <1>5, <1>7, <2>1
  <2>. QED BY <2>1, <2>2, <2>3, <2>4, <2>5 DEF LoopInv
<1>10. Placed'
  <2>1. tot_size' = tot_size /\ tot_packet' = tot_packet
    BY DEF SendDatagram
  <2>2. ASSUME NEW k \in DOMAIN wire
        PROVE  /\ wire'[k].tot_size = tot_size /\ wire'[k].tot_packet = tot_packet
               /\ wire'[k].cur_packet = k /\ wire'[k].at = (k - 1) * PACKET_SIZE
               /\ wire'[k].cur_size = IF k < tot_packet THEN PACKET_SIZE
                                      ELSE tot_size - (tot_packet - 1) * PACKET_SIZE
    BY <1>7, <2>2 DEF StreamInv, Placed
  <2>3. cur_size = IF cur_packet < tot_packet THEN PACKET_SIZE
                   ELSE tot_size - (tot_packet - 1) * PACKET_SIZE
    <3>1. CASE remain > PACKET_SIZE
      <4>1. cur_packet < tot_packet
        BY <1>1, <1>3, <1>5, <3>1, LastFragment
      <4>. QED BY <3>1, <4>1 DEF cur_size
    <3>2. CASE ~(remain > PACKET_SIZE)
      <4>1. cur_packet = tot_packet
        BY <1>1, <1>3, <1>5, <3>2, LastFragment
      <4>. QED BY <1>1, <1>5, <3>2, <4>1 DEF cur_size
    <3>. QED BY <3>1, <3>2
  <2>4. /\ wire'[cur_packet].tot_size = tot_size /\ wire'[cur_packet].tot_packet = tot_packet
        /\ wire'[cur_packet].cur_packet = cur_packet
        /\ wire'[cur_packet].at = (cur_packet - 1) * PACKET_SIZE
        /\ wire'[cur_packet].cur_size = cur_size
    BY <1>5, <1>7 DEF Fragment
  <2>. QED BY <1>7, <2>1, <2>2, <2>3, <2>4 DEF Placed
<1>. QED BY <1>8, <1>9, <1>10 DEF StreamInv

(* StreamInv is an inductive invariant of send_bitstream.                       *)
THEOREM Counters == StreamSpec => []StreamInv
<1>1. StreamInv /\ [StreamNext]_streamVars => StreamInv'
  <2>. SUFFICES ASSUME StreamInv, [StreamNext]_streamVars PROVE StreamInv' OBVIOUS
  <2>1. CASE UNCHANGED streamVars
    BY <2>1 DEF streamVars, StreamInv, StreamTypeOK, LoopInv, Placed
  <2>2. CASE SendFails \/ SendReturns
    <3>1. StreamTypeOK'
      BY <2>2 DEF SendFails, SendReturns, StreamInv, StreamTypeOK
    <3>2. LoopInv'
      <4>1. remain \in Nat /\ call = "loop" /\ LoopInv
        BY <2>2 DEF SendFails, SendReturns, StreamInv, StreamTypeOK
      <4>2. CASE SendFails
        BY <4>1, <4>2 DEF SendFails, LoopInv
      <4>3. CASE SendReturns
        BY <4>1, <4>3 DEF SendReturns, LoopInv
      <4>. QED BY <2>2, <4>2, <4>3
    <3>3. Placed'
      BY <2>2 DEF SendFails, SendReturns, StreamInv, Placed
    <3>. QED BY <3>1, <3>2, <3>3 DEF StreamInv
  <2>. QED BY <2>1, <2>2, CallStreamInv, SendStreamInv DEF StreamNext
<1>. QED BY <1>1, InitStreamInv, PTL DEF StreamSpec

(* Every datagram on the wire carries what belongs into its place.         *)
THEOREM DatagramsPlaced == StreamSpec => []Placed
<1>1. StreamInv => Placed
  BY DEF StreamInv
<1>. QED BY <1>1, Counters, PTL

(* What was announced is what a completed call has sent, and more than what *)
(* a broken one has.                                                        *)
THEOREM AnnouncedRight == StreamSpec => []Announced
<1>1. ASSUME StreamInv PROVE Announced
  <2>1. CASE call = "sent"
    BY <1>1, <2>1, FragmentsZero DEF StreamInv, StreamTypeOK, LoopInv, Announced
  <2>2. CASE call = "failed"
    <3>1. Fragments(remain) \in Nat \ {0}
      BY <1>1, <2>2, FragmentsPositive DEF StreamInv, StreamTypeOK, LoopInv
    <3>. QED BY <1>1, <2>2, <3>1 DEF StreamInv, StreamTypeOK, LoopInv, Announced
  <2>. QED BY <2>1, <2>2 DEF Announced
<1>. QED BY <1>1, Counters, PTL

-----------------------------------------------------------------------------
(* The composition. *)

(* A step of the whole is one of the loop or leaves its variables alone.    *)
LEMMA StepIsPaced ==
  ASSUME [SenderNext]_senderVars
  PROVE  [Next]_vars
<1>1. CASE UNCHANGED senderVars
  BY <1>1 DEF senderVars
<1>2. CASE (Tick \/ Demuxer \/ Unsent) /\ UNCHANGED streamVars
  BY <1>2 DEF Unsent, Next, Sender
<1>3. CASE TakeAndCall
  BY <1>3 DEF TakeAndCall, Next, Sender
<1>4. CASE Sending
  BY <1>4 DEF Sending
<1>5. CASE Sent
  BY <1>5 DEF Sent, Next, Sender
<1>. QED BY <1>1, <1>2, <1>3, <1>4, <1>5 DEF SenderNext

(* ... and one of send_bitstream, or leaves its variables alone.            *)
LEMMA StepIsStream ==
  ASSUME [SenderNext]_senderVars
  PROVE  [StreamNext]_streamVars
<1>1. CASE UNCHANGED senderVars
  BY <1>1 DEF senderVars
<1>2. CASE (Tick \/ Demuxer \/ Unsent) /\ UNCHANGED streamVars
  BY <1>2
<1>3. CASE TakeAndCall
  BY <1>3 DEF TakeAndCall, StreamNext
<1>4. CASE Sending
  BY <1>4 DEF Sending, StreamNext
<1>5. CASE Sent
  BY <1>5 DEF Sent
<1>. QED BY <1>1, <1>2, <1>3, <1>4, <1>5 DEF SenderNext

(* Calling send_bitstream from the loop adds nothing to what the loop does. *)
THEOREM SenderIsPaced == SenderSpec => Spec
<1>1. SenderInit => Init
  BY DEF SenderInit
<1>2. [SenderNext]_senderVars => [Next]_vars
  BY StepIsPaced
<1>. QED BY <1>1, <1>2, PTL DEF SenderSpec, Spec

(* ... nor the loop to what send_bitstream does.                            *)
THEOREM SenderIsStream == SenderSpec => StreamSpec
<1>1. SenderInit => StreamInit
  BY DEF SenderInit
<1>2. [SenderNext]_senderVars => [StreamNext]_streamVars
  BY StepIsStream
<1>. QED BY <1>1, <1>2, PTL DEF SenderSpec, StreamSpec

(* No datagram of a packet leaves before the clock, counted from the seek   *)
(* point, has reached the packet before it.                                 *)
THEOREM SenderNeverAhead == SenderSpec => []Paced
BY SenderIsPaced, NeverAheadOfClock, PTL

(* None of a packet from before a seek point leaves once the seek is        *)
(* noticed.                                                                 *)
THEOREM SenderNoneBeforeSeek == SenderSpec => []NothingBeforeSeek
BY SenderIsPaced, NoneBeforeSeek, PTL

(* The sender does not wait for a position that a seek has left.            *)
THEOREM SenderWaitsBriefly == SenderSpec => []WaitIsShort
BY SenderIsPaced, WaitsBriefly, PTL

(* Whatever the demuxer and the clock do meanwhile, a call that returns true*)
(* has sent the announced datagrams, and one that broke off fewer.          *)
THEOREM SenderAnnounces == SenderSpec => []Announced
BY SenderIsStream, AnnouncedRight, PTL
=============================================================================
