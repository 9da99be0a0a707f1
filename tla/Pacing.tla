-------------------------------- MODULE Pacing --------------------------------
(***************************************************************************)
(* When the sender of a video channel sends: the clock of CSender::Run     *)
(* (src/sender.cpp) against the seek points and packets that GetVideo gives*)
(* it. The ring is what VideoQueueImpl proves it to be, a FIFO queue that a*)
(* seek empties; its seek point is stored apart from that.                 *)
(*                                                                         *)
(* Time, time stamps and seek points are counted in frames.                *)
(***************************************************************************)
EXTENDS Integers, Sequences

CONSTANTS
  Gop,       \* info.gop: frames from one keyframe to the next
  Slots,     \* m_nMaxQueue
  Targets,   \* seek points (bound)
  MaxSeeks,  \* seeks (bound)
  MaxPts,    \* the last frame read after a seek (bound)
  MaxTime    \* the clock's last value (bound)

ASSUME PacingAssumption ==
  /\ Gop \in Nat \ {0} /\ Slots \in Nat \ {0}
  /\ Targets \subseteq Nat
  /\ MaxSeeks \in Nat /\ MaxPts \in Nat /\ MaxTime \in Nat

VARIABLES
  time,            \* high_resolution_clock::now()
  m_begin, m_now_pts,
  m_seek_pts, m_seek_old_pts,
  m_out_pts,       \* also old_pts: where pts_diff is 0 the two stay equal
  skip_cnt,
  s_pc,            \* where the sender thread is in its loop
  pkt,             \* the packet it took last
  queue,           \* the packets in the ring
  m_start_pts,     \* the ring's seek point
  m_bEnable,       \* may GetVideo look for a packet
  seek,            \* its number
  d_pc,            \* where the demuxer thread is in PutVideo
  target, next,    \* its m_seek_pts, and the frame it puts next
  reported,        \* history: the number of the seek in m_seek_pts
  noticed          \* history: the seek for which the clock was last restarted

clockVars == <<m_begin, m_now_pts, m_seek_old_pts, skip_cnt, noticed>>
ringVars  == <<queue, m_start_pts, m_bEnable, seek>>
putVars   == <<d_pc, target, next>>
vars == <<time, clockVars, m_seek_pts, m_out_pts, s_pc, pkt, ringVars, putVars, reported>>

Packet == [pts : Nat, seek : Nat]

Init ==
  /\ time = 0
  /\ m_begin = 0 /\ m_now_pts = 0
  /\ m_seek_pts = 0 /\ m_seek_old_pts = 0 /\ m_out_pts = 0 /\ skip_cnt = 0
  /\ s_pc = "clock" /\ pkt = [pts |-> 0, seek |-> 0]
  /\ queue = <<>> /\ m_start_pts = 0 /\ m_bEnable = FALSE /\ seek = 0
  /\ d_pc = "put" /\ target = 0 /\ next = 0
  /\ reported = 0 /\ noticed = 0

Tick ==
  /\ time < MaxTime
  /\ time' = time + 1
  /\ UNCHANGED <<clockVars, m_seek_pts, m_out_pts, s_pc, pkt, ringVars, putVars, reported>>

-----------------------------------------------------------------------------
(* The demuxer thread.                                                     *)

(* PutVideo finds a seek point other than its own, and clears.             *)
Clear(t) ==
  /\ d_pc = "put" /\ t # m_start_pts /\ seek < MaxSeeks
  /\ target' = t
  /\ next' = t - (t % Gop)
  /\ queue' = <<>> /\ m_bEnable' = FALSE
  /\ d_pc' = "start"
  /\ UNCHANGED <<time, clockVars, m_seek_pts, m_out_pts, s_pc, pkt, m_start_pts, seek, reported>>

PutStartPts ==
  /\ d_pc = "start"
  /\ m_start_pts' = target
  /\ seek' = seek + 1
  /\ d_pc' = "put"
  /\ UNCHANGED <<time, clockVars, m_seek_pts, m_out_pts, s_pc, pkt, queue, m_bEnable, target, next, reported>>

(* The packet in the sender's hand still counts.                           *)
Filled == Len(queue) + (IF s_pc \in {"send", "ret"} THEN 1 ELSE 0)

Put ==
  /\ d_pc = "put" /\ next <= MaxPts
  /\ Filled < Slots
  /\ queue' = Append(queue, [pts |-> next, seek |-> seek])
  /\ next' = next + 1
  /\ d_pc' = "enable"
  /\ UNCHANGED <<time, clockVars, m_seek_pts, m_out_pts, s_pc, pkt, m_start_pts, m_bEnable, seek,
                 target, reported>>

PutEnable ==
  /\ d_pc = "enable"
  /\ m_bEnable' = TRUE
  /\ d_pc' = "put"
  /\ UNCHANGED <<time, clockVars, m_seek_pts, m_out_pts, s_pc, pkt, queue, m_start_pts, seek,
                 target, next, reported>>

Demuxer == (\E t \in Targets : Clear(t)) \/ PutStartPts \/ Put \/ PutEnable

-----------------------------------------------------------------------------
(* The sender thread.                                                      *)

(* Two mutants: the clock is not restarted; nothing is skipped.            *)
ClockKept ==
  /\ s_pc = "clock"
  /\ m_now_pts' = time - m_begin
  /\ IF m_seek_pts # m_seek_old_pts
     THEN m_begin' = time /\ skip_cnt' = Gop /\ noticed' = reported
     ELSE UNCHANGED <<m_begin, skip_cnt, noticed>>
  /\ m_seek_old_pts' = m_seek_pts
  /\ s_pc' = "due"
  /\ UNCHANGED <<time, m_seek_pts, m_out_pts, pkt, ringVars, putVars, reported>>

ClockNoSkip ==
  /\ s_pc = "clock"
  /\ m_now_pts' = m_seek_pts + (time - m_begin)
  /\ IF m_seek_pts # m_seek_old_pts
     THEN m_begin' = time /\ noticed' = reported
     ELSE UNCHANGED <<m_begin, noticed>>
  /\ m_seek_old_pts' = m_seek_pts
  /\ s_pc' = "due"
  /\ UNCHANGED <<time, m_seek_pts, m_out_pts, skip_cnt, pkt, ringVars, putVars, reported>>

(* The time is taken first, so that in the turn that notices a seek it is  *)
(* still counted from the last one.                                        *)
Clock ==
  /\ s_pc = "clock"
  /\ m_now_pts' = m_seek_pts + (time - m_begin)
  /\ IF m_seek_pts # m_seek_old_pts
     THEN m_begin' = time /\ skip_cnt' = Gop /\ noticed' = reported
     ELSE UNCHANGED <<m_begin, skip_cnt, noticed>>
  /\ m_seek_old_pts' = m_seek_pts
  /\ s_pc' = "due"
  /\ UNCHANGED <<time, m_seek_pts, m_out_pts, pkt, ringVars, putVars, reported>>

NotDue ==
  /\ s_pc = "due" /\ m_out_pts > m_now_pts
  /\ s_pc' = "clock"
  /\ UNCHANGED <<time, clockVars, m_seek_pts, m_out_pts, pkt, ringVars, putVars, reported>>

(* GetVideo copies the seek point first, whether or not it finds a packet. *)
GetStartPts ==
  /\ s_pc = "due" /\ m_out_pts <= m_now_pts
  /\ m_seek_pts' = m_start_pts
  /\ reported' = seek
  /\ s_pc' = "enable"
  /\ UNCHANGED <<time, clockVars, m_out_pts, pkt, ringVars, putVars>>

GetTestEnable ==
  /\ s_pc = "enable"
  /\ s_pc' = IF m_bEnable THEN "take" ELSE "clock"
  /\ UNCHANGED <<time, clockVars, m_seek_pts, m_out_pts, pkt, ringVars, putVars, reported>>

GetNothing ==
  /\ s_pc = "take" /\ queue = <<>>
  /\ s_pc' = "clock"
  /\ UNCHANGED <<time, clockVars, m_seek_pts, m_out_pts, pkt, ringVars, putVars, reported>>

Take ==
  /\ s_pc = "take" /\ queue # <<>>
  /\ pkt' = Head(queue) /\ queue' = Tail(queue)
  /\ IF skip_cnt > 0
     THEN skip_cnt' = skip_cnt - 1 /\ s_pc' = "ret"
     ELSE UNCHANGED skip_cnt /\ s_pc' = "send"
  /\ UNCHANGED <<time, m_begin, m_now_pts, m_seek_old_pts, noticed, m_seek_pts, m_out_pts,
                 m_start_pts, m_bEnable, seek, putVars, reported>>

(* send_bitstream; the loop goes on alike when it fails.                   *)
Send ==
  /\ s_pc = "send"
  /\ s_pc' = "ret"
  /\ UNCHANGED <<time, clockVars, m_seek_pts, m_out_pts, pkt, ringVars, putVars, reported>>

RetVideo ==
  /\ s_pc = "ret"
  /\ m_out_pts' = pkt.pts
  /\ s_pc' = "clock"
  /\ UNCHANGED <<time, clockVars, m_seek_pts, pkt, ringVars, putVars, reported>>

Sender == Clock \/ NotDue \/ GetStartPts \/ GetTestEnable \/ GetNothing \/ Take \/ Send \/ RetVideo

Next == Tick \/ Demuxer \/ Sender

Spec == Init /\ [][Next]_vars

-----------------------------------------------------------------------------
TypeOK ==
  /\ time \in 0 .. MaxTime /\ m_begin \in 0 .. time /\ m_now_pts \in Nat
  /\ m_seek_pts \in Nat /\ m_seek_old_pts \in Nat /\ m_out_pts \in Nat
  /\ skip_cnt \in 0 .. Gop
  /\ s_pc \in {"clock", "due", "enable", "take", "send", "ret"} /\ pkt \in Packet
  /\ queue \in Seq(Packet) /\ Filled <= Slots
  /\ m_start_pts \in Nat /\ m_bEnable \in BOOLEAN /\ seek \in 0 .. MaxSeeks
  /\ d_pc \in {"put", "start", "enable"} /\ target \in Nat /\ next \in Nat
  /\ d_pc = "start" => seek < MaxSeeks
  /\ reported \in 0 .. seek /\ noticed \in 0 .. reported

(* A packet is not sent before the clock, counted from the seek point the   *)
(* sender was last told of, has reached the packet before it -- although    *)
(* the turn that notices a seek compares with a clock that is too far on.   *)
Paced ==
  s_pc = "send" /\ m_seek_pts = m_seek_old_pts =>
    m_out_pts <= m_seek_pts + (time - m_begin)

(* Why Paced holds: where the clock in hand is too far on, skip_cnt is not  *)
(* 0, and what is taken with it is dropped.                                 *)
ClockInv ==
  LET onTime == m_now_pts <= m_seek_old_pts + (time - m_begin) IN
  /\ s_pc \in {"due", "enable", "take"} => skip_cnt > 0 \/ onTime
  /\ s_pc \in {"enable", "take", "send"} => m_out_pts <= m_now_pts
  /\ s_pc = "send" => onTime

IInv == TypeOK /\ ClockInv

(* Once the clock has been restarted for a seek, nothing from before the    *)
(* seek point is sent: a group of pictures is dropped, and the packets      *)
(* begin at the keyframe at most that far before it.                        *)
NothingBeforeSeek ==
  s_pc = "send" /\ noticed = pkt.seek /\ noticed > 0 => pkt.pts >= m_seek_old_pts

(* When the seek point and the last packet belong to the same seek, the     *)
(* sender is at most two frames from its next turn: a seek to and fro does  *)
(* not leave it waiting for the old position.                               *)
WaitIsShort ==
  s_pc = "due" /\ reported = pkt.seek => m_out_pts <= m_now_pts + 2
=============================================================================
