------------------------------- MODULE Player -------------------------------
(***************************************************************************)
(* A video channel from end to end: the read loop of the demuxer with seek *)
(* and reverse, the ring, and the clock of the sender.  Each is one step   *)
(* here: their races are in Playlist, VideoQueue and Pacing.  The recording*)
(* is one file, and the machine keeps up: time passes only when there is   *)
(* nothing to do.  Time, time stamps and seek points count in frames.      *)
(***************************************************************************)
EXTENDS Integers, Sequences

CONSTANTS End,         \* frames in the recording
          Fps,         \* den / num
          Gop,         \* info.gop: frames from one key frame to the next
          MaxQueue,    \* m_nMaxQueue
          Seconds,     \* what play_seek asks for
          MaxSeeks,    \* play_seek commands (bound)
          MaxToggles   \* play_reverse commands (bound)

ASSUME PlayerAssumption ==
    /\ End \in Nat \ {0} /\ Fps \in Nat \ {0} /\ Gop \in Nat \ {0}
    /\ MaxQueue \in Nat \ {0, 1}
    /\ Seconds \subseteq Nat
    /\ MaxSeeks \in Nat /\ MaxToggles \in Nat

Frames == 0 .. End - 1

VARIABLES
    m_nSeekFrame, m_IsMove,
    m_bIsRerverse,
    pos,               \* the frame av_read_frame gives next
    pkt,               \* the pts of the packet read last
    m_reverse_pts, m_reverse_count,
    d_seek,            \* the demuxer's m_seek_pts
    d_pc,              \* where the demuxer is
    queue,             \* the ring
    m_start_pts,       \* the ring's seek point
    s_seek, s_old,     \* the sender's m_seek_pts and m_seek_old_pts
    elapsed,           \* now() - m_begin
    m_out_pts,
    skip_cnt,
    seeks, toggles,    \* commands so far
    served,            \* history: the seeks the demuxer has taken as moves
    same,              \* history: those to frame 0, or to the ring's seek point
    odd,               \* history: why the clock may not fit the packets
    sent,              \* history: the seek of the packet sent last
    burst              \* history: packets of that seek sent since the clock or the ring moved on

request == <<m_nSeekFrame, m_IsMove>>
reading == <<pos, pkt, m_reverse_pts, m_reverse_count>>
ring == <<queue, m_start_pts>>
clock == <<s_seek, s_old, elapsed, m_out_pts, skip_cnt>>
commands == <<seeks, toggles>>
vars == <<request, m_bIsRerverse, reading, d_seek, d_pc, ring, clock, commands,
          served, same, odd, sent, burst>>

TypeOK ==
    /\ m_nSeekFrame \in Nat /\ m_IsMove \in BOOLEAN
    /\ m_bIsRerverse \in BOOLEAN
    /\ pos \in 0 .. End /\ pkt \in Frames
    /\ m_reverse_pts \in -1 .. End - 1 /\ m_reverse_count \in {0, 1}
    /\ d_seek \in Frames
    /\ d_pc \in {"top", "put", "done"}
    /\ queue \in Seq([pts : Frames, seek : 0 .. served]) /\ Len(queue) <= MaxQueue
    /\ m_start_pts \in Frames
    /\ s_seek \in Frames /\ s_old \in Frames
    /\ elapsed \in 0 .. End
    /\ m_out_pts \in Frames
    /\ skip_cnt \in 0 .. Gop
    /\ seeks \in 0 .. MaxSeeks /\ toggles \in 0 .. MaxToggles
    /\ served \in 0 .. seeks
    /\ same \subseteq 1 .. served
    /\ odd \subseteq {"same", "back", "reverse"}
    /\ sent \in 0 .. served
    /\ burst \in 0 .. 3

Init ==
    /\ m_nSeekFrame = 0 /\ m_IsMove = FALSE
    /\ m_bIsRerverse = FALSE
    /\ pos = 0 /\ pkt = 0
    /\ m_reverse_pts = 0 /\ m_reverse_count = 0
    /\ d_seek = 0 /\ d_pc = "top"
    /\ queue = <<>> /\ m_start_pts = 0
    /\ s_seek = 0 /\ s_old = 0 /\ elapsed = 0 /\ m_out_pts = 0 /\ skip_cnt = 0
    /\ seeks = 0 /\ toggles = 0
    /\ served = 0 /\ same = {} /\ odd = {} /\ sent = 0 /\ burst = 0
-----------------------------------------------------------------------------
(* Commands. *)

PlaySeek(second) ==
    /\ seeks < MaxSeeks
    /\ seeks' = seeks + 1
    /\ m_nSeekFrame' = second * Fps
    /\ m_IsMove' = TRUE
    /\ UNCHANGED <<m_bIsRerverse, reading, d_seek, d_pc, ring, clock, toggles,
                   served, same, odd, sent, burst>>

PlayReverse ==
    /\ toggles < MaxToggles
    /\ toggles' = toggles + 1
    /\ m_bIsRerverse' = ~m_bIsRerverse
    /\ odd' = odd \cup {"reverse"}
    /\ UNCHANGED <<request, reading, d_seek, d_pc, ring, clock, seeks,
                   served, same, sent, burst>>
-----------------------------------------------------------------------------
(* The demuxer. *)

\* Half a second before the frame; and the key frame at or before a frame.
SeekPoint(frame) == IF frame > Fps \div 2 THEN frame - Fps \div 2 ELSE 0
Keyframe(frame) == (frame \div Gop) * Gop

\* The file is opened again, or left for the next one, which is not there.
TakeMove ==
    /\ d_pc = "top" /\ m_IsMove
    /\ m_IsMove' = FALSE
    /\ pos' = 0 /\ pkt' = 0
    /\ served' = served + 1
    /\ IF m_nSeekFrame = 0 \/ SeekPoint(m_nSeekFrame) = m_start_pts
         THEN same' = same \cup {served'} /\ odd' = odd \cup {"same"}
         ELSE UNCHANGED <<same, odd>>
    /\ d_pc' = IF m_bIsRerverse \/ m_nSeekFrame >= End THEN "done" ELSE "top"
    /\ UNCHANGED <<m_nSeekFrame, m_bIsRerverse, m_reverse_pts, m_reverse_count, d_seek, ring,
                   clock, commands, sent, burst>>

\* SeekFrame; without it, m_seek_pts stays as it is.
SeekFrame ==
    /\ d_pc = "top" /\ ~m_IsMove /\ m_nSeekFrame > 0
    /\ d_seek' = SeekPoint(m_nSeekFrame)
    /\ pos' = Keyframe(SeekPoint(m_nSeekFrame))
    /\ m_nSeekFrame' = 0
    /\ UNCHANGED <<m_IsMove, m_bIsRerverse, pkt, m_reverse_pts, m_reverse_count, d_pc, ring,
                   clock, commands, served, same, odd, sent, burst>>

Reading == d_pc = "top" /\ ~m_IsMove /\ m_nSeekFrame = 0

ReadFrame ==
    /\ Reading /\ ~m_bIsRerverse
    /\ m_reverse_count' = 0
    /\ IF pos < End
         THEN pkt' = pos /\ pos' = pos + 1 /\ d_pc' = "put"
         ELSE d_pc' = "done" /\ UNCHANGED <<pkt, pos>>
    /\ UNCHANGED <<request, m_bIsRerverse, m_reverse_pts, d_seek, ring, clock, commands,
                   served, same, odd, sent, burst>>

\* Reverse: from one frame further back; before the first one, the seek fails.
ReadBack ==
    /\ Reading /\ m_bIsRerverse
    /\ m_reverse_count' = 1
    /\ m_reverse_pts' = (IF m_reverse_count > 0 THEN m_reverse_pts ELSE pkt) - 1
    /\ IF m_reverse_pts' >= 0
         THEN /\ pkt' = Keyframe(m_reverse_pts')
              /\ pos' = pkt' + 1
              /\ d_pc' = "put"
         ELSE d_pc' = "done" /\ UNCHANGED <<pkt, pos>>
    /\ UNCHANGED <<request, m_bIsRerverse, d_seek, ring, clock, commands,
                   served, same, odd, sent, burst>>

Full == Len(queue) = MaxQueue
Packet == [pts |-> pkt, seek |-> served]

(* A mutant: a new seek point does not clear the ring. *)
PutVideoKeeps ==
    /\ d_pc = "put"
    /\ ~Full
    /\ queue' = Append(queue, Packet)
    /\ m_start_pts' = d_seek
    /\ d_pc' = "top"
    /\ UNCHANGED <<request, m_bIsRerverse, reading, d_seek, clock, commands,
                   served, same, odd, sent, burst>>

\* PutVideo: a seek point other than the last clears the ring. The packet may have
\* been read in reverse.
PutVideo ==
    /\ d_pc = "put"
    /\ IF m_start_pts # d_seek
         THEN /\ queue' = <<Packet>>
              /\ burst' = 0
              /\ odd' = (IF d_seek = s_seek THEN {"back"} ELSE {})
                            \cup (IF m_bIsRerverse \/ m_reverse_count > 0 THEN {"reverse"} ELSE {})
                            \cup (IF served \in same THEN {"same"} ELSE {})
         ELSE /\ ~Full
              /\ queue' = Append(queue, Packet)
              /\ UNCHANGED <<odd, burst>>
    /\ m_start_pts' = d_seek
    /\ d_pc' = "top"
    /\ UNCHANGED <<request, m_bIsRerverse, reading, d_seek, clock, commands,
                   served, same, sent>>

Demuxer == TakeMove \/ SeekFrame \/ ReadFrame \/ ReadBack \/ PutVideo
-----------------------------------------------------------------------------
(* The sender. *)

m_now_pts == s_seek + elapsed
NewSeek == s_seek # s_old
Due == m_out_pts <= m_now_pts

\* The clock: a seek point other than the last restarts it, and the next group of
\* packets is skipped.
Restarted(skip) ==
    /\ s_old' = s_seek
    /\ elapsed' = IF NewSeek THEN 0 ELSE elapsed
    /\ skip = IF NewSeek THEN Gop ELSE skip_cnt

NotDue ==
    /\ ~Due
    /\ Restarted(skip_cnt')
    /\ UNCHANGED <<request, m_bIsRerverse, reading, d_seek, d_pc, ring, s_seek, m_out_pts, commands,
                   served, same, odd, sent, burst>>

\* GetVideo copies the ring's seek point even when there is no packet.
NoPacket ==
    /\ Due /\ queue = <<>>
    /\ Restarted(skip_cnt')
    /\ s_seek' = m_start_pts
    /\ UNCHANGED <<request, m_bIsRerverse, reading, d_seek, d_pc, ring, m_out_pts, commands,
                   served, same, odd, sent, burst>>

Take ==
    /\ Due /\ queue # <<>>
    /\ s_seek' = m_start_pts
    /\ m_out_pts' = Head(queue).pts
    /\ queue' = Tail(queue)
    /\ UNCHANGED <<request, m_bIsRerverse, reading, d_seek, d_pc, m_start_pts, commands,
                   served, same, odd>>

(* A mutant: the packets to skip are not counted down. *)
SkipOn ==
    /\ Take
    /\ \E skip \in 1 .. Gop : Restarted(skip) /\ skip_cnt' = skip
    /\ UNCHANGED <<sent, burst>>

Skip ==
    /\ Take
    /\ \E skip \in 1 .. Gop : Restarted(skip) /\ skip_cnt' = skip - 1
    /\ UNCHANGED <<sent, burst>>

(* A mutant: a seek neither restarts the clock nor skips packets. *)
SendUnskipped ==
    /\ Take
    /\ s_old' = s_seek /\ skip_cnt' = 0
    /\ UNCHANGED elapsed
    /\ sent' = Head(queue).seek
    /\ burst' = IF sent' # sent THEN 1 ELSE IF burst < 3 THEN burst + 1 ELSE burst

Send ==
    /\ Take
    /\ Restarted(0) /\ skip_cnt' = 0
    /\ sent' = Head(queue).seek
    /\ burst' = IF sent' # sent THEN 1 ELSE IF burst < 3 THEN burst + 1 ELSE burst

Sender == NotDue \/ NoPacket \/ Skip \/ Send

\* Time passes when neither thread has anything to do but wait for it.
Tick ==
    /\ d_pc = "done" \/ (d_pc = "put" /\ Full /\ m_start_pts = d_seek)
    /\ ~NewSeek /\ ~Due
    /\ elapsed' = elapsed + 1
    /\ burst' = 0
    /\ UNCHANGED <<request, m_bIsRerverse, reading, d_seek, d_pc, ring, s_seek, s_old, m_out_pts,
                   skip_cnt, commands, served, same, odd, sent>>

Next == (\E second \in Seconds : PlaySeek(second)) \/ PlayReverse \/ Demuxer \/ Sender \/ Tick

Spec == Init /\ [][Next]_vars /\ WF_vars(Demuxer) /\ WF_vars(Sender) /\ WF_vars(Tick)
-----------------------------------------------------------------------------
(* Properties. *)

(* Once a packet of a seek is in the ring, nothing read before it is sent any
   more -- unless the seek ends at the point for which the ring was last filled,
   or is one to second 0, which sets no point: the ring knows a seek by its point
   alone, and what it holds is sent first. *)
Flushed ==
    \A j, k \in 1 .. Len(queue) :
        queue[j].seek < queue[k].seek => \E s \in queue[j].seek + 1 .. queue[k].seek : s \in same

(* Packets are spread over time: no more than two of a seek follow at once.  It takes a
   seek to second 0 or to the ring's seek point, one back to the point the
   sender last saw, or reverse play, whose time stamps fall while the clock
   goes on, to have them sent all at once. *)
Spread == burst > 2 => odd # {}

\* From the key frame on the packets that may be skipped, and one more.
Brief == d_seek - (d_seek % Gop) + Gop + 1 >= End

(* A seek the demuxer has taken shows: a packet read after the last one is sent,
   however the clock stood.  It takes play_reverse, or a seek to the last group
   of packets or so, all of which may be skipped, to have it end unseen. *)
Shown == sent < served ~> (sent = served \/ toggles > 0 \/ Brief)

(* The ring holds what the last seek leaves, and every variable its type. *)
RingInv == TypeOK /\ Flushed
=============================================================================
