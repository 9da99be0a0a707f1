---------------------------- MODULE PlayerProofs ----------------------------
(***************************************************************************)
(* What Player promises of a video channel, for a recording, a ring and    *)
(* groups of packets of any length, any frame rate and any commands: a     *)
(* seek leaves nothing of what was read before it in the ring (RingInv),   *)
(* and packets are spread over time (Spread).                              *)
(*                                                                         *)
(* Neither is inductive: the demuxer, the ring and the sender each keep a  *)
(* seek point of their own, and what ties them together is in IInv.        *)
(***************************************************************************)
EXTENDS Player, TLAPS

(* What a sequence holds after a put.                                       *)
LEMMA AppendFacts ==
  ASSUME NEW S, NEW q \in Seq(S), NEW e \in S
  PROVE  /\ Append(q, e) \in Seq(S) /\ Len(Append(q, e)) = Len(q) + 1
         /\ \A k \in 1 .. Len(q) : Append(q, e)[k] = q[k]
         /\ Append(q, e)[Len(q) + 1] = e
OBVIOUS

(* What it holds after its first packet is taken.                           *)
LEMMA TailFacts ==
  ASSUME NEW S, NEW q \in Seq(S), q # <<>>
  PROVE  /\ Tail(q) \in Seq(S) /\ Len(Tail(q)) = Len(q) - 1 /\ Len(q) \in Nat \ {0}
         /\ \A k \in 1 .. Len(Tail(q)) : Tail(q)[k] = q[k + 1]
         /\ Head(q) = q[1] /\ q[1] \in S
OBVIOUS

(* Packets may carry later seeks than they do.                              *)
LEMMA SeqLarger ==
  ASSUME NEW S, NEW T, S \subseteq T, NEW q \in Seq(S)
  PROVE  q \in Seq(T)
OBVIOUS

(* The point sought for a frame is not behind it.                           *)
LEMMA SeekPointDef == \A f \in Nat : SeekPoint(f) \in 0 .. f
<1>1. Fps \div 2 \in Nat
  BY PlayerAssumption
<1>. QED BY <1>1 DEF SeekPoint

(* The key frame is less than a group of pictures before the frame.         *)
LEMMA KeyframeDef ==
  \A f \in Nat : /\ Keyframe(f) \in 0 .. f
                 /\ f < Keyframe(f) + Gop
<1>. TAKE f \in Nat
<1>1. f = Gop * (f \div Gop) + (f % Gop) /\ f % Gop \in 0 .. Gop - 1 /\ f \div Gop \in Nat
  BY PlayerAssumption
<1>2. Keyframe(f) = Gop * (f \div Gop)
  BY <1>1, PlayerAssumption DEF Keyframe
<1>3. Gop * (f \div Gop) \in Nat
  BY <1>1, PlayerAssumption
<1>. QED BY <1>1, <1>2, <1>3, PlayerAssumption

\* While the demuxer reads or puts, the frame asked for is in the recording, and
\* the packet it has read is the one before the next. A step back that leaves the
\* recording ends the loop.
ReadInv ==
    /\ m_IsMove => served < seeks
    /\ d_pc # "done" /\ ~m_IsMove => m_nSeekFrame < End
    /\ d_pc = "put" /\ ~m_IsMove => m_nSeekFrame = 0
    /\ d_pc = "put" => pos = pkt + 1
    /\ d_pc # "done" /\ m_reverse_count > 0 => m_reverse_pts >= 0

\* A move that is not one to the ring's seek point is about to set another.
MoveInv ==
    d_pc = "top" /\ ~m_IsMove /\ m_nSeekFrame > 0 /\ (served \notin same \/ odd = {}) =>
        SeekPoint(m_nSeekFrame) # m_start_pts

\* The packet k was read for a seek before the last, and nothing since kept the
\* seek point.
Stale(k) == queue[k].seek < served /\ \A s \in queue[k].seek + 1 .. served : s \notin same

\* A packet of such a seek is in the ring only as long as the next put clears it.
StaleInv ==
    (\E k \in 1 .. Len(queue) : Stale(k)) =>
        /\ d_pc = "put" => d_seek # m_start_pts
        /\ d_pc = "top" /\ ~m_IsMove /\ m_nSeekFrame = 0 => d_seek # m_start_pts

\* The first packet read for a new seek point is its key frame, unless it is
\* read in reverse or an empty move came between.
SoughtInv ==
    d_seek # m_start_pts /\ served \notin same =>
        /\ d_pc = "top" /\ ~m_IsMove /\ m_nSeekFrame = 0 => pos = Keyframe(d_seek)
        /\ d_pc = "put" /\ m_reverse_count = 0 => pkt = Keyframe(d_seek)

\* From frame n on, the ring holds the frames one after the other, and the demuxer
\* reads on behind them, or clears the ring first.
From(n) ==
    /\ \A k \in 1 .. Len(queue) : queue[k].pts = n + k - 1
    /\ d_pc = "put" /\ d_seek = m_start_pts => pkt = n + Len(queue)
    /\ d_pc = "top" /\ ~m_IsMove /\ m_nSeekFrame = 0 /\ d_seek = m_start_pts => pos = n + Len(queue)

\* How the clock stands to the ring: nothing was ever taken; nothing taken since
\* the ring was cleared; the first packet taken, the clock not restarted; and the
\* clock running, with the next packet to be sent not due yet after the last.
Unstarted == /\ s_seek = 0 /\ s_old = 0 /\ elapsed = 0 /\ m_out_pts = 0 /\ skip_cnt = 0
             /\ m_start_pts = 0 /\ burst = 0 /\ From(0)
Cleared == /\ s_seek # m_start_pts /\ burst = 0 /\ queue # <<>>
           /\ From(Keyframe(m_start_pts))
Begun == /\ s_seek = m_start_pts /\ NewSeek /\ burst <= 1
         /\ m_out_pts = Keyframe(m_start_pts) /\ From(m_out_pts + 1)
Running == /\ s_seek = m_start_pts /\ ~NewSeek
           /\ m_out_pts + skip_cnt + 1 > m_now_pts
           /\ burst <= 2 /\ (Due => burst <= 1)
           /\ From(m_out_pts + 1)

ClockInv == odd = {} => ~m_bIsRerverse /\ (Unstarted \/ Cleared \/ Begun \/ Running)

IInv == TypeOK /\ ReadInv /\ MoveInv /\ StaleInv /\ SoughtInv /\ ClockInv
-----------------------------------------------------------------------------
(* A packet in the ring.                                                    *)
Packets == [pts : Frames, seek : 0 .. served]

(* The bounds that no state of the demuxer touches.                         *)
LEMMA EndFacts == /\ End - 1 \in Nat /\ 0 \in Frames
                  /\ \A f \in Frames : f \in Nat /\ f < End
BY PlayerAssumption DEF Frames

(* What is known of each packet in the ring.                                *)
LEMMA QueueTyped ==
  ASSUME TypeOK
  PROVE  /\ served \in Nat /\ Len(queue) \in Nat
         /\ \A k \in 1 .. Len(queue) : queue[k].pts \in Frames /\ queue[k].seek \in 0 .. served
<1>1. queue \in Seq(Packets) /\ served \in Nat
  BY DEF TypeOK, Packets
<1>2. Len(queue) \in Nat /\ \A k \in 1 .. Len(queue) : queue[k] \in Packets
  BY <1>1
<1>3. \A e \in Packets : e.pts \in Frames /\ e.seek \in 0 .. served
  BY DEF Packets
<1>. QED BY <1>1, <1>2, <1>3

(* A packet taken from the ring.                                            *)
LEMMA TakeFacts ==
  ASSUME TypeOK, Take
  PROVE  /\ queue' \in Seq(Packets) /\ Len(queue') = Len(queue) - 1 /\ Len(queue) \in Nat \ {0}
         /\ \A k \in 1 .. Len(queue') : k + 1 \in 1 .. Len(queue) /\ queue'[k] = queue[k + 1]
         /\ Head(queue) = queue[1] /\ queue[1] \in Packets /\ m_out_pts' = queue[1].pts
         /\ s_seek' = m_start_pts /\ Due
         /\ UNCHANGED <<request, m_bIsRerverse, reading, d_seek, d_pc, m_start_pts, commands,
                        served, same, odd>>
<1>1. queue # <<>> /\ queue' = Tail(queue) /\ queue \in Seq(Packets)
  BY DEF Take, TypeOK, Packets
<1>2. /\ m_out_pts' = Head(queue).pts /\ s_seek' = m_start_pts /\ Due
      /\ UNCHANGED <<request, m_bIsRerverse, reading, d_seek, d_pc, m_start_pts, commands,
                     served, same, odd>>
  BY DEF Take
<1>3. /\ Tail(queue) \in Seq(Packets) /\ Len(Tail(queue)) = Len(queue) - 1
      /\ Len(queue) \in Nat \ {0}
      /\ \A k \in 1 .. Len(Tail(queue)) : Tail(queue)[k] = queue[k + 1]
      /\ Head(queue) = queue[1] /\ queue[1] \in Packets
  BY <1>1, TailFacts
<1>4. \A k \in 1 .. Len(queue) - 1 : k + 1 \in 1 .. Len(queue)
  BY <1>3
<1>. QED BY <1>1, <1>2, <1>3, <1>4

(* A packet put behind the others.                                          *)
LEMMA PutFacts ==
  ASSUME TypeOK, PutVideo, m_start_pts = d_seek
  PROVE  /\ queue' \in Seq(Packets) /\ Len(queue') = Len(queue) + 1 /\ Len(queue) \in Nat
         /\ Len(queue) # MaxQueue
         /\ \A k \in 1 .. Len(queue) : queue'[k] = queue[k]
         /\ queue'[Len(queue) + 1] = [pts |-> pkt, seek |-> served]
         /\ UNCHANGED <<odd, burst, m_start_pts>>
<1>1. /\ queue' = Append(queue, Packet) /\ ~Full /\ UNCHANGED <<odd, burst, m_start_pts>>
  BY DEF PutVideo
<1>2. queue \in Seq(Packets) /\ Packet \in Packets
  BY DEF TypeOK, Packets, Packet
<1>. QED BY <1>1, <1>2, AppendFacts DEF Full, Packet

(* A packet that clears the ring.                                           *)
LEMMA ClearFacts ==
  ASSUME TypeOK, PutVideo, m_start_pts # d_seek
  PROVE  /\ queue' \in Seq(Packets) /\ Len(queue') = 1
         /\ queue'[1] = [pts |-> pkt, seek |-> served]
         /\ burst' = 0 /\ m_start_pts' = d_seek
         /\ odd' = {} => /\ d_seek # s_seek /\ ~m_bIsRerverse
                         /\ m_reverse_count = 0 /\ served \notin same
<1>1. /\ queue' = <<Packet>> /\ burst' = 0 /\ m_start_pts' = d_seek
      /\ odd' = (IF d_seek = s_seek THEN {"back"} ELSE {})
                   \cup (IF m_bIsRerverse \/ m_reverse_count > 0 THEN {"reverse"} ELSE {})
                   \cup (IF served \in same THEN {"same"} ELSE {})
  BY DEF PutVideo
<1>2. Packet \in Packets
  BY DEF TypeOK, Packets, Packet
<1>3. m_reverse_count \in {0, 1}
  BY DEF TypeOK
<1>. QED BY <1>1, <1>2, <1>3 DEF Packet

(* Types and ranges.                                                        *)
LEMMA TypeStep ==
  ASSUME TypeOK, ReadInv, [Next]_vars
  PROVE  TypeOK'
<1>. USE PlayerAssumption
<1>e. End - 1 \in Nat /\ 0 \in Frames /\ \A f \in Frames : f \in Nat /\ f < End
  BY EndFacts
<1>1. CASE \E second \in Seconds : PlaySeek(second)
  <2>. PICK second \in Seconds : PlaySeek(second)
    BY <1>1
  <2>1. second * Fps \in Nat
    OBVIOUS
  <2>. QED BY <2>1 DEF PlaySeek, TypeOK, request, reading, ring, clock, commands
<1>2. CASE PlayReverse
  BY <1>2, <1>e DEF PlayReverse, TypeOK, request, reading, ring, clock, commands
<1>3. CASE TakeMove
  <2>1. served' = served + 1 /\ served' \in 0 .. seeks
    BY <1>3 DEF TakeMove, TypeOK, ReadInv
  <2>2. [pts : Frames, seek : 0 .. served] \subseteq [pts : Frames, seek : 0 .. served']
    BY <2>1 DEF TypeOK
  <2>3. queue' \in Seq([pts : Frames, seek : 0 .. served']) /\ Len(queue') <= MaxQueue
    <3>1. queue \in Seq([pts : Frames, seek : 0 .. served]) /\ Len(queue) <= MaxQueue
      BY DEF TypeOK
    <3>2. queue' = queue
      BY <1>3 DEF TakeMove, ring
    <3>. QED BY <2>2, <3>1, <3>2, SeqLarger
  <2>4. same' \subseteq 1 .. served' /\ odd' \subseteq {"same", "back", "reverse"}
    <3>1. same' \in {same, same \cup {served'}} /\ odd' \in {odd, odd \cup {"same"}}
      BY <1>3, Zenon DEF TakeMove
    <3>. QED BY <2>1, <3>1 DEF TypeOK
  <2>5. d_pc' \in {"top", "put", "done"} /\ pos' = 0 /\ pkt' = 0 /\ m_IsMove' = FALSE
    BY <1>3 DEF TakeMove
  <2>6. UNCHANGED <<m_nSeekFrame, m_bIsRerverse, m_reverse_pts, m_reverse_count, d_seek, ring,
                    clock, commands, sent, burst>>
    BY <1>3 DEF TakeMove
  <2>7. /\ m_nSeekFrame' \in Nat /\ m_bIsRerverse' \in BOOLEAN /\ d_seek' \in Frames
        /\ m_reverse_pts' \in -1 .. End - 1 /\ m_reverse_count' \in {0, 1}
        /\ m_start_pts' \in Frames /\ s_seek' \in Frames /\ s_old' \in Frames
        /\ elapsed' \in 0 .. End /\ m_out_pts' \in Frames /\ skip_cnt' \in 0 .. Gop
        /\ seeks' \in 0 .. MaxSeeks /\ seeks' = seeks /\ toggles' \in 0 .. MaxToggles
        /\ sent' \in 0 .. served' /\ burst' \in 0 .. 3
    BY <2>1, <2>6 DEF TypeOK, ring, clock, commands
  <2>8. pos' \in 0 .. End /\ pkt' \in Frames /\ served' \in 0 .. seeks'
    BY <2>1, <2>5, <2>7, <1>e
  <2>9. m_IsMove' \in BOOLEAN
    BY <2>5
  <2>. QED BY <2>3, <2>4, <2>5, <2>7, <2>8, <2>9, Zenon DEF TypeOK
<1>4. CASE SeekFrame
  <2>1. m_nSeekFrame \in Nat /\ m_nSeekFrame < End
    BY <1>4 DEF SeekFrame, TypeOK, ReadInv
  <2>2. SeekPoint(m_nSeekFrame) \in Nat /\ SeekPoint(m_nSeekFrame) < End
    BY <2>1, SeekPointDef
  <2>3. Keyframe(SeekPoint(m_nSeekFrame)) \in 0 .. End /\ SeekPoint(m_nSeekFrame) \in Frames
    BY <2>2, KeyframeDef DEF Frames
  <2>. QED BY <1>4, <2>3 DEF SeekFrame, TypeOK, request, reading, ring, clock, commands
<1>5. CASE ReadFrame
  <2>1. CASE pos < End
    BY <1>5, <2>1 DEF ReadFrame, TypeOK, Frames, request, ring, clock, commands
  <2>2. CASE ~(pos < End)
    BY <1>5, <2>2 DEF ReadFrame, TypeOK, request, ring, clock, commands
  <2>. QED BY <2>1, <2>2
<1>6. CASE ReadBack
  <2>1. m_reverse_pts' \in -1 .. End - 1
    BY <1>6, <1>e DEF ReadBack, Reading, TypeOK, ReadInv, Frames
  <2>2. CASE m_reverse_pts' >= 0
    <3>1. Keyframe(m_reverse_pts') \in 0 .. m_reverse_pts'
      BY <2>1, <2>2, KeyframeDef
    <3>2. pkt' \in Frames /\ pos' \in 0 .. End /\ d_pc' = "put"
      BY <1>6, <2>1, <2>2, <3>1 DEF ReadBack, Frames
    <3>. QED BY <1>6, <2>1, <3>2 DEF ReadBack, TypeOK, request, ring, clock, commands
  <2>3. CASE ~(m_reverse_pts' >= 0)
    BY <1>6, <2>1, <2>3 DEF ReadBack, TypeOK, request, ring, clock, commands
  <2>. QED BY <2>2, <2>3
<1>7. CASE PutVideo
  <2>1. queue' \in Seq(Packets) /\ Len(queue') <= MaxQueue
    <3>1. CASE m_start_pts = d_seek
      BY <1>7, <3>1, PutFacts DEF TypeOK
    <3>2. CASE m_start_pts # d_seek
      <4>1. queue' \in Seq(Packets) /\ Len(queue') = 1
        BY <1>7, <3>2, ClearFacts
      <4>. QED BY <4>1
    <3>. QED BY <3>1, <3>2
  <2>2. odd' \subseteq {"same", "back", "reverse"} /\ burst' \in 0 .. 3
    <3>1. CASE m_start_pts = d_seek
      BY <1>7, <3>1, PutFacts DEF TypeOK
    <3>2. CASE m_start_pts # d_seek
      BY <1>7, <3>2 DEF PutVideo
    <3>. QED BY <3>1, <3>2
  <2>3. /\ m_start_pts' = d_seek /\ d_pc' = "top"
        /\ UNCHANGED <<request, m_bIsRerverse, reading, d_seek, clock, commands, served, same, sent>>
    BY <1>7 DEF PutVideo
  <2>. QED BY <2>1, <2>2, <2>3 DEF TypeOK, Packets, request, reading, clock, commands
<1>8. CASE NotDue
  BY <1>8, <1>e DEF NotDue, Restarted, Due, m_now_pts, NewSeek, TypeOK, request, reading, ring,
       clock, commands
<1>9. CASE NoPacket
  BY <1>9, <1>e DEF NoPacket, Restarted, Due, m_now_pts, NewSeek, TypeOK, request, reading,
       ring, clock, commands
<1>10. CASE Skip
  <2>1. Take
    BY <1>10 DEF Skip
  <2>2. queue' \in Seq(Packets) /\ Len(queue') <= MaxQueue
    BY <2>1, TakeFacts DEF TypeOK
  <2>3. queue[1].pts \in Frames /\ queue[1].seek \in 0 .. served /\ Head(queue) = queue[1]
    BY <2>1, TakeFacts DEF Packets
  <2>4. /\ m_out_pts' = queue[1].pts /\ s_seek' = m_start_pts
        /\ UNCHANGED <<request, m_bIsRerverse, reading, d_seek, d_pc, m_start_pts, commands,
                       served, same, odd>>
    BY <2>1, TakeFacts
  <2>5. s_old' = s_seek /\ elapsed' \in 0 .. End /\ skip_cnt' \in 0 .. Gop
    BY <1>10, <1>e DEF Skip, Restarted, TypeOK
  <2>6. sent' \in 0 .. served /\ burst' \in 0 .. 3
    BY <1>10, <2>3 DEF Skip, TypeOK
  <2>. QED BY <2>2, <2>3, <2>4, <2>5, <2>6 DEF TypeOK, Packets, request, reading, commands
<1>11. CASE Send
  <2>1. Take
    BY <1>11 DEF Send
  <2>2. queue' \in Seq(Packets) /\ Len(queue') <= MaxQueue
    BY <2>1, TakeFacts DEF TypeOK
  <2>3. queue[1].pts \in Frames /\ queue[1].seek \in 0 .. served /\ Head(queue) = queue[1]
    BY <2>1, TakeFacts DEF Packets
  <2>4. /\ m_out_pts' = queue[1].pts /\ s_seek' = m_start_pts
        /\ UNCHANGED <<request, m_bIsRerverse, reading, d_seek, d_pc, m_start_pts, commands,
                       served, same, odd>>
    BY <2>1, TakeFacts
  <2>5. s_old' = s_seek /\ elapsed' \in 0 .. End /\ skip_cnt' \in 0 .. Gop
    BY <1>11, <1>e DEF Send, Restarted, TypeOK
  <2>6. sent' \in 0 .. served /\ burst' \in 0 .. 3
    BY <1>11, <2>3 DEF Send, TypeOK
  <2>. QED BY <2>2, <2>3, <2>4, <2>5, <2>6 DEF TypeOK, Packets, request, reading, commands
<1>12. CASE Tick
  BY <1>12, <1>e DEF Tick, NewSeek, Due, m_now_pts, Full, TypeOK, request, reading, ring,
       clock, commands
<1>13. CASE UNCHANGED vars
  BY <1>13, <1>e DEF vars, TypeOK, request, reading, ring, clock, commands
<1>. QED BY <1>1, <1>2, <1>3, <1>4, <1>5, <1>6, <1>7, <1>8, <1>9, <1>10, <1>11, <1>12,
            <1>13 DEF Next, Demuxer, Sender

(* The demuxer's loop.                                                       *)
LEMMA ReadStep ==
  ASSUME TypeOK, ReadInv, [Next]_vars
  PROVE  ReadInv'
<1>. USE PlayerAssumption
<1>1. CASE \E second \in Seconds : PlaySeek(second)
  BY <1>1 DEF PlaySeek, TypeOK, ReadInv, request, reading, ring, clock, commands
<1>2. CASE PlayReverse
  BY <1>2 DEF PlayReverse, TypeOK, ReadInv, request, reading, ring, clock, commands
<1>3. CASE TakeMove
  BY <1>3 DEF TakeMove, TypeOK, ReadInv, request, reading, ring, clock, commands
<1>4. CASE SeekFrame
  BY <1>4 DEF SeekFrame, TypeOK, ReadInv, request, reading, ring, clock, commands
<1>5. CASE ReadFrame
  BY <1>5 DEF ReadFrame, Reading, TypeOK, ReadInv, request, reading, ring, clock, commands
<1>6. CASE ReadBack
  BY <1>6 DEF ReadBack, Reading, TypeOK, ReadInv, request, reading, ring, clock, commands
<1>7. CASE PutVideo
  BY <1>7 DEF PutVideo, TypeOK, ReadInv, request, reading, ring, clock, commands
<1>8. CASE NotDue
  BY <1>8 DEF NotDue, Restarted, Due, m_now_pts, NewSeek, TypeOK, ReadInv, request, reading,
       ring, clock, commands
<1>9. CASE NoPacket
  BY <1>9 DEF NoPacket, Restarted, Due, m_now_pts, NewSeek, TypeOK, ReadInv, request, reading,
       ring, clock, commands
<1>10. CASE Skip
  BY <1>10 DEF Skip, Take, Restarted, Due, m_now_pts, NewSeek, TypeOK, ReadInv, request,
       reading, ring, clock, commands
<1>11. CASE Send
  BY <1>11 DEF Send, Take, Restarted, Due, m_now_pts, NewSeek, TypeOK, ReadInv, request,
       reading, ring, clock, commands
<1>12. CASE Tick
  BY <1>12 DEF Tick, NewSeek, Due, m_now_pts, Full, TypeOK, ReadInv, request, reading, ring,
       clock, commands
<1>13. CASE UNCHANGED vars
  BY <1>13 DEF vars, TypeOK, ReadInv, request, reading, ring, clock, commands
<1>. QED BY <1>1, <1>2, <1>3, <1>4, <1>5, <1>6, <1>7, <1>8, <1>9, <1>10, <1>11, <1>12,
            <1>13 DEF Next, Demuxer, Sender

(* A move is either to the ring's seek point, and then it is in same, or    *)
(* SeekFrame sets another one.                                              *)
LEMMA MoveStep ==
  ASSUME TypeOK, ReadInv, MoveInv, [Next]_vars
  PROVE  MoveInv'
<1>1. CASE \E second \in Seconds : PlaySeek(second)
  BY <1>1 DEF PlaySeek, TypeOK, ReadInv, MoveInv, request, reading, ring, clock, commands
<1>2. CASE PlayReverse
  BY <1>2 DEF PlayReverse, TypeOK, ReadInv, MoveInv, request, reading, ring, clock, commands
<1>3. CASE TakeMove
  <2>1. CASE m_nSeekFrame = 0 \/ SeekPoint(m_nSeekFrame) = m_start_pts
    BY <1>3, <2>1 DEF TakeMove, MoveInv, ring
  <2>2. CASE ~(m_nSeekFrame = 0 \/ SeekPoint(m_nSeekFrame) = m_start_pts)
    <3>1. SeekPoint(m_nSeekFrame)' # m_start_pts'
      BY <1>3, <2>2 DEF TakeMove, SeekPoint, ring
    <3>. QED BY <3>1 DEF MoveInv, SeekPoint
  <2>. QED BY <2>1, <2>2
<1>4. CASE SeekFrame
  BY <1>4 DEF SeekFrame, TypeOK, ReadInv, MoveInv, request, reading, ring, clock, commands
<1>5. CASE ReadFrame
  BY <1>5 DEF ReadFrame, Reading, TypeOK, ReadInv, MoveInv, request, reading, ring, clock,
       commands
<1>6. CASE ReadBack
  BY <1>6 DEF ReadBack, Reading, TypeOK, ReadInv, MoveInv, request, reading, ring, clock,
       commands
<1>7. CASE PutVideo
  BY <1>7 DEF PutVideo, TypeOK, ReadInv, MoveInv, request, reading, ring, clock, commands
<1>8. CASE NotDue
  BY <1>8 DEF NotDue, Restarted, Due, m_now_pts, NewSeek, TypeOK, ReadInv, MoveInv, request,
       reading, ring, clock, commands
<1>9. CASE NoPacket
  BY <1>9 DEF NoPacket, Restarted, Due, m_now_pts, NewSeek, TypeOK, ReadInv, MoveInv, request,
       reading, ring, clock, commands
<1>10. CASE Skip
  BY <1>10 DEF Skip, Take, Restarted, Due, m_now_pts, NewSeek, TypeOK, ReadInv, MoveInv,
       request, reading, ring, clock, commands
<1>11. CASE Send
  BY <1>11 DEF Send, Take, Restarted, Due, m_now_pts, NewSeek, TypeOK, ReadInv, MoveInv,
       request, reading, ring, clock, commands
<1>12. CASE Tick
  BY <1>12 DEF Tick, NewSeek, Due, m_now_pts, Full, TypeOK, ReadInv, MoveInv, request, reading,
       ring, clock, commands
<1>13. CASE UNCHANGED vars
  BY <1>13 DEF vars, TypeOK, ReadInv, MoveInv, request, reading, ring, clock, commands
<1>. QED BY <1>1, <1>2, <1>3, <1>4, <1>5, <1>6, <1>7, <1>8, <1>9, <1>10, <1>11, <1>12,
            <1>13 DEF Next, Demuxer, Sender

(* What is stale stays so as long as the packets do, and no move comes.     *)
LEMMA StaleKept ==
  ASSUME \A k \in 1 .. Len(queue') : \E j \in 1 .. Len(queue) : queue'[k] = queue[j],
         UNCHANGED <<served, same>>
  PROVE  (\E k \in 1 .. Len(queue) : Stale(k))' => \E j \in 1 .. Len(queue) : Stale(j)
BY DEF Stale

(* The ring is cleared before a packet is put behind a stale one.           *)
LEMMA StaleStep ==
  ASSUME TypeOK, ReadInv, MoveInv, StaleInv, [Next]_vars
  PROVE  StaleInv'
<1>1. CASE \E second \in Seconds : PlaySeek(second)
  <2>1. UNCHANGED <<queue, served, same>>
    BY <1>1 DEF PlaySeek, ring
  <2>2. (\E k \in 1 .. Len(queue) : Stale(k))' => \E j \in 1 .. Len(queue) : Stale(j)
    BY <2>1, StaleKept
  <2>. QED BY <1>1, <2>2 DEF PlaySeek, StaleInv, request, reading, ring, clock, commands
<1>2. CASE PlayReverse
  <2>1. UNCHANGED <<queue, served, same>>
    BY <1>2 DEF PlayReverse, ring
  <2>2. (\E k \in 1 .. Len(queue) : Stale(k))' => \E j \in 1 .. Len(queue) : Stale(j)
    BY <2>1, StaleKept
  <2>. QED BY <1>2, <2>2 DEF PlayReverse, StaleInv, request, reading, ring, clock, commands
<1>3. CASE TakeMove
  <2>. SUFFICES ASSUME NEW k \in 1 .. Len(queue'), Stale(k)'
                PROVE  d_pc' = "top" => m_nSeekFrame' > 0
    BY <1>3 DEF TakeMove, StaleInv
  <2>1. UNCHANGED <<queue, m_nSeekFrame>> /\ served' = served + 1 /\ m_nSeekFrame \in Nat
    BY <1>3 DEF TakeMove, TypeOK, ring
  <2>2. queue[k].seek \in Nat /\ served \in Nat
    BY <2>1, QueueTyped
  <2>3. served' \in queue'[k].seek + 1 .. served'
    BY <2>1, <2>2 DEF Stale
  <2>4. served' \notin same'
    BY <2>3 DEF Stale
  <2>5. m_nSeekFrame # 0
    BY <1>3, <2>4 DEF TakeMove
  <2>. QED BY <2>1, <2>5
<1>4. CASE SeekFrame
  <2>1. UNCHANGED <<queue, served, same>>
    BY <1>4 DEF SeekFrame, ring
  <2>2. (\E k \in 1 .. Len(queue) : Stale(k))' => \E j \in 1 .. Len(queue) : Stale(j)
    BY <2>1, StaleKept
  <2>3. ASSUME NEW j \in 1 .. Len(queue), Stale(j)
        PROVE  served \notin same
    <3>1. queue[j].seek \in Nat /\ served \in Nat
      BY QueueTyped
    <3>2. served \in queue[j].seek + 1 .. served
      BY <2>3, <3>1 DEF Stale
    <3>. QED BY <2>3, <3>2 DEF Stale
  <2>4. d_pc' = "top" /\ UNCHANGED m_start_pts /\ d_seek' = SeekPoint(m_nSeekFrame)
    BY <1>4 DEF SeekFrame, ring
  <2>5. served \notin same => SeekPoint(m_nSeekFrame) # m_start_pts
    BY <1>4 DEF SeekFrame, MoveInv
  <2>. QED BY <2>2, <2>3, <2>4, <2>5 DEF StaleInv
<1>5. CASE ReadFrame
  <2>1. UNCHANGED <<queue, served, same>>
    BY <1>5 DEF ReadFrame, ring
  <2>2. (\E k \in 1 .. Len(queue) : Stale(k))' => \E j \in 1 .. Len(queue) : Stale(j)
    BY <2>1, StaleKept
  <2>. QED BY <1>5, <2>2 DEF ReadFrame, Reading, StaleInv, request, reading, ring, clock,
       commands
<1>6. CASE ReadBack
  <2>1. UNCHANGED <<queue, served, same>>
    BY <1>6 DEF ReadBack, ring
  <2>2. (\E k \in 1 .. Len(queue) : Stale(k))' => \E j \in 1 .. Len(queue) : Stale(j)
    BY <2>1, StaleKept
  <2>. QED BY <1>6, <2>2 DEF ReadBack, Reading, StaleInv, request, reading, ring, clock,
       commands
<1>7. CASE PutVideo
  <2>. SUFFICES ASSUME NEW k \in 1 .. Len(queue'), Stale(k)'
                PROVE  FALSE
    BY DEF StaleInv
  <2>0. d_pc = "put" /\ UNCHANGED <<served, same>>
    BY <1>7 DEF PutVideo
  <2>1. CASE m_start_pts # d_seek
    <3>1. queue'[k].seek = served /\ served \in Nat
      BY <1>7, <2>1, ClearFacts DEF TypeOK
    <3>. QED BY <2>0, <3>1 DEF Stale
  <2>2. CASE m_start_pts = d_seek
    <3>1. /\ Len(queue') = Len(queue) + 1 /\ Len(queue) \in Nat
          /\ \A j \in 1 .. Len(queue) : queue'[j] = queue[j]
          /\ queue'[Len(queue) + 1].seek = served
      BY <1>7, <2>2, PutFacts
    <3>2. CASE k = Len(queue) + 1
      BY <2>0, <3>1, <3>2 DEF Stale, TypeOK
    <3>3. CASE k # Len(queue) + 1
      <4>1. k \in 1 .. Len(queue) /\ queue'[k] = queue[k]
        BY <3>1, <3>3
      <4>2. Stale(k)
        BY <2>0, <4>1 DEF Stale
      <4>. QED BY <2>0, <2>2, <4>1, <4>2 DEF StaleInv
    <3>. QED BY <3>2, <3>3
  <2>. QED BY <2>1, <2>2
<1>8. CASE NotDue
  <2>1. UNCHANGED <<queue, served, same>>
    BY <1>8 DEF NotDue, ring
  <2>2. (\E k \in 1 .. Len(queue) : Stale(k))' => \E j \in 1 .. Len(queue) : Stale(j)
    BY <2>1, StaleKept
  <2>. QED BY <1>8, <2>2 DEF NotDue, Restarted, Due, m_now_pts, NewSeek, StaleInv, request,
       reading, ring, clock, commands
<1>9. CASE NoPacket
  <2>1. UNCHANGED <<queue, served, same>>
    BY <1>9 DEF NoPacket, ring
  <2>2. (\E k \in 1 .. Len(queue) : Stale(k))' => \E j \in 1 .. Len(queue) : Stale(j)
    BY <2>1, StaleKept
  <2>. QED BY <1>9, <2>2 DEF NoPacket, Restarted, Due, m_now_pts, NewSeek, StaleInv, request,
       reading, ring, clock, commands
<1>10. CASE Skip
  <2>1. Take
    BY <1>10 DEF Skip
  <2>2. /\ \A k \in 1 .. Len(queue') : \E j \in 1 .. Len(queue) : queue'[k] = queue[j]
        /\ UNCHANGED <<request, d_seek, d_pc, m_start_pts, served, same>>
    BY <2>1, TakeFacts
  <2>3. (\E k \in 1 .. Len(queue) : Stale(k))' => \E j \in 1 .. Len(queue) : Stale(j)
    BY <2>2, StaleKept
  <2>. QED BY <2>2, <2>3 DEF StaleInv, request
<1>11. CASE Send
  <2>1. Take
    BY <1>11 DEF Send
  <2>2. /\ \A k \in 1 .. Len(queue') : \E j \in 1 .. Len(queue) : queue'[k] = queue[j]
        /\ UNCHANGED <<request, d_seek, d_pc, m_start_pts, served, same>>
    BY <2>1, TakeFacts
  <2>3. (\E k \in 1 .. Len(queue) : Stale(k))' => \E j \in 1 .. Len(queue) : Stale(j)
    BY <2>2, StaleKept
  <2>. QED BY <2>2, <2>3 DEF StaleInv, request
<1>12. CASE Tick
  <2>1. UNCHANGED <<queue, served, same>>
    BY <1>12 DEF Tick, ring
  <2>2. (\E k \in 1 .. Len(queue) : Stale(k))' => \E j \in 1 .. Len(queue) : Stale(j)
    BY <2>1, StaleKept
  <2>. QED BY <1>12, <2>2 DEF Tick, NewSeek, Due, m_now_pts, Full, StaleInv, request, reading,
       ring, clock, commands
<1>13. CASE UNCHANGED vars
  <2>1. UNCHANGED <<queue, served, same>>
    BY <1>13 DEF vars, ring
  <2>2. (\E k \in 1 .. Len(queue) : Stale(k))' => \E j \in 1 .. Len(queue) : Stale(j)
    BY <2>1, StaleKept
  <2>. QED BY <1>13, <2>2 DEF vars, StaleInv, request, reading, ring, clock, commands
<1>. QED BY <1>1, <1>2, <1>3, <1>4, <1>5, <1>6, <1>7, <1>8, <1>9, <1>10, <1>11, <1>12,
            <1>13 DEF Next, Demuxer, Sender

(* SeekFrame leaves the demuxer at the key frame.                           *)
LEMMA SoughtStep ==
  ASSUME TypeOK, ReadInv, SoughtInv, [Next]_vars
  PROVE  SoughtInv'
<1>1. CASE \E second \in Seconds : PlaySeek(second)
  BY <1>1 DEF PlaySeek, TypeOK, ReadInv, SoughtInv, request, reading, ring, clock, commands
<1>2. CASE PlayReverse
  BY <1>2 DEF PlayReverse, TypeOK, ReadInv, SoughtInv, request, reading, ring, clock, commands
<1>3. CASE TakeMove
  <2>. SUFFICES ASSUME served' \notin same', d_pc' = "top"
                PROVE  m_nSeekFrame' # 0
    BY <1>3 DEF TakeMove, SoughtInv
  <2>. QED BY <1>3 DEF TakeMove
<1>4. CASE SeekFrame
  BY <1>4 DEF SeekFrame, TypeOK, ReadInv, SoughtInv, request, reading, ring, clock, commands
<1>5. CASE ReadFrame
  BY <1>5 DEF ReadFrame, Reading, TypeOK, ReadInv, SoughtInv, request, reading, ring, clock,
       commands
<1>6. CASE ReadBack
  BY <1>6 DEF ReadBack, Reading, TypeOK, ReadInv, SoughtInv, request, reading, ring, clock,
       commands
<1>7. CASE PutVideo
  BY <1>7 DEF PutVideo, TypeOK, ReadInv, SoughtInv, request, reading, ring, clock, commands
<1>8. CASE NotDue
  BY <1>8 DEF NotDue, Restarted, Due, m_now_pts, NewSeek, TypeOK, ReadInv, SoughtInv, request,
       reading, ring, clock, commands
<1>9. CASE NoPacket
  BY <1>9 DEF NoPacket, Restarted, Due, m_now_pts, NewSeek, TypeOK, ReadInv, SoughtInv,
       request, reading, ring, clock, commands
<1>10. CASE Skip
  BY <1>10 DEF Skip, Take, Restarted, Due, m_now_pts, NewSeek, TypeOK, ReadInv, SoughtInv,
       request, reading, ring, clock, commands
<1>11. CASE Send
  BY <1>11 DEF Send, Take, Restarted, Due, m_now_pts, NewSeek, TypeOK, ReadInv, SoughtInv,
       request, reading, ring, clock, commands
<1>12. CASE Tick
  BY <1>12 DEF Tick, NewSeek, Due, m_now_pts, Full, TypeOK, ReadInv, SoughtInv, request,
       reading, ring, clock, commands
<1>13. CASE UNCHANGED vars
  BY <1>13 DEF vars, TypeOK, ReadInv, SoughtInv, request, reading, ring, clock, commands
<1>. QED BY <1>1, <1>2, <1>3, <1>4, <1>5, <1>6, <1>7, <1>8, <1>9, <1>10, <1>11, <1>12,
            <1>13 DEF Next, Demuxer, Sender

(* A packet is put behind another only if the seek point is kept; and what   *)
(* is then before it is not stale.                                          *)
LEMMA FlushedStep ==
  ASSUME TypeOK, StaleInv, Flushed, [Next]_vars
  PROVE  Flushed'
<1>1. CASE \E second \in Seconds : PlaySeek(second)
  BY <1>1 DEF PlaySeek, Flushed, ring
<1>2. CASE PlayReverse
  BY <1>2 DEF PlayReverse, Flushed, ring
<1>3. CASE TakeMove
  <2>1. same \subseteq same' /\ UNCHANGED queue
    BY <1>3 DEF TakeMove, ring
  <2>. QED BY <2>1 DEF Flushed
<1>4. CASE SeekFrame
  BY <1>4 DEF SeekFrame, Flushed, ring
<1>5. CASE ReadFrame
  BY <1>5 DEF ReadFrame, Flushed, ring
<1>6. CASE ReadBack
  BY <1>6 DEF ReadBack, Flushed, ring
<1>7. CASE PutVideo
  <2>0. d_pc = "put" /\ UNCHANGED <<served, same>>
    BY <1>7 DEF PutVideo
  <2>1. CASE m_start_pts # d_seek
    <3>1. Len(queue') = 1 /\ queue'[1].seek = served /\ served \in Nat
      BY <1>7, <2>1, ClearFacts DEF TypeOK
    <3>. QED BY <3>1 DEF Flushed
  <2>2. CASE m_start_pts = d_seek
    <3>. SUFFICES ASSUME NEW j \in 1 .. Len(queue'), NEW k \in 1 .. Len(queue'),
                         queue'[j].seek < queue'[k].seek
                  PROVE  \E t \in queue'[j].seek + 1 .. queue'[k].seek : t \in same'
      BY DEF Flushed
    <3>1. /\ Len(queue') = Len(queue) + 1 /\ Len(queue) \in Nat
          /\ \A m \in 1 .. Len(queue) : queue'[m] = queue[m]
          /\ queue'[Len(queue) + 1].seek = served
      BY <1>7, <2>2, PutFacts
    <3>2. \A m \in 1 .. Len(queue) : queue[m].seek \in 0 .. served
      BY QueueTyped
    <3>3. j \in 1 .. Len(queue) /\ queue'[j] = queue[j]
      <4>1. j # Len(queue) + 1
        <5>. SUFFICES ASSUME j = Len(queue) + 1 PROVE FALSE
          OBVIOUS
        <5>1. queue'[k].seek \in 0 .. served
          <6>1. CASE k = Len(queue) + 1
            BY <3>1, <6>1, QueueTyped
          <6>2. CASE k # Len(queue) + 1
            <7>1. k \in 1 .. Len(queue)
              BY <3>1, <6>2
            <7>. QED BY <3>1, <3>2, <7>1
          <6>. QED BY <6>1, <6>2
        <5>. QED BY <3>1, <5>1, QueueTyped
      <4>. QED BY <3>1, <4>1
    <3>4. CASE k = Len(queue) + 1
      <4>1. ~Stale(j)
        BY <2>0, <2>2, <3>3 DEF StaleInv
      <4>. QED BY <2>0, <3>1, <3>3, <3>4, <4>1 DEF Stale
    <3>5. CASE k # Len(queue) + 1
      <4>1. k \in 1 .. Len(queue) /\ queue'[k] = queue[k]
        BY <3>1, <3>5
      <4>. QED BY <2>0, <3>3, <4>1 DEF Flushed
    <3>. QED BY <3>4, <3>5
  <2>. QED BY <2>1, <2>2
<1>8. CASE NotDue
  BY <1>8 DEF NotDue, Flushed, ring
<1>9. CASE NoPacket
  BY <1>9 DEF NoPacket, Flushed, ring
<1>10. CASE Skip
  <2>1. Take
    BY <1>10 DEF Skip
  <2>2. /\ \A k \in 1 .. Len(queue') : k + 1 \in 1 .. Len(queue) /\ queue'[k] = queue[k + 1]
        /\ UNCHANGED same
    BY <2>1, TakeFacts
  <2>. QED BY <2>2 DEF Flushed
<1>11. CASE Send
  <2>1. Take
    BY <1>11 DEF Send
  <2>2. /\ \A k \in 1 .. Len(queue') : k + 1 \in 1 .. Len(queue) /\ queue'[k] = queue[k + 1]
        /\ UNCHANGED same
    BY <2>1, TakeFacts
  <2>. QED BY <2>2 DEF Flushed
<1>12. CASE Tick
  BY <1>12 DEF Tick, Flushed, ring
<1>13. CASE UNCHANGED vars
  BY <1>13 DEF vars, Flushed, ring
<1>. QED BY <1>1, <1>2, <1>3, <1>4, <1>5, <1>6, <1>7, <1>8, <1>9, <1>10, <1>11, <1>12,
            <1>13 DEF Next, Demuxer, Sender

(* The clock of the sender and what the ring holds for it.                  *)
LEMMA ClockStep ==
  ASSUME TypeOK, ReadInv, MoveInv, SoughtInv, ClockInv, [Next]_vars
  PROVE  ClockInv'
<1>. USE PlayerAssumption
<1>k. /\ Keyframe(m_start_pts) \in Nat /\ Keyframe(m_start_pts) <= m_start_pts
      /\ m_start_pts < Keyframe(m_start_pts) + Gop /\ m_start_pts \in Nat
      /\ d_seek \in Nat /\ Keyframe(d_seek) \in Nat
  <2>1. m_start_pts \in Nat /\ d_seek \in Nat
    BY DEF TypeOK, Frames
  <2>. QED BY <2>1, KeyframeDef
<1>1. CASE \E second \in Seconds : PlaySeek(second)
  BY <1>1 DEF PlaySeek, ClockInv, Unstarted, Cleared, Begun, Running, From, NewSeek, Due,
       m_now_pts, request, reading, ring, clock, commands
<1>2. CASE PlayReverse
  BY <1>2 DEF PlayReverse, ClockInv
<1>3. CASE TakeMove
  <2>. SUFFICES ASSUME odd' = {} PROVE ClockInv'
    BY DEF ClockInv
  <2>1. odd = {} /\ m_nSeekFrame # 0
    BY <1>3 DEF TakeMove
  <2>2. d_pc' # "put" /\ m_nSeekFrame' # 0
    BY <1>3, <2>1 DEF TakeMove
  <2>3. UNCHANGED <<m_bIsRerverse, d_seek, ring, clock, burst>>
    BY <1>3 DEF TakeMove
  <2>. QED BY <2>1, <2>2, <2>3 DEF ClockInv, Unstarted, Cleared, Begun, Running, From, NewSeek,
       Due, m_now_pts, ring, clock
<1>4. CASE SeekFrame
  <2>. SUFFICES ASSUME odd' = {} PROVE ClockInv'
    BY DEF ClockInv
  <2>1. odd = {} /\ d_pc' = "top" /\ d_seek' = SeekPoint(m_nSeekFrame)
    BY <1>4 DEF SeekFrame
  <2>2. d_seek' # m_start_pts
    BY <1>4, <2>1 DEF SeekFrame, MoveInv
  <2>3. UNCHANGED <<m_bIsRerverse, ring, clock, burst>>
    BY <1>4 DEF SeekFrame
  <2>. QED BY <2>1, <2>2, <2>3 DEF ClockInv, Unstarted, Cleared, Begun, Running, From, NewSeek,
       Due, m_now_pts, ring, clock
<1>5. CASE ReadFrame
  BY <1>5 DEF ReadFrame, Reading, ClockInv, Unstarted, Cleared, Begun, Running, From, NewSeek,
       Due, m_now_pts, request, reading, ring, clock, commands
<1>6. CASE ReadBack
  BY <1>6 DEF ReadBack, ClockInv
<1>7. CASE PutVideo
  <2>. SUFFICES ASSUME odd' = {} PROVE ClockInv'
    BY DEF ClockInv
  <2>0. /\ d_pc = "put" /\ d_pc' = "top" /\ m_start_pts' = d_seek /\ pos = pkt + 1
        /\ UNCHANGED <<request, m_bIsRerverse, reading, d_seek, clock>>
    BY <1>7 DEF PutVideo, ReadInv
  <2>1. CASE m_start_pts # d_seek
    <3>1. /\ Len(queue') = 1 /\ queue'[1].pts = pkt /\ burst' = 0
          /\ d_seek # s_seek /\ ~m_bIsRerverse /\ m_reverse_count = 0 /\ served \notin same
      BY <1>7, <2>1, ClearFacts
    <3>2. pkt = Keyframe(d_seek)
      BY <2>0, <2>1, <3>1 DEF SoughtInv
    <3>3. /\ \A k \in 1 .. Len(queue') : queue'[k].pts = Keyframe(d_seek) + k - 1
          /\ Keyframe(m_start_pts)' = Keyframe(d_seek)
      BY <1>k, <2>0, <3>1, <3>2 DEF Keyframe
    <3>4. From(Keyframe(m_start_pts))'
      BY <2>0, <3>1, <3>2, <3>3 DEF From, reading
    <3>5. queue' # <<>>
      BY <3>1
    <3>. QED BY <2>0, <3>1, <3>4, <3>5 DEF ClockInv, Cleared, clock
  <2>2. CASE m_start_pts = d_seek
    <3>1. /\ Len(queue') = Len(queue) + 1 /\ Len(queue) \in Nat
          /\ \A k \in 1 .. Len(queue) : queue'[k] = queue[k]
          /\ queue'[Len(queue) + 1].pts = pkt
          /\ UNCHANGED <<odd, burst, m_start_pts>>
      BY <1>7, <2>2, PutFacts
    <3>2. ASSUME NEW n \in Int, From(n) PROVE From(n)'
      <4>1. pkt = n + Len(queue) /\ pos' = n + Len(queue')
        BY <2>0, <2>2, <3>1, <3>2 DEF From, reading
      <4>2. ASSUME NEW k \in 1 .. Len(queue') PROVE queue'[k].pts = n + k - 1
        <5>1. CASE k = Len(queue) + 1
          BY <3>1, <4>1, <5>1
        <5>2. CASE k # Len(queue) + 1
          <6>1. k \in 1 .. Len(queue)
            BY <3>1, <5>2
          <6>. QED BY <3>1, <3>2, <6>1 DEF From
        <5>. QED BY <5>1, <5>2
      <4>. QED BY <2>0, <4>1, <4>2 DEF From
    <3>3. queue' # <<>>
      BY <3>1
    <3>4. Keyframe(m_start_pts)' = Keyframe(m_start_pts) /\ Keyframe(m_start_pts) \in Int
      BY <1>k, <3>1 DEF Keyframe
    <3>5. m_out_pts' = m_out_pts /\ m_out_pts + 1 \in Int
      BY <2>0 DEF TypeOK, Frames, clock
    <3>6. /\ From(0) => From(0)'
          /\ From(m_out_pts + 1) => From(m_out_pts + 1)'
          /\ From(Keyframe(m_start_pts)) => From(Keyframe(m_start_pts))'
      <4>1. From(0) => From(0)'
        BY <3>2
      <4>2. From(m_out_pts + 1) => From(m_out_pts + 1)'
        <5>. SUFFICES ASSUME From(m_out_pts + 1) PROVE From(m_out_pts + 1)'
          OBVIOUS
        <5>. PICK n \in Int : n = m_out_pts + 1
          BY <3>5
        <5>1. n = (m_out_pts + 1)'
          BY <3>5
        <5>2. From(n)'
          BY <3>2
        <5>. QED BY <5>1, <5>2 DEF From
      <4>3. From(Keyframe(m_start_pts)) => From(Keyframe(m_start_pts))'
        <5>. SUFFICES ASSUME From(Keyframe(m_start_pts)) PROVE From(Keyframe(m_start_pts))'
          OBVIOUS
        <5>. PICK n \in Int : n = Keyframe(m_start_pts)
          BY <3>4
        <5>1. n = (Keyframe(m_start_pts))'
          BY <3>4
        <5>2. From(n)'
          BY <3>2
        <5>. QED BY <5>1, <5>2 DEF From
      <4>. QED BY <4>1, <4>2, <4>3
    <3>7. Unstarted => Unstarted'
      <4>1. UNCHANGED <<s_seek, s_old, elapsed, m_out_pts, skip_cnt, m_start_pts, burst>>
        BY <2>0, <3>1 DEF clock
      <4>. QED BY <3>6, <4>1 DEF Unstarted
    <3>8. Cleared => Cleared'
      BY <2>0, <3>1, <3>3, <3>6 DEF Cleared, clock
    <3>9. Begun => Begun'
      <4>1. UNCHANGED <<s_seek, s_old, m_out_pts, m_start_pts, burst>>
        BY <2>0, <3>1 DEF clock
      <4>2. Begun => m_out_pts' = Keyframe(m_start_pts)' /\ From(m_out_pts + 1)'
        BY <3>4, <3>6, <4>1 DEF Begun
      <4>. QED BY <4>1, <4>2 DEF Begun, NewSeek
    <3>10. Running => Running'
      <4>1. UNCHANGED <<s_seek, s_old, elapsed, m_out_pts, skip_cnt, m_start_pts, burst>>
        BY <2>0, <3>1 DEF clock
      <4>2. Running => From(m_out_pts + 1)'
        BY <3>6 DEF Running
      <4>. QED BY <4>1, <4>2 DEF Running, NewSeek, Due, m_now_pts
    <3>. QED BY <2>0, <3>1, <3>7, <3>8, <3>9, <3>10 DEF ClockInv
  <2>. QED BY <2>1, <2>2
<1>8. CASE NotDue
  <2>. SUFFICES ASSUME odd = {} PROVE ClockInv'
    BY <1>8 DEF NotDue, ClockInv
  <2>1. /\ m_out_pts > m_now_pts /\ s_old' = s_seek
        /\ elapsed' = (IF NewSeek THEN 0 ELSE elapsed)
        /\ skip_cnt' = (IF NewSeek THEN Gop ELSE skip_cnt)
        /\ UNCHANGED <<request, m_bIsRerverse, reading, d_seek, d_pc, ring, s_seek, m_out_pts, burst>>
    BY <1>8 DEF NotDue, Restarted, Due, m_now_pts, TypeOK, Frames
  <2>2. ~Unstarted /\ ~Begun
    BY <1>k, <2>1 DEF Unstarted, Begun, m_now_pts, TypeOK, Frames
  <2>3. CASE Cleared
    BY <2>1, <2>3 DEF ClockInv, Cleared, From, Keyframe, request, reading, ring
  <2>4. CASE Running
    BY <2>1, <2>4 DEF ClockInv, Running, From, NewSeek, Due, m_now_pts, request, reading, ring
  <2>. QED BY <2>2, <2>3, <2>4 DEF ClockInv
<1>9. CASE NoPacket
  <2>. SUFFICES ASSUME odd = {} PROVE ClockInv'
    BY <1>9 DEF NoPacket, ClockInv
  <2>1. /\ queue = <<>> /\ s_old' = s_seek /\ s_seek' = m_start_pts
        /\ elapsed' = (IF NewSeek THEN 0 ELSE elapsed)
        /\ skip_cnt' = (IF NewSeek THEN Gop ELSE skip_cnt)
        /\ UNCHANGED <<request, m_bIsRerverse, reading, d_seek, d_pc, ring, m_out_pts, burst, odd>>
    BY <1>9 DEF NoPacket, Restarted
  <2>2. \A n : From(n)' <=> From(n)
    BY <2>1 DEF From, request, reading, ring
  <2>3. ~m_bIsRerverse' /\ m_out_pts' = m_out_pts /\ burst' = burst /\ m_start_pts' = m_start_pts
    BY <2>1 DEF ClockInv, ring
  <2>4. CASE Unstarted
    <3>1. Unstarted'
      BY <2>1, <2>2, <2>3, <2>4 DEF Unstarted, NewSeek
    <3>. QED BY <2>3, <3>1 DEF ClockInv
  <2>5. CASE Cleared
    BY <2>1, <2>5 DEF Cleared
  <2>6. CASE Begun
    <3>1. s_seek' = m_start_pts' /\ ~NewSeek' /\ elapsed' = 0 /\ skip_cnt' = Gop
      BY <2>1, <2>3, <2>6 DEF Begun, NewSeek
    <3>2. m_out_pts' + skip_cnt' + 1 > m_now_pts'
      BY <1>k, <2>3, <2>6, <3>1 DEF Begun, m_now_pts, TypeOK, Frames
    <3>3. burst' <= 1 /\ From(m_out_pts + 1)'
      BY <2>2, <2>3, <2>6 DEF Begun, From
    <3>4. Running'
      BY <2>3, <3>1, <3>2, <3>3 DEF Running, TypeOK
    <3>. QED BY <2>3, <3>4 DEF ClockInv
  <2>7. CASE Running
    <3>1. UNCHANGED <<s_seek, s_old, elapsed, skip_cnt, m_out_pts, burst, m_start_pts>>
      BY <2>1, <2>3, <2>7 DEF Running, NewSeek
    <3>2. From(m_out_pts + 1)'
      BY <2>2, <2>3, <2>7 DEF Running, From
    <3>3. Running'
      BY <2>7, <3>1, <3>2 DEF Running, NewSeek, Due, m_now_pts
    <3>. QED BY <2>3, <3>3 DEF ClockInv
  <2>. QED BY <2>4, <2>5, <2>6, <2>7 DEF ClockInv
<1>10. CASE Skip
  <2>t. Take
    BY <1>10 DEF Skip
  <2>. SUFFICES ASSUME odd = {} PROVE ClockInv'
    BY <2>t, TakeFacts DEF ClockInv
  <2>1. /\ Len(queue') = Len(queue) - 1 /\ Len(queue) \in Nat \ {0}
        /\ \A k \in 1 .. Len(queue') : k + 1 \in 1 .. Len(queue) /\ queue'[k] = queue[k + 1]
        /\ m_out_pts' = queue[1].pts /\ s_seek' = m_start_pts /\ m_out_pts <= m_now_pts
        /\ UNCHANGED <<request, m_bIsRerverse, reading, d_seek, d_pc, m_start_pts, odd>>
    BY <2>t, TakeFacts DEF Due
  <2>2. ASSUME NEW n \in Int, From(n)
        PROVE  m_out_pts' = n /\ From(m_out_pts + 1)'
    <3>1. m_out_pts' = n
      BY <2>1, <2>2 DEF From
    <3>2. \A k \in 1 .. Len(queue') : queue'[k].pts = (n + 1) + k - 1
      <4>1. \A k \in 1 .. Len(queue') : k + 1 \in 1 .. Len(queue) /\ queue'[k].pts = n + (k + 1) - 1
        BY <2>1, <2>2 DEF From
      <4>. QED BY <2>1, <4>1
    <3>3. /\ d_pc = "put" /\ d_seek = m_start_pts => pkt = (n + 1) + Len(queue')
          /\ d_pc = "top" /\ ~m_IsMove /\ m_nSeekFrame = 0 /\ d_seek = m_start_pts =>
               pos = (n + 1) + Len(queue')
      BY <2>1, <2>2 DEF From
    <3>. QED BY <2>1, <3>1, <3>2, <3>3 DEF From, request, reading
  <2>3. /\ s_seek \in Nat /\ s_old \in Nat /\ m_start_pts \in Nat /\ m_out_pts \in Nat
        /\ elapsed \in Nat /\ skip_cnt \in Nat /\ burst \in Nat
    BY DEF TypeOK, Frames
  <2>4. ~m_bIsRerverse'
    BY <2>1 DEF ClockInv
  <2>5. /\ s_old' = s_seek /\ burst' = burst
        /\ elapsed' = (IF NewSeek THEN 0 ELSE elapsed)
        /\ skip_cnt' = (IF NewSeek THEN Gop ELSE skip_cnt) - 1
        /\ ~NewSeek => skip_cnt >= 1
    BY <1>10 DEF Skip, Restarted
  <2>6. CASE Unstarted
    BY <2>5, <2>6 DEF Unstarted, NewSeek
  <2>7. CASE Cleared
    <3>1. m_out_pts' = Keyframe(m_start_pts) /\ From(m_out_pts + 1)'
      BY <1>k, <2>2, <2>7 DEF Cleared
    <3>2. Begun'
      BY <2>1, <2>5, <2>7, <3>1 DEF Begun, Cleared, NewSeek, Keyframe
    <3>. QED BY <2>4, <3>2 DEF ClockInv
  <2>8. CASE Begun
    <3>1. m_out_pts' = m_out_pts + 1 /\ From(m_out_pts + 1)'
      BY <2>2, <2>3, <2>8 DEF Begun
    <3>2. m_out_pts' + skip_cnt' + 1 > m_now_pts' /\ ~NewSeek' /\ s_seek' = m_start_pts'
      <4>1. /\ s_seek = m_start_pts /\ s_old' = s_seek /\ skip_cnt' = Gop - 1 /\ elapsed' = 0
            /\ m_out_pts = Keyframe(m_start_pts)
        BY <2>5, <2>8 DEF Begun
      <4>2. s_seek' = m_start_pts' /\ s_seek' = m_start_pts /\ ~NewSeek'
        BY <2>1, <4>1 DEF NewSeek
      <4>3. m_now_pts' = m_start_pts
        BY <2>3, <4>1, <4>2 DEF m_now_pts
      <4>. QED BY <1>k, <2>3, <3>1, <4>1, <4>2, <4>3
    <3>3. Running'
      BY <2>3, <2>5, <2>8, <3>1, <3>2 DEF Begun, Running
    <3>. QED BY <2>4, <3>3 DEF ClockInv
  <2>9. CASE Running
    <3>1. m_out_pts' = m_out_pts + 1 /\ From(m_out_pts + 1)'
      BY <2>2, <2>3, <2>9 DEF Running
    <3>2. m_out_pts' + skip_cnt' + 1 > m_now_pts' /\ ~NewSeek' /\ s_seek' = m_start_pts'
      BY <2>1, <2>3, <2>5, <2>9, <3>1 DEF Running, NewSeek, m_now_pts
    <3>3. burst' <= 1
      BY <2>1, <2>5, <2>9 DEF Running, Due
    <3>4. Running'
      BY <2>3, <2>5, <3>1, <3>2, <3>3 DEF Running
    <3>. QED BY <2>4, <3>4 DEF ClockInv
  <2>. QED BY <2>6, <2>7, <2>8, <2>9 DEF ClockInv
<1>11. CASE Send
  <2>t. Take
    BY <1>11 DEF Send
  <2>. SUFFICES ASSUME odd = {} PROVE ClockInv'
    BY <2>t, TakeFacts DEF ClockInv
  <2>1. /\ Len(queue') = Len(queue) - 1 /\ Len(queue) \in Nat \ {0}
        /\ \A k \in 1 .. Len(queue') : k + 1 \in 1 .. Len(queue) /\ queue'[k] = queue[k + 1]
        /\ m_out_pts' = queue[1].pts /\ s_seek' = m_start_pts /\ m_out_pts <= m_now_pts
        /\ UNCHANGED <<request, m_bIsRerverse, reading, d_seek, d_pc, m_start_pts, odd>>
    BY <2>t, TakeFacts DEF Due
  <2>2. ASSUME NEW n \in Int, From(n)
        PROVE  m_out_pts' = n /\ From(m_out_pts + 1)'
    <3>1. m_out_pts' = n
      BY <2>1, <2>2 DEF From
    <3>2. \A k \in 1 .. Len(queue') : queue'[k].pts = (n + 1) + k - 1
      <4>1. \A k \in 1 .. Len(queue') : k + 1 \in 1 .. Len(queue) /\ queue'[k].pts = n + (k + 1) - 1
        BY <2>1, <2>2 DEF From
      <4>. QED BY <2>1, <4>1
    <3>3. /\ d_pc = "put" /\ d_seek = m_start_pts => pkt = (n + 1) + Len(queue')
          /\ d_pc = "top" /\ ~m_IsMove /\ m_nSeekFrame = 0 /\ d_seek = m_start_pts =>
               pos = (n + 1) + Len(queue')
      BY <2>1, <2>2 DEF From
    <3>. QED BY <2>1, <3>1, <3>2, <3>3 DEF From, request, reading
  <2>3. /\ s_seek \in Nat /\ s_old \in Nat /\ m_start_pts \in Nat /\ m_out_pts \in Nat
        /\ elapsed \in Nat /\ skip_cnt \in Nat /\ burst \in Nat
    BY DEF TypeOK, Frames
  <2>4. ~m_bIsRerverse'
    BY <2>1 DEF ClockInv
  <2>5. /\ ~NewSeek /\ skip_cnt = 0 /\ skip_cnt' = 0 /\ s_old' = s_seek /\ elapsed' = elapsed
        /\ burst' \in {1, burst + 1, burst}
    <3>1. ~NewSeek
      BY <1>11 DEF Send, Restarted
    <3>2. skip_cnt = 0 /\ skip_cnt' = 0 /\ s_old' = s_seek /\ elapsed' = elapsed
      BY <1>11, <3>1 DEF Send, Restarted
    <3>3. burst' \in {1, burst + 1, burst}
      BY <1>11 DEF Send
    <3>. QED BY <3>1, <3>2, <3>3
  <2>6. CASE Unstarted
    <3>1. m_out_pts' = 0 /\ From(m_out_pts + 1)'
      BY <2>2, <2>6 DEF Unstarted
    <3>2. burst' <= 1 /\ ~NewSeek' /\ s_seek' = m_start_pts' /\ m_now_pts' = 0
      BY <2>1, <2>5, <2>6 DEF Unstarted, NewSeek, m_now_pts
    <3>3. Running'
      BY <2>3, <2>5, <3>1, <3>2 DEF Running
    <3>. QED BY <2>4, <3>3 DEF ClockInv
  <2>7. CASE Cleared
    <3>1. m_out_pts' = Keyframe(m_start_pts) /\ From(m_out_pts + 1)'
      BY <1>k, <2>2, <2>7 DEF Cleared
    <3>2. burst' <= 1
      BY <2>5, <2>7 DEF Cleared
    <3>3. Begun'
      BY <2>1, <2>5, <2>7, <3>1, <3>2 DEF Begun, Cleared, NewSeek, Keyframe
    <3>. QED BY <2>4, <3>3 DEF ClockInv
  <2>8. CASE Begun
    BY <2>5, <2>8 DEF Begun
  <2>9. CASE Running
    <3>1. m_out_pts' = m_out_pts + 1 /\ From(m_out_pts + 1)'
      BY <2>2, <2>3, <2>9 DEF Running
    <3>2. m_out_pts' > m_now_pts' /\ ~NewSeek' /\ s_seek' = m_start_pts'
      BY <2>1, <2>3, <2>5, <2>9, <3>1 DEF Running, NewSeek, m_now_pts
    <3>3. burst' <= 2
      BY <2>1, <2>3, <2>5, <2>9 DEF Running, Due
    <3>4. ~Due'
      BY <2>1, <2>3, <2>5, <3>1, <3>2 DEF Due, m_now_pts
    <3>5. m_out_pts' + skip_cnt' + 1 > m_now_pts'
      BY <2>1, <2>3, <2>5, <3>1, <3>2 DEF m_now_pts
    <3>6. Running'
      BY <3>1, <3>2, <3>3, <3>4, <3>5 DEF Running
    <3>. QED BY <2>4, <3>6 DEF ClockInv
  <2>. QED BY <2>6, <2>7, <2>8, <2>9 DEF ClockInv
<1>12. CASE Tick
  <2>. SUFFICES ASSUME odd = {} PROVE ClockInv'
    BY <1>12 DEF Tick, ClockInv
  <2>1. /\ m_out_pts > m_now_pts /\ ~NewSeek /\ elapsed' = elapsed + 1 /\ burst' = 0
        /\ UNCHANGED <<request, m_bIsRerverse, reading, d_seek, d_pc, ring, s_seek, s_old, m_out_pts,
                       skip_cnt>>
    BY <1>12 DEF Tick, Due, m_now_pts, TypeOK, Frames
  <2>2. ~Unstarted /\ ~Begun
    BY <2>1 DEF Unstarted, Begun, m_now_pts
  <2>3. CASE Cleared
    BY <2>1, <2>3 DEF ClockInv, Cleared, From, Keyframe, request, reading, ring
  <2>4. CASE Running
    <3>1. m_out_pts' + skip_cnt' + 1 > m_now_pts'
      BY <2>1, <2>4 DEF Running, m_now_pts, TypeOK, Frames
    <3>. QED BY <2>1, <2>4, <3>1 DEF ClockInv, Running, From, NewSeek, request, reading, ring
  <2>. QED BY <2>2, <2>3, <2>4 DEF ClockInv
<1>13. CASE UNCHANGED vars
  BY <1>13 DEF vars, ClockInv, Unstarted, Cleared, Begun, Running, From, NewSeek, Due,
       m_now_pts, Keyframe, request, reading, ring, clock, commands
<1>. QED BY <1>1, <1>2, <1>3, <1>4, <1>5, <1>6, <1>7, <1>8, <1>9, <1>10, <1>11, <1>12,
            <1>13 DEF Next, Demuxer, Sender

(* Nothing has been read at first.                                          *)
LEMMA InitIInv == Init => IInv /\ Flushed
<1>. SUFFICES ASSUME Init PROVE IInv /\ Flushed
  OBVIOUS
<1>. USE PlayerAssumption
<1>1. queue = <<>> /\ Len(queue) = 0 /\ queue \in Seq([pts : Frames, seek : 0 .. served])
  BY DEF Init
<1>2. TypeOK
  <2>1. m_IsMove \in BOOLEAN /\ m_bIsRerverse \in BOOLEAN
    BY DEF Init
  <2>2. 0 \in Frames /\ 0 \in -1 .. End - 1 /\ 0 \in 0 .. End /\ Len(queue) <= MaxQueue
    BY <1>1, EndFacts
  <2>. QED BY <1>1, <2>1, <2>2 DEF Init, TypeOK
<1>3. ReadInv /\ MoveInv /\ SoughtInv
  BY DEF Init, ReadInv, MoveInv, SoughtInv
<1>4. StaleInv /\ Flushed
  BY <1>1 DEF StaleInv, Flushed
<1>5. ClockInv
  <2>1. From(0)
    BY <1>1 DEF Init, From
  <2>. QED BY <2>1 DEF Init, ClockInv, Unstarted
<1>. QED BY <1>2, <1>3, <1>4, <1>5 DEF IInv

(* All of it holds in every reachable state.                                *)
THEOREM Invariance == Spec => [](IInv /\ Flushed)
<1>1. IInv /\ Flushed /\ [Next]_vars => IInv' /\ Flushed'
  BY TypeStep, ReadStep, MoveStep, StaleStep, SoughtStep, ClockStep, FlushedStep DEF IInv
<1>. QED BY <1>1, InitIInv, PTL DEF Spec

(* A seek leaves nothing of what was read before it in the ring, unless the *)
(* ring cannot tell it from the one before.                                 *)
THEOREM SeekClearsRing == Spec => []RingInv
<1>1. IInv /\ Flushed => RingInv
  BY DEF IInv, RingInv
<1>. QED BY <1>1, Invariance, PTL

(* No more than two packets follow at once, unless one of the four causes   *)
(* that the clock does not account for is there.                            *)
THEOREM PacketsSpread == Spec => []Spread
<1>1. IInv => Spread
  BY DEF IInv, ClockInv, Unstarted, Cleared, Begun, Running, Spread, TypeOK
<1>2. IInv /\ Flushed => Spread
  BY <1>1
<1>. QED BY <1>2, Invariance, PTL
=============================================================================
