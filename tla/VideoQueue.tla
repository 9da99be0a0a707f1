------------------------------ MODULE VideoQueue ------------------------------
(***************************************************************************)
(* The video half of CQueue (src/queue.cpp) together with the two threads  *)
(* that share it: the demuxer thread of the channel, which calls PutVideo  *)
(* from CDemuxer::Demux, and the sender thread, which calls GetVideo and   *)
(* RetVideo from CSender::Run.                                             *)
(*                                                                         *)
(* PutVideo, GetVideo and RetVideo hold m_mutex around their updates, but  *)
(* Clear -- run by PutVideo when the seek point has changed -- does not.   *)
(* Each unsynchronised access is therefore a step of its own, and the two  *)
(* read-modify-writes of RetVideo are split into a load and a store.       *)
(***************************************************************************)
EXTENDS Integers, FiniteSets

CONSTANTS
  NSlots,    \* m_nMaxQueue, MAX_NUM_QUEUE in src/queue.h
  FileLen,   \* packets the demuxer finds from a seek point to the end (bound)
  MaxSeeks,  \* seeks the operator asks for (bound)
  NoPacket,  \* a packet with size 0
  Torn       \* what av_packet_ref copies from a slot Clear is releasing

Slots == 0 .. NSlots - 1

(* A packet is known by the seek it was read after and its place after it. *)
Packet == [seek : Nat, no : Nat]

ASSUME QueueAssumption ==
  /\ NSlots \in Nat /\ NSlots >= 2
  /\ FileLen \in Nat
  /\ MaxSeeks \in Nat
  /\ NoPacket \notin Packet /\ Torn \notin Packet /\ NoPacket # Torn

VARIABLES
  m_pkt,         \* the slots
  m_nReadPos,
  m_nWritePos,
  m_nPacket,
  m_bEnable,
  m_start_pts,   \* the seek the queue was last cleared for
  m_mutex,       \* "free", or the thread that holds m_mutex
  d_pc,          \* where the demuxer thread is
  d_seek,        \* CDemuxer::m_seek_pts, as the ordinal of the seek
  d_idx,         \* Clear's loop counter
  s_pc,          \* where the sender thread is
  s_seek,        \* CSender::m_seek_pts
  s_pkt,         \* the sender's pkt
  s_reg,         \* the value RetVideo has loaded and not yet stored
  puts,          \* history: packets put since the last Clear
  takes,         \* history: packets taken since the last Clear
  crossed        \* history: the last Clear overlapped a Get .. Ret

queueVars   == <<m_pkt, m_nReadPos, m_nWritePos, m_nPacket, m_bEnable, m_start_pts, m_mutex>>
demuxerVars == <<d_pc, d_seek, d_idx>>
senderVars  == <<s_pc, s_seek, s_pkt, s_reg>>
history     == <<puts, takes, crossed>>
vars        == <<queueVars, demuxerVars, senderVars, history>>

NextPos(p) == IF p + 1 >= NSlots THEN 0 ELSE p + 1

(* Where the demuxer is inside Clear, and the sender between finding a     *)
(* packet in GetVideo and giving it back in RetVideo.                      *)
Clearing == d_pc \in {"slots", "rpos", "wpos", "npkt"}
Holding  == s_pc \in {"hold", "pos", "load", "count"}
Inside   == Holding \/ s_pc = "take"

(* The packet the demuxer is putting. *)
Current == [seek |-> d_seek, no |-> IF d_seek = m_start_pts THEN puts + 1 ELSE 1]

Init ==
  /\ m_pkt = [i \in Slots |-> NoPacket]
  /\ m_nReadPos = 0 /\ m_nWritePos = 0 /\ m_nPacket = 0
  /\ m_bEnable = FALSE
  /\ m_start_pts = 0
  /\ m_mutex = "free"
  /\ d_pc = "read" /\ d_seek = 0 /\ d_idx = 0
  /\ s_pc = "poll" /\ s_seek = 0 /\ s_pkt = NoPacket /\ s_reg = 0
  /\ puts = 0 /\ takes = 0 /\ crossed = FALSE

-----------------------------------------------------------------------------
(* The demuxer thread: CDemuxer::Demux, CQueue::PutVideo and CQueue::Clear *)

(* av_read_frame returned the next packet. *)
ReadFrame ==
  /\ d_pc = "read"
  /\ puts < FileLen
  /\ d_pc' = "cmp"
  /\ UNCHANGED <<queueVars, d_seek, d_idx, senderVars, history>>

(* A play_seek is served by SeekFrame before the next packet is read. *)
SeekAndRead ==
  /\ d_pc = "read"
  /\ d_seek < MaxSeeks
  /\ d_seek' = d_seek + 1
  /\ d_pc' = "cmp"
  /\ UNCHANGED <<queueVars, d_idx, senderVars, history>>

(* The last file of the recording is read: the thread ends. *)
EndOfFiles ==
  /\ d_pc = "read"
  /\ puts = FileLen
  /\ d_pc' = "done"
  /\ UNCHANGED <<queueVars, d_seek, d_idx, senderVars, history>>

(* A mutant: the new seek point is stored before Clear has run. *)
PutCompareStored ==
  /\ d_pc = "cmp"
  /\ IF m_start_pts # d_seek
     THEN d_pc' = "slots" /\ d_idx' = 0 /\ crossed' = Inside
     ELSE d_pc' = "start" /\ UNCHANGED <<d_idx, crossed>>
  /\ m_start_pts' = d_seek
  /\ UNCHANGED <<m_pkt, m_nReadPos, m_nWritePos, m_nPacket, m_bEnable, m_mutex,
                 d_seek, senderVars, puts, takes>>

(* PutVideo compares the seek points and enters Clear when they differ. *)
PutCompare ==
  /\ d_pc = "cmp"
  /\ IF m_start_pts # d_seek
     THEN d_pc' = "slots" /\ d_idx' = 0 /\ crossed' = Inside
     ELSE d_pc' = "start" /\ UNCHANGED <<d_idx, crossed>>
  /\ UNCHANGED <<queueVars, d_seek, senderVars, puts, takes>>

(* A mutant: Clear's loop ends one slot early. *)
SlotsLeftShort == d_idx + 2 < NSlots

SlotsLeft == d_idx + 1 < NSlots

(* One turn of Clear's loop: av_packet_unref without the mutex. *)
ClearSlot ==
  /\ d_pc = "slots"
  /\ m_pkt' = [m_pkt EXCEPT ![d_idx] = NoPacket]
  /\ IF SlotsLeft
     THEN d_idx' = d_idx + 1 /\ UNCHANGED d_pc
     ELSE d_idx' = 0 /\ d_pc' = "rpos"
  /\ UNCHANGED <<m_nReadPos, m_nWritePos, m_nPacket, m_bEnable, m_start_pts, m_mutex,
                 d_seek, senderVars, history>>

(* A mutant: Clear forgets the read position. *)
ClearReadPosKept ==
  /\ d_pc = "rpos"
  /\ d_pc' = "wpos"
  /\ UNCHANGED <<queueVars, d_seek, d_idx, senderVars, history>>

ClearReadPos ==
  /\ d_pc = "rpos"
  /\ m_nReadPos' = 0
  /\ d_pc' = "wpos"
  /\ UNCHANGED <<m_pkt, m_nWritePos, m_nPacket, m_bEnable, m_start_pts, m_mutex,
                 d_seek, d_idx, senderVars, history>>

(* m_nWritePos is the demuxer's own, so it needs no step of its own. *)
ClearWritePosAndDisable ==
  /\ d_pc = "wpos"
  /\ m_nWritePos' = 0
  /\ m_bEnable' = FALSE
  /\ d_pc' = "npkt"
  /\ UNCHANGED <<m_pkt, m_nReadPos, m_nPacket, m_start_pts, m_mutex,
                 d_seek, d_idx, senderVars, history>>

ClearCount ==
  /\ d_pc = "npkt"
  /\ m_nPacket' = 0
  /\ puts' = 0 /\ takes' = 0
  /\ d_pc' = "start"
  /\ UNCHANGED <<m_pkt, m_nReadPos, m_nWritePos, m_bEnable, m_start_pts, m_mutex,
                 d_seek, d_idx, senderVars, crossed>>

PutStartPts ==
  /\ d_pc = "start"
  /\ m_start_pts' = d_seek
  /\ d_pc' = "full"
  /\ UNCHANGED <<m_pkt, m_nReadPos, m_nWritePos, m_nPacket, m_bEnable, m_mutex,
                 d_seek, d_idx, senderVars, history>>

Full == NSlots <= m_nPacket

(* The fill level is read without the mutex; when the queue is full        *)
(* PutVideo returns 0 and Demux calls it again for the same packet.        *)
PutTestFull ==
  /\ d_pc = "full"
  /\ d_pc' = IF Full THEN "cmp" ELSE "put"
  /\ UNCHANGED <<queueVars, d_seek, d_idx, senderVars, history>>

(* The part of PutVideo under the mutex. *)
PutStore ==
  /\ d_pc = "put"
  /\ m_mutex = "free"
  /\ m_pkt' = [m_pkt EXCEPT ![m_nWritePos] = Current]
  /\ m_nWritePos' = NextPos(m_nWritePos)
  /\ m_nPacket' = m_nPacket + 1
  /\ puts' = puts + 1
  /\ d_pc' = "enable"
  /\ UNCHANGED <<m_nReadPos, m_bEnable, m_start_pts, m_mutex, d_seek, d_idx,
                 senderVars, takes, crossed>>

PutEnable ==
  /\ d_pc = "enable"
  /\ m_bEnable' = (m_bEnable \/ m_nWritePos > 0)
  /\ d_pc' = "read"
  /\ UNCHANGED <<m_pkt, m_nReadPos, m_nWritePos, m_nPacket, m_start_pts, m_mutex,
                 d_seek, d_idx, senderVars, history>>

Demuxer ==
  \/ ReadFrame \/ SeekAndRead \/ EndOfFiles \/ PutCompare
  \/ ClearSlot \/ ClearReadPos \/ ClearWritePosAndDisable \/ ClearCount
  \/ PutStartPts \/ PutTestFull \/ PutStore \/ PutEnable

-----------------------------------------------------------------------------
(* The sender thread: CSender::Run, CQueue::GetVideo and CQueue::RetVideo. *)

(* GetVideo copies the queue's seek point first, whatever it returns. *)
GetStartPts ==
  /\ s_pc = "poll"
  /\ s_seek' = m_start_pts
  /\ s_pc' = "test"
  /\ UNCHANGED <<queueVars, demuxerVars, s_pkt, s_reg, history>>

GetTestEnable ==
  /\ s_pc = "test"
  /\ s_pc' = IF m_bEnable THEN "lock" ELSE "poll"
  /\ UNCHANGED <<queueVars, demuxerVars, s_seek, s_pkt, s_reg, history>>

(* Under the mutex: the slot at the read position is empty ... *)
GetEmpty ==
  /\ s_pc = "lock"
  /\ m_mutex = "free"
  /\ m_pkt[m_nReadPos] = NoPacket
  /\ s_pc' = "poll"
  /\ UNCHANGED <<queueVars, demuxerVars, s_seek, s_pkt, s_reg, history>>

(* ... or it holds a packet, which the sender goes on to copy. *)
GetFound ==
  /\ s_pc = "lock"
  /\ m_mutex = "free"
  /\ m_pkt[m_nReadPos] # NoPacket
  /\ m_mutex' = "sender"
  /\ s_pc' = "take"
  /\ crossed' = (crossed \/ Clearing)
  /\ UNCHANGED <<m_pkt, m_nReadPos, m_nWritePos, m_nPacket, m_bEnable, m_start_pts,
                 demuxerVars, s_seek, s_pkt, s_reg, puts, takes>>

(* A mutant: the slot is not released after the packet is copied. *)
GetTakeKept ==
  /\ s_pc = "take"
  /\ m_pkt[m_nReadPos] # NoPacket
  /\ s_pkt' = m_pkt[m_nReadPos]
  /\ m_mutex' = "free"
  /\ takes' = takes + 1
  /\ s_pc' = "hold"
  /\ UNCHANGED <<m_pkt, m_nReadPos, m_nWritePos, m_nPacket, m_bEnable, m_start_pts,
                 demuxerVars, s_seek, s_reg, puts, crossed>>

(* av_packet_ref to the sender's packet, av_packet_unref of the slot. *)
GetTake ==
  /\ s_pc = "take"
  /\ m_pkt[m_nReadPos] # NoPacket
  /\ s_pkt' = m_pkt[m_nReadPos]
  /\ m_pkt' = [m_pkt EXCEPT ![m_nReadPos] = NoPacket]
  /\ m_mutex' = "free"
  /\ takes' = takes + 1
  /\ s_pc' = "hold"
  /\ UNCHANGED <<m_nReadPos, m_nWritePos, m_nPacket, m_bEnable, m_start_pts,
                 demuxerVars, s_seek, s_reg, puts, crossed>>

(* Clear released the slot since it was tested: the sender copies a packet *)
(* of size 0, or one whose data is already freed.                          *)
GetRaced ==
  /\ s_pc = "take"
  /\ m_pkt[m_nReadPos] = NoPacket
  /\ m_mutex' = "free"
  /\ \/ s_pc' = "poll" /\ UNCHANGED s_pkt
     \/ s_pc' = "hold" /\ s_pkt' = Torn
  /\ UNCHANGED <<m_pkt, m_nReadPos, m_nWritePos, m_nPacket, m_bEnable, m_start_pts,
                 demuxerVars, s_seek, s_reg, history>>

(* The packet is sent; RetVideo locks, releases it, loads m_nReadPos ... *)
RetLock ==
  /\ s_pc = "hold"
  /\ m_mutex = "free"
  /\ m_mutex' = "sender"
  /\ s_pkt' = NoPacket
  /\ s_reg' = m_nReadPos
  /\ s_pc' = "pos"
  /\ UNCHANGED <<m_pkt, m_nReadPos, m_nWritePos, m_nPacket, m_bEnable, m_start_pts,
                 demuxerVars, s_seek, history>>

(* ... stores the next one ... *)
RetPos ==
  /\ s_pc = "pos"
  /\ m_nReadPos' = NextPos(s_reg)
  /\ s_pc' = "load"
  /\ UNCHANGED <<m_pkt, m_nWritePos, m_nPacket, m_bEnable, m_start_pts, m_mutex,
                 demuxerVars, s_seek, s_pkt, s_reg, history>>

(* ... loads m_nPacket ... *)
RetLoad ==
  /\ s_pc = "load"
  /\ s_reg' = m_nPacket
  /\ s_pc' = "count"
  /\ UNCHANGED <<queueVars, demuxerVars, s_seek, s_pkt, history>>

(* A mutant: RetVideo does not count the packet out. *)
RetCountKept ==
  /\ s_pc = "count"
  /\ m_mutex' = "free"
  /\ s_pc' = "poll"
  /\ UNCHANGED <<m_pkt, m_nReadPos, m_nWritePos, m_nPacket, m_bEnable, m_start_pts,
                 demuxerVars, s_seek, s_pkt, s_reg, history>>

(* ... stores it decremented, and unlocks. *)
RetCount ==
  /\ s_pc = "count"
  /\ m_nPacket' = s_reg - 1
  /\ m_mutex' = "free"
  /\ s_pc' = "poll"
  /\ UNCHANGED <<m_pkt, m_nReadPos, m_nWritePos, m_bEnable, m_start_pts,
                 demuxerVars, s_seek, s_pkt, s_reg, history>>

Sender ==
  \/ GetStartPts \/ GetTestEnable \/ GetEmpty \/ GetFound \/ GetTake \/ GetRaced
  \/ RetLock \/ RetPos \/ RetLoad \/ RetCount

Next == Demuxer \/ Sender

(* Both threads keep running until the channel is closed. *)
Spec == Init /\ [][Next]_vars /\ WF_vars(Demuxer) /\ WF_vars(Sender)

-----------------------------------------------------------------------------
TypeOK ==
  /\ m_pkt \in [Slots -> Packet \cup {NoPacket}]
  /\ m_nReadPos \in Slots /\ m_nWritePos \in Slots
  /\ m_nPacket \in Int
  /\ m_bEnable \in BOOLEAN
  /\ m_start_pts \in Nat
  /\ m_mutex \in {"free", "sender"}
  /\ d_pc \in {"read", "cmp", "slots", "rpos", "wpos", "npkt", "start", "full", "put",
               "enable", "done"}
  /\ d_seek \in Nat /\ d_idx \in Slots
  /\ s_pc \in {"poll", "test", "lock", "take", "hold", "pos", "load", "count"}
  /\ s_seek \in Nat
  /\ s_pkt \in Packet \cup {NoPacket, Torn}
  /\ s_reg \in Int
  /\ puts \in Nat /\ takes \in Nat
  /\ crossed \in BOOLEAN

(* The fill counter never exceeds the ring, and a RetVideo that crosses a  *)
(* Clear leaves it at most one too low: PutVideo's unlocked test of        *)
(* m_nPacket against m_nMaxQueue is off by one packet at worst.            *)
CountBounds == m_nPacket \in -1 .. NSlots

(* Unless the last Clear ran into a GetVideo .. RetVideo, the k-th packet  *)
(* the sender takes after it is the k-th packet the demuxer put after it.  *)
InOrder ==
  (s_pc = "hold" /\ ~crossed) => s_pkt = [seek |-> m_start_pts, no |-> takes]

(* Under the same condition PutVideo's test of the fill level, made before *)
(* it takes the mutex, still guarantees a free slot when it stores.        *)
NoOverwrite ==
  (d_pc = "put" /\ m_mutex = "free" /\ ~crossed) => m_pkt[m_nWritePos] = NoPacket

(* Outside Clear the ring holds packets of the current seek point only:    *)
(* after a seek the viewer gets at most the one packet the sender held.    *)
FlushComplete ==
  ~Clearing => \A i \in Slots : m_pkt[i] # NoPacket => m_pkt[i].seek = m_start_pts

(* The seek point GetVideo reports is never ahead of the packet it         *)
(* returns with it (it can be behind: CSender::Run then paces the packet   *)
(* by the old clock).                                                      *)
SeekNotAhead ==
  (s_pc = "hold" /\ s_pkt # Torn) => s_pkt.seek >= s_seek

-----------------------------------------------------------------------------
(* The inductive invariant behind InOrder and NoOverwrite. While no Clear  *)
(* has crossed a GetVideo .. RetVideo, the ring is a queue of Live packets *)
(* that starts at First.                                                   *)

(* The k-th slot from p on, for k no larger than the ring. *)
SlotAt(p, k) == IF p + k < NSlots THEN p + k ELSE p + k - NSlots

(* How many slots after p the slot i is. *)
Distance(p, i) == IF i >= p THEN i - p ELSE i - p + NSlots

Live  == puts - takes
First == IF s_pc \in {"hold", "pos"} THEN NextPos(m_nReadPos) ELSE m_nReadPos

(* m_mutex is held exactly while the sender is between lock and unlock. *)
MutexInv ==
  /\ (m_mutex = "sender") <=> s_pc \in {"take", "pos", "load", "count"}
  /\ s_pkt # NoPacket => s_pc = "hold"

(* The demuxer's test of the fill level stays good until it stores. *)
FillInv ==
  /\ m_nPacket <= NSlots
  /\ d_pc = "put" => m_nPacket < NSlots
  /\ s_pc = "count" => s_reg <= NSlots
  /\ s_pc = "pos" => s_reg \in Slots

SeekInv ==
  /\ m_start_pts <= d_seek
  /\ d_pc \in {"read", "full", "put", "enable", "done"} => m_start_pts = d_seek
  /\ Clearing => m_start_pts # d_seek

(* A packet of another seek is only found while Clear is on its way to it. *)
SlotInv ==
  /\ FlushComplete
  /\ Clearing => \A i \in Slots : m_pkt[i] # NoPacket =>
                   d_pc = "slots" /\ i >= d_idx /\ m_pkt[i].seek = m_start_pts
  /\ (d_pc = "start" /\ m_start_pts # d_seek) => \A i \in Slots : m_pkt[i] = NoPacket

(* The ring between two Clears. *)
RingInv ==
  /\ Live \in 0 .. NSlots
  /\ m_nPacket = Live + (IF Holding THEN 1 ELSE 0)
  /\ m_nWritePos = SlotAt(First, Live)
  /\ \A i \in Slots :
       m_pkt[i] = IF Distance(First, i) < Live
                  THEN [seek |-> m_start_pts, no |-> takes + 1 + Distance(First, i)]
                  ELSE NoPacket
  /\ s_pc = "take" => Live > 0
  /\ s_pc = "hold" => s_pkt = [seek |-> m_start_pts, no |-> takes]
  /\ s_pc = "pos" => s_reg = m_nReadPos
  /\ s_pc = "count" => s_reg = m_nPacket

(* What Clear has already reset when no Get .. Ret got in its way. *)
ClearInv ==
  /\ ~Inside
  /\ d_pc \in {"wpos", "npkt", "start"} => m_nReadPos = 0
  /\ d_pc \in {"npkt", "start"} => m_nWritePos = 0
  /\ d_pc = "start" => m_nPacket = 0 /\ puts = 0 /\ takes = 0

Flushing == Clearing \/ (d_pc = "start" /\ m_start_pts # d_seek)

SyncInv == ~crossed => IF Flushing THEN ClearInv ELSE RingInv

Filled == {i \in Slots : m_pkt[i] # NoPacket}

(* Crossed or not, the counter covers all filled slots but one. *)
CountInv ==
  /\ s_pc # "take" => Cardinality(Filled) + (IF Holding THEN 1 ELSE 0) <= m_nPacket + 1
  /\ s_pc = "take" => Cardinality(Filled \ {m_nReadPos}) <= m_nPacket
  /\ s_pc = "count" => Cardinality(Filled) <= s_reg

(* The sender's copy of the seek point is one the queue has already had. *)
SeekSeenInv == s_seek <= m_start_pts /\ SeekNotAhead

IInv ==
  /\ TypeOK /\ MutexInv /\ FillInv /\ SeekInv /\ SlotInv /\ SyncInv
  /\ CountInv /\ SeekSeenInv

=============================================================================
