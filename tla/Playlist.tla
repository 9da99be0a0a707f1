------------------------------- MODULE Playlist -------------------------------
(***************************************************************************)
(* Which frame of a recording the demuxer reads next: the file loop and the*)
(* read loop of CDemuxer::Demux (src/demuxer.cpp) for a video channel, with*)
(* SeekFrame and Reverse, against the commands play_seek, play_reverse and *)
(* play_pause, which CCommMgr's thread stores into the demuxer's fields    *)
(* without a lock.                                                         *)
(*                                                                         *)
(* A recording is a list of files. Its frames are numbered through, as     *)
(* their time stamps are; a time stamp is given as the frame's number.     *)
(***************************************************************************)
EXTENDS Integers, FiniteSets

CONSTANTS
  NFiles,      \* files.size()
  Length,      \* frames in each file; an empty one ends playback
  Fps,         \* frames in a second, den / num
  Gop,         \* frames from one keyframe to the next
  Seconds,     \* values of move_sec the operator sends (bound)
  MaxSeeks,    \* play_seek commands (bound)
  MaxToggles   \* play_reverse and play_pause commands (bound)

Files == 0 .. NFiles - 1

ASSUME PlaylistAssumption ==
  /\ NFiles \in Nat \ {0}
  /\ Length \in [Files -> Nat]
  /\ Fps \in Nat \ {0} /\ Gop \in Nat \ {0}
  /\ Seconds \subseteq Nat
  /\ MaxSeeks \in Nat /\ MaxToggles \in Nat

(* The first frame of each file; First[NFiles] is the end of the recording. *)
First[i \in 0 .. NFiles] == IF i = 0 THEN 0 ELSE First[i - 1] + Length[i - 1]

Last(f) == First[f + 1] - 1

VARIABLES
  m_nMoveIdx, m_nSeekFrame, m_IsMove,  \* a play_seek, as SetMoveSec leaves it
  m_bIsRerverse,
  m_IsPause,
  m_seek_pts,
  m_reverse_pts,
  m_reverse_count,   \* is it above 0
  m_file_first_pts,
  d_pc,              \* where the demuxer thread is
  i,                 \* index of the file it reads
  pos,               \* the frame av_read_frame returns next
  pkt,               \* pkt.pts
  c_pc,              \* where the command thread is in SetMoveSec
  c_frame,           \* the frame it was last asked for
  unlisted,          \* history: no list of files was there when it was looked up
  seeks, toggles,    \* commands so far
  lost,              \* history: the last play_seek was not served as asked
  cause,             \* history: why the file was opened
  turned,            \* history: Reverse ran since the last SeekFrame or move
  next,              \* history: the frame that follows the one last put, or -1
  prev               \* history: the frame last put, if it was in reverse, or -1

seekVars    == <<m_nMoveIdx, m_nSeekFrame, m_IsMove>>
reverseVars == <<m_reverse_pts, m_reverse_count>>
commVars    == <<c_pc, c_frame, unlisted, seeks, toggles>>
readVars    == <<i, pos, pkt, m_file_first_pts>>
history     == <<lost, cause, turned, next, prev>>
vars == <<seekVars, m_bIsRerverse, m_IsPause, m_seek_pts, reverseVars, d_pc, readVars,
          commVars, history>>

(* The keyframe avformat_seek_file finds in file f at or before frame t.   *)
Keyframe(f, t) ==
  LET g == IF t > Last(f) THEN Last(f) ELSE t IN g - ((g - First[f]) % Gop)

(* What the loop of FindFileIndexFromFrame has left of nFrame after f turns. *)
Rest(nFrame) ==
  LET rest[f \in 0 .. NFiles] == IF f = 0 THEN nFrame ELSE rest[f - 1] - Length[f - 1]
  IN rest

(* A mutant: a file's own length counts as inside it. *)
FindFileIndexLate(nFrame) ==
  CHOOSE f \in 0 .. NFiles :
    /\ f = NFiles \/ Rest(nFrame)[f] <= Length[f]
    /\ \A g \in 0 .. f - 1 : Rest(nFrame)[g] > Length[g]

(* The turn at which that loop breaks; NFiles for a frame past the end.    *)
FindFileIndexFromFrame(nFrame) ==
  CHOOSE f \in 0 .. NFiles :
    /\ f = NFiles \/ Rest(nFrame)[f] < Length[f]
    /\ \A g \in 0 .. f - 1 : Rest(nFrame)[g] >= Length[g]

Init ==
  /\ m_nMoveIdx = 0 /\ m_nSeekFrame = 0 /\ m_IsMove = FALSE
  /\ m_bIsRerverse = FALSE /\ m_IsPause = FALSE
  /\ m_seek_pts = 0
  /\ m_reverse_pts = 0 /\ m_reverse_count = FALSE
  /\ m_file_first_pts = 0
  /\ d_pc = "load" /\ i = 0 /\ pos = 0 /\ pkt = 0
  /\ c_pc = "idle" /\ c_frame = 0 /\ unlisted = TRUE /\ seeks = 0 /\ toggles = 0
  /\ lost = FALSE /\ cause = "next" /\ turned = FALSE /\ next = -1 /\ prev = -1

-----------------------------------------------------------------------------
(* The command thread. SetMoveSec makes three stores, one after the other. *)

(* The list of files is there once the demuxer has copied it to m_files. *)
Loaded == d_pc \notin {"load", "half"}

(* Without it the loop over m_files makes no turn: any frame is in file 0. *)
MoveIndex(sec) ==
  /\ c_pc = "idle" /\ seeks < MaxSeeks
  /\ c_frame' = sec * Fps
  /\ m_nMoveIdx' = IF Loaded THEN FindFileIndexFromFrame(c_frame') ELSE 0
  /\ c_pc' = "frame"
  /\ unlisted' = ~Loaded
  /\ seeks' = seeks + 1
  /\ lost' = (c_frame' = 0 \/ ~Loaded)
  /\ UNCHANGED <<m_nSeekFrame, m_IsMove, m_bIsRerverse, m_IsPause, m_seek_pts, reverseVars,
                 d_pc, readVars, toggles, cause, turned, next, prev>>

(* Halfway through the copy m_files has the type of a list, but no list yet: *)
(* the process may die of it.                                                *)
MoveTorn ==
  /\ c_pc = "idle" /\ seeks < MaxSeeks
  /\ d_pc = "half"
  /\ c_pc' = "dead" /\ d_pc' = "dead"
  /\ UNCHANGED <<seekVars, m_bIsRerverse, m_IsPause, m_seek_pts, reverseVars, readVars,
                 c_frame, unlisted, seeks, toggles, history>>

MoveFrame ==
  /\ c_pc = "frame"
  /\ m_nSeekFrame' = c_frame
  /\ c_pc' = "flag"
  /\ UNCHANGED <<m_nMoveIdx, m_IsMove, m_bIsRerverse, m_IsPause, m_seek_pts, reverseVars,
                 d_pc, readVars, c_frame, unlisted, seeks, toggles, history>>

MoveFlag ==
  /\ c_pc = "flag"
  /\ m_IsMove' = TRUE
  /\ c_pc' = "idle"
  /\ UNCHANGED <<m_nMoveIdx, m_nSeekFrame, m_bIsRerverse, m_IsPause, m_seek_pts, reverseVars,
                 d_pc, readVars, c_frame, unlisted, seeks, toggles, history>>

SetReverse ==
  /\ c_pc = "idle" /\ toggles < MaxToggles
  /\ m_bIsRerverse' = ~m_bIsRerverse
  /\ toggles' = toggles + 1
  /\ UNCHANGED <<seekVars, m_IsPause, m_seek_pts, reverseVars, d_pc, readVars,
                 c_pc, c_frame, unlisted, seeks, history>>

SetPause ==
  /\ c_pc = "idle" /\ toggles < MaxToggles
  /\ m_IsPause' = ~m_IsPause
  /\ toggles' = toggles + 1
  /\ UNCHANGED <<seekVars, m_bIsRerverse, m_seek_pts, reverseVars, d_pc, readVars,
                 c_pc, c_frame, unlisted, seeks, history>>

(* A play_start while the player runs. *)
Resume ==
  /\ c_pc = "idle" /\ toggles < MaxToggles
  /\ m_IsPause' = FALSE /\ m_bIsRerverse' = FALSE
  /\ toggles' = toggles + 1
  /\ UNCHANGED <<seekVars, m_seek_pts, reverseVars, d_pc, readVars,
                 c_pc, c_frame, unlisted, seeks, history>>

Command ==
  \/ \E sec \in Seconds : MoveIndex(sec)
  \/ MoveTorn \/ MoveFrame \/ MoveFlag \/ SetReverse \/ SetPause \/ Resume

-----------------------------------------------------------------------------
(* The demuxer thread. The files are counted in int, but compared with an  *)
(* unsigned size: an index below 0 ends the loop like one past the end.    *)

(* m_files = files, which swaps in a copy: first its type, then the list. *)
LoadFiles ==
  /\ ~Loaded
  /\ d_pc' = IF d_pc = "load" THEN "half" ELSE "open"
  /\ UNCHANGED <<seekVars, m_bIsRerverse, m_IsPause, m_seek_pts, reverseVars, readVars,
                 commVars, history>>

(* A file that does not open ends playback, as does one without frames. *)
OpenFile ==
  /\ d_pc = "open"
  /\ \/ /\ i \in Files /\ Length[i] > 0
        /\ d_pc' = "move"
        /\ pos' = First[i] /\ pkt' = 0 /\ m_file_first_pts' = 0
     \/ /\ d_pc' = "done"
        /\ UNCHANGED <<pos, pkt, m_file_first_pts>>
  /\ UNCHANGED <<seekVars, m_bIsRerverse, m_IsPause, m_seek_pts, reverseVars, i, commVars, history>>

(* The rest of the loop for this file is left, and i++ has run. *)
Leave(index, why) == i' = index /\ cause' = why /\ d_pc' = "open"

(* A mutant: the index is read before the flag is cleared. *)
TakeMoveLate ==
  /\ \/ /\ d_pc = "move" /\ m_IsMove
        /\ i' = IF m_bIsRerverse THEN m_nMoveIdx + 1 ELSE m_nMoveIdx
        /\ cause' = IF m_bIsRerverse THEN "moveBack" ELSE "move"
        /\ d_pc' = "index"
        /\ UNCHANGED <<m_IsMove, turned, next, prev>>
     \/ /\ d_pc = "index"
        /\ m_IsMove' = FALSE
        /\ d_pc' = "open"
        /\ turned' = FALSE /\ next' = -1 /\ prev' = -1
        /\ UNCHANGED <<i, cause>>
  /\ UNCHANGED <<m_nMoveIdx, m_nSeekFrame, m_bIsRerverse, m_IsPause, m_seek_pts, reverseVars,
                 pos, pkt, m_file_first_pts, commVars, lost>>

(* A requested move: clear the flag, then read where to go. *)
TakeMove ==
  /\ \/ /\ d_pc = "move" /\ m_IsMove
        /\ m_IsMove' = FALSE
        /\ d_pc' = "index"
        /\ UNCHANGED <<i, cause, turned, next, prev>>
     \/ /\ d_pc = "index"
        /\ IF m_bIsRerverse THEN Leave(m_nMoveIdx + 1, "moveBack") ELSE Leave(m_nMoveIdx, "move")
        /\ turned' = FALSE /\ next' = -1 /\ prev' = -1
        /\ UNCHANGED m_IsMove
  /\ UNCHANGED <<m_nMoveIdx, m_nSeekFrame, m_bIsRerverse, m_IsPause, m_seek_pts, reverseVars,
                 pos, pkt, m_file_first_pts, commVars, lost>>

NoMove ==
  /\ d_pc = "move" /\ ~m_IsMove
  /\ d_pc' = IF m_nSeekFrame > 0 THEN "seek" ELSE "reverse"
  /\ UNCHANGED <<seekVars, m_bIsRerverse, m_IsPause, m_seek_pts, reverseVars, readVars,
                 commVars, history>>

(* A play_seek that has stored its frame, and is not yet taken as a move. *)
Pending == c_pc = "flag" \/ m_IsMove

(* A mutant: the half second is added. *)
SeekPointAfter == m_nSeekFrame + Fps \div 2

(* SeekFrame aims half a second before the frame. *)
SeekPoint == IF m_nSeekFrame > Fps \div 2 THEN m_nSeekFrame - Fps \div 2 ELSE 0

(* Before the first frame of the open file avformat_seek_file fails and the *)
(* position stays; the queue gets the new seek point either way.            *)
SeekFrame ==
  /\ d_pc = "seek"
  /\ m_seek_pts' = SeekPoint
  /\ pos' = IF SeekPoint < First[i] THEN pos ELSE Keyframe(i, SeekPoint)
  /\ d_pc' = "served"
  /\ lost' = (lost \/ Pending)
  /\ turned' = FALSE /\ next' = -1 /\ prev' = -1
  /\ UNCHANGED <<seekVars, m_bIsRerverse, m_IsPause, reverseVars, i, pkt, m_file_first_pts,
                 commVars, cause>>

(* m_nSeekFrame = 0, whatever it holds by now. *)
SeekServed ==
  /\ d_pc = "served"
  /\ m_nSeekFrame' = 0
  /\ d_pc' = "reverse"
  /\ lost' = (lost \/ Pending)
  /\ UNCHANGED <<m_nMoveIdx, m_IsMove, m_bIsRerverse, m_IsPause, m_seek_pts, reverseVars,
                 readVars, commVars, cause, turned, next, prev>>

Forward ==
  /\ d_pc = "reverse" /\ ~m_bIsRerverse
  /\ m_reverse_count' = FALSE
  /\ d_pc' = "read"
  /\ UNCHANGED <<seekVars, m_bIsRerverse, m_IsPause, m_seek_pts, m_reverse_pts, readVars,
                 commVars, history>>

(* Two mutants: only the first call steps back; and it steps forward. *)
ReversePointKept == IF m_reverse_count THEN m_reverse_pts ELSE pkt - 1
ReversePointUp   == (IF m_reverse_count THEN m_reverse_pts ELSE pkt) + 1

(* m_reverse_pts after its step back; below 0 for the code's wrapped value, *)
(* which avformat_seek_file reads as negative and refuses.                  *)
ReversePoint == (IF m_reverse_count THEN m_reverse_pts ELSE pkt) - 1

(* Reverse seeks to the frame before, or leaves the file for the previous  *)
(* one: when the seek fails, or in the second the file begins in.          *)
Reverse ==
  /\ d_pc = "reverse" /\ m_bIsRerverse
  /\ m_reverse_pts' = ReversePoint
  /\ m_reverse_count' = TRUE
  /\ IF m_reverse_pts' >= First[i] /\ m_file_first_pts <= (m_reverse_pts' \div Fps) * Fps
     THEN /\ pos' = Keyframe(i, m_reverse_pts')
          /\ d_pc' = "read"
          /\ UNCHANGED <<i, cause>>
     ELSE /\ Leave(i - 1, "back")
          /\ UNCHANGED pos
  /\ turned' = TRUE /\ next' = -1
  /\ UNCHANGED <<seekVars, m_bIsRerverse, m_IsPause, m_seek_pts, pkt, m_file_first_pts,
                 commVars, lost, prev>>

ReadFrame ==
  /\ d_pc = "read" /\ pos <= Last(i)
  /\ pkt' = pos /\ pos' = pos + 1
  /\ m_file_first_pts' = IF m_file_first_pts = 0 THEN First[i] ELSE m_file_first_pts
  /\ d_pc' = "put"
  /\ UNCHANGED <<seekVars, m_bIsRerverse, m_IsPause, m_seek_pts, reverseVars, i, commVars, history>>

(* A mutant: the index is advanced here and by the loop. *)
EndOfFileTwice ==
  /\ d_pc = "read" /\ pos > Last(i)
  /\ Leave(i + 2, "next")
  /\ UNCHANGED <<seekVars, m_bIsRerverse, m_IsPause, m_seek_pts, reverseVars, pos, pkt,
                 m_file_first_pts, commVars, lost, turned, next, prev>>

EndOfFile ==
  /\ d_pc = "read" /\ pos > Last(i)
  /\ Leave(i + 1, "next")
  /\ UNCHANGED <<seekVars, m_bIsRerverse, m_IsPause, m_seek_pts, reverseVars, pos, pkt,
                 m_file_first_pts, commVars, lost, turned, next, prev>>

(* PutVideo takes the packet in the end. The ring grants it as long as no  *)
(* Clear has overlapped a GetVideo .. RetVideo (Delivery, VideoQueueImpl);  *)
(* here it is assumed throughout.                                           *)
Put ==
  /\ d_pc = "put"
  /\ next' = pkt + 1
  /\ prev' = IF m_reverse_count THEN pkt ELSE -1
  /\ d_pc' = "move"
  /\ UNCHANGED <<seekVars, m_bIsRerverse, m_IsPause, m_seek_pts, reverseVars, readVars,
                 commVars, lost, cause, turned>>

Demuxer ==
  \/ LoadFiles \/ OpenFile \/ TakeMove \/ NoMove \/ SeekFrame \/ SeekServed \/ Forward \/ Reverse
  \/ ReadFrame \/ EndOfFile \/ Put

Ended == d_pc \in {"done", "dead"} /\ UNCHANGED vars

Next == Command \/ Demuxer \/ Ended

(* The demuxer thread keeps running; no command is promised to arrive. *)
Spec == Init /\ [][Next]_vars /\ WF_vars(Demuxer)

-----------------------------------------------------------------------------
TypeOK ==
  /\ m_nMoveIdx \in 0 .. NFiles /\ m_nSeekFrame \in Nat
  /\ m_IsMove \in BOOLEAN /\ m_bIsRerverse \in BOOLEAN /\ m_IsPause \in BOOLEAN
  /\ m_seek_pts \in Nat
  /\ m_reverse_pts \in Int /\ m_reverse_count \in BOOLEAN
  /\ m_file_first_pts \in {0} \cup {First[f] : f \in Files}
  /\ d_pc \in {"load", "half", "open", "move", "index", "seek", "served", "reverse", "read",
               "put", "done", "dead"}
  /\ i \in -1 .. NFiles + 1
  /\ d_pc \in {"move", "index", "seek", "served", "reverse", "read", "put"} => i \in Files /\ pos \in First[i] .. First[i + 1]
  /\ pkt \in 0 .. First[NFiles]
  /\ c_pc \in {"idle", "frame", "flag", "dead"} /\ c_frame \in Nat
  /\ unlisted \in BOOLEAN
  /\ seeks \in 0 .. MaxSeeks /\ toggles \in 0 .. MaxToggles
  /\ lost \in BOOLEAN /\ turned \in BOOLEAN /\ next \in -1 .. First[NFiles]
  /\ prev \in -1 .. First[NFiles] - 1
  /\ cause \in {"next", "move", "moveBack", "back"}

(* The last play_seek has been served, no store of the command thread fell *)
(* between the demuxer's tests, and playback went forward since.           *)
Settled == seeks > 0 /\ c_pc = "idle" /\ ~Pending /\ ~lost /\ ~turned /\ cause \in {"move", "next"}

(* FindFileIndexFromFrame returns the number of files that end at or before *)
(* the frame: the file that holds it, or files.size() past the end.         *)
FindsFile ==
  \A f \in 0 .. First[NFiles] + Fps :
    FindFileIndexFromFrame(f) = Cardinality({k \in Files : First[k + 1] <= f})

(* The file of the frame last asked for; the first one when the play_seek   *)
(* came before the demuxer had copied the list of files to m_files.         *)
AskedFile == IF unlisted THEN 0 ELSE FindFileIndexFromFrame(c_frame)

(* When a play_seek has been taken as a move, the demuxer is in the file    *)
(* that holds the frame last asked for, however the stores of SetMoveSec    *)
(* fell between the demuxer's tests (in reverse play one file later): the   *)
(* flag is stored last and cleared before the index is read. Only a         *)
(* play_seek that found m_files not yet copied gets another file than it    *)
(* asked for, always the first, and spoils none that comes after it.        *)
RightFile ==
  c_pc = "idle" /\ ~m_IsMove /\ d_pc # "index" =>
    /\ cause = "move" => i = AskedFile
    /\ cause = "moveBack" => i = AskedFile + 1

(* A play_seek that was served undisturbed, and that came when the list of  *)
(* files was there, plays on from no more than half a second and one group  *)
(* of pictures before the frame asked for, and not from behind it.          *)
Landed ==
  d_pc = "put" /\ Settled /\ next = -1 =>
    pkt \in c_frame - (Fps \div 2) - Gop + 1 .. c_frame

(* From then on, in forward play, the seek point the sender's clock starts  *)
(* from is never a group of pictures or more ahead of the frame put.        *)
ClockNotAhead == d_pc = "put" /\ Settled => pkt > m_seek_pts - Gop

(* In forward play, from one frame put to the next one put no frame is      *)
(* skipped or repeated, files ending between them included, unless a seek,  *)
(* a move or reverse play came between.                                     *)
NoGap == d_pc = "put" /\ next # -1 => pkt = next

(* In reverse play, from one frame put to the next one put the recording    *)
(* never goes forward, files left between them included.                    *)
NeverForward == d_pc = "put" /\ m_reverse_count /\ prev # -1 => pkt <= prev

(* Playback ends: forward play at the end of the recording, reverse play at *)
(* its front, whatever commands came before (no play_seek can follow), as   *)
(* long as PutVideo takes every packet in the end. The process may die      *)
(* instead, of a play_seek that meets the list of files half copied.        *)
Ends == <>(d_pc \in {"done", "dead"})

(* Where the demuxer stands: the file it looks up for a frame, the clock it *)
(* gives the sender, and that no index leaves its range.                    *)
Position == TypeOK /\ FindsFile /\ ClockNotAhead

(* The frames put follow each other in the direction of play.               *)
InSequence == NoGap /\ NeverForward
=============================================================================
