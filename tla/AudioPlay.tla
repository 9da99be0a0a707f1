------------------------------ MODULE AudioPlay ------------------------------
(***************************************************************************)
(* The audio branch of CDemuxer::Demux: the file loop, play_seek and the   *)
(* reading of blocks of AUDIO_BUFF_SIZE bytes into the audio ring, against *)
(* the commands that CCommMgr's thread stores without a lock.  The ring is *)
(* that of AudioQueue, of which only the fill level matters here: nothing  *)
(* takes a block out, since nothing enables the ring of an audio channel.  *)
(***************************************************************************)
EXTENDS Integers, FiniteSets

CONSTANTS NFiles,    \* files.size()
          Length,    \* blocks in each file
          Frames,    \* the frames that play_seek asks for (bound)
          MaxSeeks,  \* play_seek commands (bound)
          MaxSets,   \* other commands (bound)
          MaxAudio   \* m_nMaxAudioQueue

Files == 0 .. NFiles - 1

ASSUME AudioPlayAssumption == /\ NFiles \in Nat
                              /\ Length \in [Files -> Nat]
                              /\ Frames \subseteq Nat
                              /\ MaxSeeks \in Nat /\ MaxSets \in Nat /\ MaxAudio \in Nat

First[f \in 0 .. NFiles] == IF f = 0 THEN 0 ELSE First[f - 1] + Length[f - 1]

\* What audio_buf holds when it holds no whole block.
Junk == -1

VARIABLES
    m_nMoveIdx, m_nSeekFrame, m_IsMove,
    m_IsPause, m_bIsRerverse, m_nSpeed,
    m_bExit,
    i,              \* the file that is open
    pos,            \* the block ifs reads next; below 0 once ifs has failed
    eof,            \* ifs.eof()
    m_IsAudioRead,
    m_nAudioCount,
    audio_buf,      \* the block, by its number in the recording, or Junk
    m_nAudio,       \* the fill level of the ring
    d_pc,           \* where the demuxer thread is
    d_frame,        \* what it has loaded of m_nSeekFrame
    c_pc, c_frame,  \* where the command thread is, the frame last asked for
    seeks, sets,    \* commands so far
    lost,           \* history: a play_seek was not served as asked
    put             \* history: what was put into the ring

seekVars == <<m_nMoveIdx, m_nSeekFrame, m_IsMove>>
settings == <<m_IsPause, m_bIsRerverse, m_nSpeed>>
file == <<i, pos, eof>>
block == <<m_IsAudioRead, m_nAudioCount, audio_buf>>
ring == <<m_nAudio, put>>
command == <<c_pc, c_frame, seeks, sets>>
vars == <<seekVars, settings, m_bExit, file, block, ring, d_pc, d_frame, command, lost>>

\* A play_seek that has stored its frame and is not yet taken as a move.
Pending == c_pc = "flag" \/ m_IsMove

TypeOK ==
    /\ m_nMoveIdx \in 0 .. NFiles /\ m_nSeekFrame \in Int /\ m_IsMove \in BOOLEAN
    /\ m_IsPause \in BOOLEAN /\ m_bIsRerverse \in BOOLEAN /\ m_nSpeed \in Nat
    /\ m_bExit \in BOOLEAN
    /\ i \in 0 .. NFiles /\ pos \in Int /\ eof \in BOOLEAN
    /\ d_pc \in {"move", "rebase", "store", "seekg", "served", "read", "put"} => i \in Files
    /\ m_IsAudioRead \in BOOLEAN /\ m_nAudioCount \in Nat
    /\ audio_buf \in Junk .. First[NFiles] - 1
    /\ m_nAudio \in 0 .. MaxAudio
    /\ put \subseteq Junk .. First[NFiles] - 1
    /\ d_pc \in {"open", "move", "index", "rebase", "store", "seekg", "served",
                "read", "put", "done"}
    /\ d_frame \in Int
    /\ c_pc \in {"idle", "frame", "flag"} /\ c_frame \in Nat
    /\ seeks \in 0 .. MaxSeeks /\ sets \in 0 .. MaxSets
    /\ lost \in BOOLEAN

\* The list of files is there.
Init ==
    /\ m_nMoveIdx = 0 /\ m_nSeekFrame = 0 /\ m_IsMove = FALSE
    /\ m_IsPause = FALSE /\ m_bIsRerverse = FALSE /\ m_nSpeed = 1
    /\ m_bExit = FALSE
    /\ i = 0 /\ pos = 0 /\ eof = FALSE
    /\ m_IsAudioRead = FALSE /\ m_nAudioCount = 0 /\ audio_buf = Junk
    /\ m_nAudio = 0 /\ put = {}
    /\ d_pc = "open" /\ d_frame = 0
    /\ c_pc = "idle" /\ c_frame = 0 /\ seeks = 0 /\ sets = 0
    /\ lost = FALSE
-----------------------------------------------------------------------------
(* The command thread. *)

FindFileIndexFromFrame(nFrame) == Cardinality({f \in Files : First[f + 1] <= nFrame})

\* SetMoveSec, three stores.
MoveIndex(nFrame) ==
    /\ c_pc = "idle" /\ seeks < MaxSeeks
    /\ c_frame' = nFrame
    /\ m_nMoveIdx' = FindFileIndexFromFrame(nFrame)
    /\ seeks' = seeks + 1
    /\ c_pc' = "frame"
    /\ lost' = (nFrame = 0)
    /\ UNCHANGED <<m_nSeekFrame, m_IsMove, settings, m_bExit, file, block, ring, d_pc, d_frame, sets>>

MoveFrame ==
    /\ c_pc = "frame"
    /\ m_nSeekFrame' = c_frame
    /\ c_pc' = "flag"
    /\ UNCHANGED <<m_nMoveIdx, m_IsMove, settings, m_bExit, file, block, ring, d_pc, d_frame,
                   c_frame, seeks, sets, lost>>

MoveFlag ==
    /\ c_pc = "flag"
    /\ m_IsMove' = TRUE
    /\ c_pc' = "idle"
    /\ UNCHANGED <<m_nMoveIdx, m_nSeekFrame, settings, m_bExit, file, block, ring, d_pc, d_frame,
                   c_frame, seeks, sets, lost>>

\* SetPause, SetReverse, SetSpeed; the speed counts only as 1 or not.
Set ==
    /\ c_pc = "idle" /\ sets < MaxSets
    /\ sets' = sets + 1
    /\ \/ m_IsPause' = ~m_IsPause /\ UNCHANGED <<m_bIsRerverse, m_nSpeed>>
       \/ m_bIsRerverse' = ~m_bIsRerverse /\ UNCHANGED <<m_IsPause, m_nSpeed>>
       \/ m_nSpeed' \in {1, 2} /\ UNCHANGED <<m_IsPause, m_bIsRerverse>>
       \/ m_IsPause' = FALSE /\ m_bIsRerverse' = FALSE /\ m_nSpeed' = 1
    /\ UNCHANGED <<seekVars, m_bExit, file, block, ring, d_pc, d_frame, c_pc, c_frame, seeks, lost>>

\* ~CDemuxer.
Exit ==
    /\ c_pc = "idle" /\ ~m_bExit
    /\ m_bExit' = TRUE
    /\ UNCHANGED <<seekVars, settings, file, block, ring, d_pc, d_frame, command, lost>>
-----------------------------------------------------------------------------
(* The demuxer thread. *)

\* A file that cannot be opened, and one without frames, end playback.
OpenFile ==
    /\ d_pc = "open"
    /\ \/ /\ ~m_bExit /\ i \in Files /\ Length[i] > 0
          /\ pos' = 0 /\ eof' = FALSE
          /\ d_pc' = "move"
       \/ /\ d_pc' = "done"
          /\ UNCHANGED <<pos, eof>>
    /\ UNCHANGED <<seekVars, settings, m_bExit, i, block, ring, d_frame, command, lost>>

\* The read loop is left for m_bExit; the outer loop then ends as well.
LeaveLoop ==
    /\ d_pc = "move" /\ m_bExit
    /\ d_pc' = "done"
    /\ UNCHANGED <<seekVars, settings, m_bExit, file, block, ring, d_frame, command, lost>>

\* The flag is cleared before the index is read; i++ follows.
TakeMove ==
    /\ \/ /\ d_pc = "move" /\ ~m_bExit /\ m_IsMove
          /\ m_IsMove' = FALSE
          /\ d_pc' = "index"
          /\ UNCHANGED i
       \/ /\ d_pc = "index"
          /\ i' = m_nMoveIdx
          /\ d_pc' = "open"
          /\ UNCHANGED m_IsMove
    /\ UNCHANGED <<m_nMoveIdx, m_nSeekFrame, settings, m_bExit, pos, eof, block, ring, d_frame,
                   command, lost>>

\* No move, and perhaps a frame to seek to.
TestSeek ==
    /\ d_pc = "move" /\ ~m_bExit /\ ~m_IsMove
    /\ IF m_nSeekFrame > 0
         THEN /\ m_nAudioCount' = m_nSeekFrame
              /\ lost' = (lost \/ Pending)
              /\ d_pc' = "rebase"
         ELSE /\ d_pc' = "read"
              /\ UNCHANGED <<m_nAudioCount, lost>>
    /\ UNCHANGED <<seekVars, settings, m_bExit, file, m_IsAudioRead, audio_buf, ring, d_frame,
                   command>>

\* A mutant: the frame is not made relative to the file.
RebaseNot ==
    /\ d_pc = "rebase"
    /\ d_frame' = m_nSeekFrame
    /\ d_pc' = "store"
    /\ UNCHANGED <<seekVars, settings, m_bExit, file, block, ring, command, lost>>

\* m_nSeekFrame - (last_frame * m_nMoveIdx), where last_frame is the length of
\* the open file: right if the files before have that length too.
Rebase ==
    /\ d_pc = "rebase"
    /\ d_frame' = m_nSeekFrame - Length[i] * m_nMoveIdx
    /\ d_pc' = "store"
    /\ UNCHANGED <<seekVars, settings, m_bExit, file, block, ring, command, lost>>

StoreFrame ==
    /\ d_pc = "store"
    /\ m_nSeekFrame' = d_frame
    /\ lost' = (lost \/ c_pc # "idle" \/ m_IsMove)
    /\ d_pc' = "seekg"
    /\ UNCHANGED <<m_nMoveIdx, m_IsMove, settings, m_bExit, file, block, ring, d_frame, command>>

\* ifs.seekg fails below 0, and all that follows on this file fails.
Seekg ==
    /\ d_pc = "seekg"
    /\ pos' = IF pos < 0 THEN pos ELSE m_nSeekFrame
    /\ d_pc' = "served"
    /\ lost' = (lost \/ c_pc # "idle" \/ m_IsMove)
    /\ UNCHANGED <<seekVars, settings, m_bExit, i, eof, block, ring, d_frame, command>>

\* m_nSeekFrame = 0, whatever it holds by now.
SeekServed ==
    /\ d_pc = "served"
    /\ m_nSeekFrame' = 0
    /\ d_pc' = "read"
    /\ lost' = (lost \/ c_pc # "idle" \/ m_IsMove)
    /\ UNCHANGED <<m_nMoveIdx, m_IsMove, settings, m_bExit, file, block, ring, d_frame, command>>

\* ifs.read, once: m_IsAudioRead is never reset.
Read ==
    /\ d_pc = "read"
    /\ IF ~m_IsPause /\ ~m_IsAudioRead
         THEN /\ m_IsAudioRead' = TRUE
              /\ m_nAudioCount' = m_nAudioCount + 1
              /\ eof' = (pos >= Length[i])
              /\ IF pos \in 0 .. Length[i] - 1
                   THEN audio_buf' = First[i] + pos /\ pos' = pos + 1
                   ELSE audio_buf' = Junk /\ UNCHANGED pos
         ELSE UNCHANGED <<block, pos, eof>>
    /\ d_pc' = "put"
    /\ UNCHANGED <<seekVars, settings, m_bExit, i, ring, d_frame, command, lost>>

EndOfFile ==
    /\ d_pc = "put" /\ eof
    /\ i' = i + 1
    /\ d_pc' = "open"
    /\ UNCHANGED <<seekVars, settings, m_bExit, pos, eof, block, ring, d_frame, command, lost>>

\* audio_buf lives for one turn of the loop: in a later one the memory may hold
\* something else.
Kept == audio_buf' \in {audio_buf, Junk}

\* Two mutants: PutAudio returns the size of what it has stored; and the block is
\* put again until it is.
PutSize ==
    /\ d_pc = "put" /\ ~eof
    /\ IF ~m_IsPause /\ ~m_bIsRerverse /\ m_nSpeed = 1 /\ m_IsAudioRead /\ m_nAudio < MaxAudio
         THEN m_nAudio' = m_nAudio + 1 /\ put' = put \cup {audio_buf} /\ m_IsAudioRead' = FALSE
         ELSE UNCHANGED <<ring, m_IsAudioRead>>
    /\ Kept
    /\ d_pc' = "move"
    /\ UNCHANGED <<seekVars, settings, m_bExit, file, m_nAudioCount, d_frame, command, lost>>

PutUntilStored ==
    /\ d_pc = "put" /\ ~eof
    /\ IF m_nAudio < MaxAudio
         THEN m_nAudio' = m_nAudio + 1 /\ put' = put \cup {audio_buf} /\ d_pc' = "move"
         ELSE UNCHANGED <<ring, d_pc>>
    /\ Kept
    /\ UNCHANGED <<seekVars, settings, m_bExit, file, m_IsAudioRead, m_nAudioCount, d_frame,
                   command, lost>>

\* PutAudio returns 0, whether it has stored the block or not.
Put ==
    /\ d_pc = "put" /\ ~eof
    /\ IF ~m_IsPause /\ ~m_bIsRerverse /\ m_nSpeed = 1 /\ m_IsAudioRead /\ m_nAudio < MaxAudio
         THEN m_nAudio' = m_nAudio + 1 /\ put' = put \cup {audio_buf}
         ELSE UNCHANGED ring
    /\ Kept
    /\ d_pc' = "move"
    /\ UNCHANGED <<seekVars, settings, m_bExit, file, m_IsAudioRead, m_nAudioCount, d_frame,
                   command, lost>>

Command == (\E nFrame \in Frames : MoveIndex(nFrame)) \/ MoveFrame \/ MoveFlag \/ Set \/ Exit

Demuxer == \/ OpenFile \/ LeaveLoop \/ TakeMove \/ TestSeek \/ Rebase \/ StoreFrame \/ Seekg
           \/ SeekServed \/ Read \/ EndOfFile \/ Put

Done == d_pc = "done" /\ UNCHANGED vars

Next == Command \/ Demuxer \/ Done

\* The demuxer thread keeps running.
Spec == Init /\ [][Next]_vars /\ WF_vars(Demuxer)
-----------------------------------------------------------------------------
(* Properties. *)

(* Of the whole recording one block reaches the ring, over and over: it is
   taken for one still to be put, whatever is sought, paused or opened. *)
OneBlock == Cardinality(put \ {Junk}) <= 1

\* The last play_seek was served, no store of its thread fell in between, and
\* the files before the one it asked for have that one's length.
Settled == /\ seeks > 0 /\ c_pc = "idle" /\ ~m_IsMove /\ ~lost
           /\ \A f \in 0 .. i - 1 : Length[f] = Length[i]

(* The block read after a play_seek is the one asked for, and m_nAudioCount,
   from which the seek point is computed, counts it. *)
Landed ==
    d_pc = "read" /\ Settled /\ ~m_IsAudioRead =>
        First[i] + pos = c_frame /\ m_nAudioCount = c_frame

(* The loop over the block that cannot be put still ends for m_bExit. *)
ExitEnds == m_bExit ~> d_pc = "done"

(* What is played, over variables that keep their types. *)
BlockInv == TypeOK /\ OneBlock
=============================================================================
