---------------------------- MODULE FormatContext ----------------------------
(***************************************************************************)
(* What the demuxer of a video channel opens for each file, the format     *)
(* context and the bit-stream filter, and the copy of the context's address*)
(* that the sender keeps: it reads streams[0] there once, for the time     *)
(* base, when it has its first packet.  The demuxer may have closed that   *)
(* file by then.  Which file is read next is decided in Playlist; here any *)
(* move may follow a command.                                              *)
(***************************************************************************)
EXTENDS Naturals

CONSTANTS NFiles,    \* files.size()
          Length,    \* frames in each file
          MaxQueue,  \* m_nMaxQueue
          MaxOpens,  \* the files opened (bound)
          MaxMoves   \* play_seek and play_reverse commands that take effect (bound)

Files == 0 .. NFiles - 1

ASSUME ContextAssumption == /\ NFiles \in Nat \ {0}
                            /\ Length \in [Files -> Nat \ {0}]
                            /\ MaxQueue \in Nat \ {0}
                            /\ MaxOpens \in Nat \ {0}
                            /\ MaxMoves \in Nat

\* Addresses: the k-th context allocated, NULL, or what new left in memory.
Null == 0
Contexts == 1 .. MaxOpens
Garbage == MaxOpens + 1

VARIABLES
    i,            \* the demuxer's file
    d_pc,         \* where the demuxer is
    fmt_ctx,      \* the context it has open
    left,         \* frames left in the file
    opens,        \* contexts allocated so far
    filters,      \* bit-stream filters allocated and not freed
    m_bsfc,       \* is there one
    queue,        \* m_nPacket: packets in the ring, the sender's one included
    seek,         \* a seek point that PutVideo has not seen
    m_bExit,
    m_fmt_ctx,    \* the sender's copy
    pStream,      \* the context of the sender's stream
    timed,        \* it has its time base
    s_pc,         \* where the sender is
    moves,        \* commands that took effect so far
    stale,        \* history: the sender read a context that was not open
    early,        \* history: why the demuxer may have left a file before the sender
                  \* had its first packet
    failed,       \* history: a file, its codec or the filter did not open
    reopened      \* history: the first file was opened again

demuxer == <<i, d_pc, fmt_ctx, left, opens>>
filter == <<filters, m_bsfc>>
sender == <<m_fmt_ctx, pStream, timed, s_pc>>
history == <<stale, early, failed, reopened>>
vars == <<demuxer, filter, queue, seek, m_bExit, sender, moves, history>>

TypeOK ==
    /\ i \in 0 .. NFiles
    /\ d_pc \in {"open", "codec", "filter", "loop", "put", "spin", "close", "done"}
    /\ fmt_ctx \in {Null} \cup Contexts
    /\ d_pc \in {"codec", "filter", "loop", "put", "spin"} => fmt_ctx # Null /\ i \in Files /\ left <= Length[i]
    /\ left \in Nat
    /\ opens \in 0 .. MaxOpens
    /\ filters \in 0 .. MaxOpens
    /\ m_bsfc \in BOOLEAN
    /\ queue \in 0 .. MaxQueue
    /\ seek \in BOOLEAN
    /\ m_bExit \in BOOLEAN
    /\ m_fmt_ctx \in {Null, Garbage} \cup Contexts
    /\ pStream \in {Null, Garbage} \cup Contexts
    /\ timed \in BOOLEAN
    /\ s_pc \in {"poll", "stream", "time", "send"}
    /\ moves \in 0 .. MaxMoves
    /\ stale \in BOOLEAN /\ early \subseteq {"moved", "closed"}
    /\ failed \in BOOLEAN /\ reopened \in BOOLEAN

\* CSender leaves m_fmt_ctx as it is.
Init ==
    /\ i = 0 /\ d_pc = "open" /\ fmt_ctx = Null /\ left = 0 /\ opens = 0
    /\ filters = 0 /\ m_bsfc = FALSE
    /\ queue = 0 /\ seek = FALSE
    /\ m_bExit = FALSE
    /\ m_fmt_ctx \in {Null, Garbage}
    /\ pStream = Null /\ timed = FALSE /\ s_pc = "poll"
    /\ moves = 0
    /\ stale = FALSE /\ early = {} /\ failed = FALSE /\ reopened = FALSE
-----------------------------------------------------------------------------
(* The demuxer. *)

\* A mutant: the filter is not freed.
FinishKeeps == d_pc' = "done" /\ UNCHANGED filter

\* The end of Demux: the filter there is last is freed.
Finish ==
    /\ d_pc' = "done"
    /\ filters' = IF m_bsfc THEN filters - 1 ELSE filters
    /\ m_bsfc' = FALSE

\* A return in the middle of Demux: nothing is closed or freed.
Abandon == d_pc' = "done" /\ failed' = TRUE

OpenFile ==
    /\ d_pc = "open" /\ i \in Files /\ ~m_bExit
    /\ opens < MaxOpens
    /\ opens' = opens + 1
    /\ reopened' = (reopened \/ (i = 0 /\ opens > 0))
    /\ \/ fmt_ctx' = opens' /\ left' = Length[i] /\ d_pc' = "codec" /\ UNCHANGED failed
       \/ Abandon /\ UNCHANGED <<fmt_ctx, left>>
    /\ UNCHANGED <<i, filter, queue, seek, m_bExit, sender, moves, stale, early>>

NoMoreFiles ==
    /\ d_pc = "open"
    /\ i \notin Files \/ m_bExit
    /\ Finish
    /\ UNCHANGED <<i, fmt_ctx, left, opens, queue, seek, m_bExit, sender, moves, history>>

\* Whether the file has a video stream with a decoder that opens.
open_codec_context == BOOLEAN

\* Without one the demuxer goes on, but the sender is not told.
SetAVFormatContext ==
    /\ d_pc = "codec"
    /\ \E opened \in open_codec_context :
           IF opened THEN m_fmt_ctx' = fmt_ctx /\ UNCHANGED failed
                     ELSE failed' = TRUE /\ UNCHANGED m_fmt_ctx
    /\ d_pc' = IF i = 0 THEN "filter" ELSE "loop"
    /\ UNCHANGED <<i, fmt_ctx, left, opens, filter, queue, seek, m_bExit, pStream, timed, s_pc, moves,
                   stale, early, reopened>>

\* av_bsf_alloc and av_bsf_init, for the first file only, whenever it is opened.
OpenFilter ==
    /\ d_pc = "filter"
    /\ \/ /\ filters' = filters + 1 /\ m_bsfc' = TRUE
          /\ d_pc' = "loop"
          /\ UNCHANGED failed
       \/ Abandon /\ UNCHANGED filter
       \/ Abandon /\ filters' = filters + 1 /\ m_bsfc' = TRUE
    /\ UNCHANGED <<i, fmt_ctx, left, opens, queue, seek, m_bExit, sender, moves, stale, early, reopened>>

\* A command: a seek in the file, or a move to some file.
Seek ==
    /\ d_pc = "loop" /\ moves < MaxMoves
    /\ moves' = moves + 1
    /\ left' \in 0 .. Length[i]
    /\ seek' = TRUE
    /\ early' = IF timed THEN early ELSE early \cup {"moved"}
    /\ UNCHANGED <<i, d_pc, fmt_ctx, opens, filter, queue, m_bExit, sender, stale, failed, reopened>>

Move ==
    /\ d_pc = "loop" /\ moves < MaxMoves
    /\ moves' = moves + 1
    /\ i' \in 0 .. NFiles
    /\ d_pc' = "close"
    /\ early' = IF timed THEN early ELSE early \cup {"moved"}
    /\ UNCHANGED <<fmt_ctx, left, opens, filter, queue, seek, m_bExit, sender, stale, failed, reopened>>

\* av_read_frame and the filter; or the end of the file; or of the channel.  A
\* packet with a negative pts is tried again and again, but never put.
ReadFrame ==
    /\ d_pc = "loop" /\ left > 0
    /\ left' = left - 1
    /\ d_pc' \in {"put", "spin"}
    /\ UNCHANGED <<i, fmt_ctx, opens, filter, queue, seek, m_bExit, sender, moves, history>>

EndOfFile ==
    /\ d_pc = "loop" /\ left = 0
    /\ i' = i + 1
    /\ d_pc' = "close"
    /\ UNCHANGED <<fmt_ctx, left, opens, filter, queue, seek, m_bExit, sender, moves, history>>

\* PutVideo: it clears the ring for a new seek point and waits while it is full.
PutVideo ==
    /\ d_pc = "put"
    /\ seek \/ queue < MaxQueue
    /\ queue' = IF seek THEN 1 ELSE queue + 1
    /\ seek' = FALSE
    /\ d_pc' = "loop"
    /\ UNCHANGED <<i, fmt_ctx, left, opens, filter, m_bExit, sender, moves, history>>

\* A mutant: the loop that retries does not look at m_bExit.
LeaveReadLoop ==
    /\ d_pc = "loop" /\ m_bExit
    /\ d_pc' = "close"
    /\ early' = IF timed THEN early ELSE early \cup {"closed"}
    /\ UNCHANGED <<i, fmt_ctx, left, opens, filter, queue, seek, m_bExit, sender, moves, stale,
                   failed, reopened>>

\* Both loops look at m_bExit.
LeaveLoop ==
    /\ d_pc \in {"loop", "put", "spin"} /\ m_bExit
    /\ d_pc' = "close"
    /\ early' = IF timed THEN early ELSE early \cup {"closed"}
    /\ UNCHANGED <<i, fmt_ctx, left, opens, filter, queue, seek, m_bExit, sender, moves, stale,
                   failed, reopened>>

\* avformat_close_input.
CloseFile ==
    /\ d_pc = "close"
    /\ fmt_ctx' = Null
    /\ d_pc' = "open"
    /\ UNCHANGED <<i, left, opens, filter, queue, seek, m_bExit, sender, moves, history>>

\* ~CDemuxer raises m_bExit before it ends the sender.
Exit ==
    /\ ~m_bExit
    /\ m_bExit' = TRUE
    /\ UNCHANGED <<demuxer, filter, queue, seek, sender, moves, history>>
-----------------------------------------------------------------------------
(* The sender. *)

\* A mutant: the packet's place in the ring is free as soon as it is taken.
GetVideoFrees ==
    /\ s_pc = "poll"
    /\ m_fmt_ctx # Null /\ queue > 0
    /\ queue' = queue - 1
    /\ s_pc' = IF pStream = Null THEN "stream" ELSE "send"
    /\ UNCHANGED <<demuxer, filter, seek, m_bExit, m_fmt_ctx, pStream, timed, moves, history>>

\* GetVideo, if there is a context to go by.
GetVideo ==
    /\ s_pc = "poll"
    /\ m_fmt_ctx # Null /\ queue > 0
    /\ s_pc' = IF pStream = Null THEN "stream" ELSE "send"
    /\ UNCHANGED <<demuxer, filter, queue, seek, m_bExit, m_fmt_ctx, pStream, timed, moves, history>>

\* pStream = m_fmt_ctx->streams[0].
LoadStream ==
    /\ s_pc = "stream"
    /\ pStream' = m_fmt_ctx
    /\ stale' = (stale \/ m_fmt_ctx # fmt_ctx)
    /\ s_pc' = "time"
    /\ UNCHANGED <<demuxer, filter, queue, seek, m_bExit, m_fmt_ctx, timed, moves, early, failed,
                   reopened>>

\* timeBase = pStream->time_base.
LoadTimeBase ==
    /\ s_pc = "time"
    /\ timed' = TRUE
    /\ stale' = (stale \/ pStream # fmt_ctx)
    /\ s_pc' = "send"
    /\ UNCHANGED <<demuxer, filter, queue, seek, m_bExit, m_fmt_ctx, pStream, moves, early, failed,
                   reopened>>

\* RetVideo, the packet sent.  What PutVideo's Clear does to the counter in
\* between is the matter of VideoQueue.
RetVideo ==
    /\ s_pc = "send"
    /\ queue' = IF queue > 0 THEN queue - 1 ELSE 0
    /\ s_pc' = "poll"
    /\ UNCHANGED <<demuxer, filter, seek, m_bExit, m_fmt_ctx, pStream, timed, moves, history>>

\* A turn of the sender without a packet.
NoPacket == s_pc = "poll" /\ (m_fmt_ctx = Null \/ queue = 0) /\ UNCHANGED vars

Next == \/ OpenFile \/ NoMoreFiles \/ SetAVFormatContext \/ OpenFilter \/ Seek \/ Move
        \/ ReadFrame \/ EndOfFile \/ PutVideo \/ LeaveLoop \/ CloseFile \/ Exit
        \/ GetVideo \/ LoadStream \/ LoadTimeBase \/ RetVideo \/ NoPacket

Demuxer == \/ OpenFile \/ NoMoreFiles \/ SetAVFormatContext \/ OpenFilter \/ ReadFrame
           \/ EndOfFile \/ PutVideo \/ LeaveLoop \/ CloseFile

\* The demuxer thread keeps running; when it may leave its loop it does.
Spec == Init /\ [][Next]_vars /\ WF_vars(Demuxer) /\ WF_vars(LeaveLoop)
-----------------------------------------------------------------------------
(* Properties. *)

(* The sender reads the time base of a context that is open, though nothing
   orders it with the demuxer's closing of the file: the file does not fit into
   the ring, and the packet the sender holds keeps its place there, so the
   demuxer cannot be through with the file before the sender has looked.  It
   takes a file of no more frames than the ring, a seek, a move or the end of the
   channel before that, or a file that does not open, to break it. *)
FirstPacketSafe ==
    stale => early # {} \/ failed \/ \E f \in Files : Length[f] <= MaxQueue

(* A packet is only passed to a filter that is there. *)
FilterReady == d_pc \in {"loop", "put", "spin"} => m_bsfc

(* The filter is freed in the end, unless the first file was opened twice, as
   after a move to it, or something did not open. *)
FilterFreed == d_pc = "done" /\ filters > 0 => reopened \/ failed

(* The end of the channel ends the demuxer wherever it is: waiting for a full
   ring whose sender has gone, or spinning over a packet it can never put. *)
ExitEnds == m_bExit ~> d_pc = "done"

(* The filter, from its opening to its end. *)
FilterInv == TypeOK /\ FilterReady /\ FilterFreed
=============================================================================
