-------------------------- MODULE FormatContextProofs --------------------------
(***************************************************************************)
(* Proofs about FormatContext, for any number of files of any length, any  *)
(* ring and any number of openings and moves.                              *)
(*                                                                         *)
(* Two arguments. CountInv counts the filters: each opening of the first   *)
(* file allocates at most one. FirstFileInv is why the sender's first look *)
(* at the context is at one that is open: until then every frame read is   *)
(* still in the ring, so a demuxer that came to the end of a file longer   *)
(* than the ring would have put more frames than the ring takes.           *)
(***************************************************************************)
EXTENDS FormatContext, TLAPS

\* The first file is being opened and has no filter of this opening yet.
Opening == d_pc \in {"codec", "filter"} /\ i = 0

CountInv ==
    /\ d_pc = "filter" => i = 0
    /\ opens = 0 => i = 0 /\ d_pc \in {"open", "done"}
    /\ m_bsfc \/ opens = 0 \/ d_pc = "done" \/ Opening
    /\ filters <= opens
    /\ Opening => filters < opens
    /\ m_bsfc => filters > 0
    /\ d_pc = "done" /\ ~failed => ~m_bsfc
    /\ ~reopened /\ ~failed => /\ filters = IF m_bsfc THEN 1 ELSE 0
                               /\ Opening => ~m_bsfc

\* What the sender knows at each of its places.
SenderInv ==
    /\ timed => s_pc \in {"poll", "send"} /\ pStream # Null
    /\ ~timed => s_pc # "send"
    /\ ~timed /\ s_pc \in {"poll", "stream"} => pStream = Null
    /\ s_pc = "stream" => m_fmt_ctx # Null
    /\ s_pc = "time" => pStream # Null

\* The demuxer has not been past its first file: before it, opening it, or
\* reading it with all frames read in the ring or on their way there.
Before == d_pc \in {"open", "done"} /\ opens = 0 /\ queue = 0 /\ s_pc = "poll"
AtStart == /\ d_pc \in {"codec", "filter"} /\ queue = 0 /\ s_pc = "poll"
           /\ left = Length[i] /\ fmt_ctx # Null
           /\ d_pc = "filter" => m_fmt_ctx = fmt_ctx
Within == /\ d_pc \in {"loop", "put", "spin"}
          /\ m_fmt_ctx = fmt_ctx /\ fmt_ctx # Null
          /\ d_pc = "loop" => left + queue = Length[i]
          /\ d_pc = "put" => left + queue + 1 = Length[i]
          /\ s_pc = "time" => pStream = fmt_ctx
FirstFile == ~seek /\ (Before \/ AtStart \/ Within)

Undisturbed == early = {} /\ ~failed /\ \A f \in Files : Length[f] > MaxQueue

FirstFileInv == Undisturbed => ~stale /\ (timed \/ FirstFile)

IInv == TypeOK /\ CountInv /\ SenderInv /\ FirstFileInv
-----------------------------------------------------------------------------
(* The demuxer and the sender of a channel that starts.                     *)
LEMMA InitIInv == Init => IInv
<1>. SUFFICES ASSUME Init PROVE IInv
  OBVIOUS
<1>. USE ContextAssumption
<1>1. TypeOK
  <2>1. /\ m_bsfc \in BOOLEAN /\ seek \in BOOLEAN /\ m_bExit \in BOOLEAN /\ timed \in BOOLEAN
        /\ stale \in BOOLEAN /\ failed \in BOOLEAN /\ reopened \in BOOLEAN
    BY DEF Init
  <2>. QED BY <2>1 DEF Init, TypeOK
<1>2. CountInv /\ SenderInv
  BY DEF Init, CountInv, Opening, SenderInv
<1>3. FirstFileInv
  BY DEF Init, FirstFileInv, FirstFile, Before
<1>. QED BY <1>1, <1>2, <1>3 DEF IInv

(* Types. That the filters stay below the bound on openings is CountInv.    *)
LEMMA TypeStep ==
  ASSUME TypeOK, CountInv, [Next]_vars
  PROVE  TypeOK'
<1>. USE ContextAssumption DEF Files, Contexts, Garbage, Null
<1>1. CASE OpenFile
  <2>1. (m_bsfc \in BOOLEAN /\ seek \in BOOLEAN /\ m_bExit \in BOOLEAN /\ timed \in BOOLEAN
         /\ stale \in BOOLEAN /\ failed \in BOOLEAN /\ reopened \in BOOLEAN)'
    BY <1>1 DEF OpenFile, Abandon, TypeOK, demuxer, filter, sender, history
  <2>2. early' \subseteq {"moved", "closed"} /\ pStream' \in {Null, Garbage} \cup Contexts
    BY <1>1 DEF OpenFile, Abandon, TypeOK, sender, history
  <2>. QED BY <1>1, <2>1, <2>2 DEF OpenFile, Abandon, CountInv, Opening, TypeOK, demuxer,
       filter, sender, history
<1>2. CASE NoMoreFiles
  <2>1. (m_bsfc \in BOOLEAN /\ seek \in BOOLEAN /\ m_bExit \in BOOLEAN /\ timed \in BOOLEAN
         /\ stale \in BOOLEAN /\ failed \in BOOLEAN /\ reopened \in BOOLEAN)'
    BY <1>2 DEF NoMoreFiles, Finish, TypeOK, demuxer, filter, sender, history
  <2>2. early' \subseteq {"moved", "closed"} /\ pStream' \in {Null, Garbage} \cup Contexts
    BY <1>2 DEF NoMoreFiles, Finish, TypeOK, sender, history
  <2>. QED BY <1>2, <2>1, <2>2 DEF NoMoreFiles, Finish, CountInv, Opening, TypeOK, demuxer,
       filter, sender, history
<1>3. CASE SetAVFormatContext
  <2>1. (m_bsfc \in BOOLEAN /\ seek \in BOOLEAN /\ m_bExit \in BOOLEAN /\ timed \in BOOLEAN
         /\ stale \in BOOLEAN /\ failed \in BOOLEAN /\ reopened \in BOOLEAN)'
    BY <1>3 DEF SetAVFormatContext, TypeOK, demuxer, filter, sender, history
  <2>2. early' \subseteq {"moved", "closed"} /\ pStream' \in {Null, Garbage} \cup Contexts
    BY <1>3 DEF SetAVFormatContext, TypeOK, sender, history
  <2>. QED BY <1>3, <2>1, <2>2 DEF SetAVFormatContext, TypeOK, demuxer, filter, sender, history
<1>4. CASE OpenFilter
  <2>1. (m_bsfc \in BOOLEAN /\ seek \in BOOLEAN /\ m_bExit \in BOOLEAN /\ timed \in BOOLEAN
         /\ stale \in BOOLEAN /\ failed \in BOOLEAN /\ reopened \in BOOLEAN)'
    BY <1>4 DEF OpenFilter, Abandon, TypeOK, demuxer, filter, sender, history
  <2>2. early' \subseteq {"moved", "closed"} /\ pStream' \in {Null, Garbage} \cup Contexts
    BY <1>4 DEF OpenFilter, Abandon, TypeOK, sender, history
  <2>. QED BY <1>4, <2>1, <2>2 DEF OpenFilter, Abandon, CountInv, Opening, TypeOK, demuxer,
       filter, sender, history
<1>5. CASE Seek
  BY <1>5 DEF Seek, TypeOK, demuxer, filter, sender, history
<1>6. CASE Move
  BY <1>6 DEF Move, TypeOK, demuxer, filter, sender, history
<1>7. CASE ReadFrame
  BY <1>7 DEF ReadFrame, TypeOK, demuxer, filter, sender, history
<1>8. CASE EndOfFile
  BY <1>8 DEF EndOfFile, TypeOK, demuxer, filter, sender, history
<1>9. CASE PutVideo
  <2>1. (m_bsfc \in BOOLEAN /\ seek \in BOOLEAN /\ m_bExit \in BOOLEAN /\ timed \in BOOLEAN
         /\ stale \in BOOLEAN /\ failed \in BOOLEAN /\ reopened \in BOOLEAN)'
    BY <1>9 DEF PutVideo, TypeOK, demuxer, filter, sender, history
  <2>2. early' \subseteq {"moved", "closed"} /\ pStream' \in {Null, Garbage} \cup Contexts
    BY <1>9 DEF PutVideo, TypeOK, sender, history
  <2>. QED BY <1>9, <2>1, <2>2 DEF PutVideo, CountInv, Opening, TypeOK, demuxer, filter,
       sender, history
<1>10. CASE LeaveLoop
  BY <1>10 DEF LeaveLoop, TypeOK, demuxer, filter, sender, history
<1>11. CASE CloseFile
  BY <1>11 DEF CloseFile, TypeOK, demuxer, filter, sender, history
<1>12. CASE Exit
  BY <1>12 DEF Exit, TypeOK, demuxer, filter, sender, history
<1>13. CASE GetVideo
  BY <1>13 DEF GetVideo, TypeOK, demuxer, filter, sender, history
<1>14. CASE LoadStream
  BY <1>14 DEF LoadStream, TypeOK, demuxer, filter, sender, history
<1>15. CASE LoadTimeBase
  BY <1>15 DEF LoadTimeBase, TypeOK, demuxer, filter, sender, history
<1>16. CASE RetVideo
  BY <1>16 DEF RetVideo, TypeOK, demuxer, filter, sender, history
<1>17. CASE NoPacket
  BY <1>17 DEF NoPacket, vars, TypeOK, demuxer, filter, sender, history
<1>18. CASE UNCHANGED vars
  BY <1>18 DEF vars, TypeOK, demuxer, filter, sender, history
<1>. QED BY <1>1, <1>2, <1>3, <1>4, <1>5, <1>6, <1>7, <1>8, <1>9, <1>10, <1>11, <1>12,
            <1>13, <1>14, <1>15, <1>16, <1>17, <1>18 DEF Next

(* The filters: only the first file opens one, and the end frees the last.  *)
LEMMA CountStep ==
  ASSUME TypeOK, CountInv, [Next]_vars
  PROVE  CountInv'
<1>. USE ContextAssumption DEF Files
<1>1. CASE OpenFile
  BY <1>1 DEF OpenFile, Abandon, CountInv, Opening, TypeOK, demuxer, filter, sender, history
<1>2. CASE NoMoreFiles
  BY <1>2 DEF NoMoreFiles, Finish, CountInv, Opening, TypeOK, demuxer, filter, sender, history
<1>3. CASE SetAVFormatContext
  BY <1>3 DEF SetAVFormatContext, CountInv, Opening, TypeOK, demuxer, filter, sender, history
<1>4. CASE OpenFilter
  BY <1>4 DEF OpenFilter, Abandon, CountInv, Opening, TypeOK, demuxer, filter, sender, history
<1>5. CASE Seek
  BY <1>5 DEF Seek, CountInv, Opening, TypeOK, demuxer, filter, sender, history
<1>6. CASE Move
  BY <1>6 DEF Move, CountInv, Opening, TypeOK, demuxer, filter, sender, history
<1>7. CASE ReadFrame
  BY <1>7 DEF ReadFrame, CountInv, Opening, TypeOK, demuxer, filter, sender, history
<1>8. CASE EndOfFile
  BY <1>8 DEF EndOfFile, CountInv, Opening, TypeOK, demuxer, filter, sender, history
<1>9. CASE PutVideo
  BY <1>9 DEF PutVideo, CountInv, Opening, TypeOK, demuxer, filter, sender, history
<1>10. CASE LeaveLoop
  BY <1>10 DEF LeaveLoop, CountInv, Opening, TypeOK, demuxer, filter, sender, history
<1>11. CASE CloseFile
  BY <1>11 DEF CloseFile, CountInv, Opening, TypeOK, demuxer, filter, sender, history
<1>12. CASE Exit
  BY <1>12 DEF Exit, CountInv, Opening, TypeOK, demuxer, filter, sender, history
<1>13. CASE GetVideo
  BY <1>13 DEF GetVideo, CountInv, Opening, TypeOK, demuxer, filter, sender, history
<1>14. CASE LoadStream
  BY <1>14 DEF LoadStream, CountInv, Opening, TypeOK, demuxer, filter, sender, history
<1>15. CASE LoadTimeBase
  BY <1>15 DEF LoadTimeBase, CountInv, Opening, TypeOK, demuxer, filter, sender, history
<1>16. CASE RetVideo
  BY <1>16 DEF RetVideo, CountInv, Opening, TypeOK, demuxer, filter, sender, history
<1>17. CASE NoPacket
  BY <1>17 DEF NoPacket, vars, CountInv, Opening, TypeOK, demuxer, filter, sender, history
<1>18. CASE UNCHANGED vars
  BY <1>18 DEF vars, CountInv, Opening, TypeOK, demuxer, filter, sender, history
<1>. QED BY <1>1, <1>2, <1>3, <1>4, <1>5, <1>6, <1>7, <1>8, <1>9, <1>10, <1>11, <1>12,
            <1>13, <1>14, <1>15, <1>16, <1>17, <1>18 DEF Next

(* The sender loads the stream once, from a copy that is there.             *)
LEMMA SenderStep ==
  ASSUME TypeOK, SenderInv, [Next]_vars
  PROVE  SenderInv'
<1>1. CASE OpenFile
  BY <1>1 DEF OpenFile, SenderInv, TypeOK, Null, demuxer, filter, sender, history
<1>2. CASE NoMoreFiles
  BY <1>2 DEF NoMoreFiles, SenderInv, TypeOK, Null, demuxer, filter, sender, history
<1>3. CASE SetAVFormatContext
  BY <1>3 DEF SetAVFormatContext, Contexts, Null, SenderInv, TypeOK, sender
<1>4. CASE OpenFilter
  BY <1>4 DEF OpenFilter, SenderInv, TypeOK, Null, demuxer, filter, sender, history
<1>5. CASE Seek
  BY <1>5 DEF Seek, SenderInv, TypeOK, Null, demuxer, filter, sender, history
<1>6. CASE Move
  BY <1>6 DEF Move, SenderInv, TypeOK, Null, demuxer, filter, sender, history
<1>7. CASE ReadFrame
  BY <1>7 DEF ReadFrame, SenderInv, TypeOK, Null, demuxer, filter, sender, history
<1>8. CASE EndOfFile
  BY <1>8 DEF EndOfFile, SenderInv, TypeOK, Null, demuxer, filter, sender, history
<1>9. CASE PutVideo
  BY <1>9 DEF PutVideo, SenderInv, TypeOK, Null, demuxer, filter, sender, history
<1>10. CASE LeaveLoop
  BY <1>10 DEF LeaveLoop, SenderInv, TypeOK, Null, demuxer, filter, sender, history
<1>11. CASE CloseFile
  BY <1>11 DEF CloseFile, SenderInv, TypeOK, Null, demuxer, filter, sender, history
<1>12. CASE Exit
  BY <1>12 DEF Exit, SenderInv, TypeOK, Null, demuxer, filter, sender, history
<1>13. CASE GetVideo
  BY <1>13 DEF GetVideo, SenderInv, TypeOK, Null, demuxer, filter, sender, history
<1>14. CASE LoadStream
  BY <1>14 DEF LoadStream, SenderInv, TypeOK, Null, demuxer, filter, sender, history
<1>15. CASE LoadTimeBase
  BY <1>15 DEF LoadTimeBase, SenderInv, TypeOK, Null, demuxer, filter, sender, history
<1>16. CASE RetVideo
  BY <1>16 DEF RetVideo, SenderInv, TypeOK, Null, demuxer, filter, sender, history
<1>17. CASE NoPacket
  BY <1>17 DEF NoPacket, vars, SenderInv, TypeOK, Null, demuxer, filter, sender, history
<1>18. CASE UNCHANGED vars
  BY <1>18 DEF vars, SenderInv, TypeOK, Null, demuxer, filter, sender, history
<1>. QED BY <1>1, <1>2, <1>3, <1>4, <1>5, <1>6, <1>7, <1>8, <1>9, <1>10, <1>11, <1>12,
            <1>13, <1>14, <1>15, <1>16, <1>17, <1>18 DEF Next

(* The demuxer is in its first file until the sender has its time base. The *)
(* end of the file is the step that could break it: all of the file would   *)
(* then be in the ring.                                                     *)
LEMMA FirstFileStep ==
  ASSUME TypeOK, CountInv, SenderInv, FirstFileInv, [Next]_vars
  PROVE  FirstFileInv'
<1>. USE ContextAssumption
<1>. SUFFICES ASSUME Undisturbed' PROVE ~stale' /\ (timed \/ FirstFile)'
  BY DEF FirstFileInv
<1>u. Undisturbed
  BY DEF Undisturbed, Next, vars, TypeOK, filter, sender, history, Finish, Abandon,
     OpenFile, NoMoreFiles, SetAVFormatContext, OpenFilter, Seek, Move, ReadFrame, EndOfFile,
     PutVideo, LeaveLoop, CloseFile, Exit, GetVideo, LoadStream, LoadTimeBase, RetVideo, NoPacket
<1>i. ~stale /\ (timed \/ FirstFile)
  BY <1>u DEF FirstFileInv
<1>1. CASE OpenFile
  BY <1>1, <1>i DEF OpenFile, Abandon, Contexts, Null, Undisturbed, SenderInv, FirstFile,
       Before, AtStart, Within, TypeOK, demuxer, filter, sender, history
<1>2. CASE NoMoreFiles
  BY <1>2, <1>i DEF NoMoreFiles, Finish, FirstFile, Before, AtStart, Within, TypeOK, demuxer,
       filter, sender, history
<1>3. CASE SetAVFormatContext
  <2>1. ~failed' /\ ~stale
    BY <1>i DEF Undisturbed
  <2>2. m_fmt_ctx' = fmt_ctx /\ timed' = timed /\ stale' = stale
    BY <1>3, <2>1 DEF SetAVFormatContext
  <2>3. CASE timed
    BY <1>i, <2>2, <2>3
  <2>4. CASE ~timed
    <3>1. AtStart /\ ~seek
      BY <1>3, <1>i, <2>4 DEF SetAVFormatContext, FirstFile, Before, Within
    <3>2. AtStart' \/ Within'
      BY <1>3, <2>2, <3>1, <1>u DEF SetAVFormatContext, AtStart, Within, TypeOK, Undisturbed
    <3>. QED BY <1>3, <2>1, <2>2, <3>1, <3>2 DEF SetAVFormatContext, FirstFile
  <2>. QED BY <2>3, <2>4
<1>4. CASE OpenFilter
  <2>1. ~failed' /\ ~stale
    BY <1>i DEF Undisturbed
  <2>. QED BY <1>4, <1>i, <2>1 DEF OpenFilter, Abandon, FirstFile, Before, AtStart, Within,
       TypeOK, demuxer, filter, sender, history
<1>5. CASE Seek
  <2>1. timed
    BY <1>5 DEF Seek, Undisturbed
  <2>. QED BY <1>5, <1>i, <2>1 DEF Seek, sender, history
<1>6. CASE Move
  <2>1. timed
    BY <1>6 DEF Move, Undisturbed
  <2>. QED BY <1>6, <1>i, <2>1 DEF Move, sender, history
<1>7. CASE ReadFrame
  BY <1>7, <1>i, <1>u DEF ReadFrame, FirstFile, Before, AtStart, Within, TypeOK, demuxer,
       filter, sender, history
<1>8. CASE EndOfFile
  <2>1. timed
    <3>1. SUFFICES ASSUME ~timed PROVE FALSE
      OBVIOUS
    <3>2. Within
      BY <1>8, <1>i, <3>1 DEF EndOfFile, FirstFile, Before, AtStart
    <3>3. queue = Length[i] /\ queue <= MaxQueue /\ i \in Files
      BY <1>8, <3>2 DEF EndOfFile, Within, TypeOK
    <3>. QED BY <1>u, <3>3 DEF Undisturbed
  <2>. QED BY <1>8, <1>i, <2>1 DEF EndOfFile, sender, history
<1>9. CASE PutVideo
  BY <1>9, <1>i, <1>u DEF PutVideo, FirstFile, Before, AtStart, Within, TypeOK, demuxer,
       filter, sender, history
<1>10. CASE LeaveLoop
  <2>1. timed
    BY <1>10 DEF LeaveLoop, Undisturbed
  <2>. QED BY <1>10, <1>i, <2>1 DEF LeaveLoop, sender, history
<1>11. CASE CloseFile
  BY <1>11, <1>i, <1>u DEF CloseFile, FirstFile, Before, AtStart, Within, TypeOK, demuxer,
       filter, sender, history
<1>12. CASE Exit
  BY <1>12, <1>i, <1>u DEF Exit, FirstFile, Before, AtStart, Within, TypeOK, demuxer, filter,
       sender, history
<1>13. CASE GetVideo
  BY <1>13, <1>i, <1>u DEF GetVideo, FirstFile, Before, AtStart, Within, TypeOK, demuxer,
       filter, sender, history
<1>14. CASE LoadStream
  BY <1>14, <1>i DEF LoadStream, SenderInv, FirstFile, Before, AtStart, Within, TypeOK,
       demuxer, filter, sender, history
<1>15. CASE LoadTimeBase
  BY <1>15, <1>i DEF LoadTimeBase, SenderInv, FirstFile, Before, AtStart, Within, TypeOK,
       demuxer, filter, sender, history
<1>16. CASE RetVideo
  <2>1. timed
    BY <1>16 DEF RetVideo, SenderInv
  <2>. QED BY <1>16, <1>i, <2>1 DEF RetVideo, sender, history
<1>17. CASE NoPacket
  BY <1>17, <1>i DEF NoPacket, vars, FirstFile, Before, AtStart, Within, TypeOK, demuxer,
       filter, sender, history
<1>18. CASE UNCHANGED vars
  BY <1>18, <1>i DEF vars, FirstFile, Before, AtStart, Within, TypeOK, demuxer, filter, sender,
       history
<1>. QED BY <1>1, <1>2, <1>3, <1>4, <1>5, <1>6, <1>7, <1>8, <1>9, <1>10, <1>11, <1>12,
            <1>13, <1>14, <1>15, <1>16, <1>17, <1>18 DEF Next

(* Every step of the demuxer, of the sender and of a command preserves the  *)
(* invariant.                                                               *)
LEMMA NextIInv == IInv /\ [Next]_vars => IInv'
BY TypeStep, CountStep, SenderStep, FirstFileStep DEF IInv

(* The inductive invariant holds throughout.                                *)
THEOREM Invariance == Spec => []IInv
<1>. QED BY InitIInv, NextIInv, PTL DEF Spec
-----------------------------------------------------------------------------
(* A packet is only passed to a filter that is there, and the filter is     *)
(* freed in the end, unless the first file was opened twice or something    *)
(* did not open.                                                            *)
THEOREM FilterOwned == Spec => []FilterInv
<1>1. IInv => FilterInv
  <2>. SUFFICES ASSUME IInv PROVE FilterInv
    OBVIOUS
  <2>1. FilterReady
    BY DEF IInv, TypeOK, CountInv, Opening, FilterReady
  <2>2. FilterFreed
    BY DEF IInv, TypeOK, CountInv, FilterFreed
  <2>. QED BY <2>1, <2>2 DEF IInv, FilterInv
<1>. QED BY <1>1, Invariance, PTL

(* The sender's first look at the context is at one that is open, for files *)
(* of any length above the ring's, though nothing orders that look with the *)
(* demuxer's closing of the file.                                           *)
THEOREM FirstLookSafe == Spec => []FirstPacketSafe
<1>1. IInv => FirstPacketSafe
  <2>. SUFFICES ASSUME IInv, stale, early = {}, ~failed
                PROVE  \E f \in Files : Length[f] <= MaxQueue
    BY DEF FirstPacketSafe
  <2>1. ~ \A f \in Files : Length[f] > MaxQueue
    BY DEF IInv, FirstFileInv, Undisturbed
  <2>. QED BY <2>1, ContextAssumption
<1>. QED BY <1>1, Invariance, PTL
=============================================================================
