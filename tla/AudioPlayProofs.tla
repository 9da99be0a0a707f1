--------------------------- MODULE AudioPlayProofs ---------------------------
(***************************************************************************)
(* What an audio channel plays, for any recording and any commands: one    *)
(* block of it, and after a play_seek, until that block is read, the one   *)
(* asked for. The facts about First are those of PlaylistProofs.           *)
(***************************************************************************)
EXTENDS AudioPlay, FiniteSetTheorems, WellFoundedInduction, TLAPS

(* A set of numbers that holds 0, and with each number the next, holds all. *)
LEMMA SetInduction ==
  ASSUME NEW S \in SUBSET Nat, 0 \in S, \A n \in S : n + 1 \in S
  PROVE  S = Nat
<1>. SUFFICES ASSUME Nat \ S # {} PROVE FALSE
  OBVIOUS
<1>. DEFINE T == Nat \ S
<1>1. \E x \in T : \A y \in T : ~ (<<y, x>> \in OpToRel(<, Nat))
  <2>1. T \subseteq Nat /\ T # {}
    OBVIOUS
  <2>. HIDE DEF T
  <2>. QED BY <2>1, WFMin, NatLessThanWellFounded
<1>2. PICK x \in T : \A y \in T : ~ (<<y, x>> \in OpToRel(<, Nat))
  BY <1>1
<1>3. \A y \in T : ~ (y < x)
  BY <1>2, Zenon DEF OpToRel
<1>4. x # 0 /\ x - 1 \in Nat /\ x - 1 < x /\ x = (x - 1) + 1
  BY SMT
<1>5. x - 1 \in S
  BY <1>3, <1>4
<1>. QED BY <1>4, <1>5

(* The first frames of the files add up.                                    *)
LEMMA FirstDef ==
  /\ First \in [0 .. NFiles -> Nat]
  /\ First[0] = 0
  /\ \A f \in Files : First[f + 1] = First[f] + Length[f]
<1>. USE AudioPlayAssumption
<1>. DEFINE Sums(g, n) == \A k \in 0 .. n : g[k] = IF k = 0 THEN 0 ELSE g[k - 1] + Length[k - 1]
            S == {n \in Nat : n <= NFiles => \E g \in [0 .. n -> Nat] : Sums(g, n)}
<1>1. S = Nat
  <2>1. 0 \in S
    <3>1. [k \in 0 .. 0 |-> 0] \in [0 .. 0 -> Nat] /\ Sums([k \in 0 .. 0 |-> 0], 0)
      OBVIOUS
    <3>. QED BY <3>1
  <2>2. ASSUME NEW n \in S PROVE n + 1 \in S
    <3>0. n \in Nat /\ n + 1 \in Nat
      OBVIOUS
    <3>. SUFFICES ASSUME n + 1 <= NFiles PROVE \E g \in [0 .. n + 1 -> Nat] : Sums(g, n + 1)
      BY <3>0
    <3>. n <= NFiles
      BY <3>0
    <3>1. PICK g \in [0 .. n -> Nat] : Sums(g, n)
      OBVIOUS
    <3>. DEFINE h == [k \in 0 .. n + 1 |-> IF k = n + 1 THEN g[n] + Length[n] ELSE g[k]]
    <3>2. n \in Files /\ Length[n] \in Nat /\ g[n] \in Nat
      BY DEF Files
    <3>3. h \in [0 .. n + 1 -> Nat]
      BY <3>2
    <3>4. Sums(h, n + 1)
      <4>. SUFFICES ASSUME NEW k \in 0 .. n + 1
                    PROVE  h[k] = IF k = 0 THEN 0 ELSE h[k - 1] + Length[k - 1]
        OBVIOUS
      <4>1. CASE k = n + 1
        BY <3>0, <4>1
      <4>2. CASE k # n + 1
        <5>1. k \in 0 .. n /\ k - 1 # n + 1 /\ (k # 0 => k - 1 \in 0 .. n)
          BY <3>0, <4>2
        <5>2. h[k] = g[k] /\ (k # 0 => h[k - 1] = g[k - 1])
          BY <3>0, <5>1
        <5>. QED BY <3>1, <5>1, <5>2
      <4>. QED BY <4>1, <4>2
    <3>. QED BY <3>3, <3>4
  <2>. HIDE DEF S
  <2>3. S \in SUBSET Nat
    BY DEF S
  <2>. QED BY <2>1, <2>2, <2>3, SetInduction
<1>2. PICK g \in [0 .. NFiles -> Nat] : Sums(g, NFiles)
  <2>1. NFiles \in S
    BY <1>1
  <2>2. NFiles <= NFiles
    OBVIOUS
  <2>. QED BY <2>1, <2>2, Zenon
<1>3. g = [k \in 0 .. NFiles |-> IF k = 0 THEN 0 ELSE g[k - 1] + Length[k - 1]]
  BY <1>2
<1>4. First = [k \in 0 .. NFiles |-> IF k = 0 THEN 0 ELSE First[k - 1] + Length[k - 1]]
  BY <1>3 DEF First
<1>5. First[0] = 0 /\ \A f \in Files : First[f + 1] = First[f] + Length[f]
  BY <1>4 DEF Files
<1>. DEFINE R == {n \in Nat : n <= NFiles => First[n] \in Nat}
<1>6. R = Nat
  <2>1. 0 \in R
    BY <1>5
  <2>2. ASSUME NEW n \in R PROVE n + 1 \in R
    <3>. SUFFICES ASSUME n + 1 <= NFiles PROVE First[n + 1] \in Nat
      OBVIOUS
    <3>1. n \in Files /\ First[n] \in Nat
      BY DEF Files
    <3>2. Length[n] \in Nat
      BY <3>1
    <3>. QED BY <1>5, <3>1, <3>2
  <2>. HIDE DEF R
  <2>3. R \in SUBSET Nat
    BY DEF R
  <2>. QED BY <2>1, <2>2, <2>3, SetInduction
<1>7. \A n \in 0 .. NFiles : First[n] \in Nat
  BY <1>6
<1>. QED BY <1>4, <1>5, <1>7

(* They never fall.                                                         *)
LEMMA FirstRises ==
  ASSUME NEW f \in 0 .. NFiles, NEW g \in 0 .. NFiles, f <= g
  PROVE  First[f] <= First[g]
<1>. USE AudioPlayAssumption
<1>. DEFINE R == {n \in Nat : f + n <= NFiles => First[f] <= First[f + n]}
<1>1. R = Nat
  <2>1. 0 \in R
    BY FirstDef
  <2>2. ASSUME NEW n \in R PROVE n + 1 \in R
    <3>. SUFFICES ASSUME f + (n + 1) <= NFiles PROVE First[f] <= First[f + (n + 1)]
      OBVIOUS
    <3>1. f + n \in Files /\ f + (n + 1) = (f + n) + 1 /\ First[f] <= First[f + n]
      BY DEF Files
    <3>2. First[(f + n) + 1] = First[f + n] + Length[f + n] /\ Length[f + n] \in Nat
      BY <3>1, FirstDef
    <3>3. First[f] \in Nat /\ First[f + n] \in Nat
      BY <3>1, FirstDef DEF Files
    <3>. QED BY <3>1, <3>2, <3>3
  <2>. HIDE DEF R
  <2>3. R \in SUBSET Nat
    BY DEF R
  <2>. QED BY <2>1, <2>2, <2>3, SetInduction
<1>2. g - f \in R /\ f + (g - f) = g
  <2>1. g - f \in Nat /\ f + (g - f) = g
    OBVIOUS
  <2>. QED BY <1>1, <2>1
<1>. QED BY <1>2

(* Every file ends within the recording.                                    *)
LEMMA FileFacts ==
  /\ First[NFiles] \in Nat
  /\ \A f \in Files : /\ f \in Nat /\ f < NFiles /\ f + 1 \in 0 .. NFiles
                      /\ First[f] \in Nat /\ Length[f] \in Nat
                      /\ First[f] + Length[f] <= First[NFiles]
<1>. USE AudioPlayAssumption
<1>1. ASSUME NEW f \in Files PROVE First[f + 1] <= First[NFiles]
  BY FirstRises DEF Files
<1>. QED BY <1>1, FirstDef DEF Files

(* Behind files of one length a file begins at a multiple of it.            *)
LEMMA FirstMultiple ==
  ASSUME NEW f \in Files, \A g \in 0 .. f - 1 : Length[g] = Length[f]
  PROVE  First[f] = Length[f] * f
<1>. USE AudioPlayAssumption
<1>. DEFINE len == Length[f]
            R == {n \in Nat : n <= f => First[n] = len * n}
<1>0. len \in Nat
  OBVIOUS
<1>1. R = Nat
  <2>1. 0 \in R
    BY <1>0, FirstDef
  <2>2. ASSUME NEW n \in R PROVE n + 1 \in R
    <3>. SUFFICES ASSUME n + 1 <= f PROVE First[n + 1] = len * (n + 1)
      OBVIOUS
    <3>1. n \in Files /\ n \in 0 .. f - 1 /\ First[n] = len * n
      BY DEF Files
    <3>2. First[n + 1] = First[n] + len
      BY <3>1, FirstDef
    <3>3. len * (n + 1) = len * n + len
      BY <1>0
    <3>. QED BY <3>1, <3>2, <3>3
  <2>. HIDE DEF R
  <2>3. R \in SUBSET Nat
    BY DEF R
  <2>. QED BY <2>1, <2>2, <2>3, SetInduction
<1>. QED BY <1>1 DEF Files

(* A frame past the end is in no file.                                      *)
LEMMA FindTyped == \A n \in Int : FindFileIndexFromFrame(n) \in 0 .. NFiles
<1>. USE AudioPlayAssumption
<1>1. IsFiniteSet(Files) /\ Cardinality(Files) = NFiles
  BY FS_Interval DEF Files
<1>2. ASSUME NEW n \in Int PROVE FindFileIndexFromFrame(n) \in 0 .. NFiles
  <2>. DEFINE E == {f \in Files : First[f + 1] <= n}
  <2>1. E \subseteq Files
    OBVIOUS
  <2>. HIDE DEF E
  <2>2. IsFiniteSet(E) /\ Cardinality(E) <= NFiles
    BY <1>1, <2>1, FS_Subset
  <2>3. Cardinality(E) \in Nat
    BY <2>2, FS_CardinalityType
  <2>4. Cardinality(E) \in 0 .. NFiles
    BY <2>2, <2>3
  <2>. QED BY <2>4 DEF E, FindFileIndexFromFrame
<1>. QED BY <1>2

(* The Boolean variables.                                                   *)
Flags == /\ m_IsMove \in BOOLEAN /\ m_IsPause \in BOOLEAN /\ m_bIsRerverse \in BOOLEAN
         /\ m_bExit \in BOOLEAN /\ eof \in BOOLEAN /\ m_IsAudioRead \in BOOLEAN
         /\ lost \in BOOLEAN

\* audio_buf and the ring hold one block, and none before it is read; so far no
\* file has come to its end.
OneInv ==
    /\ \E b \in Int : put \cup {audio_buf} \subseteq {b, Junk}
    /\ ~m_IsAudioRead => put = {} /\ audio_buf = Junk /\ ~eof

\* What SetMoveSec has stored while its play_seek is not lost.
StoredInv ==
    seeks > 0 /\ ~lost =>
        /\ c_frame > 0
        /\ m_nMoveIdx = FindFileIndexFromFrame(c_frame)
        /\ c_pc = "flag" \/ (c_pc = "idle" /\ m_IsMove) => m_nSeekFrame = c_frame

\* The last play_seek is taken as a move, nothing of it is lost, and no block
\* has been read yet.
Taken == seeks > 0 /\ c_pc = "idle" /\ ~m_IsMove /\ ~lost /\ ~m_IsAudioRead

\* The frame, from the start of the file it was looked up in, if all before it
\* are as long.
Target == c_frame - Length[i] * m_nMoveIdx

TakenInv ==
    Taken =>
        /\ d_pc = "index" => m_nSeekFrame = c_frame
        /\ d_pc \in {"open", "move", "rebase", "store", "seekg", "served", "read", "put"} =>
             i = m_nMoveIdx
        /\ d_pc \in {"open", "rebase", "store"} => m_nSeekFrame = c_frame
        /\ d_pc \in {"rebase", "store", "seekg"} => pos = 0
        /\ d_pc \in {"rebase", "store", "seekg", "served", "read", "put"} => m_nAudioCount = c_frame
        /\ d_pc = "store" => d_frame = Target
        /\ d_pc = "seekg" => m_nSeekFrame = Target
        /\ d_pc \in {"served", "read", "put"} => pos = Target
        /\ d_pc \in {"read", "put"} => m_nSeekFrame = 0
        /\ d_pc = "move" => \/ m_nSeekFrame = c_frame /\ pos = 0
                            \/ m_nSeekFrame = 0 /\ pos = Target /\ m_nAudioCount = c_frame

IInv == TypeOK /\ OneInv /\ StoredInv /\ TakenInv
-----------------------------------------------------------------------------
(* Types and ranges.                                                        *)
LEMMA TypeStep ==
  ASSUME TypeOK, [Next]_vars
  PROVE  TypeOK'
<1>. USE AudioPlayAssumption
<1>0. First[NFiles] \in Nat
  BY FileFacts
<1>1. CASE \E nFrame \in Frames : MoveIndex(nFrame)
  <2>1. Flags'
    BY <1>1 DEF TypeOK, Flags, MoveIndex, seekVars, settings, file, block, ring, command
  <2>2. m_nMoveIdx' \in 0 .. NFiles /\ c_frame' \in Nat
    BY <1>1, FindTyped DEF MoveIndex
  <2>. QED BY <1>1, <2>1, <2>2 DEF TypeOK, Flags, MoveIndex, seekVars, settings, file, block,
       ring, command
<1>2. CASE MoveFrame
  <2>1. Flags'
    BY <1>2 DEF TypeOK, Flags, MoveFrame, seekVars, settings, file, block, ring, command
  <2>. QED BY <1>2, <2>1 DEF TypeOK, Flags, MoveFrame, seekVars, settings, file, block, ring,
       command
<1>3. CASE MoveFlag
  <2>1. Flags'
    BY <1>3 DEF TypeOK, Flags, MoveFlag, seekVars, settings, file, block, ring, command
  <2>. QED BY <1>3, <2>1 DEF TypeOK, Flags, MoveFlag, seekVars, settings, file, block, ring,
       command
<1>4. CASE Set
  <2>1. Flags'
    BY <1>4 DEF TypeOK, Flags, Set, seekVars, settings, file, block, ring, command
  <2>. QED BY <1>4, <2>1 DEF TypeOK, Flags, Set, seekVars, settings, file, block, ring, command
<1>5. CASE Exit
  <2>1. Flags'
    BY <1>5 DEF TypeOK, Flags, Exit, seekVars, settings, file, block, ring, command
  <2>. QED BY <1>5, <2>1 DEF TypeOK, Flags, Exit, seekVars, settings, file, block, ring, command
<1>6. CASE OpenFile
  <2>1. Flags'
    BY <1>6 DEF TypeOK, Flags, OpenFile, seekVars, settings, file, block, ring, command
  <2>. QED BY <1>6, <2>1 DEF TypeOK, Flags, OpenFile, seekVars, settings, file, block, ring,
       command
<1>7. CASE LeaveLoop
  <2>1. Flags'
    BY <1>7 DEF TypeOK, Flags, LeaveLoop, seekVars, settings, file, block, ring, command
  <2>. QED BY <1>7, <2>1 DEF TypeOK, Flags, LeaveLoop, seekVars, settings, file, block, ring,
       command
<1>8. CASE TakeMove
  <2>1. Flags'
    BY <1>8 DEF TypeOK, Flags, TakeMove, seekVars, settings, file, block, ring, command
  <2>. QED BY <1>8, <2>1 DEF TypeOK, Flags, TakeMove, seekVars, settings, file, block, ring,
       command
<1>9. CASE TestSeek
  <2>1. Flags'
    BY <1>9 DEF TypeOK, Flags, TestSeek, Pending, seekVars, settings, file, block, ring, command
  <2>. QED BY <1>9, <2>1 DEF TypeOK, Flags, TestSeek, Pending, seekVars, settings, file, block,
       ring, command
<1>10. CASE Rebase
  <2>1. Flags'
    BY <1>10 DEF TypeOK, Flags, Rebase, seekVars, settings, file, block, ring, command
  <2>2. Length[i] \in Nat /\ Length[i] * m_nMoveIdx \in Int
    BY <1>10, FileFacts DEF TypeOK, Rebase
  <2>. QED BY <1>10, <2>1, <2>2 DEF TypeOK, Flags, Rebase, seekVars, settings, file, block,
       ring, command
<1>11. CASE StoreFrame
  <2>1. Flags'
    BY <1>11 DEF TypeOK, Flags, StoreFrame, seekVars, settings, file, block, ring, command
  <2>. QED BY <1>11, <2>1 DEF TypeOK, Flags, StoreFrame, seekVars, settings, file, block, ring,
       command
<1>12. CASE Seekg
  <2>1. Flags'
    BY <1>12 DEF TypeOK, Flags, Seekg, seekVars, settings, file, block, ring, command
  <2>. QED BY <1>12, <2>1 DEF TypeOK, Flags, Seekg, seekVars, settings, file, block, ring,
       command
<1>13. CASE SeekServed
  <2>1. Flags'
    BY <1>13 DEF TypeOK, Flags, SeekServed, seekVars, settings, file, block, ring, command
  <2>. QED BY <1>13, <2>1 DEF TypeOK, Flags, SeekServed, seekVars, settings, file, block, ring,
       command
<1>14. CASE Read
  <2>1. i \in Files /\ Length[i] \in Nat /\ First[i] \in Nat /\ First[i] + Length[i] <= First[NFiles]
    BY <1>14, FileFacts DEF TypeOK, Read
  <2>2. eof' \in BOOLEAN /\ m_IsAudioRead' \in BOOLEAN
    <3>1. CASE ~m_IsPause /\ ~m_IsAudioRead
      <4>1. eof' = (pos >= Length[i]) /\ m_IsAudioRead' = TRUE
        BY <1>14, <3>1, Zenon DEF Read
      <4>. DEFINE past == pos >= Length[i]
      <4>2. past \in BOOLEAN
        OBVIOUS
      <4>3. eof' = past
        BY <4>1
      <4>. HIDE DEF past
      <4>. QED BY <4>1, <4>2, <4>3
    <3>2. CASE ~(~m_IsPause /\ ~m_IsAudioRead)
      BY <1>14, <3>2 DEF Read, TypeOK, block
    <3>. QED BY <3>1, <3>2
  <2>3. audio_buf' \in Junk .. First[NFiles] - 1 /\ pos' \in Int /\ m_nAudioCount' \in Nat
    <3>1. CASE ~m_IsPause /\ ~m_IsAudioRead /\ pos \in 0 .. Length[i] - 1
      BY <1>14, <2>1, <3>1, <1>0 DEF Read, TypeOK, Junk
    <3>2. CASE ~m_IsPause /\ ~m_IsAudioRead /\ pos \notin 0 .. Length[i] - 1
      BY <1>14, <3>2, <1>0 DEF Read, TypeOK, Junk
    <3>3. CASE ~(~m_IsPause /\ ~m_IsAudioRead)
      BY <1>14, <3>3 DEF Read, TypeOK, block
    <3>. QED BY <3>1, <3>2, <3>3
  <2>4. /\ d_pc = "read" /\ d_pc' = "put"
        /\ UNCHANGED <<seekVars, settings, m_bExit, i, ring, d_frame, command, lost>>
    BY <1>14 DEF Read
  <2>. QED BY <2>1, <2>2, <2>3, <2>4 DEF TypeOK, seekVars, settings, ring, command
<1>15. CASE EndOfFile
  <2>1. Flags'
    BY <1>15 DEF TypeOK, Flags, EndOfFile, seekVars, settings, file, block, ring, command
  <2>2. i \in Files /\ i' = i + 1 /\ i + 1 \in 0 .. NFiles
    BY <1>15, FileFacts DEF TypeOK, EndOfFile
  <2>. QED BY <1>15, <2>1, <2>2 DEF TypeOK, Flags, EndOfFile, seekVars, settings, file, block,
       ring, command
<1>16. CASE Put
  <2>1. Flags'
    BY <1>16 DEF TypeOK, Flags, Put, seekVars, settings, file, block, ring, command
  <2>2. audio_buf' \in Junk .. First[NFiles] - 1
    BY <1>16, <1>0 DEF TypeOK, Put, Kept, Junk
  <2>3. m_nAudio' \in 0 .. MaxAudio /\ put' \subseteq Junk .. First[NFiles] - 1
    <3>. DEFINE stores == /\ ~m_IsPause /\ ~m_bIsRerverse /\ m_nSpeed = 1 /\ m_IsAudioRead
                          /\ m_nAudio < MaxAudio
    <3>1. CASE stores
      <4>1. m_nAudio' = m_nAudio + 1 /\ put' = put \cup {audio_buf} /\ m_nAudio < MaxAudio
        BY <1>16, <3>1, Zenon DEF Put
      <4>2. put \subseteq Junk .. First[NFiles] - 1 /\ audio_buf \in Junk .. First[NFiles] - 1
        BY DEF TypeOK
      <4>3. m_nAudio \in 0 .. MaxAudio
        BY DEF TypeOK
      <4>. QED BY <4>1, <4>2, <4>3
    <3>2. CASE ~stores
      BY <1>16, <3>2 DEF TypeOK, Put, ring
    <3>. QED BY <3>1, <3>2
  <2>. QED BY <1>16, <2>1, <2>2, <2>3 DEF TypeOK, Flags, Put, seekVars, settings, file, block,
       command
<1>17. CASE UNCHANGED vars
  BY <1>17 DEF TypeOK, vars, seekVars, settings, file, block, ring, command
<1>. QED BY <1>1, <1>2, <1>3, <1>4, <1>5, <1>6, <1>7, <1>8, <1>9, <1>10, <1>11, <1>12,
            <1>13, <1>14, <1>15, <1>16, <1>17 DEF Next, Command, Demuxer, Done

(* The block that is read stays the one there is: m_IsAudioRead is never     *)
(* reset, and audio_buf keeps the block or loses it.                         *)
LEMMA OneStep ==
  ASSUME TypeOK, OneInv, [Next]_vars
  PROVE  OneInv'
<1>1. CASE \E nFrame \in Frames : MoveIndex(nFrame)
  BY <1>1 DEF MoveIndex, OneInv, seekVars, settings, file, block, ring, command
<1>2. CASE MoveFrame
  BY <1>2 DEF MoveFrame, OneInv, seekVars, settings, file, block, ring, command
<1>3. CASE MoveFlag
  BY <1>3 DEF MoveFlag, OneInv, seekVars, settings, file, block, ring, command
<1>4. CASE Set
  BY <1>4 DEF Set, OneInv, seekVars, settings, file, block, ring, command
<1>5. CASE Exit
  BY <1>5 DEF Exit, OneInv, seekVars, settings, file, block, ring, command
<1>6. CASE OpenFile
  BY <1>6 DEF OpenFile, OneInv, seekVars, settings, file, block, ring, command
<1>7. CASE LeaveLoop
  BY <1>7 DEF LeaveLoop, OneInv, seekVars, settings, file, block, ring, command
<1>8. CASE TakeMove
  BY <1>8 DEF TakeMove, OneInv, seekVars, settings, file, block, ring, command
<1>9. CASE TestSeek
  BY <1>9 DEF TestSeek, Pending, OneInv, seekVars, settings, file, block, ring, command
<1>10. CASE Rebase
  BY <1>10 DEF Rebase, OneInv, seekVars, settings, file, block, ring, command
<1>11. CASE StoreFrame
  BY <1>11 DEF StoreFrame, OneInv, seekVars, settings, file, block, ring, command
<1>12. CASE Seekg
  BY <1>12 DEF Seekg, OneInv, seekVars, settings, file, block, ring, command
<1>13. CASE SeekServed
  BY <1>13 DEF SeekServed, OneInv, seekVars, settings, file, block, ring, command
<1>14. CASE Read
  <2>1. CASE ~m_IsPause /\ ~m_IsAudioRead
    <3>1. put' = {} /\ m_IsAudioRead' = TRUE /\ audio_buf' \in Int
      BY <1>14, <2>1, FileFacts DEF TypeOK, Read, OneInv, ring, Junk
    <3>2. put' \cup {audio_buf'} \subseteq {audio_buf', Junk}
      BY <3>1
    <3>. QED BY <3>1, <3>2 DEF OneInv
  <2>2. CASE ~(~m_IsPause /\ ~m_IsAudioRead)
    BY <1>14, <2>2 DEF Read, OneInv, block, ring
  <2>. QED BY <2>1, <2>2
<1>15. CASE EndOfFile
  BY <1>15 DEF EndOfFile, OneInv, seekVars, settings, file, block, ring, command
<1>16. CASE Put
  <2>1. PICK b \in Int : put \cup {audio_buf} \subseteq {b, Junk}
    BY DEF OneInv
  <2>2. put' \subseteq put \cup {audio_buf} /\ audio_buf' \in {audio_buf, Junk}
    BY <1>16 DEF Put, Kept, ring
  <2>3. put' \cup {audio_buf'} \subseteq {b, Junk}
    BY <2>1, <2>2
  <2>4. ~m_IsAudioRead => put' = put
    BY <1>16 DEF Put, ring
  <2>5. UNCHANGED <<m_IsAudioRead, eof>>
    BY <1>16 DEF Put, file
  <2>. QED BY <2>1, <2>2, <2>3, <2>4, <2>5 DEF OneInv
<1>17. CASE UNCHANGED vars
  BY <1>17 DEF vars, OneInv, seekVars, settings, file, block, ring, command
<1>. QED BY <1>1, <1>2, <1>3, <1>4, <1>5, <1>6, <1>7, <1>8, <1>9, <1>10, <1>11, <1>12,
            <1>13, <1>14, <1>15, <1>16, <1>17 DEF Next, Command, Demuxer, Done

(* The stores of SetMoveSec. The demuxer stores into m_nSeekFrame as well,   *)
(* but where a frame of SetMoveSec could be hit the play_seek is lost.       *)
LEMMA StoredStep ==
  ASSUME TypeOK, StoredInv, [Next]_vars
  PROVE  StoredInv'
<1>1. CASE \E nFrame \in Frames : MoveIndex(nFrame)
  <2>. PICK nFrame \in Frames : MoveIndex(nFrame)
    BY <1>1
  <2>1. nFrame \in Nat /\ c_pc' = "frame" /\ c_frame' = nFrame
    BY AudioPlayAssumption DEF MoveIndex
  <2>2. ~lost' => nFrame # 0
    BY Zenon DEF MoveIndex
  <2>3. m_nMoveIdx' = FindFileIndexFromFrame(c_frame')
    BY DEF MoveIndex
  <2>. QED BY <2>1, <2>2, <2>3 DEF StoredInv
<1>2. CASE MoveFrame
  BY <1>2 DEF MoveFrame, TypeOK, StoredInv, Pending, seekVars, settings, file, block, ring,
       command
<1>3. CASE MoveFlag
  BY <1>3 DEF MoveFlag, TypeOK, StoredInv, Pending, seekVars, settings, file, block, ring,
       command
<1>4. CASE Set
  BY <1>4 DEF Set, TypeOK, StoredInv, Pending, seekVars, settings, file, block, ring, command
<1>5. CASE Exit
  BY <1>5 DEF Exit, TypeOK, StoredInv, Pending, seekVars, settings, file, block, ring, command
<1>6. CASE OpenFile
  BY <1>6 DEF OpenFile, TypeOK, StoredInv, Pending, seekVars, settings, file, block, ring,
       command
<1>7. CASE LeaveLoop
  BY <1>7 DEF LeaveLoop, TypeOK, StoredInv, Pending, seekVars, settings, file, block, ring,
       command
<1>8. CASE TakeMove
  BY <1>8 DEF TakeMove, TypeOK, StoredInv, Pending, seekVars, settings, file, block, ring,
       command
<1>9. CASE TestSeek
  BY <1>9 DEF TestSeek, Pending, TypeOK, StoredInv, Pending, seekVars, settings, file, block,
       ring, command
<1>10. CASE Rebase
  BY <1>10 DEF Rebase, TypeOK, StoredInv, Pending, seekVars, settings, file, block, ring,
       command
<1>11. CASE StoreFrame
  BY <1>11 DEF StoreFrame, TypeOK, StoredInv, Pending, seekVars, settings, file, block, ring,
       command
<1>12. CASE Seekg
  BY <1>12 DEF Seekg, TypeOK, StoredInv, Pending, seekVars, settings, file, block, ring, command
<1>13. CASE SeekServed
  BY <1>13 DEF SeekServed, TypeOK, StoredInv, Pending, seekVars, settings, file, block, ring,
       command
<1>14. CASE Read
  BY <1>14 DEF Read, TypeOK, StoredInv, Pending, seekVars, settings, file, block, ring, command
<1>15. CASE EndOfFile
  BY <1>15 DEF EndOfFile, TypeOK, StoredInv, Pending, seekVars, settings, file, block, ring,
       command
<1>16. CASE Put
  BY <1>16 DEF Put, Kept, TypeOK, StoredInv, Pending, seekVars, settings, file, block, ring,
       command
<1>17. CASE UNCHANGED vars
  BY <1>17 DEF vars, TypeOK, StoredInv, Pending, seekVars, settings, file, block, ring, command
<1>. QED BY <1>1, <1>2, <1>3, <1>4, <1>5, <1>6, <1>7, <1>8, <1>9, <1>10, <1>11, <1>12,
            <1>13, <1>14, <1>15, <1>16, <1>17 DEF Next, Command, Demuxer, Done

(* A play_seek on its way, in a channel that has read no block.             *)
LEMMA TakenStep ==
  ASSUME IInv, [Next]_vars
  PROVE  TakenInv'
<1>. USE DEF IInv
<1>1. CASE \E nFrame \in Frames : MoveIndex(nFrame)
  BY <1>1 DEF MoveIndex, TypeOK, TakenInv, Taken, Target, seekVars, settings, file, block,
       ring, command
<1>2. CASE MoveFrame
  BY <1>2 DEF MoveFrame, TypeOK, TakenInv, Taken, Target, seekVars, settings, file, block,
       ring, command
<1>3. CASE MoveFlag
  BY <1>3 DEF MoveFlag, TypeOK, TakenInv, Taken, Target, seekVars, settings, file, block, ring,
       command
<1>4. CASE Set
  BY <1>4 DEF Set, TypeOK, TakenInv, Taken, Target, seekVars, settings, file, block, ring,
       command
<1>5. CASE Exit
  BY <1>5 DEF Exit, TypeOK, TakenInv, Taken, Target, seekVars, settings, file, block, ring,
       command
<1>6. CASE OpenFile
  BY <1>6 DEF OpenFile, TypeOK, TakenInv, Taken, Target, seekVars, settings, file, block, ring,
       command
<1>7. CASE LeaveLoop
  BY <1>7 DEF LeaveLoop, TypeOK, TakenInv, Taken, Target, seekVars, settings, file, block,
       ring, command
<1>8. CASE TakeMove
  <2>1. CASE d_pc = "move"
    BY <1>8, <2>1 DEF TakeMove, TypeOK, TakenInv, Taken, StoredInv, seekVars, settings, file,
         block, ring, command
  <2>2. CASE d_pc = "index"
    BY <1>8, <2>2 DEF TakeMove, TypeOK, TakenInv, Taken, StoredInv, seekVars, settings, file,
         block, ring, command
  <2>. QED BY <1>8, <2>1, <2>2 DEF TakeMove
<1>9. CASE TestSeek
  <2>1. Taken' => Taken
    BY <1>9 DEF TestSeek, Taken, Pending, seekVars, command
  <2>2. Taken => c_frame > 0 /\ c_frame \in Nat
    BY DEF Taken, StoredInv, TypeOK
  <2>. QED BY <1>9, <2>1, <2>2 DEF TestSeek, TakenInv, Taken, Target, seekVars, file, command
<1>10. CASE Rebase
  BY <1>10 DEF Rebase, TypeOK, TakenInv, Taken, Target, seekVars, settings, file, block, ring,
       command
<1>11. CASE StoreFrame
  BY <1>11 DEF StoreFrame, TypeOK, TakenInv, Taken, Target, seekVars, settings, file, block,
       ring, command
<1>12. CASE Seekg
  BY <1>12 DEF Seekg, TypeOK, TakenInv, Taken, Target, seekVars, settings, file, block, ring,
       command
<1>13. CASE SeekServed
  BY <1>13 DEF SeekServed, TypeOK, TakenInv, Taken, Target, seekVars, settings, file, block,
       ring, command
<1>14. CASE Read
  <2>1. Taken' => ~m_IsAudioRead /\ UNCHANGED <<block, pos, eof>>
    <3>1. CASE ~m_IsPause /\ ~m_IsAudioRead
      BY <1>14, <3>1 DEF Read, Taken
    <3>2. CASE ~(~m_IsPause /\ ~m_IsAudioRead)
      BY <1>14, <3>2 DEF Read, Taken, block
    <3>. QED BY <3>1, <3>2
  <2>2. d_pc = "read" /\ d_pc' = "put" /\ UNCHANGED <<seekVars, i, command, lost>>
    BY <1>14 DEF Read
  <2>3. Taken' => Taken
    BY <2>1, <2>2 DEF Taken, seekVars, command, block
  <2>. QED BY <2>1, <2>2, <2>3 DEF TakenInv, Target, seekVars, command, block
<1>15. CASE EndOfFile
  BY <1>15 DEF EndOfFile, OneInv, TakenInv, Taken, seekVars, settings, file, block, ring,
       command
<1>16. CASE Put
  BY <1>16 DEF Put, Kept, TypeOK, TakenInv, Taken, Target, seekVars, settings, file, block,
       ring, command
<1>17. CASE UNCHANGED vars
  BY <1>17 DEF vars, TypeOK, TakenInv, Taken, Target, seekVars, settings, file, block, ring,
       command
<1>. QED BY <1>1, <1>2, <1>3, <1>4, <1>5, <1>6, <1>7, <1>8, <1>9, <1>10, <1>11, <1>12,
            <1>13, <1>14, <1>15, <1>16, <1>17 DEF Next, Command, Demuxer, Done

(* Nothing has been asked for, read or put at first.                        *)
LEMMA InitIInv == Init => IInv
<1>. SUFFICES ASSUME Init PROVE IInv
  OBVIOUS
<1>. USE AudioPlayAssumption
<1>1. TypeOK
  <2>1. Flags
    BY DEF Init, Flags
  <2>2. Junk \in Junk .. First[NFiles] - 1
    BY FileFacts DEF Junk
  <2>. QED BY <2>1, <2>2 DEF Init, TypeOK, Flags
<1>2. OneInv
  BY DEF Init, OneInv, Junk
<1>3. StoredInv /\ TakenInv
  BY DEF Init, StoredInv, TakenInv, Taken
<1>. QED BY <1>1, <1>2, <1>3 DEF IInv

(* All of it holds in every reachable state.                                *)
THEOREM Invariance == Spec => []IInv
<1>1. IInv /\ [Next]_vars => IInv'
  BY TypeStep, OneStep, StoredStep, TakenStep DEF IInv
<1>. QED BY <1>1, InitIInv, PTL DEF Spec

(* However much is sought, paused or opened, one block of the recording     *)
(* reaches the ring.                                                        *)
THEOREM OneBlockOnly == Spec => []BlockInv
<1>1. IInv => OneBlock
  <2>. SUFFICES ASSUME IInv PROVE Cardinality(put \ {Junk}) <= 1
    BY DEF OneBlock
  <2>1. PICK b \in Int : put \ {Junk} \subseteq {b}
    BY DEF IInv, OneInv
  <2>2. IsFiniteSet({b}) /\ Cardinality({b}) = 1
    BY FS_Singleton
  <2>3. Cardinality(put \ {Junk}) <= Cardinality({b})
    BY <2>1, <2>2, FS_Subset
  <2>. QED BY <2>2, <2>3
<1>2. IInv => BlockInv
  BY <1>1 DEF IInv, BlockInv
<1>. QED BY <1>2, Invariance, PTL

(* The block read after a play_seek is the one asked for, if the files      *)
(* before it are as long as its own and no store fell in between.           *)
THEOREM SeekReadsBlock == Spec => []Landed
<1>1. IInv => Landed
  <2>. SUFFICES ASSUME IInv, d_pc = "read", Settled, ~m_IsAudioRead
                PROVE  First[i] + pos = c_frame /\ m_nAudioCount = c_frame
    BY DEF Landed
  <2>1. Taken
    BY DEF Settled, Taken
  <2>2. i = m_nMoveIdx /\ pos = Target /\ m_nAudioCount = c_frame
    BY <2>1 DEF IInv, TakenInv
  <2>3. i \in Files /\ Length[i] \in Nat /\ c_frame \in Nat /\ i \in Nat
    BY FileFacts DEF IInv, TypeOK
  <2>4. First[i] = Length[i] * i
    BY <2>3, FirstMultiple DEF Settled
  <2>5. Length[i] * i \in Int
    BY <2>3
  <2>. QED BY <2>2, <2>3, <2>4, <2>5 DEF Target
<1>. QED BY <1>1, Invariance, PTL
=============================================================================
