---------------------------- MODULE VideoQueueProofs ----------------------------
(***************************************************************************)
(* Proofs about VideoQueue for a ring of any size, any number of packets   *)
(* and any number of seeks.                                                *)
(*                                                                         *)
(* The argument is the inductive invariant IInv. Its core is SyncInv: while*)
(* no Clear has overlapped a GetVideo .. RetVideo, the ring holds the      *)
(* packets takes + 1 .. puts in the slots from First on (RingInv), or is   *)
(* being emptied with the sender outside (ClearInv). The other conjuncts   *)
(* hold whether or not a Clear has overlapped.                             *)
(*                                                                         *)
(* The second part proves that the ring implements VideoChannel: IInv tells*)
(* what the ring holds while no Clear has overlapped the sender, and each  *)
(* step of the two threads is then one step of the channel, or none.       *)
(***************************************************************************)
EXTENDS VideoQueueImpl, FiniteSetTheorems, TLAPS

(* m_nReadPos++ and m_nWritePos++ with their wrap stay inside the ring.    *)
LEMMA NextPosType ==
  ASSUME NEW p \in Slots
  PROVE  NextPos(p) \in Slots
BY QueueAssumption DEF Slots, NextPos

(* Counting k slots on from a slot, with the wrap, ends at a slot.         *)
LEMMA SlotAtType ==
  ASSUME NEW p \in Slots, NEW k \in 0 .. NSlots
  PROVE  SlotAt(p, k) \in Slots
BY QueueAssumption DEF Slots, SlotAt

(* A slot is at most one turn of the ring behind another.                  *)
LEMMA DistanceType ==
  ASSUME NEW p \in Slots, NEW i \in Slots
  PROVE  Distance(p, i) \in 0 .. NSlots - 1
BY QueueAssumption DEF Slots, Distance

(* A slot is no slots after itself.                                        *)
LEMMA DistanceSelf ==
  ASSUME NEW p \in Slots
  PROVE  Distance(p, p) = 0
BY QueueAssumption DEF Slots, Distance

(* Distance is the inverse of SlotAt.                                      *)
LEMMA DistanceInverse ==
  ASSUME NEW p \in Slots, NEW i \in Slots, NEW k \in 0 .. NSlots - 1
  PROVE  Distance(p, i) = k <=> i = SlotAt(p, k)
BY QueueAssumption DEF Slots, Distance, SlotAt

(* One slot further, counted at either end.                                *)
LEMMA SlotAtNext ==
  ASSUME NEW p \in Slots, NEW k \in 0 .. NSlots - 1
  PROVE  /\ NextPos(SlotAt(p, k)) = SlotAt(p, k + 1)
         /\ SlotAt(NextPos(p), k) = SlotAt(p, k + 1)
BY QueueAssumption DEF Slots, NextPos, SlotAt

(* Moving the origin one slot on moves every slot one slot nearer, and the *)
(* origin itself to the end.                                               *)
LEMMA DistanceNext ==
  ASSUME NEW p \in Slots, NEW i \in Slots
  PROVE  Distance(NextPos(p), i) = IF i = p THEN NSlots - 1 ELSE Distance(p, i) - 1
BY QueueAssumption DEF Slots, NextPos, Distance

(* Sets of slots are finite, so they can be counted.                       *)
LEMMA SlotsFinite ==
  ASSUME NEW S \in SUBSET Slots
  PROVE  IsFiniteSet(S) /\ Cardinality(S) \in Nat
<1>1. IsFiniteSet(Slots)
  BY QueueAssumption, FS_Interval DEF Slots
<1>2. IsFiniteSet(S)
  BY <1>1, FS_Subset
<1> QED
  BY <1>2, FS_CardinalityType

(* The constructor of CQueue and the start of the two threads establish    *)
(* the invariant.                                                          *)
THEOREM InitIInv == Init => IInv
<1> SUFFICES ASSUME Init PROVE IInv
  OBVIOUS
<1>1. TypeOK
  <2>1. m_bEnable \in BOOLEAN /\ crossed \in BOOLEAN
    BY DEF Init
  <2> QED
    BY <2>1, QueueAssumption DEF Init, TypeOK, Slots
<1>2. MutexInv /\ FillInv /\ SeekInv /\ SlotInv
  BY QueueAssumption DEF Init, MutexInv, FillInv, SeekInv, SlotInv, FlushComplete, Clearing,
       Slots
<1>3. RingInv
  BY QueueAssumption, SMT DEF Init, RingInv, Live, First, Holding, SlotAt, Distance, Slots
<1>4. ~Flushing
  BY DEF Init, Flushing, Clearing
<1>5. CountInv
  <2>1. Filled = {}
    BY DEF Init, Filled
  <2> QED
    BY <2>1, FS_EmptySet DEF Init, CountInv, Holding
<1>6. SeekSeenInv
  BY DEF Init, SeekSeenInv, SeekNotAhead
<1> QED
  BY <1>1, <1>2, <1>3, <1>4, <1>5, <1>6 DEF IInv, SyncInv

(* Types: the only one that is not immediate is m_nReadPos after RetPos,   *)
(* which stores what RetLock loaded (FillInv).                             *)
LEMMA TypeStep ==
  ASSUME TypeOK, FillInv, [Next]_vars
  PROVE  TypeOK'
<1> USE QueueAssumption
<1>1. CASE ReadFrame
  BY <1>1 DEF ReadFrame, TypeOK, queueVars, senderVars, history
<1>2. CASE SeekAndRead
  BY <1>2 DEF SeekAndRead, TypeOK, queueVars, senderVars, history
<1>3. CASE EndOfFiles
  BY <1>3 DEF EndOfFiles, TypeOK, queueVars, senderVars, history
<1>4. CASE PutCompare
  <2>1. (m_bEnable \in BOOLEAN)' /\ (crossed \in BOOLEAN)'
    BY <1>4 DEF PutCompare, TypeOK, queueVars, senderVars, Inside, Holding
  <2> QED
    BY <1>4, <2>1 DEF PutCompare, TypeOK, Slots, queueVars, senderVars
<1>5. CASE ClearSlot
  BY <1>5 DEF ClearSlot, SlotsLeft, TypeOK, senderVars, history, Slots
<1>6. CASE ClearReadPos
  BY <1>6 DEF ClearReadPos, TypeOK, senderVars, history, Slots
<1>7. CASE ClearWritePosAndDisable
  <2>1. (m_bEnable \in BOOLEAN)' /\ (crossed \in BOOLEAN)'
    BY <1>7 DEF ClearWritePosAndDisable, TypeOK, senderVars, history
  <2> QED
    BY <1>7, <2>1 DEF ClearWritePosAndDisable, TypeOK, Slots, senderVars, history
<1>8. CASE ClearCount
  BY <1>8 DEF ClearCount, TypeOK, senderVars
<1>9. CASE PutStartPts
  BY <1>9 DEF PutStartPts, TypeOK, senderVars, history
<1>10. CASE PutTestFull
  BY <1>10 DEF PutTestFull, Full, TypeOK, queueVars, senderVars, history
<1>11. CASE PutStore
  BY <1>11, NextPosType DEF PutStore, TypeOK, senderVars, Current, Packet
<1>12. CASE PutEnable
  <2>1. (m_bEnable \in BOOLEAN)' /\ (crossed \in BOOLEAN)'
    BY <1>12 DEF PutEnable, TypeOK, senderVars, history
  <2> QED
    BY <1>12, <2>1 DEF PutEnable, TypeOK, Slots, senderVars, history
<1>13. CASE GetStartPts
  BY <1>13 DEF GetStartPts, TypeOK, queueVars, demuxerVars, history
<1>14. CASE GetTestEnable
  BY <1>14 DEF GetTestEnable, TypeOK, queueVars, demuxerVars, history
<1>15. CASE GetEmpty
  BY <1>15 DEF GetEmpty, TypeOK, queueVars, demuxerVars, history
<1>16. CASE GetFound
  <2>1. (m_bEnable \in BOOLEAN)' /\ (crossed \in BOOLEAN)'
    BY <1>16 DEF GetFound, TypeOK, demuxerVars, Clearing
  <2> QED
    BY <1>16, <2>1 DEF GetFound, TypeOK, Slots, demuxerVars
<1>17. CASE GetTake
  BY <1>17 DEF GetTake, TypeOK, demuxerVars
<1>18. CASE GetRaced
  BY <1>18 DEF GetRaced, TypeOK, demuxerVars, history
<1>19. CASE RetLock
  BY <1>19 DEF RetLock, TypeOK, demuxerVars, history, Slots
<1>20. CASE RetPos
  BY <1>20, NextPosType DEF RetPos, TypeOK, demuxerVars, history, FillInv
<1>21. CASE RetLoad
  BY <1>21 DEF RetLoad, TypeOK, queueVars, demuxerVars, history
<1>22. CASE RetCount
  BY <1>22 DEF RetCount, TypeOK, demuxerVars, history
<1>23. CASE UNCHANGED vars
  BY <1>23 DEF vars, TypeOK, queueVars, demuxerVars, senderVars, history
<1> QED
  BY <1>1, <1>2, <1>3, <1>4, <1>5, <1>6, <1>7, <1>8, <1>9, <1>10, <1>11, <1>12, <1>13,
     <1>14, <1>15, <1>16, <1>17, <1>18, <1>19, <1>20, <1>21, <1>22, <1>23 DEF Next,
     Demuxer, Sender

(* The mutex is held exactly between GetVideo's or RetVideo's lock and     *)
(* unlock.                                                                 *)
LEMMA MutexStep ==
  ASSUME TypeOK, MutexInv, [Next]_vars
  PROVE  MutexInv'
<1> USE QueueAssumption
<1>1. CASE ReadFrame
  BY <1>1 DEF ReadFrame, MutexInv, queueVars, senderVars, history
<1>2. CASE SeekAndRead
  BY <1>2 DEF SeekAndRead, MutexInv, queueVars, senderVars, history
<1>3. CASE EndOfFiles
  BY <1>3 DEF EndOfFiles, MutexInv, queueVars, senderVars, history
<1>4. CASE PutCompare
  BY <1>4 DEF PutCompare, MutexInv, queueVars, senderVars
<1>5. CASE ClearSlot
  BY <1>5 DEF ClearSlot, SlotsLeft, MutexInv, senderVars, history
<1>6. CASE ClearReadPos
  BY <1>6 DEF ClearReadPos, MutexInv, senderVars, history
<1>7. CASE ClearWritePosAndDisable
  BY <1>7 DEF ClearWritePosAndDisable, MutexInv, senderVars, history
<1>8. CASE ClearCount
  BY <1>8 DEF ClearCount, MutexInv, senderVars
<1>9. CASE PutStartPts
  BY <1>9 DEF PutStartPts, MutexInv, senderVars, history
<1>10. CASE PutTestFull
  BY <1>10 DEF PutTestFull, Full, MutexInv, queueVars, senderVars, history
<1>11. CASE PutStore
  BY <1>11 DEF PutStore, MutexInv, senderVars
<1>12. CASE PutEnable
  BY <1>12 DEF PutEnable, MutexInv, senderVars, history
<1>13. CASE GetStartPts
  BY <1>13 DEF GetStartPts, MutexInv, queueVars, demuxerVars, history
<1>14. CASE GetTestEnable
  BY <1>14 DEF GetTestEnable, MutexInv, queueVars, demuxerVars, history
<1>15. CASE GetEmpty
  BY <1>15 DEF GetEmpty, MutexInv, queueVars, demuxerVars, history
<1>16. CASE GetFound
  BY <1>16 DEF GetFound, MutexInv, demuxerVars
<1>17. CASE GetTake
  BY <1>17 DEF GetTake, MutexInv, demuxerVars
<1>18. CASE GetRaced
  BY <1>18 DEF GetRaced, MutexInv, demuxerVars, history
<1>19. CASE RetLock
  BY <1>19 DEF RetLock, MutexInv, demuxerVars, history
<1>20. CASE RetPos
  BY <1>20 DEF RetPos, MutexInv, demuxerVars, history
<1>21. CASE RetLoad
  BY <1>21 DEF RetLoad, MutexInv, queueVars, demuxerVars, history
<1>22. CASE RetCount
  BY <1>22 DEF RetCount, MutexInv, demuxerVars, history
<1>23. CASE UNCHANGED vars
  BY <1>23 DEF vars, MutexInv, queueVars, demuxerVars, senderVars, history
<1> QED
  BY <1>1, <1>2, <1>3, <1>4, <1>5, <1>6, <1>7, <1>8, <1>9, <1>10, <1>11, <1>12, <1>13,
     <1>14, <1>15, <1>16, <1>17, <1>18, <1>19, <1>20, <1>21, <1>22, <1>23 DEF Next,
     Demuxer, Sender

(* Only PutStore raises the fill level, and the test before it stays good  *)
(* because only the demuxer puts.                                          *)
LEMMA FillStep ==
  ASSUME TypeOK, MutexInv, FillInv, [Next]_vars
  PROVE  FillInv'
<1> USE QueueAssumption
<1>1. CASE ReadFrame
  BY <1>1 DEF ReadFrame, FillInv, TypeOK, queueVars, senderVars, history
<1>2. CASE SeekAndRead
  BY <1>2 DEF SeekAndRead, FillInv, TypeOK, queueVars, senderVars, history
<1>3. CASE EndOfFiles
  BY <1>3 DEF EndOfFiles, FillInv, TypeOK, queueVars, senderVars, history
<1>4. CASE PutCompare
  BY <1>4 DEF PutCompare, FillInv, TypeOK, queueVars, senderVars
<1>5. CASE ClearSlot
  BY <1>5 DEF ClearSlot, SlotsLeft, FillInv, TypeOK, senderVars, history
<1>6. CASE ClearReadPos
  BY <1>6 DEF ClearReadPos, FillInv, TypeOK, senderVars, history
<1>7. CASE ClearWritePosAndDisable
  BY <1>7 DEF ClearWritePosAndDisable, FillInv, TypeOK, senderVars, history
<1>8. CASE ClearCount
  BY <1>8 DEF ClearCount, FillInv, TypeOK, senderVars
<1>9. CASE PutStartPts
  BY <1>9 DEF PutStartPts, FillInv, TypeOK, senderVars, history
<1>10. CASE PutTestFull
  BY <1>10 DEF PutTestFull, Full, FillInv, TypeOK, queueVars, senderVars, history
<1>11. CASE PutStore
  BY <1>11 DEF PutStore, FillInv, TypeOK, senderVars, MutexInv
<1>12. CASE PutEnable
  BY <1>12 DEF PutEnable, FillInv, TypeOK, senderVars, history
<1>13. CASE GetStartPts
  BY <1>13 DEF GetStartPts, FillInv, TypeOK, queueVars, demuxerVars, history
<1>14. CASE GetTestEnable
  BY <1>14 DEF GetTestEnable, FillInv, TypeOK, queueVars, demuxerVars, history
<1>15. CASE GetEmpty
  BY <1>15 DEF GetEmpty, FillInv, TypeOK, queueVars, demuxerVars, history
<1>16. CASE GetFound
  BY <1>16 DEF GetFound, FillInv, TypeOK, demuxerVars
<1>17. CASE GetTake
  BY <1>17 DEF GetTake, FillInv, TypeOK, demuxerVars
<1>18. CASE GetRaced
  BY <1>18 DEF GetRaced, FillInv, TypeOK, demuxerVars, history
<1>19. CASE RetLock
  BY <1>19 DEF RetLock, FillInv, TypeOK, demuxerVars, history
<1>20. CASE RetPos
  BY <1>20 DEF RetPos, FillInv, TypeOK, demuxerVars, history
<1>21. CASE RetLoad
  BY <1>21 DEF RetLoad, FillInv, TypeOK, queueVars, demuxerVars, history
<1>22. CASE RetCount
  BY <1>22 DEF RetCount, FillInv, TypeOK, demuxerVars, history
<1>23. CASE UNCHANGED vars
  BY <1>23 DEF vars, FillInv, TypeOK, queueVars, demuxerVars, senderVars, history
<1> QED
  BY <1>1, <1>2, <1>3, <1>4, <1>5, <1>6, <1>7, <1>8, <1>9, <1>10, <1>11, <1>12, <1>13,
     <1>14, <1>15, <1>16, <1>17, <1>18, <1>19, <1>20, <1>21, <1>22, <1>23 DEF Next,
     Demuxer, Sender

(* The queue's seek point follows the demuxer's.                           *)
LEMMA SeekStep ==
  ASSUME TypeOK, SeekInv, [Next]_vars
  PROVE  SeekInv'
<1> USE QueueAssumption
<1>1. CASE ReadFrame
  BY <1>1 DEF ReadFrame, SeekInv, TypeOK, Clearing, queueVars, senderVars, history
<1>2. CASE SeekAndRead
  BY <1>2 DEF SeekAndRead, SeekInv, TypeOK, Clearing, queueVars, senderVars, history
<1>3. CASE EndOfFiles
  BY <1>3 DEF EndOfFiles, SeekInv, TypeOK, Clearing, queueVars, senderVars, history
<1>4. CASE PutCompare
  BY <1>4 DEF PutCompare, SeekInv, TypeOK, Clearing, queueVars, senderVars
<1>5. CASE ClearSlot
  BY <1>5 DEF ClearSlot, SlotsLeft, SeekInv, TypeOK, Clearing, senderVars, history
<1>6. CASE ClearReadPos
  BY <1>6 DEF ClearReadPos, SeekInv, TypeOK, Clearing, senderVars, history
<1>7. CASE ClearWritePosAndDisable
  BY <1>7 DEF ClearWritePosAndDisable, SeekInv, TypeOK, Clearing, senderVars, history
<1>8. CASE ClearCount
  BY <1>8 DEF ClearCount, SeekInv, TypeOK, Clearing, senderVars
<1>9. CASE PutStartPts
  BY <1>9 DEF PutStartPts, SeekInv, TypeOK, Clearing, senderVars, history
<1>10. CASE PutTestFull
  BY <1>10 DEF PutTestFull, Full, SeekInv, TypeOK, Clearing, queueVars, senderVars, history
<1>11. CASE PutStore
  BY <1>11 DEF PutStore, SeekInv, TypeOK, Clearing, senderVars
<1>12. CASE PutEnable
  BY <1>12 DEF PutEnable, SeekInv, TypeOK, Clearing, senderVars, history
<1>13. CASE GetStartPts
  BY <1>13 DEF GetStartPts, SeekInv, TypeOK, Clearing, queueVars, demuxerVars, history
<1>14. CASE GetTestEnable
  BY <1>14 DEF GetTestEnable, SeekInv, TypeOK, Clearing, queueVars, demuxerVars, history
<1>15. CASE GetEmpty
  BY <1>15 DEF GetEmpty, SeekInv, TypeOK, Clearing, queueVars, demuxerVars, history
<1>16. CASE GetFound
  BY <1>16 DEF GetFound, SeekInv, TypeOK, Clearing, demuxerVars
<1>17. CASE GetTake
  BY <1>17 DEF GetTake, SeekInv, TypeOK, Clearing, demuxerVars
<1>18. CASE GetRaced
  BY <1>18 DEF GetRaced, SeekInv, TypeOK, Clearing, demuxerVars, history
<1>19. CASE RetLock
  BY <1>19 DEF RetLock, SeekInv, TypeOK, Clearing, demuxerVars, history
<1>20. CASE RetPos
  BY <1>20 DEF RetPos, SeekInv, TypeOK, Clearing, demuxerVars, history
<1>21. CASE RetLoad
  BY <1>21 DEF RetLoad, SeekInv, TypeOK, Clearing, queueVars, demuxerVars, history
<1>22. CASE RetCount
  BY <1>22 DEF RetCount, SeekInv, TypeOK, Clearing, demuxerVars, history
<1>23. CASE UNCHANGED vars
  BY <1>23 DEF vars, SeekInv, TypeOK, Clearing, queueVars, demuxerVars, senderVars,
     history
<1> QED
  BY <1>1, <1>2, <1>3, <1>4, <1>5, <1>6, <1>7, <1>8, <1>9, <1>10, <1>11, <1>12, <1>13,
     <1>14, <1>15, <1>16, <1>17, <1>18, <1>19, <1>20, <1>21, <1>22, <1>23 DEF Next,
     Demuxer, Sender

(* Clear empties the slots in order while nothing is put.                  *)
LEMMA SlotStep ==
  ASSUME TypeOK, SeekInv, SlotInv, [Next]_vars
  PROVE  SlotInv'
<1> USE QueueAssumption
<1>1. CASE ReadFrame
  BY <1>1 DEF ReadFrame, SlotInv, FlushComplete, SeekInv, TypeOK, Clearing, queueVars,
     senderVars, history
<1>2. CASE SeekAndRead
  BY <1>2 DEF SeekAndRead, SlotInv, FlushComplete, SeekInv, TypeOK, Clearing, queueVars,
     senderVars, history
<1>3. CASE EndOfFiles
  BY <1>3 DEF EndOfFiles, SlotInv, FlushComplete, SeekInv, TypeOK, Clearing, queueVars,
     senderVars, history
<1>4. CASE PutCompare
  BY <1>4 DEF PutCompare, SlotInv, FlushComplete, SeekInv, TypeOK, Clearing, queueVars,
     senderVars, Slots
<1>5. CASE ClearSlot
  BY <1>5 DEF ClearSlot, SlotsLeft, SlotInv, FlushComplete, SeekInv, TypeOK, Clearing,
       senderVars,
     history, Slots
<1>6. CASE ClearReadPos
  BY <1>6 DEF ClearReadPos, SlotInv, FlushComplete, SeekInv, TypeOK, Clearing,
     senderVars, history
<1>7. CASE ClearWritePosAndDisable
  BY <1>7 DEF ClearWritePosAndDisable, SlotInv, FlushComplete, SeekInv, TypeOK,
     Clearing, senderVars, history
<1>8. CASE ClearCount
  BY <1>8 DEF ClearCount, SlotInv, FlushComplete, SeekInv, TypeOK, Clearing, senderVars
<1>9. CASE PutStartPts
  BY <1>9 DEF PutStartPts, SlotInv, FlushComplete, SeekInv, TypeOK, Clearing,
     senderVars, history
<1>10. CASE PutTestFull
  BY <1>10 DEF PutTestFull, Full, SlotInv, FlushComplete, SeekInv, TypeOK, Clearing,
     queueVars, senderVars, history
<1>11. CASE PutStore
  BY <1>11 DEF PutStore, SlotInv, FlushComplete, SeekInv, TypeOK, Clearing, senderVars,
     Current
<1>12. CASE PutEnable
  BY <1>12 DEF PutEnable, SlotInv, FlushComplete, SeekInv, TypeOK, Clearing, senderVars,
     history
<1>13. CASE GetStartPts
  BY <1>13 DEF GetStartPts, SlotInv, FlushComplete, SeekInv, TypeOK, Clearing,
     queueVars, demuxerVars, history
<1>14. CASE GetTestEnable
  BY <1>14 DEF GetTestEnable, SlotInv, FlushComplete, SeekInv, TypeOK, Clearing,
     queueVars, demuxerVars, history
<1>15. CASE GetEmpty
  BY <1>15 DEF GetEmpty, SlotInv, FlushComplete, SeekInv, TypeOK, Clearing, queueVars,
     demuxerVars, history
<1>16. CASE GetFound
  BY <1>16 DEF GetFound, SlotInv, FlushComplete, SeekInv, TypeOK, Clearing, demuxerVars
<1>17. CASE GetTake
  BY <1>17 DEF GetTake, SlotInv, FlushComplete, SeekInv, TypeOK, Clearing, demuxerVars
<1>18. CASE GetRaced
  BY <1>18 DEF GetRaced, SlotInv, FlushComplete, SeekInv, TypeOK, Clearing, demuxerVars,
     history
<1>19. CASE RetLock
  BY <1>19 DEF RetLock, SlotInv, FlushComplete, SeekInv, TypeOK, Clearing, demuxerVars,
     history
<1>20. CASE RetPos
  BY <1>20 DEF RetPos, SlotInv, FlushComplete, SeekInv, TypeOK, Clearing, demuxerVars,
     history
<1>21. CASE RetLoad
  BY <1>21 DEF RetLoad, SlotInv, FlushComplete, SeekInv, TypeOK, Clearing, queueVars,
     demuxerVars, history
<1>22. CASE RetCount
  BY <1>22 DEF RetCount, SlotInv, FlushComplete, SeekInv, TypeOK, Clearing, demuxerVars,
     history
<1>23. CASE UNCHANGED vars
  BY <1>23 DEF vars, SlotInv, FlushComplete, SeekInv, TypeOK, Clearing, queueVars,
     demuxerVars, senderVars, history
<1> QED
  BY <1>1, <1>2, <1>3, <1>4, <1>5, <1>6, <1>7, <1>8, <1>9, <1>10, <1>11, <1>12, <1>13,
     <1>14, <1>15, <1>16, <1>17, <1>18, <1>19, <1>20, <1>21, <1>22, <1>23 DEF Next,
     Demuxer, Sender

(* GetVideo can only find its slot emptied when a Clear has overlapped it. *)
LEMMA RacedOnlyCrossed ==
  ASSUME TypeOK, SyncInv, GetRaced
  PROVE  crossed
<1>1. SUFFICES ASSUME ~crossed PROVE FALSE
  OBVIOUS
<1>2. ~Flushing /\ RingInv
  BY <1>1 DEF GetRaced, SyncInv, ClearInv, Inside
<1>3. Live > 0 /\ First = m_nReadPos /\ m_nReadPos \in Slots
  BY <1>2 DEF GetRaced, RingInv, First, TypeOK
<1>4. m_pkt[m_nReadPos] = [seek |-> m_start_pts, no |-> takes + 1 + 0]
  BY <1>2, <1>3, DistanceSelf DEF RingInv
<1>5. m_pkt[m_nReadPos] \in Packet
  BY <1>4 DEF Packet, TypeOK
<1> QED
  BY <1>5, QueueAssumption DEF GetRaced

(* The ring between two Clears, and what Clear leaves of it. The steps     *)
(* that matter are the store (PutStore), the take (GetTake) and the end of *)
(* Clear (PutStartPts).                                                    *)
LEMMA SyncStep ==
  ASSUME TypeOK, MutexInv, FillInv, SeekInv, SlotInv, SyncInv, [Next]_vars
  PROVE  SyncInv'
<1> USE QueueAssumption
<1>1. CASE ReadFrame
  BY <1>1 DEF ReadFrame, SyncInv, RingInv, ClearInv, Flushing, Clearing, Inside,
     Holding, Live, First, TypeOK, queueVars, senderVars, history
<1>2. CASE SeekAndRead
  BY <1>2 DEF SeekAndRead, SyncInv, RingInv, ClearInv, Flushing, Clearing, Inside,
     Holding, Live, First, TypeOK, queueVars, senderVars, history
<1>3. CASE EndOfFiles
  BY <1>3 DEF EndOfFiles, SyncInv, RingInv, ClearInv, Flushing, Clearing, Inside,
     Holding, Live, First, TypeOK, queueVars, senderVars, history
<1>4. CASE PutCompare
  BY <1>4 DEF PutCompare, SyncInv, RingInv, ClearInv, Flushing, Clearing, Inside,
     Holding, Live, First, TypeOK, queueVars, senderVars
<1>5. CASE ClearSlot
  BY <1>5 DEF ClearSlot, SlotsLeft, SyncInv, RingInv, ClearInv, Flushing, Clearing, Inside,
     Holding, Live, First, TypeOK, senderVars, history
<1>6. CASE ClearReadPos
  BY <1>6 DEF ClearReadPos, SyncInv, RingInv, ClearInv, Flushing, Clearing, Inside,
     Holding, Live, First, TypeOK, senderVars, history
<1>7. CASE ClearWritePosAndDisable
  BY <1>7 DEF ClearWritePosAndDisable, SyncInv, RingInv, ClearInv, Flushing, Clearing,
     Inside, Holding, Live, First, TypeOK, senderVars, history
<1>8. CASE ClearCount
  <2>1. SUFFICES ASSUME ~crossed PROVE ClearInv' /\ Flushing'
    BY <1>8 DEF ClearCount, SyncInv
  <2>2. Clearing /\ Flushing /\ ClearInv
    BY <1>8, <2>1 DEF ClearCount, SyncInv, Flushing, Clearing
  <2>3. Flushing'
    BY <1>8, <2>2 DEF ClearCount, SeekInv, Flushing
  <2>4. ClearInv'
    BY <1>8, <2>2 DEF ClearCount, ClearInv, Inside, Holding, senderVars
  <2> QED
    BY <2>3, <2>4
<1>9. CASE PutStartPts
  <2>1. SUFFICES ASSUME ~crossed PROVE RingInv'
    BY <1>9 DEF PutStartPts, SyncInv, history, Flushing, Clearing
  <2>2. CASE Flushing
    <3>1. ~Inside /\ m_nReadPos = 0 /\ m_nWritePos = 0 /\ m_nPacket = 0 /\ puts = 0 /\ takes = 0
      BY <1>9, <2>1, <2>2 DEF PutStartPts, SyncInv, ClearInv
    <3>2. \A i \in Slots : m_pkt[i] = NoPacket
      BY <1>9, <2>2 DEF PutStartPts, SlotInv, Flushing, Clearing
    <3>3. First' = 0 /\ Live' = 0 /\ ~Inside' /\ ~Holding'
      BY <1>9, <3>1 DEF PutStartPts, First, Live, Inside, Holding, senderVars, history
    <3>4. \A i \in Slots : ~(Distance(0, i) < 0)
      BY DEF Distance, Slots
    <3> QED
      BY <1>9, <3>1, <3>2, <3>3, <3>4, SlotAtType
      DEF PutStartPts, RingInv, senderVars, history, Inside, Holding, SlotAt
  <2>3. CASE ~Flushing
    <3>1. RingInv /\ m_start_pts' = m_start_pts
      BY <1>9, <2>1, <2>3 DEF PutStartPts, SyncInv, Flushing
    <3> QED
      BY <1>9, <3>1 DEF PutStartPts, RingInv, First, Live, Holding, senderVars, history
  <2> QED
    BY <2>2, <2>3
<1>10. CASE PutTestFull
  BY <1>10 DEF PutTestFull, Full, SyncInv, RingInv, ClearInv, Flushing, Clearing, Inside,
     Holding, Live, First, TypeOK, queueVars, senderVars, history
<1>11. CASE PutStore
  <2>1. SUFFICES ASSUME ~crossed PROVE RingInv'
    BY <1>11 DEF PutStore, SyncInv, Flushing, Clearing
  <2>2. RingInv
    BY <1>11, <2>1 DEF PutStore, SyncInv, Flushing, Clearing
  <2>3. s_pc \notin {"take", "pos", "load", "count"}
    BY <1>11 DEF PutStore, MutexInv, TypeOK
  <2>4. /\ First \in Slots /\ First' = First
        /\ Live \in 0 .. NSlots - 1 /\ Live' = Live + 1
        /\ Holding' = Holding
    BY <1>11, <2>2, NextPosType
    DEF PutStore, RingInv, FillInv, First, Live, Holding, senderVars, TypeOK
  <2>5. m_nPacket' = Live' + (IF Holding' THEN 1 ELSE 0)
    BY <1>11, <2>2, <2>4 DEF PutStore, RingInv, TypeOK
  <2>6. m_nWritePos' = SlotAt(First', Live')
    BY <1>11, <2>2, <2>4, SlotAtNext DEF PutStore, RingInv
  <2>7. ASSUME NEW i \in Slots
        PROVE  m_pkt'[i] = IF Distance(First', i) < Live'
                           THEN [seek |-> m_start_pts', no |-> takes' + 1 + Distance(First', i)]
                           ELSE NoPacket
    <3>1. i = m_nWritePos <=> Distance(First, i) = Live
      BY <2>2, <2>4, DistanceInverse DEF RingInv
    <3>2. Distance(First, i) \in 0 .. NSlots - 1
      BY <2>4, DistanceType
    <3>3. Current = [seek |-> m_start_pts, no |-> takes + 1 + Live]
      BY <1>11, <2>4 DEF PutStore, SeekInv, Current, Live, TypeOK
    <3>4. m_pkt'[i] = IF i = m_nWritePos THEN Current ELSE m_pkt[i]
      BY <1>11 DEF PutStore, TypeOK
    <3>5. m_start_pts' = m_start_pts /\ takes' = takes
      BY <1>11 DEF PutStore
    <3>6. m_pkt[i] = IF Distance(First, i) < Live
                     THEN [seek |-> m_start_pts, no |-> takes + 1 + Distance(First, i)]
                     ELSE NoPacket
      BY <2>2 DEF RingInv
    <3> QED
      BY <2>4, <3>1, <3>2, <3>3, <3>4, <3>5, <3>6
  <2> QED
    BY <1>11, <2>2, <2>3, <2>4, <2>5, <2>6, <2>7 DEF PutStore, RingInv, senderVars
<1>12. CASE PutEnable
  BY <1>12 DEF PutEnable, SyncInv, RingInv, ClearInv, Flushing, Clearing, Inside,
     Holding, Live, First, TypeOK, senderVars, history
<1>13. CASE GetStartPts
  BY <1>13 DEF GetStartPts, SyncInv, RingInv, ClearInv, Flushing, Clearing, Inside,
     Holding, Live, First, TypeOK, queueVars, demuxerVars, history
<1>14. CASE GetTestEnable
  BY <1>14 DEF GetTestEnable, SyncInv, RingInv, ClearInv, Flushing, Clearing, Inside,
     Holding, Live, First, TypeOK, queueVars, demuxerVars, history
<1>15. CASE GetEmpty
  BY <1>15 DEF GetEmpty, SyncInv, RingInv, ClearInv, Flushing, Clearing, Inside,
     Holding, Live, First, TypeOK, queueVars, demuxerVars, history
<1>16. CASE GetFound
  <2>1. SUFFICES ASSUME ~crossed' PROVE SyncInv'
    BY DEF SyncInv
  <2>2. ~crossed /\ ~Clearing
    BY <1>16, <2>1 DEF GetFound
  <2>3. ~Flushing
    BY <1>16, <2>2 DEF Flushing, GetFound, SlotInv, TypeOK
  <2>4. RingInv
    BY <2>2, <2>3 DEF SyncInv
  <2>5. First = m_nReadPos /\ First' = First /\ Live' = Live /\ m_nReadPos \in Slots
    BY <1>16 DEF GetFound, First, Live, TypeOK
  <2>6. Live > 0
    BY <1>16, <2>4, <2>5, DistanceSelf DEF GetFound, RingInv
  <2>7. RingInv'
    BY <1>16, <2>4, <2>5, <2>6 DEF GetFound, RingInv, Holding
  <2>8. ~Flushing'
    BY <1>16, <2>3 DEF GetFound, Flushing, Clearing, demuxerVars
  <2> QED
    BY <2>7, <2>8 DEF SyncInv
<1>17. CASE GetTake
  <2>1. SUFFICES ASSUME ~crossed PROVE RingInv' /\ ~Flushing'
    BY <1>17 DEF GetTake, SyncInv
  <2>2. ~Flushing /\ RingInv
    BY <1>17, <2>1 DEF GetTake, SyncInv, ClearInv, Inside
  <2>3. ~Flushing'
    BY <1>17, <2>2 DEF GetTake, Flushing, Clearing, demuxerVars
  <2>4. /\ First = m_nReadPos /\ First' = NextPos(m_nReadPos) /\ m_nReadPos \in Slots
        /\ Live \in 1 .. NSlots /\ Live' = Live - 1
    BY <1>17, <2>2 DEF GetTake, RingInv, First, Live, TypeOK
  <2>5. m_pkt[m_nReadPos] = [seek |-> m_start_pts, no |-> takes']
    BY <1>17, <2>2, <2>4, DistanceSelf DEF GetTake, RingInv, TypeOK
  <2>6. m_nWritePos' = SlotAt(First', Live')
    <3>1. Live - 1 \in 0 .. NSlots - 1 /\ Live - 1 + 1 = Live
      BY <2>4
    <3> QED
      BY <1>17, <2>2, <2>4, <3>1, SlotAtNext DEF GetTake, RingInv
  <2>7. ASSUME NEW i \in Slots
        PROVE  m_pkt'[i] = IF Distance(First', i) < Live'
                           THEN [seek |-> m_start_pts', no |-> takes' + 1 + Distance(First', i)]
                           ELSE NoPacket
    <3>1. Distance(First', i) = IF i = m_nReadPos THEN NSlots - 1 ELSE Distance(First, i) - 1
      BY <2>4, DistanceNext
    <3>2. Distance(First, i) \in 0 .. NSlots - 1
      BY <2>4, DistanceType
    <3>3. m_pkt'[i] = IF i = m_nReadPos THEN NoPacket ELSE m_pkt[i]
      BY <1>17 DEF GetTake, TypeOK
    <3>4. m_start_pts' = m_start_pts /\ takes' = takes + 1
      BY <1>17 DEF GetTake
    <3>5. m_pkt[i] = IF Distance(First, i) < Live
                     THEN [seek |-> m_start_pts, no |-> takes + 1 + Distance(First, i)]
                     ELSE NoPacket
      BY <2>2 DEF RingInv
    <3> QED
      BY <2>4, <3>1, <3>2, <3>3, <3>4, <3>5 DEF TypeOK
  <2>8. m_nPacket' = Live' + 1 /\ Holding'
    BY <1>17, <2>2, <2>4 DEF GetTake, RingInv, Holding
  <2>9. s_pkt' = [seek |-> m_start_pts', no |-> takes']
    BY <1>17, <2>5 DEF GetTake
  <2> QED
    BY <1>17, <2>3, <2>4, <2>6, <2>7, <2>8, <2>9 DEF GetTake, RingInv
<1>18. CASE GetRaced
  <2>1. crossed /\ crossed'
    BY <1>18, RacedOnlyCrossed DEF GetRaced, history
  <2> QED
    BY <2>1 DEF SyncInv
<1>19. CASE RetLock
  BY <1>19 DEF RetLock, SyncInv, RingInv, ClearInv, Flushing, Clearing, Inside, Holding,
     Live, First, TypeOK, demuxerVars, history
<1>20. CASE RetPos
  BY <1>20 DEF RetPos, SyncInv, RingInv, ClearInv, Flushing, Clearing, Inside, Holding,
     Live, First, TypeOK, demuxerVars, history
<1>21. CASE RetLoad
  BY <1>21 DEF RetLoad, SyncInv, RingInv, ClearInv, Flushing, Clearing, Inside, Holding,
     Live, First, TypeOK, queueVars, demuxerVars, history
<1>22. CASE RetCount
  BY <1>22 DEF RetCount, SyncInv, RingInv, ClearInv, Flushing, Clearing, Inside,
     Holding, Live, First, TypeOK, demuxerVars, history
<1>23. CASE UNCHANGED vars
  BY <1>23 DEF vars, SyncInv, RingInv, ClearInv, Flushing, Clearing, Inside, Holding,
     Live, First, TypeOK, queueVars, demuxerVars, senderVars, history
<1> QED
  BY <1>1, <1>2, <1>3, <1>4, <1>5, <1>6, <1>7, <1>8, <1>9, <1>10, <1>11, <1>12, <1>13,
     <1>14, <1>15, <1>16, <1>17, <1>18, <1>19, <1>20, <1>21, <1>22, <1>23 DEF Next,
     Demuxer, Sender

(* The sender copies the seek point before the packet, and the seek point  *)
(* only grows.                                                             *)
LEMMA SeekSeenStep ==
  ASSUME TypeOK, SeekInv, SlotInv, SeekSeenInv, [Next]_vars
  PROVE  SeekSeenInv'
<1> USE QueueAssumption
<1>1. CASE ReadFrame
  BY <1>1 DEF ReadFrame, SeekSeenInv, SeekNotAhead, TypeOK, queueVars, senderVars,
     history
<1>2. CASE SeekAndRead
  BY <1>2 DEF SeekAndRead, SeekSeenInv, SeekNotAhead, TypeOK, queueVars, senderVars,
     history
<1>3. CASE EndOfFiles
  BY <1>3 DEF EndOfFiles, SeekSeenInv, SeekNotAhead, TypeOK, queueVars, senderVars,
     history
<1>4. CASE PutCompare
  BY <1>4 DEF PutCompare, SeekSeenInv, SeekNotAhead, TypeOK, queueVars, senderVars
<1>5. CASE ClearSlot
  BY <1>5 DEF ClearSlot, SlotsLeft, SeekSeenInv, SeekNotAhead, TypeOK, senderVars, history
<1>6. CASE ClearReadPos
  BY <1>6 DEF ClearReadPos, SeekSeenInv, SeekNotAhead, TypeOK, senderVars, history
<1>7. CASE ClearWritePosAndDisable
  BY <1>7 DEF ClearWritePosAndDisable, SeekSeenInv, SeekNotAhead, TypeOK, senderVars,
     history
<1>8. CASE ClearCount
  BY <1>8 DEF ClearCount, SeekSeenInv, SeekNotAhead, TypeOK, senderVars
<1>9. CASE PutStartPts
  BY <1>9 DEF PutStartPts, SeekSeenInv, SeekNotAhead, TypeOK, senderVars, history,
     SeekInv, Packet
<1>10. CASE PutTestFull
  BY <1>10 DEF PutTestFull, Full, SeekSeenInv, SeekNotAhead, TypeOK, queueVars, senderVars,
     history
<1>11. CASE PutStore
  BY <1>11 DEF PutStore, SeekSeenInv, SeekNotAhead, TypeOK, senderVars, Packet
<1>12. CASE PutEnable
  BY <1>12 DEF PutEnable, SeekSeenInv, SeekNotAhead, TypeOK, senderVars, history
<1>13. CASE GetStartPts
  BY <1>13 DEF GetStartPts, SeekSeenInv, SeekNotAhead, TypeOK, queueVars, demuxerVars,
     history
<1>14. CASE GetTestEnable
  BY <1>14 DEF GetTestEnable, SeekSeenInv, SeekNotAhead, TypeOK, queueVars, demuxerVars,
     history
<1>15. CASE GetEmpty
  BY <1>15 DEF GetEmpty, SeekSeenInv, SeekNotAhead, TypeOK, queueVars, demuxerVars,
     history
<1>16. CASE GetFound
  BY <1>16 DEF GetFound, SeekSeenInv, SeekNotAhead, TypeOK, demuxerVars
<1>17. CASE GetTake
  BY <1>17 DEF GetTake, SeekSeenInv, SeekNotAhead, TypeOK, demuxerVars, SlotInv,
     FlushComplete, Packet
<1>18. CASE GetRaced
  BY <1>18 DEF GetRaced, SeekSeenInv, SeekNotAhead, TypeOK, demuxerVars, history
<1>19. CASE RetLock
  BY <1>19 DEF RetLock, SeekSeenInv, SeekNotAhead, TypeOK, demuxerVars, history
<1>20. CASE RetPos
  BY <1>20 DEF RetPos, SeekSeenInv, SeekNotAhead, TypeOK, demuxerVars, history
<1>21. CASE RetLoad
  BY <1>21 DEF RetLoad, SeekSeenInv, SeekNotAhead, TypeOK, queueVars, demuxerVars,
     history
<1>22. CASE RetCount
  BY <1>22 DEF RetCount, SeekSeenInv, SeekNotAhead, TypeOK, demuxerVars, history
<1>23. CASE UNCHANGED vars
  BY <1>23 DEF vars, SeekSeenInv, SeekNotAhead, TypeOK, queueVars, demuxerVars,
     senderVars, history
<1> QED
  BY <1>1, <1>2, <1>3, <1>4, <1>5, <1>6, <1>7, <1>8, <1>9, <1>10, <1>11, <1>12, <1>13,
     <1>14, <1>15, <1>16, <1>17, <1>18, <1>19, <1>20, <1>21, <1>22, <1>23 DEF Next,
     Demuxer, Sender

(* The counter covers all filled slots but one, even when Clear overlaps   *)
(* the sender: Clear resets it after it has emptied every slot.            *)
LEMMA CountStep ==
  ASSUME TypeOK, MutexInv, SlotInv, CountInv, [Next]_vars
  PROVE  CountInv'
<1> USE QueueAssumption
<1>0. /\ IsFiniteSet(Filled) /\ Cardinality(Filled) \in Nat
      /\ IsFiniteSet(Filled \ {m_nReadPos}) /\ Cardinality(Filled \ {m_nReadPos}) \in Nat
      /\ IsFiniteSet(Filled') /\ Cardinality(Filled') \in Nat
      /\ IsFiniteSet(Filled' \ {m_nReadPos'}) /\ Cardinality(Filled' \ {m_nReadPos'}) \in Nat
  <2>1. Filled \subseteq Slots /\ Filled' \subseteq Slots
    BY DEF Filled
  <2> QED
    BY <2>1, SlotsFinite
<1>1. CASE ReadFrame
  <2>1. Filled' = Filled
    BY <1>1 DEF ReadFrame, Filled, queueVars, senderVars, history
  <2> QED
    BY <1>1, <2>1, <1>0 DEF ReadFrame, CountInv, Holding, TypeOK, queueVars,
       senderVars, history
<1>2. CASE SeekAndRead
  <2>1. Filled' = Filled
    BY <1>2 DEF SeekAndRead, Filled, queueVars, senderVars, history
  <2> QED
    BY <1>2, <2>1, <1>0 DEF SeekAndRead, CountInv, Holding, TypeOK, queueVars,
       senderVars, history
<1>3. CASE EndOfFiles
  <2>1. Filled' = Filled
    BY <1>3 DEF EndOfFiles, Filled, queueVars, senderVars, history
  <2> QED
    BY <1>3, <2>1, <1>0 DEF EndOfFiles, CountInv, Holding, TypeOK, queueVars,
       senderVars, history
<1>4. CASE PutCompare
  <2>1. Filled' = Filled
    BY <1>4 DEF PutCompare, Filled, queueVars, senderVars
  <2> QED
    BY <1>4, <2>1, <1>0 DEF PutCompare, CountInv, Holding, TypeOK, queueVars,
       senderVars
<1>5. CASE ClearSlot
  <2>1. Filled' \subseteq Filled /\ Filled' \ {m_nReadPos'} \subseteq Filled \ {m_nReadPos}
    BY <1>5 DEF ClearSlot, SlotsLeft, Filled, TypeOK
  <2>2. /\ Cardinality(Filled') <= Cardinality(Filled)
        /\ Cardinality(Filled' \ {m_nReadPos'}) <= Cardinality(Filled \ {m_nReadPos})
    BY <2>1, <1>0, FS_Subset
  <2> QED
    BY <1>5, <2>2, <1>0 DEF ClearSlot, SlotsLeft, CountInv, Holding, TypeOK, senderVars
<1>6. CASE ClearReadPos
  <2>1. Filled = {} /\ Filled' = {}
    BY <1>6 DEF ClearReadPos, Filled, SlotInv, Clearing
  <2>2. Filled \ {m_nReadPos} = {} /\ Filled' \ {m_nReadPos'} = {}
    BY <2>1
  <2> QED
    BY <1>6, <2>1, <2>2 DEF ClearReadPos, CountInv, Holding, senderVars
<1>7. CASE ClearWritePosAndDisable
  <2>1. Filled' = Filled
    BY <1>7 DEF ClearWritePosAndDisable, Filled, senderVars, history
  <2> QED
    BY <1>7, <2>1, <1>0 DEF ClearWritePosAndDisable, CountInv, Holding, TypeOK,
       senderVars, history
<1>8. CASE ClearCount
  <2>1. Filled' = {} /\ Filled' \ {m_nReadPos'} = {}
    BY <1>8 DEF ClearCount, Filled, SlotInv, Clearing
  <2>2. Filled = {}
    BY <1>8 DEF ClearCount, Filled, SlotInv, Clearing
  <2> QED
    BY <1>8, <2>1, <2>2, FS_EmptySet DEF ClearCount, CountInv, Holding, TypeOK, senderVars
<1>9. CASE PutStartPts
  <2>1. Filled' = Filled
    BY <1>9 DEF PutStartPts, Filled, senderVars, history
  <2> QED
    BY <1>9, <2>1, <1>0 DEF PutStartPts, CountInv, Holding, TypeOK, senderVars,
       history
<1>10. CASE PutTestFull
  <2>1. Filled' = Filled
    BY <1>10 DEF PutTestFull, Full, Filled, queueVars, senderVars, history
  <2> QED
    BY <1>10, <2>1, <1>0 DEF PutTestFull, Full, CountInv, Holding, TypeOK, queueVars,
       senderVars, history
<1>11. CASE PutStore
  <2>1. Filled' \subseteq Filled \cup {m_nWritePos}
    BY <1>11 DEF PutStore, Filled, TypeOK
  <2>2. Cardinality(Filled') <= Cardinality(Filled) + 1
    <3>1. /\ IsFiniteSet(Filled \cup {m_nWritePos})
          /\ Cardinality(Filled \cup {m_nWritePos}) \in Nat
          /\ Cardinality(Filled \cup {m_nWritePos}) <= Cardinality(Filled) + 1
      BY <1>0, FS_AddElement
    <3>2. Cardinality(Filled') <= Cardinality(Filled \cup {m_nWritePos})
      BY <2>1, <3>1, FS_Subset
    <3> QED
      BY <1>0, <3>1, <3>2
  <2>3. s_pc \notin {"take", "count"}
    BY <1>11 DEF PutStore, MutexInv, TypeOK
  <2> QED
    BY <1>11, <2>2, <2>3, <1>0 DEF PutStore, CountInv, Holding, TypeOK, senderVars
<1>12. CASE PutEnable
  <2>1. Filled' = Filled
    BY <1>12 DEF PutEnable, Filled, senderVars, history
  <2> QED
    BY <1>12, <2>1, <1>0 DEF PutEnable, CountInv, Holding, TypeOK, senderVars, history
<1>13. CASE GetStartPts
  <2>1. Filled' = Filled
    BY <1>13 DEF GetStartPts, Filled, queueVars, demuxerVars, history
  <2> QED
    BY <1>13, <2>1, <1>0 DEF GetStartPts, CountInv, Holding, TypeOK, queueVars,
       demuxerVars, history
<1>14. CASE GetTestEnable
  <2>1. Filled' = Filled
    BY <1>14 DEF GetTestEnable, Filled, queueVars, demuxerVars, history
  <2> QED
    BY <1>14, <2>1, <1>0 DEF GetTestEnable, CountInv, Holding, TypeOK, queueVars,
       demuxerVars, history
<1>15. CASE GetEmpty
  <2>1. Filled' = Filled
    BY <1>15 DEF GetEmpty, Filled, queueVars, demuxerVars, history
  <2> QED
    BY <1>15, <2>1, <1>0 DEF GetEmpty, CountInv, Holding, TypeOK, queueVars,
       demuxerVars, history
<1>16. CASE GetFound
  <2>1. m_nReadPos \in Filled /\ Filled' = Filled /\ m_nReadPos' = m_nReadPos
    BY <1>16 DEF GetFound, Filled, TypeOK
  <2>2. Cardinality(Filled \ {m_nReadPos}) = Cardinality(Filled) - 1
    BY <2>1, <1>0, FS_RemoveElement
  <2> QED
    BY <1>16, <2>1, <2>2, <1>0 DEF GetFound, CountInv, Holding, TypeOK
<1>17. CASE GetTake
  <2>1. Filled' = Filled \ {m_nReadPos}
    BY <1>17 DEF GetTake, Filled, TypeOK
  <2> QED
    BY <1>17, <2>1, <1>0 DEF GetTake, CountInv, Holding, TypeOK
<1>18. CASE GetRaced
  <2>1. Filled' = Filled /\ Filled = Filled \ {m_nReadPos}
    BY <1>18 DEF GetRaced, Filled
  <2> QED
    BY <1>18, <2>1, <1>0 DEF GetRaced, CountInv, Holding, TypeOK
<1>19. CASE RetLock
  <2>1. Filled' = Filled
    BY <1>19 DEF RetLock, Filled, demuxerVars, history
  <2> QED
    BY <1>19, <2>1, <1>0 DEF RetLock, CountInv, Holding, TypeOK, demuxerVars, history
<1>20. CASE RetPos
  <2>1. Filled' = Filled
    BY <1>20 DEF RetPos, Filled, demuxerVars, history
  <2> QED
    BY <1>20, <2>1, <1>0 DEF RetPos, CountInv, Holding, TypeOK, demuxerVars, history
<1>21. CASE RetLoad
  <2>1. Filled' = Filled
    BY <1>21 DEF RetLoad, Filled, queueVars, demuxerVars, history
  <2> QED
    BY <1>21, <2>1, <1>0 DEF RetLoad, CountInv, Holding, TypeOK, queueVars,
       demuxerVars, history
<1>22. CASE RetCount
  <2>1. Filled' = Filled
    BY <1>22 DEF RetCount, Filled, demuxerVars, history
  <2> QED
    BY <1>22, <2>1, <1>0 DEF RetCount, CountInv, Holding, TypeOK, demuxerVars, history
<1>23. CASE UNCHANGED vars
  BY <1>23 DEF vars, CountInv, Holding, Filled, queueVars, demuxerVars, senderVars,
     history
<1> QED
  BY <1>1, <1>2, <1>3, <1>4, <1>5, <1>6, <1>7, <1>8, <1>9, <1>10, <1>11, <1>12, <1>13,
     <1>14, <1>15, <1>16, <1>17, <1>18, <1>19, <1>20, <1>21, <1>22, <1>23 DEF Next,
     Demuxer, Sender

(* Every step of either thread preserves the invariant.                    *)
THEOREM NextIInv == IInv /\ [Next]_vars => IInv'
BY TypeStep, MutexStep, FillStep, SeekStep, SlotStep, SyncStep, CountStep, SeekSeenStep
DEF IInv

(* The inductive invariant holds throughout.                               *)
THEOREM Invariance == Spec => []IInv
<1> QED
  BY InitIInv, NextIInv, PTL DEF Spec

-----------------------------------------------------------------------------
(* The variables of the queue and of its two threads keep their types.     *)
THEOREM TypeCorrect == Spec => []TypeOK
<1>1. IInv => TypeOK
  BY DEF IInv
<1> QED
  BY <1>1, Invariance, PTL

(* For a queue of any size and any number of seeks, the fill counter never *)
(* leaves -1 .. NSlots: a RetVideo that crosses a Clear makes PutVideo's   *)
(* unlocked test of it wrong by one packet at worst.                       *)
THEOREM CountBounded == Spec => []CountBounds
<1>1. IInv => CountBounds
  <2> SUFFICES ASSUME IInv PROVE CountBounds
    OBVIOUS
  <2> USE QueueAssumption DEF IInv
  <2>1. /\ Cardinality(Filled) \in Nat
        /\ Cardinality(Filled \ {m_nReadPos}) \in Nat
    <3>1. Filled \subseteq Slots
      BY DEF Filled
    <3> QED
      BY <3>1, SlotsFinite
  <2>2. m_nPacket \in Int /\ m_nPacket >= -1
    BY <2>1 DEF CountInv, TypeOK
  <2>3. m_nPacket <= NSlots
    BY DEF FillInv
  <2> QED
    BY <2>2, <2>3 DEF CountBounds
<1> QED
  BY <1>1, Invariance, PTL

(* While no Clear has overlapped a GetVideo .. RetVideo, the sender takes  *)
(* the packets in the order the demuxer put them, none twice, none skipped.*)
THEOREM FirstInFirstOut == Spec => []InOrder
<1>1. IInv => InOrder
  <2> SUFFICES ASSUME IInv, s_pc = "hold", ~crossed
               PROVE  s_pkt = [seek |-> m_start_pts, no |-> takes]
    BY DEF InOrder
  <2>1. ~Flushing
    BY DEF IInv, SyncInv, ClearInv, Inside, Holding
  <2> QED
    BY <2>1 DEF IInv, SyncInv, RingInv
<1> QED
  BY <1>1, Invariance, PTL

(* Under the same condition PutVideo never overwrites a packet that has    *)
(* not been sent, although it tests the fill level before it locks.        *)
THEOREM StoresInFreeSlot == Spec => []NoOverwrite
<1>1. IInv => NoOverwrite
  <2> SUFFICES ASSUME IInv, d_pc = "put", m_mutex = "free", ~crossed
               PROVE  m_pkt[m_nWritePos] = NoPacket
    BY DEF NoOverwrite
  <2> USE QueueAssumption
  <2>1. RingInv
    BY DEF IInv, SyncInv, Flushing, Clearing
  <2>2. First \in Slots /\ Live \in 0 .. NSlots - 1
    BY <2>1, NextPosType DEF IInv, FillInv, RingInv, First, Live, TypeOK
  <2>3. m_nWritePos \in Slots /\ Distance(First, m_nWritePos) = Live
    BY <2>1, <2>2, DistanceInverse DEF RingInv, IInv, TypeOK
  <2>4. ~(Live < Live)
    BY <2>2
  <2> QED
    BY <2>1, <2>3, <2>4 DEF RingInv
<1> QED
  BY <1>1, Invariance, PTL

(* Outside Clear no packet of an earlier seek point is left in the queue,  *)
(* whatever the sender thread was doing while Clear ran.                   *)
THEOREM SeekDropsOldPackets == Spec => []FlushComplete
<1>1. IInv => FlushComplete
  BY DEF IInv, SlotInv
<1> QED
  BY <1>1, Invariance, PTL

(* GetVideo never reports a seek point later than that of its packet.      *)
THEOREM ReportedSeekNotAhead == Spec => []SeekNotAhead
<1>1. IInv => SeekNotAhead
  BY DEF IInv, SeekSeenInv
<1> QED
  BY <1>1, Invariance, PTL
-----------------------------------------------------------------------------
(* The ring implements the channel. *)

(* The n packets put after the t-th one since the flush to seek point p. *)
Batch(p, t, n) == [k \in 1 .. n |-> [seek |-> p, no |-> t + k]]

(* A run is a sequence of packets.                                         *)
LEMMA BatchIsSeq ==
  ASSUME NEW p \in Nat, NEW t \in Nat, NEW n \in Nat
  PROVE  /\ Batch(p, t, n) \in Seq(Packet)
         /\ Len(Batch(p, t, n)) = n
         /\ n = 0 => Batch(p, t, n) = <<>>
<1>1. Batch(p, t, n) \in [1 .. n -> Packet]
  BY DEF Batch, Packet
<1>2. Batch(p, t, n) \in Seq(Packet)
  BY <1>1
<1>3. Len(Batch(p, t, n)) = n
  BY <1>1, <1>2
<1>4. n = 0 => Batch(p, t, n) = <<>>
  BY <1>2, <1>3
<1> QED
  BY <1>2, <1>3, <1>4

(* A put extends the run at its end.                                       *)
LEMMA BatchAppend ==
  ASSUME NEW p \in Nat, NEW t \in Nat, NEW n \in Nat
  PROVE  Batch(p, t, n + 1) = Append(Batch(p, t, n), [seek |-> p, no |-> t + n + 1])
<1> DEFINE e == [seek |-> p, no |-> t + n + 1]
<1>1. e \in Packet
  BY DEF Packet
<1>0. Batch(p, t, n) \in Seq(Packet) /\ Len(Batch(p, t, n)) = n
  BY BatchIsSeq
<1> HIDE DEF e
<1>2. /\ Append(Batch(p, t, n), e) \in Seq(Packet)
      /\ Len(Append(Batch(p, t, n), e)) = n + 1
      /\ \A k \in 1 .. n : Append(Batch(p, t, n), e)[k] = Batch(p, t, n)[k]
      /\ Append(Batch(p, t, n), e)[n + 1] = e
  BY <1>0, <1>1
<1>3. Batch(p, t, n + 1) \in Seq(Packet) /\ Len(Batch(p, t, n + 1)) = n + 1
  BY BatchIsSeq
<1>4. \A k \in 1 .. n + 1 : Batch(p, t, n + 1)[k] = Append(Batch(p, t, n), e)[k]
  BY <1>2 DEF Batch, e
<1> QED
  BY <1>2, <1>3, <1>4 DEF e

(* A take removes the oldest packet of the run.                            *)
LEMMA BatchTail ==
  ASSUME NEW p \in Nat, NEW t \in Nat, NEW n \in Nat \ {0}
  PROVE  /\ Batch(p, t, n) # <<>>
         /\ Head(Batch(p, t, n)) = [seek |-> p, no |-> t + 1]
         /\ Tail(Batch(p, t, n)) = Batch(p, t + 1, n - 1)
<1>1. Batch(p, t, n) \in Seq(Packet) /\ Len(Batch(p, t, n)) = n
  BY BatchIsSeq
<1>2. Batch(p, t, n) # <<>>
  BY <1>1
<1>3. Head(Batch(p, t, n)) = [seek |-> p, no |-> t + 1]
  BY <1>1, <1>2 DEF Batch
<1>4. Batch(p, t + 1, n - 1) \in Seq(Packet) /\ Len(Batch(p, t + 1, n - 1)) = n - 1
  <2>1. t + 1 \in Nat /\ n - 1 \in Nat
    OBVIOUS
  <2> QED
    BY <2>1, BatchIsSeq
<1>5. /\ Tail(Batch(p, t, n)) \in Seq(Packet) /\ Len(Tail(Batch(p, t, n))) = n - 1
      /\ \A k \in 1 .. n - 1 : Tail(Batch(p, t, n))[k] = Batch(p, t, n)[k + 1]
  BY <1>1, <1>2
<1>6. \A k \in 1 .. n - 1 : Tail(Batch(p, t, n))[k] = Batch(p, t + 1, n - 1)[k]
  BY <1>5 DEF Batch
<1> QED
  BY <1>2, <1>3, <1>4, <1>5, <1>6

-----------------------------------------------------------------------------
(* An open channel holds the Live packets the sender has not yet taken.    *)
OpenInv ==
  /\ ChannelMode = "open" => RingInv /\ Live \in Nat /\ ~crossed /\ ~Flushing
  /\ ChannelContents = IF ChannelMode = "open" THEN Batch(m_start_pts, takes, Live) ELSE <<>>

(* The inductive invariant tells what the channel holds.                    *)
LEMMA IInvOpen == IInv => OpenInv
<1> SUFFICES ASSUME IInv PROVE OpenInv
  OBVIOUS
<1> USE QueueAssumption
<1>2. ASSUME ChannelMode = "open"
      PROVE  RingInv /\ ~crossed /\ ~Flushing
  BY <1>2 DEF ChannelMode, IInv, SyncInv
<1>3. ASSUME ChannelMode = "open"
      PROVE  Live \in Nat /\ RingContents = Batch(m_start_pts, takes, Live)
  <2>1. RingInv
    BY <1>2, <1>3
  <2>2. /\ Live \in 0 .. NSlots /\ First \in Slots
        /\ m_nPacket - (IF Holding THEN 1 ELSE 0) = Live
    BY <2>1, NextPosType DEF RingInv, First, IInv, TypeOK
  <2>3. ASSUME NEW k \in 1 .. Live
        PROVE  m_pkt[SlotAt(First, k - 1)] = [seek |-> m_start_pts, no |-> takes + k]
    <3>1. k - 1 \in 0 .. NSlots - 1 /\ k - 1 \in 0 .. NSlots /\ k - 1 < Live /\ k \in Int
      BY <2>2
    <3>2. SlotAt(First, k - 1) \in Slots
      BY <2>2, <3>1, SlotAtType
    <3>3. Distance(First, SlotAt(First, k - 1)) = k - 1
      BY <2>2, <3>1, <3>2, DistanceInverse
    <3>4. takes + 1 + (k - 1) = takes + k
      BY <3>1 DEF IInv, TypeOK
    <3> QED
      BY <2>1, <3>1, <3>2, <3>3, <3>4 DEF RingInv
  <2> QED
    BY <2>2, <2>3 DEF RingContents, Batch
<1> QED
  BY <1>2, <1>3 DEF OpenInv, ChannelContents

(* The new queue is an empty open channel.                                 *)
THEOREM ImplInit == Init => Channel!Init
<1> SUFFICES ASSUME Init PROVE Channel!Init
  OBVIOUS
<1>1. ~Flushing /\ ~crossed /\ ChannelMode = "open"
  BY DEF Init, Flushing, Clearing, ChannelMode
<1>2. ChannelContents = <<>>
  <2>1. ChannelContents = Batch(0, 0, 0)
    BY <1>1, InitIInv, IInvOpen DEF OpenInv, Init, Live
  <2> QED
    BY <2>1, BatchIsSeq
<1> QED
  BY <1>1, <1>2 DEF Init, Channel!Init, ChannelSent, ChannelHeld, ConsumerState

(* The seek point of the queue never goes back. *)
LEMMA PointGrows ==
  ASSUME TypeOK, SeekInv, [Next]_vars
  PROVE  m_start_pts' >= m_start_pts
<1>1. CASE ReadFrame
  BY <1>1 DEF ReadFrame, TypeOK, queueVars, senderVars, history
<1>2. CASE SeekAndRead
  BY <1>2 DEF SeekAndRead, TypeOK, queueVars, senderVars, history
<1>3. CASE EndOfFiles
  BY <1>3 DEF EndOfFiles, TypeOK, queueVars, senderVars, history
<1>4. CASE PutCompare
  BY <1>4 DEF PutCompare, TypeOK, queueVars, senderVars
<1>5. CASE ClearSlot
  BY <1>5 DEF ClearSlot, SlotsLeft, TypeOK, senderVars, history
<1>6. CASE ClearReadPos
  BY <1>6 DEF ClearReadPos, TypeOK, senderVars, history
<1>7. CASE ClearWritePosAndDisable
  BY <1>7 DEF ClearWritePosAndDisable, TypeOK, senderVars, history
<1>8. CASE ClearCount
  BY <1>8 DEF ClearCount, TypeOK, senderVars
<1>9. CASE PutStartPts
  BY <1>9 DEF PutStartPts, TypeOK, senderVars, history, SeekInv
<1>10. CASE PutTestFull
  BY <1>10 DEF PutTestFull, Full, TypeOK, queueVars, senderVars, history
<1>11. CASE PutStore
  BY <1>11 DEF PutStore, TypeOK, senderVars
<1>12. CASE PutEnable
  BY <1>12 DEF PutEnable, TypeOK, senderVars, history
<1>13. CASE GetStartPts
  BY <1>13 DEF GetStartPts, TypeOK, queueVars, demuxerVars, history
<1>14. CASE GetTestEnable
  BY <1>14 DEF GetTestEnable, TypeOK, queueVars, demuxerVars, history
<1>15. CASE GetEmpty
  BY <1>15 DEF GetEmpty, TypeOK, queueVars, demuxerVars, history
<1>16. CASE GetFound
  BY <1>16 DEF GetFound, TypeOK, demuxerVars
<1>17. CASE GetTake
  BY <1>17 DEF GetTake, TypeOK, demuxerVars
<1>18. CASE GetRaced
  BY <1>18 DEF GetRaced, TypeOK, demuxerVars, history
<1>19. CASE RetLock
  BY <1>19 DEF RetLock, TypeOK, demuxerVars, history
<1>20. CASE RetPos
  BY <1>20 DEF RetPos, TypeOK, demuxerVars, history
<1>21. CASE RetLoad
  BY <1>21 DEF RetLoad, TypeOK, queueVars, demuxerVars, history
<1>22. CASE RetCount
  BY <1>22 DEF RetCount, TypeOK, demuxerVars, history
<1>23. CASE UNCHANGED vars
  BY <1>23 DEF vars, TypeOK, queueVars, demuxerVars, senderVars, history
<1> QED
  BY <1>1, <1>2, <1>3, <1>4, <1>5, <1>6, <1>7, <1>8, <1>9, <1>10, <1>11, <1>12, <1>13,
     <1>14, <1>15, <1>16, <1>17, <1>18, <1>19, <1>20, <1>21, <1>22, <1>23 DEF Next,
     Demuxer, Sender

(* A broken channel allows every step that keeps it broken. *)
LEMMA BrokenStep ==
  ASSUME IInv, IInv', [Next]_vars, crossed, crossed'
  PROVE  Channel!Broken
<1>1. ChannelMode = "broken" /\ ChannelMode' = "broken"
  BY DEF ChannelMode
<1>2. m_start_pts' >= m_start_pts
  BY PointGrows DEF IInv
<1>3. ConsumerState' \in Channel!ConsumerStates
  BY DEF ConsumerState, Channel!ConsumerStates
<1>4. UNCHANGED <<ChannelContents, ChannelSent, ChannelHeld>>
  BY <1>1 DEF ChannelContents, ChannelSent, ChannelHeld
<1> QED
  BY <1>1, <1>2, <1>3, <1>4 DEF Channel!Broken

(* Every step of the two threads is a step of the channel or changes       *)
(* nothing the channel shows.                                              *)
LEMMA ImplNext ==
  ASSUME IInv, IInv', [Next]_vars
  PROVE  [Channel!Next]_(Channel!chanVars)
<1> SUFFICES ASSUME ~(crossed /\ crossed')
             PROVE  [Channel!Next]_(Channel!chanVars)
  BY BrokenStep DEF Channel!Next
<1> USE QueueAssumption
<1>0. OpenInv /\ OpenInv'
  BY IInvOpen, PTL
<1>1. CASE ReadFrame
  BY <1>1, <1>0 DEF ReadFrame, OpenInv, Live, Channel!chanVars, ChannelMode,
     ChannelSent, ChannelHeld, ConsumerState, Flushing, Clearing, queueVars, senderVars,
     history
<1>2. CASE SeekAndRead
  BY <1>2, <1>0 DEF SeekAndRead, OpenInv, Live, Channel!chanVars, ChannelMode,
     ChannelSent, ChannelHeld, ConsumerState, Flushing, Clearing, queueVars, senderVars,
     history
<1>3. CASE EndOfFiles
  BY <1>3, <1>0 DEF EndOfFiles, OpenInv, Live, Channel!chanVars, ChannelMode,
     ChannelSent, ChannelHeld, ConsumerState, Flushing, Clearing, queueVars, senderVars,
     history
<1>4. CASE PutCompare
  <2>1. CASE m_start_pts = d_seek
    BY <1>4, <1>0, <2>1 DEF PutCompare, OpenInv, Live, Channel!chanVars, ChannelMode,
         ChannelSent,
       ChannelHeld, ConsumerState, Flushing, Clearing, queueVars, senderVars
  <2>2. CASE m_start_pts # d_seek
    <3>1. ChannelMode \in {"open", "broken"}
      BY <1>4 DEF PutCompare, ChannelMode, Flushing, Clearing
    <3>2. ChannelMode' = IF ConsumerState = "idle" THEN "flushing" ELSE "broken"
      BY <1>4, <2>2 DEF PutCompare, ChannelMode, ConsumerState, Flushing, Clearing, Inside,
           Holding
    <3>3. ConsumerState' = ConsumerState /\ m_start_pts' = m_start_pts
      BY <1>4 DEF PutCompare, ConsumerState, senderVars, queueVars
    <3>4. ChannelMode' # "open"
      BY <3>2
    <3>5. ChannelContents' = <<>> /\ ChannelSent' = 0 /\ ChannelHeld' = NoPacket
      BY <3>4 DEF ChannelContents, ChannelSent, ChannelHeld
    <3>6. Channel!BeginFlush
      BY <3>1, <3>2, <3>3, <3>5 DEF Channel!BeginFlush
    <3> QED
      BY <3>6 DEF Channel!Next
  <2> QED
    BY <2>1, <2>2
<1>5. CASE ClearSlot
  BY <1>5, <1>0 DEF ClearSlot, SlotsLeft, OpenInv, Live, Channel!chanVars, ChannelMode,
     ChannelSent, ChannelHeld, ConsumerState, Flushing, Clearing, senderVars, history
<1>6. CASE ClearReadPos
  BY <1>6, <1>0 DEF ClearReadPos, OpenInv, Live, Channel!chanVars, ChannelMode,
     ChannelSent, ChannelHeld, ConsumerState, Flushing, Clearing, senderVars, history
<1>7. CASE ClearWritePosAndDisable
  BY <1>7, <1>0 DEF ClearWritePosAndDisable, OpenInv, Live, Channel!chanVars,
     ChannelMode, ChannelSent, ChannelHeld, ConsumerState, Flushing, Clearing,
     senderVars, history
<1>8. CASE ClearCount
  <2>1. ~crossed /\ ~crossed'
    BY <1>8 DEF ClearCount
  <2>2. Flushing /\ Flushing'
    BY <1>8 DEF ClearCount, Flushing, Clearing, IInv, SeekInv
  <2>3. ChannelMode = "flushing" /\ ChannelMode' = "flushing"
    BY <2>1, <2>2 DEF ChannelMode
  <2> QED
    BY <1>8, <1>0, <2>3 DEF ClearCount, OpenInv, Channel!chanVars, ChannelSent, ChannelHeld,
       ConsumerState, senderVars
<1>9. CASE PutStartPts
  <2>1. ~crossed /\ ~crossed' /\ ~Flushing'
    BY <1>9 DEF PutStartPts, Flushing, Clearing, history
  <2>2. CASE ~Flushing
    BY <1>9, <1>0, <2>1, <2>2 DEF PutStartPts, OpenInv, Live, Channel!chanVars, ChannelMode,
       ChannelSent, ChannelHeld, ConsumerState, Flushing, senderVars, history
  <2>3. CASE Flushing
    <3>1. ChannelMode = "flushing" /\ ChannelMode' = "open"
      BY <2>1, <2>3 DEF ChannelMode
    <3>2. ~Inside /\ puts = 0 /\ takes = 0
      BY <1>9, <2>1, <2>3 DEF PutStartPts, IInv, SyncInv, ClearInv
    <3>3. m_start_pts' > m_start_pts /\ m_start_pts' \in Nat
      BY <1>9, <2>3 DEF PutStartPts, IInv, SeekInv, TypeOK, Flushing, Clearing
    <3>4. ConsumerState = "idle" /\ ConsumerState' = ConsumerState
      BY <1>9, <3>2 DEF PutStartPts, ConsumerState, Inside, Holding, senderVars
    <3>5. ChannelContents = <<>> /\ ChannelSent = 0 /\ ChannelHeld = NoPacket
      BY <3>1 DEF ChannelContents, ChannelSent, ChannelHeld
    <3>6. ChannelContents' = <<>>
      <4>1. takes' = 0 /\ Live' = 0
        BY <1>9, <3>2 DEF PutStartPts, Live, history
      <4>2. ChannelContents' = Batch(m_start_pts', 0, 0)
        BY <1>0, <3>1, <4>1 DEF OpenInv
      <4> QED
        BY <3>3, <4>2, BatchIsSeq
    <3>7. ChannelSent' = 0 /\ ChannelHeld' = NoPacket
      BY <1>9, <3>1, <3>2 DEF PutStartPts, ChannelSent, ChannelHeld, IInv, MutexInv, Inside,
           Holding,
         senderVars, history
    <3>8. Channel!EndFlush
      BY <3>1, <3>3, <3>4, <3>5, <3>6, <3>7 DEF Channel!EndFlush
    <3> QED
      BY <3>8 DEF Channel!Next
  <2> QED
    BY <2>2, <2>3
<1>10. CASE PutTestFull
  BY <1>10, <1>0 DEF PutTestFull, Full, OpenInv, Live, Channel!chanVars, ChannelMode,
     ChannelSent, ChannelHeld, ConsumerState, Flushing, Clearing, queueVars, senderVars,
     history
<1>11. CASE PutStore
  <2>1. ChannelMode = "open" /\ ChannelMode' = "open"
    BY <1>11 DEF PutStore, ChannelMode, Flushing, Clearing
  <2>2. RingInv /\ Live \in Nat /\ Live' = Live + 1 /\ takes' = takes /\ m_start_pts' = m_start_pts
    BY <1>11, <1>0, <2>1 DEF PutStore, OpenInv, Live, IInv, TypeOK
  <2>3. ChannelContents = Batch(m_start_pts, takes, Live) /\ Len(ChannelContents) = Live
    BY <1>0, <2>1, <2>2, BatchIsSeq DEF OpenInv, IInv, TypeOK
  <2>4. ChannelContents' = Batch(m_start_pts, takes, Live + 1)
    BY <1>0, <2>1, <2>2 DEF OpenInv
  <2>5. takes + Live + 1 = puts + 1 /\ puts' = puts + 1
    BY <1>11, <2>2 DEF PutStore, Live, IInv, TypeOK
  <2>6. ChannelContents' = Append(ChannelContents, [seek |-> m_start_pts, no |-> puts'])
    <3>1. m_start_pts \in Nat /\ takes \in Nat /\ Live \in Nat
      BY <2>2 DEF IInv, TypeOK
    <3>2. Batch(m_start_pts, takes, Live + 1)
            = Append(Batch(m_start_pts, takes, Live), [seek |-> m_start_pts, no |-> takes + Live + 1])
      BY <3>1, BatchAppend
    <3> QED
      BY <2>3, <2>4, <2>5, <3>2
  <2>7. Channel!InUse < NSlots
    <3>1. m_nPacket = Live + (IF Holding THEN 1 ELSE 0) /\ m_nPacket < NSlots
      BY <1>11, <2>2 DEF PutStore, RingInv, IInv, FillInv
    <3>2. Holding <=> ConsumerState \in {"sending", "returning"}
      BY DEF Holding, ConsumerState
    <3> QED
      BY <2>3, <3>1, <3>2 DEF Channel!InUse
  <2>8. /\ ChannelSent' = ChannelSent + 1 /\ ChannelSent' = puts'
        /\ UNCHANGED <<ChannelMode, m_start_pts, ConsumerState, ChannelHeld>>
    BY <1>11, <2>1, <2>5 DEF PutStore, ChannelSent, ChannelHeld, ConsumerState, senderVars
  <2>9. Channel!Put
    BY <2>1, <2>6, <2>7, <2>8 DEF Channel!Put
  <2> QED
    BY <2>9 DEF Channel!Next
<1>12. CASE PutEnable
  BY <1>12, <1>0 DEF PutEnable, OpenInv, Live, Channel!chanVars, ChannelMode,
     ChannelSent, ChannelHeld, ConsumerState, Flushing, Clearing, senderVars, history
<1>13. CASE GetStartPts
  BY <1>13, <1>0 DEF GetStartPts, OpenInv, Live, Channel!chanVars, ChannelMode,
     ChannelSent, ChannelHeld, ConsumerState, Flushing, Clearing, queueVars,
     demuxerVars, history
<1>14. CASE GetTestEnable
  BY <1>14, <1>0 DEF GetTestEnable, OpenInv, Live, Channel!chanVars, ChannelMode,
     ChannelSent, ChannelHeld, ConsumerState, Flushing, Clearing, queueVars,
     demuxerVars, history
<1>15. CASE GetEmpty
  BY <1>15, <1>0 DEF GetEmpty, OpenInv, Live, Channel!chanVars, ChannelMode,
     ChannelSent, ChannelHeld, ConsumerState, Flushing, Clearing, queueVars,
     demuxerVars, history
<1>16. CASE GetFound
  <2>1. ~crossed /\ ConsumerState = "idle" /\ ConsumerState' = "taking"
    BY <1>16 DEF GetFound, ConsumerState
  <2>2. CASE Clearing
    <3>1. ChannelMode = "flushing" /\ ChannelMode' = "broken"
      BY <1>16, <2>1, <2>2 DEF GetFound, ChannelMode, Flushing
    <3>2. Channel!Overrun
      BY <1>16, <1>0, <2>1, <3>1 DEF GetFound, Channel!Overrun, OpenInv, ChannelSent,
           ChannelHeld
    <3> QED
      BY <3>2 DEF Channel!Next
  <2>3. CASE ~Clearing
    <3>1. ~crossed' /\ ~Flushing /\ ~Flushing'
      BY <1>16, <2>1, <2>3
      DEF GetFound, Flushing, Clearing, IInv, SlotInv, TypeOK, demuxerVars
    <3>2. ChannelMode = "open" /\ ChannelMode' = "open"
      BY <2>1, <3>1 DEF ChannelMode
    <3>3. Live' > 0 /\ Live' = Live /\ Live \in Nat
      BY <1>16, <1>0, <3>2 DEF GetFound, OpenInv, RingInv, Live
    <3>4. ChannelContents # <<>> /\ ChannelContents' = ChannelContents
      BY <1>16, <1>0, <3>2, <3>3, BatchTail DEF GetFound, OpenInv, IInv, TypeOK
    <3>5. Channel!Find
      BY <1>16, <2>1, <3>2, <3>4 DEF GetFound, Channel!Find, ChannelSent, ChannelHeld
    <3> QED
      BY <3>5 DEF Channel!Next
  <2> QED
    BY <2>2, <2>3
<1>17. CASE GetTake
  <2>1. ~crossed /\ ~crossed'
    BY <1>17 DEF GetTake
  <2>2. ~Flushing /\ ~Flushing'
    BY <1>17, <2>1 DEF GetTake, IInv, SyncInv, ClearInv, Inside, Flushing, Clearing, demuxerVars
  <2>3. ChannelMode = "open" /\ ChannelMode' = "open"
    BY <2>1, <2>2 DEF ChannelMode
  <2>4. /\ takes' = takes + 1 /\ Live' = Live - 1 /\ Live \in Nat \ {0}
        /\ m_start_pts' = m_start_pts
    BY <1>17, <1>0, <2>3 DEF GetTake, OpenInv, Live, IInv, TypeOK
  <2>5. /\ ChannelContents = Batch(m_start_pts, takes, Live)
        /\ ChannelContents' = Batch(m_start_pts, takes + 1, Live - 1)
    BY <1>0, <2>3, <2>4 DEF OpenInv
  <2>6. /\ ChannelContents' = Tail(ChannelContents)
        /\ Head(ChannelContents) = [seek |-> m_start_pts, no |-> takes + 1]
    <3>1. m_start_pts \in Nat /\ takes \in Nat
      BY DEF IInv, TypeOK
    <3>2. /\ Head(Batch(m_start_pts, takes, Live)) = [seek |-> m_start_pts, no |-> takes + 1]
          /\ Tail(Batch(m_start_pts, takes, Live)) = Batch(m_start_pts, takes + 1, Live - 1)
      BY <2>4, <3>1, BatchTail
    <3> QED
      BY <2>5, <3>2, Zenon
  <2>7. ChannelHeld' = Head(ChannelContents)
    <3>1. s_pkt' = [seek |-> m_start_pts', no |-> takes']
      BY <1>17, <1>0, <2>3 DEF GetTake, OpenInv, RingInv
    <3> QED
      BY <2>3, <2>4, <2>6, <3>1 DEF ChannelHeld
  <2>8. Channel!Take
    BY <1>17, <2>3, <2>6, <2>7 DEF GetTake, Channel!Take, ChannelSent, ConsumerState
  <2> QED
    BY <2>8 DEF Channel!Next
<1>18. CASE GetRaced
  <2>1. ~crossed /\ GetRaced
    BY <1>18 DEF GetRaced, history
  <2> QED
    BY <2>1, RacedOnlyCrossed DEF IInv
<1>19. CASE RetLock
  <2>1. ~crossed /\ ~crossed'
    BY <1>19 DEF RetLock, history
  <2>2. ~Flushing /\ ~Flushing'
    BY <1>19, <2>1 DEF RetLock, IInv, SyncInv, ClearInv, Inside, Holding, Flushing, Clearing,
         demuxerVars
  <2>3. ChannelMode = "open" /\ ChannelMode' = "open"
    BY <2>1, <2>2 DEF ChannelMode
  <2>4. ChannelContents' = ChannelContents
    BY <1>19, <1>0, <2>3 DEF RetLock, OpenInv, Live, history
  <2>5. Channel!Release
    BY <1>19, <2>3, <2>4 DEF RetLock, Channel!Release, ChannelSent, ChannelHeld, ConsumerState,
         history
  <2> QED
    BY <2>5 DEF Channel!Next
<1>20. CASE RetPos
  BY <1>20, <1>0 DEF RetPos, OpenInv, Live, Channel!chanVars, ChannelMode, ChannelSent,
     ChannelHeld, ConsumerState, Flushing, Clearing, demuxerVars, history
<1>21. CASE RetLoad
  BY <1>21, <1>0 DEF RetLoad, OpenInv, Live, Channel!chanVars, ChannelMode,
     ChannelSent, ChannelHeld, ConsumerState, Flushing, Clearing, queueVars,
     demuxerVars, history
<1>22. CASE RetCount
  <2>1. ~crossed /\ ~crossed'
    BY <1>22 DEF RetCount, history
  <2>2. ~Flushing /\ ~Flushing'
    BY <1>22, <2>1 DEF RetCount, IInv, SyncInv, ClearInv, Inside, Holding, Flushing, Clearing,
         demuxerVars
  <2>3. ChannelMode = "open" /\ ChannelMode' = "open"
    BY <2>1, <2>2 DEF ChannelMode
  <2>4. ChannelContents' = ChannelContents
    BY <1>22, <1>0, <2>3 DEF RetCount, OpenInv, Live, history
  <2>5. Channel!Return
    BY <1>22, <2>3, <2>4 DEF RetCount, Channel!Return, ChannelSent, ChannelHeld, ConsumerState,
         history
  <2> QED
    BY <2>5 DEF Channel!Next
<1>23. CASE UNCHANGED vars
  BY <1>23, <1>0 DEF vars, Channel!chanVars, OpenInv, Live, ChannelMode, ChannelSent,
     ChannelHeld, ConsumerState, Flushing, Clearing, queueVars, demuxerVars, senderVars,
     history
<1> QED
  BY <1>1, <1>2, <1>3, <1>4, <1>5, <1>6, <1>7, <1>8, <1>9, <1>10, <1>11, <1>12, <1>13,
     <1>14, <1>15, <1>16, <1>17, <1>18, <1>19, <1>20, <1>21, <1>22, <1>23 DEF Next,
     Demuxer, Sender

(* For a queue of any size and any number of seeks, the queue and its two  *)
(* threads behave as the seekable channel of VideoChannel.                 *)
THEOREM QueueImplementsChannel == Spec => ImplementsChannel
<1>1. Init => Channel!Init
  BY ImplInit
<1>2. IInv /\ IInv' /\ [Next]_vars => [Channel!Next]_(Channel!chanVars)
  BY ImplNext
<1> QED
  BY <1>1, <1>2, Invariance, PTL DEF Spec, ImplementsChannel, Channel!Spec


================================================================================
