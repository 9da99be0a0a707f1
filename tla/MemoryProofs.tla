----------------------------- MODULE MemoryProofs -----------------------------
(***************************************************************************)
(* Proofs about what is freed, and when.                                   *)
(*                                                                         *)
(* The objects of a channel (ChannelLife): the inductive invariant         *)
(* ChannelInv says, of a channel with a recording, what PThread records of *)
(* a thread (StateInv), in which order the command thread takes the        *)
(* channel apart (OrderInv), which pointer is to a live object (LiveInv),  *)
(* and that a thread is gone or was missed when Terminate is done with it  *)
(* (GoneInv).                                                              *)
(*                                                                         *)
(* The blocks of the audio ring (AudioQueue), for a ring of any size and   *)
(* any number of blocks: the inductive invariant IInv says what each       *)
(* thread knows at its place (ThreadInv), where the two positions and the  *)
(* full slots are (PlaceInv, which holds whether or not PutAudio has raced *)
(* RetAudio), and which memory is a block that nobody has freed (BlockInv, *)
(* which holds until then).                                                *)
(***************************************************************************)
EXTENDS ChannelLife, AudioQueue, TLAPS

(* The objects of a channel. *)

\* Where the command thread is, and the worker whose object it destroys.
place  == pc["comm"]
doomed == this["comm"]

\* Where a worker is in Run().
Inside(w) == IF w = "demux" THEN {"files", "file", "frame", "put", "sleep", "ending"}
             ELSE {"poll", "get", "got", "ret", "ending"}

FormInv ==
    /\ pc = [t \in Threads |-> pc[t]]
    /\ m_CDemuxer \in BOOLEAN /\ m_CSender \in BOOLEAN /\ m_queue \in BOOLEAN

\* What PThread records of a thread, and how often it was joined.
StateInv ==
    \A w \in Workers :
        /\ m_eState[w] = "eREADY" <=> pc[w] \in {"none", "start"}
        /\ m_eState[w] \in {"eZOMBIE", "eTERMINATED"} <=> pc[w] = "exited"
        /\ joins[w] = IF m_eState[w] = "eTERMINATED" THEN 1 ELSE 0

\* Only the command thread destroys, in the order of the two destructors.
OrderInv ==
    /\ pc["demux"] \notin Destructor
    /\ place \in {"startSend", "setQueue", "startDemux"} =>
         m_CSender /\ obj["queue"] = "live" /\ pc["demux"] = "none"
    /\ place = "startSend" => pc["send"] = "none"
    /\ place # "idle" => m_CDemuxer
    /\ place \in {"~CSender", "delete m_queue", "m_queue = NULL"} => doomed = "send"
    /\ place \in Destructor \ {"~CDemuxer"} /\ doomed = "send" => m_CSender
    /\ place = "delete m_queue" => m_queue

\* A pointer is to a live object, and no thread runs on one that was never made.
LiveInv ==
    /\ m_CDemuxer => obj["demuxer"] = "live"
    /\ m_CSender => obj["sender"] = "live"
    /\ m_queue /\ place # "m_queue = NULL" => obj["queue"] = "live"
    /\ \A w \in Workers : pc[w] \notin {"none", "exited"} => obj[Home(w)] # "none"

\* Terminate is done with w: its object is deleted or just being deleted.
Behind(w) == \/ obj[Home(w)] = "deleted"
             \/ doomed = w /\ place \in {"~PThread", "JoinLast", "free"}

\* By then the thread is gone, unless it was missed, and joined once at the most.
GoneInv ==
    \A w \in Workers :
        /\ Behind(w) => w \in missed \/ pc[w] \in {"none", "exited"}
        /\ m_eState[w] = "eTERMINATED" => Behind(w)
        /\ doomed = w /\ place = "Join" => m_eState[w] \in {"eRUNNING", "eZOMBIE"}
        /\ doomed = w /\ place = "JoinLast" => m_eState[w] = "eZOMBIE"

ChannelInv ==
    /\ LifeTypeOK /\ FormInv
    /\ recording => StateInv /\ OrderInv /\ LiveInv /\ GoneInv /\ DamageKnown
-----------------------------------------------------------------------------
(* Nothing is made yet.                                                     *)
LEMMA InitChannelInv == LifeInit => ChannelInv
<1>. SUFFICES ASSUME LifeInit PROVE ChannelInv
  OBVIOUS
<1>. USE DEF LifeInit, Workers, Threads, Objects, Home
<1>1. recording \in BOOLEAN
  BY Zenon
<1>2. LifeTypeOK /\ FormInv
  BY <1>1 DEF LifeTypeOK, FormInv, ThreadStates, Destructor
<1>3. StateInv /\ OrderInv /\ LiveInv /\ GoneInv /\ DamageKnown
  BY DEF StateInv, OrderInv, LiveInv, GoneInv, Behind, DamageKnown, Destructor, place, doomed
<1>. QED BY <1>2, <1>3 DEF ChannelInv

(* The steps of the workers are of four kinds: a step within Run(), the two *)
(* of StartPoint, and those of a channel that destroys itself.              *)
Inner(w) ==
    \E from \in Inside(w), to \in Inside(w) \cup {"~CDemuxer"}, os \in {{}, {"queue"}, {"sender"}} :
        /\ Step(w, from, to, os)
        /\ w = "send" => os # {"sender"}
        /\ w = "send" \/ recording => to \in Inside(w)

(* Every step of the two workers is of one of these kinds.                  *)
LEMMA WorkerSteps ==
  ASSUME LifeTypeOK, DemuxStep \/ SendStep
  PROVE  \/ \E w \in Workers : Inner(w) \/ SetRunning(w) \/ SetZombie(w)
         \/ Destroy("demux")
<1>. USE DEF Workers, Inside
<1>1. CASE GetChannelFiles
  <2>1. Step("demux", "files", IF recording THEN "file" ELSE "~CDemuxer", {})
    BY <1>1 DEF GetChannelFiles
  <2>. QED BY <2>1 DEF Inner
<1>2. CASE OpenFile
  BY <1>2 DEF OpenFile, Inner
<1>3. CASE ReadFrame
  BY <1>3 DEF ReadFrame, Inner
<1>4. CASE PutVideo
  BY <1>4 DEF PutVideo, Inner
<1>5. CASE Retry
  BY <1>5 DEF Retry, Inner
<1>6. CASE Poll
  <2>1. \E to \in {"poll", "get", "ending"} : Step("send", "poll", to, {})
    BY <1>6 DEF Poll
  <2>. QED BY <2>1 DEF Inner
<1>7. CASE GetVideo
  BY <1>7 DEF GetVideo, Inner
<1>8. CASE TestQueue
  <2>1. \E to \in {"ret", "poll"} : Step("send", "got", to, {})
    BY <1>8 DEF TestQueue
  <2>. QED BY <2>1 DEF Inner
<1>9. CASE RetVideo
  BY <1>9 DEF RetVideo, Inner
<1>. QED BY <1>1, <1>2, <1>3, <1>4, <1>5, <1>6, <1>7, <1>8, <1>9 DEF DemuxStep, SendStep

\* What may be used after it was deleted, as DamageKnown lists it.
Known == {<<"demux", "sender">>, <<"demux", "queue">>, <<"send", "queue">>}

(* A use of live objects, or of those that may be gone, adds no damage.     *)
LEMMA UseKnown ==
  ASSUME NEW t \in Threads, NEW os \in SUBSET Objects, Use(t, os), damage \subseteq Known,
         \A o \in os : obj[o] = "live" \/ <<t, o>> \in Known
  PROVE  damage' \subseteq Known
BY DEF Use

(* Use notes threads and objects.                                           *)
LEMMA UseType ==
  ASSUME NEW t \in Threads, NEW os \in SUBSET Objects, Use(t, os), LifeTypeOK
  PROVE  damage' \subseteq Threads \X Objects /\ crashed' \in BOOLEAN
BY DEF Use, LifeTypeOK

(* A change of one value of a function keeps its type.                      *)
LEMMA ExceptType ==
  ASSUME NEW S, NEW T, NEW f \in [S -> T], NEW x \in S, NEW v \in T
  PROVE  [f EXCEPT ![x] = v] \in [S -> T]
OBVIOUS

(* So does counting one up.                                                 *)
LEMMA CountType ==
  ASSUME NEW S, NEW f \in [S -> Nat], NEW x \in S
  PROVE  [f EXCEPT ![x] = @ + 1] \in [S -> Nat]
OBVIOUS

(* The states and counts a join writes.                                     *)
LEMMA JoinType ==
  ASSUME LifeTypeOK, NEW t \in Threads, NEW at, NEW next, Join(t, at, next)
  PROVE  m_eState' \in [Workers -> ThreadStates] /\ joins' \in [Workers -> Nat]
<1>1. /\ m_eState' = m_eState \/ m_eState' = [m_eState EXCEPT ![this[t]] = "eTERMINATED"]
      /\ joins' = joins \/ joins' = [joins EXCEPT ![this[t]] = @ + 1]
  BY DEF Join
<1>2. this[t] \in Workers /\ m_eState \in [Workers -> ThreadStates] /\ joins \in [Workers -> Nat]
  BY DEF LifeTypeOK
<1>3. "eTERMINATED" \in ThreadStates
  BY DEF ThreadStates
<1>4. m_eState' \in [Workers -> ThreadStates]
  BY <1>1, <1>2, <1>3, ExceptType
<1>5. joins' \in [Workers -> Nat]
  BY <1>1, <1>2, CountType
<1>. QED BY <1>4, <1>5

(* Types, whoever destroys the objects.                                     *)
LEMMA LifeTypeStep ==
  ASSUME LifeTypeOK, FormInv, [LifeNext]_lifeVars
  PROVE  LifeTypeOK' /\ FormInv'
<1>. USE DEF LifeTypeOK, FormInv, Goto, At, Workers, Threads, Objects, Home, pointers, history
<1>1. CASE PlayStart
  <2>. PICK used \in BOOLEAN : PlayStart!4!(used)
    BY <1>1 DEF PlayStart
  <2>1. obj' \in [Objects -> {"none", "live", "deleted"}] /\ pc' = [t \in Threads |-> pc'[t]]
    OBVIOUS
  <2>2. pc'["comm"] \in {"startSend", "idle"} /\ pc'["demux"] = "none" /\ pc'["send"] = "none"
    OBVIOUS
  <2>3. m_CDemuxer' \in BOOLEAN /\ m_CSender' \in BOOLEAN /\ m_queue' \in BOOLEAN
    BY <1>1 DEF PlayStart
  <2>4. recording' \in BOOLEAN /\ crashed' \in BOOLEAN
    BY <1>1 DEF PlayStart
  <2>. QED BY <1>1, <2>1, <2>2, <2>3, <2>4 DEF PlayStart, ThreadStates, Destructor
<1>2. CASE PlayCommand
  BY <1>2, UseType DEF PlayCommand
<1>3. CASE PlayClose
  BY <1>3 DEF PlayClose, Destructor
<1>4. CASE StartSender
  BY <1>4 DEF StartSender, SetSocket
<1>5. CASE SetQueue
  BY <1>5 DEF SetQueue
<1>6. CASE StartDemuxer
  BY <1>6 DEF StartDemuxer
<1>7. ASSUME NEW t \in {"comm", "demux"}, Destroy(t)
      PROVE  LifeTypeOK' /\ FormInv'
  <2>. USE DEF Destructor
  <2>1. CASE DemuxerExit(t)
    BY <2>1, UseType DEF DemuxerExit
  <2>2. CASE SenderExit(t)
    BY <2>2, UseType DEF SenderExit
  <2>3. CASE DeleteQueue(t)
    BY <2>3, UseType DEF DeleteQueue
  <2>4. CASE ClearQueue(t)
    BY <2>4, UseType DEF ClearQueue
  <2>5. CASE Terminate(t)
    BY <2>5, UseType DEF Terminate, ThreadStates
  <2>6. ASSUME NEW at, NEW next \in Destructor, Join(t, at, next)
        PROVE  LifeTypeOK' /\ FormInv'
    <3>1. /\ m_eState' = m_eState \/ m_eState' = [m_eState EXCEPT ![this[t]] = "eTERMINATED"]
          /\ joins' = joins \/ joins' = [joins EXCEPT ![this[t]] = @ + 1]
      BY <2>6 DEF Join
    <3>2. m_eState' \in [Workers -> ThreadStates] /\ joins' \in [Workers -> Nat]
      BY <2>6, JoinType
    <3>3. damage' \subseteq Threads \X Objects /\ crashed' \in BOOLEAN
      BY <2>6, UseType DEF Join
    <3>. QED BY <2>6, <3>1, <3>2, <3>3 DEF Join
  <2>7. CASE PThreadExit(t)
    <3>1. pc' = [pc EXCEPT ![t] = "JoinLast"] \/ pc' = [pc EXCEPT ![t] = "free"]
      BY <2>7 DEF PThreadExit
    <3>2. damage' \subseteq Threads \X Objects /\ crashed' \in BOOLEAN
      BY <2>7, UseType DEF PThreadExit
    <3>3. /\ pc'["comm"] \in {"idle", "startSend", "setQueue", "startDemux"} \cup Destructor
          /\ pc'["demux"] \in {"none", "start", "files", "file", "frame", "put", "sleep", "ending", "exited"} \cup Destructor
          /\ pc'["send"] = pc["send"] /\ pc' = [v \in Threads |-> pc'[v]]
      BY <3>1
    <3>. QED BY <2>7, <3>2, <3>3 DEF PThreadExit
  <2>8. CASE Free(t)
    <3>1. obj' \in [Objects -> {"none", "live", "deleted"}] /\ this' \in [Threads -> Workers]
      BY <2>8 DEF Free
    <3>2. m_CDemuxer' \in BOOLEAN /\ m_CSender' \in BOOLEAN /\ m_queue' \in BOOLEAN
      BY <2>8 DEF Free
    <3>3. damage' \subseteq Threads \X Objects /\ crashed' \in BOOLEAN
      BY <2>8, UseType DEF Free
    <3>. QED BY <2>8, <3>1, <3>2, <3>3 DEF Free
  <2>. QED BY <1>7, <2>1, <2>2, <2>3, <2>4, <2>5, <2>6, <2>7, <2>8 DEF Destroy
<1>8. ASSUME NEW w \in Workers, Inner(w)
      PROVE  LifeTypeOK' /\ FormInv'
  <2>. PICK from \in Inside(w), to \in Inside(w) \cup {"~CDemuxer"}, os \in {{}, {"queue"}, {"sender"}} :
              /\ Step(w, from, to, os)
              /\ w = "send" => os # {"sender"}
              /\ w = "send" \/ recording => to \in Inside(w)
    BY <1>8, Zenon DEF Inner
  <2>1. damage' \subseteq Threads \X Objects /\ crashed' \in BOOLEAN
    BY UseType DEF Step
  <2>2. pc' = [pc EXCEPT ![w] = to]
    BY DEF Step
  <2>3. UNCHANGED <<obj, m_eState, m_bExit, this, m_CDemuxer, m_CSender, m_queue, recording, missed, joins>>
    BY DEF Step
  <2>4. /\ pc'["comm"] = pc["comm"] /\ pc' = [v \in Threads |-> pc'[v]]
        /\ w = "demux" => pc'["demux"] = to /\ pc'["send"] = pc["send"]
        /\ w = "send" => pc'["demux"] = pc["demux"] /\ pc'["send"] = to
    BY <2>2
  <2>5. /\ w = "demux" => to \in {"files", "file", "frame", "put", "sleep", "ending", "~CDemuxer"}
        /\ w = "send" => to \in {"poll", "get", "got", "ret", "ending"}
    BY DEF Inside
  <2>6. /\ pc'["demux"] \in {"none", "start", "files", "file", "frame", "put", "sleep", "ending", "exited"} \cup Destructor
        /\ pc'["send"] \in {"none", "start", "poll", "get", "got", "ret", "ending", "exited"}
    BY <2>4, <2>5 DEF Destructor
  <2>. QED BY <2>1, <2>3, <2>4, <2>6
<1>9. ASSUME NEW w \in Workers, SetRunning(w) \/ SetZombie(w)
      PROVE  LifeTypeOK' /\ FormInv'
  <2>1. CASE SetRunning(w)
    BY <2>1, UseType DEF SetRunning, ThreadStates
  <2>2. CASE SetZombie(w)
    BY <2>2, UseType DEF SetZombie, ThreadStates
  <2>. QED BY <1>9, <2>1, <2>2
<1>10. CASE Dead \/ UNCHANGED lifeVars
  BY <1>10 DEF Dead, lifeVars
<1>. QED BY <1>1, <1>2, <1>3, <1>4, <1>5, <1>6, <1>7, <1>8, <1>9, <1>10, WorkerSteps
         DEF LifeNext, Command, CommStep

\* The invariants of a channel with a recording.
Safe == StateInv /\ OrderInv /\ LiveInv /\ GoneInv /\ DamageKnown

(* A new channel has them, whatever became of the last one.                 *)
LEMMA StartSteps ==
  ASSUME ChannelInv, PlayStart
  PROVE  Safe'
<1>. USE DEF Workers, Threads, Objects, Home
<1>. PICK used \in BOOLEAN : PlayStart!4!(used)
  BY DEF PlayStart
<1>1. m_CDemuxer' = TRUE /\ m_CSender' = used /\ m_queue' = FALSE
  BY DEF PlayStart
<1>2. /\ obj'["demuxer"] = "live"
      /\ used => obj'["sender"] = "live" /\ obj'["queue"] = "live"
      /\ \A o \in Objects : obj'[o] # "deleted"
  OBVIOUS
<1>3. /\ pc'["demux"] = "none" /\ pc'["send"] = "none"
      /\ pc'["comm"] = IF used THEN "startSend" ELSE "idle"
  OBVIOUS
<1>4. \A w \in Workers : m_eState'[w] = "eREADY" /\ joins'[w] = 0
  BY DEF PlayStart
<1>5. damage' = {}
  BY DEF PlayStart
<1>6. StateInv'
  BY <1>3, <1>4 DEF StateInv
<1>7. OrderInv'
  BY <1>1, <1>2, <1>3 DEF OrderInv, Destructor, place
<1>8. LiveInv'
  <2>1. \A w \in Workers : pc'[w] = "none"
    BY <1>3
  <2>. QED BY <1>1, <1>2, <2>1 DEF LiveInv, place
<1>9. GoneInv'
  BY <1>2, <1>3, <1>4 DEF GoneInv, Behind, place
<1>10. DamageKnown'
  BY <1>5 DEF DamageKnown
<1>. QED BY <1>6, <1>7, <1>8, <1>9, <1>10 DEF Safe

(* The other steps of the command thread that destroy nothing keep them.    *)
LEMMA CommandSteps ==
  ASSUME ChannelInv, recording,
         PlayCommand \/ PlayClose \/ StartSender \/ SetQueue \/ StartDemuxer
  PROVE  Safe'
<1>. USE DEF ChannelInv, LifeTypeOK, FormInv, Workers, Threads, Objects, Home, At, Goto,
             pointers, history,
             place, doomed
<1>1. CASE PlayCommand
  <2>1. UNCHANGED <<obj, m_eState, pc, this, pointers, recording, missed, joins>>
    BY <1>1 DEF PlayCommand
  <2>2. DamageKnown'
    <3>1. Use("comm", {"demuxer"}) /\ obj["demuxer"] = "live"
      BY <1>1 DEF PlayCommand, LiveInv
    <3>2. missed = {} => damage' \subseteq Known
      BY <3>1, UseKnown DEF DamageKnown, Known
    <3>. QED BY <2>1, <3>2 DEF DamageKnown, Known
  <2>3. StateInv' /\ OrderInv'
    <3>1. place' = place /\ doomed' = doomed
      BY <2>1
    <3>2. StateInv'
      BY <2>1 DEF StateInv
    <3>. HIDE DEF place, doomed, LifeTypeOK, FormInv
    <3>3. OrderInv'
      BY <2>1, <3>1 DEF OrderInv
    <3>. QED BY <3>2, <3>3
  <2>4. LiveInv' /\ GoneInv'
    BY <2>1 DEF LiveInv, GoneInv, Behind
  <2>. QED BY <2>2, <2>3, <2>4 DEF Safe
<1>2. CASE PlayClose
  <2>1. pc' = [pc EXCEPT !["comm"] = "~CDemuxer"] /\ m_CDemuxer /\ place = "idle"
    BY <1>2 DEF PlayClose
  <2>2. UNCHANGED <<obj, m_eState, m_bExit, this, pointers, recording, history>>
    BY <1>2 DEF PlayClose
  <2>3. StateInv'
    BY <2>1, <2>2 DEF StateInv
  <2>4. OrderInv'
    BY <2>1, <2>2 DEF OrderInv, Destructor
  <2>5. LiveInv'
    BY <2>1, <2>2 DEF LiveInv
  <2>6. GoneInv'
    BY <2>1, <2>2 DEF GoneInv, Behind
  <2>. QED BY <2>2, <2>3, <2>4, <2>5, <2>6 DEF Safe, DamageKnown
<1>3. CASE StartSender
  <2>. PICK s \in {"start", "none"} : pc' = [pc EXCEPT !["comm"] = "setQueue", !["send"] = s]
    BY <1>3 DEF StartSender, SetSocket
  <2>1. /\ place = "startSend"
        /\ UNCHANGED <<obj, m_eState, m_bExit, this, pointers, recording, history>>
    BY <1>3 DEF StartSender
  <2>2. pc'["send"] = s /\ pc'["demux"] = pc["demux"] /\ pc'["comm"] = "setQueue"
    OBVIOUS
  <2>3. StateInv'
    BY <2>1, <2>2 DEF StateInv, OrderInv
  <2>4. OrderInv'
    BY <2>1, <2>2 DEF OrderInv, Destructor
  <2>5. LiveInv'
    BY <2>1, <2>2 DEF LiveInv, OrderInv
  <2>6. GoneInv'
    BY <2>1, <2>2 DEF GoneInv, Behind, LiveInv, OrderInv
  <2>. QED BY <2>1, <2>3, <2>4, <2>5, <2>6 DEF Safe, DamageKnown
<1>4. CASE SetQueue
  <2>1. /\ place = "setQueue" /\ m_queue'
        /\ UNCHANGED <<obj, m_eState, m_bExit, this, m_CDemuxer, m_CSender, recording, history>>
    BY <1>4 DEF SetQueue
  <2>2. pc'["send"] = pc["send"] /\ pc'["demux"] = pc["demux"] /\ pc'["comm"] = "startDemux"
    BY <1>4 DEF SetQueue
  <2>3. StateInv'
    BY <2>1, <2>2 DEF StateInv
  <2>4. OrderInv'
    BY <2>1, <2>2 DEF OrderInv, Destructor
  <2>5. LiveInv'
    BY <2>1, <2>2 DEF LiveInv, OrderInv
  <2>6. GoneInv'
    BY <2>1, <2>2 DEF GoneInv, Behind
  <2>. QED BY <2>1, <2>3, <2>4, <2>5, <2>6 DEF Safe, DamageKnown
<1>5. CASE StartDemuxer
  <2>1. /\ place = "startDemux"
        /\ UNCHANGED <<obj, m_eState, m_bExit, this, pointers, recording, history>>
    BY <1>5 DEF StartDemuxer
  <2>2. pc'["send"] = pc["send"] /\ pc'["demux"] = "start" /\ pc'["comm"] = "idle"
    BY <1>5 DEF StartDemuxer
  <2>3. StateInv'
    BY <2>1, <2>2 DEF StateInv, OrderInv
  <2>4. OrderInv'
    BY <2>1, <2>2 DEF OrderInv, Destructor
  <2>5. LiveInv'
    BY <2>1, <2>2 DEF LiveInv, OrderInv
  <2>6. GoneInv'
    BY <2>1, <2>2 DEF GoneInv, Behind, LiveInv, OrderInv
  <2>. QED BY <2>1, <2>3, <2>4, <2>5, <2>6 DEF Safe, DamageKnown
<1>. QED BY <1>1, <1>2, <1>3, <1>4, <1>5

(* A worker in Run() uses its own object, which is live, or what may be gone. *)
LEMMA WorkerUse ==
  ASSUME ChannelInv, recording, NEW w \in Workers, pc[w] \notin {"none", "exited"},
         NEW os \in {{}, {"queue"}, {"sender"}}, w = "send" => os # {"sender"},
         Use(w, {Home(w)} \cup os), missed' = missed, recording' = recording
  PROVE  DamageKnown'
<1>. USE DEF ChannelInv, LifeTypeOK, Workers, Threads, Objects
<1>1. missed = {} => obj[Home(w)] = "live"
  <2>1. Home(w) \in Objects
    BY DEF Home
  <2>2. obj[Home(w)] \in {"none", "live", "deleted"} /\ obj[Home(w)] # "none"
    BY <2>1 DEF LiveInv
  <2>. QED BY <2>2 DEF GoneInv, Behind
<1>2. \A o \in os : <<w, o>> \in Known
  BY DEF Known
<1>3. {Home(w)} \cup os \in SUBSET Objects
  BY DEF Home
<1>4. missed = {} => damage \subseteq Known
  BY DEF DamageKnown, Known
<1>5. ASSUME missed = {} PROVE damage' \subseteq Known
  <2>1. \A o \in {Home(w)} \cup os : obj[o] = "live" \/ <<w, o>> \in Known
    BY <1>1, <1>2, <1>5
  <2>2. w \in Threads
    OBVIOUS
  <2>. HIDE DEF ChannelInv, Workers, Threads, Objects
  <2>. QED BY <1>3, <1>4, <1>5, <2>1, <2>2, UseKnown
<1>. QED BY <1>5 DEF DamageKnown, Known

(* The steps of the workers keep the invariants.                            *)
LEMMA WorkerSafe ==
  ASSUME ChannelInv, recording, NEW w \in Workers,
         Inner(w) \/ SetRunning(w) \/ SetZombie(w)
  PROVE  Safe'
<1>. USE DEF ChannelInv, LifeTypeOK, FormInv, Workers, Threads, Objects, At, Goto, pointers
<1>1. \/ \E from \in Inside(w), to \in Inside(w), os \in {{}, {"queue"}, {"sender"}} :
            Step(w, from, to, os) /\ (w = "send" => os # {"sender"})
      \/ SetRunning(w) \/ SetZombie(w)
  <2>. SUFFICES ASSUME Inner(w)
                PROVE  \E from \in Inside(w), to \in Inside(w), os \in {{}, {"queue"}, {"sender"}} :
                         Step(w, from, to, os) /\ (w = "send" => os # {"sender"})
    OBVIOUS
  <2>. PICK from \in Inside(w), to \in Inside(w) \cup {"~CDemuxer"},
            os \in {{}, {"queue"}, {"sender"}} :
              /\ Step(w, from, to, os)
              /\ w = "send" => os # {"sender"}
              /\ w = "send" \/ recording => to \in Inside(w)
    BY Zenon DEF Inner
  <2>1. to \in Inside(w)
    BY Zenon
  <2>. HIDE DEF ChannelInv, Inside
  <2>. QED BY <2>1
<1>2. PICK os \in {{}, {"queue"}, {"sender"}} :
        /\ UNCHANGED <<obj, m_bExit, this, m_CDemuxer, m_CSender, m_queue, recording, missed, joins>>
        /\ Use(w, {Home(w)} \cup os) /\ (w = "send" => os # {"sender"})
        /\ pc' = [pc EXCEPT ![w] = pc'[w]]
        /\ \/ /\ pc[w] = "start" /\ pc'[w] \in Inside(w)
              /\ m_eState' = [m_eState EXCEPT ![w] = "eRUNNING"]
           \/ /\ pc[w] \in Inside(w) /\ pc'[w] \in Inside(w)
              /\ m_eState' = m_eState
           \/ /\ pc[w] = "ending" /\ pc'[w] = "exited"
              /\ m_eState' = [m_eState EXCEPT ![w] = "eZOMBIE"]
  <2>1. ASSUME NEW from \in Inside(w), NEW to \in Inside(w), NEW os \in {{}, {"queue"}, {"sender"}},
               Step(w, from, to, os)
        PROVE  /\ UNCHANGED <<obj, m_bExit, this, m_CDemuxer, m_CSender, m_queue, recording, missed, joins>>
               /\ Use(w, {Home(w)} \cup os)
               /\ pc' = [pc EXCEPT ![w] = pc'[w]]
               /\ pc[w] \in Inside(w) /\ pc'[w] \in Inside(w)
               /\ m_eState' = m_eState
    BY <2>1 DEF Step
  <2>2. ASSUME SetRunning(w) \/ SetZombie(w)
        PROVE  /\ UNCHANGED <<obj, m_bExit, this, m_CDemuxer, m_CSender, m_queue, recording, missed, joins>>
               /\ Use(w, {Home(w)} \cup {})
               /\ pc' = [pc EXCEPT ![w] = pc'[w]]
               /\ \/ /\ pc[w] = "start" /\ pc'[w] \in Inside(w)
                     /\ m_eState' = [m_eState EXCEPT ![w] = "eRUNNING"]
                  \/ /\ pc[w] = "ending" /\ pc'[w] = "exited"
                     /\ m_eState' = [m_eState EXCEPT ![w] = "eZOMBIE"]
    <3>1. {Home(w)} \cup {} = {Home(w)}
      OBVIOUS
    <3>2. CASE SetRunning(w)
      BY <3>1, <3>2 DEF SetRunning, Inside
    <3>3. CASE SetZombie(w)
      BY <3>1, <3>3 DEF SetZombie
    <3>. QED BY <2>2, <3>2, <3>3
  <2>3. {} # {"sender"}
    OBVIOUS
  <2>. HIDE DEF Use, ChannelInv, Workers, At, Goto, pointers, Inside
  <2>. QED BY <1>1, <2>1, <2>2, <2>3, Zenon
<1>3. /\ UNCHANGED <<obj, m_bExit, this, m_CDemuxer, m_CSender, m_queue, recording, missed, joins>>
      /\ pc[w] \in Inside(w) \cup {"start"}
  BY <1>2 DEF Inside
<1>4. /\ pc' = [pc EXCEPT ![w] = pc'[w]] /\ pc'[w] \in Inside(w) \cup {"exited"}
      /\ \/ /\ pc[w] = "start" /\ pc'[w] \in Inside(w)
            /\ m_eState' = [m_eState EXCEPT ![w] = "eRUNNING"]
         \/ /\ pc[w] \in Inside(w) /\ pc'[w] \in Inside(w)
            /\ m_eState' = m_eState
         \/ /\ pc[w] = "ending" /\ pc'[w] = "exited"
            /\ m_eState' = [m_eState EXCEPT ![w] = "eZOMBIE"]
  BY <1>2
<1>5. /\ place' = place /\ doomed' = doomed
      /\ \A v \in Workers : v # w => pc'[v] = pc[v] /\ m_eState'[v] = m_eState[v]
  BY <1>3, <1>4 DEF place, doomed
<1>6. DamageKnown'
  <2>1. pc[w] \notin {"none", "exited"}
    BY <1>3 DEF Inside
  <2>. HIDE DEF ChannelInv, Workers
  <2>. QED BY <1>2, <1>3, <2>1, WorkerUse
<1>7. StateInv'
  <2>. SUFFICES ASSUME NEW v \in Workers
                PROVE  /\ m_eState'[v] = "eREADY" <=> pc'[v] \in {"none", "start"}
                       /\ m_eState'[v] \in {"eZOMBIE", "eTERMINATED"} <=> pc'[v] = "exited"
                       /\ joins'[v] = IF m_eState'[v] = "eTERMINATED" THEN 1 ELSE 0
    BY DEF StateInv
  <2>1. CASE v # w
    BY <1>3, <1>5, <2>1 DEF StateInv
  <2>2. CASE v = w
    BY <1>3, <1>4, <2>2 DEF StateInv, Inside, ThreadStates
  <2>. QED BY <2>1, <2>2
<1>8. OrderInv'
  <2>1. pc'["demux"] \notin Destructor
    BY <1>4, <1>5 DEF OrderInv, Inside, Destructor
  <2>2. place \in {"startSend", "setQueue", "startDemux"} => pc'["demux"] = "none"
    BY <1>3, <1>4, <1>5 DEF OrderInv, Inside
  <2>3. place = "startSend" => pc'["send"] = "none"
    BY <1>3, <1>4, <1>5 DEF OrderInv, Inside
  <2>. QED BY <1>3, <1>5, <2>1, <2>2, <2>3 DEF OrderInv
<1>9. LiveInv'
  BY <1>3, <1>4, <1>5 DEF LiveInv, Inside
<1>10. GoneInv'
  <2>. SUFFICES ASSUME NEW v \in Workers
                PROVE  /\ Behind(v) => v \in missed \/ pc'[v] \in {"none", "exited"}
                       /\ m_eState'[v] = "eTERMINATED" => Behind(v)
                       /\ doomed = v /\ place = "Join" => m_eState'[v] \in {"eRUNNING", "eZOMBIE"}
                       /\ doomed = v /\ place = "JoinLast" => m_eState'[v] = "eZOMBIE"
    BY <1>3, <1>5 DEF GoneInv, Behind
  <2>1. CASE v # w
    BY <1>5, <2>1 DEF GoneInv
  <2>2. CASE v = w
    <3>1. /\ Behind(v) => v \in missed
          /\ m_eState[v] \notin {"eZOMBIE", "eTERMINATED"}
      BY <1>3, <2>2 DEF GoneInv, StateInv, Inside
    <3>. QED BY <1>4, <2>2, <3>1 DEF GoneInv
  <2>. QED BY <2>1, <2>2
<1>. QED BY <1>6, <1>7, <1>8, <1>9, <1>10 DEF Safe

(* The command thread uses live objects.                                    *)
LEMMA CommUse ==
  ASSUME ChannelInv, recording, NEW o \in Objects, obj[o] = "live", Use("comm", {o}),
         missed \subseteq missed', recording' = recording
  PROVE  DamageKnown'
<1>1. missed = {} => damage \subseteq Known
  BY DEF ChannelInv, DamageKnown, Known
<1>2. missed = {} => damage' \subseteq Known
  BY <1>1, UseKnown DEF Threads
<1>3. missed' = {} => missed = {}
  OBVIOUS
<1>. QED BY <1>2, <1>3 DEF DamageKnown, Known

(* The object the command thread is destroying is live until it is freed.   *)
LEMMA DoomedLive ==
  ASSUME ChannelInv, recording, place \in Destructor \ {"~CDemuxer"}
  PROVE  doomed \in Workers /\ obj[Home(doomed)] = "live"
BY DEF ChannelInv, LifeTypeOK, OrderInv, LiveInv, Home, Destructor, Workers, Threads, doomed

(* Each step of the two destructors keeps the invariants: the object that is *)
(* freed is one whose thread was joined, or missed, or had never started.    *)
LEMMA DestroySafe ==
  ASSUME ChannelInv, recording, Destroy("comm")
  PROVE  Safe'
<1>. USE DEF ChannelInv, Workers
<1>1. CASE DemuxerExit("comm")
  <2>1. /\ place = "~CDemuxer" /\ Use("comm", {"demuxer"})
        /\ pc' = [pc EXCEPT !["comm"] = IF m_CSender THEN "~CSender" ELSE "Terminate"]
        /\ this' = [this EXCEPT !["comm"] = IF m_CSender THEN "send" ELSE "demux"]
        /\ UNCHANGED <<obj, m_eState, m_CDemuxer, m_CSender, m_queue, recording, missed, joins>>
    BY <1>1 DEF DemuxerExit, At, Goto, pointers, place
  <2>2. /\ place' = IF m_CSender THEN "~CSender" ELSE "Terminate"
        /\ doomed' = IF m_CSender THEN "send" ELSE "demux"
        /\ \A w \in Workers : pc'[w] = pc[w]
    BY <2>1 DEF LifeTypeOK, FormInv, Threads, place, doomed
  <2>3. DamageKnown'
    BY <2>1, CommUse DEF OrderInv, LiveInv, Objects
  <2>4. StateInv'
    BY <2>1, <2>2 DEF StateInv, LifeTypeOK
  <2>5. OrderInv'
    BY <2>1, <2>2 DEF OrderInv
  <2>6. LiveInv'
    BY <2>1, <2>2 DEF LiveInv
  <2>7. GoneInv'
    BY <2>1, <2>2 DEF GoneInv, Behind
  <2>. QED BY <2>3, <2>4, <2>5, <2>6, <2>7 DEF Safe
<1>2. CASE SenderExit("comm")
  <2>1. /\ place = "~CSender" /\ Use("comm", {"sender"})
        /\ pc' = [pc EXCEPT !["comm"] = IF m_queue THEN "delete m_queue" ELSE "Terminate"]
        /\ UNCHANGED <<obj, m_eState, this, m_CDemuxer, m_CSender, m_queue, recording, missed, joins>>
    BY <1>2 DEF SenderExit, At, Goto, pointers, place
  <2>2. /\ place' = IF m_queue THEN "delete m_queue" ELSE "Terminate"
        /\ doomed' = doomed
        /\ \A w \in Workers : pc'[w] = pc[w]
    BY <2>1 DEF LifeTypeOK, FormInv, Threads, place, doomed
  <2>3. doomed = "send" /\ obj["sender"] = "live"
    BY <2>1, DoomedLive DEF OrderInv, Destructor, Home
  <2>4. DamageKnown'
    BY <2>1, <2>3, CommUse DEF Objects
  <2>5. StateInv'
    BY <2>1, <2>2 DEF StateInv, LifeTypeOK
  <2>6. OrderInv'
    BY <2>1, <2>2, <2>3 DEF OrderInv, Destructor
  <2>7. LiveInv'
    BY <2>1, <2>2 DEF LiveInv
  <2>8. GoneInv'
    BY <2>1, <2>2 DEF GoneInv, Behind
  <2>. QED BY <2>4, <2>5, <2>6, <2>7, <2>8 DEF Safe
<1>3. CASE DeleteQueue("comm")
  <2>1. /\ place = "delete m_queue" /\ Use("comm", {"queue"})
        /\ pc' = [pc EXCEPT !["comm"] = "m_queue = NULL"]
        /\ obj' = [obj EXCEPT !["queue"] = "deleted"]
        /\ UNCHANGED <<m_eState, this, m_CDemuxer, m_CSender, m_queue, recording, missed, joins>>
    BY <1>3 DEF DeleteQueue, At, Goto, pointers, place
  <2>2. /\ place' = "m_queue = NULL" /\ doomed' = doomed
        /\ \A w \in Workers : pc'[w] = pc[w]
    BY <2>1 DEF LifeTypeOK, FormInv, Threads, place, doomed
  <2>3. obj["queue"] = "live"
    BY <2>1 DEF OrderInv, LiveInv
  <2>4. /\ obj'["demuxer"] = obj["demuxer"] /\ obj'["sender"] = obj["sender"]
        /\ \A w \in Workers : obj'[Home(w)] = obj[Home(w)]
    BY <2>1 DEF Home, LifeTypeOK, Objects
  <2>5. DamageKnown'
    BY <2>1, <2>3, CommUse DEF Objects
  <2>6. StateInv'
    BY <2>1, <2>2 DEF StateInv, LifeTypeOK
  <2>7. OrderInv'
    BY <2>1, <2>2 DEF OrderInv, Destructor
  <2>8. LiveInv'
    BY <2>1, <2>2, <2>4 DEF LiveInv
  <2>9. GoneInv'
    <3>1. ASSUME NEW w \in Workers
          PROVE  /\ obj[Home(w)] = "deleted" => w \in missed \/ pc[w] \in {"none", "exited"}
                 /\ m_eState[w] = "eTERMINATED" => obj[Home(w)] = "deleted"
      BY <2>1 DEF GoneInv, Behind
    <3>. QED BY <2>1, <2>2, <2>4, <3>1 DEF GoneInv, Behind
  <2>. QED BY <2>5, <2>6, <2>7, <2>8, <2>9 DEF Safe
<1>4. CASE ClearQueue("comm")
  <2>1. /\ place = "m_queue = NULL" /\ Use("comm", {"sender"})
        /\ pc' = [pc EXCEPT !["comm"] = "Terminate"] /\ m_queue' = FALSE
        /\ UNCHANGED <<obj, m_eState, this, m_CDemuxer, m_CSender, recording, missed, joins>>
    BY <1>4 DEF ClearQueue, At, Goto, pointers, place
  <2>2. /\ place' = "Terminate" /\ doomed' = doomed
        /\ \A w \in Workers : pc'[w] = pc[w]
    BY <2>1 DEF LifeTypeOK, FormInv, Threads, place, doomed
  <2>3. doomed = "send" /\ obj["sender"] = "live"
    BY <2>1, DoomedLive DEF OrderInv, Destructor, Home
  <2>4. DamageKnown'
    BY <2>1, <2>3, CommUse DEF Objects
  <2>5. StateInv'
    BY <2>1, <2>2 DEF StateInv, LifeTypeOK
  <2>6. OrderInv'
    BY <2>1, <2>2 DEF OrderInv, Destructor
  <2>7. LiveInv'
    BY <2>1, <2>2 DEF LiveInv
  <2>8. GoneInv'
    BY <2>1, <2>2 DEF GoneInv, Behind
  <2>. QED BY <2>4, <2>5, <2>6, <2>7, <2>8 DEF Safe
<1>5. CASE Terminate("comm")
  <2>1. /\ place = "Terminate" /\ Use("comm", {Home(doomed)})
        /\ pc' = [pc EXCEPT !["comm"] =
                    IF m_eState[doomed] \in {"eRUNNING", "eZOMBIE"} THEN "Join" ELSE "~PThread"]
        /\ missed' = IF m_eState[doomed] = "eREADY" /\ pc[doomed] # "none"
                     THEN missed \cup {doomed} ELSE missed
        /\ UNCHANGED <<obj, m_eState, this, m_CDemuxer, m_CSender, m_queue, recording, joins>>
    BY <1>5 DEF Terminate, At, Goto, pointers, place, doomed
  <2>2. /\ place' = (IF m_eState[doomed] \in {"eRUNNING", "eZOMBIE"} THEN "Join" ELSE "~PThread")
        /\ doomed' = doomed
        /\ \A w \in Workers : pc'[w] = pc[w]
    BY <2>1 DEF LifeTypeOK, FormInv, Threads, place, doomed
  <2>3. doomed \in Workers /\ obj[Home(doomed)] = "live" /\ Home(doomed) \in Objects
    BY <2>1, DoomedLive DEF Destructor, Home, Objects
  <2>4. DamageKnown'
    BY <2>1, <2>3, CommUse DEF Objects
  <2>5. StateInv'
    BY <2>1, <2>2 DEF StateInv, LifeTypeOK
  <2>6. OrderInv'
    BY <2>1, <2>2 DEF OrderInv, Destructor
  <2>7. LiveInv'
    BY <2>1, <2>2 DEF LiveInv
  <2>8. GoneInv'
    <3>. SUFFICES ASSUME NEW w \in Workers
                  PROVE  /\ Behind(w)' => w \in missed' \/ pc[w] \in {"none", "exited"}
                         /\ m_eState[w] = "eTERMINATED" => Behind(w)'
                         /\ doomed' = w /\ place' = "Join" => m_eState[w] \in {"eRUNNING", "eZOMBIE"}
                         /\ doomed' = w /\ place' = "JoinLast" => m_eState[w] = "eZOMBIE"
      BY <2>1, <2>2 DEF GoneInv
    <3>1. CASE doomed # w
      BY <2>1, <2>2, <3>1 DEF GoneInv, Behind
    <3>2. CASE doomed = w
      <4>1. ~Behind(w) /\ m_eState[w] # "eTERMINATED"
        BY <2>1, <2>3, <3>2 DEF Behind, GoneInv
      <4>2. m_eState[w] \in {"eRUNNING", "eZOMBIE"} \/ m_eState[w] = "eREADY"
        BY <4>1 DEF ThreadStates, LifeTypeOK
      <4>. QED BY <2>1, <2>2, <2>3, <3>2, <4>1, <4>2 DEF Behind, StateInv
    <3>. QED BY <3>1, <3>2
  <2>. QED BY <2>4, <2>5, <2>6, <2>7, <2>8 DEF Safe
<1>6. ASSUME NEW at, NEW next, Join("comm", at, next),
             <<at, next>> \in {<<"Join", "~PThread">>, <<"JoinLast", "free">>}
      PROVE  Safe'
  <2>1. /\ place = at /\ Use("comm", {Home(doomed)}) /\ doomed \in Workers
        /\ pc' = [pc EXCEPT !["comm"] = next] /\ pc[doomed] = "exited"
        /\ m_eState' = [m_eState EXCEPT ![doomed] = "eTERMINATED"]
        /\ joins' = [joins EXCEPT ![doomed] = @ + 1]
        /\ UNCHANGED <<obj, this, m_CDemuxer, m_CSender, m_queue, recording, missed>>
    BY <1>6 DEF Join, At, Goto, pointers, place, doomed, LifeTypeOK, Threads
  <2>2. /\ place' = next /\ doomed' = doomed
        /\ \A w \in Workers : pc'[w] = pc[w]
    BY <2>1 DEF LifeTypeOK, FormInv, Threads, place, doomed
  <2>3. obj[Home(doomed)] = "live" /\ Home(doomed) \in Objects
    BY <1>6, <2>1, DoomedLive DEF Destructor, Home, Objects
  <2>4. DamageKnown'
    BY <2>1, <2>3, CommUse DEF Objects
  <2>5. StateInv'
    <3>1. m_eState[doomed] # "eTERMINATED"
      BY <1>6, <2>1 DEF GoneInv
    <3>2. joins'[doomed] = 1 /\ \A w \in Workers : w # doomed => joins'[w] = joins[w]
      BY <2>1, <3>1 DEF StateInv, LifeTypeOK
    <3>. QED BY <2>1, <2>2, <3>2 DEF StateInv, LifeTypeOK
  <2>6. OrderInv'
    BY <1>6, <2>1, <2>2 DEF OrderInv, Destructor
  <2>7. LiveInv'
    BY <1>6, <2>1, <2>2 DEF LiveInv
  <2>8. GoneInv'
    BY <1>6, <2>1, <2>2 DEF GoneInv, Behind
  <2>. QED BY <2>4, <2>5, <2>6, <2>7, <2>8 DEF Safe
<1>7. CASE PThreadExit("comm")
  <2>1. /\ place = "~PThread" /\ Use("comm", {Home(doomed)})
        /\ pc' = [pc EXCEPT !["comm"] = IF m_eState[doomed] = "eZOMBIE" THEN "JoinLast" ELSE "free"]
        /\ UNCHANGED <<obj, m_eState, this, m_CDemuxer, m_CSender, m_queue, recording, missed, joins>>
    BY <1>7 DEF PThreadExit, At, Goto, pointers, place, doomed
  <2>2. /\ place' = (IF m_eState[doomed] = "eZOMBIE" THEN "JoinLast" ELSE "free")
        /\ doomed' = doomed
        /\ \A w \in Workers : pc'[w] = pc[w]
    BY <2>1 DEF LifeTypeOK, FormInv, Threads, place, doomed
  <2>3. doomed \in Workers /\ obj[Home(doomed)] = "live" /\ Home(doomed) \in Objects
    BY <2>1, DoomedLive DEF Destructor, Home, Objects
  <2>4. DamageKnown'
    BY <2>1, <2>3, CommUse DEF Objects
  <2>5. StateInv'
    BY <2>1, <2>2 DEF StateInv, LifeTypeOK
  <2>6. OrderInv'
    BY <2>1, <2>2 DEF OrderInv, Destructor
  <2>7. LiveInv'
    BY <2>1, <2>2 DEF LiveInv
  <2>8. GoneInv'
    BY <2>1, <2>2 DEF GoneInv, Behind
  <2>. QED BY <2>4, <2>5, <2>6, <2>7, <2>8 DEF Safe
<1>8. CASE Free("comm")
  <2>1. /\ place = "free" /\ Use("comm", {Home(doomed)})
        /\ pc' = [pc EXCEPT !["comm"] = IF doomed = "send" THEN "Terminate" ELSE "idle"]
        /\ this' = [this EXCEPT !["comm"] = "demux"]
        /\ obj' = [obj EXCEPT ![Home(doomed)] = "deleted"]
        /\ m_CSender' = (m_CSender /\ doomed # "send")
        /\ m_CDemuxer' = (m_CDemuxer /\ ~(doomed = "demux"))
        /\ UNCHANGED <<m_eState, m_queue, recording, missed, joins>>
    BY <1>8 DEF Free, At, Goto, pointers, place, doomed
  <2>2. /\ place' = (IF doomed = "send" THEN "Terminate" ELSE "idle")
        /\ doomed' = "demux"
        /\ \A w \in Workers : pc'[w] = pc[w]
    BY <2>1 DEF LifeTypeOK, FormInv, Threads, place, doomed
  <2>3. doomed \in Workers /\ obj[Home(doomed)] = "live" /\ Home(doomed) \in Objects
    BY <2>1, DoomedLive DEF Destructor, Home, Objects
  <2>4. /\ obj'[Home(doomed)] = "deleted" /\ obj'["queue"] = obj["queue"]
        /\ \A w \in Workers : w # doomed => obj'[Home(w)] = obj[Home(w)]
    BY <2>1, <2>3 DEF Home, LifeTypeOK, Objects
  <2>5. DamageKnown'
    BY <2>1, <2>3, CommUse DEF Objects
  <2>6. StateInv'
    BY <2>1, <2>2 DEF StateInv, LifeTypeOK
  <2>7. OrderInv'
    BY <2>1, <2>2, <2>3 DEF OrderInv, Destructor
  <2>8. LiveInv'
    <3>1. m_CDemuxer' => obj'["demuxer"] = "live"
      BY <2>1, <2>3, <2>4 DEF LiveInv, Home
    <3>2. m_CSender' => obj'["sender"] = "live"
      BY <2>1, <2>3, <2>4 DEF LiveInv, Home
    <3>3. m_queue' => obj'["queue"] = "live"
      BY <2>1, <2>4 DEF LiveInv
    <3>4. \A w \in Workers : pc'[w] \notin {"none", "exited"} => obj'[Home(w)] # "none"
      BY <2>2, <2>4 DEF LiveInv
    <3>. QED BY <3>1, <3>2, <3>3, <3>4 DEF LiveInv
  <2>9. GoneInv'
    BY <2>1, <2>2, <2>3, <2>4 DEF GoneInv, Behind
  <2>. QED BY <2>5, <2>6, <2>7, <2>8, <2>9 DEF Safe
<1>. QED BY <1>1, <1>2, <1>3, <1>4, <1>5, <1>6, <1>7, <1>8 DEF Destroy

(* A channel without a recording has no more than its types; the others are  *)
(* taken apart by the command thread alone.                                  *)
LEMMA LifeStep ==
  ASSUME ChannelInv, [LifeNext]_lifeVars
  PROVE  ChannelInv'
<1>1. LifeTypeOK' /\ FormInv'
  BY LifeTypeStep DEF ChannelInv
<1>2. ASSUME recording' PROVE Safe'
  <2>1. CASE PlayStart
    BY <2>1, StartSteps
  <2>2. CASE PlayCommand \/ PlayClose \/ StartSender \/ SetQueue \/ StartDemuxer
    <3>1. recording' = recording
      BY <2>2 DEF PlayCommand, PlayClose, StartSender, SetQueue, StartDemuxer
    <3>. QED BY <1>2, <2>2, <3>1, CommandSteps
  <2>3. ASSUME NEW t \in Threads, Destroy(t) PROVE recording' = recording
    BY <2>3 DEF Destroy, DemuxerExit, SenderExit, DeleteQueue, ClearQueue, Terminate, Join,
                PThreadExit, Free
  <2>4. CASE Destroy("comm")
    BY <1>2, <2>3, <2>4, DestroySafe DEF Threads
  <2>5. CASE DemuxStep \/ SendStep
    <3>1. LifeTypeOK
      BY DEF ChannelInv
    <3>2. CASE Destroy("demux")
      <4>1. recording
        BY <1>2, <2>3, <3>2 DEF Threads, Workers
      <4>2. pc["demux"] \in Destructor
        BY <3>2 DEF Destroy, DemuxerExit, SenderExit, DeleteQueue, ClearQueue, Terminate, Join,
                    PThreadExit, Free, At, Destructor
      <4>. QED BY <4>1, <4>2 DEF ChannelInv, OrderInv
    <3>3. ASSUME NEW w \in Workers, Inner(w) \/ SetRunning(w) \/ SetZombie(w)
          PROVE  Safe'
      <4>1. recording' = recording
        BY <3>3 DEF Inner, Step, SetRunning, SetZombie
      <4>. QED BY <1>2, <3>3, <4>1, WorkerSafe
    <3>. QED BY <2>5, <3>1, <3>2, <3>3, WorkerSteps
  <2>6. CASE UNCHANGED lifeVars
    <3>1. /\ UNCHANGED <<obj, m_eState, pc, this, m_CDemuxer, m_CSender, m_queue>>
          /\ UNCHANGED <<recording, missed, joins, damage>>
      BY <2>6 DEF lifeVars, pointers, history
    <3>2. place' = place /\ doomed' = doomed
      BY <3>1 DEF place, doomed
    <3>3. StateInv /\ OrderInv /\ LiveInv /\ GoneInv /\ DamageKnown
      BY <1>2, <3>1 DEF ChannelInv
    <3>4. StateInv' /\ OrderInv'
      BY <3>1, <3>2, <3>3 DEF StateInv, OrderInv
    <3>5. LiveInv' /\ GoneInv' /\ DamageKnown'
      BY <3>1, <3>2, <3>3 DEF LiveInv, GoneInv, Behind, DamageKnown
    <3>. QED BY <3>4, <3>5 DEF Safe
  <2>. QED BY <2>1, <2>2, <2>4, <2>5, <2>6 DEF LifeNext, Command, CommStep, Dead
<1>. QED BY <1>1, <1>2 DEF ChannelInv, Safe

(* ChannelInv is an invariant of every channel.                             *)
THEOREM ChannelInvariance == LifeSpec => []ChannelInv
<1>1. ChannelInv /\ [LifeNext]_lifeVars => ChannelInv'
  BY LifeStep
<1>. QED BY InitChannelInv, <1>1, PTL DEF LifeSpec

(* A worker's object is freed only when its thread is gone or was missed, no *)
(* thread is joined twice, and nothing but the queue and the sender is used  *)
(* after its deletion (~CDemuxer, ~CSender, PThread::Terminate, ~PThread).   *)
THEOREM ChannelTakenApart == LifeSpec => []TakenApart
<1>1. ChannelInv => TakenApart
  <2>. SUFFICES ASSUME ChannelInv PROVE TakenApart
    OBVIOUS
  <2>1. LifeTypeOK
    BY DEF ChannelInv
  <2>2. JoinedBeforeFree
    BY DEF ChannelInv, GoneInv, Behind, JoinedBeforeFree
  <2>3. JoinedOnce
    <3>1. recording => \A w \in Workers : joins[w] = 0 \/ joins[w] = 1
      BY DEF ChannelInv, StateInv
    <3>2. 0 <= 1 /\ 1 <= 1
      OBVIOUS
    <3>. QED BY <3>1, <3>2, Zenon DEF JoinedOnce
  <2>4. DamageKnown
    BY DEF ChannelInv, DamageKnown
  <2>. QED BY <2>1, <2>2, <2>3, <2>4 DEF TakenApart
<1>. QED BY ChannelInvariance, <1>1, PTL
-----------------------------------------------------------------------------
(* The blocks of the audio ring. *)

\* How many slots s is after r, with the wrap.
Ahead(r, s) == IF r <= s THEN s - r ELSE s + MaxAudio - r

\* The number of the block at the read position: in "return" it is sent already.
FirstBlock == IF s_pc = "return" THEN taken ELSE taken + 1

ThreadInv ==
    /\ m_mutex = "sender" <=> s_pc = "free"
    /\ d_pc \in {"new", "store"} => m_nAudio < MaxAudio /\ puts < MaxPuts
    /\ s_pc \in {"find", "send", "return"} => s_slot = m_nReadAudioPos /\ full[s_slot]
    /\ s_pc = "free" => m_nReadAudioPos = After(s_slot) /\ m_nAudio < MaxAudio
    /\ d_pc = "cleared" => s_pc = "over"

PlaceInv ==
    d_pc # "cleared" =>
        /\ \A s \in Slots : full[s] <=> Ahead(m_nReadAudioPos, s) < m_nAudio
        /\ m_nAudio = MaxAudio => m_nWriteAudioPos = m_nReadAudioPos
        /\ m_nAudio < MaxAudio => Ahead(m_nReadAudioPos, m_nWriteAudioPos) = m_nAudio

\* A block in a slot that is not full: PutAudio is storing it, or RetAudio is
\* about to free it.
InHand(s) == \/ d_pc = "store" /\ s = m_nWriteAudioPos
             \/ s_pc = "free" /\ s = s_slot

BlockInv ==
    /\ inOrder
    /\ d_pc # "cleared" =>
        /\ puts = FirstBlock - 1 + m_nAudio
        /\ \A s \in Slots : full[s] => /\ memory[s] = "live"
                                       /\ data[s] = FirstBlock + Ahead(m_nReadAudioPos, s)
        /\ \A s \in Slots : memory[s] = "live" => full[s] \/ InHand(s)
        /\ d_pc = "store" => /\ memory[m_nWriteAudioPos] = "live"
                             /\ ~(s_pc = "free" /\ s_slot = m_nWriteAudioPos)
    /\ d_pc = "cleared" => \A s \in Slots : memory[s] # "live"

MemoryInv == /\ leaked => raced
             /\ raced \/ BlockInv

IInv == TypeOK /\ ThreadInv /\ PlaceInv /\ MemoryInv
-----------------------------------------------------------------------------
(* The positions. *)

(* The two positions move to a slot.                                        *)
LEMMA AfterType ==
  ASSUME NEW p \in Slots
  PROVE  After(p) \in Slots
BY AudioAssumption DEF Slots, After

(* A slot is less than one turn of the ring after another.                  *)
LEMMA AheadType ==
  ASSUME NEW r \in Slots, NEW s \in Slots
  PROVE  Ahead(r, s) \in 0 .. MaxAudio - 1
BY AudioAssumption DEF Slots, Ahead

(* Counting from a slot tells the slots apart.                              *)
LEMMA AheadInjective ==
  ASSUME NEW r \in Slots, NEW s \in Slots, NEW t \in Slots
  PROVE  /\ Ahead(r, s) = Ahead(r, t) <=> s = t
         /\ Ahead(r, r) = 0
BY AudioAssumption DEF Slots, Ahead

(* Moving the read position makes every slot one nearer, and its own slot   *)
(* the last one.                                                            *)
LEMMA AheadOfNext ==
  ASSUME NEW r \in Slots, NEW s \in Slots
  PROVE  Ahead(After(r), s) = IF s = r THEN MaxAudio - 1 ELSE Ahead(r, s) - 1
BY AudioAssumption DEF Slots, After, Ahead

(* Moving the write position takes it one further, or round to the read     *)
(* position.                                                                *)
LEMMA AheadNext ==
  ASSUME NEW r \in Slots, NEW s \in Slots
  PROVE  IF Ahead(r, s) = MaxAudio - 1 THEN After(s) = r
                                      ELSE Ahead(r, After(s)) = Ahead(r, s) + 1
BY AudioAssumption DEF Slots, After, Ahead

(* The distance is the one the property counts with.                        *)
LEMMA AheadIsModulo ==
  ASSUME NEW r \in Slots, NEW s \in Slots
  PROVE  (s + MaxAudio - r) % MaxAudio = Ahead(r, s)
BY AudioAssumption DEF Slots, Ahead
-----------------------------------------------------------------------------
(* The constructor of CQueue establishes the invariant.                     *)
LEMMA InitIInv == Init => IInv
<1>. SUFFICES ASSUME Init PROVE IInv
  OBVIOUS
<1>. USE AudioAssumption
<1>1. TypeOK
  <2>1. /\ full \in [Slots -> BOOLEAN] /\ m_bEnable \in BOOLEAN
        /\ inOrder \in BOOLEAN /\ leaked \in BOOLEAN /\ raced \in BOOLEAN
    BY DEF Init
  <2>. QED BY <2>1 DEF Init, TypeOK, Slots
<1>2. ThreadInv
  BY DEF Init, ThreadInv
<1>3. PlaceInv
  BY DEF Init, PlaceInv, Ahead, Slots
<1>4. MemoryInv
  BY DEF Init, MemoryInv, BlockInv, FirstBlock
<1>. QED BY <1>1, <1>2, <1>3, <1>4 DEF IInv

(* Types: the counters stay in range because PutAudio has tested the fill   *)
(* level before it stores, and RetAudio returns a slot that is full.        *)
LEMMA TypeStep ==
  ASSUME IInv, [Next]_vars
  PROVE  TypeOK'
<1>. USE AudioAssumption DEF IInv
<1>1. CASE PutTest
  BY <1>1 DEF PutTest, TypeOK, ring, sent
<1>2. CASE PutNew
  BY <1>2 DEF PutNew, TypeOK, ring, sent
<1>3. CASE PutStore
  <2>1. (full \in [Slots -> BOOLEAN])'
    BY <1>3 DEF PutStore, TypeOK, ring
  <2>2. (data \in [Slots -> 0 .. MaxPuts])'
    BY <1>3 DEF PutStore, TypeOK, ThreadInv, ring
  <2>3. (m_bEnable \in BOOLEAN /\ inOrder \in BOOLEAN /\ leaked \in BOOLEAN /\ raced \in BOOLEAN)'
    BY <1>3 DEF PutStore, TypeOK, sent
  <2>4. (m_nWriteAudioPos \in Slots)'
    BY <1>3, AfterType DEF PutStore, TypeOK, ring
  <2>. QED BY <1>3, <2>1, <2>2, <2>3, <2>4 DEF PutStore, TypeOK, ThreadInv, ring, sent
<1>4. CASE Enable
  BY <1>4 DEF Enable, TypeOK, ring, sent
<1>5. CASE GetTest
  BY <1>5 DEF GetTest, TypeOK, ring, sent
<1>6. CASE GetFind
  BY <1>6 DEF GetFind, TypeOK, ring, sent
<1>7. CASE Send
  BY <1>7 DEF Send, TypeOK, ring, sent
<1>8. CASE RetRelease
  <2>1. (full \in [Slots -> BOOLEAN])'
    BY <1>8 DEF RetRelease, TypeOK
  <2>2. m_nAudio > 0
    <3>1. full[m_nReadAudioPos] /\ d_pc # "cleared" /\ m_nReadAudioPos \in Slots
      BY <1>8 DEF RetRelease, ThreadInv, TypeOK
    <3>2. 0 < m_nAudio
      BY <3>1, AheadInjective DEF PlaceInv
    <3>. QED BY <3>2
  <2>3. (m_nReadAudioPos \in Slots)'
    BY <1>8, AfterType DEF RetRelease, TypeOK
  <2>4. (m_bEnable \in BOOLEAN /\ inOrder \in BOOLEAN /\ leaked \in BOOLEAN /\ raced \in BOOLEAN)'
    BY <1>8 DEF RetRelease, TypeOK, sent
  <2>. QED BY <1>8, <2>1, <2>2, <2>3, <2>4 DEF RetRelease, TypeOK, sent
<1>9. CASE RetFree
  BY <1>9 DEF RetFree, TypeOK, ring, sent
<1>10. CASE Leave
  BY <1>10 DEF Leave, TypeOK, ring, sent
<1>11. CASE Clear
  <2>1. (full \in [Slots -> BOOLEAN])' /\ (0 \in Slots)
    BY <1>11 DEF Clear, Slots
  <2>2. (memory \in [Slots -> {"null", "live", "freed"}])'
    BY <1>11 DEF Clear, TypeOK
  <2>3. (m_bEnable \in BOOLEAN /\ inOrder \in BOOLEAN /\ leaked \in BOOLEAN /\ raced \in BOOLEAN)'
    BY <1>11 DEF Clear, TypeOK, sent
  <2>. QED BY <1>11, <2>1, <2>2, <2>3 DEF Clear, TypeOK, sent, Slots
<1>12. CASE Cleared
  BY <1>12 DEF Cleared, vars, TypeOK, ring, sent
<1>13. CASE UNCHANGED vars
  BY <1>13 DEF vars, TypeOK, ring, sent
<1>. QED BY <1>1, <1>2, <1>3, <1>4, <1>5, <1>6, <1>7, <1>8, <1>9,
            <1>10, <1>11, <1>12, <1>13 DEF Next

(* What each thread knows at its place: the demuxer alone raises the fill   *)
(* level, and the sender alone empties a slot and moves the read position.  *)
LEMMA ThreadStep ==
  ASSUME IInv, [Next]_vars
  PROVE  ThreadInv'
<1>. USE AudioAssumption DEF IInv
<1>1. CASE PutTest
  BY <1>1 DEF PutTest, ThreadInv, TypeOK, ring, sent
<1>2. CASE PutNew
  BY <1>2 DEF PutNew, ThreadInv, TypeOK, ring, sent
<1>3. CASE PutStore
  BY <1>3 DEF PutStore, ThreadInv, TypeOK, ring, sent
<1>4. CASE Enable
  BY <1>4 DEF Enable, ThreadInv, TypeOK, ring, sent
<1>5. CASE GetTest
  BY <1>5 DEF GetTest, ThreadInv, TypeOK, ring, sent
<1>6. CASE GetFind
  BY <1>6 DEF GetFind, ThreadInv, TypeOK, ring, sent
<1>7. CASE Send
  BY <1>7 DEF Send, ThreadInv, TypeOK, ring, sent
<1>8. CASE RetRelease
  <2>1. m_nAudio' < MaxAudio
    BY <1>8 DEF RetRelease, TypeOK
  <2>. QED BY <1>8, <2>1 DEF RetRelease, ThreadInv, TypeOK, sent
<1>9. CASE RetFree
  BY <1>9 DEF RetFree, ThreadInv, TypeOK, ring, sent
<1>10. CASE Leave
  BY <1>10 DEF Leave, ThreadInv, TypeOK, ring, sent
<1>11. CASE Clear
  BY <1>11 DEF Clear, ThreadInv, TypeOK, ring, sent
<1>12. CASE Cleared
  BY <1>12 DEF Cleared, vars, ThreadInv, TypeOK, ring, sent
<1>13. CASE UNCHANGED vars
  BY <1>13 DEF vars, ThreadInv, TypeOK, ring, sent
<1>. QED BY <1>1, <1>2, <1>3, <1>4, <1>5, <1>6, <1>7, <1>8, <1>9,
            <1>10, <1>11, <1>12, <1>13 DEF Next

(* The positions and the full slots. PutStore fills the slot after the last *)
(* full one, RetRelease empties the first; the other steps leave them.      *)
LEMMA PlaceStep ==
  ASSUME IInv, [Next]_vars
  PROVE  PlaceInv'
<1>. USE AudioAssumption DEF IInv
<1>1. CASE PutTest
  BY <1>1 DEF PutTest, PlaceInv, TypeOK, ring
<1>2. CASE PutNew
  BY <1>2 DEF PutNew, PlaceInv, TypeOK, ring
<1>3. CASE PutStore
  <2>. DEFINE r == m_nReadAudioPos
              w == m_nWriteAudioPos
  <2>1. /\ r \in Slots /\ w \in Slots /\ m_nAudio \in 0 .. MaxAudio - 1
        /\ Ahead(r, w) = m_nAudio
        /\ \A s \in Slots : full[s] <=> Ahead(r, s) < m_nAudio
    BY <1>3 DEF PutStore, ThreadInv, PlaceInv, TypeOK
  <2>2. ~full[w]
    BY <2>1
  <2>3. /\ r' = r /\ w' = After(w) /\ m_nAudio' = m_nAudio + 1
        /\ full' = [full EXCEPT ![w] = TRUE]
    BY <1>3, <2>2 DEF PutStore
  <2>4. ASSUME NEW s \in Slots
        PROVE  full'[s] <=> Ahead(r, s) < m_nAudio + 1
    <3>1. Ahead(r, s) = m_nAudio <=> s = w
      BY <2>1, AheadInjective
    <3>2. Ahead(r, s) \in Nat
      BY <2>1, AheadType
    <3>3. full'[s] <=> (s = w \/ full[s])
      BY <2>3 DEF TypeOK
    <3>. QED BY <2>1, <3>1, <3>2, <3>3
  <2>5. IF m_nAudio = MaxAudio - 1 THEN After(w) = r ELSE Ahead(r, After(w)) = m_nAudio + 1
    BY <2>1, AheadNext
  <2>. HIDE DEF r, w
  <2>. QED BY <2>1, <2>3, <2>4, <2>5 DEF PlaceInv, r, w
<1>4. CASE Enable
  BY <1>4 DEF Enable, PlaceInv, TypeOK, ring
<1>5. CASE GetTest
  BY <1>5 DEF GetTest, PlaceInv, TypeOK, ring
<1>6. CASE GetFind
  BY <1>6 DEF GetFind, PlaceInv, TypeOK, ring
<1>7. CASE Send
  BY <1>7 DEF Send, PlaceInv, TypeOK, ring
<1>8. CASE RetRelease
  <2>. DEFINE r == m_nReadAudioPos
              w == m_nWriteAudioPos
  <2>1. /\ r \in Slots /\ w \in Slots /\ m_nAudio \in 0 .. MaxAudio
        /\ s_slot = r /\ full[r]
        /\ \A s \in Slots : full[s] <=> Ahead(r, s) < m_nAudio
        /\ m_nAudio = MaxAudio => w = r
        /\ m_nAudio < MaxAudio => Ahead(r, w) = m_nAudio
    BY <1>8 DEF RetRelease, ThreadInv, PlaceInv, TypeOK
  <2>2. /\ r' = After(r) /\ w' = w /\ m_nAudio' = m_nAudio - 1
        /\ full' = [full EXCEPT ![r] = FALSE]
    BY <1>8, <2>1 DEF RetRelease
  <2>3. m_nAudio > 0
    BY <2>1, AheadInjective
  <2>4. ASSUME NEW s \in Slots
        PROVE  full'[s] <=> Ahead(After(r), s) < m_nAudio - 1
    <3>1. CASE s = r
      <4>1. ~full'[s]
        BY <2>2, <3>1 DEF TypeOK
      <4>2. Ahead(After(r), s) = MaxAudio - 1
        BY <2>1, <3>1, AheadOfNext
      <4>. QED BY <2>1, <4>1, <4>2
    <3>2. CASE s # r
      <4>1. full'[s] <=> full[s]
        BY <2>2, <3>2 DEF TypeOK
      <4>2. Ahead(After(r), s) = Ahead(r, s) - 1
        BY <2>1, <3>2, AheadOfNext
      <4>3. Ahead(r, s) \in Nat
        BY <2>1, AheadType
      <4>. QED BY <2>1, <4>1, <4>2, <4>3
    <3>. QED BY <3>1, <3>2
  <2>5. Ahead(After(r), w) = m_nAudio - 1
    <3>1. CASE m_nAudio = MaxAudio
      BY <2>1, <3>1, AheadOfNext
    <3>2. CASE m_nAudio < MaxAudio
      <4>1. w # r
        BY <2>1, <2>3, <3>2, AheadInjective
      <4>. QED BY <2>1, <3>2, <4>1, AheadOfNext
    <3>. QED BY <2>1, <3>1, <3>2
  <2>. HIDE DEF r, w
  <2>. QED BY <2>1, <2>2, <2>4, <2>5 DEF PlaceInv, r, w
<1>9. CASE RetFree
  BY <1>9 DEF RetFree, PlaceInv, TypeOK, ring
<1>10. CASE Leave
  BY <1>10 DEF Leave, PlaceInv, TypeOK, ring
<1>11. CASE Clear
  BY <1>11 DEF Clear, PlaceInv
<1>12. CASE Cleared
  BY <1>12 DEF Cleared, vars, PlaceInv, TypeOK, ring
<1>13. CASE UNCHANGED vars
  BY <1>13 DEF vars, PlaceInv, TypeOK, ring
<1>. QED BY <1>1, <1>2, <1>3, <1>4, <1>5, <1>6, <1>7, <1>8, <1>9,
            <1>10, <1>11, <1>12, <1>13 DEF Next

(* The memory, until PutAudio races RetAudio. PutNew is the step that may   *)
(* race or leak: the slot it writes is not full, so a block still there is  *)
(* the one RetAudio has in hand.                                            *)
LEMMA MemoryStep ==
  ASSUME IInv, [Next]_vars
  PROVE  MemoryInv'
<1>. USE AudioAssumption DEF IInv
<1>0. raced => raced'
  BY DEF Next, vars, PutTest, PutNew, PutStore, Enable, GetTest, GetFind, Send, RetRelease,
     RetFree, Leave, Clear, Cleared
<1>r. CASE raced
  BY <1>0, <1>r DEF MemoryInv
<1>. SUFFICES ASSUME ~raced PROVE MemoryInv'
  BY <1>r
<1>b. BlockInv /\ ~leaked
  BY DEF MemoryInv
<1>1. CASE PutTest
  BY <1>1, <1>b DEF PutTest, MemoryInv, BlockInv, InHand, FirstBlock, ThreadInv, TypeOK, ring,
       sent
<1>2. CASE PutNew
  <2>. DEFINE w == m_nWriteAudioPos
  <2>1. /\ w \in Slots /\ ~full[w] /\ d_pc = "new"
    BY <1>2 DEF PutNew, ThreadInv, PlaceInv, TypeOK
  <2>2. CASE s_pc = "free" /\ s_slot = w
    BY <1>2, <2>2 DEF PutNew, MemoryInv
  <2>3. CASE ~(s_pc = "free" /\ s_slot = w)
    <3>1. memory[w] # "live"
      BY <1>b, <2>1, <2>3 DEF BlockInv, InHand
    <3>2. ~leaked'
      BY <1>2, <1>b, <3>1 DEF PutNew
    <3>3. BlockInv'
      BY <1>2, <1>b, <2>1, <2>3 DEF PutNew, BlockInv, InHand, FirstBlock, TypeOK, sent
    <3>. QED BY <3>2, <3>3 DEF MemoryInv
  <2>. QED BY <2>2, <2>3
<1>3. CASE PutStore
  <2>. DEFINE r == m_nReadAudioPos
              w == m_nWriteAudioPos
  <2>1. /\ r \in Slots /\ w \in Slots /\ m_nAudio \in 0 .. MaxAudio - 1
        /\ Ahead(r, w) = m_nAudio /\ ~full[w] /\ d_pc = "store" /\ memory[w] = "live"
        /\ s_pc # "free"
    BY <1>3, <1>b DEF PutStore, ThreadInv, PlaceInv, BlockInv, TypeOK
  <2>2. /\ puts' = puts + 1
        /\ data' = [data EXCEPT ![w] = puts + 1]
        /\ full' = [full EXCEPT ![w] = TRUE]
        /\ r' = r /\ m_nAudio' = m_nAudio + 1 /\ d_pc' = "test"
        /\ UNCHANGED <<memory, s_pc, s_slot, taken, inOrder, leaked>>
    BY <1>3, <2>1 DEF PutStore, sent
  <2>3. puts = FirstBlock - 1 + m_nAudio /\ FirstBlock' = FirstBlock /\ FirstBlock \in Nat
    BY <1>b, <2>1, <2>2 DEF BlockInv, FirstBlock, TypeOK
  <2>4. ASSUME NEW s \in Slots, full'[s]
        PROVE  memory[s] = "live" /\ data'[s] = FirstBlock + Ahead(r, s)
    <3>1. CASE s = w
      BY <2>1, <2>2, <2>3, <3>1 DEF TypeOK
    <3>2. CASE s # w
      BY <1>b, <2>1, <2>2, <2>4, <3>2 DEF BlockInv, TypeOK
    <3>. QED BY <3>1, <3>2
  <2>5. ASSUME NEW s \in Slots, memory[s] = "live"
        PROVE  full'[s]
    BY <1>b, <2>1, <2>2, <2>5 DEF BlockInv, InHand, TypeOK
  <2>6. puts' = FirstBlock' - 1 + m_nAudio'
    BY <2>1, <2>2, <2>3 DEF TypeOK
  <2>. QED BY <1>b, <2>2, <2>3, <2>4, <2>5, <2>6 DEF MemoryInv, BlockInv
<1>4. CASE Enable
  BY <1>4, <1>b DEF Enable, MemoryInv, BlockInv, InHand, FirstBlock, ThreadInv, TypeOK, ring,
       sent
<1>5. CASE GetTest
  BY <1>5, <1>b DEF GetTest, MemoryInv, BlockInv, InHand, FirstBlock, ThreadInv, TypeOK, ring,
       sent
<1>6. CASE GetFind
  BY <1>6, <1>b DEF GetFind, MemoryInv, BlockInv, InHand, FirstBlock, ThreadInv, TypeOK, ring,
       sent
<1>7. CASE Send
  <2>1. /\ m_nReadAudioPos \in Slots /\ s_slot = m_nReadAudioPos /\ full[m_nReadAudioPos]
        /\ d_pc # "cleared" /\ s_pc = "send"
    BY <1>7 DEF Send, ThreadInv, TypeOK
  <2>2. m_nAudio > 0
    BY <2>1, AheadInjective DEF PlaceInv
  <2>3. FirstBlock = taken + 1 /\ puts = taken + m_nAudio
    BY <1>b, <2>1 DEF BlockInv, FirstBlock, TypeOK
  <2>4. taken' = taken + 1 /\ FirstBlock' = FirstBlock
    BY <1>7, <2>2, <2>3 DEF Send, FirstBlock, TypeOK
  <2>5. inOrder'
    BY <1>7, <1>b, <2>1, <2>3, AheadInjective DEF Send, BlockInv, TypeOK
  <2>. QED BY <1>7, <1>b, <2>1, <2>4, <2>5 DEF Send, MemoryInv, BlockInv, InHand, ring
<1>8. CASE RetRelease
  <2>. DEFINE r == m_nReadAudioPos
  <2>1. /\ r \in Slots /\ s_slot = r /\ full[r] /\ d_pc # "cleared" /\ s_pc = "return"
        /\ m_nAudio \in Nat
    BY <1>8 DEF RetRelease, ThreadInv, TypeOK
  <2>2. /\ r' = After(r) /\ m_nAudio' = m_nAudio - 1 /\ s_pc' = "free"
        /\ full' = [full EXCEPT ![r] = FALSE]
        /\ UNCHANGED <<memory, data, m_nWriteAudioPos, d_pc, s_slot, puts, taken, inOrder,
                       leaked>>
    BY <1>8, <2>1 DEF RetRelease, sent
  <2>3. FirstBlock' = FirstBlock + 1 /\ FirstBlock \in Nat
    BY <2>1, <2>2 DEF FirstBlock, TypeOK
  <2>4. puts' = FirstBlock' - 1 + m_nAudio'
    BY <1>b, <2>1, <2>2, <2>3 DEF BlockInv
  <2>5. ASSUME NEW s \in Slots, full'[s]
        PROVE  memory[s] = "live" /\ data[s] = FirstBlock' + Ahead(r', s)
    <3>1. s # r /\ full[s]
      BY <2>1, <2>2, <2>5 DEF TypeOK
    <3>2. Ahead(r', s) = Ahead(r, s) - 1 /\ Ahead(r, s) \in Nat
      BY <2>1, <2>2, <3>1, AheadOfNext, AheadType
    <3>. QED BY <1>b, <2>1, <2>3, <3>1, <3>2 DEF BlockInv
  <2>6. ASSUME NEW s \in Slots, memory[s] = "live"
        PROVE  full'[s] \/ InHand(s)'
    BY <1>b, <2>1, <2>2, <2>6 DEF BlockInv, InHand, TypeOK
  <2>7. d_pc = "store" => memory[m_nWriteAudioPos] = "live" /\ r # m_nWriteAudioPos
    <3>1. d_pc = "store" => ~full[m_nWriteAudioPos]
      BY <2>1 DEF ThreadInv, PlaceInv, TypeOK
    <3>. QED BY <1>b, <2>1, <3>1 DEF BlockInv
  <2>. HIDE DEF r
  <2>. QED BY <1>b, <2>1, <2>2, <2>4, <2>5, <2>6, <2>7 DEF MemoryInv, BlockInv, r
<1>9. CASE RetFree
  <2>1. s_slot \in Slots /\ ~full[s_slot] /\ s_pc = "free" /\ d_pc # "cleared"
    <3>1. /\ s_slot \in Slots /\ m_nAudio < MaxAudio /\ d_pc # "cleared"
          /\ m_nReadAudioPos = After(s_slot) /\ s_pc = "free"
      BY <1>9 DEF RetFree, ThreadInv, TypeOK
    <3>2. Ahead(m_nReadAudioPos, s_slot) = MaxAudio - 1
      BY <3>1, AheadOfNext
    <3>. QED BY <3>1, <3>2 DEF PlaceInv, TypeOK
  <2>2. /\ \A s \in Slots : memory'[s] = IF s = s_slot /\ memory[s] # "null" THEN "freed"
                                                                      ELSE memory[s]
        /\ s_pc' = "get" /\ FirstBlock' = FirstBlock
    BY <1>9, <2>1 DEF RetFree, FirstBlock, TypeOK, sent
  <2>. QED BY <1>9, <1>b, <2>1, <2>2 DEF RetFree, MemoryInv, BlockInv, InHand, sent
<1>10. CASE Leave
  <2>1. d_pc # "cleared" /\ d_pc' # "cleared" /\ (d_pc' = "store" <=> d_pc = "store")
    BY <1>10 DEF Leave, ThreadInv
  <2>2. (s_pc' = "free" <=> s_pc = "free") /\ FirstBlock' = FirstBlock
    BY <1>10 DEF Leave, FirstBlock, sent
  <2>3. UNCHANGED <<ring, s_slot, puts, sent, leaked>>
    BY <1>10 DEF Leave
  <2>. QED BY <1>b, <2>1, <2>2, <2>3 DEF MemoryInv, BlockInv, InHand, ring, sent
<1>11. CASE Clear
  <2>1. \A s \in Slots : memory[s] = "live" => full[s]
    BY <1>11, <1>b DEF Clear, BlockInv, InHand
  <2>. QED BY <1>11, <1>b, <2>1 DEF Clear, MemoryInv, BlockInv, sent
<1>12. CASE Cleared
  BY <1>12, <1>b DEF Cleared, vars, MemoryInv, BlockInv, InHand, FirstBlock, ThreadInv, TypeOK,
       ring, sent
<1>13. CASE UNCHANGED vars
  BY <1>13, <1>b DEF vars, MemoryInv, BlockInv, InHand, FirstBlock, ThreadInv, TypeOK, ring,
       sent
<1>. QED BY <1>1, <1>2, <1>3, <1>4, <1>5, <1>6, <1>7, <1>8, <1>9,
            <1>10, <1>11, <1>12, <1>13 DEF Next

(* Every step of either thread preserves the invariant.                     *)
LEMMA NextIInv == IInv /\ [Next]_vars => IInv'
BY TypeStep, ThreadStep, PlaceStep, MemoryStep DEF IInv

(* The inductive invariant holds throughout.                                *)
THEOREM Invariance == Spec => []IInv
<1>. QED BY InitIInv, NextIInv, PTL DEF Spec
-----------------------------------------------------------------------------
(* The books of the audio ring are right, for a ring of any size: the types,*)
(* the fill counter that two threads change counts the full slots from the  *)
(* read position on, and, unless PutAudio has raced RetAudio, no block of   *)
(* memory is overwritten and Clear finds all that are left.                 *)
THEOREM RingBooks == Spec => []RingInv
<1>1. IInv => RingInv
  <2>. SUFFICES ASSUME IInv PROVE RingInv
    OBVIOUS
  <2>1. Counted
    BY AheadIsModulo DEF IInv, TypeOK, PlaceInv, Counted
  <2>2. NoLeak
    BY DEF IInv, MemoryInv, BlockInv, NoLeak
  <2>. QED BY <2>1, <2>2 DEF RingInv, IInv
<1>. QED BY <1>1, Invariance, PTL

(* Blocks are sent in the order they were put, each once and whole, unless  *)
(* PutAudio has allocated for a slot whose memory RetAudio was about to     *)
(* free; the two share the slots without a lock around the memory.          *)
THEOREM SentInOrder == Spec => []InOrder
<1>1. IInv => InOrder
  BY DEF IInv, MemoryInv, BlockInv, InOrder
<1>. QED BY <1>1, Invariance, PTL

(* The race needs a ring in which every other slot is full, whatever its    *)
(* size: the unlocked allocation of PutAudio is for the slot that RetAudio  *)
(* has in hand only then.                                                   *)
THEOREM RaceOnlyWhenFull == Spec => RaceNeedsFullRing
<1>1. ASSUME IInv, [Next]_vars, raced', ~raced
      PROVE  \A s \in Slots \ {s_slot} : full[s]
  <2>1. PutNew /\ s_pc = "free" /\ s_slot = m_nWriteAudioPos
    BY <1>1 DEF Next, vars, PutTest, PutNew, PutStore, Enable, GetTest, GetFind, Send,
       RetRelease, RetFree, Leave, Clear, Cleared
  <2>2. /\ s_slot \in Slots /\ m_nReadAudioPos \in Slots /\ d_pc = "new"
        /\ m_nReadAudioPos = After(s_slot) /\ m_nAudio < MaxAudio
        /\ Ahead(m_nReadAudioPos, s_slot) = m_nAudio
    BY <1>1, <2>1 DEF IInv, ThreadInv, PlaceInv, TypeOK, PutNew
  <2>3. Ahead(m_nReadAudioPos, s_slot) = MaxAudio - 1
    BY <2>2, AheadOfNext
  <2>4. ASSUME NEW s \in Slots \ {s_slot}
        PROVE  full[s]
    <3>1. Ahead(m_nReadAudioPos, s) \in 0 .. MaxAudio - 1
      BY <2>2, AheadType
    <3>2. Ahead(m_nReadAudioPos, s) # MaxAudio - 1
      BY <2>2, <2>3, AheadInjective
    <3>3. Ahead(m_nReadAudioPos, s) < m_nAudio
      BY <2>2, <2>3, <3>1, <3>2, AudioAssumption
    <3>. QED BY <1>1, <2>2, <3>3 DEF IInv, PlaceInv
  <2>. QED BY <2>4
<1>2. IInv /\ [Next]_vars => [raced' /\ ~raced => \A s \in Slots \ {s_slot} : full[s]]_vars
  BY <1>1
<1>. QED BY <1>2, Invariance, PTL DEF Spec, RaceNeedsFullRing
=============================================================================
