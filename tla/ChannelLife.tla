------------------------------ MODULE ChannelLife ------------------------------
(***************************************************************************)
(* The life of one channel: a CDemuxer, its CSender and the CQueue between *)
(* them, from play_start to play_close, with the PThread states            *)
(* (src/misc.cpp) by which their threads are started and joined.           *)
(*                                                                         *)
(* Three threads run here. The command thread of CCommMgr creates and      *)
(* deletes the channel; the demuxer and the sender thread use its objects  *)
(* meanwhile. A destructor is run by the command thread, or by the demuxer *)
(* thread itself when it finds no recording ("delete this"): the two may   *)
(* even run it at the same time.                                           *)
(*                                                                         *)
(* Using a deleted object is undefined. The step is noted in damage, and   *)
(* either the process dies of it or the thread goes on with what the       *)
(* memory last held.                                                       *)
(***************************************************************************)
EXTENDS Naturals

Workers == {"demux", "send"}             \* the two PThread objects
Threads == Workers \cup {"comm"}
Objects == {"demuxer", "sender", "queue"}

(* The object a worker thread runs on. *)
Home(w) == IF w = "demux" THEN "demuxer" ELSE "sender"

VARIABLES
  obj,        \* is each object not made, live or deleted
  m_eState,   \* the THREAD_STATE each PThread object records
  m_bExit,    \* the exit flag of each PThread object
  pc,         \* where each thread is
  this,       \* the worker whose object a thread is destroying
  m_CDemuxer, \* CCommMgr's pointer to the demuxer is not NULL
  m_CSender,  \* the demuxer's pointer to the sender is not NULL
  m_queue,    \* the sender's pointer to the queue is not NULL
  recording,  \* GetChannelFiles finds the target of the channel
  missed,     \* history: workers Terminate found in eREADY, not joined
  joins,      \* history: how often each worker was joined
  damage,     \* history: uses of deleted objects, as <<thread, object>>
  crashed     \* the process died of one

pointers == <<m_CDemuxer, m_CSender, m_queue>>
history  == <<missed, joins, damage, crashed>>
lifeVars == <<obj, m_eState, m_bExit, pc, this, pointers, recording, history>>

(* Where a thread is while it runs a destructor. *)
Destructor == {"~CDemuxer", "~CSender", "delete m_queue", "m_queue = NULL", "Terminate",
               "Join", "~PThread", "JoinLast", "free"}

ThreadStates == {"eREADY", "eRUNNING", "eZOMBIE", "eTERMINATED"}

LifeInit ==
  /\ obj = [o \in Objects |-> "none"]
  /\ m_eState = [w \in Workers |-> "eREADY"]
  /\ m_bExit = [w \in Workers |-> FALSE]
  /\ pc = [t \in Threads |-> IF t = "comm" THEN "idle" ELSE "none"]
  /\ this = [t \in Threads |-> "demux"]
  /\ m_CDemuxer = FALSE /\ m_CSender = FALSE /\ m_queue = FALSE
  /\ recording \in BOOLEAN
  /\ missed = {} /\ joins = [w \in Workers |-> 0] /\ damage = {} /\ crashed = FALSE

-----------------------------------------------------------------------------
(* Thread t uses the objects os. *)
Use(t, os) ==
  LET gone == {o \in os : obj[o] # "live"} IN
  /\ damage' = damage \cup ({t} \X gone)
  /\ IF gone = {} THEN crashed' = crashed ELSE crashed' \in BOOLEAN

At(t, label) == pc[t] = label /\ ~crashed
Goto(t, label) == pc' = [pc EXCEPT ![t] = label]

-----------------------------------------------------------------------------
(* The command thread: play_start, the other commands, play_close.         *)

(* new CDemuxer and CDemuxer::Create up to CSender::Create. A channel that *)
(* bit_state leaves out gets no queue, no sender and no thread. The model  *)
(* starts another channel when the threads of the last one are gone.       *)
PlayStart ==
  /\ At("comm", "idle") /\ ~m_CDemuxer
  /\ \A w \in Workers : pc[w] \in {"none", "exited"}
  /\ m_CDemuxer' = TRUE
  /\ \E used \in BOOLEAN :
       /\ obj' = [o \in Objects |-> IF used \/ o = "demuxer" THEN "live" ELSE "none"]
       /\ m_CSender' = used
       /\ pc' = [t \in Threads |->
                   IF t # "comm" THEN "none" ELSE IF used THEN "startSend" ELSE "idle"]
  /\ m_eState' = [w \in Workers |-> "eREADY"]
  /\ m_bExit' = [w \in Workers |-> FALSE]
  /\ m_queue' = FALSE
  /\ recording' \in BOOLEAN
  /\ missed' = {} /\ joins' = [w \in Workers |-> 0] /\ damage' = {}
  /\ UNCHANGED <<this, crashed>>

(* CSender::SetSocket: whether every call on the socket succeeds, and the *)
(* settings it reads are there. *)
SetSocket == BOOLEAN

(* CSender::Create starts the thread only when SetSocket succeeded. *)
StartSender ==
  /\ At("comm", "startSend")
  /\ \E started \in SetSocket :
       pc' = [pc EXCEPT !["comm"] = "setQueue",
                        !["send"] = IF started THEN "start" ELSE "none"]
  /\ UNCHANGED <<obj, m_eState, m_bExit, this, pointers, recording, history>>

(* CSender::SetQueue, with the sender thread already running. *)
SetQueue ==
  /\ At("comm", "setQueue")
  /\ m_queue' = TRUE
  /\ Goto("comm", "startDemux")
  /\ UNCHANGED <<obj, m_eState, m_bExit, this, m_CDemuxer, m_CSender, recording, history>>

(* CDemuxer::Create ends with Start(). *)
StartDemuxer ==
  /\ At("comm", "startDemux")
  /\ pc' = [pc EXCEPT !["comm"] = "idle", !["demux"] = "start"]
  /\ UNCHANGED <<obj, m_eState, m_bExit, this, pointers, recording, history>>

(* play_pause, play_seek and the others call the demuxer. *)
PlayCommand ==
  /\ At("comm", "idle") /\ m_CDemuxer
  /\ Use("comm", {"demuxer"})
  /\ UNCHANGED <<obj, m_eState, m_bExit, pc, this, pointers, recording, missed, joins>>

PlayClose ==
  /\ At("comm", "idle") /\ m_CDemuxer
  /\ Goto("comm", "~CDemuxer")
  /\ UNCHANGED <<obj, m_eState, m_bExit, this, pointers, recording, history>>

-----------------------------------------------------------------------------
(* The destructors, run by t: ~CDemuxer deletes the sender first, and      *)
(* ~CSender deletes the queue first.                                       *)

DemuxerExit(t) ==
  /\ At(t, "~CDemuxer")
  /\ Use(t, {"demuxer"})
  /\ m_bExit' = [m_bExit EXCEPT !["demux"] = TRUE]
  /\ this' = [this EXCEPT ![t] = IF m_CSender THEN "send" ELSE "demux"]
  /\ Goto(t, IF m_CSender THEN "~CSender" ELSE "Terminate")
  /\ UNCHANGED <<obj, m_eState, pointers, recording, missed, joins>>

SenderExit(t) ==
  /\ At(t, "~CSender")
  /\ Use(t, {"sender"})
  /\ m_bExit' = [m_bExit EXCEPT !["send"] = TRUE]
  /\ Goto(t, IF m_queue THEN "delete m_queue" ELSE "Terminate")
  /\ UNCHANGED <<obj, m_eState, this, pointers, recording, missed, joins>>

(* CSender::Delete deletes the queue while both workers may be using it. *)
DeleteQueue(t) ==
  /\ At(t, "delete m_queue")
  /\ Use(t, {"queue"})
  /\ obj' = [obj EXCEPT !["queue"] = "deleted"]
  /\ Goto(t, "m_queue = NULL")
  /\ UNCHANGED <<m_eState, m_bExit, this, pointers, recording, missed, joins>>

ClearQueue(t) ==
  /\ At(t, "m_queue = NULL")
  /\ Use(t, {"sender"})
  /\ m_queue' = FALSE
  /\ Goto(t, "Terminate")
  /\ UNCHANGED <<obj, m_eState, m_bExit, this, m_CDemuxer, m_CSender, recording, missed, joins>>

(* PThread::Terminate joins a thread that runs or has run. One that has    *)
(* not yet entered StartPoint is still eREADY: it is left alone.           *)
Terminate(t) ==
  LET w == this[t] IN
  /\ At(t, "Terminate")
  /\ Use(t, {Home(w)})
  /\ m_bExit' = [m_bExit EXCEPT ![w] = @ \/ m_eState[w] = "eRUNNING"]
  /\ missed' = IF m_eState[w] = "eREADY" /\ pc[w] # "none" THEN missed \cup {w} ELSE missed
  /\ Goto(t, IF m_eState[w] \in {"eRUNNING", "eZOMBIE"} THEN "Join" ELSE "~PThread")
  /\ UNCHANGED <<obj, m_eState, this, pointers, recording, joins>>

(* A mutant: a successful join leaves m_eState alone. *)
JoinKeepsState(t, at, next) ==
  LET w == this[t] IN
  /\ At(t, at)
  /\ t # w => pc[w] = "exited"
  /\ Use(t, {Home(w)})
  /\ joins' = IF t = w THEN joins ELSE [joins EXCEPT ![w] = @ + 1]
  /\ Goto(t, next)
  /\ UNCHANGED <<obj, m_eState, m_bExit, this, pointers, recording, missed>>

(* PThread::Join. pthread_join waits for the thread to exit, but a thread  *)
(* that joins itself gets EDEADLK at once and Join only prints.            *)
Join(t, at, next) ==
  LET w == this[t] IN
  /\ At(t, at)
  /\ t # w => pc[w] = "exited"
  /\ Use(t, {Home(w)})
  /\ IF t = w THEN UNCHANGED <<m_eState, joins>>
     ELSE /\ m_eState' = [m_eState EXCEPT ![w] = "eTERMINATED"]
          /\ joins' = [joins EXCEPT ![w] = @ + 1]
  /\ Goto(t, next)
  /\ UNCHANGED <<obj, m_bExit, this, pointers, recording, missed>>

(* ~PThread joins a thread that became a zombie after Terminate. *)
PThreadExit(t) ==
  /\ At(t, "~PThread")
  /\ Use(t, {Home(this[t])})
  /\ Goto(t, IF m_eState[this[t]] = "eZOMBIE" THEN "JoinLast" ELSE "free")
  /\ UNCHANGED <<obj, m_eState, m_bExit, this, pointers, recording, missed, joins>>

(* delete frees the object and SAFE_DELETE clears the pointer. The sender's *)
(* memory goes first; when the demuxer's goes, the command thread is done,  *)
(* and a demuxer thread that deleted itself returns to StartPoint.          *)
Free(t) ==
  LET w == this[t] IN
  /\ At(t, "free")
  /\ Use(t, {Home(w)})
  /\ obj' = [obj EXCEPT ![Home(w)] = "deleted"]
  /\ this' = [this EXCEPT ![t] = "demux"]
  /\ m_CSender' = (m_CSender /\ w # "send")
  /\ m_CDemuxer' = (m_CDemuxer /\ ~(w = "demux" /\ t = "comm"))
  /\ Goto(t, IF w = "send" THEN "Terminate" ELSE IF t = "comm" THEN "idle" ELSE "ending")
  /\ UNCHANGED <<m_eState, m_bExit, m_queue, recording, missed, joins>>

Destroy(t) ==
  \/ DemuxerExit(t) \/ SenderExit(t) \/ DeleteQueue(t) \/ ClearQueue(t) \/ Terminate(t)
  \/ Join(t, "Join", "~PThread") \/ PThreadExit(t) \/ Join(t, "JoinLast", "free") \/ Free(t)

-----------------------------------------------------------------------------
(* The worker threads.                                                     *)

(* One step of worker w that changes no more than its place. *)
Step(w, from, to, os) ==
  /\ At(w, from)
  /\ Use(w, {Home(w)} \cup os)
  /\ Goto(w, to)
  /\ UNCHANGED <<obj, m_eState, m_bExit, this, pointers, recording, missed, joins>>

(* PThread::StartPoint, before and after Run(). *)
SetRunning(w) ==
  /\ At(w, "start")
  /\ Use(w, {Home(w)})
  /\ m_eState' = [m_eState EXCEPT ![w] = "eRUNNING"]
  /\ Goto(w, IF w = "demux" THEN "files" ELSE "poll")
  /\ UNCHANGED <<obj, m_bExit, this, pointers, recording, missed, joins>>

SetZombie(w) ==
  /\ At(w, "ending")
  /\ Use(w, {Home(w)})
  /\ m_eState' = [m_eState EXCEPT ![w] = "eZOMBIE"]
  /\ Goto(w, "exited")
  /\ UNCHANGED <<obj, m_bExit, this, pointers, recording, missed, joins>>

(* CDemuxer::Play: a channel without a recording deletes itself. *)
GetChannelFiles == Step("demux", "files", IF recording THEN "file" ELSE "~CDemuxer", {})

(* CDemuxer::Demux, once per file: stop on m_bExit, after the last file,   *)
(* or at a file that does not open; otherwise hand its context to the sender. *)
OpenFile ==
  \/ Step("demux", "file", "ending", {})
  \/ ~m_bExit["demux"] /\ Step("demux", "file", "frame", {"sender"})

(* The read loop: stop on m_bExit or at the end of the file. *)
ReadFrame ==
  \/ Step("demux", "frame", "file", {})
  \/ ~m_bExit["demux"] /\ Step("demux", "frame", "put", {})

(* A mutant: the retry loop does not look at m_bExit. *)
PutVideoAlways == \E to \in {"frame", "sleep"} : Step("demux", "put", to, {"queue"})

(* The retry loop: PutVideo, until it succeeds or m_bExit is set. *)
PutVideo ==
  IF m_bExit["demux"] THEN Step("demux", "put", "frame", {})
  ELSE \E to \in {"frame", "sleep"} : Step("demux", "put", to, {"queue"})

Retry == Step("demux", "sleep", "put", {})

(* CSender::Run. m_queue is tested before each call and read again for it. *)
Poll ==
  IF m_bExit["send"] THEN Step("send", "poll", "ending", {})
  ELSE \E to \in {"poll", IF m_queue THEN "get" ELSE "poll"} : Step("send", "poll", to, {})

GetVideo == \E to \in {"poll", "got"} : Step("send", "get", to, {"queue"})

TestQueue == Step("send", "got", IF m_queue THEN "ret" ELSE "poll", {})

RetVideo == Step("send", "ret", "poll", {"queue"})

-----------------------------------------------------------------------------
(* A process that died stays dead. *)
Dead == crashed /\ UNCHANGED lifeVars

Command == PlayStart \/ PlayCommand \/ PlayClose
CommStep == StartSender \/ SetQueue \/ StartDemuxer \/ Destroy("comm")
DemuxStep ==
  \/ SetRunning("demux") \/ GetChannelFiles \/ OpenFile \/ ReadFrame \/ PutVideo \/ Retry
  \/ Destroy("demux") \/ SetZombie("demux")
SendStep ==
  \/ SetRunning("send") \/ Poll \/ GetVideo \/ TestQueue \/ RetVideo \/ SetZombie("send")

LifeNext == Command \/ CommStep \/ DemuxStep \/ SendStep \/ Dead

(* Each thread is scheduled; which command arrives, if any, is not fixed. *)
LifeSpec ==
  /\ LifeInit /\ [][LifeNext]_lifeVars
  /\ WF_lifeVars(CommStep) /\ WF_lifeVars(DemuxStep) /\ WF_lifeVars(SendStep)

-----------------------------------------------------------------------------
LifeTypeOK ==
  /\ obj \in [Objects -> {"none", "live", "deleted"}]
  /\ m_eState \in [Workers -> ThreadStates]
  /\ m_bExit \in [Workers -> BOOLEAN]
  /\ pc["comm"] \in {"idle", "startSend", "setQueue", "startDemux"} \cup Destructor
  /\ pc["demux"] \in {"none", "start", "files", "file", "frame", "put", "sleep", "ending", "exited"} \cup Destructor
  /\ pc["send"] \in {"none", "start", "poll", "get", "got", "ret", "ending", "exited"}
  /\ this \in [Threads -> Workers]
  /\ missed \subseteq Workers
  /\ joins \in [Workers -> Nat]
  /\ damage \subseteq Threads \X Objects
  /\ recording \in BOOLEAN /\ crashed \in BOOLEAN

(* A channel with a recording frees a worker's object only when the thread *)
(* that runs on it is gone -- unless Terminate met that thread before it   *)
(* had entered StartPoint (PThread::Terminate, ~PThread).                  *)
JoinedBeforeFree ==
  \A w \in Workers :
    recording /\ w \notin missed /\ obj[Home(w)] = "deleted" => pc[w] \in {"none", "exited"}

(* Of what play_close deletes under the feet of a running thread, only the *)
(* queue and the sender are ever touched again: the command thread uses no *)
(* deleted object, and no worker uses its own (the order of deletion in    *)
(* ~CDemuxer and ~CSender).                                                *)
DamageKnown ==
  recording /\ missed = {} =>
    damage \subseteq {<<"demux", "sender">>, <<"demux", "queue">>, <<"send", "queue">>}

(* No thread is joined twice, which pthread_join does not allow: Terminate *)
(* and ~PThread never both join (PThread::Join's SetState).                *)
JoinedOnce == recording => \A w \in Workers : joins[w] <= 1

(* A play_close ends unless the process dies of it: the command thread gets *)
(* past both joins, since every loop of the two workers looks at m_bExit.   *)
CloseCompletes == pc["comm"] = "~CDemuxer" ~> pc["comm"] = "idle" \/ crashed

(* A channel is taken apart in order: threads are joined once, before their *)
(* objects are freed, and what is used after its deletion is known          *)
(* (~CDemuxer, ~CSender, ~PThread).                                         *)
TakenApart == LifeTypeOK /\ JoinedBeforeFree /\ JoinedOnce /\ DamageKnown
=============================================================================
