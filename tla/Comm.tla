-------------------------------- MODULE Comm --------------------------------
(***************************************************************************)
(* The command thread, CCommMgr::RX, and the channels it owns.  It takes   *)
(* one command at a time and applies it to the channels one after the      *)
(* other, while their demuxer threads load, play, end, or, without a       *)
(* recording, delete themselves.  What a channel is made of is in          *)
(* ChannelLife; here a channel is one object with the settings that        *)
(* commands change.                                                        *)
(***************************************************************************)
EXTENDS Naturals

CONSTANTS N,        \* the number of output_channels in setting.json
          Names,    \* the names a recording can have
          NoName,   \* the empty name: the command has no "target"
          Recorded, \* the channels of each recording on disk at the start
          Speeds,   \* the speeds that play_speed_up asks for
          Seconds,  \* the seconds that play_seek asks for
          Unrated   \* the channels whose settings lack "num", as in setting.json

Channels == 1 .. N

\* MAX_NUM_CHANNEL bounds m_CDemuxer[].
ASSUME CommAssumption == /\ N \in 1 .. 8
                         /\ NoName \notin Names
                         /\ Recorded \subseteq Names \X Channels
                         /\ Speeds \subseteq Nat
                         /\ Seconds \subseteq Nat
                         /\ Unrated \subseteq Channels

Targets == Names \cup {NoName}

\* What a datagram asks for.  bits is bit_state as a set, empty for 0; value is
\* the speed or the second; typed says that the fields that are read have the
\* types asInt and asString accept.
Commands == {"play_start", "play_reverse", "play_close", "play_speed_up", "play_pause",
             "play_seek", "get_thumbnail", "get_play_list", "play_delete", "unknown"}

Message == [cmd : Commands, target : Targets, bits : SUBSET Channels,
            value : Nat, typed : BOOLEAN]

Request(cmd, target, bits, value, typed) ==
    [cmd |-> cmd, target |-> target, bits |-> bits, value |-> value, typed |-> typed]

Plain(cmd) == Request(cmd, NoName, {}, 0, TRUE)

\* The commands without fields, and those whose fields may have a wrong type.
PlainCommands == {"play_reverse", "play_close", "play_pause", "get_play_list",
                  "get_thumbnail", "unknown"}
TypedCommands == {"play_start", "play_speed_up", "play_seek", "play_delete", "get_thumbnail",
                  "unknown"}

\* The requests there are.  "unknown" is any other command, and what does not
\* parse; with a wrong type, a message that is no object, so that even its cmd
\* cannot be read.  get_thumbnail only reads the message and answers.
Requests ==
    {Plain(cmd) : cmd \in PlainCommands}
        \cup {Request("play_start", start[1], start[2], 0, TRUE) :
                  start \in Names \X SUBSET Channels}
        \cup {Request("play_speed_up", NoName, {}, speed, TRUE) : speed \in Speeds}
        \cup {Request("play_seek", NoName, {}, second, TRUE) : second \in Seconds}
        \cup {Request("play_delete", target, {}, 0, TRUE) : target \in Targets}
        \cup {Request(cmd, NoName, {}, 0, FALSE) : cmd \in TypedCommands}

Settings == [speed : Nat, pause : BOOLEAN, reverse : BOOLEAN, second : Nat]

\* A slot of m_CDemuxer[]: NULL; an object without threads, as bit_state has the
\* channel off; loading meta.json; playing; its thread over; deleted by itself,
\* the slot still pointing to it.
Object == {"none", "off", "load", "play", "end", "gone"}

\* The threads that call CCommMgr::Delete.
Threads == {"comm", "main"}
Places == {"loop", "recv", "serve", "create", "each", "delete", "join", "over"}

VARIABLES
    pc,           \* where each of Threads is
    idx,          \* the loop counter i of each
    msg,          \* root: the command being served
    m_bIsRunning,
    m_nChannel,
    obj,          \* what each slot of m_CDemuxer[] points to
    exits,        \* the channels being destroyed: their m_bExit
    settings,     \* m_nSpeed, m_IsPause, m_bIsRerverse, m_nSeekFrame of each
    plays,        \* the target each channel was created with
    recorded,     \* the channels of recordings there are on disk
    dead,         \* the process has died
    missing,      \* history: the channels of this session without a recording
    touched,      \* history: the slots used in it though no object was there
    fatal         \* history: a value was of another type than the code reads,
                  \* or missing where it divides by it, or file_dst was deleted

control == <<pc, idx, msg>>
session == <<m_bIsRunning, m_nChannel>>
channels == <<obj, exits, settings, plays, missing, touched>>
vars == <<control, session, channels, recorded, dead, fatal>>

Fresh == [speed |-> 1, pause |-> FALSE, reverse |-> FALSE, second |-> 0]

TypeOK ==
    /\ pc \in [Threads -> Places]
    /\ idx \in [Threads -> 0 .. N]
    /\ msg \in Message
    /\ m_bIsRunning \in BOOLEAN
    /\ m_nChannel \in 0 .. N
    /\ obj \in [Channels -> Object]
    /\ exits \in SUBSET Channels
    /\ settings \in [Channels -> Settings]
    /\ plays \in [Channels -> Targets]
    /\ recorded \in SUBSET (Names \X Channels)
    /\ dead \in BOOLEAN
    /\ missing \in SUBSET Channels
    /\ touched \in SUBSET Channels
    /\ fatal \in BOOLEAN

\* CCommMgr::Open.
Init ==
    /\ pc = [t \in Threads |-> IF t = "comm" THEN "loop" ELSE "over"]
    /\ idx = [t \in Threads |-> 0]
    /\ msg = Plain("unknown")
    /\ m_bIsRunning = FALSE
    /\ m_nChannel = 0
    /\ obj = [c \in Channels |-> "none"]
    /\ exits = {}
    /\ settings = [c \in Channels |-> Fresh]
    /\ plays = [c \in Channels |-> NoName]
    /\ recorded = Recorded
    /\ dead = FALSE
    /\ missing = {}
    /\ touched = {}
    /\ fatal = FALSE
-----------------------------------------------------------------------------
(* The loop of RX and the commands. *)

Goto(t, place) == pc' = [pc EXCEPT ![t] = place]

Loop ==
    /\ pc["comm"] = "loop" /\ ~dead
    /\ Goto("comm", "recv")
    /\ UNCHANGED <<idx, msg, session, channels, recorded, dead, fatal>>

\* A datagram: it is echoed and parsed.
Datagram ==
    /\ pc["comm"] = "recv" /\ ~dead
    /\ \E m \in Requests : msg' = m
    /\ Goto("comm", "serve")
    /\ UNCHANGED <<idx, session, channels, recorded, dead, fatal>>

\* recvfrom fails, if only because a second has passed.
NoDatagram ==
    /\ pc["comm"] = "recv" /\ ~dead
    /\ Goto("comm", "loop")
    /\ UNCHANGED <<idx, msg, session, channels, recorded, dead, fatal>>

Serving(cmd) == pc["comm"] = "serve" /\ msg.cmd = cmd /\ ~dead

\* The end of a command.  root is parsed anew for the next one.
Served ==
    /\ Goto("comm", "loop")
    /\ msg' = Plain("unknown")
    /\ idx' = [idx EXCEPT !["comm"] = 0]

\* The fields of info that a command reads before it does anything.
Reads == \/ msg.cmd \in {"play_start", "play_delete", "unknown"}
         \/ msg.cmd \in {"play_speed_up", "play_seek", "get_thumbnail"} /\ m_bIsRunning

\* asInt, asString and operator[] throw, and nothing catches: the process ends.
Throw ==
    /\ pc["comm"] = "serve" /\ ~dead
    /\ ~msg.typed /\ Reads
    /\ dead' = TRUE
    /\ fatal' = TRUE
    /\ UNCHANGED <<control, session, channels, recorded>>

\* m_attr takes over target and bit_state from the message; only the creation of
\* the channels by this same command reads them.
PlayStart ==
    /\ Serving("play_start") /\ msg.typed
    /\ idx' = [idx EXCEPT !["comm"] = 0]
    /\ IF m_bIsRunning
         THEN /\ Goto("comm", "each")
              /\ UNCHANGED <<m_bIsRunning, m_nChannel>>
         ELSE /\ m_bIsRunning' = TRUE
              /\ m_nChannel' = 0
              /\ Goto("comm", "create")
    /\ UNCHANGED <<msg, channels, recorded, dead, fatal>>

\* CDemuxer::Create: a channel that bit_state has off is an object without a
\* queue, a sender and a thread.
CreateChannel ==
    /\ pc["comm"] = "create" /\ ~dead
    /\ m_nChannel < N
    /\ LET c == m_nChannel + 1
           on == msg.bits = {} \/ c \in msg.bits
       IN /\ obj' = [obj EXCEPT ![c] = IF on THEN "load" ELSE "off"]
          /\ settings' = [settings EXCEPT ![c] = Fresh]
          /\ plays' = [plays EXCEPT ![c] = msg.target]
          /\ m_nChannel' = c
    /\ UNCHANGED <<control, m_bIsRunning, exits, missing, touched, recorded, dead, fatal>>

CreateDone ==
    /\ pc["comm"] = "create" /\ ~dead
    /\ m_nChannel = N
    /\ Served
    /\ UNCHANGED <<session, channels, recorded, dead, fatal>>

Setters == {"play_reverse", "play_speed_up", "play_pause", "play_seek"}

(* A mutant: the loop leaves the first channel out. *)
ToEachButFirst ==
    /\ pc["comm"] = "serve" /\ ~dead
    /\ msg.cmd \in Setters
    /\ m_bIsRunning /\ msg.typed
    /\ Goto("comm", "each")
    /\ idx' = [idx EXCEPT !["comm"] = 1]
    /\ UNCHANGED <<msg, session, channels, recorded, dead, fatal>>

\* The commands that set something in every channel of a running player.
ToEach ==
    /\ pc["comm"] = "serve" /\ ~dead
    /\ msg.cmd \in Setters
    /\ m_bIsRunning /\ msg.typed
    /\ Goto("comm", "each")
    /\ idx' = [idx EXCEPT !["comm"] = 0]
    /\ UNCHANGED <<msg, session, channels, recorded, dead, fatal>>

\* SetPause, SetReverse, SetSpeed, SetMoveSec.
Applied(s) ==
    IF msg.cmd = "play_start"
      THEN [s EXCEPT !.pause = FALSE, !.reverse = FALSE, !.speed = 1]
    ELSE IF msg.cmd = "play_reverse" THEN [s EXCEPT !.reverse = ~s.reverse]
    ELSE IF msg.cmd = "play_pause" THEN [s EXCEPT !.pause = ~s.pause]
    ELSE IF msg.cmd = "play_speed_up" THEN [s EXCEPT !.speed = msg.value]
    ELSE [s EXCEPT !.second = msg.value]

\* The use of an object that is not there may kill the process; otherwise memory
\* that nobody reads has changed.
Touch(c) == touched' = touched \cup {c} /\ dead' \in BOOLEAN

\* SetMoveSec divides by num, which asUInt64 reads as 0 when it is missing.
NoRate(c) == msg.cmd = "play_seek" /\ c \in Unrated

NoObject(c) == obj[c] \in {"none", "gone"}

SetEach ==
    /\ pc["comm"] = "each" /\ ~dead
    /\ idx["comm"] < m_nChannel
    /\ LET c == idx["comm"] + 1
       IN /\ IF NoObject(c)
               THEN Touch(c) /\ UNCHANGED <<settings, fatal>>
               ELSE /\ settings' = [settings EXCEPT ![c] = Applied(settings[c])]
                    /\ dead' = NoRate(c)
                    /\ fatal' = (fatal \/ NoRate(c))
                    /\ UNCHANGED touched
          /\ idx' = [idx EXCEPT !["comm"] = c]
    /\ UNCHANGED <<pc, msg, session, obj, exits, plays, missing, recorded>>

EachDone ==
    /\ pc["comm"] = "each" /\ ~dead
    /\ idx["comm"] >= m_nChannel
    /\ Served
    /\ UNCHANGED <<session, channels, recorded, dead, fatal>>

\* What a player that is not running, or an unknown command, leads to, and the
\* commands that only answer.
Answer ==
    /\ pc["comm"] = "serve" /\ ~dead
    /\ \/ msg.cmd = "get_play_list" \/ (msg.cmd = "unknown" /\ msg.typed)
       \/ msg.cmd = "get_thumbnail" /\ (msg.typed \/ ~m_bIsRunning)
       \/ msg.cmd \in Setters \cup {"play_close"} /\ ~m_bIsRunning
    /\ Served
    /\ UNCHANGED <<session, channels, recorded, dead, fatal>>

\* rm -rf of file_dst/target, which is file_dst itself for the empty name.
\* file_dst is a relative path, as in setting.json.  The answer lists what is
\* left in file_dst; when that is gone, readdir of no directory kills the process.
PlayDelete ==
    /\ Serving("play_delete") /\ msg.typed
    /\ recorded' = IF msg.target = NoName THEN {}
                   ELSE {r \in recorded : r[1] # msg.target}
    /\ dead' = (msg.target = NoName)
    /\ fatal' = (fatal \/ msg.target = NoName)
    /\ Served
    /\ UNCHANGED <<session, channels>>
-----------------------------------------------------------------------------
(* CCommMgr::Delete, on the thread t. *)

PlayClose ==
    /\ Serving("play_close")
    /\ m_bIsRunning
    /\ Goto("comm", "delete")
    /\ idx' = [idx EXCEPT !["comm"] = 0]
    /\ UNCHANGED <<msg, session, channels, recorded, dead, fatal>>

(* A mutant: m_bExit is not raised. *)
DeleteChannelNoExit(t) ==
    /\ pc[t] = "delete" /\ ~dead
    /\ idx[t] < m_nChannel
    /\ LET c == idx[t] + 1
       IN IF obj[c] = "none"
            THEN /\ idx' = [idx EXCEPT ![t] = c]
                 /\ UNCHANGED <<pc, touched, dead>>
            ELSE /\ Goto(t, "join")
                 /\ IF obj[c] = "gone" THEN Touch(c) ELSE UNCHANGED <<touched, dead>>
                 /\ UNCHANGED idx
    /\ UNCHANGED <<msg, session, obj, exits, settings, plays, missing, recorded, fatal>>

\* ~CDemuxer raises m_bExit and then waits for the threads.  An object that is
\* not there, or is being destroyed by the other thread, is destroyed again.
DeleteChannel(t) ==
    /\ pc[t] = "delete" /\ ~dead
    /\ idx[t] < m_nChannel
    /\ LET c == idx[t] + 1
       IN IF obj[c] = "none"
            THEN /\ idx' = [idx EXCEPT ![t] = c]
                 /\ UNCHANGED <<pc, exits, touched, dead>>
            ELSE /\ Goto(t, "join")
                 /\ exits' = exits \cup {c}
                 /\ IF obj[c] = "gone" \/ c \in exits
                      THEN Touch(c)
                      ELSE UNCHANGED <<touched, dead>>
                 /\ UNCHANGED idx
    /\ UNCHANGED <<msg, session, obj, settings, plays, missing, recorded, fatal>>

\* The threads have ended, the object is freed and its slot set to NULL.
JoinChannel(t) ==
    /\ pc[t] = "join" /\ ~dead
    /\ LET c == idx[t] + 1
       IN /\ obj[c] \in {"none", "off", "end", "gone"}
          /\ IF NoObject(c) THEN Touch(c) ELSE UNCHANGED <<touched, dead>>
          /\ obj' = [obj EXCEPT ![c] = "none"]
          /\ settings' = [settings EXCEPT ![c] = Fresh]
          /\ plays' = [plays EXCEPT ![c] = NoName]
          /\ exits' = exits \ {c}
          /\ idx' = [idx EXCEPT ![t] = c]
    /\ Goto(t, "delete")
    /\ UNCHANGED <<msg, session, missing, recorded, fatal>>

(* A mutant: the player is still running, with its channels. *)
CloseDoneKept ==
    /\ pc["comm"] = "delete" /\ ~dead
    /\ idx["comm"] >= m_nChannel
    /\ Served
    /\ missing' = {}
    /\ touched' = {}
    /\ UNCHANGED <<session, obj, exits, settings, plays, recorded, dead, fatal>>

CloseDone ==
    /\ pc["comm"] = "delete" /\ ~dead
    /\ idx["comm"] >= m_nChannel
    /\ m_nChannel' = 0
    /\ m_bIsRunning' = FALSE
    /\ Served
    /\ missing' = {}
    /\ touched' = {}
    /\ UNCHANGED <<obj, exits, settings, plays, recorded, dead, fatal>>
-----------------------------------------------------------------------------
(* The demuxer thread of channel c. *)

\* GetChannelFiles: without the directory or its meta.json, "delete this".
Load(c) ==
    /\ obj[c] = "load" /\ ~dead
    /\ IF <<plays[c], c>> \in recorded
         THEN obj' = [obj EXCEPT ![c] = "play"] /\ UNCHANGED missing
         ELSE obj' = [obj EXCEPT ![c] = "gone"] /\ missing' = missing \cup {c}
    /\ UNCHANGED <<control, session, exits, settings, plays, touched, recorded, dead, fatal>>

\* Demux returns: the recording is over, a file or the filter did not open, or
\* the channel is being destroyed.
End(c) ==
    /\ obj[c] = "play" /\ ~dead
    /\ obj' = [obj EXCEPT ![c] = "end"]
    /\ UNCHANGED <<control, session, exits, settings, plays, missing, touched, recorded, dead, fatal>>

Dead == dead /\ UNCHANGED vars

CommStep == \/ Throw \/ PlayStart \/ CreateChannel \/ CreateDone
            \/ ToEach \/ SetEach \/ EachDone \/ Answer \/ PlayDelete
            \/ PlayClose \/ DeleteChannel("comm") \/ JoinChannel("comm") \/ CloseDone

Next == Loop \/ Datagram \/ NoDatagram \/ CommStep \/ Dead \/ \E c \in Channels : Load(c) \/ End(c)

\* The command thread serves what it has received; a demuxer thread loads its
\* list of files, and ends once it is told to.
Fairness ==
    /\ WF_vars(CommStep)
    /\ \A c \in Channels : WF_vars(Load(c)) /\ WF_vars(c \in exits /\ End(c))

Spec == Init /\ [][Next]_vars /\ Fairness
-----------------------------------------------------------------------------
(* Properties. *)

Idle == pc["comm"] \in {"loop", "recv", "serve"}
Present(c) == ~NoObject(c)

(* Between two commands m_bIsRunning, m_nChannel and the slots agree: all
   slots point to an object, if only a dead one, or none does.  The loops over
   the channels that do not test for NULL rely on it. *)
SlotsMatch ==
    Idle => /\ m_nChannel = IF m_bIsRunning THEN N ELSE 0
            /\ \A c \in Channels : obj[c] = "none" <=> ~m_bIsRunning

(* All channels play in step: between two commands they have the same speed,
   direction, pause and seek point, though these are toggled or set in one after
   the other, also in those that bit_state has off or that are over. *)
InStep ==
    Idle => \A c, d \in Channels :
               Present(c) /\ Present(d) => settings[c] = settings[d]

(* They also play the same recording, though a play_start to a running player
   changes m_attr under them. *)
OneRecording ==
    pc["comm"] # "create" =>
        \A c, d \in Channels : Present(c) /\ Present(d) => plays[c] = plays[d]

(* The commands use objects that are there, except the channels that deleted
   themselves for want of a recording. As far as commands go, the process dies of
   nothing else, or of a message with a value of the wrong type, a play_seek with
   settings that lack num, or a play_delete without a target. What else may kill
   it happens outside this model: in the parser (a document nested too deeply
   throws), in the threads of a channel (see ChannelLife), in a play_seek that
   meets the list of files half copied (see Playlist), and in get_play_list
   (see FileList). *)
DamageKnown ==
    /\ touched \subseteq missing
    /\ dead => fatal \/ touched # {}

(* No object is lost with its threads running: a slot gets a new one only when
   it holds none.  So a recording that is over is played again only after
   play_close, whatever play_start is sent. *)
NoOrphan ==
    [][\A c \in Channels :
          obj[c] # "none" =>
             \/ obj'[c] = "none"
             \/ obj'[c] \notin {"load", "off"} \ {obj[c]} /\ plays'[c] = plays[c]]_vars

(* Every command comes to its end, play_close too, which waits for threads. *)
EveryCommandEnds == pc["comm"] = "serve" ~> (pc["comm"] = "loop" \/ dead)

(* comm.cpp:384 says of its guard that it prevents accidental deletion:
   play_delete removes the recording it names and no other. *)
DeletesNoOther ==
    [][\A r \in recorded : r \notin recorded' => r[1] = msg.target]_vars

(* All channels are one player: the same settings, the same recording. *)
ChannelsAgree == InStep /\ OneRecording
=============================================================================
