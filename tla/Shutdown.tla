------------------------------ MODULE Shutdown ------------------------------
(***************************************************************************)
(* The life of the process: main creates the core and the command manager, *)
(* waits for a signal on a condition variable and then destroys both,      *)
(* while the command thread of Comm goes on serving commands until it sees *)
(* m_bExit.                                                                *)
(***************************************************************************)
EXTENDS Comm

VARIABLES
    at,              \* where main is
    exit_flag_main,
    woken,           \* the condition variable has been signalled to the waiter
    m_bExit,         \* of "core" and of "comm"
    m_eState,        \* of their threads
    freed,           \* the objects that have been destroyed
    missed,          \* history: a signal fell between main's test and its wait
    late             \* history: the commands served when m_bExit was raised, or after

mainVars == <<at, exit_flag_main, woken, m_bExit, m_eState, freed, missed, late>>

Owners == {"core", "comm"}

\* The state of a thread: there is none; pthread_create has returned but
\* StartPoint has not begun (eREADY); eRUNNING; eZOMBIE.
ThreadStates == {"none", "ready", "running", "zombie"}

MainTypeOK ==
    /\ at \in {"create", "open", "test", "lock", "wait", "core", "delete",
               "terminate", "join", "terminateCore", "joinCore", "done", "exit"}
    /\ exit_flag_main \in BOOLEAN
    /\ woken \in BOOLEAN
    /\ m_bExit \in [Owners -> BOOLEAN]
    /\ m_eState \in [Owners -> ThreadStates]
    /\ freed \subseteq Owners
    /\ missed \in BOOLEAN
    /\ late \subseteq {m.cmd : m \in Requests}

MainInit ==
    /\ Init
    /\ at = "create"
    /\ exit_flag_main = FALSE
    /\ woken = FALSE
    /\ m_bExit = [o \in Owners |-> FALSE]
    /\ m_eState = [o \in Owners |-> "none"]
    /\ freed = {}
    /\ missed = FALSE
    /\ late = {}

Ended == at \in {"done", "exit"}
Running == ~dead /\ ~Ended
-----------------------------------------------------------------------------
(* Signals. *)

(* A mutant: main is not woken. *)
SignalSilent(raises) ==
    /\ Running
    /\ exit_flag_main' = (exit_flag_main \/ raises)
    /\ missed' = (missed \/ (raises /\ at = "lock"))
    /\ UNCHANGED <<vars, at, woken, m_bExit, m_eState, freed, late>>

\* sigfunc: SIGINT and SIGTERM raise the flag, SIGHUP does not; all signal the
\* condition variable, to no effect when main does not wait.
Signal(raises) ==
    /\ Running
    /\ exit_flag_main' = (exit_flag_main \/ raises)
    /\ woken' = (woken \/ at = "wait")
    /\ missed' = (missed \/ (raises /\ at = "lock"))
    /\ UNCHANGED <<vars, at, m_bExit, m_eState, freed, late>>
-----------------------------------------------------------------------------
(* The main thread. *)

Move(from, to) == Running /\ at = from /\ at' = to

\* CCore::Create: the core thread, then the command manager and its thread.
StartThread(from, o, to) ==
    /\ Move(from, to)
    /\ m_eState' = [m_eState EXCEPT ![o] = "ready"]
    /\ UNCHANGED <<vars, exit_flag_main, woken, m_bExit, freed, missed, late>>

\* setting.json does not parse: exit().
StartFails(from) ==
    /\ Move(from, "exit")
    /\ UNCHANGED <<vars, exit_flag_main, woken, m_bExit, m_eState, freed, missed, late>>

\* CCommMgr::Open returns before it starts its thread when a socket does not open
\* or a call on it fails, and CCore::Create calls exit() then.
SetSocketFails == StartFails("open")

\* The loop of main; sleepMutex is taken by no one else.
Test ==
    /\ Move("test", IF exit_flag_main THEN "core" ELSE "lock")
    /\ UNCHANGED <<vars, exit_flag_main, woken, m_bExit, m_eState, freed, missed, late>>

Wait ==
    /\ Move("lock", "wait")
    /\ woken' = FALSE
    /\ UNCHANGED <<vars, exit_flag_main, m_bExit, m_eState, freed, missed, late>>

\* pthread_cond_wait returns when signalled; it may do so for no reason.
Wake(reason) ==
    /\ Move("wait", "test")
    /\ reason => woken
    /\ woken' = FALSE
    /\ missed' = FALSE
    /\ UNCHANGED <<vars, exit_flag_main, m_bExit, m_eState, freed, late>>

\* ~CCore and ~CCommMgr up to Delete.  Both mutexes destroyed here are used by
\* no thread.
RaiseExit ==
    /\ Move("core", "delete")
    /\ m_bExit' = [o \in Owners |-> TRUE]
    /\ pc' = [pc EXCEPT !["main"] = "delete"]
    /\ late' = IF pc["comm"] \in {"loop", "recv"} THEN {} ELSE {msg.cmd}
    /\ UNCHANGED <<idx, msg, session, channels, recorded, dead, fatal,
                   exit_flag_main, woken, m_eState, freed, missed>>

\* CCommMgr::Delete on this thread, with m_nChannel as the command thread leaves it.
DeleteStep ==
    /\ at = "delete" /\ Running
    /\ DeleteChannel("main") \/ JoinChannel("main")
    /\ UNCHANGED mainVars

(* A mutant: the last channel is left out. *)
DeleteDoneEarly ==
    /\ Move("delete", "terminate")
    /\ pc["main"] = "delete" /\ idx["main"] + 1 >= m_nChannel
    /\ Goto("main", "over")
    /\ UNCHANGED <<idx, msg, session, channels, recorded, dead, fatal,
                   exit_flag_main, woken, m_bExit, m_eState, freed, missed, late>>

\* The sockets are closed.
DeleteDone ==
    /\ Move("delete", "terminate")
    /\ pc["main"] = "delete" /\ idx["main"] >= m_nChannel
    /\ Goto("main", "over")
    /\ UNCHANGED <<idx, msg, session, channels, recorded, dead, fatal,
                   exit_flag_main, woken, m_bExit, m_eState, freed, missed, late>>

(* A mutant: no thread is waited for. *)
TerminateAtOnce(from, o, join, next) ==
    /\ Move(from, next)
    /\ freed' = freed \cup {o}
    /\ UNCHANGED <<vars, exit_flag_main, woken, m_bExit, m_eState, missed, late>>

\* PThread::Terminate: a thread that has not begun is not waited for.
Terminate(from, o, join, next) ==
    /\ Move(from, IF m_eState[o] = "ready" THEN next ELSE join)
    /\ freed' = IF m_eState[o] = "ready" THEN freed \cup {o} ELSE freed
    /\ UNCHANGED <<vars, exit_flag_main, woken, m_bExit, m_eState, missed, late>>

Join(join, o, next) ==
    /\ Move(join, next)
    /\ m_eState[o] = "zombie"
    /\ freed' = freed \cup {o}
    /\ UNCHANGED <<vars, exit_flag_main, woken, m_bExit, m_eState, missed, late>>

MainStep ==
    \/ StartThread("create", "core", "open") \/ StartThread("open", "comm", "test")
    \/ Test \/ Wait \/ Wake(TRUE) \/ RaiseExit \/ DeleteStep \/ DeleteDone
    \/ Terminate("terminate", "comm", "join", "terminateCore")
    \/ Join("join", "comm", "terminateCore")
    \/ Terminate("terminateCore", "core", "joinCore", "done")
    \/ Join("joinCore", "core", "done")
-----------------------------------------------------------------------------
(* The core thread and the command thread. *)

\* StartPoint, on an object that may be freed by now.
StartPoint(o) ==
    /\ Running
    /\ m_eState[o] = "ready" /\ o \notin freed
    /\ m_eState' = [m_eState EXCEPT ![o] = "running"]
    /\ UNCHANGED <<vars, at, exit_flag_main, woken, m_bExit, freed, missed, late>>

\* A thread whose object is freed: it finds what the memory holds, which may
\* kill the process.
Stray(o) ==
    /\ Running
    /\ o \in freed /\ m_eState[o] = "ready"
    /\ m_eState' = [m_eState EXCEPT ![o] = "zombie"]
    /\ dead' \in BOOLEAN
    /\ UNCHANGED <<control, session, channels, recorded, fatal, at, exit_flag_main,
                   woken, m_bExit, freed, missed, late>>

\* The loop of CCore::Run has m_bExit as its only exit, that of RX tests it
\* between two commands.
Leave(o) ==
    /\ Running
    /\ m_eState[o] = "running" /\ m_bExit[o]
    /\ o = "comm" => pc["comm"] = "loop"
    /\ m_eState' = [m_eState EXCEPT ![o] = "zombie"]
    /\ UNCHANGED <<vars, at, exit_flag_main, woken, m_bExit, freed, missed, late>>

\* Between two tests of m_bExit a command may still arrive, as long as the socket
\* is open, and is served.
RX ==
    /\ Running
    /\ m_eState["comm"] = "running"
    /\ \/ Loop /\ ~m_bExit["comm"] /\ UNCHANGED late
       \/ Datagram /\ at \notin {"terminate", "join"} /\ UNCHANGED late
       \/ NoDatagram /\ UNCHANGED late
       \/ CommStep /\ late' = IF m_bExit["comm"] THEN late \cup {msg.cmd} ELSE late
    /\ UNCHANGED <<at, exit_flag_main, woken, m_bExit, m_eState, freed, missed>>

Channel(c) ==
    /\ Running
    /\ Load(c) \/ End(c)
    /\ UNCHANGED mainVars

ChannelEnds(c) ==
    /\ Running
    /\ Load(c) \/ (c \in exits /\ End(c))
    /\ UNCHANGED mainVars

Over == (dead \/ Ended) /\ UNCHANGED <<vars, mainVars>>

ProcessNext ==
    \/ \E raises \in BOOLEAN : Signal(raises)
    \/ MainStep \/ Wake(FALSE) \/ RX \/ Over
    \/ StartFails("create") \/ SetSocketFails
    \/ \E o \in Owners : StartPoint(o) \/ Stray(o) \/ Leave(o)
    \/ \E c \in Channels : Channel(c)

allVars == <<vars, mainVars>>

\* Every thread runs on: main, the two loops (a recvfrom returns within a second)
\* and the demuxer threads that have been told to end.
ProcessFairness ==
    /\ WF_allVars(MainStep)
    /\ WF_allVars(RX)
    /\ \A o \in Owners : WF_allVars(StartPoint(o)) /\ WF_allVars(Leave(o))
    /\ \A c \in Channels : WF_allVars(ChannelEnds(c))

ProcessSpec == MainInit /\ [][ProcessNext]_allVars /\ ProcessFairness
-----------------------------------------------------------------------------
(* Properties. *)

(* A signal to end ends the process, whatever the command thread is doing,
   unless it falls between main's test of the flag and its wait: then main
   waits with the flag up, for another signal. *)
SignalEnds == exit_flag_main ~> (Ended \/ dead \/ missed)

(* Channels are destroyed once, and no command touches a destroyed one, though
   the command thread is neither stopped nor locked out: unless a command
   that uses channels was being served when m_bExit was raised, or after. *)
DestroyedOnce == late \ {"unknown", "get_play_list", "get_thumbnail", "play_delete"} = {}
                    => touched \subseteq missing

(* When the process ends no channel is left playing, but those a play_start
   created meanwhile. *)
NoneLeft ==
    at = "done" /\ (\E c \in Channels : obj[c] # "none") => "play_start" \in late

(* The command manager is freed only when its thread has ended, or has not begun;
   while it serves a command, it is there. *)
ServesOnLiveManager ==
    "comm" \in freed => m_eState["comm"] # "running" /\ pc["comm"] = "loop"

(* The end of the process, with the types of main's variables. *)
EndInv == MainTypeOK /\ DestroyedOnce /\ NoneLeft
=============================================================================
