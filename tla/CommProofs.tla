----------------------------- MODULE CommProofs -----------------------------
(***************************************************************************)
(* The safety properties of the command dispatcher, of the process around  *)
(* it and of the reader of its commands. First Comm, for any number of     *)
(* output channels: SlotsInv, StepInv and GoneInv follow the loops over    *)
(* the channels, where SlotsMatch and InStep are silent. Then the process  *)
(* of Shutdown, where main is a second thread that destroys channels; its  *)
(* invariant is ProcessInv. Then JsonReader, for any document: ReaderInv   *)
(* relates the calls that are open to the pointers they hold, NumberInv    *)
(* adds what the first lexeme makes of the root. Last FileList, for any    *)
(* directories: the lemmas say what the operators of Json::Value make of a *)
(* tree (PutsOnly), and ListInv what has been gathered so far.             *)
(***************************************************************************)
EXTENDS Shutdown, JsonReader, FileList, SequenceTheorems, FiniteSetTheorems, WellFoundedInduction,
        TLAPS

k == idx["comm"]
p == pc["comm"]

\* Where the slots are filled, by the place of the command thread.
SlotsInv ==
    /\ pc["main"] = "over"
    /\ p \in {"loop", "recv", "serve", "each", "create", "delete", "join"}
    /\ Idle => /\ m_nChannel = IF m_bIsRunning THEN N ELSE 0
               /\ \A c \in Channels : obj[c] = "none" <=> ~m_bIsRunning
    /\ ~Idle => m_bIsRunning
    /\ p \in {"each", "delete", "join"} => m_nChannel = N
    /\ p = "each" => \A c \in Channels : obj[c] # "none"
    /\ p = "create" => \A c \in Channels : obj[c] = "none" <=> c > m_nChannel
    /\ p \in {"delete", "join"} => \A c \in Channels : obj[c] = "none" <=> c <= k
    /\ p = "join" => k < N
    /\ exits = IF p = "join" THEN {k + 1} ELSE {}

\* Two channels are on the same side of the loop that sets them.
SameSide(c, d) == p = "each" => (c <= k <=> d <= k)

StepInv ==
    /\ \A c, d \in Channels :
          Present(c) /\ Present(d) /\ SameSide(c, d) => settings[c] = settings[d]
    /\ p = "each" =>
          \A c, d \in Channels :
             Present(c) /\ Present(d) /\ c <= k /\ k < d => settings[c] = Applied(settings[d])
    /\ \A c, d \in Channels : Present(c) /\ Present(d) => plays[c] = plays[d]
    /\ p = "create" =>
          \A c \in Channels : Present(c) => settings[c] = Fresh /\ plays[c] = msg.target

\* A thread that waits for a channel to end is at one of the slots.
AtSlot == \A t \in Threads : pc[t] = "join" => idx[t] < N

GoneInv ==
    /\ \A c \in Channels : obj[c] = "gone" => c \in missing
    /\ touched \subseteq missing
    /\ dead => fatal \/ touched # {}

IInv == TypeOK /\ SlotsInv /\ StepInv /\ GoneInv
-----------------------------------------------------------------------------
(* Every request there is has the form of a message.                        *)
LEMMA RequestsTyped == Requests \subseteq Message
  <1>. SUFFICES ASSUME NEW m \in Requests PROVE m \in Message
    OBVIOUS
  <1>1. PICK cmd \in Commands, target \in Targets, bits \in SUBSET Channels, value \in Nat,
             typed \in BOOLEAN : m = Request(cmd, target, bits, value, typed)
    <2>1. CASE \E cmd \in Commands : m = Plain(cmd)
      BY <2>1 DEF Plain, Targets
    <2>2. CASE \E cmd \in Commands : m = Request(cmd, NoName, {}, 0, FALSE)
      BY <2>2 DEF Targets
    <2>3. CASE \E target \in Names, bits \in SUBSET Channels :
                  m = Request("play_start", target, bits, 0, TRUE)
      BY <2>3 DEF Targets, Commands
    <2>4. CASE \E value \in Speeds \cup Seconds, cmd \in Commands :
                  m = Request(cmd, NoName, {}, value, TRUE)
      BY <2>4, CommAssumption DEF Targets
    <2>5. CASE \E target \in Targets : m = Request("play_delete", target, {}, 0, TRUE)
      BY <2>5 DEF Commands
    <2>6. \/ \E cmd \in PlainCommands : m = Plain(cmd)
          \/ \E start \in Names \X SUBSET Channels :
                m = Request("play_start", start[1], start[2], 0, TRUE)
          \/ \E speed \in Speeds : m = Request("play_speed_up", NoName, {}, speed, TRUE)
          \/ \E second \in Seconds : m = Request("play_seek", NoName, {}, second, TRUE)
          \/ \E target \in Targets : m = Request("play_delete", target, {}, 0, TRUE)
          \/ \E cmd \in TypedCommands : m = Request(cmd, NoName, {}, 0, FALSE)
      BY Zenon DEF Requests
    <2>7. PlainCommands \subseteq Commands /\ TypedCommands \subseteq Commands
      BY DEF PlainCommands, TypedCommands, Commands
    <2>8. {"play_speed_up", "play_seek"} \subseteq Commands
      BY DEF Commands
    <2>. QED BY <2>1, <2>2, <2>3, <2>4, <2>5, <2>6, <2>7, <2>8
  <1>. QED BY <1>1 DEF Request, Message

(* So has the one root holds between two commands,                          *)
LEMMA PlainTyped == Plain("unknown") \in Message
  BY DEF Message, Commands, Plain, Request, Targets

(* and the settings of a new channel have the form of settings.             *)
LEMMA FreshTyped == Fresh \in Settings
  BY DEF Fresh, Settings

(* A command makes settings of settings.                                    *)
LEMMA AppliedTyped ==
  ASSUME NEW s \in Settings, msg \in Message
  PROVE  Applied(s) \in Settings
  BY DEF Applied, Settings, Message

(* No player is running at first.                                           *)
LEMMA InitIInv == Init => IInv
  <1>. SUFFICES ASSUME Init PROVE IInv
    OBVIOUS
  <1>1. TypeOK
    <2>1. pc \in [Threads -> Places] /\ idx \in [Threads -> 0 .. N] /\ m_nChannel \in 0 .. N
      BY CommAssumption DEF Init, Threads, Places
    <2>2. /\ obj \in [Channels -> Object]
          /\ settings \in [Channels -> Settings]
          /\ plays \in [Channels -> Targets]
      BY FreshTyped DEF Init, Targets, Object
    <2>3. recorded \subseteq Names \X Channels
      BY CommAssumption DEF Init
    <2>. QED BY <2>1, <2>2, <2>3, PlainTyped DEF Init, TypeOK
  <1>2. SlotsInv
    BY CommAssumption DEF Init, SlotsInv, Idle, Threads, Channels, k, p
  <1>3. StepInv /\ GoneInv
    BY DEF Init, StepInv, GoneInv, Present, NoObject, Threads, p
  <1>. QED BY <1>1, <1>2, <1>3 DEF IInv

(* Whichever thread destroys a channel.                                     *)
LEMMA DeleteTyped ==
  ASSUME TypeOK, AtSlot, NEW t \in Threads, DeleteChannel(t) \/ JoinChannel(t)
  PROVE  TypeOK'
  <1>. USE CommAssumption, FreshTyped
  <1>. USE DEF TypeOK, Places, Object
  <1>n. \A i \in 0 .. N : i < N => i + 1 \in Channels /\ i + 1 \in 0 .. N
    BY DEF Channels
  <1>14. CASE DeleteChannel(t)
    <2>1. dead' \in BOOLEAN
      BY <1>14, <1>n DEF DeleteChannel, Touch
    <2>2. touched' \subseteq Channels
      BY <1>14, <1>n DEF DeleteChannel, Touch
    <2>4. exits' \subseteq Channels
      BY <1>14, <1>n DEF DeleteChannel
    <2>3. pc' \in [Threads -> Places] /\ idx' \in [Threads -> 0 .. N]
      BY <1>14, <1>n DEF DeleteChannel, Goto
    <2>. QED BY <1>14, <2>1, <2>2, <2>3, <2>4 DEF DeleteChannel, session
  <1>15. CASE JoinChannel(t)
    <2>1. dead' \in BOOLEAN
      BY <1>15 DEF JoinChannel, Touch
    <2>2. idx[t] < N
      BY <1>15 DEF JoinChannel, AtSlot
    <2>3. touched' \subseteq Channels
      BY <1>15, <2>2, <1>n DEF JoinChannel, Touch
    <2>6. exits' \subseteq Channels
      BY <1>15, <2>2, <1>n DEF JoinChannel
    <2>4. pc' \in [Threads -> Places] /\ idx' \in [Threads -> 0 .. N]
      BY <1>15, <2>2, <1>n DEF JoinChannel, Goto
    <2>5. /\ obj' \in [Channels -> Object]
          /\ settings' \in [Channels -> Settings]
          /\ plays' \in [Channels -> Targets]
      BY <1>15 DEF JoinChannel, Targets
    <2>. QED BY <1>15, <2>1, <2>3, <2>4, <2>5, <2>6 DEF JoinChannel, session
  <1>. QED BY <1>14, <1>15

(* Types, as long as the thread that waits is at a slot.                    *)
LEMMA TypeStep == TypeOK /\ AtSlot /\ [Next]_vars => TypeOK'
  <1>. SUFFICES ASSUME TypeOK, AtSlot, [Next]_vars PROVE TypeOK'
    OBVIOUS
  <1>. USE CommAssumption, RequestsTyped, PlainTyped, FreshTyped
  <1>. USE DEF TypeOK, Threads, Places, Object, Message
  <1>n. \A i \in 0 .. N : i < N => i + 1 \in Channels /\ i + 1 \in 0 .. N
    BY DEF Channels
  <1>1. CASE Loop
    BY <1>1 DEF Loop, Goto, session, channels, control
  <1>2. CASE Datagram
    BY <1>2 DEF Datagram, Goto, session, channels, control
  <1>3. CASE NoDatagram
    BY <1>3 DEF NoDatagram, Goto, session, channels, control
  <1>4. CASE Throw
    BY <1>4 DEF Throw, session, channels, control
  <1>5. CASE PlayStart
    <2>1. m_bIsRunning' \in BOOLEAN
      BY <1>5 DEF PlayStart, Serving, Goto, session, channels, control
    <2>2. pc' \in [Threads -> Places] /\ idx' \in [Threads -> 0 .. N]
      BY <1>5 DEF PlayStart, Serving, Goto, session, channels, control
    <2>3. m_nChannel' \in 0 .. N
      BY <1>5 DEF PlayStart, Serving, Goto, session, channels, control
    <2>4. UNCHANGED <<msg, channels, recorded, dead, fatal>>
      BY <1>5 DEF PlayStart, Serving, Goto, session, channels, control
    <2>. QED BY <2>1, <2>2, <2>3, <2>4 DEF TypeOK, channels
  <1>6. CASE CreateChannel
    BY <1>6, <1>n DEF CreateChannel, session, channels, control
  <1>7. CASE CreateDone
    BY <1>7 DEF CreateDone, Served, Goto, Plain, Request, session, channels, control
  <1>8. CASE ToEach
    BY <1>8 DEF ToEach, Goto, session, channels, control
  <1>9. CASE SetEach
    <2>1. settings' \in [Channels -> Settings]
      BY <1>9, AppliedTyped DEF SetEach
    <2>2. dead' \in BOOLEAN /\ fatal' \in BOOLEAN
      BY <1>9, <1>n DEF SetEach, Touch, NoRate
    <2>3. touched' \subseteq Channels /\ idx' \in [Threads -> 0 .. N]
      BY <1>9, <1>n DEF SetEach, Touch
    <2>. QED BY <1>9, <2>1, <2>2, <2>3 DEF SetEach, session
  <1>10. CASE EachDone
    BY <1>10 DEF EachDone, Served, Goto, Plain, Request, session, channels, control
  <1>11. CASE Answer
    BY <1>11 DEF Answer, Served, Goto, Plain, Request, session, channels, control
  <1>12. CASE PlayDelete
    BY <1>12 DEF PlayDelete, Serving, Served, Goto, Plain, Request, session, channels, control
  <1>13. CASE PlayClose
    BY <1>13 DEF PlayClose, Serving, Goto, session, channels, control
  <1>14. CASE DeleteChannel("comm") \/ JoinChannel("comm")
    BY <1>14, DeleteTyped DEF Threads
  <1>16. CASE CloseDone
    <2>1. m_bIsRunning' \in BOOLEAN
      BY <1>16 DEF CloseDone
    <2>2. /\ m_nChannel' \in 0 .. N
          /\ missing' \in SUBSET Channels
          /\ touched' \in SUBSET Channels
      BY <1>16 DEF CloseDone
    <2>3. /\ pc' \in [Threads -> Places]
          /\ idx' \in [Threads -> 0 .. N]
          /\ msg' \in Message
      BY <1>16 DEF CloseDone, Served, Goto
    <2>. QED BY <1>16, <2>1, <2>2, <2>3 DEF CloseDone
  <1>17. CASE Dead
    BY <1>17 DEF Dead, vars, control, session, channels
  <1>18. ASSUME NEW c \in Channels, Load(c) PROVE TypeOK'
    <2>1. missing' \subseteq Channels
      BY <1>18 DEF Load
    <2>2. obj' \in [Channels -> Object]
      BY <1>18 DEF Load
    <2>. QED BY <1>18, <2>1, <2>2 DEF Load, session, control
  <1>19. ASSUME NEW c \in Channels, End(c) PROVE TypeOK'
    BY <1>19 DEF End, session, channels, control
  <1>20. CASE UNCHANGED vars
    BY <1>20 DEF vars, control, session, channels
  <1>. QED BY <1>1, <1>2, <1>3, <1>4, <1>5, <1>6, <1>7, <1>8, <1>9, <1>10, <1>11, <1>12, <1>13,
       <1>14, <1>16, <1>17, <1>18, <1>19, <1>20 DEF Next, CommStep

(* The command thread is at a slot when it waits; main does not wait here.  *)
LEMMA SlotsAtSlot == SlotsInv => AtSlot
  BY DEF SlotsInv, AtSlot, Threads, k, p

(* Each loop moves the border between filled and empty slots by one.        *)
LEMMA SlotsStep == IInv /\ [Next]_vars => SlotsInv'
  <1>. SUFFICES ASSUME IInv, [Next]_vars PROVE SlotsInv'
    OBVIOUS
  <1>. USE CommAssumption, RequestsTyped, PlainTyped, FreshTyped
  <1>. USE DEF IInv, TypeOK, SlotsInv, Idle, Threads, Channels, Object, Setters, k, p
  <1>1. CASE Loop
    BY <1>1 DEF Loop, Goto, session, channels, control
  <1>2. CASE Datagram
    BY <1>2 DEF Datagram, Goto, session, channels, control
  <1>3. CASE NoDatagram
    BY <1>3 DEF NoDatagram, Goto, session, channels, control
  <1>4. CASE Throw
    BY <1>4 DEF Throw, session, channels, control
  <1>5. CASE PlayStart
    BY <1>5 DEF PlayStart, Serving, Goto, session, channels, control
  <1>6. CASE CreateChannel
    BY <1>6 DEF CreateChannel, session, channels, control
  <1>7. CASE CreateDone
    BY <1>7 DEF CreateDone, Served, Goto, Plain, Request, session, channels, control
  <1>8. CASE ToEach
    BY <1>8 DEF ToEach, Goto, session, channels, control
  <1>9. CASE SetEach
    BY <1>9 DEF SetEach, Touch, session, channels, control
  <1>10. CASE EachDone
    BY <1>10 DEF EachDone, Served, Goto, Plain, Request, session, channels, control
  <1>11. CASE Answer
    BY <1>11 DEF Answer, Served, Goto, Plain, Request, session, channels, control
  <1>12. CASE PlayDelete
    BY <1>12 DEF PlayDelete, Serving, Served, Goto, Plain, Request, session, channels, control
  <1>13. CASE PlayClose
    BY <1>13 DEF PlayClose, Serving, Goto, session, channels, control
  <1>14. CASE DeleteChannel("comm")
    BY <1>14 DEF DeleteChannel, Goto, Touch, session, channels, control
  <1>15. CASE JoinChannel("comm")
    BY <1>15 DEF JoinChannel, Goto, Touch, NoObject, session, channels, control
  <1>16. CASE CloseDone
    BY <1>16 DEF CloseDone, Served, Goto, Plain, Request, session, channels, control
  <1>17. CASE Dead
    BY <1>17 DEF Dead, vars, control, session, channels
  <1>18. ASSUME NEW c \in Channels, Load(c) PROVE SlotsInv'
    BY <1>18 DEF Load, session, channels, control
  <1>19. ASSUME NEW c \in Channels, End(c) PROVE SlotsInv'
    BY <1>19 DEF End, session, channels, control
  <1>20. CASE UNCHANGED vars
    BY <1>20 DEF vars, control, session, channels
  <1>. QED BY <1>1, <1>2, <1>3, <1>4, <1>5, <1>6, <1>7, <1>8, <1>9, <1>10, <1>11, <1>12, <1>13,
       <1>14, <1>15, <1>16, <1>17, <1>18, <1>19, <1>20 DEF Next, CommStep

(* Channels on the same side of the loop that sets them stay alike.         *)
LEMMA StepStep == IInv /\ [Next]_vars => StepInv'
  <1>. SUFFICES ASSUME IInv, [Next]_vars PROVE StepInv'
    OBVIOUS
  <1>. USE CommAssumption, RequestsTyped, PlainTyped, FreshTyped
  <1>. USE DEF IInv, TypeOK, SlotsInv, StepInv, Idle, Threads, Channels, Object, Present,
       NoObject, SameSide, k, p
  <1>1. CASE Loop
    BY <1>1 DEF Loop, Goto, session, channels, control
  <1>2. CASE Datagram
    BY <1>2 DEF Datagram, Goto, session, channels, control
  <1>3. CASE NoDatagram
    BY <1>3 DEF NoDatagram, Goto, session, channels, control
  <1>4. CASE Throw
    BY <1>4 DEF Throw, session, channels, control
  <1>5. CASE PlayStart
    BY <1>5 DEF PlayStart, Serving, Goto, session, channels, control
  <1>6. CASE CreateChannel
    BY <1>6 DEF CreateChannel, session, channels, control
  <1>7. CASE CreateDone
    BY <1>7 DEF CreateDone, Served, Goto, Plain, Request, session, channels, control
  <1>8. CASE ToEach
    BY <1>8 DEF ToEach, Goto, session, channels, control
  <1>9. CASE SetEach
    <2>. DEFINE c0 == k + 1
    <2>1. /\ p = "each" /\ p' = "each" /\ k' = c0 /\ c0 \in Channels
          /\ UNCHANGED <<obj, plays, msg>>
      BY <1>9 DEF SetEach
    <2>2. \A d \in Channels : d # c0 => settings'[d] = settings[d]
      BY <1>9 DEF SetEach
    <2>3. Present(c0) => settings'[c0] = Applied(settings[c0])
      BY <1>9, <2>1 DEF SetEach
    <2>5. \A c, d \in Channels :
             Present(c) /\ Present(d) /\ c <= c0 /\ d <= c0 => settings'[c] = settings'[d]
      BY <2>1, <2>2, <2>3
    <2>6. \A c, d \in Channels :
             Present(c) /\ Present(d) /\ c0 < c /\ c0 < d => settings'[c] = settings'[d]
      BY <2>1, <2>2, <2>3
    <2>7. \A c, d \in Channels :
             Present(c) /\ Present(d) /\ c <= c0 /\ c0 < d
                => settings'[c] = Applied(settings[d]) /\ settings'[d] = settings[d]
      BY <2>1, <2>2, <2>3
    <2>8. \A c, d \in Channels :
             Present(c) /\ Present(d) /\ c <= c0 /\ c0 < d
                => settings'[c] = Applied(settings[d])'
      <3>. SUFFICES ASSUME NEW c \in Channels, NEW d \in Channels,
                           Present(c), Present(d), c <= c0, c0 < d
                    PROVE  settings'[c] = Applied(settings[d])'
        OBVIOUS
      <3>1. settings'[c] = Applied(settings[d]) /\ settings'[d] = settings[d]
        BY <2>7
      <3>. QED BY <2>1, <3>1 DEF Applied
    <2>. HIDE DEF c0
    <2>. QED BY <2>1, <2>5, <2>6, <2>8
  <1>10. CASE EachDone
    BY <1>10 DEF EachDone, Served, Goto, Plain, Request, session, channels, control
  <1>11. CASE Answer
    BY <1>11 DEF Answer, Served, Goto, Plain, Request, session, channels, control
  <1>12. CASE PlayDelete
    BY <1>12 DEF PlayDelete, Serving, Served, Goto, Plain, Request, session, channels, control
  <1>13. CASE PlayClose
    BY <1>13 DEF PlayClose, Serving, Goto, session, channels, control
  <1>14. CASE DeleteChannel("comm")
    BY <1>14 DEF DeleteChannel, Goto, Touch, session, channels, control
  <1>15. CASE JoinChannel("comm")
    BY <1>15 DEF JoinChannel, Goto, Touch, NoObject, session, channels, control
  <1>16. CASE CloseDone
    BY <1>16 DEF CloseDone, Served, Goto, Plain, Request, session, channels, control
  <1>17. CASE Dead
    <2>1. UNCHANGED <<pc, idx, msg, obj, settings, plays>>
      BY <1>17 DEF Dead, vars, control, channels
    <2>2. \A d \in Channels : Applied(settings[d])' = Applied(settings[d])
      BY <2>1 DEF Applied
    <2>. QED BY <2>1, <2>2
  <1>18. ASSUME NEW c \in Channels, Load(c) PROVE StepInv'
    <2>1. \A d \in Channels : Present(d)' => Present(d)
      BY <1>18 DEF Load
    <2>2. UNCHANGED <<pc, idx, msg, settings, plays>>
      BY <1>18 DEF Load, control
    <2>3. \A d \in Channels : Applied(settings[d])' = Applied(settings[d])
      BY <2>2 DEF Applied
    <2>. QED BY <2>1, <2>2, <2>3
  <1>19. ASSUME NEW c \in Channels, End(c) PROVE StepInv'
    <2>1. \A d \in Channels : Present(d)' => Present(d)
      BY <1>19 DEF End
    <2>2. UNCHANGED <<pc, idx, msg, settings, plays>>
      BY <1>19 DEF End, control
    <2>3. \A d \in Channels : Applied(settings[d])' = Applied(settings[d])
      BY <2>2 DEF Applied
    <2>. QED BY <2>1, <2>2, <2>3
  <1>20. CASE UNCHANGED vars
    <2>1. UNCHANGED <<pc, idx, msg, obj, settings, plays>>
      BY <1>20 DEF Dead, vars, control, channels
    <2>2. \A d \in Channels : Applied(settings[d])' = Applied(settings[d])
      BY <2>1 DEF Applied
    <2>. QED BY <2>1, <2>2
  <1>. QED BY <1>1, <1>2, <1>3, <1>4, <1>5, <1>6, <1>7, <1>8, <1>9, <1>10, <1>11, <1>12, <1>13,
       <1>14, <1>15, <1>16, <1>17, <1>18, <1>19, <1>20 DEF Next, CommStep

(* Only a channel without a recording goes by itself.                       *)
LEMMA GoneStep == IInv /\ [Next]_vars => GoneInv'
  <1>. SUFFICES ASSUME IInv, [Next]_vars PROVE GoneInv'
    OBVIOUS
  <1>. USE CommAssumption, RequestsTyped, PlainTyped, FreshTyped
  <1>. USE DEF IInv, TypeOK, SlotsInv, GoneInv, Idle, Threads, Channels, Object, NoObject, k, p
  <1>1. CASE Loop
    BY <1>1 DEF Loop, Goto, session, channels, control
  <1>2. CASE Datagram
    BY <1>2 DEF Datagram, Goto, session, channels, control
  <1>3. CASE NoDatagram
    BY <1>3 DEF NoDatagram, Goto, session, channels, control
  <1>4. CASE Throw
    BY <1>4 DEF Throw, session, channels, control
  <1>5. CASE PlayStart
    BY <1>5 DEF PlayStart, Serving, Goto, session, channels, control
  <1>6. CASE CreateChannel
    BY <1>6 DEF CreateChannel, session, channels, control
  <1>7. CASE CreateDone
    BY <1>7 DEF CreateDone, Served, Goto, Plain, Request, session, channels, control
  <1>8. CASE ToEach
    BY <1>8 DEF ToEach, Goto, session, channels, control
  <1>9. CASE SetEach
    <2>. DEFINE c0 == k + 1
    <2>1. c0 \in Channels /\ obj[c0] # "none" /\ UNCHANGED <<obj, missing>>
      BY <1>9 DEF SetEach
    <2>2. CASE NoObject(c0)
      <3>1. c0 \in missing /\ touched' = touched \cup {c0} /\ fatal' = fatal
        BY <1>9, <2>1, <2>2 DEF SetEach, Touch
      <3>. QED BY <2>1, <3>1
    <2>3. CASE ~NoObject(c0)
      <3>1. dead' => fatal'
        BY <1>9, <2>1, <2>3 DEF SetEach
      <3>2. UNCHANGED touched
        BY <1>9, <2>1, <2>3 DEF SetEach
      <3>. QED BY <2>1, <3>1, <3>2
    <2>. QED BY <2>2, <2>3
  <1>10. CASE EachDone
    BY <1>10 DEF EachDone, Served, Goto, Plain, Request, session, channels, control
  <1>11. CASE Answer
    BY <1>11 DEF Answer, Served, Goto, Plain, Request, session, channels, control
  <1>12. CASE PlayDelete
    BY <1>12 DEF PlayDelete, Serving, Served, Goto, Plain, Request, session, channels, control
  <1>13. CASE PlayClose
    BY <1>13 DEF PlayClose, Serving, Goto, session, channels, control
  <1>14. CASE DeleteChannel("comm")
    <2>. DEFINE c0 == k + 1
    <2>1. c0 \in Channels /\ obj[c0] # "none" /\ exits = {} /\ UNCHANGED <<obj, missing, fatal>>
      BY <1>14 DEF DeleteChannel
    <2>2. CASE obj[c0] = "gone"
      <3>1. c0 \in missing /\ touched' = touched \cup {c0}
        BY <1>14, <2>1, <2>2 DEF DeleteChannel, Touch
      <3>. QED BY <2>1, <3>1
    <2>3. CASE obj[c0] # "gone"
      <3>1. UNCHANGED <<touched, dead>>
        BY <1>14, <2>1, <2>3 DEF DeleteChannel
      <3>. QED BY <2>1, <3>1
    <2>. QED BY <2>2, <2>3
  <1>15. CASE JoinChannel("comm")
    <2>. DEFINE c0 == k + 1
    <2>1. c0 \in Channels /\ obj[c0] # "none" /\ UNCHANGED <<missing, fatal>>
      BY <1>15 DEF JoinChannel
    <2>2. \A c \in Channels : obj'[c] = "gone" => obj[c] = "gone"
      BY <1>15 DEF JoinChannel
    <2>3. CASE NoObject(c0)
      <3>1. c0 \in missing /\ touched' = touched \cup {c0}
        BY <1>15, <2>1, <2>3 DEF JoinChannel, Touch
      <3>. QED BY <2>1, <2>2, <3>1
    <2>4. CASE ~NoObject(c0)
      <3>1. UNCHANGED <<touched, dead>>
        BY <1>15, <2>1, <2>4 DEF JoinChannel
      <3>. QED BY <2>1, <2>2, <3>1
    <2>. QED BY <2>3, <2>4
  <1>16. CASE CloseDone
    BY <1>16 DEF CloseDone, Served, Goto, Plain, Request, session, channels, control
  <1>17. CASE Dead
    BY <1>17 DEF Dead, vars, control, session, channels
  <1>18. ASSUME NEW c \in Channels, Load(c) PROVE GoneInv'
    BY <1>18 DEF Load, session, channels, control
  <1>19. ASSUME NEW c \in Channels, End(c) PROVE GoneInv'
    BY <1>19 DEF End, session, channels, control
  <1>20. CASE UNCHANGED vars
    BY <1>20 DEF vars, control, session, channels
  <1>. QED BY <1>1, <1>2, <1>3, <1>4, <1>5, <1>6, <1>7, <1>8, <1>9, <1>10, <1>11, <1>12, <1>13,
       <1>14, <1>15, <1>16, <1>17, <1>18, <1>19, <1>20 DEF Next, CommStep

-----------------------------------------------------------------------------
(* So every step of Comm keeps the invariant.                               *)
LEMMA IStep == IInv /\ [Next]_vars => IInv'
  BY TypeStep, SlotsAtSlot, SlotsStep, StepStep, GoneStep DEF IInv

(* It holds in every reachable state.                                       *)
LEMMA Invariance == Spec => []IInv
  BY InitIInv, IStep, PTL DEF Spec

(* The types of the variables. *)
THEOREM CommTyped == Spec => []TypeOK
  BY Invariance, PTL DEF IInv

(* Between two commands the slots are all filled or all NULL, as m_bIsRunning
   and m_nChannel say. *)
THEOREM SlotsMatchState == Spec => []SlotsMatch
  <1>1. IInv => SlotsMatch
    BY DEF IInv, SlotsInv, SlotsMatch
  <1>. QED BY Invariance, <1>1, PTL

(* All channels have the same settings between two commands. *)
THEOREM ChannelsInStep == Spec => []InStep
  <1>1. IInv => InStep
    BY DEF IInv, SlotsInv, StepInv, InStep, SameSide, Idle, p
  <1>. QED BY Invariance, <1>1, PTL

(* All channels play the recording of one play_start. *)
THEOREM ChannelsPlayOne == Spec => []OneRecording
  <1>1. IInv => OneRecording
    BY DEF IInv, StepInv, OneRecording
  <1>. QED BY Invariance, <1>1, PTL

(* Between two commands the channels are one player: the same settings, the
   same recording. *)
THEOREM ChannelsAreOne == Spec => []ChannelsAgree
  <1>1. InStep /\ OneRecording => ChannelsAgree
    BY DEF ChannelsAgree
  <1>. QED BY ChannelsInStep, ChannelsPlayOne, <1>1, PTL

(* Only channels without a recording are used after they are gone. *)
THEOREM CommandDamage == Spec => []DamageKnown
  <1>1. IInv => DamageKnown
    BY DEF IInv, GoneInv, DamageKnown
  <1>. QED BY Invariance, <1>1, PTL

(* A slot gets a new object only when it holds none. *)
THEOREM SlotsNotOverwritten == Spec => NoOrphan
  <1>1. IInv /\ [Next]_vars =>
          [\A c \in Channels :
              obj[c] # "none" =>
                 \/ obj'[c] = "none"
                 \/ obj'[c] \notin {"load", "off"} \ {obj[c]} /\ plays'[c] = plays[c]]_vars
    <2>. SUFFICES ASSUME IInv, Next, NEW c \in Channels, obj[c] # "none", obj'[c] # "none"
                  PROVE  obj'[c] \notin {"load", "off"} \ {obj[c]} /\ plays'[c] = plays[c]
      OBVIOUS
    <2>. USE DEF IInv, TypeOK
    <2>1. CASE UNCHANGED <<obj, plays>>
      BY <2>1
    <2>2. CASE CreateChannel
      BY <2>2, CommAssumption DEF CreateChannel, SlotsInv, Channels, p
    <2>3. CASE JoinChannel("comm")
      BY <2>3 DEF JoinChannel
    <2>4. ASSUME NEW d \in Channels, Load(d) \/ End(d)
          PROVE  obj'[c] \notin {"load", "off"} \ {obj[c]} /\ plays'[c] = plays[c]
      BY <2>4 DEF Load, End
    <2>. QED BY <2>1, <2>2, <2>3, <2>4
         DEF Next, CommStep, Loop, Datagram, NoDatagram, Throw, PlayStart, CreateDone, ToEach,
             SetEach, EachDone, Answer, PlayDelete, PlayClose, DeleteChannel, CloseDone, Dead,
             channels, vars
  <1>. QED BY Invariance, <1>1, PTL DEF NoOrphan, Spec
-----------------------------------------------------------------------------
(* The life of the process, for any number of channels: Shutdown. Main      *)
(* destroys the channels while the command thread goes on, so the invariant  *)
(* above ends where m_bExit is raised, and two weaker ones take over. OnceInv*)
(* holds while the commands served are harmless, and says that main is the   *)
(* only one that destroys channels. EmptyInv holds while none of them is     *)
(* play_start: two threads may then empty the same slots, in any order.      *)

\* Before m_bExit is raised main has not touched the channels.
Before == {"create", "open", "test", "lock", "wait", "core", "exit"}

\* The commands that leave the channels alone.
Harmless == {"unknown", "get_play_list", "get_thumbnail", "play_delete"}

\* The command being served, and who is destroying what.
ServeInv ==
    /\ msg \in Requests
    /\ p \in {"create", "each", "delete", "join"} => msg.cmd \notin Harmless
    /\ p = "create" => msg.cmd = "play_start"
    /\ AtSlot

\* The threads and their objects.
LifeInv ==
    /\ p # "loop" => m_eState["comm"] = "running"
    /\ "comm" \in freed => m_eState["comm"] \in {"ready", "zombie"}
    /\ at \in {"create", "open"} => m_eState["comm"] = "none"
    /\ m_bExit["comm"] <=> at \notin Before
    /\ at \in Before => freed = {} /\ late = {} /\ idx["main"] = 0
    /\ pc["main"] \in (IF at = "delete" THEN {"delete", "join"} ELSE {"over"})

\* Until then the command thread is the only one that uses the channels.
BeforeInv == at \in Before => IInv

\* Afterwards main is, if no command that uses them is served any more.
OnceInv ==
    at \notin Before /\ late \subseteq Harmless =>
        /\ Idle
        /\ \A c \in Channels : obj[c] = "gone" => c \in missing
        /\ touched \subseteq missing
        /\ exits = IF pc["main"] = "join" THEN {idx["main"] + 1} ELSE {}
        /\ \A c \in Channels : pc["main"] = "join" /\ c = idx["main"] + 1 => obj[c] # "none"

\* Channels lie within the slots that are used, and behind every loop that
\* destroys them, if none is created any more.
EmptyInv ==
    at \notin Before /\ "play_start" \notin late =>
        /\ p # "create"
        /\ \A c \in Channels : obj[c] # "none" =>
             /\ c <= m_nChannel
             /\ p \in {"delete", "join"} => c > k
             /\ at = "delete" /\ c > idx["main"]

ProcessInv == TypeOK /\ MainTypeOK /\ ServeInv /\ LifeInv /\ BeforeInv /\ OnceInv /\ EmptyInv
-----------------------------------------------------------------------------
(* The process starts with Comm's initial state.                            *)
LEMMA InitProcessInv == MainInit => ProcessInv
<1>. SUFFICES ASSUME MainInit PROVE ProcessInv
  OBVIOUS
<1>1. IInv /\ TypeOK
  BY InitIInv DEF MainInit, IInv
<1>2. MainTypeOK
  BY DEF MainInit, MainTypeOK, Owners, ThreadStates
<1>3. AtSlot /\ p = "loop" /\ idx["main"] = 0 /\ pc["main"] = "over"
  BY DEF MainInit, Init, AtSlot, Threads, p
<1>4. msg \in Requests
  BY DEF MainInit, Init, Requests, PlainCommands
<1>5. ServeInv /\ LifeInv
  BY <1>3, <1>4 DEF MainInit, ServeInv, LifeInv, Before, Owners
<1>6. BeforeInv /\ OnceInv /\ EmptyInv
  BY <1>1 DEF MainInit, BeforeInv, OnceInv, EmptyInv, Before
<1>. QED BY <1>1, <1>2, <1>5, <1>6 DEF ProcessInv

\* A step that leaves the channels and the command thread alone.
Quiet ==
    /\ UNCHANGED <<vars, late>>
    /\ at' \in Before <=> at \in Before
    /\ at' = "delete" <=> at = "delete"

(* The steps of the process, as Comm sees them.                             *)
LEMMA Kinds ==
  ASSUME [ProcessNext]_allVars
  PROVE  \/ Quiet \/ (\E o \in Owners : Stray(o)) \/ RaiseExit \/ DeleteStep \/ DeleteDone
         \/ RX \/ \E c \in Channels : Channel(c)
<1>1. CASE \E raises \in BOOLEAN : Signal(raises)
  BY <1>1 DEF Signal, Move, Quiet, Before, vars, mainVars
<1>2. CASE StartThread("create", "core", "open") \/ StartThread("open", "comm", "test")
  BY <1>2 DEF StartThread, Move, Quiet, Before, vars, mainVars
<1>3. CASE Test
  BY <1>3 DEF Test, Move, Quiet, Before, vars, mainVars
<1>4. CASE Wait
  BY <1>4 DEF Wait, Move, Quiet, Before, vars, mainVars
<1>5. CASE \E reason \in BOOLEAN : Wake(reason)
  BY <1>5 DEF Wake, Move, Quiet, Before, vars, mainVars
<1>6. CASE RaiseExit
  BY <1>6
<1>7. CASE DeleteStep
  BY <1>7
<1>8. CASE DeleteDone
  BY <1>8
<1>9. CASE Terminate("terminate", "comm", "join", "terminateCore")
  BY <1>9 DEF Terminate, Move, Quiet, Before, vars, mainVars
<1>10. CASE Join("join", "comm", "terminateCore")
  BY <1>10 DEF Join, Move, Quiet, Before, vars, mainVars
<1>11. CASE Terminate("terminateCore", "core", "joinCore", "done")
  BY <1>11 DEF Terminate, Move, Quiet, Before, vars, mainVars
<1>12. CASE Join("joinCore", "core", "done")
  BY <1>12 DEF Join, Move, Quiet, Before, vars, mainVars
<1>13. CASE RX
  BY <1>13
<1>14. CASE StartFails("create") \/ SetSocketFails
  BY <1>14 DEF StartFails, SetSocketFails, Move, Quiet, Before, vars, mainVars
<1>15. CASE \E o \in Owners : StartPoint(o)
  BY <1>15 DEF StartPoint, Move, Quiet, Before, vars, mainVars
<1>16. CASE \E o \in Owners : Stray(o)
  BY <1>16
<1>17. CASE \E o \in Owners : Leave(o)
  BY <1>17 DEF Leave, Move, Quiet, Before, vars, mainVars
<1>18. CASE \E c \in Channels : Channel(c)
  BY <1>18
<1>19. CASE UNCHANGED allVars
  BY <1>19 DEF Over, allVars, Move, Quiet, Before, vars, mainVars
<1>. QED BY <1>1, <1>2, <1>3, <1>4, <1>5, <1>6, <1>7, <1>8, <1>9, <1>10, <1>11,
            <1>12, <1>13, <1>14, <1>15, <1>16, <1>17, <1>18, <1>19 DEF ProcessNext, MainStep,
                 Over, allVars

(* What RX does is a step of the command thread of Comm.                    *)
LEMMA RXIsComm == RX => Next /\ UNCHANGED at
BY DEF RX, Next

(* So is what a demuxer thread does.                                        *)
LEMMA ChannelIsComm == \A c \in Channels : Channel(c) => Next /\ UNCHANGED mainVars
BY DEF Channel, Next

(* Types of Comm's variables, with two threads that destroy channels.       *)
LEMMA ProcessTypeStep ==
  ASSUME TypeOK, AtSlot, [ProcessNext]_allVars
  PROVE  TypeOK'
<1>1. CASE Quiet
  BY <1>1 DEF Quiet, TypeOK, vars, control, session, channels
<1>2. CASE \E o \in Owners : Stray(o)
  BY <1>2 DEF Stray, TypeOK, control, session, channels
<1>3. CASE RaiseExit
  BY <1>3 DEF RaiseExit, TypeOK, Places, session, channels
<1>4. CASE DeleteStep
  BY <1>4, DeleteTyped DEF DeleteStep, Threads
<1>5. CASE DeleteDone
  BY <1>5 DEF DeleteDone, Goto, TypeOK, Places, session, channels
<1>6. CASE RX
  BY <1>6, RXIsComm, TypeStep
<1>7. CASE \E c \in Channels : Channel(c)
  BY <1>7, ChannelIsComm, TypeStep
<1>. QED BY <1>1, <1>2, <1>3, <1>4, <1>5, <1>6, <1>7, Kinds

(* Types of main's variables. What is late is the command of a request.     *)
LEMMA MainTypeStep ==
  ASSUME MainTypeOK, ServeInv, [ProcessNext]_allVars
  PROVE  MainTypeOK'
<1>. USE DEF MainTypeOK, Owners, ThreadStates
<1>0. msg.cmd \in {m.cmd : m \in Requests}
  BY DEF ServeInv
<1>1. CASE \E raises \in BOOLEAN : Signal(raises)
  BY <1>1 DEF Signal, Move, vars, mainVars, ServeInv
<1>2. CASE StartThread("create", "core", "open") \/ StartThread("open", "comm", "test")
  BY <1>2 DEF StartThread, Move, vars, mainVars, ServeInv
<1>3. CASE Test
  BY <1>3 DEF Test, Move, vars, mainVars, ServeInv
<1>4. CASE Wait
  BY <1>4 DEF Wait, Move, vars, mainVars, ServeInv
<1>5. CASE \E reason \in BOOLEAN : Wake(reason)
  BY <1>5 DEF Wake, Move, vars, mainVars, ServeInv
<1>6. CASE RaiseExit
  <2>1. late' \subseteq {m.cmd : m \in Requests}
    BY <1>6, <1>0 DEF RaiseExit
  <2>. HIDE DEF ThreadStates
  <2>. QED BY <1>6, <2>1 DEF RaiseExit, Move
<1>7. CASE DeleteStep
  BY <1>7 DEF DeleteStep, DeleteChannel, JoinChannel, Goto, Move, vars, mainVars, ServeInv
<1>8. CASE DeleteDone
  BY <1>8 DEF DeleteDone, Goto, Move, vars, mainVars, ServeInv
<1>9. CASE Terminate("terminate", "comm", "join", "terminateCore")
  BY <1>9 DEF Terminate, Move, vars, mainVars, ServeInv
<1>10. CASE Join("join", "comm", "terminateCore")
  BY <1>10 DEF Join, Move, vars, mainVars, ServeInv
<1>11. CASE Terminate("terminateCore", "core", "joinCore", "done")
  BY <1>11 DEF Terminate, Move, vars, mainVars, ServeInv
<1>12. CASE Join("joinCore", "core", "done")
  BY <1>12 DEF Join, Move, vars, mainVars, ServeInv
<1>13. CASE RX
  <2>1. late' \subseteq {m.cmd : m \in Requests}
    BY <1>13, <1>0 DEF RX
  <2>. QED BY <1>13, <2>1 DEF RX
<1>14. CASE StartFails("create") \/ SetSocketFails
  BY <1>14 DEF StartFails, SetSocketFails, Move, vars, mainVars, ServeInv
<1>15. CASE \E o \in Owners : StartPoint(o)
  BY <1>15 DEF StartPoint, Move, vars, mainVars, ServeInv
<1>16. CASE \E o \in Owners : Stray(o)
  BY <1>16 DEF Stray, Move, vars, mainVars, ServeInv
<1>17. CASE \E o \in Owners : Leave(o)
  BY <1>17 DEF Leave, Move, vars, mainVars, ServeInv
<1>18. CASE \E c \in Channels : Channel(c)
  BY <1>18 DEF Channel, Load, End, Move, vars, mainVars, ServeInv
<1>19. CASE UNCHANGED allVars
  BY <1>19 DEF Over, allVars, Move, vars, mainVars, ServeInv
<1>. QED BY <1>1, <1>2, <1>3, <1>4, <1>5, <1>6, <1>7, <1>8, <1>9, <1>10, <1>11,
            <1>12, <1>13, <1>14, <1>15, <1>16, <1>17, <1>18, <1>19 DEF ProcessNext, MainStep,
                 Over, allVars

(* The command thread never moves main.                                     *)
LEMMA RXLeavesMain ==
  ASSUME TypeOK, RX
  PROVE  pc'["main"] = pc["main"] /\ idx'["main"] = idx["main"]
<1>0. pc \in [Threads -> Places] /\ idx \in [Threads -> 0 .. N] /\ "comm" \in Threads /\ "main" \in Threads
  BY DEF TypeOK, Threads
<1>. QED BY <1>0
  DEF RX, Loop, Datagram, NoDatagram, CommStep, Throw, PlayStart, CreateChannel, CreateDone,
       ToEach,
      SetEach, EachDone, Answer, PlayDelete, PlayClose, DeleteChannel, JoinChannel, CloseDone,
      Goto, Served, control

(* The threads and their objects.                                           *)
LEMMA LifeStep ==
  ASSUME TypeOK, MainTypeOK, LifeInv, [ProcessNext]_allVars
  PROVE  LifeInv'
<1>. USE DEF LifeInv, Before, Owners, p
<1>0. pc \in [Threads -> Places] /\ idx \in [Threads -> 0 .. N] /\ "comm" \in Threads /\ "main" \in Threads
  BY DEF TypeOK, Threads
<1>00. m_eState \in [Owners -> ThreadStates] /\ m_bExit \in [Owners -> BOOLEAN]
  BY DEF MainTypeOK
<1>1. CASE \E raises \in BOOLEAN : Signal(raises)
  BY <1>1, <1>0, <1>00 DEF Signal, Move, vars, mainVars, control
<1>2. CASE StartThread("create", "core", "open") \/ StartThread("open", "comm", "test")
  BY <1>2, <1>0, <1>00 DEF StartThread, Move, vars, mainVars, control
<1>3. CASE Test
  BY <1>3, <1>0, <1>00 DEF Test, Move, vars, mainVars, control
<1>4. CASE Wait
  BY <1>4, <1>0, <1>00 DEF Wait, Move, vars, mainVars, control
<1>5. CASE \E reason \in BOOLEAN : Wake(reason)
  BY <1>5, <1>0, <1>00 DEF Wake, Move, vars, mainVars, control
<1>6. CASE RaiseExit
  BY <1>6, <1>0, <1>00 DEF RaiseExit, Move, vars, mainVars, control
<1>7. CASE DeleteStep
  <2>1. /\ UNCHANGED mainVars /\ pc'["comm"] = pc["comm"] /\ at = "delete"
        /\ pc'["main"] \in {"delete", "join"}
    BY <1>7, <1>0 DEF DeleteStep, DeleteChannel, JoinChannel, Goto
  <2>. QED BY <2>1 DEF mainVars
<1>8. CASE DeleteDone
  BY <1>8, <1>0, <1>00 DEF DeleteDone, Goto, Move, vars, mainVars, control
<1>9. CASE Terminate("terminate", "comm", "join", "terminateCore")
  BY <1>9, <1>0, <1>00 DEF Terminate, Move, vars, mainVars, control
<1>10. CASE Join("join", "comm", "terminateCore")
  BY <1>10, <1>0, <1>00 DEF Join, Move, vars, mainVars, control
<1>11. CASE Terminate("terminateCore", "core", "joinCore", "done")
  BY <1>11, <1>0, <1>00 DEF Terminate, Move, vars, mainVars, control
<1>12. CASE Join("joinCore", "core", "done")
  BY <1>12, <1>0, <1>00 DEF Join, Move, vars, mainVars, control
<1>13. CASE RX
  <2>1. /\ UNCHANGED <<at, m_bExit, m_eState, freed>> /\ m_eState["comm"] = "running"
        /\ pc'["main"] = pc["main"] /\ idx'["main"] = idx["main"]
    BY <1>13, <1>0, RXLeavesMain DEF RX
  <2>2. at \in Before => ~m_bExit["comm"] /\ late' = {}
    BY <1>13 DEF RX
  <2>. QED BY <2>1, <2>2
<1>14. CASE StartFails("create") \/ SetSocketFails
  BY <1>14, <1>0, <1>00 DEF StartFails, SetSocketFails, Move, vars, mainVars, control
<1>15. CASE \E o \in Owners : StartPoint(o)
  BY <1>15, <1>0, <1>00 DEF StartPoint, Move, vars, mainVars, control
<1>16. CASE \E o \in Owners : Stray(o)
  BY <1>16, <1>0, <1>00 DEF Stray, Move, vars, mainVars, control
<1>17. CASE \E o \in Owners : Leave(o)
  BY <1>17, <1>0, <1>00 DEF Leave, Move, vars, mainVars, control
<1>18. CASE \E c \in Channels : Channel(c)
  <2>1. UNCHANGED mainVars /\ UNCHANGED <<pc, idx>>
    BY <1>18 DEF Channel, Load, End, control
  <2>. QED BY <2>1 DEF mainVars
<1>19. CASE UNCHANGED allVars
  BY <1>19, <1>0, <1>00 DEF Over, allVars, Move, vars, mainVars, control
<1>. QED BY <1>1, <1>2, <1>3, <1>4, <1>5, <1>6, <1>7, <1>8, <1>9, <1>10, <1>11,
            <1>12, <1>13, <1>14, <1>15, <1>16, <1>17, <1>18, <1>19 DEF ProcessNext, MainStep,
                 Over, allVars

(* The command being served. Only play_start creates channels, and only     *)
(* commands that use them take the command thread through their loops.      *)
LEMMA ServeStep ==
  ASSUME TypeOK, ServeInv, [ProcessNext]_allVars
  PROVE  ServeInv'
<1>. USE DEF ServeInv, AtSlot, p
<1>0. /\ pc \in [Threads -> Places] /\ idx \in [Threads -> 0 .. N] /\ Threads = {"comm", "main"}
      /\ m_nChannel \in 0 .. N
  BY DEF TypeOK, Threads
<1>00. Plain("unknown") \in Requests
  BY DEF Requests, PlainCommands
<1>1. CASE Quiet
  BY <1>1 DEF Quiet, vars, control
<1>2. CASE \E o \in Owners : Stray(o)
  BY <1>2 DEF Stray, control
<1>3. CASE RaiseExit
  BY <1>3, <1>0 DEF RaiseExit
<1>4. CASE DeleteStep
  BY <1>4, <1>0, CommAssumption DEF DeleteStep, DeleteChannel, JoinChannel, Goto
<1>5. CASE DeleteDone
  BY <1>5, <1>0 DEF DeleteDone, Goto
<1>6. CASE RX
  <2>1. CASE Loop
    BY <2>1, <1>0, <1>00, CommAssumption DEF Loop, Goto, session, channels, control, Harmless,
         Setters
  <2>2. CASE Datagram
    BY <2>2, <1>0, <1>00, CommAssumption DEF Datagram, Goto, session, channels, control,
         Harmless, Setters
  <2>3. CASE NoDatagram
    BY <2>3, <1>0, <1>00, CommAssumption DEF NoDatagram, Goto, session, channels, control,
         Harmless, Setters
  <2>4. CASE Throw
    BY <2>4, <1>0, <1>00, CommAssumption DEF Throw, session, channels, control, Harmless,
         Setters
  <2>5. CASE PlayStart
    BY <2>5, <1>0, <1>00, CommAssumption DEF PlayStart, Goto, Serving, session, channels,
         control, Harmless, Setters
  <2>6. CASE CreateChannel
    BY <2>6, <1>0, <1>00, CommAssumption DEF CreateChannel, session, channels, control,
         Harmless, Setters
  <2>7. CASE CreateDone
    BY <2>7, <1>0, <1>00, CommAssumption DEF CreateDone, Served, Goto, session, channels,
         control, Harmless, Setters
  <2>8. CASE ToEach
    BY <2>8, <1>0, <1>00, CommAssumption DEF ToEach, Goto, session, channels, control,
         Harmless, Setters
  <2>9. CASE SetEach
    BY <2>9, <1>0, <1>00, CommAssumption DEF SetEach, session, channels, control, Harmless,
         Setters
  <2>10. CASE EachDone
    BY <2>10, <1>0, <1>00, CommAssumption DEF EachDone, Served, Goto, session, channels,
         control, Harmless, Setters
  <2>11. CASE Answer
    BY <2>11, <1>0, <1>00, CommAssumption DEF Answer, Served, Goto, session, channels, control,
         Harmless, Setters
  <2>12. CASE PlayDelete
    BY <2>12, <1>0, <1>00, CommAssumption DEF PlayDelete, Served, Goto, Serving, session,
         channels, control, Harmless, Setters
  <2>13. CASE PlayClose
    BY <2>13, <1>0, <1>00, CommAssumption DEF PlayClose, Goto, Serving, session, channels,
         control, Harmless, Setters
  <2>14. CASE DeleteChannel("comm")
    BY <2>14, <1>0, <1>00, CommAssumption DEF DeleteChannel, Goto, session, channels, control,
         Harmless, Setters
  <2>15. CASE JoinChannel("comm")
    BY <2>15, <1>0, <1>00, CommAssumption DEF JoinChannel, Goto, session, channels, control,
         Harmless, Setters
  <2>16. CASE CloseDone
    BY <2>16, <1>0, <1>00, CommAssumption DEF CloseDone, Served, Goto, session, channels,
         control, Harmless, Setters
  <2>. QED BY <1>6, <2>1, <2>2, <2>3, <2>4, <2>5, <2>6, <2>7, <2>8, <2>9, <2>10, <2>11, <2>12,
       <2>13, <2>14, <2>15, <2>16 DEF RX, CommStep
<1>7. CASE \E c \in Channels : Channel(c)
  BY <1>7 DEF Channel, Load, End, control
<1>. QED BY <1>1, <1>2, <1>3, <1>4, <1>5, <1>6, <1>7, Kinds

(* Until m_bExit is raised the process does what Comm does.                 *)
LEMMA BeforeStep ==
  ASSUME LifeInv, BeforeInv, [ProcessNext]_allVars
  PROVE  BeforeInv'
<1>. USE DEF BeforeInv
<1>0. IInv /\ [Next]_vars => IInv'
  BY IStep
<1>1. CASE Quiet
  <2>1. at' \in Before => IInv /\ [Next]_vars
    BY <1>1 DEF Quiet
  <2>. QED BY <1>0, <2>1
<1>2. CASE \E o \in Owners : Stray(o)
  BY <1>2 DEF Stray, LifeInv, Owners
<1>3. CASE RaiseExit \/ DeleteDone
  BY <1>3 DEF RaiseExit, DeleteDone, Move, Before
<1>4. CASE DeleteStep
  BY <1>4 DEF DeleteStep, mainVars, Before
<1>5. CASE RX
  BY <1>5, <1>0, RXIsComm
<1>6. CASE \E c \in Channels : Channel(c)
  BY <1>6, <1>0, ChannelIsComm DEF mainVars
<1>. QED BY <1>1, <1>2, <1>3, <1>4, <1>5, <1>6, Kinds

(* While what is served is harmless, main alone destroys channels: none of  *)
(* them twice, and only those that deleted themselves when they are gone.   *)
LEMMA OnceStep ==
  ASSUME ProcessInv, [ProcessNext]_allVars
  PROVE  OnceInv'
<1>. USE DEF Idle, p
<1>0. /\ pc \in [Threads -> Places] /\ idx \in [Threads -> 0 .. N] /\ Threads = {"comm", "main"}
      /\ m_nChannel \in 0 .. N /\ N \in Nat /\ Channels = 1 .. N
      /\ obj \in [Channels -> Object] /\ touched \subseteq Channels
  BY CommAssumption DEF ProcessInv, TypeOK, Threads, Channels
<1>00. TypeOK /\ LifeInv /\ ServeInv /\ OnceInv /\ BeforeInv
  BY DEF ProcessInv
<1>1. CASE Quiet
  BY <1>1, <1>00 DEF Quiet, OnceInv, vars, control, channels
<1>2. CASE \E o \in Owners : Stray(o)
  BY <1>2, <1>00 DEF Stray, OnceInv, control, channels
<1>3. CASE RaiseExit
  <2>1. /\ IInv /\ late' = IF p \in {"loop", "recv"} THEN {} ELSE {msg.cmd}
        /\ pc' = [pc EXCEPT !["main"] = "delete"]
        /\ UNCHANGED <<idx, obj, exits, missing, touched>>
    BY <1>3, <1>00 DEF RaiseExit, Move, BeforeInv, Before, channels
  <2>2. late' \subseteq Harmless => Idle
    BY <2>1, <1>00 DEF IInv, SlotsInv, ServeInv
  <2>3. late' \subseteq Harmless => exits = {} /\ Idle'
    BY <2>1, <2>2, <1>0 DEF IInv, SlotsInv
  <2>4. pc'["main"] = "delete"
    BY <2>1, <1>0
  <2>. QED BY <2>1, <2>3, <2>4 DEF OnceInv, IInv, GoneInv
<1>4. CASE DeleteStep
  <2>. SUFFICES ASSUME late \subseteq Harmless PROVE OnceInv'
    BY <1>4 DEF DeleteStep, mainVars, OnceInv
  <2>0. /\ at = "delete" /\ at' = at /\ late' = late /\ UNCHANGED missing
        /\ Idle /\ (\A c \in Channels : obj[c] = "gone" => c \in missing) /\ touched \subseteq missing
        /\ exits = (IF pc["main"] = "join" THEN {idx["main"] + 1} ELSE {})
        /\ \A c \in Channels : pc["main"] = "join" /\ c = idx["main"] + 1 => obj[c] # "none"
    BY <1>4, <1>00 DEF DeleteStep, mainVars, OnceInv, Before, DeleteChannel, JoinChannel
  <2>. DEFINE c0 == idx["main"] + 1
  <2>1. CASE DeleteChannel("main")
    <3>1. c0 \in Channels /\ exits = {} /\ UNCHANGED obj /\ pc["main"] = "delete"
      BY <2>0, <2>1, <1>0 DEF DeleteChannel
    <3>2. CASE obj[c0] = "none"
      <4>1. UNCHANGED <<pc, exits, touched>>
        BY <2>1, <3>2 DEF DeleteChannel
      <4>. QED BY <2>0, <3>1, <4>1 DEF OnceInv
    <3>3. CASE obj[c0] # "none"
      <4>1. pc' = [pc EXCEPT !["main"] = "join"] /\ exits' = exits \cup {c0} /\ UNCHANGED idx
        BY <2>1, <3>3 DEF DeleteChannel, Goto
      <4>2. pc'["main"] = "join" /\ pc'["comm"] = pc["comm"]
        BY <4>1, <1>0
      <4>3. touched' = touched \/ (obj[c0] = "gone" /\ touched' = touched \cup {c0})
        BY <2>1, <3>1, <3>3 DEF DeleteChannel, Touch
      <4>4. touched' \subseteq missing
        BY <2>0, <3>1, <4>3
      <4>. QED BY <2>0, <3>1, <3>3, <4>1, <4>2, <4>4 DEF OnceInv
    <3>. QED BY <3>2, <3>3
  <2>2. CASE JoinChannel("main")
    <3>1. c0 \in Channels /\ exits' = exits \ {c0} /\ exits = {c0} /\ obj[c0] # "none"
      BY <2>0, <2>2, <1>0, <1>00 DEF JoinChannel, ServeInv, AtSlot
    <3>2. pc' = [pc EXCEPT !["main"] = "delete"] /\ obj' = [obj EXCEPT ![c0] = "none"]
      BY <2>2 DEF JoinChannel, Goto
    <3>3. pc'["main"] = "delete" /\ pc'["comm"] = pc["comm"]
      BY <3>2, <1>0
    <3>4. touched' = touched \/ (obj[c0] = "gone" /\ touched' = touched \cup {c0})
      BY <2>2, <3>1 DEF JoinChannel, NoObject, Touch
    <3>5. touched' \subseteq missing /\ \A c \in Channels : obj'[c] = "gone" => c \in missing
      BY <2>0, <3>1, <3>2, <3>4, <1>0
    <3>6. exits' = {}
      BY <3>1
    <3>. QED BY <2>0, <3>3, <3>5, <3>6 DEF OnceInv
  <2>. QED BY <1>4, <2>1, <2>2 DEF DeleteStep
<1>5. CASE DeleteDone
  <2>1. pc' = [pc EXCEPT !["main"] = "over"] /\ UNCHANGED <<idx, late, obj, exits, missing, touched>>
    BY <1>5 DEF DeleteDone, Goto, channels
  <2>2. pc'["main"] = "over" /\ pc'["comm"] = pc["comm"] /\ pc["main"] = "delete" /\ at = "delete"
    BY <1>5, <2>1, <1>0 DEF DeleteDone, Move
  <2>. QED BY <1>00, <2>1, <2>2 DEF OnceInv, Before
<1>6. CASE RX
  <2>1. UNCHANGED at /\ (at \notin Before => m_bExit["comm"])
    BY <1>6, <1>00 DEF RX, LifeInv
  <2>2. pc'["main"] = pc["main"] /\ idx'["main"] = idx["main"]
    BY <1>6, <1>00, RXLeavesMain
  <2>. SUFFICES ASSUME at \notin Before, late' \subseteq Harmless PROVE OnceInv'
    BY <2>1 DEF OnceInv
  <2>3. late \subseteq Harmless
    BY <1>6, <2>1 DEF RX
  <2>4. CommStep => msg.cmd \in Harmless
    BY <1>6, <2>1 DEF RX, CommStep, Loop, Datagram, NoDatagram, Throw, PlayStart,
         CreateChannel, CreateDone, ToEach,
      SetEach, EachDone, Answer, PlayDelete, PlayClose, DeleteChannel, JoinChannel, CloseDone, Serving
  <2>5. Idle' /\ UNCHANGED <<obj, exits, missing, touched>>
    <3>1. CASE Loop
      BY <3>1, <1>0, <1>00, <2>1, <2>3, <2>4 DEF Loop, Goto, session, channels, control,
           Harmless, Setters, OnceInv
    <3>2. CASE Datagram
      BY <3>2, <1>0, <1>00, <2>1, <2>3, <2>4 DEF Datagram, Goto, session, channels, control,
           Harmless, Setters, OnceInv
    <3>3. CASE NoDatagram
      BY <3>3, <1>0, <1>00, <2>1, <2>3, <2>4 DEF NoDatagram, Goto, session, channels, control,
           Harmless, Setters, OnceInv
    <3>4. CASE Throw
      BY <3>4, <1>0, <1>00, <2>1, <2>3, <2>4 DEF Throw, session, channels, control, Harmless,
           Setters, OnceInv
    <3>5. CASE PlayStart
      BY <3>5, <2>4 DEF CommStep, PlayStart, Serving, Setters, Harmless
    <3>6. CASE CreateChannel
      BY <3>6, <1>0, <1>00, <2>1, <2>3, <2>4 DEF CreateChannel, session, channels, control,
           Harmless, Setters, OnceInv
    <3>7. CASE CreateDone
      BY <3>7, <1>0, <1>00, <2>1, <2>3, <2>4 DEF CreateDone, Served, Goto, session, channels,
           control, Harmless, Setters, OnceInv
    <3>8. CASE ToEach
      BY <3>8, <2>4 DEF CommStep, ToEach, Serving, Setters, Harmless
    <3>9. CASE SetEach
      BY <3>9, <1>0, <1>00, <2>1, <2>3, <2>4 DEF SetEach, session, channels, control, Harmless,
           Setters, OnceInv
    <3>10. CASE EachDone
      BY <3>10, <1>0, <1>00, <2>1, <2>3, <2>4 DEF EachDone, Served, Goto, session, channels,
           control, Harmless, Setters, OnceInv
    <3>11. CASE Answer
      BY <3>11, <1>0, <1>00, <2>1, <2>3, <2>4 DEF Answer, Served, Goto, session, channels,
           control, Harmless, Setters, OnceInv
    <3>12. CASE PlayDelete
      BY <3>12, <1>0, <1>00, <2>1, <2>3, <2>4 DEF PlayDelete, Served, Goto, Serving, session,
           channels, control, Harmless, Setters, OnceInv
    <3>13. CASE PlayClose
      BY <3>13, <2>4 DEF CommStep, PlayClose, Serving, Setters, Harmless
    <3>14. CASE DeleteChannel("comm")
      BY <3>14, <1>0, <1>00, <2>1, <2>3, <2>4 DEF DeleteChannel, Goto, session, channels,
           control, Harmless, Setters, OnceInv
    <3>15. CASE JoinChannel("comm")
      BY <3>15, <1>0, <1>00, <2>1, <2>3, <2>4 DEF JoinChannel, Goto, session, channels,
           control, Harmless, Setters, OnceInv
    <3>16. CASE CloseDone
      BY <3>16, <1>0, <1>00, <2>1, <2>3, <2>4 DEF CloseDone, Served, Goto, session, channels,
           control, Harmless, Setters, OnceInv
    <3>. QED BY <1>6, <3>1, <3>2, <3>3, <3>4, <3>5, <3>6, <3>7, <3>8, <3>9, <3>10, <3>11,
         <3>12, <3>13, <3>14, <3>15, <3>16 DEF RX, CommStep
  <2>. QED BY <1>00, <2>1, <2>2, <2>3, <2>5 DEF OnceInv
<1>7. CASE \E c \in Channels : Channel(c)
  <2>. PICK c \in Channels : Channel(c)
    BY <1>7
  <2>1. UNCHANGED <<at, late, pc, idx, exits, touched>> /\ missing \subseteq missing'
    BY DEF Channel, Load, End, control, mainVars
  <2>2. \A d \in Channels : obj'[d] = "gone" => obj[d] = "gone" \/ d \in missing'
    BY <1>0 DEF Channel, Load, End
  <2>3. \A d \in Channels : obj'[d] = "none" => obj[d] = "none"
    BY <1>0 DEF Channel, Load, End
  <2>. QED BY <1>00, <2>1, <2>2, <2>3 DEF OnceInv
<1>. QED BY <1>1, <1>2, <1>3, <1>4, <1>5, <1>6, <1>7, Kinds

(* While none of the commands served is play_start, the slots only empty:   *)
(* two loops may go over them, and behind each of them there is none left.  *)
LEMMA EmptyStep ==
  ASSUME ProcessInv, [ProcessNext]_allVars
  PROVE  EmptyInv'
<1>. USE DEF p, k
<1>0. /\ pc \in [Threads -> Places] /\ idx \in [Threads -> 0 .. N] /\ Threads = {"comm", "main"}
      /\ m_nChannel \in 0 .. N /\ N \in Nat /\ Channels = 1 .. N
      /\ obj \in [Channels -> Object]
  BY CommAssumption DEF ProcessInv, TypeOK, Threads, Channels
<1>00. TypeOK /\ LifeInv /\ ServeInv /\ EmptyInv /\ BeforeInv
  BY DEF ProcessInv
<1>1. CASE Quiet
  BY <1>1, <1>00 DEF Quiet, EmptyInv, vars, control, session, channels
<1>2. CASE \E o \in Owners : Stray(o)
  BY <1>2, <1>00 DEF Stray, EmptyInv, control, session, channels
<1>3. CASE RaiseExit
  <2>1. /\ IInv /\ late' = (IF p \in {"loop", "recv"} THEN {} ELSE {msg.cmd})
        /\ pc' = [pc EXCEPT !["main"] = "delete"] /\ at' = "delete"
        /\ UNCHANGED <<idx, obj, m_nChannel>> /\ idx["main"] = 0
    BY <1>3, <1>00 DEF RaiseExit, Move, BeforeInv, LifeInv, Before, channels, session
  <2>2. "play_start" \notin late' => p # "create"
    BY <2>1, <1>00 DEF ServeInv
  <2>3. p' = p
    BY <2>1, <1>0
  <2>4. \A c \in Channels : obj[c] # "none" /\ p # "create" =>
           c <= m_nChannel /\ (p \in {"delete", "join"} => c > k) /\ c > 0
    BY <2>1, <1>0 DEF IInv, SlotsInv, Idle
  <2>. QED BY <2>1, <2>2, <2>3, <2>4 DEF EmptyInv
<1>4. CASE DeleteStep
  <2>. SUFFICES ASSUME "play_start" \notin late PROVE EmptyInv'
    BY <1>4 DEF DeleteStep, mainVars, EmptyInv
  <2>0. /\ at = "delete" /\ at' = at /\ late' = late /\ UNCHANGED m_nChannel
        /\ p # "create" /\ \A c \in Channels : obj[c] # "none" =>
             c <= m_nChannel /\ (p \in {"delete", "join"} => c > k) /\ c > idx["main"]
    BY <1>4, <1>00 DEF DeleteStep, mainVars, EmptyInv, Before, DeleteChannel, JoinChannel,
         session
  <2>1. pc'["comm"] = pc["comm"] /\ idx'["comm"] = idx["comm"]
    BY <1>4, <1>0 DEF DeleteStep, DeleteChannel, JoinChannel, Goto
  <2>2. CASE DeleteChannel("main")
    <3>1. UNCHANGED obj /\ idx["main"] + 1 \in Channels
      BY <2>2, <1>0 DEF DeleteChannel
    <3>2. idx' = idx \/ (obj[idx["main"] + 1] = "none" /\ idx' = [idx EXCEPT !["main"] = idx["main"] + 1])
      BY <2>2 DEF DeleteChannel
    <3>3. \A c \in Channels : obj[c] # "none" => c > idx'["main"]
      BY <2>0, <3>1, <3>2, <1>0
    <3>. QED BY <2>0, <2>1, <3>1, <3>3 DEF EmptyInv
  <2>3. CASE JoinChannel("main")
    <3>1. /\ obj' = [obj EXCEPT ![idx["main"] + 1] = "none"]
          /\ idx' = [idx EXCEPT !["main"] = idx["main"] + 1]
      BY <2>3 DEF JoinChannel
    <3>2. \A c \in Channels : obj'[c] # "none" => obj[c] # "none" /\ c > idx'["main"]
      BY <2>0, <3>1, <1>0
    <3>. QED BY <2>0, <2>1, <3>2 DEF EmptyInv
  <2>. QED BY <1>4, <2>2, <2>3 DEF DeleteStep
<1>5. CASE DeleteDone
  <2>1. /\ pc' = [pc EXCEPT !["main"] = "over"] /\ UNCHANGED <<idx, late, obj, m_nChannel>>
        /\ idx["main"] >= m_nChannel /\ at = "delete"
    BY <1>5 DEF DeleteDone, Goto, Move, channels, session
  <2>2. pc'["comm"] = pc["comm"]
    BY <2>1, <1>0
  <2>3. "play_start" \notin late => \A c \in Channels : obj[c] = "none"
    BY <1>0, <1>00, <2>1 DEF EmptyInv, Before
  <2>. QED BY <1>00, <2>1, <2>2, <2>3 DEF EmptyInv, Before
<1>6. CASE RX
  <2>1. UNCHANGED at /\ (at \notin Before => m_bExit["comm"])
    BY <1>6, <1>00 DEF RX, LifeInv
  <2>2. idx'["main"] = idx["main"]
    BY <1>6, <1>00, RXLeavesMain
  <2>. SUFFICES ASSUME at \notin Before, "play_start" \notin late' PROVE EmptyInv'
    BY <2>1 DEF EmptyInv
  <2>3. "play_start" \notin late
    BY <1>6, <2>1 DEF RX
  <2>4. CommStep => msg.cmd # "play_start"
    BY <1>6, <2>1 DEF RX, CommStep, Loop, Datagram, NoDatagram, Throw, PlayStart,
         CreateChannel, CreateDone, ToEach,
      SetEach, EachDone, Answer, PlayDelete, PlayClose, DeleteChannel, JoinChannel, CloseDone, Serving
  <2>5. /\ p # "create"
        /\ \A c \in Channels : obj[c] # "none" =>
             c <= m_nChannel /\ (p \in {"delete", "join"} => c > k) /\ (at = "delete" /\ c > idx["main"])
    BY <1>00, <2>1, <2>3 DEF EmptyInv
  <2>6. /\ p' # "create"
        /\ \A c \in Channels : obj'[c] # "none" =>
             obj[c] # "none" /\ c <= m_nChannel' /\ (p' \in {"delete", "join"} => c > k')
    <3>1. CASE Loop
      BY <3>1, <1>0, <1>00, <2>4, <2>5 DEF Loop, Goto, session, channels, control, Setters
    <3>2. CASE Datagram
      BY <3>2, <1>0, <1>00, <2>4, <2>5 DEF Datagram, Goto, session, channels, control, Setters
    <3>3. CASE NoDatagram
      BY <3>3, <1>0, <1>00, <2>4, <2>5 DEF NoDatagram, Goto, session, channels, control, Setters
    <3>4. CASE Throw
      BY <3>4, <1>0, <1>00, <2>4, <2>5 DEF Throw, session, channels, control, Setters
    <3>5. CASE PlayStart
      BY <3>5, <2>4 DEF CommStep, PlayStart, Serving
    <3>6. CASE CreateChannel
      BY <3>6, <1>0, <1>00, <2>4, <2>5 DEF CreateChannel, session, channels, control, Setters
    <3>7. CASE CreateDone
      BY <3>7, <1>0, <1>00, <2>4, <2>5 DEF CreateDone, Served, Goto, session, channels,
           control, Setters
    <3>8. CASE ToEach
      BY <3>8, <1>0, <1>00, <2>4, <2>5 DEF ToEach, Goto, session, channels, control, Setters
    <3>9. CASE SetEach
      BY <3>9, <1>0, <1>00, <2>4, <2>5 DEF SetEach, session, channels, control, Setters
    <3>10. CASE EachDone
      BY <3>10, <1>0, <1>00, <2>4, <2>5 DEF EachDone, Served, Goto, session, channels, control,
           Setters
    <3>11. CASE Answer
      BY <3>11, <1>0, <1>00, <2>4, <2>5 DEF Answer, Served, Goto, session, channels, control,
           Setters
    <3>12. CASE PlayDelete
      BY <3>12, <1>0, <1>00, <2>4, <2>5 DEF PlayDelete, Served, Goto, Serving, session,
           channels, control, Setters
    <3>13. CASE PlayClose
      BY <3>13, <1>0, <1>00, <2>4, <2>5 DEF PlayClose, Goto, Serving, session, channels,
           control, Setters
    <3>14. CASE DeleteChannel("comm")
      BY <3>14, <1>0, <1>00, <2>4, <2>5 DEF DeleteChannel, Goto, session, channels, control,
           Setters
    <3>15. CASE JoinChannel("comm")
      BY <3>15, <1>0, <1>00, <2>4, <2>5 DEF JoinChannel, Goto, session, channels, control,
           Setters
    <3>16. CASE CloseDone
      BY <3>16, <1>0, <1>00, <2>4, <2>5 DEF CloseDone, Served, Goto, session, channels,
           control, Setters
    <3>. QED BY <1>6, <3>1, <3>2, <3>3, <3>4, <3>5, <3>6, <3>7, <3>8, <3>9, <3>10, <3>11,
         <3>12, <3>13, <3>14, <3>15, <3>16 DEF RX, CommStep
  <2>. QED BY <2>1, <2>2, <2>5, <2>6 DEF EmptyInv
<1>7. CASE \E c \in Channels : Channel(c)
  <2>. PICK c \in Channels : Channel(c)
    BY <1>7
  <2>1. UNCHANGED <<at, late, pc, idx, m_nChannel>>
    BY DEF Channel, Load, End, control, session, mainVars
  <2>2. \A d \in Channels : obj'[d] # "none" => obj[d] # "none"
    BY <1>0 DEF Channel, Load, End
  <2>. QED BY <1>00, <2>1, <2>2 DEF EmptyInv
<1>. QED BY <1>1, <1>2, <1>3, <1>4, <1>5, <1>6, <1>7, Kinds

(* All of it holds in every reachable state of the process.                 *)
LEMMA ProcessInvariance == ProcessSpec => []ProcessInv
<1>1. ProcessInv /\ [ProcessNext]_allVars => ProcessInv'
  BY ProcessTypeStep, MainTypeStep, ServeStep, LifeStep, BeforeStep, OnceStep, EmptyStep
     DEF ProcessInv, ServeInv
<1>. QED BY <1>1, InitProcessInv, PTL DEF ProcessSpec

(* The command manager is freed only when its thread has ended or has not   *)
(* begun, whatever comes while main takes it down.                          *)
THEOREM ManagerOutlives == ProcessSpec => []ServesOnLiveManager
<1>1. ProcessInv => ServesOnLiveManager
  BY DEF ProcessInv, LifeInv, ServesOnLiveManager, p
<1>. QED BY <1>1, ProcessInvariance, PTL

(* Main destroys every channel once and leaves none, though the command     *)
(* thread is neither stopped nor locked out, as long as what that serves    *)
(* meanwhile leaves channels alone, and is no play_start.                   *)
THEOREM ProcessEnds == ProcessSpec => []EndInv
<1>1. ProcessInv => DestroyedOnce
  <2>. SUFFICES ASSUME ProcessInv, late \subseteq Harmless PROVE touched \subseteq missing
    BY DEF DestroyedOnce, Harmless
  <2>1. CASE at \in Before
    BY <2>1 DEF ProcessInv, BeforeInv, IInv, GoneInv
  <2>2. CASE at \notin Before
    BY <2>2 DEF ProcessInv, OnceInv
  <2>. QED BY <2>1, <2>2
<1>2. ProcessInv => NoneLeft
  BY DEF ProcessInv, EmptyInv, Before, NoneLeft
<1>3. ProcessInv => EndInv
  BY <1>1, <1>2 DEF ProcessInv, EndInv
<1>. QED BY <1>3, ProcessInvariance, PTL
-----------------------------------------------------------------------------
(* The reader of the commands, for any document it is given.                *)

(* Prefixes, element by element.                                            *)
LEMMA PrefixByElements ==
  ASSUME NEW K, NEW s \in Seq(K), NEW t \in Seq(K)
  PROVE  IsPrefix(s, t) <=> Len(s) <= Len(t) /\ \A i \in 1 .. Len(s) : s[i] = t[i]
<1>1. /\ Len(s) \in Nat /\ Len(t) \in Nat
      /\ \A i \in 1 .. Len(s) : s[i] \in K
      /\ \A i \in 1 .. Len(t) : t[i] \in K
  BY LenProperties, ElementOfSeq
<1>. SUFFICES ASSUME Len(s) <= Len(t)
              PROVE  SubSeq(s, 1, Len(s)) = SubSeq(t, 1, Len(s)) <=> \A i \in 1 .. Len(s) : s[i] = t[i]
  BY DEF IsPrefix
<1>. DEFINE a == SubSeq(s, 1, Len(s))
            c == SubSeq(t, 1, Len(s))
<1>2. a \in Seq(K) /\ Len(a) = Len(s) /\ \A i \in 1 .. Len(s) : a[i] = s[i]
  BY <1>1, SubSeqFull
<1>3. c \in Seq(K) /\ Len(c) = Len(s) /\ \A i \in 1 .. Len(s) : c[i] = t[i]
  <2>1. 1 \in Int /\ Len(s) \in Int /\ \A i \in 1 .. Len(s) : t[i] \in K
    BY <1>1
  <2>2. /\ c \in Seq(K) /\ Len(c) = IF 1 <= Len(s) THEN Len(s) - 1 + 1 ELSE 0
        /\ \A i \in 1 .. Len(s) - 1 + 1 : c[i] = t[1 + i - 1]
    BY <2>1, SubSeqProperties
  <2>3. Len(c) = Len(s)
    BY <1>1, <2>2
  <2>4. \A i \in 1 .. Len(s) : i \in 1 .. Len(s) - 1 + 1 /\ 1 + i - 1 = i
    BY <1>1
  <2>. QED BY <2>2, <2>3, <2>4
<1>. HIDE DEF a, c
<1>4. (\A i \in 1 .. Len(s) : a[i] = c[i]) => a = c
  BY <1>2, <1>3, SeqEqual
<1>5. a = c <=> \A i \in 1 .. Len(s) : s[i] = t[i]
  BY <1>2, <1>3, <1>4
<1>. QED BY <1>5 DEF a, c

(* Prefixes of a sequence, by their lengths.                                 *)
LEMMA PrefixFacts ==
  ASSUME NEW K, NEW s \in Seq(K), NEW t \in Seq(K)
  PROVE  /\ IsPrefix(s, s)
         /\ IsPrefix(s, t) => Len(s) <= Len(t)
         /\ IsPrefix(s, t) /\ Len(s) = Len(t) => s = t
<1>1. IsPrefix(s, s)
  <2>1. Len(s) <= Len(s)
    BY LenProperties
  <2>. QED BY <2>1, PrefixByElements
<1>2. IsPrefix(s, t) /\ Len(s) = Len(t) => s = t
  BY PrefixByElements, SeqEqual
<1>. QED BY <1>1, <1>2 DEF IsPrefix

(* A prefix of a prefix is one.                                              *)
LEMMA PrefixTrans ==
  ASSUME NEW K, NEW s \in Seq(K), NEW t \in Seq(K), NEW u \in Seq(K),
         IsPrefix(s, t), IsPrefix(t, u)
  PROVE  IsPrefix(s, u)
<1>1. Len(s) \in Nat /\ Len(t) \in Nat /\ Len(u) \in Nat
  BY LenProperties
<1>2. /\ Len(s) <= Len(t) /\ \A i \in 1 .. Len(s) : s[i] = t[i]
      /\ Len(t) <= Len(u) /\ \A i \in 1 .. Len(t) : t[i] = u[i]
  BY PrefixByElements
<1>3. Len(s) <= Len(u) /\ \A i \in 1 .. Len(s) : s[i] = u[i]
  BY <1>1, <1>2
<1>. QED BY <1>3, PrefixByElements

(* A value is above its parts.                                               *)
LEMMA PrefixAppend ==
  ASSUME NEW K, NEW s \in Seq(K), NEW key \in K
  PROVE  IsPrefix(s, Append(s, key))
<1>1. /\ Append(s, key) \in Seq(K) /\ Len(Append(s, key)) = Len(s) + 1
      /\ \A i \in 1 .. Len(s) : Append(s, key)[i] = s[i]
  BY AppendProperties
<1>2. Len(s) <= Len(s) + 1
  BY LenProperties
<1>. QED BY <1>1, <1>2, PrefixByElements

\* A value that is one node.
OneNode(node) == [r \in {<<>>} |-> node]

\* What Put does to a tree, for such a value.
PutNode(v, path, node) ==
    [q \in (DOMAIN v \ Under(v, path)) \cup {path} |-> IF q = path THEN node ELSE v[q]]

(* It does that: nothing is left of what was below the path.                 *)
LEMMA PutLeaf ==
  ASSUME NEW K, NEW path \in Seq(K), NEW v, NEW node
  PROVE  Put(v, path, OneNode(node)) = PutNode(v, path, node)
<1>. DEFINE w == OneNode(node)
<1>1. path \o <<>> = path
  BY ConcatEmptySeq
<1>2. Rest(path, path) = <<>>
  <2>1. Len(path) + 1 \in Int /\ Len(path) \in Int /\ Len(path) < Len(path) + 1
    BY LenProperties
  <2>. QED BY <2>1, SubSeqEmpty DEF Rest
<1>3. {path \o r : r \in DOMAIN w} = {path} /\ w[<<>>] = node
  BY <1>1 DEF OneNode
<1>4. IsPrefix(path, path)
  BY PrefixFacts
<1>5. Put(v, path, w) = [q \in (DOMAIN v \ Under(v, path)) \cup {path} |->
                           IF IsPrefix(path, q) THEN w[Rest(path, q)] ELSE v[q]]
  BY <1>3 DEF Put
<1>6. ASSUME NEW q \in (DOMAIN v \ Under(v, path)) \cup {path}
      PROVE  (IF IsPrefix(path, q) THEN w[Rest(path, q)] ELSE v[q])
             = (IF q = path THEN node ELSE v[q])
  BY <1>2, <1>3, <1>4 DEF Under
<1>. QED BY <1>5, <1>6 DEF PutNode

(* A scalar is one node.                                                     *)
LEMMA DecodeLeaf ==
  ASSUME NEW lexeme, IsScalar(lexeme)
  PROVE  \A w \in Decode(lexeme) : \E node : w = OneNode(node)
<1>1. \A type, num, str : \E node : Leaf(type, num, str) = OneNode(node)
  BY DEF Leaf, OneNode
<1>2. \A w \in DecodeNumber(lexeme) : \E node : w = OneNode(node)
  <2>1. \A w \in DecodeDouble(lexeme) : \E node : w = OneNode(node)
    BY <1>1 DEF DecodeDouble, RealValue
  <2>2. \A n : (\E node : IntValue(n) = OneNode(node)) /\ (\E node : UIntValue(n) = OneNode(node))
    BY <1>1 DEF IntValue, UIntValue
  <2>. QED BY <2>1, <2>2 DEF DecodeNumber
<1>3. \A w \in {StringValue(bytes) : bytes \in DecodeString(lexeme.text)} : \E node : w = OneNode(node)
  BY <1>1 DEF StringValue
<1>4. \A t : \E node : BooleanValue(t) = OneNode(node)
  BY <1>1 DEF BooleanValue
<1>5. \E node : Null = OneNode(node)
  BY <1>1 DEF Null
<1>. QED BY <1>2, <1>3, <1>4, <1>5 DEF Decode, IsScalar


\* Where the innermost call is: in readObject or readArray, or at a value.
InObjectAt == {"name", "colon", "comma", "after comment"}
InArrayAt  == {"first", "separator"}
Within     == InObjectAt \cup InArrayAt \cup {"recover"}
Outside    == {"value", "thrown", "trail", "done"}

\* The paths are sequences of keys, over some set of keys.
PathInv == \E K : nodes_ \in Seq(Seq(K)) /\ lastValue_ \subseteq Seq(K)

IsFrame(f) == f = [type |-> f.type, name |-> f.name, index |-> f.index]

\* The calls that are open, and that nodes_ has one value for each of them, and
\* one more while a value is being read.
FrameInv ==
    /\ \E F : frames \in Seq(F)
    /\ \A i \in 1 .. Len(frames) : IsFrame(frames[i]) /\ frames[i].type \in {"object", "array"}
    /\ r_pc \in Within \cup Outside
    /\ r_pc \in Within => frames # <<>> /\ Len(nodes_) = Len(frames)
    /\ r_pc \in Outside => Len(nodes_) = Len(frames) + 1
    /\ r_pc \in {"trail", "done"} => frames = <<>>
    /\ r_pc \in InObjectAt => Frame.type = "object"
    /\ r_pc \in InArrayAt => Frame.type = "array"

\* nodes_ goes down the tree, one level each, through containers of the type that
\* the call expects.
ChainInv ==
    /\ \A i \in 1 .. Len(nodes_) : nodes_[i] \in DOMAIN root /\ Len(nodes_[i]) = i - 1
    /\ r_pc = "value" /\ frames # <<>> => IsPrefix(nodes_[Len(frames)], currentValue)
    /\ \A i \in 1 .. Len(frames) : root[nodes_[i]].type = frames[i].type

\* The value that ended last is no deeper than the next one may be: what is opened
\* there puts nothing in the place of it.
LastInv ==
    /\ lastValue_ \subseteq DOMAIN root
    /\ r_pc = "value" /\ frames = <<>> => lastValue_ = {}
    /\ \A q \in lastValue_ : frames # <<>> /\ IsPrefix(nodes_[Len(frames)], q) => Len(q) <= Len(frames)

ReaderInv == PathInv /\ FrameInv /\ ChainInv /\ LastInv

(* Nothing is read yet.                                                      *)
LEMMA InitReaderInv == ReaderStart => ReaderInv
<1>. SUFFICES ASSUME ReaderStart PROVE ReaderInv
  OBVIOUS
<1>1. /\ nodes_ = <<<<>>>> /\ frames = <<>> /\ lastValue_ = {} /\ r_pc = "value"
      /\ <<>> \in DOMAIN root
  <2>1. <<>> \in DOMAIN Null
    BY DEF Null, Leaf
  <2>2. \A old \in OldRoots : <<>> \in DOMAIN old
    BY ReaderAssumption DEF IsValue
  <2>. QED BY <2>1, <2>2 DEF ReaderStart, ReaderInit
<1>2. nodes_ \in Seq(Seq({})) /\ Len(nodes_) = 1 /\ nodes_[1] = <<>>
  BY <1>1
<1>3. frames \in Seq({}) /\ Len(frames) = 0
  BY <1>1
<1>4. PathInv
  BY <1>1, <1>2 DEF PathInv
<1>5. FrameInv
  BY <1>1, <1>2, <1>3 DEF FrameInv, Within, Outside, InObjectAt, InArrayAt
<1>6. ChainInv
  BY <1>1, <1>2, <1>3 DEF ChainInv
<1>7. LastInv
  BY <1>1 DEF LastInv
<1>. QED BY <1>4, <1>5, <1>6, <1>7 DEF ReaderInv

(* What Front returns.                                                       *)
LEMMA FrontFacts ==
  ASSUME NEW S, NEW s \in Seq(S), s # <<>>
  PROVE  /\ Front(s) \in Seq(S) /\ Len(Front(s)) = Len(s) - 1 /\ Len(s) \in Nat \ {0}
         /\ \A i \in 1 .. Len(s) - 1 : Front(s)[i] = s[i]
<1>1. Len(s) \in Nat \ {0} /\ \A i \in 1 .. Len(s) : s[i] \in S
  BY EmptySeq, ElementOfSeq
<1>2. 1 \in Int /\ Len(s) - 1 \in Int /\ \A i \in 1 .. Len(s) - 1 : s[i] \in S
  BY <1>1
<1>3. /\ Front(s) \in Seq(S)
      /\ Len(Front(s)) = IF 1 <= Len(s) - 1 THEN (Len(s) - 1) - 1 + 1 ELSE 0
      /\ \A i \in 1 .. (Len(s) - 1) - 1 + 1 : Front(s)[i] = s[1 + i - 1]
  BY <1>2, SubSeqProperties DEF Front
<1>4. \A i \in 1 .. Len(s) - 1 : i \in 1 .. (Len(s) - 1) - 1 + 1 /\ 1 + i - 1 = i
  BY <1>1
<1>5. Len(Front(s)) = Len(s) - 1
  <2>1. \A n \in Nat \ {0} : (IF 1 <= n - 1 THEN (n - 1) - 1 + 1 ELSE 0) = n - 1
    OBVIOUS
  <2>. QED BY <1>1, <1>3, <2>1, Zenon
<1>6. \A i \in 1 .. Len(s) - 1 : Front(s)[i] = s[i]
  BY <1>3, <1>4
<1>. QED BY <1>1, <1>3, <1>5, <1>6

(* Where a value is read, and where a container is open.                     *)
LEMMA CurrentFacts ==
  ASSUME ReaderInv, NEW K, nodes_ \in Seq(Seq(K))
  PROVE  /\ Len(nodes_) \in Nat \ {0} /\ nodes_ # <<>> /\ Len(frames) \in Nat
         /\ Len(nodes_) = Len(frames) + (IF r_pc \in Within THEN 0 ELSE 1)
         /\ r_pc \in Within => frames # <<>> /\ Len(frames) \in 1 .. Len(frames)
         /\ \A i \in 1 .. Len(nodes_) : nodes_[i] \in Seq(K)
         /\ currentValue \in Seq(K) /\ currentValue \in DOMAIN root
         /\ currentValue = nodes_[Len(nodes_)] /\ Len(currentValue) = Len(nodes_) - 1
<1>. PICK F : frames \in Seq(F)
  BY DEF ReaderInv, FrameInv
<1>1. Len(nodes_) \in Nat /\ Len(frames) \in Nat /\ (frames # <<>> => Len(frames) > 0)
  BY LenProperties, EmptySeq
<1>2. /\ Len(nodes_) = Len(frames) + (IF r_pc \in Within THEN 0 ELSE 1)
      /\ r_pc \in Within => frames # <<>>
  BY <1>1 DEF ReaderInv, FrameInv
<1>3. Len(nodes_) \in Nat \ {0} /\ (r_pc \in Within => Len(frames) \in 1 .. Len(frames))
  BY <1>1, <1>2
<1>4. \A i \in 1 .. Len(nodes_) : nodes_[i] \in Seq(K)
  BY ElementOfSeq
<1>5. nodes_ # <<>> /\ Len(nodes_) \in 1 .. Len(nodes_)
  BY <1>3, EmptySeq
<1>6. currentValue = nodes_[Len(nodes_)]
  BY DEF currentValue, Last
<1>7. currentValue \in Seq(K) /\ currentValue \in DOMAIN root /\ Len(currentValue) = Len(nodes_) - 1
  BY <1>4, <1>5, <1>6 DEF ReaderInv, ChainInv
<1>. QED BY <1>1, <1>2, <1>3, <1>4, <1>5, <1>6, <1>7

(* A node is put into the tree below the first n values that are read.        *)
LEMMA RootStep ==
  ASSUME ReaderInv, NEW K, nodes_ \in Seq(Seq(K)), lastValue_ \subseteq Seq(K),
         NEW path \in Seq(K), NEW node, root' = Put(root, path, OneNode(node)),
         NEW n \in Nat, n <= Len(nodes_), n <= Len(path)
  PROVE  /\ \A i \in 1 .. n : nodes_[i] \in DOMAIN root' /\ root'[nodes_[i]] = root[nodes_[i]]
         /\ path \in DOMAIN root' /\ root'[path] = node
         /\ \A q \in lastValue_ : (IsPrefix(path, q) => Len(q) <= Len(path)) => q \in DOMAIN root'
<1>1. /\ DOMAIN root' = (DOMAIN root \ Under(root, path)) \cup {path}
      /\ root'[path] = node
      /\ \A q \in DOMAIN root : ~IsPrefix(path, q) => root'[q] = root[q]
  <2>1. root' = PutNode(root, path, node)
    BY PutLeaf
  <2>2. IsPrefix(path, path)
    BY PrefixFacts
  <2>. QED BY <2>1, <2>2 DEF Under, PutNode
<1>2. ASSUME NEW i \in 1 .. n
      PROVE  nodes_[i] \in DOMAIN root' /\ root'[nodes_[i]] = root[nodes_[i]]
  <2>1. nodes_[i] \in Seq(K) /\ nodes_[i] \in DOMAIN root /\ Len(nodes_[i]) = i - 1
    BY CurrentFacts DEF ReaderInv, ChainInv
  <2>2. ~IsPrefix(path, nodes_[i])
    <3>1. Len(path) \in Nat /\ ~(Len(path) <= i - 1)
      BY LenProperties
    <3>. QED BY <2>1, <3>1, PrefixFacts
  <2>. QED BY <1>1, <2>1, <2>2 DEF Under
<1>3. ASSUME NEW q \in lastValue_, IsPrefix(path, q) => Len(q) <= Len(path)
      PROVE  q \in DOMAIN root'
  <2>1. q \in Seq(K) /\ q \in DOMAIN root
    BY DEF ReaderInv, LastInv
  <2>2. CASE IsPrefix(path, q)
    <3>1. Len(q) \in Nat /\ Len(path) \in Nat /\ Len(path) <= Len(q)
      BY <2>1, <2>2, LenProperties, PrefixFacts
    <3>2. path = q
      BY <1>3, <2>1, <2>2, <3>1, PrefixFacts
    <3>. QED BY <1>1, <3>2
  <2>3. CASE ~IsPrefix(path, q)
    BY <1>1, <2>1, <2>3 DEF Under
  <2>. QED BY <2>2, <2>3
<1>. QED BY <1>1, <1>2, <1>3

(* readValue returns.                                                        *)
LEMMA ReturnStep ==
  ASSUME ReaderInv, NEW K, nodes_ \in Seq(Seq(K)), NEW ok, NEW fs,
         \/ fs = frames /\ r_pc = "value"
         \/ fs = Front(frames) /\ r_pc \in Within,
         Return(fs, ok)
  PROVE  /\ FrameInv' /\ r_pc' # "value"
         /\ nodes_' \in Seq(Seq(K)) /\ frames' = fs
         /\ Len(nodes_') <= Len(nodes_) /\ \A i \in 1 .. Len(nodes_') : nodes_'[i] = nodes_[i]
         /\ Len(fs) <= Len(frames) /\ Len(fs) <= Len(nodes_) - 1 /\ Len(fs) <= Len(nodes_')
         /\ Len(fs) \in Nat /\ \A i \in 1 .. Len(fs) : fs[i] = frames[i]
<1>. PICK F : frames \in Seq(F)
  BY DEF ReaderInv, FrameInv
<1>1. /\ fs \in Seq(F) /\ Len(fs) \in Nat /\ Len(fs) = Len(nodes_) - 1
      /\ Len(fs) <= Len(frames) /\ \A i \in 1 .. Len(fs) : fs[i] = frames[i]
  <2>1. CASE fs = frames /\ r_pc = "value"
    BY <2>1, CurrentFacts DEF Within, InObjectAt, InArrayAt
  <2>2. CASE fs = Front(frames) /\ r_pc \in Within
    <3>1. frames # <<>> /\ Len(nodes_) = Len(frames)
      BY <2>2, CurrentFacts
    <3>2. /\ fs \in Seq(F) /\ Len(fs) = Len(frames) - 1 /\ Len(frames) \in Nat \ {0}
          /\ \A i \in 1 .. Len(frames) - 1 : fs[i] = frames[i]
      BY <2>2, <3>1, FrontFacts
    <3>. QED BY <3>1, <3>2
  <2>. QED BY <2>1, <2>2
<1>2. frames' = fs
  BY DEF Return
<1>3. /\ nodes_' \in Seq(Seq(K))
      /\ Len(nodes_') = IF fs = <<>> THEN Len(fs) + 1 ELSE Len(fs)
      /\ Len(nodes_') <= Len(nodes_) /\ \A i \in 1 .. Len(nodes_') : nodes_'[i] = nodes_[i]
  <2>1. CASE fs = <<>>
    <3>1. nodes_' = nodes_ /\ Len(fs) = 0
      BY <2>1 DEF Return
    <3>. QED BY <1>1, <2>1, <3>1
  <2>2. CASE fs # <<>>
    <3>1. nodes_' = Front(nodes_)
      BY <2>2 DEF Return
    <3>2. Len(nodes_) \in Nat \ {0} /\ nodes_ # <<>>
      BY CurrentFacts
    <3>3. /\ Front(nodes_) \in Seq(Seq(K)) /\ Len(Front(nodes_)) = Len(nodes_) - 1
          /\ \A i \in 1 .. Len(nodes_) - 1 : Front(nodes_)[i] = nodes_[i]
      BY <3>2, FrontFacts
    <3>. QED BY <1>1, <2>2, <3>1, <3>2, <3>3
  <2>. QED BY <2>1, <2>2
<1>4. fs # <<>> => Len(fs) \in 1 .. Len(fs) /\ Len(fs) \in 1 .. Len(frames) /\ Last(fs) = frames[Len(fs)]
  BY <1>1, EmptySeq, CurrentFacts DEF Last
<1>5. /\ fs = <<>> => r_pc' = "trail"
      /\ fs # <<>> => /\ r_pc' \in {"comma", "separator", "recover"}
                      /\ r_pc' = "comma" => Last(fs).type = "object"
                      /\ r_pc' = "separator" => Last(fs).type = "array"
  <2>1. fs # <<>> => Last(fs).type \in {"object", "array"}
    BY <1>4 DEF ReaderInv, FrameInv
  <2>. QED BY <2>1 DEF Return
<1>6. FrameInv'
  <2>1. \A i \in 1 .. Len(fs) : IsFrame(fs[i]) /\ fs[i].type \in {"object", "array"}
    <3>1. \A i \in 1 .. Len(fs) : i \in 1 .. Len(frames)
      BY <1>1, CurrentFacts
    <3>. QED BY <1>1, <3>1 DEF ReaderInv, FrameInv
  <2>2. Frame' = Last(fs)
    BY <1>2 DEF Frame
  <2>3. r_pc' \in Within \cup Outside /\ (r_pc' \in Within => fs # <<>>) /\ (r_pc' \in Outside => fs = <<>>)
        /\ (fs = <<>> => r_pc' \notin InObjectAt \cup InArrayAt)
    BY <1>5 DEF Within, Outside, InObjectAt, InArrayAt
  <2>4. (r_pc' \in InObjectAt => Last(fs).type = "object") /\ (r_pc' \in InArrayAt => Last(fs).type = "array")
    BY <1>5 DEF InObjectAt, InArrayAt
  <2>5. (\E S : frames' \in Seq(S)) /\ Len(frames') = Len(fs)
    BY <1>1, <1>2
  <2>6. /\ r_pc' \in Within => Len(nodes_') = Len(frames')
        /\ r_pc' \in Outside => Len(nodes_') = Len(frames') + 1
        /\ r_pc' \in {"trail", "done"} => frames' = <<>>
    BY <1>2, <1>3, <1>5, <2>3
  <2>. QED BY <1>2, <2>1, <2>2, <2>3, <2>4, <2>5, <2>6 DEF FrameInv
<1>7. r_pc' # "value"
  BY <1>5
<1>. QED BY <1>1, <1>2, <1>3, <1>6, <1>7

\* The innermost call is the only one to change, in its variables.
FramesKept ==
    \/ frames' = frames
    \/ \E name : frames' = [frames EXCEPT ![Len(frames)].name = name]
    \/ \E index : frames' = [frames EXCEPT ![Len(frames)].index = index]

(* It is still a call of the same kind.                                      *)
LEMMA KeptFrames ==
  ASSUME ReaderInv, r_pc \in Within, FramesKept
  PROVE  /\ \E S : frames' \in Seq(S)
         /\ Len(frames') = Len(frames) /\ frames' # <<>>
         /\ \A i \in 1 .. Len(frames) : IsFrame(frames'[i]) /\ frames'[i].type = frames[i].type
<1>. PICK F : frames \in Seq(F)
  BY DEF ReaderInv, FrameInv
<1>. DEFINE n == Len(frames)
            f == frames[n]
<1>1. n \in 1 .. n /\ frames # <<>>
  BY CurrentFacts DEF ReaderInv, PathInv
<1>2. \A i \in 1 .. n : IsFrame(frames[i])
  BY DEF ReaderInv, FrameInv
<1>3. ASSUME NEW g, IsFrame(g), g.type = f.type, frames' = [frames EXCEPT ![n] = g]
      PROVE  /\ \E S : frames' \in Seq(S)
             /\ Len(frames') = n /\ frames' # <<>>
             /\ \A i \in 1 .. n : IsFrame(frames'[i]) /\ frames'[i].type = frames[i].type
  <2>1. frames \in Seq(F \cup {g})
    BY SeqMonotonic
  <2>2. /\ frames' \in Seq(F \cup {g}) /\ Len(frames') = n
        /\ \A i \in 1 .. n : frames'[i] = IF i = n THEN g ELSE frames[i]
    BY <1>1, <1>3, <2>1, ExceptSeq
  <2>3. frames' # <<>>
    BY <1>1, <2>2
  <2>. QED BY <1>2, <1>3, <2>2, <2>3
<1>4. IsFrame(f)
  BY <1>1, <1>2
<1>5. CASE frames' = frames
  BY <1>1, <1>2, <1>5
<1>6. ASSUME NEW name, frames' = [frames EXCEPT ![n].name = name]
      PROVE  \E g : IsFrame(g) /\ g.type = f.type /\ frames' = [frames EXCEPT ![n] = g]
  <2>. DEFINE g == [type |-> f.type, name |-> name, index |-> f.index]
  <2>1. [f EXCEPT !.name = name] = g
    BY <1>4 DEF IsFrame
  <2>2. frames' = [frames EXCEPT ![n] = [f EXCEPT !.name = name]]
    BY <1>6
  <2>3. frames' = [frames EXCEPT ![n] = g] /\ g.type = f.type /\ IsFrame(g)
    BY <2>1, <2>2 DEF IsFrame
  <2>. HIDE DEF g
  <2>. QED BY <2>3
<1>7. ASSUME NEW index, frames' = [frames EXCEPT ![n].index = index]
      PROVE  \E g : IsFrame(g) /\ g.type = f.type /\ frames' = [frames EXCEPT ![n] = g]
  <2>. DEFINE g == [type |-> f.type, name |-> f.name, index |-> index]
  <2>1. [f EXCEPT !.index = index] = g
    BY <1>4 DEF IsFrame
  <2>2. frames' = [frames EXCEPT ![n] = [f EXCEPT !.index = index]]
    BY <1>7
  <2>3. frames' = [frames EXCEPT ![n] = g] /\ g.type = f.type /\ IsFrame(g)
    BY <2>1, <2>2 DEF IsFrame
  <2>. HIDE DEF g
  <2>. QED BY <2>3
<1>8. (\E g : IsFrame(g) /\ g.type = f.type /\ frames' = [frames EXCEPT ![n] = g])
        => /\ \E S : frames' \in Seq(S)
           /\ Len(frames') = n /\ frames' # <<>>
           /\ \A i \in 1 .. n : IsFrame(frames'[i]) /\ frames'[i].type = frames[i].type
  BY <1>3
<1>. QED BY <1>5, <1>6, <1>7, <1>8 DEF FramesKept

(* The call goes on in the same container.                                   *)
LEMMA StayStep ==
  ASSUME ReaderInv, r_pc \in Within, FramesKept, UNCHANGED <<root, nodes_, lastValue_>>,
         r_pc' \in Within, r_pc' \in InObjectAt => r_pc \in InObjectAt,
         r_pc' \in InArrayAt => r_pc \in InArrayAt
  PROVE  ReaderInv'
<1>. PICK K : nodes_ \in Seq(Seq(K)) /\ lastValue_ \subseteq Seq(K)
  BY DEF ReaderInv, PathInv
<1>1. /\ \E S : frames' \in Seq(S)
      /\ Len(frames') = Len(frames) /\ frames' # <<>>
      /\ \A i \in 1 .. Len(frames) : IsFrame(frames'[i]) /\ frames'[i].type = frames[i].type
  BY KeptFrames
<1>2. /\ frames # <<>> /\ Len(frames) \in 1 .. Len(frames) /\ Len(nodes_) = Len(frames)
      /\ Len(frames) \in Nat
  BY CurrentFacts
<1>3. r_pc' \notin Outside
  BY DEF Within, Outside, InObjectAt, InArrayAt
<1>4. PathInv'
  BY DEF PathInv
<1>5. FrameInv'
  <2>1. (Frame.type)' = Frame.type
    BY <1>1, <1>2 DEF Frame, Last
  <2>2. \A i \in 1 .. Len(frames) : frames[i].type \in {"object", "array"}
    BY DEF ReaderInv, FrameInv
  <2>3. (r_pc \in InObjectAt => Frame.type = "object") /\ (r_pc \in InArrayAt => Frame.type = "array")
    BY DEF ReaderInv, FrameInv
  <2>4. r_pc' \notin {"trail", "done"}
    BY <1>3 DEF Outside
  <2>. QED BY <1>1, <1>2, <1>3, <2>1, <2>2, <2>3, <2>4 DEF FrameInv
<1>6. ChainInv'
  <2>1. r_pc' # "value"
    BY <1>3 DEF Outside
  <2>. QED BY <1>1, <2>1 DEF ReaderInv, ChainInv
<1>7. LastInv'
  <2>1. r_pc' # "value"
    BY <1>3 DEF Outside
  <2>. QED BY <1>1, <1>2, <2>1 DEF ReaderInv, LastInv
<1>. QED BY <1>4, <1>5, <1>6, <1>7 DEF ReaderInv

(* A comment, and the end.                                                   *)
LEMMA StutterStep ==
  ASSUME ReaderInv, UNCHANGED <<root, nodes_, frames, lastValue_>>,
         r_pc' = r_pc \/ (r_pc = "trail" /\ r_pc' = "done")
  PROVE  ReaderInv'
<1>1. PathInv'
  BY DEF ReaderInv, PathInv
<1>2. FrameInv'
  <2>1. CASE r_pc' = r_pc
    BY <2>1 DEF ReaderInv, FrameInv, Frame
  <2>2. CASE r_pc = "trail" /\ r_pc' = "done"
    BY <2>2 DEF ReaderInv, FrameInv, Frame, Within, Outside, InObjectAt, InArrayAt
  <2>. QED BY <2>1, <2>2
<1>3. ChainInv'
  BY DEF ReaderInv, ChainInv, currentValue
<1>4. LastInv'
  BY DEF ReaderInv, LastInv
<1>. QED BY <1>1, <1>2, <1>3, <1>4 DEF ReaderInv

(* The end of a value that is not a container.                               *)
LEMMA ValueStep ==
  ASSUME ReaderInv, r_pc = "value", NEW ok, Return(frames, ok),
         \/ root' = root
         \/ \E node : root' = Put(root, currentValue, OneNode(node)),
         \/ lastValue_' = {currentValue}
         \/ lastValue_' = lastValue_ /\ root' = root
  PROVE  ReaderInv'
<1>. PICK K : nodes_ \in Seq(Seq(K)) /\ lastValue_ \subseteq Seq(K)
  BY DEF ReaderInv, PathInv
<1>1. r_pc \notin Within
  BY DEF Within, InObjectAt, InArrayAt
<1>2. /\ Len(nodes_) = Len(frames) + 1 /\ Len(frames) \in Nat /\ Len(nodes_) \in Nat
      /\ currentValue \in Seq(K) /\ currentValue \in DOMAIN root
      /\ currentValue = nodes_[Len(nodes_)] /\ Len(currentValue) = Len(frames)
  BY <1>1, CurrentFacts
<1>3. /\ FrameInv' /\ r_pc' # "value"
      /\ nodes_' \in Seq(Seq(K)) /\ frames' = frames
      /\ Len(nodes_') <= Len(nodes_) /\ \A i \in 1 .. Len(nodes_') : nodes_'[i] = nodes_[i]
      /\ Len(frames) <= Len(nodes_')
  BY ReturnStep
<1>4. /\ \A i \in 1 .. Len(frames) : nodes_[i] \in DOMAIN root' /\ root'[nodes_[i]] = root[nodes_[i]]
      /\ currentValue \in DOMAIN root'
  <2>1. CASE root' = root
    <3>1. \A i \in 1 .. Len(frames) : i \in 1 .. Len(nodes_)
      BY <1>2
    <3>. QED BY <1>2, <2>1, <3>1 DEF ReaderInv, ChainInv
  <2>2. ASSUME NEW node, root' = Put(root, currentValue, OneNode(node))
        PROVE  /\ \A i \in 1 .. Len(frames) : nodes_[i] \in DOMAIN root' /\ root'[nodes_[i]] = root[nodes_[i]]
               /\ currentValue \in DOMAIN root'
    <3>1. Len(frames) <= Len(nodes_) /\ Len(frames) <= Len(currentValue)
      BY <1>2
    <3>. QED BY <1>2, <2>2, <3>1, RootStep
  <2>. QED BY <2>1, <2>2
<1>5. PathInv'
  BY <1>2, <1>3 DEF PathInv
<1>6. ChainInv'
  <2>1. Len(nodes_') \in Nat
    BY <1>3, LenProperties
  <2>2. ASSUME NEW i \in 1 .. Len(nodes_')
        PROVE  nodes_'[i] \in DOMAIN root' /\ Len(nodes_'[i]) = i - 1
    <3>1. i \in 1 .. Len(nodes_) /\ nodes_'[i] = nodes_[i]
      BY <1>2, <1>3, <2>1
    <3>2. i \in 1 .. Len(frames) \/ nodes_[i] = currentValue
      BY <1>2, <3>1
    <3>. QED BY <1>4, <3>1, <3>2 DEF ReaderInv, ChainInv
  <2>3. ASSUME NEW i \in 1 .. Len(frames)
        PROVE  root'[nodes_'[i]].type = frames'[i].type
    <3>1. i \in 1 .. Len(nodes_')
      BY <1>2, <1>3, <2>1
    <3>. QED BY <1>3, <1>4, <3>1 DEF ReaderInv, ChainInv
  <2>. QED BY <1>3, <2>2, <2>3 DEF ChainInv
<1>7. LastInv'
  <2>1. CASE lastValue_' = {currentValue}
    <3>1. Len(frames) <= Len(frames)
      BY <1>2
    <3>. QED BY <1>2, <1>3, <1>4, <2>1, <3>1 DEF LastInv
  <2>2. CASE lastValue_' = lastValue_ /\ root' = root
    <3>1. frames # <<>> => nodes_'[Len(frames)] = nodes_[Len(frames)]
      <4>. PICK F : frames \in Seq(F)
        BY DEF ReaderInv, FrameInv
      <4>1. frames # <<>> => Len(frames) # 0
        BY EmptySeq
      <4>2. Len(nodes_') \in Nat
        BY <1>3, LenProperties
      <4>3. Len(frames) # 0 => Len(frames) \in 1 .. Len(nodes_')
        BY <1>2, <1>3, <4>2
      <4>. QED BY <1>3, <4>1, <4>3, Zenon
    <3>. QED BY <1>3, <2>2, <3>1 DEF ReaderInv, LastInv
  <2>. QED BY <2>1, <2>2
<1>. QED BY <1>3, <1>5, <1>6, <1>7 DEF ReaderInv

(* readArray and readObject return.                                          *)
LEMMA ContainerStep ==
  ASSUME ReaderInv, r_pc \in Within, NEW ok, EndContainer(ok), root' = root
  PROVE  ReaderInv'
<1>. PICK K : nodes_ \in Seq(Seq(K)) /\ lastValue_ \subseteq Seq(K)
  BY DEF ReaderInv, PathInv
<1>. DEFINE fs == Front(frames)
<1>1. /\ Len(nodes_) = Len(frames) /\ Len(frames) \in Nat /\ Len(nodes_) \in Nat
      /\ currentValue \in Seq(K) /\ currentValue \in DOMAIN root
      /\ Len(currentValue) = Len(frames) - 1 /\ frames # <<>>
  BY CurrentFacts
<1>2. /\ FrameInv' /\ r_pc' # "value"
      /\ nodes_' \in Seq(Seq(K)) /\ frames' = fs
      /\ Len(nodes_') <= Len(nodes_) /\ \A i \in 1 .. Len(nodes_') : nodes_'[i] = nodes_[i]
      /\ Len(fs) <= Len(frames) /\ Len(fs) <= Len(nodes_')
      /\ Len(fs) \in Nat /\ \A i \in 1 .. Len(fs) : fs[i] = frames[i]
  BY ReturnStep DEF EndContainer, EndValue
<1>3. lastValue_' = {currentValue} /\ Len(fs) = Len(frames) - 1
  <2>. PICK F : frames \in Seq(F)
    BY DEF ReaderInv, FrameInv
  <2>. QED BY <1>1, FrontFacts DEF EndContainer, EndValue
<1>. HIDE DEF fs
<1>4. PathInv'
  BY <1>1, <1>2, <1>3 DEF PathInv
<1>5. Len(nodes_') \in Nat
  BY <1>2, LenProperties
<1>6. ChainInv'
  <2>1. ASSUME NEW i \in 1 .. Len(nodes_')
        PROVE  nodes_'[i] \in DOMAIN root' /\ Len(nodes_'[i]) = i - 1
    <3>1. i \in 1 .. Len(nodes_) /\ nodes_'[i] = nodes_[i]
      BY <1>1, <1>2, <1>5
    <3>. QED BY <3>1 DEF ReaderInv, ChainInv
  <2>2. ASSUME NEW i \in 1 .. Len(fs)
        PROVE  root'[nodes_'[i]].type = frames'[i].type
    <3>1. i \in 1 .. Len(nodes_') /\ i \in 1 .. Len(frames)
      BY <1>1, <1>2, <1>5
    <3>. QED BY <1>2, <3>1 DEF ReaderInv, ChainInv
  <2>. QED BY <1>2, <2>1, <2>2 DEF ChainInv
<1>7. LastInv'
  <2>1. Len(currentValue) <= Len(fs)
    BY <1>1, <1>3
  <2>. QED BY <1>1, <1>2, <1>3, <2>1 DEF LastInv
<1>. QED BY <1>2, <1>4, <1>6, <1>7 DEF ReaderInv

(* readValue is called for a part of the container.                          *)
LEMMA EnterStep ==
  ASSUME ReaderInv, r_pc \in Within, NEW key, Enter(Insert(root, currentValue, key), key),
         FramesKept, lastValue_' = lastValue_
  PROVE  ReaderInv'
<1>. PICK K0 : nodes_ \in Seq(Seq(K0)) /\ lastValue_ \subseteq Seq(K0)
  BY DEF ReaderInv, PathInv
<1>. DEFINE K == K0 \cup {key}
            path == Append(currentValue, key)
<1>0. nodes_ \in Seq(Seq(K)) /\ lastValue_ \subseteq Seq(K) /\ key \in K
  <2>1. Seq(K0) \subseteq Seq(K)
    BY SeqMonotonic
  <2>. QED BY <2>1, SeqMonotonic
<1>. HIDE DEF K
<1>1. /\ Len(nodes_) = Len(frames) /\ Len(frames) \in Nat /\ Len(nodes_) \in Nat
      /\ Len(frames) \in 1 .. Len(frames) /\ frames # <<>>
      /\ currentValue \in Seq(K) /\ currentValue \in DOMAIN root
      /\ currentValue = nodes_[Len(frames)] /\ Len(currentValue) = Len(frames) - 1
  BY <1>0, CurrentFacts
<1>2. path \in Seq(K) /\ Len(path) = Len(frames) /\ IsPrefix(currentValue, path)
  BY <1>0, <1>1, AppendProperties, PrefixAppend
<1>3. /\ nodes_' = Append(nodes_, path) /\ r_pc' \in {"thrown", "value"}
      /\ root' = Insert(root, currentValue, key)
  BY DEF Enter
<1>4. /\ nodes_' \in Seq(Seq(K)) /\ Len(nodes_') = Len(frames) + 1
      /\ \A i \in 1 .. Len(frames) : nodes_'[i] = nodes_[i]
      /\ nodes_'[Len(frames) + 1] = path
  BY <1>0, <1>1, <1>2, <1>3, AppendProperties
<1>5. /\ \E S : frames' \in Seq(S)
      /\ Len(frames') = Len(frames) /\ frames' # <<>>
      /\ \A i \in 1 .. Len(frames) : IsFrame(frames'[i]) /\ frames'[i].type = frames[i].type
  BY KeptFrames
<1>6. ASSUME NEW q \in lastValue_, IsPrefix(path, q)
      PROVE  Len(q) <= Len(path)
  <2>1. q \in Seq(K)
    BY <1>0
  <2>2. IsPrefix(nodes_[Len(frames)], q)
    BY <1>1, <1>2, <1>6, <2>1, PrefixTrans
  <2>. QED BY <1>1, <1>2, <2>2 DEF ReaderInv, LastInv
<1>7. /\ \A i \in 1 .. Len(frames) : nodes_[i] \in DOMAIN root' /\ root'[nodes_[i]] = root[nodes_[i]]
      /\ path \in DOMAIN root' /\ lastValue_ \subseteq DOMAIN root'
  <2>1. CASE path \in DOMAIN root
    <3>1. root' = root
      BY <1>3, <2>1 DEF Insert
    <3>. QED BY <1>1, <2>1, <3>1 DEF ReaderInv, ChainInv, LastInv
  <2>2. CASE path \notin DOMAIN root
    <3>1. \E node : Null = OneNode(node)
      BY DEF Null, Leaf, OneNode
    <3>2. PICK node : root' = Put(root, path, OneNode(node))
      BY <1>3, <2>2, <3>1 DEF Insert
    <3>3. Len(frames) <= Len(nodes_) /\ Len(frames) <= Len(path)
      BY <1>1, <1>2
    <3>4. /\ \A i \in 1 .. Len(frames) : nodes_[i] \in DOMAIN root' /\ root'[nodes_[i]] = root[nodes_[i]]
          /\ path \in DOMAIN root'
          /\ \A q \in lastValue_ : (IsPrefix(path, q) => Len(q) <= Len(path)) => q \in DOMAIN root'
      BY <1>0, <1>1, <1>2, <3>2, <3>3, RootStep
    <3>. QED BY <1>6, <3>4
  <2>. QED BY <2>1, <2>2
<1>. HIDE DEF path
<1>8. PathInv'
  BY <1>0, <1>4 DEF PathInv
<1>9. FrameInv'
  <2>1. \A i \in 1 .. Len(frames) : frames[i].type \in {"object", "array"}
    BY DEF ReaderInv, FrameInv
  <2>2. r_pc' \in Outside /\ r_pc' \notin Within /\ r_pc' \notin {"trail", "done"} \cup InObjectAt \cup InArrayAt
    BY <1>3 DEF Within, Outside, InObjectAt, InArrayAt
  <2>. QED BY <1>4, <1>5, <2>1, <2>2 DEF FrameInv
<1>10. ChainInv'
  <2>1. ASSUME NEW i \in 1 .. Len(nodes_')
        PROVE  nodes_'[i] \in DOMAIN root' /\ Len(nodes_'[i]) = i - 1
    <3>1. i \in 1 .. Len(frames) \/ i = Len(frames) + 1
      BY <1>1, <1>4
    <3>2. CASE i \in 1 .. Len(frames)
      BY <1>1, <1>4, <1>7, <3>2 DEF ReaderInv, ChainInv
    <3>3. CASE i = Len(frames) + 1
      BY <1>1, <1>2, <1>4, <1>7, <3>3
    <3>. QED BY <3>1, <3>2, <3>3
  <2>2. IsPrefix(nodes_'[Len(frames')], currentValue')
    BY <1>1, <1>2, <1>4, <1>5 DEF currentValue, Last
  <2>3. ASSUME NEW i \in 1 .. Len(frames')
        PROVE  root'[nodes_'[i]].type = frames'[i].type
    <3>1. i \in 1 .. Len(frames)
      BY <1>5
    <3>2. root[nodes_[i]].type = frames[i].type
      BY <3>1 DEF ReaderInv, ChainInv
    <3>. QED BY <1>4, <1>5, <1>7, <3>1, <3>2
  <2>. QED BY <2>1, <2>2, <2>3 DEF ChainInv
<1>11. LastInv'
  BY <1>1, <1>4, <1>5, <1>7 DEF ReaderInv, LastInv
<1>. QED BY <1>8, <1>9, <1>10, <1>11 DEF ReaderInv

(* A container is opened.                                                    *)
LEMMA OpenStep ==
  ASSUME ReaderInv, OpenContainer
  PROVE  ReaderInv'
<1>. PICK K : nodes_ \in Seq(Seq(K)) /\ lastValue_ \subseteq Seq(K)
  BY DEF ReaderInv, PathInv
<1>. PICK F : frames \in Seq(F)
  BY DEF ReaderInv, FrameInv
<1>1. PICK type \in {"object", "array"} :
        /\ root' = Put(root, currentValue, Empty(type))
        /\ frames' = Append(frames, NewFrame(type))
        /\ r_pc' = IF type = "object" THEN "name" ELSE "first"
  BY DEF OpenContainer
<1>2. r_pc = "value" /\ UNCHANGED <<nodes_, lastValue_>>
  BY DEF OpenContainer
<1>. DEFINE n == Len(frames)
            frame == NewFrame(type)
<1>3. /\ Len(nodes_) = n + 1 /\ n \in Nat /\ n <= Len(nodes_)
      /\ currentValue \in Seq(K) /\ currentValue \in DOMAIN root
      /\ currentValue = nodes_[n + 1] /\ Len(currentValue) = n
  BY <1>2, CurrentFacts DEF Within, InObjectAt, InArrayAt
<1>4. frame.type = type /\ IsFrame(frame)
  BY DEF NewFrame, IsFrame
<1>5. /\ frames' \in Seq(F \cup {frame}) /\ frames' # <<>> /\ Len(frames') = n + 1
      /\ \A i \in 1 .. n : frames'[i] = frames[i]
      /\ frames'[n + 1] = frame
  <2>1. frames \in Seq(F \cup {frame})
    BY SeqMonotonic
  <2>. QED BY <1>1, <2>1, AppendProperties
<1>. HIDE DEF frame
<1>. DEFINE node == Node(type, 0, <<>>)
<1>6. Empty(type) = OneNode(node) /\ node.type = type
  BY DEF Empty, Leaf, OneNode, Node
<1>. HIDE DEF node
<1>7. ASSUME NEW q \in lastValue_, IsPrefix(currentValue, q)
      PROVE  Len(q) <= n
  <2>1. frames # <<>>
    BY <1>2 DEF ReaderInv, LastInv
  <2>2. n \in 1 .. Len(nodes_)
    BY <1>3, <2>1, EmptySeq
  <2>3. IsPrefix(nodes_[n], q)
    <3>1. IsPrefix(nodes_[n], currentValue)
      BY <1>2, <2>1 DEF ReaderInv, ChainInv
    <3>2. nodes_[n] \in Seq(K) /\ q \in Seq(K)
      BY <2>2, ElementOfSeq
    <3>. QED BY <1>3, <1>7, <3>1, <3>2, PrefixTrans
  <2>. QED BY <2>1, <2>3 DEF ReaderInv, LastInv
<1>8. /\ \A i \in 1 .. n : nodes_[i] \in DOMAIN root' /\ root'[nodes_[i]] = root[nodes_[i]]
      /\ currentValue \in DOMAIN root' /\ root'[currentValue] = node
      /\ lastValue_ \subseteq DOMAIN root'
  <2>1. n <= Len(nodes_) /\ n <= Len(currentValue)
    BY <1>3
  <2>2. /\ \A i \in 1 .. n : nodes_[i] \in DOMAIN root' /\ root'[nodes_[i]] = root[nodes_[i]]
        /\ currentValue \in DOMAIN root' /\ root'[currentValue] = node
        /\ \A q \in lastValue_ : (IsPrefix(currentValue, q) => Len(q) <= Len(currentValue)) => q \in DOMAIN root'
    <3>1. root' = Put(root, currentValue, OneNode(node))
      BY <1>1, <1>6
    <3>2. n \in Nat /\ currentValue \in Seq(K)
      BY <1>3
    <3>. QED BY <2>1, <3>1, <3>2, RootStep
  <2>. QED BY <1>3, <1>7, <2>2
<1>9. PathInv'
  BY <1>2 DEF PathInv
<1>10. FrameInv'
  <2>1. \A i \in 1 .. n + 1 : IsFrame(frames'[i]) /\ frames'[i].type \in {"object", "array"}
    <3>1. \A i \in 1 .. n + 1 : i \in 1 .. n \/ i = n + 1
      BY <1>3
    <3>. QED BY <1>4, <1>5, <3>1 DEF ReaderInv, FrameInv
  <2>2. (Frame.type)' = type
    BY <1>4, <1>5 DEF Frame, Last
  <2>3. /\ r_pc' \in Within /\ r_pc' \notin Outside
        /\ (r_pc' \in InObjectAt => type = "object") /\ (r_pc' \in InArrayAt => type = "array")
    BY <1>1 DEF Within, Outside, InObjectAt, InArrayAt
  <2>4. r_pc' \notin {"trail", "done"}
    BY <1>1
  <2>5. Len(nodes_') = Len(frames')
    BY <1>2, <1>3, <1>5
  <2>. QED BY <1>5, <2>1, <2>2, <2>3, <2>4, <2>5 DEF FrameInv
<1>11. r_pc' # "value"
  BY <1>1
<1>12. ChainInv'
  <2>1. ASSUME NEW i \in 1 .. n + 1
        PROVE  /\ nodes_[i] \in DOMAIN root' /\ Len(nodes_[i]) = i - 1
               /\ root'[nodes_[i]].type = frames'[i].type
    <3>1. i \in 1 .. n \/ i = n + 1
      BY <1>3
    <3>2. CASE i \in 1 .. n
      BY <1>3, <1>5, <1>8, <3>2 DEF ReaderInv, ChainInv
    <3>3. CASE i = n + 1
      BY <1>3, <1>4, <1>5, <1>6, <1>8, <3>3
    <3>. QED BY <3>1, <3>2, <3>3
  <2>. QED BY <1>2, <1>3, <1>5, <1>11, <2>1 DEF ChainInv
<1>13. LastInv'
  <2>1. ASSUME NEW q \in lastValue_, IsPrefix(nodes_[n + 1], q)
        PROVE  Len(q) <= n + 1
    <3>1. Len(q) <= n /\ Len(q) \in Nat
      BY <1>3, <1>7, <2>1, LenProperties
    <3>. QED BY <1>3, <3>1
  <2>. QED BY <1>2, <1>5, <1>8, <1>11, <2>1 DEF LastInv
<1>. QED BY <1>9, <1>10, <1>12, <1>13 DEF ReaderInv

(* What a member or an item is found or created in is a container of the type *)
(* that the call expects, so nothing is replaced.                            *)
LEMMA InsertStep ==
  ASSUME ReaderInv, r_pc \in Within
  PROVE  /\ Frame.type = "object" =>
              \A name : ResolveReference(root, currentValue, name)
                        = {Insert(root, currentValue, Member(name))}
         /\ Frame.type = "array" =>
              \A index : Subscript(root, currentValue, index)
                         = {Insert(root, currentValue, Item(index))}
<1>. PICK K : nodes_ \in Seq(Seq(K))
  BY DEF ReaderInv, PathInv
<1>1. root[currentValue].type = Frame.type
  <2>1. Len(frames) \in 1 .. Len(frames) /\ currentValue = nodes_[Len(frames)]
    BY CurrentFacts
  <2>. QED BY <2>1 DEF ReaderInv, ChainInv, Frame, Last
<1>2. ASSUME NEW type \in {"object", "array"}, Frame.type = type
      PROVE  Open(root, currentValue, type) = {root}
  BY <1>1, <1>2 DEF Open
<1>. QED BY <1>2 DEF ResolveReference, Subscript

(* Every step of the reader keeps its invariant.                             *)
LEMMA ReaderStep ==
  ASSUME ReaderInv, [ReaderNext]_readerVars
  PROVE  ReaderInv'
<1>. USE DEF InObjectAt, InArrayAt
<1>1. CASE Comment
  <2>1. UNCHANGED <<root, nodes_, frames, lastValue_>>
    BY <1>1 DEF Comment
  <2>2. CASE r_pc' = r_pc
    BY <2>1, <2>2, StutterStep
  <2>3. CASE r_pc = "comma" /\ r_pc' = "after comment"
    BY <2>1, <2>3, StayStep DEF FramesKept, Within
  <2>. QED BY <1>1, <2>2, <2>3 DEF Comment
<1>2. CASE ReadScalar
  <2>1. r_pc = "value" /\ IsScalar(next) /\ lastValue_' = {currentValue}
    BY <1>2 DEF ReadScalar, EndValue
  <2>2. root' = root \/ \E node : root' = Put(root, currentValue, OneNode(node))
    BY <1>2, <2>1, DecodeLeaf DEF ReadScalar
  <2>3. \E ok : Return(frames, ok)
    BY <1>2 DEF ReadScalar, EndValue
  <2>. QED BY <2>1, <2>2, <2>3, ValueStep
<1>3. CASE OpenContainer
  BY <1>3, OpenStep
<1>4. CASE ExpectedValue
  <2>1. r_pc = "value" /\ lastValue_' = lastValue_ /\ root' = root /\ Return(frames, FALSE)
    BY <1>4 DEF ExpectedValue
  <2>. QED BY <2>1, ValueStep
<1>5. CASE ReadName
  <2>1. /\ r_pc = "name" /\ r_pc' \in {"recover", "colon"}
        /\ UNCHANGED <<root, nodes_, lastValue_>>
    BY <1>5 DEF ReadName, ErrorAndRecover
  <2>2. FramesKept
    BY <1>5 DEF ReadName, FramesKept
  <2>. QED BY <2>1, <2>2, StayStep DEF Within
<1>6. CASE EndObject
  BY <1>6, ContainerStep DEF EndObject, Within
<1>7. CASE MissingName
  <2>1. /\ r_pc = "name" /\ r_pc' = "recover"
        /\ UNCHANGED <<root, nodes_, lastValue_>> /\ FramesKept
    BY <1>7 DEF MissingName, ErrorAndRecover, FramesKept
  <2>. QED BY <2>1, StayStep DEF Within
<1>8. CASE ReadColon
  <2>1. r_pc = "colon" /\ r_pc \in Within /\ FramesKept /\ lastValue_' = lastValue_
    BY <1>8 DEF ReadColon, FramesKept, Within
  <2>2. Frame.type = "object"
    BY <2>1 DEF ReaderInv, FrameInv
  <2>3. CASE next.kind = ":"
    <3>1. PICK w \in ResolveReference(root, currentValue, Frame.name) : Enter(w, Member(Frame.name))
      BY <1>8, <2>3 DEF ReadColon
    <3>2. w = Insert(root, currentValue, Member(Frame.name))
      BY <2>1, <2>2, InsertStep
    <3>. QED BY <2>1, <3>1, <3>2, EnterStep
  <2>4. CASE next.kind # ":"
    <3>1. r_pc' = "recover" /\ UNCHANGED <<root, nodes_>>
      BY <1>8, <2>4 DEF ReadColon, ErrorAndRecover
    <3>. QED BY <2>1, <3>1, StayStep DEF Within
  <2>. QED BY <2>3, <2>4
<1>9. CASE ReadComma
  <2>1. r_pc \in {"comma", "after comment"} /\ r_pc \in Within /\ root' = root
    BY <1>9 DEF ReadComma, Within
  <2>2. CASE next.kind = "}"
    <3>1. EndContainer(TRUE)
      BY <1>9, <2>2 DEF ReadComma
    <3>. QED BY <2>1, <3>1, ContainerStep
  <2>3. CASE next.kind # "}"
    <3>1. /\ r_pc' \in {"name", "recover"} /\ UNCHANGED <<nodes_, frames, lastValue_>>
      BY <1>9, <2>3 DEF ReadComma, ErrorAndRecover
    <3>. QED BY <2>1, <3>1, StayStep DEF FramesKept, Within
  <2>. QED BY <2>2, <2>3
<1>10. CASE EndArray
  BY <1>10, ContainerStep DEF EndArray, Within
<1>11. CASE NextItem
  <2>1. r_pc \in InArrayAt /\ r_pc \in Within /\ FramesKept /\ lastValue_' = lastValue_
    BY <1>11 DEF NextItem, FramesKept, Within
  <2>2. Frame.type = "array"
    BY <2>1 DEF ReaderInv, FrameInv
  <2>3. PICK w \in Subscript(root, currentValue, Frame.index) : Enter(w, Item(Frame.index))
    BY <1>11 DEF NextItem
  <2>4. w = Insert(root, currentValue, Item(Frame.index))
    BY <2>1, <2>2, InsertStep
  <2>. QED BY <2>1, <2>3, <2>4, EnterStep
<1>12. CASE ReadSeparator
  <2>1. r_pc = "separator" /\ r_pc \in Within /\ root' = root
    BY <1>12 DEF ReadSeparator, Within
  <2>2. CASE next.kind = "]"
    <3>1. EndContainer(TRUE)
      BY <1>12, <2>2 DEF ReadSeparator
    <3>. QED BY <2>1, <3>1, ContainerStep
  <2>3. CASE next.kind # "]"
    <3>1. r_pc' = "recover" /\ UNCHANGED <<nodes_, frames, lastValue_>>
      BY <1>12, <2>3 DEF ReadSeparator, ErrorAndRecover
    <3>. QED BY <2>1, <3>1, StayStep DEF FramesKept, Within
  <2>. QED BY <2>2, <2>3
<1>13. CASE Skip
  <2>1. r_pc = "recover" /\ r_pc \in Within /\ root' = root
    BY <1>13 DEF Skip, Within
  <2>2. CASE EndContainer(FALSE)
    BY <2>1, <2>2, ContainerStep
  <2>3. CASE UNCHANGED <<nodes_, frames, lastValue_, success, r_pc>>
    BY <2>1, <2>3, StutterStep
  <2>. QED BY <1>13, <2>2, <2>3 DEF Skip
<1>14. CASE Finish
  BY <1>14, StutterStep DEF Finish
<1>15. CASE UNCHANGED readerVars
  BY <1>15, StutterStep DEF readerVars
<1>. QED BY <1>1, <1>2, <1>3, <1>4, <1>5, <1>6, <1>7, <1>8, <1>9, <1>10, <1>11, <1>12, <1>13,
            <1>14, <1>15 DEF ReaderNext

(* ReaderInv is an invariant of the reader, for every document.              *)
THEOREM ReaderInvariance == ReaderSpec => []ReaderInv
<1>1. ReaderInv /\ [ReaderNext]_readerVars => ReaderInv'
  BY ReaderStep
<1>. QED BY InitReaderInv, <1>1, PTL DEF ReaderSpec

(* However a document is nested and wherever it is wrong, the reader follows *)
(* no pointer into a value that is not there any more (nodes_, lastValue_;   *)
(* jsoncpp.cpp 395-457, 612-625, 666-724).                                   *)
THEOREM ReaderPointersLive == ReaderSpec => []PointersLive
<1>1. ReaderInv => PointersLive
  <2>. SUFFICES ASSUME ReaderInv PROVE PointersLive
    OBVIOUS
  <2>. PICK K : nodes_ \in Seq(Seq(K))
    BY DEF ReaderInv, PathInv
  <2>1. DOMAIN nodes_ = 1 .. Len(nodes_)
    BY LenProperties
  <2>. QED BY <2>1 DEF ReaderInv, ChainInv, LastInv, PointersLive, ToSet
<1>. QED BY ReaderInvariance, <1>1, PTL

\* One error leads to recover, and nothing that recovers reports another.
ErrorInv ==
    /\ r_pc = "recover" => errors_ = 1
    /\ r_pc \in {"trail", "done"} => errors_ = IF success THEN 0 ELSE 1
    /\ r_pc \notin {"recover", "trail", "done"} => errors_ = 0

(* What comes back from a container leaves as many errors as there were.    *)
LEMMA ReturnErrors ==
  ASSUME NEW fs, NEW ok \in BOOLEAN, Return(fs, ok), errors_' = IF ok THEN 0 ELSE 1
  PROVE  ErrorInv'
BY DEF Return, ErrorInv

(* However many containers are open when an error is met, and whatever is    *)
(* skipped behind it, the document has one error, and it succeeds exactly   *)
(* when it has none (jsoncpp.cpp 972-1000).                                  *)
THEOREM ReaderErrors == ReaderSpec => []ErrorOnce
<1>1. ReaderStart => ErrorInv
  BY DEF ReaderStart, ReaderInit, ErrorInv
<1>2. ErrorInv /\ [ReaderNext]_readerVars => ErrorInv'
  <2>. SUFFICES ASSUME ErrorInv, [ReaderNext]_readerVars PROVE ErrorInv'
    OBVIOUS
  <2>a. errors_ = 0 => errors_ + 1 = 1
    OBVIOUS
  <2>b. ASSUME ErrorAndRecover, errors_ = 0 PROVE ErrorInv'
    BY <2>a, <2>b DEF ErrorAndRecover, ErrorInv
  <2>1. CASE ReadScalar
    <3>1. errors_ = 0 /\ Return(frames, Decode(next) # {})
      BY <2>1 DEF ReadScalar, EndValue, ErrorInv
    <3>2. errors_' = IF Decode(next) # {} THEN 0 ELSE 1
      BY <2>1, <2>a, <3>1 DEF ReadScalar
    <3>3. (Decode(next) # {}) \in BOOLEAN
      OBVIOUS
    <3>. QED BY <3>1, <3>2, <3>3, ReturnErrors, Zenon
  <2>2. CASE ExpectedValue
    <3>1. Return(frames, FALSE) /\ errors_' = IF FALSE THEN 0 ELSE 1
      BY <2>2, <2>a DEF ExpectedValue, ErrorInv
    <3>. QED BY <3>1, ReturnErrors, Zenon
  <2>3. ASSUME EndContainer(TRUE), errors_' = 0 PROVE ErrorInv'
    <3>1. Return(Front(frames), TRUE) /\ errors_' = IF TRUE THEN 0 ELSE 1
      BY <2>3 DEF EndContainer, EndValue
    <3>. QED BY <3>1, ReturnErrors, Zenon
  <2>4. ASSUME EndContainer(FALSE), errors_' = 1 PROVE ErrorInv'
    <3>1. Return(Front(frames), FALSE) /\ errors_' = IF FALSE THEN 0 ELSE 1
      BY <2>4 DEF EndContainer, EndValue
    <3>. QED BY <3>1, ReturnErrors, Zenon
  <2>5. CASE EndObject \/ EndArray
    BY <2>3, <2>5 DEF EndObject, EndArray, ErrorInv
  <2>6. CASE ReadComma
    BY <2>b, <2>3, <2>6 DEF ReadComma, ErrorInv
  <2>7. CASE ReadSeparator
    BY <2>b, <2>3, <2>7 DEF ReadSeparator, ErrorInv
  <2>8. CASE Skip
    BY <2>4, <2>8 DEF Skip, ErrorInv
  <2>9. CASE Comment
    BY <2>9 DEF Comment, ErrorInv
  <2>10. CASE OpenContainer
    BY <2>10 DEF OpenContainer, ErrorInv
  <2>11. CASE ReadName \/ MissingName
    BY <2>b, <2>11 DEF ReadName, MissingName, ErrorInv
  <2>12. CASE ReadColon \/ NextItem
    BY <2>b, <2>12 DEF ReadColon, NextItem, Enter, ErrorInv
  <2>13. CASE Finish \/ UNCHANGED readerVars
    BY <2>13 DEF Finish, readerVars, ErrorInv
  <2>. QED BY <2>1, <2>2, <2>5, <2>6, <2>7, <2>8, <2>9, <2>10, <2>11, <2>12, <2>13 DEF ReaderNext
<1>3. ErrorInv => ErrorOnce
  BY DEF ErrorInv, ErrorOnce
<1>. QED BY <1>1, <1>2, <1>3, PTL DEF ReaderSpec
-----------------------------------------------------------------------------
(* The numbers of a document.                                               *)

(* A set of numbers that holds 0, and with each number the next, holds all.  *)
LEMMA SetInduction ==
  ASSUME NEW S \in SUBSET Nat, 0 \in S, \A n \in S : n + 1 \in S
  PROVE  S = Nat
<1>. SUFFICES ASSUME Nat \ S # {} PROVE FALSE
  OBVIOUS
<1>. DEFINE T == Nat \ S
<1>1. \E x \in T : \A y \in T : ~ (<<y, x>> \in OpToRel(<, Nat))
  <2>1. T \subseteq Nat /\ T # {}
    OBVIOUS
  <2>. HIDE DEF T
  <2>. QED BY <2>1, WFMin, NatLessThanWellFounded
<1>2. PICK x \in T : \A y \in T : ~ (<<y, x>> \in OpToRel(<, Nat))
  BY <1>1
<1>3. \A y \in T : ~ (y < x)
  BY <1>2, Zenon DEF OpToRel
<1>4. x # 0 /\ x - 1 \in Nat /\ x - 1 < x /\ x = (x - 1) + 1
  BY SMT
<1>5. x - 1 \in S
  BY <1>3, <1>4
<1>. QED BY <1>4, <1>5

\* f is the recursion over the numbers up to n from base by step.
Recurs(f, n, T, base, step) ==
    /\ f \in [0 .. n -> T] /\ f[0] = base
    /\ \A i \in 1 .. n : f[i] = step[<<f[i - 1], i>>]

(* There is one.                                                             *)
LEMMA Recursion ==
  ASSUME NEW n \in Nat, NEW T, NEW base \in T, NEW step \in [T \X (1 .. n) -> T]
  PROVE  \E f : Recurs(f, n, T, base, step)
<1>. DEFINE Solves(f, m) == /\ f \in [0 .. m -> T] /\ f[0] = base
                            /\ \A i \in 1 .. m : f[i] = step[<<f[i - 1], i>>]
            S == {m \in Nat : m <= n => \E f : Solves(f, m)}
<1>1. S = Nat
  <2>1. 0 \in S
    <3>1. Solves([i \in 0 .. 0 |-> base], 0)
      OBVIOUS
    <3>. QED BY <3>1
  <2>2. ASSUME NEW m \in S PROVE m + 1 \in S
    <3>0. m \in Nat /\ m + 1 \in Nat
      OBVIOUS
    <3>. SUFFICES ASSUME m + 1 <= n PROVE \E f : Solves(f, m + 1)
      BY <3>0
    <3>1. PICK f : Solves(f, m)
      BY <3>0
    <3>. DEFINE g == [i \in 0 .. m + 1 |-> IF i = m + 1 THEN step[<<f[m], i>>] ELSE f[i]]
    <3>2. m + 1 \in 1 .. n /\ f[m] \in T
      BY <3>0, <3>1
    <3>3. step[<<f[m], m + 1>>] \in T
      <4>1. <<f[m], m + 1>> \in T \X (1 .. n)
        BY <3>2
      <4>. QED BY <4>1
    <3>4. g \in [0 .. m + 1 -> T] /\ g[0] = base
      BY <3>0, <3>1, <3>3
    <3>5. ASSUME NEW i \in 1 .. m + 1 PROVE g[i] = step[<<g[i - 1], i>>]
      <4>1. i - 1 \in 0 .. m /\ i - 1 \in 0 .. m + 1 /\ i - 1 # m + 1 /\ i \in 0 .. m + 1
        BY <3>0
      <4>2. g[i - 1] = f[i - 1]
        BY <4>1
      <4>3. CASE i = m + 1
        BY <3>0, <4>1, <4>2, <4>3
      <4>4. CASE i # m + 1
        <5>1. i \in 1 .. m
          BY <3>0, <4>4
        <5>2. g[i] = f[i]
          BY <4>1, <4>4
        <5>. QED BY <3>1, <4>2, <5>1, <5>2
      <4>. QED BY <4>3, <4>4
    <3>. HIDE DEF g
    <3>6. Solves(g, m + 1)
      BY <3>4, <3>5
    <3>. QED BY <3>6
  <2>. HIDE DEF S
  <2>3. S \in SUBSET Nat
    BY DEF S
  <2>. QED BY <2>1, <2>2, <2>3, SetInduction
<1>2. \E f : Solves(f, n)
  <2>1. n \in S
    BY <1>1
  <2>. QED BY <2>1
<1>. QED BY <1>2 DEF Recurs

(* What the digits are, by its recursion.                                    *)
LEMMA DecimalDef ==
  ASSUME NEW digits \in Seq(0 .. 9), NEW n, n = Len(digits)
  PROVE  \E D \in [0 .. n -> Nat] : /\ D[0] = 0 /\ Decimal(digits) = D[n]
                                    /\ \A i \in 1 .. n : D[i] = D[i - 1] * 10 + digits[i]
<1>0. n \in Nat
  BY LenProperties
<1>10. \A i \in 1 .. n : digits[i] \in Nat
  <2>. TAKE i \in 1 .. n
  <2>1. digits[i] \in 0 .. 9
    BY ElementOfSeq
  <2>. QED BY <2>1
<1>. DEFINE Solves(f) == f = [i \in 0 .. n |-> IF i = 0 THEN 0 ELSE f[i - 1] * 10 + digits[i]]
            step == [x \in Nat \X (1 .. n) |-> x[1] * 10 + digits[x[2]]]
<1>1. \A t \in Nat, i \in 1 .. n : step[<<t, i>>] = t * 10 + digits[i] /\ step[<<t, i>>] \in Nat
  <2>. TAKE t \in Nat, i \in 1 .. n
  <2>1. <<t, i>> \in Nat \X (1 .. n)
    OBVIOUS
  <2>2. step[<<t, i>>] = t * 10 + digits[i]
    BY <2>1
  <2>. HIDE DEF step
  <2>. QED BY <1>10, <2>2
<1>11. step \in [Nat \X (1 .. n) -> Nat]
  BY <1>10
<1>. HIDE DEF step
<1>2. PICK f \in [0 .. n -> Nat] : f[0] = 0 /\ \A i \in 1 .. n : f[i] = step[<<f[i - 1], i>>]
  <2>1. 0 \in Nat
    OBVIOUS
  <2>2. \E f : Recurs(f, n, Nat, 0, step)
    BY <1>0, <1>11, <2>1, Recursion
  <2>. QED BY <2>2 DEF Recurs
<1>3. \A i \in 1 .. n : i - 1 \in 0 .. n
  BY <1>0
<1>4. Solves(f)
  <2>1. ASSUME NEW i \in 0 .. n PROVE f[i] = IF i = 0 THEN 0 ELSE f[i - 1] * 10 + digits[i]
    <3>1. CASE i = 0
      BY <1>2, <3>1
    <3>2. CASE i # 0
      <4>1. i \in 1 .. n
        BY <1>0, <3>2
      <4>2. f[i - 1] \in Nat
        BY <1>3, <4>1
      <4>. QED BY <1>1, <1>2, <3>2, <4>1, <4>2
    <3>. QED BY <3>1, <3>2
  <2>. QED BY <2>1
<1>. DEFINE D == CHOOSE g : Solves(g)
<1>5. Solves(D)
  BY <1>4
<1>6. Decimal(digits) = D[n]
  BY DEF Decimal
<1>. HIDE DEF D
<1>7. D[0] = 0 /\ \A i \in 1 .. n : D[i] = D[i - 1] * 10 + digits[i]
  BY <1>0, <1>5
<1>. DEFINE S == {i \in Nat : i <= n => D[i] \in Nat}
<1>8. S = Nat
  <2>1. 0 \in S
    BY <1>7
  <2>2. ASSUME NEW i \in S PROVE i + 1 \in S
    <3>. SUFFICES ASSUME i + 1 <= n PROVE D[i + 1] \in Nat
      OBVIOUS
    <3>1. i + 1 \in 1 .. n /\ (i + 1) - 1 = i /\ D[i] \in Nat
      BY <1>0
    <3>2. D[i + 1] = D[i] * 10 + digits[i + 1]
      BY <1>7, <3>1
    <3>3. digits[i + 1] \in Nat
      BY <1>10, <3>1
    <3>. QED BY <3>1, <3>2, <3>3
  <2>. HIDE DEF S
  <2>3. S \in SUBSET Nat
    BY DEF S
  <2>. QED BY <2>1, <2>2, <2>3, SetInduction
<1>9. D \in [0 .. n -> Nat]
  <2>1. \A i \in 0 .. n : D[i] \in Nat
    BY <1>0, <1>8
  <2>. QED BY <1>5, <2>1
<1>. QED BY <1>6, <1>7, <1>9

(* The loop of decodeNumber, by its recursion.                               *)
LEMMA DecodeDigitsDef ==
  ASSUME NEW digits \in Seq(0 .. 9), NEW n, n = Len(digits), NEW max
  PROVE  \E V \in [0 .. n -> Nat \cup {-1}] :
            /\ V[0] = 0 /\ DecodeDigits(digits, max) = V[n]
            /\ \A i \in 1 .. n :
                  V[i] = IF V[i - 1] = -1 \/ Exceeds(V[i - 1], digits[i], i = n, max) THEN -1
                         ELSE V[i - 1] * 10 + digits[i]
<1>0. n \in Nat
  BY LenProperties
<1>10. \A i \in 1 .. n : digits[i] \in Nat
  <2>. TAKE i \in 1 .. n
  <2>1. digits[i] \in 0 .. 9
    BY ElementOfSeq
  <2>. QED BY <2>1
<1>. DEFINE Full(t, i) == t = -1 \/ Exceeds(t, digits[i], i = n, max)
            Solves(f) == f = [i \in 0 .. n |-> IF i = 0 THEN 0
                                               ELSE IF Full(f[i - 1], i) THEN -1
                                               ELSE f[i - 1] * 10 + digits[i]]
            T == Nat \cup {-1}
            step == [x \in T \X (1 .. n) |-> IF Full(x[1], x[2]) THEN -1 ELSE x[1] * 10 + digits[x[2]]]
<1>1. \A t \in T, i \in 1 .. n : /\ step[<<t, i>>] = IF Full(t, i) THEN -1 ELSE t * 10 + digits[i]
                                 /\ step[<<t, i>>] \in T
  <2>. TAKE t \in T, i \in 1 .. n
  <2>1. <<t, i>> \in T \X (1 .. n)
    OBVIOUS
  <2>2. step[<<t, i>>] = IF Full(t, i) THEN -1 ELSE t * 10 + digits[i]
    BY <2>1
  <2>3. ~Full(t, i) => t \in Nat
    OBVIOUS
  <2>. HIDE DEF step, Full
  <2>. QED BY <1>10, <2>2, <2>3
<1>11. step \in [T \X (1 .. n) -> T]
  <2>1. ASSUME NEW x \in T \X (1 .. n) PROVE step[x] \in T
    BY <1>1
  <2>. QED BY <2>1
<1>. HIDE DEF step, Full, T
<1>2. PICK f \in [0 .. n -> T] : f[0] = 0 /\ \A i \in 1 .. n : f[i] = step[<<f[i - 1], i>>]
  <2>1. 0 \in T
    BY DEF T
  <2>2. \E f : Recurs(f, n, T, 0, step)
    BY <1>0, <1>11, <2>1, Recursion
  <2>. QED BY <2>2 DEF Recurs
<1>3. \A i \in 1 .. n : i - 1 \in 0 .. n
  BY <1>0
<1>4. Solves(f)
  <2>1. ASSUME NEW i \in 0 .. n
        PROVE  f[i] = IF i = 0 THEN 0 ELSE IF Full(f[i - 1], i) THEN -1 ELSE f[i - 1] * 10 + digits[i]
    <3>1. CASE i = 0
      BY <1>2, <3>1
    <3>2. CASE i # 0
      <4>1. i \in 1 .. n
        BY <1>0, <3>2
      <4>2. f[i - 1] \in T
        BY <1>3, <4>1
      <4>. QED BY <1>1, <1>2, <3>2, <4>1, <4>2
    <3>. QED BY <3>1, <3>2
  <2>. QED BY <2>1
<1>. DEFINE V == CHOOSE g : Solves(g)
<1>5. Solves(V)
  BY <1>4
<1>6. DecodeDigits(digits, max) = V[n]
  BY DEF DecodeDigits, Full
<1>. HIDE DEF V
<1>7. V[0] = 0 /\ \A i \in 1 .. n : V[i] = IF Full(V[i - 1], i) THEN -1 ELSE V[i - 1] * 10 + digits[i]
  BY <1>0, <1>5
<1>. DEFINE S == {i \in Nat : i <= n => V[i] \in T}
<1>8. S = Nat
  <2>1. 0 \in S
    BY <1>7 DEF T
  <2>2. ASSUME NEW i \in S PROVE i + 1 \in S
    <3>. SUFFICES ASSUME i + 1 <= n PROVE V[i + 1] \in T
      OBVIOUS
    <3>1. i + 1 \in 1 .. n /\ (i + 1) - 1 = i /\ V[i] \in T
      BY <1>0
    <3>2. V[i + 1] = IF Full(V[i], i + 1) THEN -1 ELSE V[i] * 10 + digits[i + 1]
      BY <1>7, <3>1
    <3>3. digits[i + 1] \in Nat
      BY <1>10, <3>1
    <3>4. V[i] = -1 => Full(V[i], i + 1)
      BY DEF Full
    <3>. QED BY <3>1, <3>2, <3>3, <3>4 DEF T
  <2>. HIDE DEF S
  <2>3. S \in SUBSET Nat
    BY DEF S
  <2>. QED BY <2>1, <2>2, <2>3, SetInduction
<1>9. V \in [0 .. n -> T]
  <2>1. \A i \in 0 .. n : V[i] \in T
    BY <1>0, <1>8
  <2>. QED BY <1>5, <2>1
<1>. QED BY <1>6, <1>7, <1>9 DEF T, Full

(* Whether there is room for a digit d below a number with the digits of t    *)
(* and a last one r.                                                         *)
LEMMA RoomFacts ==
  ASSUME NEW t \in Nat, NEW r \in 0 .. 9, NEW n \in Nat, NEW d \in 0 .. 9, t >= 1
  PROVE  /\ n >= 10 * t => n * 10 + d > 10 * t + r
         /\ n > t => n * 10 + d > 10 * t + r
         /\ n = t => n * 10 + d >= 10 * t
         /\ n = t /\ d > r => n * 10 + d > 10 * t + r
         /\ n < t \/ (n = t /\ ~(d > r)) => n * 10 + d <= 10 * t + r
BY SMT

(* decodeNumber goes over to a double exactly when the number does not fit, *)
(* whatever the bound, and the value is the number's otherwise.              *)
LEMMA DigitsDecoded ==
  ASSUME NEW digits \in Seq(0 .. 9), NEW max \in Nat, max >= 10
  PROVE  /\ Decimal(digits) \in Nat
         /\ DecodeDigits(digits, max) = IF Decimal(digits) <= max THEN Decimal(digits) ELSE -1
<1>. DEFINE n == Len(digits)
            threshold == max \div 10
<1>0. n \in Nat
  BY LenProperties
<1>1. \A i \in 1 .. n : digits[i] \in 0 .. 9
  BY ElementOfSeq
<1>2. /\ threshold \in Nat /\ threshold >= 1 /\ max % 10 \in 0 .. 9
      /\ max = 10 * threshold + (max % 10)
  <2>1. max \in Nat /\ max >= 10
    OBVIOUS
  <2>. QED BY <2>1, Z3
<1>3. PICK D \in [0 .. n -> Nat] : /\ D[0] = 0 /\ Decimal(digits) = D[n]
                                   /\ \A i \in 1 .. n : D[i] = D[i - 1] * 10 + digits[i]
  BY DecimalDef
<1>4. PICK V \in [0 .. n -> Nat \cup {-1}] :
            /\ V[0] = 0 /\ DecodeDigits(digits, max) = V[n]
            /\ \A i \in 1 .. n :
                  V[i] = IF V[i - 1] = -1 \/ Exceeds(V[i - 1], digits[i], i = n, max) THEN -1
                         ELSE V[i - 1] * 10 + digits[i]
  BY DecodeDigitsDef
<1>. DEFINE Right(i) == /\ V[i] # -1 => V[i] = D[i] /\ D[i] <= max
                        /\ V[i] = -1 => D[i] > max \/ (i < n /\ D[i] >= 10 * threshold)
            S == {i \in Nat : i <= n => Right(i)}
<1>5. S = Nat
  <2>1. 0 \in S
    BY <1>3, <1>4
  <2>2. ASSUME NEW i \in S PROVE i + 1 \in S
    <3>. SUFFICES ASSUME i + 1 <= n PROVE Right(i + 1)
      BY DEF S
    <3>1. i + 1 \in 1 .. n /\ (i + 1) - 1 = i /\ i \in 0 .. n /\ i < n /\ Right(i)
      BY <1>0
    <3>. DEFINE digit == digits[i + 1]
    <3>2. digit \in 0 .. 9
      BY <1>1, <3>1
    <3>3. D[i + 1] = D[i] * 10 + digit
      BY <1>3, <3>1
    <3>4. V[i + 1] = IF V[i] = -1 \/ Exceeds(V[i], digit, i + 1 = n, max) THEN -1
                     ELSE V[i] * 10 + digit
      BY <1>4, <3>1
    <3>5. V[i] \in Nat \cup {-1} /\ D[i] \in Nat
      BY <3>1
    <3>. HIDE DEF digit, n, threshold
    <3>9. /\ D[i] >= 10 * threshold => D[i + 1] > max
          /\ D[i] > threshold => D[i + 1] > max
          /\ D[i] = threshold => D[i + 1] >= 10 * threshold
          /\ D[i] = threshold /\ digit > (max % 10) => D[i + 1] > max
          /\ D[i] < threshold \/ (D[i] = threshold /\ ~(digit > (max % 10))) => D[i + 1] <= max
          /\ D[i + 1] \in Nat /\ threshold \in Nat
      <4>1. D[i + 1] \in Nat
        BY <3>2, <3>3, <3>5
      <4>. DEFINE r == max % 10
                  e == D[i]
                  e1 == D[i + 1]
      <4>2. r \in 0 .. 9 /\ e \in Nat /\ max = 10 * threshold + r /\ e1 = e * 10 + digit
        BY <1>2, <3>3, <3>5
      <4>. HIDE DEF r, e, e1
      <4>3. /\ e >= 10 * threshold => e1 > max
            /\ e > threshold => e1 > max
            /\ e = threshold => e1 >= 10 * threshold
            /\ e = threshold /\ digit > r => e1 > max
            /\ e < threshold \/ (e = threshold /\ ~(digit > r)) => e1 <= max
        BY <1>2, <3>2, <4>2, RoomFacts
      <4>. QED BY <1>2, <4>1, <4>3, Zenon DEF r, e, e1
    <3>10. D[i] > max => D[i] >= 10 * threshold
      BY <1>2, <3>5
    <3>6. CASE V[i] = -1
      <4>1. D[i] > max \/ D[i] >= 10 * threshold
        BY <3>1, <3>6
      <4>2. D[i + 1] > max
        BY <3>9, <3>10, <4>1
      <4>. QED BY <3>4, <3>6, <4>2
    <3>7. CASE V[i] # -1 /\ Exceeds(V[i], digit, i + 1 = n, max)
      <4>1. V[i] = D[i] /\ V[i + 1] = -1
        BY <3>1, <3>4, <3>7
      <4>2. \/ D[i] > threshold
            \/ D[i] = threshold /\ (i + 1 # n \/ digit > max % 10)
        BY <3>7, <4>1 DEF Exceeds, threshold
      <4>3. D[i + 1] > max \/ (i + 1 < n /\ D[i + 1] >= 10 * threshold)
        BY <1>0, <3>1, <3>9, <4>2
      <4>. QED BY <4>1, <4>3
    <3>8. CASE V[i] # -1 /\ ~Exceeds(V[i], digit, i + 1 = n, max)
      <4>1. V[i] = D[i] /\ V[i + 1] = D[i + 1]
        BY <3>1, <3>3, <3>4, <3>8
      <4>2. ~(D[i] > threshold) /\ ~(D[i] = threshold /\ digit > max % 10)
        BY <3>8, <4>1 DEF Exceeds, threshold
      <4>3. D[i + 1] <= max /\ D[i + 1] \in Nat
        BY <3>5, <3>9, <4>2
      <4>. QED BY <4>1, <4>3
    <3>. QED BY <3>6, <3>7, <3>8
  <2>. HIDE DEF S
  <2>3. S \in SUBSET Nat
    BY DEF S
  <2>. QED BY <2>1, <2>2, <2>3, SetInduction
<1>6. Right(n) /\ n \in 0 .. n
  <2>1. n \in S
    BY <1>0, <1>5
  <2>. QED BY <1>0, <2>1
<1>. HIDE DEF n
<1>7. D[n] \in Nat
  BY <1>6
<1>. QED BY <1>3, <1>4, <1>6, <1>7

(* A double is a whole number of halves.                                     *)
LEMMA DoubleTyped ==
  ASSUME NEW n \in Nat, NEW half \in {0, 1}
  PROVE  Double(n, half) \in Int
BY ValueAssumption DEF Double

(* What a number reads as.                                                   *)
LEMMA NumberRead ==
  ASSUME NEW lexeme, lexeme.neg \in BOOLEAN, lexeme.digits \in Seq(0 .. 9),
         NEW v \in DecodeNumber(lexeme)
  PROVE  ReadExactly(lexeme, v) /\ \E node : v = OneNode(node) /\ IsNode(node)
<1>. DEFINE m == Decimal(lexeme.digits)
            max == IF lexeme.neg THEN MaxLargestInt + 1 ELSE MaxLargestUInt
            n == IF lexeme.neg THEN -m ELSE m
            decoded == DecodeDigits(lexeme.digits, max)
<1>1. max \in Nat /\ max >= 10
  BY ValueAssumption DEF MaxLargestUInt
<1>2. m \in Nat /\ decoded = IF m <= max THEN m ELSE -1
  <2>. HIDE DEF max
  <2>. QED BY <1>1, DigitsDecoded
<1>. HIDE DEF m
<1>3. v \in (CASE decoded = -1 \/ lexeme.frac # "none" -> DecodeDouble(lexeme)
               [] decoded # -1 /\ lexeme.frac = "none" /\ lexeme.neg -> {IntValue(-decoded)}
               [] OTHER -> {IF decoded <= MaxInt THEN IntValue(decoded) ELSE UIntValue(decoded)})
  BY DEF DecodeNumber
<1>. HIDE DEF decoded
<1>4. CASE decoded = -1 \/ lexeme.frac # "none"
  <2>. DEFINE half == IF lexeme.frac = "half" THEN 1 ELSE 0
              d == Double(m, half)
  <2>1. v = RealValue(IF lexeme.neg THEN -d ELSE d)
    BY <1>3, <1>4 DEF DecodeDouble, m
  <2>2. d \in Int
    BY <1>2, DoubleTyped
  <2>. HIDE DEF d
  <2>3. \E node : v = OneNode(node) /\ IsNode(node)
    <3>. DEFINE x == IF lexeme.neg THEN -d ELSE d
    <3>1. x \in Int
      BY <2>2
    <3>. HIDE DEF x
    <3>2. v = OneNode(Node("real", x, <<>>))
      BY <2>1 DEF RealValue, Leaf, OneNode, x
    <3>3. IsNode(Node("real", x, <<>>))
      BY <3>1 DEF IsNode, Node
    <3>. QED BY <3>2, <3>3
  <2>4. ReadExactly(lexeme, v)
    <3>. SUFFICES ASSUME lexeme.frac = "none"
                  PROVE  v = CASE n \in MinLargestInt .. MaxInt      -> IntValue(n)
                               [] n \in MaxInt + 1 .. MaxLargestUInt -> UIntValue(n)
                               [] OTHER                              -> RealValue(DoubleOf(n))
      BY DEF ReadExactly, m
    <3>1. m > max
      BY <1>1, <1>2, <1>4
    <3>2. n \notin MinLargestInt .. MaxInt /\ n \notin MaxInt + 1 .. MaxLargestUInt
      BY <1>2, <3>1, ValueAssumption DEF MinLargestInt, MaxLargestUInt
    <3>3. DoubleOf(n) = IF lexeme.neg THEN -d ELSE d
      <4>1. m > 0 /\ (lexeme.neg => n < 0 /\ -n = m) /\ (~lexeme.neg => ~(n < 0))
        BY <1>1, <1>2, <3>1
      <4>2. d = Double(m, 0)
        BY DEF d
      <4>. QED BY <4>1, <4>2 DEF DoubleOf
    <3>. QED BY <2>1, <3>2, <3>3
  <2>. QED BY <2>3, <2>4
<1>5. CASE decoded # -1 /\ lexeme.frac = "none"
  <2>1. decoded = m /\ m <= max
    BY <1>2, <1>5
  <2>2. v = IF lexeme.neg \/ m <= MaxInt THEN IntValue(n) ELSE UIntValue(n)
    BY <1>3, <1>5, <2>1
  <2>3. n \in Int
    BY <1>2
  <2>4. ReadExactly(lexeme, v)
    <3>. SUFFICES v = CASE n \in MinLargestInt .. MaxInt      -> IntValue(n)
                        [] n \in MaxInt + 1 .. MaxLargestUInt -> UIntValue(n)
                        [] OTHER                              -> RealValue(DoubleOf(n))
      BY DEF ReadExactly, m
    <3>1. lexeme.neg \/ m <= MaxInt => n \in MinLargestInt .. MaxInt /\ n \notin MaxInt + 1 .. MaxLargestUInt
      BY <1>2, <2>1, ValueAssumption DEF MinLargestInt
    <3>2. ~lexeme.neg /\ ~(m <= MaxInt) => n \notin MinLargestInt .. MaxInt /\ n \in MaxInt + 1 .. MaxLargestUInt
      BY <1>2, <2>1, ValueAssumption DEF MinLargestInt
    <3>. HIDE DEF n
    <3>3. CASE lexeme.neg \/ m <= MaxInt
      BY <2>2, <3>1, <3>3
    <3>4. CASE ~(lexeme.neg \/ m <= MaxInt)
      BY <2>2, <3>2, <3>4
    <3>. QED BY <3>3, <3>4
  <2>. HIDE DEF n
  <2>5. IntValue(n) = OneNode(Node("int", n, <<>>)) /\ UIntValue(n) = OneNode(Node("uint", n, <<>>))
    BY DEF IntValue, UIntValue, Leaf, OneNode
  <2>6. IsNode(Node("int", n, <<>>)) /\ IsNode(Node("uint", n, <<>>))
    BY <2>3 DEF IsNode, Node
  <2>. QED BY <2>2, <2>4, <2>5, <2>6
<1>. QED BY <1>4, <1>5

(* The doubles of the bounds.                                                *)
LEMMA Bounds ==
  /\ DoubleOf(0) = 0 /\ DoubleOf(MaxInt) = 2 * MaxInt /\ DoubleOf(MinInt) = -(2 * (MaxInt + 1))
  /\ DoubleOf(MaxUInt) = 2 * MaxUInt
  /\ DoubleOf(MaxLargestInt) \in {2 * MaxLargestInt, 2 * (MaxLargestInt + 1)}
  /\ DoubleOf(MinLargestInt) = 2 * MinLargestInt
  /\ DoubleOf(MaxLargestUInt) \in {2 * MaxLargestUInt, 2 * (MaxLargestUInt + 1)}
  /\ 2 * MaxUInt <= DoubleOf(MaxLargestInt)
<1>1. /\ MaxInt \in Nat /\ MaxInt > 0 /\ MaxLargestInt \in Nat /\ DoubleExact \in Nat
      /\ MaxUInt <= DoubleExact /\ DoubleExact <= MaxLargestInt /\ MaxUInt \in Nat
      /\ MaxLargestUInt \in Nat /\ MinInt < 0 /\ MinLargestInt < 0
      /\ -MinInt = MaxInt + 1 /\ -MinLargestInt = MaxLargestInt + 1
      /\ MaxInt + 1 <= MaxUInt /\ MaxInt <= MaxUInt
      /\ MinLargestInt = -(MaxLargestInt + 1)
  BY ValueAssumption DEF MinInt, MaxUInt, MinLargestInt, MaxLargestUInt
<1>2. \A n \in Nat : n <= DoubleExact => Double(n, 0) = 2 * n
  BY DEF Double
<1>3. \A n \in Nat : n % 4 = 3 => Double(n, 0) \in {2 * n, 2 * (n + 1)}
  BY DEF Double
<1>4. \A n \in Nat : n % 4 = 0 => Double(n, 0) = 2 * n
  BY DEF Double
<1>5. (MaxLargestInt + 1) % 4 = 0 /\ MaxLargestUInt % 4 = 3
  BY ValueAssumption DEF MaxLargestUInt
<1>6. DoubleOf(0) = 0 /\ DoubleOf(MaxInt) = 2 * MaxInt /\ DoubleOf(MaxUInt) = 2 * MaxUInt
  BY <1>1, <1>2 DEF DoubleOf
<1>7. DoubleOf(MinInt) = -(2 * (MaxInt + 1))
  BY <1>1, <1>2 DEF DoubleOf
<1>8. DoubleOf(MaxLargestInt) \in {2 * MaxLargestInt, 2 * (MaxLargestInt + 1)}
  BY <1>1, <1>3, ValueAssumption DEF DoubleOf
<1>9. DoubleOf(MinLargestInt) = 2 * MinLargestInt
  <2>1. Double(MaxLargestInt + 1, 0) = 2 * (MaxLargestInt + 1)
    BY <1>1, <1>4, <1>5
  <2>. QED BY <1>1, <2>1 DEF DoubleOf
<1>10. DoubleOf(MaxLargestUInt) \in {2 * MaxLargestUInt, 2 * (MaxLargestUInt + 1)}
  BY <1>1, <1>3, <1>5 DEF DoubleOf
<1>11. 2 * MaxUInt <= DoubleOf(MaxLargestInt)
  BY <1>1, <1>8
<1>. QED BY <1>6, <1>7, <1>8, <1>9, <1>10, <1>11

(* What is left of a double without its fraction.                            *)
LEMMA TruncateRange ==
  ASSUME NEW r \in Int, NEW lo \in Int, NEW hi \in Int, lo <= 0, 0 <= hi,
         r >= 2 * lo, r < 2 * (hi + 1)
  PROVE  Truncate(r) \in lo .. hi
BY DEF Truncate

(* A value converts to a type when the test for it says so, and to a number   *)
(* the type has, but for the bound of 64 bits rounded.                       *)
LEMMA NodeConverts ==
  ASSUME NEW v, IsNode(v[<<>>])
  PROVE  NumbersOf(v)
<1>. DEFINE x == v[<<>>]
            n == x.num
<1>1. /\ MinInt \in Int /\ MaxInt \in Int /\ MaxUInt \in Int /\ MinLargestInt \in Int
      /\ MaxLargestInt \in Int /\ MaxLargestUInt \in Int
      /\ MinLargestInt <= MinInt /\ MinInt <= 0 /\ 1 <= MaxInt /\ MaxInt <= MaxUInt
      /\ MaxUInt <= MaxLargestInt /\ MaxLargestInt <= MaxLargestUInt
      /\ MinInt = -(MaxInt + 1)
  BY ValueAssumption DEF MinInt, MaxUInt, MinLargestInt, MaxLargestUInt
<1>2. /\ x.type \in {"null", "int", "uint", "real", "boolean", "string", "array", "object"}
      /\ x.type \in {"int", "uint", "real"} => n \in Int
      /\ x.type = "boolean" => n \in {0, 1}
      /\ x.type \notin {"int", "uint", "real", "boolean"} => n = 0
  BY DEF IsNode
<1>3. IsEmpty(v, <<>>) => x.type \in {"null", "array", "object"}
  BY DEF IsEmpty, IsComplex
<1>17. x = v[<<>>] /\ n = v[<<>>].num
  OBVIOUS
<1>. HIDE DEF x, n
<1>4. \A lo, hi : AsIntegral(v, lo, hi) =
         CASE x.type \in {"int", "uint"}     -> {m \in {n} : m \in lo .. hi}
           [] x.type = "real"                -> {Truncate(r) : r \in {r \in {n} : InRange(r, lo, hi)}}
           [] x.type \in {"null", "boolean"} -> {n}
           [] OTHER                          -> {}
  BY <1>17 DEF AsIntegral
<1>5. \A lo, hi : Fits(v, lo, hi) <=> \/ x.type \in {"int", "uint"} /\ n \in lo .. hi
                                      \/ x.type = "real" /\ InRange(n, lo, hi) /\ IsIntegral(n)
  BY <1>17 DEF Fits
<1>6. IsNumeric(v) <=> x.type \in {"int", "uint", "real"}
  BY <1>17 DEF IsNumeric
<1>7. /\ IsConvertibleTo(v, "int") <=> \/ IsInt(v) \/ x.type \in {"boolean", "null"}
                                       \/ x.type = "real" /\ InRange(n, MinInt, MaxInt)
      /\ IsConvertibleTo(v, "uint") <=> \/ IsUInt(v) \/ x.type \in {"boolean", "null"}
                                        \/ x.type = "real" /\ InRange(n, 0, MaxUInt)
      /\ IsConvertibleTo(v, "real") <=> IsNumeric(v) \/ x.type \in {"boolean", "null"}
      /\ IsConvertibleTo(v, "boolean") <=> IsNumeric(v) \/ x.type \in {"boolean", "null"}
      /\ IsConvertibleTo(v, "string") <=> IsNumeric(v) \/ x.type \in {"boolean", "string", "null"}
      /\ IsConvertibleTo(v, "null") => \/ IsNumeric(v) /\ AsDouble(v) = {0}
                                       \/ x.type = "boolean" /\ n = 0
                                       \/ x.type \in {"string", "null", "array", "object"}
  BY <1>3, <1>17 DEF IsConvertibleTo
<1>8. AsDouble(v) = CASE x.type \in {"int", "uint"}     -> {DoubleOf(n)}
                      [] x.type = "real"                -> {n}
                      [] x.type \in {"null", "boolean"} -> {2 * n}
                      [] OTHER                          -> {}
  BY <1>17 DEF AsDouble
<1>9. AsBool(v) = IF x.type \in {"int", "uint", "real", "null", "boolean"} THEN {n # 0} ELSE {}
  BY <1>6, <1>17 DEF AsBool
<1>10. AsString(v) # {} <=> x.type \in {"int", "uint", "real", "null", "boolean", "string"}
  BY <1>2, <1>6, <1>17 DEF AsString
<1>11. ASSUME NEW m \in Int PROVE DoubleOf(m) = 0 => m = 0
  <2>1. \A i \in Nat : i > 0 => Double(i, 0) > 0 /\ Double(i, 0) \in Int
    <3>. TAKE i \in Nat
    <3>1. CASE i <= DoubleExact
      BY <3>1 DEF Double
    <3>2. CASE ~(i <= DoubleExact)
      <4>1. i >= 2
        BY <3>2, ValueAssumption
      <4>2. Double(i, 0) \in {2 * i, 2 * (i + 1), 2 * (i - 1)}
        BY <3>2 DEF Double
      <4>. QED BY <4>1, <4>2
    <3>. QED BY <3>1, <3>2
  <2>. QED BY <2>1 DEF DoubleOf
<1>12. IsConvertibleTo(v, "null") => \A t \in AsBool(v) : ~t
  BY <1>2, <1>6, <1>7, <1>8, <1>9, <1>11
<1>13. /\ Converts(v, AsInt(v), "int", MinInt, MaxInt)
       /\ Converts(v, AsUInt(v), "uint", 0, MaxUInt)
  <2>1. ASSUME x.type = "real", NEW lo \in Int, NEW hi \in Int, lo <= 0, 0 <= hi,
               DoubleOf(lo) = 2 * lo, DoubleOf(hi) = 2 * hi
        PROVE  AsIntegral(v, lo, hi) \subseteq lo .. hi /\ (AsIntegral(v, lo, hi) # {} <=> InRange(n, lo, hi))
    <3>1. AsIntegral(v, lo, hi) = {Truncate(r) : r \in {r \in {n} : InRange(r, lo, hi)}}
      BY <1>4, <2>1
    <3>2. InRange(n, lo, hi) => n >= 2 * lo /\ n < 2 * (hi + 1)
      BY <1>2, <2>1 DEF InRange
    <3>3. InRange(n, lo, hi) => Truncate(n) \in lo .. hi
      BY <1>2, <2>1, <3>2, TruncateRange
    <3>. QED BY <3>1, <3>3
  <2>2. CASE x.type \in {"int", "uint"}
    <3>1. /\ AsInt(v) = {m \in {n} : m \in MinInt .. MaxInt} /\ (IsInt(v) <=> n \in MinInt .. MaxInt)
          /\ AsUInt(v) = {m \in {n} : m \in 0 .. MaxUInt} /\ (IsUInt(v) <=> n \in 0 .. MaxUInt)
      BY <1>4, <1>5, <2>2 DEF AsInt, AsUInt, IsInt, IsUInt
    <3>2. (IsConvertibleTo(v, "int") <=> IsInt(v)) /\ (IsConvertibleTo(v, "uint") <=> IsUInt(v))
      BY <1>7, <2>2
    <3>. QED BY <3>1, <3>2 DEF Converts
  <2>3. CASE x.type = "real"
    <3>1. /\ AsInt(v) \subseteq MinInt .. MaxInt /\ (AsInt(v) # {} <=> InRange(n, MinInt, MaxInt))
          /\ AsUInt(v) \subseteq 0 .. MaxUInt /\ (AsUInt(v) # {} <=> InRange(n, 0, MaxUInt))
      <4>1. 2 * MinInt = DoubleOf(MinInt) /\ 0 \in Int /\ 2 * 0 = DoubleOf(0)
        BY <1>1, Bounds
      <4>2. AsIntegral(v, MinInt, MaxInt) \subseteq MinInt .. MaxInt
            /\ (AsIntegral(v, MinInt, MaxInt) # {} <=> InRange(n, MinInt, MaxInt))
        BY <1>1, <2>1, <2>3, <4>1, Bounds
      <4>3. AsIntegral(v, 0, MaxUInt) \subseteq 0 .. MaxUInt
            /\ (AsIntegral(v, 0, MaxUInt) # {} <=> InRange(n, 0, MaxUInt))
        BY <1>1, <2>1, <2>3, <4>1, Bounds
      <4>. QED BY <4>2, <4>3 DEF AsInt, AsUInt
    <3>. QED BY <1>5, <1>7, <2>3, <3>1 DEF Converts, IsInt, IsUInt
  <2>4. CASE x.type \in {"null", "boolean"}
    <3>1. n \in {0, 1}
      BY <1>2, <2>4
    <3>2. AsInt(v) = {n} /\ AsUInt(v) = {n}
      BY <1>4, <2>4 DEF AsInt, AsUInt
    <3>3. {n} \subseteq MinInt .. MaxInt /\ {n} \subseteq 0 .. MaxUInt
      BY <1>1, <3>1
    <3>4. IsConvertibleTo(v, "int") /\ IsConvertibleTo(v, "uint")
      BY <1>7, <2>4
    <3>. QED BY <3>2, <3>3, <3>4 DEF Converts
  <2>5. CASE x.type \in {"string", "array", "object"}
    <3>1. AsInt(v) = {} /\ AsUInt(v) = {}
      BY <1>4, <2>5 DEF AsInt, AsUInt
    <3>. QED BY <1>5, <1>7, <2>5, <3>1 DEF Converts, IsInt, IsUInt
  <2>. QED BY <1>2, <2>2, <2>3, <2>4, <2>5
<1>14. /\ IsConvertibleTo(v, "real") <=> AsDouble(v) # {}
       /\ IsConvertibleTo(v, "boolean") <=> AsBool(v) # {}
       /\ IsConvertibleTo(v, "string") <=> AsString(v) # {}
  BY <1>2, <1>6, <1>7, <1>8, <1>9, <1>10
<1>. DEFINE exact == IF x.type = "real" THEN Truncate(n) ELSE n
<1>15. /\ IsInt(v) \/ IsUInt(v) => AsInt64(v) = {exact}
       /\ IsInt64(v) => AsInt64(v) = {exact}
       /\ IsUInt64(v) => AsUInt64(v) = {exact}
  <2>1. CASE x.type \in {"int", "uint"}
    <3>1. /\ n \in MinLargestInt .. MaxLargestInt => AsInt64(v) = {n}
          /\ n \in 0 .. MaxLargestUInt => AsUInt64(v) = {n}
      BY <1>4, <2>1 DEF AsInt64, AsUInt64
    <3>2. IsInt(v) \/ IsUInt(v) => n \in MinLargestInt .. MaxLargestInt
      BY <1>1, <1>2, <1>5, <2>1 DEF IsInt, IsUInt
    <3>3. /\ IsInt64(v) => n \in MinLargestInt .. MaxLargestInt
          /\ IsUInt64(v) => n \in 0 .. MaxLargestUInt
      BY <1>5, <2>1 DEF IsInt64, IsUInt64, FitsStrictly
    <3>. QED BY <2>1, <3>1, <3>2, <3>3
  <2>2. CASE x.type = "real"
    <3>1. /\ InRange(n, MinLargestInt, MaxLargestInt) => AsInt64(v) = {Truncate(n)}
          /\ InRange(n, 0, MaxLargestUInt) => AsUInt64(v) = {Truncate(n)}
      BY <1>4, <2>2 DEF AsInt64, AsUInt64
    <3>2. IsInt(v) \/ IsUInt(v) => InRange(n, MinLargestInt, MaxLargestInt)
      <4>1. IsInt(v) \/ IsUInt(v) => n >= 2 * MinInt /\ n <= 2 * MaxUInt
        BY <1>1, <1>2, <1>5, <2>2, Bounds DEF IsInt, IsUInt, InRange
      <4>. QED BY <1>1, <1>2, <2>2, <4>1, Bounds DEF InRange
    <3>3. /\ IsInt64(v) => InRange(n, MinLargestInt, MaxLargestInt)
          /\ IsUInt64(v) => InRange(n, 0, MaxLargestUInt)
      BY <1>5, <2>2 DEF IsInt64, IsUInt64, FitsStrictly
    <3>. QED BY <2>2, <3>1, <3>2, <3>3
  <2>3. CASE x.type \notin {"int", "uint", "real"}
    BY <1>5, <2>3 DEF IsInt, IsUInt, IsInt64, IsUInt64, FitsStrictly
  <2>. QED BY <2>1, <2>2, <2>3
<1>16. /\ \A m \in AsInt64(v) : m \in MinLargestInt .. MaxLargestInt \/ n = DoubleOf(MaxLargestInt)
       /\ \A m \in AsUInt64(v) : m \in 0 .. MaxLargestUInt \/ n = DoubleOf(MaxLargestUInt)
  <2>1. CASE x.type \in {"int", "uint"}
    BY <1>4, <2>1 DEF AsInt64, AsUInt64
  <2>2. CASE x.type = "real"
    <3>1. ASSUME NEW lo \in Int, NEW hi \in Int, lo <= 0, 0 <= hi, DoubleOf(lo) = 2 * lo,
                 DoubleOf(hi) \in {2 * hi, 2 * (hi + 1)}, NEW m \in AsIntegral(v, lo, hi)
          PROVE  m \in lo .. hi \/ n = DoubleOf(hi)
      <4>1. m = Truncate(n) /\ InRange(n, lo, hi)
        BY <1>4, <2>2, <3>1
      <4>2. n >= 2 * lo /\ (n < 2 * (hi + 1) \/ n = DoubleOf(hi))
        BY <1>2, <2>2, <3>1, <4>1 DEF InRange
      <4>. QED BY <1>2, <2>2, <3>1, <4>1, <4>2, TruncateRange
    <3>. QED BY <1>1, <3>1, Bounds DEF AsInt64, AsUInt64
  <2>3. CASE x.type \in {"null", "boolean"}
    <3>1. AsInt64(v) = {n} /\ AsUInt64(v) = {n} /\ n \in {0, 1}
      BY <1>2, <1>4, <2>3 DEF AsInt64, AsUInt64
    <3>. QED BY <1>1, <3>1
  <2>4. CASE x.type \in {"string", "array", "object"}
    BY <1>4, <2>4 DEF AsInt64, AsUInt64
  <2>. QED BY <1>2, <2>1, <2>2, <2>3, <2>4
<1>. QED BY <1>12, <1>13, <1>14, <1>15, <1>16, <1>17 DEF NumbersOf

(* What a lexeme gives is a single node.                                     *)
LEMMA DecodeNode ==
  ASSUME NEW lexeme, IsLexeme(lexeme), IsScalar(lexeme), NEW w \in Decode(lexeme)
  PROVE  \E node : w = OneNode(node) /\ IsNode(node)
<1>1. ASSUME NEW type, NEW num, NEW str, IsNode(Node(type, num, str)), w = Leaf(type, num, str)
      PROVE  \E node : w = OneNode(node) /\ IsNode(node)
  BY <1>1 DEF Leaf, OneNode
<1>2. /\ \A str : IsNode(Node("string", 0, str)) /\ IsNode(Node("null", 0, <<>>))
      /\ IsNode(Node("boolean", 0, <<>>)) /\ IsNode(Node("boolean", 1, <<>>))
  BY DEF IsNode, Node
<1>3. CASE lexeme.kind = "number"
  <2>1. w \in DecodeNumber(lexeme)
    BY <1>3 DEF Decode
  <2>. QED BY <1>3, <2>1, NumberRead DEF IsLexeme
<1>4. CASE lexeme.kind = "string"
  <2>1. \E bytes : w = StringValue(bytes)
    BY <1>4 DEF Decode
  <2>. QED BY <1>1, <1>2, <2>1 DEF StringValue
<1>5. CASE lexeme.kind \in {"true", "false"}
  <2>1. w = BooleanValue(lexeme.kind = "true")
    BY <1>5 DEF Decode
  <2>2. w = Leaf("boolean", 1, <<>>) \/ w = Leaf("boolean", 0, <<>>)
    BY <2>1 DEF BooleanValue
  <2>. QED BY <1>1, <1>2, <2>2
<1>6. CASE lexeme.kind = "null"
  <2>1. w = Leaf("null", 0, <<>>)
    BY <1>6 DEF Decode, Null
  <2>. QED BY <1>1, <1>2, <2>1
<1>. QED BY <1>3, <1>4, <1>5, <1>6 DEF IsScalar

(* A node that is put into a value leaves a value, and is the whole value when *)
(* it is put at the root.                                                    *)
LEMMA PutValue ==
  ASSUME NEW v, IsValue(v), NEW K, NEW path \in Seq(K), NEW node, IsNode(node)
  PROVE  /\ IsValue(Put(v, path, OneNode(node)))
         /\ path = <<>> => Put(v, path, OneNode(node)) = OneNode(node)
<1>1. Put(v, path, OneNode(node)) = PutNode(v, path, node)
  BY PutLeaf
<1>. DEFINE D == (DOMAIN v \ Under(v, path)) \cup {path}
<1>2. /\ DOMAIN PutNode(v, path, node) = D
      /\ \A q \in D : PutNode(v, path, node)[q] = IF q = path THEN node ELSE v[q]
  BY DEF PutNode
<1>3. Len(path) \in Nat /\ (Len(path) = 0 => path = <<>>)
  BY LenProperties, EmptySeq
<1>4. <<>> \in D
  <2>1. IsPrefix(path, <<>>) => Len(path) <= 0
    BY DEF IsPrefix
  <2>. QED BY <1>3, <2>1 DEF IsValue, Under
<1>5. \A q \in D : Len(q) \in Nat /\ IsNode(IF q = path THEN node ELSE v[q])
  BY <1>3 DEF IsValue
<1>6. ASSUME path = <<>> PROVE PutNode(v, path, node) = OneNode(node)
  <2>1. ASSUME NEW q \in DOMAIN v PROVE q \in Under(v, path)
    <3>1. Len(q) \in Nat
      BY DEF IsValue
    <3>2. SubSeq(<<>>, 1, 0) = <<>> /\ SubSeq(q, 1, 0) = <<>>
      OBVIOUS
    <3>3. IsPrefix(<<>>, q)
      BY <3>1, <3>2 DEF IsPrefix
    <3>. QED BY <1>6, <3>3 DEF Under
  <2>2. D = {<<>>}
    BY <1>6, <2>1
  <2>. QED BY <1>6, <2>2 DEF PutNode, OneNode
<1>. HIDE DEF D
<1>. QED BY <1>1, <1>2, <1>4, <1>5, <1>6 DEF IsValue

\* What is read is what the document may hold; and before the first lexeme, and
\* behind one that is a number, no container was ever open.
DocInv ==
    /\ \A l \in alphabet \cup {next} : IsLexeme(l)
    /\ \E L : doc \in Seq(L)
    /\ doc = <<>> =>
         /\ frames = <<>> /\ r_pc \in {"value", "trail", "done"}
         /\ r_pc # "value" => ~success
    /\ doc # <<>> /\ doc[1].kind = "number" =>
         /\ r_pc \in {"trail", "done"} /\ IsLexeme(doc[1])
         /\ success => root \in Decode(doc[1])

NumberInv == ReaderInv /\ IsValue(root) /\ DocInv

(* Nothing is read yet.                                                      *)
LEMMA InitNumberInv == ReaderStart => NumberInv
<1>. SUFFICES ASSUME ReaderStart PROVE NumberInv
  OBVIOUS
<1>1. IsValue(Null)
  BY DEF IsValue, IsNode, Null, Leaf, Node
<1>2. IsLexeme(Eof)
  BY DEF IsLexeme, Eof, Punct
<1>3. /\ IsValue(root) /\ doc = <<>> /\ frames = <<>> /\ r_pc = "value"
      /\ \A l \in alphabet \cup {next} : IsLexeme(l)
  BY <1>1, <1>2, ReaderAssumption DEF ReaderStart, ReaderInit
<1>4. doc \in Seq({})
  BY <1>3
<1>. QED BY <1>3, <1>4, InitReaderInv DEF NumberInv, DocInv

(* What reading a lexeme does to the document.                               *)
LEMMA ReadStep ==
  ASSUME DocInv, Read
  PROVE  /\ \A l \in alphabet' \cup {next'} : IsLexeme(l)
         /\ \E L : doc' \in Seq(L)
         /\ doc # <<>> => doc' # <<>> /\ doc'[1] = doc[1]
         /\ doc = <<>> => (\/ doc' = <<>> /\ (next = Eof \/ r_pc = "trail")
                           \/ doc' # <<>> /\ doc'[1] = next)
         /\ r_pc = "trail" => doc' = doc
<1>1. \A l \in alphabet' \cup {next'} : IsLexeme(l)
  <2>1. IsLexeme(Eof)
    BY DEF IsLexeme, Eof, Punct
  <2>2. Upcoming \subseteq alphabet \cup {Eof}
    <3>1. CASE next = Eof \/ room = 0
      BY <3>1 DEF Upcoming
    <3>2. CASE ~(next = Eof \/ room = 0)
      BY <3>2 DEF Upcoming
    <3>. QED BY <3>1, <3>2
  <2>. QED BY <2>1, <2>2 DEF Read, DocInv
<1>. PICK L : doc \in Seq(L)
  BY DEF DocInv
<1>2. CASE doc' = doc
  BY <1>1, <1>2 DEF Read
<1>3. CASE r_pc # "trail" /\ next # Eof /\ doc' = Append(doc, next)
  <2>1. doc \in Seq(L \cup {next}) /\ next \in L \cup {next}
    BY SeqMonotonic
  <2>2. /\ doc' \in Seq(L \cup {next}) /\ Len(doc') = Len(doc) + 1
        /\ \A i \in 1 .. Len(doc) : doc'[i] = doc[i]
        /\ doc'[Len(doc) + 1] = next
    BY <1>3, <2>1, AppendProperties
  <2>3. Len(doc) \in Nat /\ (doc = <<>> <=> Len(doc) = 0)
    BY LenProperties, EmptySeq
  <2>4. Len(doc') # 0 /\ (doc # <<>> => 1 \in 1 .. Len(doc))
    BY <2>2, <2>3
  <2>5. doc' # <<>>
    BY <2>4
  <2>. QED BY <1>1, <1>3, <2>2, <2>3, <2>4, <2>5
<1>. QED BY <1>2, <1>3 DEF Read

(* Whatever is read, the root stays a value.                                 *)
LEMMA ValueKept ==
  ASSUME NumberInv, [ReaderNext]_readerVars
  PROVE  IsValue(root')
<1>. PICK K : nodes_ \in Seq(Seq(K))
  BY DEF NumberInv, ReaderInv, PathInv
<1>0. currentValue \in Seq(K)
  BY CurrentFacts DEF NumberInv
<1>1. CASE root' = root
  BY <1>1 DEF NumberInv
<1>2. ASSUME NEW node, IsNode(node), root' = Put(root, currentValue, OneNode(node))
      PROVE  IsValue(root')
  BY <1>0, <1>2, PutValue DEF NumberInv
<1>3. ASSUME NEW key, Enter(Insert(root, currentValue, key), key)
      PROVE  IsValue(root')
  <2>1. root' = Insert(root, currentValue, key)
    BY <1>3 DEF Enter
  <2>2. CASE root' = root
    BY <1>1, <2>2
  <2>3. CASE root' = Put(root, Append(currentValue, key), Null)
    <3>1. currentValue \in Seq(K \cup {key}) /\ key \in K \cup {key}
      BY <1>0, SeqMonotonic
    <3>2. Append(currentValue, key) \in Seq(K \cup {key})
      BY <3>1, AppendProperties
    <3>3. Null = OneNode(Node("null", 0, <<>>)) /\ IsNode(Node("null", 0, <<>>))
      BY DEF Null, Leaf, OneNode, IsNode, Node
    <3>. QED BY <2>3, <3>2, <3>3, PutValue DEF NumberInv
  <2>. QED BY <2>1, <2>2, <2>3 DEF Insert
<1>4. CASE ReadScalar
  <2>1. IsScalar(next) /\ IsLexeme(next)
    BY <1>4 DEF ReadScalar, NumberInv, DocInv
  <2>2. root' = root \/ \E w \in Decode(next) : root' = Put(root, currentValue, w)
    BY <1>4 DEF ReadScalar
  <2>. QED BY <1>1, <1>2, <2>1, <2>2, DecodeNode
<1>5. CASE OpenContainer
  <2>1. PICK type \in {"object", "array"} : root' = Put(root, currentValue, Empty(type))
    BY <1>5 DEF OpenContainer
  <2>2. Empty(type) = OneNode(Node(type, 0, <<>>)) /\ IsNode(Node(type, 0, <<>>))
    BY DEF Empty, Leaf, OneNode, IsNode, Node
  <2>. QED BY <1>2, <2>1, <2>2
<1>6. CASE ReadColon
  <2>1. r_pc = "colon" /\ r_pc \in Within
    BY <1>6 DEF ReadColon, Within, InObjectAt, InArrayAt
  <2>2. Frame.type = "object"
    BY <2>1 DEF NumberInv, ReaderInv, FrameInv, InObjectAt
  <2>3. root' = root \/ Enter(Insert(root, currentValue, Member(Frame.name)), Member(Frame.name))
    BY <1>6, <2>1, <2>2, InsertStep DEF ReadColon, NumberInv
  <2>. QED BY <1>1, <1>3, <2>3
<1>7. CASE NextItem
  <2>1. r_pc \in {"first", "separator"} /\ r_pc \in Within
    BY <1>7 DEF NextItem, Within, InObjectAt, InArrayAt
  <2>2. Frame.type = "array"
    BY <2>1 DEF NumberInv, ReaderInv, FrameInv, InArrayAt
  <2>3. Enter(Insert(root, currentValue, Item(Frame.index)), Item(Frame.index))
    BY <1>7, <2>1, <2>2, InsertStep DEF NextItem, NumberInv
  <2>. QED BY <1>3, <2>3
<1>8. CASE Comment \/ ExpectedValue \/ ReadName \/ EndObject \/ MissingName \/ ReadComma
           \/ EndArray \/ ReadSeparator \/ Skip \/ Finish \/ UNCHANGED readerVars
  <2>1. root' = root
    BY <1>8 DEF Comment, ExpectedValue, ReadName, EndObject, MissingName, ReadComma,
                EndArray, ReadSeparator, Skip, Finish, readerVars
  <2>. QED BY <1>1, <2>1
<1>. QED BY <1>4, <1>5, <1>6, <1>7, <1>8 DEF ReaderNext

(* The first lexeme decides.                                                 *)
LEMMA FirstLexeme ==
  ASSUME NumberInv, ReaderNext, r_pc \notin {"trail", "done"}
  PROVE  DocInv'
<1>. PICK K : nodes_ \in Seq(Seq(K))
  BY DEF NumberInv, ReaderInv, PathInv
<1>1. CASE r_pc = "first" /\ UNCHANGED <<doc, next, alphabet, room>>
  BY <1>1 DEF NumberInv, DocInv
<1>2. CASE Read /\ doc # <<>>
  <2>1. doc[1].kind # "number"
    BY <1>2 DEF NumberInv, DocInv
  <2>. QED BY <1>2, <2>1, ReadStep DEF NumberInv, DocInv
<1>3. CASE Read /\ doc = <<>>
  <2>1. frames = <<>> /\ r_pc = "value" /\ IsLexeme(next)
    BY <1>3 DEF NumberInv, DocInv
  <2>2. CASE next.kind # "number" /\ next # Eof
    <3>1. doc' # <<>> /\ doc'[1].kind # "number"
      BY <1>3, <2>1, <2>2, ReadStep DEF NumberInv
    <3>. QED BY <1>3, <3>1, ReadStep DEF NumberInv, DocInv
  <2>3. CASE next = Eof
    <3>1. next.kind = "end of stream"
      BY <2>3 DEF Eof, Punct
    <3>2. ExpectedValue
      BY <2>1, <3>1 DEF ReaderNext, Comment, ReadScalar, IsScalar, OpenContainer, ReadName,
                        EndObject, MissingName, ReadColon, ReadComma, EndArray, NextItem,
                        ReadSeparator, Skip, Finish
    <3>3. frames' = <<>> /\ r_pc' = "trail" /\ success' = FALSE
      BY <2>1, <3>2 DEF ExpectedValue, Return
    <3>4. doc' = <<>>
      BY <1>3, <2>3 DEF Read
    <3>. QED BY <1>3, <3>3, <3>4, ReadStep DEF NumberInv, DocInv
  <2>4. CASE next.kind = "number"
    <3>1. ReadScalar
      BY <2>1, <2>4 DEF ReaderNext, Comment, IsScalar, OpenContainer, ExpectedValue, ReadName,
                        EndObject, MissingName, ReadColon, ReadComma, EndArray, NextItem,
                        ReadSeparator, Skip, Finish
    <3>2. r_pc' = "trail" /\ success' = (Decode(next) # {})
      BY <2>1, <3>1 DEF ReadScalar, EndValue, Return
    <3>3. Eof.kind = "end of stream"
      BY DEF Eof, Punct
    <3>4. doc' # <<>> /\ doc'[1] = next
      BY <1>3, <2>1, <2>4, <3>3, ReadStep DEF NumberInv
    <3>5. ASSUME success' PROVE root' \in Decode(next)
      <4>1. PICK w \in Decode(next) : root' = Put(root, currentValue, w)
        BY <3>1, <3>2, <3>5 DEF ReadScalar
      <4>2. PICK node : w = OneNode(node) /\ IsNode(node)
        BY <2>1, <2>4, DecodeNode DEF IsScalar
      <4>3. currentValue \in Seq(K) /\ Len(currentValue) = 0
        <5>1. r_pc \notin Within
          BY <2>1 DEF Within, InObjectAt, InArrayAt
        <5>2. Len(nodes_) = 0 + 1
          BY <2>1, <5>1, CurrentFacts DEF NumberInv
        <5>. QED BY <5>2, CurrentFacts DEF NumberInv
      <4>4. currentValue = <<>>
        BY <4>3, EmptySeq
      <4>. QED BY <4>1, <4>2, <4>3, <4>4, PutValue DEF NumberInv
    <3>. QED BY <1>3, <2>1, <3>2, <3>4, <3>5, ReadStep DEF NumberInv, DocInv
  <2>. QED BY <2>2, <2>3, <2>4
<1>4. Read \/ (r_pc = "first" /\ UNCHANGED <<doc, next, alphabet, room>>)
  BY DEF ReaderNext, Comment, ReadScalar, OpenContainer, ExpectedValue, ReadName, EndObject,
         MissingName, ReadColon, ReadComma, EndArray, NextItem, ReadSeparator, Skip, Finish
<1>. QED BY <1>1, <1>2, <1>3, <1>4

(* Every step of the reader keeps what is known of the first lexeme.         *)
LEMMA NumberStep ==
  ASSUME NumberInv, [ReaderNext]_readerVars
  PROVE  NumberInv'
<1>1. ReaderInv' /\ IsValue(root')
  BY ReaderStep, ValueKept DEF NumberInv
<1>2. DocInv'
  <2>1. CASE ReaderNext /\ r_pc \notin {"trail", "done"}
    BY <2>1, FirstLexeme
  <2>2. CASE ReaderNext /\ r_pc \in {"trail", "done"}
    <3>1. Comment \/ Finish
      BY <2>2 DEF ReaderNext, ReadScalar, OpenContainer, ExpectedValue, ReadName, EndObject,
                  MissingName, ReadColon, ReadComma, EndArray, NextItem, ReadSeparator, Skip
    <3>2. CASE Comment
      <4>1. /\ Read /\ r_pc = "trail" /\ UNCHANGED <<root, frames, success>> /\ r_pc' = "trail"
        BY <2>2, <3>2 DEF Comment
      <4>2. doc' = doc
        BY <4>1 DEF Read
      <4>. QED BY <4>1, <4>2, ReadStep DEF NumberInv, DocInv
    <3>3. CASE Finish
      BY <3>3 DEF Finish, NumberInv, DocInv
    <3>. QED BY <3>1, <3>2, <3>3
  <2>3. CASE UNCHANGED readerVars
    BY <2>3 DEF readerVars, NumberInv, DocInv
  <2>. QED BY <2>1, <2>2, <2>3
<1>. QED BY <1>1, <1>2 DEF NumberInv

(* However many digits a number has, it is read exactly when it is an integer *)
(* of at most 64 bits and as the nearest double otherwise, and a value that  *)
(* was read converts to a type when the test for it says so, without loss    *)
(* when it is an integer of that type (jsoncpp.cpp 790-831, 3155-3335,       *)
(* 3760-3850).                                                               *)
THEOREM ReaderNumbers == ReaderSpec => []Numbers
<1>1. NumberInv /\ [ReaderNext]_readerVars => NumberInv'
  BY NumberStep
<1>2. NumberInv => Numbers
  <2>. SUFFICES ASSUME NumberInv, r_pc = "trail", success
                PROVE  /\ doc[1].kind = "number" => ReadExactly(doc[1], root)
                       /\ NumbersOf(root)
    BY DEF Numbers
  <2>1. NumbersOf(root)
    <3>1. IsNode(root[<<>>])
      BY DEF NumberInv, IsValue
    <3>. QED BY <3>1, NodeConverts
  <2>2. ASSUME doc[1].kind = "number" PROVE ReadExactly(doc[1], root)
    <3>1. IsLexeme(doc[1]) /\ root \in Decode(doc[1])
      BY <2>2 DEF NumberInv, DocInv
    <3>2. root \in DecodeNumber(doc[1])
      BY <2>2, <3>1 DEF Decode
    <3>. QED BY <2>2, <3>1, <3>2, NumberRead DEF IsLexeme
  <2>. QED BY <2>1, <2>2
<1>. QED BY InitNumberInv, <1>1, <1>2, PTL DEF ReaderSpec
-----------------------------------------------------------------------------
(* The list of recordings, for any directories.                              *)

\* The paths of v are over K.
PathsOver(v, K) == <<>> \in DOMAIN v /\ DOMAIN v \subseteq Seq(K)

IsFun(v) == v = [q \in DOMAIN v |-> v[q]]

\* A value as a tree.
IsTree(v) == IsFun(v) /\ \E K : PathsOver(v, K)

(* A prefix is what is left of a concatenation.                              *)
LEMMA PrefixConcat ==
  ASSUME NEW K, NEW s \in Seq(K), NEW t \in Seq(K)
  PROVE  /\ IsPrefix(s, s \o t)
         /\ Rest(s, s \o t) = t
         /\ s \o t \in Seq(K)
<1>. DEFINE u == s \o t
            r == SubSeq(u, Len(s) + 1, Len(u))
<1>1. /\ Len(s) \in Nat /\ Len(t) \in Nat
      /\ u \in Seq(K) /\ Len(u) = Len(s) + Len(t)
      /\ \A i \in 1 .. Len(s) + Len(t) : u[i] = IF i <= Len(s) THEN s[i] ELSE t[i - Len(s)]
  BY LenProperties, ConcatProperties
<1>. HIDE DEF u
<1>2. IsPrefix(s, u)
  <2>1. Len(s) <= Len(u) /\ \A i \in 1 .. Len(s) : s[i] = u[i]
    BY <1>1
  <2>. QED BY <1>1, <2>1, PrefixByElements
<1>3. r = t
  <2>1. Len(s) + 1 \in Int /\ Len(u) \in Int /\ \A i \in Len(s) + 1 .. Len(u) : u[i] \in K
    <3>1. \A i \in Len(s) + 1 .. Len(u) : i \in 1 .. Len(u)
      BY <1>1
    <3>. QED BY <1>1, <3>1, ElementOfSeq
  <2>2. /\ r \in Seq(K)
        /\ Len(r) = IF Len(s) + 1 <= Len(u) THEN Len(u) - (Len(s) + 1) + 1 ELSE 0
        /\ \A i \in 1 .. Len(u) - (Len(s) + 1) + 1 : r[i] = u[(Len(s) + 1) + i - 1]
    BY <2>1, SubSeqProperties
  <2>3. Len(r) = Len(t)
    BY <1>1, <2>2
  <2>4. \A i \in 1 .. Len(r) : r[i] = t[i]
    <3>. SUFFICES ASSUME NEW i \in 1 .. Len(r) PROVE r[i] = t[i]
      OBVIOUS
    <3>1. /\ i \in 1 .. Len(u) - (Len(s) + 1) + 1 /\ (Len(s) + 1) + i - 1 = Len(s) + i
          /\ Len(s) + i \in 1 .. Len(s) + Len(t) /\ ~(Len(s) + i <= Len(s)) /\ (Len(s) + i) - Len(s) = i
      BY <1>1, <2>3
    <3>2. r[i] = u[Len(s) + i]
      BY <2>2, <3>1
    <3>. QED BY <1>1, <3>1, <3>2
  <2>. HIDE DEF r
  <2>. QED BY <2>2, <2>3, <2>4, SeqEqual
<1>. QED BY <1>1, <1>2, <1>3 DEF u, Rest

(* And every prefix is one.                                                  *)
LEMMA PrefixRest ==
  ASSUME NEW K, NEW s \in Seq(K), NEW t \in Seq(K), IsPrefix(s, t)
  PROVE  Rest(s, t) \in Seq(K) /\ t = s \o Rest(s, t)
<1>. DEFINE r == SubSeq(t, Len(s) + 1, Len(t))
            u == s \o r
<1>1. /\ Len(s) \in Nat /\ Len(t) \in Nat /\ Len(s) <= Len(t)
      /\ \A i \in 1 .. Len(s) : s[i] = t[i]
  BY LenProperties, PrefixByElements
<1>2. Len(s) + 1 \in Int /\ Len(t) \in Int /\ \A i \in Len(s) + 1 .. Len(t) : t[i] \in K
  <2>1. \A i \in Len(s) + 1 .. Len(t) : i \in 1 .. Len(t)
    BY <1>1
  <2>. QED BY <1>1, <2>1, ElementOfSeq
<1>3. /\ r \in Seq(K)
      /\ Len(r) = IF Len(s) + 1 <= Len(t) THEN Len(t) - (Len(s) + 1) + 1 ELSE 0
      /\ \A i \in 1 .. Len(t) - (Len(s) + 1) + 1 : r[i] = t[(Len(s) + 1) + i - 1]
  BY <1>2, SubSeqProperties
<1>4. Len(r) = Len(t) - Len(s)
  BY <1>1, <1>3
<1>. HIDE DEF r
<1>5. /\ u \in Seq(K) /\ Len(u) = Len(s) + Len(r)
      /\ \A i \in 1 .. Len(s) + Len(r) : u[i] = IF i <= Len(s) THEN s[i] ELSE r[i - Len(s)]
  BY <1>3, ConcatProperties
<1>. HIDE DEF u
<1>6. Len(u) = Len(t)
  BY <1>1, <1>4, <1>5
<1>7. ASSUME NEW i \in 1 .. Len(t) PROVE t[i] = u[i]
  <2>1. CASE i <= Len(s)
    BY <1>1, <1>4, <1>5, <2>1
  <2>2. CASE ~(i <= Len(s))
    <3>1. /\ i - Len(s) \in 1 .. Len(t) - (Len(s) + 1) + 1
          /\ (Len(s) + 1) + (i - Len(s)) - 1 = i /\ i \in 1 .. Len(s) + Len(r)
      BY <1>1, <1>4, <2>2
    <3>2. r[i - Len(s)] = t[i]
      BY <1>3, <3>1
    <3>. QED BY <1>5, <2>2, <3>1, <3>2
  <2>. QED BY <2>1, <2>2
<1>8. t = u
  BY <1>5, <1>6, <1>7, SeqEqual
<1>. QED BY <1>3, <1>8 DEF r, u, Rest

\* V is v with w at path, path by path.
IsPut(V, v, path, w, K) ==
    /\ IsFun(V) /\ PathsOver(V, K)
    /\ \A q \in Seq(K) : IsPrefix(path, q) =>
          /\ q \in DOMAIN V <=> Rest(path, q) \in DOMAIN w
          /\ q \in DOMAIN V => V[q] = w[Rest(path, q)]
    /\ \A q \in Seq(K) : ~IsPrefix(path, q) =>
          /\ q \in DOMAIN V <=> q \in DOMAIN v
          /\ q \in DOMAIN V => V[q] = v[q]

(* That is what Put makes of a tree.                                         *)
LEMMA PutAt ==
  ASSUME NEW K, NEW v, PathsOver(v, K), NEW w, PathsOver(w, K), NEW path \in Seq(K)
  PROVE  IsPut(Put(v, path, w), v, path, w, K)
<1>. DEFINE D == (DOMAIN v \ Under(v, path)) \cup {path \o r : r \in DOMAIN w}
            V == Put(v, path, w)
<1>1. /\ V = [q \in D |-> IF IsPrefix(path, q) THEN w[Rest(path, q)] ELSE v[q]]
      /\ DOMAIN V = D
  BY DEF Put
<1>2. D \subseteq Seq(K)
  BY PrefixConcat DEF PathsOver
<1>3. ASSUME NEW q \in Seq(K) PROVE q \in D <=> IF IsPrefix(path, q) THEN Rest(path, q) \in DOMAIN w
                                               ELSE q \in DOMAIN v
  <2>1. CASE IsPrefix(path, q)
    <3>1. q \notin DOMAIN v \ Under(v, path)
      BY <2>1 DEF Under
    <3>2. ASSUME NEW r \in DOMAIN w, q = path \o r PROVE Rest(path, q) = r
      BY <3>2, PrefixConcat DEF PathsOver
    <3>3. q = path \o Rest(path, q)
      BY <2>1, PrefixRest
    <3>. QED BY <2>1, <3>1, <3>2, <3>3
  <2>2. CASE ~IsPrefix(path, q)
    <3>1. \A r \in DOMAIN w : q # path \o r
      BY <2>2, PrefixConcat DEF PathsOver
    <3>. QED BY <2>2, <3>1 DEF Under
  <2>. QED BY <2>1, <2>2
<1>4. IsFun(V)
  <2>. DEFINE f(q) == IF IsPrefix(path, q) THEN w[Rest(path, q)] ELSE v[q]
  <2>1. V = [q \in D |-> f(q)]
    BY <1>1
  <2>. HIDE DEF V, D, f
  <2>. QED BY <2>1 DEF IsFun
<1>5. <<>> \in D
  <2>1. <<>> \in Seq(K) /\ Len(<<>>) = 0
    BY EmptySeq
  <2>2. CASE IsPrefix(path, <<>>)
    <3>. DEFINE r == Rest(path, <<>>)
    <3>1. path \o r = <<>> /\ r \in Seq(K)
      BY <2>1, <2>2, PrefixRest
    <3>2. r = <<>>
      <4>. HIDE DEF r
      <4>. QED BY <3>1, ConcatEqualIffEmpty
    <3>. QED BY <1>3, <2>1, <2>2, <3>2 DEF PathsOver
  <2>3. CASE ~IsPrefix(path, <<>>)
    BY <1>3, <2>1, <2>3 DEF PathsOver
  <2>. QED BY <2>2, <2>3
<1>. HIDE DEF D
<1>6. \A q \in D : V[q] = IF IsPrefix(path, q) THEN w[Rest(path, q)] ELSE v[q]
  BY <1>1
<1>. HIDE DEF V
<1>7. PathsOver(V, K)
  BY <1>1, <1>2, <1>5 DEF PathsOver
<1>. QED BY <1>1, <1>3, <1>4, <1>6, <1>7 DEF V, IsPut

\* S is what v has at path.
IsSub(S, v, path, K) ==
    /\ IsFun(S)
    /\ DOMAIN S = {r \in Seq(K) : path \o r \in DOMAIN v}
    /\ \A r \in DOMAIN S : S[r] = v[path \o r]
    /\ path \in DOMAIN v => PathsOver(S, K) /\ S[<<>>] = v[path]

(* That is what SubValue copies.                                             *)
LEMMA SubAt ==
  ASSUME NEW K, NEW v, PathsOver(v, K), NEW path \in Seq(K)
  PROVE  IsSub(SubValue(v, path), v, path, K)
<1>. DEFINE D == {Rest(path, q) : q \in Under(v, path)}
            S == SubValue(v, path)
<1>1. S = [r \in D |-> v[path \o r]]
  BY DEF SubValue
<1>2. D = {r \in Seq(K) : path \o r \in DOMAIN v}
  <2>1. ASSUME NEW q \in Under(v, path)
        PROVE  Rest(path, q) \in Seq(K) /\ path \o Rest(path, q) \in DOMAIN v
    <3>1. q \in Seq(K) /\ q \in DOMAIN v /\ IsPrefix(path, q)
      BY DEF Under, PathsOver
    <3>. QED BY <3>1, PrefixRest
  <2>2. ASSUME NEW r \in Seq(K), path \o r \in DOMAIN v PROVE r \in D
    <3>1. path \o r \in Under(v, path) /\ Rest(path, path \o r) = r
      BY <2>2, PrefixConcat DEF Under
    <3>. QED BY <3>1
  <2>. QED BY <2>1, <2>2
<1>. HIDE DEF D
<1>3. /\ IsFun(S) /\ DOMAIN S = D /\ \A r \in D : S[r] = v[path \o r]
  BY <1>1 DEF IsFun
<1>. HIDE DEF S
<1>4. ASSUME path \in DOMAIN v PROVE PathsOver(S, K) /\ S[<<>>] = v[path]
  <2>1. <<>> \in Seq(K) /\ path \o <<>> = path
    BY EmptySeq, ConcatEmptySeq
  <2>. QED BY <1>2, <1>3, <1>4, <2>1 DEF PathsOver
<1>. QED BY <1>2, <1>3, <1>4 DEF S, IsSub

(* Functions with the same domain and values are the same.                   *)
LEMMA FunEqual ==
  ASSUME NEW v, NEW w, IsFun(v), IsFun(w), DOMAIN v = DOMAIN w, \A q \in DOMAIN v : v[q] = w[q]
  PROVE  v = w
<1>1. [q \in DOMAIN v |-> v[q]] = [q \in DOMAIN w |-> w[q]]
  OBVIOUS
<1>. QED BY <1>1 DEF IsFun

(* What is put twice is what is put last.                                    *)
LEMMA PutTwice ==
  ASSUME NEW K, NEW v, PathsOver(v, K), NEW u, PathsOver(u, K), NEW w, PathsOver(w, K), NEW path \in Seq(K)
  PROVE  Put(Put(v, path, u), path, w) = Put(v, path, w)
<1>. DEFINE A == Put(v, path, u)
            B == Put(A, path, w)
            C == Put(v, path, w)
<1>1. IsPut(A, v, path, u, K)
  BY PutAt
<1>2. IsPut(B, A, path, w, K)
  <2>1. PathsOver(A, K)
    BY <1>1 DEF IsPut
  <2>. HIDE DEF A
  <2>. QED BY <2>1, PutAt
<1>3. IsPut(C, v, path, w, K)
  BY PutAt
<1>. HIDE DEF A, B, C
<1>4. \A q \in Seq(K) : (q \in DOMAIN B <=> q \in DOMAIN C) /\ (q \in DOMAIN B => B[q] = C[q])
  BY <1>1, <1>2, <1>3 DEF IsPut
<1>5. DOMAIN B = DOMAIN C /\ \A q \in DOMAIN B : B[q] = C[q]
  BY <1>2, <1>3, <1>4 DEF IsPut, PathsOver
<1>6. B = C
  BY <1>2, <1>3, <1>5, FunEqual DEF IsPut
<1>. QED BY <1>6 DEF A, B, C

(* A prefix of length one is the first element.                              *)
LEMMA PrefixFirst ==
  ASSUME NEW K, NEW s \in Seq(K), NEW t \in Seq(K), Len(s) = 1, IsPrefix(s, t)
  PROVE  s[1] = t[1]
<1>1. \A i \in 1 .. Len(s) : s[i] = t[i]
  BY PrefixByElements, ZenonT(60)
<1>2. 1 \in 1 .. Len(s)
  OBVIOUS
<1>. QED BY <1>1, <1>2, Zenon

\* Paths of one step and of two.
One(x) == <<x>>
Two(x, y) == <<x, y>>

(* What they are paths to.                                                   *)
LEMMA OneStep ==
  ASSUME NEW K, NEW x \in K, NEW y \in K
  PROVE  /\ One(x) \in Seq(K) /\ Two(x, y) \in Seq(K) /\ Two(x, y) = One(x) \o One(y)
         /\ <<>> \in Seq(K) /\ One(x) \o <<>> = One(x)
         /\ ~IsPrefix(One(x), <<>>) /\ ~IsPrefix(Two(x, y), <<>>) /\ ~IsPrefix(Two(x, y), One(x))
         /\ x # y => \A r \in Seq(K) : ~IsPrefix(One(x), One(y) \o r)
<1>1. /\ One(x) \in Seq(K) /\ One(y) \in Seq(K) /\ Two(x, y) \in Seq(K)
  BY DEF One, Two
<1>2. Two(x, y) = One(x) \o One(y)
  <2>1. Len(One(x)) = 1 /\ Len(One(y)) = 1
    BY DEF One
  <2>2. /\ One(x) \o One(y) \in Seq(K) /\ Len(One(x) \o One(y)) = Len(One(x)) + Len(One(y))
        /\ \A i \in 1 .. Len(One(x)) + Len(One(y)) :
              (One(x) \o One(y))[i] = IF i <= Len(One(x)) THEN One(x)[i] ELSE One(y)[i - Len(One(x))]
    BY <1>1, ConcatProperties, Zenon
  <2>3. /\ One(x) \o One(y) \in Seq(K) /\ Len(One(x) \o One(y)) = 2
        /\ \A i \in 1 .. 2 : (One(x) \o One(y))[i] = IF i <= 1 THEN One(x)[i] ELSE One(y)[i - 1]
    BY <2>1, <2>2
  <2>4. Len(Two(x, y)) = 2 /\ Two(x, y)[1] = x /\ Two(x, y)[2] = y
    BY DEF Two
  <2>5. One(x)[1] = x /\ One(y)[1] = y
    BY DEF One
  <2>6. One(y)[2 - 1] = One(y)[1]
    OBVIOUS
  <2>7. \A i \in 1 .. 2 : Two(x, y)[i] = (One(x) \o One(y))[i]
    BY <2>3, <2>4, <2>5
  <2>. QED BY <1>1, <2>3, <2>4, <2>7, SeqEqual
<1>3. Len(One(x)) = 1 /\ Len(Two(x, y)) = 2 /\ Len(One(y)) = 1 /\ Len(<<>>) = 0
  BY DEF One, Two
<1>4. One(x)[1] = x /\ One(y)[1] = y
  BY DEF One
<1>5. ~IsPrefix(One(x), <<>>) /\ ~IsPrefix(Two(x, y), <<>>) /\ ~IsPrefix(Two(x, y), One(x))
  BY <1>3 DEF IsPrefix
<1>6. ASSUME NEW r \in Seq(K), IsPrefix(One(x), One(y) \o r) PROVE x = y
  <2>1. Len(r) \in Nat
    BY LenProperties
  <2>2. /\ One(y) \o r \in Seq(K)
        /\ \A i \in 1 .. Len(One(y)) + Len(r) :
              (One(y) \o r)[i] = IF i <= Len(One(y)) THEN One(y)[i] ELSE r[i - Len(One(y))]
    BY <1>1, ConcatProperties
  <2>3. (One(y) \o r)[1] = y
    BY <1>3, <1>4, <2>1, <2>2
  <2>4. One(x)[1] = (One(y) \o r)[1]
    BY <1>1, <1>3, <1>6, <2>2, PrefixFirst
  <2>. QED BY <1>4, <2>3, <2>4
<1>. QED BY <1>1, <1>2, <1>5, <1>6, EmptySeq, ConcatEmptySeq

(* Below a common step prefixes are the same.                                *)
LEMMA PrefixBelow ==
  ASSUME NEW K, NEW s \in Seq(K), NEW t \in Seq(K), NEW u \in Seq(K)
  PROVE  /\ IsPrefix(s \o t, s \o u) <=> IsPrefix(t, u)
         /\ IsPrefix(t, u) => Rest(s \o t, s \o u) = Rest(t, u)
<1>1. s \o t \in Seq(K) /\ s \o u \in Seq(K)
  BY PrefixConcat
<1>2. ASSUME IsPrefix(t, u) PROVE IsPrefix(s \o t, s \o u) /\ Rest(s \o t, s \o u) = Rest(t, u)
  <2>. DEFINE r == Rest(t, u)
  <2>1. r \in Seq(K) /\ u = t \o r
    BY <1>2, PrefixRest
  <2>. HIDE DEF r
  <2>2. s \o u = (s \o t) \o r
    <3>1. (s \o t) \o r = s \o (t \o r)
      BY <2>1, ConcatAssociative
    <3>. QED BY <2>1, <3>1
  <2>3. IsPrefix(s \o t, (s \o t) \o r) /\ Rest(s \o t, (s \o t) \o r) = r
    BY <1>1, <2>1, PrefixConcat
  <2>. QED BY <2>2, <2>3 DEF r
<1>3. ASSUME IsPrefix(s \o t, s \o u) PROVE IsPrefix(t, u)
  <2>. DEFINE r == Rest(s \o t, s \o u)
  <2>1. r \in Seq(K) /\ s \o u = (s \o t) \o r
    BY <1>1, <1>3, PrefixRest
  <2>. HIDE DEF r
  <2>2. s \o u = s \o (t \o r) /\ t \o r \in Seq(K)
    <3>1. r \in Seq(K)
      BY <2>1
    <3>2. (s \o t) \o r = s \o (t \o r)
      BY <3>1, ConcatAssociative
    <3>3. t \o r \in Seq(K)
      BY <3>1, PrefixConcat
    <3>. QED BY <2>1, <3>2, <3>3
  <2>3. u = t \o r
    BY <2>2, ConcatSimplifications
  <2>. QED BY <2>1, <2>3, PrefixConcat
<1>. QED BY <1>2, <1>3

\* V is v with w below x, key by key.
HasPart(V, v, x, w, K) ==
    /\ IsFun(V) /\ PathsOver(V, K) /\ V[<<>>] = v[<<>>]
    /\ One(x) \in DOMAIN V /\ SubValue(V, One(x)) = w
    /\ \A y \in K : y # x => /\ One(y) \in DOMAIN V <=> One(y) \in DOMAIN v
                             /\ SubValue(V, One(y)) = SubValue(v, One(y))

(* A part that is put into a tree is there, and the others are as before.    *)
LEMMA PutPart ==
  ASSUME NEW K, NEW v, PathsOver(v, K), NEW w, PathsOver(w, K), IsFun(w), NEW x \in K,
         NEW V, V = Put(v, One(x), w)
  PROVE  HasPart(V, v, x, w, K)
<1>1. One(x) \in Seq(K) /\ <<>> \in Seq(K)
  BY OneStep, EmptySeq
<1>2. IsPut(V, v, One(x), w, K) /\ IsFun(V) /\ PathsOver(V, K)
  <2>1. IsPut(Put(v, One(x), w), v, One(x), w, K)
    BY <1>1, PutAt
  <2>2. IsPut(V, v, One(x), w, K)
    BY <2>1
  <2>. QED BY <2>2 DEF IsPut
<1>3. <<>> \in DOMAIN V /\ V[<<>>] = v[<<>>]
  BY <1>1, <1>2, OneStep DEF IsPut, PathsOver
<1>4. One(x) \in DOMAIN V /\ SubValue(V, One(x)) = w
  <2>1. \A r \in Seq(K) : /\ One(x) \o r \in Seq(K) /\ IsPrefix(One(x), One(x) \o r)
                          /\ Rest(One(x), One(x) \o r) = r
    BY <1>1, PrefixConcat
  <2>2. \A r \in Seq(K) : /\ One(x) \o r \in DOMAIN V <=> r \in DOMAIN w
                          /\ One(x) \o r \in DOMAIN V => V[One(x) \o r] = w[r]
    BY <1>2, <2>1 DEF IsPut
  <2>3. One(x) \o <<>> = One(x)
    BY <1>1, ConcatEmptySeq
  <2>4. One(x) \in DOMAIN V
    BY <1>1, <2>2, <2>3 DEF PathsOver
  <2>. DEFINE S == SubValue(V, One(x))
  <2>5. IsSub(S, V, One(x), K)
    BY <1>1, <1>2, SubAt
  <2>. HIDE DEF S
  <2>6. DOMAIN S = DOMAIN w /\ \A r \in DOMAIN S : S[r] = w[r]
    BY <2>2, <2>5 DEF PathsOver, IsSub
  <2>7. S = w
    BY <2>5, <2>6, FunEqual DEF IsSub
  <2>. QED BY <2>4, <2>7 DEF S
<1>5. ASSUME NEW y \in K, y # x
      PROVE  /\ One(y) \in DOMAIN V <=> One(y) \in DOMAIN v
             /\ SubValue(V, One(y)) = SubValue(v, One(y))
  <2>1. One(y) \in Seq(K) /\ One(y) \o <<>> = One(y)
    BY OneStep, ConcatEmptySeq
  <2>2. \A r \in Seq(K) : One(y) \o r \in Seq(K) /\ ~IsPrefix(One(x), One(y) \o r)
    BY <1>5, <2>1, OneStep, PrefixConcat
  <2>3. \A r \in Seq(K) : /\ One(y) \o r \in DOMAIN V <=> One(y) \o r \in DOMAIN v
                          /\ One(y) \o r \in DOMAIN V => V[One(y) \o r] = v[One(y) \o r]
    BY <1>2, <2>2 DEF IsPut
  <2>4. One(y) \in DOMAIN V <=> One(y) \in DOMAIN v
    BY <1>1, <2>1, <2>3
  <2>. DEFINE S == SubValue(V, One(y))
              T == SubValue(v, One(y))
  <2>5. IsSub(S, V, One(y), K)
    BY <1>2, <2>1, SubAt
  <2>6. IsSub(T, v, One(y), K)
    BY <2>1, SubAt
  <2>. HIDE DEF S, T
  <2>7. DOMAIN S = DOMAIN T /\ \A r \in DOMAIN S : S[r] = T[r]
    BY <2>3, <2>5, <2>6 DEF IsSub
  <2>8. S = T
    BY <2>5, <2>6, <2>7, FunEqual DEF IsSub
  <2>. QED BY <2>4, <2>8 DEF S, T
<1>. QED BY <1>2, <1>3, <1>4, <1>5 DEF HasPart

(* What is put into a part is put into the whole below it.                   *)
LEMMA PutBelow ==
  ASSUME NEW K, NEW v, PathsOver(v, K), NEW w, PathsOver(w, K), NEW x \in K, NEW y \in K,
         One(x) \in DOMAIN v, NEW V, V = Put(v, Two(x, y), w)
  PROVE  HasPart(V, v, x, Put(SubValue(v, One(x)), One(y), w), K)
<1>1. /\ One(x) \in Seq(K) /\ One(y) \in Seq(K) /\ Two(x, y) \in Seq(K) /\ <<>> \in Seq(K)
      /\ Two(x, y) = One(x) \o One(y) /\ One(x) \o <<>> = One(x)
      /\ ~IsPrefix(Two(x, y), <<>>) /\ ~IsPrefix(Two(x, y), One(x))
  <2>1. One(y) \in Seq(K)
    BY OneStep
  <2>. QED BY <2>1, OneStep
<1>2. IsPut(V, v, Two(x, y), w, K) /\ IsFun(V) /\ PathsOver(V, K)
  <2>1. IsPut(Put(v, Two(x, y), w), v, Two(x, y), w, K)
    BY <1>1, PutAt
  <2>2. IsPut(V, v, Two(x, y), w, K)
    BY <2>1
  <2>. QED BY <2>2 DEF IsPut
<1>3. <<>> \in DOMAIN V /\ V[<<>>] = v[<<>>]
  BY <1>1, <1>2 DEF IsPut, PathsOver
<1>4. One(x) \in DOMAIN V /\ SubValue(V, One(x)) = Put(SubValue(v, One(x)), One(y), w)
  <2>1. One(x) \in DOMAIN V
    BY <1>1, <1>2 DEF IsPut
  <2>. DEFINE S == SubValue(V, One(x))
              T == SubValue(v, One(x))
              U == Put(T, One(y), w)
  <2>2. IsSub(S, V, One(x), K)
    BY <1>1, <1>2, SubAt
  <2>3. IsSub(T, v, One(x), K)
    BY <1>1, SubAt
  <2>. HIDE DEF S, T
  <2>4. IsPut(U, T, One(y), w, K)
    BY <1>1, <2>3, PutAt DEF IsSub
  <2>. HIDE DEF U
  <2>5. ASSUME NEW r \in Seq(K)
        PROVE  (r \in DOMAIN S <=> r \in DOMAIN U) /\ (r \in DOMAIN S => S[r] = U[r])
    <3>1. /\ One(x) \o r \in Seq(K)
          /\ IsPrefix(Two(x, y), One(x) \o r) <=> IsPrefix(One(y), r)
          /\ IsPrefix(One(y), r) => Rest(Two(x, y), One(x) \o r) = Rest(One(y), r)
      BY <1>1, PrefixBelow, PrefixConcat
    <3>2. r \in DOMAIN S <=> One(x) \o r \in DOMAIN V
      BY <2>2 DEF IsSub
    <3>3. r \in DOMAIN T <=> One(x) \o r \in DOMAIN v
      BY <2>3 DEF IsSub
    <3>4. CASE IsPrefix(One(y), r)
      <4>1. (r \in DOMAIN U <=> Rest(One(y), r) \in DOMAIN w) /\ (r \in DOMAIN U => U[r] = w[Rest(One(y), r)])
        BY <2>4, <3>4 DEF IsPut
      <4>2. /\ One(x) \o r \in DOMAIN V <=> Rest(One(y), r) \in DOMAIN w
            /\ One(x) \o r \in DOMAIN V => V[One(x) \o r] = w[Rest(One(y), r)]
        BY <1>2, <3>1, <3>4 DEF IsPut
      <4>. QED BY <2>2, <3>2, <4>1, <4>2 DEF IsSub
    <3>5. CASE ~IsPrefix(One(y), r)
      <4>1. (r \in DOMAIN U <=> r \in DOMAIN T) /\ (r \in DOMAIN U => U[r] = T[r])
        BY <2>4, <3>5 DEF IsPut
      <4>2. /\ One(x) \o r \in DOMAIN V <=> One(x) \o r \in DOMAIN v
            /\ One(x) \o r \in DOMAIN V => V[One(x) \o r] = v[One(x) \o r]
        BY <1>2, <3>1, <3>5 DEF IsPut
      <4>. QED BY <2>2, <2>3, <3>2, <3>3, <4>1, <4>2 DEF IsSub
    <3>. QED BY <3>4, <3>5
  <2>6. DOMAIN S = DOMAIN U /\ \A r \in DOMAIN S : S[r] = U[r]
    BY <2>2, <2>4, <2>5 DEF IsPut, PathsOver, IsSub
  <2>7. S = U
    BY <2>2, <2>4, <2>6, FunEqual DEF IsPut, IsSub
  <2>. QED BY <2>1, <2>7 DEF S, T, U
<1>5. ASSUME NEW z \in K, z # x
      PROVE  /\ One(z) \in DOMAIN V <=> One(z) \in DOMAIN v
             /\ SubValue(V, One(z)) = SubValue(v, One(z))
  <2>1. One(z) \in Seq(K) /\ One(z) \o <<>> = One(z)
    BY OneStep, ConcatEmptySeq
  <2>2. ASSUME NEW r \in Seq(K) PROVE One(z) \o r \in Seq(K) /\ ~IsPrefix(Two(x, y), One(z) \o r)
    <3>1. One(z) \o r \in Seq(K)
      BY <2>1, PrefixConcat
    <3>2. IsPrefix(One(x), Two(x, y))
      BY <1>1, PrefixConcat
    <3>3. ~IsPrefix(One(x), One(z) \o r)
      BY <1>5, OneStep
    <3>. QED BY <1>1, <3>1, <3>2, <3>3, PrefixTrans
  <2>3. \A r \in Seq(K) : /\ One(z) \o r \in DOMAIN V <=> One(z) \o r \in DOMAIN v
                          /\ One(z) \o r \in DOMAIN V => V[One(z) \o r] = v[One(z) \o r]
    BY <1>2, <2>2 DEF IsPut
  <2>4. One(z) \in DOMAIN V <=> One(z) \in DOMAIN v
    BY <1>1, <2>1, <2>3
  <2>. DEFINE S == SubValue(V, One(z))
              T == SubValue(v, One(z))
  <2>5. IsSub(S, V, One(z), K)
    BY <1>2, <2>1, SubAt
  <2>6. IsSub(T, v, One(z), K)
    BY <2>1, SubAt
  <2>. HIDE DEF S, T
  <2>7. DOMAIN S = DOMAIN T /\ \A r \in DOMAIN S : S[r] = T[r]
    BY <2>3, <2>5, <2>6 DEF IsSub
  <2>8. S = T
    BY <2>5, <2>6, <2>7, FunEqual DEF IsSub
  <2>. QED BY <2>4, <2>8 DEF S, T
<1>. QED BY <1>2, <1>3, <1>4, <1>5 DEF HasPart
\* What v has below a key.
HasChild(v, key) == One(key) \in DOMAIN v
Child(v, key) == SubValue(v, One(key))

\* V is v with w below key.
PutsOnly(V, v, key, w) ==
    /\ IsTree(V) /\ V[<<>>] = v[<<>>]
    /\ HasChild(V, key) /\ Child(V, key) = w
    /\ \A other : other # key => /\ HasChild(V, other) <=> HasChild(v, other)
                                 /\ Child(V, other) = Child(v, other)

HasPaths(v) == \E K : PathsOver(v, K)

(* Paths may be taken over more keys.                                        *)
LEMMA PathsOverMore ==
  ASSUME NEW v, NEW K, NEW L, PathsOver(v, K), K \subseteq L
  PROVE  PathsOver(v, L)
<1>1. ASSUME NEW q \in Seq(K) PROVE q \in Seq(L)
  OBVIOUS
<1>. QED BY <1>1 DEF PathsOver

(* Leaves are trees.                                                         *)
LEMMA LeafTree ==
  ASSUME NEW type, NEW num, NEW str
  PROVE  /\ IsTree(Leaf(type, num, str)) /\ Leaf(type, num, str)[<<>>].type = type
         /\ \A key : ~HasChild(Leaf(type, num, str), key)
<1>. DEFINE v == Leaf(type, num, str)
<1>1. v = [q \in {<<>>} |-> Node(type, num, str)]
  BY DEF Leaf
<1>2. DOMAIN v = {<<>>} /\ v[<<>>] = Node(type, num, str)
  BY <1>1
<1>3. IsFun(v)
  BY <1>1 DEF IsFun
<1>4. PathsOver(v, {})
  BY <1>2, EmptySeq DEF PathsOver
<1>5. ASSUME NEW key PROVE One(key) # <<>>
  BY DEF One
<1>. HIDE DEF v
<1>6. IsTree(v) /\ v[<<>>].type = type /\ \A key : ~HasChild(v, key)
  BY <1>2, <1>3, <1>4, <1>5 DEF IsTree, Node, HasChild
<1>. QED BY <1>6 DEF v

(* What is put below a key.                                                  *)
LEMMA PutChild ==
  ASSUME NEW v, HasPaths(v), NEW w, IsTree(w), NEW key
  PROVE  PutsOnly(Put(v, One(key), w), v, key, w)
<1>1. PICK A : PathsOver(v, A)
  BY DEF HasPaths
<1>2. PICK B : PathsOver(w, B)
  BY DEF IsTree
<1>. DEFINE V == Put(v, One(key), w)
<1>3. ASSUME NEW other
      PROVE  /\ IsTree(V) /\ V[<<>>] = v[<<>>] /\ HasChild(V, key) /\ Child(V, key) = w
             /\ other # key => /\ HasChild(V, other) <=> HasChild(v, other)
                               /\ Child(V, other) = Child(v, other)
  <2>. DEFINE K == A \cup B \cup {key, other}
  <2>1. PathsOver(v, K) /\ PathsOver(w, K) /\ key \in K /\ other \in K
    BY <1>1, <1>2, PathsOverMore
  <2>. HIDE DEF K
  <2>2. V = Put(v, One(key), w) /\ IsFun(w)
    BY DEF IsTree
  <2>. HIDE DEF V
  <2>3. HasPart(V, v, key, w, K)
    BY <2>1, <2>2, PutPart
  <2>. QED BY <2>1, <2>3 DEF HasPart, IsTree, HasChild, Child
<1>. QED BY <1>3 DEF PutsOnly

(* What is put below a key of what is below a key.                           *)
LEMMA PutGrandChild ==
  ASSUME NEW v, HasPaths(v), NEW w, IsTree(w), NEW key, HasChild(v, key), NEW below
  PROVE  PutsOnly(Put(v, Two(key, below), w), v, key, Put(Child(v, key), One(below), w))
<1>1. PICK A : PathsOver(v, A)
  BY DEF HasPaths
<1>2. PICK B : PathsOver(w, B)
  BY DEF IsTree
<1>. DEFINE V == Put(v, Two(key, below), w)
<1>3. ASSUME NEW other
      PROVE  /\ IsTree(V) /\ V[<<>>] = v[<<>>]
             /\ HasChild(V, key) /\ Child(V, key) = Put(Child(v, key), One(below), w)
             /\ other # key => /\ HasChild(V, other) <=> HasChild(v, other)
                               /\ Child(V, other) = Child(v, other)
  <2>. DEFINE K == A \cup B \cup {key, below, other}
  <2>1. PathsOver(v, K) /\ PathsOver(w, K) /\ key \in K /\ other \in K /\ below \in K
    BY <1>1, <1>2, PathsOverMore
  <2>. HIDE DEF K
  <2>2. V = Put(v, Two(key, below), w) /\ One(key) \in DOMAIN v
    BY DEF HasChild
  <2>. HIDE DEF V
  <2>3. HasPart(V, v, key, Put(SubValue(v, One(key)), One(below), w), K)
    BY <2>1, <2>2, PutBelow
  <2>. QED BY <2>1, <2>3 DEF HasPart, IsTree, HasChild, Child
<1>. QED BY <1>3 DEF PutsOnly

(* One after the other below the same key.                                   *)
LEMMA PutsTwice ==
  ASSUME NEW u, NEW v, NEW w, NEW key, NEW x, NEW y, PutsOnly(v, u, key, x), PutsOnly(w, v, key, y)
  PROVE  PutsOnly(w, u, key, y)
BY DEF PutsOnly

(* What is at the root is replaced as a whole.                               *)
LEMMA PutRoot ==
  ASSUME NEW v, HasPaths(v), NEW w, IsTree(w)
  PROVE  Put(v, <<>>, w) = w
<1>1. PICK A : PathsOver(v, A)
  BY DEF HasPaths
<1>2. PICK B : PathsOver(w, B)
  BY DEF IsTree
<1>. DEFINE K == A \cup B
            V == Put(v, <<>>, w)
<1>3. PathsOver(v, K) /\ PathsOver(w, K) /\ <<>> \in Seq(K)
  BY <1>1, <1>2, PathsOverMore, EmptySeq
<1>. HIDE DEF K
<1>4. IsPut(V, v, <<>>, w, K)
  BY <1>3, PutAt
<1>. HIDE DEF V
<1>5. ASSUME NEW q \in Seq(K) PROVE IsPrefix(<<>>, q) /\ Rest(<<>>, q) = q
  <2>1. <<>> \o q = q
    BY ConcatEmptySeq
  <2>2. IsPrefix(<<>>, <<>> \o q) /\ Rest(<<>>, <<>> \o q) = q
    BY <1>3, PrefixConcat
  <2>. QED BY <2>1, <2>2
<1>6. DOMAIN V = DOMAIN w /\ \A q \in DOMAIN V : V[q] = w[q]
  BY <1>3, <1>4, <1>5 DEF IsPut, PathsOver
<1>7. V = w
  BY <1>4, <1>6, FunEqual DEF IsPut, IsTree
<1>. QED BY <1>7 DEF V

(* What a tree has at one of its paths is a tree.                            *)
LEMMA SubTree ==
  ASSUME NEW v, HasPaths(v), NEW path \in DOMAIN v
  PROVE  IsTree(SubValue(v, path)) /\ SubValue(v, path)[<<>>] = v[path]
<1>1. PICK K : PathsOver(v, K)
  BY DEF HasPaths
<1>2. path \in Seq(K)
  BY <1>1 DEF PathsOver
<1>3. IsSub(SubValue(v, path), v, path, K)
  BY <1>1, <1>2, SubAt
<1>. QED BY <1>3 DEF IsSub, IsTree
(* Append makes these paths.                                                 *)
LEMMA PathsAppend ==
  ASSUME NEW key, NEW below
  PROVE  /\ Append(<<>>, key) = One(key) /\ <<key>> = One(key)
         /\ Append(One(key), below) = Two(key, below)
<1>. DEFINE K == {key, below}
<1>1. key \in K /\ below \in K
  OBVIOUS
<1>. HIDE DEF K
<1>2. /\ <<>> \in Seq(K) /\ One(key) \in Seq(K) /\ One(below) \in Seq(K)
      /\ Two(key, below) = One(key) \o One(below)
  BY <1>1, OneStep, EmptySeq
<1>3. <<key>> = One(key) /\ <<below>> = One(below)
  BY DEF One
<1>4. Append(<<>>, key) = <<>> \o <<key>> /\ Append(One(key), below) = One(key) \o <<below>>
  BY <1>1, <1>2, AppendIsConcat
<1>. QED BY <1>2, <1>3, <1>4, ConcatEmptySeq

(* What is put again replaces what was put.                                  *)
LEMMA PutAgain ==
  ASSUME NEW v, HasPaths(v), NEW u, IsTree(u), NEW w, IsTree(w), NEW key, NEW below
  PROVE  /\ Put(Put(v, One(key), u), One(key), w) = Put(v, One(key), w)
         /\ Put(Put(v, Two(key, below), u), Two(key, below), w) = Put(v, Two(key, below), w)
<1>1. PICK A : PathsOver(v, A)
  BY DEF HasPaths
<1>2. PICK B : PathsOver(u, B)
  BY DEF IsTree
<1>3. PICK C : PathsOver(w, C)
  BY DEF IsTree
<1>. DEFINE K == A \cup B \cup C \cup {key, below}
<1>4. PathsOver(v, K) /\ PathsOver(u, K) /\ PathsOver(w, K) /\ key \in K /\ below \in K
  BY <1>1, <1>2, <1>3, PathsOverMore
<1>. HIDE DEF K
<1>5. One(key) \in Seq(K) /\ Two(key, below) \in Seq(K)
  BY <1>4, OneStep
<1>. QED BY <1>4, <1>5, PutTwice

\* A value that members can be put into, and what [] makes of it first.
IsObject(v) == v = Null \/ (IsTree(v) /\ v[<<>>].type = "object")
Opened(v) == IF v = Null THEN Empty("object") ELSE v

(* Null and the empty values are leaves.                                     *)
LEMMA EmptyTrees ==
  /\ IsTree(Null) /\ Null[<<>>].type = "null" /\ \A key : ~HasChild(Null, key)
  /\ \A type : /\ IsTree(Empty(type)) /\ Empty(type)[<<>>].type = type
               /\ \A key : ~HasChild(Empty(type), key)
BY LeafTree DEF Null, Empty

LEMMA TreePaths ==
  ASSUME NEW v, IsTree(v)
  PROVE  HasPaths(v)
BY DEF IsTree, HasPaths

(* Null is opened as an empty object.                                        *)
LEMMA OpenedObject ==
  ASSUME NEW v, IsObject(v)
  PROVE  /\ IsTree(v) /\ IsTree(Opened(v)) /\ Opened(v)[<<>>].type = "object"
         /\ Open(v, <<>>, "object") = {Opened(v)}
         /\ \A key : HasChild(Opened(v), key) <=> HasChild(v, key)
         /\ v # Null => Opened(v) = v
<1>1. CASE v = Null
  <2>1. Put(v, <<>>, Empty("object")) = Empty("object")
    BY <1>1, EmptyTrees, TreePaths, PutRoot
  <2>2. v[<<>>].type = "null" /\ Opened(v) = Empty("object")
    BY <1>1, EmptyTrees DEF Opened
  <2>3. Open(v, <<>>, "object") = {Opened(v)}
    BY <2>1, <2>2 DEF Open
  <2>. QED BY <1>1, <2>2, <2>3, EmptyTrees
<1>2. CASE v # Null
  <2>1. IsTree(v) /\ v[<<>>].type = "object" /\ Opened(v) = v
    BY <1>2 DEF IsObject, Opened
  <2>. QED BY <1>2, <2>1 DEF Open
<1>. QED BY <1>1, <1>2

(* Where [] creates a null, a value that is put there then replaces it.      *)
LEMMA InsertPut ==
  ASSUME NEW v, IsTree(v), NEW w, IsTree(w), NEW key
  PROVE  /\ Put(Insert(v, <<>>, key), One(key), w) = Put(v, One(key), w)
         /\ HasChild(v, key) => Insert(v, <<>>, key) = v
         /\ ~HasChild(v, key) => PutsOnly(Insert(v, <<>>, key), v, key, Null)
<1>1. Append(<<>>, key) = One(key)
  BY PathsAppend
<1>2. CASE HasChild(v, key)
  BY <1>1, <1>2 DEF Insert, HasChild
<1>3. CASE ~HasChild(v, key)
  <2>1. Insert(v, <<>>, key) = Put(v, One(key), Null)
    BY <1>1, <1>3 DEF Insert, HasChild
  <2>2. HasPaths(v) /\ IsTree(Null)
    BY EmptyTrees, TreePaths
  <2>3. PutsOnly(Put(v, One(key), Null), v, key, Null)
    BY <2>2, PutChild
  <2>4. Put(Put(v, One(key), Null), One(key), w) = Put(v, One(key), w)
    BY <2>2, PutAgain
  <2>. QED BY <1>3, <2>1, <2>3, <2>4
<1>. QED BY <1>2, <1>3

\* v with member x set.
With(v, x, w) == Put(Opened(v), One(Member(x)), w)

(* value["x"] = w.                                                           *)
LEMMA AssignOne ==
  ASSUME NEW v, IsObject(v), NEW w, IsTree(w), NEW x
  PROVE  /\ SetMember(v, <<>>, x, w) = {With(v, x, w)} /\ Assign({v}, x, w) = {With(v, x, w)}
         /\ PutsOnly(With(v, x, w), Opened(v), Member(x), w)
         /\ IsObject(With(v, x, w)) /\ Opened(With(v, x, w)) = With(v, x, w)
<1>. DEFINE O == Opened(v)
            key == Member(x)
            V == With(v, x, w)
<1>1. IsTree(O) /\ O[<<>>].type = "object" /\ Open(v, <<>>, "object") = {O}
  BY OpenedObject
<1>2. V = Put(O, One(key), w)
  BY DEF With
<1>. HIDE DEF O
<1>3. ResolveReference(v, <<>>, x) = {Insert(O, <<>>, key)}
  BY <1>1 DEF ResolveReference
<1>4. Append(<<>>, key) = One(key)
  BY PathsAppend
<1>. HIDE DEF V, key
<1>5. Put(Insert(O, <<>>, key), One(key), w) = V
  BY <1>1, <1>2, InsertPut
<1>6. SetMember(v, <<>>, x, w) = {V}
  <2>1. SetMember(v, <<>>, x, w) = {Put(u, One(key), w) : u \in {Insert(O, <<>>, key)}}
    BY <1>3, <1>4 DEF SetMember, key
  <2>. QED BY <1>5, <2>1
<1>7. Assign({v}, x, w) = {V}
  BY <1>6 DEF Assign
<1>8. PutsOnly(V, O, key, w)
  <2>1. HasPaths(O)
    BY <1>1, TreePaths
  <2>. QED BY <1>2, <2>1, PutChild
<1>9. IsTree(V) /\ V[<<>>].type = "object"
  BY <1>1, <1>8 DEF PutsOnly
<1>10. V # Null
  BY <1>9, EmptyTrees
<1>. QED BY <1>6, <1>7, <1>8, <1>9, <1>10 DEF IsObject, Opened, O, V, key

(* value["x"] const.                                                         *)
LEMMA GetOne ==
  ASSUME NEW v, IsObject(v), NEW x
  PROVE  Get(v, <<>>, x) = {IF HasChild(v, Member(x)) THEN Child(v, Member(x)) ELSE Null}
<1>1. v[<<>>].type \in {"object", "null"}
  BY EmptyTrees DEF IsObject
<1>2. Append(<<>>, Member(x)) = One(Member(x))
  BY PathsAppend
<1>. QED BY <1>1, <1>2 DEF Get, Find, HasChild, Child

(* What [] const gives is a tree, whatever it is applied to.                 *)
LEMMA GetTrees ==
  ASSUME NEW v, HasPaths(v), NEW path, NEW x
  PROVE  /\ \A w \in Get(v, path, x) : IsTree(w) /\ Get(v, path, x) = {w}
         /\ v[path].type \in {"object", "null"} => Get(v, path, x) # {}
<1>. DEFINE q == Append(path, Member(x))
            w == IF q \in DOMAIN v THEN SubValue(v, q) ELSE Null
<1>1. IsTree(w)
  BY SubTree, EmptyTrees
<1>2. Get(v, path, x) = IF v[path].type \notin {"object", "null"} THEN {} ELSE {w}
  BY DEF Get, Find
<1>. HIDE DEF w
<1>. QED BY <1>1, <1>2

(* Clear leaves an empty value of its type.                                  *)
LEMMA ClearTree ==
  ASSUME NEW v, IsObject(v)
  PROVE  \A c \in Clear(v, <<>>) : c \in {Null, Empty("object")}
<1>1. IsTree(v) /\ v[<<>>].type \in {"null", "object"}
  BY OpenedObject, EmptyTrees DEF IsObject
<1>2. Put(v, <<>>, Empty(v[<<>>].type)) = Empty(v[<<>>].type)
  BY <1>1, EmptyTrees, TreePaths, PutRoot
<1>3. Empty("null") = Null
  BY DEF Empty, Null
<1>. QED BY <1>1, <1>2, <1>3 DEF Clear
(* A sequence of length one has its element.                                 *)
LEMMA LengthOne ==
  ASSUME NEW K, NEW r \in Seq(K), Len(r) = 1
  PROVE  r[1] \in K /\ r = <<r[1]>>
<1>1. r[1] \in K
  BY ElementOfSeq
<1>2. <<r[1]>> \in Seq(K) /\ Len(<<r[1]>>) = 1 /\ <<r[1]>>[1] = r[1]
  BY <1>1
<1>3. \A i \in 1 .. Len(r) : r[i] = <<r[1]>>[i]
  BY <1>2
<1>4. r = <<r[1]>>
  BY <1>2, <1>3, SeqEqual
<1>. QED BY <1>1, <1>4

(* The keys of a node are those of the nodes below it.                       *)
LEMMA KeysOf ==
  ASSUME NEW v, NEW K, PathsOver(v, K), NEW path \in Seq(K), NEW key
  PROVE  key \in Keys(v, path) <=> Append(path, key) \in DOMAIN v
<1>. DEFINE L == K \cup {key}
<1>1. PathsOver(v, L) /\ key \in L
  BY PathsOverMore
<1>2. path \in Seq(L)
  OBVIOUS
<1>. HIDE DEF L
<1>3. \A m : m \in Keys(v, path) <=>
             \E q \in DOMAIN v : IsPrefix(path, q) /\ Len(q) = Len(path) + 1 /\ m = Last(q)
  BY DEF Keys, Under
<1>4. ASSUME NEW q \in DOMAIN v, IsPrefix(path, q), Len(q) = Len(path) + 1, key = Last(q)
      PROVE  q = Append(path, key)
  <2>. DEFINE r == Rest(path, q)
  <2>1. q \in Seq(L) /\ r \in Seq(L) /\ q = path \o r
    BY <1>1, <1>2, <1>4, PrefixRest DEF PathsOver
  <2>. HIDE DEF r
  <2>2. Len(r) = 1
    <3>1. Len(path) \in Nat /\ Len(r) \in Nat
      BY <1>2, <2>1, LenProperties
    <3>2. Len(path \o r) = Len(path) + Len(r)
      BY <1>2, <2>1, ConcatProperties
    <3>3. Len(path) + Len(r) = Len(path) + 1
      BY <1>4, <2>1, <3>2
    <3>4. ASSUME NEW m \in Nat, NEW n \in Nat, m + n = m + 1 PROVE n = 1
      BY <3>4
    <3>. QED BY <3>1, <3>3, <3>4, Zenon
  <2>3. r[1] \in L /\ r = <<r[1]>>
    BY <2>1, <2>2, LengthOne
  <2>4. q = Append(path, r[1])
    BY <1>2, <2>1, <2>3, AppendIsConcat
  <2>5. Append(path, r[1])[Len(path) + 1] = r[1]
    BY <1>2, <2>3, AppendProperties
  <2>6. key = r[1]
    BY <1>4, <2>4, <2>5 DEF Last
  <2>. QED BY <2>4, <2>6
<1>5. /\ Append(path, key) = path \o One(key) /\ One(key) \in Seq(L)
      /\ Len(Append(path, key)) = Len(path) + 1 /\ Append(path, key)[Len(path) + 1] = key
  <2>1. One(key) = <<key>> /\ One(key) \in Seq(L)
    BY <1>1 DEF One
  <2>2. Append(path, key) = path \o <<key>>
    BY <1>1, <1>2, AppendIsConcat
  <2>. QED BY <1>1, <1>2, <2>1, <2>2, AppendProperties
<1>6. IsPrefix(path, Append(path, key)) /\ Last(Append(path, key)) = key
  BY <1>2, <1>5, PrefixConcat DEF Last
<1>. QED BY <1>3, <1>4, <1>5, <1>6

(* The keys of a tree, and its size.                                         *)
LEMMA KeysAt ==
  ASSUME NEW v, HasPaths(v), NEW key
  PROVE  key \in Keys(v, <<>>) <=> HasChild(v, key)
<1>1. PICK K : PathsOver(v, K)
  BY DEF HasPaths
<1>2. <<>> \in Seq(K) /\ Append(<<>>, key) = One(key)
  BY EmptySeq, PathsAppend
<1>. QED BY <1>1, <1>2, KeysOf DEF HasChild

LEMMA SizeBelow ==
  ASSUME NEW v, HasPaths(v), NEW key, HasChild(v, key)
  PROVE  Size(v, One(key)) = Size(Child(v, key), <<>>) /\ v[One(key)] = Child(v, key)[<<>>]
<1>1. PICK A : PathsOver(v, A)
  BY DEF HasPaths
<1>. DEFINE S == Child(v, key)
<1>2. ASSUME NEW below PROVE below \in Keys(v, One(key)) <=> below \in Keys(S, <<>>)
  <2>. DEFINE K == A \cup {key, below}
  <2>1. PathsOver(v, K) /\ key \in K /\ below \in K
    BY <1>1, PathsOverMore
  <2>. HIDE DEF K
  <2>2. /\ One(key) \in Seq(K) /\ One(below) \in Seq(K) /\ <<>> \in Seq(K)
        /\ Two(key, below) = One(key) \o One(below)
    BY <2>1, OneStep
  <2>3. IsSub(S, v, One(key), K) /\ One(key) \in DOMAIN v
    BY <2>1, <2>2, SubAt DEF Child, HasChild
  <2>4. below \in Keys(v, One(key)) <=> Two(key, below) \in DOMAIN v
    BY <2>1, <2>2, KeysOf, PathsAppend
  <2>. HIDE DEF S
  <2>5. PathsOver(S, K) /\ (One(below) \in DOMAIN S <=> Two(key, below) \in DOMAIN v)
    BY <2>2, <2>3 DEF IsSub
  <2>6. below \in Keys(S, <<>>) <=> One(below) \in DOMAIN S
    BY <2>2, <2>5, KeysOf, PathsAppend
  <2>. QED BY <2>4, <2>5, <2>6
<1>3. S[<<>>] = v[One(key)]
  BY SubTree DEF Child, HasChild
<1>. HIDE DEF S
<1>4. Keys(v, One(key)) = Keys(S, <<>>)
  BY <1>2
<1>. QED BY <1>3, <1>4 DEF Size, S

\* An array of n items.
IsArray(a, n) ==
    /\ n \in Nat
    /\ IsTree(a) /\ a[<<>>].type = "array"
    /\ \A key : HasChild(a, key) <=> \E i \in 0 .. n - 1 : key = Item(i)

LEMMA ItemDistinct ==
  ASSUME NEW i, NEW j
  PROVE  Item(i)[2] = i /\ (Item(i) = Item(j) => i = j)
BY DEF Item

(* Its size is n.                                                            *)
LEMMA ArraySize ==
  ASSUME NEW a, NEW n, IsArray(a, n)
  PROVE  Size(a, <<>>) = n
<1>1. HasPaths(a) /\ a[<<>>].type = "array" /\ n \in Nat
  BY TreePaths DEF IsArray
<1>2. Keys(a, <<>>) = {Item(i) : i \in 0 .. n - 1}
  <2>1. \A key : key \in Keys(a, <<>>) <=> \E i \in 0 .. n - 1 : key = Item(i)
    BY <1>1, KeysAt DEF IsArray
  <2>. QED BY <2>1
<1>3. {key[2] + 1 : key \in Keys(a, <<>>)} \cup {0} = 0 .. n
  <2>1. {key[2] + 1 : key \in Keys(a, <<>>)} = {i + 1 : i \in 0 .. n - 1}
    BY <1>2, ItemDistinct
  <2>. DEFINE ends == {i + 1 : i \in 0 .. n - 1} \cup {0}
  <2>2. ASSUME NEW m \in 0 .. n PROVE m \in ends
    <3>1. m = 0 \/ (m - 1 \in 0 .. n - 1 /\ m = (m - 1) + 1)
      BY <1>1
    <3>. QED BY <3>1
  <2>3. ASSUME NEW m \in ends PROVE m \in 0 .. n
    <3>1. m = 0 \/ \E i \in 0 .. n - 1 : m = i + 1
      OBVIOUS
    <3>. QED BY <1>1, <3>1
  <2>4. ends = 0 .. n
    BY <2>2, <2>3
  <2>. QED BY <2>1, <2>4
<1>4. Size(a, <<>>) = CHOOSE m \in 0 .. n : \A l \in 0 .. n : l <= m
  BY <1>1, <1>3 DEF Size
<1>5. \A m \in 0 .. n : (\A l \in 0 .. n : l <= m) => m = n
  BY <1>1
<1>6. n \in 0 .. n /\ \A l \in 0 .. n : l <= n
  BY <1>1
<1>. QED BY <1>4, <1>5, <1>6

LEMMA EmptyArray == IsArray(Empty("array"), 0)
BY EmptyTrees DEF IsArray

(* What append does.                                                         *)
LEMMA ArrayAppend ==
  ASSUME NEW a, NEW n, IsArray(a, n), NEW w, IsTree(w), NEW A, A = Put(a, One(Item(n)), w)
  PROVE  /\ IsArray(A, n + 1) /\ Child(A, Item(n)) = w
         /\ \A i \in 0 .. n - 1 : Child(A, Item(i)) = Child(a, Item(i))
<1>1. PutsOnly(A, a, Item(n), w)
  BY PutChild, TreePaths DEF IsArray
<1>2. n \in Nat
  BY DEF IsArray
<1>3. \A i \in 0 .. n - 1 : Item(i) # Item(n)
  BY <1>2, ItemDistinct
<1>4. ASSUME NEW key PROVE HasChild(A, key) <=> \E i \in 0 .. (n + 1) - 1 : key = Item(i)
  <2>1. CASE key = Item(n)
    BY <1>1, <1>2, <2>1 DEF PutsOnly
  <2>2. CASE key # Item(n)
    <3>1. HasChild(A, key) <=> HasChild(a, key)
      BY <1>1, <2>2 DEF PutsOnly
    <3>2. \A i \in 0 .. (n + 1) - 1 : key = Item(i) => i \in 0 .. n - 1
      BY <1>2, <2>2
    <3>3. 0 .. n - 1 \subseteq 0 .. (n + 1) - 1
      BY <1>2
    <3>. QED BY <3>1, <3>2, <3>3 DEF IsArray
  <2>. QED BY <2>1, <2>2
<1>5. IsArray(A, n + 1)
  BY <1>1, <1>2, <1>4 DEF IsArray, PutsOnly
<1>. QED BY <1>1, <1>3, <1>5 DEF PutsOnly

(* The items of an array.                                                    *)
LEMMA ArrayItems ==
  ASSUME NEW a, NEW n, IsArray(a, n), NEW i \in 1 .. n
  PROVE  Items(a)[i] = Child(a, Item(i - 1))
<1>1. n \in Nat /\ a[<<>>].type = "array" /\ HasChild(a, Item(i - 1))
  BY DEF IsArray
<1>2. Items(a)[i] = CHOOSE w \in GetItem(a, <<>>, i - 1) : TRUE
  BY ArraySize DEF Items
<1>3. Append(<<>>, Item(i - 1)) = One(Item(i - 1))
  BY PathsAppend
<1>4. GetItem(a, <<>>, i - 1) = {Child(a, Item(i - 1))}
  BY <1>1, <1>3 DEF GetItem, Find, HasChild, Child
<1>. QED BY <1>2, <1>4
\* What v has of an array below a key: nothing is an empty one.
Gathered(v, key) == IF HasChild(v, key) THEN Child(v, key) ELSE Empty("array")

\* v with w appended to member x, which has n items.
Appended(v, x, n, w) ==
    LET v1 == Insert(Opened(v), <<>>, Member(x))
        v2 == IF v1[One(Member(x))].type = "null" THEN Put(v1, One(Member(x)), Empty("array")) ELSE v1
    IN  Put(v2, Two(Member(x), Item(n)), w)

(* value["x"].append(w).                                                     *)
LEMMA AppendToOne ==
  ASSUME NEW v, IsObject(v), NEW x, NEW n, IsArray(Gathered(v, Member(x)), n), NEW w, IsTree(w)
  PROVE  /\ AppendTo(v, x, w) = {Appended(v, x, n, w)}
         /\ PutsOnly(Appended(v, x, n, w), Opened(v), Member(x),
                     Put(Gathered(v, Member(x)), One(Item(n)), w))
<1>. DEFINE O == Opened(v)
            key == Member(x)
            it == Item(n)
            a == Gathered(v, key)
            u == Insert(O, <<>>, key)
            o == IF u[One(key)].type = "null" THEN Put(u, One(key), Empty("array")) ELSE u
            V == Put(o, Two(key, it), w)
<1>1. /\ IsTree(O) /\ Open(v, <<>>, "object") = {O}
      /\ HasChild(O, key) <=> HasChild(v, key)
      /\ HasChild(v, key) => v = O
  <2>1. v = Null => ~HasChild(v, key)
    BY EmptyTrees
  <2>. QED BY <2>1, OpenedObject
<1>2. a = IF HasChild(O, key) THEN Child(O, key) ELSE Empty("array")
  <2>. HIDE DEF O, key
  <2>. QED BY <1>1 DEF Gathered
<1>3. IsArray(a, n) /\ Size(a, <<>>) = n /\ IsTree(Null)
  BY ArraySize, EmptyTrees
<1>4. V = Appended(v, x, n, w)
  BY DEF Appended
<1>5. ResolveReference(v, <<>>, x) = {u}
  BY <1>1 DEF ResolveReference
<1>6. <<key>> = One(key) /\ Append(One(key), it) = Two(key, it)
  BY PathsAppend
<1>7. AppendTo(v, x, w) = AppendItem(u, One(key), w)
  <2>1. <<Member(x)>> = One(key)
    BY <1>6
  <2>. QED BY <1>5, <2>1 DEF AppendTo
<1>. HIDE DEF O, a
<1>8. HasChild(O, key) => u = O
  BY <1>1, <1>3, InsertPut
<1>9. ~HasChild(O, key) => PutsOnly(u, O, key, Null)
  BY <1>1, <1>3, InsertPut
<1>. HIDE DEF u, key, it
<1>10. /\ IsTree(u) /\ HasChild(u, key)
       /\ Child(u, key) = IF HasChild(O, key) THEN a ELSE Null
       /\ PutsOnly(u, O, key, Child(u, key))
  BY <1>1, <1>2, <1>8, <1>9 DEF PutsOnly
<1>11. HasPaths(u) /\ Size(u, One(key)) = Size(Child(u, key), <<>>) /\ u[One(key)] = Child(u, key)[<<>>]
  BY <1>10, TreePaths, SizeBelow
<1>12. Child(u, key)[<<>>].type = IF HasChild(O, key) THEN "array" ELSE "null"
  BY <1>3, <1>10, EmptyTrees DEF IsArray
<1>13. Size(u, One(key)) = n
  <2>1. CASE HasChild(O, key)
    BY <1>3, <1>10, <1>11, <2>1
  <2>2. CASE ~HasChild(O, key)
    <3>1. Size(u, One(key)) = 0
      BY <1>11, <1>12, <2>2 DEF Size
    <3>2. n = 0
      BY <1>2, <1>3, <2>2, EmptyArray, ArraySize
    <3>. QED BY <3>1, <3>2
  <2>. QED BY <2>1, <2>2
<1>14. IsTree(o) /\ PutsOnly(o, O, key, a) /\ Open(u, One(key), "array") = {o}
  <2>1. CASE HasChild(O, key)
    BY <1>10, <1>11, <1>12, <2>1 DEF Open
  <2>2. CASE ~HasChild(O, key)
    <3>1. o = Put(u, One(key), Empty("array"))
      BY <1>11, <1>12, <2>2
    <3>2. Open(u, One(key), "array") = {o}
      BY <1>11, <1>12, <2>2, <3>1 DEF Open
    <3>3. PutsOnly(o, u, key, Empty("array"))
      BY <1>11, <3>1, EmptyTrees, PutChild
    <3>4. PutsOnly(o, O, key, a)
      BY <1>2, <1>10, <2>2, <3>3, PutsTwice
    <3>. QED BY <3>2, <3>3, <3>4 DEF PutsOnly
  <2>. QED BY <2>1, <2>2
<1>. HIDE DEF o
<1>15. AppendItem(u, One(key), w) = {Put(z, Two(key, it), w) : z \in Subscript(u, One(key), n)}
  BY <1>6, <1>13 DEF AppendItem, it
<1>16. Subscript(u, One(key), n) = {Insert(o, One(key), it)}
  BY <1>14 DEF Subscript, it
<1>17. HasPaths(o) /\ HasChild(o, key) /\ Child(o, key) = a
  BY <1>14, TreePaths DEF PutsOnly
<1>18. Put(Insert(o, One(key), it), Two(key, it), w) = V
  <2>1. CASE Two(key, it) \in DOMAIN o
    BY <1>6, <2>1 DEF Insert
  <2>2. CASE Two(key, it) \notin DOMAIN o
    BY <1>3, <1>6, <1>17, <2>2, PutAgain DEF Insert
  <2>. QED BY <2>1, <2>2
<1>19. PutsOnly(V, o, key, Put(a, One(it), w))
  BY <1>17, PutGrandChild
<1>. HIDE DEF V
<1>20. PutsOnly(V, O, key, Put(a, One(it), w))
  BY <1>14, <1>19, PutsTwice
<1>21. AppendTo(v, x, w) = {V}
  BY <1>7, <1>15, <1>16, <1>18
<1>. QED BY <1>4, <1>20, <1>21 DEF O, a, key, it

(* One item more, and the others as before.                                  *)
LEMMA GatherOne ==
  ASSUME NEW v, IsObject(v), NEW x, NEW n, IsArray(Gathered(v, Member(x)), n), NEW w, IsTree(w),
         NEW V \in AppendTo(v, x, w)
  PROVE  /\ IsObject(V) /\ V # Null /\ IsArray(Gathered(V, Member(x)), n + 1)
         /\ Child(Gathered(V, Member(x)), Item(n)) = w
         /\ \A i \in 0 .. n - 1 : Child(Gathered(V, Member(x)), Item(i)) = Child(Gathered(v, Member(x)), Item(i))
         /\ \A other : other # Member(x) => /\ HasChild(V, other) <=> HasChild(Opened(v), other)
                                            /\ Child(V, other) = Child(Opened(v), other)
<1>. DEFINE O == Opened(v)
            key == Member(x)
            a == Gathered(v, key)
            A == Put(a, One(Item(n)), w)
<1>1. PutsOnly(V, O, key, A)
  BY AppendToOne
<1>2. O[<<>>].type = "object"
  BY OpenedObject
<1>3. /\ IsArray(A, n + 1) /\ Child(A, Item(n)) = w
      /\ \A i \in 0 .. n - 1 : Child(A, Item(i)) = Child(a, Item(i))
  <2>1. IsArray(a, n)
    OBVIOUS
  <2>. HIDE DEF a
  <2>. QED BY <2>1, ArrayAppend
<1>. HIDE DEF A, a, O, key
<1>4. Gathered(V, key) = A
  BY <1>1 DEF Gathered, PutsOnly
<1>5. IsObject(V) /\ V # Null
  BY <1>1, <1>2, EmptyTrees DEF IsObject, PutsOnly
<1>6. \A other : other # key => /\ HasChild(V, other) <=> HasChild(O, other)
                                /\ Child(V, other) = Child(O, other)
  BY <1>1 DEF PutsOnly
<1>. QED BY <1>3, <1>4, <1>5, <1>6 DEF a, O, key
(* Counting the directories among the entries.                               *)
LEMMA DirectsStep ==
  ASSUME NEW entries, NEW n \in Nat
  PROVE  /\ Directs(entries, 0) = 0 /\ Directs(entries, n) \in Nat
         /\ Directs(entries, n + 1) = IF entries[n + 1].dir THEN Directs(entries, n) + 1 ELSE Directs(entries, n)
<1>. DEFINE D(m) == {i \in 1 .. m : entries[i].dir}
<1>1. IsFiniteSet(D(n))
  <2>1. IsFiniteSet(1 .. n) /\ D(n) \in SUBSET (1 .. n)
    BY FS_Interval
  <2>. QED BY <2>1, FS_Subset
<1>2. n + 1 \notin D(n) /\ D(0) = {}
  OBVIOUS
<1>3. D(n + 1) = IF entries[n + 1].dir THEN D(n) \cup {n + 1} ELSE D(n)
  <2>1. \A i : i \in 1 .. n + 1 <=> i \in 1 .. n \/ i = n + 1
    OBVIOUS
  <2>. QED BY <2>1
<1>4. Directs(entries, 0) = Cardinality(D(0)) /\ Directs(entries, n) = Cardinality(D(n))
      /\ Directs(entries, n + 1) = Cardinality(D(n + 1))
  BY DEF Directs
<1>. HIDE DEF D
<1>5. Cardinality(D(n) \cup {n + 1}) = Cardinality(D(n)) + 1
  BY <1>1, <1>2, FS_AddElement
<1>6. Cardinality(D(n)) \in Nat /\ Cardinality(D(0)) = 0
  BY <1>1, <1>2, FS_CardinalityType, FS_EmptySet
<1>. QED BY <1>3, <1>4, <1>5, <1>6

(* An entry's place among the directories.                                   *)
LEMMA DirectsBelow ==
  ASSUME NEW entries, NEW n \in Nat, NEW i \in 1 .. n, entries[i].dir
  PROVE  Directs(entries, i) \in 1 .. Directs(entries, n)
<1>. DEFINE D(m) == {l \in 1 .. m : entries[l].dir}
<1>1. i - 1 \in Nat /\ (i - 1) + 1 = i
  OBVIOUS
<1>2. Directs(entries, i - 1) \in Nat /\ Directs(entries, (i - 1) + 1) = Directs(entries, i - 1) + 1
  BY <1>1, DirectsStep
<1>3. IsFiniteSet(1 .. n) /\ D(n) \in SUBSET (1 .. n) /\ D(i) \in SUBSET D(n)
  BY FS_Interval
<1>4. Directs(entries, i) = Cardinality(D(i)) /\ Directs(entries, n) = Cardinality(D(n))
  BY DEF Directs
<1>. HIDE DEF D
<1>5. IsFiniteSet(D(n))
  BY <1>3, FS_Subset
<1>6. Cardinality(D(i)) <= Cardinality(D(n))
  BY <1>3, <1>5, FS_Subset
<1>7. Directs(entries, n) \in Nat
  BY DirectsStep
<1>. QED BY <1>1, <1>2, <1>4, <1>6, <1>7

(* A parsed file is a tree of paths.                                         *)
LEMMA ParsedPaths ==
  ASSUME NEW values, IsParsed(values), NEW v \in values
  PROVE  HasPaths(v) /\ values = {v}
<1>. DEFINE K == UNION {ToSet(p_) : p_ \in DOMAIN v}
<1>1. <<>> \in DOMAIN v /\ (\A p_ \in DOMAIN v : p_ \in Seq(ToSet(p_))) /\ \A w \in values : v = w
  BY DEF IsParsed
<1>2. ASSUME NEW q \in DOMAIN v PROVE q \in Seq(K)
  <2>1. q \in Seq(ToSet(q)) /\ ToSet(q) \subseteq K
    BY <1>1
  <2>. HIDE DEF K
  <2>2. ASSUME NEW S, NEW s \in Seq(S), S \subseteq K PROVE s \in Seq(K)
    BY <2>2
  <2>. QED BY <2>1, <2>2
<1>. HIDE DEF K
<1>3. PathsOver(v, K)
  BY <1>1, <1>2 DEF PathsOver
<1>. QED BY <1>1, <1>3 DEF HasPaths

(* [] leaves at most one value, with paths.                                  *)
LEMMA ResolvePaths ==
  ASSUME NEW v, HasPaths(v), NEW x, NEW u \in ResolveReference(v, <<>>, x)
  PROVE  HasPaths(u) /\ ResolveReference(v, <<>>, x) = {u} /\ v[<<>>].type \in {"object", "null"}
<1>. DEFINE o == IF v[<<>>].type = "object" THEN v ELSE Put(v, <<>>, Empty("object"))
            key == Member(x)
<1>1. v[<<>>].type \in {"object", "null"} /\ ResolveReference(v, <<>>, x) = {Insert(o, <<>>, key)}
  BY DEF ResolveReference, Open
<1>2. HasPaths(o)
  <2>1. Put(v, <<>>, Empty("object")) = Empty("object") /\ HasPaths(Empty("object"))
    BY EmptyTrees, TreePaths, PutRoot
  <2>. QED BY <2>1
<1>. HIDE DEF o, key
<1>3. u = Insert(o, <<>>, key)
  BY <1>1
<1>4. HasPaths(u)
  <2>1. CASE Append(<<>>, key) \in DOMAIN o
    BY <1>2, <1>3, <2>1 DEF Insert
  <2>2. CASE Append(<<>>, key) \notin DOMAIN o
    <3>1. u = Put(o, One(key), Null)
      BY <1>3, <2>2, PathsAppend DEF Insert
    <3>2. PutsOnly(u, o, key, Null)
      BY <1>2, <3>1, EmptyTrees, PutChild
    <3>. QED BY <3>2, TreePaths DEF PutsOnly
  <2>. QED BY <2>1, <2>2
<1>. QED BY <1>1, <1>3, <1>4

(* info["info"]["bit_state"] is one tree, if anything.                       *)
LEMMA NestedOne ==
  ASSUME NEW v, HasPaths(v), NEW x, NEW y, NEW w \in Nested(v, x, y)
  PROVE  IsTree(w) /\ Nested(v, x, y) = {w}
<1>1. PICK u \in ResolveReference(v, <<>>, x) : w \in Get(u, <<Member(x)>>, y)
  BY DEF Nested
<1>2. HasPaths(u) /\ ResolveReference(v, <<>>, x) = {u}
  BY ResolvePaths
<1>3. IsTree(w) /\ Get(u, <<Member(x)>>, y) = {w}
  BY <1>1, <1>2, GetTrees
<1>. QED BY <1>2, <1>3 DEF Nested

\* What a value is between two recordings, or two channels.
Blank == {Null, Empty("object")}

(* Setting a member makes no difference between them.                        *)
LEMMA AssignPlain ==
  ASSUME NEW into \in Blank, NEW x, NEW w
  PROVE  Assign({into}, x, w) = Assign({Null}, x, w)
<1>1. IsObject(into) /\ IsObject(Null) /\ Opened(into) = Empty("object") /\ Opened(Null) = Empty("object")
  BY EmptyTrees DEF Blank, IsObject, Opened
<1>2. ResolveReference(into, <<>>, x) = ResolveReference(Null, <<>>, x)
  BY <1>1, OpenedObject DEF ResolveReference
<1>. QED BY <1>2 DEF Assign, SetMember

(* A channel's entry depends on its own files only, and is an object.        *)
LEMMA ChannelPlain ==
  ASSUME NEW into \in Blank, NEW entry, NEW sub, NEW meta, HasPaths(meta)
  PROVE  /\ ChannelOf(into, entry, sub, meta) = ChannelOf(Null, entry, sub, meta)
         /\ \A w \in ChannelOf(into, entry, sub, meta) : IsObject(w)
<1>1. ChannelOf(into, entry, sub, meta) = ChannelOf(Null, entry, sub, meta)
  <2>1. ASSUME NEW total PROVE Described(into, entry, sub, meta, total) = Described(Null, entry, sub, meta, total)
    <3>. DEFINE counted(v) == Assign({v}, Letter.total_frame, UIntValue(total % (MaxLargestUInt + 1)))
                rest(c) == Assign(Assign(Assign(Assign(c, Letter.filename, StringValue(entry.name \o sub.name)),
                                                Letter.idx, StringValue(sub.name)), Letter.num,
                                         CHOOSE w \in Get(meta, <<>>, Letter.num) : TRUE), Letter.den,
                                  CHOOSE w \in Get(meta, <<>>, Letter.den) : TRUE)
    <3>1. counted(into) = counted(Null)
      BY AssignPlain
    <3>2. /\ Described(into, entry, sub, meta, total) = rest(counted(into))
          /\ Described(Null, entry, sub, meta, total) = rest(counted(Null))
      BY DEF Described
    <3>. HIDE DEF counted, rest
    <3>. QED BY <3>1, <3>2
  <2>. QED BY <2>1 DEF ChannelOf
<1>2. ASSUME NEW total \in TotalFrame(meta), NEW w \in Described(into, entry, sub, meta, total)
      PROVE  IsObject(w)
  <2>. DEFINE u == UIntValue(total % (MaxLargestUInt + 1))
              f == StringValue(entry.name \o sub.name)
              i == StringValue(sub.name)
              c == CHOOSE z \in Get(meta, <<>>, Letter.num) : TRUE
              d == CHOOSE z \in Get(meta, <<>>, Letter.den) : TRUE
              v1 == With(into, Letter.total_frame, u)
              v2 == With(v1, Letter.filename, f)
              v3 == With(v2, Letter.idx, i)
              v4 == With(v3, Letter.num, c)
              v5 == With(v4, Letter.den, d)
  <2>1. meta[<<>>].type \in {"object", "null"}
    <3>1. PICK x \in ResolveReference(meta, <<>>, Letter.files) : TRUE
      BY DEF TotalFrame
    <3>. QED BY <3>1, ResolvePaths
  <2>2. IsTree(c) /\ IsTree(d)
    BY <2>1, GetTrees
  <2>3. IsTree(u) /\ IsTree(f) /\ IsTree(i)
    BY LeafTree DEF UIntValue, StringValue
  <2>4. IsObject(into)
    BY EmptyTrees DEF Blank, IsObject
  <2>5. Described(into, entry, sub, meta, total) =
          Assign(Assign(Assign(Assign(Assign({into}, Letter.total_frame, u), Letter.filename, f),
                               Letter.idx, i), Letter.num, c), Letter.den, d)
    BY DEF Described
  <2>. HIDE DEF u, f, i, c, d
  <2>6. Assign({into}, Letter.total_frame, u) = {v1} /\ IsObject(v1)
    BY <2>3, <2>4, AssignOne
  <2>. HIDE DEF v1
  <2>7. Assign({v1}, Letter.filename, f) = {v2} /\ IsObject(v2)
    BY <2>3, <2>6, AssignOne
  <2>. HIDE DEF v2
  <2>8. Assign({v2}, Letter.idx, i) = {v3} /\ IsObject(v3)
    BY <2>3, <2>7, AssignOne
  <2>. HIDE DEF v3
  <2>9. Assign({v3}, Letter.num, c) = {v4} /\ IsObject(v4)
    BY <2>2, <2>8, AssignOne
  <2>. HIDE DEF v4
  <2>10. Assign({v4}, Letter.den, d) = {v5} /\ IsObject(v5)
    BY <2>2, <2>9, AssignOne
  <2>. HIDE DEF v5
  <2>. QED BY <2>5, <2>6, <2>7, <2>8, <2>9, <2>10
<1>3. \A w \in ChannelOf(into, entry, sub, meta) : IsObject(w)
  BY <1>2 DEF ChannelOf
<1>. QED BY <1>1, <1>3
(* The inductive invariant.                                                  *)

\* The list has the recordings of the first n entries.
Listed(entries, list, n) ==
    LET files == Gathered(list, Member(Letter.files))
    IN  /\ IsObject(list)
        /\ IsArray(files, Directs(entries, n))
        /\ \A i \in 1 .. n : entries[i].dir =>
               Expected(entries[i], i - 1, Child(files, Item(Directs(entries, i) - 1)))

\* A recording with its first n channels.
Recording(entry, place, n, e) ==
    LET items == Gathered(e, Member(Letter.channels))
    IN  /\ IsObject(e) /\ e # Null
        /\ HasChild(e, Member(Letter.idx)) /\ Child(e, Member(Letter.idx)) = IntValue(place)
        /\ HasChild(e, Member(Letter.path)) /\ Child(e, Member(Letter.path)) = StringValue(entry.name)
        /\ HasChild(e, Member(Letter.bit_state)) <=> entry.info # {}
        /\ \A info \in entry.info :
               Nested(info, Letter.info, Letter.bit_state) = {Child(e, Member(Letter.bit_state))}
        /\ IsArray(items, Directs(entry.subs, n))
        /\ \A i \in 1 .. n : entry.subs[i].dir =>
               ExpectedChannel(entry, entry.subs[i], Child(items, Item(Directs(entry.subs, i) - 1)))

ListInv ==
    /\ basepath \in Directories
    /\ ent \in 0 .. Len(basepath)
    /\ channel \in Blank
    /\ list_pc = "entry" => entry_idx = ent /\ b \in Blank /\ Listed(basepath, listing, ent)
    /\ list_pc = "sub entry" =>
           /\ ent \in 1 .. Len(basepath) /\ basepath[ent].dir
           /\ entry_idx = ent - 1
           /\ sub_ent \in 0 .. Len(basepath[ent].subs)
           /\ Recording(basepath[ent], ent - 1, sub_ent, b)
           /\ Listed(basepath, listing, ent - 1)
    /\ list_pc = "answered" => Listed(basepath, listing, Len(basepath))

(* What the directories are.                                                 *)
LEMMA DirectoryTypes ==
  ASSUME NEW d \in Directories
  PROVE  /\ Len(d) \in Nat /\ DOMAIN d = 1 .. Len(d)
         /\ \A i \in 1 .. Len(d) :
               /\ \A info \in d[i].info : HasPaths(info) /\ d[i].info = {info}
               /\ Len(d[i].subs) \in Nat /\ DOMAIN d[i].subs = 1 .. Len(d[i].subs)
               /\ \A j \in 1 .. Len(d[i].subs) : \A meta \in d[i].subs[j].meta :
                     HasPaths(meta) /\ d[i].subs[j].meta = {meta}
<1>1. /\ d \in Seq(ToSet(d))
      /\ \A i \in DOMAIN d : /\ IsParsed(d[i].info)
                             /\ d[i].subs \in Seq(ToSet(d[i].subs))
                             /\ \A j \in DOMAIN d[i].subs : IsParsed(d[i].subs[j].meta)
  BY ListAssumption
<1>2. Len(d) \in Nat /\ DOMAIN d = 1 .. Len(d)
  BY <1>1, LenProperties
<1>3. ASSUME NEW i \in 1 .. Len(d)
      PROVE  /\ \A info \in d[i].info : HasPaths(info) /\ d[i].info = {info}
             /\ Len(d[i].subs) \in Nat /\ DOMAIN d[i].subs = 1 .. Len(d[i].subs)
             /\ \A j \in 1 .. Len(d[i].subs) : \A meta \in d[i].subs[j].meta :
                   HasPaths(meta) /\ d[i].subs[j].meta = {meta}
  <2>1. /\ IsParsed(d[i].info) /\ d[i].subs \in Seq(ToSet(d[i].subs))
        /\ \A j \in DOMAIN d[i].subs : IsParsed(d[i].subs[j].meta)
    BY <1>1, <1>2
  <2>2. Len(d[i].subs) \in Nat /\ DOMAIN d[i].subs = 1 .. Len(d[i].subs)
    BY <2>1, LenProperties
  <2>3. \A info \in d[i].info : HasPaths(info) /\ d[i].info = {info}
    BY <2>1, ParsedPaths
  <2>4. ASSUME NEW j \in 1 .. Len(d[i].subs), NEW meta \in d[i].subs[j].meta
        PROVE  HasPaths(meta) /\ d[i].subs[j].meta = {meta}
    BY <2>1, <2>2, ParsedPaths
  <2>. QED BY <2>2, <2>3, <2>4
<1>. QED BY <1>2, <1>3

(* The names differ.                                                         *)
LEMMA NamesDiffer ==
  /\ Member(Letter.idx) # Member(Letter.path) /\ Member(Letter.idx) # Member(Letter.bit_state)
  /\ Member(Letter.path) # Member(Letter.bit_state)
  /\ Member(Letter.channels) \notin {Member(Letter.idx), Member(Letter.path), Member(Letter.bit_state)}
  /\ Member(Letter.files) # Member(Letter.cmd)
<1>1. ASSUME NEW x, NEW y, Member(x) = Member(y) PROVE x = y
  BY <1>1 DEF Member
<1>2. ASSUME NEW i, NEW j, <<i>> = <<j>> PROVE i = j
  BY <1>2
<1>3. /\ Letter.idx = <<1>> /\ Letter.path = <<2>> /\ Letter.bit_state = <<3>>
      /\ Letter.channels = <<11>> /\ Letter.files = <<5>> /\ Letter.cmd = <<12>>
  BY DEF Letter
<1>. QED BY <1>1, <1>2, <1>3

(* A complete recording is what is expected of it.                           *)
LEMMA RecordingExpected ==
  ASSUME NEW entry, NEW place, NEW e, NEW n \in Nat, DOMAIN entry.subs = 1 .. n, Len(entry.subs) = n,
         Recording(entry, place, n, e)
  PROVE  Expected(entry, place, e)
<1>. DEFINE key == Member(Letter.channels)
            items == CHOOSE w \in Get(e, <<>>, Letter.channels) : TRUE
            a == Gathered(e, key)
            m == Directs(entry.subs, n)
<1>1. /\ IsObject(e)
      /\ HasChild(e, Member(Letter.idx)) /\ Child(e, Member(Letter.idx)) = IntValue(place)
      /\ HasChild(e, Member(Letter.path)) /\ Child(e, Member(Letter.path)) = StringValue(entry.name)
      /\ HasChild(e, Member(Letter.bit_state)) <=> entry.info # {}
      /\ \A info \in entry.info :
             Nested(info, Letter.info, Letter.bit_state) = {Child(e, Member(Letter.bit_state))}
      /\ IsArray(a, m)
      /\ \A i \in 1 .. n : entry.subs[i].dir =>
             ExpectedChannel(entry, entry.subs[i], Child(a, Item(Directs(entry.subs, i) - 1)))
  BY DEF Recording
<1>2. Get(e, <<>>, Letter.idx) = {IntValue(place)} /\ Get(e, <<>>, Letter.path) = {StringValue(entry.name)}
  BY <1>1, GetOne
<1>3. IsMember(e, <<>>, Letter.bit_state) <=> entry.info # {}
  BY <1>1, PathsAppend DEF IsMember, HasChild
<1>4. ASSUME NEW info \in entry.info
      PROVE  Get(e, <<>>, Letter.bit_state) = Nested(info, Letter.info, Letter.bit_state)
  BY <1>1, GetOne
<1>5. items = IF HasChild(e, key) THEN a ELSE Null
  BY <1>1, GetOne DEF Gathered
<1>. HIDE DEF key, a, items, m
<1>6. m \in Nat /\ \A i \in 1 .. n : entry.subs[i].dir => Directs(entry.subs, i) \in 1 .. m
  BY DirectsStep, DirectsBelow DEF m
<1>7. Size(items, <<>>) = m
  <2>1. CASE HasChild(e, key)
    BY <1>1, <1>5, <2>1, ArraySize
  <2>2. CASE ~HasChild(e, key)
    <3>1. Size(items, <<>>) = 0
      BY <1>5, <2>2, EmptyTrees DEF Size
    <3>2. a = Empty("array")
      BY <2>2 DEF Gathered, a
    <3>3. m = 0
      BY <1>1, <3>2, EmptyArray, ArraySize
    <3>. QED BY <3>1, <3>3
  <2>. QED BY <2>1, <2>2
<1>8. ASSUME NEW i \in 1 .. n, entry.subs[i].dir
      PROVE  ExpectedChannel(entry, entry.subs[i], Items(items)[Directs(entry.subs, i)])
  <2>. DEFINE c == Directs(entry.subs, i)
  <2>1. c \in 1 .. m
    BY <1>6, <1>8
  <2>2. CASE HasChild(e, key)
    <3>1. Items(items)[c] = Child(a, Item(c - 1))
      <4>. HIDE DEF c
      <4>. QED BY <1>1, <1>5, <2>1, <2>2, ArrayItems
    <3>. QED BY <1>1, <1>8, <3>1
  <2>3. CASE ~HasChild(e, key)
    <3>1. a = Empty("array")
      BY <2>3 DEF Gathered, a
    <3>2. m = 0
      BY <1>1, <3>1, EmptyArray, ArraySize
    <3>. QED BY <1>6, <2>1, <3>2
  <2>. QED BY <2>2, <2>3
<1>. QED BY <1>2, <1>3, <1>4, <1>7, <1>8 DEF Expected, items, m
(* One directory more is gathered.                                           *)
LEMMA GatherDirect ==
  ASSUME NEW v, IsObject(v), NEW x, NEW entries, NEW n \in Nat,
         IsArray(Gathered(v, Member(x)), Directs(entries, n)), entries[n + 1].dir,
         NEW w, IsTree(w), NEW V \in AppendTo(v, x, w)
  PROVE  /\ IsObject(V) /\ V # Null /\ IsArray(Gathered(V, Member(x)), Directs(entries, n + 1))
         /\ Child(Gathered(V, Member(x)), Item(Directs(entries, n + 1) - 1)) = w
         /\ \A i \in 1 .. n : entries[i].dir =>
               Child(Gathered(V, Member(x)), Item(Directs(entries, i) - 1)) =
                 Child(Gathered(v, Member(x)), Item(Directs(entries, i) - 1))
         /\ \A other : other # Member(x) => /\ HasChild(V, other) <=> HasChild(Opened(v), other)
                                            /\ Child(V, other) = Child(Opened(v), other)
<1>. DEFINE m == Directs(entries, n)
            A == Gathered(V, Member(x))
            a == Gathered(v, Member(x))
<1>1. /\ IsObject(V) /\ V # Null /\ IsArray(A, m + 1) /\ Child(A, Item(m)) = w
      /\ \A i \in 0 .. m - 1 : Child(A, Item(i)) = Child(a, Item(i))
      /\ \A other : other # Member(x) => /\ HasChild(V, other) <=> HasChild(Opened(v), other)
                                         /\ Child(V, other) = Child(Opened(v), other)
  <2>1. IsArray(a, m)
    OBVIOUS
  <2>. HIDE DEF m
  <2>. QED BY <2>1, GatherOne
<1>2. m \in Nat /\ Directs(entries, n + 1) = m + 1
  BY DirectsStep
<1>3. ASSUME NEW i \in 1 .. n, entries[i].dir PROVE Directs(entries, i) - 1 \in 0 .. m - 1
  <2>1. Directs(entries, i) \in 1 .. m
    BY <1>3, DirectsBelow
  <2>. HIDE DEF m
  <2>. QED BY <1>2, <2>1
<1>. HIDE DEF m, A, a
<1>4. (m + 1) - 1 = m
  BY <1>2
<1>. QED BY <1>1, <1>2, <1>3, <1>4 DEF A, a

(* Nothing is gathered for an entry that is no directory.                    *)
LEMMA ListedSkip ==
  ASSUME NEW entries, NEW list, NEW n \in Nat, Listed(entries, list, n), ~entries[n + 1].dir
  PROVE  Listed(entries, list, n + 1)
<1>1. Directs(entries, n + 1) = Directs(entries, n)
  BY DirectsStep
<1>2. \A i \in 1 .. n + 1 : i \in 1 .. n \/ i = n + 1
  OBVIOUS
<1>. QED BY <1>1, <1>2 DEF Listed

LEMMA RecordingSkip ==
  ASSUME NEW entry, NEW place, NEW n \in Nat, NEW e, Recording(entry, place, n, e), ~entry.subs[n + 1].dir
  PROVE  Recording(entry, place, n + 1, e)
<1>1. Directs(entry.subs, n + 1) = Directs(entry.subs, n)
  BY DirectsStep
<1>2. \A i \in 1 .. n + 1 : i \in 1 .. n \/ i = n + 1
  OBVIOUS
<1>. QED BY <1>1, <1>2 DEF Recording

(* A channel more of a recording.                                            *)
LEMMA RecordingGather ==
  ASSUME NEW entry, NEW place, NEW n \in Nat, NEW e, Recording(entry, place, n, e), entry.subs[n + 1].dir,
         NEW w, IsTree(w), ExpectedChannel(entry, entry.subs[n + 1], w),
         NEW V \in AppendTo(e, Letter.channels, w)
  PROVE  Recording(entry, place, n + 1, V)
<1>. DEFINE key == Member(Letter.channels)
            a == Gathered(e, key)
            A == Gathered(V, key)
<1>1. /\ IsObject(e) /\ e # Null
      /\ HasChild(e, Member(Letter.idx)) /\ Child(e, Member(Letter.idx)) = IntValue(place)
      /\ HasChild(e, Member(Letter.path)) /\ Child(e, Member(Letter.path)) = StringValue(entry.name)
      /\ HasChild(e, Member(Letter.bit_state)) <=> entry.info # {}
      /\ \A info \in entry.info :
             Nested(info, Letter.info, Letter.bit_state) = {Child(e, Member(Letter.bit_state))}
      /\ IsArray(a, Directs(entry.subs, n))
      /\ \A i \in 1 .. n : entry.subs[i].dir =>
             ExpectedChannel(entry, entry.subs[i], Child(a, Item(Directs(entry.subs, i) - 1)))
  BY DEF Recording
<1>2. Opened(e) = e
  BY <1>1 DEF Opened
<1>3. /\ IsObject(V) /\ V # Null /\ IsArray(A, Directs(entry.subs, n + 1))
      /\ Child(A, Item(Directs(entry.subs, n + 1) - 1)) = w
      /\ \A i \in 1 .. n : entry.subs[i].dir =>
            Child(A, Item(Directs(entry.subs, i) - 1)) = Child(a, Item(Directs(entry.subs, i) - 1))
      /\ \A other : other # key => /\ HasChild(V, other) <=> HasChild(Opened(e), other)
                                   /\ Child(V, other) = Child(Opened(e), other)
  BY <1>1, GatherDirect
<1>. HIDE DEF A, a
<1>4. ASSUME NEW i \in 1 .. n + 1, entry.subs[i].dir
      PROVE  ExpectedChannel(entry, entry.subs[i], Child(A, Item(Directs(entry.subs, i) - 1)))
  <2>1. CASE i = n + 1
    BY <1>3, <2>1
  <2>2. CASE i \in 1 .. n
    BY <1>1, <1>3, <1>4, <2>2
  <2>. QED BY <2>1, <2>2
<1>5. \A other \in {Member(Letter.idx), Member(Letter.path), Member(Letter.bit_state)} :
         (HasChild(V, other) <=> HasChild(e, other)) /\ Child(V, other) = Child(e, other)
  BY <1>2, <1>3, NamesDiffer
<1>. QED BY <1>1, <1>3, <1>4, <1>5 DEF Recording, A

(* A recording that has been opened has no channels.                         *)
LEMMA RecordingStart ==
  ASSUME NEW e \in Blank, NEW entry, NEW place,
         NEW named, named = Assign(Assign({e}, Letter.idx, IntValue(place)), Letter.path, StringValue(entry.name)),
         NEW V, \/ entry.info = {} /\ V \in named
                \/ \E info \in entry.info : HasPaths(info) /\ entry.info = {info} /\
                      \E bits \in Nested(info, Letter.info, Letter.bit_state) :
                          V \in Assign(named, Letter.bit_state, bits)
  PROVE  Recording(entry, place, 0, V)
<1>. DEFINE i == IntValue(place)
            s == StringValue(entry.name)
            v1 == With(e, Letter.idx, i)
            v2 == With(v1, Letter.path, s)
            ki == Member(Letter.idx)
            kp == Member(Letter.path)
            kb == Member(Letter.bit_state)
            kc == Member(Letter.channels)
<1>1. IsObject(e) /\ \A key : ~HasChild(Opened(e), key)
  BY EmptyTrees DEF Blank, IsObject, Opened
<1>2. IsTree(i) /\ IsTree(s)
  BY LeafTree DEF IntValue, StringValue
<1>3. /\ Assign({e}, Letter.idx, i) = {v1} /\ IsObject(v1) /\ Opened(v1) = v1
      /\ PutsOnly(v1, Opened(e), ki, i)
  <2>. HIDE DEF i
  <2>. QED BY <1>1, <1>2, AssignOne
<1>4. Assign({v1}, Letter.path, s) = {v2} /\ IsObject(v2) /\ Opened(v2) = v2 /\ PutsOnly(v2, v1, kp, s)
  <2>. HIDE DEF v1, s
  <2>1. /\ Assign({v1}, Letter.path, s) = {v2} /\ IsObject(v2) /\ Opened(v2) = v2
        /\ PutsOnly(v2, Opened(v1), kp, s)
    BY <1>2, <1>3, AssignOne
  <2>. HIDE DEF v2, kp
  <2>. QED BY <1>3, <2>1
<1>5. named = {v2}
  BY <1>3, <1>4
<1>. HIDE DEF v1, v2, ki, kp, kb, kc
<1>6. /\ kc # ki /\ kc # kp /\ kc # kb /\ ki # kp /\ ki # kb /\ kp # kb
  BY NamesDiffer DEF kc, ki, kp, kb
<1>7. /\ HasChild(v2, ki) /\ Child(v2, ki) = i /\ HasChild(v2, kp) /\ Child(v2, kp) = s
      /\ ~HasChild(v2, kb) /\ ~HasChild(v2, kc)
  BY <1>1, <1>3, <1>4, <1>6 DEF PutsOnly
<1>8. /\ IsObject(V) /\ V # Null
      /\ HasChild(V, ki) /\ Child(V, ki) = i /\ HasChild(V, kp) /\ Child(V, kp) = s
      /\ HasChild(V, kb) <=> entry.info # {}
      /\ \A info \in entry.info : Nested(info, Letter.info, Letter.bit_state) = {Child(V, kb)}
      /\ ~HasChild(V, kc)
  <2>1. CASE entry.info = {} /\ V \in named
    <3>1. V = v2
      BY <1>5, <2>1
    <3>2. v2 # Null
      BY <1>7, EmptyTrees
    <3>. QED BY <1>4, <1>7, <2>1, <3>1, <3>2
  <2>2. ASSUME NEW info \in entry.info, HasPaths(info), entry.info = {info},
               NEW bits \in Nested(info, Letter.info, Letter.bit_state),
               V \in Assign(named, Letter.bit_state, bits)
        PROVE  /\ IsObject(V) /\ V # Null
               /\ HasChild(V, ki) /\ Child(V, ki) = i /\ HasChild(V, kp) /\ Child(V, kp) = s
               /\ HasChild(V, kb) <=> entry.info # {}
               /\ \A info_ \in entry.info : Nested(info_, Letter.info, Letter.bit_state) = {Child(V, kb)}
               /\ ~HasChild(V, kc)
    <3>1. IsTree(bits) /\ Nested(info, Letter.info, Letter.bit_state) = {bits}
      BY <2>2, NestedOne
    <3>2. /\ Assign({v2}, Letter.bit_state, bits) = {With(v2, Letter.bit_state, bits)}
          /\ IsObject(With(v2, Letter.bit_state, bits))
          /\ PutsOnly(With(v2, Letter.bit_state, bits), Opened(v2), kb, bits)
      BY <1>4, <3>1, AssignOne DEF kb
    <3>3. PutsOnly(V, v2, kb, bits) /\ IsObject(V)
      BY <1>4, <1>5, <2>2, <3>2
    <3>4. V # Null
      BY <3>3, EmptyTrees DEF PutsOnly
    <3>. QED BY <1>6, <1>7, <2>2, <3>1, <3>3, <3>4 DEF PutsOnly
  <2>. QED BY <2>1, <2>2
<1>9. IsArray(Gathered(V, kc), Directs(entry.subs, 0))
  BY <1>8, EmptyArray, DirectsStep DEF Gathered
<1>. QED BY <1>8, <1>9 DEF Recording, ki, kp, kb, kc
(* A recording more in the list.                                             *)
LEMMA ListedGather ==
  ASSUME NEW entries, NEW list, NEW n \in Nat, Listed(entries, list, n), entries[n + 1].dir,
         NEW w, IsTree(w), Expected(entries[n + 1], n, w), NEW L \in AppendTo(list, Letter.files, w)
  PROVE  Listed(entries, L, n + 1)
<1>. DEFINE key == Member(Letter.files)
            a == Gathered(list, key)
            A == Gathered(L, key)
<1>1. /\ IsObject(list) /\ IsArray(a, Directs(entries, n))
      /\ \A i \in 1 .. n : entries[i].dir =>
            Expected(entries[i], i - 1, Child(a, Item(Directs(entries, i) - 1)))
  BY DEF Listed
<1>2. /\ IsObject(L) /\ IsArray(A, Directs(entries, n + 1))
      /\ Child(A, Item(Directs(entries, n + 1) - 1)) = w
      /\ \A i \in 1 .. n : entries[i].dir =>
            Child(A, Item(Directs(entries, i) - 1)) = Child(a, Item(Directs(entries, i) - 1))
  BY <1>1, GatherDirect
<1>. HIDE DEF A, a
<1>3. ASSUME NEW i \in 1 .. n + 1, entries[i].dir
      PROVE  Expected(entries[i], i - 1, Child(A, Item(Directs(entries, i) - 1)))
  <2>1. CASE i = n + 1
    <3>1. i - 1 = n
      BY <2>1
    <3>. QED BY <1>2, <2>1, <3>1
  <2>2. CASE i \in 1 .. n
    BY <1>1, <1>2, <1>3, <2>2
  <2>. QED BY <2>1, <2>2
<1>. QED BY <1>2, <1>3 DEF Listed, A

(* The command's name does not touch it.                                     *)
LEMMA ListedAnswer ==
  ASSUME NEW entries, NEW list, NEW n, Listed(entries, list, n),
         NEW L \in SetMember(list, <<>>, Letter.cmd, StringValue(Letter.cmd))
  PROVE  Listed(entries, L, n)
<1>. DEFINE s == StringValue(Letter.cmd)
            V == With(list, Letter.cmd, s)
            key == Member(Letter.files)
<1>1. IsObject(list) /\ IsTree(s)
  BY LeafTree DEF Listed, StringValue
<1>2. L = V /\ IsObject(V) /\ PutsOnly(V, Opened(list), Member(Letter.cmd), s)
  <2>1. L \in SetMember(list, <<>>, Letter.cmd, s)
    OBVIOUS
  <2>. HIDE DEF s
  <2>2. /\ SetMember(list, <<>>, Letter.cmd, s) = {V} /\ IsObject(V)
        /\ PutsOnly(V, Opened(list), Member(Letter.cmd), s)
    BY <1>1, AssignOne
  <2>. HIDE DEF V
  <2>. QED BY <2>1, <2>2
<1>. HIDE DEF V, s, key
<1>3. /\ HasChild(V, key) <=> HasChild(Opened(list), key)
      /\ Child(V, key) = Child(Opened(list), key)
  BY <1>2, NamesDiffer DEF PutsOnly, key
<1>4. /\ HasChild(Opened(list), key) <=> HasChild(list, key)
      /\ list # Null => Opened(list) = list
      /\ ~HasChild(Null, key)
  BY <1>1, OpenedObject, EmptyTrees
<1>5. Gathered(V, key) = Gathered(list, key)
  BY <1>3, <1>4 DEF Gathered
<1>. QED BY <1>2, <1>5 DEF Listed, key

(* The next entry.                                                           *)
LEMMA NextWithin ==
  ASSUME NEW m \in Nat, NEW i \in 0 .. m, i < m
  PROVE  i \in Nat /\ i + 1 \in 1 .. m /\ i + 1 \in 0 .. m /\ (i + 1) - 1 = i
OBVIOUS

(* The invariant is inductive.                                               *)
LEMMA ListInitial == ListInit => ListInv
<1>. SUFFICES ASSUME ListInit PROVE ListInv
  OBVIOUS
<1>1. /\ basepath \in Directories /\ ent = 0 /\ entry_idx = 0 /\ list_pc = "entry"
      /\ listing = Null /\ b \in Blank /\ channel \in Blank
  BY DEF ListInit, Blank
<1>2. Len(basepath) \in Nat
  BY <1>1, DirectoryTypes
<1>3. Listed(basepath, listing, 0)
  <2>1. IsObject(listing) /\ Gathered(listing, Member(Letter.files)) = Empty("array")
    BY <1>1, EmptyTrees DEF IsObject, Gathered
  <2>2. Directs(basepath, 0) = 0
    BY DirectsStep
  <2>. QED BY <2>1, <2>2, EmptyArray DEF Listed
<1>. QED BY <1>1, <1>2, <1>3 DEF ListInv

LEMMA ListStep == ListInv /\ [ListNext]_listVars => ListInv'
<1>. SUFFICES ASSUME ListInv, [ListNext]_listVars PROVE ListInv'
  OBVIOUS
<1>0. /\ basepath \in Directories /\ Len(basepath) \in Nat /\ ent \in 0 .. Len(basepath)
      /\ channel \in Blank
      /\ \A i \in 1 .. Len(basepath) :
            /\ \A info \in basepath[i].info : HasPaths(info) /\ basepath[i].info = {info}
            /\ Len(basepath[i].subs) \in Nat /\ DOMAIN basepath[i].subs = 1 .. Len(basepath[i].subs)
            /\ \A j \in 1 .. Len(basepath[i].subs) : \A meta \in basepath[i].subs[j].meta :
                  HasPaths(meta) /\ basepath[i].subs[j].meta = {meta}
  BY DirectoryTypes DEF ListInv
<1>1. CASE SkipEntry
  <2>1. /\ list_pc = "entry" /\ ent < Len(basepath) /\ ~basepath[ent + 1].dir
        /\ ent' = ent + 1 /\ entry_idx' = entry_idx + 1
        /\ UNCHANGED <<basepath, sub_ent, listing, b, channel, list_pc>>
    BY <1>1 DEF SkipEntry
  <2>2. entry_idx = ent /\ b \in Blank /\ Listed(basepath, listing, ent)
    BY <2>1 DEF ListInv
  <2>3. Listed(basepath, listing, ent + 1)
    BY <1>0, <2>1, <2>2, ListedSkip
  <2>. QED BY <1>0, <2>1, <2>2, <2>3 DEF ListInv
<1>2. CASE OpenEntry
  <2>. DEFINE entry == basepath[ent + 1]
              named == Assign(Assign({b}, Letter.idx, IntValue(entry_idx)), Letter.path, StringValue(entry.name))
              filled == UNION {UNION {Assign(named, Letter.bit_state, bits) :
                                          bits \in Nested(info, Letter.info, Letter.bit_state)} :
                               info \in entry.info}
  <2>1. /\ list_pc = "entry" /\ ent < Len(basepath) /\ entry.dir
        /\ IF entry.info # {} /\ filled = {}
           THEN list_pc' = "thrown" /\ UNCHANGED b
           ELSE b' \in (IF entry.info = {} THEN named ELSE filled) /\ list_pc' = "sub entry"
        /\ ent' = ent + 1 /\ sub_ent' = 0
        /\ UNCHANGED <<basepath, listing, channel, entry_idx>>
    BY <1>2 DEF OpenEntry
  <2>2. entry_idx = ent /\ b \in Blank /\ Listed(basepath, listing, ent)
    BY <2>1 DEF ListInv
  <2>3. ent + 1 \in 1 .. Len(basepath) /\ ent + 1 \in 0 .. Len(basepath) /\ (ent + 1) - 1 = ent
    BY <1>0, <2>1, NextWithin
  <2>4. CASE list_pc' = "thrown"
    BY <1>0, <2>1, <2>3, <2>4 DEF ListInv
  <2>5. CASE b' \in (IF entry.info = {} THEN named ELSE filled) /\ list_pc' = "sub entry"
    <3>1. \/ entry.info = {} /\ b' \in named
          \/ \E info \in entry.info : HasPaths(info) /\ entry.info = {info} /\
                \E bits \in Nested(info, Letter.info, Letter.bit_state) :
                    b' \in Assign(named, Letter.bit_state, bits)
      <4>1. CASE entry.info = {}
        BY <2>5, <4>1
      <4>2. CASE entry.info # {}
        <5>1. PICK info \in entry.info : \E bits \in Nested(info, Letter.info, Letter.bit_state) :
                    b' \in Assign(named, Letter.bit_state, bits)
          <6>. DEFINE states(info) == Nested(info, Letter.info, Letter.bit_state)
                      set(bits) == Assign(named, Letter.bit_state, bits)
                      sets(info) == UNION {set(bits) : bits \in states(info)}
          <6>1. b' \in UNION {sets(info) : info \in entry.info}
            <7>1. b' \in filled
              <8>. HIDE DEF named, filled
              <8>. QED BY <2>5, <4>2
            <7>. QED BY <7>1
          <6>. HIDE DEF named, entry, set, states
          <6>2. PICK info \in entry.info : b' \in sets(info)
            <7>. HIDE DEF sets
            <7>. QED BY <6>1
          <6>3. PICK bits \in states(info) : b' \in set(bits)
            BY <6>2
          <6>. QED BY <6>2, <6>3 DEF states, set
        <5>. QED BY <1>0, <2>3, <5>1
      <4>. QED BY <4>1, <4>2
    <3>2. Recording(entry, entry_idx, 0, b')
      <4>. HIDE DEF entry
      <4>. QED BY <2>2, <3>1, RecordingStart
    <3>3. 0 \in 0 .. Len(entry.subs)
      BY <1>0, <2>3
    <3>. QED BY <1>0, <2>1, <2>2, <2>3, <2>5, <3>2, <3>3 DEF ListInv
  <2>. QED BY <2>1, <2>4, <2>5
<1>3. CASE ReadSubEntry
  <2>. DEFINE entry == basepath[ent]
              n == sub_ent
              sub == entry.subs[n + 1]
              filled == IF sub.meta = {} THEN {channel}
                        ELSE UNION {ChannelOf(channel, entry, sub, meta) : meta \in sub.meta}
  <2>1. /\ list_pc = "sub entry" /\ n < Len(entry.subs)
        /\ \/ ~sub.dir /\ UNCHANGED <<b, channel, list_pc>>
           \/ sub.dir /\ filled = {} /\ list_pc' = "thrown" /\ UNCHANGED <<b, channel>>
           \/ sub.dir /\ UNCHANGED list_pc /\ \E w \in filled :
                  b' \in AppendTo(b, Letter.channels, w) /\ channel' \in Clear(w, <<>>)
        /\ sub_ent' = n + 1
        /\ UNCHANGED <<basepath, ent, listing, entry_idx>>
    BY <1>3 DEF ReadSubEntry
  <2>2. /\ ent \in 1 .. Len(basepath) /\ entry.dir /\ entry_idx = ent - 1
        /\ n \in 0 .. Len(entry.subs)
        /\ Recording(entry, ent - 1, n, b) /\ Listed(basepath, listing, ent - 1)
    BY <2>1 DEF ListInv
  <2>3. /\ Len(entry.subs) \in Nat /\ n \in Nat
        /\ n + 1 \in 1 .. Len(entry.subs) /\ n + 1 \in 0 .. Len(entry.subs)
        /\ \A meta \in sub.meta : HasPaths(meta) /\ sub.meta = {meta}
    <3>1. Len(entry.subs) \in Nat
      BY <1>0, <2>2
    <3>2. n \in Nat /\ n + 1 \in 1 .. Len(entry.subs) /\ n + 1 \in 0 .. Len(entry.subs)
      <4>. HIDE DEF entry, n
      <4>. QED BY <2>1, <2>2, <3>1, NextWithin
    <3>. QED BY <1>0, <2>2, <3>1, <3>2
  <2>4. CASE ~sub.dir /\ UNCHANGED <<b, channel, list_pc>>
    <3>1. Recording(entry, ent - 1, n + 1, b)
      <4>. HIDE DEF entry, n
      <4>. QED BY <2>2, <2>3, <2>4, RecordingSkip
    <3>. QED BY <1>0, <2>1, <2>2, <2>3, <2>4, <3>1 DEF ListInv
  <2>5. CASE list_pc' = "thrown" /\ UNCHANGED <<b, channel>>
    BY <1>0, <2>1, <2>5 DEF ListInv
  <2>6. ASSUME sub.dir, UNCHANGED list_pc, NEW w \in filled,
               b' \in AppendTo(b, Letter.channels, w), channel' \in Clear(w, <<>>)
        PROVE  ListInv'
    <3>1. IsObject(w) /\ ExpectedChannel(entry, sub, w)
      <4>1. CASE sub.meta = {}
        <5>1. w \in Blank
          BY <1>0, <2>6, <4>1
        <5>. QED BY <4>1, <5>1, EmptyTrees DEF Blank, IsObject, ExpectedChannel
      <4>2. CASE sub.meta # {}
        <5>1. PICK meta \in sub.meta : w \in ChannelOf(channel, entry, sub, meta)
          BY <2>6, <4>2
        <5>2. IsObject(w) /\ w \in ChannelOf(Null, entry, sub, meta)
          <6>. HIDE DEF entry, sub
          <6>. QED BY <1>0, <2>3, <5>1, ChannelPlain
        <5>. QED BY <4>2, <5>1, <5>2 DEF ExpectedChannel
      <4>. QED BY <4>1, <4>2
    <3>. HIDE DEF filled
    <3>2. IsTree(w) /\ channel' \in Blank
      BY <2>6, <3>1, OpenedObject, ClearTree DEF Blank
    <3>3. Recording(entry, ent - 1, n + 1, b')
      <4>. HIDE DEF entry, n
      <4>. QED BY <2>2, <2>3, <2>6, <3>1, <3>2, RecordingGather
    <3>. QED BY <1>0, <2>1, <2>2, <2>3, <2>6, <3>2, <3>3 DEF ListInv
  <2>. QED BY <2>1, <2>4, <2>5, <2>6
<1>4. CASE CloseEntry
  <2>1. /\ list_pc = "sub entry" /\ sub_ent = Len(basepath[ent].subs)
        /\ listing' \in AppendTo(listing, Letter.files, b) /\ b' \in Clear(b, <<>>)
        /\ entry_idx' = entry_idx + 1 /\ list_pc' = "entry"
        /\ UNCHANGED <<basepath, ent, sub_ent, channel>>
    BY <1>4 DEF CloseEntry
  <2>2. /\ ent \in 1 .. Len(basepath) /\ basepath[ent].dir /\ entry_idx = ent - 1
        /\ Recording(basepath[ent], ent - 1, sub_ent, b) /\ Listed(basepath, listing, ent - 1)
    BY <2>1 DEF ListInv
  <2>3. ent - 1 \in Nat /\ (ent - 1) + 1 = ent
    BY <1>0, <2>2
  <2>4. Expected(basepath[ent], ent - 1, b)
    BY <1>0, <2>1, <2>2, RecordingExpected
  <2>5. IsTree(b) /\ b' \in Blank
    <3>1. IsObject(b)
      BY <2>2 DEF Recording
    <3>. QED BY <2>1, <3>1, OpenedObject, ClearTree DEF Blank
  <2>6. Listed(basepath, listing', ent)
    <3>. DEFINE m == ent - 1
    <3>1. m \in Nat /\ m + 1 = ent /\ Listed(basepath, listing, m) /\ Expected(basepath[m + 1], m, b)
          /\ basepath[m + 1].dir
      BY <2>2, <2>3, <2>4
    <3>. HIDE DEF m
    <3>2. Listed(basepath, listing', m + 1)
      BY <2>1, <2>5, <3>1, ListedGather
    <3>. QED BY <3>1, <3>2
  <2>. QED BY <1>0, <2>1, <2>2, <2>3, <2>5, <2>6 DEF ListInv
<1>5. CASE AnswerList
  <2>1. /\ list_pc = "entry" /\ ent = Len(basepath)
        /\ listing' \in SetMember(listing, <<>>, Letter.cmd, StringValue(Letter.cmd))
        /\ list_pc' = "answered"
        /\ UNCHANGED <<basepath, ent, sub_ent, b, channel, entry_idx>>
    BY <1>5 DEF AnswerList
  <2>2. Listed(basepath, listing, ent)
    BY <2>1 DEF ListInv
  <2>3. Listed(basepath, listing', ent)
    BY <2>1, <2>2, ListedAnswer
  <2>. QED BY <1>0, <2>1, <2>3 DEF ListInv
<1>6. CASE UNCHANGED listVars
  BY <1>6 DEF listVars, ListInv
<1>7. CASE OpenDirFails
  BY <1>7 DEF OpenDirFails, ListInv
<1>. QED BY <1>1, <1>2, <1>3, <1>4, <1>5, <1>6, <1>7 DEF ListNext

(* What has been answered is the list of every entry.                        *)
LEMMA ListOwn == ListInv => OwnEntries
<1>. SUFFICES ASSUME ListInv, list_pc = "answered" PROVE OwnEntries
  BY DEF OwnEntries
<1>. DEFINE key == Member(Letter.files)
            n == Len(basepath)
            files == CHOOSE w \in Get(listing, <<>>, Letter.files) : TRUE
            a == Gathered(listing, key)
            m == Directs(basepath, n)
<1>1. n \in Nat /\ DOMAIN basepath = 1 .. n
  BY DirectoryTypes DEF ListInv
<1>2. /\ IsObject(listing) /\ IsArray(a, m)
      /\ \A i \in 1 .. n : basepath[i].dir =>
            Expected(basepath[i], i - 1, Child(a, Item(Directs(basepath, i) - 1)))
  BY DEF ListInv, Listed
<1>3. files = IF HasChild(listing, key) THEN a ELSE Null
  BY <1>2, GetOne DEF Gathered
<1>. HIDE DEF key, a, files, m, n
<1>4. m \in Nat /\ \A i \in 1 .. n : basepath[i].dir => Directs(basepath, i) \in 1 .. m
  BY <1>1, DirectsStep, DirectsBelow DEF m
<1>5. ~HasChild(listing, key) => m = 0
  <2>. SUFFICES ASSUME ~HasChild(listing, key) PROVE m = 0
    OBVIOUS
  <2>1. a = Empty("array")
    BY DEF Gathered, a
  <2>. QED BY <1>2, <2>1, EmptyArray, ArraySize
<1>6. Size(files, <<>>) = m
  <2>1. CASE HasChild(listing, key)
    BY <1>2, <1>3, <2>1, ArraySize
  <2>2. CASE ~HasChild(listing, key)
    <3>1. Size(files, <<>>) = 0
      BY <1>3, <2>2, EmptyTrees DEF Size
    <3>. QED BY <1>5, <2>2, <3>1
  <2>. QED BY <2>1, <2>2
<1>7. ASSUME NEW i \in 1 .. n, basepath[i].dir
      PROVE  Expected(basepath[i], i - 1, Items(files)[Directs(basepath, i)])
  <2>. DEFINE c == Directs(basepath, i)
  <2>1. c \in 1 .. m
    BY <1>4, <1>7
  <2>2. HasChild(listing, key)
    BY <1>4, <1>5, <2>1
  <2>3. Items(files)[c] = Child(a, Item(c - 1))
    <3>. HIDE DEF c
    <3>. QED BY <1>2, <1>3, <2>1, <2>2, ArrayItems
  <2>. QED BY <1>2, <1>7, <2>3
<1>. QED BY <1>1, <1>6, <1>7 DEF OwnEntries, files, m, n

(* Each recording in the list is described by its own files, whatever        *)
(* directories there are.                                                    *)
THEOREM ListOwnEntries == ListSpec => []OwnEntries
<1>1. ListInit => ListInv
  BY ListInitial
<1>2. ListInv /\ [ListNext]_listVars => ListInv'
  BY ListStep
<1>3. ListInv => OwnEntries
  BY ListOwn
<1>. QED BY <1>1, <1>2, <1>3, PTL DEF ListSpec
=============================================================================
