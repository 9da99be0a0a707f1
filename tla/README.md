# TLA+ specifications of tsender

tsender plays recorded channels onto the network. A UDP command (`play_start`,
`play_seek`, `play_close`, ...) reaches one command thread; for every output
channel that thread owns a demuxer thread, which reads the recording, and a
sender thread, which paces the packets and multicasts them. The two meet in a
ring of packets. The models below are about what these threads do to each
other.

## 1. The system

| component | state | operations | who runs them |
|---|---|---|---|
| `CQueue`, video ring (`queue.cpp`) | slots, read and write position, fill counter, `m_bEnable`, `m_start_pts`, `m_mutex` | `PutVideo`, `Clear`, `GetVideo`, `RetVideo` | demuxer thread puts and clears, sender thread gets and returns |
| `CQueue`, audio ring | `m_e[]`, two positions, `m_nAudio` | `PutAudio`, `GetAudio`, `RetAudio` | the same two threads of an audio channel |
| `PThread` (`misc.cpp`) | `m_eState`, `m_bExit`, the thread | `Start`, `StartPoint`, `Terminate`, `Join`, `~PThread` | creator, the thread itself, destroyer |
| `CDemuxer` (`demuxer.cpp`) | file index, seek request (`m_nMoveIdx`, `m_nSeekFrame`, `m_IsMove`), reverse, pause, speed, `m_seek_pts` | `Demux` loop, `SeekFrame`, `Reverse`, `SetMoveSec`, setters | its own thread; setters from the command thread |
| `CSender` (`sender.cpp`) | pacing clock, the packet in hand, `m_queue`, `m_fmt_ctx` | `Run`, `send_bitstream`, `send_audiostream` | its own thread |
| `CCommMgr` (`comm.cpp`) | `m_CDemuxer[]`, `m_nChannel`, `m_bIsRunning` | `RX` (the dispatcher), `TX`, `Delete` | command thread; destructor on the main thread |
| `CCore`, `main` | exit flags, condition variable | start-up, idle thread, shutdown | main thread, signal handler |
| jsoncpp (`jsoncpp.cpp`, `json/`) | a tree of values; the reader's stack, its `lastValue_` and its errors; the writer's `childValues_` | `Reader::parse`, `Value`'s access and conversions, `writeString` | command thread, demuxer threads, main at start-up |
| `GetOutputFileList` (`misc.cpp`) | the entry, the channel and the two documents it reuses from one directory to the next | one pass over `file_dst` | command thread |
| unused | | `CSwitch` (not built), `CThumbnail` (no object made), `CMyList`, `CCommBase`, base64 | |

How they interact: the command thread calls setters of `CDemuxer` without any
lock; the demuxer calls `CQueue::PutVideo` and `CSender::SetAVFormatContext`;
the sender calls `GetVideo` and `RetVideo`; destructors run on the command
thread, on the main thread, or, when a channel has no recording, on the
demuxer thread (`delete this`).

What is hard about it, and what correct means:

* **The video ring.** `Clear` runs without the mutex that the other operations
  hold, and several fields are tested before the mutex is taken. Correct: the
  sender sends what the demuxer put, in order, once; nothing is stored over a
  packet not yet sent; after a seek nothing old is left; the two threads never
  wait for each other.
* **The life of a channel.** Objects are deleted while threads that use them
  run. Correct: no thread's own object is freed under it, no thread is joined
  twice, `play_close` returns, and what is touched after deletion is known.
* **Seek, move and reverse in `Demux`.** Three fields are written by another
  thread one after the other. Correct: after a seek playback goes on in the
  file and at the frame asked for; the file index stays inside the list or
  playback ends.
* **Pacing.** Correct: packets leave in the order of their time stamps, not
  before they are due, and a seek restarts the clock.
* **Fragmentation.** Correct: the fragments of a frame are numbered 1 to the
  announced total and carry the announced size.
* **The audio ring.** The same two threads, but `PutAudio` tests and allocates
  outside the mutex. Correct: blocks are sent in order and their memory is freed
  once.
* **Files that come and go.** The sender reads the time base through a pointer
  to what the demuxer closes at the end of each file. Correct: it never reads a
  closed one; what is opened is freed, whatever fails to open.
* **Commands and shutdown.** Channels load, end and delete themselves while
  commands are applied to them one after the other, and the main thread deletes
  them while commands are still served. Correct: the channels of a recording stay
  one player, commands use only what is there, every command ends, and a signal
  ends the process.
* **JSON.** Every command, setting and answer passes through it. Correct: what
  is accepted is JSON and means what it says, numbers at the limit of their type
  included; what is written is read back as the same value; the list of
  recordings says of each one what its own files say.

`PROJECT.json` lists the hazards one by one, each with its line and with the
properties that cover it.

## 2. Modules

| module | what it is |
|---|---|
| `VideoQueue` | the video ring with the demuxer and the sender thread |
| `VideoChannel` | the abstract specification: a bounded FIFO channel that a seek empties |
| `VideoQueueImpl` | the refinement mapping from `VideoQueue` to `VideoChannel` |
| `VideoQueueProofs` | the ring's inductive invariant and every safety property, and the refinement, proved |
| `AudioQueue` | the audio ring, with the memory of its slots |
| `ChannelLife` | creation, use and destruction of a channel; `PThread` |
| `MemoryProofs` | what becomes of the memory the threads share: the safety properties of `AudioQueue` and of `ChannelLife`, proved |
| `Playlist`, `MCPlaylist`, `PlaylistProofs` | which file and frame the demuxer of a video channel reads next, under `play_seek`, `play_reverse`, `play_pause`; all its safety properties, proved |
| `AudioPlay`, `MCAudioPlay`, `AudioPlayProofs` | the same of an audio channel |
| `FormatContext`, `MCFormatContext`, `FormatContextProofs` | what the demuxer opens and closes for each file, against the sender that reads through its pointer; both safety properties, proved |
| `Pacing` | when the sender sends: its clock against seeks and packets |
| `Bitstream` | how a frame is cut into datagrams |
| `Sender`, `SenderProofs` | `Pacing` and `Bitstream` composed: `CSender::Run` with its calls of `send_bitstream`; the safety properties of all three, and that it implements both parts, proved |
| `Player`, `PlayerProofs` | demuxer, ring and sender of one channel composed, each in coarse steps; both safety properties, proved |
| `Comm`, `MCComm` | the command thread over all its channels |
| `Shutdown`, `MCShutdown` | the process: `main`, `CCore`, the signal handler and `~CCommMgr` around `Comm` |
| `CommProofs` | from the datagram to the process: the safety properties of `JsonReader`, of `FileList`, of `Comm` (but `DeletesNoOther`, which fails) and of `Shutdown`, proved |
| `JsonValue` | `Json::Value`: the tree, its operations and its conversions |
| `JsonReader` | `Json::Reader`, the parser, lexeme by lexeme |
| `JsonWriter` | `Json::writeString` with the settings of `comm.cpp` |
| `JsonGrammar` | what the reader and the writer promise: the value a text denotes |
| `FileList` | `GetOutputFileList`, the answer to `get_play_list` |
| `MCJson` | documents, words and directories for TLC |

`Sender` extends `Pacing` and `Bitstream`; `Shutdown` extends `Comm`;
`JsonWriter` extends `JsonReader`, which like `FileList` extends `JsonValue`;
`MCJson` composes them. Operators introduced by a comment "A mutant" are the
form an action would have after a plausible bug; the run then fails.

### VideoQueue

One action per access that another thread can see. `PutCompare` ..
`PutEnable` are `PutVideo` line by line: the comparison of the seek points, the
four stores of `Clear` (slot by slot, then `m_nReadPos`, `m_nWritePos` with
`m_bEnable`, `m_nPacket`), the store of `m_start_pts`, the unlocked test of the
fill level, the section under the mutex, and the unlocked `m_bEnable`.
`GetStartPts` .. `GetRaced` are `GetVideo`, `RetLock` .. `RetCount` are
`RetVideo` with its two read-modify-writes taken apart, since `Clear` stores to
the same fields without the mutex. A section under `m_mutex` is one step where
only the other locked sections could interfere.

`m_nReadPos++` in `RetVideo` is a load into `s_reg` and a store, and so is
`m_nPacket--`. `m_nWritePos` and `m_bEnable` are written by the demuxer thread
only. Where `Clear` releases a slot that the sender has already found full
(`GetRaced`), the copy is either empty or `Torn`; this is the undefined
outcome of the race.

A packet is abstracted to the seek after which it was read and its number after
it. `d_pc = "read"` stands for the part of `Demux` between two packets; there a
seek may arrive (`SeekAndRead`), which gives the next packet a new seek point.
Seek points are ordinals: two different seeks have different ones (equal
targets are in `Player`). `puts`, `takes` and
`crossed` are history variables; `crossed` says that the last `Clear` ran while
the sender was between finding a packet and returning it. In that case the
order and the count are really lost in the code -- the read position may end
one slot ahead of the first packet -- so the order properties are stated for
the other case, while `FlushComplete`, `CountBounds` and `SeekNotAhead` hold in
both.

### VideoChannel and VideoQueueImpl

`VideoChannel` is what the demuxer and the sender may rely on: `Put` appends
while there is room, the packet in the consumer's hand included; `Find`,
`Take`, `Release` and `Return` take the oldest; `BeginFlush` .. `EndFlush` is a
seek. A flush that meets a busy consumer makes the channel `broken` until the
next flush that meets an idle one. The mapping reads the channel's contents off
the ring, from the first live slot to the write position.

### ChannelLife

Three threads -- `comm`, `demux`, `send` -- and three objects. `PlayStart`,
`StartSender`, `SetQueue` and `StartDemuxer` are `play_start` with
`CDemuxer::Create`, in the order of the code (the sender thread runs before it
has a queue). The destructor actions take the thread that runs them as a
parameter, because `delete this` puts them on the demuxer's own thread, and
both threads may run them at once. `this` names the object being destroyed:
first the sender, then the demuxer. `Terminate`, `Join` and `PThreadExit` are
`PThread`. The workers' steps name the objects they use; `Use` records the use
of one that is not live. Such a use may kill the process; otherwise the thread
goes on with what the memory last held. Thread creation is taken to succeed.
Whether `CSender::SetSocket` succeeds is a choice: without it the sender's
thread is never started.

A channel is closed and opened again without end; the model opens the next one
when both threads of the last one are gone. The channels of one `play_start`
are independent of each other here, so one is modelled; `Comm` has them all.

### Playlist

The frames of a recording are numbered through, as the time stamps of its files
are; a time stamp is the number of its frame, so `pkt.pts`, `m_seek_pts`,
`m_reverse_pts` and `m_file_first_pts` are frame numbers. `MoveIndex`,
`MoveFrame` and `MoveFlag` are `SetMoveSec`'s three stores. `OpenFile` is the
file loop's test with the opening of a file; `Leave` is a `break` with the `i++`
that follows. `TakeMove` clears `m_IsMove` and reads `m_nMoveIdx` in two steps,
`SeekFrame` and `SeekServed` are the call and the store `m_nSeekFrame = 0` after
it. `Keyframe` is what `avformat_seek_file` with an upper limit does (external):
the last keyframe not after the target, and a failure that leaves the position
when there is none in the file. `m_reverse_count` matters only as "above 0".
`m_reverse_pts` is unsigned in the code; the value below 0 that the model gives
it instead is one that the library refuses as negative, too.

`lost`, `unlisted`, `cause`, `turned`, `next` and `prev` are history variables:
whether a store of the command thread fell between the demuxer's tests (or the
seek was to second 0, which the code does not serve), whether it came before the
list of files, why the file was opened, and what was put last. `PutVideo` is taken
to accept the packet in the end, which is `Delivery` of `VideoQueueImpl` with its
premise; `m_bExit` is in `ChannelLife`. Files open and
have at least one frame; the channel is one of the first six, the only ones
`SeekFrame` and `Reverse` do anything for.

### Pacing

The sender's loop for a video channel. `Clock` is lines 193 to 203, with the
order of the code: the time is taken, then `m_begin` may be reset. `GetStartPts`
and `GetTestEnable` are the two unlocked steps of `GetVideo`; `Take` is the rest
of it with the test of `skip_cnt`. The ring is a FIFO queue that a seek empties
-- the abstract channel that `VideoQueueProofs` proves it to implement, for
seeks that do not overlap a `GetVideo .. RetVideo` -- with the store of its seek
point and of `m_bEnable` as steps of their own. Time and time stamps are counted
in frames; a step of the sender takes any time, `Tick` in between. Packets and
seeks carry the number of the seek (history) because two seeks may have the same
seek point. Forward play only.

### Bitstream

`send_bitstream` on frame after frame: the computation of the total, then one
datagram per step, each of which may fail and end the call. `wire` is what was
sent of the present frame.

### AudioQueue

`PutTest`, `PutNew` and `PutStore` are `PutAudio`: the test of the fill level and
the allocation for the slot at the write position run without the mutex.
`GetTest` .. `GetFind` are `GetAudio`, `RetRelease` and `RetFree` are `RetAudio`,
`Clear` frees what is left when the sender has gone. `memory` says of each slot
whether its block is live, freed or was never there. Nothing in the program
calls `Enable` for an audio queue, so as the program is, nothing is ever taken
out (`AudioPlay` says what comes of that); `EnableCalled` has the ring checked
as its interface has it.

### AudioPlay

The audio branch of `Demux`, in the steps of `Playlist`: the command thread's three
stores against `TakeMove`, `Rebase` (the frame asked for, less the length of the
open file times its index), `Seekg`, `Read`, `Put`. A block is a frame number, or
`Junk` when it was read past the end. `m_IsAudioRead` stays set after a
successful `PutAudio`, which returns 0 either way.

### FormatContext

Addresses are numbers, one for each context allocated; `m_fmt_ctx` begins as
whatever `new` left there. Opening fails in three places (`OpenFile`,
`SetAVFormatContext`, `OpenFilter`), each with what the code then does. The
sender reads `streams[0]` once, in `LoadStream` and `LoadTimeBase`, for its first
packet. `stale` records a read through a pointer that is not open. Which file
comes next is any, as `Playlist` decides that. A packet with a negative time
stamp spins in `LeaveLoop`.

### Player

One step for each turn of the demuxer, of the sender and of the clock. Seek
points may be equal and time stamps may fall here; seeks to second 0 set no
point. The machine keeps up: the clock ticks only when nothing else can happen,
so what is sent in one tick is sent at once (`burst`). The recording is one file.
`odd` collects why a burst may happen, `same` the seeks the ring cannot tell
from the one before. Reverse play counts as a cause for a packet that was read in
reverse, too, when the direction has been switched back before it is put.

### Sender

`TakeAndCall` takes a packet and enters `send_bitstream`, `Sending` is one
datagram or the failure of one, `Sent` is the return to the loop, which gives the
packet back as if it had been sent. Ticks, seeks and `PutVideo` fall anywhere
between them.

### Comm

`RX` takes a datagram (`Datagram`), and each command is one action or a loop
with a step for each channel: `PlayStart`, `CreateChannel`, `SetEach`,
`DeleteChannel` with `JoinChannel`. `Load` and `End` are the channels' own
threads; a channel without a recording becomes `"gone"`, its pointer kept.
`touched` records the channels a command used while `gone`; that may kill the
process (`dead`). A value of the wrong type throws (`Throw`), which ends the
process as no one catches it; `Unrated` are the channels whose settings lack
`num`. `play_delete` removes recordings, all of them for the empty name. The
text of the answers is in `FileList` and `JsonWriter`. A message is its command,
its target and whether its fields have the type the code asks for. Receiving
times out in `NoDatagram`.

### Shutdown

`main` (`StartThread` .. `Wake`, `DeleteStep` .. `Join`), the threads of `CCore`
and `CCommMgr` with `m_eState` and `m_bExit`, and signals, against every action of
`Comm`. `~CCommMgr` raises `m_bExit`, deletes the channels and only then waits for
the command thread, which may serve commands all the while; `late` records
which. `SetSocketFails` is a start that ends in `exit()`.

### JsonValue, JsonReader, JsonWriter, JsonGrammar, FileList

A value is a function from paths to nodes. `JsonReader` reads one lexeme per
action, with an explicit stack for the recursion of `readValue`, `readObject` and
`readArray`; the names of the actions are the places in those functions.
`Skip` is `recoverFromError`, one lexeme at a time. A lexeme carries what it says:
the digits of a number, the bytes and escapes of a string; `DecodeNumber` and
`DecodeString` are what the code computes from them. Integers are short --
`MaxInt` for 2^31 - 1, `MaxLargestInt` for 2^63 - 1, doubles exact up to
`DoubleExact` -- but end, round and wrap at the same places relative to each
other. An operation that asserts, and so throws, is a set that is empty there.
`ReaderStart` begins a document in a root that still holds the one before
(`OldRoots`). `ReaderAssumption` says that such a root is a value and that the
digits of a number are digits; `ValueAssumption` that the types end at bounds
related as in the code, with room for one digit at least in the largest.

`Denote` is the reference: it cuts the text of a container at its own commas and
needs no stack. `WritesBack` reads the writer's text by `Denote`.

The reader departs from JSON, and the model with it: a comma may follow the last
member if the object's last name is the empty string, comments may stand
between tokens, a sign alone reads as 0, and behind a member and a comment any
token passes for the comma (`Loose`; nothing is said of the value of such a
text). Holes in an array are written as null. Integers are told apart as signed
and unsigned by their size only.

`FileList` goes through `file_dst` as `readdir` gives it: `OpenEntry` reads
`info.json`, `OpenDirFails` is a recording whose directory does not open (the
process dies, as nothing looks at what `opendir` returned), `ReadSubEntry` one
channel's `meta.json`, `CloseEntry` appends the recording; `b`, `channel` and
`entry_idx` (the code's `idx`) live across entries as in the code. `Assign` is
`value["x"] = w`, `AppendTo` is `value["x"].append(w)`, both with the nulls that
`[]` creates on the way. `ListAssumption` says that directories are sequences and
that a document which parses is one tree.

## 3. Runs

| run | bounds | checks |
|---|---|---|
| `video_channel` | 3 slots, 7 packets per seek point, 2 seeks | `InOrder`, `FlushComplete`, `SeekNotAhead`, `ImplementsChannel`, `Delivery` |
| `channel_life` | none needed: the model is finite | `TakenApart` (`LifeTypeOK`, `JoinedBeforeFree`, `JoinedOnce`, `DamageKnown`), `CloseCompletes` |
| `playlist` | files of 3, 2 and 3 frames, 2 frames a second, keyframe every 2; seconds 0, 2, 3, 4; 2 seeks, 2 other commands | `Position` (`TypeOK`, `FindsFile`, `ClockNotAhead`), `RightFile`, `Landed`, `InSequence` (`NoGap`, `NeverForward`), `Ends` |
| `sender` | keyframe every 3, 2 slots, seek points 0, 2, 5, 3 seeks, 9 frames, 4 ticks; frames of 1 or 2 datagrams of 2 bytes | `Paced`, `NothingBeforeSeek`, `WaitIsShort`, `Announced` |
| `comm` | 2 channels, 2 recordings of which one lacks a channel, one speed, one second; the second channel lacks `num` | `SlotsMatch`, `ChannelsAgree` (`InStep`, `OneRecording`), `DamageKnown`, `EveryCommandEnds` |
| `delete_guard` | the same, fewer commands | `DeletesNoOther`, violated |
| `shutdown` | 2 channels, 1 recording; any number of signals | `EndInv` (`MainTypeOK`, `DestroyedOnce`, `NoneLeft`), `ServesOnLiveManager`, `SignalEnds` |
| `audio_queue` | 3 slots, 7 blocks | `InOrder`, `RingInv` (`TypeOK`, `Counted`, `NoLeak`), `RaceNeedsFullRing` |
| `audio_play` | files of 2, 2 and 1 blocks; 2 seeks to blocks 0, 3, 4; 2 settings; a ring of 2 | `BlockInv` (`TypeOK`, `OneBlock`), `Landed`, `ExitEnds` |
| `format_context` | 2 files of 3 packets, a ring of 2, 4 openings, 2 moves | `FirstPacketSafe`, `FilterInv` (`TypeOK`, `FilterReady`, `FilterFreed`), `ExitEnds` |
| `player` | 6 frames, 2 a second, keyframe every 3, a ring of 2; seconds 0, 1, 2; 3 seeks, 2 changes of direction | `RingInv` (`TypeOK`, `Flushed`), `Spread`, `Shown` |
| `json` | documents of up to 8 lexemes of 12 kinds and of 10 of 7 kinds; numbers of up to 3 digits, strings of up to 2 characters of each kind; 2 directories with 2 channels; `MaxInt` 15, `MaxLargestInt` 127, `DoubleExact` 63 | `ReadsGrammar`, `PointersLive`, `RoundTrip`, `Numbers`, `OwnEntries` |

### Bounds, and why they are enough

*The rings.* Seven packets take the positions twice around a ring of three and
leave it full at any position; two seeks let a second `Clear` meet the damage
the first one left. For other sizes of the video ring see the proofs. Three slots
of the audio ring are one that is written, one that is read and one between.

*Playlists.* The seek points fall on the first and the last frame of a file,
between two keyframes, and past the end; two seeks are needed for one to meet
the service of another. In `audio_play` the last file is shorter than the ones
before, which is where the seek's arithmetic is wrong. In `format_context` the
files are one packet longer than the ring, the shortest that the property is
about; four openings reach both files, one of them twice, and past a move.

*The sender.* Three seeks take it forwards, back and forwards again, to seek points on
and off a keyframe, and four ticks let the clock run past the packets that are
there. A frame of one byte is a single datagram that is not full, one of four
bytes is a whole number of full ones. The proofs have every size.

*Commands.* Two channels are the fewest on which a loop over the channels can
stop half way, and where one recording can be there and another not. Speeds and
seconds only tell a changed setting from another one. The second channel has no
`num`, so that a `play_seek` dies between the channels: seeks that succeed are those
for which it is gone. That seeks, too, leave rated channels in step is in the proof,
and `play_speed_up` takes the same loop. In `shutdown` the settings
are left out, as only the slots matter.

*Player.* Three seeks are what it takes to go somewhere, away and back unseen. The
two groups of pictures are the fewest with a keyframe to come back to.

*JSON.* Eight lexemes are an object with a member and half of another, or three
containers deep, with an error and the recovery from it on each level; ten are
two members of the same name with a container as value. Three digits go past every scaled
bound. Strings have bytes of every length of UTF-8, broken ones, escapes of
either kind and both halves of a surrogate pair.

### What they show

`video_channel`: while no `Clear` falls between a packet being found and
returned, the ring is a FIFO queue and `PutVideo`'s test outside the mutex is
safe, because only the demuxer adds. With an overlap the fill counter is off by
at most one downwards, old packets still do not survive a seek, and the seek
point the sender is told is never newer than its packet. `Delivery` says that
nothing the demuxer puts stays in the ring for ever, as long as no `Clear` has
overlapped a `GetVideo` .. `RetVideo`; after an overlap nothing is promised, since
the read position may be one slot ahead of the packets.

`channel_life`: a channel with a recording frees a worker's object only after its
thread has ended, unless `Terminate` found the thread not yet in `StartPoint`
(`missed`); of the objects deleted early, only the queue and, by the demuxer,
the sender are still touched.

`playlist`: whichever way the stores of a seek fall between the demuxer's tests,
the file is the one that holds the frame last asked for (`RightFile`); the frame is
only when none fell in between (`Landed`): otherwise the request is served in the
file before the move, or overwritten by `m_nSeekFrame = 0`, and playback begins at
the front of the file. A seek that comes before the demuxer has copied the list of
files goes to the first file, whatever it asks for, without harm to the next one;
one that meets the list half copied may kill the process (`MoveTorn`). Whatever is
asked, playback ends, on the assumption that `PutVideo` takes every packet in the
end -- which is `Delivery`, and so granted only while nothing has crossed -- and
with that death counted as an end.

`sender`: packets are not sent early, though the clock is wrong for one turn after
each seek. `WaitIsShort` needs its premise: when `GetVideo` reports a seek point
without a packet, or a packet of a seek it has not reported, the sender compares
positions of two seeks, and waits until the clock has covered the distance.
`NothingBeforeSeek` needs its premise, too: a seek back to the point the sender
last saw, past one it did not see, is not noticed. A frame that breaks off is
never taken for a whole one.

`comm`: toggles and seeks leave all channels in step, those that are off or over
included. Once a channel has deleted itself for want of a recording, the
next command uses freed memory; no other command does. Of the ways in which a
command can kill the process the run meets all: that use, a value of the wrong type,
an empty target, and a seek in a channel without a rate. Others lie in other
models: a document nested too deeply (the parser throws), the use after free in
`ChannelLife`, the half copied list in `Playlist`, a directory that does not open in
`FileList`. `m_bIsRunning` only says that
the slots are filled, so a recording that is over is played again only after
`play_close`.

`delete_guard` is a finding: the comment at `comm.cpp:384` says of the guard
before `rm -rf` that the first character must not be `/` and that one character
alone is refused, to prevent accidental deletion. The guard looks at `file_dst/target`,
so that a `play_delete` without a target removes `file_dst` with every recording.

`shutdown`: a signal ends the process unless it falls between `main`'s test of
the flag and its wait (`missed`). Channels are destroyed once, although nothing
stops the command thread meanwhile, as long as it serves no command that uses
them (`late`); a `play_start` served then leaves channels behind.

`audio_queue`: the audio ring works but for one race, in which `PutAudio` allocates
for the slot whose memory `RetAudio` is about to free; that needs a full ring.
`audio_play`: of a whole recording one block reaches the ring, over and over. A
seek lands where it should if all files before have the length of the open one.

`format_context`: the sender reads the time base of an open context, as long as
every file has more packets than the ring has slots and no seek, move, end or
failure comes before its first packet. A move back to the first file leaks the
filter, and so does a file that does not open.

`player`: a seek empties the ring unless it ends where the last one did or is to
second 0; packets come all at once only after one of these, a seek back to
the point last seen, or reverse play; and a seek shows, unless it is to the last
group of pictures or `play_reverse` comes between.

`json`: the reader accepts JSON and nothing else, with the departures listed
above, and reports one error however many levels recover from it; `lastValue_`
points to something that is there at all times; numbers fall back to doubles
exactly where the integers end.

### Fairness

`VideoQueue`, `Player`, `ChannelLife`, `Playlist`, `AudioPlay`, `FormatContext`:
weak fairness of each thread as a whole. They are ordinary threads with bounded
sleeps, and no step waits for anything but a mutex that the other thread gives
back in a bounded number of its own steps. In `FormatContext` also of leaving the
loop that spins on a packet, since the test of `m_bExit` in it is repeated. No command
is ever promised, nor that commands stop; they are bounded in number by
constants. `Comm`: weak fairness of the command thread once it has a command,
and of each channel's loading and of its ending when told to (`m_bExit`) -- what
`ChannelLife` and the `ExitEnds` of the demuxers check; no datagram is promised.
`Shutdown`: of `main`, the command thread, the beginning and the end of each
thread, and the end of each channel told to. A signal is not promised. In
`Player` weak fairness of the clock says that time passes. `AudioQueue`,
`Sender` and `MCJson` state safety properties only.

*Deadlock* is checked in all runs but `player`, where the recording is over when
the bounded seeks are served, and `json`, where a document is. A process that died
takes the step `Dead`; a machine that is done has a step that says so.

## 4. Proofs

All of `VideoQueue`'s safety properties are proved with TLAPS for every ring of
at least two slots, every file length and every number of seeks
(`QueueAssumption`, which also says that the two special packets are distinct
and no packets). `Invariance` is the core. `InOrder` and `NoOverwrite` are not
inductive: they say nothing of the slots the sender has not reached. `IInv`
adds what they need:

* `SyncInv`: while nothing has crossed, either the ring holds exactly the
  packets `takes + 1 .. puts` in the slots from `First` on and no others
  (`RingInv`), or it is being emptied with the sender outside (`ClearInv`);
* `FillInv`: the demuxer's unlocked test of the counter stays true until it
  stores, as the other thread only lowers it;
* `CountInv`: in the crossed case, the counter plus what the sender still has
  to subtract is bounded by the slots that are filled, which keeps `FillInv`
  and `CountBounds` true;
* `SlotInv`, `SeekInv`, `SeekSeenInv`: no slot holds a packet of another seek
  except ahead of `Clear`'s loop counter;
* `MutexInv`: who holds the mutex, from the program counters.

Each conjunct has a step lemma (`TypeStep`, `MutexStep`, ...) with one case per
action; `NextIInv` puts them together. Small lemmas about positions
(`SlotAtNext`, `DistanceNext`, `DistanceInverse`) replace arithmetic modulo the
ring size.

`QueueImplementsChannel` proves the refinement: `ImplInit` for the initial
states, `ImplNext` with one case per action, each a step of `VideoChannel` or a
stutter. `IInvOpen` extracts from `IInv` what an open channel looks like
through the mapping; the `Batch` lemmas are about the sequence of packets
`takes + 1 .. puts`.

*The audio ring.* `Invariance` of `MemoryProofs` is the same for the audio
ring, where `m_nAudio` is read outside the mutex as well. `PlaceInv` says where
the full slots are; how far one slot is ahead of another is written with a
comparison (`Ahead`) instead of a remainder. `BlockInv` says which memory is a
block that nobody has freed, and holds until `raced`: then only `PlaceInv` is
left, which is why `InOrder` and `NoLeak` have that premise. `RaceOnlyWhenFull`
is an action property from the same invariant.

*The life of a channel.* `ChannelTakenApart` is about three threads, three objects
and no parameters, so TLC's run covers all of it; the proof says why it holds.
`ChannelInv` speaks of a channel with a recording, since one without deletes
itself on its own thread and nothing is promised of it. `StateInv` ties
`m_eState` and the place of each worker to each other; `OrderInv` says in which
order the command thread takes the channel down, and that it is past `Join` only
when the worker is gone or was missed by `Terminate`; `LiveInv` says which
objects are there at each of its places; `GoneInv` what may be used after. A
worker's step is reduced to its kind (what it does to its state and to the
objects it names) before the invariants are looked at, and the destructors on
the command thread are nine cases.

*Files and contexts.* `FilterInv` needs a count (`CountInv`): each opening of the
first file allocates at most one filter, so without a second opening there is
one. `FirstPacketSafe` is inductive only with the reason for it, `FirstFileInv`:
until the sender has looked at the context every packet read is still in the
ring, so a demuxer at the end of a file longer than the ring would have put more
than the ring takes. `Length[f] > MaxQueue` is exactly what that argument uses.

*The sender.* `NeverAheadOfClock` proves `Paced`, which speaks of one point in
the sender's loop, from `ClockInv`: from where the time is taken to where a packet
is sent, either packets are being skipped or the time in hand is not ahead of the
clock. `NothingBeforeSeek` and `WaitIsShort` take `SeekInv`: that the ring holds
frames in a row, of the present seek (`QueueInv`); what the sender was last told
and whether it noticed (`ToldInv`); that once it has, what is left to skip reaches
up to the seek point (`SkipInv`); and that the clock is at most two frames behind
a packet of the seek last told (`WaitInv`).

`AnnouncedRight` and `DatagramsPlaced` prove `Announced` and `Placed` for every
size of a frame and a datagram. `LoopInv` adds that the datagrams sent and the
`Fragments` of what remains make up the total; `FragmentsStep` is the arithmetic
behind it, from uniqueness of division with remainder.

`SenderIsPaced` and `SenderIsStream` prove that `Sender` implements `Pacing` and
`Bitstream`: every step of the composition is a step of each part or a stutter
(`StepIsPaced`, `StepIsStream`). The theorems after them carry the properties of
the parts over to it, so they hold while the clock runs and the demuxer seeks
between any two datagrams.

*The demuxer.* `FindsEveryFile` shows that the loop of `FindFileIndexFromFrame`
returns the file that holds the frame, for every list of files. That is an
induction; the library's induction theorems take a predicate, which the provers
cannot instantiate, so `SetInduction` states it for the set of numbers at which
the statement holds, and is proved from the well-foundedness of `<`.
`SeekReachesFile` proves `RightFile` from two facts that are inductive by
themselves. `LookedUpInv`: the index is that of the file of the frame last asked
for, or 0 without a list. `MovedInv`: a move ends at the index stored last,
because the flag is stored last by `SetMoveSec` and cleared before the index is
read, so whoever finds it down while the command thread is idle has read the last
index. For the other properties `IInv` says what the demuxer stands before at
each of its places: `FollowInv` and `BackInv` what the next packet of forward and
of reverse play is, `StoredInv` what a seek's three stores have left so far, and
`TakenInv` where a seek that was taken stands, on its way to the file (`Heading`)
or at the frame in it (`Serving`). `Landed` is what `Serving` has become when the
packet is read.

*The audio branch.* `OneBlockOnly` is short: `m_IsAudioRead` is set when the first
block is read and never cleared, so no other is read and the same one is put
again. `SeekReadsBlock` has a `TakenInv` of the same shape as the demuxer's, with
`Target` -- the frame less the length of the open file times its index -- for the
arithmetic that the code does and the premise of `Landed` makes right.

*The composition.* In `Player` the demuxer, the ring and the sender each keep a
seek point, and a seek passes through all three. `StaleInv` says which packets in
the ring are of an older seek, only those the ring could not tell apart (`Stale`),
which gives `RingInv`. `Spread` rests on `ClockInv`, the four phases of the
sender's clock: `Unstarted`, `Cleared` (the ring was emptied and the sender has
not seen it), `Begun` (the first packet after a seek went out) and `Running`. An
earlier form of `Spread` was not provable, and false with four changes of
direction: a packet read in reverse was put after the direction had been switched
back, and `odd` did not name reverse play as the cause. What the code does was
modelled as it is; the cause is now recorded.

*Commands and the process.* `CommProofs` proves the safety properties of `Comm`
for any number of channels the manager has room for (`CommAssumption`: 1 to 8),
any recordings and any commands. `SlotsMatch` and `InStep` speak of the moments
between two commands only; `SlotsInv` and `StepInv` follow the loops over the
channels in between: the slots before the index are done and those from it on are
not. `StepInv` also says that the settings already changed are those `Applied`
gives the others. `GoneInv` ties a channel that is gone to the missing recording.
`SlotsNotOverwritten` is an action property from the same invariant.

`ProcessInv` does the same for `Shutdown`, where `main` destroys channels while the
command thread goes on. Until then (`BeforeInv`) the invariant of `Comm` holds.
After it, unless a command that uses channels was served late, main is the
only one to touch them and joins each once (`OnceInv`), and what is left of them lies
ahead of the loop that destroys them (`EmptyInv`). `ServeInv` and `LifeInv` say
what the command thread serves and which threads and objects are alive. `ManagerOutlives` and `ProcessEnds` follow.

*The reader.* `ReaderInvariance` holds for every set of documents, however long
and deep, and for every root to begin with. What has to be shown is that no step
takes away what a pointer of the reader still points to. `FrameInv`: `nodes_` has
one entry for each open call, and `r_pc` is a place of the innermost one.
`ChainInv`: each entry is one step below the one before, and the container there
has the type its call expects, so that `operator[]` finds it as it is and
puts nothing in its place. `LastInv`: if the last value lies in the innermost
container, it is at most one step below it; the next value is assigned one step
below, too, so it is either beside the last one or at its very place. `PathInv`
says that all paths are over one set of steps, which the lemmas about prefixes
need. `ReaderPointersLive` follows. `ReaderErrors` says that a document leaves one
error or none, and which: each open container recovers from the error, but
only the innermost call reports it (`ErrorInv`).

`ReaderNumbers` has every number of digits and every width. `DecodeNumber`
multiplies digit by digit and gives up before the product leaves the type;
`DecodeDigits` is shown equal to `Decimal` when that does not exceed the bound, and
to -1 exactly when it does. That is an induction over the digits, with
`SetInduction` (the library's induction theorems take a predicate, which the
provers cannot instantiate) for the set of positions up to which the two agree; `Recursion` shows
that a function recursive over positions exists, without which nothing is
known of one that is defined by `LET`. `NodeConverts` is the table of conversions
node by node. `NumberInv` ties the root to the first lexeme: behind a number
no call was ever open.

*The list of recordings.* `ListOwnEntries` holds for any directories with any
documents in them, objects or not. The lemmas come first, about trees: what `Put`
leaves at every path (`PutAt`), that a second one replaces the first (`PutTwice`),
and from these what an assignment and an append do key by key -- the member is
the new value, the others are as before (`PutsOnly`; `AssignOne`, `AppendToOne`),
an array has one item more (`ArrayAppend`). `ListInv` then says how far the list
has come: the array of the recordings has as many items as there were
directories among the entries so far, each of them `Expected` (`Listed`); the
recording at work likewise has its channels so far (`Recording`). The hazard is in
two short conjuncts, that between two recordings `b`, and between two channels
`channel`, is null or an empty object (`Blank`): it makes no difference which,
since `[]` opens a null as an empty object (`ChannelPlain`).

Candidates for these invariants were first checked with TLC on the bounds of the
runs, except `ListInv`, whose trees are over any set of steps: there TLC checked
`OwnEntries` itself.

*Only model-checked.* Liveness (`Delivery`, `CloseCompletes`, `Ends`,
`EveryCommandEnds`, `SignalEnds`, `ExitEnds`, `Shown`) is beyond the prover.
`ReadsGrammar` and `RoundTrip` compare the reader and the writer with a reference
that is recursive over values, about which nothing can be proved here for every
input; of `ReadsGrammar` only its first conjunct, `ErrorOnce`, is proved.

## 5. Not modelled, and the plan

Left out, with the reasons:

* what libav does beyond its results (a frame, the end of a file, a failure, the
  keyframe a seek ends at), and the network beyond the success of `sendto` and
  `recvfrom`;
* a packet that the bit stream filter refuses: it is then not put, or put as it was
  read, so `InSequence` is about packets the filter passes;
* the text of comments, error messages and offsets in jsoncpp, reals that are not
  finite, and what the program does not call: `OurReader`, `FastWriter`, the
  styled writers, `Path`, `removeMember`, `resize`, the comparisons of values;
* base64, `CSwitch`, `CThumbnail`, `CMyList`, `CCommBase`, `GetOutputCheck`: not
  built, or without a caller;
* the clock helpers of `misc.cpp`, which keep no state, and logging.

`TX`, `SetMoveSec` and `SeekFrame` flow off their ends without returning the
value they promise. No caller uses it. The models are of the debug build, which
`make` builds by default and where these calls return; what an optimising
compiler makes of them depends on the layout of the code.

Next: an abstract player -- a position that a seek sets and play advances -- that
`Playlist` implements for seeks that are not disturbed, proved from its `IInv`.
