------------------------------ MODULE FileList ------------------------------
(***************************************************************************)
(* GetOutputFileList, the answer to get_play_list: the recordings below    *)
(* file_dst, each with its channels.  One pass fills root from values that *)
(* are declared outside the loops: b, the recording, and channel, which    *)
(* must not carry what an earlier directory left in them, and info and     *)
(* meta, which each file is parsed into.  A directory is a sequence of     *)
(* entries in the order readdir gives them, . and .. left out.             *)
(***************************************************************************)
EXTENDS JsonValue

CONSTANTS Directories \* what may be below file_dst

\* An entry of file_dst is a record: whether it is a directory, its name, the
\* value of its info.json, as a set that is empty when it does not parse, and
\* the entries in it, which have the value of meta.json in the same way.
IsParsed(values) ==
    /\ \A v, w \in values : v = w
    /\ \A v \in values : <<>> \in DOMAIN v /\ \A p \in DOMAIN v : p \in Seq(ToSet(p))

ASSUME ListAssumption ==
    \A d \in Directories :
        /\ d \in Seq(ToSet(d))
        /\ \A i \in DOMAIN d :
               /\ IsParsed(d[i].info)
               /\ d[i].subs \in Seq(ToSet(d[i].subs))
               /\ \A j \in DOMAIN d[i].subs : IsParsed(d[i].subs[j].meta)

VARIABLES basepath, \* the entries below file_dst
          ent,      \* how many of them have been read
          sub_ent,  \* how many entries of the last one
          listing,  \* root
          b, channel,
          entry_idx, \* idx
          list_pc    \* where the pass is; "thrown" if the process died of it

listVars == <<basepath, ent, sub_ent, listing, b, channel, entry_idx, list_pc>>

----------------------------------------------------------------------------
(* Names of members, by their bytes: one letter each will do.               *)

Letter == [idx |-> <<1>>, path |-> <<2>>, bit_state |-> <<3>>, info |-> <<4>>, files |-> <<5>>,
           frame |-> <<6>>, total_frame |-> <<7>>, filename |-> <<8>>, num |-> <<9>>,
           den |-> <<10>>, channels |-> <<11>>, cmd |-> <<12>>]

\* value["x"]["y"], created where it is missing.
Nested(v, x, y) ==
    UNION {Get(w, <<Member(x)>>, y) : w \in ResolveReference(v, <<>>, x)}

\* value["x"] = w for the value there is.
Assign(values, x, w) == UNION {SetMember(v, <<>>, x, w) : v \in values}

\* value["x"].append(w).
AppendTo(v, x, w) ==
    UNION {AppendItem(u, <<Member(x)>>, w) : u \in ResolveReference(v, <<>>, x)}

Items(v) == [i \in 1 .. Size(v, <<>>) |-> CHOOSE w \in GetItem(v, <<>>, i - 1) : TRUE]

\* The frames of one of meta's files: empty when it is not an integer.
Frames(file) == UNION {AsInt64(frame) : frame \in Get(file, <<>>, Letter.frame)}

\* The sum of them, empty when the loop over meta["files"] throws: then it has a
\* size and something that is no file in it.
SumOf(files) ==
    CASE files[<<>>].type = "array" ->
           FoldLeft(LAMBDA sums, file : {s + n : s \in sums, n \in Frames(file)},
                    {0}, Items(files))
      [] files[<<>>].type = "object" /\ Size(files, <<>>) > 0 -> {}
      [] OTHER -> {0}

TotalFrame(meta) ==
    UNION {UNION {SumOf(files) : files \in Get(w, <<>>, Letter.files)} :
           w \in ResolveReference(meta, <<>>, Letter.files)}

\* What a channel's entry gets from its meta.json.
Described(into, entry, sub, meta, total) ==
    LET counted == Assign({into}, Letter.total_frame, UIntValue(total % (MaxLargestUInt + 1)))
        named == Assign(counted, Letter.filename, StringValue(entry.name \o sub.name))
        indexed == Assign(named, Letter.idx, StringValue(sub.name))
        rated == Assign(indexed, Letter.num, CHOOSE w \in Get(meta, <<>>, Letter.num) : TRUE)
    IN  Assign(rated, Letter.den, CHOOSE w \in Get(meta, <<>>, Letter.den) : TRUE)

ChannelOf(into, entry, sub, meta) ==
    UNION {Described(into, entry, sub, meta, total) : total \in TotalFrame(meta)}

----------------------------------------------------------------------------
ListInit ==
    /\ basepath \in Directories
    /\ ent = 0 /\ sub_ent = 0
    /\ listing = Null /\ b = Null /\ channel = Null
    /\ entry_idx = 0
    /\ list_pc = "entry"

\* An entry that is no directory only counts.
SkipEntry ==
    /\ list_pc = "entry" /\ ent < Len(basepath)
    /\ ~basepath[ent + 1].dir
    /\ ent' = ent + 1
    /\ entry_idx' = entry_idx + 1
    /\ UNCHANGED <<basepath, sub_ent, listing, b, channel, list_pc>>

\* A recording: its place, its name, and bit_state when info.json parses.  What
\* parses and is no object throws.
OpenEntry ==
    /\ list_pc = "entry" /\ ent < Len(basepath)
    /\ basepath[ent + 1].dir
    /\ LET entry == basepath[ent + 1]
           named == Assign(Assign({b}, Letter.idx, IntValue(entry_idx)), Letter.path,
                           StringValue(entry.name))
           filled == UNION {UNION {Assign(named, Letter.bit_state, bits) :
                                       bits \in Nested(info, Letter.info, Letter.bit_state)} :
                            info \in entry.info}
       IN  IF entry.info # {} /\ filled = {}
           THEN list_pc' = "thrown" /\ UNCHANGED b
           ELSE /\ b' \in (IF entry.info = {} THEN named ELSE filled)
                /\ list_pc' = "sub entry"
    /\ ent' = ent + 1
    /\ sub_ent' = 0
    /\ UNCHANGED <<basepath, listing, channel, entry_idx>>

\* The recording's own directory does not open: readdir of no directory, and the
\* process dies before it has read an entry of it.
OpenDirFails ==
    /\ list_pc = "sub entry" /\ sub_ent = 0
    /\ list_pc' = "thrown"
    /\ UNCHANGED <<basepath, ent, sub_ent, listing, b, channel, entry_idx>>

\* An entry of the recording: a channel's directory appends to the recording
\* what channel holds, filled from meta.json if that parses.
ReadSubEntry ==
    /\ list_pc = "sub entry" /\ sub_ent < Len(basepath[ent].subs)
    /\ LET sub == basepath[ent].subs[sub_ent + 1]
           filled == IF sub.meta = {} THEN {channel}
                     ELSE UNION {ChannelOf(channel, basepath[ent], sub, meta) : meta \in sub.meta}
       IN  CASE ~sub.dir ->
                  UNCHANGED <<b, channel, list_pc>>
             [] sub.dir /\ filled = {} ->
                  list_pc' = "thrown" /\ UNCHANGED <<b, channel>>
             [] sub.dir /\ filled # {} ->
                  \E w \in filled :
                      /\ b' \in AppendTo(b, Letter.channels, w)
                      /\ channel' \in Clear(w, <<>>)
                      /\ UNCHANGED list_pc
    /\ sub_ent' = sub_ent + 1
    /\ UNCHANGED <<basepath, ent, listing, entry_idx>>

(* A mutant: b keeps the recording that has been appended. *)
CloseEntryKept ==
    /\ list_pc = "sub entry" /\ sub_ent = Len(basepath[ent].subs)
    /\ listing' \in AppendTo(listing, Letter.files, b)
    /\ entry_idx' = entry_idx + 1
    /\ list_pc' = "entry"
    /\ UNCHANGED <<basepath, ent, sub_ent, b, channel>>

\* The recording is complete.
CloseEntry ==
    /\ list_pc = "sub entry" /\ sub_ent = Len(basepath[ent].subs)
    /\ listing' \in AppendTo(listing, Letter.files, b)
    /\ b' \in Clear(b, <<>>)
    /\ entry_idx' = entry_idx + 1
    /\ list_pc' = "entry"
    /\ UNCHANGED <<basepath, ent, sub_ent, channel>>

\* RX: the list becomes the root, and gets the command's name.
AnswerList ==
    /\ list_pc = "entry" /\ ent = Len(basepath)
    /\ listing' \in SetMember(listing, <<>>, Letter.cmd, StringValue(Letter.cmd))
    /\ list_pc' = "answered"
    /\ UNCHANGED <<basepath, ent, sub_ent, b, channel, entry_idx>>

ListNext == SkipEntry \/ OpenEntry \/ OpenDirFails \/ ReadSubEntry \/ CloseEntry \/ AnswerList

ListSpec == ListInit /\ [][ListNext]_listVars

----------------------------------------------------------------------------
\* How many of the first n entries are directories.
Directs(entries, n) == Cardinality({i \in 1 .. n : entries[i].dir})

\* A channel without a meta.json that parses is null, or an empty object once any
\* channel had one.
ExpectedChannel(entry, sub, c) ==
    IF sub.meta = {} THEN c \in {Null, Empty("object")}
    ELSE \E meta \in sub.meta : c \in ChannelOf(Null, entry, sub, meta)

\* The entry of a recording, from its directory alone.
Expected(entry, place, e) ==
    /\ Get(e, <<>>, Letter.idx) = {IntValue(place)}
    /\ Get(e, <<>>, Letter.path) = {StringValue(entry.name)}
    /\ IsMember(e, <<>>, Letter.bit_state) <=> entry.info # {}
    /\ \A info \in entry.info :
           Get(e, <<>>, Letter.bit_state) = Nested(info, Letter.info, Letter.bit_state)
    /\ LET channels == CHOOSE w \in Get(e, <<>>, Letter.channels) : TRUE
       IN  /\ Size(channels, <<>>) = Directs(entry.subs, Len(entry.subs))
           /\ \A i \in DOMAIN entry.subs : entry.subs[i].dir =>
                  ExpectedChannel(entry, entry.subs[i], Items(channels)[Directs(entry.subs, i)])

\* Each recording in the list is described by its own files: one that misses or
\* has a broken info.json or meta.json shows nothing of the recordings and
\* channels before it, although all of them pass through the same variables
\* (misc.cpp 17-107).
OwnEntries ==
    list_pc = "answered" =>
        LET files == CHOOSE w \in Get(listing, <<>>, Letter.files) : TRUE
        IN  /\ Size(files, <<>>) = Directs(basepath, Len(basepath))
            /\ \A i \in DOMAIN basepath : basepath[i].dir =>
                   Expected(basepath[i], i - 1, Items(files)[Directs(basepath, i)])

=============================================================================
