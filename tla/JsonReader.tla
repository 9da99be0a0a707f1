----------------------------- MODULE JsonReader -----------------------------
(***************************************************************************)
(* Reader::parse of jsoncpp, the parser of every command and of every      *)
(* setting.json, info.json and meta.json.  It descends by recursion, one   *)
(* frame for each open array or object, and after an error every open      *)
(* frame skips to a closing bracket of its own kind.  One action reads one *)
(* lexeme.  next is the lexeme under current_: it is known before it is    *)
(* read, because readArray looks at it.  White space is left out, and of   *)
(* the comments what they say and where they are put.                      *)
(***************************************************************************)
EXTENDS JsonValue

CONSTANTS Documents,  \* pairs: the lexemes of a document, and how many may
                      \* follow the first
          Words,      \* the lexemes that are a whole document
          StackLimit, \* stackLimit_g
          OldRoots    \* what the value parsed into may hold before

IsLexeme(l) == l.kind = "number" => l.neg \in BOOLEAN /\ l.digits \in Seq(0 .. 9)

ASSUME ReaderAssumption ==
    /\ \A d \in Documents : d[2] \in Nat
    /\ \A l \in Words \cup UNION {d[1] : d \in Documents} : IsLexeme(l)
    /\ StackLimit \in Nat \ {0}
    /\ \A old \in OldRoots : IsValue(old)

VARIABLES root,       \* the document's value
          nodes_,     \* the values that are being read, as paths in root
          frames,     \* the calls of readObject and readArray
          lastValue_, \* the value that ended last, as a set of at most one path
          errors_,    \* the number of errors reported
          success,    \* what the outermost readValue returned
          r_pc,       \* where the innermost call is
          doc,        \* the lexemes read, a history variable
          next, alphabet, room

readerVars == <<root, nodes_, frames, lastValue_, errors_, success, r_pc, doc, next,
                alphabet, room>>

----------------------------------------------------------------------------
(* Lexemes.  A string's text is a sequence of characters and escapes, each  *)
(* a pair: <<"raw", byte>>, <<"esc", letter>> for a backslash and a letter, *)
(* <<"u", n>> for a backslash, a u and four digits, <<"bad u", 0>> for one  *)
(* without them.  frac is what follows a number's integer digits: nothing,  *)
(* a fraction of zero or a half, or what is no number.                      *)

Punct(kind) == [kind |-> kind]
Quoted(text) == [kind |-> "string", text |-> text]
Digits(neg, digits, frac) ==
    [kind |-> "number", neg |-> neg, digits |-> digits, frac |-> frac]

Eof == Punct("end of stream")

\* Division and remainder are the shifts and masks of the code.
CodePointToUTF8(cp) ==
    CASE cp <= 127     -> <<cp>>
      [] cp <= 2047    -> <<192 + cp \div 64, 128 + (cp % 64)>>
      [] cp <= 65535   -> <<224 + cp \div 4096, 128 + ((cp \div 64) % 64), 128 + (cp % 64)>>
      [] cp <= 1114111 -> <<240 + cp \div 262144, 128 + ((cp \div 4096) % 64),
                            128 + ((cp \div 64) % 64), 128 + (cp % 64)>>
      [] OTHER         -> <<>>

\* The letters that may follow a backslash and the bytes they stand for:
\* " / \ and b f n r t.
EscapeLetters == <<34, 47, 92, 98, 102, 110, 114, 116>>
EscapedBytes  == <<34, 47, 92, 8, 12, 10, 13, 9>>

Escaped(letter) == {EscapedBytes[i] : i \in {j \in 1 .. 8 : EscapeLetters[j] = letter}}

\* The code point that the text begins with, when it begins with a u escape; the
\* second half of a pair may be any u escape.
CodePoints(text) ==
    IF text[1][2] \notin 55296 .. 56319 THEN {[is |-> text[1][2], length |-> 1]}
    ELSE {[is |-> 65536 + (text[1][2] % 1024) * 1024 + (text[2][2] % 1024), length |-> 2] :
              i \in {j \in {2} \cap DOMAIN text : text[j][1] = "u"}}

DecodeString(text) ==
    LET \* what the text gives from position i on
        From[i \in 1 .. Len(text) + 1] ==
            LET rest == SubSeq(text, i, Len(text))
                Followed(bytes, length) == {bytes \o more : more \in From[i + length]}
            IN  CASE rest = <<>>          -> {<<>>}
                  [] rest[1][1] = "raw"   -> Followed(<<rest[1][2]>>, 1)
                  [] rest[1][1] = "esc"   -> UNION {Followed(<<b>>, 1) : b \in Escaped(rest[1][2])}
                  [] rest[1][1] = "u"     -> UNION {Followed(CodePointToUTF8(cp.is), cp.length) :
                                                        cp \in CodePoints(rest)}
                  [] rest[1][1] = "bad u" -> {}
    IN  From[1]

\* The integer that the digits are.
Decimal(digits) ==
    LET Of[i \in 0 .. Len(digits)] == IF i = 0 THEN 0 ELSE Of[i - 1] * 10 + digits[i]
    IN  Of[Len(digits)]

\* decodeDouble: what the stream reads from the lexeme.
DecodeDouble(lexeme) ==
    LET half == Double(Decimal(lexeme.digits), IF lexeme.frac = "half" THEN 1 ELSE 0)
    IN  IF lexeme.frac = "junk" THEN {} ELSE {RealValue(IF lexeme.neg THEN -half ELSE half)}

(* A mutant: the last digit always fits once the others do. *)
ExceedsUnlessLast(value, digit, isLast, maxIntegerValue) ==
    value >= maxIntegerValue \div 10 /\ ~isLast

\* Whether value has no room for one more digit.
Exceeds(value, digit, isLast, maxIntegerValue) ==
    LET threshold == maxIntegerValue \div 10
    IN  \/ value > threshold
        \/ value = threshold /\ (~isLast \/ digit > maxIntegerValue % 10)

\* The value of the digits, one after the other: -1 from a digit on that there is
\* no room for.
DecodeDigits(digits, maxIntegerValue) ==
    LET Value[i \in 0 .. Len(digits)] ==
            IF i = 0 THEN 0
            ELSE IF \/ Value[i - 1] = -1
                    \/ Exceeds(Value[i - 1], digits[i], i = Len(digits), maxIntegerValue) THEN -1
            ELSE Value[i - 1] * 10 + digits[i]
    IN  Value[Len(digits)]

\* Over to decodeDouble if there is no room.  A lone minus sign is a zero.
DecodeNumber(lexeme) ==
    LET n == DecodeDigits(lexeme.digits, IF lexeme.neg THEN MaxLargestInt + 1 ELSE MaxLargestUInt)
    IN  CASE n = -1 \/ lexeme.frac # "none" -> DecodeDouble(lexeme)
          [] n # -1 /\ lexeme.frac = "none" /\ lexeme.neg -> {IntValue(-n)}
          [] OTHER -> {IF n <= MaxInt THEN IntValue(n) ELSE UIntValue(n)}

\* What a lexeme that is a whole value gives, nothing after an error in it.
Decode(lexeme) ==
    CASE lexeme.kind = "number"             -> DecodeNumber(lexeme)
      [] lexeme.kind = "string"             -> {StringValue(bytes) : bytes \in DecodeString(lexeme.text)}
      [] lexeme.kind \in {"true", "false"}  -> {BooleanValue(lexeme.kind = "true")}
      [] lexeme.kind = "null"               -> {Null}

IsScalar(lexeme) == lexeme.kind \in {"number", "string", "true", "false", "null"}

----------------------------------------------------------------------------
(* The pieces of the actions.                                               *)

currentValue == Last(nodes_)
Frame == Last(frames)
NewFrame(type) == [type |-> type, name |-> <<>>, index |-> 0]

\* What may stand next.  While a frame skips after an error it tells only
\* closing brackets and comments from the rest, and a comma stands for that; so
\* it does after the root's end, where one more lexeme is read.
Upcoming ==
    {Eof} \cup CASE next = Eof \/ room = 0 -> {}
                 [] r_pc' = "recover"        -> {l \in alphabet : l.kind \in {"}", "]", ",", "comment"}}
                 [] r_pc' = "trail"          -> {l \in alphabet : l.kind \in {",", "comment"}}
                 [] OTHER                  -> alphabet

\* readToken.
Read ==
    /\ doc' = IF r_pc = "trail" \/ next = Eof THEN doc ELSE Append(doc, next)
    /\ next' \in Upcoming
    /\ room' = IF room = 0 THEN 0 ELSE room - 1
    /\ UNCHANGED alphabet

\* readValue returns to the frame it was called from, the last of fs, or to
\* parse; that frame goes on, or recovers.
Return(fs, ok) ==
    /\ frames' = fs
    /\ IF fs = <<>> THEN /\ success' = ok
                         /\ r_pc' = "trail"
                         /\ UNCHANGED nodes_
                    ELSE /\ nodes_' = Front(nodes_)
                         /\ r_pc' = IF ok THEN (IF Last(fs).type = "object" THEN "comma" ELSE "separator")
                                        ELSE "recover"
                         /\ UNCHANGED success

\* The same at the end of readValue, which an error in the value passes too.
EndValue(fs, ok) == lastValue_' = {currentValue} /\ Return(fs, ok)

(* A mutant: a container that ends leaves lastValue_ at its last part. *)
EndContainerUnmarked(ok) == UNCHANGED lastValue_ /\ Return(Front(frames), ok)

\* readObject and readArray return to the readValue that called them.
EndContainer(ok) == EndValue(Front(frames), ok)

\* readValue is called for the value at key below the current one, which w has.
\* It throws when the calls are too deep.
Enter(w, key) ==
    /\ root' = w
    /\ nodes_' = Append(nodes_, Append(currentValue, key))
    /\ r_pc' = IF Len(nodes_) + 1 > StackLimit THEN "thrown" ELSE "value"

\* addErrorAndRecover, from within a frame.
ErrorAndRecover ==
    /\ errors_' = errors_ + 1
    /\ r_pc' = "recover"

----------------------------------------------------------------------------
ReaderInit(old, first, lexemes, more) ==
    /\ root = old
    /\ nodes_ = <<<<>>>>
    /\ frames = <<>>
    /\ lastValue_ = {}
    /\ errors_ = 0
    /\ success = FALSE
    /\ r_pc = "value"
    /\ doc = <<>>
    /\ next = first
    /\ alphabet = lexemes
    /\ room = more

\* A document is parsed into a root that holds whatever the one before left, or a
\* whole document of one lexeme into a fresh one.
ReaderStart ==
    \/ \E old \in OldRoots, d \in Documents : \E first \in d[1] \cup {Eof} :
           ReaderInit(old, first, d[1], d[2])
    \/ \E first \in Words : ReaderInit(Null, first, {}, 0)

\* A comment where readToken is called in a loop.  One on the line where
\* lastValue_ ended is attached to it there and then.
Comment ==
    /\ next.kind = "comment"
    /\ r_pc \in {"value", "name", "comma", "after comment", "separator", "recover", "trail"}
    /\ r_pc' = IF r_pc = "comma" THEN "after comment" ELSE r_pc
    /\ Read
    /\ UNCHANGED <<root, nodes_, frames, lastValue_, errors_, success>>

\* readValue: a number, a string, true, false or null.
ReadScalar ==
    /\ r_pc = "value"
    /\ IsScalar(next)
    /\ IF Decode(next) = {}
       THEN errors_' = errors_ + 1 /\ UNCHANGED root
       ELSE \E w \in Decode(next) : root' = Put(root, currentValue, w) /\ UNCHANGED errors_
    /\ EndValue(frames, Decode(next) # {})
    /\ Read

\* readValue: readObject and readArray put an empty container in the place of
\* what the value was.
OpenContainer ==
    /\ r_pc = "value"
    /\ next.kind \in {"{", "["}
    /\ LET type == IF next.kind = "{" THEN "object" ELSE "array"
       IN  /\ root' = Put(root, currentValue, Empty(type))
           /\ frames' = Append(frames, NewFrame(type))
           /\ r_pc' = IF type = "object" THEN "name" ELSE "first"
    /\ Read
    /\ UNCHANGED <<nodes_, lastValue_, errors_, success>>

\* readValue: the error that leaves before lastValue_ is set.
ExpectedValue ==
    /\ r_pc = "value"
    /\ ~IsScalar(next) /\ next.kind \notin {"{", "[", "comment"}
    /\ errors_' = errors_ + 1
    /\ Return(frames, FALSE)
    /\ Read
    /\ UNCHANGED <<root, lastValue_>>

\* readObject: the name of a member.
ReadName ==
    /\ r_pc = "name"
    /\ next.kind = "string"
    /\ IF DecodeString(next.text) = {}
       THEN ErrorAndRecover /\ UNCHANGED frames
       ELSE \E name \in DecodeString(next.text) :
                /\ frames' = [frames EXCEPT ![Len(frames)].name = name]
                /\ r_pc' = "colon"
                /\ UNCHANGED errors_
    /\ Read
    /\ UNCHANGED <<root, nodes_, lastValue_, success>>

(* A mutant: whatever the name, so that a comma may stand before the end. *)
EndObjectAlways ==
    /\ r_pc = "name" /\ next.kind = "}"
    /\ EndContainer(TRUE)
    /\ Read
    /\ UNCHANGED <<root, errors_>>

\* readObject: a closing bracket ends the object as long as the name is empty.
EndObject ==
    /\ r_pc = "name"
    /\ next.kind = "}" /\ Frame.name = <<>>
    /\ EndContainer(TRUE)
    /\ Read
    /\ UNCHANGED <<root, errors_>>

MissingName ==
    /\ r_pc = "name"
    /\ next.kind \notin {"string", "comment"}
    /\ ~(next.kind = "}" /\ Frame.name = <<>>)
    /\ ErrorAndRecover
    /\ Read
    /\ UNCHANGED <<root, nodes_, frames, lastValue_, success>>

\* readObject: the colon, and the member's value is found or created.
ReadColon ==
    /\ r_pc = "colon"
    /\ IF next.kind = ":"
       THEN /\ \E w \in ResolveReference(root, currentValue, Frame.name) :
                   Enter(w, Member(Frame.name))
            /\ UNCHANGED errors_
       ELSE ErrorAndRecover /\ UNCHANGED <<root, nodes_>>
    /\ Read
    /\ UNCHANGED <<frames, lastValue_, success>>

\* readObject: after a member.  Behind a comment only a closing bracket is told
\* from the rest, and whatever else stands there is taken for the comma.
ReadComma ==
    /\ r_pc \in {"comma", "after comment"}
    /\ next.kind # "comment"
    /\ CASE next.kind = "}" ->
              EndContainer(TRUE) /\ UNCHANGED errors_
         [] next.kind = "," \/ (next.kind # "}" /\ r_pc = "after comment") ->
              r_pc' = "name" /\ UNCHANGED <<nodes_, frames, lastValue_, errors_, success>>
         [] OTHER ->
              ErrorAndRecover /\ UNCHANGED <<nodes_, frames, lastValue_, success>>
    /\ Read
    /\ UNCHANGED root

\* readArray: an empty array, if the bracket is what comes first.
EndArray ==
    /\ r_pc = "first"
    /\ next.kind = "]"
    /\ EndContainer(TRUE)
    /\ Read
    /\ UNCHANGED <<root, errors_>>

\* readArray: the next item, for the first one without reading.
NextItem ==
    /\ (r_pc = "first" /\ next.kind # "]") \/ (r_pc = "separator" /\ next.kind = ",")
    /\ \E w \in Subscript(root, currentValue, Frame.index) : Enter(w, Item(Frame.index))
    /\ IF r_pc = "first" THEN UNCHANGED <<doc, next, alphabet, room>> ELSE Read
    /\ frames' = [frames EXCEPT ![Len(frames)].index = @ + 1]
    /\ UNCHANGED <<lastValue_, errors_, success>>

\* readArray: after an item.
ReadSeparator ==
    /\ r_pc = "separator"
    /\ next.kind \notin {",", "comment"}
    /\ IF next.kind = "]"
       THEN EndContainer(TRUE) /\ UNCHANGED errors_
       ELSE ErrorAndRecover /\ UNCHANGED <<nodes_, frames, lastValue_, success>>
    /\ Read
    /\ UNCHANGED root

\* recoverFromError: lexemes are skipped up to a closing bracket of the frame's
\* own kind, or the end.
Skip ==
    /\ r_pc = "recover"
    /\ next.kind # "comment"
    /\ IF next = Eof \/ next.kind = (IF Frame.type = "object" THEN "}" ELSE "]")
       THEN EndContainer(FALSE)
       ELSE UNCHANGED <<nodes_, frames, lastValue_, success, r_pc>>
    /\ Read
    /\ UNCHANGED <<root, errors_>>

\* parse: one lexeme is read behind the root, and the rest is not looked at.
Finish ==
    /\ r_pc = "trail"
    /\ next.kind # "comment"
    /\ r_pc' = "done"
    /\ UNCHANGED <<root, nodes_, frames, lastValue_, errors_, success, doc, next,
                   alphabet, room>>

ReaderNext ==
    \/ Comment \/ ReadScalar \/ OpenContainer \/ ExpectedValue
    \/ ReadName \/ EndObject \/ MissingName \/ ReadColon \/ ReadComma
    \/ EndArray \/ NextItem \/ ReadSeparator \/ Skip \/ Finish

ReaderSpec == ReaderStart /\ [][ReaderNext]_readerVars

----------------------------------------------------------------------------
\* The pointers the reader follows are into values that exist: those of nodes_,
\* and lastValue_, to which a comment is attached long after its value ended,
\* when a second member of the same name may have replaced what held it
\* (jsoncpp.cpp 395-457, 612-625, 666-724).
PointersLive == ToSet(nodes_) \cup lastValue_ \subseteq DOMAIN root

\* A document fails with one error, although every container that is open then
\* recovers from it on its own, and succeeds with none (jsoncpp.cpp 972-1000).
ErrorOnce == r_pc = "trail" => errors_ = IF success THEN 0 ELSE 1

----------------------------------------------------------------------------
(* Numbers.                                                                 *)

ReadExactly(lexeme, v) ==
    LET n == IF lexeme.neg THEN -Decimal(lexeme.digits) ELSE Decimal(lexeme.digits)
    IN  lexeme.frac = "none" =>
            v = CASE n \in MinLargestInt .. MaxInt        -> IntValue(n)
                  [] n \in MaxInt + 1 .. MaxLargestUInt   -> UIntValue(n)
                  [] OTHER                                -> RealValue(DoubleOf(n))

\* to is what v converts to.
Converts(v, to, type, lo, hi) ==
    /\ IsConvertibleTo(v, type) <=> to # {}
    /\ to \subseteq lo .. hi

NumbersOf(v) ==
    LET n == v[<<>>].num
        exact == IF v[<<>>].type = "real" THEN Truncate(n) ELSE n
    IN  /\ Converts(v, AsInt(v), "int", MinInt, MaxInt)
        /\ Converts(v, AsUInt(v), "uint", 0, MaxUInt)
        /\ IsConvertibleTo(v, "real") <=> AsDouble(v) # {}
        /\ IsConvertibleTo(v, "boolean") <=> AsBool(v) # {}
        /\ IsConvertibleTo(v, "string") <=> AsString(v) # {}
        /\ IsConvertibleTo(v, "null") => \A b \in AsBool(v) : ~b
        /\ IsInt(v) \/ IsUInt(v) => AsInt64(v) = {exact}
        /\ IsInt64(v) => AsInt64(v) = {exact}
        /\ IsUInt64(v) => AsUInt64(v) = {exact}
        /\ \A m \in AsInt64(v) : m \in MinLargestInt .. MaxLargestInt \/ n = DoubleOf(MaxLargestInt)
        /\ \A m \in AsUInt64(v) : m \in 0 .. MaxLargestUInt \/ n = DoubleOf(MaxLargestUInt)

\* A number is read exactly when it is an integer of at most 64 bits, and as the
\* nearest double otherwise; and a value converts to a type when the test for
\* it says so, without loss when it is an integer of that type, and to a number
\* the type has but for the double its bound is rounded to
\* (jsoncpp.cpp 790-831, 3155-3335, 3760-3850).
Numbers ==
    r_pc = "trail" /\ success =>
        /\ doc[1].kind = "number" => ReadExactly(doc[1], root)
        /\ NumbersOf(root)

=============================================================================
