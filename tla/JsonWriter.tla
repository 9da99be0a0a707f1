----------------------------- MODULE JsonWriter -----------------------------
(***************************************************************************)
(* Json::writeString, which turns the answer to a command into the text of *)
(* a datagram: BuiltStyledStreamWriter with the settings of comm.cpp, no   *)
(* comments and no indentation.  The text is a sequence of lexemes, those  *)
(* of JsonReader.  An array is tried on one line first: its items are      *)
(* written to childValues_ and printed from there.                         *)
(***************************************************************************)
EXTENDS JsonReader

CONSTANTS RightMargin, \* rightMargin_
          SignedChar   \* whether char is signed, as it is on x86

ASSUME WriterAssumption == RightMargin \in Nat /\ SignedChar \in BOOLEAN

----------------------------------------------------------------------------
(* Settings.                                                                *)

DefaultSettings == [commentStyle |-> "All", dropNullPlaceholders |-> FALSE]

\* What RX sets before it answers; the indentation it empties is layout.
Settings == [DefaultSettings EXCEPT !.commentStyle = "None"]

\* newStreamWriter: nothing is written for a null when placeholders are dropped.
NullSymbol == IF Settings.dropNullPlaceholders THEN <<>> ELSE <<Punct("null")>>

----------------------------------------------------------------------------
(* Scalars.                                                                 *)

RECURSIVE UIntToString(_)
UIntToString(n) == IF n < 10 THEN <<n>> ELSE Append(UIntToString(n \div 10), n % 10)

Magnitude(n) == IF n < 0 THEN -n ELSE n

\* A double always shows a point, so that it is read as a double again.
ValueToString(node) ==
    CASE node.type \in {"int", "uint"} ->
           Digits(node.num < 0, UIntToString(Magnitude(node.num)), "none")
      [] node.type = "real" ->
           Digits(node.num < 0, UIntToString(Magnitude(node.num) \div 2),
                  IF IsIntegral(node.num) THEN "zero" ELSE "half")
      [] node.type = "boolean" ->
           Punct(IF node.num # 0 THEN "true" ELSE "false")

\* A byte from 128 on is a negative char where char is signed.
IsAnyCharRequiredQuoting(bytes) ==
    \E i \in DOMAIN bytes : bytes[i] < 128 \/ SignedChar

ReplacementCharacter == 65533

\* The code point at the start of the bytes, and how many bytes it takes.  What
\* follows the first byte is not checked to be a continuation.
Utf8ToCodepoint(bytes) ==
    LET first == bytes[1]
        Low(i) == bytes[i] % 64
        Taken(n, is, valid) == [length |-> n, is |-> IF valid THEN is ELSE ReplacementCharacter]
        two   == (first % 32) * 64 + Low(2)
        three == (first % 16) * 4096 + Low(2) * 64 + Low(3)
        four  == (first % 8) * 262144 + Low(2) * 4096 + Low(3) * 64 + Low(4)
    IN  CASE first < 128 -> Taken(1, first, TRUE)
          [] first \in 128 .. 223 /\ Len(bytes) >= 2 -> Taken(2, two, two >= 128)
          [] first \in 224 .. 239 /\ Len(bytes) >= 3 ->
                Taken(3, three, three >= 2048 /\ three \notin 55296 .. 57343)
          [] first \in 240 .. 247 /\ Len(bytes) >= 4 -> Taken(4, four, four >= 65536)
          [] OTHER -> Taken(1, ReplacementCharacter, TRUE)

\* A backslash, a u and four digits.
ToHex16Bit(x) == <<"u", x>>

(* A mutant: the first half of a pair is not counted from 65536. *)
EscapeUnshifted(cp) ==
    CASE cp \in 32 .. 127 -> <<<<"raw", cp>>>>
      [] cp < 65536 /\ cp \notin 32 .. 127 -> <<ToHex16Bit(cp)>>
      [] cp >= 65536 -> <<ToHex16Bit(55296 + cp \div 1024), ToHex16Bit(56320 + (cp % 1024))>>

\* A code point as the text of a string.
Escape(cp) ==
    CASE cp \in 32 .. 127 -> <<<<"raw", cp>>>>
      [] cp < 65536 /\ cp \notin 32 .. 127 -> <<ToHex16Bit(cp)>>
      [] cp >= 65536 -> <<ToHex16Bit(55296 + (cp - 65536) \div 1024), ToHex16Bit(56320 + (cp % 1024))>>

RECURSIVE QuotedText(_)
QuotedText(bytes) ==
    LET cp == Utf8ToCodepoint(bytes)
        short == {i \in {1, 3, 4, 5, 6, 7, 8} : EscapedBytes[i] = bytes[1]}  \* not /
    IN  CASE bytes = <<>> -> <<>>
          [] bytes # <<>> /\ short # {} ->
                <<<<"esc", EscapeLetters[CHOOSE i \in short : TRUE]>>>> \o QuotedText(Tail(bytes))
          [] OTHER ->
                Escape(cp.is) \o QuotedText(SubSeq(bytes, cp.length + 1, Len(bytes)))

ValueToQuotedString(bytes) ==
    Quoted(IF IsAnyCharRequiredQuoting(bytes) THEN QuotedText(bytes)
           ELSE [i \in DOMAIN bytes |-> <<"raw", bytes[i]>>])

----------------------------------------------------------------------------
(* Arrays and objects.                                                      *)

\* The length of a text in characters.
TextLength(lexeme) ==
    CASE lexeme.kind = "string" -> 2 + Len(lexeme.text)
      [] lexeme.kind = "number" -> Len(lexeme.digits) + 1
      [] OTHER                  -> Len(lexeme.kind)

LineLength(texts) ==
    FoldLeft(LAMBDA length, lexeme : length + TextLength(lexeme),
             4 + (Len(texts) - 1) * 2, FlattenSeq(texts))

Enclose(open, texts, close) ==
    LET Separated(i) == IF i = 1 THEN texts[i] ELSE <<Punct(",")>> \o texts[i]
    IN  <<Punct(open)>> \o FlattenSeq([i \in DOMAIN texts |-> Separated(i)]) \o <<Punct(close)>>

\* The order of the map: byte by byte, a prefix first.
Before(a, b) ==
    \E n \in 0 .. Len(a) :
        /\ IsPrefix(SubSeq(a, 1, n), b)
        /\ n < Len(b) /\ (n = Len(a) \/ a[n + 1] < b[n + 1])

GetMemberNames(v) ==
    LET names == {key[1] : key \in Keys(v, <<>>)}
    IN  [i \in 1 .. Cardinality(names) |->
            CHOOSE name \in names : Cardinality({n \in names : Before(n, name)}) = i - 1]

\* The items of an array, null at a hole.
ItemsOf(v) == [i \in 1 .. Size(v, <<>>) |-> CHOOSE w \in GetItem(v, <<>>, i - 1) : TRUE]

RECURSIVE WriteValue(_)

\* isMultilineArray: with many items or a nested value childValues_ stays empty;
\* otherwise it has the texts of the items, whatever the answer.
IsMultilineArray(v) ==
    LET items == ItemsOf(v)
        nested == \E i \in DOMAIN items :
                      IsComplex(items[i][<<>>].type) /\ ~IsEmpty(items[i], <<>>)
        texts == [i \in DOMAIN items |-> WriteValue(items[i])]
    IN  IF Len(items) * 3 >= RightMargin \/ nested
        THEN [multiLine |-> TRUE, childValues |-> <<>>]
        ELSE [multiLine |-> LineLength(texts) >= RightMargin, childValues |-> texts]

\* On several lines without indentation, or on one, the text is the same.
WriteArrayValue(v) ==
    LET tried == IF Settings.commentStyle = "All" THEN [multiLine |-> TRUE, childValues |-> <<>>]
                 ELSE IsMultilineArray(v)
        items == ItemsOf(v)
    IN  IF items # <<>> /\ tried.multiLine /\ tried.childValues = <<>>
        THEN Enclose("[", [i \in DOMAIN items |-> WriteValue(items[i])], "]")
        ELSE Enclose("[", tried.childValues, "]")

WriteObjectValue(v) ==
    LET names == GetMemberNames(v)
        Written(name) == <<ValueToQuotedString(name), Punct(":")>>
                             \o WriteValue(SubValue(v, <<Member(name)>>))
    IN  Enclose("{", [i \in DOMAIN names |-> Written(names[i])], "}")

WriteValue(v) ==
    CASE v[<<>>].type = "null"   -> NullSymbol
      [] v[<<>>].type = "string" -> <<ValueToQuotedString(v[<<>>].str)>>
      [] v[<<>>].type = "array"  -> WriteArrayValue(v)
      [] v[<<>>].type = "object" -> WriteObjectValue(v)
      [] OTHER                   -> <<ValueToString(v[<<>>])>>

\* writeString: the whole text.
WriteString(v) == WriteValue(v)

=============================================================================
