----------------------------- MODULE JsonGrammar -----------------------------
(***************************************************************************)
(* What the reader and the writer promise.  Denote says which value a      *)
(* sequence of lexemes is, by the grammar of JSON: it cuts the text of an  *)
(* array or object at its own commas, where the reader goes through it     *)
(* from left to right with a stack.                                        *)
(***************************************************************************)
EXTENDS JsonWriter

IsOpen(l) == l.kind \in {"{", "["}
IsClose(l) == l.kind \in {"}", "]"}

\* How many containers are open before position i.
DepthAt(s, i) ==
    Cardinality({j \in 1 .. i - 1 : IsOpen(s[j])}) - Cardinality({j \in 1 .. i - 1 : IsClose(s[j])})

\* The pieces between the commas that are in no container.
Pieces(s) ==
    LET commas == SelectSeq([i \in DOMAIN s |-> i], LAMBDA i : s[i].kind = "," /\ DepthAt(s, i) = 0)
        cuts == <<0>> \o commas \o <<Len(s) + 1>>
    IN  IF s = <<>> THEN <<>>
        ELSE [k \in 1 .. Len(cuts) - 1 |-> SubSeq(s, cuts[k] + 1, cuts[k + 1] - 1)]

IsNamed(piece) ==
    /\ Len(piece) >= 3
    /\ piece[1].kind = "string" /\ DecodeString(piece[1].text) # {}
    /\ piece[2].kind = ":"

NameOf(piece) == CHOOSE name \in DecodeString(piece[1].text) : TRUE

\* The reader lets a comma stand before the end of an object after a member with
\* an empty name.
Members(s) ==
    LET pieces == Pieces(s)
    IN  IF /\ Len(pieces) > 1 /\ Last(pieces) = <<>>
           /\ IsNamed(Last(Front(pieces))) /\ NameOf(Last(Front(pieces))) = <<>>
        THEN Front(pieces) ELSE pieces

RECURSIVE Denote(_)

\* A container of the values of texts under keys, the last one under a key.
Container(type, keys, texts) ==
    IF \E i \in DOMAIN texts : Denote(texts[i]) = {} THEN {}
    ELSE {FoldLeft(LAMBDA v, i : Put(v, <<keys[i]>>, CHOOSE w \in Denote(texts[i]) : TRUE),
                   Empty(type), [i \in DOMAIN texts |-> i])}

\* The value of a text, as a set that is empty when it has none.
Denote(s) ==
    LET inner == SubSeq(s, 2, Len(s) - 1)
        items == Pieces(inner)
        members == Members(inner)
    IN  CASE Len(s) = 1 /\ IsScalar(s[1]) ->
               Decode(s[1])
          [] Len(s) >= 2 /\ s[1].kind = "[" /\ Last(s).kind = "]" ->
               Container("array", [i \in DOMAIN items |-> Item(i - 1)], items)
          [] /\ Len(s) >= 2 /\ s[1].kind = "{" /\ Last(s).kind = "}"
             /\ \A i \in DOMAIN members : IsNamed(members[i]) ->
               Container("object", [i \in DOMAIN members |-> Member(NameOf(members[i]))],
                         [i \in DOMAIN members |-> SubSeq(members[i], 3, Len(members[i]))])
          [] OTHER -> {}

----------------------------------------------------------------------------
(* Comments.                                                                *)

IsComment(l) == l.kind = "comment"
Plain(s) == SelectSeq(s, LAMBDA l : ~IsComment(l))

\* The runs of comments in s: where one begins, and what stands behind it.
Runs(s) == {r \in (2 .. Len(s)) \X (2 .. Len(s)) :
                /\ r[1] < r[2] /\ ~IsComment(s[r[1] - 1]) /\ ~IsComment(s[r[2]])
                /\ \A i \in r[1] .. r[2] - 1 : IsComment(s[i])}

\* A comment is an error before a colon and in an empty array.
Misplaced(s) ==
    \E r \in Runs(s) : \/ s[r[2]].kind = ":"
                       \/ s[r[1] - 1].kind = "[" /\ s[r[2]].kind = "]"

\* Whether position i is directly in an object.
InObject(s, i) ==
    \E j \in 1 .. i - 1 : /\ s[j].kind = "{" /\ DepthAt(s, j) = DepthAt(s, i) - 1
                         /\ \A k \in j + 1 .. i : DepthAt(s, k) > DepthAt(s, j)

\* Behind a member's value and a comment the reader takes anything for the
\* comma.  Of such a text nothing is said.
Loose(s) ==
    \E r \in Runs(s) : /\ \/ IsClose(s[r[1] - 1])
                          \/ IsScalar(s[r[1] - 1]) /\ s[r[1] - 2].kind \in {":", "comment"}
                       /\ InObject(s, r[2]) /\ s[r[2]].kind \notin {",", "}"}

\* Reading succeeds for the texts that are JSON, and they alone, with the value
\* that the text denotes, whatever the root held before; a text that is not JSON
\* leaves exactly one error, although every open container recovers from it
\* (jsoncpp.cpp 353-457, 666-770, 981-1000).
ReadsGrammar ==
    /\ ErrorOnce
    /\ r_pc = "trail" /\ ~Loose(doc) =>
          /\ success <=> Denote(Plain(doc)) # {} /\ ~Misplaced(doc)
          /\ success => Denote(Plain(doc)) = {root}

----------------------------------------------------------------------------
(* Writing.                                                                 *)

\* Reading tells int from uint by the size alone, and fills the holes.
RECURSIVE Reread(_)
Reread(v) ==
    LET node == v[<<>>]
        Filled == [i \in 1 .. Size(v, <<>>) |-> Reread(ItemsOf(v)[i])]
        names == {key[1] : key \in Keys(v, <<>>)}
    IN  CASE node.type \in {"int", "uint"} ->
               IF node.num <= MaxInt THEN IntValue(node.num) ELSE UIntValue(node.num)
          [] node.type = "array" ->
               FoldLeft(LAMBDA w, i : Put(w, <<Item(i - 1)>>, Filled[i]), v,
                        [i \in DOMAIN Filled |-> i])
          [] node.type = "object" ->
               FoldLeft(LAMBDA w, name : Put(w, <<Member(name)>>, Reread(SubValue(v, <<Member(name)>>))),
                        v, SetToSeq(names))
          [] OTHER -> v

IsTail(b) == b \in 128 .. 191

\* Whether bytes are UTF-8, which the texts of the program are.
RECURSIVE IsUtf8(_)
IsUtf8(bytes) ==
    LET Char(n) == /\ Len(bytes) >= n /\ \A i \in 2 .. n : IsTail(bytes[i])
                   /\ IsUtf8(SubSeq(bytes, n + 1, Len(bytes)))
    IN  \/ bytes = <<>>
        \/ bytes # <<>> /\ bytes[1] < 128 /\ Char(1)
        \/ bytes # <<>> /\ bytes[1] \in 194 .. 223 /\ Char(2)
        \/ /\ bytes # <<>> /\ bytes[1] \in 224 .. 239 /\ Char(3)
           /\ bytes[1] = 224 => bytes[2] >= 160
           /\ bytes[1] = 237 => bytes[2] < 160
        \/ /\ bytes # <<>> /\ bytes[1] \in 240 .. 244 /\ Char(4)
           /\ bytes[1] = 240 => bytes[2] >= 144
           /\ bytes[1] = 244 => bytes[2] < 144

StringsOf(v) == {v[p].str : p \in DOMAIN v} \cup {Last(p)[1] : p \in DOMAIN v \ {<<>>}}

\* What is written is JSON, and is read as the value it was written from, but for
\* the holes and the sign of the integer type; a string that is not UTF-8 is
\* read as another string (jsoncpp.cpp 4251-4496, 5079-5230).
WritesBack(v) ==
    LET read == Denote(WriteString(v))
    IN  /\ Cardinality(read) = 1
        /\ (\A s \in StringsOf(v) : IsUtf8(s)) => \A w \in read : Equal(w, Reread(v))

=============================================================================
