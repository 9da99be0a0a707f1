------------------------------- MODULE MCJson -------------------------------
(***************************************************************************)
(* The JSON of tsender for TLC: a document is read or a list of recordings *)
(* is built, and every value that results is written, to be read again.    *)
(***************************************************************************)
EXTENDS JsonGrammar, FileList

VARIABLE session \* which of the two a behaviour is

vars == <<session, readerVars, listVars>>

----------------------------------------------------------------------------
(* Documents.                                                               *)

A == <<<<"raw", 97>>>>
BadEscape == <<<<"esc", 113>>>>

\* Documents of all kinds of lexemes, and longer ones of a few: a member may come
\* twice, whatever its value.
MCDocuments ==
    {<<{Punct(kind) : kind \in {"{", "}", "[", "]", ",", ":", "comment", "error"}}
           \cup {Quoted(<<>>), Quoted(A), Quoted(BadEscape), Digits(FALSE, <<1>>, "none")}, 7>>,
     <<{Punct(kind) : kind \in {"{", "}", "[", "]", ",", ":"}} \cup {Quoted(A)}, 9>>}

\* Every number of at most three digits, and every text of at most two of these
\* characters.
Characters ==
    {<<"raw", byte>> : byte \in {10, 97, 127, 128, 195, 169, 240}}
        \cup {<<"esc", letter>> : letter \in {34, 47, 92, 110, 113}}
        \cup {<<"u", n>> : n \in {0, 65, 233, 2048, 55357, 56832, 65535}}
        \cup {<<"bad u", 0>>}

MCWords ==
    {Digits(neg, digits, frac) : neg \in BOOLEAN, digits \in BoundedSeq(0 .. 9, 3) \ {<<>>},
                                 frac \in {"none", "zero", "half", "junk"}}
        \cup {Digits(TRUE, <<>>, "none")}
        \cup {Quoted(text) : text \in BoundedSeq(Characters, 2)}
        \cup {Quoted(<<<<"raw", 240>>, <<"raw", 159>>, <<"raw", 152>>, <<"raw", 128>>>>),
              Quoted(<<<<"raw", 237>>, <<"raw", 160>>, <<"raw", 128>>>>)}
        \cup {Punct(kind) : kind \in {"true", "false", "null"}}

\* RX parses each datagram into the root that holds the one before.
MCOldRoots == {Null, Put(Empty("array"), <<Item(0)>>, IntValue(2))}

----------------------------------------------------------------------------
(* Directories.                                                             *)

Object(name, w) == Put(Empty("object"), <<Member(name)>>, w)
ArrayOf(w) == Put(Empty("array"), <<Item(0)>>, w)

Info(n) == Object(Letter.info, Object(Letter.bit_state, IntValue(n)))
Frame1(w) == Object(Letter.files, ArrayOf(Object(Letter.frame, w)))
Good == Put(Frame1(IntValue(7)), <<Member(Letter.num)>>, IntValue(3))

Sub(dir, name, meta) == [dir |-> dir, name |-> name, meta |-> meta]
Entry(dir, name, info, subs) == [dir |-> dir, name |-> name, info |-> info, subs |-> subs]

\* The channels of a recording, some with a meta.json that does not parse.
MCSubs == {<<>>, <<Sub(FALSE, <<1>>, {})>>, <<Sub(TRUE, <<1>>, {})>>, <<Sub(TRUE, <<1>>, {Good})>>,
           <<Sub(TRUE, <<1>>, {}), Sub(TRUE, <<2>>, {Good})>>,
           <<Sub(TRUE, <<1>>, {Good}), Sub(TRUE, <<2>>, {})>>,
           <<Sub(TRUE, <<1>>, {Good}), Sub(TRUE, <<2>>, {Empty("object")})>>}

\* What parses and is not what the list expects.
Odd == {Empty("array"), IntValue(1), Frame1(StringValue(<<1>>)), Object(Letter.files, Info(1)),
        Object(Letter.info, IntValue(1))}

MCDirectories ==
    {<<>>}
        \cup {<<Entry(TRUE, <<97>>, i[1], s[1]), Entry(TRUE, <<98>>, i[2], s[2])>> :
                  i \in {{}, {Info(1)}} \X {{}, {Info(2)}, {Empty("object")}}, s \in MCSubs \X MCSubs}
        \cup {<<Entry(FALSE, <<99>>, {}, <<>>), Entry(TRUE, <<97>>, {odd}, <<>>)>> : odd \in Odd}
        \cup {<<Entry(TRUE, <<97>>, {}, <<Sub(TRUE, <<1>>, {odd})>>)>> : odd \in Odd}

----------------------------------------------------------------------------
Idle == ReaderInit(Null, Eof, {}, 0)

Init ==
    \/ /\ session = "read" /\ ListInit /\ basepath = <<>>
       /\ ReaderStart
    \/ session = "list" /\ ListInit /\ Idle

Next ==
    /\ UNCHANGED session
    /\ \/ session = "read" /\ ReaderNext /\ UNCHANGED listVars
       \/ session = "list" /\ ListNext /\ UNCHANGED readerVars

Spec == Init /\ [][Next]_vars

----------------------------------------------------------------------------
\* Every value the program reads or lists is written as JSON that is
\* read as that value again (jsoncpp.cpp 4251-4496, 5079-5230).
RoundTrip ==
    /\ session = "read" /\ r_pc = "trail" /\ success => WritesBack(root)
    /\ session = "list" /\ list_pc = "answered" => WritesBack(listing)

=============================================================================
