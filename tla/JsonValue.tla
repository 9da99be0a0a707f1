----------------------------- MODULE JsonValue -----------------------------
(***************************************************************************)
(* Json::Value, the tree in which tsender keeps its settings, the command  *)
(* it is serving and the answer it sends.  A value is a function from the  *)
(* paths of its nodes to what each node holds; the empty path is the value *)
(* itself.  An operation that asserts gives the empty set where the        *)
(* assertion fails and throws, and the set of its one result elsewhere.    *)
(*                                                                         *)
(* Integers are short: MaxInt stands for 2^31 - 1, MaxLargestInt for       *)
(* 2^63 - 1, and a double keeps every integer up to DoubleExact, for 2^53, *)
(* and only the even ones above.                                           *)
(***************************************************************************)
EXTENDS Integers, FiniteSets, Sequences, SequencesExt

CONSTANTS MaxInt, MaxLargestInt, DoubleExact

ASSUME ValueAssumption ==
    /\ MaxInt \in Nat \ {0}
    /\ MaxLargestInt \in Nat /\ MaxLargestInt >= 9 /\ MaxLargestInt % 4 = 3
    /\ DoubleExact \in 2 * MaxInt + 1 .. MaxLargestInt

MinInt          == -(MaxInt + 1)
MaxUInt         == 2 * MaxInt + 1
MinLargestInt   == -(MaxLargestInt + 1)
MaxLargestUInt  == 2 * MaxLargestInt + 1

----------------------------------------------------------------------------
(* Nodes and paths.  num is value_'s number (a real's is counted in halves, *)
(* a boolean's is 0 or 1), str is its string, as bytes.                     *)

Node(type, num, str) == [type |-> type, num |-> num, str |-> str]

IsNode(node) ==
    /\ node.type \in {"null", "int", "uint", "real", "boolean", "string", "array", "object"}
    /\ node.num \in CASE node.type \in {"int", "uint", "real"} -> Int
                       [] node.type = "boolean"               -> {0, 1}
                       [] OTHER                               -> {0}

IsValue(v) == <<>> \in DOMAIN v /\ \A p \in DOMAIN v : Len(p) \in Nat /\ IsNode(v[p])

\* A step down is a CZString: a member's name or an item's index.
Member(name) == <<name, -1>>
Item(index) == <<<<>>, index>>

Leaf(type, num, str) == [p \in {<<>>} |-> Node(type, num, str)]

Null               == Leaf("null", 0, <<>>)
IntValue(n)        == Leaf("int", n, <<>>)
UIntValue(n)       == Leaf("uint", n, <<>>)
RealValue(half)    == Leaf("real", half, <<>>)
BooleanValue(b)    == Leaf("boolean", IF b THEN 1 ELSE 0, <<>>)
StringValue(bytes) == Leaf("string", 0, bytes)
Empty(type)        == Leaf(type, 0, <<>>)

IsComplex(type) == type \in {"array", "object"}

Under(v, p) == {q \in DOMAIN v : IsPrefix(p, q)}
Rest(p, q) == SubSeq(q, Len(p) + 1, Len(q))

\* The copy that dupPayload makes of the node at p with all below it.
SubValue(v, p) == [r \in {Rest(p, q) : q \in Under(v, p)} |-> v[p \o r]]

\* w at p, in the place of what was there and below.
Put(v, p, w) ==
    [q \in (DOMAIN v \ Under(v, p)) \cup {p \o r : r \in DOMAIN w} |->
        IF IsPrefix(p, q) THEN w[Rest(p, q)] ELSE v[q]]

Keys(v, p) == {Last(q) : q \in {r \in Under(v, p) : Len(r) = Len(p) + 1}}

\* operator==: the same type and content, holes where the other has holes.
Equal(v, w) == v = w

----------------------------------------------------------------------------
(* Arrays and objects.                                                      *)

\* An array's size is its highest index + 1: it may have holes.
Size(v, p) ==
    CASE v[p].type = "array"  -> LET ends == {key[2] + 1 : key \in Keys(v, p)} \cup {0}
                                 IN  CHOOSE n \in ends : \A m \in ends : m <= n
      [] v[p].type = "object" -> Cardinality(Keys(v, p))
      [] OTHER                -> 0

IsEmpty(v, p) == (v[p].type = "null" \/ IsComplex(v[p].type)) /\ Size(v, p) = 0

\* What the operators [] do first: null becomes an empty array or object, and
\* any other type throws.
Open(v, p, type) ==
    CASE v[p].type = type   -> {v}
      [] v[p].type = "null" -> {Put(v, p, Empty(type))}
      [] OTHER              -> {}

Insert(v, p, key) == IF Append(p, key) \in DOMAIN v THEN v ELSE Put(v, Append(p, key), Null)

\* The operators [] that can write: what is not there is created as a null.
ResolveReference(v, p, name) == {Insert(w, p, Member(name)) : w \in Open(v, p, "object")}
Subscript(v, p, index) == {Insert(w, p, Item(index)) : w \in Open(v, p, "array")}

\* The operators [] const: what is not there reads as null.
Find(v, p, key, type) ==
    IF v[p].type \notin {type, "null"} THEN {}
    ELSE {IF Append(p, key) \in DOMAIN v THEN SubValue(v, Append(p, key)) ELSE Null}

Get(v, p, name) == Find(v, p, Member(name), "object")
GetItem(v, p, index) == Find(v, p, Item(index), "array")

IsMember(v, p, name) == Append(p, Member(name)) \in DOMAIN v

\* value[name] = w and value.append(w).
SetMember(v, p, name, w) ==
    {Put(x, Append(p, Member(name)), w) : x \in ResolveReference(v, p, name)}
AppendItem(v, p, w) ==
    {Put(x, Append(p, Item(Size(v, p))), w) : x \in Subscript(v, p, Size(v, p))}

Clear(v, p) ==
    IF v[p].type = "null" \/ IsComplex(v[p].type) THEN {Put(v, p, Empty(v[p].type))} ELSE {}

----------------------------------------------------------------------------
(* Numbers.                                                                 *)

\* The double nearest to n + half/2 with n >= 0, in halves.
Double(n, half) ==
    IF n <= DoubleExact THEN 2 * n + half
    ELSE 2 * (CASE n % 2 = 0             -> n
                [] half = 1 \/ n % 4 = 3 -> n + 1
                [] OTHER                 -> n - 1)

DoubleOf(n) == IF n < 0 THEN -Double(-n, 0) ELSE Double(n, 0)

IsIntegral(half) == half % 2 = 0

\* A cast of a double drops the fraction.
Truncate(half) == IF half < 0 THEN -((-half) \div 2) ELSE half \div 2

\* InRange compares with the bounds as doubles: the greatest 64-bit integers
\* round up, to values the integer type does not have.
InRange(half, lo, hi) == half >= DoubleOf(lo) /\ half <= DoubleOf(hi)

\* isInt and isUInt; isInt64 and isUInt64 are strict about the upper bound.
Fits(v, lo, hi) ==
    \/ v[<<>>].type \in {"int", "uint"} /\ v[<<>>].num \in lo .. hi
    \/ v[<<>>].type = "real" /\ InRange(v[<<>>].num, lo, hi) /\ IsIntegral(v[<<>>].num)

FitsStrictly(v, lo, hi) ==
    Fits(v, lo, hi) /\ (v[<<>>].type = "real" => v[<<>>].num < DoubleOf(hi))

IsInt(v)    == Fits(v, MinInt, MaxInt)
IsUInt(v)   == Fits(v, 0, MaxUInt)
IsInt64(v)  == FitsStrictly(v, MinLargestInt, MaxLargestInt)
IsUInt64(v) == FitsStrictly(v, 0, MaxLargestUInt)

IsNumeric(v) == v[<<>>].type \in {"int", "uint", "real"}

\* The integer that a value converts to.  A real is only compared with the
\* bounds: one equal to the rounded upper bound passes, and the cast, undefined
\* then, is given here as that bound.
AsIntegral(v, lo, hi) ==
    LET x == v[<<>>]
    IN  CASE x.type \in {"int", "uint"}     -> {n \in {x.num} : n \in lo .. hi}
          [] x.type = "real"                -> {Truncate(r) : r \in {r \in {x.num} : InRange(r, lo, hi)}}
          [] x.type \in {"null", "boolean"} -> {x.num}
          [] OTHER                          -> {}

AsInt(v)    == AsIntegral(v, MinInt, MaxInt)
AsUInt(v)   == AsIntegral(v, 0, MaxUInt)
AsInt64(v)  == AsIntegral(v, MinLargestInt, MaxLargestInt)
AsUInt64(v) == AsIntegral(v, 0, MaxLargestUInt)

\* asDouble, in halves.
AsDouble(v) ==
    CASE v[<<>>].type \in {"int", "uint"}     -> {DoubleOf(v[<<>>].num)}
      [] v[<<>>].type = "real"                -> {v[<<>>].num}
      [] v[<<>>].type \in {"null", "boolean"} -> {2 * v[<<>>].num}
      [] OTHER                                -> {}

AsBool(v) ==
    IF IsNumeric(v) \/ v[<<>>].type \in {"null", "boolean"} THEN {v[<<>>].num # 0} ELSE {}

\* asString: the bytes of a string; a number or a boolean gives its text, which
\* stands here for itself.
AsString(v) ==
    CASE v[<<>>].type \in {"null", "string"}         -> {StringValue(v[<<>>].str)}
      [] IsNumeric(v) \/ v[<<>>].type = "boolean"    -> {v}
      [] OTHER                                       -> {}

IsConvertibleTo(v, type) ==
    LET has == v[<<>>].type
    IN  CASE type = "null"    -> \/ IsNumeric(v) /\ AsDouble(v) = {0}
                                 \/ has = "boolean" /\ v[<<>>].num = 0
                                 \/ has = "string" /\ v[<<>>].str = <<>>
                                 \/ IsEmpty(v, <<>>)
          [] type = "int"     -> \/ IsInt(v) \/ has \in {"boolean", "null"}
                                 \/ has = "real" /\ InRange(v[<<>>].num, MinInt, MaxInt)
          [] type = "uint"    -> \/ IsUInt(v) \/ has \in {"boolean", "null"}
                                 \/ has = "real" /\ InRange(v[<<>>].num, 0, MaxUInt)
          [] type \in {"real", "boolean"} -> IsNumeric(v) \/ has \in {"boolean", "null"}
          [] type = "string"  -> IsNumeric(v) \/ has \in {"boolean", "string", "null"}
          [] OTHER            -> has \in {type, "null"}

=============================================================================
