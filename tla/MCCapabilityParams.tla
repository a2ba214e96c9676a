-------------------------- MODULE MCCapabilityParams --------------------------
(***************************************************************************)
(* CapabilityParams for TLC: the texts that are parsed.                    *)
(***************************************************************************)
EXTENDS CapabilityParams, SequencesExt

CONSTANTS
    TextLength,     \* every text over the vocabulary up to this length
    LiteralLength   \* every string literal of up to so many units

-----------------------------------------------------------------------------
(***************************************************************************)
(* Tokens                                                                  *)
(***************************************************************************)

Number(value) == [kind |-> "number", value |-> value]

Quoted(bytes) == [kind |-> "string", bytes |-> Append(bytes, Quote)]

LetterA == Quoted(<<97>>)
NameMax == Quoted(MaxName)
\* "max\u0000x", which strcmp takes for "max".
NameMaxZero == Quoted(MaxName \o <<92, 117, 48, 48, 48, 48, 120>>)
BadEscape == Quoted(<<92, 122>>)
\* A \u without its digits, which cJSON reads as a zero.
BadUnicode == Quoted(<<92, 117, 103, 104, 105, 106>>)
Control == Quoted(<<9>>)

Vocabulary ==
    {Mark(k) : k \in {"[", "]", "{", "}", ",", ":", "space", "null"}}
        \cup {Number(2), LetterA}

Rare == {Mark("junk"), Mark("bom"), Mark("sign"), Mark("true"), Mark("false"),
         Number(5), Number(Infinite), NameMax, BadEscape, BadUnicode,
         Control}

ShortTexts == BoundedSeq(Vocabulary, TextLength)

-----------------------------------------------------------------------------
(***************************************************************************)
(* Documents, and what becomes of them when one token changes              *)
(***************************************************************************)

Object(name, value) == <<Mark("{"), name, Mark(":")>> \o value \o <<Mark("}")>>
Array(value) == <<Mark("[")>> \o value \o <<Mark("]")>>
Both(x, y) == x \o <<Mark(",")>> \o y

Documents ==
    {Object(NameMax, <<Number(6)>>),
     Array(Both(Array(<<Number(-3)>>), <<LetterA>>)),
     Object(LetterA, Both(Array(<<Mark("true")>>),
                          <<NameMax, Mark(":"), Number(2)>>)),
     <<Mark("bom"), Mark("space")>> \o Array(<<Mark("space"), Mark("null")>>)}

\* Changed in one token, cut off, or with a token more.
Changed(d) ==
    {[d EXCEPT ![i] = t] : i \in 1..Len(d), t \in Vocabulary \cup Rare}
        \cup {SubSeq(d, 1, i) : i \in 1..Len(d)}
        \cup {RemoveAt(d, i) : i \in 1..Len(d)}
        \cup {InsertAt(d, i, t) : i \in 1..Len(d),
                t \in {Mark("space"), Mark(","), Mark("["), Mark("junk")}}
        \cup {Append(d, t) : t \in Vocabulary}

\* Parameters of max-concurrent: the limits, a fraction, two members of one
\* name, a name that only begins alike, something behind the value.
Concurrent ==
    {Object(n, <<v>>) : n \in {NameMax, NameMaxZero, LetterA},
        v \in {Number(k) : k \in {-2, 0, 1, 2, 3, 2048, 2050, Infinite}}
                \cup {Mark("true"), NameMax}}
        \cup {Object(NameMax, Both(<<u>>, <<n, Mark(":"), v>>)) :
                n \in {NameMax, LetterA}, u, v \in {Number(0), Number(2)}}
        \cup {Append(Object(NameMax, <<Number(2)>>), Mark("junk")),
              Array(<<Number(2)>>), <<Number(2)>>,
              Array(Object(NameMax, <<Number(2)>>)),
              Object(LetterA, Object(NameMax, <<Number(2)>>))}

-----------------------------------------------------------------------------
(***************************************************************************)
(* String literals, unit by unit: the characters and escapes, and pieces   *)
(* that make the two loops of parse_string disagree                        *)
(***************************************************************************)

U(a, b, c, d) == <<92, 117, a, b, c, d>>

Units ==
    {<<122>>, <<92, 110>>, <<92, 34>>, <<92, 92>>, <<92, 122>>, <<92, 117>>,
     <<48>>, U(48, 48, 48, 49), U(48, 48, 101, 57), U(50, 48, 65, 67),
     U(68, 56, 51, 68), U(68, 69, 48, 48), U(48, 122, 92, 34)}

StringLiteral(units, close) ==
    [kind |-> "string", bytes |-> FlattenSeq(units) \o close]

\* Closed, and when shorter also without an end and with half an escape.
Literals ==
    {StringLiteral(u, <<Quote>>) : u \in BoundedSeq(Units, LiteralLength)}
        \cup {StringLiteral(u, close) : u \in BoundedSeq(Units, LiteralLength - 1),
                                   close \in {<<>>, <<92>>}}

-----------------------------------------------------------------------------
Request(op, capId, params) == [op |-> op, capId |-> capId, params |-> params]

Requests ==
    {Request("canonical", "none", t) : t \in ShortTexts}
        \cup {Request(op, "none", t) : op \in {"parse", "pretty", "from_json"},
                t \in UNION {Changed(d) : d \in Documents}}
        \cup {Request(op, id, t) : op \in Validators,
                id \in {"max-concurrent", "other"}, t \in Concurrent \cup {<<>>}}
        \cup {Request("canonical", "none", <<l>>) : l \in Literals}
        \cup {Request("constraint_scheme", scheme, <<>>) :
                scheme \in {"NULL", "constraint", "constraint-v1", "tool"}}
=============================================================================
