------------------------------ MODULE JsonGrammar ------------------------------
(***************************************************************************)
(* What a text of tokens means, stated as a grammar and not as a parser:   *)
(* the reference for JsonParser and JsonPrinter.                           *)
(*                                                                         *)
(* A value is a record with a `type', and a `value', `bytes', `items' or   *)
(* `members' as the type asks for.  What a string token stands for is      *)
(* computed from its bytes as RFC 8259 has it; a number token carries its  *)
(* value, and a space token is taken for whitespace of JSON.               *)
(***************************************************************************)
EXTENDS Integers, Sequences, FiniteSets

-----------------------------------------------------------------------------
(***************************************************************************)
(* String literals                                                         *)
(***************************************************************************)

\* The two-character escapes: the character behind the backslash and the one
\* that is meant.
ShortForms == {<<34, 34>>, <<92, 92>>, <<47, 47>>, <<98, 8>>, <<102, 12>>,
               <<110, 10>>, <<114, 13>>, <<116, 9>>}

\* The hexadecimal digits with their values.
HexForms == {<<48 + d, d>> : d \in 0..9}
                \cup {<<55 + d, d>> : d \in 10..15}
                \cup {<<87 + d, d>> : d \in 10..15}

\* The numbers that the four characters from i on write in hexadecimal.
FourDigits(bytes, i) ==
    LET Digit(k) == {f[2] : f \in {f \in HexForms : f[1] = bytes[i + k]}}
    IN  IF i + 3 > Len(bytes) THEN {}
        ELSE {4096 * a + 256 * b + 16 * c + d :
                a \in Digit(0), b \in Digit(1), c \in Digit(2), d \in Digit(3)}

\* UTF-8.
Continuation(codepoint, n) ==
    [k \in 1..n |-> 128 + ((codepoint \div 64^(n - k)) % 64)]
Encoding(codepoint) ==
    CASE codepoint \in 0..127 -> <<codepoint>>
      [] codepoint \in 128..2047 ->
            <<192 + codepoint \div 64>> \o Continuation(codepoint, 1)
      [] codepoint \in 2048..65535 ->
            <<224 + codepoint \div 4096>> \o Continuation(codepoint, 2)
      [] OTHER -> <<240 + codepoint \div 262144>> \o Continuation(codepoint, 3)

HighHalves == 55296..56319
LowHalves == 56320..57343

\* What the bytes behind an opening quote stand for, up to a closing quote
\* at their end: no string of bytes, or one.  Half a surrogate pair stands
\* for nothing.
LiteralMeaning(bytes) ==
    LET Escape(i, c) ==
            i < Len(bytes) /\ bytes[i] = 92 /\ bytes[i + 1] = c
        UnitsAt(i) == IF Escape(i, 117) THEN FourDigits(bytes, i + 2) ELSE {}
        \* The characters that may stand at i, with the bytes they take.
        Characters(i) ==
            (IF bytes[i] \in 32..255 \ {34, 92} THEN {<<1, <<bytes[i]>>>>}
             ELSE {})
                \cup {<<2, <<f[2]>>>> : f \in {f \in ShortForms : Escape(i, f[1])}}
                \cup {<<6, Encoding(u)>> :
                        u \in UnitsAt(i) \ (HighHalves \cup LowHalves)}
                \cup {<<12, Encoding(65536 + 1024 * (h - 55296) + l - 56320)>> :
                        h \in UnitsAt(i) \cap HighHalves,
                        l \in UnitsAt(i + 6) \cap LowHalves}
        M[i \in 1..Len(bytes)] ==
            IF i = Len(bytes) THEN IF bytes[i] = 34 THEN {<<>>} ELSE {}
            ELSE UNION {{c[2] \o rest : rest \in M[i + c[1]]} :
                        c \in {c \in Characters(i) : i + c[1] <= Len(bytes)}}
    IN  IF bytes = <<>> THEN {} ELSE M[1]

-----------------------------------------------------------------------------
(***************************************************************************)
(* Values                                                                  *)
(***************************************************************************)

Scalar(token) ==
    CASE token.kind = "null" -> {[type |-> "NULL"]}
      [] token.kind = "false" -> {[type |-> "False"]}
      [] token.kind = "true" -> {[type |-> "True"]}
      [] token.kind = "number" -> {[type |-> "Number", value |-> token.value]}
      [] token.kind = "string" ->
            {[type |-> "String", bytes |-> b] : b \in LiteralMeaning(token.bytes)}
      [] OTHER -> {}

\* The values, lists of items and lists of members that the tokens i to j of
\* a text without whitespace stand for.
Meanings(s) ==
    LET Between(i, j, open, close) ==
            i < j /\ s[i].kind = open /\ s[j].kind = close
        Commas(i, j) == {k \in i..j : s[k].kind = ","}
        M[what \in {"value", "item", "member", "items", "members"},
          i \in 1..Len(s) + 1, j \in 0..Len(s)] ==
            CASE what = "value" /\ i = j -> Scalar(s[i])
              [] what = "value" /\ Between(i, j, "[", "]") ->
                    {[type |-> "Array", items |-> l] :
                        l \in IF j = i + 1 THEN {<<>>}
                              ELSE M["items", i + 1, j - 1]}
              [] what = "value" /\ Between(i, j, "{", "}") ->
                    {[type |-> "Object", members |-> l] :
                        l \in IF j = i + 1 THEN {<<>>}
                              ELSE M["members", i + 1, j - 1]}
              [] what = "item" -> M["value", i, j]
              [] what = "member" /\ i + 2 <= j ->
                    IF s[i].kind = "string" /\ s[i + 1].kind = ":"
                    THEN {[name |-> n.bytes, value |-> v] :
                            n \in Scalar(s[i]), v \in M["value", i + 2, j]}
                    ELSE {}
              [] what \in {"items", "members"} ->
                    LET one == IF what = "items" THEN "item" ELSE "member"
                    IN  {<<v>> : v \in M[one, i, j]} \cup
                        UNION {{<<v>> \o l : v \in M[one, i, k - 1],
                                             l \in M[what, k + 1, j]} :
                                k \in Commas(i, j)}
              [] OTHER -> {}
    IN  M

\* How deep the brackets of a text nest.
Nesting(s) ==
    LET Count(k, kinds) ==
            Cardinality({i \in 1..k : s[i].kind \in kinds})
        DepthAt(k) == Count(k, {"[", "{"}) - Count(k, {"]", "}"})
    IN  CHOOSE d \in 0..Len(s) :
            /\ \A k \in 0..Len(s) : DepthAt(k) <= d
            /\ \E k \in 0..Len(s) : DepthAt(k) = d

\* The values that the tokens up to the place j stand for, the whitespace
\* aside, nested no deeper than the limit.
Dense(text) == SelectSeq(text, LAMBDA t : t.kind # "space")

ValuesTo(s, j, limit) ==
    IF Nesting(SubSeq(s, 1, j)) <= limit THEN Meanings(s)["value", 1, j] ELSE {}

\* The values that a beginning of the text stands for, and those that the
\* text stands for as a whole.
Beginnings(text, limit) ==
    LET s == Dense(text) IN UNION {ValuesTo(s, j, limit) : j \in 1..Len(s)}

Wholes(text, limit) ==
    LET s == Dense(text)
    IN  IF s = <<>> THEN {} ELSE ValuesTo(s, Len(s), limit)
=============================================================================
