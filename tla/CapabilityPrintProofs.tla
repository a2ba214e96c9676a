----------------------- MODULE CapabilityPrintProofs ------------------------
(***************************************************************************)
(* The printer writes the rendering of the tree: for every tree that       *)
(* parsing can make, formatted or not, and whatever allocation fails, the  *)
(* text that a call returns is the one recursive rendering of its root.    *)
(***************************************************************************)
EXTENDS CapabilityParamsProofs

-----------------------------------------------------------------------------
(***************************************************************************)
(* Texts of tokens and their width                                         *)
(***************************************************************************)

\* Concatenation, of which the proofs below only need what the lemmas say.
s ++ t == s \o t

\* A text of tokens that have a width.
Wide(ts) == IsSequence(ts) /\ \A i \in 1..Len(ts) : Width(ts[i]) \in Nat \ {0}

LEMMA ConcatRegroups ==
    ASSUME NEW a, IsSequence(a), NEW b, IsSequence(b), NEW c, IsSequence(c)
    PROVE  (a \o b) \o c = a \o (b \o c)
<1>1. PICK A : a \in Seq(A)
    BY DEF IsSequence
<1>2. PICK B : b \in Seq(B)
    BY DEF IsSequence
<1>3. PICK C : c \in Seq(C)
    BY DEF IsSequence
<1>4. PICK U : U = A \cup B \cup C
    OBVIOUS
<1>5. a \in Seq(U) /\ b \in Seq(U) /\ c \in Seq(U)
    BY <1>1, <1>2, <1>3, <1>4
<1>. QED  BY <1>5, ConcatAssociative

LEMMA EmptyConcat ==
    ASSUME NEW a, IsSequence(a) PROVE a \o <<>> = a /\ <<>> \o a = a
<1>1. PICK A : a \in Seq(A)
    BY DEF IsSequence
<1>. QED  BY <1>1, ConcatEmptySeq, Zenon

LEMMA AppendedToken ==
    ASSUME NEW a, IsSequence(a), NEW t PROVE Append(a, t) = a \o <<t>>
<1>1. PICK A : a \in Seq(A)
    BY DEF IsSequence
<1>2. PICK U : U = A \cup {t}
    OBVIOUS
<1>3. a \in Seq(U) /\ t \in U
    BY <1>1, <1>2
<1>. QED  BY <1>3, AppendIsConcat, Zenon

LEMMA WideParts ==
    ASSUME NEW ts, Wide(ts)
    PROVE  IsSequence(ts) /\ Len(ts) \in Nat
BY SequenceLength DEF Wide

LEMMA WideEmpty == Wide(<<>>)
BY EmptySequence DEF Wide

\* The partial sums that are the width of a text.
LEMMA WidthUnfolds ==
    ASSUME NEW ts, Wide(ts), NEW N \in Nat, N = Len(ts)
    PROVE  \E g \in [0..N -> Nat] :
              /\ g[0] = 0
              /\ \A n \in 0..N : n < N => g[n + 1] = g[n] + Width(ts[n + 1])
              /\ TotalWidth(ts) = g[N]
<1>1. PICK w : w = [i \in 1..N |-> Width(ts[i])]
    OBVIOUS
<1>2. \A i \in 1..N : w[i] = Width(ts[i]) /\ w[i] \in Nat
    BY <1>1 DEF Wide
<1>3. Len(w) = N
    <2>1. w = [i \in 1..N |-> w[i]]
        BY <1>1
    <2>. QED  BY <2>1, Mapped
<1>4. PICK g \in [0..N -> Nat] :
              /\ g[0] = 0
              /\ \A n \in 0..N : n < N => g[n + 1] = g[n] + w[n + 1]
              /\ Sum(w) = g[N]
    BY <1>2, <1>3, SumUnfolds
<1>5. \A n \in 0..N : n < N => w[n + 1] = Width(ts[n + 1])
    <2>. SUFFICES ASSUME NEW n \in 0..N, n < N PROVE w[n + 1] = Width(ts[n + 1])
        OBVIOUS
    <2>1. n + 1 \in 1..N
        OBVIOUS
    <2>. QED  BY <1>2, <2>1
<1>6. TotalWidth(ts) = Sum(w)
    BY <1>1 DEF TotalWidth
<1>. QED  BY <1>4, <1>5, <1>6

LEMMA WidthType ==
    ASSUME NEW ts, Wide(ts)
    PROVE  TotalWidth(ts) \in Nat /\ (TotalWidth(ts) = 0 => ts = <<>>)
<1>1. PICK N \in Nat : N = Len(ts)
    BY WideParts
<1>2. PICK g \in [0..N -> Nat] :
              /\ g[0] = 0
              /\ \A n \in 0..N : n < N => g[n + 1] = g[n] + Width(ts[n + 1])
              /\ TotalWidth(ts) = g[N]
    BY <1>1, WidthUnfolds
<1>3. ASSUME N # 0 PROVE TotalWidth(ts) # 0
    <2>1. PICK m \in 0..N : m + 1 = N /\ m < N
        <3>1. N - 1 \in 0..N /\ (N - 1) + 1 = N /\ N - 1 < N
            BY <1>3
        <3>. QED  BY <3>1
    <2>2. Width(ts[N]) \in Nat \ {0}
        <3>1. N \in 1..Len(ts)
            BY <1>1, <1>3
        <3>. QED  BY <3>1 DEF Wide
    <2>3. g[m + 1] = g[m] + Width(ts[m + 1])
        BY <1>2, <2>1
    <2>4. g[N] = g[m] + Width(ts[N]) /\ g[m] \in Nat
        BY <1>2, <2>1, <2>3
    <2>. QED  BY <1>2, <2>2, <2>4
<1>4. N = 0 => ts = <<>>
    <2>1. PICK S : ts \in Seq(S)
        BY DEF Wide, IsSequence
    <2>2. N = 0 => Len(ts) = 0
        BY <1>1
    <2>. QED  BY <2>1, <2>2, EmptySeq
<1>5. TotalWidth(ts) \in Nat
    BY <1>2
<1>. QED  BY <1>3, <1>4, <1>5

LEMMA WideConcat ==
    ASSUME NEW s, Wide(s), NEW t, Wide(t)
    PROVE  /\ Wide(s \o t)
           /\ TotalWidth(s \o t) = TotalWidth(s) + TotalWidth(t)
<1>1. IsSequence(s) /\ IsSequence(t)
    BY DEF Wide
<1>2. PICK z : z = s \o t
    OBVIOUS
<1>3. /\ IsSequence(z) /\ Len(s) \in Nat /\ Len(t) \in Nat
      /\ Len(z) = Len(s) + Len(t)
      /\ \A i \in 1..Len(z) :
            \/ i \in 1..Len(s) /\ z[i] = s[i]
            \/ i - Len(s) \in 1..Len(t) /\ z[i] = t[i - Len(s)]
    BY <1>1, <1>2, ConcatPlaces
<1>4. ASSUME NEW i \in 1..Len(z) PROVE Width(z[i]) \in Nat \ {0}
    <2>1. CASE i \in 1..Len(s) /\ z[i] = s[i]
        <3>1. Width(s[i]) \in Nat \ {0}
            BY <2>1, Zenon DEF Wide
        <3>. QED  BY <2>1, <3>1, Zenon
    <2>2. CASE i - Len(s) \in 1..Len(t) /\ z[i] = t[i - Len(s)]
        <3>1. Width(t[i - Len(s)]) \in Nat \ {0}
            BY <2>2, Zenon DEF Wide
        <3>. QED  BY <2>2, <3>1, Zenon
    <2>. QED  BY <1>3, <2>1, <2>2
<1>5. Wide(z)
    BY <1>3, <1>4 DEF Wide
<1>6. PICK A \in Nat, B \in Nat, C \in Nat : A = Len(s) /\ B = Len(t) /\ C = Len(z)
    BY <1>3
<1>7. C = A + B
    BY <1>3, <1>6
<1>8. \A i \in 1..C : IF i <= A THEN z[i] = s[i] ELSE z[i] = t[i - A]
    <2>1. ASSUME NEW i \in 1..C
          PROVE  (i <= A => z[i] = s[i]) /\ (~(i <= A) => z[i] = t[i - A])
        <3>1. \/ i \in 1..A /\ z[i] = s[i]
              \/ i - A \in 1..B /\ z[i] = t[i - A]
            BY <1>3, <1>6
        <3>. QED  BY <3>1
    <2>. QED  BY <2>1
<1>9. PICK g \in [0..A -> Nat] :
              /\ g[0] = 0
              /\ \A n \in 0..A : n < A => g[n + 1] = g[n] + Width(s[n + 1])
              /\ TotalWidth(s) = g[A]
    BY <1>6, WidthUnfolds
<1>10. PICK h \in [0..B -> Nat] :
              /\ h[0] = 0
              /\ \A n \in 0..B : n < B => h[n + 1] = h[n] + Width(t[n + 1])
              /\ TotalWidth(t) = h[B]
    BY <1>6, WidthUnfolds
<1>11. PICK k \in [0..C -> Nat] :
              /\ k[0] = 0
              /\ \A n \in 0..C : n < C => k[n + 1] = k[n] + Width(z[n + 1])
              /\ TotalWidth(z) = k[C]
    BY <1>5, <1>6, WidthUnfolds
<1>. DEFINE T == {n \in 0..A : k[n] = g[n]}
            U == {n \in 0..B : k[A + n] = g[A] + h[n]}
<1>12. 0 \in T
    BY <1>9, <1>11
<1>13. ASSUME NEW n \in 0..A, n \in T, n < A PROVE n + 1 \in T
    <2>1. n \in 0..C /\ n < C /\ n + 1 \in 1..C /\ n + 1 <= A /\ n + 1 \in 0..A
        BY <1>7, <1>13
    <2>2. z[n + 1] = s[n + 1]
        BY <1>8, <2>1
    <2>3. k[n + 1] = k[n] + Width(s[n + 1])
        BY <1>11, <2>1, <2>2
    <2>4. g[n + 1] = g[n] + Width(s[n + 1])
        BY <1>9, <1>13
    <2>. QED  BY <1>13, <2>1, <2>3, <2>4
<1>14. 0..A \subseteq T
    <2>. HIDE DEF T
    <2>. QED  BY <1>12, <1>13, Induct
<1>15. k[A] = g[A] /\ A \in 0..C /\ g[A] \in Nat
    BY <1>7, <1>14
<1>16. 0 \in U
    BY <1>10, <1>15
<1>17. ASSUME NEW n \in 0..B, n \in U, n < B PROVE n + 1 \in U
    <2>1. A + n \in 0..C /\ A + n < C /\ (A + n) + 1 \in 1..C /\ ~((A + n) + 1 <= A)
          /\ n + 1 \in 0..B /\ ((A + n) + 1) - A = n + 1 /\ (A + n) + 1 = A + (n + 1)
        BY <1>7, <1>17
    <2>2. z[(A + n) + 1] = t[n + 1]
        BY <1>8, <2>1
    <2>3. k[(A + n) + 1] = k[A + n] + Width(t[n + 1])
        BY <1>11, <2>1, <2>2
    <2>4. h[n + 1] = h[n] + Width(t[n + 1])
        BY <1>10, <1>17
    <2>5. Width(t[n + 1]) \in Nat
        <3>1. n + 1 \in 1..Len(t)
            BY <1>6, <1>17
        <3>. QED  BY <3>1 DEF Wide
    <2>6. PICK x \in Nat, y \in Nat : x = Width(t[n + 1]) /\ y = h[n]
        BY <1>10, <2>5
    <2>7. k[A + (n + 1)] = g[A] + (y + x)
        BY <1>15, <1>17, <2>1, <2>3, <2>6
    <2>. QED  BY <2>1, <2>4, <2>6, <2>7
<1>18. 0..B \subseteq U
    <2>. HIDE DEF U
    <2>. QED  BY <1>16, <1>17, Induct
<1>19. k[A + B] = g[A] + h[B]
    BY <1>18
<1>20. TotalWidth(z) = TotalWidth(s) + TotalWidth(t)
    BY <1>7, <1>9, <1>10, <1>11, <1>19
<1>. QED  BY <1>2, <1>5, <1>20

LEMMA Associative ==
    ASSUME NEW a, IsSequence(a), NEW b, IsSequence(b), NEW c, IsSequence(c)
    PROVE  (a ++ b) ++ c = a ++ (b ++ c)
BY ConcatRegroups DEF ++

LEMMA JoinsIn ==
    ASSUME NEW a, IsSequence(a), NEW b, IsSequence(b) PROVE IsSequence(a ++ b)
BY ConcatPlaces DEF ++

LEMMA NothingAdded ==
    ASSUME NEW a, IsSequence(a) PROVE a ++ <<>> = a /\ <<>> ++ a = a
BY EmptyConcat DEF ++

LEMMA WideJoins ==
    ASSUME NEW s, Wide(s), NEW t, Wide(t)
    PROVE  /\ Wide(s ++ t)
           /\ TotalWidth(s ++ t) = TotalWidth(s) + TotalWidth(t)
BY WideConcat DEF ++

LEMMA WideToken ==
    ASSUME NEW t, Width(t) \in Nat \ {0}
    PROVE  Wide(<<t>>) /\ TotalWidth(<<t>>) = Width(t)
<1>1. PICK ts : ts = <<t>>
    OBVIOUS
<1>2. IsSequence(ts) /\ Len(ts) = 1
    BY <1>1, Tuples, Zenon
<1>3. ts[1] = t
    BY <1>1
<1>4. \A i \in 1..Len(ts) : i = 1
    BY <1>2
<1>5. Wide(ts)
    BY <1>2, <1>3, <1>4 DEF Wide
<1>6. TotalWidth(<<t>>) = Width(t)
    BY OneToken
<1>. QED  BY <1>1, <1>5, <1>6

LEMMA WideNarrow ==
    ASSUME NEW ts, Narrow(ts) PROVE Wide(ts) /\ TotalWidth(ts) = Len(ts)
<1>1. \A i \in 1..Len(ts) : Width(ts[i]) \in Nat \ {0}
    BY DEF Narrow
<1>. QED  BY <1>1, NarrowWidth DEF Wide, Narrow

LEMMA NumberWide ==
    ASSUME NEW value PROVE Width(NumberToken(value)) \in Nat \ {0}
<1>1. CASE value = Infinite
    <2>1. NumberToken(value) = Mark("null")
        BY <1>1 DEF NumberToken
    <2>2. Mark("null").kind = "null"
        BY DEF Mark
    <2>3. Width(Mark("null")) = 4
        BY <2>2 DEF Width
    <2>. QED  BY <2>1, <2>3
<1>2. CASE value # Infinite
    <2>1. PICK t : t = NumberToken(value)
        OBVIOUS
    <2>2. t.kind = "number" /\ t.value = value
        BY <1>2, <2>1 DEF NumberToken
    <2>3. PICK m : m = Magnitude(value) \div 2
        OBVIOUS
    <2>4. PICK d : d = Digits(m)
        OBVIOUS
    <2>5. d \in Nat \ {0}
        <3>1. PICK K : K = {k \in 1..9 : m >= 10^k}
            OBVIOUS
        <3>2. K \subseteq 1..9
            BY <3>1
        <3>3. IsFiniteSet(1..9)
            <4>1. PICK n \in Nat : n = 9
                OBVIOUS
            <4>2. IsFiniteSet(1..n)
                BY FS_Interval
            <4>. QED  BY <4>1, <4>2
        <3>4. IsFiniteSet(K)
            BY <3>2, <3>3, FS_Subset
        <3>5. PICK c \in Nat : c = Cardinality(K)
            BY <3>4, FS_CardinalityType
        <3>6. d = 1 + c
            BY <2>4, <3>1, <3>5 DEF Digits
        <3>. QED  BY <3>6
    <2>6. PICK s \in Nat, h \in Nat :
              /\ s = (IF value < 0 THEN 1 ELSE 0)
              /\ h = (IF value % 2 = 0 THEN 0 ELSE 2)
        OBVIOUS
    <2>7. Width(t) = d + s + h
        BY <2>2, <2>3, <2>4, <2>6 DEF Width
    <2>. QED  BY <2>1, <2>5, <2>6, <2>7
<1>. QED  BY <1>1, <1>2

LEMMA MarkWide ==
    ASSUME NEW kind \in Punctuation \cup {"null", "true", "false"}
    PROVE  Width(Mark(kind)) \in Nat \ {0}
<1>1. Mark(kind).kind = kind
    BY DEF Mark
<1>2. Width(Mark(kind)) \in {1, 4, 5}
    BY <1>1 DEF Width, Punctuation
<1>. QED  BY <1>2

-----------------------------------------------------------------------------
(***************************************************************************)
(* The rendering of a tree                                                 *)
(***************************************************************************)

Blank(f, n) == IF f THEN Spaces(n) ELSE <<>>
TextOf(H, b) == StringToken(IF b = Null THEN <<>> ELSE CString(H[b].bytes))
CommaOf(H, p) == IF H[p].next = Null THEN <<>> ELSE <<Mark(",")>>

\* The tokens that the items of H are printed with.
Marks == {Mark(k) : k \in Punctuation \cup {"null", "true", "false"}}

Tokens(H) ==
    Marks \cup {NumberToken(H[p].valuedouble) : p \in Items(H)}
        \cup {TextOf(H, b) : b \in {c \in DOMAIN H \cup {Null} : c = Null \/ IsSequence(H[c].bytes)}}

\* The text of an item around that of its list, and of a list from its first
\* item on.
ScalarText(H, p) ==
    CASE H[p].type = "NULL" -> <<Mark("null")>>
      [] H[p].type = "False" -> <<Mark("false")>>
      [] H[p].type = "True" -> <<Mark("true")>>
      [] H[p].type = "Number" -> <<NumberToken(H[p].valuedouble)>>
      [] H[p].type = "String" -> <<TextOf(H, H[p].valuestring)>>

EndText(type, f, d) ==
    IF type = "Array" THEN <<Mark("]")>> ELSE Blank(f, d) ++ <<Mark("}")>>

BeginText(type, f) ==
    IF type = "Array" THEN <<Mark("[")>> ELSE <<Mark("{")>> ++ Blank(f, 1)

ValueText(H, f, p, d, inner) ==
    IF H[p].type \in Containers
    THEN BeginText(H[p].type, f) ++ (inner ++ EndText(H[p].type, f, d))
    ELSE ScalarText(H, p)

\* What lies between an element and the next one.
BetweenItems(H, f, p) == CommaOf(H, p) ++ Blank(f, Len(CommaOf(H, p)))
BetweenMembers(H, f, p) == CommaOf(H, p) ++ Blank(f, 1)

ColonText(f) == <<Mark(":")>> ++ Blank(f, 1)

ItemsText(H, f, p, value, following) ==
    value ++ (BetweenItems(H, f, p) ++ following)

MembersText(H, f, p, d, value, following) ==
    Blank(f, d) ++ (<<TextOf(H, H[p].string)>>
        ++ (ColonText(f) ++ (value ++ (BetweenMembers(H, f, p) ++ following))))

ListOf(type) == IF type = "Array" THEN "items" ELSE "members"

Kinds == {"value", "items", "members"}
RenderSteps(H) == Kinds \X (Items(H) \cup {Null}) \X Nat
Texted(H) == [RenderSteps(H) -> Seq(Tokens(H))]

\* g gives every item and every list of H its text.
IsRendered(H, f, g) ==
    /\ \A x \in RenderSteps(H) : Wide(g[x])
    /\ \A d \in Nat : g[<<"items", Null, d>>] = <<>> /\ g[<<"members", Null, d>>] = <<>>
    /\ \A p \in Items(H) : \A d \in Nat :
          /\ g[<<"value", p, d>>] =
                ValueText(H, f, p, d, g[<<ListOf(H[p].type), H[p].child, d + 1>>])
          /\ g[<<"items", p, d>>] =
                ItemsText(H, f, p, g[<<"value", p, d>>], g[<<"items", H[p].next, d>>])
          /\ g[<<"members", p, d>>] =
                MembersText(H, f, p, d, g[<<"value", p, d>>], g[<<"members", H[p].next, d>>])

LEMMA TokensWide ==
    ASSUME NEW H, NEW t \in Tokens(H)
    PROVE  Width(t) \in Nat \ {0}
<1>1. CASE t \in Marks
    BY <1>1, MarkWide DEF Marks
<1>2. CASE t \in {NumberToken(H[p].valuedouble) : p \in Items(H)}
    BY <1>2, NumberWide
<1>3. CASE t \in {TextOf(H, b) : b \in {c \in DOMAIN H \cup {Null} : c = Null \/ IsSequence(H[c].bytes)}}
    <2>1. PICK b : (b = Null \/ IsSequence(H[b].bytes)) /\ t = TextOf(H, b)
        BY <1>3
    <2>2. PICK s : s = IF b = Null THEN <<>> ELSE CString(H[b].bytes)
        OBVIOUS
    <2>3. IsSequence(s)
        BY <2>1, <2>2, CStringIsSequence, EmptySequence
    <2>4. t = StringToken(s)
        BY <2>1, <2>2 DEF TextOf
    <2>5. PICK n \in Nat : n = Len(t.bytes)
        BY <2>3, <2>4, StringTokenFits
    <2>6. t.kind = "string"
        BY <2>3, <2>4, StringTokenFits
    <2>7. Width(t) = 1 + n
        BY <2>5, <2>6 DEF Width
    <2>. QED  BY <2>7
<1>. QED  BY <1>1, <1>2, <1>3 DEF Tokens

LEMMA TextsWide ==
    ASSUME NEW H, NEW s \in Seq(Tokens(H))
    PROVE  Wide(s)
<1>1. IsSequence(s)
    BY DEF IsSequence
<1>2. \A i \in 1..Len(s) : s[i] \in Tokens(H)
    OBVIOUS
<1>. QED  BY <1>1, <1>2, TokensWide DEF Wide

LEMMA SeqParts ==
    ASSUME NEW S, NEW a \in Seq(S), NEW b \in Seq(S)
    PROVE  a ++ b \in Seq(S) /\ IsSequence(a)
BY DEF IsSequence, ++

LEMMA OneIn == ASSUME NEW S, NEW t \in S PROVE <<t>> \in Seq(S)
OBVIOUS

LEMMA NoneIn == ASSUME NEW S PROVE <<>> \in Seq(S)
OBVIOUS

LEMMA MarksIn ==
    ASSUME NEW H, NEW k \in Punctuation \cup {"null", "true", "false"}
    PROVE  <<Mark(k)>> \in Seq(Tokens(H))
<1>1. Mark(k) \in Tokens(H)
    BY DEF Tokens, Marks
<1>. QED  BY <1>1, OneIn

LEMMA SpacesIn ==
    ASSUME NEW H, NEW n \in Nat PROVE Spaces(n) \in Seq(Tokens(H))
<1>1. PICK m \in Tokens(H) : m = Mark("space")
    BY DEF Tokens, Marks, Punctuation
<1>2. Spaces(n) = [i \in 1..n |-> m]
    BY <1>1 DEF Spaces
<1>3. [i \in 1..n |-> m] \in Seq(Tokens(H))
    OBVIOUS
<1>. QED  BY <1>2, <1>3

LEMMA BlankIn ==
    ASSUME NEW H, NEW f, NEW n \in Nat PROVE Blank(f, n) \in Seq(Tokens(H))
BY SpacesIn, NoneIn DEF Blank

LEMMA CommaIn ==
    ASSUME NEW H, NEW p PROVE CommaOf(H, p) \in Seq(Tokens(H)) /\ Len(CommaOf(H, p)) \in Nat
<1>1. CommaOf(H, p) \in Seq(Tokens(H))
    <2>1. <<Mark(",")>> \in Seq(Tokens(H))
        BY MarksIn DEF Punctuation
    <2>. QED  BY <2>1, NoneIn DEF CommaOf
<1>. QED  BY <1>1

LEMMA BetweenIn ==
    ASSUME NEW H, NEW f, NEW p
    PROVE  /\ BetweenItems(H, f, p) \in Seq(Tokens(H))
           /\ BetweenMembers(H, f, p) \in Seq(Tokens(H))
<1>1. PICK c \in Seq(Tokens(H)) : c = CommaOf(H, p) /\ Len(c) \in Nat
    BY CommaIn
<1>2. PICK n \in Nat : n = Len(c)
    BY <1>1
<1>3. Blank(f, n) \in Seq(Tokens(H)) /\ Blank(f, 1) \in Seq(Tokens(H))
    BY BlankIn
<1>4. c ++ Blank(f, n) \in Seq(Tokens(H)) /\ c ++ Blank(f, 1) \in Seq(Tokens(H))
    BY <1>1, <1>3, SeqParts
<1>. QED  BY <1>1, <1>2, <1>4 DEF BetweenItems, BetweenMembers

LEMMA ColonIn == ASSUME NEW H, NEW f PROVE ColonText(f) \in Seq(Tokens(H))
<1>1. <<Mark(":")>> \in Seq(Tokens(H))
    BY MarksIn DEF Punctuation
<1>2. Blank(f, 1) \in Seq(Tokens(H))
    BY BlankIn
<1>. QED  BY <1>1, <1>2, SeqParts DEF ColonText

LEMMA EndsIn ==
    ASSUME NEW H, NEW f, NEW type, NEW d \in Nat
    PROVE  BeginText(type, f) \in Seq(Tokens(H)) /\ EndText(type, f, d) \in Seq(Tokens(H))
<1>1. /\ <<Mark("[")>> \in Seq(Tokens(H)) /\ <<Mark("]")>> \in Seq(Tokens(H))
      /\ <<Mark("{")>> \in Seq(Tokens(H)) /\ <<Mark("}")>> \in Seq(Tokens(H))
    BY MarksIn DEF Punctuation
<1>2. Blank(f, 1) \in Seq(Tokens(H)) /\ Blank(f, d) \in Seq(Tokens(H))
    BY BlankIn
<1>. QED  BY <1>1, <1>2, SeqParts DEF BeginText, EndText

LEMMA ScalarIn ==
    ASSUME NEW H, Typed(H), NEW p \in Items(H), Printable(H, p), H[p].type \notin Containers
    PROVE  ScalarText(H, p) \in Seq(Tokens(H))
<1>1. H[p].type \in {"NULL", "False", "True", "Number", "String"}
    BY DEF Printable, Whole, Containers
<1>2. CASE H[p].type \in {"NULL", "False", "True"}
    <2>1. /\ <<Mark("null")>> \in Seq(Tokens(H)) /\ <<Mark("false")>> \in Seq(Tokens(H))
          /\ <<Mark("true")>> \in Seq(Tokens(H))
        BY MarksIn
    <2>. QED  BY <1>2, <2>1 DEF ScalarText
<1>3. CASE H[p].type = "Number"
    <2>1. NumberToken(H[p].valuedouble) \in Tokens(H)
        BY DEF Tokens
    <2>. QED  BY <1>3, <2>1, OneIn DEF ScalarText
<1>4. CASE H[p].type = "String"
    <2>1. PICK b : b = H[p].valuestring
        OBVIOUS
    <2>2. IsSequence(H[b].bytes)
        BY <1>4, <2>1 DEF Printable
    <2>3. b \in DOMAIN H
        <3>1. b # Null
            BY <1>4, <2>1 DEF Printable
        <3>. QED  BY <2>1, <3>1, FieldTypes
    <2>4. TextOf(H, b) \in Tokens(H)
        BY <2>2, <2>3 DEF Tokens
    <2>. QED  BY <1>4, <2>1, <2>4, OneIn DEF ScalarText
<1>. QED  BY <1>1, <1>2, <1>3, <1>4

-----------------------------------------------------------------------------
LEMMA Regroup ==
    ASSUME NEW a, IsSequence(a), NEW b, IsSequence(b), NEW c, IsSequence(c),
           NEW d, IsSequence(d)
    PROVE  ((a ++ b) ++ c) ++ d = a ++ ((b ++ c) ++ d)
<1>1. IsSequence(b ++ c)
    BY JoinsIn
<1>2. (a ++ b) ++ c = a ++ (b ++ c)
    BY Associative
<1>3. (a ++ (b ++ c)) ++ d = a ++ ((b ++ c) ++ d)
    BY <1>1, Associative
<1>. QED  BY <1>2, <1>3

LEMMA RegroupEnd ==
    ASSUME NEW a, IsSequence(a), NEW b, IsSequence(b), NEW c, IsSequence(c),
           NEW d, IsSequence(d)
    PROVE  ((a ++ b) ++ c) ++ d = a ++ (b ++ (c ++ d))
<1>1. IsSequence(a ++ b) /\ IsSequence(c ++ d)
    BY JoinsIn
<1>2. ((a ++ b) ++ c) ++ d = (a ++ b) ++ (c ++ d)
    BY <1>1, Associative
<1>3. (a ++ b) ++ (c ++ d) = a ++ (b ++ (c ++ d))
    BY <1>1, Associative
<1>. QED  BY <1>2, <1>3

AreSequences(i, n, m, s, v, c, r) ==
    /\ IsSequence(i) /\ IsSequence(n) /\ IsSequence(m) /\ IsSequence(s)
    /\ IsSequence(v) /\ IsSequence(c) /\ IsSequence(r)

LEMMA RegroupMember ==
    ASSUME NEW i, NEW n, NEW m, NEW s, NEW v, NEW c, NEW r,
           AreSequences(i, n, m, s, v, c, r)
    PROVE  (((((i ++ (n ++ m)) ++ s) ++ v) ++ c) ++ s) ++ r
              = i ++ (n ++ ((m ++ s) ++ (v ++ ((c ++ s) ++ r))))
<1>. USE DEF AreSequences
<1>1. IsSequence(n ++ m) /\ IsSequence(m ++ s) /\ IsSequence(c ++ s)
    BY JoinsIn
<1>2. IsSequence(n ++ (m ++ s)) /\ IsSequence((c ++ s) ++ r)
    BY <1>1, JoinsIn
<1>3. PICK k : k = i ++ (n ++ (m ++ s))
    OBVIOUS
<1>4. (i ++ (n ++ m)) ++ s = k
    <2>1. (i ++ (n ++ m)) ++ s = i ++ ((n ++ m) ++ s)
        BY <1>1, Associative
    <2>2. (n ++ m) ++ s = n ++ (m ++ s)
        BY Associative
    <2>. QED  BY <1>3, <2>1, <2>2
<1>5. IsSequence(k) /\ IsSequence(k ++ v)
    <2>1. IsSequence(k)
        BY <1>2, <1>3, JoinsIn
    <2>. QED  BY <2>1, JoinsIn
<1>6. (((k ++ v) ++ c) ++ s) ++ r = (k ++ v) ++ ((c ++ s) ++ r)
    BY <1>5, Regroup
<1>7. PICK z : z = v ++ ((c ++ s) ++ r)
    OBVIOUS
<1>8. IsSequence(z)
    BY <1>2, <1>7, JoinsIn
<1>9. (k ++ v) ++ ((c ++ s) ++ r) = k ++ z
    BY <1>2, <1>5, <1>7, Associative
<1>10. k ++ z = i ++ ((n ++ (m ++ s)) ++ z)
    BY <1>2, <1>3, <1>8, Associative
<1>11. (n ++ (m ++ s)) ++ z = n ++ ((m ++ s) ++ z)
    BY <1>1, <1>8, Associative
<1>. QED  BY <1>4, <1>6, <1>7, <1>9, <1>10, <1>11

LEMMA ValueIn ==
    ASSUME NEW H, Typed(H), NEW f, NEW p \in Items(H), Printable(H, p), NEW d \in Nat,
           NEW inner \in Seq(Tokens(H))
    PROVE  ValueText(H, f, p, d, inner) \in Seq(Tokens(H))
<1>1. CASE H[p].type \in Containers
    <2>1. PICK b \in Seq(Tokens(H)), e \in Seq(Tokens(H)) :
            b = BeginText(H[p].type, f) /\ e = EndText(H[p].type, f, d)
        BY EndsIn
    <2>2. b ++ (inner ++ e) \in Seq(Tokens(H))
        BY SeqParts
    <2>. QED  BY <1>1, <2>1, <2>2 DEF ValueText
<1>2. CASE H[p].type \notin Containers
    BY <1>2, ScalarIn DEF ValueText
<1>. QED  BY <1>1, <1>2

LEMMA ItemsIn ==
    ASSUME NEW H, NEW f, NEW p, NEW v \in Seq(Tokens(H)), NEW r \in Seq(Tokens(H))
    PROVE  ItemsText(H, f, p, v, r) \in Seq(Tokens(H))
<1>1. PICK b \in Seq(Tokens(H)) : b = BetweenItems(H, f, p)
    BY BetweenIn
<1>2. v ++ (b ++ r) \in Seq(Tokens(H))
    BY SeqParts
<1>. QED  BY <1>1, <1>2 DEF ItemsText

LEMMA NameIn ==
    ASSUME NEW H, Typed(H), NEW p \in Items(H), Printable(H, p)
    PROVE  <<TextOf(H, H[p].string)>> \in Seq(Tokens(H))
<1>1. PICK b : b = H[p].string
    OBVIOUS
<1>2. b = Null \/ IsSequence(H[b].bytes)
    BY <1>1 DEF Named, Printable
<1>3. b \in DOMAIN H \cup {Null}
    BY <1>1, FieldTypes
<1>4. TextOf(H, b) \in Tokens(H)
    BY <1>2, <1>3 DEF Tokens
<1>. QED  BY <1>1, <1>4, OneIn

LEMMA MembersIn ==
    ASSUME NEW H, Typed(H), NEW f, NEW p \in Items(H), Printable(H, p),
           NEW d \in Nat, NEW v \in Seq(Tokens(H)), NEW r \in Seq(Tokens(H))
    PROVE  MembersText(H, f, p, d, v, r) \in Seq(Tokens(H))
<1>1. PICK b \in Seq(Tokens(H)), i \in Seq(Tokens(H)), c \in Seq(Tokens(H)),
           n \in Seq(Tokens(H)) :
         /\ b = BetweenMembers(H, f, p) /\ i = Blank(f, d) /\ c = ColonText(f)
         /\ n = <<TextOf(H, H[p].string)>>
    BY BetweenIn, BlankIn, ColonIn, NameIn
<1>2. i ++ (n ++ (c ++ (v ++ (b ++ r)))) \in Seq(Tokens(H))
    <2>1. c ++ (v ++ (b ++ r)) \in Seq(Tokens(H))
        BY SeqParts
    <2>. QED  BY <2>1, SeqParts
<1>. QED  BY <1>1, <1>2 DEF MembersText

-----------------------------------------------------------------------------
\* The body of the recursive function of Rendering.
Body(formatted, R, x) ==
    LET Space(n) == IF formatted THEN Spaces(n) ELSE <<>>
        String(p) == StringToken(CharactersOf(p))
        Separator(p) == IF heap[p].next = Null THEN <<>> ELSE <<Mark(",")>>
        p == x[2]
        d == x[3]
        Value == R[<<"value", p, d>>]
        Following == R[<<x[1], heap[p].next, d>>]
    IN  CASE p = Null -> <<>>
          [] p # Null /\ x[1] = "items" ->
                Value \o Separator(p) \o Space(Len(Separator(p)))
                    \o Following
          [] p # Null /\ x[1] = "members" ->
                Space(d) \o <<String(heap[p].string), Mark(":")>>
                    \o Space(1) \o Value \o Separator(p) \o Space(1)
                    \o Following
          [] OTHER ->
                CASE heap[p].type = "NULL" -> <<Mark("null")>>
                  [] heap[p].type = "False" -> <<Mark("false")>>
                  [] heap[p].type = "True" -> <<Mark("true")>>
                  [] heap[p].type = "Number" ->
                        <<NumberToken(heap[p].valuedouble)>>
                  [] heap[p].type = "String" ->
                        <<String(heap[p].valuestring)>>
                  [] heap[p].type = "Array" ->
                        <<Mark("[")>> \o R[<<"items", heap[p].child, d + 1>>]
                            \o <<Mark("]")>>
                  [] heap[p].type = "Object" ->
                        <<Mark("{")>> \o Space(1)
                            \o R[<<"members", heap[p].child, d + 1>>]
                            \o Space(d) \o <<Mark("}")>>

ModelSteps == {"value", "items", "members"}
                    \X ({q \in Live : IsItem(q)} \cup {Null}) \X Nat

LEMMA RenderingIsChosen ==
    ASSUME NEW top, NEW f
    PROVE  Rendering(top, f) =
              (CHOOSE R : R = [x \in ModelSteps |-> Body(f, R, x)])[<<"value", top, 0>>]
BY DEF Rendering, Body, ModelSteps

LEMMA ModelStepsAre == ModelSteps = RenderSteps(heap)
<1>1. {q \in Live : IsItem(q)} = Items(heap)
    BY DEF IsItem, Items, Live
<1>. QED  BY <1>1 DEF ModelSteps, RenderSteps, Kinds

LEMMA BodyNull ==
    ASSUME NEW f, NEW g, NEW w, NEW d PROVE Body(f, g, <<w, Null, d>>) = <<>>
BY DEF Body

LEMMA BodyItems ==
    ASSUME NEW f, NEW g \in Texted(heap), Typed(heap), NEW p \in Items(heap), NEW d \in Nat
    PROVE  Body(f, g, <<"items", p, d>>) =
              ItemsText(heap, f, p, g[<<"value", p, d>>], g[<<"items", heap[p].next, d>>])
<1>0. p # Null /\ heap[p].next \in Items(heap) \cup {Null}
    BY FieldTypes
<1>1. PICK v, r : v = g[<<"value", p, d>>] /\ r = g[<<"items", heap[p].next, d>>]
    OBVIOUS
<1>2. v \in Seq(Tokens(heap)) /\ r \in Seq(Tokens(heap))
    <2>1. <<"value", p, d>> \in RenderSteps(heap)
          /\ <<"items", heap[p].next, d>> \in RenderSteps(heap)
        BY <1>0 DEF RenderSteps, Kinds
    <2>. QED  BY <1>1, <2>1 DEF Texted
<1>3. PICK c \in Seq(Tokens(heap)) : c = CommaOf(heap, p) /\ Len(c) \in Nat
    BY CommaIn
<1>4. PICK s \in Seq(Tokens(heap)) : s = Blank(f, Len(c))
    BY <1>3, BlankIn
<1>5. Body(f, g, <<"items", p, d>>) = v ++ c ++ s ++ r
    BY <1>0, <1>1, <1>3, <1>4 DEF Body, CommaOf, Blank, ++
<1>6. IsSequence(v) /\ IsSequence(c) /\ IsSequence(s) /\ IsSequence(r)
    BY <1>2 DEF IsSequence
<1>7. ((v ++ c) ++ s) ++ r = v ++ ((c ++ s) ++ r)
    BY <1>6, Regroup
<1>. QED  BY <1>1, <1>3, <1>4, <1>5, <1>7 DEF ItemsText, BetweenItems

LEMMA BodyMembers ==
    ASSUME NEW f, NEW g \in Texted(heap), Typed(heap), NEW p \in Items(heap), NEW d \in Nat,
           Printable(heap, p)
    PROVE  Body(f, g, <<"members", p, d>>) =
              MembersText(heap, f, p, d, g[<<"value", p, d>>],
                          g[<<"members", heap[p].next, d>>])
<1>0. p # Null /\ heap[p].next \in Items(heap) \cup {Null}
    BY FieldTypes
<1>1. PICK v, r : v = g[<<"value", p, d>>] /\ r = g[<<"members", heap[p].next, d>>]
    OBVIOUS
<1>2. v \in Seq(Tokens(heap)) /\ r \in Seq(Tokens(heap))
    <2>1. <<"value", p, d>> \in RenderSteps(heap)
          /\ <<"members", heap[p].next, d>> \in RenderSteps(heap)
        BY <1>0 DEF RenderSteps, Kinds
    <2>. QED  BY <1>1, <2>1 DEF Texted
<1>3. PICK c \in Seq(Tokens(heap)), s \in Seq(Tokens(heap)), i \in Seq(Tokens(heap)),
           m \in Seq(Tokens(heap)), n \in Seq(Tokens(heap)) :
        /\ c = CommaOf(heap, p) /\ s = Blank(f, 1) /\ i = Blank(f, d)
        /\ m = <<Mark(":")>> /\ n = <<TextOf(heap, heap[p].string)>>
    BY CommaIn, BlankIn, MarksIn, NameIn DEF Punctuation
<1>4. PICK b : b = <<TextOf(heap, heap[p].string), Mark(":")>>
    OBVIOUS
<1>5. b = n ++ m
    BY <1>3, <1>4 DEF ++
<1>6. Body(f, g, <<"members", p, d>>) = i ++ b ++ s ++ v ++ c ++ s ++ r
    BY <1>0, <1>1, <1>3, <1>4 DEF Body, CommaOf, Blank, TextOf, CharactersOf, ++
<1>7. ((((((i ++ (n ++ m)) ++ s) ++ v) ++ c) ++ s) ++ r)
        = i ++ (n ++ ((m ++ s) ++ (v ++ ((c ++ s) ++ r))))
    <2>1. AreSequences(i, n, m, s, v, c, r)
        BY <1>2 DEF IsSequence, AreSequences
    <2>. QED  BY <2>1, RegroupMember
<1>8. MembersText(heap, f, p, d, v, r) = i ++ (n ++ ((m ++ s) ++ (v ++ ((c ++ s) ++ r))))
    BY <1>3 DEF MembersText, ColonText, BetweenMembers
<1>. QED  BY <1>1, <1>5, <1>6, <1>7, <1>8

LEMMA BodyValue ==
    ASSUME NEW f, NEW g \in Texted(heap), Typed(heap), NEW p \in Items(heap), NEW d \in Nat,
           Printable(heap, p)
    PROVE  Body(f, g, <<"value", p, d>>) =
              ValueText(heap, f, p, d, g[<<ListOf(heap[p].type), heap[p].child, d + 1>>])
<1>0. p # Null /\ heap[p].child \in Items(heap) \cup {Null}
    BY FieldTypes
<1>1. CASE heap[p].type \in {"NULL", "False", "True", "Number", "String"}
    <2>1. ValueText(heap, f, p, d, g[<<ListOf(heap[p].type), heap[p].child, d + 1>>])
            = ScalarText(heap, p)
        BY <1>1 DEF ValueText, Containers
    <2>2. Body(f, g, <<"value", p, d>>) = ScalarText(heap, p)
        BY <1>0, <1>1 DEF Body, ScalarText, TextOf, CharactersOf
    <2>. QED  BY <2>1, <2>2
<1>2. CASE heap[p].type \in Containers
    <2>1. PICK w \in Kinds : w = ListOf(heap[p].type)
        BY DEF ListOf, Kinds
    <2>2. PICK r : r = g[<<w, heap[p].child, d + 1>>]
        OBVIOUS
    <2>3. r \in Seq(Tokens(heap))
        <3>1. <<w, heap[p].child, d + 1>> \in RenderSteps(heap)
            BY <1>0 DEF RenderSteps
        <3>. QED  BY <2>2, <3>1 DEF Texted
    <2>4. CASE heap[p].type = "Array"
        <3>1. PICK b \in Seq(Tokens(heap)), e \in Seq(Tokens(heap)) :
                b = <<Mark("[")>> /\ e = <<Mark("]")>>
            BY MarksIn DEF Punctuation
        <3>2. Body(f, g, <<"value", p, d>>) = b ++ r ++ e
            BY <1>0, <2>1, <2>2, <2>4, <3>1 DEF Body, ListOf, ++
        <3>3. ValueText(heap, f, p, d, r) = b ++ (r ++ e)
            BY <2>4, <3>1 DEF ValueText, Containers, BeginText, EndText
        <3>4. IsSequence(b) /\ IsSequence(r) /\ IsSequence(e)
            BY <2>3 DEF IsSequence
        <3>5. (b ++ r) ++ e = b ++ (r ++ e)
            BY <3>4, Associative
        <3>. QED  BY <2>1, <2>2, <3>2, <3>3, <3>5
    <2>5. CASE heap[p].type = "Object"
        <3>1. PICK b \in Seq(Tokens(heap)), e \in Seq(Tokens(heap)),
                   s \in Seq(Tokens(heap)), i \in Seq(Tokens(heap)) :
                b = <<Mark("{")>> /\ e = <<Mark("}")>> /\ s = Blank(f, 1) /\ i = Blank(f, d)
            BY MarksIn, BlankIn DEF Punctuation
        <3>2. Body(f, g, <<"value", p, d>>) = b ++ s ++ r ++ i ++ e
            BY <1>0, <2>1, <2>2, <2>5, <3>1 DEF Body, ListOf, Blank, ++
        <3>3. ValueText(heap, f, p, d, r) = (b ++ s) ++ (r ++ (i ++ e))
            BY <2>5, <3>1 DEF ValueText, Containers, BeginText, EndText
        <3>4. PICK h : h = b ++ s
            OBVIOUS
        <3>5. /\ IsSequence(h) /\ IsSequence(r) /\ IsSequence(i) /\ IsSequence(e)
            BY <2>3, <3>4, SeqParts DEF IsSequence
        <3>6. ((h ++ r) ++ i) ++ e = h ++ (r ++ (i ++ e))
            BY <3>5, RegroupEnd
        <3>. QED  BY <2>1, <2>2, <3>2, <3>3, <3>4, <3>6
    <2>. QED  BY <1>2, <2>4, <2>5 DEF Containers
<1>. QED  BY <1>1, <1>2 DEF Printable, Whole, Containers

\* How deep an item lies below the others, from the bottom.
IsRank(H, rank, N) ==
    /\ rank \in [Items(H) -> 0..N]
    /\ \A p \in Items(H) : \A f \in {"child", "next"} :
          H[p][f] # Null => rank[H[p][f]] < rank[p]

\* One that is reached after n levels owns what is reached after n + 1.
LEMMA RankExists ==
    ASSUME NEW T, NEW r \in T, r \in Live, Typed(heap), Exclusive(heap, T),
           Items(heap) \subseteq cJSON_Delete(r)
    PROVE  \E N \in Nat : \E rank : IsRank(heap, rank, N)
<1>1. PICK R, N :
        /\ N = Cardinality(Live) /\ N \in Nat
        /\ IsReach(R, r, N)
        /\ cJSON_Delete(r) = R[N]
    BY DeleteUnfolds
<1>2. R[0] = {r} \ {Null} /\ \A n \in 0..N : n < N => R[n + 1] = Deeper(R[n])
    BY <1>1, ReachUnfolds
<1>. DEFINE Levels(p) == {n \in 0..N : p \in R[n]}
            level == [p \in Items(heap) |-> CHOOSE n \in Levels(p) : \A m \in Levels(p) : n <= m]
            rank == [p \in Items(heap) |-> N - level[p]]
<1>3. ASSUME NEW p \in Items(heap)
      PROVE  /\ level[p] \in 0..N /\ p \in R[level[p]]
             /\ \A m \in 0..N : p \in R[m] => level[p] <= m
    <2>1. N \in Levels(p) /\ Levels(p) \subseteq Nat
        BY <1>1
    <2>2. \E n \in Levels(p) : \A m \in Levels(p) : n <= m
        BY <2>1, Least
    <2>3. level[p] \in Levels(p) /\ \A m \in Levels(p) : level[p] <= m
        BY <2>2
    <2>. QED  BY <2>3
<1>4. ASSUME NEW p \in Items(heap), NEW f \in {"child", "next"}, heap[p][f] # Null
      PROVE  level[p] < level[heap[p][f]]
    <2>1. PICK q \in Items(heap) : q = heap[p][f]
        BY <1>4, FieldTypes
    <2>2. PICK n \in 0..N : n = level[q] /\ q \in R[n] /\ \A m \in 0..N : q \in R[m] => n <= m
        BY <1>3
    <2>3. f \in Fields
        BY DEF Fields
    <2>4. q # r
        BY <2>1, <2>3 DEF Exclusive
    <2>5. n # 0
        BY <1>2, <2>2, <2>4
    <2>6. PICK m \in 0..N : m + 1 = n /\ m < N
        <3>1. n - 1 \in 0..N /\ (n - 1) + 1 = n /\ n - 1 < N
            BY <1>1, <2>5
        <3>. QED  BY <3>1
    <2>7. q \in Deeper(R[m]) /\ q \notin R[m]
        <3>1. ~(n <= m)
            BY <2>6
        <3>. QED  BY <1>2, <2>2, <2>6, <3>1
    <2>8. PICK s : IsItem(s) /\ s \in R[m] /\ q \in Owned(s)
        BY <2>7 DEF Deeper
    <2>9. PICK g \in Fields : q = heap[s][g] /\ q # Null
        BY <2>8, OwnedFields
    <2>10. s \in Items(heap)
        BY <2>8 DEF IsItem, Items, Live
    <2>11. s = p
        <3>1. heap[p][f] # Null /\ heap[p][f] = heap[s][g]
            BY <2>1, <2>9
        <3>2. \A a, b \in Items(heap) : \A h, i \in Fields :
                  heap[a][h] # Null /\ heap[a][h] = heap[b][i] => a = b
            BY DEF Exclusive
        <3>. QED  BY <2>3, <2>9, <2>10, <3>1, <3>2
    <2>12. level[p] <= m
        BY <1>3, <2>8, <2>11
    <2>13. level[p] \in Nat
        BY <1>3
    <2>. QED  BY <2>1, <2>2, <2>6, <2>12, <2>13
<1>5. PICK l : l = level
    OBVIOUS
<1>6. PICK k : k = rank
    OBVIOUS
<1>7. \A p \in Items(heap) : l[p] \in 0..N
    BY <1>3, <1>5
<1>8. k = [p \in Items(heap) |-> N - l[p]]
    BY <1>5, <1>6
<1>9. \A p \in Items(heap) : \A f \in {"child", "next"} :
          heap[p][f] # Null => l[p] < l[heap[p][f]]
    BY <1>4, <1>5
<1>. HIDE DEF level, rank, Levels
<1>10. k \in [Items(heap) -> 0..N]
    <2>1. \A p \in Items(heap) : N - l[p] \in 0..N
        BY <1>1, <1>7
    <2>. QED  BY <1>8, <2>1
<1>11. ASSUME NEW p \in Items(heap), NEW f \in {"child", "next"}, heap[p][f] # Null
       PROVE  k[heap[p][f]] < k[p]
    <2>1. PICK q \in Items(heap) : q = heap[p][f]
        BY <1>11, FieldTypes
    <2>2. l[p] < l[q] /\ l[p] \in 0..N /\ l[q] \in 0..N
        BY <1>7, <1>9, <1>11, <2>1
    <2>3. k[p] = N - l[p] /\ k[q] = N - l[q]
        BY <1>8
    <2>. QED  BY <1>1, <2>1, <2>2, <2>3
<1>12. IsRank(heap, k, N)
    BY <1>10, <1>11 DEF IsRank
<1>. QED  BY <1>1, <1>12

\* How many steps of the recursion the text of an item or of a list takes.
Effort(rank, w, p) ==
    IF p = Null THEN 0 ELSE IF w = "value" THEN 2 * rank[p] + 1 ELSE 2 * rank[p] + 2

\* What the printer needs to know of the tree.
TreePrints(H) ==
    /\ Typed(H)
    /\ \A p \in Items(H) :
          /\ Printable(H, p)
          /\ H[p].next \in Items(H) \cup {Null}
          /\ H[p].child \in Items(H) \cup {Null}

LEMMA StepCases ==
    ASSUME NEW x \in RenderSteps(heap)
    PROVE  \E w \in Kinds : \E p \in Items(heap) \cup {Null} : \E d \in Nat : x = <<w, p, d>>
BY DEF RenderSteps

LEMMA StepIn ==
    ASSUME NEW w \in Kinds, NEW p \in Items(heap) \cup {Null}, NEW d \in Nat
    PROVE  <<w, p, d>> \in RenderSteps(heap)
BY DEF RenderSteps

LEMMA BodyIn ==
    ASSUME TreePrints(heap), NEW f, NEW g \in Texted(heap), NEW x \in RenderSteps(heap)
    PROVE  Body(f, g, x) \in Seq(Tokens(heap))
<1>1. PICK w \in Kinds, p \in Items(heap) \cup {Null}, d \in Nat : x = <<w, p, d>>
    BY StepCases
<1>2. CASE p = Null
    BY <1>1, <1>2, BodyNull, NoneIn
<1>3. CASE p \in Items(heap)
    <2>1. Printable(heap, p) /\ Typed(heap)
        BY <1>3 DEF TreePrints
    <2>2. \A u \in Kinds : \A q \in Items(heap) \cup {Null} : \A e \in Nat :
            g[<<u, q, e>>] \in Seq(Tokens(heap))
        BY StepIn DEF Texted
    <2>3. heap[p].next \in Items(heap) \cup {Null} /\ heap[p].child \in Items(heap) \cup {Null}
        BY <1>3 DEF TreePrints
    <2>4. CASE w = "value"
        <3>0. d + 1 \in Nat /\ ListOf(heap[p].type) \in Kinds
            BY DEF ListOf, Kinds
        <3>1. PICK r \in Seq(Tokens(heap)) :
                r = g[<<ListOf(heap[p].type), heap[p].child, d + 1>>]
            BY <2>2, <2>3, <3>0
        <3>2. Body(f, g, <<w, p, d>>) = ValueText(heap, f, p, d, r)
            BY <1>3, <2>1, <2>4, <3>1, BodyValue
        <3>3. ValueText(heap, f, p, d, r) \in Seq(Tokens(heap))
            BY <1>3, <2>1, ValueIn
        <3>. QED  BY <1>1, <3>2, <3>3
    <2>5. CASE w = "items"
        <3>1. PICK v \in Seq(Tokens(heap)), r \in Seq(Tokens(heap)) :
                v = g[<<"value", p, d>>] /\ r = g[<<"items", heap[p].next, d>>]
            BY <1>3, <2>2, <2>3 DEF Kinds
        <3>2. Body(f, g, <<w, p, d>>) = ItemsText(heap, f, p, v, r)
            BY <1>3, <2>1, <2>5, <3>1, BodyItems
        <3>3. ItemsText(heap, f, p, v, r) \in Seq(Tokens(heap))
            BY ItemsIn
        <3>. QED  BY <1>1, <3>2, <3>3
    <2>6. CASE w = "members"
        <3>1. PICK v \in Seq(Tokens(heap)), r \in Seq(Tokens(heap)) :
                v = g[<<"value", p, d>>] /\ r = g[<<"members", heap[p].next, d>>]
            BY <1>3, <2>2, <2>3 DEF Kinds
        <3>2. Body(f, g, <<w, p, d>>) = MembersText(heap, f, p, d, v, r)
            BY <1>3, <2>1, <2>6, <3>1, BodyMembers
        <3>3. MembersText(heap, f, p, d, v, r) \in Seq(Tokens(heap))
            BY <1>3, <2>1, MembersIn
        <3>. QED  BY <1>1, <3>2, <3>3
    <2>. QED  BY <2>4, <2>5, <2>6 DEF Kinds
<1>. QED  BY <1>2, <1>3

\* The body only looks at what takes fewer steps.
LEMMA BodyLocal ==
    ASSUME TreePrints(heap), NEW f, NEW g, NEW h,
           NEW rank, NEW N \in Nat, IsRank(heap, rank, N), NEW n \in Nat,
           \A u \in Kinds : \A q \in Items(heap) \cup {Null} : \A e \in Nat :
                Effort(rank, u, q) < n => g[<<u, q, e>>] = h[<<u, q, e>>],
           NEW w \in Kinds, NEW p \in Items(heap) \cup {Null}, NEW d \in Nat,
           Effort(rank, w, p) <= n
    PROVE  Body(f, g, <<w, p, d>>) = Body(f, h, <<w, p, d>>)
<1>1. CASE p = Null
    BY <1>1, BodyNull
<1>2. CASE p \in Items(heap)
    <2>1. Printable(heap, p) /\ Typed(heap) /\ p # Null
        BY <1>2, FieldTypes DEF TreePrints
    <2>2. PICK next \in Items(heap) \cup {Null}, child \in Items(heap) \cup {Null} :
            next = heap[p].next /\ child = heap[p].child
        BY <1>2 DEF TreePrints
    <2>3. /\ rank[p] \in Nat
          /\ next # Null => rank[next] \in Nat /\ rank[next] < rank[p]
          /\ child # Null => rank[child] \in Nat /\ rank[child] < rank[p]
        BY <1>2, <2>2 DEF IsRank
    <2>4. CASE w = "value"
        <3>1. Effort(rank, "items", child) < n /\ Effort(rank, "members", child) < n
            BY <2>1, <2>3, <2>4 DEF Effort
        <3>2. d + 1 \in Nat
            OBVIOUS
        <3>3. /\ g[<<"items", child, d + 1>>] = h[<<"items", child, d + 1>>]
              /\ g[<<"members", child, d + 1>>] = h[<<"members", child, d + 1>>]
            BY <3>1, <3>2 DEF Kinds
        <3>4. heap[p].type \in Whole
            BY <2>1 DEF Printable
        <3>. QED  BY <2>1, <2>2, <2>4, <3>3, <3>4 DEF Body, Whole
    <2>5. ASSUME w # "value"
          PROVE  /\ g[<<"value", p, d>>] = h[<<"value", p, d>>]
                 /\ g[<<w, next, d>>] = h[<<w, next, d>>]
        <3>1. Effort(rank, "value", p) < n
            BY <2>1, <2>3, <2>5 DEF Effort
        <3>2. Effort(rank, w, next) < n
            BY <2>1, <2>3, <2>5 DEF Effort
        <3>. QED  BY <3>1, <3>2 DEF Kinds
    <2>6. CASE w = "items"
        BY <2>1, <2>2, <2>5, <2>6 DEF Body
    <2>7. CASE w = "members"
        BY <2>1, <2>2, <2>5, <2>7 DEF Body
    <2>. QED  BY <2>4, <2>6, <2>7 DEF Kinds
<1>. QED  BY <1>1, <1>2

Solves(f, g) == g = [x \in RenderSteps(heap) |-> Body(f, g, x)]

LEMMA RenderingExists ==
    ASSUME TreePrints(heap), NEW f, NEW rank, NEW N \in Nat, IsRank(heap, rank, N)
    PROVE  \E R \in Texted(heap) : R = [x \in RenderSteps(heap) |-> Body(f, R, x)]
<1>1. PICK M \in Nat : M = 2 * N + 4
    OBVIOUS
<1>. DEFINE S == RenderSteps(heap)
            X == Texted(heap)
            Phi == [n \in 1..M |-> [g \in X |-> [x \in S |-> Body(f, g, x)]]]
            b == [x \in S |-> <<>>]
<1>2. b \in X
    BY NoneIn DEF Texted
<1>3. \A n \in 1..M : \A g \in X : Phi[n][g] \in X /\ Phi[n][g] = [x \in S |-> Body(f, g, x)]
    <2>1. \A g \in X : [x \in S |-> Body(f, g, x)] \in X
        BY BodyIn DEF Texted
    <2>. QED  BY <2>1
<1>4. \A g \in X : g = [x \in S |-> g[x]]
    BY DEF Texted
<1>. HIDE DEF Phi, b, X
<1>5. PICK F \in [0..M -> X] : IsRecursive(F, M, b, Phi)
    BY <1>2, <1>3, Recursion
<1>6. ASSUME NEW n \in 0..M, n < M
      PROVE  F[n] \in X /\ F[n + 1] \in X /\ F[n + 1] = [x \in S |-> Body(f, F[n], x)]
    <2>1. n + 1 \in 1..M /\ n + 1 \in 0..M /\ (n + 1) - 1 = n /\ n + 1 # 0
        BY <1>6
    <2>2. F[n + 1] = Phi[n + 1][F[n]]
        BY <1>5, <2>1 DEF IsRecursive
    <2>. QED  BY <1>3, <1>5, <2>1, <2>2
<1>. DEFINE Agree(n) == \A u \in Kinds : \A q \in Items(heap) \cup {Null} : \A e \in Nat :
                Effort(rank, u, q) < n => F[n][<<u, q, e>>] = F[n + 1][<<u, q, e>>]
            K == M - 1
            T == {n \in 0..K : Agree(n)}
<1>7. K \in Nat /\ K + 1 = M /\ K < M /\ K \in 0..M /\ K = 2 * N + 3
    BY <1>1
<1>8. \A u \in Kinds : \A q \in Items(heap) \cup {Null} :
            Effort(rank, u, q) \in Nat /\ Effort(rank, u, q) < K
    <2>1. \A q \in Items(heap) : rank[q] \in 0..N
        BY DEF IsRank
    <2>. QED  BY <1>7, <2>1 DEF Effort
<1>9. 0 \in T
    BY <1>7, <1>8
<1>10. ASSUME NEW n \in 0..K, n \in T, n < K PROVE n + 1 \in T
    <2>1. n \in Nat /\ n \in 0..M /\ n + 1 \in 0..M /\ n < M /\ n + 1 < M /\ n + 1 \in 0..K
        BY <1>7, <1>10
    <2>2. PICK g \in X, h \in X : g = F[n] /\ h = F[n + 1]
        BY <1>6, <2>1
    <2>3. h = [x \in S |-> Body(f, g, x)]
        BY <1>6, <2>1, <2>2
    <2>4. PICK k \in X : k = F[(n + 1) + 1] /\ k = [x \in S |-> Body(f, h, x)]
        BY <1>6, <2>1, <2>2
    <2>5. \A u \in Kinds : \A q \in Items(heap) \cup {Null} : \A e \in Nat :
                Effort(rank, u, q) < n => g[<<u, q, e>>] = h[<<u, q, e>>]
        BY <1>10, <2>2
    <2>6. ASSUME NEW u \in Kinds, NEW q \in Items(heap) \cup {Null}, NEW e \in Nat,
                 Effort(rank, u, q) < n + 1
          PROVE  h[<<u, q, e>>] = k[<<u, q, e>>]
        <3>1. Effort(rank, u, q) <= n
            BY <1>8, <2>1, <2>6
        <3>3. Body(f, g, <<u, q, e>>) = Body(f, h, <<u, q, e>>)
            BY <2>1, <2>5, <3>1, BodyLocal
        <3>4. <<u, q, e>> \in S
            BY StepIn
        <3>. QED  BY <2>3, <2>4, <3>3, <3>4
    <2>7. Agree(n + 1)
        BY <2>2, <2>4, <2>6
    <2>. QED  BY <2>1, <2>7
<1>11. 0..K \subseteq T
    <2>. HIDE DEF T
    <2>. QED  BY <1>7, <1>9, <1>10, Induct
<1>12. Agree(K)
    BY <1>7, <1>11
<1>13. PICK R \in X : R = F[K]
    BY <1>6, <1>7
<1>14. PICK Q \in X : Q = F[K + 1] /\ Q = [x \in S |-> Body(f, R, x)]
    BY <1>6, <1>7, <1>13
<1>15. ASSUME NEW x \in S PROVE R[x] = Q[x]
    <2>1. PICK u \in Kinds, q \in Items(heap) \cup {Null}, e \in Nat : x = <<u, q, e>>
        BY StepCases
    <2>2. F[K][<<u, q, e>>] = F[K + 1][<<u, q, e>>]
        BY <1>8, <1>12
    <2>. QED  BY <1>13, <1>14, <2>1, <2>2
<1>16. R = Q
    BY <1>4, <1>15
<1>. QED  BY <1>14, <1>16 DEF X

\* There is only one.
LEMMA RenderingIsOne ==
    ASSUME TreePrints(heap), NEW f, NEW rank, NEW N \in Nat, IsRank(heap, rank, N),
           NEW g, Solves(f, g), NEW h, Solves(f, h)
    PROVE  g = h
<1>. USE DEF Solves
<1>. DEFINE Agree(n) == \A u \in Kinds : \A q \in Items(heap) \cup {Null} : \A e \in Nat :
                Effort(rank, u, q) < n => g[<<u, q, e>>] = h[<<u, q, e>>]
<1>1. PICK K \in Nat : K = 2 * N + 3
    OBVIOUS
<1>. DEFINE T == {n \in 0..K : Agree(n)}
<1>2. \A u \in Kinds : \A q \in Items(heap) \cup {Null} :
            Effort(rank, u, q) \in Nat /\ Effort(rank, u, q) < K
    <2>1. \A q \in Items(heap) : rank[q] \in 0..N
        BY DEF IsRank
    <2>. QED  BY <1>1, <2>1 DEF Effort
<1>3. 0 \in T
    BY <1>2
<1>4. ASSUME NEW n \in 0..K, n \in T, n < K PROVE n + 1 \in T
    <2>1. n \in Nat /\ n + 1 \in 0..K /\ Agree(n)
        BY <1>4
    <2>2. ASSUME NEW u \in Kinds, NEW q \in Items(heap) \cup {Null}, NEW e \in Nat,
                 Effort(rank, u, q) < n + 1
          PROVE  g[<<u, q, e>>] = h[<<u, q, e>>]
        <3>1. Effort(rank, u, q) <= n
            BY <1>2, <2>1, <2>2
        <3>2. Body(f, g, <<u, q, e>>) = Body(f, h, <<u, q, e>>)
            BY <2>1, <3>1, BodyLocal
        <3>3. <<u, q, e>> \in RenderSteps(heap)
            BY StepIn
        <3>4. g[<<u, q, e>>] = Body(f, g, <<u, q, e>>)
            BY <3>3
        <3>5. h[<<u, q, e>>] = Body(f, h, <<u, q, e>>)
            BY <3>3
        <3>. QED  BY <3>2, <3>4, <3>5
    <2>3. Agree(n + 1)
        BY <2>2
    <2>. QED  BY <2>1, <2>3
<1>5. 0..K \subseteq T
    <2>. HIDE DEF T
    <2>. QED  BY <1>1, <1>3, <1>4, Induct
<1>6. Agree(K)
    BY <1>1, <1>5
<1>7. ASSUME NEW x \in RenderSteps(heap) PROVE g[x] = h[x]
    <2>1. PICK u \in Kinds, q \in Items(heap) \cup {Null}, e \in Nat : x = <<u, q, e>>
        BY StepCases
    <2>. QED  BY <1>2, <1>6, <2>1
<1>8. \A x \in RenderSteps(heap) : Body(f, g, x) = Body(f, h, x)
    <2>1. \A x \in RenderSteps(heap) : g[x] = Body(f, g, x)
        OBVIOUS
    <2>2. \A x \in RenderSteps(heap) : h[x] = Body(f, h, x)
        OBVIOUS
    <2>. QED  BY <1>7, <2>1, <2>2
<1>. QED  BY <1>8, Zenon

\* What the tree of a call should be printed as exists.
LEMMA RenderingHolds ==
    ASSUME TreePrints(heap), NEW f, NEW rank, NEW N \in Nat, IsRank(heap, rank, N),
           NEW top \in Items(heap)
    PROVE  \E R : IsRendered(heap, f, R) /\ Rendering(top, f) = R[<<"value", top, 0>>]
<1>1. PICK Q \in Texted(heap) : Q = [x \in RenderSteps(heap) |-> Body(f, Q, x)]
    BY RenderingExists
<1>2. PICK R : R = CHOOSE g : g = [x \in ModelSteps |-> Body(f, g, x)]
    OBVIOUS
<1>3. R = [x \in RenderSteps(heap) |-> Body(f, R, x)]
    BY <1>1, <1>2, ModelStepsAre
<1>4. Rendering(top, f) = R[<<"value", top, 0>>]
    BY <1>2, RenderingIsChosen
<1>5. R = Q
    <2>1. Solves(f, R) /\ Solves(f, Q)
        BY <1>1, <1>3 DEF Solves
    <2>. QED  BY <2>1, RenderingIsOne
<1>6. R \in Texted(heap)
    BY <1>1, <1>5
<1>7. \A x \in RenderSteps(heap) : R[x] = Body(f, R, x)
    BY <1>3
<1>8. \A w \in Kinds : \A p \in Items(heap) \cup {Null} : \A d \in Nat :
            R[<<w, p, d>>] = Body(f, R, <<w, p, d>>)
    BY <1>7, StepIn
<1>9. ASSUME NEW d \in Nat
      PROVE  R[<<"items", Null, d>>] = <<>> /\ R[<<"members", Null, d>>] = <<>>
    BY <1>8, BodyNull DEF Kinds
<1>10. ASSUME NEW p \in Items(heap), NEW d \in Nat
       PROVE  /\ R[<<"value", p, d>>] =
                    ValueText(heap, f, p, d, R[<<ListOf(heap[p].type), heap[p].child, d + 1>>])
              /\ R[<<"items", p, d>>] =
                    ItemsText(heap, f, p, R[<<"value", p, d>>], R[<<"items", heap[p].next, d>>])
              /\ R[<<"members", p, d>>] =
                    MembersText(heap, f, p, d, R[<<"value", p, d>>],
                                R[<<"members", heap[p].next, d>>])
    <2>1. Printable(heap, p) /\ Typed(heap)
        BY DEF TreePrints
    <2>2. \A w \in Kinds : R[<<w, p, d>>] = Body(f, R, <<w, p, d>>)
        BY <1>8
    <2>3. Body(f, R, <<"value", p, d>>) =
                    ValueText(heap, f, p, d, R[<<ListOf(heap[p].type), heap[p].child, d + 1>>])
        BY <1>6, <2>1, BodyValue
    <2>4. Body(f, R, <<"items", p, d>>) =
                    ItemsText(heap, f, p, R[<<"value", p, d>>], R[<<"items", heap[p].next, d>>])
        BY <1>6, <2>1, BodyItems
    <2>5. Body(f, R, <<"members", p, d>>) =
                    MembersText(heap, f, p, d, R[<<"value", p, d>>],
                                R[<<"members", heap[p].next, d>>])
        BY <1>6, <2>1, BodyMembers
    <2>. QED  BY <2>2, <2>3, <2>4, <2>5 DEF Kinds
<1>11. \A x \in RenderSteps(heap) : Wide(R[x])
    BY <1>6, TextsWide DEF Texted
<1>12. IsRendered(heap, f, R)
    BY <1>9, <1>10, <1>11 DEF IsRendered
<1>. QED  BY <1>4, <1>12

-----------------------------------------------------------------------------
(***************************************************************************)
(* What is left to print                                                   *)
(***************************************************************************)

\* R renders a tree that can be printed.
Renders(H, f, R) == TreePrints(H) /\ IsRendered(H, f, R)

Gap(H, f, type, p) ==
    IF type = "Array" THEN BetweenItems(H, f, p) ELSE BetweenMembers(H, f, p)

\* The text of a list from p on, to the end of its container, and of what
\* follows the item that is printed.
ListText(f, R, type, p, i) == R[<<ListOf(type), p, i>>] ++ EndText(type, f, i - 1)

RestOfList(H, f, R, s, i) ==
    Gap(H, f, s.type, s.current) ++ ListText(f, R, s.type, H[s.current].next, i)

\* T[i] follows the item that the i-th container is at.
IsRests(H, f, R, w, T, k) ==
    /\ \A i \in Nat : Wide(T[i])
    /\ T[0] = <<>>
    /\ \A i \in 1..k : T[i] = RestOfList(H, f, R, w[i], i) ++ T[i - 1]

NameText(H, p) == <<TextOf(H, H[p].string)>>

LeftAtValue(R, T, p, n) == R[<<"value", p, n>>] ++ T[n]
AtColon(f, R, T, p, n) == ColonText(f) ++ LeftAtValue(R, T, p, n)
AtKey(H, f, R, T, p, n) == NameText(H, p) ++ AtColon(f, R, T, p, n)
AtEach(f, R, T, s, n) == ListText(f, R, s.type, s.current, n) ++ T[n - 1]

\* What is left when the printer is at `place' with the item p and the walk w.
LeftText(H, f, R, T, place, p, w) ==
    CASE place \in {"buffer", "value"} -> LeftAtValue(R, T, p, Len(w))
      [] place = "key" -> AtKey(H, f, R, T, p, Len(w))
      [] place \in {"keyed", "colon"} -> AtColon(f, R, T, p, Len(w))
      [] place = "each" -> AtEach(f, R, T, w[Len(w)], Len(w))
      [] OTHER -> T[Len(w)]

Entered(place, w) == IF place = "each" THEN Len(w) - 1 ELSE Len(w)

IsLeft(H, f, R, place, p, w, rest) ==
    \E T : /\ IsRests(H, f, R, w, T, Entered(place, w))
           /\ rest = LeftText(H, f, R, T, place, p, w)

LEMMA RestsWide ==
    ASSUME NEW H, NEW f, NEW R, NEW w, NEW T, NEW k, IsRests(H, f, R, w, T, k), NEW i \in Nat
    PROVE  Wide(T[i])
BY DEF IsRests

LEMMA FormsWide ==
    ASSUME NEW H, NEW f, NEW type, NEW p
    PROVE  Wide(BeginText(type, f)) /\ Wide(Gap(H, f, type, p)) /\ Wide(ColonText(f))
<1>1. PICK d \in Nat : d = 0
    OBVIOUS
<1>2. BeginText(type, f) \in Seq(Tokens(H))
    BY <1>1, EndsIn
<1>3. Gap(H, f, type, p) \in Seq(Tokens(H))
    BY BetweenIn DEF Gap
<1>4. ColonText(f) \in Seq(Tokens(H))
    BY ColonIn
<1>. QED  BY <1>2, <1>3, <1>4, TextsWide

LEMMA EndWide ==
    ASSUME NEW f, NEW type, NEW d \in Nat PROVE Wide(EndText(type, f, d)) /\ Wide(Blank(f, d))
<1>1. PICK H : H = heap
    OBVIOUS
<1>2. EndText(type, f, d) \in Seq(Tokens(H)) /\ Blank(f, d) \in Seq(Tokens(H))
    BY EndsIn, BlankIn
<1>. QED  BY <1>2, TextsWide

LEMMA NameWide ==
    ASSUME NEW H, NEW f, NEW R, Renders(H, f, R), NEW p \in Items(H)
    PROVE  Wide(NameText(H, p)) /\ NameText(H, p) = <<TextOf(H, H[p].string)>>
<1>1. Typed(H) /\ Printable(H, p)
    BY DEF Renders, TreePrints
<1>. QED  BY <1>1, NameIn, TextsWide DEF NameText

LEMMA ScalarWide ==
    ASSUME NEW H, NEW f, NEW R, Renders(H, f, R), NEW p \in Items(H),
           H[p].type \notin Containers
    PROVE  Wide(ScalarText(H, p))
<1>1. Typed(H) /\ Printable(H, p)
    BY DEF Renders, TreePrints
<1>. QED  BY <1>1, ScalarIn, TextsWide

LEMMA RenderedWide ==
    ASSUME NEW H, NEW f, NEW R, Renders(H, f, R), NEW u \in Kinds,
           NEW p \in Items(H) \cup {Null}, NEW d \in Nat
    PROVE  Wide(R[<<u, p, d>>])
<1>1. <<u, p, d>> \in RenderSteps(H)
    BY DEF RenderSteps
<1>. QED  BY <1>1 DEF Renders, IsRendered

LEMMA ListWide ==
    ASSUME NEW H, NEW f, NEW R, Renders(H, f, R), NEW type,
           NEW p \in Items(H) \cup {Null}, NEW i \in Nat \ {0}
    PROVE  Wide(ListText(f, R, type, p, i))
<1>1. ListOf(type) \in Kinds
    BY DEF ListOf, Kinds
<1>2. Wide(R[<<ListOf(type), p, i>>])
    BY <1>1, RenderedWide
<1>3. i - 1 \in Nat
    OBVIOUS
<1>4. Wide(EndText(type, f, i - 1))
    BY <1>3, EndWide
<1>. QED  BY <1>2, <1>4, WideJoins DEF ListText

LEMMA WideIs == \A s : Wide(s) => IsSequence(s)
BY DEF Wide

LEMMA ListEnds ==
    ASSUME NEW H, NEW f, NEW R, Renders(H, f, R), NEW type \in Containers, NEW i \in Nat \ {0}
    PROVE  ListText(f, R, type, Null, i) = EndText(type, f, i - 1)
<1>1. R[<<ListOf(type), Null, i>>] = <<>>
    BY DEF Renders, IsRendered, ListOf
<1>2. i - 1 \in Nat
    OBVIOUS
<1>3. IsSequence(EndText(type, f, i - 1))
    BY <1>2, EndWide, WideIs
<1>. QED  BY <1>1, <1>3, NothingAdded DEF ListText

LEMMA RegroupVisit ==
    ASSUME NEW v, IsSequence(v), NEW b, IsSequence(b), NEW r, IsSequence(r),
           NEW e, IsSequence(e), NEW t, IsSequence(t)
    PROVE  ((v ++ (b ++ r)) ++ e) ++ t = v ++ ((b ++ (r ++ e)) ++ t)
<1>1. IsSequence(b ++ r) /\ IsSequence(r ++ e)
    BY JoinsIn
<1>2. IsSequence((b ++ r) ++ e) /\ IsSequence(b ++ (r ++ e))
    BY <1>1, JoinsIn
<1>3. (v ++ (b ++ r)) ++ e = v ++ ((b ++ r) ++ e)
    BY <1>1, Associative
<1>4. (b ++ r) ++ e = b ++ (r ++ e)
    BY Associative
<1>5. (v ++ (b ++ (r ++ e))) ++ t = v ++ ((b ++ (r ++ e)) ++ t)
    BY <1>2, Associative
<1>. QED  BY <1>3, <1>4, <1>5

\* The text of a list begins with that of its first item.
ItemAndRest(H, f, R, s, n, t) ==
    IF s.type = "Array"
    THEN R[<<"value", s.current, n>>] ++ (RestOfList(H, f, R, s, n) ++ t)
    ELSE Blank(f, n) ++ (NameText(H, s.current) ++ (ColonText(f)
            ++ (R[<<"value", s.current, n>>] ++ (RestOfList(H, f, R, s, n) ++ t))))

LEMMA ListBegins ==
    ASSUME NEW H, NEW f, NEW R, Renders(H, f, R), NEW s \in Spot, s.current \in Items(H),
           NEW n \in Nat \ {0}, NEW t, Wide(t)
    PROVE  ListText(f, R, s.type, s.current, n) ++ t = ItemAndRest(H, f, R, s, n, t)
<1>0. PICK p \in Items(H) : p = s.current
    OBVIOUS
<1>1. PICK q \in Items(H) \cup {Null} : q = H[p].next
    BY DEF Renders, TreePrints
<1>2. n - 1 \in Nat
    OBVIOUS
<1>3. PICK v, e, b : /\ v = R[<<"value", p, n>>] /\ e = EndText(s.type, f, n - 1)
                     /\ b = Gap(H, f, s.type, p)
    OBVIOUS
<1>4. IsSequence(v) /\ IsSequence(e) /\ IsSequence(b) /\ IsSequence(t)
    <2>1. Wide(v)
        BY <1>3, RenderedWide DEF Kinds
    <2>2. Wide(e)
        BY <1>2, <1>3, EndWide
    <2>3. Wide(b)
        BY <1>3, FormsWide
    <2>. QED  BY <2>1, <2>2, <2>3, WideIs
<1>5. PICK r : r = R[<<ListOf(s.type), q, n>>]
    OBVIOUS
<1>6. IsSequence(r)
    <2>1. ListOf(s.type) \in Kinds
        BY DEF ListOf, Kinds
    <2>. QED  BY <1>5, <2>1, RenderedWide, WideIs
<1>7. RestOfList(H, f, R, s, n) = b ++ (r ++ e)
    BY <1>0, <1>1, <1>3, <1>5 DEF RestOfList, ListText
<1>8. ((v ++ (b ++ r)) ++ e) ++ t = v ++ ((b ++ (r ++ e)) ++ t)
    BY <1>4, <1>6, RegroupVisit
<1>9. CASE s.type = "Array"
    <2>1. R[<<"items", p, n>>] = v ++ (b ++ r)
        BY <1>1, <1>3, <1>5, <1>9 DEF Renders, IsRendered, ItemsText, Gap, ListOf
    <2>2. ListText(f, R, s.type, p, n) = (v ++ (b ++ r)) ++ e
        BY <1>3, <1>9, <2>1 DEF ListText, ListOf
    <2>. QED  BY <1>0, <1>3, <1>7, <1>8, <1>9, <2>2 DEF ItemAndRest
<1>10. CASE s.type # "Array"
    <2>1. PICK i, m, c : i = Blank(f, n) /\ m = NameText(H, p) /\ c = ColonText(f)
        OBVIOUS
    <2>2. IsSequence(i) /\ IsSequence(m) /\ IsSequence(c)
        BY <2>1, EndWide, NameWide, FormsWide, WideIs
    <2>3. R[<<"members", p, n>>] = i ++ (m ++ (c ++ (v ++ (b ++ r))))
        BY <1>1, <1>3, <1>5, <1>10, <2>1
            DEF Renders, IsRendered, MembersText, Gap, ListOf, NameText
    <2>4. ListText(f, R, s.type, p, n) = (i ++ (m ++ (c ++ (v ++ (b ++ r))))) ++ e
        BY <1>3, <1>10, <2>3 DEF ListText, ListOf
    <2>5. PICK z : z = v ++ (b ++ r)
        OBVIOUS
    <2>6. IsSequence(b ++ r) /\ IsSequence(z)
        <3>1. IsSequence(b ++ r)
            BY <1>4, <1>6, JoinsIn
        <3>. QED  BY <1>4, <2>5, <3>1, JoinsIn
    <2>7. ((i ++ (m ++ (c ++ z))) ++ e) ++ t = i ++ (m ++ (c ++ ((z ++ e) ++ t)))
        <3>1. PICK y : y = c ++ z
            OBVIOUS
        <3>2. PICK x : x = m ++ y
            OBVIOUS
        <3>3. IsSequence(y)
            BY <2>2, <2>6, <3>1, JoinsIn
        <3>4. IsSequence(x)
            BY <2>2, <3>2, <3>3, JoinsIn
        <3>5. PICK u : u = e ++ t
            OBVIOUS
        <3>6. IsSequence(u)
            BY <1>4, <3>5, JoinsIn
        <3>7. ((i ++ x) ++ e) ++ t = i ++ (x ++ u)
            BY <1>4, <2>2, <3>4, <3>5, RegroupEnd
        <3>8. x ++ u = m ++ (y ++ u)
            BY <2>2, <3>2, <3>3, <3>6, Associative
        <3>9. y ++ u = c ++ (z ++ u)
            BY <2>2, <2>6, <3>1, <3>6, Associative
        <3>10. z ++ u = (z ++ e) ++ t
            BY <1>4, <2>6, <3>5, Associative
        <3>. QED  BY <3>1, <3>2, <3>7, <3>8, <3>9, <3>10
    <2>8. (z ++ e) ++ t = v ++ ((b ++ (r ++ e)) ++ t)
        BY <1>8, <2>5
    <2>9. ListText(f, R, s.type, p, n) ++ t
            = i ++ (m ++ (c ++ (v ++ ((b ++ (r ++ e)) ++ t))))
        BY <2>4, <2>5, <2>7, <2>8
    <2>10. ItemAndRest(H, f, R, s, n, t)
            = i ++ (m ++ (c ++ (v ++ ((b ++ (r ++ e)) ++ t))))
        BY <1>0, <1>3, <1>7, <1>10, <2>1 DEF ItemAndRest
    <2>. QED  BY <1>0, <2>9, <2>10
<1>. QED  BY <1>9, <1>10

-----------------------------------------------------------------------------
(***************************************************************************)
(* What each step of the printer writes of what is left                    *)
(***************************************************************************)

\* `o' is written, and what is left then is what the next place needs.
Splits(H, f, R, rest, o, place, p, w) ==
    \E l : /\ Wide(o) /\ Wide(l) /\ rest = o ++ l
           /\ IsLeft(H, f, R, place, p, w, l)

LEMMA LeftScalar ==
    ASSUME NEW H, NEW f, NEW R, Renders(H, f, R), NEW p \in Items(H),
           H[p].type \notin Containers, NEW w \in Seq(Spot), NEW rest,
           IsLeft(H, f, R, "value", p, w, rest)
    PROVE  Splits(H, f, R, rest, ScalarText(H, p), "printed", p, w)
<1>1. PICK n \in Nat : n = Len(w)
    OBVIOUS
<1>2. PICK T : /\ IsRests(H, f, R, w, T, n)
               /\ rest = R[<<"value", p, n>>] ++ T[n]
    BY <1>1 DEF IsLeft, LeftText, LeftAtValue, Entered
<1>3. R[<<"value", p, n>>] = ScalarText(H, p)
    BY <1>1 DEF Renders, IsRendered, ValueText
<1>4. Wide(T[n])
    BY <1>2, RestsWide
<1>5. Wide(ScalarText(H, p))
    BY ScalarWide
<1>6. IsLeft(H, f, R, "printed", p, w, T[n])
    BY <1>1, <1>2 DEF IsLeft, LeftText, Entered
<1>. QED  BY <1>2, <1>3, <1>4, <1>5, <1>6 DEF Splits

\* The rests only depend on the containers they are the rests of.
LEMMA RestsAgree ==
    ASSUME NEW H, NEW f, NEW R, NEW w, NEW v, NEW T, NEW k \in Nat,
           IsRests(H, f, R, w, T, k), \A i \in 1..k : v[i] = w[i]
    PROVE  IsRests(H, f, R, v, T, k)
<1>1. ASSUME NEW i \in 1..k PROVE T[i] = RestOfList(H, f, R, v[i], i) ++ T[i - 1]
    <2>1. v[i] = w[i]
        OBVIOUS
    <2>2. T[i] = RestOfList(H, f, R, w[i], i) ++ T[i - 1]
        BY DEF IsRests
    <2>. QED  BY <2>1, <2>2
<1>. QED  BY <1>1 DEF IsRests

LEMMA Pushed ==
    ASSUME NEW b \in Seq(Spot), NEW s \in Spot
    PROVE  \E n \in Nat : \E w \in Seq(Spot) :
              /\ n = Len(b) /\ w = Append(b, s) /\ Len(w) = n + 1 /\ w[n + 1] = s
              /\ \A i \in 1..n : w[i] = b[i] /\ b[i] = w[i]
<1>1. PICK n \in Nat : n = Len(b)
    OBVIOUS
<1>2. PICK w \in Seq(Spot) : w = Append(b, s)
    BY SpotAppended
<1>3. Len(w) = n + 1 /\ w[n + 1] = s
    BY <1>1, <1>2
<1>4. ASSUME NEW i \in 1..n PROVE w[i] = b[i]
    BY <1>1, <1>2
<1>. QED  BY <1>1, <1>2, <1>3, <1>4

LEMMA PushedLength ==
    ASSUME NEW b \in Seq(Spot), NEW s \in Spot, NEW w, w = Append(b, s)
    PROVE  \E n \in Nat : n = Len(b) /\ Len(w) = n + 1
<1>1. PICK n \in Nat : n = Len(b)
    OBVIOUS
<1>2. Len(w) = n + 1
    BY <1>1
<1>. QED  BY <1>1, <1>2

LEMMA LeftOpen ==
    ASSUME NEW H, NEW f, NEW R, Renders(H, f, R), NEW p \in Items(H),
           H[p].type \in Containers, NEW b \in Seq(Spot), NEW rest,
           IsLeft(H, f, R, "value", p, b, rest),
           NEW s \in Spot, s.type = H[p].type, s.current = H[p].child
    PROVE  Splits(H, f, R, rest, BeginText(H[p].type, f), "each", p, Append(b, s))
<1>1. PICK n \in Nat : \E w \in Seq(Spot) :
              /\ n = Len(b) /\ w = Append(b, s) /\ Len(w) = n + 1 /\ w[n + 1] = s
              /\ \A i \in 1..n : w[i] = b[i] /\ b[i] = w[i]
    BY Pushed
<1>2. PICK w \in Seq(Spot) :
              /\ n = Len(b) /\ w = Append(b, s) /\ Len(w) = n + 1 /\ w[n + 1] = s
              /\ \A i \in 1..n : w[i] = b[i] /\ b[i] = w[i]
    BY <1>1
<1>3. PICK T : /\ IsRests(H, f, R, b, T, n)
               /\ rest = R[<<"value", p, n>>] ++ T[n]
    BY <1>2 DEF IsLeft, LeftText, LeftAtValue, Entered
<1>4. PICK c \in Items(H) \cup {Null} : c = H[p].child
    BY DEF Renders, TreePrints
<1>5. n + 1 \in Nat \ {0} /\ (n + 1) - 1 = n
    OBVIOUS
<1>6. PICK o, l : o = BeginText(H[p].type, f) /\ l = ListText(f, R, H[p].type, c, n + 1)
    OBVIOUS
<1>7. R[<<"value", p, n>>] = o ++ l
    BY <1>4, <1>5, <1>6 DEF Renders, IsRendered, ValueText, ListText
<1>8. Wide(o) /\ Wide(l) /\ Wide(T[n])
    BY <1>3, <1>5, <1>6, FormsWide, ListWide, RestsWide
<1>9. rest = o ++ (l ++ T[n])
    BY <1>3, <1>7, <1>8, Associative, WideIs
<1>10. Wide(l ++ T[n])
    BY <1>8, WideJoins
<1>11. IsRests(H, f, R, w, T, n)
    BY <1>2, <1>3, RestsAgree
<1>12. l ++ T[n] = AtEach(f, R, T, w[Len(w)], Len(w))
    BY <1>2, <1>4, <1>5, <1>6 DEF AtEach
<1>13. Entered("each", w) = n
    BY <1>2, <1>5 DEF Entered
<1>14. IsLeft(H, f, R, "each", p, w, l ++ T[n])
    BY <1>11, <1>12, <1>13 DEF IsLeft, LeftText
<1>. QED  BY <1>2, <1>6, <1>8, <1>9, <1>10, <1>14 DEF Splits

LEMMA LeftClose ==
    ASSUME NEW H, NEW f, NEW R, Renders(H, f, R), NEW p, NEW b \in Seq(Spot),
           NEW s \in Spot, s.current = Null, NEW rest,
           IsLeft(H, f, R, "each", p, Append(b, s), rest)
    PROVE  Splits(H, f, R, rest, EndText(s.type, f, Len(b)), "printed", p, b)
<1>1. PICK n \in Nat : \E w \in Seq(Spot) :
              /\ n = Len(b) /\ w = Append(b, s) /\ Len(w) = n + 1 /\ w[n + 1] = s
              /\ \A i \in 1..n : w[i] = b[i] /\ b[i] = w[i]
    BY Pushed
<1>2. PICK w \in Seq(Spot) :
              /\ n = Len(b) /\ w = Append(b, s) /\ Len(w) = n + 1 /\ w[n + 1] = s
              /\ \A i \in 1..n : w[i] = b[i] /\ b[i] = w[i]
    BY <1>1
<1>3. n + 1 \in Nat \ {0} /\ (n + 1) - 1 = n
    OBVIOUS
<1>4. PICK T : /\ IsRests(H, f, R, w, T, n)
               /\ rest = AtEach(f, R, T, s, n + 1)
    BY <1>2, <1>3 DEF IsLeft, LeftText, Entered
<1>5. s.type \in Containers
    BY DEF Spot
<1>6. ListText(f, R, s.type, Null, n + 1) = EndText(s.type, f, n)
    <2>1. PICK k \in Nat \ {0} : k = n + 1
        BY <1>3
    <2>2. ListText(f, R, s.type, Null, k) = EndText(s.type, f, k - 1)
        BY <1>5, ListEnds
    <2>. QED  BY <1>3, <2>1, <2>2
<1>7. rest = EndText(s.type, f, n) ++ T[n]
    BY <1>3, <1>4, <1>6 DEF AtEach
<1>8. Wide(EndText(s.type, f, n)) /\ Wide(T[n])
    BY <1>4, EndWide, RestsWide
<1>9. IsRests(H, f, R, b, T, n)
    BY <1>2, <1>4, RestsAgree
<1>10. IsLeft(H, f, R, "printed", p, b, T[n])
    BY <1>2, <1>9 DEF IsLeft, LeftText, Entered
<1>. QED  BY <1>2, <1>7, <1>8, <1>10 DEF Splits

\* The rests with one more: that of the item that is visited.
LEMMA RestsGrow ==
    ASSUME NEW H, NEW f, NEW R, Renders(H, f, R), NEW w, NEW T, NEW n \in Nat,
           IsRests(H, f, R, w, T, n), w[n + 1] \in Spot, w[n + 1].current \in Items(H)
    PROVE  \E U : /\ IsRests(H, f, R, w, U, n + 1)
                  /\ U[n + 1] = RestOfList(H, f, R, w[n + 1], n + 1) ++ T[n]
                  /\ Wide(U[n + 1])
<1>1. PICK s \in Spot : s = w[n + 1]
    OBVIOUS
<1>2. PICK r : r = RestOfList(H, f, R, s, n + 1)
    OBVIOUS
<1>3. Wide(T[n])
    BY RestsWide
<1>4. Wide(r)
    <2>1. PICK q \in Items(H) \cup {Null} : q = H[s.current].next
        BY <1>1 DEF Renders, TreePrints
    <2>2. n + 1 \in Nat \ {0}
        OBVIOUS
    <2>3. Wide(ListText(f, R, s.type, q, n + 1))
        BY <2>2, ListWide
    <2>4. Wide(Gap(H, f, s.type, s.current))
        BY FormsWide
    <2>. QED  BY <1>2, <2>1, <2>3, <2>4, WideJoins DEF RestOfList
<1>5. PICK g : g = r ++ T[n] /\ Wide(g)
    BY <1>3, <1>4, WideJoins
<1>6. PICK U : U = [i \in Nat |-> IF i = n + 1 THEN g ELSE T[i]]
    OBVIOUS
<1>7. U[n + 1] = g
    BY <1>6
<1>8. \A i \in Nat : i # n + 1 => U[i] = T[i]
    BY <1>6
<1>9. \A i \in Nat : Wide(U[i])
    BY <1>5, <1>7, <1>8 DEF IsRests
<1>10. U[0] = <<>>
    <2>1. 0 # n + 1
        OBVIOUS
    <2>. QED  BY <1>8, <2>1 DEF IsRests
<1>11. ASSUME NEW i \in 1..n + 1 PROVE U[i] = RestOfList(H, f, R, w[i], i) ++ U[i - 1]
    <2>1. CASE i = n + 1
        <3>1. i - 1 = n /\ n # n + 1
            BY <2>1
        <3>2. U[i - 1] = T[n]
            BY <1>8, <3>1
        <3>. QED  BY <1>1, <1>2, <1>5, <1>7, <2>1, <3>2
    <2>2. CASE i # n + 1
        <3>1. i \in 1..n /\ i - 1 \in Nat /\ i - 1 # n + 1 /\ i \in Nat
            BY <2>2
        <3>2. U[i - 1] = T[i - 1] /\ U[i] = T[i]
            BY <1>8, <2>2, <3>1
        <3>. QED  BY <3>1, <3>2 DEF IsRests
    <2>. QED  BY <2>1, <2>2
<1>12. IsRests(H, f, R, w, U, n + 1)
    BY <1>9, <1>10, <1>11 DEF IsRests
<1>. QED  BY <1>1, <1>2, <1>5, <1>7, <1>12

\* Of an array the next element, and of an object the next member, indented.
LEMMA LeftVisit ==
    ASSUME NEW H, NEW f, NEW R, Renders(H, f, R), NEW p, NEW w \in Seq(Spot),
           NEW n \in Nat, Len(w) = n + 1, NEW s \in Spot, s = w[n + 1],
           s.current \in Items(H), NEW rest,
           IsLeft(H, f, R, "each", p, w, rest)
    PROVE  /\ s.type = "Array" => Wide(rest) /\ IsLeft(H, f, R, "value", s.current, w, rest)
           /\ s.type # "Array" => Splits(H, f, R, rest, Blank(f, n + 1), "key", s.current, w)
<1>1. n + 1 \in Nat \ {0} /\ (n + 1) - 1 = n
    OBVIOUS
<1>2. PICK T : /\ IsRests(H, f, R, w, T, n)
               /\ rest = ListText(f, R, s.type, s.current, n + 1) ++ T[n]
    BY <1>1 DEF IsLeft, LeftText, Entered, AtEach
<1>3. PICK U : /\ IsRests(H, f, R, w, U, n + 1)
               /\ U[n + 1] = RestOfList(H, f, R, s, n + 1) ++ T[n]
               /\ Wide(U[n + 1])
    BY <1>2, RestsGrow
<1>4. Wide(T[n])
    BY <1>2, RestsWide
<1>5. rest = ItemAndRest(H, f, R, s, n + 1, T[n])
    BY <1>1, <1>2, <1>4, ListBegins
<1>6. PICK q \in Items(H) : q = s.current
    OBVIOUS
<1>7. PICK v : v = LeftAtValue(R, U, q, n + 1)
    OBVIOUS
<1>8. Wide(v)
    <2>1. Wide(R[<<"value", q, n + 1>>])
        BY <1>1, RenderedWide DEF Kinds
    <2>. QED  BY <1>3, <1>7, <2>1, WideJoins DEF LeftAtValue
<1>9. v = R[<<"value", q, n + 1>>] ++ (RestOfList(H, f, R, s, n + 1) ++ T[n])
    BY <1>3, <1>7 DEF LeftAtValue
<1>10. CASE s.type = "Array"
    <2>1. rest = v
        BY <1>5, <1>6, <1>9, <1>10 DEF ItemAndRest
    <2>2. IsLeft(H, f, R, "value", q, w, v)
        BY <1>3, <1>7 DEF IsLeft, LeftText, Entered
    <2>. QED  BY <1>6, <1>8, <1>10, <2>1, <2>2
<1>11. CASE s.type # "Array"
    <2>1. PICK k : k = NameText(H, q) ++ (ColonText(f) ++ v)
        OBVIOUS
    <2>2. rest = Blank(f, n + 1) ++ k
        BY <1>5, <1>6, <1>9, <1>11, <2>1 DEF ItemAndRest
    <2>3. Wide(k)
        <3>1. Wide(ColonText(f) ++ v)
            BY <1>8, FormsWide, WideJoins
        <3>. QED  BY <2>1, <3>1, NameWide, WideJoins
    <2>4. Wide(Blank(f, n + 1))
        BY <1>1, EndWide
    <2>5. IsLeft(H, f, R, "key", q, w, k)
        BY <1>3, <1>7, <2>1 DEF IsLeft, LeftText, Entered, AtKey, AtColon
    <2>. QED  BY <1>6, <1>11, <2>2, <2>3, <2>4, <2>5 DEF Splits
<1>. QED  BY <1>10, <1>11

LEMMA LeftKey ==
    ASSUME NEW H, NEW f, NEW R, Renders(H, f, R), NEW p \in Items(H),
           NEW w \in Seq(Spot), NEW rest, IsLeft(H, f, R, "key", p, w, rest)
    PROVE  Splits(H, f, R, rest, NameText(H, p), "keyed", p, w)
<1>1. PICK n \in Nat : n = Len(w)
    OBVIOUS
<1>2. PICK T : /\ IsRests(H, f, R, w, T, n)
               /\ rest = NameText(H, p) ++ AtColon(f, R, T, p, n)
    BY <1>1 DEF IsLeft, LeftText, Entered, AtKey
<1>3. Wide(R[<<"value", p, n>>])
    BY RenderedWide DEF Kinds
<1>4. Wide(AtColon(f, R, T, p, n))
    <2>1. Wide(LeftAtValue(R, T, p, n))
        BY <1>2, <1>3, RestsWide, WideJoins DEF LeftAtValue
    <2>. QED  BY <2>1, FormsWide, WideJoins DEF AtColon
<1>5. IsLeft(H, f, R, "keyed", p, w, AtColon(f, R, T, p, n))
    BY <1>1, <1>2 DEF IsLeft, LeftText, Entered
<1>. QED  BY <1>2, <1>4, <1>5, NameWide DEF Splits

LEMMA LeftColon ==
    ASSUME NEW H, NEW f, NEW R, Renders(H, f, R), NEW p \in Items(H),
           NEW w \in Seq(Spot), NEW rest, IsLeft(H, f, R, "colon", p, w, rest)
    PROVE  Splits(H, f, R, rest, ColonText(f), "value", p, w)
<1>1. PICK n \in Nat : n = Len(w)
    OBVIOUS
<1>2. PICK T : /\ IsRests(H, f, R, w, T, n)
               /\ rest = ColonText(f) ++ LeftAtValue(R, T, p, n)
    BY <1>1 DEF IsLeft, LeftText, Entered, AtColon
<1>3. Wide(R[<<"value", p, n>>])
    BY RenderedWide DEF Kinds
<1>4. Wide(LeftAtValue(R, T, p, n))
    BY <1>2, <1>3, RestsWide, WideJoins DEF LeftAtValue
<1>5. IsLeft(H, f, R, "value", p, w, LeftAtValue(R, T, p, n))
    BY <1>1, <1>2 DEF IsLeft, LeftText, Entered
<1>. QED  BY <1>2, <1>4, <1>5, FormsWide DEF Splits

\* Behind an item, what lies between it and the next one.
LEMMA LeftComma ==
    ASSUME NEW H, NEW f, NEW R, Renders(H, f, R), NEW p, NEW b \in Seq(Spot),
           NEW s \in Spot, s.current \in Items(H), NEW rest,
           IsLeft(H, f, R, "behind", p, Append(b, s), rest),
           NEW t \in Spot, t.type = s.type, t.current = H[s.current].next
    PROVE  Splits(H, f, R, rest, Gap(H, f, s.type, s.current), "each", p, Append(b, t))
<1>1. PICK n \in Nat : \E w \in Seq(Spot) :
              /\ n = Len(b) /\ w = Append(b, s) /\ Len(w) = n + 1 /\ w[n + 1] = s
              /\ \A i \in 1..n : w[i] = b[i] /\ b[i] = w[i]
    BY Pushed
<1>2. PICK w \in Seq(Spot) :
              /\ n = Len(b) /\ w = Append(b, s) /\ Len(w) = n + 1 /\ w[n + 1] = s
              /\ \A i \in 1..n : w[i] = b[i] /\ b[i] = w[i]
    BY <1>1
<1>3. PICK m \in Nat : \E v \in Seq(Spot) :
              /\ m = Len(b) /\ v = Append(b, t) /\ Len(v) = m + 1 /\ v[m + 1] = t
              /\ \A i \in 1..m : v[i] = b[i] /\ b[i] = v[i]
    BY Pushed
<1>4. PICK v \in Seq(Spot) :
              /\ v = Append(b, t) /\ Len(v) = n + 1 /\ v[n + 1] = t
              /\ \A i \in 1..n : v[i] = b[i] /\ b[i] = v[i]
    BY <1>2, <1>3
<1>5. n + 1 \in Nat \ {0} /\ (n + 1) - 1 = n /\ n + 1 \in 1..n + 1
    OBVIOUS
<1>6. PICK T : IsRests(H, f, R, w, T, n + 1) /\ rest = T[n + 1]
    BY <1>2 DEF IsLeft, LeftText, Entered
<1>7. PICK q \in Items(H) \cup {Null} : q = H[s.current].next
    BY DEF Renders, TreePrints
<1>8. PICK g, l : g = Gap(H, f, s.type, s.current) /\ l = ListText(f, R, s.type, q, n + 1)
    OBVIOUS
<1>9. T[n + 1] = (g ++ l) ++ T[n]
    <2>1. T[n + 1] = RestOfList(H, f, R, w[n + 1], n + 1) ++ T[(n + 1) - 1]
        BY <1>5, <1>6 DEF IsRests
    <2>2. RestOfList(H, f, R, s, n + 1) = g ++ l
        BY <1>7, <1>8 DEF RestOfList
    <2>. QED  BY <1>2, <1>5, <2>1, <2>2
<1>10. Wide(g) /\ Wide(l) /\ Wide(T[n])
    BY <1>5, <1>6, <1>8, FormsWide, ListWide, RestsWide
<1>11. rest = g ++ (l ++ T[n])
    BY <1>6, <1>9, <1>10, Associative, WideIs
<1>12. Wide(l ++ T[n])
    BY <1>10, WideJoins
<1>13. IsRests(H, f, R, v, T, n)
    <2>1. ASSUME NEW i \in 1..n PROVE v[i] = w[i]
        BY <1>2, <1>4
    <2>2. IsRests(H, f, R, w, T, n)
        <3>1. \A i \in 1..n : i \in 1..n + 1
            OBVIOUS
        <3>. QED  BY <1>6, <3>1 DEF IsRests
    <2>. QED  BY <2>1, <2>2, RestsAgree
<1>14. l ++ T[n] = AtEach(f, R, T, v[Len(v)], Len(v))
    BY <1>4, <1>5, <1>7, <1>8 DEF AtEach
<1>15. Entered("each", v) = n
    BY <1>4, <1>5 DEF Entered
<1>16. IsLeft(H, f, R, "each", p, v, l ++ T[n])
    BY <1>13, <1>14, <1>15 DEF IsLeft, LeftText
<1>. QED  BY <1>4, <1>8, <1>10, <1>11, <1>12, <1>16 DEF Splits

\* Steps that write nothing.
LEMMA LeftStays ==
    ASSUME NEW H, NEW f, NEW R, NEW p, NEW w, NEW rest
    PROVE  /\ IsLeft(H, f, R, "buffer", p, w, rest) => IsLeft(H, f, R, "value", p, w, rest)
           /\ IsLeft(H, f, R, "keyed", p, w, rest) => IsLeft(H, f, R, "colon", p, w, rest)
           /\ IsLeft(H, f, R, "printed", p, w, rest) => IsLeft(H, f, R, "behind", p, w, rest)
BY DEF IsLeft, LeftText, Entered

\* The whole text at first, and nothing at last.
LEMMA LeftAtFirst ==
    ASSUME NEW H, NEW f, NEW R, Renders(H, f, R), NEW p \in Items(H)
    PROVE  /\ IsLeft(H, f, R, "buffer", p, <<>>, R[<<"value", p, 0>>])
           /\ Wide(R[<<"value", p, 0>>])
<1>1. Wide(R[<<"value", p, 0>>])
    BY RenderedWide DEF Kinds
<1>2. PICK T : T = [i \in Nat |-> <<>>]
    OBVIOUS
<1>3. Len(<<>>) = 0
    BY EmptySequence
<1>4. IsRests(H, f, R, <<>>, T, 0)
    BY <1>2, WideEmpty DEF IsRests
<1>5. R[<<"value", p, 0>>] = LeftAtValue(R, T, p, 0)
    BY <1>1, <1>2, NothingAdded, WideIs DEF LeftAtValue
<1>6. LeftText(H, f, R, T, "buffer", p, <<>>) = LeftAtValue(R, T, p, 0)
    BY <1>3 DEF LeftText
<1>7. Entered("buffer", <<>>) = 0
    BY <1>3 DEF Entered
<1>. QED  BY <1>1, <1>4, <1>5, <1>6, <1>7 DEF IsLeft

LEMMA LeftAtLast ==
    ASSUME NEW H, NEW f, NEW R, NEW p, NEW rest, IsLeft(H, f, R, "behind", p, <<>>, rest)
    PROVE  rest = <<>>
<1>1. Len(<<>>) = 0
    BY EmptySequence
<1>. QED  BY <1>1 DEF IsLeft, LeftText, IsRests

-----------------------------------------------------------------------------
(***************************************************************************)
(* What each piece says                                                    *)
(***************************************************************************)

\* A piece of the text ts asks for what it writes, or for one byte more.
Says(piece, ts) ==
    /\ piece.tokens = ts /\ Wide(ts)
    /\ piece.needed \in Nat
    /\ TotalWidth(ts) <= piece.needed /\ piece.needed <= TotalWidth(ts) + 1

LEMMA PieceSays ==
    ASSUME NEW ts, Wide(ts), NEW n \in Nat, TotalWidth(ts) <= n, n <= TotalWidth(ts) + 1,
           NEW z, NEW c
    PROVE  Says(Piece(n, ts, z, c), ts)
<1>1. PICK p : p = Piece(n, ts, z, c)
    OBVIOUS
<1>2. p.needed = n /\ p.tokens = ts
    BY <1>1, PieceFields
<1>. QED  BY <1>1, <1>2 DEF Says

LEMMA ClosedSays ==
    ASSUME NEW t, Width(t) \in Nat \ {0} PROVE Says(Closed(t), <<t>>)
<1>1. PICK w \in Nat : w = Width(t)
    OBVIOUS
<1>2. Wide(<<t>>) /\ TotalWidth(<<t>>) = w
    BY <1>1, WideToken
<1>3. PICK n \in Nat, ts \in {<<t>>} : n = w + 1 /\ ts = <<t>>
    OBVIOUS
<1>4. Wide(ts) /\ TotalWidth(ts) <= n /\ n <= TotalWidth(ts) + 1
    BY <1>2, <1>3
<1>5. Closed(t) = Piece(n, ts, TRUE, FALSE)
    BY <1>1, <1>3 DEF Closed
<1>. QED  BY <1>3, <1>4, <1>5, PieceSays

\* A text of tokens of one byte each.
LEMMA NarrowSays ==
    ASSUME NEW ts, Narrow(ts), NEW n \in Nat, Len(ts) <= n, n <= Len(ts) + 1, NEW z, NEW c
    PROVE  Says(Piece(n, ts, z, c), ts)
BY WideNarrow, PieceSays

\* No character of a C string is a zero.
LEMMA NoZero ==
    ASSUME NEW bytes, IsSequence(bytes)
    PROVE  \A i \in 1..Len(CString(bytes)) : CString(bytes)[i] # 0
<1>1. PICK N \in Nat : N = Len(bytes)
    BY SequenceLength
<1>2. PICK zeros : zeros = {i \in 1..Len(bytes) : bytes[i] = 0}
    OBVIOUS
<1>3. CASE zeros = {}
    BY <1>2, <1>3 DEF CString
<1>4. CASE zeros # {}
    <2>1. zeros \subseteq Nat
        BY <1>1, <1>2
    <2>2. \E i \in zeros : \A j \in zeros : i <= j
        BY <1>4, <2>1, Least
    <2>3. PICK m : m = CHOOSE i \in zeros : \A j \in zeros : i <= j
        OBVIOUS
    <2>4. m \in zeros /\ \A j \in zeros : m <= j
        BY <2>2, <2>3
    <2>5. m \in Nat /\ m <= N /\ 1 <= m
        BY <1>1, <1>2, <2>4
    <2>6. PICK k \in 0..Len(bytes) : k = m - 1
        BY <1>1, <2>5
    <2>7. PICK c : c = SubSeq(bytes, 1, k)
        OBVIOUS
    <2>8. /\ Len(c) = k
          /\ \A i \in 1..k : c[i] = bytes[i] /\ i \in 1..Len(bytes)
        BY <2>7, Prefix
    <2>9. ASSUME NEW i \in 1..k PROVE c[i] # 0
        <3>1. c[i] = bytes[i] /\ i \in 1..Len(bytes)
            BY <2>8
        <3>2. i < m
            BY <1>1, <2>5, <2>6
        <3>3. i \notin zeros
            <4>1. ~(m <= i)
                BY <1>1, <2>5, <3>1, <3>2
            <4>. QED  BY <2>4, <4>1
        <3>. QED  BY <1>2, <3>1, <3>3
    <2>10. CString(bytes) = c
        BY <1>2, <1>4, <2>3, <2>6, <2>7 DEF CString
    <2>. QED  BY <2>8, <2>9, <2>10
<1>. QED  BY <1>3, <1>4

LEMMA EscapedExactly ==
    ASSUME NEW c, c # 0
    PROVE  IsSequence(Escaped(c)) /\ Len(Escaped(c)) = 1 + EscapeCharacters(c)
<1>1. IsSequence(Escaped(c))
    BY EscapedFits
<1>2. CASE c \in {34, 92, 8, 12, 10, 13, 9}
    <2>1. EscapeCharacters(c) = 1
        BY <1>2 DEF EscapeCharacters
    <2>2. PICK d : Escaped(c) = <<92, d>>
        BY <1>2 DEF Escaped
    <2>3. Len(Escaped(c)) = 2
        BY <2>2, Tuples, Zenon
    <2>. QED  BY <1>1, <2>1, <2>3
<1>3. CASE c \in 1..31 \ {34, 92, 8, 12, 10, 13, 9}
    <2>1. EscapeCharacters(c) = 5
        BY <1>3 DEF EscapeCharacters
    <2>2. PICK d, x : Escaped(c) = <<92, 117, 48, 48, d, x>>
        BY <1>3 DEF Escaped
    <2>3. Len(Escaped(c)) = 6
        BY <2>2
    <2>. QED  BY <1>1, <2>1, <2>3
<1>4. CASE c \notin 1..31 \cup {34, 92, 8, 12, 10, 13, 9}
    <2>1. c \notin 0..31
        BY <1>4
    <2>2. EscapeCharacters(c) = 0
        BY <1>4, <2>1 DEF EscapeCharacters
    <2>3. Escaped(c) = <<c>>
        BY <1>4 DEF Escaped
    <2>4. Len(Escaped(c)) = 1
        BY <2>3, Tuples, Zenon
    <2>. QED  BY <1>1, <2>2, <2>4
<1>. QED  BY <1>2, <1>3, <1>4

\* Parts of sequences are sequences of what all of them have.
LEMMA PartsIn ==
    ASSUME NEW f, NEW N \in Nat, \A i \in 1..N : IsSequence(f[i])
    PROVE  \E S : \A i \in 1..N : f[i] \in Seq(S)
<1>. DEFINE S == UNION {{f[i][k] : k \in 1..Len(f[i])} : i \in 1..N}
<1>1. ASSUME NEW i \in 1..N PROVE f[i] \in Seq(S)
    <2>1. PICK R : f[i] \in Seq(R)
        BY DEF IsSequence
    <2>2. PICK s : s = f[i]
        OBVIOUS
    <2>3. \A k \in 1..Len(s) : s[k] \in S
        BY <2>2
    <2>. HIDE DEF S
    <2>4. s \in Seq(R)
        BY <2>1, <2>2
    <2>5. s \in Seq(S)
        BY <2>3, <2>4
    <2>. QED  BY <2>2, <2>5
<1>. QED  BY <1>1

\* What is joined is as long as the sum of its parts.
LEMMA JoinedExactly ==
    ASSUME NEW f, NEW w, NEW N \in Nat, Len(f) = N, Len(w) = N,
           \A i \in 1..N : IsSequence(f[i]) /\ w[i] = Len(f[i])
    PROVE  IsSequence(Joined(f)) /\ Len(Joined(f)) = Sum(w)
<1>1. PICK S : \A i \in 1..N : f[i] \in Seq(S)
    BY PartsIn
<1>2. PICK g \in [0..N -> Seq(S)] :
          /\ g[0] = <<>>
          /\ \A n \in 0..N : n < N => g[n + 1] = g[n] \o f[n + 1]
          /\ Joined(f) = g[N]
    <2>1. PICK g : JoinSteps(g, f, N, S)
        BY <1>1, JoinUnfolds
    <2>. QED  BY <2>1 DEF JoinSteps
<1>3. \A i \in 1..N : w[i] \in Nat
    BY SequenceLength
<1>4. PICK h \in [0..N -> Nat] :
          /\ h[0] = 0
          /\ \A n \in 0..N : n < N => h[n + 1] = h[n] + w[n + 1]
          /\ Sum(w) = h[N]
    BY ONLY <1>3, N \in Nat, Len(w) = N, SumUnfolds
<1>. DEFINE T == {n \in 0..N : Len(g[n]) = h[n]}
<1>5. 0 \in T
    BY <1>2, <1>4
<1>6. ASSUME NEW n \in 0..N, n \in T, n < N PROVE n + 1 \in T
    <2>1. n + 1 \in 1..N /\ n + 1 \in 0..N
        BY <1>6
    <2>2. PICK x, y : x = g[n] /\ y = f[n + 1]
        OBVIOUS
    <2>3. IsSequence(x) /\ IsSequence(y)
        BY <1>1, <1>2, <2>1, <2>2 DEF IsSequence
    <2>4. Len(x \o y) = Len(x) + Len(y)
        BY <2>3, Concatenated
    <2>5. Len(x) = h[n] /\ Len(y) = w[n + 1]
        BY <1>6, <2>1, <2>2
    <2>6. g[n + 1] = x \o y /\ h[n + 1] = h[n] + w[n + 1]
        BY <1>2, <1>4, <1>6, <2>2
    <2>7. Len(g[n + 1]) = h[n + 1]
        BY <2>4, <2>5, <2>6
    <2>. QED  BY <2>1, <2>7
<1>. HIDE DEF T
<1>7. 0..N \subseteq T
    BY <1>5, <1>6, Induct
<1>8. N \in 0..N
    OBVIOUS
<1>9. Len(g[N]) = h[N]
    BY <1>7, <1>8 DEF T
<1>10. IsSequence(g[N])
    BY <1>2, <1>8 DEF IsSequence
<1>. QED  BY <1>2, <1>4, <1>9, <1>10

\* print_string_ptr asks for the two quotes and the zero besides.
LEMMA LengthIsExact ==
    ASSUME NEW string, IsSequence(string), \A i \in 1..Len(string) : string[i] # 0
    PROVE  /\ OutputLength(string) \in Nat
           /\ Width(StringToken(string)) = OutputLength(string) + 2
<1>1. PICK N \in Nat : N = Len(string)
    BY SequenceLength
<1>2. PICK f : f = [i \in 1..N |-> Escaped(string[i])]
    OBVIOUS
<1>3. PICK w : w = [i \in 1..N |-> 1 + EscapeCharacters(string[i])]
    OBVIOUS
<1>4. Len(f) = N /\ Len(w) = N
    <2>1. f = [i \in 1..N |-> f[i]] /\ w = [i \in 1..N |-> w[i]]
        BY <1>2, <1>3
    <2>. QED  BY <2>1, Mapped
<1>5. \A i \in 1..N : IsSequence(f[i]) /\ w[i] = Len(f[i])
    BY <1>1, <1>2, <1>3, EscapedExactly
<1>6. IsSequence(Joined(f)) /\ Len(Joined(f)) = Sum(w)
    BY <1>4, <1>5, JoinedExactly
<1>7. OutputLength(string) = Sum(w)
    BY <1>1, <1>3 DEF OutputLength
<1>8. PICK j : j = Joined(f)
    OBVIOUS
<1>9. PICK t : t = StringToken(string)
    OBVIOUS
<1>10. t = [kind |-> "string", bytes |-> Append(j, 34)]
    BY <1>1, <1>2, <1>8, <1>9 DEF StringToken
<1>11. t.kind = "string" /\ t.bytes = Append(j, 34)
    BY <1>10
<1>12. PICK S : j \in Seq(S)
    BY <1>6, <1>8 DEF IsSequence
<1>13. Len(Append(j, 34)) = Len(j) + 1
    BY <1>12, AppendedToken, Concatenated, Tuples DEF IsSequence
<1>14. Width(t) = 1 + Len(t.bytes)
    BY <1>11 DEF Width
<1>15. Len(j) \in Nat
    BY <1>12
<1>16. PICK o \in Nat : o = Len(j)
    BY <1>15
<1>17. OutputLength(string) = o
    BY <1>6, <1>7, <1>8, <1>16
<1>18. Width(t) = 1 + (o + 1)
    BY <1>11, <1>13, <1>14, <1>16
<1>. QED  BY <1>9, <1>16, <1>17, <1>18

LEMMA StringSays ==
    ASSUME NEW b, b = Null \/ IsSequence(heap[b].bytes)
    PROVE  Says(StringPiece(b), <<TextOf(heap, b)>>)
<1>1. PICK string : string = CharactersOf(b)
    OBVIOUS
<1>2. IsSequence(string) /\ \A i \in 1..Len(string) : string[i] # 0
    <2>1. CASE b = Null
        <3>1. string = <<>> /\ Len(<<>>) = 0
            BY <1>1, <2>1, EmptySequence DEF CharactersOf
        <3>. QED  BY <3>1, EmptySequence
    <2>2. CASE b # Null
        <3>1. IsSequence(heap[b].bytes) /\ string = CString(heap[b].bytes)
            BY <1>1, <2>2 DEF CharactersOf
        <3>. QED  BY <3>1, CStringIsSequence, NoZero
    <2>. QED  BY <2>1, <2>2
<1>3. PICK t : t = StringToken(string)
    OBVIOUS
<1>4. TextOf(heap, b) = t
    BY <1>1, <1>3 DEF TextOf, CharactersOf
<1>5. PICK o \in Nat : o = OutputLength(string)
    BY <1>2, LengthIsExact
<1>6. Width(t) = o + 2
    BY <1>2, <1>3, <1>5, LengthIsExact
<1>7. Width(t) \in Nat \ {0}
    BY <1>6
<1>8. Wide(<<t>>) /\ TotalWidth(<<t>>) = o + 2
    BY <1>6, <1>7, WideToken
<1>9. PICK n \in Nat : n = o + 3
    OBVIOUS
<1>10. TotalWidth(<<t>>) <= n /\ n <= TotalWidth(<<t>>) + 1
    BY <1>8, <1>9
<1>11. StringPiece(b) = Piece(n, <<t>>, TRUE, FALSE)
    BY <1>1, <1>3, <1>5, <1>9 DEF StringPiece
<1>. QED  BY <1>4, <1>8, <1>10, <1>11, PieceSays

LEMMA NumberSays ==
    ASSUME NEW value PROVE Says(NumberPiece(value), <<NumberToken(value)>>)
<1>1. PICK t : t = NumberToken(value)
    OBVIOUS
<1>2. PICK w \in Nat : w = Width(t) /\ w # 0
    BY <1>1, NumberWide
<1>3. Wide(<<t>>) /\ TotalWidth(<<t>>) = w
    BY <1>2, WideToken
<1>4. PICK n \in Nat, ts \in {<<t>>} : n = w + 1 /\ ts = <<t>>
    OBVIOUS
<1>5. NumberPiece(value) = Piece(n, ts, TRUE, TRUE)
    BY <1>1, <1>2, <1>4 DEF NumberPiece
<1>6. Wide(ts) /\ TotalWidth(ts) <= n /\ n <= TotalWidth(ts) + 1
    BY <1>3, <1>4
<1>. QED  BY <1>1, <1>4, <1>5, <1>6, PieceSays

LEMMA ScalarSays ==
    ASSUME NEW p, Printable(heap, p), heap[p].type \notin Containers
    PROVE  Says(ScalarPiece(heap[p]), ScalarText(heap, p))
<1>1. heap[p].type \in {"NULL", "False", "True", "Number", "String"}
    BY DEF Printable, Whole, Containers
<1>2. CASE heap[p].type \in {"NULL", "False", "True"}
    <2>1. PICK kind \in {"null", "true", "false"} :
              /\ ScalarPiece(heap[p]) = Closed(Mark(kind))
              /\ ScalarText(heap, p) = <<Mark(kind)>>
        BY <1>2 DEF ScalarPiece, ScalarText
    <2>2. Width(Mark(kind)) \in Nat \ {0}
        BY MarkWide
    <2>3. Says(Closed(Mark(kind)), <<Mark(kind)>>)
        BY <2>2, ClosedSays
    <2>. QED  BY <2>1, <2>3
<1>3. CASE heap[p].type = "Number"
    <2>1. /\ ScalarPiece(heap[p]) = NumberPiece(heap[p].valuedouble)
          /\ ScalarText(heap, p) = <<NumberToken(heap[p].valuedouble)>>
        BY <1>3 DEF ScalarPiece, ScalarText
    <2>. QED  BY <2>1, NumberSays
<1>4. CASE heap[p].type = "String"
    <2>1. /\ ScalarPiece(heap[p]) = StringPiece(heap[p].valuestring)
          /\ ScalarText(heap, p) = <<TextOf(heap, heap[p].valuestring)>>
        BY <1>4 DEF ScalarPiece, ScalarText
    <2>2. IsSequence(heap[heap[p].valuestring].bytes)
        BY <1>4 DEF Printable
    <2>. QED  BY <2>1, <2>2, StringSays
<1>. QED  BY <1>1, <1>2, <1>3, <1>4

\* A newline is one space of a formatted text.
LEMMA NewlineIs ==
    ASSUME NEW f PROVE NewlineIf(f) = Blank(f, 1)
<1>1. Spaces(1) = <<Mark("space")>>
    BY DEF Spaces
<1>. QED  BY <1>1 DEF NewlineIf, Blank

LEMMA OpenSays ==
    ASSUME NEW type PROVE Says(OpenPiece(type), BeginText(type, format))
<1>1. CASE type = "Array"
    <2>0. PICK n \in Nat : n = 1
        OBVIOUS
    <2>1. PICK ts : ts = <<Mark("[")>>
        OBVIOUS
    <2>2. Narrow(ts) /\ Len(ts) = 1
        BY <2>1, NarrowMarks DEF Punctuation
    <2>3. OpenPiece(type) = Piece(n, ts, FALSE, TRUE) /\ BeginText(type, format) = ts
        BY <1>1, <2>0, <2>1 DEF OpenPiece, BeginText
    <2>4. Len(ts) <= n /\ n <= Len(ts) + 1
        BY <2>0, <2>2
    <2>. QED  BY <2>2, <2>3, <2>4, NarrowSays
<1>2. CASE type # "Array"
    <2>1. PICK ts : ts = <<Mark("{")>> \o NewlineIf(format)
        OBVIOUS
    <2>2. PICK n \in Nat : n = IF format THEN 3 ELSE 2
        OBVIOUS
    <2>3. OpenPiece(type) = Piece(n, ts, FALSE, TRUE)
        BY <1>2, <2>1, <2>2 DEF OpenPiece
    <2>4. Narrow(ts) /\ Len(ts) = IF format THEN 2 ELSE 1
        BY <2>1, MarkAndNewline DEF Punctuation
    <2>5. Len(ts) <= n /\ n <= Len(ts) + 1
        BY <2>2, <2>4
    <2>6. BeginText(type, format) = ts
        BY <1>2, <2>1, NewlineIs DEF BeginText, ++
    <2>. QED  BY <2>3, <2>4, <2>5, <2>6, NarrowSays
<1>. QED  BY <1>1, <1>2

LEMMA ColonSays == Says(ColonPiece, ColonText(format))
<1>1. PICK ts : ts = <<Mark(":")>> \o NewlineIf(format)
    OBVIOUS
<1>2. PICK n \in Nat : n = IF format THEN 2 ELSE 1
    OBVIOUS
<1>3. ColonPiece = Piece(n, ts, FALSE, TRUE)
    BY <1>1, <1>2 DEF ColonPiece
<1>4. Narrow(ts) /\ Len(ts) = IF format THEN 2 ELSE 1
    BY <1>1, MarkAndNewline DEF Punctuation
<1>5. Len(ts) <= n /\ n <= Len(ts) + 1
    BY <1>2, <1>4
<1>6. ColonText(format) = ts
    BY <1>1, NewlineIs DEF ColonText, ++
<1>. QED  BY <1>3, <1>4, <1>5, <1>6, NarrowSays

LEMMA IndentSays ==
    ASSUME NEW n \in Nat, n = Len(walk), format
    PROVE  Says(IndentPiece, Blank(format, n))
<1>1. PICK ts : ts = Spaces(n)
    OBVIOUS
<1>2. Narrow(ts) /\ Len(ts) = n
    BY <1>1, NarrowSpaces
<1>3. IndentPiece = Piece(n, ts, FALSE, TRUE) /\ Blank(format, n) = ts
    BY <1>1 DEF IndentPiece, Blank
<1>4. Len(ts) <= n /\ n <= Len(ts) + 1
    BY <1>2
<1>. QED  BY <1>2, <1>3, <1>4, NarrowSays

LEMMA CloseSays ==
    ASSUME NEW n \in Nat, Len(walk) = n + 1, Innermost.type \in Containers
    PROVE  Says(ClosePiece, EndText(Innermost.type, format, n))
<1>1. ASSUME NEW kind \in Punctuation
      PROVE  Says(Closed(Mark(kind)), <<Mark(kind)>>)
    <2>1. Width(Mark(kind)) \in Nat \ {0}
        BY MarkWide
    <2>. QED  BY <2>1, ClosedSays
<1>2. CASE Innermost.type = "Array"
    <2>1. ClosePiece = Closed(Mark("]")) /\ EndText(Innermost.type, format, n) = <<Mark("]")>>
        BY <1>2 DEF ClosePiece, EndText
    <2>2. "]" \in Punctuation
        BY DEF Punctuation
    <2>. QED  BY <1>1, <2>1, <2>2
<1>3. CASE Innermost.type # "Array" /\ ~format
    <2>1. PICK m : m = <<Mark("}")>>
        OBVIOUS
    <2>2. "}" \in Punctuation
        BY DEF Punctuation
    <2>3. IsSequence(m)
        BY <2>1, Tuples, Zenon
    <2>4. EndText(Innermost.type, format, n) = <<>> ++ m
        BY <1>3, <2>1 DEF EndText, Blank
    <2>5. <<>> ++ m = m
        BY <2>3, NothingAdded
    <2>6. ClosePiece = Closed(Mark("}"))
        BY <1>3 DEF ClosePiece
    <2>. QED  BY <1>1, <2>1, <2>2, <2>4, <2>5, <2>6
<1>4. CASE Innermost.type # "Array" /\ format
    <2>1. PICK s : s = Spaces(n)
        OBVIOUS
    <2>2. Narrow(s) /\ Len(s) = n
        BY <2>1, NarrowSpaces
    <2>3. PICK m : m = Mark("}")
        OBVIOUS
    <2>4. Narrow(<<m>>) /\ Len(<<m>>) = 1
        BY <2>3, NarrowMarks DEF Punctuation
    <2>5. IsSequence(s)
        BY <2>2 DEF Narrow
    <2>6. PICK ts : ts = Append(s, m)
        OBVIOUS
    <2>7. ts = s \o <<m>>
        BY <2>5, <2>6, AppendedToken
    <2>8. Narrow(ts) /\ Len(ts) = n + 1
        BY <2>2, <2>4, <2>7, NarrowConcat
    <2>9. PICK k \in Nat : k = n + 2
        OBVIOUS
    <2>10. Len(walk) + 1 = k /\ Len(walk) - 1 = n
        BY <2>9
    <2>11. ClosePiece = Piece(k, ts, TRUE, FALSE)
        BY <1>4, <2>1, <2>3, <2>6, <2>10 DEF ClosePiece
    <2>12. EndText(Innermost.type, format, n) = ts
        BY <1>4, <2>1, <2>3, <2>7 DEF EndText, Blank, ++
    <2>13. Len(ts) <= k /\ k <= Len(ts) + 1
        BY <2>8, <2>9
    <2>. QED  BY <2>8, <2>11, <2>12, <2>13, NarrowSays
<1>. QED  BY <1>2, <1>3, <1>4

LEMMA NoBlank == ASSUME NEW f PROVE Blank(f, 0) = <<>>
<1>1. Spaces(0) = <<>>
    <2>1. PICK s : s = Spaces(0)
        OBVIOUS
    <2>2. Narrow(s) /\ Len(s) = 0
        BY <2>1, NarrowSpaces
    <2>3. PICK S : s \in Seq(S)
        BY <2>2 DEF Narrow, IsSequence
    <2>. QED  BY <2>1, <2>2, <2>3
<1>. QED  BY <1>1 DEF Blank

\* What lies between two elements or members, or ends the last member.
LEMMA CommaIfs ==
    ASSUME NEW H, NEW p
    PROVE  /\ H[p].next # Null => CommaOf(H, p) = <<Mark(",")>> /\ Len(CommaOf(H, p)) = 1
           /\ H[p].next = Null => CommaOf(H, p) = <<>> /\ Len(CommaOf(H, p)) = 0
<1>1. PICK m : m = <<Mark(",")>> /\ Len(m) = 1
    BY Tuples, Zenon
<1>2. Len(<<>>) = 0
    BY EmptySequence
<1>. QED  BY <1>1, <1>2 DEF CommaOf

LEMMA GapBetween ==
    ASSUME NEW H, NEW f, NEW type, NEW p, H[p].next # Null
    PROVE  Gap(H, f, type, p) = <<Mark(",")>> \o NewlineIf(f)
BY CommaIfs, NewlineIs DEF Gap, BetweenItems, BetweenMembers, ++

LEMMA GapAtEnd ==
    ASSUME NEW H, NEW f, NEW type \in Containers, NEW p, H[p].next = Null
    PROVE  Gap(H, f, type, p) = <<>> \o NewlineIf(f /\ type = "Object")
<1>1. CASE type = "Array"
    <2>1. Gap(H, f, type, p) = <<>> \o Blank(f, 0)
        BY <1>1, CommaIfs DEF Gap, BetweenItems, ++
    <2>2. NewlineIf(f /\ type = "Object") = <<>>
        BY <1>1 DEF NewlineIf
    <2>. QED  BY <2>1, <2>2, NoBlank
<1>2. CASE type # "Array"
    <2>1. type = "Object"
        BY <1>2 DEF Containers
    <2>2. Gap(H, f, type, p) = <<>> \o Blank(f, 1)
        BY <1>2, CommaIfs DEF Gap, BetweenMembers, ++
    <2>3. Blank(f, 1) = NewlineIf(f)
        BY NewlineIs
    <2>4. NewlineIf(f /\ type = "Object") = NewlineIf(f)
        BY <2>1 DEF NewlineIf
    <2>. QED  BY <2>2, <2>3, <2>4
<1>. QED  BY <1>1, <1>2

LEMMA CommaIs ==
    ASSUME NEW p, NEW type \in Containers, Innermost.type = type
    PROVE  \E n \in Nat : /\ Narrow(Gap(heap, format, type, p))
                          /\ n = Len(Gap(heap, format, type, p)) + 1
                          /\ CommaPiece(heap[p].next # Null) =
                                Piece(n, Gap(heap, format, type, p), TRUE, TRUE)
<1>1. PICK g : g = Gap(heap, format, type, p)
    OBVIOUS
<1>2. CASE heap[p].next # Null
    <2>1. g = <<Mark(",")>> \o NewlineIf(format)
        BY <1>1, <1>2, GapBetween
    <2>2. Narrow(g)
        <3>1. PICK m, s : m = <<Mark(",")>> /\ s = NewlineIf(format)
            OBVIOUS
        <3>2. Narrow(m) /\ Narrow(s)
            BY <3>1, NarrowMarks, NewlineNarrow DEF Punctuation
        <3>. QED  BY <2>1, <3>1, <3>2, NarrowConcat
    <2>3. PICK n \in Nat : n = Len(g) + 1
        BY <2>2, NarrowWidth
    <2>4. CommaPiece(heap[p].next # Null) = Piece(n, g, TRUE, TRUE)
        BY <1>2, <2>1, <2>3 DEF CommaPiece, NewlineIf
    <2>. QED  BY <1>1, <2>2, <2>3, <2>4
<1>3. CASE heap[p].next = Null
    <2>1. g = <<>> \o NewlineIf(format /\ type = "Object")
        BY <1>1, <1>3, GapAtEnd
    <2>2. Narrow(g)
        <3>1. PICK m, s : m = <<>> /\ s = NewlineIf(format /\ type = "Object")
            OBVIOUS
        <3>2. Narrow(m) /\ Narrow(s)
            BY <3>1, NarrowMarks, NewlineNarrow
        <3>. QED  BY <2>1, <3>1, <3>2, NarrowConcat
    <2>3. PICK n \in Nat : n = Len(g) + 1
        BY <2>2, NarrowWidth
    <2>4. CommaPiece(heap[p].next # Null) = Piece(n, g, TRUE, TRUE)
        BY <1>3, <2>1, <2>3 DEF CommaPiece, NewlineIf
    <2>. QED  BY <1>1, <2>2, <2>3, <2>4
<1>. QED  BY <1>2, <1>3

LEMMA CommaSays ==
    ASSUME NEW p, NEW type \in Containers, Innermost.type = type
    PROVE  Says(CommaPiece(heap[p].next # Null), Gap(heap, format, type, p))
<1>1. PICK ts : ts = Gap(heap, format, type, p)
    OBVIOUS
<1>2. PICK n \in Nat : /\ Narrow(ts) /\ n = Len(ts) + 1
                       /\ CommaPiece(heap[p].next # Null) = Piece(n, ts, TRUE, TRUE)
    BY <1>1, CommaIs
<1>3. Len(ts) <= n /\ n <= Len(ts) + 1
    BY <1>2, NarrowWidth
<1>4. Says(Piece(n, ts, TRUE, TRUE), ts)
    BY <1>2, <1>3, NarrowSays
<1>. QED  BY <1>1, <1>2, <1>4, Zenon

\* The last element of an array has nothing behind it.
LEMMA NoGap ==
    ASSUME NEW H, NEW f, NEW p, H[p].next = Null
    PROVE  Gap(H, f, "Array", p) = <<>>
<1>1. CommaOf(H, p) = <<>> /\ Len(CommaOf(H, p)) = 0
    BY CommaIfs
<1>2. Gap(H, f, "Array", p) = <<>> ++ <<>>
    BY <1>1, NoBlank DEF Gap, BetweenItems
<1>. QED  BY <1>2, EmptySequence, NothingAdded

-----------------------------------------------------------------------------
(***************************************************************************)
(* What lies in the buffer                                                 *)
(***************************************************************************)

\* The text of the first m pieces.
TextUpTo(ps, m) == Joined([i \in 1..m |-> ps[i].tokens])

\* The pieces before `to' are the text `done', and fill the buffer up to it.
Laid(ps, to, done) ==
    /\ IsSequence(ps)
    /\ \A i \in 1..Len(ps) : IsSequence(ps[i].tokens) /\ ps[i].at \in Nat
    /\ \E m \in 0..Len(ps) :
          /\ \A i \in 1..Len(ps) : ps[i].at < to <=> i <= m
          /\ done = TextUpTo(ps, m)
    /\ Wide(done) /\ TotalWidth(done) = to

LEMMA JoinedNone == ASSUME NEW f, NEW N \in Nat, N = 0, Len(f) = N PROVE Joined(f) = <<>>
<1>1. PICK S : \A i \in 1..N : f[i] \in Seq(S)
    OBVIOUS
<1>2. PICK g : JoinSteps(g, f, N, S)
    BY <1>1, JoinUnfolds
<1>. QED  BY <1>2 DEF JoinSteps

IsParts(f, N) == Len(f) = N /\ \A i \in 1..N : IsSequence(f[i])

\* g are the sequences that the first parts of f make.
Unfolds(g, f, N) ==
    /\ g[0] = <<>>
    /\ \A n \in 0..N : n < N => g[n + 1] = g[n] \o f[n + 1]
    /\ Joined(f) = g[N]

LEMMA SomeJoin ==
    ASSUME NEW f, NEW N \in Nat, Len(f) = N, \A i \in 1..N : IsSequence(f[i])
    PROVE  \E g : Unfolds(g, f, N)
<1>1. PICK S : \A i \in 1..N : f[i] \in Seq(S)
    BY PartsIn
<1>2. PICK g : JoinSteps(g, f, N, S)
    BY <1>1, JoinUnfolds
<1>3. Unfolds(g, f, N)
    BY <1>2 DEF JoinSteps, Unfolds
<1>. QED  BY <1>3

LEMMA PartsJoin ==
    ASSUME NEW N \in Nat, NEW f, IsParts(f, N)
    PROVE  \E g : Unfolds(g, f, N)
<1>1. Len(f) = N
    BY DEF IsParts
<1>2. \A i \in 1..N : IsSequence(f[i])
    BY DEF IsParts
<1>. QED  BY <1>1, <1>2, SomeJoin, Zenon

LEMMA JoinedNext ==
    ASSUME NEW N \in Nat, NEW M \in Nat, M = N + 1,
           NEW f, Len(f) = M, \A i \in 1..M : IsSequence(f[i]),
           NEW e, Len(e) = N, \A i \in 1..N : e[i] = f[i]
    PROVE  Joined(f) = Joined(e) \o f[M]
<1>1. \A i \in 1..N : i \in 1..M
    OBVIOUS
<1>2. IsParts(f, M)
    BY DEF IsParts
<1>23. PICK g : Unfolds(g, f, M)
    BY <1>2, PartsJoin
<1>3. /\ g[0] = <<>>
      /\ \A n \in 0..M : n < M => g[n + 1] = g[n] \o f[n + 1]
      /\ Joined(f) = g[M]
    BY <1>23 DEF Unfolds
<1>4. \A i \in 1..N : IsSequence(e[i])
    BY <1>1
<1>13. IsParts(e, N)
    BY <1>4 DEF IsParts
<1>25. PICK h : Unfolds(h, e, N)
    BY <1>13, PartsJoin
<1>5. /\ h[0] = <<>>
      /\ \A n \in 0..N : n < N => h[n + 1] = h[n] \o e[n + 1]
      /\ Joined(e) = h[N]
    BY <1>25 DEF Unfolds
<1>. DEFINE T == {n \in 0..N : g[n] = h[n]}
<1>6. 0 \in T
    BY <1>3, <1>5
<1>7. ASSUME NEW n \in 0..N, n \in T, n < N PROVE n + 1 \in T
    <2>1. n + 1 \in 1..N /\ n + 1 \in 0..N /\ n \in 0..M /\ n < M
        BY <1>7
    <2>. QED  BY <1>3, <1>5, <1>7, <2>1
<1>. HIDE DEF T
<1>8. 0..N \subseteq T
    BY <1>6, <1>7, Induct
<1>9. N \in 0..N /\ N \in 0..M /\ N < M
    OBVIOUS
<1>10. g[N] = h[N]
    BY <1>8, <1>9 DEF T
<1>11. g[N + 1] = g[N] \o f[N + 1]
    BY <1>3, <1>9
<1>. QED  BY <1>3, <1>5, <1>10, <1>11

LEMMA TextSameUpTo ==
    ASSUME NEW m \in Nat, NEW ps, NEW qs, \A i \in 1..m : qs[i] = ps[i]
    PROVE  TextUpTo(qs, m) = TextUpTo(ps, m)
<1>1. [i \in 1..m |-> qs[i].tokens] = [i \in 1..m |-> ps[i].tokens]
    OBVIOUS
<1>. QED  BY <1>1 DEF TextUpTo

LEMMA TextNext ==
    ASSUME NEW m \in Nat, NEW k \in Nat, k = m + 1, NEW ps, NEW qs,
           \A i \in 1..m : qs[i] = ps[i], \A i \in 1..k : IsSequence(qs[i].tokens)
    PROVE  TextUpTo(qs, k) = TextUpTo(ps, m) ++ qs[k].tokens
<1>1. PICK f : f = [i \in 1..k |-> qs[i].tokens]
    OBVIOUS
<1>2. PICK e : e = [i \in 1..m |-> ps[i].tokens]
    OBVIOUS
<1>3. Len(f) = k /\ \A i \in 1..k : f[i] = qs[i].tokens
    <2>1. f = [i \in 1..k |-> f[i]]
        BY <1>1
    <2>. QED  BY <1>1, <2>1, Mapped
<1>4. Len(e) = m /\ \A i \in 1..m : e[i] = ps[i].tokens
    <2>1. e = [i \in 1..m |-> e[i]]
        BY <1>2
    <2>. QED  BY <1>2, <2>1, Mapped
<1>5. \A i \in 1..m : i \in 1..k
    OBVIOUS
<1>6. \A i \in 1..m : e[i] = f[i]
    BY <1>3, <1>4, <1>5
<1>7. \A i \in 1..k : IsSequence(f[i])
    BY <1>3
<1>8. Joined(f) = Joined(e) \o f[k]
    <2>1. ASSUME NEW g, g = f, NEW h, h = e PROVE Joined(g) = Joined(h) \o g[k]
        <3>1. Len(g) = k /\ \A i \in 1..k : IsSequence(g[i])
            BY <1>3, <1>7, <2>1
        <3>2. Len(h) = m /\ \A i \in 1..m : h[i] = g[i]
            BY <1>4, <1>6, <2>1
        <3>. QED  BY ONLY <3>1, <3>2, JoinedNext, k = m + 1, m \in Nat, k \in Nat
    <2>. QED  BY <2>1
<1>9. f[k] = qs[k].tokens
    BY <1>3
<1>. QED  BY <1>1, <1>2, <1>8, <1>9 DEF TextUpTo, ++

\* The pieces that the next one leaves are those that lie before the offset.
LEMMA LaidBefore ==
    ASSUME NEW done, Laid(pieces, position, done)
    PROVE  \E m \in 0..Len(pieces) :
              /\ \A i \in 1..Len(pieces) : pieces[i].at < position <=> i <= m
              /\ done = TextUpTo(pieces, m)
              /\ BeforeOffset = SubSeq(pieces, 1, m)
<1>1. PICK N \in Nat : N = Len(pieces)
    BY SequenceLength DEF Laid
<1>2. PICK m \in 0..Len(pieces) :
          /\ \A i \in 1..Len(pieces) : pieces[i].at < position <=> i <= m
          /\ done = TextUpTo(pieces, m)
    BY DEF Laid
<1>3. PICK C : C = {i \in 1..Len(pieces) : pieces[i].at < position}
    OBVIOUS
<1>4. m \in Nat /\ m <= N
    BY <1>1, <1>2
<1>5. C = 1..m
    <2>1. ASSUME NEW i \in C PROVE i \in 1..m
        <3>1. i \in 1..N /\ i <= m
            BY <1>1, <1>2, <1>3
        <3>. QED  BY <1>4, <3>1
    <2>2. ASSUME NEW i \in 1..m PROVE i \in C
        <3>1. i \in 1..N /\ i <= m
            BY <1>4
        <3>. QED  BY <1>1, <1>2, <1>3, <3>1
    <2>. QED  BY <2>1, <2>2
<1>6. Cardinality(C) = m
    BY <1>4, <1>5, FS_Interval
<1>7. BeforeOffset = SubSeq(pieces, 1, m)
    BY <1>3, <1>6 DEF BeforeOffset
<1>. QED  BY <1>2, <1>7

\* qs are the first m of the pieces ps and one more, of the text ts.
Extends(qs, ps, m, k, place, ts) ==
    /\ k = m + 1 /\ IsSequence(qs) /\ Len(qs) = k
    /\ \A i \in 1..m : qs[i] = ps[i]
    /\ qs[k].at = place /\ qs[k].tokens = ts

LEMMA Extended ==
    ASSUME NEW ps, IsSequence(ps), NEW m \in 0..Len(ps), NEW place, NEW ts
    PROVE  \E k \in Nat : Extends(Append(SubSeq(ps, 1, m), [at |-> place, tokens |-> ts]),
                              ps, m, k, place, ts)
<1>1. PICK b : b = SubSeq(ps, 1, m)
    OBVIOUS
<1>2. m \in Nat
    BY SequenceLength
<1>3. IsSequence(b) /\ Len(b) = m /\ \A i \in 1..m : b[i] = ps[i]
    BY <1>1, Prefix
<1>4. PICK p : p = [at |-> place, tokens |-> ts]
    OBVIOUS
<1>5. p.at = place /\ p.tokens = ts
    BY <1>4
<1>6. PICK S : b \in Seq(S) /\ p \in S
    <2>1. PICK Q : b \in Seq(Q)
        BY <1>3 DEF IsSequence
    <2>2. b \in Seq(Q \cup {p}) /\ p \in Q \cup {p}
        BY <2>1
    <2>. QED  BY <2>2
<1>7. PICK n \in Nat : n = Len(b)
    BY <1>6
<1>8. PICK q : q = Append(b, p)
    OBVIOUS
<1>9. q \in Seq(S) /\ Len(q) = n + 1 /\ q[n + 1] = p
    BY <1>6, <1>7, <1>8
<1>10. ASSUME NEW i \in 1..n PROVE q[i] = b[i]
    BY <1>6, <1>7, <1>8
<1>11. n = m
    BY <1>3, <1>7
<1>12. IsSequence(q)
    BY <1>9 DEF IsSequence
<1>13. q[m + 1].at = place /\ q[m + 1].tokens = ts
    BY <1>5, <1>9, <1>11
<1>14. \A i \in 1..m : q[i] = ps[i]
    BY <1>3, <1>10, <1>11
<1>15. Extends(q, ps, m, m + 1, place, ts) /\ m + 1 \in Nat
    BY <1>2, <1>9, <1>11, <1>12, <1>13, <1>14 DEF Extends
<1>. QED  BY <1>1, <1>4, <1>8, <1>15

\* The first m pieces are the text done, and they are those before the place.
Ends(ps, place, m, done) ==
    /\ IsSequence(ps) /\ m \in 0..Len(ps)
    /\ \A i \in 1..Len(ps) : IsSequence(ps[i].tokens) /\ ps[i].at \in Nat
    /\ \A i \in 1..Len(ps) : ps[i].at < place <=> i <= m
    /\ done = TextUpTo(ps, m)

Placed(qs, place, m, k, ts) ==
    /\ Len(qs) = k
    /\ \A i \in 1..k : IsSequence(qs[i].tokens) /\ qs[i].at \in Nat
    /\ \A i \in 1..m : qs[i].at < place
    /\ qs[k].at = place /\ qs[k].tokens = ts

LEMMA ExtendedPlaces ==
    ASSUME NEW ps, NEW place \in Nat, NEW m \in Nat, NEW k \in Nat, NEW done,
           Ends(ps, place, m, done), NEW ts, IsSequence(ts), NEW qs,
           Extends(qs, ps, m, k, place, ts)
    PROVE  Placed(qs, place, m, k, ts)
<1>1. PICK N \in Nat : N = Len(ps)
    BY SequenceLength DEF Ends
<1>2. m <= N
    BY <1>1 DEF Ends
<1>3. k = m + 1 /\ Len(qs) = k /\ qs[k].at = place /\ qs[k].tokens = ts
    BY DEF Extends
<1>4. \A i \in 1..k : i = k \/ i \in 1..m
    BY <1>3
<1>5. ASSUME NEW i \in 1..m
      PROVE  qs[i] = ps[i] /\ i \in 1..Len(ps) /\ i <= m
    BY <1>1, <1>2 DEF Extends
<1>6. ASSUME NEW i \in 1..m
      PROVE  IsSequence(qs[i].tokens) /\ qs[i].at \in Nat /\ qs[i].at < place
    <2>1. qs[i] = ps[i] /\ i \in 1..Len(ps) /\ i <= m
        BY <1>5
    <2>2. IsSequence(ps[i].tokens) /\ ps[i].at \in Nat
        BY <2>1 DEF Ends
    <2>3. ps[i].at < place
        BY <2>1 DEF Ends
    <2>. QED  BY <2>1, <2>2, <2>3
<1>. QED  BY <1>3, <1>4, <1>6 DEF Placed

\* A piece is laid behind the others.
LEMMA LaidOn ==
    ASSUME NEW ps, NEW place \in Nat, NEW m \in Nat, NEW done, Ends(ps, place, m, done),
           Wide(done), TotalWidth(done) = place, NEW ts, Wide(ts), NEW qs,
           NEW k \in Nat, Extends(qs, ps, m, k, place, ts)
    PROVE  Laid(qs, place + TotalWidth(ts), done ++ ts)
<1>1. k = m + 1
    BY DEF Extends
<1>2. IsSequence(ts) /\ IsSequence(done)
    BY WideIs
<1>3. /\ Len(qs) = k
      /\ \A i \in 1..k : IsSequence(qs[i].tokens) /\ qs[i].at \in Nat
      /\ \A i \in 1..m : qs[i].at < place
      /\ qs[k].at = place /\ qs[k].tokens = ts
    <2>1. Placed(qs, place, m, k, ts)
        BY <1>2, ExtendedPlaces
    <2>. QED  BY <2>1 DEF Placed
<1>4. PICK w \in Nat : w = TotalWidth(ts)
    BY WidthType
<1>5. Wide(done ++ ts) /\ TotalWidth(done ++ ts) = place + w
    BY <1>4, WideJoins
<1>6. IsSequence(qs) /\ \A i \in 1..m : qs[i] = ps[i]
    BY DEF Extends
<1>7. \A i \in 1..k : i = k \/ (i \in 1..m /\ i <= m)
    BY <1>1
<1>8. done = TextUpTo(ps, m)
    BY DEF Ends
<1>9. CASE w = 0
    <2>1. ts = <<>> /\ done ++ ts = done
        BY <1>2, <1>4, <1>9, WidthType, NothingAdded
    <2>2. TextUpTo(qs, m) = done
        BY <1>6, <1>8, TextSameUpTo
    <2>3. ASSUME NEW i \in 1..k PROVE qs[i].at < place <=> i <= m
        <3>1. CASE i = k
            <4>1. ~(qs[i].at < place) /\ ~(i <= m)
                BY <1>1, <1>3, <3>1
            <4>. QED  BY <4>1
        <3>2. CASE i \in 1..m /\ i <= m
            <4>1. qs[i].at < place
                BY <1>3, <3>2
            <4>. QED  BY <3>2, <4>1
        <3>. QED  BY <1>7, <3>1, <3>2
    <2>4. m \in 0..Len(qs) /\ place + w = place
        BY <1>1, <1>3, <1>9
    <2>5. \E l \in 0..Len(qs) :
              /\ \A i \in 1..Len(qs) : qs[i].at < place + w <=> i <= l
              /\ done ++ ts = TextUpTo(qs, l)
        BY <1>3, <2>1, <2>2, <2>3, <2>4
    <2>. QED  BY <1>3, <1>4, <1>5, <1>6, <2>5 DEF Laid
<1>10. CASE w # 0
    <2>1. TextUpTo(qs, k) = done ++ ts
        <3>1. TextUpTo(qs, k) = TextUpTo(ps, m) ++ qs[k].tokens
            BY <1>1, <1>3, <1>6, TextNext
        <3>. QED  BY <1>3, <1>8, <3>1
    <2>2. ASSUME NEW i \in 1..k PROVE qs[i].at < place + w <=> i <= k
        <3>1. i <= k
            OBVIOUS
        <3>2. PICK a \in Nat : a = qs[i].at
            BY <1>3
        <3>3. a <= place
            <4>1. CASE i = k
                BY <1>3, <3>2, <4>1
            <4>2. CASE i \in 1..m
                BY <1>3, <3>2, <4>2
            <4>. QED  BY <1>7, <4>1, <4>2
        <3>4. a < place + w
            BY <1>10, <3>3
        <3>. QED  BY <3>1, <3>2, <3>4
    <2>3. k \in 0..Len(qs)
        BY <1>3
    <2>4. \E l \in 0..Len(qs) :
              /\ \A i \in 1..Len(qs) : qs[i].at < place + w <=> i <= l
              /\ done ++ ts = TextUpTo(qs, l)
        BY <1>3, <2>1, <2>2, <2>3
    <2>. QED  BY <1>3, <1>4, <1>5, <1>6, <2>4 DEF Laid
<1>. QED  BY <1>9, <1>10

LEMMA LaidEmitted ==
    ASSUME NEW done, Laid(pieces, position, done), NEW ts, Wide(ts), NEW qs,
           qs = Append(BeforeOffset, [at |-> position, tokens |-> ts])
    PROVE  Laid(qs, position + TotalWidth(ts), done ++ ts)
<1>1. PICK m \in 0..Len(pieces) :
              /\ \A i \in 1..Len(pieces) : pieces[i].at < position <=> i <= m
              /\ done = TextUpTo(pieces, m)
              /\ BeforeOffset = SubSeq(pieces, 1, m)
    BY LaidBefore
<1>2. IsSequence(pieces) /\ Wide(done) /\ TotalWidth(done) = position
    BY DEF Laid
<1>3. Ends(pieces, position, m, done)
    BY <1>1 DEF Ends, Laid
<1>4. PICK k \in Nat : Extends(qs, pieces, m, k, position, ts)
    BY <1>1, <1>2, Extended
<1>5. m \in Nat /\ position \in Nat
    BY <1>1, <1>2, SequenceLength, WidthType
<1>. QED  BY <1>2, <1>3, <1>4, <1>5, LaidOn

\* What the buffer is cut to.
LEMMA LaidPrinted ==
    ASSUME NEW done, Laid(pieces, position, done) PROVE Printed = done
<1>1. PICK m \in 0..Len(pieces) :
              /\ done = TextUpTo(pieces, m)
              /\ BeforeOffset = SubSeq(pieces, 1, m)
    BY LaidBefore
<1>2. Len(SubSeq(pieces, 1, m)) = m
    BY Prefix DEF Laid
<1>. QED  BY <1>1, <1>2 DEF Printed, TextUpTo

LEMMA LaidNothing == Laid(<<>>, 0, <<>>)
<1>1. PICK n \in Nat : n = 0
    OBVIOUS
<1>2. IsSequence(<<>>) /\ Len(<<>>) = n
    BY <1>1, EmptySequence
<1>3. PICK f : f = [i \in 1..n |-> (<<>>)[i].tokens]
    OBVIOUS
<1>4. Len(f) = n
    <2>1. f = [i \in 1..n |-> f[i]]
        BY <1>3
    <2>. QED  BY <2>1, Mapped
<1>5. TextUpTo(<<>>, n) = <<>>
    BY <1>1, <1>3, <1>4, JoinedNone DEF TextUpTo
<1>6. Wide(<<>>) /\ TotalWidth(<<>>) = n
    BY <1>1, NarrowMarks, NarrowWidth, WideEmpty
<1>7. n \in 0..Len(<<>>) /\ \A i \in 1..Len(<<>>) : FALSE
    BY <1>1, <1>2
<1>. QED  BY <1>1, <1>2, <1>5, <1>6, <1>7 DEF Laid

-----------------------------------------------------------------------------
(***************************************************************************)
(* The printer at work                                                     *)
(***************************************************************************)

\* The text `done' lies in the pieces ps up to the place `to', the text `rest'
\* is left to print from `place' on, and both together are the whole text.
Written(H, f, R, place, p, w, ps, to, whole, done, rest) ==
    /\ Renders(H, f, R) /\ IsLeft(H, f, R, place, p, w, rest)
    /\ Wide(done) /\ Wide(rest) /\ Laid(ps, to, done)
    /\ whole = done ++ rest

Going(H, f, place, p, w, ps, to, whole) ==
    \E R, done, rest : Written(H, f, R, place, p, w, ps, to, whole, done, rest)

\* The piece is the next of what is left, and then the printer is at `place'.
Ready(piece, place, p, w) ==
    \E R, done, rest, o :
        /\ Written(heap, format, R, printer, printing, walk, pieces, position,
                   wanted, done, rest)
        /\ Says(piece, o)
        /\ Splits(heap, format, R, rest, o, place, p, w)

\* An allocation failed, or the text is wider than the largest buffer.
TooMuch == starved \/ TotalWidth(wanted) + 2 > PrintMax

WorkInv ==
    /\ printer \in Walking =>
            Going(heap, format, printer, printing, walk, pieces, position + pending, wanted)
    /\ printer \notin {"keyed", "printed"} => pending = 0
    /\ printer \in {"idle", "buffer", "done"} => position = 0 /\ pieces = <<>>
    /\ printer \in Walking \ {"buffer"} => position < length
    /\ printer = "fail" => TooMuch
    /\ printer = "done" => IF buffer = Null THEN TooMuch ELSE heap[buffer].bytes = wanted

\* What is written and what is left are as wide as the whole.
LEMMA WidthSplits ==
    ASSUME NEW R, NEW done, NEW rest, NEW place, NEW p, NEW w, NEW o, NEW here, NEW q, NEW v,
           NEW to, NEW whole,
           Written(heap, format, R, here, q, v, pieces, to, whole, done, rest),
           Splits(heap, format, R, rest, o, place, p, w)
    PROVE  \E l : /\ Wide(o) /\ Wide(l) /\ Wide(done ++ o) /\ Wide(done)
                  /\ whole = (done ++ o) ++ l
                  /\ Renders(heap, format, R)
                  /\ IsLeft(heap, format, R, place, p, w, l)
                  /\ TotalWidth(done) = to
                  /\ TotalWidth(whole) = (to + TotalWidth(o)) + TotalWidth(l)
<1>1. PICK l : /\ Wide(o) /\ Wide(l) /\ rest = o ++ l
               /\ IsLeft(heap, format, R, place, p, w, l)
    BY DEF Splits
<1>2. /\ Wide(done) /\ whole = done ++ rest /\ TotalWidth(done) = to
      /\ Renders(heap, format, R)
    BY DEF Written, Laid
<1>3. IsSequence(done) /\ IsSequence(o) /\ IsSequence(l)
    BY <1>1, <1>2, WideIs
<1>4. whole = (done ++ o) ++ l
    <2>1. (done ++ o) ++ l = done ++ (o ++ l)
        BY <1>3, Associative
    <2>. QED  BY <1>1, <1>2, <2>1
<1>5. Wide(done ++ o) /\ TotalWidth(done ++ o) = TotalWidth(done) + TotalWidth(o)
    BY <1>1, <1>2, WideJoins
<1>6. TotalWidth((done ++ o) ++ l) = TotalWidth(done ++ o) + TotalWidth(l)
    BY <1>1, <1>5, WideJoins
<1>7. TotalWidth(whole) = (to + TotalWidth(o)) + TotalWidth(l)
    BY <1>2, <1>4, <1>5, <1>6
<1>. QED  BY <1>1, <1>2, <1>4, <1>5, <1>7

\* The next piece is written, and the rest is left.
LEMMA EmitGoes ==
    ASSUME BufferInv, NEW piece, NEW place, NEW p, NEW w, Ready(piece, place, p, w),
           Emit(piece)
    PROVE  /\ Going(heap, format, place, p, w, pieces', position' + pending', wanted)
           /\ position' < length'
           /\ piece.counted = TRUE => pending' = 0
<1>1. PICK R, done, rest, o :
        /\ Written(heap, format, R, printer, printing, walk, pieces, position,
                   wanted, done, rest)
        /\ Says(piece, o)
        /\ Splits(heap, format, R, rest, o, place, p, w)
    BY DEF Ready
<1>2. PICK l : /\ Wide(o) /\ Wide(l) /\ Wide(done ++ o) /\ Wide(done)
               /\ wanted = (done ++ o) ++ l
               /\ Renders(heap, format, R)
               /\ IsLeft(heap, format, R, place, p, w, l)
               /\ TotalWidth(done) = position
    BY <1>1, WidthSplits
<1>3. PICK width \in Nat : width = TotalWidth(o)
    BY <1>2, WidthType
<1>4. PICK m \in Nat : m = piece.needed
    BY <1>1 DEF Says
<1>5. piece.tokens = o /\ width <= m
    BY <1>1, <1>3, <1>4 DEF Says
<1>6. /\ position' = IF piece.counted THEN position + width ELSE position
      /\ pending' = IF piece.counted THEN 0 ELSE width
      /\ pieces' = Append(BeforeOffset, [at |-> position, tokens |-> o])
    BY <1>3, <1>5 DEF Emit
<1>7. position \in Nat
    BY DEF BufferInv
<1>8. position' + pending' = position + width
    BY <1>6, <1>7
<1>13. PICK moved \in Nat : moved = position' /\ moved <= position + width
    <2>1. position' = position \/ position' = position + width
        BY <1>6
    <2>. QED  BY <1>7, <2>1
<1>9. Laid(pieces', position + TotalWidth(o), done ++ o)
    <2>1. Laid(pieces, position, done)
        BY <1>1 DEF Written
    <2>2. PICK qs : qs = pieces'
        OBVIOUS
    <2>3. qs = Append(BeforeOffset, [at |-> position, tokens |-> o])
        BY <1>6, <2>2
    <2>4. Laid(qs, position + TotalWidth(o), done ++ o)
        BY <1>2, <2>1, <2>3, LaidEmitted
    <2>. QED  BY <2>2, <2>4
<1>10. Laid(pieces', position' + pending', done ++ o)
    BY <1>3, <1>8, <1>9
<1>11. Going(heap, format, place, p, w, pieces', position' + pending', wanted)
    <2>1. Written(heap, format, R, place, p, w, pieces', position' + pending', wanted,
                  done ++ o, l)
        BY <1>2, <1>10 DEF Written
    <2>. QED  BY <2>1 DEF Going
<1>12. position' < length'
    <2>1. PICK n \in Nat : n = m + position + 1 /\ n = Needs(piece)
        BY <1>4, <1>7 DEF Needs
    <2>2. /\ length' = IF Fits(piece) THEN length ELSE NewSize(piece)
          /\ ~Refused(piece)
        BY DEF Emit
    <2>3. CASE Fits(piece)
        <3>1. n <= length /\ length' = length
            BY <2>1, <2>2, <2>3 DEF Fits
        <3>. QED  BY <1>5, <1>7, <1>13, <2>1, <3>1 DEF BufferInv
    <2>4. CASE ~Fits(piece)
        <3>1. ~(n > PrintMax)
            BY <2>1, <2>2, <2>4 DEF Refused
        <3>2. length' = NewSize(piece)
            BY <2>2, <2>4
        <3>3. NewSize(piece) = PrintMax \/ NewSize(piece) = 2 * n
            BY <2>1 DEF NewSize
        <3>4. moved < n
            BY <1>5, <1>7, <1>13, <2>1
        <3>. QED  BY <1>13, <2>1, <3>1, <3>2, <3>3, <3>4, PrinterConstants
    <2>. QED  BY <2>3, <2>4
<1>. QED  BY <1>6, <1>11, <1>12

\* ensure only refuses a text that is too wide, or realloc fails.
LEMMA FailsTooMuch ==
    ASSUME BufferInv, position < length, NEW piece, NEW place, NEW p, NEW w,
           Ready(piece, place, p, w), EmitFails(piece), wanted' = wanted
    PROVE  TooMuch'
<1>1. PICK R, done, rest, o :
        /\ Written(heap, format, R, printer, printing, walk, pieces, position,
                   wanted, done, rest)
        /\ Says(piece, o)
        /\ Splits(heap, format, R, rest, o, place, p, w)
    BY DEF Ready
<1>2. PICK l : /\ Wide(o) /\ Wide(l)
               /\ TotalWidth(wanted) = (position + TotalWidth(o)) + TotalWidth(l)
    BY <1>1, WidthSplits
<1>3. PICK width \in Nat, more \in Nat : width = TotalWidth(o) /\ more = TotalWidth(l)
    BY <1>2, WidthType
<1>4. PICK m \in Nat : m = piece.needed
    BY <1>1 DEF Says
<1>5. m <= width + 1
    BY <1>1, <1>3, <1>4 DEF Says
<1>6. PICK whole : whole = TotalWidth(wanted)
    OBVIOUS
<1>7. position \in Nat /\ length \in Nat /\ whole = (position + width) + more
    BY <1>2, <1>3, <1>6 DEF BufferInv
<1>8. CASE Refused(piece)
    <2>1. \/ m > PrintMax
          \/ m + position + 1 > PrintMax
        BY <1>4, <1>7, <1>8 DEF Refused, Needs
    <2>2. whole + 2 > PrintMax
        BY <1>5, <1>7, <2>1, PrinterConstants
    <2>3. TotalWidth(wanted') = whole
        BY <1>6
    <2>. QED  BY <2>2, <2>3 DEF TooMuch
<1>9. CASE starved' = TRUE
    BY <1>9 DEF TooMuch
<1>. QED  BY <1>8, <1>9 DEF EmitFails

\* What is left where a piece is printed.
LEMMA GoingHere ==
    ASSUME BufferInv, WorkInv, printer \in Walking \ {"keyed", "printed"}
    PROVE  \E R, done, rest :
              /\ Written(heap, format, R, printer, printing, walk, pieces, position,
                         wanted, done, rest)
              /\ Renders(heap, format, R)
              /\ IsLeft(heap, format, R, printer, printing, walk, rest)
<1>1. pending = 0 /\ position \in Nat
    BY DEF WorkInv, BufferInv
<1>2. position + pending = position
    BY <1>1
<1>3. Going(heap, format, printer, printing, walk, pieces, position + pending, wanted)
    BY DEF WorkInv
<1>4. Going(heap, format, printer, printing, walk, pieces, position, wanted)
    BY <1>2, <1>3
<1>. QED  BY <1>4 DEF Going, Written

LEMMA ScalarReady ==
    ASSUME BufferInv, WorkInv, WalkInv, TreePrints(heap), printer = "value",
           Type \notin Containers
    PROVE  Ready(ScalarPiece(heap[printing]), "printed", printing, walk)
<1>1. PICK R, done, rest :
              /\ Written(heap, format, R, printer, printing, walk, pieces, position,
                         wanted, done, rest)
              /\ Renders(heap, format, R)
              /\ IsLeft(heap, format, R, printer, printing, walk, rest)
    BY GoingHere DEF Walking
<1>2. printing \in Items(heap) /\ walk \in Seq(Spot)
    BY WalkFacts DEF Walking
<1>3. Printable(heap, printing) /\ heap[printing].type \notin Containers
    BY <1>2 DEF TreePrints, Type
<1>4. Says(ScalarPiece(heap[printing]), ScalarText(heap, printing))
    BY <1>3, ScalarSays
<1>5. IsLeft(heap, format, R, "value", printing, walk, rest)
    BY <1>1
<1>6. Splits(heap, format, R, rest, ScalarText(heap, printing), "printed", printing, walk)
    BY <1>1, <1>2, <1>3, <1>5, LeftScalar
<1>. QED  BY <1>1, <1>4, <1>6 DEF Ready

LEMMA OpenReady ==
    ASSUME BufferInv, WorkInv, WalkInv, TreePrints(heap), printer = "value",
           Type \in Containers
    PROVE  Ready(OpenPiece(Type), "each", printing,
                 Append(walk, [type |-> Type, current |-> heap[printing].child]))
<1>1. PICK R, done, rest :
              /\ Written(heap, format, R, printer, printing, walk, pieces, position,
                         wanted, done, rest)
              /\ Renders(heap, format, R)
              /\ IsLeft(heap, format, R, printer, printing, walk, rest)
    BY GoingHere DEF Walking
<1>2. printing \in Items(heap) /\ walk \in Seq(Spot)
    BY WalkFacts DEF Walking
<1>3. heap[printing].type \in Containers /\ heap[printing].child \in Nat
    BY <1>2 DEF TreePrints, Printable, Type
<1>4. PICK s : s = [type |-> Type, current |-> heap[printing].child]
    OBVIOUS
<1>5. s \in Spot /\ s.type = heap[printing].type /\ s.current = heap[printing].child
    BY <1>3, <1>4 DEF Spot, Type
<1>6. IsLeft(heap, format, R, "value", printing, walk, rest)
    BY <1>1
<1>7. Splits(heap, format, R, rest, BeginText(heap[printing].type, format), "each",
             printing, Append(walk, s))
    BY <1>1, <1>2, <1>3, <1>5, <1>6, LeftOpen
<1>8. Says(OpenPiece(Type), BeginText(heap[printing].type, format))
    BY OpenSays DEF Type
<1>9. Ready(OpenPiece(Type), "each", printing, Append(walk, s))
    BY <1>1, <1>7, <1>8 DEF Ready
<1>. QED  BY <1>4, <1>9

LEMMA CloseReady ==
    ASSUME BufferInv, WorkInv, WalkInv, TreePrints(heap), printer = "each",
           Innermost.current = Null
    PROVE  Ready(ClosePiece, "printed", printing, Outer)
<1>1. PICK R, done, rest :
              /\ Written(heap, format, R, printer, printing, walk, pieces, position,
                         wanted, done, rest)
              /\ Renders(heap, format, R)
              /\ IsLeft(heap, format, R, printer, printing, walk, rest)
    BY GoingHere DEF Walking
<1>2. PICK b \in Seq(Spot), s \in Spot :
              walk = Append(b, s) /\ Innermost = s /\ Outer = b
    BY EachFacts
<1>3. PICK n \in Nat : n = Len(b) /\ Len(walk) = n + 1
    BY ONLY <1>2, b \in Seq(Spot), s \in Spot, PushedLength
<1>4. IsLeft(heap, format, R, "each", printing, Append(b, s), rest)
    BY <1>1, <1>2
<1>5. s.current = Null /\ s.type \in Containers
    BY <1>2 DEF Spot
<1>6. Splits(heap, format, R, rest, EndText(s.type, format, Len(b)), "printed", printing, b)
    BY <1>1, <1>2, <1>4, <1>5, LeftClose
<1>7. Says(ClosePiece, EndText(Innermost.type, format, n))
    BY <1>2, <1>3, <1>5, CloseSays
<1>8. Says(ClosePiece, EndText(s.type, format, Len(b)))
    BY <1>2, <1>3, <1>7
<1>9. Ready(ClosePiece, "printed", printing, b)
    BY <1>1, <1>6, <1>8 DEF Ready
<1>. QED  BY <1>2, <1>9

LEMMA IndentReady ==
    ASSUME BufferInv, WorkInv, WalkInv, TreePrints(heap), printer = "each",
           Innermost.current # Null, Innermost.type = "Object", format
    PROVE  Ready(IndentPiece, "key", Innermost.current, walk)
<1>1. PICK R, done, rest :
              /\ Written(heap, format, R, printer, printing, walk, pieces, position,
                         wanted, done, rest)
              /\ Renders(heap, format, R)
              /\ IsLeft(heap, format, R, printer, printing, walk, rest)
    BY GoingHere DEF Walking
<1>2. PICK b \in Seq(Spot), s \in Spot :
              walk = Append(b, s) /\ Innermost = s /\ SpotFits(heap, s)
    BY EachFacts
<1>3. PICK n \in Nat : n = Len(b) /\ Len(walk) = n + 1
    BY ONLY <1>2, b \in Seq(Spot), s \in Spot, PushedLength
<1>12. walk \in Seq(Spot)
    BY WalkFacts
<1>4. s = walk[n + 1]
    BY <1>2, <1>3 DEF Innermost
<1>5. IsLeft(heap, format, R, "each", printing, walk, rest)
    BY <1>1
<1>6. s.current \in Items(heap) /\ s.type # "Array"
    BY <1>2 DEF SpotFits
<1>7. Splits(heap, format, R, rest, Blank(format, n + 1), "key", s.current, walk)
    BY <1>1, <1>3, <1>4, <1>5, <1>6, <1>12, LeftVisit
<1>8. PICK k \in Nat : k = n + 1
    OBVIOUS
<1>9. Says(IndentPiece, Blank(format, k))
    BY <1>3, <1>8, IndentSays
<1>10. Says(IndentPiece, Blank(format, n + 1))
    BY <1>8, <1>9
<1>11. Ready(IndentPiece, "key", s.current, walk)
    BY <1>1, <1>7, <1>10 DEF Ready
<1>. QED  BY <1>2, <1>11

LEMMA KeyReady ==
    ASSUME BufferInv, WorkInv, WalkInv, TreePrints(heap), printer = "key"
    PROVE  Ready(StringPiece(heap[printing].string), "keyed", printing, walk)
<1>1. PICK R, done, rest :
              /\ Written(heap, format, R, printer, printing, walk, pieces, position,
                         wanted, done, rest)
              /\ Renders(heap, format, R)
              /\ IsLeft(heap, format, R, printer, printing, walk, rest)
    BY GoingHere DEF Walking
<1>2. printing \in Items(heap) /\ walk \in Seq(Spot) /\ Named(heap, printing)
    BY WalkFacts DEF Walking
<1>3. IsSequence(heap[heap[printing].string].bytes)
    BY <1>2 DEF TreePrints, Printable
<1>4. Says(StringPiece(heap[printing].string), <<TextOf(heap, heap[printing].string)>>)
    BY <1>3, StringSays
<1>5. NameText(heap, printing) = <<TextOf(heap, heap[printing].string)>>
    BY DEF NameText
<1>6. IsLeft(heap, format, R, "key", printing, walk, rest)
    BY <1>1
<1>7. Splits(heap, format, R, rest, NameText(heap, printing), "keyed", printing, walk)
    BY <1>1, <1>2, <1>6, LeftKey
<1>. QED  BY <1>1, <1>4, <1>5, <1>7 DEF Ready

LEMMA ColonReady ==
    ASSUME BufferInv, WorkInv, WalkInv, TreePrints(heap), printer = "colon"
    PROVE  Ready(ColonPiece, "value", printing, walk)
<1>1. PICK R, done, rest :
              /\ Written(heap, format, R, printer, printing, walk, pieces, position,
                         wanted, done, rest)
              /\ Renders(heap, format, R)
              /\ IsLeft(heap, format, R, printer, printing, walk, rest)
    BY GoingHere DEF Walking
<1>2. printing \in Items(heap) /\ walk \in Seq(Spot)
    BY WalkFacts DEF Walking
<1>3. IsLeft(heap, format, R, "colon", printing, walk, rest)
    BY <1>1
<1>4. Splits(heap, format, R, rest, ColonText(format), "value", printing, walk)
    BY <1>1, <1>2, <1>3, LeftColon
<1>. QED  BY <1>1, <1>4, ColonSays DEF Ready

\* The container that goes on to its next item.
GoneOn == [Innermost EXCEPT !.current = NextItem]

LEMMA BehindFacts ==
    ASSUME WalkInv, TreePrints(heap), printer = "behind", walk # <<>>
    PROVE  \E b \in Seq(Spot) : \E s \in Spot : \E t \in Spot :
              /\ walk = Append(b, s) /\ Innermost = s /\ Outer = b
              /\ s.current \in Items(heap)
              /\ t = GoneOn /\ t.type = s.type /\ t.current = heap[s.current].next
              /\ NextItem = heap[s.current].next
<1>1. walk \in Seq(Spot) /\ Busy(heap, walk)
    BY WalkFacts
<1>2. PICK b \in Seq(Spot) : \E s \in Spot :
              /\ walk = Append(b, s)
              /\ b = SubSeq(walk, 1, Len(walk) - 1) /\ s = walk[Len(walk)]
              /\ Busy(heap, b) /\ SpotFits(heap, s) /\ s.current # Null
    BY <1>1, BusyInnermost
<1>3. PICK s \in Spot :
              /\ walk = Append(b, s)
              /\ b = SubSeq(walk, 1, Len(walk) - 1) /\ s = walk[Len(walk)]
              /\ Busy(heap, b) /\ SpotFits(heap, s) /\ s.current # Null
    BY <1>2
<1>4. Innermost = s /\ Outer = b
    BY <1>3 DEF Innermost, Outer
<1>5. s.current \in Items(heap)
    BY <1>3 DEF SpotFits
<1>6. heap[s.current].next \in Nat
    BY <1>5 DEF TreePrints, Printable
<1>7. NextItem = heap[s.current].next
    BY <1>4 DEF NextItem
<1>8. PICK m \in Nat : m = heap[s.current].next
    BY <1>6
<1>9. PICK t : t = [s EXCEPT !.current = m]
    OBVIOUS
<1>10. t \in Spot /\ t.type = s.type /\ t.current = m
    BY <1>9 DEF Spot
<1>11. t = GoneOn
    BY <1>4, <1>7, <1>8, <1>9 DEF GoneOn
<1>. QED  BY <1>3, <1>4, <1>5, <1>7, <1>8, <1>10, <1>11

LEMMA CommaReady ==
    ASSUME BufferInv, WorkInv, WalkInv, TreePrints(heap), printer = "behind", walk # <<>>
    PROVE  Ready(CommaPiece(NextItem # Null), "each", printing, Append(Outer, GoneOn))
<1>1. PICK R, done, rest :
              /\ Written(heap, format, R, printer, printing, walk, pieces, position,
                         wanted, done, rest)
              /\ Renders(heap, format, R)
              /\ IsLeft(heap, format, R, printer, printing, walk, rest)
    BY GoingHere DEF Walking
<1>2. PICK b \in Seq(Spot), s \in Spot, t \in Spot :
              /\ walk = Append(b, s) /\ Innermost = s /\ Outer = b
              /\ s.current \in Items(heap)
              /\ t = GoneOn /\ t.type = s.type /\ t.current = heap[s.current].next
              /\ NextItem = heap[s.current].next
    BY BehindFacts
<1>3. IsLeft(heap, format, R, "behind", printing, Append(b, s), rest)
    BY <1>1, <1>2
<1>4. Splits(heap, format, R, rest, Gap(heap, format, s.type, s.current), "each", printing,
             Append(b, t))
    BY <1>1, <1>2, <1>3, LeftComma
<1>5. s.type \in Containers /\ Innermost.type = s.type
    BY <1>2 DEF Spot
<1>6. Says(CommaPiece(heap[s.current].next # Null), Gap(heap, format, s.type, s.current))
    BY <1>5, CommaSays
<1>7. Says(CommaPiece(NextItem # Null), Gap(heap, format, s.type, s.current))
    BY <1>2, <1>6
<1>8. Ready(CommaPiece(NextItem # Null), "each", printing, Append(b, t))
    BY <1>1, <1>4, <1>7 DEF Ready
<1>. QED  BY <1>2, <1>8

-----------------------------------------------------------------------------
(***************************************************************************)
(* The steps of the printer                                                *)
(***************************************************************************)

LEMMA WorkGoal ==
    ASSUME printer' \in Walking \ {"buffer"},
           Going(heap', format', printer', printing', walk', pieces',
                 position' + pending', wanted'),
           position' < length', printer' \notin {"keyed", "printed"} => pending' = 0
    PROVE  WorkInv'
BY DEF WorkInv, Walking

LEMMA WorkEmits ==
    ASSUME BufferInv, NEW piece, NEW place, NEW p, NEW w, Ready(piece, place, p, w),
           Emit(piece), place \in Walking \ {"buffer"},
           printer' = place, printing' = p, walk' = w, format' = format, wanted' = wanted,
           place \notin {"keyed", "printed"} => piece.counted = TRUE
    PROVE  WorkInv'
<1>1. /\ Going(heap, format, place, p, w, pieces', position' + pending', wanted)
      /\ position' < length'
      /\ piece.counted = TRUE => pending' = 0
    BY EmitGoes
<1>2. heap' = heap
    BY EmitKeeps
<1>3. Going(heap', format', printer', printing', walk', pieces', position' + pending', wanted')
    BY <1>1, <1>2, Zenon
<1>. QED  BY <1>1, <1>3, WorkGoal

LEMMA WorkFails ==
    ASSUME pending' = 0, printer' = "fail", TooMuch'
    PROVE  WorkInv'
BY DEF WorkInv, Walking

LEMMA PieceTooMuch ==
    ASSUME BufferInv, WorkInv, printer \in Walking \ {"buffer", "keyed", "printed"},
           NEW piece, NEW place, NEW p, NEW w, Ready(piece, place, p, w),
           EmitFails(piece), wanted' = wanted
    PROVE  WorkInv'
<1>1. position < length /\ pending = 0
    BY DEF WorkInv
<1>2. TooMuch'
    BY <1>1, FailsTooMuch
<1>3. pending' = 0 /\ printer' = "fail"
    BY <1>1 DEF EmitFails
<1>. QED  BY <1>2, <1>3, WorkFails

LEMMA SplitsNothing ==
    ASSUME NEW H, NEW f, NEW R, NEW rest, NEW place, NEW p, NEW w,
           Splits(H, f, R, rest, <<>>, place, p, w)
    PROVE  IsLeft(H, f, R, place, p, w, rest)
<1>1. PICK l : /\ Wide(l) /\ rest = <<>> ++ l /\ IsLeft(H, f, R, place, p, w, l)
    BY DEF Splits
<1>2. rest = l
    BY <1>1, WideIs, NothingAdded
<1>. QED  BY <1>1, <1>2

\* A step that writes nothing.
LEMMA WorkMoves ==
    ASSUME BufferInv, WorkInv, printer \in Walking \ {"buffer", "keyed", "printed"},
           NEW R, NEW done, NEW rest,
           Written(heap, format, R, printer, printing, walk, pieces, position,
                   wanted, done, rest),
           NEW place \in {"value", "key", "each"}, NEW p, NEW w,
           IsLeft(heap, format, R, place, p, w, rest),
           printer' = place, printing' = p, walk' = w,
           UNCHANGED <<heap, format, pieces, position, pending, length, wanted>>
    PROVE  WorkInv'
<1>1. position < length /\ pending = 0 /\ position \in Nat
    BY DEF WorkInv, BufferInv
<1>2. position' + pending' = position /\ position' < length' /\ pending' = 0
    BY <1>1
<1>3. Written(heap, format, R, place, p, w, pieces, position, wanted, done, rest)
    BY DEF Written
<1>4. Going(heap, format, place, p, w, pieces, position, wanted)
    BY <1>3 DEF Going
<1>5. Going(heap', format', printer', printing', walk', pieces', position' + pending', wanted')
    BY <1>2, <1>4, Zenon
<1>6. printer' \in Walking \ {"buffer"}
    BY DEF Walking
<1>. QED  BY <1>2, <1>5, <1>6, WorkGoal

LEMMA VisitWork ==
    ASSUME BufferInv, WorkInv, WalkInv, TreePrints(heap), VisitElement, wanted' = wanted
    PROVE  WorkInv'
<1>1. /\ printer = "each" /\ Innermost.current # Null
      /\ Innermost.type = "Array" \/ ~format
      /\ Visit(IF Innermost.type = "Array" THEN "value" ELSE "key")
      /\ UNCHANGED <<heap, pieces, position, pending, length>>
    BY DEF VisitElement, bufferVars, heapVars
<1>2. PICK R, done, rest :
              /\ Written(heap, format, R, printer, printing, walk, pieces, position,
                         wanted, done, rest)
              /\ Renders(heap, format, R)
              /\ IsLeft(heap, format, R, printer, printing, walk, rest)
    BY <1>1, GoingHere DEF Walking
<1>3. PICK b \in Seq(Spot), s \in Spot :
              walk = Append(b, s) /\ Innermost = s /\ SpotFits(heap, s)
    BY <1>1, EachFacts
<1>4. PICK n \in Nat : n = Len(b) /\ Len(walk) = n + 1
    BY ONLY <1>3, b \in Seq(Spot), s \in Spot, PushedLength
<1>5. walk \in Seq(Spot) /\ s = walk[n + 1]
    BY <1>3, <1>4, WalkFacts DEF Innermost
<1>6. IsLeft(heap, format, R, "each", printing, walk, rest)
    BY <1>1, <1>2
<1>7. s.current \in Items(heap)
    BY <1>1, <1>3 DEF SpotFits
<1>8. /\ s.type = "Array" => IsLeft(heap, format, R, "value", s.current, walk, rest)
      /\ s.type # "Array" => Splits(heap, format, R, rest, Blank(format, n + 1), "key",
                                    s.current, walk)
    BY <1>2, <1>4, <1>5, <1>6, <1>7, LeftVisit
<1>9. /\ printing' = s.current /\ format' = format /\ walk' = walk
      /\ printer' = IF s.type = "Array" THEN "value" ELSE "key"
    BY <1>1, <1>3 DEF Visit
<1>10. printer \in Walking \ {"buffer", "keyed", "printed"}
    BY <1>1 DEF Walking
<1>11. CASE s.type = "Array"
    <2>1. IsLeft(heap, format, R, "value", s.current, walk, rest) /\ printer' = "value"
        BY <1>8, <1>9, <1>11
    <2>. QED  BY <1>1, <1>2, <1>9, <1>10, <2>1, WorkMoves
<1>12. CASE s.type # "Array"
    <2>1. Blank(format, n + 1) = <<>>
        BY <1>1, <1>3, <1>12 DEF Blank
    <2>2. Splits(heap, format, R, rest, <<>>, "key", s.current, walk)
        BY <1>8, <1>12, <2>1
    <2>3. IsLeft(heap, format, R, "key", s.current, walk, rest) /\ printer' = "key"
        BY <1>9, <1>12, <2>2, SplitsNothing
    <2>. QED  BY <1>1, <1>2, <1>9, <1>10, <2>3, WorkMoves
<1>. QED  BY <1>11, <1>12

LEMMA LastWork ==
    ASSUME BufferInv, WorkInv, WalkInv, TreePrints(heap), LastElement, wanted' = wanted
    PROVE  WorkInv'
<1>1. /\ printer = "behind" /\ walk # <<>> /\ ~Separates /\ printer' = "each"
      /\ walk' = Append(Outer, GoneOn)
      /\ UNCHANGED <<heap, format, printing, pieces, position, pending, length>>
    BY DEF LastElement, Advance, bufferVars, heapVars, GoneOn
<1>2. PICK R, done, rest :
              /\ Written(heap, format, R, printer, printing, walk, pieces, position,
                         wanted, done, rest)
              /\ Renders(heap, format, R)
              /\ IsLeft(heap, format, R, printer, printing, walk, rest)
    BY <1>1, GoingHere DEF Walking
<1>3. PICK b \in Seq(Spot), s \in Spot, t \in Spot :
              /\ walk = Append(b, s) /\ Innermost = s /\ Outer = b
              /\ s.current \in Items(heap)
              /\ t = GoneOn /\ t.type = s.type /\ t.current = heap[s.current].next
              /\ NextItem = heap[s.current].next
    BY <1>1, BehindFacts
<1>4. IsLeft(heap, format, R, "behind", printing, Append(b, s), rest)
    BY <1>1, <1>2, <1>3
<1>5. Splits(heap, format, R, rest, Gap(heap, format, s.type, s.current), "each", printing,
             Append(b, t))
    BY <1>2, <1>3, <1>4, LeftComma
<1>6. s.type = "Array" /\ heap[s.current].next = Null
    BY <1>1, <1>3 DEF Separates, Spot, Containers
<1>7. Gap(heap, format, s.type, s.current) = <<>>
    BY <1>6, NoGap
<1>8. IsLeft(heap, format, R, "each", printing, Append(b, t), rest)
    BY <1>5, <1>7, SplitsNothing
<1>9. printer \in Walking \ {"buffer", "keyed", "printed"}
    BY <1>1 DEF Walking
<1>10. walk' = Append(b, t)
    BY <1>1, <1>3
<1>. QED  BY <1>1, <1>2, <1>8, <1>9, <1>10, WorkMoves

LEMMA OffsetWork ==
    ASSUME BufferInv, WorkInv, update_offset, wanted' = wanted
    PROVE  WorkInv'
<1>1. /\ printer \in {"keyed", "printed"}
      /\ position' = position + pending /\ pending' = 0
      /\ printer' = IF printer = "keyed" THEN "colon" ELSE "behind"
      /\ UNCHANGED <<format, walk, printing, length, pieces, heap>>
    BY DEF update_offset, OffsetMoved, Goto, heapVars
<1>2. /\ position + pending < length /\ position \in Nat /\ pending \in Nat
    BY <1>1 DEF BufferInv
<1>3. Going(heap, format, printer, printing, walk, pieces, position + pending, wanted)
    BY <1>1 DEF WorkInv, Walking
<1>4. PICK R, done, rest :
          Written(heap, format, R, printer, printing, walk, pieces, position + pending,
                  wanted, done, rest)
    BY <1>3 DEF Going
<1>5. IsLeft(heap, format, R, printer, printing, walk, rest)
    BY <1>4 DEF Written
<1>6. IsLeft(heap, format, R, printer', printing, walk, rest)
    <2>1. CASE printer = "keyed"
        BY <1>1, <1>5, <2>1, LeftStays
    <2>2. CASE printer = "printed"
        BY <1>1, <1>5, <2>2, LeftStays
    <2>. QED  BY <1>1, <2>1, <2>2
<1>7. Written(heap, format, R, printer', printing, walk, pieces, position + pending,
              wanted, done, rest)
    BY <1>4, <1>6 DEF Written
<1>8. Going(heap, format, printer', printing, walk, pieces, position + pending, wanted)
    BY <1>7 DEF Going
<1>9. position' + pending' = position + pending /\ position' < length'
    BY <1>1, <1>2
<1>10. Going(heap', format', printer', printing', walk', pieces', position' + pending', wanted')
    BY <1>1, <1>8, <1>9, Zenon
<1>11. printer' \in Walking \ {"buffer"}
    BY <1>1 DEF Walking
<1>. QED  BY <1>1, <1>9, <1>10, <1>11, WorkGoal

-----------------------------------------------------------------------------

\* Every piece that is written is the next of the text.
LEMMA PieceWork ==
    ASSUME BufferInv, WorkInv, WalkInv, TreePrints(heap), wanted' = wanted,
           \/ PrintScalar \/ PrintOpen \/ PrintClose \/ PrintIndent \/ PrintKey
           \/ PrintColon \/ PrintComma
    PROVE  WorkInv'
<1>1. CASE PrintScalar
    <2>1. /\ printer = "value" /\ Type \notin Containers /\ Emit(ScalarPiece(heap[printing]))
          /\ printer' = "printed" /\ UNCHANGED <<format, walk, printing>>
        BY <1>1 DEF PrintScalar, Goto
    <2>2. Ready(ScalarPiece(heap[printing]), "printed", printing, walk)
        BY <2>1, ScalarReady
    <2>3. PICK q : q = ScalarPiece(heap[printing])
        OBVIOUS
    <2>4. Ready(q, "printed", printing, walk) /\ Emit(q)
        BY <2>1, <2>2, <2>3, Zenon
    <2>5. "printed" \in Walking \ {"buffer"}
        BY DEF Walking
    <2>. QED  BY <2>1, <2>4, <2>5, WorkEmits
<1>2. CASE PrintOpen
    <2>1. /\ printer = "value" /\ Type \in Containers /\ Emit(OpenPiece(Type))
          /\ walk' = Append(walk, [type |-> Type, current |-> heap[printing].child])
          /\ printer' = "each" /\ UNCHANGED <<format, printing>>
        BY <1>2 DEF PrintOpen
    <2>2. PICK w : w = Append(walk, [type |-> Type, current |-> heap[printing].child])
        OBVIOUS
    <2>3. PICK q : q = OpenPiece(Type)
        OBVIOUS
    <2>4. Ready(OpenPiece(Type), "each", printing,
                Append(walk, [type |-> Type, current |-> heap[printing].child]))
        BY <2>1, OpenReady
    <2>5. Ready(q, "each", printing, w) /\ Emit(q) /\ walk' = w
        BY <2>1, <2>2, <2>3, <2>4, Zenon
    <2>6. q.counted = TRUE
        <3>1. OpenPiece(Type).counted = TRUE
            BY OpenFits
        <3>. QED  BY <2>3, <3>1
    <2>7. "each" \in Walking \ {"buffer"}
        BY DEF Walking
    <2>. QED  BY <2>1, <2>5, <2>6, <2>7, WorkEmits
<1>3. CASE PrintClose
    <2>1. /\ printer = "each" /\ Innermost.current = Null /\ Emit(ClosePiece)
          /\ walk' = Outer /\ printer' = "printed" /\ UNCHANGED <<format, printing>>
        BY <1>3 DEF PrintClose
    <2>2. PICK q : q = ClosePiece
        OBVIOUS
    <2>3. PICK w : w = Outer
        OBVIOUS
    <2>4. Ready(q, "printed", printing, w) /\ Emit(q) /\ walk' = w
        BY <2>1, <2>2, <2>3, CloseReady, Zenon
    <2>5. "printed" \in Walking \ {"buffer"}
        BY DEF Walking
    <2>. QED  BY <2>1, <2>4, <2>5, WorkEmits
<1>4. CASE PrintIndent
    <2>1. /\ printer = "each" /\ Innermost.current # Null /\ Innermost.type = "Object"
          /\ format /\ Emit(IndentPiece)
          /\ printing' = Innermost.current /\ printer' = "key" /\ UNCHANGED <<format, walk>>
        BY <1>4 DEF PrintIndent, Visit
    <2>2. PICK q : q = IndentPiece
        OBVIOUS
    <2>3. PICK p : p = Innermost.current
        OBVIOUS
    <2>4. Ready(IndentPiece, "key", Innermost.current, walk)
        BY <2>1, IndentReady
    <2>5. Ready(q, "key", p, walk) /\ Emit(q) /\ printing' = p
        BY <2>1, <2>2, <2>3, <2>4, Zenon
    <2>6. q.counted = TRUE
        <3>1. IsSequence(walk)
            BY WalkIsSequence
        <3>2. IndentPiece.counted = TRUE
            BY <3>1, IndentFits
        <3>. QED  BY <2>2, <3>2
    <2>7. "key" \in Walking \ {"buffer"}
        BY DEF Walking
    <2>. QED  BY <2>1, <2>5, <2>6, <2>7, WorkEmits
<1>5. CASE PrintKey
    <2>1. /\ printer = "key" /\ Emit(StringPiece(heap[printing].string))
          /\ printer' = "keyed" /\ UNCHANGED <<format, walk, printing>>
        BY <1>5 DEF PrintKey, Goto
    <2>2. PICK q : q = StringPiece(heap[printing].string)
        OBVIOUS
    <2>3. Ready(StringPiece(heap[printing].string), "keyed", printing, walk)
        BY <2>1, KeyReady
    <2>4. Ready(q, "keyed", printing, walk) /\ Emit(q)
        BY <2>1, <2>2, <2>3, Zenon
    <2>5. "keyed" \in Walking \ {"buffer"}
        BY DEF Walking
    <2>. QED  BY <2>1, <2>4, <2>5, WorkEmits
<1>6. CASE PrintColon
    <2>1. /\ printer = "colon" /\ Emit(ColonPiece)
          /\ printer' = "value" /\ UNCHANGED <<format, walk, printing>>
        BY <1>6 DEF PrintColon, Goto
    <2>2. PICK q : q = ColonPiece
        OBVIOUS
    <2>3. Ready(ColonPiece, "value", printing, walk)
        BY <2>1, ColonReady
    <2>4. Ready(q, "value", printing, walk) /\ Emit(q)
        BY <2>1, <2>2, <2>3, Zenon
    <2>5. q.counted = TRUE
        BY <2>2, ColonFits
    <2>6. "value" \in Walking \ {"buffer"}
        BY DEF Walking
    <2>. QED  BY <2>1, <2>4, <2>5, <2>6, WorkEmits
<1>7. CASE PrintComma
    <2>1. /\ printer = "behind" /\ walk # <<>> /\ Emit(CommaPiece(NextItem # Null))
          /\ walk' = Append(Outer, GoneOn)
          /\ printer' = "each" /\ UNCHANGED <<format, printing>>
        BY <1>7 DEF PrintComma, Advance, Separates, GoneOn
    <2>2. PICK q : q = CommaPiece(NextItem # Null)
        OBVIOUS
    <2>3. PICK w : w = Append(Outer, GoneOn)
        OBVIOUS
    <2>4. Ready(CommaPiece(NextItem # Null), "each", printing, Append(Outer, GoneOn))
        BY <2>1, CommaReady
    <2>5. Ready(q, "each", printing, w) /\ Emit(q) /\ walk' = w
        BY <2>1, <2>2, <2>3, <2>4, Zenon
    <2>6. q.counted = TRUE
        <3>1. PICK more : more = (NextItem # Null)
            OBVIOUS
        <3>2. CommaPiece(more).counted = TRUE
            BY CommaFits
        <3>. QED  BY <2>2, <3>1, <3>2
    <2>7. "each" \in Walking \ {"buffer"}
        BY DEF Walking
    <2>. QED  BY <2>1, <2>5, <2>6, <2>7, WorkEmits
<1>. QED  BY <1>1, <1>2, <1>3, <1>4, <1>5, <1>6, <1>7

LEMMA FailWork ==
    ASSUME BufferInv, WorkInv, WalkInv, TreePrints(heap), wanted' = wanted, PieceFails
    PROVE  WorkInv'
<1>1. ASSUME NEW piece, NEW place, NEW p, NEW w, Ready(piece, place, p, w),
             EmitFails(piece), printer \in {"value", "each", "key", "colon", "behind"}
      PROVE  WorkInv'
    <2>1. printer \in Walking \ {"buffer", "keyed", "printed"}
        BY <1>1 DEF Walking
    <2>. QED  BY <1>1, <2>1, PieceTooMuch
<1>2. CASE /\ printer = "value" /\ Type \notin Containers
           /\ EmitFails(ScalarPiece(heap[printing]))
    <2>1. Ready(ScalarPiece(heap[printing]), "printed", printing, walk)
        BY <1>2, ScalarReady
    <2>. QED  BY <1>1, <1>2, <2>1
<1>3. CASE printer = "value" /\ Type \in Containers /\ EmitFails(OpenPiece(Type))
    <2>1. Ready(OpenPiece(Type), "each", printing,
                Append(walk, [type |-> Type, current |-> heap[printing].child]))
        BY <1>3, OpenReady
    <2>. QED  BY <1>1, <1>3, <2>1
<1>4. CASE printer = "each" /\ Innermost.current = Null /\ EmitFails(ClosePiece)
    <2>1. Ready(ClosePiece, "printed", printing, Outer)
        BY <1>4, CloseReady
    <2>. QED  BY <1>1, <1>4, <2>1
<1>5. CASE /\ printer = "each" /\ Innermost.current # Null
           /\ Innermost.type = "Object" /\ format /\ EmitFails(IndentPiece)
    <2>1. Ready(IndentPiece, "key", Innermost.current, walk)
        BY <1>5, IndentReady
    <2>. QED  BY <1>1, <1>5, <2>1
<1>6. CASE printer = "key" /\ EmitFails(StringPiece(heap[printing].string))
    <2>1. Ready(StringPiece(heap[printing].string), "keyed", printing, walk)
        BY <1>6, KeyReady
    <2>. QED  BY <1>1, <1>6, <2>1
<1>7. CASE printer = "colon" /\ EmitFails(ColonPiece)
    <2>1. Ready(ColonPiece, "value", printing, walk)
        BY <1>7, ColonReady
    <2>. QED  BY <1>1, <1>7, <2>1
<1>8. CASE printer = "behind" /\ Separates /\ EmitFails(CommaPiece(NextItem # Null))
    <2>1. Ready(CommaPiece(NextItem # Null), "each", printing, Append(Outer, GoneOn))
        BY <1>8, CommaReady DEF Separates
    <2>. QED  BY <1>1, <1>8, <2>1
<1>. QED  BY <1>2, <1>3, <1>4, <1>5, <1>6, <1>7, <1>8 DEF PieceFails

\* The text of a tree does not depend on the other blocks.
LEMMA SameRendered ==
    ASSUME NEW H, NEW G, NEW f, NEW R, IsRendered(H, f, R), Items(G) = Items(H),
           \A p \in Items(H) : /\ G[p] = H[p]
                               /\ TextOf(G, H[p].string) = TextOf(H, H[p].string)
                               /\ TextOf(G, H[p].valuestring) = TextOf(H, H[p].valuestring)
    PROVE  IsRendered(G, f, R)
<1>1. RenderSteps(G) = RenderSteps(H)
    BY DEF RenderSteps
<1>2. \A x \in RenderSteps(G) : Wide(R[x])
    BY <1>1 DEF IsRendered
<1>3. \A d \in Nat : R[<<"items", Null, d>>] = <<>> /\ R[<<"members", Null, d>>] = <<>>
    BY DEF IsRendered
<1>4. ASSUME NEW p \in Items(G), NEW d \in Nat
      PROVE  /\ R[<<"value", p, d>>] =
                    ValueText(G, f, p, d, R[<<ListOf(G[p].type), G[p].child, d + 1>>])
             /\ R[<<"items", p, d>>] =
                    ItemsText(G, f, p, R[<<"value", p, d>>], R[<<"items", G[p].next, d>>])
             /\ R[<<"members", p, d>>] =
                    MembersText(G, f, p, d, R[<<"value", p, d>>], R[<<"members", G[p].next, d>>])
    <2>1. /\ p \in Items(H) /\ G[p] = H[p]
          /\ TextOf(G, H[p].string) = TextOf(H, H[p].string)
          /\ TextOf(G, H[p].valuestring) = TextOf(H, H[p].valuestring)
        OBVIOUS
    <2>2. /\ R[<<"value", p, d>>] =
                    ValueText(H, f, p, d, R[<<ListOf(H[p].type), H[p].child, d + 1>>])
          /\ R[<<"items", p, d>>] =
                    ItemsText(H, f, p, R[<<"value", p, d>>], R[<<"items", H[p].next, d>>])
          /\ R[<<"members", p, d>>] =
                    MembersText(H, f, p, d, R[<<"value", p, d>>], R[<<"members", H[p].next, d>>])
        BY <2>1 DEF IsRendered
    <2>3. CommaOf(G, p) = CommaOf(H, p)
        BY <2>1 DEF CommaOf
    <2>4. BetweenItems(G, f, p) = BetweenItems(H, f, p)
          /\ BetweenMembers(G, f, p) = BetweenMembers(H, f, p)
        BY <2>3 DEF BetweenItems, BetweenMembers
    <2>5. ScalarText(G, p) = ScalarText(H, p)
        BY <2>1 DEF ScalarText
    <2>6. ASSUME NEW inner PROVE ValueText(G, f, p, d, inner) = ValueText(H, f, p, d, inner)
        BY <2>1, <2>5 DEF ValueText
    <2>7. ASSUME NEW v, NEW r
          PROVE  /\ ItemsText(G, f, p, v, r) = ItemsText(H, f, p, v, r)
                 /\ MembersText(G, f, p, d, v, r) = MembersText(H, f, p, d, v, r)
        BY <2>1, <2>4 DEF ItemsText, MembersText
    <2>8. ValueText(G, f, p, d, R[<<ListOf(G[p].type), G[p].child, d + 1>>])
            = ValueText(H, f, p, d, R[<<ListOf(H[p].type), H[p].child, d + 1>>])
        BY <2>1, <2>6
    <2>9. /\ ItemsText(G, f, p, R[<<"value", p, d>>], R[<<"items", G[p].next, d>>])
                = ItemsText(H, f, p, R[<<"value", p, d>>], R[<<"items", H[p].next, d>>])
          /\ MembersText(G, f, p, d, R[<<"value", p, d>>], R[<<"members", G[p].next, d>>])
                = MembersText(H, f, p, d, R[<<"value", p, d>>], R[<<"members", H[p].next, d>>])
        BY <2>1, <2>7
    <2>. QED  BY <2>2, <2>8, <2>9
<1>. QED  BY <1>2, <1>3, <1>4 DEF IsRendered

LEMMA AddedRendered ==
    ASSUME NEW H, Typed(H), NEW f, NEW R, IsRendered(H, f, R), NEW n, n \notin DOMAIN H,
           NEW block, block.block # "item"
    PROVE  IsRendered(Added(H, n, block), f, R)
<1>1. PICK G : G = Added(H, n, block)
    OBVIOUS
<1>2. /\ DOMAIN G = DOMAIN H \cup {n} /\ G[n] = block
      /\ \A q \in DOMAIN H : G[q] = H[q]
    BY <1>1 DEF Added
<1>3. Items(G) = Items(H)
    BY <1>2 DEF Items
<1>4. ASSUME NEW b, b = Null \/ b \in DOMAIN H PROVE TextOf(G, b) = TextOf(H, b)
    BY <1>2, <1>4 DEF TextOf
<1>5. ASSUME NEW p \in Items(H)
      PROVE  /\ G[p] = H[p]
             /\ TextOf(G, H[p].string) = TextOf(H, H[p].string)
             /\ TextOf(G, H[p].valuestring) = TextOf(H, H[p].valuestring)
    <2>1. /\ p \in DOMAIN H
          /\ H[p].string = Null \/ H[p].string \in DOMAIN H
          /\ H[p].valuestring = Null \/ H[p].valuestring \in DOMAIN H
        BY FieldTypes
    <2>. QED  BY <1>2, <1>4, <2>1
<1>. QED  BY <1>1, <1>3, <1>5, SameRendered

\* With nothing open, what is left is the text of the item.
LEMMA LeftAlone ==
    ASSUME NEW H, NEW G, NEW f, NEW R, NEW p, NEW rest,
           IsLeft(H, f, R, "buffer", p, <<>>, rest)
    PROVE  IsLeft(G, f, R, "value", p, <<>>, rest)
<1>1. PICK z \in Nat : z = 0 /\ Len(<<>>) = z
    BY EmptySequence
<1>2. PICK T : /\ IsRests(H, f, R, <<>>, T, Entered("buffer", <<>>))
               /\ rest = LeftText(H, f, R, T, "buffer", p, <<>>)
    BY DEF IsLeft
<1>3. /\ Entered("buffer", <<>>) = z /\ Entered("value", <<>>) = z
      /\ LeftText(H, f, R, T, "buffer", p, <<>>) = LeftAtValue(R, T, p, z)
      /\ LeftText(G, f, R, T, "value", p, <<>>) = LeftAtValue(R, T, p, z)
    BY <1>1 DEF Entered, LeftText
<1>4. IsRests(H, f, R, <<>>, T, z)
    BY <1>2, <1>3
<1>5. 1..z = {}
    BY <1>1
<1>6. IsRests(G, f, R, <<>>, T, z)
    BY <1>4, <1>5 DEF IsRests
<1>7. /\ IsRests(G, f, R, <<>>, T, Entered("value", <<>>))
      /\ rest = LeftText(G, f, R, T, "value", p, <<>>)
    BY <1>2, <1>3, <1>6
<1>. QED  BY <1>7 DEF IsLeft

LEMMA BufferWork ==
    ASSUME Inv, BufferInv, WorkInv, WalkInv, TreePrints(heap'), NewBuffer, wanted' = wanted
    PROVE  WorkInv'
<1>1. /\ printer = "buffer" /\ printer' = "value" /\ length' = DefaultSize
      /\ heap' = With(Fresh, Bytes(<<>>))
      /\ UNCHANGED <<format, walk, printing, position, pending, pieces>>
    BY DEF NewBuffer, Goto
<1>2. position = 0 /\ pending = 0 /\ walk = <<>>
    BY <1>1, WalkFacts DEF WorkInv
<1>3. Going(heap, format, printer, printing, walk, pieces, position + pending, wanted)
    BY <1>1 DEF WorkInv, Walking
<1>4. PICK R, done, rest :
          Written(heap, format, R, printer, printing, walk, pieces, position + pending,
                  wanted, done, rest)
    BY <1>3 DEF Going
<1>5. /\ IsLeft(heap, format, R, "buffer", printing, <<>>, rest)
      /\ IsRendered(heap, format, R) /\ Typed(heap)
    BY <1>1, <1>2, <1>4 DEF Written, Renders, TreePrints
<1>6. PICK n : n = Fresh /\ n \notin Live /\ DOMAIN heap = Live
    BY InvFacts DEF Inv, Blocks
<1>7. PICK block : block = Bytes(<<>>)
    OBVIOUS
<1>8. block.block # "item"
    BY <1>7 DEF Bytes
<1>9. heap' = Added(heap, n, block)
    BY <1>1, <1>6, <1>7, WithAdds
<1>10. IsRendered(Added(heap, n, block), format, R)
    BY <1>5, <1>6, <1>8, AddedRendered
<1>11. Renders(heap', format, R)
    BY <1>9, <1>10 DEF Renders
<1>12. IsLeft(heap', format, R, "value", printing, <<>>, rest)
    BY <1>5, LeftAlone
<1>13. Written(heap', format, R, "value", printing, <<>>, pieces, position + pending,
               wanted, done, rest)
    BY <1>4, <1>11, <1>12 DEF Written
<1>14. Going(heap', format, "value", printing, <<>>, pieces, position + pending, wanted)
    BY <1>13 DEF Going
<1>15. Going(heap', format', printer', printing', walk', pieces', position' + pending', wanted')
    BY <1>1, <1>2, <1>14, Zenon
<1>16. position' < length' /\ pending' = 0
    BY <1>1, <1>2, PrinterConstants
<1>17. printer' \in Walking \ {"buffer"}
    BY <1>1 DEF Walking
<1>. QED  BY <1>15, <1>16, <1>17, WorkGoal

-----------------------------------------------------------------------------
LEMMA TreeFacts ==
    Inv /\ WholeInv /\ at \in {"parsed", "print"} /\ root # Null => TreePrints(heap)
<1>. SUFFICES ASSUME Inv, WholeInv, at \in {"parsed", "print"}, root # Null
              PROVE  TreePrints(heap)
    OBVIOUS
<1>1. Typed(heap) /\ \A p \in Items(heap) : Printable(heap, p)
    BY ParsedPrintable
<1>2. ASSUME NEW p \in Items(heap)
      PROVE  heap[p].next \in Items(heap) \cup {Null} /\ heap[p].child \in Items(heap) \cup {Null}
    BY <1>1, FieldTypes
<1>. QED  BY <1>1, <1>2 DEF TreePrints

\* The buffer that is handed over holds the whole text.
LEMMA CutWork ==
    ASSUME Inv, WholeInv, BufferInv, WorkInv, CutBuffer, wanted' = wanted
    PROVE  WorkInv'
<1>1. /\ printer = "behind" /\ walk = <<>> /\ printer' = "done"
      /\ heap' = [heap EXCEPT ![buffer].bytes = Printed]
      /\ pieces' = <<>> /\ Forgotten /\ buffer' = buffer
    BY DEF CutBuffer
<1>2. PICK R, done, rest :
              /\ Written(heap, format, R, printer, printing, walk, pieces, position,
                         wanted, done, rest)
              /\ Renders(heap, format, R)
              /\ IsLeft(heap, format, R, printer, printing, walk, rest)
    BY <1>1, GoingHere DEF Walking
<1>3. IsLeft(heap, format, R, "behind", printing, <<>>, rest)
    BY <1>1, <1>2
<1>4. rest = <<>>
    BY <1>3, LeftAtLast
<1>5. Wide(done) /\ Laid(pieces, position, done) /\ wanted = done ++ rest
    BY <1>2 DEF Written
<1>6. wanted = done
    BY <1>4, <1>5, WideIs, NothingAdded
<1>7. Printed = wanted
    BY <1>5, <1>6, LaidPrinted
<1>8. buffer # Null /\ IsBytes(heap, buffer)
    BY <1>1 DEF Inv, Places, ControlInv, Blocks, KindsInv
<1>9. buffer \in DOMAIN heap /\ IsText(heap[buffer])
    BY <1>8 DEF IsBytes, WholeInv, Texts
<1>10. PICK P : P = Printed
    OBVIOUS
<1>11. heap'[buffer] = [heap[buffer] EXCEPT !.bytes = P]
    BY <1>1, <1>9, <1>10
<1>12. heap'[buffer].bytes = wanted
    BY <1>7, <1>9, <1>10, <1>11 DEF IsText
<1>13. heap'[buffer'].bytes = wanted' /\ buffer' # Null
    BY <1>1, <1>8, <1>12
<1>14. position' = 0 /\ pending' = 0
    BY <1>1 DEF Forgotten
<1>. QED  BY <1>1, <1>13, <1>14 DEF WorkInv, Walking

\* Where the printer gives up, an allocation has failed or the text is too wide.
LEMMA GivenUpWork ==
    ASSUME WorkInv, NewBufferFails \/ CutFails \/ PrintFails, wanted' = wanted
    PROVE  WorkInv'
<1>1. CASE NewBufferFails \/ CutFails
    <2>1. /\ printer' = "fail" /\ starved' = TRUE /\ pending' = pending
          /\ printer \in {"buffer", "behind"}
        BY <1>1 DEF NewBufferFails, CutFails, Goto, bufferVars
    <2>2. pending' = 0
        BY <2>1 DEF WorkInv
    <2>3. TooMuch'
        BY <2>1 DEF TooMuch
    <2>. QED  BY <2>1, <2>2, <2>3, WorkFails
<1>2. CASE PrintFails
    <2>1. /\ printer = "fail" /\ printer' = "done" /\ buffer' = Null /\ pieces' = <<>>
          /\ position' = 0 /\ pending' = 0 /\ starved' = starved
        BY <1>2 DEF PrintFails, Forgotten
    <2>2. TooMuch
        BY <2>1 DEF WorkInv
    <2>3. TooMuch'
        <3>1. PICK most : most = (TotalWidth(wanted) + 2 > PrintMax)
            OBVIOUS
        <3>2. starved \/ most
            BY <2>2, <3>1 DEF TooMuch
        <3>3. (TotalWidth(wanted') + 2 > PrintMax) = most
            BY <3>1, Zenon
        <3>. QED  BY <2>1, <3>2, <3>3, Zenon DEF TooMuch
    <2>. QED  BY <2>1, <2>3 DEF WorkInv, Walking
<1>. QED  BY <1>1, <1>2

LEMMA PrinterWork ==
    ASSUME Inv, WholeInv, Inv', WholeInv', WalkInv, BufferInv, WorkInv, PrintGoesOn
    PROVE  WorkInv'
<1>1. at = "print" /\ at' = "print" /\ PrinterStep /\ wanted' = wanted
    BY DEF PrintGoesOn
<1>2. root # Null /\ root' # Null
    BY <1>1 DEF Inv, Places, RootInv
<1>3. TreePrints(heap)
    BY <1>1, <1>2, TreeFacts
<1>4. TreePrints(heap')
    <2>1. (Inv /\ WholeInv /\ at \in {"parsed", "print"} /\ root # Null)' => TreePrints(heap)'
        BY TreeFacts, PTL
    <2>2. at' \in {"parsed", "print"}
        BY <1>1
    <2>. QED  BY <1>2, <2>1, <2>2
<1>. QED  BY <1>1, <1>3, <1>4, PieceWork, FailWork, VisitWork, LastWork, OffsetWork,
             BufferWork, CutWork, GivenUpWork
          DEF PrinterStep
-----------------------------------------------------------------------------
\* What the tree should be printed as is what is left at first.
LEMMA StartWork ==
    ASSUME Inv, WholeInv, WorkInv, StartPrint PROVE WorkInv'
<1>1. /\ at = "parsed" /\ root # Null
      /\ printer' = "buffer" /\ walk' = <<>> /\ printing' = root
      /\ UNCHANGED <<pieces, position, pending, heap>>
    BY DEF StartPrint, BeginPrint, bufferVars, heapVars
<1>2. PICK f : f = (call.op = "pretty")
    OBVIOUS
<1>3. format' = f /\ wanted' = Rendering(root, f)
    BY <1>2, Zenon DEF StartPrint, BeginPrint
<1>4. TreePrints(heap)
    BY <1>1, TreeFacts
<1>5. printer = "idle" /\ buffer = Null
    BY <1>1 DEF Inv, Places, ControlInv
<1>6. position' = 0 /\ pending' = 0 /\ pieces' = <<>>
    BY <1>1, <1>5 DEF WorkInv
<1>7. Tops = {root} /\ root \in Items(heap) /\ root \in Live
    <2>1. Given = {}
        BY <1>1 DEF Given
    <2>2. Tops = {root}
        BY <1>1, <1>5, <2>1, CalmTops DEF Inv
    <2>3. root \in Items(heap)
        BY <1>1 DEF Inv, Blocks, KindsInv
    <2>. QED  BY <2>2, <2>3, InvFacts DEF Inv, Blocks
<1>8. Forest(heap, {root})
    BY <1>7, InvFacts DEF Inv, Blocks
<1>9. Items(heap) \subseteq cJSON_Delete(root)
    <2>1. Live \subseteq UNION {cJSON_Delete(t) : t \in {root}}
        BY <1>8, RootsAreAll
    <2>. QED  BY <2>1 DEF Items, Live
<1>10. PICK N \in Nat : \E rank : IsRank(heap, rank, N)
    BY <1>7, <1>8, <1>9, RankExists DEF Forest
<1>11. PICK rank : IsRank(heap, rank, N)
    BY <1>10
<1>12. PICK R : IsRendered(heap, f, R) /\ Rendering(root, f) = R[<<"value", root, 0>>]
    BY <1>4, <1>7, <1>11, RenderingHolds
<1>13. PICK rest : rest = R[<<"value", root, 0>>]
    OBVIOUS
<1>14. Renders(heap, f, R)
    BY <1>4, <1>12 DEF Renders
<1>15. IsLeft(heap, f, R, "buffer", root, <<>>, rest) /\ Wide(rest)
    BY <1>7, <1>13, <1>14, LeftAtFirst
<1>16. wanted' = <<>> ++ rest
    BY <1>3, <1>12, <1>13, <1>15, WideIs, NothingAdded
<1>17. Written(heap, f, R, "buffer", root, <<>>, <<>>, 0, wanted', <<>>, rest)
    BY <1>14, <1>15, <1>16, WideEmpty, LaidNothing DEF Written
<1>18. Going(heap, f, "buffer", root, <<>>, <<>>, 0, wanted')
    BY <1>17 DEF Going
<1>19. position' + pending' = 0
    BY <1>6
<1>20. Going(heap', format', printer', printing', walk', pieces', position' + pending', wanted')
    BY <1>1, <1>3, <1>6, <1>18, <1>19, Zenon
<1>. QED  BY <1>1, <1>6, <1>20 DEF WorkInv, Walking

LEMMA WorkGoesOn ==
    ASSUME Inv, WholeInv, Inv', WholeInv', WalkInv, BufferInv, WorkInv, [Next]_vars
    PROVE  WorkInv'
<1>1. CASE PrintGoesOn
    BY <1>1, PrinterWork
<1>2. CASE StartPrint
    BY <1>2, StartWork
<1>3. CASE UNCHANGED vars
    <2>1. /\ UNCHANGED <<printer, walk, printing, format, pieces, position, pending, length>>
          /\ UNCHANGED <<heap, buffer, starved, wanted>>
        BY <1>3 DEF vars, printerVars, bufferVars, heapVars
    <2>2. Going(heap, format, printer, printing, walk, pieces, position + pending, wanted) =>
          Going(heap', format', printer', printing', walk', pieces', position' + pending', wanted')
        BY <2>1, Zenon
    <2>3. TooMuch => TooMuch'
        BY <2>1, Zenon DEF TooMuch
    <2>4. heap'[buffer'].bytes = heap[buffer].bytes
        BY <2>1
    <2>. QED  BY <2>1, <2>2, <2>3, <2>4 DEF WorkInv
<1>4. CASE PrintEnds \/ FromJsonEnds
    <2>1. /\ UNCHANGED <<position, pending, pieces>>
          /\ printer' = "idle" /\ printer = "done"
        BY <1>4 DEF PrintEnds, FromJsonEnds, KeepPrinter, Forget
    <2>2. position = 0 /\ pending = 0 /\ pieces = <<>>
        BY <2>1 DEF WorkInv
    <2>. QED  BY <2>1, <2>2 DEF WorkInv, Walking
<1>5. CASE \/ Call \/ DispatchAnswers \/ SchemeAnswers \/ NothingToParse
           \/ CopyParams \/ ParamsNotCopied \/ Parse \/ ParseEnds
           \/ NoTree \/ ReturnTree \/ MaxConcurrent \/ CallerFrees \/ ComesBack
    <2>1. UNCHANGED <<printer, position, pending, pieces>>
        BY <1>5 DEF Call, DispatchAnswers, SchemeAnswers, NothingToParse,
            CopyParams, ParamsNotCopied, Parse, ParseEnds, NoTree, ReturnTree,
            MaxConcurrent, CallerFrees, ComesBack, CallerHasFreed, printerVars,
            bufferVars
    <2>2. at # "print"
        BY <1>5 DEF Call, DispatchAnswers, SchemeAnswers, NothingToParse, Parses,
            CopyParams, ParamsNotCopied, Parse, ParseEnds, NoTree, ReturnTree,
            MaxConcurrent, CallerFrees, ComesBack, CallerHasFreed
    <2>3. printer = "idle"
        BY <2>2 DEF Inv, Places, ControlInv
    <2>4. position = 0 /\ pending = 0 /\ pieces = <<>>
        BY <2>3 DEF WorkInv
    <2>. QED  BY <2>1, <2>3, <2>4 DEF WorkInv, Walking
<1>. QED  BY <1>1, <1>2, <1>3, <1>4, <1>5 DEF Next, CallStep

-----------------------------------------------------------------------------
(***************************************************************************)
(* What is returned                                                        *)
(***************************************************************************)

\* What is returned is the text that is wanted, to the last token and also of
\* pretty; nothing is returned only for want of memory or of room.
TextIsWanted ==
    at = "returned" /\ call.op \in Printers =>
        /\ Text # <<>> => Text = wanted
        /\ Text = <<>> /\ wanted # <<>> =>
                starved \/ TotalWidth(wanted) + 2 > PrintMax

\* No text is wanted before the tree is there, and then it is returned.
AnswerInv ==
    /\ at = "idle" => wanted = <<>>
    /\ at \in {"called", "parse", "parsed"} /\ call.op \in Printers => wanted = <<>>
    /\ TextIsWanted

\* A text that is returned is the one that is wanted.
LEMMA AnswerReturns ==
    ASSUME at' = "returned", result' # Null => heap'[result'].bytes = wanted',
           result' = Null => wanted' = <<>> \/ TooMuch'
    PROVE  AnswerInv'
<1>1. call'.op \in Printers => Text' = IF result' # Null THEN heap'[result'].bytes ELSE <<>>
    BY DEF Text
<1>2. TextIsWanted'
    BY <1>1 DEF TextIsWanted, TooMuch
<1>. QED  BY <1>2 DEF AnswerInv

\* Steps before anything is printed, and calls that print nothing.
LEMMA AnswerQuiet ==
    ASSUME AnswerInv, at' \in {"called", "parse", "parsed", "print"}, wanted' = wanted,
           at \in {"idle", "called", "parse", "parsed", "print"},
           at # "idle" => call' = call,
           at' # "print" => at # "print"
    PROVE  AnswerInv'
<1>1. TextIsWanted'
    BY DEF TextIsWanted
<1>. QED  BY <1>1 DEF AnswerInv

LEMMA OtherAnswers ==
    ASSUME at' = "returned", call'.op \notin Printers PROVE AnswerInv'
<1>1. TextIsWanted'
    BY DEF TextIsWanted
<1>. QED  BY <1>1 DEF AnswerInv

LEMMA TooMuchKept ==
    ASSUME TooMuch, starved' = starved, wanted' = wanted PROVE TooMuch'
<1>1. PICK most : most = (TotalWidth(wanted) + 2 > PrintMax)
    OBVIOUS
<1>2. starved \/ most
    BY <1>1 DEF TooMuch
<1>3. (TotalWidth(wanted') + 2 > PrintMax) = most
    BY <1>1, Zenon
<1>. QED  BY <1>2, <1>3, Zenon DEF TooMuch

LEMMA PrintEndsAnswer ==
    ASSUME Inv, WorkInv, PrintEnds PROVE AnswerInv'
<1>1. /\ at = "print" /\ printer = "done" /\ at' = "returned" /\ result' = buffer
      /\ heap' = Rest(heap, cJSON_Delete(root))
      /\ wanted' = wanted /\ starved' = starved
    BY WithoutRests DEF PrintEnds, Return
<1>2. IF buffer = Null THEN TooMuch ELSE heap[buffer].bytes = wanted
    BY <1>1 DEF WorkInv
<1>3. ASSUME buffer # Null PROVE heap'[buffer].bytes = wanted
    <2>1. /\ root # Null /\ root \in Items(heap) /\ IsBytes(heap, buffer)
        BY <1>1, <1>3 DEF Inv, Places, RootInv, Blocks, KindsInv
    <2>2. root \in Tops /\ buffer \in Tops /\ buffer # root
        BY <1>3, <2>1 DEF Tops, IsBytes
    <2>3. Freed(heap, cJSON_Delete(root), root)
        BY <2>2, InvFacts, DeleteFrees DEF Inv, Blocks
    <2>4. buffer \notin cJSON_Delete(root)
        BY <2>2, <2>3, InvFacts, NotFreed DEF Inv, Blocks, Forest
    <2>5. buffer \in DOMAIN heap \ cJSON_Delete(root)
        BY <2>1, <2>4 DEF IsBytes
    <2>6. heap'[buffer] = heap[buffer]
        BY <1>1, <2>5 DEF Rest
    <2>. QED  BY <1>2, <1>3, <2>6
<1>4. result' # Null => heap'[result'].bytes = wanted'
    BY <1>1, <1>3
<1>5. result' = Null => TooMuch'
    BY <1>1, <1>2, TooMuchKept
<1>. QED  BY <1>1, <1>4, <1>5, AnswerReturns

LEMMA FromJsonAnswer ==
    ASSUME Inv, WorkInv, FromJsonEnds PROVE AnswerInv'
<1>1. at = "print" /\ printer = "done" /\ at' = "returned" /\ wanted' = wanted
    BY DEF FromJsonEnds, Return
<1>2. IF buffer = Null THEN TooMuch ELSE heap[buffer].bytes = wanted
    BY <1>1 DEF WorkInv
<1>3. CASE /\ buffer # Null /\ result' = Fresh
           /\ heap' = [q \in (Live \cup {Fresh}) \ {buffer} |->
                         IF q = Fresh THEN heap[buffer] ELSE heap[q]]
    <2>1. PICK n \in Nat \ {0} : n = Fresh /\ n \notin Live /\ n # Null
        BY InvFacts DEF Inv, Blocks
    <2>2. buffer \in Live
        BY <1>3 DEF Inv, Blocks, KindsInv, IsBytes, Live
    <2>3. heap' = [q \in (Live \cup {n}) \ {buffer} |->
                      IF q = n THEN heap[buffer] ELSE heap[q]]
        BY <1>3, <2>1
    <2>4. heap'[n] = heap[buffer]
        BY <2>1, <2>2, <2>3
    <2>5. heap'[result'].bytes = wanted' /\ result' # Null
        BY <1>1, <1>2, <1>3, <2>1, <2>4
    <2>. QED  BY <1>1, <2>5, AnswerReturns
<1>4. CASE result' = Null /\ starved' = TRUE
    <2>1. TooMuch'
        BY <1>4 DEF TooMuch
    <2>. QED  BY <1>1, <1>4, <2>1, AnswerReturns
<1>5. CASE buffer = Null /\ result' = Null /\ starved' = starved
    <2>1. TooMuch'
        BY <1>1, <1>2, <1>5, TooMuchKept
    <2>. QED  BY <1>1, <1>5, <2>1, AnswerReturns
<1>. QED  BY <1>3, <1>4, <1>5 DEF FromJsonEnds, Return, heapVars

LEMMA AnswerGoesOn ==
    ASSUME Inv, WorkInv, AnswerInv, [Next]_vars PROVE AnswerInv'
<1>1. CASE UNCHANGED vars
    <2>1. UNCHANGED <<at, call, result, wanted, heap, starved>>
        BY <1>1 DEF vars, heapVars
    <2>2. Text' = Text
        BY <2>1 DEF Text
    <2>3. PICK most : most = (TotalWidth(wanted) + 2 > PrintMax)
        OBVIOUS
    <2>4. most = (TotalWidth(wanted') + 2 > PrintMax)
        BY <2>1, <2>3, Zenon
    <2>5. TextIsWanted'
        BY <2>1, <2>2, <2>3, <2>4 DEF AnswerInv, TextIsWanted
    <2>. QED  BY <2>1, <2>5 DEF AnswerInv
<1>2. CASE Call \/ CopyParams \/ Parse \/ ParseEnds
    <2>1. /\ at \in {"idle", "called", "parse"} /\ at' \in {"called", "parse", "parsed"}
          /\ wanted' = wanted /\ (at # "idle" => call' = call)
        BY <1>2 DEF Call, CopyParams, Parses, Parse, ParseEnds
    <2>. QED  BY <2>1, AnswerQuiet
<1>3. CASE StartPrint \/ PrintGoesOn
    <2>1. at' = "print"
        BY <1>3 DEF StartPrint, PrintGoesOn
    <2>2. TextIsWanted'
        BY <2>1 DEF TextIsWanted
    <2>. QED  BY <2>1, <2>2 DEF AnswerInv
<1>4. CASE NothingToParse \/ ParamsNotCopied \/ NoTree
    <2>1. /\ at \in {"called", "parsed"} /\ at' = "returned" /\ result' = Null
          /\ wanted' = wanted /\ call' = call
        BY <1>4 DEF NothingToParse, ParamsNotCopied, NoTree, Parses, Return, Null
    <2>2. CASE call.op \in Printers
        <3>1. wanted' = <<>>
            BY <2>1, <2>2 DEF AnswerInv
        <3>. QED  BY <2>1, <3>1, AnswerReturns
    <2>3. CASE call.op \notin Printers
        BY <2>1, <2>3, OtherAnswers
    <2>. QED  BY <2>2, <2>3
<1>5. CASE DispatchAnswers \/ SchemeAnswers \/ ReturnTree \/ MaxConcurrent
    <2>1. at' = "returned" /\ call' = call /\ call.op \notin Printers
        BY <1>5 DEF DispatchAnswers, SchemeAnswers, ReturnTree, MaxConcurrent, Return,
                    Printers, Validators
    <2>. QED  BY <2>1, OtherAnswers
<1>6. CASE CallerFrees
    <2>1. at' = "idle" /\ wanted' = <<>>
        BY <1>6 DEF CallerFrees
    <2>2. TextIsWanted'
        BY <2>1 DEF TextIsWanted
    <2>. QED  BY <2>1, <2>2 DEF AnswerInv
<1>7. CASE ComesBack
    <2>1. at' = "called" /\ call'.op = "parse"
        BY <1>7 DEF ComesBack
    <2>2. TextIsWanted'
        BY <2>1 DEF TextIsWanted
    <2>3. call'.op \notin Printers
        BY <2>1 DEF Printers
    <2>. QED  BY <2>1, <2>2, <2>3 DEF AnswerInv
<1>. QED  BY <1>1, <1>2, <1>3, <1>4, <1>5, <1>6, <1>7, PrintEndsAnswer, FromJsonAnswer
          DEF Next, CallStep

PrintInv == FullInv /\ WorkInv /\ AnswerInv

LEMMA PrintStarts == Init => PrintInv
<1>. SUFFICES ASSUME Init PROVE PrintInv
    OBVIOUS
<1>1. /\ at = "idle" /\ wanted = <<>> /\ printer = "idle" /\ pieces = <<>>
      /\ position = 0 /\ pending = 0
    BY DEF Init, PrinterInit
<1>2. WorkInv
    BY <1>1 DEF WorkInv, Walking
<1>3. AnswerInv
    BY <1>1 DEF AnswerInv, TextIsWanted
<1>. QED  BY <1>2, <1>3, FullStarts DEF PrintInv

LEMMA PrintGoes == PrintInv /\ [Next]_vars => PrintInv'
<1>. SUFFICES ASSUME PrintInv, [Next]_vars PROVE PrintInv'
    OBVIOUS
<1>1. FullInv /\ WorkInv /\ AnswerInv
    BY DEF PrintInv
<1>2. FullInv'
    BY <1>1, FullGoesOn
<1>3. WorkInv'
    BY <1>1, <1>2, WorkGoesOn DEF FullInv
<1>4. AnswerInv'
    BY <1>1, AnswerGoesOn DEF FullInv
<1>. QED  BY <1>2, <1>3, <1>4 DEF PrintInv

LEMMA WantedIsPrinted == TextIsWanted => PrintedText
<1>. SUFFICES ASSUME TextIsWanted, at = "returned", call.op \in Printers
              PROVE  /\ Text # <<>> =>
                           IF call.op = "pretty" THEN Dense(Text) = Dense(wanted)
                           ELSE Text = wanted
                     /\ Text = <<>> /\ wanted # <<>> /\ MustPrint =>
                           starved \/ TotalWidth(wanted) + 2 > PrintMax
    BY DEF PrintedText
<1>1. Text # <<>> => Text = wanted
    BY DEF TextIsWanted
<1>2. Text = <<>> /\ wanted # <<>> => starved \/ TotalWidth(wanted) + 2 > PrintMax
    BY Zenon DEF TextIsWanted
<1>. QED  BY <1>1, <1>2, Zenon

\* What canonical and from_json return is the text of the tree that was
\* parsed, to the last token, and what pretty returns is it up to whitespace,
\* whatever tree the parser made and however often the buffer grew; of
\* parameters that are JSON from end to end they return nothing only when an
\* allocation failed or the text does not fit the largest buffer (cJSON.c:
\* print; openaic.c).
THEOREM PrintsTheRendering == Spec => []PrintedText
<1>1. Spec => []PrintInv
    BY PrintStarts, PrintGoes, PTL DEF Spec
<1>2. PrintInv => PrintedText
    BY WantedIsPrinted DEF PrintInv, AnswerInv
<1>. QED  BY <1>1, <1>2, PTL
=============================================================================
