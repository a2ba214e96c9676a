------------------------ MODULE CapabilityParamsProofs ------------------------
(***************************************************************************)
(* Proofs about the parser and the printer of capability parameters, for   *)
(* texts and string literals of any length, for any limit on nesting and   *)
(* whatever allocation fails.                                              *)
(***************************************************************************)
EXTENDS CapabilityParams, FiniteSetTheorems, SequenceTheorems,
        WellFoundedInduction, TLAPS

-----------------------------------------------------------------------------
(***************************************************************************)
(* The string that parse_string decodes fits the block it was given        *)
(*                                                                         *)
(* The first loop passes over a set E of escapes, no two of them adjacent. *)
(* The second loop may see other escapes, but whatever it takes in one     *)
(* step writes no more bytes than it passes over, less the members of E    *)
(* among them: that is one byte for each member of E at least.             *)
(***************************************************************************)

IsSequence(s) == \E S : s \in Seq(S)

\* The escapes the first loop has passed over.
IsEscapes(E) ==
    /\ E \subseteq 1..end - 1
    /\ Cardinality(E) = skipped
    /\ \A e \in E : lit[e] = Backslash /\ e + 1 \notin E /\ e + 2 <= end

\* How many of E lie before place i.
Before(E, i) == Cardinality({e \in E : e < i})

StringTyped ==
    /\ phase \in {"idle", "scan", "copy", "parsed", "failed"}
    /\ end \in Nat \ {0}
    /\ skipped \in Nat
    /\ in \in Nat \ {0}
    /\ IsSequence(out)

CopiedSoFar(E) ==
    phase \in {"copy", "parsed"} =>
        /\ in <= end + 1
        /\ Len(out) + Before(E, in) <= in - 1

StringInv ==
    /\ StringTyped
    /\ phase \in {"scan", "copy", "parsed"} =>
          \E E : IsEscapes(E) /\ CopiedSoFar(E)
    /\ phase = "scan" => in = 1 /\ out = <<>>
    /\ phase = "parsed" => in >= end

-----------------------------------------------------------------------------
(***************************************************************************)
(* Counting                                                                *)
(***************************************************************************)

LEMMA BeforeType ==
    ASSUME NEW E \in SUBSET Nat, IsFiniteSet(E), NEW i \in Nat
    PROVE  Before(E, i) \in Nat /\ IsFiniteSet({e \in E : e < i})
<1>1. IsFiniteSet({e \in E : e < i})
    BY FS_Subset
<1>. QED  BY <1>1, FS_CardinalityType DEF Before

LEMMA BeforeNext ==
    ASSUME NEW E \in SUBSET Nat, IsFiniteSet(E), NEW i \in Nat
    PROVE  Before(E, i + 1) = Before(E, i) + (IF i \in E THEN 1 ELSE 0)
<1>1. IsFiniteSet({e \in E : e < i}) /\ Before(E, i) \in Nat
    BY BeforeType
<1>0. \A e \in E : e < i + 1 <=> e < i \/ e = i
    <2>. SUFFICES ASSUME NEW e \in E PROVE e < i + 1 <=> e < i \/ e = i
        OBVIOUS
    <2>1. e \in Nat
        OBVIOUS
    <2>. QED  BY <2>1
<1>2. CASE i \in E
    <2>1. {e \in E : e < i + 1} = {e \in E : e < i} \cup {i}
        BY <1>0, <1>2, Zenon
    <2>2. i \notin {e \in E : e < i}
        OBVIOUS
    <2>. QED  BY <1>1, <1>2, <2>1, <2>2, FS_AddElement DEF Before
<1>3. CASE i \notin E
    <2>1. {e \in E : e < i + 1} = {e \in E : e < i}
        BY <1>0, <1>3, Zenon
    <2>. QED  BY <1>1, <1>3, <2>1 DEF Before
<1>. QED  BY <1>2, <1>3

\* Two places hold one escape of the first loop at most.
LEMMA BeforeTwo ==
    ASSUME NEW E \in SUBSET Nat, IsFiniteSet(E), NEW i \in Nat,
           \A e \in E : e + 1 \notin E
    PROVE  Before(E, i + 2) <= Before(E, i) + 1
<1>1. Before(E, i) \in Nat
    BY BeforeType
<1>2. Before(E, i + 1) = Before(E, i) + (IF i \in E THEN 1 ELSE 0)
    BY BeforeNext
<1>3. Before(E, (i + 1) + 1)
        = Before(E, i + 1) + (IF i + 1 \in E THEN 1 ELSE 0)
    <2>. DEFINE j == i + 1
    <2>1. j \in Nat
        OBVIOUS
    <2>. HIDE DEF j
    <2>2. Before(E, j + 1) = Before(E, j) + (IF j \in E THEN 1 ELSE 0)
        BY <2>1, BeforeNext
    <2>. QED  BY <2>2 DEF j
<1>4. (i + 1) + 1 = i + 2
    OBVIOUS
<1>. QED  BY <1>1, <1>2, <1>3, <1>4

LEMMA BeforeSix ==
    ASSUME NEW E \in SUBSET Nat, IsFiniteSet(E), NEW i \in Nat,
           \A e \in E : e + 1 \notin E
    PROVE  Before(E, i + 6) <= Before(E, i) + 3
<1>1. \A k \in Nat : Before(E, k + 2) <= Before(E, k) + 1 /\ Before(E, k) \in Nat
    BY BeforeTwo, BeforeType
<1>2. /\ i + 2 \in Nat /\ (i + 2) + 2 = i + 4
      /\ i + 4 \in Nat /\ (i + 4) + 2 = i + 6 /\ i + 6 \in Nat
    OBVIOUS
<1>3. /\ Before(E, i + 2) <= Before(E, i) + 1
      /\ Before(E, (i + 2) + 2) <= Before(E, i + 2) + 1
      /\ Before(E, (i + 4) + 2) <= Before(E, i + 4) + 1
      /\ Before(E, i) \in Nat /\ Before(E, i + 2) \in Nat
      /\ Before(E, i + 4) \in Nat /\ Before(E, i + 6) \in Nat
    BY <1>1, <1>2, Zenon
<1>. QED  BY <1>2, <1>3

\* Between two places there are no more escapes than characters.
LEMMA BeforeEnd ==
    ASSUME NEW n \in Nat, NEW E \in SUBSET (1..n), NEW i \in Nat, i <= n + 1
    PROVE  Cardinality(E) <= Before(E, i) + (n + 1 - i)
<1>. DEFINE R == {e \in E : e >= i}
<1>1. E \in SUBSET Nat /\ IsFiniteSet(E)
    <2>1. 1..n \subseteq Nat /\ IsFiniteSet(1..n)
        BY FS_Interval
    <2>. QED  BY <2>1, FS_Subset
<1>2. IsFiniteSet({e \in E : e < i}) /\ Before(E, i) \in Nat
    BY <1>1, BeforeType
<1>3. IsFiniteSet(R) /\ Cardinality(R) <= n + 1 - i /\ Cardinality(R) \in Nat
    <2>1. R \subseteq i..n
        <3>. SUFFICES ASSUME NEW e \in R PROVE e \in i..n
            OBVIOUS
        <3>1. e \in 1..n /\ e >= i
            OBVIOUS
        <3>. QED  BY <3>1
    <2>2. IsFiniteSet(i..n) /\ Cardinality(i..n) = IF i > n THEN 0 ELSE n - i + 1
        BY FS_Interval
    <2>3. Cardinality(i..n) = n + 1 - i
        BY <2>2
    <2>4. IsFiniteSet(R) /\ Cardinality(R) <= Cardinality(i..n)
        BY <2>1, <2>2, FS_Subset
    <2>. QED  BY <2>3, <2>4, FS_CardinalityType
<1>4. E = {e \in E : e < i} \cup R /\ {e \in E : e < i} \cap R = {}
    <2>1. \A e \in E : e >= i <=> ~(e < i)
        <3>. SUFFICES ASSUME NEW e \in E PROVE e >= i <=> ~(e < i)
            OBVIOUS
        <3>1. e \in Nat
            BY <1>1
        <3>. QED  BY <3>1
    <2>. QED  BY <2>1, Zenon
<1>5. Cardinality({e \in E : e < i} \cup R)
        = Cardinality({e \in E : e < i}) + Cardinality(R)
            - Cardinality({e \in E : e < i} \cap R)
    BY <1>2, <1>3, FS_Union
<1>6. Cardinality({}) = 0
    BY FS_EmptySet
<1>7. Before(E, i) = Cardinality({e \in E : e < i})
    BY DEF Before
<1>8. Cardinality(E) = Before(E, i) + Cardinality(R) - 0
    BY <1>4, <1>5, <1>6, <1>7, Zenon
<1>. HIDE DEF R
<1>. QED  BY <1>2, <1>3, <1>8

-----------------------------------------------------------------------------
(***************************************************************************)
(* What a step of the second loop writes                                   *)
(***************************************************************************)

LEMMA Concatenated ==
    ASSUME NEW s, IsSequence(s), NEW t, IsSequence(t)
    PROVE  IsSequence(s \o t) /\ Len(s \o t) = Len(s) + Len(t)
           /\ Len(s) \in Nat /\ Len(t) \in Nat
<1>1. PICK S : s \in Seq(S)
    BY DEF IsSequence
<1>2. PICK T : t \in Seq(T)
    BY DEF IsSequence
<1>3. s \in Seq(S \cup T) /\ t \in Seq(S \cup T)
    BY <1>1, <1>2
<1>4. s \o t \in Seq(S \cup T)
    BY <1>3
<1>. QED  BY <1>3, <1>4 DEF IsSequence

LEMMA Tuples ==
    \A a, b, x, y :
        /\ IsSequence(<<a>>) /\ Len(<<a>>) = 1
        /\ IsSequence(<<a, b>>) /\ Len(<<a, b>>) = 2
        /\ IsSequence(<<a, b, x>>) /\ Len(<<a, b, x>>) = 3
        /\ IsSequence(<<a, b, x, y>>) /\ Len(<<a, b, x, y>>) = 4
<1>. TAKE a, b, x, y
<1>1. /\ <<a>> \in Seq({a, b, x, y}) /\ <<a, b>> \in Seq({a, b, x, y})
      /\ <<a, b, x>> \in Seq({a, b, x, y})
      /\ <<a, b, x, y>> \in Seq({a, b, x, y})
    OBVIOUS
<1>2. /\ Len(<<a>>) = 1 /\ Len(<<a, b>>) = 2 /\ Len(<<a, b, x>>) = 3
      /\ Len(<<a, b, x, y>>) = 4
    OBVIOUS
<1>. QED  BY <1>1, <1>2, Zenon DEF IsSequence

LEMMA UnitType == \A i \in Nat : Unit(i) \in Nat /\ Unit(i) < 65536
<1>1. \A c : IsHex(c) => HexDigit(c) \in 0..15
    BY SMT DEF IsHex, HexDigit
<1>2. ASSUME NEW j \in Nat PROVE parse_hex4(j) \in Nat /\ parse_hex4(j) < 65536
    <2>1. CASE \A k \in 0..3 : IsHex(lit[j + k])
        <3>1. IsHex(lit[j + 0]) /\ j + 0 = j
            BY <2>1, SMT
        <3>2. /\ HexDigit(lit[j]) \in 0..15 /\ HexDigit(lit[j + 1]) \in 0..15
              /\ HexDigit(lit[j + 2]) \in 0..15 /\ HexDigit(lit[j + 3]) \in 0..15
            BY <1>1, <2>1, <3>1, SMT
        <3>3. PICK a \in 0..15, b \in 0..15, c \in 0..15, d \in 0..15 :
                /\ a = HexDigit(lit[j]) /\ b = HexDigit(lit[j + 1])
                /\ c = HexDigit(lit[j + 2]) /\ d = HexDigit(lit[j + 3])
            BY <3>2, Zenon
        <3>4. parse_hex4(j) = 4096 * a + 256 * b + 16 * c + d
            BY <2>1, <3>3, SMT DEF parse_hex4
        <3>. QED  BY <3>4, SMT
    <2>2. CASE ~ \A k \in 0..3 : IsHex(lit[j + k])
        BY <2>2, SMT DEF parse_hex4
    <2>. QED  BY <2>1, <2>2, SMT
<1>. QED  BY <1>2, SMT DEF Unit

LEMMA Utf8Length ==
    ASSUME NEW c \in Nat
    PROVE  /\ IsSequence(Utf8(c))
           /\ Len(Utf8(c)) \in Nat /\ Len(Utf8(c)) <= 4
           /\ c < 65536 => Len(Utf8(c)) <= 3
<1>1. CASE c < 128
    <2>1. \E a : Utf8(c) = <<a>>
        BY <1>1, SMT DEF Utf8
    <2>2. IsSequence(Utf8(c)) /\ Len(Utf8(c)) = 1
        BY <2>1, Tuples, Zenon
    <2>. QED  BY <2>2, SMT
<1>2. CASE c >= 128 /\ c < 2048
    <2>1. \E a, b : Utf8(c) = <<a, b>>
        BY <1>2, SMT DEF Utf8
    <2>2. IsSequence(Utf8(c)) /\ Len(Utf8(c)) = 2
        BY <2>1, Tuples, Zenon
    <2>. QED  BY <2>2, SMT
<1>3. CASE c >= 2048 /\ c < 65536
    <2>1. \E a, b, x : Utf8(c) = <<a, b, x>>
        BY <1>3, SMT DEF Utf8
    <2>2. IsSequence(Utf8(c)) /\ Len(Utf8(c)) = 3
        BY <2>1, Tuples, Zenon
    <2>. QED  BY <2>2, SMT
<1>4. CASE c >= 65536
    <2>1. \E a, b, x, y : Utf8(c) = <<a, b, x, y>>
        BY <1>4, SMT DEF Utf8
    <2>2. IsSequence(Utf8(c)) /\ Len(Utf8(c)) = 4
        BY <2>1, Tuples, Zenon
    <2>. QED  BY <1>4, <2>2, SMT
<1>. QED  BY <1>1, <1>2, <1>3, <1>4, SMT

-----------------------------------------------------------------------------
(***************************************************************************)
(* The steps of parse_string                                               *)
(***************************************************************************)

LEMMA EscapesFinite ==
    ASSUME StringTyped, NEW E, IsEscapes(E)
    PROVE  /\ E \in SUBSET Nat /\ IsFiniteSet(E)
           /\ E \in SUBSET (1..end - 1) /\ end - 1 \in Nat
           /\ \A e \in E : e + 1 \notin E
<1>1. end - 1 \in Nat /\ E \in SUBSET (1..end - 1)
    BY DEF StringTyped, IsEscapes
<1>2. 1..end - 1 \subseteq Nat /\ IsFiniteSet(1..end - 1)
    BY <1>1, FS_Interval
<1>3. IsFiniteSet(E)
    BY <1>1, <1>2, FS_Subset
<1>. QED  BY <1>1, <1>2, <1>3 DEF IsEscapes

\* The first loop: a plain character adds no escape, a backslash one.
LEMMA ScanInv ==
    ASSUME StringInv, Scan \/ ScanEscape
    PROVE  StringInv'
<1>0. PICK E : IsEscapes(E)
    BY DEF StringInv, Scan, ScanEscape
<1>1. /\ phase = "scan" /\ phase' = "scan" /\ in' = in /\ out' = out /\ lit' = lit
      /\ in = 1 /\ out = <<>>
    BY DEF StringInv, Scan, ScanEscape
<1>2. CASE Scan
    <2>1. end' = end + 1 /\ skipped' = skipped
        BY <1>2 DEF Scan
    <2>2. IsEscapes(E)'
        BY <1>0, <1>1, <2>1 DEF IsEscapes, StringInv, StringTyped
    <2>. QED  BY <1>1, <2>1, <2>2 DEF StringInv, StringTyped, CopiedSoFar
<1>3. CASE ScanEscape
    <2>1. end' = end + 2 /\ skipped' = skipped + 1 /\ lit[end] = Backslash
        BY <1>3 DEF ScanEscape, EscapeSaves
    <2>2. IsFiniteSet(E) /\ end \notin E /\ end \in Nat \ {0}
        BY <1>0, EscapesFinite DEF StringInv, StringTyped
    <2>3. Cardinality(E \cup {end}) = skipped + 1
        BY <1>0, <2>2, FS_AddElement DEF IsEscapes
    <2>4. \A e \in E : e \in 1..end - 1 /\ e + 2 <= end /\ e + 1 \notin E
                        /\ lit[e] = Backslash
        BY <1>0 DEF IsEscapes
    <2>5. PICK F : F = E \cup {end}
        OBVIOUS
    <2>6. F \subseteq 1..end' - 1
        BY <2>1, <2>2, <2>4, <2>5
    <2>7. \A e \in F : lit'[e] = Backslash /\ e + 1 \notin F /\ e + 2 <= end'
        BY <1>1, <2>1, <2>2, <2>4, <2>5
    <2>8. Cardinality(F) = skipped'
        BY <2>1, <2>3, <2>5
    <2>9. IsEscapes(F)'
        BY <2>6, <2>7, <2>8, Zenon DEF IsEscapes
    <2>. QED  BY <1>1, <2>1, <2>2, <2>9 DEF StringInv, StringTyped, CopiedSoFar
<1>. QED  BY <1>2, <1>3

\* The second loop starts at the first character, with nothing written.
LEMMA AllocateInv ==
    ASSUME StringInv, AllocateOutput
    PROVE  StringInv'
<1>1. /\ phase = "scan" /\ phase' = "copy"
      /\ UNCHANGED <<lit, end, skipped, in, out>> /\ in = 1 /\ out = <<>>
    BY DEF StringInv, AllocateOutput, AtQuote
<1>2. PICK E : IsEscapes(E)
    BY <1>1 DEF StringInv
<1>3. Before(E, 1) = 0
    <2>1. \A e \in E : ~(e < 1)
        <3>. SUFFICES ASSUME NEW e \in E PROVE ~(e < 1)
            OBVIOUS
        <3>1. e \in 1..end - 1
            BY <1>2 DEF IsEscapes
        <3>. QED  BY <3>1
    <2>2. {e \in E : e < 1} = {}
        BY <2>1, Zenon
    <2>. QED  BY <2>2, FS_EmptySet DEF Before
<1>4. IsEscapes(E)' /\ CopiedSoFar(E)'
    <2>1. IsEscapes(E)'
        BY <1>1, <1>2 DEF IsEscapes
    <2>2. in' <= end' + 1 /\ Len(out') + Before(E, in') <= in' - 1
        BY <1>1, <1>3 DEF StringInv, StringTyped
    <2>. QED  BY <2>1, <2>2 DEF CopiedSoFar, Before
<1>. QED  BY <1>1, <1>4 DEF StringInv, StringTyped

\* A step of the second loop that passes over `taken' characters and writes
\* `bytes', where the first loop saw no more than `least' escapes.
LEMMA TakeInv ==
    ASSUME StringInv, phase = "copy", in < end,
           NEW taken \in Nat, NEW bytes, Take(taken, bytes),
           IsSequence(bytes), in + taken <= end + 1,
           \A E : IsEscapes(E) =>
                Before(E, in + taken) + Len(bytes) <= Before(E, in) + taken
    PROVE  StringInv'
<1>1. /\ phase' = "copy" /\ in' = in + taken /\ out' = out \o bytes
      /\ UNCHANGED <<lit, end, skipped>>
    BY DEF Take
<1>2. PICK E : IsEscapes(E) /\ CopiedSoFar(E)
    BY DEF StringInv
<1>3. /\ IsSequence(out') /\ Len(out') = Len(out) + Len(bytes)
      /\ Len(out) \in Nat /\ Len(bytes) \in Nat
    BY <1>1, Concatenated DEF StringInv, StringTyped
<1>4. in' \in Nat \ {0}
    BY <1>1 DEF StringInv, StringTyped
<1>5. Before(E, in) \in Nat /\ Before(E, in + taken) \in Nat
    <2>1. in \in Nat /\ in + taken \in Nat
        BY DEF StringInv, StringTyped
    <2>2. E \in SUBSET Nat /\ IsFiniteSet(E)
        BY <1>2, EscapesFinite DEF StringInv
    <2>3. \A k \in Nat : Before(E, k) \in Nat
        BY <2>2, BeforeType
    <2>. QED  BY <2>1, <2>3
<1>6. Len(out) + Before(E, in) <= in - 1
    BY <1>2 DEF CopiedSoFar
<1>7. Len(out') + Before(E, in + taken) <= in' - 1
    <2>1. Before(E, in + taken) + Len(bytes) <= Before(E, in) + taken
        BY <1>2
    <2>. QED  BY <1>1, <1>3, <1>5, <1>6, <2>1 DEF StringInv, StringTyped
<1>8. IsEscapes(E)' /\ CopiedSoFar(E)'
    <2>1. IsEscapes(E)'
        BY <1>1, <1>2 DEF IsEscapes
    <2>2. in' <= end' + 1
        BY <1>1
    <2>3. Before(E, in)' = Before(E, in + taken)
        BY <1>1 DEF Before
    <2>4. Len(out') + Before(E, in)' <= in' - 1
        BY <1>7, <2>3, Zenon
    <2>. QED  BY <2>1, <2>2, <2>4, Zenon DEF CopiedSoFar
<1>. QED  BY <1>1, <1>3, <1>4, <1>8 DEF StringInv, StringTyped

LEMMA CopyInv ==
    ASSUME StringInv, CopyPlain \/ CopyEscape \/ CopySingle \/ CopyPair
    PROVE  StringInv'
<1>0. phase = "copy" /\ in < end /\ in \in Nat /\ end \in Nat /\ StringTyped
    BY DEF StringInv, StringTyped, CopyPlain, CopyEscape, CopySingle, CopyPair,
           AtUnicode, AtEscape, InCopy
<1>1. ASSUME NEW E, IsEscapes(E)
      PROVE  /\ E \in SUBSET Nat /\ IsFiniteSet(E) /\ \A e \in E : e + 1 \notin E
             /\ \A k \in Nat : Before(E, k) \in Nat
             /\ \A k \in Nat : Before(E, k + 2) <= Before(E, k) + 1
             /\ \A k \in Nat : Before(E, k + 6) <= Before(E, k) + 3
             /\ in \notin E => Before(E, in + 1) = Before(E, in)
    <2>1. E \in SUBSET Nat /\ IsFiniteSet(E) /\ \A e \in E : e + 1 \notin E
        BY <1>0, <1>1, EscapesFinite
    <2>2. \A k \in Nat : Before(E, k) \in Nat
        BY <2>1, BeforeType
    <2>3. \A k \in Nat : Before(E, k + 2) <= Before(E, k) + 1
        BY <2>1, BeforeTwo
    <2>4. \A k \in Nat : Before(E, k + 6) <= Before(E, k) + 3
        BY <2>1, BeforeSix
    <2>5. Before(E, in + 1) = Before(E, in) + (IF in \in E THEN 1 ELSE 0)
        BY <1>0, <2>1, BeforeNext
    <2>. QED  BY <1>0, <2>1, <2>2, <2>3, <2>4, <2>5
<1>2. CASE CopyPlain
    <2>. DEFINE bytes == <<lit[in]>>
    <2>1. Take(1, bytes) /\ lit[in] # Backslash
        BY <1>2 DEF CopyPlain
    <2>2. IsSequence(bytes) /\ Len(bytes) = 1
        BY Tuples, Zenon
    <2>3. \A E : IsEscapes(E) => in \notin E
        BY <2>1 DEF IsEscapes
    <2>. HIDE DEF bytes
    <2>4. ASSUME NEW E, IsEscapes(E)
          PROVE  Before(E, in + 1) + Len(bytes) <= Before(E, in) + 1
        BY <1>0, <1>1, <2>2, <2>3, <2>4
    <2>5. in + 1 <= end + 1
        BY <1>0
    <2>. QED  BY <1>0, <2>1, <2>2, <2>4, <2>5, TakeInv
<1>3. CASE CopyEscape
    <2>. DEFINE bytes == <<Unescaped(lit[in + 1])>>
    <2>1. Take(2, bytes)
        BY <1>3 DEF CopyEscape
    <2>2. IsSequence(bytes) /\ Len(bytes) = 1
        BY Tuples, Zenon
    <2>. HIDE DEF bytes
    <2>3. ASSUME NEW E, IsEscapes(E)
          PROVE  Before(E, in + 2) + Len(bytes) <= Before(E, in) + 2
        <3>1. /\ Before(E, in + 2) <= Before(E, in) + 1
              /\ Before(E, in) \in Nat /\ Before(E, in + 2) \in Nat
            BY <1>0, <1>1, <2>3
        <3>. QED  BY <2>2, <3>1
    <2>4. in + 2 <= end + 1
        BY <1>0
    <2>. QED  BY <1>0, <2>1, <2>2, <2>3, <2>4, TakeInv
<1>4. CASE CopySingle
    <2>. DEFINE bytes == Utf8(Unit(in))
    <2>1. Take(6, bytes) /\ end - in >= 6
        BY <1>4 DEF CopySingle, Single
    <2>2. IsSequence(bytes) /\ Len(bytes) \in Nat /\ Len(bytes) <= 3
        <3>1. Unit(in) \in Nat /\ Unit(in) < 65536
            BY <1>0, UnitType, SMT
        <3>. QED  BY <3>1, Utf8Length, SMT
    <2>. HIDE DEF bytes
    <2>3. ASSUME NEW E, IsEscapes(E)
          PROVE  Before(E, in + 6) + Len(bytes) <= Before(E, in) + 6
        <3>1. /\ Before(E, in + 6) <= Before(E, in) + 3
              /\ Before(E, in) \in Nat /\ Before(E, in + 6) \in Nat
            BY <1>0, <1>1, <2>3
        <3>. DEFINE a == Before(E, in)  b == Before(E, in + 6)  l == Len(bytes)
        <3>2. a \in Nat /\ b \in Nat /\ l \in Nat /\ b <= a + 3 /\ l <= 3
            BY <2>2, <3>1, Zenon
        <3>. HIDE DEF a, b, l
        <3>3. b + l <= a + 6
            BY <3>2
        <3>. QED  BY <3>3 DEF a, b, l
    <2>4. in + 6 <= end + 1
        BY <1>0, <2>1
    <2>. QED  BY <1>0, <2>1, <2>2, <2>3, <2>4, TakeInv
<1>5. CASE CopyPair
    <2>. DEFINE bytes == Utf8(CodePointOfPair(in))
    <2>1. Take(12, bytes) /\ end - in >= 12
        BY <1>5 DEF CopyPair, Pair
    <2>2. IsSequence(bytes) /\ Len(bytes) \in Nat /\ Len(bytes) <= 4
        <3>1. Unit(in) \in Nat /\ Unit(in + 6) \in Nat
            BY <1>0, UnitType, SMT
        <3>2. CodePointOfPair(in) \in Nat
            BY <3>1, SMT DEF CodePointOfPair
        <3>. QED  BY <3>2, Utf8Length, SMT
    <2>. HIDE DEF bytes
    <2>3. ASSUME NEW E, IsEscapes(E)
          PROVE  Before(E, in + 12) + Len(bytes) <= Before(E, in) + 12
        <3>1. in + 6 \in Nat /\ (in + 6) + 6 = in + 12 /\ in + 12 \in Nat
            BY <1>0
        <3>2. /\ Before(E, in + 6) <= Before(E, in) + 3
              /\ Before(E, (in + 6) + 6) <= Before(E, in + 6) + 3
              /\ Before(E, in) \in Nat /\ Before(E, in + 6) \in Nat
              /\ Before(E, in + 12) \in Nat
            BY <1>0, <1>1, <2>3, <3>1
        <3>. DEFINE a == Before(E, in)  b == Before(E, in + 6)
                    c == Before(E, in + 12)  l == Len(bytes)
        <3>3. /\ a \in Nat /\ b \in Nat /\ c \in Nat /\ l \in Nat
              /\ b <= a + 3 /\ c <= b + 3 /\ l <= 4
            BY <2>2, <3>1, <3>2, Zenon
        <3>. HIDE DEF a, b, c, l
        <3>4. c + l <= a + 12
            BY <3>3
        <3>. QED  BY <3>4 DEF a, b, c, l
    <2>4. in + 12 <= end + 1
        BY <1>0, <2>1
    <2>. QED  BY <1>0, <2>1, <2>2, <2>3, <2>4, TakeInv
<1>. QED  BY <1>2, <1>3, <1>4, <1>5

LEMMA StringStepInv ==
    ASSUME StringInv, StringStep
    PROVE  StringInv'
<1>1. CASE Unterminated \/ OutputFails \/ CopyFails
    BY <1>1 DEF Unterminated, OutputFails, CopyFails, StringInv, StringTyped
<1>2. CASE CopyEnds
    <2>1. /\ phase = "copy" /\ in >= end /\ phase' = "parsed"
          /\ UNCHANGED <<lit, end, skipped, in, out>>
        BY <1>2 DEF CopyEnds
    <2>2. PICK E : IsEscapes(E) /\ CopiedSoFar(E)
        BY <2>1 DEF StringInv
    <2>3. IsEscapes(E)' /\ CopiedSoFar(E)'
        BY <2>1, <2>2 DEF IsEscapes, CopiedSoFar, Before
    <2>. QED  BY <2>1, <2>3 DEF StringInv, StringTyped
<1>. QED  BY <1>1, <1>2, ScanInv, AllocateInv, CopyInv DEF StringStep

\* A string starts, is forgotten, or is left alone.
LEMMA StringSet ==
    ASSUME StringInv,
           (\E l : BeginString(l)) \/ StringIdle \/ UNCHANGED stringVars
    PROVE  StringInv'
<1>0. IsSequence(<<>>)
    BY DEF IsSequence
<1>1. CASE \E l : BeginString(l)
    <2>1. /\ phase' = "scan" /\ end' = 1 /\ skipped' = 0 /\ in' = 1 /\ out' = <<>>
        BY <1>1 DEF BeginString
    <2>2. IsEscapes({})'
        BY <2>1, FS_EmptySet DEF IsEscapes
    <2>. QED  BY <1>0, <2>1, <2>2 DEF StringInv, StringTyped, CopiedSoFar
<1>2. CASE StringIdle
    BY <1>0, <1>2 DEF StringIdle, StringInv, StringTyped
<1>3. CASE UNCHANGED stringVars
    BY <1>3 DEF stringVars, StringInv, StringTyped, IsEscapes, CopiedSoFar, Before
<1>. QED  BY <1>1, <1>2, <1>3

\* What the second loop has written fits, whatever it took for an escape.
LEMMA CopiedFits == StringInv => StringFits
<1>. SUFFICES ASSUME StringInv, phase \in {"copy", "parsed"}
              PROVE  Len(out) <= Allocated /\ in <= end + 1
    BY DEF StringFits
<1>1. PICK E : IsEscapes(E) /\ CopiedSoFar(E)
    BY DEF StringInv
<1>2. /\ in <= end + 1 /\ Len(out) + Before(E, in) <= in - 1
      /\ in \in Nat /\ end \in Nat /\ Len(out) \in Nat /\ skipped \in Nat
    <2>1. IsSequence(out)
        BY DEF StringInv, StringTyped
    <2>2. Len(out) \in Nat
        BY <2>1 DEF IsSequence
    <2>. QED  BY <1>1, <2>2 DEF CopiedSoFar, StringInv, StringTyped
<1>3. E \in SUBSET Nat /\ IsFiniteSet(E) /\ E \in SUBSET (1..end - 1) /\ end - 1 \in Nat
    BY <1>1, EscapesFinite DEF StringInv
<1>4. Before(E, in) \in Nat
    BY <1>2, <1>3, BeforeType
<1>5. Cardinality(E) = skipped
    BY <1>1 DEF IsEscapes
<1>6. CASE in <= end
    <2>. DEFINE n == end - 1
    <2>1. n \in Nat /\ E \in SUBSET (1..n) /\ in <= n + 1
        BY <1>2, <1>3, <1>6
    <2>. HIDE DEF n
    <2>2. Cardinality(E) <= Before(E, in) + (n + 1 - in)
        BY <1>2, <2>1, BeforeEnd
    <2>. QED  BY <1>2, <1>4, <1>5, <2>2 DEF Allocated, n
<1>7. CASE in = end + 1
    <2>1. \A e \in E : e < in
        <3>. SUFFICES ASSUME NEW e \in E PROVE e < in
            OBVIOUS
        <3>1. e \in 1..end - 1
            BY <1>3
        <3>. QED  BY <1>2, <1>7, <3>1
    <2>2. {e \in E : e < in} = E
        BY <2>1, Zenon
    <2>3. Before(E, in) = skipped
        BY <1>5, <2>2 DEF Before
    <2>. QED  BY <1>2, <1>7, <2>3 DEF Allocated
<1>. QED  BY <1>2, <1>6, <1>7

-----------------------------------------------------------------------------
(***************************************************************************)
(* The calls of libopenaic                                                 *)
(***************************************************************************)

LEMMA StringMoves ==
    ASSUME [Next]_vars
    PROVE  \/ StringStep
           \/ \E l : BeginString(l)
           \/ StringIdle
           \/ UNCHANGED stringVars
<1>. USE DEF vars, parserVars
<1>1. CASE Call \/ DispatchAnswers \/ SchemeAnswers \/ NothingToParse
           \/ CopyParams \/ ParamsNotCopied \/ ParseEnds
    BY <1>1 DEF Call, DispatchAnswers, SchemeAnswers, NothingToParse,
                CopyParams, ParamsNotCopied, ParseEnds
<1>2. CASE NoTree \/ ReturnTree \/ MaxConcurrent
           \/ StartPrint \/ PrintGoesOn \/ PrintEnds \/ FromJsonEnds
    BY <1>2 DEF NoTree, ReturnTree, MaxConcurrent, StartPrint, PrintGoesOn,
                PrintEnds, FromJsonEnds
<1>3. CASE CallerFrees \/ ComesBack
    BY <1>3 DEF CallerFrees, ComesBack, CallerHasFreed, ParserForgotten
<1>4. CASE Parse
    <2>1. CASE NewRoot \/ RootFails \/ RootParsed \/ RootDeleted \/ Unwind
        BY <2>1 DEF NewRoot, RootFails, RootParsed, RootDeleted, Unwind, OutOfMemory
    <2>2. CASE Literal \/ parse_number \/ StringValue \/ EmptyContainer
               \/ OpenContainer \/ NoValue
        BY <2>2 DEF Literal, parse_number, StringValue, EmptyContainer,
                    OpenContainer, NoValue, Parsed, ParseFails
    <2>3. CASE ArrayElement \/ ObjectMember \/ ElementFails \/ Comma
               \/ CloseContainer \/ NotClosed
        BY <2>3 DEF ArrayElement, ObjectMember, ElementFails, Comma,
                    CloseContainer, NotClosed, OutOfMemory, ParseFails
    <2>4. CASE StringParsed \/ NameParsed \/ StringFailed \/ InString
        BY <2>4 DEF StringParsed, NameParsed, StringFailed, InString
    <2>. QED  BY <1>4, <2>1, <2>2, <2>3, <2>4 DEF Parse, ParserStep
<1>5. CASE UNCHANGED vars
    BY <1>5
<1>. QED  BY <1>1, <1>2, <1>3, <1>4, <1>5 DEF Next, CallStep

\* For literals of any length, with escapes in any place, the string that
\* parse_string decodes fits the block it was given and its second loop reads
\* nothing behind the closing quote.
THEOREM DecodedFits == Spec => []StringFits
<1>1. Init => StringInv
    <2>. SUFFICES ASSUME Init PROVE StringInv
        OBVIOUS
    <2>1. IsSequence(<<>>)
        BY DEF IsSequence
    <2>. QED  BY <2>1 DEF Init, ParserInit, StringInit, StringInv, StringTyped
<1>2. StringInv /\ [Next]_vars => StringInv'
    BY StringMoves, StringStepInv, StringSet
<1>. QED  BY <1>1, <1>2, CopiedFits, PTL DEF Spec

-----------------------------------------------------------------------------
(***************************************************************************)
(* Trees of blocks                                                         *)
(*                                                                         *)
(* H is a heap, T the set of its roots: the blocks that a variable points  *)
(* to and no item.  P has the lists that are being made, each with its     *)
(* head and its tail.                                                      *)
(***************************************************************************)

Fields == {"child", "next", "string", "valuestring"}

ItemFields == Fields \cup {"block", "type", "prev", "valuedouble"}

Items(H) == {p \in DOMAIN H : H[p].block = "item"}

\* Lists are of items, names and values of bytes.
Typed(H) ==
    /\ IsFiniteSet(DOMAIN H)
    /\ DOMAIN H \subseteq Nat \ {0}
    /\ \A p \in DOMAIN H : H[p].block \in {"item", "bytes"}
    /\ \A p \in Items(H) :
          /\ DOMAIN H[p] = ItemFields
          /\ \A f \in {"child", "next"} : H[p][f] = Null \/ H[p][f] \in Items(H)
          /\ \A f \in {"string", "valuestring"} :
                H[p][f] = Null \/ H[p][f] \in DOMAIN H \ Items(H)

\* No block has two owners, and a root has none.
Exclusive(H, T) ==
    /\ \A p, q \in Items(H) : \A f, g \in Fields :
          H[p][f] # Null /\ H[p][f] = H[q][g] => p = q /\ f = g
    /\ \A p \in Items(H) : \A f \in Fields : H[p][f] \notin T

\* What an item of S owns is in S.
Keeps(H, S) ==
    \A p \in Items(H) : \A f \in Fields :
        p \in S /\ H[p][f] # Null => H[p][f] \in S

\* Every block can be reached from a root.
Reached(H, T) ==
    \A S : T \subseteq S /\ Keeps(H, S) => DOMAIN H \subseteq S

Forest(H, T) ==
    /\ Typed(H)
    /\ T \subseteq DOMAIN H
    /\ Exclusive(H, T)
    /\ Reached(H, T)

\* D is what is freed with the root t.
Freed(H, D, t) ==
    /\ t \in D
    /\ D \subseteq DOMAIN H
    /\ Keeps(H, D)
    /\ \A r \in D : r = t \/ \E p \in Items(H) : \E f \in Fields :
                                p \in D /\ H[p][f] = r

Rest(H, D) == [q \in DOMAIN H \ D |-> H[q]]

LEMMA PointsInside ==
    ASSUME NEW H, Typed(H), NEW p \in Items(H), NEW f \in Fields, H[p][f] # Null
    PROVE  H[p][f] \in DOMAIN H
BY DEF Typed, Fields, Items

\* What is not freed owns nothing that is.
LEMMA NotFreed ==
    ASSUME NEW H, NEW T, Exclusive(H, T), NEW t \in T, NEW D, Freed(H, D, t)
    PROVE  /\ \A x \in T : x # t => x \notin D
           /\ \A p \in Items(H) : \A f \in Fields :
                 p \notin D /\ H[p][f] # Null => H[p][f] \notin D
<1>1. ASSUME NEW x \in T, x # t, x \in D PROVE FALSE
    <2>1. PICK p \in Items(H), f \in Fields : H[p][f] = x
        BY <1>1, Zenon DEF Freed
    <2>. QED  BY <2>1, Zenon DEF Exclusive
<1>2. ASSUME NEW p \in Items(H), NEW f \in Fields, p \notin D, H[p][f] # Null,
             H[p][f] \in D
      PROVE  FALSE
    <2>1. H[p][f] # t
        BY Zenon DEF Exclusive
    <2>2. PICK q \in Items(H), g \in Fields : q \in D /\ H[q][g] = H[p][f]
        BY <1>2, <2>1, Zenon DEF Freed
    <2>3. q = p
        BY <1>2, <2>2 DEF Exclusive
    <2>. QED  BY <1>2, <2>2, <2>3
<1>. QED  BY <1>1, <1>2, Zenon

LEMMA RestItems ==
    ASSUME NEW H, NEW D
    PROVE  /\ DOMAIN Rest(H, D) = DOMAIN H \ D
           /\ \A p \in DOMAIN H \ D : Rest(H, D)[p] = H[p]
           /\ Items(Rest(H, D)) = Items(H) \ D
BY DEF Rest, Items

\* Freeing a root with all that it owns.
LEMMA FreedSound ==
    ASSUME NEW H, NEW T, Forest(H, T), NEW t \in T, NEW D, Freed(H, D, t)
    PROVE  Forest(Rest(H, D), T \ {t})
<1>. DEFINE G == Rest(H, D)
<1>0. /\ DOMAIN G = DOMAIN H \ D
      /\ \A p \in DOMAIN H \ D : G[p] = H[p]
      /\ Items(G) = Items(H) \ D
      /\ \A p \in Items(G) : G[p] = H[p] /\ p \in Items(H) /\ p \notin D
    <2>1. /\ DOMAIN G = DOMAIN H \ D
          /\ \A p \in DOMAIN H \ D : G[p] = H[p]
          /\ Items(G) = Items(H) \ D
        BY RestItems
    <2>2. Items(H) \subseteq DOMAIN H
        BY DEF Items
    <2>. HIDE DEF G
    <2>. QED  BY <2>1, <2>2
<1>1. /\ \A x \in T : x # t => x \notin D
      /\ \A p \in Items(H) : \A f \in Fields :
            p \notin D /\ H[p][f] # Null => H[p][f] \notin D
    BY NotFreed DEF Forest
<1>. HIDE DEF G
<1>2. Typed(G)
    <2>1. IsFiniteSet(DOMAIN G) /\ DOMAIN G \subseteq Nat \ {0}
        BY <1>0, FS_Subset DEF Forest, Typed
    <2>2. \A p \in DOMAIN G : G[p].block \in {"item", "bytes"}
        BY <1>0 DEF Forest, Typed
    <2>3. ASSUME NEW p \in Items(G)
          PROVE  /\ DOMAIN G[p] = ItemFields
                 /\ \A f \in {"child", "next"} :
                       G[p][f] = Null \/ G[p][f] \in Items(G)
                 /\ \A f \in {"string", "valuestring"} :
                       G[p][f] = Null \/ G[p][f] \in DOMAIN G \ Items(G)
        <3>1. G[p] = H[p] /\ p \in Items(H) /\ p \notin D
            BY <1>0
        <3>2. \A f \in Fields : H[p][f] # Null => H[p][f] \notin D
            BY <1>1, <3>1
        <3>3. /\ DOMAIN H[p] = ItemFields
              /\ \A f \in {"child", "next"} :
                    H[p][f] = Null \/ H[p][f] \in Items(H)
              /\ \A f \in {"string", "valuestring"} :
                    H[p][f] = Null \/ H[p][f] \in DOMAIN H \ Items(H)
            BY <3>1 DEF Forest, Typed
        <3>. QED  BY <1>0, <3>1, <3>2, <3>3 DEF Fields
    <2>. QED  BY <2>1, <2>2, <2>3 DEF Typed
<1>3. T \ {t} \subseteq DOMAIN G
    BY <1>0, <1>1 DEF Forest
<1>4. Exclusive(G, T \ {t})
    <2>1. /\ \A p, q \in Items(H) : \A f, g \in Fields :
                H[p][f] # Null /\ H[p][f] = H[q][g] => p = q /\ f = g
          /\ \A p \in Items(H) : \A f \in Fields : H[p][f] \notin T
        BY Zenon DEF Forest, Exclusive
    <2>2. \A p \in Items(G) : \A f \in Fields : G[p][f] \notin T \ {t}
        BY <1>0, <2>1, Zenon
    <2>3. \A p, q \in Items(G) : \A f, g \in Fields :
                G[p][f] # Null /\ G[p][f] = G[q][g] => p = q /\ f = g
        BY <1>0, <2>1
    <2>. QED  BY <2>2, <2>3, Zenon DEF Exclusive
<1>5. ASSUME NEW S, T \ {t} \subseteq S, Keeps(G, S)
      PROVE  DOMAIN G \subseteq S
    <2>. DEFINE U == S \cup D
    <2>1. T \subseteq U
        BY <1>5 DEF Freed
    <2>2. ASSUME NEW p \in Items(H), NEW f \in Fields, p \in U, H[p][f] # Null
          PROVE  H[p][f] \in U
        <3>1. CASE p \in D
            BY <2>2, <3>1 DEF Freed, Keeps
        <3>2. CASE p \notin D
            <4>1. p \in Items(G) /\ G[p] = H[p] /\ p \in S
                BY <1>0, <2>2, <3>2 DEF Items
            <4>. QED  BY <1>5, <2>2, <4>1 DEF Keeps
        <3>. QED  BY <3>1, <3>2
    <2>3. Keeps(H, U)
        BY <2>2 DEF Keeps
    <2>4. DOMAIN H \subseteq U
        BY <2>1, <2>3 DEF Forest, Reached
    <2>. QED  BY <1>0, <2>4
<1>. QED  BY <1>2, <1>3, <1>4, <1>5 DEF Forest, Reached, G
Added(H, n, block) == [q \in DOMAIN H \cup {n} |-> IF q = n THEN block ELSE H[q]]

\* A block that is handed out: bytes, or an item that owns nothing.
IsNew(block) ==
    \/ block.block = "bytes"
    \/ /\ block.block = "item"
       /\ DOMAIN block = ItemFields
       /\ \A f \in Fields : block[f] = Null

\* A new block is a root of its own.
LEMMA AddedSound ==
    ASSUME NEW H, NEW T, Forest(H, T), NEW n \in Nat \ {0}, n \notin DOMAIN H,
           NEW block, IsNew(block)
    PROVE  Forest(Added(H, n, block), T \cup {n})
<1>0. PICK G : G = Added(H, n, block)
    OBVIOUS
<1>1. /\ DOMAIN G = DOMAIN H \cup {n}
      /\ G[n] = block
      /\ \A p \in DOMAIN H : G[p] = H[p]
      /\ Items(G) = Items(H) \cup (IF block.block = "item" THEN {n} ELSE {})
    BY <1>0 DEF Added, Items
<1>2. /\ \A p \in Items(H) : G[p] = H[p] /\ p \in Items(G) /\ p # n /\ p \in DOMAIN H
      /\ \A p \in Items(G) : p = n \/ p \in Items(H)
    BY <1>1 DEF Items
<1>3. n \in Items(G) => /\ \A f \in Fields : G[n][f] = Null
                        /\ DOMAIN G[n] = ItemFields
    BY <1>1 DEF Items, IsNew
<1>4. \A p \in Items(G) : \A f \in Fields : G[p][f] # Null =>
            p \in Items(H) /\ G[p] = H[p] /\ H[p][f] \in DOMAIN H
    BY <1>2, <1>3, PointsInside DEF Forest
<1>5. Typed(G)
    <2>1. IsFiniteSet(DOMAIN G) /\ DOMAIN G \subseteq Nat \ {0}
        BY <1>1, FS_AddElement DEF Forest, Typed
    <2>2. \A p \in DOMAIN G : G[p].block \in {"item", "bytes"}
        BY <1>1 DEF Forest, Typed, IsNew
    <2>3. ASSUME NEW p \in Items(G)
          PROVE  /\ DOMAIN G[p] = ItemFields
                 /\ \A f \in {"child", "next"} :
                       G[p][f] = Null \/ G[p][f] \in Items(G)
                 /\ \A f \in {"string", "valuestring"} :
                       G[p][f] = Null \/ G[p][f] \in DOMAIN G \ Items(G)
        <3>1. CASE p = n
            BY <1>3, <3>1 DEF Fields
        <3>2. CASE p \in Items(H)
            <4>1. G[p] = H[p]
                BY <1>2, <3>2
            <4>2. /\ DOMAIN H[p] = ItemFields
                  /\ \A f \in {"child", "next"} :
                        H[p][f] = Null \/ H[p][f] \in Items(H)
                  /\ \A f \in {"string", "valuestring"} :
                        H[p][f] = Null \/ H[p][f] \in DOMAIN H \ Items(H)
                BY <3>2 DEF Forest, Typed
            <4>. QED  BY <1>1, <1>2, <4>1, <4>2
        <3>. QED  BY <1>2, <3>1, <3>2
    <2>. QED  BY <2>1, <2>2, <2>3 DEF Typed
<1>6. T \cup {n} \subseteq DOMAIN G
    BY <1>1 DEF Forest
<1>7. Exclusive(G, T \cup {n})
    <2>1. /\ \A p, q \in Items(H) : \A f, g \in Fields :
                H[p][f] # Null /\ H[p][f] = H[q][g] => p = q /\ f = g
          /\ \A p \in Items(H) : \A f \in Fields : H[p][f] \notin T
        BY Zenon DEF Forest, Exclusive
    <2>0. Null \notin T /\ n # Null
        BY DEF Forest, Typed, Null
    <2>2. \A p \in Items(G) : \A f \in Fields : G[p][f] \notin T \cup {n}
        <3>. SUFFICES ASSUME NEW p \in Items(G), NEW f \in Fields
                      PROVE  G[p][f] \notin T \cup {n}
            BY Zenon
        <3>1. CASE G[p][f] = Null
            BY <2>0, <3>1
        <3>2. CASE G[p][f] # Null
            BY <1>4, <2>1, <3>2
        <3>. QED  BY <3>1, <3>2
    <2>3. ASSUME NEW p \in Items(G), NEW q \in Items(G), NEW f \in Fields,
                 NEW g \in Fields, G[p][f] # Null, G[p][f] = G[q][g]
          PROVE  p = q /\ f = g
        BY <1>4, <2>1, <2>3
    <2>4. \A p, q \in Items(G) : \A f, g \in Fields :
                G[p][f] # Null /\ G[p][f] = G[q][g] => p = q /\ f = g
        BY <2>3
    <2>. QED  BY <2>2, <2>4, Zenon DEF Exclusive
<1>8. ASSUME NEW S, T \cup {n} \subseteq S, Keeps(G, S)
      PROVE  DOMAIN G \subseteq S
    <2>1. Keeps(H, S)
        BY <1>2, <1>8, Zenon DEF Keeps
    <2>2. DOMAIN H \subseteq S
        BY <1>8, <2>1 DEF Forest, Reached
    <2>. QED  BY <1>1, <1>8, <2>2
<1>. QED  BY <1>0, <1>5, <1>6, <1>7, <1>8 DEF Forest, Reached

\* G has the blocks of H, with other contents.
Shaped(H, G) ==
    /\ DOMAIN G = DOMAIN H
    /\ \A p \in DOMAIN H : G[p].block = H[p].block
    /\ \A p \in Items(H) : DOMAIN G[p] = DOMAIN H[p]

LEMMA ShapedItems ==
    ASSUME NEW H, NEW G, Shaped(H, G) PROVE Items(G) = Items(H)
BY DEF Shaped, Items

LEMMA SameSound ==
    ASSUME NEW H, NEW T, Forest(H, T), NEW G, Shaped(H, G),
           \A p \in Items(H) : \A f \in Fields : G[p][f] = H[p][f]
    PROVE  Forest(G, T)
<1>1. Items(G) = Items(H) /\ DOMAIN G = DOMAIN H
    BY ShapedItems DEF Shaped
<1>2. Typed(G)
    <2>1. \A p \in DOMAIN G : G[p].block \in {"item", "bytes"}
        BY <1>1 DEF Forest, Typed, Shaped
    <2>2. \A p \in Items(G) : DOMAIN G[p] = ItemFields
        BY <1>1 DEF Forest, Typed, Shaped
    <2>3. \A p \in Items(G) : \A f \in Fields : G[p][f] = H[p][f]
        BY <1>1
    <2>. QED  BY <1>1, <2>1, <2>2, <2>3 DEF Forest, Typed, Fields
<1>3. Exclusive(G, T)
    <2>1. /\ \A p, q \in Items(H) : \A f, g \in Fields :
                H[p][f] # Null /\ H[p][f] = H[q][g] => p = q /\ f = g
          /\ \A p \in Items(H) : \A f \in Fields : H[p][f] \notin T
        BY Zenon DEF Forest, Exclusive
    <2>2. /\ \A p, q \in Items(H) : \A f, g \in Fields :
                G[p][f] # Null /\ G[p][f] = G[q][g] => p = q /\ f = g
          /\ \A p \in Items(H) : \A f \in Fields : G[p][f] \notin T
        BY <2>1
    <2>. QED  BY <1>1, <2>2, Zenon DEF Exclusive
<1>4. ASSUME NEW S, T \subseteq S, Keeps(G, S) PROVE DOMAIN H \subseteq S
    <2>1. Keeps(H, S)
        BY <1>1, <1>4 DEF Keeps
    <2>. QED  BY <1>4, <2>1 DEF Forest, Reached
<1>. QED  BY <1>1, <1>2, <1>3, <1>4 DEF Forest, Reached

\* G is H where the field g of a points to t.
Attached(H, G, a, g, t) ==
    \A p \in Items(H) : \A f \in Fields :
        G[p][f] = IF p = a /\ f = g THEN t ELSE H[p][f]

\* A root becomes the property of an item that it does not own.
LEMMA AttachSound ==
    ASSUME NEW H, NEW T, Forest(H, T), NEW t \in T, NEW D, Freed(H, D, t),
           NEW a \in Items(H), a \notin D, NEW g \in Fields, H[a][g] = Null,
           (t \in Items(H)) <=> (g \in {"child", "next"}),
           NEW G, Shaped(H, G), Attached(H, G, a, g, t)
    PROVE  Forest(G, T \ {t})
<1>. USE DEF Attached
<1>1. Items(G) = Items(H) /\ DOMAIN G = DOMAIN H
    BY ShapedItems DEF Shaped
<1>0. t \in DOMAIN H /\ t # Null
    BY DEF Forest, Typed, Null
<1>2. Typed(G)
    <2>1. \A p \in DOMAIN G : G[p].block \in {"item", "bytes"}
        BY <1>1 DEF Forest, Typed, Shaped
    <2>2. \A p \in Items(G) : DOMAIN G[p] = ItemFields
        BY <1>1 DEF Forest, Typed, Shaped
    <2>3. \A p \in Items(G) : \A f \in {"child", "next"} :
                G[p][f] = Null \/ G[p][f] \in Items(G)
        BY <1>1 DEF Forest, Typed, Fields
    <2>4. \A p \in Items(G) : \A f \in {"string", "valuestring"} :
                G[p][f] = Null \/ G[p][f] \in DOMAIN G \ Items(G)
        <3>. SUFFICES ASSUME NEW p \in Items(H), NEW f \in {"string", "valuestring"}
                      PROVE  G[p][f] = Null \/ G[p][f] \in DOMAIN H \ Items(H)
            BY <1>1
        <3>1. f \in Fields /\ f \notin {"child", "next"}
            BY DEF Fields
        <3>2. H[p][f] = Null \/ H[p][f] \in DOMAIN H \ Items(H)
            BY DEF Forest, Typed
        <3>. QED  BY <1>0, <3>1, <3>2
    <2>. QED  BY <1>1, <2>1, <2>2, <2>3, <2>4, Zenon DEF Forest, Typed
<1>3. Exclusive(G, T \ {t})
    <2>1. /\ \A p, q \in Items(H) : \A f, h \in Fields :
                H[p][f] # Null /\ H[p][f] = H[q][h] => p = q /\ f = h
          /\ \A p \in Items(H) : \A f \in Fields : H[p][f] \notin T
        BY Zenon DEF Forest, Exclusive
    <2>2. \A p \in Items(H) : \A f \in Fields : G[p][f] \notin T \ {t}
        BY <2>1
    <2>3. ASSUME NEW p \in Items(H), NEW q \in Items(H), NEW f \in Fields,
                 NEW h \in Fields, G[p][f] # Null, G[p][f] = G[q][h]
          PROVE  p = q /\ f = h
        <3>1. /\ G[p][f] = IF p = a /\ f = g THEN t ELSE H[p][f]
              /\ G[q][h] = IF q = a /\ h = g THEN t ELSE H[q][h]
            OBVIOUS
        <3>2. H[p][f] # t /\ H[q][h] # t
            BY <2>1
        <3>3. CASE p = a /\ f = g
            <4>1. q = a /\ h = g
                BY <2>3, <3>1, <3>2, <3>3
            <4>. QED  BY <3>3, <4>1
        <3>4. CASE ~(p = a /\ f = g)
            <4>1. G[p][f] = H[p][f]
                BY <3>1, <3>4
            <4>2. G[q][h] = H[q][h]
                BY <2>3, <3>1, <3>2, <4>1
            <4>3. H[p][f] # Null /\ H[p][f] = H[q][h]
                BY <2>3, <4>1, <4>2
            <4>. QED  BY <2>1, <4>3
        <3>. QED  BY <3>3, <3>4
    <2>4. \A p, q \in Items(H) : \A f, h \in Fields :
                G[p][f] # Null /\ G[p][f] = G[q][h] => p = q /\ f = h
        BY <2>3
    <2>. QED  BY <1>1, <2>2, <2>4 DEF Exclusive
<1>4. ASSUME NEW S, T \ {t} \subseteq S, Keeps(G, S) PROVE DOMAIN H \subseteq S
    <2>1. ASSUME NEW p \in Items(H), NEW f \in Fields, p \in S, H[p][f] # Null
          PROVE  H[p][f] \in S
        <3>1. G[p][f] = H[p][f]
            BY <2>1
        <3>. QED  BY <1>1, <1>4, <2>1, <3>1 DEF Keeps
    <2>2. CASE t \in S
        <3>1. T \subseteq S /\ Keeps(H, S)
            BY <1>4, <2>1, <2>2 DEF Keeps
        <3>. QED  BY <3>1 DEF Forest, Reached
    <2>3. CASE t \notin S
        <3>1. a \notin S
            <4>1. G[a][g] = t
                OBVIOUS
            <4>. QED  BY <1>0, <1>1, <1>4, <2>3, <4>1 DEF Keeps
        <3>2. T \subseteq S \cup D
            BY <1>4 DEF Freed
        <3>3. Keeps(H, S \cup D)
            BY <2>1 DEF Keeps, Freed
        <3>4. DOMAIN H \subseteq S \cup D
            BY <3>2, <3>3 DEF Forest, Reached
        <3>5. a \in DOMAIN H
            BY DEF Items
        <3>. QED  BY <3>1, <3>4, <3>5
    <2>. QED  BY <2>2, <2>3
<1>. QED  BY <1>1, <1>2, <1>3, <1>4 DEF Forest, Reached

-----------------------------------------------------------------------------
(***************************************************************************)
(* Lists of items                                                          *)
(***************************************************************************)

\* What follows an item of S in its list is in S.
Follows(H, S) ==
    \A p \in Items(H) : p \in S /\ H[p].next # Null => H[p].next \in S

\* The list that starts at h comes to t.
Leads(H, h, t) == \A S : h \in S /\ Follows(H, S) => t \in S

\* The list of a container is closed: the head's prev is the tail.
ListIsClosed(H, P, c) ==
    /\ H[c].prev \in Items(H)
    /\ H[H[c].prev].next = Null
    /\ Leads(H, c, H[c].prev)
    /\ \A x \in P : x[2] # H[c].prev

Links(H, P) ==
    \A p \in Items(H) :
        /\ H[p].next # Null => H[H[p].next].prev = p
        /\ H[p].child # Null => ListIsClosed(H, P, H[p].child)

\* The lists that are being made.
Lists(H, T, P) ==
    /\ \A x \in P :
          /\ x[1] \in T /\ x[1] \in Items(H)
          /\ x[2] \in Items(H) /\ H[x[2]].next = Null
          /\ Leads(H, x[1], x[2])
    /\ \A x, y \in P : x[1] = y[1] \/ x[2] = y[2] => x = y

Sound(H, T, P) == Forest(H, T) /\ Links(H, P) /\ Lists(H, T, P)

LEMMA FieldTypes ==
    ASSUME NEW H, Typed(H), NEW p \in Items(H)
    PROVE  /\ p \in DOMAIN H /\ p # Null
           /\ H[p].child = Null \/ H[p].child \in Items(H)
           /\ H[p].next = Null \/ H[p].next \in Items(H)
           /\ H[p].string = Null \/ H[p].string \in DOMAIN H \ Items(H)
           /\ H[p].valuestring = Null \/ H[p].valuestring \in DOMAIN H \ Items(H)
<1>1. p \in DOMAIN H
    BY DEF Items
<1>. QED  BY <1>1 DEF Typed, Null

\* A list that is cut off from what is freed is not freed in part.
LEMMA FreedLeads ==
    ASSUME NEW H, NEW T, Forest(H, T), NEW t \in T, NEW D, Freed(H, D, t),
           NEW h, NEW e, Leads(H, h, e), h \notin D, h \in Items(H)
    PROVE  e \notin D /\ Leads(Rest(H, D), h, e)
<1>1. PICK G : G = Rest(H, D)
    OBVIOUS
<1>2. /\ Items(G) = Items(H) \ D
      /\ \A p \in Items(H) : p \notin D => G[p] = H[p]
    BY <1>1 DEF Rest, Items
<1>3. \A p \in Items(H) : p \notin D /\ H[p].next # Null => H[p].next \notin D
    <2>1. "next" \in Fields
        BY DEF Fields
    <2>. QED  BY <2>1, NotFreed DEF Forest
<1>4. e \notin D
    <2>. DEFINE S == Items(H) \ D
    <2>1. Follows(H, S)
        BY <1>3, FieldTypes DEF Follows, Forest
    <2>2. e \in S
        BY <2>1 DEF Leads
    <2>. QED  BY <2>2
<1>5. ASSUME NEW S, h \in S, Follows(G, S) PROVE e \in S
    <2>. DEFINE U == S \cup D
    <2>1. \A p \in Items(H) : p \in D /\ H[p].next # Null => H[p].next \in D
        BY DEF Freed, Keeps, Fields
    <2>2. \A p \in Items(H) : p \notin D /\ p \in S /\ H[p].next # Null =>
                H[p].next \in S
        BY <1>2, <1>5 DEF Follows
    <2>3. Follows(H, U)
        BY <2>1, <2>2 DEF Follows
    <2>4. e \in U
        BY <1>5, <2>3 DEF Leads
    <2>. QED  BY <1>4, <2>4
<1>6. Leads(G, h, e)
    BY <1>5 DEF Leads
<1>. QED  BY <1>1, <1>4, <1>6

LEMMA FreedLists ==
    ASSUME NEW H, NEW T, NEW P, Sound(H, T, P), NEW t \in T, NEW D,
           Freed(H, D, t), \A x \in P : x[1] # t
    PROVE  Sound(Rest(H, D), T \ {t}, P)
<1>1. PICK G : G = Rest(H, D)
    OBVIOUS
<1>2. /\ Items(G) = Items(H) \ D
      /\ \A p \in Items(H) : p \notin D => G[p] = H[p]
    BY <1>1 DEF Rest, Items
<1>3. \A h, e : h \notin D /\ h \in Items(H) /\ Leads(H, h, e) =>
            e \notin D /\ Leads(G, h, e)
    BY <1>1, FreedLeads DEF Sound
<1>4. /\ \A x \in T : x # t => x \notin D
      /\ \A p \in Items(H) : \A f \in Fields :
            p \notin D /\ H[p][f] # Null => H[p][f] \notin D
    BY NotFreed DEF Sound, Forest
<1>5. ASSUME NEW p \in Items(G)
      PROVE  /\ G[p].next # Null => G[G[p].next].prev = p
             /\ G[p].child # Null => ListIsClosed(G, P, G[p].child)
    <2>1. p \in Items(H) /\ p \notin D /\ G[p] = H[p]
        BY <1>2
    <2>2. /\ H[p].next # Null => H[p].next \notin D /\ H[p].next \in Items(H)
          /\ H[p].child # Null => H[p].child \notin D /\ H[p].child \in Items(H)
        BY <1>4, <2>1, FieldTypes DEF Fields, Sound, Forest
    <2>3. G[p].next # Null => G[G[p].next].prev = p
        BY <1>2, <2>1, <2>2 DEF Sound, Links
    <2>4. ASSUME H[p].child # Null PROVE ListIsClosed(G, P, H[p].child)
        <3>1. PICK c \in Items(H) : c = H[p].child /\ c \notin D
            BY <2>2, <2>4
        <3>2. ListIsClosed(H, P, c)
            BY <2>1, <2>4, <3>1 DEF Sound, Links
        <3>3. PICK e \in Items(H) : e = H[c].prev
            BY <3>2 DEF ListIsClosed
        <3>4. e \notin D /\ Leads(G, c, e)
            BY <1>3, <3>1, <3>2, <3>3 DEF ListIsClosed
        <3>5. G[c] = H[c] /\ G[e] = H[e] /\ e \in Items(G)
            BY <1>2, <3>1, <3>4
        <3>6. ListIsClosed(G, P, c)
            BY <3>2, <3>3, <3>4, <3>5 DEF ListIsClosed
        <3>. QED  BY <3>1, <3>6
    <2>. QED  BY <2>1, <2>3, <2>4
<1>6. Links(G, P)
    BY <1>5 DEF Links
<1>7. ASSUME NEW x \in P
      PROVE  /\ x[1] \in T \ {t} /\ x[1] \in Items(G)
             /\ x[2] \in Items(G) /\ G[x[2]].next = Null
             /\ Leads(G, x[1], x[2])
    <2>1. /\ x[1] \in T /\ x[1] \in Items(H)
          /\ x[2] \in Items(H) /\ H[x[2]].next = Null
          /\ Leads(H, x[1], x[2])
        BY DEF Sound, Lists
    <2>2. x[1] \notin D /\ x[2] \notin D /\ Leads(G, x[1], x[2])
        BY <1>3, <1>4, <2>1
    <2>. QED  BY <1>2, <2>1, <2>2
<1>8. Lists(G, T \ {t}, P)
    BY <1>7, Zenon DEF Sound, Lists
<1>9. Forest(G, T \ {t})
    BY <1>1, FreedSound DEF Sound
<1>. QED  BY <1>1, <1>6, <1>8, <1>9 DEF Sound
LEMMA FewerLists ==
    ASSUME NEW H, NEW T, NEW P, Sound(H, T, P), NEW Q, Q \subseteq P
    PROVE  Sound(H, T, Q)
<1>1. \A c : ListIsClosed(H, P, c) => ListIsClosed(H, Q, c)
    BY DEF ListIsClosed
<1>2. Links(H, Q)
    BY <1>1 DEF Sound, Links
<1>3. Lists(H, T, Q)
    <2>1. \A x \in Q : x \in P
        OBVIOUS
    <2>. QED  BY <2>1, Zenon DEF Sound, Lists
<1>. QED  BY <1>2, <1>3 DEF Sound

\* More edges lead at least as far.
LEMMA MoreLeads ==
    ASSUME NEW H, NEW G, Items(H) \subseteq Items(G),
           \A p \in Items(H) : H[p].next # Null => G[p].next = H[p].next,
           NEW h, NEW t, Leads(H, h, t)
    PROVE  Leads(G, h, t)
<1>1. ASSUME NEW S, h \in S, Follows(G, S) PROVE t \in S
    <2>1. Follows(H, S)
        BY <1>1 DEF Follows
    <2>. QED  BY <1>1, <2>1 DEF Leads
<1>. QED  BY <1>1 DEF Leads

\* What is changed is no link.
LEMMA SameLists ==
    ASSUME NEW H, NEW T, NEW P, Links(H, P), Lists(H, T, P), Typed(H),
           NEW G, Items(G) = Items(H),
           \A p \in Items(H) : /\ G[p].next = H[p].next
                               /\ G[p].prev = H[p].prev
                               /\ G[p].child = H[p].child,
           NEW U, \A x \in P : x[1] \in U
    PROVE  Links(G, P) /\ Lists(G, U, P)
<1>1. \A h, t : Leads(H, h, t) => Leads(G, h, t)
    BY MoreLeads
<1>2. ASSUME NEW c \in Items(H), ListIsClosed(H, P, c)
      PROVE  ListIsClosed(G, P, c)
    BY <1>1, <1>2 DEF ListIsClosed
<1>3. ASSUME NEW p \in Items(G)
      PROVE  /\ G[p].next # Null => G[G[p].next].prev = p
             /\ G[p].child # Null => ListIsClosed(G, P, G[p].child)
    BY <1>2, FieldTypes DEF Links
<1>4. Links(G, P)
    BY <1>3 DEF Links
<1>5. ASSUME NEW x \in P
      PROVE  /\ x[1] \in U /\ x[1] \in Items(G)
             /\ x[2] \in Items(G) /\ G[x[2]].next = Null
             /\ Leads(G, x[1], x[2])
    BY <1>1 DEF Lists
<1>6. Lists(G, U, P)
    BY <1>5, Zenon DEF Lists
<1>. QED  BY <1>4, <1>6

\* A block more, in no list.
LEMMA AddedLists ==
    ASSUME NEW H, NEW T, NEW P, Sound(H, T, P), NEW n \in Nat \ {0},
           n \notin DOMAIN H, NEW block, IsNew(block)
    PROVE  Sound(Added(H, n, block), T \cup {n}, P)
<1>0. PICK G : G = Added(H, n, block)
    OBVIOUS
<1>1. /\ G[n] = block /\ n \in DOMAIN G
      /\ \A p \in Items(H) : G[p] = H[p] /\ p \in Items(G)
      /\ \A p \in Items(G) : p = n \/ p \in Items(H)
    BY <1>0 DEF Added, Items
<1>2. n \in Items(G) => G[n].next = Null /\ G[n].child = Null
    BY <1>1 DEF IsNew, Fields, Items
<1>3. \A h, t : Leads(H, h, t) => Leads(G, h, t)
    <2>1. Items(H) \subseteq Items(G)
        BY <1>1
    <2>2. \A p \in Items(H) : H[p].next # Null => G[p].next = H[p].next
        BY <1>1
    <2>. QED  BY <2>1, <2>2, MoreLeads
<1>4. ASSUME NEW c \in Items(H), ListIsClosed(H, P, c)
      PROVE  ListIsClosed(G, P, c)
    BY <1>1, <1>3, <1>4 DEF ListIsClosed
<1>5. ASSUME NEW p \in Items(G)
      PROVE  /\ G[p].next # Null => G[G[p].next].prev = p
             /\ G[p].child # Null => ListIsClosed(G, P, G[p].child)
    <2>1. CASE p = n
        BY <1>2, <2>1
    <2>2. CASE p \in Items(H)
        <3>1. Typed(H) /\ Links(H, P)
            BY DEF Sound, Forest
        <3>. QED  BY <1>1, <1>4, <2>2, <3>1, FieldTypes DEF Links
    <2>. QED  BY <1>1, <2>1, <2>2
<1>6. Links(G, P)
    BY <1>5 DEF Links
<1>7. ASSUME NEW x \in P
      PROVE  /\ x[1] \in T \cup {n} /\ x[1] \in Items(G)
             /\ x[2] \in Items(G) /\ G[x[2]].next = Null
             /\ Leads(G, x[1], x[2])
    BY <1>1, <1>3 DEF Sound, Lists
<1>8. Lists(G, T \cup {n}, P)
    BY <1>7, Zenon DEF Sound, Lists
<1>9. Forest(G, T \cup {n})
    BY <1>0, AddedSound DEF Sound
<1>. QED  BY <1>0, <1>6, <1>8, <1>9 DEF Sound

\* A new item begins a list.
LEMMA BegunLists ==
    ASSUME NEW H, NEW T, NEW P, Sound(H, T, P), NEW n \in Nat \ {0},
           n \notin DOMAIN H, NEW block, IsNew(block), block.block = "item"
    PROVE  Sound(Added(H, n, block), T \cup {n}, P \cup {<<n, n>>})
<1>0. PICK G : G = Added(H, n, block)
    OBVIOUS
<1>1. Sound(G, T \cup {n}, P)
    BY <1>0, AddedLists
<1>2. /\ n \in Items(G) /\ G[n] = block
      /\ \A p \in Items(G) : p = n \/ p \in Items(H)
      /\ \A p \in Items(H) : p # n /\ G[p] = H[p]
    BY <1>0 DEF Added, Items
<1>3. G[n].next = Null /\ G[n].child = Null
    BY <1>2 DEF IsNew, Fields
<1>4. ASSUME NEW p \in Items(G), G[p].child # Null
      PROVE  ListIsClosed(G, P \cup {<<n, n>>}, G[p].child)
    <2>1. p \in Items(H) /\ G[p] = H[p] /\ H[p].child \in Items(H)
        BY <1>2, <1>3, <1>4, FieldTypes DEF Sound, Forest
    <2>2. PICK c \in Items(H) : c = G[p].child
        BY <2>1
    <2>3. ListIsClosed(H, P, c)
        BY <1>4, <2>1, <2>2 DEF Sound, Links
    <2>4. H[c].prev # n /\ G[c].prev = H[c].prev
        BY <1>2, <2>3 DEF ListIsClosed
    <2>5. ListIsClosed(G, P, c)
        BY <1>1, <1>4, <2>2 DEF Sound, Links
    <2>. QED  BY <2>2, <2>4, <2>5 DEF ListIsClosed
<1>5. Links(G, P \cup {<<n, n>>})
    BY <1>1, <1>4 DEF Sound, Links
<1>6. ASSUME NEW x \in P \cup {<<n, n>>}
      PROVE  /\ x[1] \in T \cup {n} /\ x[1] \in Items(G)
             /\ x[2] \in Items(G) /\ G[x[2]].next = Null
             /\ Leads(G, x[1], x[2])
    <2>1. CASE x \in P
        BY <1>1, <2>1 DEF Sound, Lists
    <2>2. CASE x = <<n, n>>
        BY <1>2, <1>3, <2>2 DEF Leads
    <2>. QED  BY <2>1, <2>2
<1>7. ASSUME NEW x \in P \cup {<<n, n>>}, NEW y \in P \cup {<<n, n>>},
             x[1] = y[1] \/ x[2] = y[2]
      PROVE  x = y
    <2>1. \A z \in P : z[1] # n /\ z[2] # n
        BY <1>2 DEF Sound, Lists
    <2>2. \A z \in P : \A w \in P : z[1] = w[1] \/ z[2] = w[2] => z = w
        BY Zenon DEF Sound, Lists
    <2>3. CASE x \in P /\ y \in P
        BY <1>7, <2>2, <2>3
    <2>4. CASE x \notin P \/ y \notin P
        BY <1>7, <2>1, <2>4
    <2>. QED  BY <2>3, <2>4
<1>8. Lists(G, T \cup {n}, P \cup {<<n, n>>})
    BY <1>6, <1>7 DEF Lists
<1>. QED  BY <1>0, <1>1, <1>5, <1>8 DEF Sound
\* G is H with some fields of p changed.
Changes(H, G, p, change) == G = SetItem(H, p, change)

LEMMA SetItemShape ==
    ASSUME NEW H, NEW p \in DOMAIN H, NEW change
    PROVE  /\ DOMAIN SetItem(H, p, change) = DOMAIN H
           /\ \A q \in DOMAIN H : q # p => SetItem(H, p, change)[q] = H[q]
           /\ DOMAIN SetItem(H, p, change)[p] = DOMAIN H[p]
           /\ \A f \in DOMAIN H[p] : SetItem(H, p, change)[p][f] =
                 IF f \in DOMAIN change THEN change[f] ELSE H[p][f]
BY DEF SetItem

\* What changes besides the fields in `change'.
LEMMA SetItemShaped ==
    ASSUME NEW H, Typed(H), NEW p \in Items(H), NEW change,
           "block" \notin DOMAIN change, NEW G, Changes(H, G, p, change)
    PROVE  /\ Shaped(H, G)
           /\ \A q \in DOMAIN H : q # p => G[q] = H[q]
           /\ \A f \in ItemFields :
                 G[p][f] = IF f \in DOMAIN change THEN change[f] ELSE H[p][f]
<1>1. p \in DOMAIN H /\ DOMAIN H[p] = ItemFields
    BY DEF Items, Typed
<1>2. /\ DOMAIN G = DOMAIN H
      /\ \A q \in DOMAIN H : q # p => G[q] = H[q]
      /\ DOMAIN G[p] = ItemFields
      /\ \A f \in ItemFields :
            G[p][f] = IF f \in DOMAIN change THEN change[f] ELSE H[p][f]
    BY <1>1, SetItemShape DEF Changes
<1>3. "block" \in ItemFields
    BY DEF ItemFields
<1>4. \A q \in DOMAIN H : G[q].block = H[q].block /\ DOMAIN G[q] = DOMAIN H[q]
    BY <1>1, <1>2, <1>3
<1>5. Items(H) \subseteq DOMAIN H
    BY DEF Items
<1>. QED  BY <1>2, <1>4, <1>5 DEF Shaped

\* A new item comes behind the tail of a list.
LEMMA GrownLists ==
    ASSUME NEW H, NEW T, NEW P, Sound(H, T, P), NEW n \in Nat \ {0},
           n \notin DOMAIN H, NEW block, IsNew(block), block.block = "item",
           NEW h, NEW t, <<h, t>> \in P, block.prev = t,
           NEW change, DOMAIN change = {"next"}, change["next"] = n,
           NEW G, Changes(Added(H, n, block), G, t, change)
    PROVE  Sound(G, T, (P \ {<<h, t>>}) \cup {<<h, n>>})
<1>0. PICK A : A = Added(H, n, block)
    OBVIOUS
<1>1. Sound(A, T \cup {n}, P)
    BY <1>0, AddedLists
<1>2. /\ n \in Items(A) /\ A[n] = block
      /\ Items(A) = Items(H) \cup {n}
      /\ \A p \in Items(H) : p # n /\ A[p] = H[p]
    BY <1>0 DEF Added, Items
<1>3. \A f \in Fields : A[n][f] = Null
    BY <1>2 DEF IsNew
<1>4. /\ t \in Items(H) /\ H[t].next = Null /\ h \in T /\ h \in Items(H)
      /\ Leads(H, h, t)
    BY Zenon DEF Sound, Lists
<1>5. /\ Shaped(A, G)
      /\ \A q \in DOMAIN A : q # t => G[q] = A[q]
      /\ \A f \in ItemFields : G[t][f] = IF f = "next" THEN n ELSE A[t][f]
    <2>1. Typed(A) /\ t \in Items(A) /\ Changes(A, G, t, change)
        BY <1>0, <1>1, <1>2, <1>4 DEF Sound, Forest
    <2>4. "block" \notin DOMAIN change
        OBVIOUS
    <2>5. /\ Shaped(A, G)
          /\ \A q \in DOMAIN A : q # t => G[q] = A[q]
          /\ \A f \in ItemFields :
                G[t][f] = IF f \in DOMAIN change THEN change[f] ELSE A[t][f]
        BY <2>1, <2>4, SetItemShaped
    <2>. QED  BY <2>5
<1>6. Items(G) = Items(A) /\ Items(A) \subseteq DOMAIN A
    BY <1>5, ShapedItems DEF Items
<1>7. n \notin T
    BY DEF Sound, Forest
<1>8. Forest(G, T)
    <2>1. Attached(A, G, t, "next", n)
        <3>1. \A p \in Items(A) : \A f \in Fields :
                 G[p][f] = IF p = t /\ f = "next" THEN n ELSE A[p][f]
            BY <1>5, <1>6 DEF ItemFields
        <3>. QED  BY <3>1 DEF Attached
    <2>2. Freed(A, {n}, n)
        BY <1>2, <1>3, <1>6 DEF Freed, Keeps
    <2>3. /\ t \in Items(A) /\ t \notin {n} /\ "next" \in Fields
          /\ A[t]["next"] = Null /\ n \in Items(A)
        BY <1>2, <1>4 DEF Fields
    <2>4. Forest(A, T \cup {n}) /\ n \in T \cup {n}
        BY <1>1 DEF Sound
    <2>5. Forest(G, (T \cup {n}) \ {n})
        <3>1. (n \in Items(A)) <=> ("next" \in {"child", "next"})
            BY <2>3
        <3>2. Shaped(A, G)
            BY <1>5
        <3>. QED  BY <2>1, <2>2, <2>3, <2>4, <3>1, <3>2, AttachSound, Zenon
    <2>6. (T \cup {n}) \ {n} = T
        BY <1>7
    <2>. QED  BY <2>5, <2>6
<1>9. /\ G[n] = block /\ block.next = Null /\ block.child = Null
      /\ \A p \in Items(H) : p # t => G[p] = H[p]
      /\ G[t].next = n /\ G[t].prev = H[t].prev /\ G[t].child = H[t].child
      /\ Items(G) = Items(H) \cup {n}
    <2>1. G[n] = block
        BY <1>2, <1>4, <1>5, <1>6
    <2>2. block.next = Null /\ block.child = Null
        BY <1>2, <1>3 DEF Fields
    <2>3. \A p \in Items(H) : p # t => G[p] = H[p]
        BY <1>2, <1>5, <1>6
    <2>4. G[t].next = n /\ G[t].prev = H[t].prev /\ G[t].child = H[t].child
        BY <1>2, <1>4, <1>5 DEF ItemFields, Fields
    <2>. QED  BY <1>2, <1>6, <2>1, <2>2, <2>3, <2>4
<1>10. \A b, e : Leads(H, b, e) => Leads(G, b, e)
    <2>1. \A p \in Items(H) : H[p].next # Null => G[p].next = H[p].next
        BY <1>4, <1>9
    <2>2. Items(H) \subseteq Items(G)
        BY <1>9
    <2>. QED  BY <2>1, <2>2, MoreLeads, Zenon
<1>11. PICK Q : Q = (P \ {<<h, t>>}) \cup {<<h, n>>}
    OBVIOUS
<1>12. ASSUME NEW c \in Items(H), ListIsClosed(H, P, c)
       PROVE  ListIsClosed(G, Q, c)
    <2>1. PICK e \in Items(H) : e = H[c].prev
        BY <1>12 DEF ListIsClosed
    <2>2. e # t /\ H[e].next = Null /\ Leads(H, c, e) /\ \A x \in P : x[2] # e
        BY <1>12, <2>1 DEF ListIsClosed
    <2>3. e \in Items(G) /\ G[e] = H[e] /\ G[c].prev = e /\ e # n
        BY <1>2, <1>9, <2>1, <2>2
    <2>4. \A x \in Q : x[2] # e
        BY <1>11, <2>2, <2>3
    <2>. QED  BY <1>10, <2>2, <2>3, <2>4 DEF ListIsClosed
<1>13. ASSUME NEW p \in Items(G)
       PROVE  /\ G[p].next # Null => G[G[p].next].prev = p
              /\ G[p].child # Null => ListIsClosed(G, Q, G[p].child)
    <2>0. Typed(H) /\ Links(H, P)
        BY DEF Sound, Forest
    <2>1. CASE p = n
        BY <1>9, <2>1
    <2>2. CASE p = t
        <3>1. G[p].next = n /\ G[n].prev = p
            BY <1>9, <2>2
        <3>2. G[p].child = H[p].child
            BY <1>9, <2>2
        <3>3. H[p].child # Null => ListIsClosed(H, P, H[p].child)
                                   /\ H[p].child \in Items(H)
            BY <1>4, <2>0, <2>2, FieldTypes DEF Links
        <3>. QED  BY <1>12, <3>1, <3>2, <3>3
    <2>3. CASE p \in Items(H) /\ p # t
        <3>1. G[p] = H[p]
            BY <1>9, <2>3
        <3>2. /\ H[p].next # Null => H[p].next \in Items(H)
                                     /\ H[H[p].next].prev = p
              /\ H[p].child # Null => ListIsClosed(H, P, H[p].child)
                                      /\ H[p].child \in Items(H)
            BY <2>0, <2>3, FieldTypes DEF Links
        <3>3. \A q \in Items(H) : G[q].prev = H[q].prev
            BY <1>9
        <3>. QED  BY <1>12, <3>1, <3>2, <3>3
    <2>. QED  BY <1>9, <2>1, <2>2, <2>3
<1>14. Links(G, Q)
    BY <1>13 DEF Links
<1>15. ASSUME NEW x \in Q
       PROVE  /\ x[1] \in T /\ x[1] \in Items(G)
              /\ x[2] \in Items(G) /\ G[x[2]].next = Null
              /\ Leads(G, x[1], x[2])
    <2>1. CASE x \in P /\ x # <<h, t>>
        <3>1. /\ x[1] \in T /\ x[1] \in Items(H)
              /\ x[2] \in Items(H) /\ H[x[2]].next = Null
              /\ Leads(H, x[1], x[2])
            BY <2>1 DEF Sound, Lists
        <3>2. x[2] # t
            <4>1. \A y \in P : x[2] = y[2] => x = y
                BY <2>1, Zenon DEF Sound, Lists
            <4>. QED  BY <2>1, <4>1
        <3>. QED  BY <1>9, <1>10, <3>1, <3>2
    <2>2. CASE x = <<h, n>>
        <3>1. Leads(G, h, n)
            <4>1. ASSUME NEW S, h \in S, Follows(G, S) PROVE n \in S
                <5>1. t \in S
                    BY <1>4, <1>10, <4>1 DEF Leads
                <5>2. n # Null
                    BY DEF Null
                <5>. QED  BY <1>4, <1>9, <4>1, <5>1, <5>2 DEF Follows
            <4>. QED  BY <4>1 DEF Leads
        <3>. QED  BY <1>4, <1>9, <2>2, <3>1
    <2>. QED  BY <1>11, <2>1, <2>2
<1>16. ASSUME NEW x \in Q, NEW y \in Q, x[1] = y[1] \/ x[2] = y[2]
       PROVE  x = y
    <2>1. \A z \in P : z[1] # n /\ z[2] # n
        BY <1>2 DEF Sound, Lists
    <2>2. \A z \in P : \A w \in P : z[1] = w[1] \/ z[2] = w[2] => z = w
        BY Zenon DEF Sound, Lists
    <2>3. \A z \in P : z # <<h, t>> => z[1] # h
        BY <2>2
    <2>4. CASE x \in P /\ y \in P
        BY <1>16, <2>2, <2>4
    <2>5. CASE x \notin P \/ y \notin P
        BY <1>11, <1>16, <2>1, <2>3, <2>5
    <2>. QED  BY <2>4, <2>5
<1>17. Lists(G, T, Q)
    BY <1>15, <1>16 DEF Lists
<1>. QED  BY <1>8, <1>11, <1>14, <1>17 DEF Sound
\* A list is closed and becomes the members of its container.
LEMMA ClosedLists ==
    ASSUME NEW H, NEW T, NEW P, Sound(H, T, P), NEW h, NEW t, <<h, t>> \in P,
           NEW D, Freed(H, D, h), NEW o \in Items(H), o \notin D,
           H[o].child = Null, NEW G, Shaped(H, G),
           Attached(H, G, o, "child", h),
           \A p \in Items(H) : G[p].prev = IF p = h THEN t ELSE H[p].prev
    PROVE  Sound(G, T \ {h}, P \ {<<h, t>>})
<1>1. /\ t \in Items(H) /\ H[t].next = Null /\ h \in T /\ h \in Items(H)
      /\ Leads(H, h, t)
    BY Zenon DEF Sound, Lists
<1>2. Forest(G, T \ {h})
    <2>1. Forest(H, T) /\ "child" \in Fields /\ H[o]["child"] = Null
        BY DEF Sound, Fields
    <2>2. (h \in Items(H)) <=> ("child" \in {"child", "next"})
        BY <1>1
    <2>. QED  BY <1>1, <2>1, <2>2, AttachSound, Zenon
<1>3. /\ Items(G) = Items(H)
      /\ \A p \in Items(H) : /\ G[p].next = H[p].next
                             /\ G[p].child = IF p = o THEN h ELSE H[p].child
    BY ShapedItems DEF Attached, Fields
<1>4. \A b, e : Leads(H, b, e) => Leads(G, b, e)
    <2>1. \A p \in Items(H) : H[p].next # Null => G[p].next = H[p].next
        BY <1>3
    <2>2. Items(H) \subseteq Items(G)
        BY <1>3
    <2>. QED  BY <2>1, <2>2, MoreLeads
<1>5. PICK Q : Q = P \ {<<h, t>>}
    OBVIOUS
<1>6. /\ \A p \in Items(H) : H[p].next # h /\ H[p].child # h
      /\ \A x \in Q : x \in P /\ x[1] # h /\ x[2] # t
    <2>1. \A p \in Items(H) : \A f \in Fields : H[p][f] # h
        BY <1>1 DEF Sound, Forest, Exclusive
    <2>2. \A x, y \in P : x[1] = y[1] \/ x[2] = y[2] => x = y
        BY Zenon DEF Sound, Lists
    <2>. QED  BY <1>5, <2>1, <2>2 DEF Fields
<1>7. ASSUME NEW p \in Items(G)
      PROVE  /\ G[p].next # Null => G[G[p].next].prev = p
             /\ G[p].child # Null => ListIsClosed(G, Q, G[p].child)
    <2>1. /\ H[p].next # Null => H[p].next \in Items(H)
                                 /\ H[H[p].next].prev = p
          /\ H[p].child # Null => ListIsClosed(H, P, H[p].child)
                                  /\ H[p].child \in Items(H)
        BY <1>3, FieldTypes DEF Sound, Forest, Links
    <2>2. G[p].next # Null => G[G[p].next].prev = p
        BY <1>3, <1>6, <2>1
    <2>3. CASE p = o
        <3>1. G[p].child = h /\ G[h].prev = t /\ G[t].next = Null
            BY <1>1, <1>3, <2>3
        <3>2. ListIsClosed(G, Q, h)
            BY <1>1, <1>3, <1>4, <1>6, <3>1 DEF ListIsClosed
        <3>. QED  BY <2>2, <3>1, <3>2
    <2>4. CASE p # o /\ G[p].child # Null
        <3>1. PICK c \in Items(H) : c = G[p].child /\ c # h /\ ListIsClosed(H, P, c)
            BY <1>3, <1>6, <2>1, <2>4
        <3>2. G[c].prev = H[c].prev
            BY <3>1
        <3>3. ListIsClosed(G, Q, c)
            BY <1>3, <1>4, <1>6, <3>1, <3>2 DEF ListIsClosed
        <3>. QED  BY <2>2, <3>1, <3>3
    <2>. QED  BY <2>2, <2>3, <2>4
<1>8. Links(G, Q)
    BY <1>7 DEF Links
<1>9. ASSUME NEW x \in Q
      PROVE  /\ x[1] \in T \ {h} /\ x[1] \in Items(G)
             /\ x[2] \in Items(G) /\ G[x[2]].next = Null
             /\ Leads(G, x[1], x[2])
    <2>1. /\ x[1] \in T /\ x[1] \in Items(H)
          /\ x[2] \in Items(H) /\ H[x[2]].next = Null
          /\ Leads(H, x[1], x[2])
        BY <1>6 DEF Sound, Lists
    <2>. QED  BY <1>3, <1>4, <1>6, <2>1
<1>10. \A x, y \in Q : x[1] = y[1] \/ x[2] = y[2] => x = y
    BY <1>6, Zenon DEF Sound, Lists
<1>11. Lists(G, T \ {h}, Q)
    BY <1>9, <1>10 DEF Lists
<1>. QED  BY <1>2, <1>5, <1>8, <1>11 DEF Sound

\* A value or a name becomes the property of an item; other contents change.
LEMMA NamedLists ==
    ASSUME NEW H, NEW T, NEW P, Sound(H, T, P), NEW t \in T, t \notin Items(H),
           NEW a \in Items(H), NEW g \in {"string", "valuestring"}, H[a][g] = Null,
           NEW G, Shaped(H, G), Attached(H, G, a, g, t),
           \A p \in Items(H) : G[p].prev = H[p].prev
    PROVE  Sound(G, T \ {t}, P)
<1>1. Freed(H, {t}, t) /\ a \notin {t}
    <2>1. t \in DOMAIN H
        BY DEF Sound, Forest
    <2>. QED  BY <2>1 DEF Freed, Keeps
<1>2. g \in Fields /\ ((t \in Items(H)) <=> (g \in {"child", "next"}))
    BY DEF Fields
<1>3. Forest(H, T)
    BY DEF Sound
<1>4. Forest(G, T \ {t})
    BY <1>1, <1>2, <1>3, AttachSound
<1>5. \A p \in Items(H) : /\ G[p].next = H[p].next
                          /\ G[p].prev = H[p].prev
                          /\ G[p].child = H[p].child
    <2>1. \A p \in Items(H) : \A f \in Fields : f # g => G[p][f] = H[p][f]
        BY DEF Attached
    <2>2. "next" # g /\ "child" # g
        OBVIOUS
    <2>. QED  BY <2>1, <2>2 DEF Fields
<1>6. \A x \in P : x[1] \in T \ {t}
    BY DEF Sound, Lists
<1>7. Items(G) = Items(H)
    BY ShapedItems
<1>8. Links(G, P) /\ Lists(G, T \ {t}, P)
    BY <1>3, <1>5, <1>6, <1>7, SameLists DEF Sound, Forest
<1>. QED  BY <1>4, <1>8 DEF Sound

\* No pointer changes.
LEMMA ContentsSound ==
    ASSUME NEW H, NEW T, NEW P, Sound(H, T, P), NEW G, Shaped(H, G),
           \A p \in Items(H) : \A f \in Fields \cup {"prev"} : G[p][f] = H[p][f]
    PROVE  Sound(G, T, P)
<1>1. Items(G) = Items(H)
    BY ShapedItems
<1>2. \A p \in Items(H) : \A f \in Fields : G[p][f] = H[p][f]
    OBVIOUS
<1>3. \A p \in Items(H) : /\ G[p].next = H[p].next
                          /\ G[p].prev = H[p].prev
                          /\ G[p].child = H[p].child
    BY DEF Fields
<1>4. Forest(H, T) /\ Typed(H) /\ Links(H, P) /\ Lists(H, T, P)
    BY DEF Sound, Forest
<1>5. Forest(G, T)
    BY <1>2, <1>4, SameSound
<1>6. \A x \in P : x[1] \in T
    BY DEF Sound, Lists
<1>7. Links(G, P) /\ Lists(G, T, P)
    BY <1>1, <1>3, <1>4, <1>6, SameLists
<1>. QED  BY <1>5, <1>7 DEF Sound

-----------------------------------------------------------------------------
(***************************************************************************)
(* Induction up to a bound, for the recursive functions of the model       *)
(***************************************************************************)

Smaller == {p \in Nat \X Nat : p[1] < p[2]}

LEMMA SmallerWellFounded == IsWellFoundedOn(Smaller, Nat)
<1>1. Smaller = OpToRel(<, Nat)
    BY DEF Smaller, OpToRel
<1>. QED  BY <1>1, NatLessThanWellFounded

LEMMA Least ==
    ASSUME NEW T, T \subseteq Nat, T # {}
    PROVE  \E n \in T : \A m \in T : n <= m
<1>1. PICK n \in T : \A m \in T : ~(<<m, n>> \in Smaller)
    BY SmallerWellFounded, WFMin
<1>2. ASSUME NEW m \in T PROVE n <= m
    <2>1. m \in Nat /\ n \in Nat
        OBVIOUS
    <2>2. ~(m < n)
        BY <1>1, <2>1 DEF Smaller
    <2>. QED  BY <2>1, <2>2
<1>. QED  BY <1>2

\* A property is the set of the numbers that have it.
LEMMA Induct ==
    ASSUME NEW N \in Nat, NEW T, 0 \in T,
           \A n \in 0..N : n \in T /\ n < N => n + 1 \in T
    PROVE  0..N \subseteq T
<1>. DEFINE U == {n \in 0..N : n \notin T}
<1>1. CASE U = {}
    BY <1>1
<1>2. CASE U # {}
    <2>1. U \subseteq Nat
        OBVIOUS
    <2>2. PICK n \in U : \A m \in U : n <= m
        BY <1>2, <2>1, Least
    <2>3. n \in 0..N /\ n \notin T /\ n # 0
        BY <2>2
    <2>4. PICK m \in 0..N : m = n - 1 /\ m < N /\ m + 1 = n
        BY <2>3
    <2>5. m \in T
        BY <2>2, <2>4
    <2>. QED  BY <2>3, <2>4, <2>5
<1>. QED  BY <1>1, <1>2

IsRecursive(g, N, b, Phi) ==
    g = [n \in 0..N |-> IF n = 0 THEN b ELSE Phi[n][g[n - 1]]]

LEMMA Recursion ==
    ASSUME NEW N \in Nat, NEW X, NEW b \in X, NEW Phi,
           \A n \in 1..N : \A x \in X : Phi[n][x] \in X
    PROVE  \E g \in [0..N -> X] : IsRecursive(g, N, b, Phi)
<1>. DEFINE Good(g, n) ==
        /\ g \in [0..n -> X]
        /\ g[0] = b
        /\ \A i \in 1..n : g[i] = Phi[i][g[i - 1]]
     T == {n \in 0..N : \E g : Good(g, n)}
<1>1. 0 \in T
    <2>1. PICK z : z = [i \in 0..0 |-> b]
        OBVIOUS
    <2>2. Good(z, 0)
        BY <2>1
    <2>3. \E g : Good(g, 0)
        BY <2>2
    <2>. QED  BY <2>3
<1>2. ASSUME NEW n \in 0..N, n \in T, n < N PROVE n + 1 \in T
    <2>1. PICK g : Good(g, n)
        BY <1>2
    <2>2. PICK y \in X : y = Phi[n + 1][g[n]]
        BY <1>2, <2>1
    <2>3. PICK h : h = [i \in 0..n + 1 |-> IF i = n + 1 THEN y ELSE g[i]]
        OBVIOUS
    <2>4. h \in [0..n + 1 -> X] /\ h[0] = b
        BY <2>1, <2>3
    <2>5. ASSUME NEW i \in 1..n + 1 PROVE h[i] = Phi[i][h[i - 1]]
        <3>1. CASE i = n + 1
            BY <2>1, <2>2, <2>3, <3>1
        <3>2. CASE i # n + 1
            BY <2>1, <2>3, <3>2
        <3>. QED  BY <3>1, <3>2
    <2>6. Good(h, n + 1)
        BY <2>4, <2>5
    <2>7. n + 1 \in 0..N
        BY <1>2
    <2>8. \E k : Good(k, n + 1)
        BY <2>6
    <2>. QED  BY <2>7, <2>8
<1>3. N \in T
    <2>. HIDE DEF T
    <2>1. 0..N \subseteq T
        BY <1>1, <1>2, Induct
    <2>. QED  BY <2>1
<1>4. PICK g : Good(g, N)
    BY <1>3
<1>5. g = [n \in 0..N |-> g[n]]
    BY <1>4
<1>6. \A n \in 0..N : g[n] = IF n = 0 THEN b ELSE Phi[n][g[n - 1]]
    BY <1>4
<1>7. g = [n \in 0..N |-> IF n = 0 THEN b ELSE Phi[n][g[n - 1]]]
    BY <1>5, <1>6
<1>. QED  BY <1>4, <1>7 DEF IsRecursive

-----------------------------------------------------------------------------
(***************************************************************************)
(* malloc and cJSON_Delete                                                 *)
(***************************************************************************)

LEMMA FreshIsFree ==
    ASSUME IsFiniteSet(Live)
    PROVE  Fresh \in Nat \ {0} /\ Fresh \notin Live
<1>. DEFINE N == Cardinality(Live)
<1>1. N \in Nat
    BY FS_CardinalityType
<1>2. \E p \in 1..N + 1 : p \notin Live
    <2>. SUFFICES ASSUME 1..N + 1 \subseteq Live PROVE FALSE
        OBVIOUS
    <2>1. Cardinality(1..N + 1) <= N
        BY FS_Subset
    <2>. HIDE DEF N
    <2>2. Cardinality(1..N + 1) = N + 1
        BY <1>1, FS_Interval
    <2>. QED  BY <1>1, <2>1, <2>2
<1>3. Fresh \in 1..N + 1 /\ Fresh \notin Live
    BY <1>2 DEF Fresh
<1>. HIDE DEF N
<1>. QED  BY <1>1, <1>3

\* One level more of what is freed.
Deeper(S) == S \cup UNION {Owned(q) : q \in {r \in S : IsItem(r)}}

LEMMA OwnedFields ==
    ASSUME NEW q
    PROVE  \A r : r \in Owned(q) <=>
                    r # Null /\ \E f \in Fields : r = heap[q][f]
BY DEF Owned, Fields

LEMMA DeeperOwned ==
    ASSUME NEW S, Typed(heap), S \subseteq Live
    PROVE  /\ S \subseteq Deeper(S) /\ Deeper(S) \subseteq Live
           /\ \A r \in Deeper(S) : r \in S \/ \E p \in Items(heap) :
                    \E f \in Fields : p \in S /\ heap[p][f] = r
           /\ Deeper(S) \subseteq S => Keeps(heap, S)
<1>1. \A r : IsItem(r) <=> r \in Items(heap)
    BY DEF IsItem, Items, Live
<1>2. \A r \in Deeper(S) : r \in S \/ \E p \in Items(heap) :
                    \E f \in Fields : p \in S /\ heap[p][f] = r /\ r # Null
    BY <1>1, OwnedFields DEF Deeper
<1>3. \A p \in Items(heap) : \A f \in Fields :
            p \in S /\ heap[p][f] # Null => heap[p][f] \in Deeper(S)
    BY <1>1, OwnedFields DEF Deeper
<1>4. S \subseteq Deeper(S)
    BY DEF Deeper
<1>5. Deeper(S) \subseteq Live
    BY <1>2, PointsInside DEF Live
<1>6. Deeper(S) \subseteq S => Keeps(heap, S)
    BY <1>3 DEF Keeps
<1>. QED  BY <1>2, <1>4, <1>5, <1>6

\* The levels of cJSON_Delete.
IsReach(R, p, N) ==
    R = [n \in 0..N |-> IF n = 0 THEN {p} \ {Null} ELSE Deeper(R[n - 1])]

LEMMA ReachExists ==
    ASSUME Typed(heap), NEW p \in Live \cup {Null}, NEW N \in Nat
    PROVE  \E R : IsReach(R, p, N)
<1>. DEFINE X == SUBSET Live
            Phi == [n \in 1..N |-> [x \in X |-> Deeper(x)]]
            b == {p} \ {Null}
<1>1. b \in X
    OBVIOUS
<1>2. \A n \in 1..N : \A x \in X : Phi[n][x] \in X
    BY DeeperOwned
<1>3. \A n \in 1..N : \A x \in X : Phi[n][x] = Deeper(x)
    OBVIOUS
<1>. HIDE DEF X, Phi, b
<1>4. PICK g \in [0..N -> X] : IsRecursive(g, N, b, Phi)
    BY <1>1, <1>2, Recursion
<1>5. \A n \in 0..N : (IF n = 0 THEN b ELSE Phi[n][g[n - 1]])
                        = (IF n = 0 THEN b ELSE Deeper(g[n - 1]))
    <2>. SUFFICES ASSUME NEW n \in 0..N, n # 0 PROVE Phi[n][g[n - 1]] = Deeper(g[n - 1])
        OBVIOUS
    <2>1. n \in 1..N /\ n - 1 \in 0..N
        OBVIOUS
    <2>. QED  BY <1>3, <1>4, <2>1
<1>6. g = [n \in 0..N |-> IF n = 0 THEN b ELSE Deeper(g[n - 1])]
    BY <1>4, <1>5 DEF IsRecursive
<1>. QED  BY <1>6 DEF IsReach, b

LEMMA DeleteReaches ==
    ASSUME NEW p
    PROVE  cJSON_Delete(p) =
              (CHOOSE R : IsReach(R, p, Cardinality(Live)))[Cardinality(Live)]
BY DEF cJSON_Delete, IsReach, Deeper
LEMMA DeleteUnfolds ==
    ASSUME Typed(heap), NEW p \in Live \cup {Null}
    PROVE  \E R, N :
              /\ N = Cardinality(Live) /\ N \in Nat
              /\ IsReach(R, p, N)
              /\ cJSON_Delete(p) = R[N]
<1>1. Cardinality(Live) \in Nat
    BY FS_CardinalityType DEF Typed, Live
<1>2. PICK N \in Nat : N = Cardinality(Live)
    BY <1>1
<1>3. \E R : IsReach(R, p, N)
    BY <1>2, ReachExists
<1>4. PICK R : R = CHOOSE Q : IsReach(Q, p, N)
    OBVIOUS
<1>5. IsReach(R, p, N)
    BY <1>3, <1>4
<1>6. cJSON_Delete(p) = R[N]
    BY <1>2, <1>4, DeleteReaches
<1>. QED  BY <1>2, <1>5, <1>6

LEMMA ReachUnfolds ==
    ASSUME NEW R, NEW p, NEW N \in Nat, IsReach(R, p, N)
    PROVE  /\ R[0] = {p} \ {Null}
           /\ \A n \in 0..N : n < N => R[n + 1] = Deeper(R[n])
<1>1. \A n \in 0..N : R[n] = IF n = 0 THEN {p} \ {Null} ELSE Deeper(R[n - 1])
    BY DEF IsReach
<1>2. 0 \in 0..N
    OBVIOUS
<1>3. ASSUME NEW n \in 0..N, n < N PROVE R[n + 1] = Deeper(R[n])
    <2>1. n + 1 \in 0..N /\ n + 1 # 0 /\ (n + 1) - 1 = n
        BY <1>3
    <2>. QED  BY <1>1, <2>1
<1>. QED  BY <1>1, <1>2, <1>3

LEMMA DeleteNull ==
    ASSUME Typed(heap) PROVE cJSON_Delete(Null) = {}
<1>1. PICK R, N :
        /\ N = Cardinality(Live) /\ N \in Nat
        /\ IsReach(R, Null, N)
        /\ cJSON_Delete(Null) = R[N]
    BY DeleteUnfolds
<1>2. R[0] = {} /\ \A n \in 0..N : n < N => R[n + 1] = Deeper(R[n])
    BY <1>1, ReachUnfolds
<1>3. Deeper({}) = {}
    BY DEF Deeper
<1>. DEFINE T == {n \in 0..N : R[n] = {}}
<1>4. 0 \in T /\ \A n \in 0..N : n \in T /\ n < N => n + 1 \in T
    BY <1>1, <1>2, <1>3
<1>. HIDE DEF T
<1>5. 0..N \subseteq T
    BY <1>1, <1>4, Induct
<1>6. N \in T
    BY <1>1, <1>5
<1>. QED  BY <1>1, <1>6 DEF T

\* Each level has a block more than the last one, until nothing is added.
LEMMA DeleteFrees ==
    ASSUME Typed(heap), NEW p \in Live
    PROVE  Freed(heap, cJSON_Delete(p), p)
<1>1. PICK R, N :
        /\ N = Cardinality(Live) /\ N \in Nat
        /\ IsReach(R, p, N)
        /\ cJSON_Delete(p) = R[N]
    BY DeleteUnfolds
<1>0. p # Null /\ IsFiniteSet(Live) /\ DOMAIN heap = Live
    BY DEF Typed, Null, Live
<1>2. R[0] = {p} /\ \A n \in 0..N : n < N => R[n + 1] = Deeper(R[n])
    BY <1>0, <1>1, ReachUnfolds
<1>. DEFINE Good(S) ==
        /\ p \in S
        /\ S \subseteq Live
        /\ \A r \in S : r = p \/ \E q \in Items(heap) : \E f \in Fields :
                                q \in S /\ heap[q][f] = r
     Many(S, n) == Keeps(heap, S) \/ Cardinality(S) >= n + 1
     T == {n \in 0..N : Good(R[n]) /\ Many(R[n], n)}
<1>3. 0 \in T
    <2>1. Cardinality({p}) = 1
        BY FS_Singleton
    <2>. QED  BY <1>1, <1>2, <2>1
<1>4. ASSUME NEW n \in 0..N, n \in T, n < N PROVE n + 1 \in T
    <2>1. PICK S : S = R[n] /\ Good(S) /\ Many(S, n)
        BY <1>4
    <2>2. PICK U : U = Deeper(S) /\ U = R[n + 1]
        BY <1>2, <1>4, <2>1
    <2>3. /\ S \subseteq U /\ U \subseteq Live
          /\ \A r \in U : r \in S \/ \E q \in Items(heap) :
                    \E f \in Fields : q \in S /\ heap[q][f] = r
          /\ U \subseteq S => Keeps(heap, S)
        <3>1. S \subseteq Live
            BY <2>1
        <3>2. /\ S \subseteq Deeper(S) /\ Deeper(S) \subseteq Live
              /\ \A r \in Deeper(S) : r \in S \/ \E q \in Items(heap) :
                    \E f \in Fields : q \in S /\ heap[q][f] = r
              /\ Deeper(S) \subseteq S => Keeps(heap, S)
            BY <3>1, DeeperOwned
        <3>. QED  BY <2>2, <3>2
    <2>4. Good(U)
        BY <2>1, <2>3
    <2>5. Many(U, n + 1)
        <3>1. CASE U = S
            BY <2>3, <3>1
        <3>2. CASE U # S
            <4>1. PICK r \in U : r \notin S
                BY <2>3, <3>2
            <4>2. IsFiniteSet(U) /\ IsFiniteSet(S)
                BY <1>0, <2>3, FS_Subset
            <4>3. IsFiniteSet(S \cup {r})
                  /\ Cardinality(S \cup {r}) = Cardinality(S) + 1
                BY <4>1, <4>2, FS_AddElement
            <4>4. S \cup {r} \subseteq U
                BY <2>3, <4>1
            <4>5. Cardinality(S \cup {r}) <= Cardinality(U)
                BY <4>2, <4>4, FS_Subset
            <4>6. Cardinality(S) \in Nat /\ Cardinality(U) \in Nat
                BY <4>2, FS_CardinalityType
            <4>7. CASE Cardinality(S) >= n + 1
                BY <4>3, <4>5, <4>6, <4>7
            <4>8. CASE Keeps(heap, S)
                <5>1. \E q \in Items(heap) : \E f \in Fields :
                            q \in S /\ heap[q][f] = r
                    BY <2>3, <4>1
                <5>2. r # Null
                    BY <2>3, <4>1 DEF Typed, Null, Live
                <5>. QED  BY <4>1, <4>8, <5>1, <5>2 DEF Keeps
            <4>. QED  BY <2>1, <4>7, <4>8
        <3>. QED  BY <3>1, <3>2
    <2>6. n + 1 \in 0..N
        BY <1>1, <1>4
    <2>. QED  BY <2>2, <2>4, <2>5, <2>6
<1>5. 0..N \subseteq T
    <2>. HIDE DEF T
    <2>. QED  BY <1>1, <1>3, <1>4, Induct
<1>6. PICK S : S = R[N] /\ Good(S) /\ Many(S, N)
    BY <1>1, <1>5
<1>7. Keeps(heap, S)
    <2>1. Cardinality(S) <= N /\ Cardinality(S) \in Nat
        BY <1>0, <1>1, <1>6, FS_Subset, FS_CardinalityType
    <2>. QED  BY <1>1, <1>6, <2>1
<1>. QED  BY <1>0, <1>1, <1>6, <1>7 DEF Freed

\* What is freed with each root is all there is.
LEMMA RootsAreAll ==
    ASSUME NEW T, Forest(heap, T)
    PROVE  Live \subseteq UNION {cJSON_Delete(t) : t \in T}
<1>. DEFINE S == UNION {cJSON_Delete(t) : t \in T}
<1>1. \A t \in T : Freed(heap, cJSON_Delete(t), t)
    BY DeleteFrees DEF Forest, Live
<1>2. T \subseteq S
    BY <1>1 DEF Freed
<1>3. Keeps(heap, S)
    BY <1>1 DEF Freed, Keeps
<1>. HIDE DEF S
<1>4. DOMAIN heap \subseteq S
    BY <1>2, <1>3 DEF Forest, Reached
<1>. QED  BY <1>4 DEF S, Live
-----------------------------------------------------------------------------
(***************************************************************************)
(* Where the call, the parser and the printer are                          *)
(***************************************************************************)

\* The copy, the decoded string and the buffer exist while they are used;
\* the tree, until it is deleted or returned.
ControlInv ==
    /\ at \in {"idle", "called", "parse", "parsed", "print", "returned"}
    /\ at = "parse" <=> raw # Null
    /\ at = "parse" <=> parser # "idle"
    /\ at # "parse" => frames = <<>>
    /\ parser \in {"string", "name"} <=> phase # "idle"
    /\ phase \in {"copy", "parsed"} <=> output # Null
    /\ at = "print" <=> printer # "idle"
    /\ printer \in {"idle", "buffer"} => buffer = Null
    /\ buffer = Null => printer \in {"idle", "buffer", "fail", "done"}
    /\ at = "print" => call.op \in Printers

RootInv ==
    /\ at \in {"idle", "called"} => root = Null
    /\ at = "print" => root # Null
    /\ parser = "root" => root = Null /\ frames = <<>>
    /\ parser \in {"value", "string", "name", "element", "parsed"} => root # Null
    /\ frames # <<>> => root # Null
    /\ parser = "element" => frames # <<>>
    /\ parser = "done" => frames = <<>>
    /\ at = "returned" =>
          /\ call.op = "parse" => result = root
          /\ call.op \notin {"parse", "from_json"} => root = Null

Frame == [open : {"[", "{"}, owner : Nat, head : Nat, tail : Nat]

Places == ControlInv /\ RootInv /\ frames \in Seq(Frame)

\* What a step of the printer does to the memory.
NewBufferMade ==
    /\ printer = "buffer" /\ printer' = "value"
    /\ buffer' = Fresh
    /\ heap' = With(Fresh, Bytes(<<>>))

BufferDropped ==
    /\ printer' \in {"fail", "done"}
    /\ buffer' = Null
    /\ heap' = Without({buffer})

BufferCut ==
    /\ printer = "behind" /\ printer' = "done"
    /\ buffer' = buffer
    /\ heap' = [heap EXCEPT ![buffer].bytes = Printed]

BufferKept ==
    /\ buffer' = buffer /\ heap' = heap
    /\ \/ printer' = "fail"
       \/ /\ printer' \notin {"idle", "buffer"}
          /\ printer \notin {"idle", "buffer", "fail", "done"}

LEMMA EmitKeeps ==
    ASSUME NEW piece, Emit(piece)
    PROVE  buffer' = buffer /\ heap' = heap /\ starved' = starved
BY DEF Emit, heapVars

LEMMA EmitFailsMoves ==
    ASSUME NEW piece, EmitFails(piece) PROVE BufferKept \/ BufferDropped
BY DEF EmitFails, heapVars, BufferKept, BufferDropped

LEMMA PrinterMoves ==
    ASSUME PrinterStep
    PROVE  NewBufferMade \/ BufferDropped \/ BufferCut \/ BufferKept
<1>1. CASE PrintScalar
    <2>1. buffer' = buffer /\ heap' = heap
        BY <1>1, EmitKeeps DEF PrintScalar
    <2>. QED  BY <1>1, <2>1 DEF PrintScalar, Goto, BufferKept
<1>2. CASE PrintOpen
    <2>1. buffer' = buffer /\ heap' = heap
        BY <1>2, EmitKeeps DEF PrintOpen
    <2>. QED  BY <1>2, <2>1 DEF PrintOpen, BufferKept
<1>3. CASE PrintClose
    <2>1. buffer' = buffer /\ heap' = heap
        BY <1>3, EmitKeeps DEF PrintClose
    <2>. QED  BY <1>3, <2>1 DEF PrintClose, BufferKept
<1>4. CASE PrintIndent
    <2>1. buffer' = buffer /\ heap' = heap
        BY <1>4, EmitKeeps DEF PrintIndent
    <2>. QED  BY <1>4, <2>1 DEF PrintIndent, Visit, BufferKept
<1>5. CASE PrintKey
    <2>1. buffer' = buffer /\ heap' = heap
        BY <1>5, EmitKeeps DEF PrintKey
    <2>. QED  BY <1>5, <2>1 DEF PrintKey, Goto, BufferKept
<1>6. CASE PrintColon
    <2>1. buffer' = buffer /\ heap' = heap
        BY <1>6, EmitKeeps DEF PrintColon
    <2>. QED  BY <1>6, <2>1 DEF PrintColon, Goto, BufferKept
<1>7. CASE PrintComma
    <2>1. buffer' = buffer /\ heap' = heap
        BY <1>7, EmitKeeps DEF PrintComma
    <2>. QED  BY <1>7, <2>1 DEF PrintComma, Advance, BufferKept
<1>8. CASE VisitElement
    BY <1>8 DEF VisitElement, Visit, bufferVars, heapVars, BufferKept
<1>9. CASE update_offset
    BY <1>9 DEF update_offset, Goto, heapVars, BufferKept
<1>10. CASE LastElement
    BY <1>10 DEF LastElement, Advance, bufferVars, heapVars, BufferKept
<1>11. CASE PieceFails
    BY <1>11, EmitFailsMoves DEF PieceFails
<1>12. CASE NewBuffer
    BY <1>12 DEF NewBuffer, Goto, NewBufferMade
<1>13. CASE NewBufferFails
    BY <1>13 DEF NewBufferFails, Goto, bufferVars, BufferKept
<1>14. CASE CutBuffer
    BY <1>14 DEF CutBuffer, BufferCut
<1>15. CASE CutFails
    BY <1>15 DEF CutFails, Goto, bufferVars, BufferKept
<1>16. CASE PrintFails
    BY <1>16 DEF PrintFails, BufferDropped
<1>. QED  BY <1>1, <1>2, <1>3, <1>4, <1>5, <1>6, <1>7, <1>8, <1>9, <1>10, <1>11,
             <1>12, <1>13, <1>14, <1>15, <1>16 DEF PrinterStep

LEMMA StringPlaces ==
    ASSUME StringStep, Fresh # Null, phase \in {"copy", "parsed"} <=> output # Null
    PROVE  /\ phase # "idle" /\ phase' # "idle"
           /\ phase' \in {"copy", "parsed"} <=> output' # Null
<1>1. CASE Scan \/ ScanEscape \/ Unterminated \/ OutputFails
    BY <1>1 DEF Scan, ScanEscape, Unterminated, OutputFails, AtQuote
<1>2. CASE AllocateOutput
    BY <1>2 DEF AllocateOutput, AtQuote
<1>3. CASE CopyPlain \/ CopyEscape \/ CopySingle \/ CopyPair
    BY <1>3 DEF CopyPlain, CopyEscape, CopySingle, CopyPair, AtUnicode, AtEscape,
                InCopy, Take
<1>4. CASE CopyFails \/ CopyEnds
    BY <1>4 DEF CopyFails, CopyEnds, AtEscape, InCopy
<1>. QED  BY <1>1, <1>2, <1>3, <1>4 DEF StringStep

\* The steps of the parser.
LEMMA ParserPlaces ==
    ASSUME Places, Parse, Fresh # Null, frames' \in Seq(Frame) PROVE Places'
<1>0. /\ at = "parse" /\ at' = "parse" /\ ParserStep
      /\ call' = call /\ raw' = raw /\ result' = result
      /\ printer' = printer /\ buffer' = buffer
    BY DEF Parse, printerVars, bufferVars
<1>. USE DEF Places, ControlInv, RootInv
<1>1. CASE NewRoot \/ RootFails \/ RootParsed \/ RootDeleted \/ Unwind
    BY <1>0, <1>1 DEF NewRoot, RootFails, RootParsed, RootDeleted, Unwind,
                      LeaveFrame, OutOfMemory, stringVars
<1>2. CASE Literal \/ parse_number \/ StringValue \/ EmptyContainer \/ NoValue
    BY <1>0, <1>2 DEF Literal, parse_number, StringValue, EmptyContainer, AtContainer,
                      AtValue, NoValue, Parsed, ParseFails, BeginString, stringVars
<1>7. CASE OpenContainer
    <2>1. \E f : frames' = Append(frames, f)
        BY <1>7 DEF OpenContainer
    <2>2. frames' # <<>>
        BY <2>1
    <2>. QED  BY <1>0, <1>7, <2>2 DEF OpenContainer, AtContainer, AtValue, stringVars
<1>3. CASE ArrayElement \/ ObjectMember \/ ElementFails
    BY <1>0, <1>3 DEF ArrayElement, ObjectMember, ElementFails, NewElement,
                      OutOfMemory, BeginString, stringVars
<1>4. CASE Comma \/ CloseContainer \/ NotClosed
    BY <1>0, <1>4 DEF Comma, CloseContainer, NotClosed, InContainer, ParseFails,
                      stringVars
<1>5. CASE StringParsed \/ NameParsed \/ StringFailed
    BY <1>0, <1>5 DEF StringParsed, NameParsed, StringFailed, StringIdle
<1>6. CASE InString
    BY <1>0, <1>6, StringPlaces DEF InString
<1>. QED  BY <1>0, <1>1, <1>2, <1>3, <1>4, <1>5, <1>6, <1>7 DEF ParserStep

LEMMA PrinterPlaces ==
    ASSUME Places, PrintGoesOn, Fresh # Null PROVE Places'
<1>1. /\ at = "print" /\ at' = "print" /\ PrinterStep
      /\ UNCHANGED <<call, raw, result, parser, frames, root, phase, output>>
    BY DEF PrintGoesOn, parserVars, stringVars
<1>2. NewBufferMade \/ BufferDropped \/ BufferCut \/ BufferKept
    BY <1>1, PrinterMoves
<1>. QED  BY <1>1, <1>2 DEF Places, ControlInv, RootInv, NewBufferMade,
                            BufferDropped, BufferCut, BufferKept

LEMMA PlacesKept ==
    ASSUME Places, [Next]_vars, Fresh # Null, Parse => frames' \in Seq(Frame)
    PROVE  Places'
<1>1. CASE Call \/ DispatchAnswers \/ SchemeAnswers \/ NothingToParse
           \/ ParamsNotCopied \/ NoTree \/ ReturnTree
    BY <1>1 DEF Call, DispatchAnswers, SchemeAnswers, NothingToParse, Parses, Return,
                ParamsNotCopied, NoTree, ReturnTree, Null, vars, parserVars, printerVars,
                bufferVars, stringVars, Places, ControlInv, RootInv
<1>2. CASE CopyParams \/ ParseEnds
    BY <1>2 DEF CopyParams, ParseEnds, Parses, BeginParse, printerVars, bufferVars,
                stringVars, Places, ControlInv, RootInv
<1>3. CASE MaxConcurrent
    BY <1>3 DEF MaxConcurrent, Return, Validators, printerVars, bufferVars,
                stringVars, Places, ControlInv, RootInv
<1>4. CASE StartPrint
    BY <1>4 DEF StartPrint, BeginPrint, parserVars, bufferVars,
                stringVars, Places, ControlInv, RootInv
<1>5. CASE PrintEnds \/ FromJsonEnds
    BY <1>5 DEF PrintEnds, FromJsonEnds, Return, Forget, KeepPrinter, Printers,
                parserVars, stringVars, Places, ControlInv, RootInv
<1>6. CASE CallerFrees \/ ComesBack
    BY <1>6 DEF CallerFrees, ComesBack, CallerHasFreed, ParserForgotten, StringIdle,
                printerVars, bufferVars, Places, ControlInv, RootInv
<1>7. CASE UNCHANGED vars
    BY <1>7 DEF vars, parserVars, printerVars, bufferVars, stringVars,
                Places, ControlInv, RootInv
<1>. QED  BY <1>1, <1>2, <1>3, <1>4, <1>5, <1>6, <1>7, ParserPlaces, PrinterPlaces
          DEF Next, CallStep
-----------------------------------------------------------------------------
(***************************************************************************)
(* The open containers                                                     *)
(***************************************************************************)

HeadsOf(fs) == {fs[i].head : i \in 1..Len(fs)}

PairsOf(fs) ==
    {<<fs[i].head, fs[i].tail>> : i \in {j \in 1..Len(fs) : fs[j].head # Null}}

\* The item that the last of the containers is a value of.
OwnerOf(fs, r, i) == IF i = 1 THEN r ELSE fs[i - 1].tail

CurrentOf(fs, r) == OwnerOf(fs, r, Len(fs) + 1)

\* Each container is a value in the one before, which has a list therefore.
Stacked(H, fs, r) ==
    /\ \A i \in 1..Len(fs) :
          /\ fs[i].owner = OwnerOf(fs, r, i)
          /\ fs[i].owner \in Items(H)
          /\ H[fs[i].owner].child = Null
          /\ fs[i].head = Null <=> fs[i].tail = Null
          /\ i < Len(fs) => fs[i].head # Null
          /\ fs[i].head # r
    /\ \A i, j \in 1..Len(fs) : fs[i].head = fs[j].head => i = j

LEMMA Appended ==
    ASSUME NEW fs \in Seq(Frame), NEW f \in Frame
    PROVE  /\ Append(fs, f) \in Seq(Frame)
           /\ Len(fs) \in Nat
           /\ Len(Append(fs, f)) = Len(fs) + 1
           /\ Append(fs, f)[Len(fs) + 1] = f
           /\ \A i \in 1..Len(fs) : Append(fs, f)[i] = fs[i] /\ fs[i] \in Frame
           /\ \A i \in 1..Len(fs) + 1 : i = Len(fs) + 1 \/ i \in 1..Len(fs)
           /\ \A i \in 1..Len(fs) : i \in 1..Len(fs) + 1
           /\ Len(fs) + 1 \in 1..Len(fs) + 1
<1>1. /\ Append(fs, f) \in Seq(Frame)
      /\ Len(fs) \in Nat
      /\ Len(Append(fs, f)) = Len(fs) + 1
      /\ Append(fs, f)[Len(fs) + 1] = f
    OBVIOUS
<1>2. \A i \in 1..Len(fs) : Append(fs, f)[i] = fs[i] /\ fs[i] \in Frame
    <2>1. \A i \in 1..Len(fs) : fs[i] \in Frame
        OBVIOUS
    <2>2. ASSUME NEW i \in 1..Len(fs) PROVE Append(fs, f)[i] = fs[i]
        <3>1. i \in 1..Len(fs) + 1 /\ i # Len(fs) + 1
            OBVIOUS
        <3>. QED  BY <3>1
    <2>. QED  BY <2>1, <2>2
<1>3. PICK n \in Nat : n = Len(fs)
    OBVIOUS
<1>4. /\ \A i \in 1..n + 1 : i = n + 1 \/ i \in 1..n
      /\ \A i \in 1..n : i \in 1..n + 1
      /\ n + 1 \in 1..n + 1
    OBVIOUS
<1>. QED  BY <1>1, <1>2, <1>3, <1>4

LEMMA AppendedLists ==
    ASSUME NEW fs \in Seq(Frame), NEW f \in Frame
    PROVE  /\ HeadsOf(Append(fs, f)) = HeadsOf(fs) \cup {f.head}
           /\ PairsOf(Append(fs, f)) = PairsOf(fs) \cup
                 (IF f.head = Null THEN {} ELSE {<<f.head, f.tail>>})
<1>1. PICK gs : gs = Append(fs, f)
    OBVIOUS
<1>2. /\ Len(fs) \in Nat /\ Len(gs) = Len(fs) + 1
      /\ gs[Len(fs) + 1] = f
      /\ \A i \in 1..Len(fs) : gs[i] = fs[i]
      /\ \A i \in 1..Len(gs) : i = Len(fs) + 1 \/ i \in 1..Len(fs)
      /\ \A i \in 1..Len(fs) : i \in 1..Len(gs)
      /\ Len(fs) + 1 \in 1..Len(gs)
    BY <1>1, Appended
<1>3. HeadsOf(gs) = HeadsOf(fs) \cup {f.head}
    BY <1>2 DEF HeadsOf
<1>4. PairsOf(gs) \subseteq PairsOf(fs) \cup
                 (IF f.head = Null THEN {} ELSE {<<f.head, f.tail>>})
    BY <1>2 DEF PairsOf
<1>5. PairsOf(fs) \subseteq PairsOf(gs)
    BY <1>2 DEF PairsOf
<1>6. f.head # Null => <<f.head, f.tail>> \in PairsOf(gs)
    BY <1>2 DEF PairsOf
<1>. QED  BY <1>1, <1>3, <1>4, <1>5, <1>6

\* The innermost container and those around it.
LEMMA Innermosts ==
    ASSUME NEW fs \in Seq(Frame), fs # <<>>
    PROVE  /\ SubSeq(fs, 1, Len(fs) - 1) \in Seq(Frame)
           /\ fs[Len(fs)] \in Frame
           /\ fs = Append(SubSeq(fs, 1, Len(fs) - 1), fs[Len(fs)])
           /\ Len(SubSeq(fs, 1, Len(fs) - 1)) = Len(fs) - 1
<1>1. Len(fs) \in Nat /\ Len(fs) # 0
    OBVIOUS
<1>2. PICK n \in Nat : n + 1 = Len(fs) /\ n = Len(fs) - 1
    BY <1>1
<1>3. PICK b : b = SubSeq(fs, 1, n)
    OBVIOUS
<1>4. b \in Seq(Frame) /\ Len(b) = n /\ \A i \in 1..n : b[i] = fs[i]
    BY <1>2, <1>3
<1>5. fs[n + 1] \in Frame
    BY <1>2
<1>6. PICK a : a = Append(b, fs[n + 1])
    OBVIOUS
<1>7. /\ a \in Seq(Frame) /\ Len(a) = n + 1
      /\ \A i \in 1..n + 1 : a[i] = fs[i]
    <2>1. a \in Seq(Frame) /\ Len(a) = n + 1 /\ a[n + 1] = fs[n + 1]
          /\ \A i \in 1..n : a[i] = b[i]
        BY <1>4, <1>5, <1>6, Appended
    <2>2. \A i \in 1..n + 1 : i = n + 1 \/ i \in 1..n
        OBVIOUS
    <2>. QED  BY <1>4, <2>1, <2>2
<1>8. a = fs
    <2>1. a = [i \in 1..n + 1 |-> a[i]] /\ fs = [i \in 1..n + 1 |-> fs[i]]
        BY <1>2, <1>7
    <2>2. [i \in 1..n + 1 |-> a[i]] = [i \in 1..n + 1 |-> fs[i]]
        BY <1>7
    <2>. QED  BY <2>1, <2>2
<1>. QED  BY <1>2, <1>3, <1>4, <1>5, <1>6, <1>8

LEMMA StackedKept ==
    ASSUME NEW H, NEW fs, NEW r, Stacked(H, fs, r), NEW G,
           \A i \in 1..Len(fs) : /\ fs[i].owner \in Items(G)
                                 /\ G[fs[i].owner].child = H[fs[i].owner].child
    PROVE  Stacked(G, fs, r)
BY DEF Stacked

LEMMA StackedPush ==
    ASSUME NEW H, NEW fs \in Seq(Frame), NEW r, Stacked(H, fs, r),
           \A i \in 1..Len(fs) : fs[i].head # Null, r # Null,
           NEW f \in Frame, f.owner = CurrentOf(fs, r), f.owner \in Items(H),
           H[f.owner].child = Null, f.head = Null, f.tail = Null
    PROVE  Stacked(H, Append(fs, f), r)
<1>1. PICK gs : gs = Append(fs, f)
    OBVIOUS
<1>2. PICK n \in Nat : n = Len(fs)
    BY Appended
<1>3. /\ Len(gs) = n + 1 /\ gs[n + 1] = f
      /\ \A i \in 1..n : gs[i] = fs[i]
      /\ \A i \in 1..n + 1 : i = n + 1 \/ i \in 1..n
    BY <1>1, <1>2, Appended
<1>4. \A i \in 1..n + 1 : OwnerOf(gs, r, i) = OwnerOf(fs, r, i)
    BY <1>3 DEF OwnerOf
<1>5. ASSUME NEW i \in 1..n + 1
      PROVE  /\ gs[i].owner = OwnerOf(gs, r, i)
             /\ gs[i].owner \in Items(H)
             /\ H[gs[i].owner].child = Null
             /\ gs[i].head = Null <=> gs[i].tail = Null
             /\ i < n + 1 => gs[i].head # Null
             /\ gs[i].head # r
    BY <1>2, <1>3, <1>4 DEF Stacked, CurrentOf
<1>6. ASSUME NEW i \in 1..n + 1, NEW j \in 1..n + 1, gs[i].head = gs[j].head
      PROVE  i = j
    BY <1>2, <1>3, <1>6 DEF Stacked
<1>. QED  BY <1>1, <1>3, <1>5, <1>6 DEF Stacked

LEMMA StackedPop ==
    ASSUME NEW H, NEW fs \in Seq(Frame), NEW r, NEW f \in Frame,
           Stacked(H, Append(fs, f), r)
    PROVE  /\ Stacked(H, fs, r)
           /\ \A i \in 1..Len(fs) : fs[i].head # Null
           /\ f.head \notin HeadsOf(fs) /\ f.head # r
           /\ f.owner = CurrentOf(fs, r) /\ f.owner \in Items(H)
           /\ H[f.owner].child = Null
           /\ f.head = Null <=> f.tail = Null
<1>1. PICK gs : gs = Append(fs, f)
    OBVIOUS
<1>2. PICK n \in Nat : n = Len(fs)
    BY Appended
<1>3. /\ Len(gs) = n + 1 /\ gs[n + 1] = f
      /\ \A i \in 1..n : gs[i] = fs[i] /\ i \in 1..n + 1 /\ i < n + 1 /\ i # n + 1
      /\ n + 1 \in 1..n + 1
    BY <1>1, <1>2, Appended
<1>4. \A i \in 1..n + 1 : OwnerOf(gs, r, i) = OwnerOf(fs, r, i)
    BY <1>3 DEF OwnerOf
<1>5. /\ \A i \in 1..n + 1 :
          /\ gs[i].owner = OwnerOf(gs, r, i)
          /\ gs[i].owner \in Items(H)
          /\ H[gs[i].owner].child = Null
          /\ gs[i].head = Null <=> gs[i].tail = Null
          /\ i < n + 1 => gs[i].head # Null
          /\ gs[i].head # r
      /\ \A i, j \in 1..n + 1 : gs[i].head = gs[j].head => i = j
    BY <1>1, <1>3 DEF Stacked
<1>6. \A i \in 1..n : fs[i].head # f.head
    BY <1>3, <1>5
<1>7. f.head \notin HeadsOf(fs)
    BY <1>2, <1>6 DEF HeadsOf
<1>8. \A i \in 1..n :
          /\ fs[i].owner = OwnerOf(fs, r, i)
          /\ fs[i].owner \in Items(H)
          /\ H[fs[i].owner].child = Null
          /\ fs[i].head = Null <=> fs[i].tail = Null
          /\ fs[i].head # Null
          /\ fs[i].head # r
    BY <1>3, <1>4, <1>5
<1>9. \A i, j \in 1..n : fs[i].head = fs[j].head => i = j
    BY <1>3, <1>5
<1>10. Stacked(H, fs, r)
    BY <1>2, <1>8, <1>9 DEF Stacked
<1>11. /\ f.owner = CurrentOf(fs, r) /\ f.owner \in Items(H)
       /\ H[f.owner].child = Null
       /\ f.head = Null <=> f.tail = Null
       /\ f.head # r
    BY <1>2, <1>3, <1>4, <1>5 DEF CurrentOf
<1>. QED  BY <1>2, <1>7, <1>8, <1>10, <1>11

\* The list of the innermost container grows.
LEMMA StackedGrow ==
    ASSUME NEW H, NEW fs \in Seq(Frame), NEW r, NEW f \in Frame,
           Stacked(H, Append(fs, f), r), NEW g \in Frame,
           g.owner = f.owner, g.head # Null, g.tail # Null,
           g.head \notin HeadsOf(fs), g.head # r
    PROVE  Stacked(H, Append(fs, g), r)
<1>1. PICK gs : gs = Append(fs, g)
    OBVIOUS
<1>2. PICK n \in Nat : n = Len(fs)
    BY Appended
<1>3. /\ Len(gs) = n + 1 /\ gs[n + 1] = g
      /\ \A i \in 1..n : gs[i] = fs[i]
      /\ \A i \in 1..n + 1 : i = n + 1 \/ i \in 1..n
    BY <1>1, <1>2, Appended
<1>4. \A i \in 1..n + 1 : OwnerOf(gs, r, i) = OwnerOf(fs, r, i)
    BY <1>3 DEF OwnerOf
<1>5. /\ Stacked(H, fs, r)
      /\ \A i \in 1..n : fs[i].head # Null
      /\ f.owner = CurrentOf(fs, r) /\ f.owner \in Items(H)
      /\ H[f.owner].child = Null
    BY <1>2, StackedPop
<1>6. ASSUME NEW i \in 1..n + 1
      PROVE  /\ gs[i].owner = OwnerOf(gs, r, i)
             /\ gs[i].owner \in Items(H)
             /\ H[gs[i].owner].child = Null
             /\ gs[i].head = Null <=> gs[i].tail = Null
             /\ i < n + 1 => gs[i].head # Null
             /\ gs[i].head # r
    BY <1>2, <1>3, <1>4, <1>5 DEF Stacked, CurrentOf
<1>7. \A i \in 1..n : fs[i].head # g.head
    BY <1>2 DEF HeadsOf
<1>8. ASSUME NEW i \in 1..n + 1, NEW j \in 1..n + 1, gs[i].head = gs[j].head
      PROVE  i = j
    BY <1>2, <1>3, <1>5, <1>7, <1>8 DEF Stacked
<1>. QED  BY <1>1, <1>3, <1>6, <1>8 DEF Stacked
-----------------------------------------------------------------------------
(***************************************************************************)
(* The inductive invariant                                                 *)
(***************************************************************************)

\* What a call that prints has returned.
Given == IF at = "returned" /\ call.op \in Printers THEN {result} ELSE {}

\* The roots of what is allocated.
Tops == ({root, raw, output, buffer} \cup HeadsOf(frames) \cup Given) \ {Null}

IsBytes(H, p) == p \in DOMAIN H /\ p \notin Items(H)

KindsInv ==
    /\ root # Null => root \in Items(heap)
    /\ \A p \in {raw, output, buffer} \cup Given : p # Null => IsBytes(heap, p)
    /\ raw # Null => output # raw

MemoryInv == Sound(heap, Tops, PairsOf(frames))

StackInv ==
    /\ Stacked(heap, frames, root)
    /\ frames # <<>> /\ parser \notin {"element", "fail"} => Top.head # Null

\* The item that is being parsed owns nothing but its name yet.
WaitingInv ==
    /\ parser \in {"value", "string", "name"} =>
          /\ item = CurrentOf(frames, root)
          /\ item \in Items(heap)
          /\ heap[item].child = Null
          /\ heap[item].valuestring = Null
    /\ parser = "name" => heap[item].string = Null

Blocks == KindsInv /\ MemoryInv /\ StackInv /\ WaitingInv

Inv == Places /\ Blocks

LEMMA InvFacts ==
    ASSUME MemoryInv
    PROVE  /\ Typed(heap) /\ IsFiniteSet(Live) /\ DOMAIN heap = Live
           /\ Fresh \in Nat \ {0} /\ Fresh \notin Live /\ Fresh # Null
           /\ Tops \subseteq Live /\ Null \notin Live
           /\ Forest(heap, Tops)
<1>1. Forest(heap, Tops) /\ Typed(heap)
    BY DEF MemoryInv, Sound, Forest
<1>2. IsFiniteSet(Live) /\ DOMAIN heap = Live
    BY <1>1 DEF Typed, Live
<1>3. Null \notin Live
    BY <1>1 DEF Typed, Live, Null
<1>4. Tops \subseteq Live
    BY <1>1 DEF Forest, Live
<1>. QED  BY <1>1, <1>2, <1>3, <1>4, FreshIsFree DEF Null

\* No list is open outside the parser.
LEMMA Calm ==
    Places /\ at # "parse" =>
        /\ StackInv /\ WaitingInv /\ frames = <<>>
        /\ raw = Null /\ output = Null
        /\ HeadsOf(frames) = {} /\ PairsOf(frames) = {}
<1>. SUFFICES ASSUME Places, at # "parse"
              PROVE  /\ StackInv /\ WaitingInv /\ frames = <<>>
                     /\ raw = Null /\ output = Null
                     /\ HeadsOf(frames) = {} /\ PairsOf(frames) = {}
    OBVIOUS
<1>1. frames = <<>> /\ parser = "idle" /\ raw = Null /\ output = Null
    BY DEF Places, ControlInv
<1>2. Len(frames) = 0 /\ \A i \in 1..0 : FALSE
    BY <1>1
<1>3. StackInv /\ WaitingInv
    BY <1>1, <1>2 DEF StackInv, WaitingInv, Stacked
<1>4. HeadsOf(frames) = {} /\ PairsOf(frames) = {}
    BY <1>2 DEF HeadsOf, PairsOf
<1>. QED  BY <1>1, <1>3, <1>4

LEMMA CalmTops ==
    Places /\ at # "parse" =>
        /\ Tops = ({root, buffer} \cup Given) \ {Null}
        /\ KindsInv <=> /\ root # Null => root \in Items(heap)
                        /\ \A p \in {buffer} \cup Given :
                              p # Null => IsBytes(heap, p)
BY Calm DEF Tops, KindsInv

\* The same of the state after a step.
LEMMA CalmNext ==
    Places' /\ at' # "parse" =>
        /\ StackInv' /\ WaitingInv' /\ frames' = <<>>
        /\ HeadsOf(frames)' = {} /\ PairsOf(frames)' = {}
        /\ Tops' = ({root', buffer'} \cup Given') \ {Null}
        /\ KindsInv' <=> /\ root' # Null => root' \in Items(heap')
                         /\ \A p \in {buffer'} \cup Given' :
                               p # Null => IsBytes(heap', p)
<1>1. (Places /\ at # "parse")' =>
        /\ StackInv' /\ WaitingInv' /\ (frames = <<>>)'
        /\ (HeadsOf(frames) = {})' /\ (PairsOf(frames) = {})'
    BY Calm, PTL
<1>2. (Places /\ at # "parse")' =>
        /\ (Tops = ({root, buffer} \cup Given) \ {Null})'
        /\ (KindsInv <=> /\ root # Null => root \in Items(heap)
                         /\ \A p \in {buffer} \cup Given :
                               p # Null => IsBytes(heap, p))'
    BY CalmTops, PTL
<1>. QED  BY <1>1, <1>2

\* Steps that leave the memory and the pointers to it as they are.
LEMMA Quiet ==
    ASSUME KindsInv, MemoryInv, UNCHANGED <<heap, root, raw, output, buffer, frames>>,
           Given' \subseteq Given \cup {Null}, Given \subseteq Given' \cup {Null}
    PROVE  KindsInv' /\ MemoryInv'
<1>1. Tops' = Tops
    BY DEF Tops, HeadsOf
<1>2. MemoryInv'
    BY <1>1 DEF MemoryInv, PairsOf
<1>3. KindsInv'
    BY DEF KindsInv
<1>. QED  BY <1>2, <1>3

LEMMA WithAdds == ASSUME NEW p, NEW block PROVE With(p, block) = Added(heap, p, block)
BY DEF With, Added, Live

LEMMA WithoutRests == ASSUME NEW D PROVE Without(D) = Rest(heap, D)
BY DEF Without, Rest, Live

LEMMA NewBytes == ASSUME NEW b PROVE IsNew(Bytes(b)) /\ Bytes(b).block = "bytes"
BY DEF IsNew, Bytes

\* The kinds of the blocks that a change leaves.
LEMMA FreedKinds ==
    ASSUME NEW H, NEW D
    PROVE  \A p : p \notin D => /\ p \in Items(H) => p \in Items(Rest(H, D))
                                /\ IsBytes(H, p) => IsBytes(Rest(H, D), p)
BY DEF Rest, Items, IsBytes

LEMMA AddedKinds ==
    ASSUME NEW H, NEW n, n \notin DOMAIN H, NEW block
    PROVE  /\ \A p : /\ p \in Items(H) => p \in Items(Added(H, n, block))
                     /\ IsBytes(H, p) => IsBytes(Added(H, n, block), p)
           /\ block.block = "item" => n \in Items(Added(H, n, block))
           /\ block.block = "bytes" => IsBytes(Added(H, n, block), n)
BY DEF Added, Items, IsBytes

LEMMA ShapedKinds ==
    ASSUME NEW H, NEW G, Shaped(H, G)
    PROVE  \A p : /\ p \in Items(H) <=> p \in Items(G)
                  /\ IsBytes(H, p) <=> IsBytes(G, p)
BY ShapedItems DEF Shaped, IsBytes

\* Freeing a block that owns nothing.
LEMMA FreedBytes ==
    ASSUME NEW H, NEW t, IsBytes(H, t) PROVE Freed(H, {t}, t)
BY DEF Freed, Keeps, IsBytes
-----------------------------------------------------------------------------
(***************************************************************************)
(* The steps of a call                                                     *)
(***************************************************************************)

LEMMA CallsBlocks ==
    ASSUME Inv, Places',
           \/ Call \/ DispatchAnswers \/ SchemeAnswers \/ NothingToParse
           \/ ParamsNotCopied \/ NoTree \/ ReturnTree \/ StartPrint
    PROVE  Blocks'
<1>1. /\ UNCHANGED <<heap, root, raw, output, buffer, frames>>
      /\ at' # "parse" /\ at # "returned"
    BY DEF Call, DispatchAnswers, SchemeAnswers, NothingToParse, Parses, Return,
           ParamsNotCopied, NoTree, ReturnTree, StartPrint, BeginPrint,
           parserVars, printerVars, bufferVars, stringVars, heapVars
<1>2. Given = {}
    BY <1>1 DEF Given
<1>3. Given' \subseteq {Null}
    <2>1. CASE Call \/ StartPrint
        BY <2>1 DEF Call, StartPrint, Given
    <2>2. CASE DispatchAnswers \/ SchemeAnswers \/ ReturnTree
        BY <2>2 DEF DispatchAnswers, SchemeAnswers, ReturnTree, Given, Printers
    <2>3. CASE NothingToParse \/ ParamsNotCopied \/ NoTree
        BY <2>3 DEF NothingToParse, ParamsNotCopied, NoTree, Return, Given, Null
    <2>. QED  BY <2>1, <2>2, <2>3
<1>4. KindsInv' /\ MemoryInv'
    BY <1>1, <1>2, <1>3, Quiet DEF Inv, Blocks
<1>5. StackInv' /\ WaitingInv'
    BY <1>1, CalmNext
<1>. QED  BY <1>4, <1>5 DEF Blocks

LEMMA CopyBlocks ==
    ASSUME Inv, Places', CopyParams
    PROVE  Blocks'
<1>1. /\ at = "called" /\ at' = "parse" /\ raw' = Fresh /\ root' = Null
      /\ frames' = <<>> /\ parser' = "root"
      /\ UNCHANGED <<output, buffer>>
      /\ heap' = Added(heap, Fresh, Bytes(call.params))
    BY WithAdds DEF CopyParams, Parses, BeginParse, stringVars, printerVars, bufferVars
<1>2. PICK n \in Nat \ {0} : n = Fresh /\ n \notin Live /\ n # Null
    BY InvFacts DEF Inv, Blocks
<1>3. DOMAIN heap = Live
    BY DEF Live
<1>4. root = Null /\ buffer = Null /\ Given = {} /\ Given' = {}
    BY <1>1 DEF Inv, Places, ControlInv, RootInv, Given
<1>5. Tops = {} /\ PairsOf(frames) = {} /\ output = Null
    BY <1>1, <1>4, Calm, CalmTops DEF Inv
<1>6. HeadsOf(<<>>) = {} /\ PairsOf(<<>>) = {}
    BY DEF HeadsOf, PairsOf
<1>7. Tops' = {n} /\ PairsOf(frames') = {}
    BY <1>1, <1>2, <1>4, <1>5, <1>6 DEF Tops
<1>8. MemoryInv'
    <2>1. Sound(heap, {}, {})
        BY <1>5 DEF Inv, Blocks, MemoryInv
    <2>2. Sound(Added(heap, n, Bytes(call.params)), {} \cup {n}, {})
        BY <1>2, <1>3, <2>1, NewBytes, AddedLists
    <2>. QED  BY <1>1, <1>2, <1>7, <2>2 DEF MemoryInv
<1>9. KindsInv'
    <2>1. IsBytes(heap', n)
        BY <1>1, <1>2, <1>3, AddedKinds, NewBytes
    <2>. QED  BY <1>1, <1>2, <1>4, <1>5, <2>1 DEF KindsInv
<1>10. StackInv' /\ WaitingInv'
    <2>1. Len(<<>>) = 0 /\ \A i \in 1..0 : FALSE
        OBVIOUS
    <2>. QED  BY <1>1, <2>1 DEF StackInv, WaitingInv, Stacked
<1>. QED  BY <1>8, <1>9, <1>10 DEF Blocks

LEMMA ParseEndsBlocks ==
    ASSUME Inv, Places', ParseEnds
    PROVE  Blocks'
<1>1. /\ at = "parse" /\ parser = "done" /\ at' = "parsed" /\ raw' = Null
      /\ UNCHANGED <<output, buffer, root, frames>>
      /\ heap' = Rest(heap, {raw})
    BY WithoutRests DEF ParseEnds, stringVars, printerVars, bufferVars
<1>2. /\ raw # Null /\ frames = <<>> /\ output = Null /\ buffer = Null
      /\ Given = {} /\ Given' = {}
    BY <1>1 DEF Inv, Places, ControlInv, RootInv, Given
<1>3. IsBytes(heap, raw) /\ root # raw
    BY <1>2 DEF Inv, Blocks, KindsInv, IsBytes
<1>4. HeadsOf(<<>>) = {} /\ PairsOf(<<>>) = {}
    BY DEF HeadsOf, PairsOf
<1>5. raw \in Tops /\ Tops' = Tops \ {raw} /\ PairsOf(frames) = {}
    BY <1>1, <1>2, <1>3, <1>4 DEF Tops
<1>6. Sound(heap, Tops, {}) /\ Freed(heap, {raw}, raw)
    BY <1>3, <1>5, FreedBytes DEF Inv, Blocks, MemoryInv
<1>7. Sound(Rest(heap, {raw}), Tops \ {raw}, {})
    BY <1>5, <1>6, FreedLists
<1>8. MemoryInv'
    BY <1>1, <1>5, <1>7 DEF MemoryInv
<1>9. KindsInv'
    BY <1>1, <1>2, <1>3, FreedKinds DEF Inv, Blocks, KindsInv
<1>10. StackInv' /\ WaitingInv'
    BY <1>1, CalmNext
<1>. QED  BY <1>8, <1>9, <1>10 DEF Blocks

\* The tree is deleted: by the validator, and when its text is returned.
LEMMA TreeBlocks ==
    ASSUME Inv, Places', MaxConcurrent \/ PrintEnds
    PROVE  Blocks'
<1>1. /\ at \in {"parsed", "print"} /\ at' = "returned" /\ root # Null
      /\ root' = Null
      /\ UNCHANGED <<raw, output, frames>>
      /\ heap' = Rest(heap, cJSON_Delete(root))
    BY WithoutRests DEF MaxConcurrent, PrintEnds, Return, stringVars, Inv, Places,
                        RootInv
<1>2. {buffer} \cup Given = {buffer}
      /\ ({buffer} \cup Given)' \subseteq {buffer, Null} /\ buffer' = Null
      /\ buffer \in ({buffer} \cup Given)' \cup {Null}
    <2>1. Given = {}
        BY <1>1 DEF Given
    <2>2. CASE MaxConcurrent
        <3>1. buffer = Null /\ buffer' = Null /\ Given' = {}
            BY <2>2 DEF MaxConcurrent, Validators, Printers, printerVars, bufferVars,
                        Given, Inv, Places, ControlInv
        <3>. QED  BY <2>1, <3>1
    <2>3. CASE PrintEnds
        <3>1. buffer' = Null /\ result' = buffer /\ call' = call /\ at' = "returned"
            BY <2>3 DEF PrintEnds, Return, Forget
        <3>2. call.op \in Printers
            BY <2>3 DEF PrintEnds, Inv, Places, ControlInv
        <3>. QED  BY <2>1, <3>1, <3>2 DEF Given
    <2>. QED  BY <2>2, <2>3
<1>3. root \in Items(heap) /\ (buffer # Null => IsBytes(heap, buffer))
    BY <1>1 DEF Inv, Blocks, KindsInv
<1>4. Tops = ({root, buffer} \cup Given) \ {Null} /\ PairsOf(frames) = {}
    BY <1>1, Calm, CalmTops DEF Inv
<1>5. Tops' = ({root, buffer} \cup Given)' \ {Null} /\ PairsOf(frames)' = {}
    BY <1>1, CalmNext
<1>6. root \in Tops /\ Tops' = Tops \ {root}
    BY <1>1, <1>2, <1>3, <1>4, <1>5 DEF IsBytes
<1>7. Freed(heap, cJSON_Delete(root), root)
    BY <1>6, InvFacts, DeleteFrees DEF Inv, Blocks
<1>8. MemoryInv'
    <2>1. Sound(heap, Tops, {})
        BY <1>4 DEF Inv, Blocks, MemoryInv
    <2>2. Sound(Rest(heap, cJSON_Delete(root)), Tops \ {root}, {})
        BY <1>6, <1>7, <2>1, FreedLists
    <2>. QED  BY <1>1, <1>5, <1>6, <2>2 DEF MemoryInv
<1>9. KindsInv'
    <2>1. buffer # Null => buffer \in Tops /\ buffer # root
        BY <1>3, <1>4 DEF IsBytes
    <2>2. buffer # Null => buffer \notin cJSON_Delete(root)
        BY <1>6, <1>7, <2>1, InvFacts, NotFreed DEF Inv, Blocks, Forest
    <2>3. \A p \in {buffer} \cup Given' : p # Null => IsBytes(heap', p)
        BY <1>1, <1>2, <1>3, <2>2, FreedKinds
    <2>. QED  BY <1>1, <1>2, <2>3, CalmNext
<1>10. StackInv' /\ WaitingInv'
    BY <1>1, CalmNext
<1>. QED  BY <1>8, <1>9, <1>10 DEF Blocks
-----------------------------------------------------------------------------
(***************************************************************************)
(* The steps of the printer, the copy of its text, the caller              *)
(***************************************************************************)

LEMMA RestNothing ==
    ASSUME NEW H, NEW T, NEW P, Sound(H, T, P), NEW D, D \cap DOMAIN H = {}
    PROVE  Sound(Rest(H, D), T, P)
<1>1. PICK G : G = Rest(H, D)
    OBVIOUS
<1>2. DOMAIN G = DOMAIN H /\ \A p \in DOMAIN H : G[p] = H[p]
    BY <1>1 DEF Rest
<1>3. Items(H) \subseteq DOMAIN H
    BY DEF Items
<1>4. Shaped(H, G)
    BY <1>2, <1>3 DEF Shaped
<1>5. \A p \in Items(H) : \A f \in Fields \cup {"prev"} : G[p][f] = H[p][f]
    BY <1>2, <1>3
<1>6. Sound(G, T, P)
    BY <1>4, <1>5, ContentsSound
<1>. QED  BY <1>1, <1>6

\* The contents of a block of bytes change.
LEMMA BytesChanged ==
    ASSUME NEW H, NEW T, NEW P, Sound(H, T, P), NEW p, IsBytes(H, p), NEW G,
           DOMAIN G = DOMAIN H, \A q \in DOMAIN H : q # p => G[q] = H[q],
           G[p].block = "bytes"
    PROVE  Shaped(H, G) /\ Sound(G, T, P)
<1>1. H[p].block = "bytes" /\ p \in DOMAIN H /\ p \notin Items(H)
    <2>1. \A q \in DOMAIN H : H[q].block \in {"item", "bytes"}
        BY DEF Sound, Forest, Typed
    <2>. QED  BY <2>1 DEF IsBytes, Items
<1>2. \A q \in Items(H) : q \in DOMAIN H /\ q # p
    BY <1>1 DEF Items
<1>3. Shaped(H, G)
    BY <1>1, <1>2 DEF Shaped
<1>4. \A q \in Items(H) : \A f \in Fields \cup {"prev"} : G[q][f] = H[q][f]
    BY <1>2
<1>. QED  BY <1>3, <1>4, ContentsSound

LEMMA PrintBlocks ==
    ASSUME Inv, Places', PrintGoesOn
    PROVE  Blocks'
<1>1. /\ at = "print" /\ at' = "print" /\ PrinterStep
      /\ UNCHANGED <<root, raw, output, frames>>
    BY DEF PrintGoesOn, parserVars, stringVars
<1>2. Given = {} /\ Given' = {}
    BY <1>1 DEF Given
<1>3. /\ Tops = {root, buffer} \ {Null} /\ PairsOf(frames) = {}
      /\ root # Null => root \in Items(heap)
      /\ buffer # Null => IsBytes(heap, buffer)
    BY <1>1, <1>2, Calm, CalmTops DEF Inv, Blocks
<1>4. /\ Tops' = {root, buffer'} \ {Null} /\ PairsOf(frames)' = {}
      /\ KindsInv' <=> /\ root # Null => root \in Items(heap')
                       /\ buffer' # Null => IsBytes(heap', buffer')
    BY <1>1, <1>2, CalmNext
<1>5. Sound(heap, Tops, {}) /\ DOMAIN heap = Live
    BY <1>3 DEF Inv, Blocks, MemoryInv, Live
<1>6. StackInv' /\ WaitingInv'
    BY <1>1, CalmNext
<1>7. CASE NewBufferMade
    <2>1. buffer = Null
        BY <1>7 DEF NewBufferMade, Inv, Places, ControlInv
    <2>2. PICK n \in Nat \ {0} : n = Fresh /\ n \notin Live /\ n # Null
        BY InvFacts DEF Inv, Blocks
    <2>3. buffer' = n /\ heap' = Added(heap, n, Bytes(<<>>))
        BY <1>7, <2>2, WithAdds DEF NewBufferMade
    <2>4. Sound(Added(heap, n, Bytes(<<>>)), Tops \cup {n}, {})
        BY <1>5, <2>2, NewBytes, AddedLists
    <2>5. Tops' = Tops \cup {n}
        BY <1>3, <1>4, <2>1, <2>2, <2>3
    <2>6. MemoryInv'
        BY <1>4, <2>3, <2>4, <2>5 DEF MemoryInv
    <2>7. KindsInv'
        BY <1>3, <1>4, <1>5, <2>2, <2>3, AddedKinds, NewBytes
    <2>. QED  BY <1>6, <2>6, <2>7 DEF Blocks
<1>8. CASE BufferDropped
    <2>1. buffer' = Null /\ heap' = Rest(heap, {buffer})
        BY <1>8, WithoutRests DEF BufferDropped
    <2>2. Sound(Rest(heap, {buffer}), Tops \ {buffer}, {})
        <3>1. CASE buffer = Null
            <4>1. Null \notin Live /\ Tops \subseteq Live
                BY InvFacts DEF Inv, Blocks
            <4>2. {buffer} \cap DOMAIN heap = {} /\ Tops \ {buffer} = Tops
                BY <1>5, <3>1, <4>1
            <4>. QED  BY <1>5, <4>2, RestNothing
        <3>2. CASE buffer # Null
            BY <1>3, <1>5, <3>2, FreedBytes, FreedLists
        <3>. QED  BY <3>1, <3>2
    <2>3. root # Null => root # buffer
        BY <1>3 DEF IsBytes
    <2>4. Tops' = Tops \ {buffer}
        BY <1>3, <1>4, <2>1, <2>3
    <2>5. MemoryInv'
        BY <1>4, <2>1, <2>2, <2>4 DEF MemoryInv
    <2>6. KindsInv'
        BY <1>3, <1>4, <2>1, <2>3, FreedKinds
    <2>. QED  BY <1>6, <2>5, <2>6 DEF Blocks
<1>9. CASE BufferCut
    <2>1. buffer # Null /\ IsBytes(heap, buffer)
        BY <1>3, <1>9 DEF BufferCut, Inv, Places, ControlInv
    <2>2. /\ buffer' = buffer /\ DOMAIN heap' = DOMAIN heap
          /\ \A q \in DOMAIN heap : q # buffer => heap'[q] = heap[q]
          /\ heap'[buffer] = [heap[buffer] EXCEPT !.bytes = Printed]
        BY <1>9, <2>1 DEF BufferCut, IsBytes
    <2>3. heap[buffer].block = "bytes"
        BY <1>5, <2>1 DEF Sound, Forest, Typed, IsBytes, Items
    <2>4. heap'[buffer].block = "bytes"
        BY <2>2, <2>3
    <2>5. Shaped(heap, heap') /\ Sound(heap', Tops, {})
        BY <1>5, <2>1, <2>2, <2>4, BytesChanged
    <2>6. MemoryInv'
        BY <1>3, <1>4, <2>2, <2>5 DEF MemoryInv
    <2>7. KindsInv'
        BY <1>3, <1>4, <2>2, <2>5, ShapedKinds
    <2>. QED  BY <1>6, <2>6, <2>7 DEF Blocks
<1>10. CASE BufferKept
    BY <1>1, <1>2, <1>6, <1>10, Quiet DEF BufferKept, Inv, Blocks
<1>. QED  BY <1>1, <1>7, <1>8, <1>9, <1>10, PrinterMoves

\* The text is copied for the caller, and the buffer freed.
LEMMA FromJsonBlocks ==
    ASSUME Inv, Places', FromJsonEnds
    PROVE  Blocks'
<1>1. /\ at = "print" /\ at' = "returned" /\ buffer' = Null
      /\ call.op = "from_json" /\ call' = call
      /\ UNCHANGED <<root, raw, output, frames>>
    BY DEF FromJsonEnds, Return, Forget, parserVars, stringVars
<1>2. Given = {} /\ Given' = {result'}
    BY <1>1 DEF Given, Printers
<1>3. /\ Tops = {root, buffer} \ {Null} /\ PairsOf(frames) = {}
      /\ root # Null => root \in Items(heap)
      /\ buffer # Null => IsBytes(heap, buffer)
    BY <1>1, <1>2, Calm, CalmTops DEF Inv, Blocks
<1>4. /\ Tops' = {root, result'} \ {Null} /\ PairsOf(frames)' = {}
      /\ KindsInv' <=> /\ root # Null => root \in Items(heap')
                       /\ result' # Null => IsBytes(heap', result')
    BY <1>1, <1>2, CalmNext
<1>5. Sound(heap, Tops, {}) /\ DOMAIN heap = Live /\ Null \notin Live
    BY <1>3, InvFacts DEF Inv, Blocks, MemoryInv
<1>6. StackInv' /\ WaitingInv'
    BY <1>1, CalmNext
<1>7. root # Null => root # buffer
    BY <1>3 DEF IsBytes
<1>8. CASE /\ buffer # Null /\ result' = Fresh
           /\ heap' = [q \in (Live \cup {Fresh}) \ {buffer} |->
                         IF q = Fresh THEN heap[buffer] ELSE heap[q]]
    <2>1. PICK n \in Nat \ {0} : n = Fresh /\ n \notin Live /\ n # Null
        BY InvFacts DEF Inv, Blocks
    <2>2. IsBytes(heap, buffer) /\ buffer # n /\ buffer \in Tops
        BY <1>3, <1>5, <1>8, <2>1 DEF IsBytes
    <2>3. heap[buffer].block = "bytes" /\ IsNew(heap[buffer])
        BY <1>5, <2>2 DEF Sound, Forest, Typed, IsBytes, Items, IsNew
    <2>4. PICK H : H = Added(heap, n, heap[buffer])
        OBVIOUS
    <2>5. Sound(H, Tops \cup {n}, {})
        BY <1>5, <2>1, <2>3, <2>4, AddedLists
    <2>6. /\ \A p : p \in Items(heap) => p \in Items(H)
          /\ IsBytes(H, buffer) /\ IsBytes(H, n)
        BY <1>5, <2>1, <2>2, <2>3, <2>4, AddedKinds
    <2>7. Sound(Rest(H, {buffer}), (Tops \cup {n}) \ {buffer}, {})
        BY <2>2, <2>5, <2>6, FreedBytes, FreedLists
    <2>8. heap' = Rest(H, {buffer})
        <3>1. heap' = [q \in (Live \cup {n}) \ {buffer} |->
                         IF q = n THEN heap[buffer] ELSE heap[q]]
            BY <1>8, <2>1
        <3>2. DOMAIN H = Live \cup {n}
              /\ \A q \in Live \cup {n} :
                    H[q] = IF q = n THEN heap[buffer] ELSE heap[q]
            BY <1>5, <2>4 DEF Added
        <3>. QED  BY <3>1, <3>2 DEF Rest
    <2>9. (Tops \cup {n}) \ {buffer} = {root, n} \ {Null}
        BY <1>3, <1>7, <1>8, <2>1, <2>2
    <2>10. MemoryInv'
        BY <1>4, <1>8, <2>1, <2>7, <2>8, <2>9 DEF MemoryInv
    <2>11. root # Null => root \in Items(heap')
        BY <1>3, <1>7, <2>6, <2>8, FreedKinds
    <2>12. IsBytes(heap', n)
        BY <2>2, <2>6, <2>8, FreedKinds
    <2>. QED  BY <1>4, <1>6, <1>8, <2>1, <2>10, <2>11, <2>12 DEF Blocks
<1>9. CASE buffer # Null /\ result' = Null /\ heap' = Without({buffer})
    <2>1. heap' = Rest(heap, {buffer})
        BY <1>9, WithoutRests
    <2>2. Sound(Rest(heap, {buffer}), Tops \ {buffer}, {})
        BY <1>3, <1>5, <1>9, FreedBytes, FreedLists
    <2>3. Tops' = Tops \ {buffer}
        BY <1>3, <1>4, <1>7, <1>9
    <2>4. MemoryInv'
        BY <1>4, <2>1, <2>2, <2>3 DEF MemoryInv
    <2>5. KindsInv'
        BY <1>3, <1>4, <1>7, <1>9, <2>1, FreedKinds
    <2>. QED  BY <1>6, <2>4, <2>5 DEF Blocks
<1>10. CASE buffer = Null /\ result' = Null /\ heap' = heap
    <2>1. Tops' = Tops
        BY <1>3, <1>4, <1>10
    <2>2. MemoryInv' /\ KindsInv'
        BY <1>3, <1>4, <1>5, <1>10, <2>1 DEF MemoryInv
    <2>. QED  BY <1>6, <2>2 DEF Blocks
<1>. QED  BY <1>8, <1>9, <1>10 DEF FromJsonEnds, Return, heapVars

LEMMA EmptySound ==
    ASSUME NEW H, DOMAIN H = {} PROVE Sound(H, {}, {})
<1>1. Items(H) = {}
    BY DEF Items
<1>2. Forest(H, {})
    BY <1>1, FS_EmptySet DEF Forest, Typed, Exclusive, Reached
<1>. QED  BY <1>1, <1>2 DEF Sound, Links, Lists

\* What the caller owns is all there is.
LEMMA CallerOwnsAll ==
    ASSUME Inv, at = "returned"
    PROVE  Live \subseteq CallerOwns
<1>1. buffer = Null
    BY DEF Inv, Places, ControlInv
<1>2. Tops = ({root} \cup Given) \ {Null}
    BY <1>1, CalmTops DEF Inv
<1>3. ASSUME NEW t \in Tops PROVE cJSON_Delete(t) \subseteq CallerOwns
    <2>1. CASE t \in Given
        BY <2>1 DEF Given, Printers, CallerOwns, Validators
    <2>2. CASE t = root /\ root # Null
        <3>1. call.op = "from_json" \/ (call.op = "parse" /\ result = root)
            BY <2>2 DEF Inv, Places, RootInv
        <3>. QED  BY <2>2, <3>1 DEF CallerOwns, Validators
    <2>. QED  BY <1>2, <2>1, <2>2
<1>4. Live \subseteq UNION {cJSON_Delete(t) : t \in Tops}
    BY InvFacts, RootsAreAll DEF Inv, Blocks
<1>. QED  BY <1>3, <1>4

LEMMA CallerBlocks ==
    ASSUME Inv, Places', CallerFrees \/ ComesBack
    PROVE  Blocks'
<1>1. /\ at = "returned" /\ at' \in {"idle", "called"}
      /\ heap' = Without(CallerOwns) /\ root' = Null
      /\ buffer' = buffer
    BY DEF CallerFrees, ComesBack, CallerHasFreed, ParserForgotten, printerVars,
           bufferVars
<1>2. buffer = Null /\ Given' = {}
    BY <1>1 DEF Given, Inv, Places, ControlInv
<1>3. DOMAIN heap' = {}
    BY <1>1, CallerOwnsAll DEF Without
<1>4. StackInv' /\ WaitingInv' /\ Tops' = {} /\ PairsOf(frames)' = {} /\ KindsInv'
    BY <1>1, <1>2, CalmNext
<1>5. MemoryInv'
    BY <1>3, <1>4, EmptySound DEF MemoryInv
<1>. QED  BY <1>4, <1>5 DEF Blocks
-----------------------------------------------------------------------------
(***************************************************************************)
(* The steps of the parser                                                 *)
(***************************************************************************)

LEMMA ParseFacts ==
    ASSUME Inv, Parse
    PROVE  /\ at = "parse" /\ at' = "parse" /\ ParserStep
           /\ raw' = raw /\ raw # Null
           /\ buffer = Null /\ buffer' = Null
           /\ Given = {} /\ Given' = {}
           /\ IsBytes(heap, raw)
           /\ root # Null => root \in Items(heap) /\ root # raw
           /\ output # Null => IsBytes(heap, output)
           /\ output # raw
           /\ Tops = ({root, raw, output} \cup HeadsOf(frames)) \ {Null}
           /\ Tops' = ({root', raw, output'} \cup HeadsOf(frames')) \ {Null}
           /\ Sound(heap, Tops, PairsOf(frames))
           /\ Typed(heap) /\ DOMAIN heap = Live
           /\ Tops \subseteq Live /\ Null \notin Live
           /\ frames \in Seq(Frame)
           /\ Stacked(heap, frames, root)
<1>1. /\ at = "parse" /\ at' = "parse" /\ ParserStep
      /\ raw' = raw /\ buffer' = buffer
    BY DEF Parse, printerVars, bufferVars
<1>2. raw # Null /\ buffer = Null /\ frames \in Seq(Frame)
    BY <1>1 DEF Inv, Places, ControlInv
<1>3. Given = {} /\ Given' = {}
    BY <1>1 DEF Given
<1>4. /\ IsBytes(heap, raw)
      /\ root # Null => root \in Items(heap) /\ root # raw
      /\ output # Null => IsBytes(heap, output)
      /\ output # raw
    BY <1>2 DEF Inv, Blocks, KindsInv, IsBytes
<1>5. /\ Tops = ({root, raw, output} \cup HeadsOf(frames)) \ {Null}
      /\ Tops' = ({root', raw, output'} \cup HeadsOf(frames')) \ {Null}
    BY <1>1, <1>2, <1>3 DEF Tops, HeadsOf
<1>6. /\ Sound(heap, Tops, PairsOf(frames)) /\ Stacked(heap, frames, root)
    BY DEF Inv, Blocks, MemoryInv, StackInv
<1>. QED  BY <1>1, <1>2, <1>3, <1>4, <1>5, <1>6, InvFacts DEF Inv, Blocks

\* What is to be shown of a step of the parser.
LEMMA ParseGoal ==
    ASSUME Inv, Parse,
           root' # Null => root' \in Items(heap'),
           IsBytes(heap', raw),
           output' # Null => IsBytes(heap', output'),
           output' # raw,
           Sound(heap', ({root', raw, output'} \cup HeadsOf(frames')) \ {Null},
                 PairsOf(frames')),
           StackInv', WaitingInv'
    PROVE  Blocks'
<1>1. KindsInv'
    BY ParseFacts DEF KindsInv
<1>2. MemoryInv'
    <2>1. PairsOf(frames)' = PairsOf(frames')
        BY DEF PairsOf
    <2>. QED  BY <2>1, ParseFacts DEF MemoryInv
<1>. QED  BY <1>1, <1>2 DEF Blocks

\* Steps that leave the memory alone.
LEMMA ParseQuiet ==
    ASSUME Inv, Parse, UNCHANGED <<heap, root, output, frames, item>>,
           \/ parser' \in {"element", "fail"} \/ parser' = parser
           \/ parser' = "done" /\ frames = <<>>
           \/ parser = "value" /\ parser' = "string"
    PROVE  Blocks'
<1>1. KindsInv' /\ MemoryInv'
    BY ParseFacts, Quiet DEF Inv, Blocks
<1>2. StackInv'
    BY DEF StackInv, Inv, Blocks, Top, depth, Stacked
<1>3. WaitingInv'
    BY DEF WaitingInv, Inv, Blocks, CurrentOf
<1>. QED  BY <1>1, <1>2, <1>3 DEF Blocks

LEMMA QuietBlocks ==
    ASSUME Inv, Parse,
           \/ RootFails \/ RootParsed \/ StringValue \/ NoValue \/ ElementFails
           \/ Comma \/ NotClosed \/ StringFailed
           \/ InString /\ UNCHANGED <<heap, output>>
    PROVE  Blocks'
<1>1. UNCHANGED <<heap, root, output, frames, item>>
    <2>1. CASE StringFailed
        <3>1. output = Null
            BY <2>1 DEF StringFailed, Inv, Places, ControlInv
        <3>. QED  BY <2>1, <3>1 DEF StringFailed, StringIdle, heapVars
    <2>2. CASE StringValue
        <3>1. output = Null
            BY <2>2 DEF StringValue, AtValue, Inv, Places, ControlInv
        <3>. QED  BY <2>2, <3>1 DEF StringValue, BeginString, heapVars
    <2>. QED  BY <2>1, <2>2 DEF RootFails, RootParsed, NoValue, ElementFails, Comma,
                 NotClosed, InString, OutOfMemory, ParseFails, heapVars, stringVars
<1>2. \/ parser' \in {"element", "fail"} \/ parser' = parser
      \/ parser' = "done" /\ frames = <<>>
      \/ parser = "value" /\ parser' = "string"
    BY DEF RootFails, RootParsed, StringValue, NoValue, ElementFails, Comma, NotClosed,
           StringFailed, InString, OutOfMemory, ParseFails, AtValue
<1>. QED  BY <1>1, <1>2, ParseQuiet

\* Contents of the item being parsed that are no pointers.
LEMMA ValueBlocks ==
    ASSUME Inv, Parse, Literal \/ parse_number \/ EmptyContainer
    PROVE  Blocks'
<1>1. /\ parser = "value" /\ parser' = "parsed"
      /\ UNCHANGED <<root, output, frames>>
    BY DEF Literal, parse_number, EmptyContainer, AtContainer, AtValue, Parsed,
           stringVars
<1>2. \E change : /\ heap' = SetItem(heap, item, change)
                  /\ DOMAIN change \subseteq {"type", "valuedouble"}
    <2>1. CASE Literal
        <3>1. \E t : heap' = SetItem(heap, item, [type |-> t])
            BY <2>1 DEF Literal
        <3>2. \A t : DOMAIN [type |-> t] = {"type"}
            OBVIOUS
        <3>. QED  BY <3>1, <3>2
    <2>2. CASE parse_number
        <3>1. \E v : heap' = SetItem(heap, item, [type |-> "Number", valuedouble |-> v])
            BY <2>2 DEF parse_number
        <3>2. \A v : DOMAIN [type |-> "Number", valuedouble |-> v]
                        = {"type", "valuedouble"}
            OBVIOUS
        <3>. QED  BY <3>1, <3>2
    <2>3. CASE EmptyContainer
        <3>1. \E t : heap' = SetItem(heap, item, [type |-> t])
            BY <2>3 DEF EmptyContainer
        <3>2. \A t : DOMAIN [type |-> t] = {"type"}
            OBVIOUS
        <3>. QED  BY <3>1, <3>2
    <2>. QED  BY <2>1, <2>2, <2>3
<1>3. PICK change : /\ Changes(heap, heap', item, change)
                    /\ DOMAIN change \subseteq {"type", "valuedouble"}
    BY <1>2 DEF Changes
<1>4. item \in Items(heap)
    BY <1>1 DEF Inv, Blocks, WaitingInv
<1>5. /\ Typed(heap) /\ Sound(heap, Tops, PairsOf(frames))
      /\ Stacked(heap, frames, root)
      /\ Tops = ({root, raw, output} \cup HeadsOf(frames)) \ {Null}
    BY ParseFacts
<1>6. /\ Shaped(heap, heap')
      /\ \A q \in DOMAIN heap : q # item => heap'[q] = heap[q]
      /\ \A f \in ItemFields :
            heap'[item][f] = IF f \in DOMAIN change THEN change[f] ELSE heap[item][f]
    BY <1>3, <1>4, <1>5, SetItemShaped
<1>7. \A q \in Items(heap) : \A f \in Fields \cup {"prev"} :
          heap'[q][f] = heap[q][f]
    BY <1>3, <1>6 DEF Items, Fields, ItemFields
<1>8. Sound(heap', Tops, PairsOf(frames))
    BY <1>5, <1>6, <1>7, ContentsSound
<1>9. Items(heap') = Items(heap)
    BY <1>6, ShapedItems
<1>10. Stacked(heap', frames, root)
    <2>1. \A q \in Items(heap) : heap'[q].child = heap[q].child
        BY <1>7 DEF Fields
    <2>2. \A i \in 1..Len(frames) : frames[i].owner \in Items(heap)
        BY <1>5 DEF Stacked
    <2>. QED  BY <1>5, <1>9, <2>1, <2>2, StackedKept
<1>11. StackInv'
    BY <1>1, <1>10 DEF StackInv, Inv, Blocks, Top, depth, Stacked, OwnerOf
<1>12. WaitingInv'
    BY <1>1 DEF WaitingInv
<1>. QED  BY <1>1, <1>5, <1>6, <1>8, <1>11, <1>12, ParseFacts, ParseGoal, ShapedKinds

LEMMA NewItem == IsNew(cJSON_New_Item) /\ cJSON_New_Item.block = "item"
                 /\ \A f \in Fields : cJSON_New_Item[f] = Null
BY DEF IsNew, cJSON_New_Item, ItemFields, Fields

LEMMA NoFrames ==
    ASSUME NEW H, NEW r
    PROVE  HeadsOf(<<>>) = {} /\ PairsOf(<<>>) = {} /\ Stacked(H, <<>>, r)
           /\ CurrentOf(<<>>, r) = r
<1>1. Len(<<>>) = 0 /\ \A i \in 1..0 : FALSE
    OBVIOUS
<1>. QED  BY <1>1 DEF HeadsOf, PairsOf, Stacked, CurrentOf, OwnerOf

LEMMA NewRootBlocks ==
    ASSUME Inv, Parse, NewRoot
    PROVE  Blocks'
<1>1. /\ parser = "root" /\ parser' = "value"
      /\ heap' = Added(heap, Fresh, cJSON_New_Item)
      /\ root' = Fresh /\ item' = Fresh /\ frames' = frames /\ output' = output
    BY WithAdds DEF NewRoot, stringVars
<1>2. PICK n \in Nat \ {0} : n = Fresh /\ n \notin Live /\ n # Null
    BY InvFacts DEF Inv, Blocks
<1>3. frames = <<>> /\ root = Null /\ output = Null
    BY <1>1 DEF Inv, Places, ControlInv, RootInv
<1>4. HeadsOf(frames) = {} /\ PairsOf(frames) = {} /\ Stacked(heap', frames, n)
      /\ CurrentOf(frames, n) = n
    BY <1>3, NoFrames
<1>5. /\ Tops = {raw} /\ Sound(heap, Tops, {}) /\ IsBytes(heap, raw) /\ raw # Null
      /\ DOMAIN heap = Live
    BY <1>3, <1>4, ParseFacts
<1>6. Sound(heap', {raw, n}, {})
    <2>1. Sound(Added(heap, n, cJSON_New_Item), Tops \cup {n}, {})
        BY <1>2, <1>5, NewItem, AddedLists
    <2>2. Tops \cup {n} = {raw, n}
        BY <1>5
    <2>. QED  BY <1>1, <1>2, <2>1, <2>2
<1>7. n \in Items(heap') /\ IsBytes(heap', raw)
    BY <1>1, <1>2, <1>5, NewItem, AddedKinds
<1>8. heap'[n].child = Null /\ heap'[n].valuestring = Null
    BY <1>1, <1>2, NewItem DEF Added, Fields
<1>9. StackInv'
    BY <1>1, <1>2, <1>3, <1>4 DEF StackInv
<1>10. WaitingInv'
    BY <1>1, <1>2, <1>4, <1>7, <1>8 DEF WaitingInv
<1>11. ({n, raw, Null} \cup {}) \ {Null} = {raw, n}
    BY <1>2, <1>5
<1>. QED  BY <1>1, <1>2, <1>3, <1>4, <1>6, <1>7, <1>9, <1>10, <1>11, ParseGoal

LEMMA RootDeletedBlocks ==
    ASSUME Inv, Parse, RootDeleted
    PROVE  Blocks'
<1>1. /\ parser = "fail" /\ parser' = "done"
      /\ heap' = Rest(heap, cJSON_Delete(root))
      /\ root' = Null /\ frames' = frames /\ output' = output /\ frames = <<>>
    BY WithoutRests DEF RootDeleted, stringVars
<1>2. output = Null
    BY <1>1 DEF Inv, Places, ControlInv
<1>3. HeadsOf(frames) = {} /\ PairsOf(frames) = {} /\ Stacked(heap', frames, Null)
    BY <1>1, NoFrames
<1>4. /\ Tops = {root, raw} \ {Null} /\ Sound(heap, Tops, {})
      /\ IsBytes(heap, raw) /\ raw # Null
      /\ root # Null => root \in Items(heap) /\ root # raw
      /\ Typed(heap) /\ DOMAIN heap = Live /\ Tops \subseteq Live
    BY <1>2, <1>3, ParseFacts
<1>5. StackInv' /\ WaitingInv'
    BY <1>1, <1>3 DEF StackInv, WaitingInv
<1>6. Sound(heap', {raw}, {}) /\ raw \notin cJSON_Delete(root)
    <2>1. CASE root = Null
        <3>1. cJSON_Delete(root) = {} /\ Tops = {raw}
            BY <1>4, <2>1, DeleteNull
        <3>. QED  BY <1>1, <1>4, <3>1, RestNothing
    <2>2. CASE root # Null
        <3>1. root \in Tops /\ raw \in Tops /\ raw # root /\ Tops \ {root} = {raw}
            BY <1>4, <2>2
        <3>2. Freed(heap, cJSON_Delete(root), root)
            BY <1>4, <3>1, DeleteFrees
        <3>3. raw \notin cJSON_Delete(root)
            BY <1>4, <3>1, <3>2, NotFreed DEF Sound, Forest
        <3>4. Sound(Rest(heap, cJSON_Delete(root)), Tops \ {root}, {})
            BY <1>4, <3>1, <3>2, FreedLists
        <3>. QED  BY <1>1, <3>1, <3>3, <3>4
    <2>. QED  BY <2>1, <2>2
<1>7. IsBytes(heap', raw)
    BY <1>1, <1>4, <1>6, FreedKinds
<1>8. ({Null, raw, Null} \cup {}) \ {Null} = {raw}
    BY <1>4
<1>. QED  BY <1>1, <1>2, <1>3, <1>5, <1>6, <1>7, <1>8, ParseGoal

\* The kinds of tokens that open a container.
LEMMA OpenBlocks ==
    ASSUME Inv, Parse, OpenContainer
    PROVE  Blocks' /\ frames' \in Seq(Frame)
<1>1. /\ parser = "value" /\ parser' = "element"
      /\ frames' = Append(frames, [open |-> Open, owner |-> item,
                                   head |-> Null, tail |-> Null])
      /\ Open \in {"[", "{"}
      /\ heap' = heap /\ root' = root /\ output' = output
    BY DEF OpenContainer, AtContainer, AtValue, stringVars, heapVars, Open
<1>2. /\ item = CurrentOf(frames, root) /\ item \in Items(heap)
      /\ heap[item].child = Null
    BY <1>1 DEF Inv, Blocks, WaitingInv
<1>3. PICK f : f = [open |-> Open, owner |-> item, head |-> Null, tail |-> Null]
    OBVIOUS
<1>4. item \in Nat
    BY <1>2, ParseFacts DEF Typed, Items
<1>5. f \in Frame /\ f.owner = item /\ f.head = Null /\ f.tail = Null
    BY <1>1, <1>3, <1>4 DEF Frame, Null
<1>6. /\ frames \in Seq(Frame) /\ Stacked(heap, frames, root) /\ root # Null
      /\ Sound(heap, Tops, PairsOf(frames)) /\ IsBytes(heap, raw)
      /\ root \in Items(heap) /\ (output # Null => IsBytes(heap, output))
      /\ output # raw
      /\ Tops = ({root, raw, output} \cup HeadsOf(frames)) \ {Null}
    BY <1>1, ParseFacts DEF Inv, Places, RootInv
<1>7. \A i \in 1..Len(frames) : frames[i].head # Null
    <2>1. \A i \in 1..Len(frames) : i < Len(frames) => frames[i].head # Null
        BY <1>6 DEF Stacked
    <2>2. frames # <<>> => frames[Len(frames)].head # Null
        BY <1>1 DEF Inv, Blocks, StackInv, Top, depth
    <2>3. Len(frames) \in Nat
        BY <1>6
    <2>4. \A i \in 1..Len(frames) : i < Len(frames) \/ i = Len(frames)
        BY <2>3
    <2>5. \A i \in 1..Len(frames) : frames # <<>>
        OBVIOUS
    <2>. QED  BY <2>1, <2>2, <2>4, <2>5
<1>8. frames' = Append(frames, f)
    BY <1>1, <1>3
<1>9. frames' \in Seq(Frame) /\ Stacked(heap, frames', root)
    BY <1>2, <1>5, <1>6, <1>7, <1>8, StackedPush, Appended
<1>10. HeadsOf(frames') = HeadsOf(frames) \cup {Null} /\ PairsOf(frames') = PairsOf(frames)
    <2>1. /\ HeadsOf(frames') = HeadsOf(frames) \cup {f.head}
          /\ PairsOf(frames') = PairsOf(frames) \cup
                (IF f.head = Null THEN {} ELSE {<<f.head, f.tail>>})
        BY <1>5, <1>6, <1>8, AppendedLists, Zenon
    <2>2. f.head = Null
        BY <1>5
    <2>. QED  BY <2>1, <2>2
<1>11. StackInv' /\ WaitingInv'
    BY <1>1, <1>9 DEF StackInv, WaitingInv
<1>12. ({root, raw, output} \cup HeadsOf(frames')) \ {Null} = Tops
    BY <1>6, <1>10
<1>13. Sound(heap, ({root, raw, output} \cup HeadsOf(frames')) \ {Null}, PairsOf(frames'))
    BY <1>6, <1>10, <1>12
<1>. QED  BY <1>1, <1>6, <1>9, <1>11, <1>13, ParseGoal

\* The list of a container, one item longer, and the memory with that item.
LEMMA NewElementHeap ==
    ASSUME Inv, Parse, parser = "element", NewElement
    PROVE  \E b, t, g, n :
              /\ b \in Seq(Frame) /\ t \in Frame /\ g \in Frame
              /\ frames = Append(b, t) /\ frames' = Append(b, g)
              /\ t = Top /\ b = Below
              /\ g.owner = t.owner /\ g.open = t.open /\ g.tail = n
              /\ g.head = IF t.head = Null THEN n ELSE t.head
              /\ n = Fresh /\ item' = n
              /\ n \in Nat \ {0} /\ n \notin Live /\ n # Null
              /\ Len(b) \in Nat
<1>1. frames # <<>> /\ frames \in Seq(Frame)
    BY DEF Inv, Places, RootInv
<1>2. PICK b, t : /\ b = SubSeq(frames, 1, Len(frames) - 1) /\ t = frames[Len(frames)]
    OBVIOUS
<1>3. b \in Seq(Frame) /\ t \in Frame /\ frames = Append(b, t) /\ t = Top /\ b = Below
    BY <1>1, <1>2, Innermosts DEF Top, Below, depth
<1>4. PICK n \in Nat \ {0} : n = Fresh /\ n \notin Live /\ n # Null
    BY InvFacts DEF Inv, Blocks
<1>5. PICK g : g = [t EXCEPT !.head = IF @ = Null THEN n ELSE @, !.tail = n]
    OBVIOUS
<1>6. /\ g \in Frame /\ g.owner = t.owner /\ g.open = t.open /\ g.tail = n
      /\ g.head = IF t.head = Null THEN n ELSE t.head
    BY <1>3, <1>4, <1>5 DEF Frame
<1>7. frames' = Append(b, g)
    BY <1>3, <1>4, <1>5 DEF NewElement
<1>8. item' = n
    BY <1>4 DEF NewElement
<1>9. Len(b) \in Nat
    BY <1>3
<1>. QED  BY <1>3, <1>4, <1>6, <1>7, <1>8, <1>9

LEMMA PairHeads ==
    ASSUME NEW fs PROVE \A x \in PairsOf(fs) : x[1] \in HeadsOf(fs)
BY DEF PairsOf, HeadsOf

LEMMA NewElementBlocks ==
    ASSUME Inv, Parse, ArrayElement \/ ObjectMember
    PROVE  Blocks' /\ frames' \in Seq(Frame)
<1>1. /\ parser = "element" /\ parser' \in {"value", "name", "fail"}
      /\ NewElement /\ root' = root
    BY DEF ArrayElement, ObjectMember
<1>2. output = Null /\ output' = Null /\ root # Null
    <2>1. phase = "idle" /\ output = Null /\ root # Null
        BY <1>1 DEF Inv, Places, ControlInv, RootInv
    <2>. QED  BY <2>1 DEF ArrayElement, ObjectMember, BeginString, stringVars
<1>3. PICK b, t, g, n :
              /\ b \in Seq(Frame) /\ t \in Frame /\ g \in Frame
              /\ frames = Append(b, t) /\ frames' = Append(b, g)
              /\ t = Top /\ b = Below
              /\ g.owner = t.owner /\ g.tail = n
              /\ g.head = IF t.head = Null THEN n ELSE t.head
              /\ n = Fresh /\ item' = n
              /\ n \in Nat \ {0} /\ n \notin Live /\ n # Null
              /\ Len(b) \in Nat
    BY <1>1, NewElementHeap
<1>4. /\ HeadsOf(frames) = HeadsOf(b) \cup {t.head}
      /\ PairsOf(frames) = PairsOf(b) \cup
            (IF t.head = Null THEN {} ELSE {<<t.head, t.tail>>})
      /\ HeadsOf(frames') = HeadsOf(b) \cup {g.head}
      /\ PairsOf(frames') = PairsOf(b) \cup
            (IF g.head = Null THEN {} ELSE {<<g.head, g.tail>>})
    BY <1>3, AppendedLists, Zenon
<1>5. /\ Sound(heap, Tops, PairsOf(frames)) /\ IsBytes(heap, raw) /\ raw # Null
      /\ root \in Items(heap) /\ Typed(heap) /\ DOMAIN heap = Live
      /\ Tops = ({root, raw, Null} \cup HeadsOf(frames)) \ {Null}
      /\ Tops \subseteq Live
      /\ Stacked(heap, Append(b, t), root)
    BY <1>2, <1>3, ParseFacts
<1>6. /\ t.head \notin HeadsOf(b) /\ t.head # root
      /\ t.head = Null <=> t.tail = Null
    BY <1>3, <1>5, StackedPop
<1>7. PICK block : block = [cJSON_New_Item EXCEPT !.prev = t.tail]
    OBVIOUS
<1>8. /\ IsNew(block) /\ block.block = "item" /\ block.prev = t.tail
      /\ \A f \in Fields : block[f] = Null
    BY <1>7 DEF IsNew, cJSON_New_Item, ItemFields, Fields
<1>9. PICK H : H = Added(heap, n, block)
    OBVIOUS
<1>10. /\ DOMAIN H = Live \cup {n} /\ H[n] = block
       /\ \A q \in Live : H[q] = heap[q] /\ q # n
       /\ \A p : /\ p \in Items(heap) => p \in Items(H) /\ p \in Live
                 /\ IsBytes(heap, p) => IsBytes(H, p)
       /\ n \in Items(H)
    <2>1. /\ \A p : /\ p \in Items(heap) => p \in Items(H)
                    /\ IsBytes(heap, p) => IsBytes(H, p)
          /\ n \in Items(H)
        BY <1>3, <1>5, <1>8, <1>9, AddedKinds
    <2>. QED  BY <1>3, <1>5, <1>9, <2>1 DEF Added, Items
<1>11. /\ Sound(heap', ({root, raw, Null} \cup HeadsOf(frames')) \ {Null},
                PairsOf(frames'))
       /\ \A p : /\ p \in Items(heap) => p \in Items(heap')
                                         /\ heap'[p].child = heap[p].child
                 /\ IsBytes(heap, p) => IsBytes(heap', p)
       /\ n \in Items(heap')
       /\ \A f \in Fields : heap'[n][f] = Null
    <2>1. CASE t.tail = Null
        <3>1. heap' = H
            BY <1>1, <1>3, <1>7, <1>9, <2>1, WithAdds DEF NewElement
        <3>2. Sound(H, Tops \cup {n}, PairsOf(frames) \cup {<<n, n>>})
            BY <1>3, <1>5, <1>8, <1>9, BegunLists
        <3>3. t.head = Null /\ g.head = n /\ g.tail = n
            BY <1>3, <1>6, <2>1
        <3>4. Tops \cup {n} = ({root, raw, Null} \cup HeadsOf(frames')) \ {Null}
            BY <1>3, <1>4, <1>5, <3>3
        <3>5. PairsOf(frames) \cup {<<n, n>>} = PairsOf(frames')
            BY <1>3, <1>4, <3>3
        <3>. QED  BY <1>8, <1>10, <3>1, <3>2, <3>4, <3>5
    <2>2. CASE t.tail # Null
        <3>1. t.head # Null /\ g.head = t.head /\ <<t.head, t.tail>> \in PairsOf(frames)
            BY <1>3, <1>4, <1>6, <2>2
        <3>2. PICK change : change = [next |-> n]
            OBVIOUS
        <3>3. DOMAIN change = {"next"} /\ change["next"] = n
            BY <3>2
        <3>4. Changes(H, heap', t.tail, change)
            BY <1>1, <1>3, <1>7, <1>9, <2>2, <3>2, WithAdds DEF NewElement, Changes
        <3>5. Sound(heap', Tops, (PairsOf(frames) \ {<<t.head, t.tail>>})
                                    \cup {<<t.head, n>>})
            <4>1. Changes(Added(heap, n, block), heap', t.tail, change)
                BY <1>9, <3>4
            <4>2. \A h, e : <<h, e>> \in PairsOf(frames) /\ block.prev = e
                              /\ Changes(Added(heap, n, block), heap', e, change) =>
                     Sound(heap', Tops, (PairsOf(frames) \ {<<h, e>>}) \cup {<<h, n>>})
                <5>1. ASSUME NEW h, NEW e, <<h, e>> \in PairsOf(frames), block.prev = e,
                             Changes(Added(heap, n, block), heap', e, change)
                      PROVE  Sound(heap', Tops, (PairsOf(frames) \ {<<h, e>>})
                                                  \cup {<<h, n>>})
                    BY <1>3, <1>5, <1>8, <3>3, <5>1, GrownLists
                <5>. QED  BY <5>1
            <4>. QED  BY <1>8, <3>1, <4>1, <4>2
        <3>6. Tops = ({root, raw, Null} \cup HeadsOf(frames')) \ {Null}
            BY <1>4, <1>5, <3>1
        <3>7. PairsOf(frames') =
                 (PairsOf(frames) \ {<<t.head, t.tail>>}) \cup {<<t.head, n>>}
            <4>1. <<t.head, t.tail>> \notin PairsOf(b)
                BY <1>6, PairHeads
            <4>2. PairsOf(frames) = PairsOf(b) \cup {<<t.head, t.tail>>}
                BY <1>4, <3>1
            <4>3. PairsOf(frames') = PairsOf(b) \cup {<<g.head, g.tail>>}
                BY <1>4, <3>1
            <4>4. g.tail = n
                BY <1>3
            <4>5. g.head = t.head
                BY <3>1
            <4>. QED  BY <4>1, <4>2, <4>3, <4>4, <4>5
        <3>8. t.tail \in Items(heap)
            BY <1>5, <3>1 DEF Sound, Lists
        <3>9. Typed(H)
            <4>1. Sound(H, Tops \cup {n}, PairsOf(frames))
                BY <1>3, <1>5, <1>8, <1>9, AddedLists
            <4>. QED  BY <4>1 DEF Sound, Forest
        <3>10. /\ Shaped(H, heap')
               /\ \A q \in DOMAIN H : q # t.tail => heap'[q] = H[q]
               /\ \A f \in ItemFields : heap'[t.tail][f] =
                     IF f \in DOMAIN change THEN change[f] ELSE H[t.tail][f]
            BY <1>10, <3>3, <3>4, <3>8, <3>9, SetItemShaped
        <3>11. heap'[n] = block
            BY <1>3, <1>10, <3>8, <3>10
        <3>12. ASSUME NEW p \in Items(heap) PROVE heap'[p].child = heap[p].child
            <4>1. p \in Live /\ p \in DOMAIN H /\ H[p] = heap[p]
                BY <1>10
            <4>2. "child" \in ItemFields /\ "child" \notin DOMAIN change
                BY <3>3 DEF ItemFields, Fields
            <4>. QED  BY <3>10, <4>1, <4>2
        <3>. QED  BY <1>8, <1>10, <3>5, <3>6, <3>7, <3>10, <3>11, <3>12, ShapedKinds
    <2>. QED  BY <2>1, <2>2
<1>12. Stacked(heap', Append(b, g), root)
    <2>1. Stacked(heap', Append(b, t), root)
        <3>1. \A i \in 1..Len(Append(b, t)) : Append(b, t)[i].owner \in Items(heap)
            BY <1>5 DEF Stacked
        <3>2. Stacked(heap, Append(b, t), root)
            BY <1>5
        <3>3. \A i \in 1..Len(Append(b, t)) :
                 /\ Append(b, t)[i].owner \in Items(heap')
                 /\ heap'[Append(b, t)[i].owner].child = heap[Append(b, t)[i].owner].child
            BY <1>11, <3>1
        <3>. QED  BY <3>2, <3>3, StackedKept
    <2>2. g.head \notin HeadsOf(b) /\ g.head # root /\ g.head # Null
        <3>1. HeadsOf(b) \subseteq Live \cup {Null} /\ root \in Live
            BY <1>4, <1>5, <1>10
        <3>. QED  BY <1>3, <1>6, <3>1
    <2>. QED  BY <1>3, <2>1, <2>2, StackedGrow
<1>13. /\ frames' \in Seq(Frame) /\ Len(frames') = Len(b) + 1
       /\ frames'[Len(b) + 1] = g
    BY <1>3, Appended
<1>14. StackInv'
    <2>1. g.head # Null
        BY <1>3
    <2>. QED  BY <1>1, <1>3, <1>12, <1>13, <2>1 DEF StackInv, Top, depth
<1>15. WaitingInv'
    <2>1. CurrentOf(frames', root) = n
        <3>1. PICK k \in Nat : k = Len(b)
            BY <1>3
        <3>2. (k + 1) + 1 # 1 /\ ((k + 1) + 1) - 1 = k + 1
            OBVIOUS
        <3>. QED  BY <1>3, <1>13, <3>1, <3>2 DEF CurrentOf, OwnerOf
    <2>. QED  BY <1>1, <1>3, <1>11, <2>1 DEF WaitingInv, Fields
<1>. QED  BY <1>1, <1>2, <1>5, <1>11, <1>13, <1>14, <1>15, ParseGoal

LEMMA PoppedHeads ==
    ASSUME NEW H, NEW fs \in Seq(Frame), NEW r, NEW f \in Frame,
           Stacked(H, Append(fs, f), r)
    PROVE  f.head # r /\ \A i \in 1..Len(fs) : fs[i].head # Null
<1>1. PICK gs : gs = Append(fs, f)
    OBVIOUS
<1>2. PICK n \in Nat : n = Len(fs)
    BY Appended
<1>3. /\ Len(gs) = n + 1 /\ gs[n + 1] = f
      /\ \A i \in 1..n : gs[i] = fs[i] /\ i \in 1..n + 1 /\ i < n + 1
      /\ n + 1 \in 1..n + 1
    BY <1>1, <1>2, Appended
<1>4. /\ \A i \in 1..n + 1 : i < n + 1 => gs[i].head # Null
      /\ \A i \in 1..n + 1 : gs[i].head # r
    BY <1>1, <1>3 DEF Stacked
<1>. QED  BY <1>2, <1>3, <1>4

\* The items that the open containers belong to are in no list of an inner one.
LEMMA OwnersStay ==
    ASSUME NEW H, NEW T, NEW b \in Seq(Frame), NEW t \in Frame, NEW r,
           Sound(H, T, PairsOf(b)), Stacked(H, Append(b, t), r),
           r \in T, HeadsOf(b) \subseteq T, t.head \in T,
           NEW D, Freed(H, D, t.head)
    PROVE  \A i \in 1..Len(b) + 1 : OwnerOf(b, r, i) \notin D
<1>1. /\ \A i \in 1..Len(b) : b[i].head # Null
      /\ t.head \notin HeadsOf(b) /\ t.head # r
    <2>1. \A i \in 1..Len(b) : b[i].head # Null
        BY PoppedHeads
    <2>2. t.head \notin HeadsOf(b)
        BY StackedPop
    <2>3. t.head # r
        BY PoppedHeads
    <2>. QED  BY <2>1, <2>2, <2>3
<1>2. Forest(H, T) /\ Exclusive(H, T)
    BY DEF Sound, Forest
<1>3. \A x \in T : x # t.head => x \notin D
    BY <1>2, NotFreed
<1>4. r \notin D
    BY <1>1, <1>3
<1>5. ASSUME NEW i \in 1..Len(b) PROVE b[i].tail \notin D
    <2>1. PICK h, e : h = b[i].head /\ e = b[i].tail
        OBVIOUS
    <2>2. <<h, e>> \in PairsOf(b) /\ h \in HeadsOf(b)
        BY <1>1, <2>1 DEF PairsOf, HeadsOf
    <2>3. Leads(H, h, e) /\ h \in Items(H)
        BY <2>2 DEF Sound, Lists
    <2>4. h \notin D
        BY <1>1, <1>3, <2>2
    <2>5. e \notin D
        BY <1>2, <2>3, <2>4, FreedLeads
    <2>. QED  BY <2>1, <2>5
<1>6. PICK k \in Nat : k = Len(b)
    BY Appended
<1>7. ASSUME NEW i \in 1..Len(b) + 1 PROVE OwnerOf(b, r, i) \notin D
    <2>1. i = 1 \/ i - 1 \in 1..k
        BY <1>6
    <2>. QED  BY <1>4, <1>5, <1>6, <2>1 DEF OwnerOf
<1>. QED  BY <1>7

\* No item has two open containers.
LEMMA OwnersDiffer ==
    ASSUME NEW H, NEW T, NEW b \in Seq(Frame), NEW r,
           Sound(H, T, PairsOf(b)), Stacked(H, b, r), r \in T, r \in Items(H),
           \A i \in 1..Len(b) : b[i].head # Null
    PROVE  \A i \in 1..Len(b) : OwnerOf(b, r, i) # OwnerOf(b, r, Len(b) + 1)
<1>1. ASSUME NEW i \in 1..Len(b)
      PROVE  <<b[i].head, b[i].tail>> \in PairsOf(b)
    BY DEF PairsOf
<1>2. ASSUME NEW i \in 1..Len(b) PROVE b[i].tail # r
    <2>1. PICK h, e : h = b[i].head /\ e = b[i].tail
        OBVIOUS
    <2>2. Leads(H, h, e) /\ h \in Items(H) /\ h # r
        BY <1>1, <2>1 DEF Sound, Lists, Stacked
    <2>3. Follows(H, Items(H) \ {r})
        <3>1. ASSUME NEW p \in Items(H), H[p].next # Null
              PROVE  H[p].next \in Items(H) \ {r}
            <4>1. Typed(H) /\ Exclusive(H, T)
                BY DEF Sound, Forest
            <4>2. H[p].next \in Items(H)
                BY <3>1, <4>1, FieldTypes
            <4>3. H[p].next \notin T
                BY <4>1 DEF Exclusive, Fields
            <4>. QED  BY <4>2, <4>3
        <3>. QED  BY <3>1 DEF Follows
    <2>. QED  BY <2>1, <2>2, <2>3 DEF Leads
<1>3. ASSUME NEW i \in 1..Len(b), NEW j \in 1..Len(b), b[i].tail = b[j].tail
      PROVE  i = j
    <2>1. b[i].head = b[j].head
        <3>1. \A x, y \in PairsOf(b) : x[2] = y[2] => x = y
            BY DEF Sound, Lists
        <3>2. <<b[i].head, b[i].tail>> = <<b[j].head, b[j].tail>>
            BY <1>1, <1>3, <3>1
        <3>. QED  BY <3>2
    <2>. QED  BY <2>1 DEF Stacked
<1>4. PICK k \in Nat : k = Len(b)
    BY Appended
<1>5. ASSUME NEW i \in 1..Len(b)
      PROVE  OwnerOf(b, r, i) # OwnerOf(b, r, Len(b) + 1)
    <2>1. i \in 1..k /\ k + 1 # 1 /\ (k + 1) - 1 = k /\ k \in 1..k
        BY <1>4
    <2>2. OwnerOf(b, r, Len(b) + 1) = b[k].tail
        BY <1>4, <2>1 DEF OwnerOf
    <2>3. CASE i = 1
        <3>1. OwnerOf(b, r, i) = r /\ b[k].tail # r
            BY <1>2, <1>4, <2>1, <2>3 DEF OwnerOf
        <3>. QED  BY <2>2, <3>1
    <2>4. CASE i # 1
        <3>1. PICK m \in 1..k : m = i - 1 /\ m # k
            BY <2>1, <2>4
        <3>2. OwnerOf(b, r, i) = b[m].tail
            BY <2>4, <3>1 DEF OwnerOf
        <3>3. b[m].tail # b[k].tail
            BY <1>3, <1>4, <2>1, <3>1
        <3>. QED  BY <2>2, <3>2, <3>3
    <2>. QED  BY <2>3, <2>4
<1>. QED  BY <1>5

\* The innermost container, when there is one.
LEMMA InnermostFacts ==
    ASSUME Inv, Parse, frames # <<>>
    PROVE  \E b, t :
              /\ b \in Seq(Frame) /\ t \in Frame /\ frames = Append(b, t)
              /\ t = Top /\ b = Below
              /\ HeadsOf(frames) = HeadsOf(b) \cup {t.head}
              /\ PairsOf(frames) = PairsOf(b) \cup
                    (IF t.head = Null THEN {} ELSE {<<t.head, t.tail>>})
              /\ PairsOf(b) \subseteq PairsOf(frames)
              /\ Stacked(heap, Append(b, t), root)
              /\ root \in Tops /\ root \in Items(heap)
              /\ HeadsOf(b) \subseteq Tops
              /\ t.head # Null => t.head \in Tops /\ t.head \in Items(heap)
              /\ \A i \in 1..Len(b) : b[i].head # Null
<1>1. frames \in Seq(Frame) /\ root # Null
    BY DEF Inv, Places, RootInv
<1>2. PICK b, t : /\ b = SubSeq(frames, 1, Len(frames) - 1) /\ t = frames[Len(frames)]
    OBVIOUS
<1>3. b \in Seq(Frame) /\ t \in Frame /\ frames = Append(b, t) /\ t = Top /\ b = Below
    BY <1>1, <1>2, Innermosts DEF Top, Below, depth
<1>4. /\ HeadsOf(frames) = HeadsOf(b) \cup {t.head}
      /\ PairsOf(frames) = PairsOf(b) \cup
            (IF t.head = Null THEN {} ELSE {<<t.head, t.tail>>})
    BY <1>3, AppendedLists, Zenon
<1>5. /\ Stacked(heap, Append(b, t), root)
      /\ root \in Items(heap)
      /\ Sound(heap, Tops, PairsOf(frames))
      /\ Tops = ({root, raw, output} \cup HeadsOf(frames)) \ {Null}
    BY <1>1, <1>3, ParseFacts
<1>6. \A i \in 1..Len(b) : b[i].head # Null
    BY <1>3, <1>5, StackedPop
<1>7. Null \notin HeadsOf(b)
    BY <1>6 DEF HeadsOf
<1>8. root \in Tops /\ HeadsOf(b) \subseteq Tops
    BY <1>1, <1>4, <1>5, <1>7
<1>9. t.head # Null => t.head \in Tops /\ t.head \in Items(heap)
    <2>1. t.head # Null => <<t.head, t.tail>> \in PairsOf(frames)
        BY <1>4
    <2>. QED  BY <1>4, <1>5, <2>1 DEF Sound, Lists
<1>. QED  BY <1>3, <1>4, <1>5, <1>6, <1>8, <1>9

LEMMA CloseBlocks ==
    ASSUME Inv, Parse, CloseContainer
    PROVE  Blocks' /\ frames' \in Seq(Frame)
<1>1. /\ parser = "parsed" /\ parser' = "parsed" /\ frames # <<>>
      /\ root' = root /\ output' = output /\ frames' = Below
      /\ \E c : /\ heap' = SetItem(SetItem(heap, Top.head, [prev |-> Top.tail]),
                                   Top.owner, c)
                /\ DOMAIN c = {"type", "child"} /\ c["child"] = Top.head
    <2>1. \A x, y : LET c == [type |-> x, child |-> y]
                    IN  DOMAIN c = {"type", "child"} /\ c["child"] = y
        OBVIOUS
    <2>. QED  BY <2>1 DEF CloseContainer, InContainer, ListClosed, stringVars
<1>2. PICK b, t :
              /\ b \in Seq(Frame) /\ t \in Frame /\ frames = Append(b, t)
              /\ t = Top /\ b = Below
              /\ HeadsOf(frames) = HeadsOf(b) \cup {t.head}
              /\ PairsOf(frames) = PairsOf(b) \cup
                    (IF t.head = Null THEN {} ELSE {<<t.head, t.tail>>})
              /\ PairsOf(b) \subseteq PairsOf(frames)
              /\ Stacked(heap, Append(b, t), root)
              /\ root \in Tops /\ root \in Items(heap)
              /\ HeadsOf(b) \subseteq Tops
              /\ t.head # Null => t.head \in Tops /\ t.head \in Items(heap)
              /\ \A i \in 1..Len(b) : b[i].head # Null
    BY <1>1, InnermostFacts
<1>3. /\ Sound(heap, Tops, PairsOf(frames)) /\ IsBytes(heap, raw) /\ raw # Null
      /\ output # Null => IsBytes(heap, output)
      /\ output # raw
      /\ Typed(heap) /\ DOMAIN heap = Live
      /\ Tops = ({root, raw, output} \cup HeadsOf(frames)) \ {Null}
    BY ParseFacts
<1>4. /\ t.head # Null /\ t.head \in Tops /\ t.head \in Items(heap)
      /\ <<t.head, t.tail>> \in PairsOf(frames)
    <2>1. t.head # Null
        BY <1>1, <1>2 DEF Inv, Blocks, StackInv
    <2>. QED  BY <1>2, <2>1
<1>5. /\ Stacked(heap, b, root)
      /\ t.head \notin HeadsOf(b) /\ t.head # root
      /\ t.owner = OwnerOf(b, root, Len(b) + 1) /\ t.owner \in Items(heap)
      /\ heap[t.owner].child = Null
    <2>1. Stacked(heap, b, root)
        BY <1>2, StackedPop
    <2>2. t.head \notin HeadsOf(b)
        BY <1>2, StackedPop
    <2>3. t.head # root
        BY <1>2, StackedPop
    <2>4. t.owner = CurrentOf(b, root)
        BY <1>2, StackedPop
    <2>5. t.owner \in Items(heap) /\ heap[t.owner].child = Null
        BY <1>2, StackedPop
    <2>. QED  BY <2>1, <2>2, <2>3, <2>4, <2>5 DEF CurrentOf
<1>6. PICK D : D = cJSON_Delete(t.head) /\ Freed(heap, D, t.head)
    BY <1>3, <1>4, DeleteFrees DEF Items
<1>7. Sound(heap, Tops, PairsOf(b))
    BY <1>2, <1>3, FewerLists
<1>8. Len(b) + 1 \in 1..Len(b) + 1
    BY <1>2, Appended
<1>9. t.owner \notin D /\ t.head \in D /\ t.owner # t.head
    <2>1. \A i \in 1..Len(b) + 1 : OwnerOf(b, root, i) \notin D
        BY <1>2, <1>4, <1>6, <1>7, OwnersStay
    <2>. QED  BY <1>5, <1>6, <1>8, <2>1 DEF Freed
<1>10. PICK G, d : /\ d = [prev |-> t.tail] /\ Changes(heap, G, t.head, d)
                   /\ G = SetItem(heap, t.head, d)
    BY DEF Changes
<1>11. DOMAIN d = {"prev"} /\ d["prev"] = t.tail
    BY <1>10
<1>12. PICK c : /\ Changes(G, heap', t.owner, c)
                /\ DOMAIN c = {"type", "child"} /\ c["child"] = t.head
    BY <1>1, <1>2, <1>10 DEF Changes
<1>13. /\ Shaped(heap, G)
       /\ \A q \in DOMAIN heap : q # t.head => G[q] = heap[q]
       /\ \A f \in ItemFields :
             G[t.head][f] = IF f \in DOMAIN d THEN d[f] ELSE heap[t.head][f]
    BY <1>3, <1>4, <1>10, <1>11, SetItemShaped
<1>14. Items(G) = Items(heap) /\ Items(heap) \subseteq DOMAIN heap
    BY <1>13, ShapedItems DEF Items
<1>15. \A q \in Items(heap) : \A f \in Fields : G[q][f] = heap[q][f]
    BY <1>11, <1>13, <1>14 DEF Fields, ItemFields
<1>16. \A q \in Items(heap) : G[q].prev = IF q = t.head THEN t.tail ELSE heap[q].prev
    BY <1>11, <1>13, <1>14 DEF Fields, ItemFields
<1>17. Typed(G)
    BY <1>3, <1>13, <1>15, SameSound DEF Sound, Forest
<1>18. /\ Shaped(G, heap')
       /\ \A q \in DOMAIN G : q # t.owner => heap'[q] = G[q]
       /\ \A f \in ItemFields :
             heap'[t.owner][f] = IF f \in DOMAIN c THEN c[f] ELSE G[t.owner][f]
    BY <1>5, <1>12, <1>14, <1>17, SetItemShaped
<1>19. Shaped(heap, heap')
    BY <1>13, <1>14, <1>18 DEF Shaped
<1>20. Attached(heap, heap', t.owner, "child", t.head)
    <2>1. ASSUME NEW p \in Items(heap), NEW f \in Fields
          PROVE  heap'[p][f] = IF p = t.owner /\ f = "child" THEN t.head ELSE heap[p][f]
        <3>1. p \in DOMAIN G /\ f \in ItemFields /\ G[p][f] = heap[p][f]
            BY <1>13, <1>14, <1>15 DEF Shaped, ItemFields
        <3>2. CASE p # t.owner
            BY <1>18, <3>1, <3>2
        <3>3. CASE p = t.owner
            <4>1. f \in DOMAIN c <=> f = "child"
                BY <1>12 DEF Fields
            <4>. QED  BY <1>12, <1>18, <3>1, <3>3, <4>1
        <3>. QED  BY <3>2, <3>3
    <2>. QED  BY <2>1 DEF Attached
<1>21. \A p \in Items(heap) : heap'[p].prev = IF p = t.head THEN t.tail ELSE heap[p].prev
    <2>1. ASSUME NEW p \in Items(heap) PROVE heap'[p].prev = G[p].prev
        <3>1. p \in DOMAIN G /\ "prev" \in ItemFields /\ "prev" \notin DOMAIN c
            BY <1>12, <1>13, <1>14 DEF Shaped, ItemFields
        <3>. QED  BY <1>18, <3>1
    <2>. QED  BY <1>16, <2>1
<1>22. Sound(heap', Tops \ {t.head}, PairsOf(frames) \ {<<t.head, t.tail>>})
    <2>1. \A h, e : <<h, e>> \in PairsOf(frames) /\ Freed(heap, D, h)
                      /\ Attached(heap, heap', t.owner, "child", h)
                      /\ (\A p \in Items(heap) :
                             heap'[p].prev = IF p = h THEN e ELSE heap[p].prev)
                    => Sound(heap', Tops \ {h}, PairsOf(frames) \ {<<h, e>>})
        BY <1>3, <1>5, <1>9, <1>19, ClosedLists
    <2>. QED  BY <1>4, <1>6, <1>20, <1>21, <2>1
<1>23. PairsOf(frames) \ {<<t.head, t.tail>>} = PairsOf(b)
    <2>1. <<t.head, t.tail>> \notin PairsOf(b)
        BY <1>5, PairHeads
    <2>. QED  BY <1>2, <1>4, <2>1
<1>24. Tops \ {t.head} = ({root, raw, output} \cup HeadsOf(b)) \ {Null}
    <2>1. raw # t.head /\ (output # Null => output # t.head)
        BY <1>3, <1>4 DEF IsBytes
    <2>. QED  BY <1>2, <1>3, <1>4, <1>5, <2>1
<1>25. Stacked(heap', b, root)
    <2>1. \A i \in 1..Len(b) : OwnerOf(b, root, i) # OwnerOf(b, root, Len(b) + 1)
        BY <1>2, <1>5, <1>7, OwnersDiffer
    <2>2. ASSUME NEW i \in 1..Len(b)
          PROVE  b[i].owner \in Items(heap') /\ heap'[b[i].owner].child = heap[b[i].owner].child
        <3>1. b[i].owner \in Items(heap) /\ b[i].owner # t.owner
            BY <1>5, <2>1 DEF Stacked
        <3>2. Items(heap') = Items(heap)
            BY <1>19, ShapedItems
        <3>. QED  BY <1>20, <3>1, <3>2 DEF Attached, Fields
    <2>. QED  BY <1>5, <2>2, StackedKept
<1>26. StackInv'
    <2>1. b # <<>> => Len(b) \in 1..Len(b)
        BY <1>2
    <2>. QED  BY <1>1, <1>2, <1>25, <2>1 DEF StackInv, Top, depth
<1>27. WaitingInv'
    BY <1>1 DEF WaitingInv
<1>28. root \in Items(heap') /\ IsBytes(heap', raw) /\ (output # Null => IsBytes(heap', output))
    BY <1>2, <1>3, <1>19, ShapedKinds
<1>29. frames' = b
    BY <1>1, <1>2
<1>30. Sound(heap', ({root', raw, output'} \cup HeadsOf(frames')) \ {Null}, PairsOf(frames'))
    BY <1>1, <1>22, <1>23, <1>24, <1>29
<1>. QED  BY <1>1, <1>2, <1>3, <1>26, <1>27, <1>28, <1>29, <1>30, ParseGoal

LEMMA UnwindBlocks ==
    ASSUME Inv, Parse, Unwind
    PROVE  Blocks' /\ frames' \in Seq(Frame)
<1>1. /\ parser = "fail" /\ parser' = "fail" /\ frames # <<>>
      /\ root' = root /\ output' = output /\ frames' = Below
      /\ heap' = Rest(heap, cJSON_Delete(Top.head))
    BY WithoutRests DEF Unwind, DeleteList, LeaveFrame, stringVars
<1>2. PICK b, t :
              /\ b \in Seq(Frame) /\ t \in Frame /\ frames = Append(b, t)
              /\ t = Top /\ b = Below
              /\ HeadsOf(frames) = HeadsOf(b) \cup {t.head}
              /\ PairsOf(frames) = PairsOf(b) \cup
                    (IF t.head = Null THEN {} ELSE {<<t.head, t.tail>>})
              /\ PairsOf(b) \subseteq PairsOf(frames)
              /\ Stacked(heap, Append(b, t), root)
              /\ root \in Tops /\ root \in Items(heap)
              /\ HeadsOf(b) \subseteq Tops
              /\ t.head # Null => t.head \in Tops /\ t.head \in Items(heap)
              /\ \A i \in 1..Len(b) : b[i].head # Null
    BY <1>1, InnermostFacts
<1>3. /\ Sound(heap, Tops, PairsOf(frames)) /\ IsBytes(heap, raw) /\ raw # Null
      /\ output # raw
      /\ Typed(heap) /\ DOMAIN heap = Live
      /\ Tops = ({root, raw, output} \cup HeadsOf(frames)) \ {Null}
    BY ParseFacts
<1>4. output = Null
    BY <1>1 DEF Inv, Places, ControlInv
<1>5. Stacked(heap, b, root) /\ t.head \notin HeadsOf(b) /\ t.head # root
    <2>1. Stacked(heap, b, root)
        BY <1>2, StackedPop
    <2>2. t.head \notin HeadsOf(b)
        BY <1>2, StackedPop
    <2>3. t.head # root
        BY <1>2, StackedPop
    <2>. QED  BY <2>1, <2>2, <2>3
<1>6. Sound(heap, Tops, PairsOf(b))
    BY <1>2, <1>3, FewerLists
<1>7. PICK D : D = cJSON_Delete(t.head)
    OBVIOUS
<1>8. /\ Sound(heap', Tops \ {t.head}, PairsOf(b))
      /\ raw \notin D /\ root \notin D
      /\ \A i \in 1..Len(b) + 1 : OwnerOf(b, root, i) \notin D
    <2>1. CASE t.head = Null
        <3>1. D = {}
            BY <1>3, <1>7, <2>1, DeleteNull
        <3>2. Tops \ {t.head} = Tops
            BY <1>3, <2>1
        <3>3. D \cap DOMAIN heap = {}
            BY <3>1
        <3>4. Sound(Rest(heap, D), Tops, PairsOf(b))
            BY <1>6, <3>3, RestNothing
        <3>5. heap' = Rest(heap, D)
            BY <1>1, <1>2, <1>7
        <3>. QED  BY <1>2, <3>1, <3>2, <3>4, <3>5
    <2>2. CASE t.head # Null
        <3>1. Freed(heap, D, t.head)
            BY <1>2, <1>3, <1>7, <2>2, DeleteFrees DEF Items
        <3>2. \A x \in PairsOf(b) : x[1] # t.head
            BY <1>5, PairHeads
        <3>3. Sound(Rest(heap, D), Tops \ {t.head}, PairsOf(b))
            BY <1>2, <1>6, <2>2, <3>1, <3>2, FreedLists
        <3>4. \A x \in Tops : x # t.head => x \notin D
            <4>1. Exclusive(heap, Tops) /\ t.head \in Tops
                BY <1>2, <1>3, <2>2 DEF Sound, Forest
            <4>. QED  BY <3>1, <4>1, NotFreed
        <3>5. raw \in Tops /\ raw # t.head
            BY <1>2, <1>3, <2>2 DEF IsBytes
        <3>6. \A i \in 1..Len(b) + 1 : OwnerOf(b, root, i) \notin D
            BY <1>2, <1>6, <2>2, <3>1, OwnersStay
        <3>. QED  BY <1>1, <1>2, <1>5, <1>7, <3>3, <3>4, <3>5, <3>6
    <2>. QED  BY <2>1, <2>2
<1>9. ({root, raw, output} \cup HeadsOf(b)) \ {Null} = Tops \ {t.head}
    <2>1. t.head # Null => raw # t.head
        BY <1>2, <1>3 DEF IsBytes
    <2>. QED  BY <1>2, <1>3, <1>4, <1>5, <2>1
<1>10. heap' = Rest(heap, D)
    BY <1>1, <1>2, <1>7
<1>11. Stacked(heap', b, root)
    <2>1. ASSUME NEW i \in 1..Len(b)
          PROVE  b[i].owner \in Items(heap') /\ heap'[b[i].owner].child = heap[b[i].owner].child
        <3>1. b[i].owner = OwnerOf(b, root, i) /\ b[i].owner \in Items(heap)
            BY <1>5 DEF Stacked
        <3>2. i \in 1..Len(b) + 1
            BY <1>2, Appended
        <3>3. b[i].owner \notin D
            BY <1>8, <3>1, <3>2
        <3>4. Items(heap) \subseteq DOMAIN heap
            BY DEF Items
        <3>5. /\ \A p \in DOMAIN heap \ D : Rest(heap, D)[p] = heap[p]
              /\ Items(Rest(heap, D)) = Items(heap) \ D
            BY RestItems
        <3>. QED  BY <1>10, <3>1, <3>3, <3>4, <3>5
    <2>. QED  BY <1>5, <2>1, StackedKept
<1>12. StackInv' /\ WaitingInv'
    BY <1>1, <1>2, <1>11 DEF StackInv, WaitingInv
<1>13. root \in Items(heap') /\ IsBytes(heap', raw)
    BY <1>2, <1>3, <1>8, <1>10, FreedKinds
<1>14. frames' = b
    BY <1>1, <1>2
<1>15. Sound(heap', ({root', raw, output'} \cup HeadsOf(frames')) \ {Null}, PairsOf(frames'))
    BY <1>1, <1>8, <1>9, <1>14
<1>. QED  BY <1>1, <1>2, <1>3, <1>4, <1>12, <1>13, <1>14, <1>15, ParseGoal

\* A decoded string becomes the value or the name of the item.
LEMMA NamedBlocks ==
    ASSUME Inv, Parse, StringParsed \/ NameParsed
    PROVE  Blocks'
<1>1. /\ parser \in {"string", "name"} /\ phase = "parsed"
      /\ parser' \in {"parsed", "value", "fail"}
      /\ parser = "string" => parser' = "parsed"
      /\ frames' = frames /\ item' = item /\ root' = root /\ output' = Null
    BY DEF StringParsed, NameParsed, StringIdle
<1>. DEFINE Fills(g, c) == /\ g \in {"string", "valuestring"}
                           /\ heap' = SetItem(heap, item, c)
                           /\ DOMAIN c = {"type", g} /\ c[g] = output
                           /\ heap[item][g] = Null
                           /\ parser = "name" => g = "string"
<1>. HIDE DEF Fills
<1>0. \E g, c : Fills(g, c)
    <2>1. CASE StringParsed
        <3>1. heap[item].valuestring = Null /\ parser = "string"
            BY <2>1 DEF StringParsed, Inv, Blocks, WaitingInv
        <3>2. PICK c : c = [type |-> "String", valuestring |-> output]
            OBVIOUS
        <3>3. DOMAIN c = {"type", "valuestring"} /\ c["valuestring"] = output
            BY <3>2
        <3>4. heap' = SetItem(heap, item, c)
            BY <2>1, <3>2 DEF StringParsed
        <3>5. Fills("valuestring", c)
            BY <3>1, <3>3, <3>4 DEF Fills
        <3>. QED  BY <3>5
    <2>2. CASE NameParsed
        <3>1. heap[item].string = Null /\ parser = "name"
            BY <2>2 DEF NameParsed, Inv, Blocks, WaitingInv
        <3>2. PICK c : c = [type |-> "String", string |-> output]
            OBVIOUS
        <3>3. DOMAIN c = {"type", "string"} /\ c["string"] = output
            BY <3>2
        <3>4. heap' = SetItem(heap, item, c)
            BY <2>2, <3>2 DEF NameParsed, NameMoved
        <3>5. Fills("string", c)
            BY <3>1, <3>3, <3>4 DEF Fills
        <3>. QED  BY <3>5
    <2>. QED  BY <2>1, <2>2
<1>2. PICK g, c :
          /\ g \in {"string", "valuestring"}
          /\ heap' = SetItem(heap, item, c)
          /\ DOMAIN c = {"type", g} /\ c[g] = output
          /\ heap[item][g] = Null
          /\ parser = "name" => g = "string"
    BY <1>0 DEF Fills
<1>3. /\ output # Null /\ item \in Items(heap) /\ item = CurrentOf(frames, root)
      /\ heap[item].child = Null /\ heap[item].valuestring = Null /\ root # Null
    BY <1>1 DEF Inv, Places, ControlInv, RootInv, Blocks, WaitingInv
<1>4. /\ Sound(heap, Tops, PairsOf(frames)) /\ IsBytes(heap, raw) /\ raw # Null
      /\ IsBytes(heap, output) /\ output # raw
      /\ root \in Items(heap)
      /\ Typed(heap) /\ DOMAIN heap = Live
      /\ Tops = ({root, raw, output} \cup HeadsOf(frames)) \ {Null}
      /\ Stacked(heap, frames, root)
    BY <1>3, ParseFacts
<1>5. /\ Shaped(heap, heap')
      /\ \A q \in DOMAIN heap : q # item => heap'[q] = heap[q]
      /\ \A f \in ItemFields :
            heap'[item][f] = IF f \in DOMAIN c THEN c[f] ELSE heap[item][f]
    <2>1. Changes(heap, heap', item, c) /\ "block" \notin DOMAIN c
        BY <1>2 DEF Changes
    <2>. QED  BY <1>3, <1>4, <2>1, SetItemShaped
<1>6. Items(heap) \subseteq DOMAIN heap /\ Items(heap') = Items(heap)
    BY <1>5, ShapedItems DEF Items
<1>7. Attached(heap, heap', item, g, output)
    <2>1. ASSUME NEW p \in Items(heap), NEW f \in Fields
          PROVE  heap'[p][f] = IF p = item /\ f = g THEN output ELSE heap[p][f]
        <3>1. f \in ItemFields /\ (f \in DOMAIN c <=> f = g)
            BY <1>2 DEF Fields, ItemFields
        <3>. QED  BY <1>2, <1>5, <1>6, <3>1
    <2>. QED  BY <2>1 DEF Attached
<1>8. \A p \in Items(heap) : heap'[p].prev = heap[p].prev
    <2>1. "prev" \in ItemFields /\ "prev" \notin DOMAIN c
        BY <1>2 DEF ItemFields
    <2>. QED  BY <1>5, <1>6, <2>1
<1>9. Sound(heap', Tops \ {output}, PairsOf(frames))
    <2>1. output \in Tops /\ output \notin Items(heap)
        BY <1>3, <1>4 DEF IsBytes
    <2>. QED  BY <1>2, <1>3, <1>4, <1>5, <1>7, <1>8, <2>1, NamedLists
<1>10. Tops \ {output} = ({root, raw, Null} \cup HeadsOf(frames)) \ {Null}
    <2>1. output \notin HeadsOf(frames)
        <3>1. ASSUME NEW i \in 1..Len(frames), frames[i].head = output PROVE FALSE
            <4>1. <<frames[i].head, frames[i].tail>> \in PairsOf(frames)
                BY <1>3, <3>1 DEF PairsOf
            <4>2. frames[i].head \in Items(heap)
                BY <1>4, <4>1 DEF Sound, Lists
            <4>. QED  BY <1>4, <3>1, <4>2 DEF IsBytes
        <3>. QED  BY <3>1 DEF HeadsOf
    <2>2. output # root
        BY <1>4 DEF IsBytes
    <2>. QED  BY <1>3, <1>4, <2>1, <2>2
<1>11. \A p \in Items(heap) : heap'[p].child = heap[p].child
    BY <1>2, <1>7 DEF Attached, Fields
<1>12. Stacked(heap', frames, root)
    <2>1. \A i \in 1..Len(frames) : frames[i].owner \in Items(heap)
        BY <1>4 DEF Stacked
    <2>. QED  BY <1>4, <1>6, <1>11, <2>1, StackedKept
<1>13. StackInv'
    BY <1>1, <1>12 DEF StackInv, Inv, Blocks, Top, depth
<1>14. WaitingInv'
    <2>1. CASE parser' = "value"
        <3>1. g = "string"
            BY <1>1, <1>2, <2>1
        <3>2. heap'[item].valuestring = heap[item].valuestring
            BY <1>3, <1>7, <3>1 DEF Attached, Fields
        <3>. QED  BY <1>1, <1>3, <1>6, <1>11, <2>1, <3>2 DEF WaitingInv
    <2>2. CASE parser' # "value"
        BY <1>1, <2>2 DEF WaitingInv
    <2>. QED  BY <2>1, <2>2
<1>15. root' \in Items(heap') /\ IsBytes(heap', raw)
    BY <1>1, <1>4, <1>5, ShapedKinds
<1>. QED  BY <1>1, <1>4, <1>9, <1>10, <1>13, <1>14, <1>15, ParseGoal

\* Steps of parse_string leave the items alone.
LEMMA StringKeeps ==
    ASSUME Inv, UNCHANGED <<parser, frames, item, root>>,
           \A q \in Items(heap) : q \in Items(heap') /\ heap'[q] = heap[q]
    PROVE  StackInv' /\ WaitingInv'
<1>1. Stacked(heap', frames, root)
    <2>1. Stacked(heap, frames, root)
        BY DEF Inv, Blocks, StackInv
    <2>2. \A i \in 1..Len(frames) : frames[i].owner \in Items(heap)
        BY <2>1 DEF Stacked
    <2>. QED  BY <2>1, <2>2, StackedKept
<1>2. StackInv'
    BY <1>1 DEF StackInv, Inv, Blocks, Top, depth
<1>3. WaitingInv'
    BY DEF WaitingInv, Inv, Blocks
<1>. QED  BY <1>2, <1>3

LEMMA StringBlocks ==
    ASSUME Inv, Parse, InString
    PROVE  Blocks'
<1>1. /\ UNCHANGED <<parser, frames, item, root>> /\ StringStep
      /\ parser \in {"string", "name"} /\ root # Null
    BY DEF InString, Inv, Places, RootInv
<1>2. /\ Sound(heap, Tops, PairsOf(frames)) /\ IsBytes(heap, raw) /\ raw # Null
      /\ output # raw /\ (output # Null => IsBytes(heap, output))
      /\ root \in Items(heap)
      /\ Typed(heap) /\ DOMAIN heap = Live
      /\ Tops = ({root, raw, output} \cup HeadsOf(frames)) \ {Null}
      /\ Tops \subseteq Live
    BY <1>1, ParseFacts
<1>3. output # Null => output \notin HeadsOf(frames) /\ output # root
    <2>1. ASSUME NEW i \in 1..Len(frames), frames[i].head = output, output # Null
          PROVE  FALSE
        <3>1. <<frames[i].head, frames[i].tail>> \in PairsOf(frames)
            BY <2>1 DEF PairsOf
        <3>2. frames[i].head \in Items(heap)
            BY <1>2, <3>1 DEF Sound, Lists
        <3>. QED  BY <1>2, <2>1, <3>2 DEF IsBytes
    <2>. QED  BY <1>2, <2>1 DEF HeadsOf, IsBytes
<1>4. output \in {Null} \cup Live /\ Items(heap) \subseteq DOMAIN heap
    BY <1>2 DEF IsBytes, Items
<1>5. CASE UNCHANGED <<heap, output>>
    BY <1>5, QuietBlocks
<1>6. CASE AllocateOutput
    <2>1. output = Null
        BY <1>6 DEF AllocateOutput, AtQuote, Inv, Places, ControlInv
    <2>2. PICK n \in Nat \ {0} : n = Fresh /\ n \notin Live /\ n # Null
        BY InvFacts DEF Inv, Blocks
    <2>3. output' = n /\ heap' = Added(heap, n, Bytes(<<>>))
        BY <1>6, <2>2, WithAdds DEF AllocateOutput
    <2>4. Sound(Added(heap, n, Bytes(<<>>)), Tops \cup {n}, PairsOf(frames))
        BY <1>2, <2>2, NewBytes, AddedLists
    <2>5. ({root, raw, n} \cup HeadsOf(frames)) \ {Null} = Tops \cup {n}
        BY <1>2, <2>1, <2>2
    <2>6. /\ \A p : /\ p \in Items(heap) => p \in Items(heap')
                    /\ IsBytes(heap, p) => IsBytes(heap', p)
          /\ IsBytes(heap', n)
        BY <1>2, <2>2, <2>3, NewBytes, AddedKinds
    <2>7. \A q \in Items(heap) : heap'[q] = heap[q]
        BY <1>2, <1>4, <2>2, <2>3 DEF Added
    <2>8. StackInv' /\ WaitingInv'
        BY <1>1, <2>6, <2>7, StringKeeps
    <2>9. n # raw
        BY <1>2, <2>2 DEF IsBytes
    <2>. QED  BY <1>1, <1>2, <2>3, <2>4, <2>5, <2>6, <2>8, <2>9, ParseGoal
<1>7. CASE CopyFails
    <2>1. output # Null /\ output' = Null /\ heap' = Rest(heap, {output})
        BY <1>7, WithoutRests DEF CopyFails, AtEscape, InCopy, Inv, Places, ControlInv
    <2>2. IsBytes(heap, output) /\ output \in Tops /\ root # output
        BY <1>2, <1>3, <2>1
    <2>3. \A x \in PairsOf(frames) : x[1] # output
        BY <1>3, <2>1, PairHeads
    <2>4. Sound(Rest(heap, {output}), Tops \ {output}, PairsOf(frames))
        BY <1>2, <2>2, <2>3, FreedBytes, FreedLists
    <2>5. ({root, raw, Null} \cup HeadsOf(frames)) \ {Null} = Tops \ {output}
        BY <1>2, <1>3, <2>1
    <2>6. \A q \in Items(heap) : q # output /\ q \in Items(heap') /\ heap'[q] = heap[q]
        <3>1. /\ \A p \in DOMAIN heap \ {output} : Rest(heap, {output})[p] = heap[p]
              /\ Items(Rest(heap, {output})) = Items(heap) \ {output}
            BY RestItems
        <3>2. output \notin Items(heap)
            BY <2>2 DEF IsBytes
        <3>. QED  BY <1>4, <2>1, <3>1, <3>2
    <2>7. StackInv' /\ WaitingInv'
        BY <1>1, <2>6, StringKeeps
    <2>8. IsBytes(heap', raw) /\ root \in Items(heap')
        BY <1>2, <2>1, <2>6, FreedKinds
    <2>. QED  BY <1>1, <1>2, <2>1, <2>4, <2>5, <2>7, <2>8, ParseGoal
<1>8. CASE CopyEnds
    <2>1. output # Null /\ output' = output /\ heap' = Added(heap, output, Bytes(out))
        BY <1>8, WithAdds DEF CopyEnds, Inv, Places, ControlInv
    <2>2. IsBytes(heap, output)
        BY <1>2, <2>1
    <2>3. /\ DOMAIN heap' = DOMAIN heap
          /\ \A q \in DOMAIN heap : q # output => heap'[q] = heap[q]
          /\ heap'[output].block = "bytes"
        BY <2>1, <2>2, NewBytes DEF Added, IsBytes
    <2>4. Shaped(heap, heap') /\ Sound(heap', Tops, PairsOf(frames))
        BY <1>2, <2>2, <2>3, BytesChanged
    <2>5. \A q \in Items(heap) : q \in Items(heap') /\ heap'[q] = heap[q]
        BY <1>4, <2>2, <2>3, <2>4, ShapedItems DEF IsBytes
    <2>6. StackInv' /\ WaitingInv'
        BY <1>1, <2>5, StringKeeps
    <2>7. IsBytes(heap', raw) /\ IsBytes(heap', output) /\ root \in Items(heap')
        BY <1>2, <2>2, <2>4, ShapedKinds
    <2>. QED  BY <1>1, <1>2, <2>1, <2>4, <2>6, <2>7, ParseGoal
<1>9. \/ UNCHANGED <<heap, output>> \/ AllocateOutput \/ CopyFails \/ CopyEnds
    BY <1>1 DEF StringStep, Scan, ScanEscape, Unterminated, OutputFails, CopyPlain,
                CopyEscape, CopySingle, CopyPair, Take, heapVars
<1>. QED  BY <1>5, <1>6, <1>7, <1>8, <1>9
-----------------------------------------------------------------------------
(***************************************************************************)
(* Every step                                                              *)
(***************************************************************************)

\* A container opens with its token; every pointer is a number.
LEMMA ParseFrames ==
    ASSUME Inv, Parse PROVE frames' \in Seq(Frame)
<1>1. frames \in Seq(Frame)
    BY DEF Inv, Places
<1>2. CASE OpenContainer
    BY <1>2, OpenBlocks
<1>3. CASE ArrayElement \/ ObjectMember
    BY <1>3, NewElementBlocks
<1>4. CASE CloseContainer
    BY <1>4, CloseBlocks
<1>5. CASE Unwind
    BY <1>5, UnwindBlocks
<1>6. CASE ~(OpenContainer \/ ArrayElement \/ ObjectMember \/ CloseContainer \/ Unwind)
    <2>1. ParserStep
        BY DEF Parse
    <2>2. frames' = frames
        BY <1>6, <2>1 DEF ParserStep, NewRoot, RootFails, RootParsed, RootDeleted, Literal,
           parse_number, StringValue, EmptyContainer, NoValue, ElementFails, Comma,
           NotClosed, StringParsed, NameParsed, StringFailed, InString, OutOfMemory,
           ParseFails, Parsed
    <2>. QED  BY <1>1, <2>2
<1>. QED  BY <1>2, <1>3, <1>4, <1>5, <1>6

LEMMA ParseBlocks ==
    ASSUME Inv, Parse PROVE Blocks'
<1>1. ParserStep
    BY DEF Parse
<1>2. CASE RootFails \/ RootParsed \/ StringValue \/ NoValue \/ ElementFails
           \/ Comma \/ NotClosed \/ StringFailed
    BY <1>2, QuietBlocks
<1>3. CASE Literal \/ parse_number \/ EmptyContainer
    BY <1>3, ValueBlocks
<1>4. CASE ArrayElement \/ ObjectMember
    BY <1>4, NewElementBlocks
<1>5. CASE StringParsed \/ NameParsed
    BY <1>5, NamedBlocks
<1>6. CASE NewRoot \/ RootDeleted \/ OpenContainer \/ CloseContainer \/ Unwind \/ InString
    BY <1>6, NewRootBlocks, RootDeletedBlocks, OpenBlocks, CloseBlocks, UnwindBlocks,
       StringBlocks
<1>. QED  BY <1>1, <1>2, <1>3, <1>4, <1>5, <1>6 DEF ParserStep

LEMMA InvStarts == Init => Inv
<1>. SUFFICES ASSUME Init PROVE Inv
    OBVIOUS
<1>1. /\ heap = <<>> /\ at = "idle" /\ call = NoCall /\ raw = Null /\ result = 0
      /\ parser = "idle" /\ frames = <<>> /\ root = Null /\ phase = "idle"
      /\ output = Null /\ printer = "idle" /\ buffer = Null
    BY DEF Init, ParserInit, PrinterInit, StringInit
<1>2. Places
    <2>1. <<>> \in Seq(Frame)
        OBVIOUS
    <2>. QED  BY <1>1, <2>1 DEF Places, ControlInv, RootInv
<1>3. StackInv /\ WaitingInv /\ Tops = {} /\ PairsOf(frames) = {} /\ KindsInv
    BY <1>1, <1>2, Calm, CalmTops DEF Given, Null
<1>4. DOMAIN heap = {}
    <2>1. DOMAIN <<>> = {}
        OBVIOUS
    <2>. QED  BY <1>1, <2>1
<1>5. MemoryInv
    BY <1>3, <1>4, EmptySound DEF MemoryInv
<1>. QED  BY <1>2, <1>3, <1>5 DEF Inv, Blocks

LEMMA InvGoesOn == Inv /\ [Next]_vars => Inv'
<1>. SUFFICES ASSUME Inv, [Next]_vars PROVE Inv'
    OBVIOUS
<1>1. Places'
    BY InvFacts, ParseFrames, PlacesKept DEF Inv, Blocks
<1>2. CASE UNCHANGED vars
    <2>1. Given' = Given
        BY <1>2 DEF vars, Given
    <2>2. /\ UNCHANGED <<heap, root, raw, output, buffer, frames>>
          /\ UNCHANGED <<parser, item>>
        BY <1>2 DEF vars, parserVars, printerVars, bufferVars, stringVars, heapVars
    <2>3. KindsInv' /\ MemoryInv'
        BY <2>1, <2>2, Quiet DEF Inv, Blocks
    <2>4. StackInv' /\ WaitingInv'
        BY <2>2, StringKeeps
    <2>. QED  BY <1>1, <2>3, <2>4 DEF Inv, Blocks
<1>3. CASE Call \/ DispatchAnswers \/ SchemeAnswers \/ NothingToParse
           \/ ParamsNotCopied \/ NoTree \/ ReturnTree \/ StartPrint
    BY <1>1, <1>3, CallsBlocks DEF Inv
<1>4. CASE CopyParams \/ ParseEnds \/ MaxConcurrent \/ PrintEnds \/ FromJsonEnds
    BY <1>1, <1>4, CopyBlocks, ParseEndsBlocks, TreeBlocks, FromJsonBlocks DEF Inv
<1>5. CASE Parse
    BY <1>1, <1>5, ParseBlocks DEF Inv
<1>6. CASE PrintGoesOn
    BY <1>1, <1>6, PrintBlocks DEF Inv
<1>7. CASE CallerFrees \/ ComesBack
    BY <1>1, <1>7, CallerBlocks DEF Inv
<1>. QED  BY <1>2, <1>3, <1>4, <1>5, <1>6, <1>7 DEF Next, CallStep

LEMMA InvAlways == Spec => []Inv
BY InvStarts, InvGoesOn, PTL DEF Spec
-----------------------------------------------------------------------------
(***************************************************************************)
(* What the invariant says                                                 *)
(***************************************************************************)

\* No more than one of something.
LEMMA AtMostOne ==
    ASSUME NEW S, \A x, y \in S : x = y
    PROVE  Cardinality(S) \in 0..1 /\ (S = {} => Cardinality(S) = 0)
<1>1. CASE S = {}
    BY <1>1, FS_EmptySet
<1>2. CASE S # {}
    <2>1. PICK x \in S : S = {x}
        BY <1>2
    <2>2. Cardinality({x}) = 1
        BY FS_Singleton
    <2>. QED  BY <1>2, <2>1, <2>2
<1>. QED  BY <1>1, <1>2

LEMMA OneOwnerHolds == ASSUME Inv PROVE OneOwner
<1>1. /\ Typed(heap) /\ Exclusive(heap, Tops) /\ Tops \subseteq Live
      /\ DOMAIN heap = Live /\ Null \notin Live
    BY InvFacts DEF Inv, Blocks, Forest
<1>2. /\ Stacked(heap, frames, root) /\ KindsInv
      /\ Sound(heap, Tops, PairsOf(frames))
    BY DEF Inv, Blocks, StackInv, MemoryInv
<1>3. \A p : IsItem(p) <=> p \in Items(heap)
    BY <1>1 DEF IsItem, Items
<1>4. \A e \in UNION {Pointers(p) : p \in Live} :
          \E p \in Items(heap), f \in Fields : e = <<p, f, heap[p][f]>>
    BY <1>3 DEF Pointers, Fields
<1>5. ASSUME NEW q \in Live
      PROVE  /\ Cardinality({e \in UNION {Pointers(p) : p \in Live} : e[3] = q})
                   + Cardinality({r \in {raw, root, output, buffer} : r = q})
                   + Cardinality({i \in 1..Len(frames) : frames[i].head = q}) <= 1
             /\ IsItem(q) => Owned(q) \subseteq Live
    <2>. DEFINE E == {e \in UNION {Pointers(p) : p \in Live} : e[3] = q}
                R == {r \in {raw, root, output, buffer} : r = q}
                F == {i \in 1..Len(frames) : frames[i].head = q}
    <2>1. q # Null
        BY <1>1
    <2>2. \A e \in E : \E p \in Items(heap), f \in Fields :
              e = <<p, f, q>> /\ heap[p][f] = q
        BY <1>4
    <2>3. \A d, e \in E : d = e
        BY <1>1, <2>1, <2>2 DEF Exclusive
    <2>4. \A d, e \in R : d = e
        OBVIOUS
    <2>5. \A i, j \in F : i = j
        BY <1>2 DEF Stacked
    <2>6. R # {} \/ F # {} => E = {}
        <3>1. R # {} \/ F # {} => q \in Tops
            BY <2>1 DEF Tops, HeadsOf
        <3>2. q \in Tops => E = {}
            BY <1>1, <2>2 DEF Exclusive
        <3>. QED  BY <3>1, <3>2
    <2>7. F # {} => R = {}
        <3>1. ASSUME NEW i \in F PROVE R = {}
            <4>1. i \in 1..Len(frames) /\ frames[i].head = q /\ frames[i].head # root
                BY <1>2 DEF Stacked
            <4>2. <<frames[i].head, frames[i].tail>> \in PairsOf(frames)
                BY <2>1, <4>1 DEF PairsOf
            <4>3. q \in Items(heap)
                BY <1>2, <4>1, <4>2 DEF Sound, Lists
            <4>. QED  BY <1>2, <2>1, <4>1, <4>3 DEF KindsInv, IsBytes
        <3>. QED  BY <3>1
    <2>8. PICK e, r, f \in 0..1 : e = Cardinality(E) /\ r = Cardinality(R) /\ f = Cardinality(F)
        BY <2>3, <2>4, <2>5, AtMostOne
    <2>9. (E = {} => e = 0) /\ (R = {} => r = 0) /\ (F = {} => f = 0)
        BY <2>8, FS_EmptySet
    <2>10. (e = 0 /\ r = 0) \/ (e = 0 /\ f = 0) \/ (r = 0 /\ f = 0)
        BY <2>6, <2>7, <2>9
    <2>11. (e + r) + f <= 1
        BY <2>10
    <2>12. IsItem(q) => Owned(q) \subseteq Live
        BY <1>1, <1>3, PointsInside, OwnedFields
    <2>. QED  BY <2>8, <2>11, <2>12
<1>. QED  BY <1>5 DEF OneOwner

\* Everything allocated is owned by what runs, or by its caller.
LEMMA NothingLeakedHolds == ASSUME Inv PROVE NothingLeaked
<1>1. Live \subseteq UNION {cJSON_Delete(t) : t \in Tops}
    BY InvFacts, RootsAreAll DEF Inv, Blocks
<1>2. ASSUME NEW t \in Tops
      PROVE  \E p \in Roots \ {Null} : cJSON_Delete(t) \subseteq cJSON_Delete(p)
    <2>1. CASE t \notin Given
        BY <2>1 DEF Tops, HeadsOf, Roots
    <2>2. CASE t \in Given
        <3>1. at = "returned" /\ t = result /\ call.op \in Printers
            BY <2>2 DEF Given
        <3>2. cJSON_Delete(t) \subseteq CallerOwns
            BY <3>1 DEF CallerOwns, Printers, Validators
        <3>3. t \in cJSON_Delete(t) /\ t # Null
            BY InvFacts, DeleteFrees DEF Freed, Inv, Blocks
        <3>4. t \in Roots
            BY <3>1, <3>2, <3>3 DEF Roots
        <3>. QED  BY <3>3, <3>4
    <2>. QED  BY <2>1, <2>2
<1>. QED  BY <1>1, <1>2 DEF NothingLeaked

LEMMA LinkedHolds == ASSUME Inv PROVE Linked
<1>1. /\ Typed(heap) /\ DOMAIN heap = Live /\ Links(heap, PairsOf(frames))
    BY InvFacts DEF Inv, Blocks, MemoryInv, Sound
<1>2. ASSUME NEW p \in Tree, IsItem(p)
      PROVE  /\ heap[p].next # Null => heap[heap[p].next].prev = p
             /\ heap[p].child # Null =>
                    LET tail == heap[heap[p].child].prev
                    IN  tail # Null /\ heap[tail].next = Null
    <2>1. p \in Items(heap)
        BY <1>1, <1>2 DEF IsItem, Items
    <2>2. \A q \in Items(heap) : q # Null
        BY <1>1, FieldTypes
    <2>. QED  BY <1>1, <2>1, <2>2 DEF Links, ListIsClosed
<1>. QED  BY <1>2 DEF Linked

\* Nothing is freed twice: whatever text is parsed and printed, and whatever
\* allocation fails on the way, every block that the calls of openaic.c have
\* allocated has one owner at most, and an item owns nothing that is gone.
THEOREM NoTwoOwners == Spec => []OneOwner
BY InvAlways, OneOwnerHolds, PTL

\* Nothing leaks: when a parse or a print gives up, the blocks it leaves are
\* those that the call still has to free or its caller gets.
THEOREM NoLeak == Spec => []NothingLeaked
BY InvAlways, NothingLeakedHolds, PTL

\* The lists of a parsed tree are linked both ways, as cJSON_Delete and the
\* printer need them.
THEOREM ListsAreLinked == Spec => []Linked
BY InvAlways, LinkedHolds, PTL

-----------------------------------------------------------------------------
(***************************************************************************)
(* Sums and concatenations                                                 *)
(***************************************************************************)

\* The partial sums of f, and its partial concatenations.
IsSums(g, f, N) == g = [n \in 0..N |-> IF n = 0 THEN 0 ELSE g[n - 1] + f[n]]
IsJoins(g, f, N) == g = [n \in 0..N |-> IF n = 0 THEN <<>> ELSE g[n - 1] \o f[n]]

LEMMA SumIsLast ==
    ASSUME NEW f PROVE Sum(f) = (CHOOSE g : IsSums(g, f, Len(f)))[Len(f)]
BY DEF Sum, IsSums

LEMMA JoinIsLast ==
    ASSUME NEW f PROVE Joined(f) = (CHOOSE g : IsJoins(g, f, Len(f)))[Len(f)]
BY DEF Joined, IsJoins

LEMMA SumUnfolds ==
    ASSUME NEW f, NEW N \in Nat, Len(f) = N, \A i \in 1..N : f[i] \in Nat
    PROVE  \E g \in [0..N -> Nat] :
              /\ g[0] = 0
              /\ \A n \in 0..N : n < N => g[n + 1] = g[n] + f[n + 1]
              /\ Sum(f) = g[N]
<1>. DEFINE Phi == [n \in 1..N |-> [x \in Nat |-> x + f[n]]]
<1>1. \A n \in 1..N : \A x \in Nat : Phi[n][x] \in Nat /\ Phi[n][x] = x + f[n]
    OBVIOUS
<1>. HIDE DEF Phi
<1>2. PICK g \in [0..N -> Nat] : IsRecursive(g, N, 0, Phi)
    BY <1>1, Recursion
<1>3. \A n \in 0..N : (IF n = 0 THEN 0 ELSE Phi[n][g[n - 1]])
                        = (IF n = 0 THEN 0 ELSE g[n - 1] + f[n])
    <2>. SUFFICES ASSUME NEW n \in 0..N, n # 0
                  PROVE  Phi[n][g[n - 1]] = g[n - 1] + f[n]
        OBVIOUS
    <2>1. n \in 1..N /\ n - 1 \in 0..N
        OBVIOUS
    <2>. QED  BY <1>1, <1>2, <2>1
<1>4. IsSums(g, f, N)
    BY <1>2, <1>3 DEF IsRecursive, IsSums
<1>5. PICK h : h = CHOOSE k : IsSums(k, f, N)
    OBVIOUS
<1>6. IsSums(h, f, N) /\ Sum(f) = h[N]
    BY <1>4, <1>5, SumIsLast
<1>7. \A n \in 0..N : h[n] = IF n = 0 THEN 0 ELSE h[n - 1] + f[n]
    BY <1>6 DEF IsSums
<1>8. h[0] = 0
    BY <1>7
<1>9. ASSUME NEW n \in 0..N, n < N PROVE h[n + 1] = h[n] + f[n + 1]
    <2>1. n + 1 \in 0..N /\ n + 1 # 0 /\ (n + 1) - 1 = n
        BY <1>9
    <2>. QED  BY <1>7, <2>1
<1>10. \A n \in 0..N : h[n] \in Nat
    <2>. DEFINE T == {n \in 0..N : h[n] \in Nat}
    <2>1. 0 \in T
        BY <1>8
    <2>2. ASSUME NEW n \in 0..N, n \in T, n < N PROVE n + 1 \in T
        <3>1. n + 1 \in 0..N /\ n + 1 \in 1..N
            BY <2>2
        <3>. QED  BY <1>9, <2>2, <3>1
    <2>. HIDE DEF T
    <2>3. 0..N \subseteq T
        BY <2>1, <2>2, Induct
    <2>. QED  BY <2>3 DEF T
<1>11. h \in [0..N -> Nat]
    BY <1>6, <1>10 DEF IsSums
<1>. QED  BY <1>6, <1>8, <1>9, <1>11

\* Joined is the last of the partial concatenations.
LEMMA JoinIs ==
    ASSUME NEW f, NEW N \in Nat, Len(f) = N, NEW S, \A i \in 1..N : f[i] \in Seq(S)
    PROVE  \E h : IsJoins(h, f, N) /\ Joined(f) = h[N]
<1>. DEFINE X == Seq(S)
            Phi == [n \in 1..N |-> [x \in X |-> x \o f[n]]]
<1>1. \A n \in 1..N : \A x \in X : Phi[n][x] \in X /\ Phi[n][x] = x \o f[n]
    <2>1. \A n \in 1..N : \A x \in X : x \o f[n] \in X
        OBVIOUS
    <2>. QED  BY <2>1
<1>2. <<>> \in X
    OBVIOUS
<1>. HIDE DEF Phi, X
<1>3. PICK g \in [0..N -> X] : IsRecursive(g, N, <<>>, Phi)
    BY <1>1, <1>2, Recursion
<1>4. \A n \in 0..N : (IF n = 0 THEN <<>> ELSE Phi[n][g[n - 1]])
                        = (IF n = 0 THEN <<>> ELSE g[n - 1] \o f[n])
    <2>. SUFFICES ASSUME NEW n \in 0..N, n # 0
                  PROVE  Phi[n][g[n - 1]] = g[n - 1] \o f[n]
        OBVIOUS
    <2>1. n \in 1..N /\ n - 1 \in 0..N
        OBVIOUS
    <2>. QED  BY <1>1, <1>3, <2>1
<1>5. IsJoins(g, f, N)
    BY <1>3, <1>4 DEF IsRecursive, IsJoins
<1>6. PICK h : h = CHOOSE k : IsJoins(k, f, N)
    OBVIOUS
<1>7. IsJoins(h, f, N) /\ Joined(f) = h[N]
    BY <1>5, <1>6, JoinIsLast
<1>. QED  BY <1>7

\* The parts are joined one by one.
JoinSteps(g, f, N, S) ==
    /\ g \in [0..N -> Seq(S)]
    /\ g[0] = <<>>
    /\ \A n \in 0..N : n < N => g[n + 1] = g[n] \o f[n + 1]
    /\ Joined(f) = g[N]

LEMMA JoinUnfolds ==
    ASSUME NEW f, NEW N \in Nat, Len(f) = N, NEW S, \A i \in 1..N : f[i] \in Seq(S)
    PROVE  \E g : JoinSteps(g, f, N, S)
<1>. DEFINE X == Seq(S)
<1>2. <<>> \in X
    OBVIOUS
<1>. HIDE DEF X
<1>7. PICK h : IsJoins(h, f, N) /\ Joined(f) = h[N]
    BY JoinIs
<1>8. \A n \in 0..N : h[n] = IF n = 0 THEN <<>> ELSE h[n - 1] \o f[n]
    BY <1>7 DEF IsJoins
<1>9. h[0] = <<>>
    BY <1>8
<1>10. ASSUME NEW n \in 0..N, n < N PROVE h[n + 1] = h[n] \o f[n + 1]
    <2>1. n + 1 \in 0..N /\ n + 1 # 0 /\ (n + 1) - 1 = n
        BY <1>10
    <2>. QED  BY <1>8, <2>1
<1>11. \A n \in 0..N : h[n] \in X
    <2>. DEFINE T == {n \in 0..N : h[n] \in X}
    <2>1. 0 \in T
        BY <1>2, <1>9
    <2>2. ASSUME NEW n \in 0..N, n \in T, n < N PROVE n + 1 \in T
        <3>1. n + 1 \in 0..N /\ n + 1 \in 1..N
            BY <2>2
        <3>2. h[n] \in Seq(S) /\ f[n + 1] \in Seq(S)
            BY <2>2, <3>1 DEF X
        <3>3. h[n] \o f[n + 1] \in Seq(S)
            BY <3>2
        <3>. QED  BY <1>10, <2>2, <3>1, <3>3 DEF X
    <2>. HIDE DEF T
    <2>3. 0..N \subseteq T
        BY <2>1, <2>2, Induct
    <2>. QED  BY <2>3 DEF T
<1>12. h \in [0..N -> Seq(S)]
    BY <1>7, <1>11 DEF IsJoins, X
<1>13. JoinSteps(h, f, N, S)
    BY <1>7, <1>9, <1>10, <1>12 DEF JoinSteps
<1>. QED  BY <1>13

\* What is joined is no longer than the sum of what its parts may be.
LEMMA JoinedFits ==
    ASSUME NEW f, NEW w, NEW N \in Nat, Len(f) = N, Len(w) = N,
           \A i \in 1..N : IsSequence(f[i]) /\ w[i] \in Nat /\ Len(f[i]) <= w[i]
    PROVE  /\ IsSequence(Joined(f))
           /\ Len(Joined(f)) \in Nat /\ Sum(w) \in Nat
           /\ Len(Joined(f)) <= Sum(w)
<1>. DEFINE S == UNION {{f[i][k] : k \in 1..Len(f[i])} : i \in 1..N}
<1>1. ASSUME NEW i \in 1..N PROVE f[i] \in Seq(S)
    <2>1. PICK R : f[i] \in Seq(R)
        BY DEF IsSequence
    <2>2. PICK s : s = f[i]
        OBVIOUS
    <2>3. \A k \in 1..Len(s) : s[k] \in S
        BY <2>2
    <2>. HIDE DEF S
    <2>4. s \in Seq(R)
        BY <2>1, <2>2
    <2>5. s \in Seq(S)
        BY <2>3, <2>4
    <2>. QED  BY <2>2, <2>5
<1>. HIDE DEF S
<1>2. PICK g \in [0..N -> Seq(S)] :
          /\ g[0] = <<>>
          /\ \A n \in 0..N : n < N => g[n + 1] = g[n] \o f[n + 1]
          /\ Joined(f) = g[N]
    <2>1. PICK g : JoinSteps(g, f, N, S)
        BY <1>1, JoinUnfolds
    <2>. QED  BY <2>1 DEF JoinSteps
<1>3. PICK h \in [0..N -> Nat] :
          /\ h[0] = 0
          /\ \A n \in 0..N : n < N => h[n + 1] = h[n] + w[n + 1]
          /\ Sum(w) = h[N]
    BY SumUnfolds
<1>. DEFINE T == {n \in 0..N : Len(g[n]) <= h[n]}
<1>4. 0 \in T
    BY <1>2, <1>3
<1>5. ASSUME NEW n \in 0..N, n \in T, n < N PROVE n + 1 \in T
    <2>1. n + 1 \in 1..N /\ n + 1 \in 0..N
        BY <1>5
    <2>2. /\ g[n + 1] = g[n] \o f[n + 1] /\ h[n + 1] = h[n] + w[n + 1]
          /\ Len(g[n]) <= h[n] /\ Len(f[n + 1]) <= w[n + 1]
          /\ h[n] \in Nat /\ w[n + 1] \in Nat
        BY <1>2, <1>3, <1>5, <2>1
    <2>3. g[n] \in Seq(S) /\ f[n + 1] \in Seq(S)
        BY <1>1, <1>2, <2>1
    <2>4. PICK x, y : x = g[n] /\ y = f[n + 1]
        OBVIOUS
    <2>5. IsSequence(x) /\ IsSequence(y)
        BY <2>3, <2>4 DEF IsSequence
    <2>6. Len(x \o y) = Len(x) + Len(y) /\ Len(x) \in Nat /\ Len(y) \in Nat
        BY <2>5, Concatenated
    <2>7. Len(g[n + 1]) <= h[n + 1]
        <3>1. Len(g[n + 1]) = Len(x \o y)
            BY <2>2, <2>4
        <3>2. Len(x) <= h[n] /\ Len(y) <= w[n + 1]
            BY <2>2, <2>4
        <3>3. /\ h[n + 1] = h[n] + w[n + 1]
              /\ h[n] \in Nat /\ w[n + 1] \in Nat
            BY <2>2
        <3>4. PICK lx \in Nat, ly \in Nat : lx = Len(x) /\ ly = Len(y)
            BY <2>6
        <3>5. PICK a \in Nat, c \in Nat : a = h[n] /\ c = w[n + 1]
            BY <3>3
        <3>6. Len(g[n + 1]) = lx + ly
            BY <2>6, <3>1, <3>4
        <3>7. h[n + 1] = a + c /\ lx <= a /\ ly <= c
            BY <3>2, <3>3, <3>4, <3>5
        <3>. QED  BY <3>6, <3>7
    <2>. QED  BY <2>1, <2>7
<1>. HIDE DEF T
<1>6. 0..N \subseteq T
    BY <1>4, <1>5, Induct
<1>7. N \in 0..N
    OBVIOUS
<1>8. Len(g[N]) <= h[N]
    BY <1>6, <1>7 DEF T
<1>9. g[N] \in Seq(S) /\ h[N] \in Nat
    BY <1>2, <1>3, <1>7
<1>10. Len(g[N]) \in Nat
    BY <1>9
<1>. QED  BY <1>2, <1>3, <1>8, <1>9, <1>10 DEF IsSequence

LEMMA SumOfOnes ==
    ASSUME NEW w, NEW N \in Nat, Len(w) = N, \A i \in 1..N : w[i] = 1
    PROVE  Sum(w) = N
<1>0. \A i \in 1..N : w[i] \in Nat
    OBVIOUS
<1>1. PICK h \in [0..N -> Nat] :
          /\ h[0] = 0
          /\ \A n \in 0..N : n < N => h[n + 1] = h[n] + w[n + 1]
          /\ Sum(w) = h[N]
    BY <1>0, SumUnfolds
<1>. DEFINE T == {n \in 0..N : h[n] = n}
<1>2. 0 \in T
    BY <1>1
<1>3. ASSUME NEW n \in 0..N, n \in T, n < N PROVE n + 1 \in T
    <2>1. n + 1 \in 1..N /\ n + 1 \in 0..N
        BY <1>3
    <2>. QED  BY <1>1, <1>3, <2>1
<1>. HIDE DEF T
<1>4. 0..N \subseteq T
    BY <1>2, <1>3, Induct
<1>5. N \in 0..N
    OBVIOUS
<1>. QED  BY <1>1, <1>4, <1>5 DEF T

-----------------------------------------------------------------------------
(***************************************************************************)
(* The width of what is printed                                            *)
(***************************************************************************)

LEMMA SequenceLength ==
    ASSUME NEW s, IsSequence(s) PROVE Len(s) \in Nat
BY DEF IsSequence

LEMMA EmptySequence == IsSequence(<<>>) /\ Len(<<>>) = 0
<1>1. <<>> \in Seq({}) /\ Len(<<>>) = 0
    OBVIOUS
<1>. QED  BY <1>1 DEF IsSequence

\* A sequence that is given by what it has at each place.
LEMMA Mapped ==
    ASSUME NEW n \in Nat, NEW f, f = [i \in 1..n |-> f[i]]
    PROVE  IsSequence(f) /\ Len(f) = n
<1>1. PICK S : S = {f[i] : i \in 1..n}
    OBVIOUS
<1>2. f \in [1..n -> S]
    BY <1>1
<1>3. f \in Seq(S) /\ Len(f) = n
    BY <1>2
<1>. QED  BY <1>3 DEF IsSequence

LEMMA Prefix ==
    ASSUME NEW s, IsSequence(s), NEW n \in 0..Len(s)
    PROVE  /\ IsSequence(SubSeq(s, 1, n)) /\ Len(SubSeq(s, 1, n)) = n
           /\ \A i \in 1..n : SubSeq(s, 1, n)[i] = s[i] /\ i \in 1..Len(s)
<1>1. PICK S : s \in Seq(S)
    BY DEF IsSequence
<1>2. n \in Nat /\ \A i \in 1..n : i \in 1..Len(s)
    BY <1>1
<1>3. PICK b : b = SubSeq(s, 1, n)
    OBVIOUS
<1>4. b \in Seq(S) /\ Len(b) = n /\ \A i \in 1..n : b[i] = s[i]
    BY <1>1, <1>2, <1>3
<1>. QED  BY <1>2, <1>3, <1>4 DEF IsSequence

LEMMA EscapedFits ==
    ASSUME NEW c
    PROVE  /\ IsSequence(Escaped(c)) /\ EscapeCharacters(c) \in Nat
           /\ Len(Escaped(c)) \in Nat
           /\ Len(Escaped(c)) <= 1 + EscapeCharacters(c)
<1>1. EscapeCharacters(c) \in Nat
    BY DEF EscapeCharacters
<1>2. PICK k \in Nat, e \in {Escaped(c)} : e = Escaped(c) /\ k = EscapeCharacters(c)
    BY <1>1
<1>3. /\ IsSequence(e)
      /\ \/ k = 1 /\ Len(e) = 2
         \/ k = 5 /\ Len(e) = 6
         \/ k \in Nat /\ Len(e) = 1
    <2>1. CASE c \in {34, 92, 8, 12, 10, 13, 9}
        <3>1. k = 1
            BY <1>2, <2>1 DEF EscapeCharacters
        <3>2. PICK d : e = <<92, d>>
            BY <1>2, <2>1 DEF Escaped
        <3>3. IsSequence(e) /\ Len(e) = 2
            BY <3>2, Tuples, Zenon
        <3>. QED  BY <3>1, <3>3
    <2>2. CASE c \in 1..31 \ {34, 92, 8, 12, 10, 13, 9}
        <3>1. k = 5
            BY <1>2, <2>2 DEF EscapeCharacters
        <3>2. PICK d, x : e = <<92, 117, 48, 48, d, x>>
            BY <1>2, <2>2 DEF Escaped
        <3>3. e \in Seq({92, 117, 48, d, x}) /\ Len(e) = 6
            BY <3>2
        <3>4. IsSequence(e)
            BY <3>3, Zenon DEF IsSequence
        <3>. QED  BY <3>1, <3>3, <3>4
    <2>3. CASE c \notin 1..31 \cup {34, 92, 8, 12, 10, 13, 9}
        <3>1. e = <<c>>
            BY <1>2, <2>3 DEF Escaped
        <3>2. IsSequence(e) /\ Len(e) = 1
            BY <3>1, Tuples, Zenon
        <3>. QED  BY <1>1, <1>2, <3>2
    <2>. QED  BY <2>1, <2>2, <2>3
<1>4. Len(e) \in Nat /\ Len(e) <= 1 + k
    <2>1. CASE k = 1 /\ Len(e) = 2
        BY <2>1
    <2>2. CASE k = 5 /\ Len(e) = 6
        BY <2>2
    <2>3. CASE Len(e) = 1
        BY <2>3
    <2>. QED  BY <1>3, <2>1, <2>2, <2>3
<1>. QED  BY <1>1, <1>2, <1>3, <1>4

LEMMA CStringIsSequence ==
    ASSUME NEW bytes, IsSequence(bytes) PROVE IsSequence(CString(bytes))
<1>. DEFINE zeros == {i \in 1..Len(bytes) : bytes[i] = 0}
<1>1. Len(bytes) \in Nat
    BY SequenceLength
<1>2. CASE zeros = {}
    BY <1>2 DEF CString
<1>3. CASE zeros # {}
    <2>1. zeros \subseteq Nat
        BY <1>1
    <2>2. \E i \in zeros : \A j \in zeros : i <= j
        BY <1>3, <2>1, Least
    <2>3. PICK m : m = CHOOSE i \in zeros : \A j \in zeros : i <= j
        OBVIOUS
    <2>4. m \in zeros
        BY <2>2, <2>3
    <2>5. m - 1 \in 0..Len(bytes)
        BY <1>1, <2>4
    <2>6. CString(bytes) = SubSeq(bytes, 1, m - 1)
        BY <1>3, <2>3 DEF CString
    <2>. QED  BY <2>5, <2>6, Prefix
<1>. QED  BY <1>2, <1>3

\* What print_string_ptr writes behind the opening quote.
LEMMA StringTokenFits ==
    ASSUME NEW string, IsSequence(string)
    PROVE  /\ OutputLength(string) \in Nat
           /\ IsSequence(StringToken(string).bytes)
           /\ StringToken(string).kind = "string"
           /\ Len(StringToken(string).bytes) \in Nat
           /\ Len(StringToken(string).bytes) <= OutputLength(string) + 1
<1>1. PICK N \in Nat : N = Len(string)
    BY SequenceLength
<1>2. PICK f : f = [i \in 1..N |-> Escaped(string[i])]
    OBVIOUS
<1>3. PICK w : w = [i \in 1..N |-> 1 + EscapeCharacters(string[i])]
    OBVIOUS
<1>4. Len(f) = N /\ Len(w) = N
    <2>1. f = [i \in 1..N |-> f[i]] /\ w = [i \in 1..N |-> w[i]]
        BY <1>2, <1>3
    <2>. QED  BY <2>1, Mapped
<1>5. \A i \in 1..N : IsSequence(f[i]) /\ w[i] \in Nat /\ Len(f[i]) <= w[i]
    BY <1>2, <1>3, EscapedFits
<1>6. /\ IsSequence(Joined(f)) /\ Len(Joined(f)) \in Nat /\ Sum(w) \in Nat
      /\ Len(Joined(f)) <= Sum(w)
    BY <1>4, <1>5, JoinedFits
<1>7. OutputLength(string) = Sum(w)
    BY <1>1, <1>3 DEF OutputLength
<1>8. PICK j : j = Joined(f)
    OBVIOUS
<1>9. StringToken(string) = [kind |-> "string", bytes |-> Append(j, 34)]
    BY <1>1, <1>2, <1>8 DEF StringToken
<1>10. IsSequence(Append(j, 34)) /\ Len(Append(j, 34)) = Len(j) + 1
    <2>1. PICK S : j \in Seq(S)
        BY <1>6, <1>8 DEF IsSequence
    <2>2. j \in Seq(S \cup {34})
        BY <2>1
    <2>3. Append(j, 34) \in Seq(S \cup {34})
        BY <2>2
    <2>. QED  BY <2>2, <2>3 DEF IsSequence
<1>11. Len(j) \in Nat /\ Len(j) <= Sum(w) /\ Sum(w) \in Nat
    BY <1>6, <1>8
<1>12. /\ StringToken(string).bytes = Append(j, 34)
       /\ StringToken(string).kind = "string"
    BY <1>9
<1>. QED  BY <1>7, <1>10, <1>11, <1>12

LEMMA ConcatPlaces ==
    ASSUME NEW s, IsSequence(s), NEW t, IsSequence(t)
    PROVE  /\ IsSequence(s \o t) /\ Len(s) \in Nat /\ Len(t) \in Nat
           /\ Len(s \o t) = Len(s) + Len(t)
           /\ \A i \in 1..Len(s \o t) :
                 \/ i \in 1..Len(s) /\ (s \o t)[i] = s[i]
                 \/ i - Len(s) \in 1..Len(t) /\ (s \o t)[i] = t[i - Len(s)]
<1>1. PICK S : s \in Seq(S)
    BY DEF IsSequence
<1>2. PICK T : t \in Seq(T)
    BY DEF IsSequence
<1>3. PICK U : U = S \cup T
    OBVIOUS
<1>4. s \in Seq(U) /\ t \in Seq(U)
    BY <1>1, <1>2, <1>3
<1>5. PICK m \in Nat, n \in Nat : m = Len(s) /\ n = Len(t)
    BY <1>4
<1>6. PICK z : z = s \o t
    OBVIOUS
<1>7. z \in Seq(U) /\ Len(z) = m + n
    BY <1>4, <1>5, <1>6
<1>8. ASSUME NEW i \in 1..m + n
      PROVE  \/ i \in 1..m /\ z[i] = s[i]
             \/ i - m \in 1..n /\ z[i] = t[i - m]
    <2>1. CASE i <= m
        BY <1>4, <1>5, <1>6, <2>1
    <2>2. CASE i > m
        BY <1>4, <1>5, <1>6, <2>2
    <2>. QED  BY <2>1, <2>2
<1>. QED  BY <1>5, <1>6, <1>7, <1>8 DEF IsSequence

\* Tokens of one byte each.
Narrow(ts) == IsSequence(ts) /\ \A i \in 1..Len(ts) : Width(ts[i]) = 1

Punctuation == {"[", "]", "{", "}", ":", ",", "space"}

LEMMA MarkWidth ==
    \A kind : /\ kind \in Punctuation => Width(Mark(kind)) = 1
              /\ kind \in {"null", "true", "false"} => Width(Mark(kind)) \in Nat
<1>. TAKE kind
<1>1. Mark(kind).kind = kind
    BY DEF Mark
<1>. QED  BY <1>1 DEF Width, Punctuation

LEMMA NarrowMarks ==
    /\ Narrow(<<>>) /\ Len(<<>>) = 0
    /\ \A kind \in Punctuation : Narrow(<<Mark(kind)>>) /\ Len(<<Mark(kind)>>) = 1
<1>1. Narrow(<<>>) /\ Len(<<>>) = 0
    BY EmptySequence DEF Narrow
<1>2. ASSUME NEW kind \in Punctuation
      PROVE  Narrow(<<Mark(kind)>>) /\ Len(<<Mark(kind)>>) = 1
    <2>1. PICK m : m = Mark(kind)
        OBVIOUS
    <2>2. Width(m) = 1
        BY <2>1, MarkWidth
    <2>3. IsSequence(<<m>>) /\ Len(<<m>>) = 1
        BY Tuples, Zenon
    <2>4. \A i \in 1..1 : <<m>>[i] = m
        OBVIOUS
    <2>. QED  BY <2>1, <2>2, <2>3, <2>4 DEF Narrow
<1>. QED  BY <1>1, <1>2

LEMMA NarrowConcat ==
    ASSUME NEW s, Narrow(s), NEW t, Narrow(t)
    PROVE  Narrow(s \o t) /\ Len(s \o t) = Len(s) + Len(t)
           /\ Len(s) \in Nat /\ Len(t) \in Nat
<1>1. IsSequence(s) /\ IsSequence(t)
    BY DEF Narrow
<1>2. PICK z : z = s \o t
    OBVIOUS
<1>3. /\ IsSequence(z) /\ Len(s) \in Nat /\ Len(t) \in Nat
      /\ Len(z) = Len(s) + Len(t)
      /\ \A i \in 1..Len(z) :
            \/ i \in 1..Len(s) /\ z[i] = s[i]
            \/ i - Len(s) \in 1..Len(t) /\ z[i] = t[i - Len(s)]
    BY <1>1, <1>2, ConcatPlaces
<1>4. ASSUME NEW i \in 1..Len(z) PROVE Width(z[i]) = 1
    <2>1. CASE i \in 1..Len(s) /\ z[i] = s[i]
        BY <2>1, Zenon DEF Narrow
    <2>2. CASE i - Len(s) \in 1..Len(t) /\ z[i] = t[i - Len(s)]
        BY <2>2, Zenon DEF Narrow
    <2>. QED  BY <1>3, <2>1, <2>2
<1>5. Narrow(z)
    BY <1>3, <1>4 DEF Narrow
<1>. QED  BY <1>2, <1>3, <1>5

LEMMA NarrowSpaces ==
    ASSUME NEW n \in Nat PROVE Narrow(Spaces(n)) /\ Len(Spaces(n)) = n
<1>1. PICK f : f = Spaces(n)
    OBVIOUS
<1>2. f = [i \in 1..n |-> Mark("space")]
    BY <1>1 DEF Spaces
<1>3. \A i \in 1..n : f[i] = Mark("space")
    BY <1>2
<1>4. f = [i \in 1..n |-> f[i]]
    BY <1>2
<1>5. IsSequence(f) /\ Len(f) = n
    BY <1>4, Mapped
<1>6. Width(Mark("space")) = 1
    BY MarkWidth DEF Punctuation
<1>. QED  BY <1>1, <1>3, <1>5, <1>6 DEF Narrow

LEMMA NarrowWidth ==
    ASSUME NEW ts, Narrow(ts)
    PROVE  IsSequence(ts) /\ Len(ts) \in Nat /\ TotalWidth(ts) = Len(ts)
<1>1. PICK N \in Nat : N = Len(ts)
    BY SequenceLength DEF Narrow
<1>2. PICK w : w = [i \in 1..N |-> Width(ts[i])]
    OBVIOUS
<1>3. \A i \in 1..N : w[i] = 1
    BY <1>1, <1>2 DEF Narrow
<1>4. Len(w) = N
    <2>1. w = [i \in 1..N |-> w[i]]
        BY <1>2
    <2>. QED  BY <2>1, Mapped
<1>5. Sum(w) = N
    BY <1>3, <1>4, SumOfOnes
<1>. QED  BY <1>1, <1>2, <1>5 DEF TotalWidth, Narrow

LEMMA OneToken ==
    ASSUME NEW token, Width(token) \in Nat
    PROVE  IsSequence(<<token>>) /\ TotalWidth(<<token>>) = Width(token)
<1>1. PICK ts : ts = <<token>>
    OBVIOUS
<1>2. IsSequence(ts) /\ Len(ts) = 1
    BY <1>1, Tuples, Zenon
<1>3. ts[1] = token
    BY <1>1
<1>4. PICK w : w = [i \in 1..1 |-> Width(ts[i])]
    OBVIOUS
<1>5. w[1] = Width(token) /\ Len(w) = 1
    <2>1. w = [i \in 1..1 |-> w[i]]
        BY <1>4
    <2>2. 1 \in 1..1
        OBVIOUS
    <2>. QED  BY <1>3, <1>4, <2>1, <2>2, Mapped
<1>6. \A i \in 1..1 : w[i] \in Nat
    BY <1>5
<1>7. PICK h \in [0..1 -> Nat] :
          /\ h[0] = 0
          /\ \A n \in 0..1 : n < 1 => h[n + 1] = h[n] + w[n + 1]
          /\ Sum(w) = h[1]
    BY <1>5, <1>6, SumUnfolds
<1>8. h[0 + 1] = h[0] + w[0 + 1]
    BY <1>7
<1>9. Sum(w) = Width(token)
    BY <1>5, <1>7, <1>8
<1>. QED  BY <1>1, <1>2, <1>4, <1>9 DEF TotalWidth

-----------------------------------------------------------------------------
(***************************************************************************)
(* The pieces                                                              *)
(***************************************************************************)

\* A piece writes no more than it asks for, with a zero to end it or not.
PieceFits(piece) ==
    /\ piece.needed \in Nat
    /\ piece.zero \in BOOLEAN /\ piece.counted \in BOOLEAN
    /\ IsSequence(piece.tokens)
    /\ TotalWidth(piece.tokens) \in Nat
    /\ TotalWidth(piece.tokens) + (IF piece.zero THEN 1 ELSE 0) <= piece.needed + 1

\* A zero ends the piece, which update_offset looks for.
Terminated(piece) == piece.zero = TRUE

LEMMA PieceFields ==
    ASSUME NEW n, NEW ts, NEW z, NEW c
    PROVE  /\ Piece(n, ts, z, c).needed = n /\ Piece(n, ts, z, c).tokens = ts
           /\ Piece(n, ts, z, c).zero = z /\ Piece(n, ts, z, c).counted = c
BY DEF Piece

LEMMA Counted ==
    ASSUME NEW n, NEW ts, NEW z PROVE Piece(n, ts, z, TRUE).counted = TRUE
BY DEF Piece

LEMMA WritesLess ==
    ASSUME NEW n \in Nat, NEW ts, IsSequence(ts), NEW z \in BOOLEAN, NEW c \in BOOLEAN,
           NEW w \in Nat, TotalWidth(ts) = w, w <= n
    PROVE  /\ PieceFits(Piece(n, ts, z, c))
           /\ z => Terminated(Piece(n, ts, z, c))
<1>1. PICK p : p = Piece(n, ts, z, c)
    OBVIOUS
<1>2. p.needed = n /\ p.tokens = ts /\ p.zero = z /\ p.counted = c
    BY <1>1, PieceFields
<1>3. TotalWidth(p.tokens) = w
    BY <1>2
<1>4. w + (IF z THEN 1 ELSE 0) <= n + 1
    OBVIOUS
<1>. QED  BY <1>1, <1>2, <1>3, <1>4 DEF PieceFits, Terminated

LEMMA NarrowPiece ==
    ASSUME NEW n \in Nat, NEW ts, Narrow(ts), Len(ts) <= n,
           NEW z \in BOOLEAN, NEW c \in BOOLEAN
    PROVE  /\ PieceFits(Piece(n, ts, z, c))
           /\ z => Terminated(Piece(n, ts, z, c))
BY NarrowWidth, WritesLess

LEMMA ClosedFits ==
    ASSUME NEW token, Width(token) \in Nat
    PROVE  PieceFits(Closed(token)) /\ Terminated(Closed(token))
<1>1. PICK w \in Nat : w = Width(token)
    OBVIOUS
<1>2. IsSequence(<<token>>) /\ TotalWidth(<<token>>) = w
    BY <1>1, OneToken
<1>3. w + 1 \in Nat /\ w <= w + 1
    OBVIOUS
<1>. QED  BY <1>1, <1>2, <1>3, WritesLess DEF Closed

LEMMA NewlineNarrow ==
    ASSUME NEW newline
    PROVE  /\ Narrow(NewlineIf(newline))
           /\ Len(NewlineIf(newline)) = IF newline THEN 1 ELSE 0
<1>1. CASE newline
    <2>1. NewlineIf(newline) = <<Mark("space")>>
        BY <1>1 DEF NewlineIf
    <2>. QED  BY <1>1, <2>1, NarrowMarks DEF Punctuation
<1>2. CASE ~newline
    <2>1. NewlineIf(newline) = <<>>
        BY <1>2 DEF NewlineIf
    <2>. QED  BY <1>2, <2>1, NarrowMarks
<1>. QED  BY <1>1, <1>2

LEMMA MarkAndNewline ==
    ASSUME NEW kind \in Punctuation, NEW newline
    PROVE  /\ Narrow(<<Mark(kind)>> \o NewlineIf(newline))
           /\ Len(<<Mark(kind)>> \o NewlineIf(newline)) = IF newline THEN 2 ELSE 1
<1>1. Narrow(<<Mark(kind)>>) /\ Len(<<Mark(kind)>>) = 1
    BY NarrowMarks
<1>2. PICK m, s : m = <<Mark(kind)>> /\ s = NewlineIf(newline)
    OBVIOUS
<1>3. Narrow(m) /\ Narrow(s) /\ Len(m) = 1 /\ Len(s) = IF newline THEN 1 ELSE 0
    BY <1>1, <1>2, NewlineNarrow
<1>4. Narrow(m \o s) /\ Len(m \o s) = Len(m) + Len(s)
    BY <1>3, NarrowConcat
<1>5. Len(m \o s) = IF newline THEN 2 ELSE 1
    BY <1>3, <1>4
<1>. QED  BY <1>2, <1>4, <1>5

LEMMA OpenFits ==
    ASSUME NEW type PROVE PieceFits(OpenPiece(type)) /\ OpenPiece(type).counted = TRUE
<1>1. CASE type = "Array"
    <2>1. OpenPiece(type) = Piece(1, <<Mark("[")>>, FALSE, TRUE)
        BY <1>1 DEF OpenPiece
    <2>2. Narrow(<<Mark("[")>>) /\ Len(<<Mark("[")>>) = 1
        BY NarrowMarks DEF Punctuation
    <2>3. PieceFits(Piece(1, <<Mark("[")>>, FALSE, TRUE))
        <3>0. PICK n \in Nat : n = 1
            OBVIOUS
        <3>1. PICK ts : ts = <<Mark("[")>> /\ n = 1
            BY <3>0
        <3>2. Narrow(ts) /\ Len(ts) <= n
            BY <2>2, <3>1
        <3>3. PieceFits(Piece(n, ts, FALSE, TRUE))
            BY <3>2, NarrowPiece
        <3>. QED  BY <3>1, <3>3
    <2>. QED  BY <2>1, <2>3, Counted, Zenon
<1>2. CASE type # "Array"
    <2>1. PICK ts : ts = <<Mark("{")>> \o NewlineIf(format)
        OBVIOUS
    <2>2. PICK n \in Nat : n = IF format THEN 3 ELSE 2
        OBVIOUS
    <2>3. OpenPiece(type) = Piece(n, ts, FALSE, TRUE)
        BY <1>2, <2>1, <2>2 DEF OpenPiece
    <2>4. Narrow(ts) /\ Len(ts) = IF format THEN 2 ELSE 1
        BY <2>1, MarkAndNewline DEF Punctuation
    <2>5. Len(ts) <= n
        BY <2>2, <2>4
    <2>6. PieceFits(Piece(n, ts, FALSE, TRUE))
        BY <2>4, <2>5, NarrowPiece
    <2>. QED  BY <2>3, <2>6, Counted, Zenon
<1>. QED  BY <1>1, <1>2

LEMMA ColonFits == PieceFits(ColonPiece) /\ ColonPiece.counted = TRUE
<1>1. PICK ts : ts = <<Mark(":")>> \o NewlineIf(format)
    OBVIOUS
<1>2. PICK n \in Nat : n = IF format THEN 2 ELSE 1
    OBVIOUS
<1>3. ColonPiece = Piece(n, ts, FALSE, TRUE)
    BY <1>1, <1>2 DEF ColonPiece
<1>4. Narrow(ts) /\ Len(ts) = IF format THEN 2 ELSE 1
    BY <1>1, MarkAndNewline DEF Punctuation
<1>5. Len(ts) <= n
    BY <1>2, <1>4
<1>6. PieceFits(Piece(n, ts, FALSE, TRUE))
    BY <1>4, <1>5, NarrowPiece
<1>. QED  BY <1>3, <1>6, Counted, Zenon

LEMMA IndentFits ==
    ASSUME IsSequence(walk) PROVE PieceFits(IndentPiece) /\ IndentPiece.counted = TRUE
<1>1. PICK n \in Nat : n = Len(walk)
    BY SequenceLength
<1>2. Narrow(Spaces(n)) /\ Len(Spaces(n)) = n
    BY NarrowSpaces
<1>3. IndentPiece = Piece(n, Spaces(n), FALSE, TRUE)
    BY <1>1 DEF IndentPiece
<1>4. PieceFits(Piece(n, Spaces(n), FALSE, TRUE))
    <2>1. PICK ts : ts = Spaces(n)
        OBVIOUS
    <2>2. Narrow(ts) /\ Len(ts) <= n
        BY <1>2, <2>1
    <2>3. PieceFits(Piece(n, ts, FALSE, TRUE))
        BY <2>2, NarrowPiece
    <2>. QED  BY <2>1, <2>3
<1>. QED  BY <1>3, <1>4, Counted, Zenon

LEMMA CommaFits ==
    ASSUME NEW more PROVE PieceFits(CommaPiece(more)) /\ CommaPiece(more).counted = TRUE
<1>1. PICK comma : comma = IF more THEN <<Mark(",")>> ELSE <<>>
    OBVIOUS
<1>2. PICK space : space = NewlineIf(format /\ (more \/ Innermost.type = "Object"))
    OBVIOUS
<1>3. Narrow(comma)
    BY <1>1, NarrowMarks DEF Punctuation
<1>4. Narrow(space)
    BY <1>2, NewlineNarrow
<1>5. PICK ts : ts = comma \o space
    OBVIOUS
<1>6. Narrow(ts)
    BY <1>3, <1>4, <1>5, NarrowConcat
<1>7. PICK n \in Nat : n = Len(ts)
    BY <1>6, NarrowWidth
<1>8. CommaPiece(more) = Piece(n + 1, ts, TRUE, TRUE)
    BY <1>1, <1>2, <1>5, <1>7 DEF CommaPiece
<1>9. n + 1 \in Nat /\ Len(ts) <= n + 1
    BY <1>7
<1>10. PieceFits(Piece(n + 1, ts, TRUE, TRUE))
    BY <1>6, <1>9, NarrowPiece
<1>. QED  BY <1>8, <1>10, Counted, Zenon

LEMMA CloseFits ==
    ASSUME IsSequence(walk), walk # <<>>
    PROVE  PieceFits(ClosePiece) /\ Terminated(ClosePiece)
<1>1. PICK n \in Nat : n = Len(walk)
    BY SequenceLength
<1>2. n >= 1
    <2>1. PICK S : walk \in Seq(S)
        BY DEF IsSequence
    <2>. QED  BY <1>1, <2>1
<1>3. ASSUME NEW kind \in Punctuation
      PROVE  PieceFits(Closed(Mark(kind))) /\ Terminated(Closed(Mark(kind)))
    <2>1. Width(Mark(kind)) \in Nat
        BY MarkWidth
    <2>. QED  BY <2>1, ClosedFits
<1>4. CASE Innermost.type = "Array" \/ ~format
    <2>1. \E kind \in Punctuation : ClosePiece = Closed(Mark(kind))
        BY <1>4 DEF ClosePiece, Punctuation
    <2>. QED  BY <1>3, <2>1
<1>5. CASE Innermost.type # "Array" /\ format
    <2>1. PICK s : s = Spaces(n - 1)
        OBVIOUS
    <2>2. Narrow(s) /\ Len(s) = n - 1
        BY <1>2, <2>1, NarrowSpaces
    <2>3. PICK m : m = Mark("}")
        OBVIOUS
    <2>4. Narrow(<<m>>) /\ Len(<<m>>) = 1
        BY <2>3, NarrowMarks DEF Punctuation
    <2>5. PICK S : s \in Seq(S)
        BY <2>2 DEF Narrow, IsSequence
    <2>6. Append(s, m) = s \o <<m>>
        BY <2>5
    <2>7. Narrow(s \o <<m>>) /\ Len(s \o <<m>>) = Len(s) + Len(<<m>>)
        BY <2>2, <2>4, NarrowConcat
    <2>8. PICK ts : ts = Append(s, m)
        OBVIOUS
    <2>9. Narrow(ts) /\ Len(ts) = n
        BY <2>2, <2>4, <2>6, <2>7, <2>8
    <2>10. ClosePiece = Piece(n + 1, ts, TRUE, FALSE)
        BY <1>1, <1>5, <2>1, <2>3, <2>8 DEF ClosePiece
    <2>11. n + 1 \in Nat /\ Len(ts) <= n + 1
        BY <2>9
    <2>. QED  BY <2>9, <2>10, <2>11, NarrowPiece
<1>. QED  BY <1>4, <1>5

LEMMA NumberWidth ==
    ASSUME NEW value PROVE Width(NumberToken(value)) \in Nat
<1>1. CASE value = Infinite
    <2>1. NumberToken(value) = Mark("null")
        BY <1>1 DEF NumberToken
    <2>2. Width(Mark("null")) \in Nat
        BY MarkWidth
    <2>. QED  BY <2>1, <2>2
<1>2. CASE value # Infinite
    <2>1. PICK t : t = NumberToken(value)
        OBVIOUS
    <2>2. t.kind = "number" /\ t.value = value
        BY <1>2, <2>1 DEF NumberToken
    <2>3. PICK m : m = Magnitude(value) \div 2
        OBVIOUS
    <2>4. Digits(m) \in Nat
        <3>1. PICK K : K = {k \in 1..9 : m >= 10^k}
            OBVIOUS
        <3>2. K \subseteq 1..9
            BY <3>1
        <3>3. IsFiniteSet(1..9)
            <4>1. PICK n \in Nat : n = 9
                OBVIOUS
            <4>2. IsFiniteSet(1..n)
                BY FS_Interval
            <4>. QED  BY <4>1, <4>2
        <3>4. IsFiniteSet(K)
            BY <3>2, <3>3, FS_Subset
        <3>5. PICK c \in Nat : c = Cardinality(K)
            BY <3>4, FS_CardinalityType
        <3>6. Digits(m) = 1 + c
            BY <3>1, <3>5 DEF Digits
        <3>. QED  BY <3>6
    <2>5. PICK d \in Nat, s \in Nat, h \in Nat :
              /\ d = Digits(m)
              /\ s = (IF value < 0 THEN 1 ELSE 0)
              /\ h = (IF value % 2 = 0 THEN 0 ELSE 2)
        BY <2>4
    <2>6. Width(t) = d + s + h
        BY <2>2, <2>3, <2>5 DEF Width
    <2>. QED  BY <2>1, <2>5, <2>6
<1>. QED  BY <1>1, <1>2

LEMMA NumberPieceFits ==
    ASSUME NEW value
    PROVE  PieceFits(NumberPiece(value)) /\ NumberPiece(value).zero = TRUE
           /\ NumberPiece(value).counted = TRUE
<1>1. PICK t : t = NumberToken(value)
    OBVIOUS
<1>2. PICK w \in Nat : w = Width(t)
    BY <1>1, NumberWidth
<1>3. PICK ts : ts = <<t>>
    OBVIOUS
<1>4. IsSequence(ts) /\ TotalWidth(ts) = w
    BY <1>2, <1>3, OneToken
<1>5. PICK n \in Nat : n = w + 1
    OBVIOUS
<1>6. w <= n
    BY <1>5
<1>7. NumberPiece(value) = Piece(n, ts, TRUE, TRUE)
    BY <1>1, <1>2, <1>3, <1>5 DEF NumberPiece
<1>8. PieceFits(Piece(n, ts, TRUE, TRUE)) /\ Terminated(Piece(n, ts, TRUE, TRUE))
    BY <1>4, <1>6, WritesLess
<1>9. Terminated(NumberPiece(value)) /\ PieceFits(NumberPiece(value))
    BY <1>7, <1>8, Zenon
<1>10. NumberPiece(value).counted = TRUE
    BY <1>7, Counted, Zenon
<1>. QED  BY <1>9, <1>10 DEF Terminated

LEMMA StringPieceFits ==
    ASSUME NEW block, IsSequence(heap[block].bytes)
    PROVE  PieceFits(StringPiece(block)) /\ Terminated(StringPiece(block))
<1>1. PICK string : string = CharactersOf(block)
    OBVIOUS
<1>2. IsSequence(string)
    BY <1>1, CStringIsSequence, EmptySequence DEF CharactersOf
<1>3. PICK t : t = StringToken(string)
    OBVIOUS
<1>4. PICK o \in Nat, b \in Nat : o = OutputLength(string) /\ b = Len(t.bytes)
    BY <1>2, <1>3, StringTokenFits
<1>5. t.kind = "string" /\ b <= o + 1
    BY <1>2, <1>3, <1>4, StringTokenFits
<1>6. Width(t) = 1 + b
    BY <1>4, <1>5 DEF Width
<1>7. PICK w \in Nat : w = 1 + b
    OBVIOUS
<1>8. PICK ts : ts = <<t>>
    OBVIOUS
<1>9. IsSequence(ts) /\ TotalWidth(ts) = w
    BY <1>6, <1>7, <1>8, OneToken
<1>10. PICK n \in Nat : n = o + 3
    OBVIOUS
<1>11. w <= n
    BY <1>5, <1>7, <1>10
<1>12. StringPiece(block) = Piece(n, ts, TRUE, FALSE)
    BY <1>1, <1>3, <1>4, <1>8, <1>10 DEF StringPiece
<1>13. PieceFits(Piece(n, ts, TRUE, FALSE)) /\ Terminated(Piece(n, ts, TRUE, FALSE))
    BY <1>9, <1>11, WritesLess
<1>. QED  BY <1>12, <1>13, Zenon

-----------------------------------------------------------------------------
(***************************************************************************)
(* Where the parser is in its text                                         *)
(***************************************************************************)

\* An element, a literal string and a name begin at a token.
TextInv ==
    /\ IsSequence(text) /\ IsSequence(call.params)
    /\ offset \in 0..Len(text)
    /\ parser \in {"element", "string", "name"} => offset < Len(text)
    /\ Len(frames) <= NestingLimit

LEMMA WhitespaceEnds ==
    ASSUME NEW N \in Nat, Len(text) = N, NEW o \in 0..N
    PROVE  buffer_skip_whitespace(o) \in o..N
<1>. DEFINE Stops == {s \in o..N : ~Sees(s, "space")}
            IsStop(s) == /\ \A k \in o..s - 1 : Sees(k, "space")
                         /\ ~Sees(s, "space")
<1>1. N \in Stops
    <2>1. ~can_access(N)
        BY DEF can_access
    <2>. QED  BY <2>1 DEF Sees
<1>2. PICK m \in Stops : \A s \in Stops : m <= s
    <2>1. Stops \subseteq Nat
        OBVIOUS
    <2>. HIDE DEF Stops
    <2>. QED  BY <1>1, <2>1, Least
<1>3. m \in o..N /\ ~Sees(m, "space")
    BY <1>2
<1>4. \A k \in o..m - 1 : Sees(k, "space")
    <2>. SUFFICES ASSUME NEW k \in o..m - 1, ~Sees(k, "space") PROVE FALSE
        OBVIOUS
    <2>1. k \in o..N /\ k < m
        BY <1>3
    <2>2. k \in Stops
        BY <2>1
    <2>. QED  BY <1>2, <2>1, <2>2
<1>5. IsStop(m)
    BY <1>3, <1>4
<1>. HIDE DEF Stops, IsStop
<1>6. PICK stop : stop = CHOOSE s \in o..N : IsStop(s)
    OBVIOUS
<1>7. stop \in o..N
    BY <1>3, <1>5, <1>6
<1>8. buffer_skip_whitespace(o) =
          IF can_access(o) /\ stop = N THEN stop - 1 ELSE stop
    BY <1>6 DEF buffer_skip_whitespace, IsStop
<1>9. can_access(o) => o < N
    BY DEF can_access
<1>. QED  BY <1>7, <1>8, <1>9

LEMMA BomInside ==
    ASSUME IsSequence(text) PROVE skip_utf8_bom \in 0..Len(text)
<1>1. PICK S : text \in Seq(S)
    BY DEF IsSequence
<1>2. text # <<>> => Len(text) >= 1
    BY <1>1
<1>3. Len(text) \in Nat
    BY <1>1
<1>. QED  BY <1>2, <1>3 DEF skip_utf8_bom, BomSkipped

LEMMA SeesInside ==
    ASSUME NEW o, NEW kind, Sees(o, kind) PROVE o < Len(text)
BY DEF Sees, can_access

\* What a step of the parser does to the text, its place in it and its depth.
TextMoves ==
    /\ text' = text
    /\ offset' \in 0..Len(text)
    /\ parser' \in {"element", "string", "name"} => offset' < Len(text)
    /\ Len(frames') <= NestingLimit

LEMMA TextSteps ==
    ASSUME TextInv, frames \in Seq(Frame), parser = "element" => frames # <<>>, ParserStep
    PROVE  TextMoves
<1>. PICK N \in Nat : N = Len(text)
    BY SequenceLength DEF TextInv
<1>1. /\ offset \in 0..N
      /\ parser \in {"element", "string", "name"} => offset < N
      /\ Len(frames) <= NestingLimit
    BY DEF TextInv
<1>2. \A o \in 0..N : buffer_skip_whitespace(o) \in o..N
    BY WhitespaceEnds
<1>3. offset < N => buffer_skip_whitespace(offset + 1) \in offset + 1..N
    BY <1>1, <1>2
<1>4. \A o, kind : Sees(o, kind) => o < N
    BY SeesInside
<1>5. \A o : can_access(o) => o < N
    BY DEF can_access
<1>6. CASE NewRoot
    <2>1. skip_utf8_bom \in 0..N
        BY BomInside DEF TextInv
    <2>2. offset' \in 0..N
        BY <1>2, <1>6, <2>1 DEF NewRoot
    <2>. QED  BY <1>1, <1>6, <2>2 DEF NewRoot, TextMoves
<1>7. CASE RootFails \/ ElementFails \/ RootParsed \/ RootDeleted \/ NotClosed \/ NoValue
    BY <1>1, <1>7 DEF RootFails, ElementFails, RootParsed, RootDeleted, NotClosed, NoValue,
       OutOfMemory, ParseFails, TextMoves
<1>8. CASE Literal \/ parse_number \/ StringValue
    <2>1. offset < N
        BY <1>5, <1>8 DEF Literal, parse_number, StringValue, AtValue
    <2>. QED  BY <1>1, <1>8, <2>1 DEF Literal, parse_number, StringValue, Parsed, TextMoves
<1>9. CASE EmptyContainer
    <2>1. offset < N /\ Inside < N
        BY <1>4, <1>5, <1>9 DEF EmptyContainer, AtContainer, AtValue
    <2>2. Inside \in offset + 1..N
        BY <1>3, <2>1 DEF Inside
    <2>. QED  BY <1>1, <1>9, <2>1, <2>2 DEF EmptyContainer, Parsed, TextMoves
<1>10. CASE OpenContainer
    <2>1. offset < N /\ Inside < N /\ Len(frames) < NestingLimit
        BY <1>5, <1>10 DEF OpenContainer, AtContainer, AtValue, MayNest, depth
    <2>2. Inside \in offset + 1..N
        BY <1>3, <2>1 DEF Inside
    <2>3. Len(frames') = Len(frames) + 1 /\ Len(frames) \in Nat
        BY <1>10 DEF OpenContainer
    <2>4. Len(frames') <= NestingLimit
        BY <2>1, <2>3, NestingLimitNatural
    <2>5. offset' = Inside - 1 /\ text' = text
        BY <1>10 DEF OpenContainer
    <2>6. offset' \in 0..N /\ offset' < N
        BY <1>1, <2>1, <2>2, <2>5
    <2>. QED  BY <2>4, <2>5, <2>6 DEF TextMoves
<1>11. CASE ArrayElement \/ ObjectMember
    <2>1. offset < N /\ frames # <<>>
        BY <1>1, <1>11 DEF ArrayElement, ObjectMember
    <2>2. AtNext \in offset + 1..N
        BY <1>3, <2>1 DEF AtNext
    <2>3. Len(frames') = Len(frames)
        <3>1. PICK b, g : b = Below /\ frames' = Append(b, g)
            BY <1>11 DEF ArrayElement, ObjectMember, NewElement
        <3>2. PICK S : g \in S /\ Frame \subseteq S
            <4>1. g \in Frame \cup {g} /\ Frame \subseteq Frame \cup {g}
                OBVIOUS
            <4>. QED  BY <4>1
        <3>3. b \in Seq(Frame) /\ Len(b) = Len(frames) - 1
            BY <2>1, <3>1, Innermosts DEF Below, depth
        <3>4. b \in Seq(S)
            BY <3>2, <3>3
        <3>5. Len(Append(b, g)) = Len(b) + 1
            BY <3>2, <3>4
        <3>6. Len(frames) \in Nat
            OBVIOUS
        <3>. QED  BY <3>1, <3>3, <3>5, <3>6
    <2>4. CASE ArrayElement
        BY <1>1, <2>1, <2>2, <2>3, <2>4 DEF ArrayElement, TextMoves
    <2>5. CASE ObjectMember /\ Sees(AtNext, "string")
        <3>1. offset' = AtNext /\ text' = text /\ AtNext < N
            BY <1>4, <2>5 DEF ObjectMember
        <3>2. AtNext \in 0..N
            BY <1>1, <2>2
        <3>. QED  BY <1>1, <2>3, <3>1, <3>2 DEF TextMoves
    <2>6. CASE ObjectMember /\ ~Sees(AtNext, "string")
        BY <1>1, <2>3, <2>6 DEF ObjectMember, TextMoves
    <2>. QED  BY <1>11, <2>4, <2>5, <2>6
<1>12. CASE Comma
    <2>1. Behind \in 0..N /\ Behind < N
        <3>1. Behind < N
            BY <1>4, <1>12 DEF Comma
        <3>2. Behind \in 0..N
            BY <1>1, <1>2 DEF Behind
        <3>. QED  BY <3>1, <3>2
    <2>. QED  BY <1>1, <1>12, <2>1 DEF Comma, TextMoves
<1>13. CASE CloseContainer \/ Unwind
    <2>1. frames # <<>> /\ frames' = Below /\ text' = text
        BY <1>13 DEF CloseContainer, Unwind, InContainer, LeaveFrame
    <2>2. Len(frames') = Len(frames) - 1 /\ Len(frames) \in Nat
        BY <2>1, Innermosts DEF Below, depth
    <2>3. Len(frames') <= NestingLimit
        BY <1>1, <2>2, NestingLimitNatural
    <2>4. offset' \in 0..N /\ parser' \notin {"element", "string", "name"}
        <3>1. CASE CloseContainer
            <4>1. Behind \in 0..N /\ Behind < N
                BY <1>1, <1>2, <1>4, <3>1 DEF CloseContainer, Behind
            <4>. QED  BY <3>1, <4>1 DEF CloseContainer
        <3>2. CASE Unwind
            BY <1>1, <3>2 DEF Unwind
        <3>. QED  BY <1>13, <3>1, <3>2
    <2>. QED  BY <2>1, <2>3, <2>4 DEF TextMoves
<1>14. CASE StringParsed
    BY <1>1, <1>14 DEF StringParsed, TextMoves
<1>15. CASE NameParsed
    <2>1. offset < N
        BY <1>1, <1>15 DEF NameParsed
    <2>2. PICK colon : colon = buffer_skip_whitespace(offset + 1)
        OBVIOUS
    <2>3. colon \in 0..N
        BY <1>1, <1>3, <2>1, <2>2
    <2>4. CASE Sees(colon, ":")
        <3>1. colon + 1 \in 0..N
            BY <1>4, <2>3, <2>4
        <3>2. buffer_skip_whitespace(colon + 1) \in 0..N
            BY <1>2, <3>1
        <3>. QED  BY <1>1, <1>15, <2>2, <2>4, <3>2 DEF NameParsed, TextMoves
    <2>5. CASE ~Sees(colon, ":")
        BY <1>1, <1>15, <2>2, <2>3, <2>5 DEF NameParsed, TextMoves
    <2>. QED  BY <2>4, <2>5
<1>16. CASE StringFailed \/ InString
    BY <1>1, <1>16 DEF StringFailed, InString, TextMoves
<1>. QED  BY <1>6, <1>7, <1>8, <1>9, <1>10, <1>11, <1>12, <1>13, <1>14, <1>15, <1>16
          DEF ParserStep

-----------------------------------------------------------------------------
(***************************************************************************)
(* What is in the blocks                                                   *)
(*                                                                         *)
(* U has the items that are not parsed yet, N the one whose name is being  *)
(* parsed.                                                                 *)
(***************************************************************************)

\* The texts of blocks of bytes.
IsText(block) == "bytes" \in DOMAIN block /\ IsSequence(block.bytes)

Texts(H) == \A p \in DOMAIN H : p \notin Items(H) => IsText(H[p])

Whole == {"NULL", "False", "True", "Number", "String", "Array", "Object"}

Named(H, p) == H[p].string # Null

\* An item has a type, and a string its value.
Completed(H, U) ==
    \A p \in Items(H) \ U :
        H[p].type \in Whole /\ (H[p].type = "String" => H[p].valuestring # Null)

\* What comes behind a named item has a name, as has the first of an object.
NamesFollow(H, N) ==
    \A p \in Items(H) :
        H[p].next # Null /\ Named(H, p) => H[p].next \in N \/ Named(H, H[p].next)

MembersNamed(H) ==
    \A p \in Items(H) :
        H[p].type = "Object" /\ H[p].child # Null => Named(H, H[p].child)

\* The same of the lists that are being made.
FramesNamed(H, fs, N) ==
    \A i \in 1..Len(fs) : fs[i].head # Null =>
        /\ fs[i].open = "{" => fs[i].head \in N \/ Named(H, fs[i].head)
        /\ fs[i].open = "[" => ~Named(H, fs[i].tail)

Tidy(H, fs, U, N) ==
    /\ Completed(H, U)
    /\ NamesFollow(H, N)
    /\ MembersNamed(H)
    /\ FramesNamed(H, fs, N)

LEMMA TextsAdded ==
    ASSUME NEW H, Texts(H), NEW n, NEW block,
           block.block # "item" => IsText(block)
    PROVE  Texts(Added(H, n, block))
<1>1. PICK G : G = Added(H, n, block)
    OBVIOUS
<1>2. /\ DOMAIN G = DOMAIN H \cup {n} /\ G[n] = block
      /\ \A q \in DOMAIN H : q # n => G[q] = H[q]
    BY <1>1 DEF Added
<1>3. ASSUME NEW q \in DOMAIN G, q \notin Items(G)
      PROVE  IsText(G[q])
    <2>1. CASE q = n
        BY <1>2, <1>3, <2>1 DEF Items
    <2>2. CASE q # n
        <3>1. q \in DOMAIN H /\ G[q] = H[q] /\ q \notin Items(H)
            BY <1>2, <1>3, <2>2 DEF Items
        <3>. QED  BY <3>1 DEF Texts
    <2>. QED  BY <2>1, <2>2
<1>. QED  BY <1>1, <1>3 DEF Texts

LEMMA ItemTexts ==
    ASSUME NEW H, Texts(H), NEW n, NEW block, block.block = "item"
    PROVE  Texts(Added(H, n, block))
BY TextsAdded

LEMMA BytesTexts ==
    ASSUME NEW H, Texts(H), NEW n, NEW b, IsSequence(b)
    PROVE  Texts(Added(H, n, Bytes(b)))
<1>1. PICK block : block = Bytes(b)
    OBVIOUS
<1>2. IsText(block)
    BY <1>1 DEF Bytes, IsText
<1>3. Texts(Added(H, n, block))
    BY <1>2, TextsAdded
<1>. QED  BY <1>1, <1>3

LEMMA TextsRest ==
    ASSUME NEW H, Texts(H), NEW D PROVE Texts(Rest(H, D))
<1>1. PICK G : G = Rest(H, D)
    OBVIOUS
<1>2. /\ DOMAIN G = DOMAIN H \ D /\ \A p \in DOMAIN H \ D : G[p] = H[p]
      /\ Items(G) = Items(H) \ D
    BY <1>1, RestItems, Zenon
<1>3. Texts(G)
    BY <1>2 DEF Texts
<1>. QED  BY <1>1, <1>3

LEMMA TextsKept ==
    ASSUME NEW H, Texts(H), NEW G, Shaped(H, G),
           \A q \in DOMAIN H : q \notin Items(H) => G[q] = H[q]
    PROVE  Texts(G)
BY ShapedItems DEF Texts, Shaped

\* The items that a list being made begins and ends with.
LEMMA PairFacts ==
    ASSUME NEW H, NEW T, NEW fs, Sound(H, T, PairsOf(fs)),
           NEW i \in 1..Len(fs), fs[i].head # Null
    PROVE  /\ fs[i].head \in Items(H) /\ fs[i].tail \in Items(H)
           /\ H[fs[i].tail].next = Null
<1>1. PICK h, t : h = fs[i].head /\ t = fs[i].tail
    OBVIOUS
<1>2. <<h, t>> \in PairsOf(fs)
    BY <1>1 DEF PairsOf
<1>. QED  BY <1>1, <1>2 DEF Sound, Lists

\* Names, lists and members stay as they are.
LEMMA TidyKept ==
    ASSUME NEW H, NEW T, NEW fs, Sound(H, T, PairsOf(fs)), NEW U, NEW N,
           Tidy(H, fs, U, N), NEW G, Items(G) = Items(H),
           \A q \in Items(H) : /\ G[q].next = H[q].next /\ G[q].child = H[q].child
                               /\ G[q].string = H[q].string,
           \A q \in Items(H) : G[q].type = "Object" /\ G[q].child # Null =>
                                   H[q].type = "Object",
           NEW V, Completed(G, V)
    PROVE  Tidy(G, fs, V, N)
<1>1. Typed(H)
    BY DEF Sound, Forest
<1>2. \A q \in Items(H) : Named(G, q) <=> Named(H, q)
    BY DEF Named
<1>3. NamesFollow(G, N)
    <2>. SUFFICES ASSUME NEW p \in Items(H), H[p].next # Null, Named(H, p)
                  PROVE  H[p].next \in N \/ Named(G, H[p].next)
        BY <1>2 DEF NamesFollow
    <2>1. H[p].next \in Items(H)
        BY <1>1, FieldTypes
    <2>. QED  BY <1>2, <2>1 DEF Tidy, NamesFollow
<1>4. MembersNamed(G)
    <2>. SUFFICES ASSUME NEW p \in Items(H), H[p].type = "Object", H[p].child # Null
                  PROVE  Named(G, H[p].child)
        BY DEF MembersNamed
    <2>1. H[p].child \in Items(H)
        BY <1>1, FieldTypes
    <2>. QED  BY <1>2, <2>1 DEF Tidy, MembersNamed
<1>5. FramesNamed(G, fs, N)
    <2>. SUFFICES ASSUME NEW i \in 1..Len(fs), fs[i].head # Null
                  PROVE  /\ fs[i].open = "{" => fs[i].head \in N \/ Named(G, fs[i].head)
                         /\ fs[i].open = "[" => ~Named(G, fs[i].tail)
        BY DEF FramesNamed
    <2>1. fs[i].head \in Items(H) /\ fs[i].tail \in Items(H)
        BY PairFacts
    <2>. QED  BY <1>2, <2>1 DEF Tidy, FramesNamed
<1>. QED  BY <1>3, <1>4, <1>5 DEF Tidy

\* The item being parsed gets its value.
LEMMA TidyItem ==
    ASSUME NEW H, NEW T, NEW fs, Sound(H, T, PairsOf(fs)), Texts(H), NEW U, NEW N,
           Tidy(H, fs, U, N), NEW p \in Items(H), H[p].child = Null,
           NEW change, "type" \in DOMAIN change, change["type"] \in Whole,
           DOMAIN change \subseteq {"type", "valuedouble", "valuestring"},
           change["type"] = "String" =>
               "valuestring" \in DOMAIN change /\ change["valuestring"] # Null,
           NEW G, Changes(H, G, p, change), NEW V, U \ {p} \subseteq V
    PROVE  Texts(G) /\ Tidy(G, fs, V, N)
<1>1. Typed(H)
    BY DEF Sound, Forest
<1>2. "block" \notin DOMAIN change
    OBVIOUS
<1>3. /\ Shaped(H, G)
      /\ \A q \in DOMAIN H : q # p => G[q] = H[q]
      /\ \A f \in ItemFields :
            G[p][f] = IF f \in DOMAIN change THEN change[f] ELSE H[p][f]
    BY <1>1, <1>2, SetItemShaped
<1>4. Items(G) = Items(H) /\ Items(H) \subseteq DOMAIN H
    BY <1>3, ShapedItems DEF Items
<1>5. Texts(G)
    BY <1>3, TextsKept
<1>6. /\ G[p].next = H[p].next /\ G[p].child = H[p].child
      /\ G[p].string = H[p].string /\ G[p].type = change["type"]
      /\ "valuestring" \in DOMAIN change => G[p].valuestring = change["valuestring"]
    <2>1. {"next", "child", "string", "type", "valuestring"} \subseteq ItemFields
        BY DEF ItemFields, Fields
    <2>2. {"next", "child", "string"} \cap DOMAIN change = {}
        OBVIOUS
    <2>. QED  BY <1>3, <2>1, <2>2
<1>7. \A q \in Items(H) : /\ G[q].next = H[q].next /\ G[q].child = H[q].child
                          /\ G[q].string = H[q].string
    BY <1>3, <1>4, <1>6
<1>8. \A q \in Items(H) : G[q].type = "Object" /\ G[q].child # Null =>
                              H[q].type = "Object"
    BY <1>3, <1>4, <1>6
<1>9. Completed(G, V)
    <2>. SUFFICES ASSUME NEW q \in Items(H) \ V
                  PROVE  G[q].type \in Whole /\ (G[q].type = "String" => G[q].valuestring # Null)
        BY <1>4 DEF Completed
    <2>1. CASE q = p
        BY <1>6, <2>1
    <2>2. CASE q # p
        <3>1. q \in Items(H) \ U /\ G[q] = H[q]
            BY <1>3, <1>4, <2>2
        <3>. QED  BY <3>1 DEF Tidy, Completed
    <2>. QED  BY <2>1, <2>2
<1>. QED  BY <1>4, <1>5, <1>7, <1>8, <1>9, TidyKept

\* The item being parsed gets its name.
LEMMA TidyNamed ==
    ASSUME NEW H, NEW T, NEW fs, Sound(H, T, PairsOf(fs)), Texts(H), NEW U, NEW N,
           Tidy(H, fs, U, N), NEW p \in Items(H), H[p].next = Null, p \in U,
           N \subseteq {p},
           \A i \in 1..Len(fs) :
               fs[i].head # Null /\ fs[i].open = "[" => fs[i].tail # p,
           NEW change, DOMAIN change = {"type", "string"}, change["type"] = "String",
           change["string"] # Null,
           NEW G, Changes(H, G, p, change)
    PROVE  Texts(G) /\ Tidy(G, fs, U, {})
<1>1. Typed(H)
    BY DEF Sound, Forest
<1>2. "block" \notin DOMAIN change
    OBVIOUS
<1>3. /\ Shaped(H, G)
      /\ \A q \in DOMAIN H : q # p => G[q] = H[q]
      /\ \A f \in ItemFields :
            G[p][f] = IF f \in DOMAIN change THEN change[f] ELSE H[p][f]
    BY <1>1, <1>2, SetItemShaped
<1>4. Items(G) = Items(H) /\ Items(H) \subseteq DOMAIN H
    BY <1>3, ShapedItems DEF Items
<1>5. Texts(G)
    BY <1>3, TextsKept
<1>6. /\ G[p].next = Null /\ G[p].type = "String" /\ Named(G, p)
    <2>1. {"next", "string", "type"} \subseteq ItemFields
        BY DEF ItemFields, Fields
    <2>2. "next" \notin DOMAIN change
        OBVIOUS
    <2>. QED  BY <1>3, <2>1, <2>2 DEF Named
<1>7. \A q \in Items(H) : /\ q # p => (Named(G, q) <=> Named(H, q))
                          /\ Named(H, q) => Named(G, q)
                          /\ q \in N => Named(G, q)
    BY <1>3, <1>4, <1>6 DEF Named
<1>8. Completed(G, U)
    BY <1>3, <1>4 DEF Tidy, Completed
<1>9. NamesFollow(G, {})
    <2>. SUFFICES ASSUME NEW q \in Items(H), G[q].next # Null, Named(G, q)
                  PROVE  Named(G, G[q].next)
        BY <1>4 DEF NamesFollow
    <2>1. q # p /\ G[q] = H[q]
        BY <1>3, <1>4, <1>6
    <2>2. H[q].next \in Items(H) /\ Named(H, q)
        BY <1>1, <1>7, <2>1, FieldTypes
    <2>3. H[q].next \in N \/ Named(H, H[q].next)
        BY <2>1, <2>2 DEF Tidy, NamesFollow
    <2>. QED  BY <1>7, <2>1, <2>2, <2>3
<1>10. MembersNamed(G)
    <2>. SUFFICES ASSUME NEW q \in Items(H), G[q].type = "Object", G[q].child # Null
                  PROVE  Named(G, G[q].child)
        BY <1>4 DEF MembersNamed
    <2>1. q # p /\ G[q] = H[q]
        BY <1>3, <1>4, <1>6
    <2>2. H[q].child \in Items(H)
        BY <1>1, <2>1, FieldTypes
    <2>3. Named(H, H[q].child)
        BY <2>1 DEF Tidy, MembersNamed
    <2>. QED  BY <1>7, <2>1, <2>2, <2>3
<1>11. FramesNamed(G, fs, {})
    <2>. SUFFICES ASSUME NEW i \in 1..Len(fs), fs[i].head # Null
                  PROVE  /\ fs[i].open = "{" => Named(G, fs[i].head)
                         /\ fs[i].open = "[" => ~Named(G, fs[i].tail)
        BY DEF FramesNamed
    <2>1. fs[i].head \in Items(H) /\ fs[i].tail \in Items(H)
        BY PairFacts
    <2>2. /\ fs[i].open = "{" => fs[i].head \in N \/ Named(H, fs[i].head)
          /\ fs[i].open = "[" => ~Named(H, fs[i].tail)
        BY DEF Tidy, FramesNamed
    <2>. QED  BY <1>7, <2>1, <2>2
<1>. QED  BY <1>5, <1>8, <1>9, <1>10, <1>11 DEF Tidy

\* A container is closed.
LEMMA TidyClosed ==
    ASSUME NEW H, NEW T, NEW b \in Seq(Frame), NEW t \in Frame,
           Sound(H, T, PairsOf(Append(b, t))), NEW U, Tidy(H, Append(b, t), U, {}),
           t.head # Null, t.owner \in Items(H), NEW G, Items(G) = Items(H),
           \A q \in Items(H) : /\ G[q].next = H[q].next
                               /\ G[q].string = H[q].string
                               /\ G[q].valuestring = H[q].valuestring
                               /\ q # t.owner => /\ G[q].type = H[q].type
                                                 /\ G[q].child = H[q].child,
           G[t.owner].type = ContainerType(t.open), G[t.owner].child = t.head,
           NEW V, U \ {t.owner} \subseteq V
    PROVE  Tidy(G, b, V, {})
<1>1. Typed(H)
    BY DEF Sound, Forest
<1>2. \A q \in Items(H) : Named(G, q) <=> Named(H, q)
    BY DEF Named
<1>3. PICK fs : fs = Append(b, t)
    OBVIOUS
<1>4. PICK m \in Nat : m = Len(b)
    BY Appended
<1>5. /\ Len(fs) = m + 1 /\ fs[m + 1] = t
      /\ \A i \in 1..m : fs[i] = b[i] /\ i \in 1..m + 1
      /\ m + 1 \in 1..m + 1
    BY <1>3, <1>4, Appended
<1>6. Sound(H, T, PairsOf(fs)) /\ Tidy(H, fs, U, {})
    BY <1>3
<1>7. t.head \in Items(H) /\ (t.open = "{" => Named(H, t.head))
    <2>1. t.head \in Items(H)
        BY <1>5, <1>6, PairFacts
    <2>. QED  BY <1>5, <1>6, <2>1 DEF Tidy, FramesNamed
<1>8. /\ G[t.owner].type \in Whole /\ G[t.owner].type # "String"
      /\ G[t.owner].type = "Object" => t.open = "{"
    BY DEF ContainerType, Whole, Frame
<1>9. Completed(G, V)
    <2>. SUFFICES ASSUME NEW q \in Items(H) \ V
                  PROVE  G[q].type \in Whole /\ (G[q].type = "String" => G[q].valuestring # Null)
        BY DEF Completed
    <2>1. CASE q = t.owner
        BY <1>8, <2>1
    <2>2. CASE q # t.owner
        <3>1. q \in Items(H) \ U
            BY <2>2
        <3>. QED  BY <2>2, <3>1 DEF Tidy, Completed
    <2>. QED  BY <2>1, <2>2
<1>10. NamesFollow(G, {})
    <2>. SUFFICES ASSUME NEW p \in Items(H), H[p].next # Null, Named(H, p)
                  PROVE  Named(G, H[p].next)
        BY <1>2 DEF NamesFollow
    <2>1. H[p].next \in Items(H)
        BY <1>1, FieldTypes
    <2>. QED  BY <1>2, <2>1 DEF Tidy, NamesFollow
<1>11. MembersNamed(G)
    <2>. SUFFICES ASSUME NEW q \in Items(H), G[q].type = "Object", G[q].child # Null
                  PROVE  Named(G, G[q].child)
        BY DEF MembersNamed
    <2>1. CASE q = t.owner
        BY <1>2, <1>7, <1>8, <2>1
    <2>2. CASE q # t.owner
        <3>1. H[q].child \in Items(H) /\ H[q].type = "Object" /\ G[q].child = H[q].child
            BY <1>1, <2>2, FieldTypes
        <3>2. H[q].child # Null
            BY <3>1
        <3>3. Named(H, H[q].child)
            BY <3>1, <3>2 DEF Tidy, MembersNamed
        <3>. QED  BY <1>2, <3>1, <3>3
    <2>. QED  BY <2>1, <2>2
<1>12. FramesNamed(G, b, {})
    <2>. SUFFICES ASSUME NEW i \in 1..m, b[i].head # Null
                  PROVE  /\ b[i].open = "{" => Named(G, b[i].head)
                         /\ b[i].open = "[" => ~Named(G, b[i].tail)
        BY <1>4 DEF FramesNamed
    <2>1. fs[i] = b[i] /\ i \in 1..Len(fs)
        BY <1>5
    <2>2. b[i].head \in Items(H) /\ b[i].tail \in Items(H)
        BY <1>6, <2>1, PairFacts
    <2>3. /\ b[i].open = "{" => Named(H, b[i].head)
          /\ b[i].open = "[" => ~Named(H, b[i].tail)
        BY <1>6, <2>1 DEF Tidy, FramesNamed
    <2>. QED  BY <1>2, <2>2, <2>3
<1>. QED  BY <1>9, <1>10, <1>11, <1>12 DEF Tidy

\* G is H with the item n, that comes behind t if there is one.
Lengthened(H, G, n, t) ==
    /\ n \notin DOMAIN H /\ Items(G) = Items(H) \cup {n}
    /\ G[n].string = Null /\ G[n].next = Null /\ G[n].child = Null
    /\ \A q \in Items(H) : /\ G[q].string = H[q].string
                           /\ G[q].child = H[q].child
                           /\ G[q].type = H[q].type
                           /\ G[q].valuestring = H[q].valuestring
                           /\ q # t => G[q].next = H[q].next
    /\ t # Null => G[t].next = n

\* The list of the container t with the item n behind it.
Grows(t, g, n) ==
    /\ (t.head = Null) <=> (t.tail = Null)
    /\ g.open = t.open /\ g.tail = n
    /\ g.head = IF t.head = Null THEN n ELSE t.head

\* A new item comes to the end of the innermost list.
LEMMA TidyGrown ==
    ASSUME NEW H, NEW T, NEW b \in Seq(Frame), NEW t \in Frame, NEW g \in Frame,
           Sound(H, T, PairsOf(Append(b, t))), NEW U, Tidy(H, Append(b, t), U, {}),
           NEW n, NEW G, Lengthened(H, G, n, t.tail), Grows(t, g, n),
           NEW M, t.open = "{" => n \in M,
           NEW V, U \cup {n} \subseteq V
    PROVE  Tidy(G, Append(b, g), V, M)
<1>. USE DEF Lengthened, Grows
<1>1. Typed(H)
    BY DEF Sound, Forest
<1>2. /\ \A q \in Items(H) : Named(G, q) <=> Named(H, q)
      /\ ~Named(G, n)
    BY DEF Named
<1>3. PICK fs, gs : fs = Append(b, t) /\ gs = Append(b, g)
    OBVIOUS
<1>4. PICK m \in Nat : m = Len(b)
    BY Appended
<1>5. /\ Len(fs) = m + 1 /\ fs[m + 1] = t
      /\ \A i \in 1..m : fs[i] = b[i] /\ i \in 1..m + 1
      /\ m + 1 \in 1..m + 1
    BY <1>3, <1>4, Appended
<1>6. /\ Len(gs) = m + 1 /\ gs[m + 1] = g
      /\ \A i \in 1..m : gs[i] = b[i]
      /\ \A i \in 1..m + 1 : i = m + 1 \/ i \in 1..m
    BY <1>3, <1>4, Appended
<1>7. Sound(H, T, PairsOf(fs)) /\ Tidy(H, fs, U, {})
    BY <1>3
<1>8. t.head # Null =>
          /\ t.head \in Items(H) /\ t.tail \in Items(H)
          /\ t.open = "{" => Named(H, t.head)
          /\ t.open = "[" => ~Named(H, t.tail)
    <2>. SUFFICES ASSUME t.head # Null
                  PROVE  /\ t.head \in Items(H) /\ t.tail \in Items(H)
                         /\ t.open = "{" => Named(H, t.head)
                         /\ t.open = "[" => ~Named(H, t.tail)
        OBVIOUS
    <2>1. t.head \in Items(H) /\ t.tail \in Items(H)
        BY <1>5, <1>7, PairFacts
    <2>. QED  BY <1>5, <1>7, <2>1 DEF Tidy, FramesNamed
<1>9. Completed(G, V)
    <2>. SUFFICES ASSUME NEW q \in Items(H) \ U
                  PROVE  G[q].type \in Whole /\ (G[q].type = "String" => G[q].valuestring # Null)
        BY DEF Completed
    <2>1. H[q].type \in Whole /\ (H[q].type = "String" => H[q].valuestring # Null)
        BY <1>7 DEF Tidy, Completed
    <2>. QED  BY <2>1
<1>10. NamesFollow(G, M)
    <2>. SUFFICES ASSUME NEW q \in Items(G), G[q].next # Null, Named(G, q)
                  PROVE  G[q].next \in M \/ Named(G, G[q].next)
        BY DEF NamesFollow
    <2>1. q \in Items(H) /\ Named(H, q)
        BY <1>2
    <2>2. CASE q = t.tail
        <3>1. t.tail # Null /\ t.head # Null
            BY <1>1, <2>1, <2>2, FieldTypes
        <3>2. t.open # "["
            BY <1>8, <2>1, <2>2, <3>1
        <3>3. t.open = "{"
            BY <3>2 DEF Frame
        <3>. QED  BY <2>2, <3>1, <3>3
    <2>3. CASE q # t.tail
        <3>1. G[q].next = H[q].next
            BY <2>1, <2>3
        <3>2. H[q].next # Null
            BY <3>1
        <3>3. Named(H, H[q].next)
            BY <1>7, <2>1, <3>2 DEF Tidy, NamesFollow
        <3>4. H[q].next \in Items(H)
            BY <1>1, <2>1, <3>2, FieldTypes
        <3>. QED  BY <1>2, <3>1, <3>3, <3>4
    <2>. QED  BY <2>2, <2>3
<1>11. MembersNamed(G)
    <2>. SUFFICES ASSUME NEW q \in Items(G), G[q].type = "Object", G[q].child # Null
                  PROVE  Named(G, G[q].child)
        BY DEF MembersNamed
    <2>1. q \in Items(H)
        OBVIOUS
    <2>2. H[q].type = "Object" /\ H[q].child # Null /\ G[q].child = H[q].child
        BY <2>1
    <2>3. H[q].child \in Items(H)
        BY <1>1, <2>1, <2>2, FieldTypes
    <2>4. Named(H, H[q].child)
        BY <1>7, <2>1, <2>2 DEF Tidy, MembersNamed
    <2>. QED  BY <1>2, <2>2, <2>3, <2>4
<1>12. FramesNamed(G, gs, M)
    <2>1. ASSUME NEW i \in 1..m, b[i].head # Null
          PROVE  /\ b[i].open = "{" => Named(G, b[i].head)
                 /\ b[i].open = "[" => ~Named(G, b[i].tail)
        <3>1. fs[i] = b[i] /\ i \in 1..Len(fs)
            BY <1>5
        <3>2. fs[i].head # Null
            BY <2>1, <3>1
        <3>4. fs[i].head \in Items(H) /\ fs[i].tail \in Items(H)
            BY <1>7, <3>1, <3>2, PairFacts
        <3>3. /\ b[i].open = "{" => Named(H, b[i].head)
              /\ b[i].open = "[" => ~Named(H, b[i].tail)
            BY <1>7, <2>1, <3>1 DEF Tidy, FramesNamed
        <3>. QED  BY <1>2, <3>1, <3>3, <3>4
    <2>2. /\ g.open = "{" => g.head \in M \/ Named(G, g.head)
          /\ g.open = "[" => ~Named(G, g.tail)
        BY <1>2, <1>8
    <2>. SUFFICES ASSUME NEW i \in 1..Len(gs), gs[i].head # Null
                  PROVE  /\ gs[i].open = "{" => gs[i].head \in M \/ Named(G, gs[i].head)
                         /\ gs[i].open = "[" => ~Named(G, gs[i].tail)
        BY DEF FramesNamed
    <2>3. i = m + 1 \/ i \in 1..m
        BY <1>6
    <2>4. CASE i = m + 1
        BY <1>6, <2>2, <2>4
    <2>5. CASE i \in 1..m
        <3>1. gs[i] = b[i]
            BY <1>6, <2>5
        <3>. QED  BY <2>1, <2>5, <3>1
    <2>. QED  BY <2>3, <2>4, <2>5
<1>. QED  BY <1>3, <1>9, <1>10, <1>11, <1>12 DEF Tidy

\* What is new in an item that is made.

LEMMA PoppedEnds ==
    ASSUME NEW H, NEW fs \in Seq(Frame), NEW r, NEW f \in Frame,
           Stacked(H, Append(fs, f), r)
    PROVE  (f.head = Null) <=> (f.tail = Null)
<1>1. PICK gs : gs = Append(fs, f)
    OBVIOUS
<1>2. PICK n \in Nat : n = Len(fs)
    BY Appended
<1>3. Len(gs) = n + 1 /\ gs[n + 1] = f /\ n + 1 \in 1..n + 1
    BY <1>1, <1>2, Appended
<1>4. \A i \in 1..n + 1 : (gs[i].head = Null) <=> (gs[i].tail = Null)
    BY <1>1, <1>3 DEF Stacked
<1>. QED  BY <1>3, <1>4

LEMMA NewElementLonger ==
    ASSUME Inv, Parse, ArrayElement \/ ObjectMember, Texts(heap)
    PROVE  \E b, t, g :
              /\ b \in Seq(Frame) /\ t \in Frame /\ g \in Frame
              /\ frames = Append(b, t) /\ frames' = Append(b, g) /\ t = Top
              /\ t.head = Null <=> t.tail = Null
              /\ g.open = t.open /\ g.tail = item'
              /\ g.head = IF t.head = Null THEN item' ELSE t.head
              /\ Sound(heap, Tops, PairsOf(Append(b, t)))
              /\ Texts(heap') /\ Lengthened(heap, heap', item', t.tail)
<1>1. /\ parser = "element" /\ NewElement
    BY DEF ArrayElement, ObjectMember
<1>2. PICK b, t, g, n :
              /\ b \in Seq(Frame) /\ t \in Frame /\ g \in Frame
              /\ frames = Append(b, t) /\ frames' = Append(b, g)
              /\ t = Top /\ b = Below
              /\ g.owner = t.owner /\ g.open = t.open /\ g.tail = n
              /\ g.head = IF t.head = Null THEN n ELSE t.head
              /\ n = Fresh /\ item' = n
              /\ n \in Nat \ {0} /\ n \notin Live /\ n # Null
              /\ Len(b) \in Nat
    BY <1>1, NewElementHeap
<1>3. /\ Sound(heap, Tops, PairsOf(Append(b, t))) /\ Typed(heap) /\ DOMAIN heap = Live
      /\ Stacked(heap, Append(b, t), root)
    BY <1>2, ParseFacts
<1>4. t.head = Null <=> t.tail = Null
    <2>1. b \in Seq(Frame) /\ t \in Frame /\ Stacked(heap, Append(b, t), root)
        BY <1>2, <1>3
    <2>. QED  BY <2>1, PoppedEnds
<1>5. PICK block : block = [cJSON_New_Item EXCEPT !.prev = t.tail]
    OBVIOUS
<1>6. /\ IsNew(block) /\ block.block = "item" /\ block.prev = t.tail
      /\ \A f \in Fields : block[f] = Null
    BY <1>5 DEF IsNew, cJSON_New_Item, ItemFields, Fields
<1>7. PICK A : A = Added(heap, n, block)
    OBVIOUS
<1>8. /\ DOMAIN A = Live \cup {n} /\ A[n] = block
      /\ \A q \in Live : A[q] = heap[q] /\ q # n
      /\ Items(A) = Items(heap) \cup {n} /\ Items(heap) \subseteq Live
    BY <1>2, <1>3, <1>6, <1>7 DEF Added, Items
<1>9. Texts(A)
    BY <1>6, <1>7, ItemTexts
<1>10. /\ Texts(heap')
       /\ Items(heap') = Items(heap) \cup {n}
       /\ heap'[n].string = Null /\ heap'[n].next = Null /\ heap'[n].child = Null
       /\ \A q \in Items(heap) : /\ heap'[q].string = heap[q].string
                                 /\ heap'[q].child = heap[q].child
                                 /\ heap'[q].type = heap[q].type
                                 /\ heap'[q].valuestring = heap[q].valuestring
                                 /\ q # t.tail => heap'[q].next = heap[q].next
       /\ t.tail # Null => heap'[t.tail].next = n
    <2>1. CASE t.tail = Null
        <3>1. heap' = A
            BY <1>1, <1>2, <1>5, <1>7, <2>1, WithAdds DEF NewElement
        <3>2. heap'[n].string = Null /\ heap'[n].next = Null /\ heap'[n].child = Null
            BY <1>6, <1>8, <3>1 DEF Fields
        <3>3. \A q \in Items(heap) : heap'[q] = heap[q]
            BY <1>8, <3>1
        <3>. QED  BY <1>8, <1>9, <2>1, <3>1, <3>2, <3>3
    <2>2. CASE t.tail # Null
        <3>1. PICK change : change = [next |-> n]
            OBVIOUS
        <3>2. DOMAIN change = {"next"} /\ change["next"] = n
            BY <3>1
        <3>3. Changes(A, heap', t.tail, change)
            BY <1>1, <1>2, <1>5, <1>7, <2>2, <3>1, WithAdds DEF NewElement, Changes
        <3>4. t.tail \in Items(heap)
            <4>1. <<t.head, t.tail>> \in PairsOf(Append(b, t))
                BY <1>2, <1>4, <2>2, AppendedLists
            <4>. QED  BY <1>3, <4>1 DEF Sound, Lists
        <3>5. Typed(A)
            <4>1. Sound(A, Tops \cup {n}, PairsOf(Append(b, t)))
                BY <1>2, <1>3, <1>6, <1>7, AddedLists
            <4>. QED  BY <4>1 DEF Sound, Forest
        <3>6. /\ Shaped(A, heap')
              /\ \A q \in DOMAIN A : q # t.tail => heap'[q] = A[q]
              /\ \A f \in ItemFields : heap'[t.tail][f] =
                    IF f \in DOMAIN change THEN change[f] ELSE A[t.tail][f]
            BY <1>8, <3>2, <3>3, <3>4, <3>5, SetItemShaped
        <3>7. Texts(heap')
            <4>1. \A q \in DOMAIN A : q \notin Items(A) => heap'[q] = A[q]
                BY <1>8, <3>4, <3>6
            <4>. QED  BY <1>9, <3>6, <4>1, TextsKept
        <3>8. Items(heap') = Items(heap) \cup {n}
            BY <1>8, <3>6, ShapedItems
        <3>9. heap'[n] = block
            BY <1>2, <1>8, <3>4, <3>6
        <3>10. heap'[n].string = Null /\ heap'[n].next = Null /\ heap'[n].child = Null
            BY <1>6, <3>9 DEF Fields
        <3>11. {"string", "child", "type", "valuestring", "next"} \subseteq ItemFields
            BY DEF ItemFields, Fields
        <3>12. /\ heap'[t.tail].string = heap[t.tail].string
               /\ heap'[t.tail].child = heap[t.tail].child
               /\ heap'[t.tail].type = heap[t.tail].type
               /\ heap'[t.tail].valuestring = heap[t.tail].valuestring
               /\ heap'[t.tail].next = n
            <4>1. A[t.tail] = heap[t.tail]
                BY <1>8, <3>4
            <4>2. /\ "string" \notin DOMAIN change /\ "child" \notin DOMAIN change
                  /\ "type" \notin DOMAIN change /\ "valuestring" \notin DOMAIN change
                BY <3>2
            <4>. QED  BY <3>2, <3>6, <3>11, <4>1, <4>2
        <3>13. \A q \in Items(heap) : q # t.tail => heap'[q] = heap[q]
            BY <1>8, <3>6
        <3>. QED  BY <3>7, <3>8, <3>10, <3>12, <3>13
    <2>. QED  BY <2>1, <2>2
<1>11. n \notin DOMAIN heap /\ Sound(heap, Tops, PairsOf(Append(b, t)))
    BY <1>2, <1>3
<1>12. Lengthened(heap, heap', item', t.tail)
    BY <1>2, <1>10, <1>11 DEF Lengthened
<1>. QED  BY <1>2, <1>4, <1>10, <1>11, <1>12

LEMMA NewElementTidy ==
    ASSUME Inv, Parse, ArrayElement \/ ObjectMember, Texts(heap),
           NEW U, Tidy(heap, frames, U, {}), NEW M,
           Top.open = "{" => item' \in M, NEW V, U \cup {item'} \subseteq V
    PROVE  Texts(heap') /\ Tidy(heap', frames', V, M)
<1>1. PICK b, t, g :
              /\ b \in Seq(Frame) /\ t \in Frame /\ g \in Frame
              /\ frames = Append(b, t) /\ frames' = Append(b, g) /\ t = Top
              /\ t.head = Null <=> t.tail = Null
              /\ g.open = t.open /\ g.tail = item'
              /\ g.head = IF t.head = Null THEN item' ELSE t.head
              /\ Sound(heap, Tops, PairsOf(Append(b, t)))
              /\ Texts(heap') /\ Lengthened(heap, heap', item', t.tail)
    BY NewElementLonger
<1>2. Tidy(heap, Append(b, t), U, {}) /\ (t.open = "{" => item' \in M)
    BY <1>1
<1>3. b \in Seq(Frame) /\ t \in Frame /\ g \in Frame
    BY <1>1
<1>4. Sound(heap, Tops, PairsOf(Append(b, t)))
    BY <1>1
<1>5. Lengthened(heap, heap', item', t.tail)
    BY <1>1
<1>6. Grows(t, g, item')
    BY <1>1 DEF Grows
<1>7. U \cup {item'} \subseteq V
    OBVIOUS
<1>8. Tidy(heap', Append(b, g), V, M)
    BY <1>2, <1>3, <1>4, <1>5, <1>6, <1>7, TidyGrown, Zenon
<1>. QED  BY <1>1, <1>8

-----------------------------------------------------------------------------
(***************************************************************************)
(* The items while a text is parsed                                        *)
(***************************************************************************)

OwnersOf(fs) == {fs[i].owner : i \in 1..Len(fs)}

\* The items that have no value yet: those of the open containers, and the
\* one that is parsed.
Unfinished ==
    OwnersOf(frames)
        \cup (IF parser \in {"value", "string", "name"} THEN {item} ELSE {})

Naming == IF parser = "name" THEN {item} ELSE {}

\* Until a parse fails the tree is as print expects it.
WholeInv ==
    /\ Texts(heap)
    /\ parser = "name" => frames # <<>> /\ Top.open = "{"
    /\ root # Null /\ parser # "fail" /\ at \in {"parse", "parsed", "print"} =>
            Tidy(heap, frames, Unfinished, Naming)

LEMMA OwnersAppended ==
    ASSUME NEW fs \in Seq(Frame), NEW f \in Frame
    PROVE  OwnersOf(Append(fs, f)) = OwnersOf(fs) \cup {f.owner}
<1>1. PICK gs : gs = Append(fs, f)
    OBVIOUS
<1>2. /\ Len(fs) \in Nat /\ Len(gs) = Len(fs) + 1
      /\ gs[Len(fs) + 1] = f
      /\ \A i \in 1..Len(fs) : gs[i] = fs[i]
      /\ \A i \in 1..Len(gs) : i = Len(fs) + 1 \/ i \in 1..Len(fs)
      /\ \A i \in 1..Len(fs) : i \in 1..Len(gs)
      /\ Len(fs) + 1 \in 1..Len(gs)
    BY <1>1, Appended
<1>3. OwnersOf(gs) = OwnersOf(fs) \cup {f.owner}
    BY <1>2 DEF OwnersOf
<1>. QED  BY <1>1, <1>3

\* A heap with the same items.
LEMMA TidySame ==
    ASSUME NEW H, NEW fs, NEW U, NEW N, Tidy(H, fs, U, N), NEW T,
           Sound(H, T, PairsOf(fs)),
           NEW G, Items(G) = Items(H), \A q \in Items(H) : G[q] = H[q]
    PROVE  Tidy(G, fs, U, N)
<1>1. Completed(G, U)
    BY DEF Tidy, Completed
<1>. QED  BY <1>1, TidyKept

\* Steps that leave the memory alone.
LEMMA WholeQuiet ==
    ASSUME WholeInv, Parse, UNCHANGED <<heap, root, frames, item>>,
           \/ parser' = "fail"
           \/ parser = "parsed" /\ parser' \in {"element", "done"}
           \/ parser = "value" /\ parser' = "string"
    PROVE  WholeInv'
<1>1. Texts(heap') /\ parser' # "name"
    BY DEF WholeInv
<1>2. CASE parser' = "fail"
    BY <1>1, <1>2 DEF WholeInv
<1>3. CASE parser' # "fail"
    <2>1. Unfinished' = Unfinished /\ Naming' = Naming /\ at = "parse"
        BY <1>3 DEF Unfinished, Naming, OwnersOf, Parse
    <2>2. root' # Null => Tidy(heap', frames', Unfinished', Naming')
        <3>1. root # Null => Tidy(heap, frames, Unfinished, Naming)
            BY <1>3, <2>1 DEF WholeInv
        <3>. QED  BY <2>1, <3>1
    <2>. QED  BY <1>1, <2>2 DEF WholeInv
<1>. QED  BY <1>2, <1>3

LEMMA NewRootWhole ==
    ASSUME Inv, WholeInv, Parse, NewRoot PROVE WholeInv'
<1>1. /\ parser = "root" /\ parser' = "value"
      /\ heap' = Added(heap, Fresh, cJSON_New_Item)
      /\ item' = Fresh /\ frames' = frames
    BY WithAdds DEF NewRoot
<1>2. PICK n \in Nat \ {0} : n = Fresh /\ n \notin Live /\ n # Null
    BY InvFacts DEF Inv, Blocks
<1>3. frames = <<>> /\ root = Null /\ output = Null
    BY <1>1 DEF Inv, Places, ControlInv, RootInv
<1>4. HeadsOf(frames) = {}
    BY <1>3, NoFrames
<1>5. Tops = {raw} /\ Sound(heap, Tops, PairsOf(frames)) /\ IsBytes(heap, raw)
      /\ DOMAIN heap = Live
    BY <1>3, <1>4, ParseFacts
<1>6. Items(heap) = {}
    <2>1. Keeps(heap, {raw})
        BY <1>5 DEF Keeps, IsBytes
    <2>2. DOMAIN heap \subseteq {raw}
        BY <1>5, <2>1 DEF Sound, Forest, Reached
    <2>. QED  BY <1>5, <2>2 DEF IsBytes, Items
<1>7. /\ Items(heap') = {n} /\ heap'[n].next = Null /\ heap'[n].child = Null
    <2>1. DOMAIN heap' = Live \cup {n} /\ heap'[n] = cJSON_New_Item
          /\ \A q \in Live : heap'[q] = heap[q]
        BY <1>1, <1>2, <1>5 DEF Added
    <2>2. Items(heap') = {n}
        BY <1>2, <1>5, <1>6, <2>1, NewItem DEF Items
    <2>. QED  BY <2>1, <2>2, NewItem DEF Fields
<1>8. Texts(heap')
    BY <1>1, NewItem, ItemTexts DEF WholeInv
<1>9. n \in Unfinished'
    BY <1>1, <1>2 DEF Unfinished
<1>10. Completed(heap', Unfinished')
    BY <1>7, <1>9 DEF Completed
<1>11. NamesFollow(heap', Naming') /\ MembersNamed(heap')
    BY <1>7 DEF NamesFollow, MembersNamed
<1>12. FramesNamed(heap', frames', Naming')
    <2>1. \A i \in 1..Len(frames') : FALSE
        BY <1>1, <1>3
    <2>. QED  BY <2>1 DEF FramesNamed
<1>13. Tidy(heap', frames', Unfinished', Naming')
    BY <1>10, <1>11, <1>12 DEF Tidy
<1>. QED  BY <1>1, <1>8, <1>13 DEF WholeInv

\* A value is parsed.
LEMMA ValueWhole ==
    ASSUME Inv, WholeInv, Parse, Literal \/ parse_number \/ EmptyContainer \/ StringParsed
    PROVE  WholeInv'
<1>1. /\ parser \in {"value", "string"} /\ parser' = "parsed"
      /\ UNCHANGED <<root, frames>>
      /\ parser = "string" => phase = "parsed"
    BY DEF Literal, parse_number, EmptyContainer, AtContainer, AtValue, Parsed,
           StringParsed
<1>2. \E change : /\ heap' = SetItem(heap, item, change)
                  /\ "type" \in DOMAIN change /\ change["type"] \in Whole
                  /\ DOMAIN change \subseteq {"type", "valuedouble", "valuestring"}
                  /\ change["type"] = "String" =>
                        "valuestring" \in DOMAIN change /\ change["valuestring"] # Null
    <2>1. CASE Literal \/ EmptyContainer
        <3>1. \E t \in Whole \ {"String"} : heap' = SetItem(heap, item, [type |-> t])
            BY <2>1 DEF Literal, EmptyContainer, ContainerType, Whole
        <3>2. \A t : DOMAIN [type |-> t] = {"type"} /\ [type |-> t]["type"] = t
            OBVIOUS
        <3>. QED  BY <3>1, <3>2
    <2>2. CASE parse_number
        <3>1. \E v : heap' = SetItem(heap, item, [type |-> "Number", valuedouble |-> v])
            BY <2>2 DEF parse_number
        <3>2. \A v : LET c == [type |-> "Number", valuedouble |-> v]
                     IN  DOMAIN c = {"type", "valuedouble"} /\ c["type"] = "Number"
            OBVIOUS
        <3>3. "Number" \in Whole
            BY DEF Whole
        <3>. QED  BY <3>1, <3>2, <3>3
    <2>3. CASE StringParsed
        <3>1. heap' = SetItem(heap, item, [type |-> "String", valuestring |-> output])
            BY <2>3 DEF StringParsed
        <3>2. \A v : LET c == [type |-> "String", valuestring |-> v]
                     IN  /\ DOMAIN c = {"type", "valuestring"} /\ c["type"] = "String"
                         /\ c["valuestring"] = v
            OBVIOUS
        <3>3. output # Null
            BY <2>3 DEF StringParsed, Inv, Places, ControlInv
        <3>4. "String" \in Whole
            BY DEF Whole
        <3>. QED  BY <3>1, <3>2, <3>3, <3>4
    <2>. QED  BY <2>1, <2>2, <2>3
<1>3. PICK change : /\ Changes(heap, heap', item, change)
                    /\ "type" \in DOMAIN change /\ change["type"] \in Whole
                    /\ DOMAIN change \subseteq {"type", "valuedouble", "valuestring"}
                    /\ change["type"] = "String" =>
                          "valuestring" \in DOMAIN change /\ change["valuestring"] # Null
    BY <1>2 DEF Changes
<1>4. item \in Items(heap) /\ heap[item].child = Null /\ root # Null
    BY <1>1 DEF Inv, Blocks, WaitingInv, Places, RootInv
<1>5. Sound(heap, Tops, PairsOf(frames)) /\ at = "parse"
    BY ParseFacts
<1>6. Texts(heap) /\ Tidy(heap, frames, Unfinished, Naming)
    BY <1>1, <1>4, <1>5 DEF WholeInv
<1>7. Unfinished \ {item} \subseteq Unfinished' /\ Naming' = Naming
    <2>1. OwnersOf(frames') = OwnersOf(frames)
        BY <1>1
    <2>. QED  BY <1>1, <2>1 DEF Unfinished, Naming
<1>8. Texts(heap') /\ Tidy(heap', frames, Unfinished', Naming)
    BY <1>3, <1>4, <1>5, <1>6, <1>7, TidyItem
<1>. QED  BY <1>1, <1>7, <1>8 DEF WholeInv

\* A container begins.
LEMMA OpenWhole ==
    ASSUME Inv, WholeInv, Parse, OpenContainer PROVE WholeInv'
<1>1. /\ parser = "value" /\ parser' = "element"
      /\ frames' = Append(frames, [open |-> Open, owner |-> item,
                                   head |-> Null, tail |-> Null])
      /\ Open \in {"[", "{"} /\ heap' = heap
    BY DEF OpenContainer, AtContainer, AtValue, heapVars, Open
<1>2. /\ item \in Items(heap) /\ root # Null
    BY <1>1 DEF Inv, Blocks, WaitingInv, Places, RootInv
<1>3. PICK f : f = [open |-> Open, owner |-> item, head |-> Null, tail |-> Null]
    OBVIOUS
<1>4. item \in Nat
    BY <1>2, ParseFacts DEF Typed, Items
<1>5. f \in Frame /\ f.owner = item /\ f.head = Null
    BY <1>1, <1>3, <1>4 DEF Frame, Null
<1>6. frames \in Seq(Frame) /\ at = "parse"
    BY ParseFacts
<1>7. frames' = Append(frames, f)
    BY <1>1, <1>3
<1>8. Texts(heap) /\ Tidy(heap, frames, Unfinished, Naming)
    BY <1>1, <1>2, <1>6 DEF WholeInv
<1>9. Unfinished' = Unfinished /\ Naming' = {} /\ Naming = {}
    <2>1. OwnersOf(frames') = OwnersOf(frames) \cup {item}
        BY <1>5, <1>6, <1>7, OwnersAppended
    <2>. QED  BY <1>1, <2>1 DEF Unfinished, Naming
<1>10. FramesNamed(heap, frames', {})
    <2>1. PICK m \in Nat : m = Len(frames)
        BY <1>6
    <2>2. /\ Len(frames') = m + 1 /\ frames'[m + 1] = f
          /\ \A i \in 1..m : frames'[i] = frames[i]
          /\ \A i \in 1..m + 1 : i = m + 1 \/ i \in 1..m
        BY <1>5, <1>6, <1>7, <2>1, Appended
    <2>3. FramesNamed(heap, frames, {})
        BY <1>8, <1>9 DEF Tidy
    <2>. QED  BY <1>5, <2>1, <2>2, <2>3 DEF FramesNamed
<1>11. Tidy(heap, frames', Unfinished, {})
    BY <1>8, <1>9, <1>10 DEF Tidy
<1>. QED  BY <1>1, <1>8, <1>9, <1>11 DEF WholeInv

\* A new element.
LEMMA ElementWhole ==
    ASSUME Inv, WholeInv, Parse, ArrayElement \/ ObjectMember PROVE WholeInv'
<1>1. /\ parser = "element" /\ parser' \in {"value", "name", "fail"}
      /\ parser' = "value" => Top.open # "{"
      /\ parser' = "name" => Top.open = "{"
      /\ root' = root /\ frames # <<>> /\ root # Null
    BY DEF ArrayElement, ObjectMember, Inv, Places, RootInv
<1>2. at = "parse" /\ at' = "parse"
    BY ParseFacts
<1>3. Texts(heap) /\ Tidy(heap, frames, OwnersOf(frames), {})
    <2>1. Unfinished = OwnersOf(frames) /\ Naming = {}
        BY <1>1 DEF Unfinished, Naming
    <2>. QED  BY <1>1, <1>2, <2>1 DEF WholeInv
<1>4. PICK b, t, g :
              /\ b \in Seq(Frame) /\ t \in Frame /\ g \in Frame
              /\ frames = Append(b, t) /\ frames' = Append(b, g) /\ t = Top
              /\ g.owner = t.owner /\ g.open = t.open /\ Len(b) \in Nat
    <2>1. NewElement
        BY DEF ArrayElement, ObjectMember
    <2>. QED  BY <1>1, <2>1, NewElementHeap
<1>5. OwnersOf(frames') = OwnersOf(frames)
    <2>1. OwnersOf(frames) = OwnersOf(b) \cup {t.owner}
        BY <1>4, OwnersAppended
    <2>2. OwnersOf(frames') = OwnersOf(b) \cup {g.owner}
        BY <1>4, OwnersAppended
    <2>. QED  BY <1>4, <2>1, <2>2
<1>6. frames' # <<>> /\ Top' = g
    <2>1. Len(frames') = Len(b) + 1 /\ frames'[Len(b) + 1] = g
        BY <1>4, Appended
    <2>2. frames' # <<>>
        BY <1>4, <2>1
    <2>. QED  BY <2>1, <2>2 DEF Top, depth
<1>7. CASE parser' = "fail"
    <2>1. Texts(heap')
        <3>1. Texts(heap') /\ Tidy(heap', frames', OwnersOf(frames) \cup {item'}, {item'})
            BY <1>3, NewElementTidy
        <3>. QED  BY <3>1
    <2>. QED  BY <1>7, <2>1 DEF WholeInv
<1>8. CASE parser' # "fail"
    <2>1. OwnersOf(frames) \cup {item'} \subseteq Unfinished'
        BY <1>1, <1>5, <1>8 DEF Unfinished
    <2>2. Top.open = "{" => item' \in Naming'
        BY <1>1, <1>8 DEF Naming
    <2>3. Texts(heap') /\ Tidy(heap', frames', Unfinished', Naming')
        BY <1>3, <2>1, <2>2, NewElementTidy
    <2>4. parser' = "name" => frames' # <<>> /\ Top'.open = "{"
        BY <1>1, <1>4, <1>6
    <2>. QED  BY <1>8, <2>3, <2>4 DEF WholeInv
<1>. QED  BY <1>7, <1>8

\* A member has its name.
LEMMA NameWhole ==
    ASSUME Inv, WholeInv, Parse, NameParsed PROVE WholeInv'
<1>1. /\ parser = "name" /\ phase = "parsed" /\ parser' \in {"value", "fail"}
      /\ heap' = SetItem(heap, item, [type |-> "String", string |-> output])
      /\ UNCHANGED <<frames, item, root>>
    BY DEF NameParsed, NameMoved
<1>2. /\ output # Null /\ root # Null /\ item \in Items(heap)
      /\ item = CurrentOf(frames, root)
    BY <1>1 DEF Inv, Places, ControlInv, RootInv, Blocks, WaitingInv
<1>3. Sound(heap, Tops, PairsOf(frames)) /\ at = "parse" /\ frames \in Seq(Frame)
    BY ParseFacts
<1>4. Texts(heap) /\ Tidy(heap, frames, Unfinished, Naming)
    BY <1>1, <1>2, <1>3 DEF WholeInv
<1>5. frames # <<>> /\ Top.open = "{"
    BY <1>1 DEF WholeInv
<1>6. PICK k \in Nat : k = Len(frames) /\ k \in 1..k /\ k + 1 # 1 /\ (k + 1) - 1 = k
    <2>1. Len(frames) \in Nat /\ Len(frames) # 0
        <3>1. \A fs \in Seq(Frame) : fs # <<>> => Len(fs) \in Nat /\ Len(fs) # 0
            OBVIOUS
        <3>. QED  BY <1>3, <1>5, <3>1
    <2>2. PICK k \in Nat : k = Len(frames) /\ k # 0
        BY <2>1
    <2>3. k \in 1..k /\ k + 1 # 1 /\ (k + 1) - 1 = k
        BY <2>2
    <2>. QED  BY <2>2, <2>3
<1>7. item = frames[k].tail /\ frames[k].open = "{" /\ frames[k].head # Null
    <2>1. item = frames[k].tail /\ frames[k].open = "{"
        BY <1>2, <1>5, <1>6 DEF CurrentOf, OwnerOf, Top, depth
    <2>2. frames[k].head # Null
        BY <1>1, <1>5, <1>6 DEF Inv, Blocks, StackInv, Top, depth
    <2>. QED  BY <2>1, <2>2
<1>8. heap[item].next = Null
    BY <1>3, <1>6, <1>7, PairFacts
<1>9. ASSUME NEW i \in 1..Len(frames), frames[i].head # Null, frames[i].open = "["
      PROVE  frames[i].tail # item
    <2>. SUFFICES ASSUME frames[i].tail = frames[k].tail PROVE FALSE
        BY <1>7
    <2>1. <<frames[i].head, frames[i].tail>> \in PairsOf(frames)
        BY <1>9 DEF PairsOf
    <2>2. <<frames[k].head, frames[k].tail>> \in PairsOf(frames)
        BY <1>6, <1>7 DEF PairsOf
    <2>3. \A x, y \in PairsOf(frames) : x[2] = y[2] => x = y
        BY <1>3 DEF Sound, Lists
    <2>4. frames[i].head = frames[k].head
        <3>1. <<frames[i].head, frames[i].tail>> = <<frames[k].head, frames[k].tail>>
            BY <2>1, <2>2, <2>3
        <3>. QED  BY <3>1
    <2>5. i = k
        BY <1>6, <2>4 DEF Inv, Blocks, StackInv, Stacked
    <2>. QED  BY <1>7, <1>9, <2>5
<1>10. PICK change : change = [type |-> "String", string |-> output]
    OBVIOUS
<1>11. /\ DOMAIN change = {"type", "string"} /\ change["type"] = "String"
       /\ change["string"] # Null
    BY <1>2, <1>10
<1>12. Changes(heap, heap', item, change)
    BY <1>1, <1>10 DEF Changes
<1>13. item \in Unfinished /\ Naming \subseteq {item}
    BY <1>1 DEF Unfinished, Naming
<1>14. Texts(heap') /\ Tidy(heap', frames, Unfinished, {})
    BY <1>2, <1>3, <1>4, <1>8, <1>9, <1>11, <1>12, <1>13, TidyNamed
<1>15. parser' = "value" => Unfinished' = Unfinished /\ Naming' = {}
    BY <1>1 DEF Unfinished, Naming, OwnersOf
<1>. QED  BY <1>1, <1>14, <1>15 DEF WholeInv

\* A container is complete.
LEMMA CloseWhole ==
    ASSUME Inv, WholeInv, Parse, CloseContainer PROVE WholeInv'
<1>1. /\ parser = "parsed" /\ parser' = "parsed" /\ frames # <<>> /\ root # Null
      /\ frames' = Below
      /\ heap' = SetItem(SetItem(heap, Top.head, [prev |-> Top.tail]), Top.owner,
                         [type |-> ContainerType(Top.open), child |-> Top.head])
    BY DEF CloseContainer, InContainer, ListClosed, Inv, Places, RootInv
<1>2. PICK b, t :
              /\ b \in Seq(Frame) /\ t \in Frame /\ frames = Append(b, t)
              /\ t = Top /\ b = Below
              /\ HeadsOf(frames) = HeadsOf(b) \cup {t.head}
              /\ PairsOf(frames) = PairsOf(b) \cup
                    (IF t.head = Null THEN {} ELSE {<<t.head, t.tail>>})
              /\ PairsOf(b) \subseteq PairsOf(frames)
              /\ Stacked(heap, Append(b, t), root)
              /\ root \in Tops /\ root \in Items(heap)
              /\ HeadsOf(b) \subseteq Tops
              /\ t.head # Null => t.head \in Tops /\ t.head \in Items(heap)
              /\ \A i \in 1..Len(b) : b[i].head # Null
    BY <1>1, InnermostFacts
<1>3. Sound(heap, Tops, PairsOf(frames)) /\ Typed(heap) /\ at = "parse"
    BY ParseFacts
<1>4. t.head # Null /\ t.head \in Items(heap)
    <2>1. t.head # Null
        BY <1>1, <1>2 DEF Inv, Blocks, StackInv
    <2>. QED  BY <1>2, <2>1
<1>5. t.owner \in Items(heap)
    BY <1>2, StackedPop
<1>6. Texts(heap) /\ Tidy(heap, frames, Unfinished, {})
    <2>1. Naming = {}
        BY <1>1 DEF Naming
    <2>. QED  BY <1>1, <1>3, <2>1 DEF WholeInv
<1>7. PICK d : d = [prev |-> t.tail]
    OBVIOUS
<1>8. DOMAIN d = {"prev"}
    BY <1>7
<1>9. PICK c : c = [type |-> ContainerType(t.open), child |-> t.head]
    OBVIOUS
<1>10. /\ DOMAIN c = {"type", "child"} /\ c["child"] = t.head
       /\ c["type"] = ContainerType(t.open)
    BY <1>9
<1>11. PICK G : Changes(heap, G, t.head, d) /\ Changes(G, heap', t.owner, c)
    BY <1>1, <1>2, <1>7, <1>9 DEF Changes
<1>12. /\ Shaped(heap, G)
       /\ \A q \in DOMAIN heap : q # t.head => G[q] = heap[q]
       /\ \A f \in ItemFields :
             G[t.head][f] = IF f \in DOMAIN d THEN d[f] ELSE heap[t.head][f]
    BY <1>3, <1>4, <1>8, <1>11, SetItemShaped
<1>13. Items(G) = Items(heap) /\ Items(heap) \subseteq DOMAIN heap
       /\ DOMAIN G = DOMAIN heap
    BY <1>12, ShapedItems DEF Items, Shaped
<1>14. \A q \in Items(heap) : \A f \in Fields \cup {"type"} : G[q][f] = heap[q][f]
    BY <1>8, <1>12, <1>13 DEF Fields, ItemFields
<1>15. Typed(G)
    BY <1>3, <1>12, <1>14, SameSound DEF Sound, Forest
<1>16. /\ Shaped(G, heap')
       /\ \A q \in DOMAIN G : q # t.owner => heap'[q] = G[q]
       /\ \A f \in ItemFields :
             heap'[t.owner][f] = IF f \in DOMAIN c THEN c[f] ELSE G[t.owner][f]
    BY <1>5, <1>10, <1>11, <1>13, <1>15, SetItemShaped
<1>17. Items(heap') = Items(heap)
    BY <1>13, <1>16, ShapedItems
<1>18. Texts(heap')
    <2>1. Texts(G)
        <3>1. \A q \in DOMAIN heap : q \notin Items(heap) => G[q] = heap[q]
            BY <1>4, <1>12
        <3>. QED  BY <1>6, <1>12, <3>1, TextsKept
    <2>2. \A q \in DOMAIN G : q \notin Items(G) => heap'[q] = G[q]
        BY <1>5, <1>13, <1>16
    <2>. QED  BY <1>16, <2>1, <2>2, TextsKept
<1>19. \A q \in Items(heap) : \A f \in Fields \cup {"type"} :
           heap'[q][f] = IF q = t.owner /\ f \in {"type", "child"}
                         THEN c[f] ELSE heap[q][f]
    <2>1. Fields \cup {"type"} \subseteq ItemFields
        BY DEF Fields, ItemFields
    <2>. QED  BY <1>10, <1>13, <1>14, <1>16, <2>1
<1>20. /\ \A q \in Items(heap) : /\ heap'[q].next = heap[q].next
                                 /\ heap'[q].string = heap[q].string
                                 /\ heap'[q].valuestring = heap[q].valuestring
                                 /\ q # t.owner => /\ heap'[q].type = heap[q].type
                                                   /\ heap'[q].child = heap[q].child
       /\ heap'[t.owner].type = ContainerType(t.open) /\ heap'[t.owner].child = t.head
    BY <1>5, <1>10, <1>19 DEF Fields
<1>21. Unfinished \ {t.owner} \subseteq Unfinished' /\ Naming' = {}
    <2>1. OwnersOf(frames) = OwnersOf(b) \cup {t.owner}
        BY <1>2, OwnersAppended
    <2>. QED  BY <1>1, <1>2, <2>1 DEF Unfinished, Naming
<1>22. Tidy(heap', b, Unfinished', {})
    <2>1. Sound(heap, Tops, PairsOf(Append(b, t))) /\ Tidy(heap, Append(b, t), Unfinished, {})
        BY <1>2, <1>3, <1>6
    <2>. QED  BY <1>2, <1>4, <1>5, <1>17, <1>20, <1>21, <2>1, TidyClosed
<1>. QED  BY <1>1, <1>2, <1>18, <1>21, <1>22 DEF WholeInv

\* The bytes of a string are decoded.
LEMMA InStringWhole ==
    ASSUME Inv, StringInv, WholeInv, Parse, InString PROVE WholeInv'
<1>1. /\ UNCHANGED <<parser, frames, item, root>> /\ StringStep
      /\ parser \in {"string", "name"} /\ root # Null
    BY DEF InString, Inv, Places, RootInv
<1>2. /\ Sound(heap, Tops, PairsOf(frames)) /\ DOMAIN heap = Live /\ at = "parse"
      /\ output # Null => IsBytes(heap, output)
    BY ParseFacts
<1>3. Texts(heap) /\ Tidy(heap, frames, Unfinished, Naming)
    BY <1>1, <1>2 DEF WholeInv
<1>4. /\ Texts(heap') /\ Items(heap') = Items(heap)
      /\ \A q \in Items(heap) : heap'[q] = heap[q]
    <2>1. CASE UNCHANGED heap
        BY <1>3, <2>1
    <2>2. CASE AllocateOutput
        <3>1. PICK n \in Nat \ {0} : n = Fresh /\ n \notin Live /\ n # Null
            BY InvFacts DEF Inv, Blocks
        <3>2. heap' = Added(heap, n, Bytes(<<>>))
            BY <2>2, <3>1, WithAdds DEF AllocateOutput
        <3>3. Texts(heap')
            <4>. QED  BY <1>3, <3>2, EmptySequence, BytesTexts
        <3>4. Bytes(<<>>).block # "item"
            BY DEF Bytes
        <3>. QED  BY <1>2, <3>1, <3>2, <3>3, <3>4 DEF Added, Items
    <2>3. CASE CopyFails
        <3>1. output # Null /\ heap' = Rest(heap, {output})
            BY <2>3, WithoutRests DEF CopyFails, AtEscape, InCopy, Inv, Places, ControlInv
        <3>2. Texts(heap')
            BY <1>3, <3>1, TextsRest
        <3>3. output \notin Items(heap)
            BY <1>2, <3>1 DEF IsBytes
        <3>. QED  BY <3>1, <3>2, <3>3 DEF Rest, Items
    <2>4. CASE CopyEnds
        <3>1. output # Null /\ heap' = Added(heap, output, Bytes(out))
            BY <2>4, WithAdds DEF CopyEnds, Inv, Places, ControlInv
        <3>2. Texts(heap')
            <4>1. IsSequence(out)
                BY DEF StringInv, StringTyped
            <4>. QED  BY <1>3, <3>1, <4>1, BytesTexts
        <3>3. Bytes(out).block # "item"
            BY DEF Bytes
        <3>4. IsBytes(heap, output)
            BY <1>2, <3>1
        <3>. QED  BY <3>1, <3>2, <3>3, <3>4 DEF Added, Items, IsBytes
    <2>5. UNCHANGED heap \/ AllocateOutput \/ CopyFails \/ CopyEnds
        BY <1>1 DEF StringStep, Scan, ScanEscape, Unterminated, OutputFails, CopyPlain,
                    CopyEscape, CopySingle, CopyPair, Take, heapVars
    <2>. QED  BY <2>1, <2>2, <2>3, <2>4, <2>5
<1>5. Tidy(heap', frames, Unfinished, Naming)
    BY <1>2, <1>3, <1>4, TidySame
<1>6. Unfinished' = Unfinished /\ Naming' = Naming
    BY <1>1 DEF Unfinished, Naming, OwnersOf
<1>7. parser' = "name" => frames' # <<>> /\ Top'.open = "{"
    BY <1>1 DEF WholeInv, Top, depth
<1>. QED  BY <1>1, <1>4, <1>5, <1>6, <1>7 DEF WholeInv

LEMMA ParseWhole ==
    ASSUME Inv, StringInv, WholeInv, Parse PROVE WholeInv'
<1>1. ParserStep
    BY DEF Parse
<1>2. CASE RootFails \/ RootParsed \/ StringValue \/ NoValue \/ ElementFails
           \/ Comma \/ NotClosed \/ StringFailed
    <2>1. UNCHANGED <<heap, root, frames, item>>
        BY <1>2 DEF RootFails, RootParsed, StringValue, NoValue, ElementFails, Comma,
           NotClosed, StringFailed, OutOfMemory, ParseFails, heapVars
    <2>2. \/ parser' = "fail"
          \/ parser = "parsed" /\ parser' \in {"element", "done"}
          \/ parser = "value" /\ parser' = "string"
        BY <1>2 DEF RootFails, RootParsed, StringValue, AtValue, NoValue, ElementFails,
           Comma, InContainer, NotClosed, StringFailed, OutOfMemory, ParseFails
    <2>. QED  BY <2>1, <2>2, WholeQuiet
<1>3. CASE RootDeleted
    <2>1. heap' = Rest(heap, cJSON_Delete(root)) /\ root' = Null /\ parser' = "done"
        BY <1>3, WithoutRests DEF RootDeleted
    <2>2. Texts(heap')
        BY <2>1, TextsRest DEF WholeInv
    <2>. QED  BY <2>1, <2>2 DEF WholeInv
<1>4. CASE Unwind
    <2>1. heap' = Rest(heap, cJSON_Delete(Top.head)) /\ parser' = "fail"
        BY <1>4, WithoutRests DEF Unwind, DeleteList
    <2>2. Texts(heap')
        BY <2>1, TextsRest DEF WholeInv
    <2>. QED  BY <2>1, <2>2 DEF WholeInv
<1>5. CASE NewRoot \/ Literal \/ parse_number \/ EmptyContainer \/ StringParsed
    BY <1>5, NewRootWhole, ValueWhole
<1>6. CASE OpenContainer \/ ArrayElement \/ ObjectMember \/ NameParsed
    BY <1>6, OpenWhole, ElementWhole, NameWhole
<1>7. CASE CloseContainer \/ InString
    BY <1>7, CloseWhole, InStringWhole
<1>. QED  BY <1>1, <1>2, <1>3, <1>4, <1>5, <1>6, <1>7 DEF ParserStep

-----------------------------------------------------------------------------
(***************************************************************************)
(* The buffer of the printer                                               *)
(***************************************************************************)

\* Every byte that was written lies in the buffer, and so does the zero that
\* update_offset looks for.
BufferInv ==
    /\ position \in Nat /\ pending \in Nat /\ reach \in Nat /\ length \in Nat
    /\ reach <= length /\ length <= PrintMax
    /\ printer \in {"keyed", "printed"} => ended = TRUE /\ position + pending < length
    /\ printer \in {"idle", "buffer", "done"} => reach = 0

\* The pieces are texts.
PiecesInv ==
    /\ IsSequence(pieces)
    /\ \A i \in 1..Len(pieces) : IsSequence(pieces[i].tokens)

LEMMA EmitSafe ==
    ASSUME BufferInv, NEW piece, PieceFits(piece), Emit(piece)
    PROVE  /\ position' \in Nat /\ pending' \in Nat /\ reach' \in Nat /\ length' \in Nat
           /\ reach' <= length' /\ length' <= PrintMax
           /\ piece.zero = TRUE => ended' = TRUE /\ position' + pending' < length'
<1>1. PICK m \in Nat : m = piece.needed
    BY DEF PieceFits
<1>2. PICK w \in Nat : w = TotalWidth(piece.tokens)
    BY DEF PieceFits
<1>3. PICK z \in {0, 1} : z = (IF piece.zero THEN 1 ELSE 0)
    OBVIOUS
<1>4. PICK last \in Nat : last = position + w + z
    BY <1>2, <1>3 DEF BufferInv
<1>5. w + z <= m + 1
    BY <1>1, <1>2, <1>3 DEF PieceFits
<1>6. PICK n \in Nat : n = m + position + 1 /\ n = Needs(piece)
    BY <1>1 DEF BufferInv, Needs
<1>7. last <= n
    BY <1>4, <1>5, <1>6 DEF BufferInv
<1>8. /\ n <= length => length' = length
      /\ ~(n <= length) => n <= PrintMax
                           /\ length' = IF n > PrintMax \div 2 THEN PrintMax ELSE 2 * n
    <2>1. PICK half : half = PrintMax \div 2
        OBVIOUS
    <2>2. Fits(piece) <=> n <= length
        BY <1>6 DEF Fits
    <2>3. NewSize(piece) = IF n > half THEN PrintMax ELSE 2 * n
        BY <1>6, <2>1 DEF NewSize
    <2>4. /\ ~Refused(piece)
          /\ length' = IF Fits(piece) THEN length ELSE NewSize(piece)
        BY DEF Emit
    <2>5. n <= length => length' = length
        BY <2>2, <2>4
    <2>6. ~(n <= length) => ~(Needs(piece) > PrintMax)
        BY <2>2, <2>4 DEF Refused
    <2>7. ~(n <= length) => n <= PrintMax
        BY <1>6, <2>6, PrinterConstants
    <2>8. ~(n <= length) => length' = IF n > PrintMax \div 2 THEN PrintMax ELSE 2 * n
        BY <2>1, <2>2, <2>3, <2>4
    <2>. QED  BY <2>5, <2>7, <2>8
<1>9. /\ length' \in Nat /\ n <= length' /\ length' <= PrintMax /\ length <= length'
    BY <1>6, <1>8, PrinterConstants DEF BufferInv
<1>10. /\ position' = IF piece.counted THEN position + w ELSE position
       /\ pending' = IF piece.counted THEN 0 ELSE w
       /\ ended' = piece.zero
       /\ reach' = IF last > reach THEN last ELSE reach
    BY <1>2, <1>3, <1>4 DEF Emit
<1>11. position' \in Nat /\ pending' \in Nat /\ position' + pending' = position + w
    <2>1. CASE piece.counted
        BY <1>2, <1>10, <2>1 DEF BufferInv
    <2>2. CASE ~piece.counted
        BY <1>2, <1>10, <2>2 DEF BufferInv
    <2>. QED  BY <2>1, <2>2
<1>12. reach' \in Nat /\ reach' <= length'
    BY <1>4, <1>7, <1>9, <1>10 DEF BufferInv
<1>13. piece.zero = TRUE => ended' = TRUE /\ position' + pending' < length'
    <2>1. piece.zero = TRUE => z = 1
        BY <1>3
    <2>. QED  BY <1>2, <1>4, <1>7, <1>9, <1>10, <1>11, <2>1 DEF BufferInv
<1>. QED  BY <1>9, <1>11, <1>12, <1>13

LEMMA BeforeOffsetPrefix ==
    ASSUME PiecesInv
    PROVE  /\ IsSequence(BeforeOffset) /\ Len(BeforeOffset) \in 0..Len(pieces)
           /\ \A i \in 1..Len(BeforeOffset) :
                 BeforeOffset[i] = pieces[i] /\ i \in 1..Len(pieces)
<1>1. PICK N \in Nat : N = Len(pieces)
    BY SequenceLength DEF PiecesInv
<1>2. PICK C : C = {i \in 1..Len(pieces) : pieces[i].at < position}
    OBVIOUS
<1>3. Cardinality(C) \in 0..N
    <2>1. IsFiniteSet(1..N) /\ Cardinality(1..N) = N
        BY FS_Interval
    <2>2. C \subseteq 1..N
        BY <1>1, <1>2
    <2>3. IsFiniteSet(C) /\ Cardinality(C) <= Cardinality(1..N)
        BY <2>1, <2>2, FS_Subset
    <2>4. Cardinality(C) \in Nat
        BY <2>3, FS_CardinalityType
    <2>. QED  BY <2>1, <2>3, <2>4
<1>4. PICK n \in 0..Len(pieces) : n = Cardinality(C)
    BY <1>1, <1>3
<1>5. BeforeOffset = SubSeq(pieces, 1, n)
    BY <1>2, <1>4 DEF BeforeOffset
<1>6. /\ IsSequence(SubSeq(pieces, 1, n)) /\ Len(SubSeq(pieces, 1, n)) = n
      /\ \A i \in 1..n : SubSeq(pieces, 1, n)[i] = pieces[i] /\ i \in 1..Len(pieces)
    BY Prefix DEF PiecesInv
<1>. QED  BY <1>5, <1>6

LEMMA EmitPieces ==
    ASSUME PiecesInv, NEW piece, IsSequence(piece.tokens), Emit(piece)
    PROVE  PiecesInv'
<1>1. PICK b : b = BeforeOffset
    OBVIOUS
<1>2. PICK p : p = [at |-> position, tokens |-> piece.tokens]
    OBVIOUS
<1>3. p.tokens = piece.tokens
    BY <1>2
<1>4. pieces' = Append(b, p)
    BY <1>1, <1>2 DEF Emit
<1>5. IsSequence(b) /\ \A i \in 1..Len(b) : IsSequence(b[i].tokens)
    BY <1>1, BeforeOffsetPrefix DEF PiecesInv
<1>6. PICK S : b \in Seq(S) /\ p \in S
    <2>1. PICK R : b \in Seq(R)
        BY <1>5 DEF IsSequence
    <2>2. b \in Seq(R \cup {p}) /\ p \in R \cup {p}
        BY <2>1
    <2>. QED  BY <2>2
<1>7. PICK n \in Nat : n = Len(b)
    BY <1>6
<1>8. PICK q : q = Append(b, p)
    OBVIOUS
<1>9. /\ q \in Seq(S) /\ Len(q) = n + 1 /\ q[n + 1] = p
      /\ \A i \in 1..n : q[i] = b[i]
    <2>1. q \in Seq(S) /\ Len(q) = n + 1 /\ q[n + 1] = p
        BY <1>6, <1>7, <1>8
    <2>2. ASSUME NEW i \in 1..n PROVE q[i] = b[i]
        BY <1>6, <1>7, <1>8
    <2>. QED  BY <2>1, <2>2
<1>10. \A i \in 1..n + 1 : i = n + 1 \/ i \in 1..n
    OBVIOUS
<1>11. IsSequence(q) /\ \A i \in 1..Len(q) : IsSequence(q[i].tokens)
    <2>1. IsSequence(q)
        BY <1>9 DEF IsSequence
    <2>. QED  BY <1>3, <1>5, <1>7, <1>9, <1>10, <2>1
<1>12. pieces' = q
    BY <1>4, <1>8
<1>. QED  BY <1>11, <1>12 DEF PiecesInv

LEMMA PrintedIsText ==
    ASSUME PiecesInv PROVE IsSequence(Printed)
<1>1. PICK n \in Nat : n = Len(BeforeOffset)
    BY BeforeOffsetPrefix, SequenceLength
<1>2. PICK f : f = [i \in 1..n |-> pieces[i].tokens]
    OBVIOUS
<1>3. Len(f) = n /\ \A i \in 1..n : f[i] = pieces[i].tokens
    BY <1>2
<1>4. \A i \in 1..n : IsSequence(f[i])
    BY <1>1, <1>3, BeforeOffsetPrefix DEF PiecesInv
<1>5. PICK w : w = [i \in 1..n |-> Len(f[i])]
    OBVIOUS
<1>6. Len(w) = n /\ \A i \in 1..n : w[i] = Len(f[i])
    BY <1>5
<1>7. \A i \in 1..n : IsSequence(f[i]) /\ w[i] \in Nat /\ Len(f[i]) <= w[i]
    BY <1>4, <1>6, SequenceLength
<1>8. IsSequence(Joined(f))
    BY <1>3, <1>6, <1>7, JoinedFits
<1>9. Printed = Joined(f)
    BY <1>1, <1>2 DEF Printed
<1>. QED  BY <1>8, <1>9

-----------------------------------------------------------------------------
(***************************************************************************)
(* The walk through the tree                                               *)
(***************************************************************************)

Spot == [type : Containers, current : Nat]

\* The items of an object that is printed have names.
SpotFits(H, s) ==
    s.current # Null => /\ s.current \in Items(H)
                        /\ s.type = "Object" => Named(H, s.current)

\* One item of each container is being printed.
Busy(H, w) ==
    \A i \in 1..Len(w) : SpotFits(H, w[i]) /\ w[i].current # Null

Walking == {"buffer", "value", "each", "key", "keyed", "colon", "printed", "behind"}

WalkInv ==
    /\ walk \in Seq(Spot)
    /\ printer \in Walking =>
          /\ printing \in Items(heap)
          /\ printer = "buffer" => walk = <<>>
          /\ printer = "key" => Named(heap, printing)
    /\ printer \in Walking \ {"each"} => Busy(heap, walk)
    /\ printer = "each" => \E b \in Seq(Spot) : \E s \in Spot :
                              /\ walk = Append(b, s)
                              /\ Busy(heap, b) /\ SpotFits(heap, s)

\* What the tree that is printed looks like to the printer.
Printable(H, p) ==
    /\ p # Null /\ p \in Nat
    /\ H[p].type \in Whole
    /\ H[p].type = "String" => /\ H[p].valuestring # Null
                               /\ IsSequence(H[H[p].valuestring].bytes)
    /\ Named(H, p) => IsSequence(H[H[p].string].bytes)
    /\ H[p].next \in Nat /\ H[p].child \in Nat
    /\ H[p].next # Null => /\ H[p].next \in Items(H)
                           /\ Named(H, p) => Named(H, H[p].next)
    /\ H[p].child # Null => /\ H[p].child \in Items(H)
                            /\ H[p].type = "Object" => Named(H, H[p].child)

\* A tree that was parsed is complete.
LEMMA ParsedPrintable ==
    ASSUME Inv, WholeInv, at \in {"parsed", "print"}, root # Null
    PROVE  Typed(heap) /\ \A p \in Items(heap) : Printable(heap, p)
<1>1. /\ root # Null /\ frames = <<>> /\ parser = "idle"
    BY DEF Inv, Places, ControlInv
<1>2. Typed(heap)
    BY InvFacts DEF Inv, Blocks
<1>3. OwnersOf(<<>>) = {}
    BY DEF OwnersOf
<1>4. Unfinished = {} /\ Naming = {}
    BY <1>1, <1>3 DEF Unfinished, Naming
<1>5. Tidy(heap, frames, Unfinished, Naming)
    BY <1>1 DEF WholeInv
<1>6. Tidy(heap, <<>>, {}, {})
    BY <1>1, <1>4, <1>5, Zenon
<1>7. Texts(heap)
    BY DEF WholeInv
<1>8. ASSUME NEW p \in Items(heap) PROVE Printable(heap, p)
    <2>1. /\ p \in DOMAIN heap /\ p # Null
          /\ heap[p].child = Null \/ heap[p].child \in Items(heap)
          /\ heap[p].next = Null \/ heap[p].next \in Items(heap)
          /\ heap[p].string = Null \/ heap[p].string \in DOMAIN heap \ Items(heap)
          /\ heap[p].valuestring = Null
                \/ heap[p].valuestring \in DOMAIN heap \ Items(heap)
        BY <1>2, FieldTypes
    <2>2. /\ heap[p].type \in Whole
          /\ heap[p].type = "String" => heap[p].valuestring # Null
        BY <1>6 DEF Tidy, Completed
    <2>3. heap[p].next # Null /\ Named(heap, p) => Named(heap, heap[p].next)
        BY <1>6 DEF Tidy, NamesFollow
    <2>4. heap[p].type = "Object" /\ heap[p].child # Null => Named(heap, heap[p].child)
        BY <1>6 DEF Tidy, MembersNamed
    <2>5. \A q : q \in Items(heap) => q \in Nat
        BY <1>2 DEF Typed, Items
    <2>6. p \in Nat /\ heap[p].next \in Nat /\ heap[p].child \in Nat
        BY <2>1, <2>5 DEF Null
    <2>7. heap[p].type = "String" => IsSequence(heap[heap[p].valuestring].bytes)
        BY <1>7, <2>1, <2>2 DEF Texts, IsText
    <2>8. Named(heap, p) => IsSequence(heap[heap[p].string].bytes)
        BY <1>7, <2>1 DEF Texts, IsText, Named
    <2>. QED  BY <2>1, <2>2, <2>3, <2>4, <2>6, <2>7, <2>8 DEF Printable
<1>. QED  BY <1>2, <1>8

LEMMA TreePrintable ==
    ASSUME Inv, WholeInv, at = "print"
    PROVE  Typed(heap) /\ \A p \in Items(heap) : Printable(heap, p)
<1>1. root # Null
    BY DEF Inv, Places, RootInv
<1>. QED  BY <1>1, ParsedPrintable

LEMMA SpotAppended ==
    ASSUME NEW b \in Seq(Spot), NEW s \in Spot
    PROVE  /\ Append(b, s) \in Seq(Spot)
           /\ SubSeq(Append(b, s), 1, Len(Append(b, s)) - 1) = b
           /\ Append(b, s)[Len(Append(b, s))] = s
OBVIOUS

LEMMA BusyAppended ==
    ASSUME NEW H, NEW b \in Seq(Spot), Busy(H, b), NEW s \in Spot, SpotFits(H, s),
           s.current # Null
    PROVE  Busy(H, Append(b, s))
<1>1. PICK n \in Nat : n = Len(b)
    OBVIOUS
<1>2. PICK w : w = Append(b, s)
    OBVIOUS
<1>3. Len(w) = n + 1 /\ w[n + 1] = s /\ \A i \in 1..n : w[i] = b[i]
    <2>1. Len(w) = n + 1 /\ w[n + 1] = s
        BY <1>1, <1>2
    <2>2. ASSUME NEW i \in 1..n PROVE w[i] = b[i]
        BY <1>1, <1>2
    <2>. QED  BY <2>1, <2>2
<1>4. \A i \in 1..n + 1 : i = n + 1 \/ i \in 1..n
    OBVIOUS
<1>5. ASSUME NEW i \in 1..Len(w) PROVE SpotFits(H, w[i]) /\ w[i].current # Null
    <2>1. i = n + 1 \/ i \in 1..n
        BY <1>3, <1>4
    <2>2. CASE i = n + 1
        <3>1. w[i] = s
            BY <1>3, <2>2
        <3>. QED  BY <3>1, Zenon
    <2>3. CASE i \in 1..n
        <3>1. w[i] = b[i] /\ i \in 1..Len(b)
            BY <1>1, <1>3, <2>3
        <3>2. SpotFits(H, b[i]) /\ b[i].current # Null
            BY <3>1 DEF Busy
        <3>. QED  BY <3>1, <3>2, Zenon
    <2>. QED  BY <2>1, <2>2, <2>3
<1>. QED  BY <1>2, <1>5 DEF Busy

LEMMA BusyInnermost ==
    ASSUME NEW H, NEW w \in Seq(Spot), Busy(H, w), w # <<>>
    PROVE  \E b \in Seq(Spot) : \E s \in Spot :
              /\ w = Append(b, s)
              /\ b = SubSeq(w, 1, Len(w) - 1) /\ s = w[Len(w)]
              /\ Busy(H, b) /\ SpotFits(H, s) /\ s.current # Null
<1>1. PICK n \in Nat : n = Len(w)
    OBVIOUS
<1>2. n >= 1
    BY <1>1
<1>3. PICK b : b = SubSeq(w, 1, n - 1)
    OBVIOUS
<1>4. PICK s : s = w[n]
    OBVIOUS
<1>5. b \in Seq(Spot) /\ Len(b) = n - 1
    BY <1>1, <1>2, <1>3
<1>6. \A i \in 1..n - 1 : b[i] = w[i]
    BY <1>1, <1>2, <1>3
<1>7. s \in Spot
    BY <1>1, <1>2, <1>4
<1>8. w = Append(b, s)
    BY <1>1, <1>2, <1>3, <1>4
<1>9. SpotFits(H, s) /\ s.current # Null
    <2>1. n \in 1..Len(w)
        BY <1>1, <1>2
    <2>2. SpotFits(H, w[n]) /\ w[n].current # Null
        BY <2>1 DEF Busy
    <2>. QED  BY <1>4, <2>2, Zenon
<1>10. ASSUME NEW i \in 1..Len(b) PROVE SpotFits(H, b[i]) /\ b[i].current # Null
    <2>1. i \in 1..Len(w) /\ b[i] = w[i]
        BY <1>1, <1>5, <1>6
    <2>2. SpotFits(H, w[i]) /\ w[i].current # Null
        BY <2>1 DEF Busy
    <2>. QED  BY <2>1, <2>2, Zenon
<1>11. Busy(H, b)
    BY <1>10 DEF Busy
<1>. QED  BY <1>1, <1>3, <1>4, <1>5, <1>7, <1>8, <1>9, <1>11

LEMMA NobodyBusy == \A H : Busy(H, <<>>)
BY DEF Busy

LEMMA WalkGoal ==
    ASSUME heap' = heap, walk' \in Seq(Spot), printing' \in Items(heap),
           printer' \in {"value", "key", "keyed", "colon", "printed", "behind"},
           printer' = "key" => Named(heap, printing'), Busy(heap, walk')
    PROVE  WalkInv'
<1>1. Busy(heap', walk') /\ printing' \in Items(heap')
    BY Zenon
<1>2. printer' = "key" => Named(heap', printing')
    BY Zenon
<1>3. printer' # "buffer" /\ printer' # "each"
    OBVIOUS
<1>. QED  BY <1>1, <1>2, <1>3 DEF WalkInv, Walking

LEMMA WalkEach ==
    ASSUME heap' = heap, printing' \in Items(heap), printer' = "each",
           NEW b \in Seq(Spot), NEW s \in Spot, walk' = Append(b, s),
           Busy(heap, b), SpotFits(heap, s)
    PROVE  WalkInv'
<1>1. Busy(heap', b) /\ SpotFits(heap', s) /\ printing' \in Items(heap')
    BY Zenon
<1>2. walk' \in Seq(Spot)
    BY SpotAppended
<1>3. \E c \in Seq(Spot) : \E t \in Spot :
        walk' = Append(c, t) /\ Busy(heap', c) /\ SpotFits(heap', t)
    BY <1>1
<1>. QED  BY <1>1, <1>2, <1>3 DEF WalkInv, Walking

LEMMA WalkOver ==
    ASSUME walk' \in Seq(Spot), printer' \in {"idle", "fail", "done"}
    PROVE  WalkInv'
BY DEF WalkInv, Walking

LEMMA WalkFacts ==
    ASSUME WalkInv
    PROVE  /\ walk \in Seq(Spot)
           /\ printer \in Walking => printing \in Items(heap)
           /\ printer \in {"value", "key", "keyed", "colon", "printed", "behind"} =>
                  Busy(heap, walk)
           /\ printer = "buffer" => walk = <<>>
           /\ printer = "key" => Named(heap, printing)
BY DEF WalkInv, Walking

LEMMA EachFacts ==
    ASSUME WalkInv, printer = "each"
    PROVE  \E b \in Seq(Spot) : \E s \in Spot :
              /\ walk = Append(b, s) /\ walk # <<>>
              /\ Innermost = s /\ Outer = b
              /\ Busy(heap, b) /\ SpotFits(heap, s)
              /\ printing \in Items(heap)
<1>1. PICK b \in Seq(Spot) : \E s \in Spot :
          walk = Append(b, s) /\ Busy(heap, b) /\ SpotFits(heap, s)
    BY DEF WalkInv
<1>2. PICK s \in Spot : walk = Append(b, s) /\ Busy(heap, b) /\ SpotFits(heap, s)
    BY <1>1
<1>3. PICK w : w = Append(b, s)
    OBVIOUS
<1>4. /\ SubSeq(w, 1, Len(w) - 1) = b /\ w[Len(w)] = s
    BY <1>3, SpotAppended, Zenon
<1>5. walk = w
    BY <1>2, <1>3
<1>6. Innermost = s /\ Outer = b
    BY <1>4, <1>5 DEF Innermost, Outer
<1>7. walk # <<>>
    BY <1>2
<1>8. printing \in Items(heap)
    BY DEF WalkInv, Walking
<1>. QED  BY <1>2, <1>6, <1>7, <1>8

\* The innermost container goes on to the next of its items.
LEMMA AdvanceWalk ==
    ASSUME \A p \in Items(heap) : Printable(heap, p), WalkInv,
           printer = "behind", walk # <<>>, Advance, heap' = heap
    PROVE  WalkInv'
<1>1. /\ walk \in Seq(Spot) /\ Busy(heap, walk) /\ printing \in Items(heap)
    BY WalkFacts DEF Walking
<1>2. PICK b \in Seq(Spot) : \E s \in Spot :
          /\ b = SubSeq(walk, 1, Len(walk) - 1) /\ s = walk[Len(walk)]
          /\ Busy(heap, b) /\ SpotFits(heap, s) /\ s.current # Null
    BY <1>1, BusyInnermost
<1>3. PICK s \in Spot :
          /\ b = SubSeq(walk, 1, Len(walk) - 1) /\ s = walk[Len(walk)]
          /\ Busy(heap, b) /\ SpotFits(heap, s) /\ s.current # Null
    BY <1>2
<1>4. Outer = b /\ Innermost = s
    BY <1>3 DEF Outer, Innermost
<1>5. PICK c : c = s.current
    OBVIOUS
<1>6. c \in Items(heap) /\ (s.type = "Object" => Named(heap, c))
    BY <1>3, <1>5 DEF SpotFits
<1>7. PICK n : n = heap[c].next
    OBVIOUS
<1>8. NextItem = n
    BY <1>4, <1>5, <1>7 DEF NextItem
<1>9. /\ n \in Nat
      /\ n # Null => n \in Items(heap) /\ (Named(heap, c) => Named(heap, n))
    BY <1>6, <1>7 DEF Printable
<1>10. PICK t : t = [s EXCEPT !.current = n]
    OBVIOUS
<1>11. t \in Spot /\ t.current = n /\ t.type = s.type
    BY <1>9, <1>10 DEF Spot
<1>12. SpotFits(heap, t)
    BY <1>6, <1>9, <1>11 DEF SpotFits
<1>13. walk' = Append(b, t) /\ printer' = "each" /\ printing' = printing
    BY <1>4, <1>8, <1>10 DEF Advance
<1>. QED  BY <1>1, <1>3, <1>11, <1>12, <1>13, WalkEach

\* The innermost container has an item to be visited.
LEMMA VisitWalk ==
    ASSUME WalkInv, printer = "each", Innermost.current # Null, heap' = heap,
           NEW place \in {"value", "key"}, Visit(place),
           place = "key" => Innermost.type = "Object"
    PROVE  WalkInv'
<1>1. PICK b \in Seq(Spot) : \E s \in Spot :
              /\ walk = Append(b, s) /\ walk # <<>>
              /\ Innermost = s /\ Outer = b
              /\ Busy(heap, b) /\ SpotFits(heap, s)
              /\ printing \in Items(heap)
    BY EachFacts
<1>2. PICK s \in Spot :
              /\ walk = Append(b, s) /\ walk # <<>>
              /\ Innermost = s /\ Outer = b
              /\ Busy(heap, b) /\ SpotFits(heap, s)
              /\ printing \in Items(heap)
    BY <1>1
<1>3. s.current # Null /\ (place = "key" => s.type = "Object")
    BY <1>2
<1>4. Busy(heap, walk)
    BY <1>2, <1>3, BusyAppended
<1>5. /\ walk' = walk /\ printing' = s.current /\ printer' = place
    BY <1>2 DEF Visit
<1>6. s.current \in Items(heap) /\ (s.type = "Object" => Named(heap, s.current))
    BY <1>2, <1>3 DEF SpotFits
<1>7. walk' \in Seq(Spot)
    BY <1>5, WalkFacts
<1>8. Busy(heap, walk') /\ printing' \in Items(heap)
    BY <1>4, <1>5, <1>6
<1>9. printer' = "key" => Named(heap, printing')
    BY <1>3, <1>5, <1>6
<1>. QED  BY <1>5, <1>7, <1>8, <1>9, WalkGoal

\* What an item that is no container is printed as.
LEMMA ScalarFits ==
    ASSUME NEW p, Printable(heap, p), heap[p].type \notin Containers
    PROVE  /\ PieceFits(ScalarPiece(heap[p]))
           /\ ScalarPiece(heap[p]).zero = TRUE
<1>1. heap[p].type \in {"NULL", "False", "True", "Number", "String"}
    BY DEF Printable, Whole, Containers
<1>2. CASE heap[p].type \in {"NULL", "False", "True"}
    <2>1. PICK kind \in {"null", "true", "false"} :
              ScalarPiece(heap[p]) = Closed(Mark(kind))
        BY <1>2 DEF ScalarPiece
    <2>2. Width(Mark(kind)) \in Nat
        BY MarkWidth
    <2>3. PieceFits(Closed(Mark(kind))) /\ Terminated(Closed(Mark(kind)))
        BY <2>2, ClosedFits
    <2>. QED  BY <2>1, <2>3 DEF Terminated
<1>3. CASE heap[p].type = "Number"
    <2>1. ScalarPiece(heap[p]) = NumberPiece(heap[p].valuedouble)
        BY <1>3 DEF ScalarPiece
    <2>. QED  BY <2>1, NumberPieceFits
<1>4. CASE heap[p].type = "String"
    <2>1. ScalarPiece(heap[p]) = StringPiece(heap[p].valuestring)
        BY <1>4 DEF ScalarPiece
    <2>2. IsSequence(heap[heap[p].valuestring].bytes)
        BY <1>4 DEF Printable
    <2>. QED  BY <2>1, <2>2, StringPieceFits DEF Terminated
<1>. QED  BY <1>1, <1>2, <1>3, <1>4

LEMMA OpenWalk ==
    ASSUME \A p \in Items(heap) : Printable(heap, p), WalkInv, PrintOpen
    PROVE  WalkInv'
<1>1. /\ walk \in Seq(Spot) /\ Busy(heap, walk) /\ printing \in Items(heap)
    BY WalkFacts DEF Walking, PrintOpen
<1>2. heap' = heap
    BY EmitKeeps DEF PrintOpen
<1>3. PICK s : s = [type |-> heap[printing].type, current |-> heap[printing].child]
    OBVIOUS
<1>4. /\ heap[printing].type \in Containers
      /\ walk' = Append(walk, s) /\ printer' = "each" /\ printing' = printing
    BY <1>3 DEF PrintOpen, Type
<1>5. /\ heap[printing].child \in Nat
      /\ heap[printing].child # Null =>
              /\ heap[printing].child \in Items(heap)
              /\ heap[printing].type = "Object" => Named(heap, heap[printing].child)
    BY <1>1 DEF Printable
<1>6. s \in Spot
    BY <1>3, <1>4, <1>5 DEF Spot
<1>7. SpotFits(heap, s)
    BY <1>3, <1>5 DEF SpotFits
<1>. QED  BY <1>1, <1>2, <1>4, <1>6, <1>7, WalkEach

LEMMA CloseWalk ==
    ASSUME WalkInv, PrintClose
    PROVE  WalkInv'
<1>1. heap' = heap
    BY EmitKeeps DEF PrintClose
<1>2. PICK b \in Seq(Spot) : \E s \in Spot :
              /\ walk = Append(b, s) /\ walk # <<>>
              /\ Innermost = s /\ Outer = b
              /\ Busy(heap, b) /\ SpotFits(heap, s)
              /\ printing \in Items(heap)
    BY EachFacts DEF PrintClose
<1>3. /\ walk' = b /\ printer' = "printed" /\ printing' = printing
      /\ Busy(heap, b) /\ printing \in Items(heap)
    BY <1>2 DEF PrintClose
<1>. QED  BY <1>1, <1>3, WalkGoal

LEMMA PrinterWalk ==
    ASSUME Inv, WholeInv, WalkInv, PrintGoesOn PROVE WalkInv'
<1>1. at = "print" /\ PrinterStep
    BY DEF PrintGoesOn
<1>2. Typed(heap) /\ \A p \in Items(heap) : Printable(heap, p)
    BY <1>1, TreePrintable
<1>3. CASE NewBuffer
    <2>1. /\ walk' = <<>> /\ printing' = printing /\ printer' = "value"
          /\ printing \in Items(heap)
        BY <1>3, WalkFacts DEF NewBuffer, Goto, Walking
    <2>2. Fresh \notin Live /\ DOMAIN heap = Live
        BY InvFacts DEF Inv, Blocks
    <2>3. heap' = Added(heap, Fresh, Bytes(<<>>))
        BY <1>3, WithAdds DEF NewBuffer
    <2>4. printing \in Items(Added(heap, Fresh, Bytes(<<>>)))
        BY <2>1, <2>2, AddedKinds
    <2>5. printing' \in Items(heap')
        BY <2>1, <2>3, <2>4
    <2>6. walk' \in Seq(Spot)
        BY <2>1
    <2>7. Busy(heap', walk')
        BY <2>1, NobodyBusy
    <2>. QED  BY <2>1, <2>5, <2>6, <2>7 DEF WalkInv, Walking
<1>4. CASE NewBufferFails \/ CutFails \/ PieceFails \/ CutBuffer \/ PrintFails
    <2>1. printer' \in {"fail", "done"}
        BY <1>4 DEF NewBufferFails, CutFails, PieceFails, CutBuffer, PrintFails,
                    EmitFails, Goto
    <2>2. walk' = walk \/ walk' = <<>>
        BY <1>4 DEF NewBufferFails, CutFails, PieceFails, CutBuffer, PrintFails,
                    EmitFails, Goto, Forgotten
    <2>3. walk' \in Seq(Spot)
        <3>1. <<>> \in Seq(Spot)
            OBVIOUS
        <3>. QED  BY <2>2, <3>1, WalkFacts
    <2>. QED  BY <2>1, <2>3, WalkOver
<1>5. CASE PrintScalar \/ PrintKey \/ PrintColon \/ update_offset
    <2>1. heap' = heap
        BY <1>5, EmitKeeps DEF PrintScalar, PrintKey, PrintColon, update_offset, heapVars
    <2>2. /\ walk' = walk /\ printing' = printing
          /\ printer' \in {"value", "keyed", "colon", "printed", "behind"}
          /\ printer \in {"value", "key", "keyed", "colon", "printed", "behind"}
        BY <1>5 DEF PrintScalar, PrintKey, PrintColon, update_offset, Goto
    <2>3. /\ walk \in Seq(Spot) /\ printing \in Items(heap) /\ Busy(heap, walk)
        BY <2>2, WalkFacts DEF Walking
    <2>. QED  BY <2>1, <2>2, <2>3, WalkGoal
<1>6. CASE VisitElement
    <2>1. heap' = heap
        BY <1>6 DEF VisitElement, heapVars
    <2>2. PICK place \in {"value", "key"} :
              Visit(place) /\ (place = "key" => Innermost.type # "Array")
        BY <1>6 DEF VisitElement
    <2>3. printer = "each" /\ Innermost.current # Null
        BY <1>6 DEF VisitElement
    <2>4. Innermost \in Spot
        BY <2>3, EachFacts
    <2>5. Innermost.type # "Array" => Innermost.type = "Object"
        BY <2>4 DEF Spot, Containers
    <2>. QED  BY <2>1, <2>2, <2>3, <2>5, VisitWalk
<1>7. CASE PrintIndent
    <2>1. heap' = heap
        BY <1>7, EmitKeeps DEF PrintIndent
    <2>2. /\ printer = "each" /\ Innermost.current # Null
          /\ Innermost.type = "Object" /\ Visit("key")
        BY <1>7 DEF PrintIndent
    <2>. QED  BY <2>1, <2>2, VisitWalk
<1>8. CASE PrintComma \/ LastElement
    <2>1. heap' = heap
        BY <1>8, EmitKeeps DEF PrintComma, LastElement, heapVars
    <2>2. printer = "behind" /\ walk # <<>> /\ Advance
        BY <1>8 DEF PrintComma, LastElement, Separates
    <2>. QED  BY <1>2, <2>1, <2>2, AdvanceWalk
<1>. QED  BY <1>1, <1>2, <1>3, <1>4, <1>5, <1>6, <1>7, <1>8, OpenWalk, CloseWalk
          DEF PrinterStep

\* The other steps begin a walk, or leave it alone.
LEMMA WalkGoesOn ==
    ASSUME Inv, WholeInv, WalkInv, [Next]_vars PROVE WalkInv'
<1>1. CASE PrintGoesOn
    BY <1>1, PrinterWalk
<1>2. CASE StartPrint
    <2>1. /\ walk' = <<>> /\ printing' = root /\ printer' = "buffer" /\ heap' = heap
          /\ root # Null
        BY <1>2 DEF StartPrint, BeginPrint, heapVars
    <2>2. root \in Items(heap)
        BY <2>1 DEF Inv, Blocks, KindsInv
    <2>3. walk' \in Seq(Spot)
        BY <2>1
    <2>4. Busy(heap', walk')
        BY <2>1, NobodyBusy
    <2>. QED  BY <2>1, <2>2, <2>3, <2>4 DEF WalkInv, Walking
<1>3. CASE UNCHANGED vars
    <2>1. UNCHANGED <<walk, printer, printing, heap>>
        BY <1>3 DEF vars, printerVars, heapVars
    <2>. QED  BY <2>1 DEF WalkInv, Busy, SpotFits, Named, Items
<1>4. CASE PrintEnds \/ FromJsonEnds
    <2>1. walk' = walk /\ printer' = "idle"
        BY <1>4 DEF PrintEnds, FromJsonEnds, KeepPrinter, Forget
    <2>. QED  BY <2>1, WalkFacts, WalkOver
<1>5. CASE \/ Call \/ DispatchAnswers \/ SchemeAnswers \/ NothingToParse
           \/ CopyParams \/ ParamsNotCopied \/ Parse \/ ParseEnds
           \/ NoTree \/ ReturnTree \/ MaxConcurrent \/ CallerFrees \/ ComesBack
    <2>1. walk' = walk /\ printer' = printer
        BY <1>5 DEF Call, DispatchAnswers, SchemeAnswers, NothingToParse,
            CopyParams, ParamsNotCopied, Parse, ParseEnds, NoTree, ReturnTree,
            MaxConcurrent, CallerFrees, ComesBack, CallerHasFreed, printerVars
    <2>2. at # "print"
        BY <1>5 DEF Call, DispatchAnswers, SchemeAnswers, NothingToParse, Parses,
            CopyParams, ParamsNotCopied, Parse, ParseEnds, NoTree, ReturnTree,
            MaxConcurrent, CallerFrees, ComesBack, CallerHasFreed
    <2>3. printer = "idle"
        BY <2>2 DEF Inv, Places, ControlInv
    <2>. QED  BY <2>1, <2>3, WalkFacts, WalkOver
<1>. QED  BY <1>1, <1>2, <1>3, <1>4, <1>5 DEF Next, CallStep

LEMMA EmitGoal ==
    ASSUME BufferInv, PiecesInv, NEW piece, PieceFits(piece), Emit(piece),
           printer' \notin {"idle", "buffer", "done"},
           printer' \in {"keyed", "printed"} => piece.zero = TRUE
    PROVE  BufferInv' /\ PiecesInv'
<1>1. /\ position' \in Nat /\ pending' \in Nat /\ reach' \in Nat /\ length' \in Nat
      /\ reach' <= length' /\ length' <= PrintMax
      /\ piece.zero = TRUE => ended' = TRUE /\ position' + pending' < length'
    BY EmitSafe
<1>2. PiecesInv'
    BY EmitPieces DEF PieceFits
<1>. QED  BY <1>1, <1>2 DEF BufferInv

LEMMA BufferSame ==
    ASSUME BufferInv, PiecesInv,
           UNCHANGED <<length, position, pending, ended, reach, pieces>>,
           printer' \notin {"keyed", "printed"},
           printer' \in {"idle", "buffer", "done"} =>
               printer \in {"idle", "buffer", "done"}
    PROVE  BufferInv' /\ PiecesInv'
BY DEF BufferInv, PiecesInv

LEMMA BufferForgotten ==
    ASSUME Forgotten, pieces' = <<>>, printer' = "done"
    PROVE  BufferInv' /\ PiecesInv'
<1>1. BufferInv'
    BY PrinterConstants DEF Forgotten, BufferInv
<1>2. IsSequence(<<>>) /\ Len(<<>>) = 0
    BY EmptySequence
<1>. QED  BY <1>1, <1>2 DEF PiecesInv

\* Every piece that the printer writes fits.
LEMMA ScalarBuffer ==
    ASSUME \A p \in Items(heap) : Printable(heap, p),
           WalkInv, BufferInv, PiecesInv, PrintScalar
    PROVE  BufferInv' /\ PiecesInv'
<1>1. printing \in Items(heap)
    BY WalkFacts DEF PrintScalar, Walking
<1>2. PICK q : q = ScalarPiece(heap[printing])
    OBVIOUS
<1>3. PieceFits(q) /\ q.zero = TRUE
    BY <1>1, <1>2, ScalarFits DEF PrintScalar, Type
<1>4. Emit(q) /\ printer' = "printed"
    BY <1>2 DEF PrintScalar, Goto
<1>. QED  BY <1>3, <1>4, EmitGoal

LEMMA OpenBuffer ==
    ASSUME BufferInv, PiecesInv, PrintOpen
    PROVE  BufferInv' /\ PiecesInv'
<1>1. PieceFits(OpenPiece(Type))
    BY OpenFits
<1>2. Emit(OpenPiece(Type)) /\ printer' = "each"
    BY DEF PrintOpen
<1>3. PICK q : q = OpenPiece(Type)
    OBVIOUS
<1>4. PieceFits(q) /\ Emit(q)
    BY <1>1, <1>2, <1>3, Zenon
<1>. QED  BY <1>2, <1>4, EmitGoal

LEMMA WalkIsSequence == ASSUME WalkInv PROVE IsSequence(walk)
BY DEF WalkInv, IsSequence

LEMMA CloseBuffer ==
    ASSUME WalkInv, BufferInv, PiecesInv, PrintClose
    PROVE  BufferInv' /\ PiecesInv'
<1>1. walk # <<>>
    BY EachFacts DEF PrintClose
<1>2. PieceFits(ClosePiece) /\ Terminated(ClosePiece)
    BY <1>1, WalkIsSequence, CloseFits
<1>3. Emit(ClosePiece) /\ printer' = "printed"
    BY DEF PrintClose
<1>4. PICK q : q = ClosePiece
    OBVIOUS
<1>5. PieceFits(q) /\ Emit(q) /\ q.zero = TRUE
    BY <1>2, <1>3, <1>4, Zenon DEF Terminated
<1>. QED  BY <1>3, <1>5, EmitGoal

LEMMA IndentBuffer ==
    ASSUME WalkInv, BufferInv, PiecesInv, PrintIndent
    PROVE  BufferInv' /\ PiecesInv'
<1>1. PieceFits(IndentPiece)
    BY WalkIsSequence, IndentFits
<1>2. Emit(IndentPiece) /\ printer' = "key"
    BY DEF PrintIndent, Visit
<1>3. PICK q : q = IndentPiece
    OBVIOUS
<1>4. PieceFits(q) /\ Emit(q)
    BY <1>1, <1>2, <1>3, Zenon
<1>. QED  BY <1>2, <1>4, EmitGoal

LEMMA KeyBuffer ==
    ASSUME \A p \in Items(heap) : Printable(heap, p),
           WalkInv, BufferInv, PiecesInv, PrintKey
    PROVE  BufferInv' /\ PiecesInv'
<1>1. printing \in Items(heap) /\ Named(heap, printing)
    BY WalkFacts DEF PrintKey, Walking
<1>2. PICK k : k = heap[printing].string
    OBVIOUS
<1>3. IsSequence(heap[k].bytes)
    BY <1>1, <1>2 DEF Printable
<1>4. PieceFits(StringPiece(k)) /\ Terminated(StringPiece(k))
    BY <1>3, StringPieceFits
<1>5. PICK q : q = StringPiece(k)
    OBVIOUS
<1>6. PieceFits(q) /\ q.zero = TRUE
    BY <1>4, <1>5, Zenon DEF Terminated
<1>7. Emit(q) /\ printer' = "keyed"
    BY <1>2, <1>5 DEF PrintKey, Goto
<1>. QED  BY <1>6, <1>7, EmitGoal

LEMMA ColonBuffer ==
    ASSUME BufferInv, PiecesInv, PrintColon
    PROVE  BufferInv' /\ PiecesInv'
<1>1. PieceFits(ColonPiece)
    BY ColonFits
<1>2. Emit(ColonPiece) /\ printer' = "value"
    BY DEF PrintColon, Goto
<1>3. PICK q : q = ColonPiece
    OBVIOUS
<1>4. PieceFits(q) /\ Emit(q)
    BY <1>1, <1>2, <1>3, Zenon
<1>. QED  BY <1>2, <1>4, EmitGoal

LEMMA CommaBuffer ==
    ASSUME BufferInv, PiecesInv, PrintComma
    PROVE  BufferInv' /\ PiecesInv'
<1>1. PICK more : more = (NextItem # Null)
    OBVIOUS
<1>2. PieceFits(CommaPiece(more))
    BY CommaFits
<1>3. Emit(CommaPiece(NextItem # Null)) /\ printer' = "each"
    BY DEF PrintComma, Advance
<1>4. PICK q : q = CommaPiece(more)
    OBVIOUS
<1>5. q = CommaPiece(NextItem # Null)
    BY <1>1, <1>4
<1>6. PieceFits(q) /\ Emit(q)
    BY <1>2, <1>3, <1>4, <1>5, Zenon
<1>. QED  BY <1>3, <1>6, EmitGoal

\* update_offset finds the zero that the piece before it wrote.
LEMMA OffsetBuffer ==
    ASSUME BufferInv, PiecesInv, update_offset
    PROVE  BufferInv' /\ PiecesInv'
<1>1. /\ position' = position + pending /\ pending' = 0
      /\ UNCHANGED <<length, ended, reach, pieces>>
      /\ printer' \in {"colon", "behind"}
    BY DEF update_offset, OffsetMoved, Goto
<1>2. BufferInv'
    BY <1>1 DEF BufferInv
<1>3. PiecesInv'
    BY <1>1 DEF PiecesInv
<1>. QED  BY <1>2, <1>3

LEMMA PrinterBuffer ==
    ASSUME Inv, WholeInv, WalkInv, BufferInv, PiecesInv, PrintGoesOn
    PROVE  BufferInv' /\ PiecesInv'
<1>1. at = "print" /\ PrinterStep
    BY DEF PrintGoesOn
<1>2. \A p \in Items(heap) : Printable(heap, p)
    BY <1>1, TreePrintable
<1>3. CASE NewBuffer
    <2>1. /\ length' = DefaultSize /\ UNCHANGED <<position, pending, ended, reach, pieces>>
          /\ printer = "buffer" /\ printer' = "value"
        BY <1>3 DEF NewBuffer, Goto
    <2>2. reach = 0
        BY <2>1 DEF BufferInv
    <2>3. BufferInv'
        BY <2>1, <2>2, PrinterConstants DEF BufferInv
    <2>4. PiecesInv'
        BY <2>1 DEF PiecesInv
    <2>. QED  BY <2>3, <2>4
<1>4. CASE NewBufferFails \/ CutFails \/ PieceFails
    <2>1. /\ UNCHANGED <<length, position, pending, ended, reach, pieces>>
          /\ printer' = "fail"
        BY <1>4 DEF NewBufferFails, CutFails, PieceFails, EmitFails, Goto, bufferVars
    <2>. QED  BY <2>1, BufferSame
<1>5. CASE CutBuffer \/ PrintFails
    <2>1. Forgotten /\ pieces' = <<>> /\ printer' = "done"
        BY <1>5 DEF CutBuffer, PrintFails
    <2>. QED  BY <2>1, BufferForgotten
<1>6. CASE VisitElement \/ LastElement
    <2>1. /\ UNCHANGED <<length, position, pending, ended, reach, pieces>>
          /\ printer' \in {"value", "key", "each"}
        BY <1>6 DEF VisitElement, LastElement, Visit, Advance, bufferVars
    <2>. QED  BY <2>1, BufferSame
<1>7. CASE PrintScalar \/ PrintOpen \/ PrintClose \/ PrintIndent \/ PrintKey
           \/ PrintColon \/ PrintComma \/ update_offset
    BY <1>2, <1>7, ScalarBuffer, OpenBuffer, CloseBuffer, IndentBuffer, KeyBuffer,
       ColonBuffer, CommaBuffer, OffsetBuffer
<1>. QED  BY <1>1, <1>3, <1>4, <1>5, <1>6, <1>7 DEF PrinterStep

LEMMA BufferGoesOn ==
    ASSUME Inv, WholeInv, WalkInv, BufferInv, PiecesInv, [Next]_vars
    PROVE  BufferInv' /\ PiecesInv'
<1>1. CASE PrintGoesOn
    BY <1>1, PrinterBuffer
<1>2. CASE UNCHANGED vars
    <2>1. UNCHANGED <<printer, length, position, pending, ended, reach, pieces>>
        BY <1>2 DEF vars, printerVars, bufferVars
    <2>. QED  BY <2>1 DEF BufferInv, PiecesInv
<1>3. CASE StartPrint
    <2>1. /\ UNCHANGED <<length, position, pending, ended, reach, pieces>>
          /\ printer' = "buffer" /\ at # "print"
        BY <1>3 DEF StartPrint, BeginPrint, bufferVars
    <2>2. printer = "idle"
        BY <2>1 DEF Inv, Places, ControlInv
    <2>. QED  BY <2>1, <2>2, BufferSame
<1>4. CASE PrintEnds \/ FromJsonEnds
    <2>1. /\ UNCHANGED <<length, position, pending, ended, reach, pieces>>
          /\ printer' = "idle" /\ printer = "done"
        BY <1>4 DEF PrintEnds, FromJsonEnds, KeepPrinter, Forget
    <2>. QED  BY <2>1, BufferSame
<1>5. CASE \/ Call \/ DispatchAnswers \/ SchemeAnswers \/ NothingToParse
           \/ CopyParams \/ ParamsNotCopied \/ Parse \/ ParseEnds
           \/ NoTree \/ ReturnTree \/ MaxConcurrent \/ CallerFrees \/ ComesBack
    <2>1. UNCHANGED <<printer, length, position, pending, ended, reach, pieces>>
        BY <1>5 DEF Call, DispatchAnswers, SchemeAnswers, NothingToParse,
            CopyParams, ParamsNotCopied, Parse, ParseEnds, NoTree, ReturnTree,
            MaxConcurrent, CallerFrees, ComesBack, CallerHasFreed, printerVars,
            bufferVars
    <2>. QED  BY <2>1 DEF BufferInv, PiecesInv
<1>. QED  BY <1>1, <1>2, <1>3, <1>4, <1>5 DEF Next, CallStep

LEMMA WholeOver ==
    ASSUME Texts(heap'), parser' = "idle", at' \in {"idle", "called", "returned"}
    PROVE  WholeInv'
BY DEF WholeInv

\* Outside the parser nothing is unfinished.
LEMMA WholeCalm ==
    ASSUME Inv, WholeInv, root # Null, parser \in {"idle", "done"},
           at \in {"parse", "parsed", "print"}
    PROVE  /\ frames = <<>> /\ Tidy(heap, <<>>, {}, {})
           /\ Sound(heap, Tops, PairsOf(<<>>))
<1>1. frames = <<>>
    BY DEF Inv, Places, ControlInv, RootInv
<1>2. OwnersOf(<<>>) = {}
    BY DEF OwnersOf
<1>3. Unfinished = {} /\ Naming = {}
    BY <1>1, <1>2 DEF Unfinished, Naming
<1>4. Tidy(heap, frames, Unfinished, Naming)
    BY DEF WholeInv
<1>5. Sound(heap, Tops, PairsOf(frames))
    BY DEF Inv, Blocks, MemoryInv
<1>. QED  BY <1>1, <1>3, <1>4, <1>5, Zenon

LEMMA WholeCalmNext ==
    ASSUME Texts(heap'), parser' = "idle", frames' = <<>>,
           root' # Null => Tidy(heap', <<>>, {}, {})
    PROVE  WholeInv'
<1>1. OwnersOf(<<>>) = {}
    BY DEF OwnersOf
<1>2. Unfinished' = {} /\ Naming' = {}
    BY <1>1 DEF Unfinished, Naming
<1>3. root' # Null => Tidy(heap', frames', Unfinished', Naming')
    BY <1>2, Zenon
<1>. QED  BY <1>3 DEF WholeInv

LEMMA PrintWhole ==
    ASSUME Inv, WholeInv, PiecesInv, PrintGoesOn PROVE WholeInv'
<1>1. /\ at = "print" /\ PrinterStep /\ root' = root /\ parser' = parser
      /\ frames' = frames
    BY DEF PrintGoesOn, parserVars
<1>2. parser = "idle" /\ root # Null /\ Texts(heap)
    BY <1>1 DEF Inv, Places, ControlInv, RootInv, WholeInv
<1>3. /\ frames = <<>> /\ Tidy(heap, <<>>, {}, {})
      /\ Sound(heap, Tops, PairsOf(<<>>))
    BY <1>1, <1>2, WholeCalm
<1>4. Typed(heap) /\ DOMAIN heap = Live /\ Fresh \notin Live
    BY InvFacts DEF Inv, Blocks
<1>5. buffer # Null => IsBytes(heap, buffer)
    BY DEF Inv, Blocks, KindsInv
<1>6. /\ Texts(heap') /\ Items(heap') = Items(heap)
      /\ \A q \in Items(heap) : heap'[q] = heap[q]
    <2>1. CASE NewBufferMade
        <3>1. PICK n : n = Fresh
            OBVIOUS
        <3>2. heap' = Added(heap, n, Bytes(<<>>)) /\ n \notin DOMAIN heap
            BY <1>4, <2>1, <3>1, WithAdds DEF NewBufferMade
        <3>3. Texts(heap')
            BY <1>2, <3>2, EmptySequence, BytesTexts
        <3>4. Bytes(<<>>).block # "item"
            BY DEF Bytes
        <3>. QED  BY <3>2, <3>3, <3>4 DEF Added, Items
    <2>2. CASE BufferDropped
        <3>1. heap' = Rest(heap, {buffer})
            BY <2>2, WithoutRests DEF BufferDropped
        <3>2. Texts(heap')
            BY <1>2, <3>1, TextsRest
        <3>3. buffer \notin Items(heap)
            BY <1>4, <1>5, FieldTypes DEF IsBytes
        <3>. QED  BY <3>1, <3>2, <3>3 DEF Rest, Items
    <2>3. CASE BufferCut
        <3>1. /\ heap' = [heap EXCEPT ![buffer].bytes = Printed]
              /\ buffer # Null
            BY <2>3 DEF BufferCut, Inv, Places, ControlInv
        <3>2. IsBytes(heap, buffer)
            BY <1>5, <3>1
        <3>3. buffer \in DOMAIN heap /\ buffer \notin Items(heap)
            BY <3>2 DEF IsBytes
        <3>4. IsText(heap[buffer])
            BY <1>2, <3>3 DEF Texts
        <3>5. PICK P : P = Printed
            OBVIOUS
        <3>6. IsSequence(P)
            BY <3>5, PrintedIsText
        <3>7. /\ DOMAIN heap' = DOMAIN heap
              /\ \A q \in DOMAIN heap : q # buffer => heap'[q] = heap[q]
              /\ heap'[buffer] = [heap[buffer] EXCEPT !.bytes = P]
            BY <3>1, <3>3, <3>5
        <3>8. /\ DOMAIN heap'[buffer] = DOMAIN heap[buffer]
              /\ heap'[buffer].bytes = P
              /\ heap'[buffer].block = heap[buffer].block
            BY <3>4, <3>7 DEF IsText
        <3>9. IsText(heap'[buffer])
            BY <3>4, <3>6, <3>8 DEF IsText
        <3>10. Items(heap') = Items(heap)
            BY <3>7, <3>8 DEF Items
        <3>11. Texts(heap')
            BY <1>2, <3>7, <3>9, <3>10 DEF Texts
        <3>12. \A q \in Items(heap) : q \in DOMAIN heap
            BY DEF Items
        <3>. QED  BY <3>3, <3>7, <3>10, <3>11, <3>12
    <2>4. CASE BufferKept
        BY <1>2, <2>4 DEF BufferKept
    <2>. QED  BY <1>1, <2>1, <2>2, <2>3, <2>4, PrinterMoves
<1>7. Tidy(heap', <<>>, {}, {})
    BY <1>3, <1>6, TidySame
<1>. QED  BY <1>1, <1>2, <1>3, <1>6, <1>7, WholeCalmNext

LEMMA FromJsonWhole ==
    ASSUME Inv, WholeInv, FromJsonEnds PROVE WholeInv'
<1>1. /\ at = "print" /\ at' = "returned" /\ parser' = parser
    BY DEF FromJsonEnds, Return, parserVars
<1>2. parser = "idle" /\ Texts(heap)
    BY <1>1 DEF Inv, Places, ControlInv, WholeInv
<1>3. DOMAIN heap = Live /\ Fresh \notin Live
    BY InvFacts DEF Inv, Blocks
<1>4. CASE heap' = [q \in (Live \cup {Fresh}) \ {buffer} |->
                        IF q = Fresh THEN heap[buffer] ELSE heap[q]] /\ buffer # Null
    <2>1. IsBytes(heap, buffer)
        BY <1>4 DEF Inv, Blocks, KindsInv
    <2>2. IsText(heap[buffer])
        BY <1>2, <2>1 DEF IsBytes, Texts
    <2>3. PICK n : n = Fresh
        OBVIOUS
    <2>4. PICK G : G = heap'
        OBVIOUS
    <2>5. /\ DOMAIN G = (Live \cup {n}) \ {buffer}
          /\ \A q \in DOMAIN G : G[q] = IF q = n THEN heap[buffer] ELSE heap[q]
        BY <1>4, <2>3, <2>4
    <2>6. ASSUME NEW q \in DOMAIN G, q \notin Items(G) PROVE IsText(G[q])
        <3>1. CASE q = n
            BY <2>2, <2>5, <3>1
        <3>2. CASE q # n
            <4>1. q \in DOMAIN heap /\ G[q] = heap[q]
                BY <1>3, <2>5, <3>2
            <4>2. q \notin Items(heap)
                BY <2>6, <4>1 DEF Items
            <4>. QED  BY <1>2, <4>1, <4>2 DEF Texts
        <3>. QED  BY <3>1, <3>2
    <2>7. Texts(heap')
        BY <2>4, <2>6 DEF Texts
    <2>. QED  BY <1>1, <1>2, <2>7, WholeOver
<1>5. CASE heap' = Without({buffer})
    <2>1. Texts(heap')
        BY <1>2, <1>5, WithoutRests, TextsRest
    <2>. QED  BY <1>1, <1>2, <2>1, WholeOver
<1>6. CASE heap' = heap
    BY <1>1, <1>2, <1>6, WholeOver
<1>. QED  BY <1>4, <1>5, <1>6 DEF FromJsonEnds, heapVars

LEMMA ParseEndsWhole ==
    ASSUME Inv, WholeInv, ParseEnds PROVE WholeInv'
<1>1. /\ at = "parse" /\ parser = "done" /\ heap' = Without({raw})
      /\ parser' = "idle" /\ frames' = frames /\ root' = root
    BY DEF ParseEnds
<1>2. frames = <<>> /\ Texts(heap) /\ raw # Null
    BY <1>1 DEF Inv, Places, ControlInv, RootInv, WholeInv
<1>3. IsBytes(heap, raw)
    BY <1>2 DEF Inv, Blocks, KindsInv
<1>4. heap' = Rest(heap, {raw})
    BY <1>1, WithoutRests
<1>5. Texts(heap')
    BY <1>2, <1>4, TextsRest
<1>6. /\ Items(heap') = Items(heap)
      /\ \A q \in Items(heap) : heap'[q] = heap[q]
    <2>1. raw \notin Items(heap)
        BY <1>3 DEF IsBytes
    <2>. QED  BY <1>4, <2>1 DEF Rest, Items
<1>7. root' # Null => Tidy(heap', <<>>, {}, {})
    <2>1. ASSUME root # Null PROVE Tidy(heap', <<>>, {}, {})
        <3>1. Tidy(heap, <<>>, {}, {}) /\ Sound(heap, Tops, PairsOf(<<>>))
            BY <1>1, <2>1, WholeCalm
        <3>. QED  BY <1>6, <3>1, TidySame
    <2>. QED  BY <1>1, <2>1
<1>. QED  BY <1>1, <1>2, <1>5, <1>7, WholeCalmNext

LEMMA CallsWhole ==
    ASSUME Inv, Inv', TextInv, WholeInv,
           \/ Call \/ DispatchAnswers \/ SchemeAnswers \/ NothingToParse
           \/ ParamsNotCopied \/ NoTree \/ ReturnTree \/ StartPrint \/ CopyParams
           \/ MaxConcurrent \/ PrintEnds \/ CallerFrees \/ ComesBack
    PROVE  WholeInv'
<1>1. Texts(heap)
    BY DEF WholeInv
<1>2. CASE \/ Call \/ DispatchAnswers \/ SchemeAnswers \/ NothingToParse
           \/ ParamsNotCopied \/ NoTree \/ ReturnTree
    <2>1. heap' = heap /\ at' \in {"called", "returned"}
        BY <1>2 DEF Call, DispatchAnswers, SchemeAnswers, NothingToParse,
            ParamsNotCopied, NoTree, ReturnTree, Return, heapVars
    <2>2. parser' = "idle"
        BY <2>1 DEF Inv, Places, ControlInv
    <2>. QED  BY <1>1, <2>1, <2>2, WholeOver
<1>3. CASE StartPrint
    <2>1. /\ at = "parsed" /\ root # Null /\ heap' = heap /\ root' = root
          /\ parser' = parser /\ frames' = frames
        BY <1>3 DEF StartPrint, heapVars, parserVars
    <2>2. parser = "idle"
        BY <2>1 DEF Inv, Places, ControlInv
    <2>3. frames = <<>> /\ Tidy(heap, <<>>, {}, {})
        BY <2>1, <2>2, WholeCalm
    <2>. QED  BY <1>1, <2>1, <2>2, <2>3, WholeCalmNext
<1>4. CASE CopyParams
    <2>1. /\ heap' = With(Fresh, Bytes(call.params))
          /\ parser' = "root" /\ root' = Null
        BY <1>4 DEF CopyParams, BeginParse
    <2>2. IsSequence(call.params)
        BY DEF TextInv
    <2>3. PICK b : b = call.params
        OBVIOUS
    <2>4. PICK n : n = Fresh
        OBVIOUS
    <2>5. heap' = Added(heap, n, Bytes(b))
        BY <2>1, <2>3, <2>4, WithAdds
    <2>6. Texts(heap')
        BY <1>1, <2>2, <2>3, <2>5, BytesTexts
    <2>. QED  BY <2>1, <2>6 DEF WholeInv
<1>5. CASE MaxConcurrent \/ PrintEnds \/ CallerFrees \/ ComesBack
    <2>1. /\ at' \in {"idle", "called", "returned"}
          /\ \E D : heap' = Without(D)
        BY <1>5 DEF MaxConcurrent, PrintEnds, CallerFrees, ComesBack,
            CallerHasFreed, Return
    <2>2. Texts(heap')
        BY <1>1, <2>1, WithoutRests, TextsRest
    <2>3. parser' = "idle"
        BY <2>1 DEF Inv, Places, ControlInv
    <2>. QED  BY <2>1, <2>2, <2>3, WholeOver
<1>. QED  BY <1>2, <1>3, <1>4, <1>5

LEMMA WholeGoesOn ==
    ASSUME Inv, Inv', StringInv, TextInv, WholeInv, PiecesInv, [Next]_vars
    PROVE  WholeInv'
<1>1. CASE UNCHANGED vars
    <2>1. UNCHANGED <<heap, root, parser, frames, item, at>>
        BY <1>1 DEF vars, parserVars, heapVars
    <2>2. Unfinished' = Unfinished /\ Naming' = Naming
        BY <2>1 DEF Unfinished, Naming, OwnersOf
    <2>3. Tidy(heap, frames, Unfinished, Naming) =>
              Tidy(heap', frames', Unfinished', Naming')
        BY <2>1, <2>2, Zenon
    <2>4. Top' = Top
        BY <2>1 DEF Top, depth
    <2>. QED  BY <2>1, <2>3, <2>4 DEF WholeInv
<1>. QED  BY <1>1, CallsWhole, ParseWhole, ParseEndsWhole, PrintWhole, FromJsonWhole
          DEF Next, CallStep

LEMMA TextsOfCalls ==
    ASSUME NEW c \in Calls PROVE IsSequence(c.params)
BY ParamsAreTexts DEF IsSequence

LEMMA TextOver ==
    ASSUME parser' \notin {"element", "string", "name"}, offset' = 0, frames' = <<>>,
           IsSequence(text'), IsSequence(call.params')
    PROVE  TextInv'
<1>1. PICK n \in Nat : n = Len(text')
    BY SequenceLength
<1>2. Len(frames') <= NestingLimit
    <2>1. Len(<<>>) <= NestingLimit
        BY NestingLimitNatural
    <2>. QED  BY <2>1
<1>3. offset' \in 0..Len(text')
    BY <1>1
<1>. QED  BY <1>2, <1>3 DEF TextInv

LEMMA TextSame ==
    ASSUME TextInv, UNCHANGED <<text, offset, frames>>,
           parser' = parser \/ parser' = "idle",
           IsSequence(call.params')
    PROVE  TextInv'
BY DEF TextInv

LEMMA TextGoesOn ==
    ASSUME Inv, WholeInv, TextInv, [Next]_vars PROVE TextInv'
<1>1. IsSequence(call.params) /\ IsSequence(text)
    BY DEF TextInv
<1>2. CASE UNCHANGED vars
    BY <1>1, <1>2, TextSame DEF vars, parserVars
<1>3. CASE Call
    <2>1. UNCHANGED <<text, offset, frames, parser>> /\ call' \in Calls
        BY <1>3 DEF Call, parserVars
    <2>2. IsSequence(call'.params)
        BY <2>1, TextsOfCalls
    <2>. QED  BY <2>1, <2>2, TextSame
<1>4. CASE \/ DispatchAnswers \/ SchemeAnswers \/ NothingToParse \/ ParamsNotCopied
           \/ ParseEnds \/ NoTree \/ ReturnTree \/ MaxConcurrent \/ StartPrint
           \/ PrintGoesOn \/ PrintEnds \/ FromJsonEnds
    <2>1. /\ UNCHANGED <<text, offset, frames, call>>
          /\ parser' = parser \/ parser' = "idle"
        BY <1>4 DEF DispatchAnswers, SchemeAnswers, NothingToParse, ParamsNotCopied,
            ParseEnds, NoTree, ReturnTree, MaxConcurrent, StartPrint, PrintGoesOn,
            PrintEnds, FromJsonEnds, parserVars
    <2>. QED  BY <1>1, <2>1, TextSame
<1>5. CASE CopyParams
    <2>1. /\ parser' = "root" /\ text' = call.params /\ offset' = 0
          /\ frames' = <<>> /\ call' = call
        BY <1>5 DEF CopyParams, BeginParse
    <2>. QED  BY <1>1, <2>1, TextOver
<1>6. CASE Parse
    <2>1. ParserStep /\ call' = call
        BY <1>6 DEF Parse
    <2>2. frames \in Seq(Frame) /\ (parser = "element" => frames # <<>>)
        BY DEF Inv, Places, RootInv
    <2>3. TextMoves
        BY <2>1, <2>2, TextSteps
    <2>. QED  BY <1>1, <2>1, <2>3 DEF TextMoves, TextInv
<1>7. CASE CallerFrees \/ ComesBack
    <2>1. /\ parser' = "idle" /\ text' = <<>> /\ offset' = 0 /\ frames' = <<>>
        BY <1>7 DEF CallerFrees, ComesBack, CallerHasFreed, ParserForgotten
    <2>2. IsSequence(text')
        BY <2>1, EmptySequence
    <2>3. IsSequence(call'.params)
        <3>1. CASE CallerFrees
            <4>1. call'.params = <<>>
                BY <3>1 DEF CallerFrees, NoCall
            <4>. QED  BY <4>1, EmptySequence
        <3>2. CASE ComesBack
            <4>1. call'.params = Text /\ Text # <<>> /\ at = "returned"
                BY <3>2 DEF ComesBack, CallerHasFreed
            <4>2. result # Null /\ call.op \in Printers /\ Text = heap[result].bytes
                BY <4>1 DEF Text
            <4>3. IsBytes(heap, result)
                BY <4>1, <4>2 DEF Inv, Blocks, KindsInv, Given
            <4>4. IsText(heap[result])
                BY <4>3 DEF WholeInv, Texts, IsBytes
            <4>. QED  BY <4>1, <4>2, <4>4 DEF IsText
        <3>. QED  BY <1>7, <3>1, <3>2
    <2>. QED  BY <2>1, <2>2, <2>3, TextOver
<1>. QED  BY <1>2, <1>3, <1>4, <1>5, <1>6, <1>7 DEF Next, CallStep

-----------------------------------------------------------------------------
(***************************************************************************)
(* Types, and the printer's buffer                                         *)
(***************************************************************************)

\* The whole of what holds of the calls.
FullInv == /\ Inv /\ StringInv /\ TextInv /\ WholeInv
           /\ WalkInv /\ BufferInv /\ PiecesInv

LEMMA FullStarts == Init => FullInv
<1>. SUFFICES ASSUME Init PROVE FullInv
    OBVIOUS
<1>1. Inv
    BY InvStarts
<1>2. /\ heap = <<>> /\ at = "idle" /\ call = NoCall /\ root = Null
      /\ parser = "idle" /\ text = <<>> /\ offset = 0 /\ frames = <<>>
      /\ printer = "idle" /\ walk = <<>> /\ pieces = <<>>
      /\ length = 0 /\ position = 0 /\ pending = 0 /\ reach = 0
    BY DEF Init, ParserInit, PrinterInit
<1>3. StringInv
    BY DEF Init, ParserInit, StringInit, StringInv, StringTyped, IsSequence
<1>4. TextInv
    <2>1. IsSequence(call.params)
        BY <1>2, EmptySequence DEF NoCall
    <2>2. IsSequence(text)
        BY <1>2, EmptySequence
    <2>3. Len(<<>>) = 0 /\ 0 \in 0..0 /\ 0 <= NestingLimit
        BY NestingLimitNatural
    <2>. QED  BY <1>2, <2>1, <2>2, <2>3 DEF TextInv
<1>5. WholeInv
    <2>1. DOMAIN heap = {}
        BY <1>2
    <2>2. Texts(heap)
        BY <2>1 DEF Texts
    <2>. QED  BY <1>2, <2>2 DEF WholeInv
<1>6. WalkInv
    BY <1>2 DEF WalkInv, Walking
<1>7. BufferInv
    BY <1>2, PrinterConstants DEF BufferInv
<1>8. PiecesInv
    <2>1. IsSequence(pieces) /\ Len(pieces) = 0
        BY <1>2, EmptySequence
    <2>. QED  BY <2>1 DEF PiecesInv
<1>. QED  BY <1>1, <1>3, <1>4, <1>5, <1>6, <1>7, <1>8 DEF FullInv

LEMMA FullGoesOn == FullInv /\ [Next]_vars => FullInv'
<1>. SUFFICES ASSUME FullInv, [Next]_vars PROVE FullInv'
    OBVIOUS
<1>1. /\ Inv /\ StringInv /\ TextInv /\ WholeInv
      /\ WalkInv /\ BufferInv /\ PiecesInv
    BY DEF FullInv
<1>2. Inv'
    BY <1>1, InvGoesOn
<1>3. StringInv'
    BY <1>1, StringMoves, StringStepInv, StringSet
<1>4. TextInv'
    BY <1>1, TextGoesOn
<1>5. WholeInv'
    BY <1>1, <1>2, WholeGoesOn
<1>6. WalkInv'
    BY <1>1, WalkGoesOn
<1>7. BufferInv' /\ PiecesInv'
    BY <1>1, BufferGoesOn
<1>. QED  BY <1>2, <1>3, <1>4, <1>5, <1>6, <1>7 DEF FullInv

LEMMA TypeOKHolds == ASSUME FullInv PROVE TypeOK
<1>1. /\ Inv /\ TextInv /\ BufferInv
    BY DEF FullInv
<1>2. /\ at \in {"idle", "called", "parse", "parsed", "print", "returned"}
      /\ offset \in 0..Len(text) /\ depth <= NestingLimit /\ length <= PrintMax
    BY <1>1 DEF Inv, Places, ControlInv, TextInv, BufferInv, depth
<1>3. Typed(heap) /\ DOMAIN heap = Live /\ Tops \subseteq Live
    BY <1>1, InvFacts DEF Inv, Blocks
<1>4. \A p \in {root, raw, output, buffer} : p = Null \/ p \in Live
    BY <1>3 DEF Tops
<1>5. \A p \in Live : heap[p].block \in {"item", "bytes"}
    BY <1>3 DEF Typed
<1>6. root # Null => IsItem(root)
    <2>1. root # Null => root \in Items(heap)
        BY <1>1 DEF Inv, Blocks, KindsInv
    <2>. QED  BY <1>3, <2>1 DEF Items, IsItem
<1>7. ASSUME NEW i \in 1..Len(frames)
      PROVE  IsItem(frames[i].owner) /\ frames[i].head \in Live \cup {Null}
    <2>1. Stacked(heap, frames, root)
        BY <1>1 DEF Inv, Blocks, StackInv
    <2>2. frames[i].owner \in Items(heap)
        BY <2>1 DEF Stacked
    <2>3. frames[i].head \in HeadsOf(frames)
        BY DEF HeadsOf
    <2>4. frames[i].head = Null \/ frames[i].head \in Live
        BY <1>3, <2>3 DEF Tops
    <2>. QED  BY <1>3, <2>2, <2>4 DEF Items, IsItem
<1>. QED  BY <1>2, <1>4, <1>5, <1>6, <1>7 DEF TypeOK

LEMMA BufferSafeHolds == ASSUME FullInv PROVE BufferSafe
BY DEF FullInv, BufferInv, BufferSafe

\* Every place lies in its text or its buffer and every pointer leads to a
\* live block of its kind, however many calls are made and whatever fails in
\* them (openaic_params_* of openaic.c over cJSON.c).
THEOREM PointersAndPlaces == Spec => []TypeOK
<1>1. Spec => []FullInv
    BY FullStarts, FullGoesOn, PTL DEF Spec
<1>2. FullInv => TypeOK
    BY TypeOKHolds
<1>. QED  BY <1>1, <1>2, PTL

\* print never writes past its buffer, and update_offset always finds a zero
\* in it: for every tree that parsing can make, formatted or not, and however
\* often ensure lets the buffer grow (cJSON.c: ensure, update_offset).
THEOREM PrintsInside == Spec => []BufferSafe
<1>1. Spec => []FullInv
    BY FullStarts, FullGoesOn, PTL DEF Spec
<1>2. FullInv => BufferSafe
    BY BufferSafeHolds
<1>. QED  BY <1>1, <1>2, PTL
=============================================================================
