--------------------------- MODULE AicConfigProofs ----------------------------
(***************************************************************************)
(* Proofs about the configuration of the extension, for sections and AICs  *)
(* of any size, whatever allocations fail.                                 *)
(***************************************************************************)
EXTENDS AicConfig, FiniteSetTheorems, TLAPS

IsSequence(s) == \E S : s \in Seq(S)

LEMMA EmptySequence == IsSequence(<<>>) /\ Len(<<>>) = 0
<1>1. <<>> \in Seq({})
    OBVIOUS
<1>. QED  BY <1>1 DEF IsSequence

LEMMA AppendSequence ==
    ASSUME NEW s, IsSequence(s), NEW x
    PROVE  /\ IsSequence(Append(s, x))
           /\ Len(s) \in Nat /\ Len(Append(s, x)) = Len(s) + 1
           /\ \A i \in 1..Len(s) : Append(s, x)[i] = s[i]
           /\ Append(s, x)[Len(s) + 1] = x
<1>1. PICK S : s \in Seq(S)
    BY DEF IsSequence
<1>2. PICK T : T = S \cup {x}
    OBVIOUS
<1>3. s \in Seq(T) /\ x \in T
    BY <1>1, <1>2
<1>4. Append(s, x) \in Seq(T)
    BY <1>3
<1>. QED  BY <1>3, <1>4 DEF IsSequence

LEMMA ConcatSequence ==
    ASSUME NEW s, IsSequence(s), NEW t, IsSequence(t)
    PROVE  /\ IsSequence(s \o t)
           /\ Len(s) \in Nat /\ Len(t) \in Nat
           /\ Len(s \o t) = Len(s) + Len(t)
           /\ \A i \in 1..Len(s) : (s \o t)[i] = s[i]
           /\ \A i \in 1..Len(t) : (s \o t)[Len(s) + i] = t[i]
<1>1. PICK S : s \in Seq(S)
    BY DEF IsSequence
<1>2. PICK T : t \in Seq(T)
    BY DEF IsSequence
<1>3. PICK U : U = S \cup T
    OBVIOUS
<1>4. s \in Seq(U) /\ t \in Seq(U)
    BY <1>1, <1>2, <1>3
<1>5. s \o t \in Seq(U)
    BY <1>4
<1>. QED  BY <1>4, <1>5 DEF IsSequence

\* A fingerprint may have characters outside of the alphabet.
IsBytes(b) == b \in Seq(0..255)
IsCharacters(c) == c \in Seq(-1..63)

LEMMA Lengths ==
    ASSUME NEW s, IsBytes(s) \/ IsCharacters(s)
    PROVE  Len(s) \in Nat
BY DEF IsBytes, IsCharacters

LEMMA ElementOf ==
    ASSUME NEW S, NEW s \in Seq(S), NEW i \in 1..Len(s)
    PROVE  s[i] \in S
OBVIOUS

LEMMA GroupIsInt ==
    ASSUME NEW a \in 0..255, NEW b \in 0..255, NEW c \in 0..255
    PROVE  /\ a * 65536 \in Int /\ a * 65536 + b * 256 \in Int
           /\ a * 65536 + b * 256 + c \in Int
BY SMT

-----------------------------------------------------------------------------
(***************************************************************************)
(* The codec                                                               *)
(***************************************************************************)

\* A buffer holds eight bits for every eight that were read, or four
\* characters for every three bytes.
LoopInv ==
    /\ IsSequence(built) /\ acc \in Int
    /\ codec \in {"decode", "decoded", "filling"} => IsBytes(built)
    /\ codec \in {"encode", "encoded"} => built \in Seq(0..63)
    /\ pos \in Nat /\ room \in Nat /\ bits \in {0, 2, 4, 6}
    /\ codec = "decode" =>
          /\ pos <= Len(Characters)
          /\ room = DecodedRoom(Len(Characters))
          /\ 8 * Len(built) + bits = 6 * pos
    /\ codec = "encode" =>
          /\ pos <= Len(Bytes)
          /\ room = EncodedLen(Len(Bytes)) + 1
          /\ 3 * Len(built) = 4 * pos
          /\ pos % 3 = 0
    /\ CodecFits

Uid(u) == u = [version |-> u.version, realm |-> u.realm,
               identifier |-> u.identifier, keyHash |-> u.keyHash,
               hashAlgo |-> u.hashAlgo]

\* What is read has characters, what is written has bytes.
TextInv ==
    /\ Len(string) = 3 => IsCharacters(Characters)
    /\ codec = "answered" /\ "pu" \in pointers => IsBytes(Bytes)
    /\ codec \in {"read", "decode"} => Len(string) = 3
    /\ codec \in {"write", "encode"} => IsBytes(Bytes)
    /\ codec = "filled" => Uid(uid) /\ IsBytes(Bytes)

\* A pointer that is not NULL holds a block, but for the decoded hash between
\* its release and the end of the call.
PointersInv ==
    /\ pointers \subseteq held \cup {"fp"}
    /\ "fp" \in pointers \ held =>
          codec = "filled" \/ (codec = "err" /\ "pu" \in held)
    /\ codec \in {"filling", "filled"} => "pu" \in held
    /\ "pu" \in pointers => codec \in {"filling", "filled", "err", "answered"}
    /\ freedTwice \in BOOLEAN /\ starved \in BOOLEAN

CodecInv == LoopInv /\ TextInv /\ PointersInv

ReadPlaces == {"read", "decode", "decoded", "filling", "filled", "err", "answered"}
WritePlaces == {"write", "encode", "encoded", "answered"}

\* What no step of the codec does to the rest.
CodecOnly ==
    /\ codec \notin {"idle", "answered"} /\ codec' # "idle"
    /\ held' \subseteq held \cup {"fp", "pu", "text"}
    /\ held \subseteq held' \cup {"fp", "pu"}
    /\ freedTwice' => freedTwice \/ (Err /\ "pu" \in held)
    /\ starved => starved'
    /\ codec \in ReadPlaces => codec' \in ReadPlaces
    /\ codec \in WritePlaces =>
          codec' \in WritePlaces /\ ("pu" \in pointers' => "pu" \in pointers)

LEMMA EightBits ==
    ASSUME NEW v \in Int, NEW n \in {0, 2, 4}
    PROVE  Field(v, n, 8) \in 0..255
<1>1. CASE n = 0
    <2>1. Field(v, 0, 8) = (v \div 1) % 256
        BY DEF Field
    <2>. QED  BY <1>1, <2>1
<1>2. CASE n = 2
    <2>1. Field(v, 2, 8) = (v \div 4) % 256
        BY DEF Field
    <2>. QED  BY <1>2, <2>1
<1>3. CASE n = 4
    <2>1. Field(v, 4, 8) = (v \div 16) % 256
        BY DEF Field
    <2>. QED  BY <1>3, <2>1
<1>. QED  BY <1>1, <1>2, <1>3

LEMMA SixBits ==
    ASSUME NEW v \in Int, NEW n \in {0, 6, 12, 18}
    PROVE  Field(v, n, 6) \in 0..63
<1>1. CASE n = 0
    <2>1. Field(v, 0, 6) = (v \div 1) % 64
        BY DEF Field
    <2>. QED  BY <1>1, <2>1
<1>2. CASE n = 6
    <2>1. Field(v, 6, 6) = (v \div 64) % 64
        BY DEF Field
    <2>. QED  BY <1>2, <2>1
<1>3. CASE n = 12
    <2>1. Field(v, 12, 6) = (v \div 4096) % 64
        BY DEF Field
    <2>. QED  BY <1>3, <2>1
<1>4. CASE n = 18
    <2>1. Field(v, 18, 6) = (v \div 262144) % 64
        BY DEF Field
    <2>. QED  BY <1>4, <2>1
<1>. QED  BY <1>1, <1>2, <1>3, <1>4

LEMMA SextetsSequence ==
    ASSUME NEW v \in Int, NEW n \in 0..4
    PROVE  /\ Sextets(v, n) \in Seq(0..63) /\ Len(Sextets(v, n)) = n
           /\ \A k \in 1..n : Sextets(v, n)[k] = Field(v, 24 - 6 * k, 6)
<1>1. ASSUME NEW k \in 1..n PROVE Field(v, 24 - 6 * k, 6) \in 0..63
    <2>1. 24 - 6 * k \in {0, 6, 12, 18}
        OBVIOUS
    <2>. QED  BY <2>1, SixBits
<1>2. Sextets(v, n) \in [1..n -> 0..63]
    BY <1>1 DEF Sextets
<1>. QED  BY <1>2 DEF Sextets
LEMMA SextetsAppended ==
    ASSUME NEW s \in Seq(0..63), NEW v \in Int, NEW n \in 0..4
    PROVE  /\ s \o Sextets(v, n) \in Seq(0..63) /\ IsSequence(s \o Sextets(v, n))
           /\ Len(s) \in Nat /\ Len(s \o Sextets(v, n)) = Len(s) + n
           /\ \A k \in 1..Len(s) : (s \o Sextets(v, n))[k] = s[k]
           /\ \A k \in 1..n :
                 (s \o Sextets(v, n))[Len(s) + k] = Field(v, 24 - 6 * k, 6)
<1>1. PICK t \in Seq(0..63) : t = Sextets(v, n)
    BY SextetsSequence
<1>2. Len(t) = n /\ \A k \in 1..n : t[k] = Field(v, 24 - 6 * k, 6)
    BY <1>1, SextetsSequence
<1>3. /\ s \o t \in Seq(0..63) /\ Len(s) \in Nat /\ Len(s \o t) = Len(s) + n
      /\ \A k \in 1..Len(s) : (s \o t)[k] = s[k]
      /\ \A k \in 1..n : (s \o t)[Len(s) + k] = t[k]
    BY <1>2
<1>. QED  BY <1>1, <1>2, <1>3 DEF IsSequence

LEMMA DecodedRoomFits ==
    ASSUME NEW n \in Nat, NEW b \in Nat, 8 * b <= 6 * n
    PROVE  b <= DecodedRoom(n) /\ DecodedRoom(n) \in Nat
BY DEF DecodedRoom

LEMMA EncodedRoomFits ==
    ASSUME NEW n \in Nat, NEW p \in Nat, NEW b \in Nat,
           p <= n, p % 3 = 0, 3 * b = 4 * p
    PROVE  /\ b <= EncodedLen(n) /\ EncodedLen(n) \in Nat
           /\ n <= p + 2 =>
                 /\ n % 3 = 1 => b + 2 <= EncodedLen(n)
                 /\ n % 3 = 2 => b + 3 <= EncodedLen(n)
                 /\ n % 3 \in {0, 1, 2}
BY DEF EncodedLen

LEMMA GroupStep ==
    ASSUME NEW p \in Nat, NEW b \in Nat, 3 * b = 4 * p, p % 3 = 0,
           NEW n \in Nat, p + 2 < n
    PROVE  /\ p + 3 \in Nat /\ b + 4 \in Nat
           /\ 3 * (b + 4) = 4 * (p + 3) /\ (p + 3) % 3 = 0 /\ p + 3 <= n
OBVIOUS

LEMMA LastGroup ==
    ASSUME NEW p \in Nat, NEW n \in Nat, p % 3 = 0, p <= n, n <= p + 2
    PROVE  /\ n % 3 # 0 => p + 1 \in 1..n
           /\ n % 3 = 2 => p + 2 \in 1..n
OBVIOUS

LEMMA LoopKept ==
    ASSUME LoopInv, KeepLoop,
           codec' \notin {"decode", "encode", "decoded", "filling", "encoded"}
    PROVE  LoopInv'
BY DEF LoopInv, KeepLoop, CodecFits

LEMMA LoopStarts ==
    ASSUME NEW n \in Nat, NewBuffer(n)
    PROVE  /\ IsSequence(built') /\ IsBytes(built') /\ built' \in Seq(0..63)
           /\ Len(built') = 0
           /\ pos' = 0 /\ room' = n /\ bits' = 0 /\ acc' = 0
<1>1. <<>> \in Seq(0..255) /\ <<>> \in Seq(0..63)
    OBVIOUS
<1>. QED  BY <1>1, EmptySequence DEF NewBuffer, IsBytes

LEMMA CodecLoop ==
    ASSUME CodecInv, CodecStep
    PROVE  LoopInv'
<1>. USE DEF CodecInv, Goto
<1>1. CASE NewDecoded
    <2>1. PICK n \in Nat : n = Len(Characters)
        BY <1>1, Lengths DEF NewDecoded, TextInv
    <2>2. DecodedRoom(n) \in Nat /\ 0 <= DecodedRoom(n)
        BY DecodedRoomFits
    <2>3. /\ IsSequence(built') /\ IsBytes(built') /\ Len(built') = 0
          /\ pos' = 0 /\ room' = DecodedRoom(n) /\ bits' = 0 /\ acc' \in Int
        BY <1>1, <2>1, <2>2, LoopStarts DEF NewDecoded
    <2>4. codec' = "decode" /\ Len(Characters)' = n
        BY <1>1, <2>1 DEF NewDecoded, Characters
    <2>. QED  BY <2>1, <2>2, <2>3, <2>4 DEF LoopInv, CodecFits
<1>2. CASE DecodeChar
    <2>1. PICK n \in Nat : n = Len(Characters)
        BY <1>2, Lengths DEF DecodeChar, Decoding, TextInv
    <2>2. /\ codec = "decode" /\ codec' = "decode" /\ room' = room
          /\ Len(Characters)' = n /\ pos < n /\ pos' = pos + 1
          /\ bits' = BitsLeft
        BY <1>2, <2>1 DEF DecodeChar, Decoding, Characters
    <2>3. IsSequence(built) /\ Len(built) \in Nat
        BY AppendSequence DEF LoopInv
    <2>4. /\ IsSequence(built')
          /\ Len(built') = IF bits + 6 >= 8 THEN Len(built) + 1 ELSE Len(built)
        BY <1>2, <2>3, AppendSequence DEF DecodeChar
    <2>5. 8 * Len(built') + bits' = 6 * pos' /\ bits' \in {0, 2, 4, 6}
        BY <2>2, <2>3, <2>4 DEF LoopInv, BitsLeft
    <2>6. Len(built') \in Nat /\ pos' \in Nat
        BY <2>2, <2>3, <2>4 DEF LoopInv
    <2>7. 8 * Len(built') <= 6 * n
        BY <2>1, <2>2, <2>5, <2>6 DEF LoopInv
    <2>8. Len(built') <= DecodedRoom(n)
        BY <2>6, <2>7, DecodedRoomFits
    <2>9. acc' \in Int
        <3>1. Characters[pos + 1] \in Int
            <4>1. IsCharacters(Characters) /\ pos + 1 \in 1..Len(Characters)
                BY <2>1, <2>2 DEF TextInv, LoopInv
            <4>2. Characters[pos + 1] \in -1..63
                BY <4>1, ElementOf DEF IsCharacters
            <4>. QED  BY <4>2
        <3>2. 64 * acc + Characters[pos + 1] \in Int
            BY <3>1 DEF LoopInv
        <3>3. 2 * (IntMax + 1) \in Nat \ {0}
            BY ExtensionConstants
        <3>4. ASSUME NEW x \in Int, NEW m \in Nat \ {0} PROVE x % m \in Int
            BY <3>4
        <3>. QED  BY <1>2, <3>2, <3>3, <3>4 DEF DecodeChar, Shifted
    <2>10. IsBytes(built')
        <3>1. built \in Seq(0..255)
            BY <2>2 DEF LoopInv, IsBytes
        <3>2. CASE bits + 6 >= 8
            <4>1. bits - 2 \in {0, 2, 4}
                BY <3>2 DEF LoopInv
            <4>2. PICK x \in 0..255 : x = Field(acc', bits - 2, 8)
                BY <2>9, <4>1, EightBits
            <4>. QED  BY <1>2, <3>1, <3>2, <4>2 DEF DecodeChar, IsBytes
        <3>3. CASE ~(bits + 6 >= 8)
            BY <1>2, <3>1, <3>3 DEF DecodeChar, IsBytes
        <3>. QED  BY <3>2, <3>3
    <2>. QED
        BY <2>1, <2>2, <2>4, <2>5, <2>6, <2>8, <2>9, <2>10 DEF LoopInv, CodecFits
<1>3. CASE DecodeEnds
    <2>1. CASE ~PaddingIsZero
        BY <1>3, <2>1, LoopKept DEF DecodeEnds, Refuse
    <2>2. CASE PaddingIsZero
        <3>1. KeepLoop /\ codec = "decode" /\ codec' \in {"decoded", "err"}
            BY <1>3, <2>2 DEF DecodeEnds
        <3>. QED  BY <3>1 DEF LoopInv, CodecFits, KeepLoop
    <2>. QED  BY <2>1, <2>2
<1>4. CASE NewUid
    BY <1>4 DEF NewUid, LoopInv, CodecFits, KeepLoop
<1>5. CASE NewEncoded
    <2>1. PICK n \in Nat : n = Len(Bytes)
        BY <1>5, Lengths DEF NewEncoded, TextInv
    <2>2. EncodedLen(n) \in Nat /\ EncodedLen(n) + 1 \in Nat /\ 0 % 3 = 0
        BY DEF EncodedLen
    <2>3. /\ IsSequence(built') /\ built' \in Seq(0..63) /\ Len(built') = 0
          /\ pos' = 0 /\ room' = EncodedLen(n) + 1 /\ bits' = 0 /\ acc' \in Int
        BY <1>5, <2>1, <2>2, LoopStarts DEF NewEncoded
    <2>4. codec' = "encode" /\ Len(Bytes)' = n
        BY <1>5, <2>1 DEF NewEncoded, Bytes
    <2>. QED  BY <2>1, <2>2, <2>3, <2>4 DEF LoopInv, CodecFits
<1>6. CASE EncodeGroup
    <2>1. PICK n \in Nat : n = Len(Bytes)
        BY <1>6, Lengths DEF EncodeGroup, TextInv
    <2>2. /\ codec = "encode" /\ codec' = "encode" /\ room' = room /\ acc' = acc
          /\ Len(Bytes)' = n /\ pos + 2 < n /\ pos' = pos + 3 /\ bits' = bits
        BY <1>6, <2>1 DEF EncodeGroup, Bytes
    <2>3. PICK v \in Int : built' = built \o Sextets(v, 4)
        <3>1. IsBytes(Bytes)
            BY <2>2 DEF TextInv
        <3>2. pos + 1 \in 1..n /\ pos + 2 \in 1..n /\ pos + 3 \in 1..n
            BY <2>2 DEF LoopInv
        <3>3. /\ Bytes[pos + 1] \in 0..255 /\ Bytes[pos + 2] \in 0..255
              /\ Bytes[pos + 3] \in 0..255
            BY <2>1, <3>1, <3>2, ElementOf DEF IsBytes
        <3>4. PICK v : v = Bytes[pos + 1] * 65536 + Bytes[pos + 2] * 256 + Bytes[pos + 3]
            OBVIOUS
        <3>5. v \in Int
            BY <3>3, <3>4, SMT
        <3>6. built' = built \o Sextets(v, 4)
            BY <1>6, <3>4, SMT DEF EncodeGroup
        <3>. QED  BY <3>5, <3>6
    <2>4. built \in Seq(0..63)
        BY <2>2 DEF LoopInv
    <2>5. /\ built' \in Seq(0..63) /\ IsSequence(built')
          /\ Len(built) \in Nat /\ Len(built') = Len(built) + 4
        BY <2>3, <2>4, SextetsAppended
    <2>6. /\ pos' \in Nat /\ Len(built') \in Nat
          /\ 3 * Len(built') = 4 * pos' /\ pos' % 3 = 0 /\ pos' <= n
        <3>1. pos \in Nat /\ 3 * Len(built) = 4 * pos /\ pos % 3 = 0
            BY <2>2 DEF LoopInv
        <3>. QED  BY <2>1, <2>2, <2>5, <3>1, GroupStep
    <2>7. Len(built') <= EncodedLen(n) /\ EncodedLen(n) \in Nat
        BY <2>6, EncodedRoomFits
    <2>. QED  BY <2>1, <2>2, <2>5, <2>6, <2>7 DEF LoopInv, CodecFits
<1>7. CASE EncodeEnds
    <2>1. PICK n \in Nat : n = Len(Bytes)
        BY <1>7, Lengths DEF EncodeEnds, TextInv
    <2>2. /\ codec = "encode" /\ codec' = "encoded"
          /\ n <= pos + 2 /\ pos <= n /\ pos % 3 = 0 /\ 3 * Len(built) = 4 * pos
          /\ room = EncodedLen(n) + 1 /\ UNCHANGED <<pos, acc, bits, room>>
        BY <1>7, <2>1 DEF EncodeEnds, LoopInv
    <2>3. built \in Seq(0..63) /\ Len(built) \in Nat
        BY <2>2 DEF LoopInv
    <2>4. /\ n % 3 = 1 => Len(built) + 2 <= EncodedLen(n)
          /\ n % 3 = 2 => Len(built) + 3 <= EncodedLen(n)
          /\ Len(built) <= EncodedLen(n) /\ EncodedLen(n) \in Nat
          /\ n % 3 \in {0, 1, 2}
        BY <2>1, <2>2, <2>3, EncodedRoomFits DEF LoopInv
    <2>5. /\ n % 3 # 0 => Bytes[pos + 1] \in 0..255
          /\ n % 3 = 2 => Bytes[pos + 2] \in 0..255
        <3>1. IsBytes(Bytes)
            BY <2>2 DEF TextInv
        <3>2. /\ n % 3 # 0 => pos + 1 \in 1..n
              /\ n % 3 = 2 => pos + 2 \in 1..n
            <4>1. pos \in Nat
                BY DEF LoopInv
            <4>. QED  BY <2>1, <2>2, <4>1, LastGroup
        <3>. QED  BY <2>1, <3>1, <3>2, ElementOf DEF IsBytes
    <2>6. CASE n % 3 = 0
        <3>1. LastSextets = <<>>
            BY <2>1, <2>6, SMT DEF LastSextets
        <3>2. built' = built
            BY <1>7, <2>3, <3>1 DEF EncodeEnds
        <3>. QED  BY <2>1, <2>2, <2>3, <2>4, <3>2 DEF LoopInv, CodecFits
    <2>7. CASE n % 3 = 1
        <3>1. PICK v : v = Bytes[pos + 1] * 65536
            OBVIOUS
        <3>2. v \in Int
            BY <2>5, <2>7, <3>1, SMT
        <3>3. LastSextets = Sextets(v, 2)
            BY <2>1, <2>7, <3>1, SMT DEF LastSextets
        <3>4. built' = built \o Sextets(v, 2)
            BY <1>7, <3>3 DEF EncodeEnds
        <3>5. /\ built' \in Seq(0..63) /\ IsSequence(built')
              /\ Len(built') = Len(built) + 2
            BY <2>3, <3>2, <3>4, SextetsAppended
        <3>. QED  BY <2>1, <2>2, <2>3, <2>4, <2>7, <3>5 DEF LoopInv, CodecFits
    <2>8. CASE n % 3 = 2
        <3>1. PICK v : v = Bytes[pos + 1] * 65536 + Bytes[pos + 2] * 256
            OBVIOUS
        <3>2. v \in Int
            BY <2>5, <2>8, <3>1, SMT
        <3>3. LastSextets = Sextets(v, 3)
            BY <2>1, <2>8, <3>1, SMT DEF LastSextets
        <3>4. built' = built \o Sextets(v, 3)
            BY <1>7, <3>3 DEF EncodeEnds
        <3>5. /\ built' \in Seq(0..63) /\ IsSequence(built')
              /\ Len(built') = Len(built) + 3
            BY <2>3, <3>2, <3>4, SextetsAppended
        <3>6. Len(built') + 1 <= room'
            <4>1. Len(built') <= EncodedLen(n)
                BY <2>3, <2>4, <2>8, <3>5
            <4>2. room' = EncodedLen(n) + 1 /\ EncodedLen(n) \in Nat
                BY <2>2, <2>4
            <4>3. Len(built') \in Nat
                BY <2>3, <3>5
            <4>. QED  BY <4>1, <4>2, <4>3
        <3>. QED  BY <2>2, <3>5, <3>6 DEF LoopInv, CodecFits
    <2>. QED  BY <2>4, <2>6, <2>7, <2>8
<1>8. CASE BadChar \/ FillUid \/ SetHashAlgo \/ Err \/ Join \/ CodecFails
    BY <1>8, LoopKept DEF BadChar, Refuse, FillUid, SetHashAlgo, Err, Join,
       CodecFails, NewDecodedFails, NewUidFails, FillUidFails, SetHashAlgoFails,
       NewEncodedFails, JoinFails, StarvesToErr, WriteFails
<1>. QED  BY <1>1, <1>2, <1>3, <1>4, <1>5, <1>6, <1>7, <1>8 DEF CodecStep

LEMMA CodecText ==
    ASSUME CodecInv, CodecStep
    PROVE  TextInv'
<1>. USE DEF CodecInv, TextInv, Goto, Characters, Bytes
<1>1. CASE FillUid
    <2>1. Uid(uid') /\ uid'.keyHash.id = built /\ IsBytes(built)
        BY <1>1 DEF FillUid, LoopInv, Uid, AIC_PRINCIPALUID_new
    <2>2. codec' = "filled" /\ string' = string /\ IsBytes(uid'.keyHash.id)
        BY <1>1, <2>1 DEF FillUid
    <2>. QED  BY <2>1, <2>2
<1>2. CASE SetHashAlgo
    <2>1. uid'.keyHash = uid.keyHash
        BY <1>2 DEF SetHashAlgo, Uid
    <2>2. codec = "filled" /\ codec' = "answered" /\ string' = string
        BY <1>2 DEF SetHashAlgo
    <2>3. IsBytes(uid'.keyHash.id)
        BY <2>1, <2>2
    <2>. QED  BY <2>2, <2>3
<1>3. CASE Join
    <2>1. Len(string') = 3 /\ string'[3].id = built /\ IsCharacters(built)
        <3>1. built \in Seq(0..63) /\ 0..63 \subseteq -1..63
            BY <1>3 DEF Join, LoopInv
        <3>2. IsCharacters(built)
            BY <3>1 DEF IsCharacters
        <3>. QED  BY <1>3, <3>2 DEF Join
    <2>2. codec' = "answered" /\ uid' = uid /\ codec = "encoded"
          /\ "pu" \notin pointers'
        BY <1>3 DEF Join, HandsOver, PointersInv
    <2>. QED  BY <2>1, <2>2
<1>4. CASE NewDecoded \/ DecodeChar \/ BadChar \/ DecodeEnds \/ NewUid \/ Err
    <2>1. /\ codec \in {"read", "decode", "decoded", "err"}
          /\ codec' \in {"decode", "decoded", "filling", "err", "answered"}
          /\ codec' = "decode" => codec \in {"read", "decode"}
          /\ codec' = "answered" => "pu" \notin pointers'
          /\ string' = string
        <3>1. CASE NewDecoded
            BY <3>1 DEF NewDecoded
        <3>2. CASE DecodeChar
            BY <3>2 DEF DecodeChar, Decoding
        <3>3. CASE BadChar
            BY <3>3 DEF BadChar, Decoding, Refuse
        <3>4. CASE DecodeEnds
            BY <3>4 DEF DecodeEnds, Refuse
        <3>5. CASE NewUid
            BY <3>5 DEF NewUid
        <3>6. CASE Err
            BY <3>6 DEF Err, Frees
        <3>. QED  BY <1>4, <3>1, <3>2, <3>3, <3>4, <3>5, <3>6
    <2>2. /\ Len(string') = 3 => IsCharacters(string'[3].id)
          /\ codec' = "decode" => Len(string') = 3
        BY <2>1
    <2>. QED  BY <2>1, <2>2
<1>5. CASE NewEncoded \/ EncodeGroup \/ EncodeEnds
    <2>1. /\ codec \in {"write", "encode"} /\ codec' \in {"encode", "encoded"}
          /\ UNCHANGED <<string, uid>>
        <3>1. CASE NewEncoded
            BY <3>1 DEF NewEncoded
        <3>2. CASE EncodeGroup
            BY <3>2 DEF EncodeGroup
        <3>3. CASE EncodeEnds
            BY <3>3 DEF EncodeEnds
        <3>. QED  BY <1>5, <3>1, <3>2, <3>3
    <2>2. /\ Len(string') = 3 => IsCharacters(string'[3].id)
          /\ IsBytes(uid'.keyHash.id)
        BY <2>1
    <2>. QED  BY <2>1, <2>2
<1>6. CASE CodecFails
    <2>1. /\ codec' \in {"err", "answered"} /\ UNCHANGED <<string, uid>>
          /\ codec' = "answered" => "pu" \notin pointers'
        <3>1. CASE NewDecodedFails \/ NewUidFails \/ SetHashAlgoFails
            BY <3>1 DEF NewDecodedFails, NewUidFails, SetHashAlgoFails, StarvesToErr
        <3>2. CASE FillUidFails
            BY <3>2 DEF FillUidFails, Frees
        <3>3. CASE NewEncodedFails \/ JoinFails
            BY <3>3 DEF NewEncodedFails, JoinFails, WriteFails, Frees, PointersInv
        <3>. QED  BY <1>6, <3>1, <3>2, <3>3 DEF CodecFails
    <2>2. Len(string') = 3 => IsCharacters(string'[3].id)
        BY <2>1
    <2>. QED  BY <2>1, <2>2
<1>. QED  BY <1>1, <1>2, <1>3, <1>4, <1>5, <1>6 DEF CodecStep

LEMMA CodecPointers ==
    ASSUME CodecInv, CodecStep
    PROVE  PointersInv' /\ CodecOnly
<1>. USE DEF CodecInv, PointersInv, CodecOnly, Goto, ReadPlaces, WritePlaces
<1>1. CASE NewDecoded
    BY <1>1 DEF NewDecoded, Allocates, Err
<1>2. CASE DecodeChar
    BY <1>2 DEF DecodeChar, Decoding, ownershipVars, Err
<1>3. CASE BadChar
    BY <1>3 DEF BadChar, Refuse, Decoding, Frees, NotReturned, Err
<1>4. CASE DecodeEnds
    BY <1>4 DEF DecodeEnds, Refuse, Frees, NotReturned, ownershipVars, Err
<1>5. CASE NewUid
    BY <1>5 DEF NewUid, Allocates, Err
<1>6. CASE FillUid
    BY <1>6 DEF FillUid, Frees, Err
<1>7. CASE SetHashAlgo
    BY <1>7 DEF SetHashAlgo, Frees, Err
<1>8. CASE Err
    BY <1>8 DEF Err, Frees
<1>9. CASE NewEncoded \/ Join
    BY <1>9 DEF NewEncoded, Join, Allocates, HandsOver, Err
<1>10. CASE EncodeGroup \/ EncodeEnds
    BY <1>10 DEF EncodeGroup, EncodeEnds, ownershipVars, Err
<1>11. CASE NewDecodedFails \/ NewUidFails \/ SetHashAlgoFails
    <2>1. /\ codec \in {"read", "decoded", "filled"} /\ codec' = "err"
          /\ UNCHANGED <<held, pointers, freedTwice>> /\ starved' = TRUE
        BY <1>11 DEF NewDecodedFails, NewUidFails, SetHashAlgoFails,
           StarvesToErr, Starves
    <2>. QED  BY <2>1
<1>12. CASE FillUidFails
    BY <1>12 DEF FillUidFails, Starves, Frees, Err
<1>13. CASE NewEncodedFails \/ JoinFails
    BY <1>13 DEF NewEncodedFails, JoinFails, WriteFails, Starves, Frees, Err
<1>. QED
    BY <1>1, <1>2, <1>3, <1>4, <1>5, <1>6, <1>7, <1>8, <1>9, <1>10, <1>11,
       <1>12, <1>13 DEF CodecStep, CodecFails

-----------------------------------------------------------------------------
(***************************************************************************)
(* The two calls                                                           *)
(***************************************************************************)

V2iPlaces == {"new", "line", "uid", "der", "names", "parameters",
              "decoded parameters", "push"}
CapPlaces == {"names", "parameters", "decoded parameters", "push"}
I2vPlaces == {"version", "agentId", "add agentId", "principalUid",
              "add principalUid", "mode", "scheme", "id", "room",
              "add capability", "reason", "add reason", "nonce", "add nonce",
              "listed"}
Blocks == {"aic", "cap", "pbuf", "buf", "pu", "fp"} \cup Locals

\* Where the call is, and what it holds there.
ControlInv ==
    /\ at \in {"idle", "returned"} \cup V2iPlaces \cup I2vPlaces
    /\ call \in {"none", "section", "certificate", "made", "listed"}
    /\ at \in V2iPlaces => call \in {"section", "listed"}
    /\ at \in I2vPlaces => call \in {"certificate", "made"}
    /\ codec # "idle" =>
          \/ at \in {"uid", "add principalUid"}
          \/ /\ at = "returned" /\ codec = "answered" /\ result = NULL
             /\ call = "made" => starved
    /\ held \subseteq Blocks
    /\ at \in V2iPlaces \ {"new"} => "aic" \in held
    /\ at \in CapPlaces => "cap" \in held
    /\ at = "uid" => codec \in ReadPlaces
    /\ at = "add principalUid" => codec \in WritePlaces /\ "pu" \notin pointers

\* Which line or capability it is at.
LineInv ==
    /\ line \in Nat
    /\ at \in V2iPlaces \ {"new"} => line # 0
    /\ at \in {"uid", "der"} \cup CapPlaces => line <= Len(section)
    /\ at \in {"scheme", "id", "room", "add capability"} => line # 0
    /\ at \in {"id", "room", "add capability"} => line <= Len(Listed)

IsCap(c) ==
    /\ c.schemeId.len \in Nat /\ c.capabilityId.len \in Nat
    /\ c.parameters # NULL => c.parameters.len \in Nat

AreCaps(s) == IsSequence(s) /\ \A i \in 1..Len(s) : IsCap(s[i])

IsLine(l) ==
    /\ Len(l.value) \in Nat
    /\ l.name = "principalUid" /\ Len(l.value) = 3 => IsCharacters(l.value[3].id)
    /\ l.name \in {"capability", "authorizationConstraint"} =>
          Len(l.value) # 0 /\ \A i \in 1..Len(l.value) : l.value[i].len \in Nat

AreLines(s) == IsSequence(s) /\ \A i \in 1..Len(s) : IsLine(s[i])

\* An AIC that is made: a key hash that is not empty has bytes.
IsAic(a) ==
    /\ a = [version |-> a.version, agentId |-> a.agentId,
            principalUid |-> a.principalUid, capabilities |-> a.capabilities,
            delegationMode |-> a.delegationMode,
            authorizationConstraints |-> a.authorizationConstraints,
            delegationAuthorization |-> a.delegationAuthorization]
    /\ AreCaps(a.capabilities) /\ AreCaps(Entries(a.authorizationConstraints))
    /\ a.principalUid.keyHash.len # 0 =>
          IsBytes(a.principalUid.keyHash.id)

\* An AIC that can be listed.
IsListable(a) ==
    /\ AreCaps(a.capabilities) /\ AreCaps(Entries(a.authorizationConstraints))
    /\ IsBytes(a.principalUid.keyHash.id)

NewCap(c) ==
    /\ c = [schemeId |-> c.schemeId, capabilityId |-> c.capabilityId,
            parameters |-> c.parameters]
    /\ IsCap(c)

DataInv ==
    /\ AreLines(section)
    /\ AreLines(list)
    /\ at \in V2iPlaces \ {"new"} => IsAic(aic)
    /\ at \in CapPlaces =>
          /\ NewCap(cap)
          /\ Name \in {"capability", "authorizationConstraint"}
          /\ Name # "capability" => AreCaps(aic.authorizationConstraints)
    /\ at \in {"parameters", "decoded parameters"} => Len(Value) = 3
    /\ at \in I2vPlaces => IsListable(aic)
    /\ at = "returned" /\ call = "section" /\ result # NULL => IsListable(result)

Inv == CodecInv /\ ControlInv /\ LineInv /\ DataInv

\* What every step of the calls themselves does to the memory: nothing is
\* freed twice.
Clean ==
    /\ pointers' \subseteq held' /\ held' \subseteq Blocks
    /\ freedTwice' \in BOOLEAN /\ starved' \in BOOLEAN
    /\ freedTwice' => freedTwice
    /\ "pu" \in pointers' => "pu" \in pointers

\* The codec is not running.
LEMMA AtRest ==
    ASSUME Inv, at \notin {"uid", "add principalUid"} \/ codec = "answered"
    PROVE  codec \in {"idle", "answered"} /\ pointers \subseteq held
BY DEF Inv, ControlInv, CodecInv, PointersInv

LEMMA FreesClean ==
    ASSUME pointers \subseteq held, held \subseteq Blocks, freedTwice \in BOOLEAN,
           NEW xs, NEW locals, Frees(xs, locals), xs \cap pointers \subseteq locals,
           starved' \in BOOLEAN
    PROVE  Clean
BY DEF Frees, Clean

LEMMA AllocatesClean ==
    ASSUME pointers \subseteq held, held \subseteq Blocks, freedTwice \in BOOLEAN,
           starved \in BOOLEAN, NEW x \in Blocks \ {"pu"}, Allocates(x)
    PROVE  Clean
BY DEF Allocates, Clean

LEMMA KeptClean ==
    ASSUME pointers \subseteq held, held \subseteq Blocks, freedTwice \in BOOLEAN,
           starved \in BOOLEAN, UNCHANGED <<held, pointers, freedTwice>>,
           starved' \in BOOLEAN
    PROVE  Clean
BY DEF Clean

LEMMA V2iClean ==
    ASSUME Inv, V2iStep
    PROVE  Clean
<1>1. /\ pointers \subseteq held /\ held \subseteq Blocks
      /\ freedTwice \in BOOLEAN /\ starved \in BOOLEAN
    <2>1. at \notin {"uid", "add principalUid"} \/ codec = "answered"
        BY DEF V2iStep, NewAic, NewAicFails, AgentId, PrincipalUid,
           PrincipalUidRead, PrincipalUidRefused, DelegationMode, Version,
           VersionRefused, SettingFails, DelegationAuth, DelegationAuthRefused,
           DelegationAuthRead, DelegationAuthNotRead, OtherLine, Validate,
           NewCapability, NewCapabilityFails, SetNames, NamesFail,
           DecodeParameters, ParametersRefused, SetParameters, ParametersFail,
           PushCapability, PushFails, AtLine, Capability
    <2>. QED  BY <2>1, AtRest DEF Inv, ControlInv, CodecInv, PointersInv
<1>2. CASE NewAic \/ DelegationAuth \/ NewCapability \/ DecodeParameters
    BY <1>1, <1>2, AllocatesClean DEF NewAic, DelegationAuth, NewCapability,
       DecodeParameters, Blocks
<1>3. CASE \/ AgentId \/ PrincipalUid \/ DelegationMode \/ Version \/ OtherLine
           \/ SetNames
    BY <1>1, <1>3, KeptClean DEF AgentId, PrincipalUid, DelegationMode, Version,
       OtherLine, SetNames, KeepMemory, ownershipVars
<1>4. ASSUME V2iFails, starved' \in BOOLEAN PROVE Clean
    BY <1>1, <1>4, FreesClean DEF V2iFails
<1>5. CASE \/ NewAicFails \/ PrincipalUidRefused \/ VersionRefused
           \/ SettingFails \/ DelegationAuthRefused \/ NewCapabilityFails
    <2>1. OutOfMemory \/ Rejected
        BY <1>5 DEF NewAicFails, PrincipalUidRefused, VersionRefused,
           SettingFails, DelegationAuthRefused, NewCapabilityFails
    <2>. QED  BY <1>1, <1>4, <2>1 DEF OutOfMemory, Rejected, Starves
<1>6. CASE PrincipalUidRead \/ PushCapability
    BY <1>1, <1>6 DEF PrincipalUidRead, PushCapability, HandsOver, Clean
<1>7. CASE DelegationAuthRead
    BY <1>1, <1>7, FreesClean DEF DelegationAuthRead
<1>8. CASE DelegationAuthNotRead
    BY <1>1, <1>8, FreesClean DEF DelegationAuthNotRead, Starves
<1>9. CASE Validate
    <2>1. Rejected \/ KeepMemory
        BY <1>9 DEF Validate
    <2>. QED  BY <1>1, <1>4, <2>1, KeptClean DEF Rejected, KeepMemory, ownershipVars
<1>10. CASE SetParameters
    BY <1>1, <1>10, FreesClean DEF SetParameters
<1>11. ASSUME NEW others, CapabilityFails(others), others \subseteq {"pbuf"},
              starved' \in BOOLEAN
       PROVE  Clean
    <2>1. ({"cap", "aic"} \cup others) \cap pointers \subseteq {"cap", "aic", "pbuf"}
        BY <1>11
    <2>. QED  BY <1>1, <1>11, <2>1, FreesClean DEF CapabilityFails
<1>12. CASE NamesFail \/ ParametersRefused \/ ParametersFail \/ PushFails
    BY <1>1, <1>11, <1>12 DEF NamesFail, ParametersRefused, ParametersFail,
       PushFails, FreesDecoded, Starves
<1>. QED  BY <1>2, <1>3, <1>5, <1>6, <1>7, <1>8, <1>9, <1>10, <1>12 DEF V2iStep

LEMMA I2vClean ==
    ASSUME Inv, I2vStep
    PROVE  Clean
<1>1. /\ pointers \subseteq held /\ held \subseteq Blocks
      /\ freedTwice \in BOOLEAN /\ starved \in BOOLEAN
    <2>1. at \notin {"uid", "add principalUid"} \/ codec = "answered"
        BY DEF I2vStep, ListVersion, CopyAgentId, ListAgentId, WriteUid,
           ListUid, ListMode, CopyScheme, SchemeNotCopied, CopyId, IdNotCopied,
           NewLine, ListCapability, CapabilitiesListed, CopyReason, ListReason,
           CopyNonce, ListNonce, AllListed, ListingFails, AtCapability
    <2>. QED  BY <2>1, AtRest DEF Inv, ControlInv, CodecInv, PointersInv
<1>2. CASE CopyAgentId \/ CopyScheme \/ CopyId \/ NewLine \/ CopyReason \/ CopyNonce
    <2>1. PICK x \in Locals : Allocates(x)
        BY <1>2 DEF CopyAgentId, CopyScheme, CopyId, NewLine, CopyReason,
           CopyNonce, Copies, Locals
    <2>. QED  BY <1>1, <2>1, AllocatesClean DEF Blocks, Locals
<1>3. CASE WriteUid \/ SchemeNotCopied \/ IdNotCopied \/ AllListed
    BY <1>1, <1>3, KeptClean DEF WriteUid, SchemeNotCopied, IdNotCopied,
       AllListed, NotCopied, Starves, KeepMemory, ownershipVars
<1>4. ASSUME NEW name, NEW value, NEW locals, Adds(name, value, locals)
      PROVE  Clean
    BY <1>1, <1>4, FreesClean DEF Adds
<1>5. CASE ListVersion \/ ListAgentId \/ ListUid \/ ListMode \/ ListCapability
           \/ ListReason \/ ListNonce
    BY <1>4, <1>5 DEF ListVersion, ListAgentId, ListUid, ListMode,
       ListCapability, ListReason, ListNonce
<1>6. CASE CapabilitiesListed
    <2>1. KeepMemory \/ \E value : Adds("delegationAuthorization", value, {})
        BY <1>6 DEF CapabilitiesListed
    <2>. QED  BY <1>1, <1>4, <2>1, KeptClean DEF KeepMemory, ownershipVars
<1>7. CASE ListingFails
    BY <1>1, <1>7, FreesClean DEF ListingFails, I2vFails, Starves
<1>. QED  BY <1>2, <1>3, <1>5, <1>6, <1>7 DEF I2vStep

Calls == CallV2i \/ CallI2v \/ ListResult \/ ReadAgain \/ CallerFrees

LEMMA CallsClean ==
    ASSUME Inv, Calls
    PROVE  Clean
<1>1. /\ pointers \subseteq held /\ held \subseteq Blocks
      /\ freedTwice \in BOOLEAN /\ starved \in BOOLEAN
    <2>1. at \notin {"uid", "add principalUid"}
        BY DEF Calls, CallV2i, CallI2v, ListResult, ReadAgain, CallerFrees
    <2>. QED  BY <2>1, AtRest DEF Inv, ControlInv, CodecInv, PointersInv
<1>2. CASE CallV2i \/ CallI2v \/ ListResult
    BY <1>1, <1>2, KeptClean DEF CallV2i, CallI2v, ListResult, Begins
<1>3. CASE ReadAgain
    BY <1>1, <1>3, FreesClean DEF ReadAgain
<1>4. CASE CallerFrees
    BY <1>4 DEF CallerFrees, Clean
<1>. QED  BY <1>2, <1>3, <1>4 DEF Calls

-----------------------------------------------------------------------------
\* The steps of the calls leave the loop of the codec alone.
LEMMA CodecKept ==
    ASSUME CodecInv, Clean,
           \/ KeepCodec
           \/ /\ codec' \in {"idle", "answered", "read", "write"} /\ KeepLoop
              /\ TextInv' /\ "pu" \notin pointers',
           codec \in {"idle", "answered"}
    PROVE  CodecInv'
<1>1. codec' \in {"idle", "answered", "read", "write"}
    BY DEF KeepCodec, codecVars
<1>2. LoopInv'
    BY <1>1, LoopKept DEF CodecInv, KeepCodec, codecVars, KeepLoop
<1>3. TextInv'
    BY DEF CodecInv, TextInv, KeepCodec, codecVars, Characters, Bytes, Clean
<1>4. PointersInv'
    <2>1. "pu" \in pointers' => codec' = "answered"
        BY DEF Clean, CodecInv, PointersInv, KeepCodec, codecVars
    <2>. QED  BY <1>1, <2>1 DEF Clean, PointersInv
<1>. QED  BY <1>2, <1>3, <1>4 DEF CodecInv

LEMMA V2iCodec ==
    ASSUME Inv, V2iStep
    PROVE  CodecInv'
<1>1. codec \in {"idle", "answered"} /\ CodecInv /\ Clean
    <2>1. at \notin {"uid", "add principalUid"} \/ codec = "answered"
        BY DEF V2iStep, NewAic, NewAicFails, AgentId, PrincipalUid,
           PrincipalUidRead, PrincipalUidRefused, DelegationMode, Version,
           VersionRefused, SettingFails, DelegationAuth, DelegationAuthRefused,
           DelegationAuthRead, DelegationAuthNotRead, OtherLine, Validate,
           NewCapability, NewCapabilityFails, SetNames, NamesFail,
           DecodeParameters, ParametersRefused, SetParameters, ParametersFail,
           PushCapability, PushFails, AtLine, Capability
    <2>. QED  BY <2>1, AtRest, V2iClean DEF Inv
<1>2. CASE PrincipalUid
    <2>1. IsLine(section[line]) /\ Name = "principalUid"
        BY <1>2 DEF PrincipalUid, AtLine, Inv, DataInv, AreLines, LineInv, V2iPlaces
    <2>2. /\ string' = Value /\ uid' = NULL /\ KeepLoop
          /\ codec' \in {"read", "answered"} /\ (codec' = "read" => Len(Value) = 3)
        BY <1>2 DEF PrincipalUid, FromString, Goto, Splits
    <2>3. "pu" \notin pointers'
        BY <1>2 DEF PrincipalUid, AtLine, KeepMemory, ownershipVars, Inv, ControlInv,
           CodecInv, PointersInv
    <2>4. Len(string') = 3 => IsCharacters(string'[3].id)
        BY <2>1, <2>2 DEF IsLine, Name, Value
    <2>5. TextInv'
        BY <2>2, <2>3, <2>4 DEF TextInv, Characters
    <2>. QED  BY <1>1, <2>2, <2>3, <2>5, CodecKept
<1>3. CASE PrincipalUidRead
    <2>1. codec' = "idle" /\ KeepLoop /\ UNCHANGED <<string, uid>>
        BY <1>3 DEF PrincipalUidRead, Goto
    <2>2. TextInv'
        BY <1>1, <2>1 DEF CodecInv, TextInv, Characters, Bytes
    <2>3. "pu" \notin pointers'
        BY <1>3 DEF PrincipalUidRead, HandsOver
    <2>. QED  BY <1>1, <2>1, <2>2, <2>3, CodecKept
<1>4. CASE KeepCodec
    BY <1>1, <1>4, CodecKept
<1>5. PrincipalUid \/ PrincipalUidRead \/ KeepCodec
    BY DEF V2iStep, NewAic, NewAicFails, AgentId,
       PrincipalUidRefused, DelegationMode, Version, VersionRefused,
       SettingFails, DelegationAuth, DelegationAuthRefused, DelegationAuthRead,
       DelegationAuthNotRead, OtherLine, Validate, NewCapability,
       NewCapabilityFails, SetNames, NamesFail, DecodeParameters,
       ParametersRefused, SetParameters, ParametersFail, PushCapability,
       PushFails, OutOfMemory, Rejected, V2iFails, CapabilityFails, Returns,
       KeepCodec
<1>. QED  BY <1>2, <1>3, <1>4, <1>5

LEMMA I2vCodec ==
    ASSUME Inv, I2vStep
    PROVE  CodecInv'
<1>1. codec \in {"idle", "answered"} /\ CodecInv /\ Clean
    <2>1. at \notin {"uid", "add principalUid"} \/ codec = "answered"
        BY DEF I2vStep, ListVersion, CopyAgentId, ListAgentId, WriteUid,
           ListUid, ListMode, CopyScheme, SchemeNotCopied, CopyId, IdNotCopied,
           NewLine, ListCapability, CapabilitiesListed, CopyReason, ListReason,
           CopyNonce, ListNonce, AllListed, ListingFails, AtCapability
    <2>. QED  BY <2>1, AtRest, I2vClean DEF Inv
<1>2. CASE WriteUid
    <2>1. IsListable(aic)
        BY <1>2 DEF WriteUid, Inv, DataInv, I2vPlaces
    <2>2. /\ string' = <<>> /\ uid' = aic.principalUid /\ KeepLoop
          /\ codec' = "write"
        BY <1>2 DEF WriteUid, ToText, Goto
    <2>3. TextInv'
        BY <2>1, <2>2 DEF TextInv, IsListable, Characters, Bytes
    <2>4. "pu" \notin pointers'
        BY <1>2 DEF WriteUid, KeepMemory, ownershipVars, Inv, ControlInv, CodecInv,
           PointersInv
    <2>. QED  BY <1>1, <2>2, <2>3, <2>4, CodecKept
<1>3. CASE ListUid
    <2>1. codec' = "idle" /\ KeepLoop /\ UNCHANGED <<string, uid>>
        BY <1>3 DEF ListUid, Goto
    <2>2. TextInv'
        BY <1>1, <2>1 DEF CodecInv, TextInv, Characters, Bytes
    <2>3. "pu" \notin pointers'
        BY <1>1, <1>3 DEF ListUid, Clean, Inv, ControlInv
    <2>. QED  BY <1>1, <2>1, <2>2, <2>3, CodecKept
<1>4. CASE KeepCodec
    BY <1>1, <1>4, CodecKept
<1>5. WriteUid \/ ListUid \/ KeepCodec
    BY DEF I2vStep, ListVersion, CopyAgentId, ListAgentId, ListMode, CopyScheme,
       SchemeNotCopied, CopyId, IdNotCopied, NewLine, ListCapability,
       CapabilitiesListed, CopyReason, ListReason, CopyNonce, ListNonce,
       AllListed, ListingFails, Copies, NotCopied, I2vFails, Returns, KeepCodec
<1>. QED  BY <1>2, <1>3, <1>4, <1>5

LEMMA CallsCodec ==
    ASSUME Inv, Calls
    PROVE  CodecInv'
<1>1. codec \in {"idle", "answered"} /\ CodecInv /\ Clean
    <2>1. at \notin {"uid", "add principalUid"}
        BY DEF Calls, CallV2i, CallI2v, ListResult, ReadAgain, CallerFrees
    <2>. QED  BY <2>1, AtRest, CallsClean DEF Inv
<1>2. CASE CallV2i \/ CallI2v \/ ListResult \/ ReadAgain
    <2>1. KeepCodec
        BY <1>2 DEF CallV2i, CallI2v, ListResult, ReadAgain, Begins, KeepCodec
    <2>. QED  BY <1>1, <2>1, CodecKept
<1>3. CASE CallerFrees
    <2>1. codec' = "idle" /\ string' = <<>> /\ uid' = NULL /\ NewBuffer(0)
        BY <1>3 DEF CallerFrees
    <2>2. LoopInv'
        BY <2>1, LoopStarts DEF LoopInv, CodecFits
    <2>3. TextInv'
        BY <2>1 DEF TextInv
    <2>4. PointersInv'
        BY <1>1, <1>3, <2>1 DEF CallerFrees, PointersInv, Clean
    <2>. QED  BY <2>2, <2>3, <2>4 DEF CodecInv
<1>. QED  BY <1>2, <1>3 DEF Calls

-----------------------------------------------------------------------------
\* The AIC and the capability under construction stay held until the call
\* returns.
LEMMA V2iControl ==
    ASSUME Inv, V2iStep
    PROVE  ControlInv'
<1>1. ControlInv /\ held' \subseteq Blocks
    BY V2iClean DEF Inv, Clean
<1>. USE DEF ControlInv, V2iPlaces, CapPlaces, I2vPlaces, Go
<1>2. CASE NewAic \/ DelegationAuth \/ NewCapability \/ DecodeParameters
    BY <1>1, <1>2 DEF NewAic, DelegationAuth, NewCapability, DecodeParameters,
       Capability, AtLine, Allocates, KeepConfig, KeepCodec, codecVars
<1>3. CASE AgentId \/ DelegationMode \/ Version \/ OtherLine
    BY <1>1, <1>3 DEF AgentId, DelegationMode, Version, OtherLine, AtLine,
       NextLine, KeepMemory, ownershipVars, KeepConfig, KeepCodec, codecVars
<1>4. CASE SetNames
    BY <1>1, <1>4 DEF SetNames, KeepMemory, ownershipVars, KeepConfig, KeepCodec,
       codecVars
<1>5. CASE PrincipalUid
    BY <1>1, <1>5 DEF PrincipalUid, AtLine, KeepMemory, ownershipVars, KeepConfig,
       FromString, Goto, ReadPlaces
<1>6. CASE PrincipalUidRead
    BY <1>1, <1>6 DEF PrincipalUidRead, NextLine, HandsOver, Goto, KeepConfig
<1>7. CASE PrincipalUidRefused
    BY <1>1, <1>7 DEF PrincipalUidRefused, Rejected, V2iFails, Returns, codecVars
<1>8. CASE DelegationAuthRead
    BY <1>1, <1>8 DEF DelegationAuthRead, NextLine, Frees, KeepConfig, KeepCodec,
       codecVars
<1>9. CASE SetParameters
    BY <1>1, <1>9 DEF SetParameters, Frees, KeepConfig, KeepCodec, codecVars
<1>10. CASE PushCapability
    BY <1>1, <1>10 DEF PushCapability, NextLine, HandsOver, KeepConfig, KeepCodec,
       codecVars
<1>11. ASSUME at \notin {"uid", "returned"}, at \in V2iPlaces,
              \E x : Returns(x)
       PROVE  ControlInv'
    BY <1>1, <1>11 DEF Returns, codecVars
<1>12. CASE Validate
    BY <1>11, <1>12 DEF Validate, Rejected, V2iFails
<1>13. CASE \/ NewAicFails \/ VersionRefused \/ SettingFails
            \/ DelegationAuthRefused \/ NewCapabilityFails
    BY <1>11, <1>13 DEF NewAicFails, VersionRefused, SettingFails, AtLine,
       DelegationAuthRefused, NewCapabilityFails, Capability, OutOfMemory,
       Rejected, V2iFails
<1>14. CASE \/ DelegationAuthNotRead \/ NamesFail \/ ParametersRefused
            \/ ParametersFail \/ PushFails
    BY <1>11, <1>14 DEF DelegationAuthNotRead, NamesFail, ParametersRefused,
       ParametersFail, PushFails, CapabilityFails
<1>. QED
    BY <1>2, <1>3, <1>4, <1>5, <1>6, <1>7, <1>8, <1>9, <1>10, <1>12, <1>13, <1>14
    DEF V2iStep

LEMMA I2vControl ==
    ASSUME Inv, I2vStep
    PROVE  ControlInv'
<1>1. ControlInv /\ held' \subseteq Blocks
    BY I2vClean DEF Inv, Clean
<1>. USE DEF ControlInv, V2iPlaces, CapPlaces, I2vPlaces, Go
<1>2. CASE CopyAgentId \/ CopyScheme \/ CopyId \/ NewLine \/ CopyReason \/ CopyNonce
    BY <1>1, <1>2 DEF CopyAgentId, CopyScheme, CopyId, NewLine, CopyReason,
       CopyNonce, Copies, AtCapability, KeepConfig, KeepCodec, codecVars
<1>3. CASE SchemeNotCopied \/ IdNotCopied
    BY <1>1, <1>3 DEF SchemeNotCopied, IdNotCopied, NotCopied, AtCapability,
       KeepConfig, KeepCodec, codecVars
<1>4. CASE ListVersion \/ ListAgentId \/ ListMode \/ ListReason \/ ListNonce
    BY <1>1, <1>4 DEF ListVersion, ListAgentId, ListMode, ListReason, ListNonce,
       Adds, KeepCodec, codecVars
<1>5. CASE ListCapability
    BY <1>1, <1>5 DEF ListCapability, Adds, KeepCodec, codecVars
<1>6. CASE WriteUid
    BY <1>1, <1>6 DEF WriteUid, KeepConfig, KeepMemory, ownershipVars, ToText,
       Goto, WritePlaces, Inv, CodecInv, PointersInv
<1>7. CASE ListUid
    BY <1>1, <1>7 DEF ListUid, Adds, Goto
<1>8. CASE CapabilitiesListed
    BY <1>1, <1>8 DEF CapabilitiesListed, Adds, Returns, KeepMemory,
       ownershipVars, KeepCodec, codecVars
<1>9. CASE AllListed
    BY <1>1, <1>9 DEF AllListed, Returns, KeepMemory, ownershipVars, codecVars
<1>10. CASE ListingFails
    BY <1>1, <1>10 DEF ListingFails, I2vFails, Starves, Returns, codecVars
<1>. QED
    BY <1>2, <1>3, <1>4, <1>5, <1>6, <1>7, <1>8, <1>9, <1>10 DEF I2vStep

LEMMA CallsControl ==
    ASSUME Inv, Calls
    PROVE  ControlInv'
<1>1. ControlInv /\ held' \subseteq Blocks
    BY CallsClean DEF Inv, Clean
<1>. USE DEF ControlInv, V2iPlaces, CapPlaces, I2vPlaces, Go
<1>2. CASE CallV2i \/ CallI2v \/ ListResult
    BY <1>1, <1>2 DEF CallV2i, CallI2v, ListResult, Begins, codecVars
<1>3. CASE ReadAgain
    BY <1>1, <1>3 DEF ReadAgain, codecVars
<1>4. CASE CallerFrees
    BY <1>1, <1>4 DEF CallerFrees
<1>. QED  BY <1>2, <1>3, <1>4 DEF Calls

LEMMA NextLineNumber ==
    /\ 0 \in Nat /\ 1 \in Nat \ {0}
    /\ \A n \in Nat : n + 1 \in Nat \ {0}
OBVIOUS

LEMMA LineKept ==
    ASSUME Inv, V2iStep \/ I2vStep \/ Calls
    PROVE  LineInv'
<1>. USE DEF LineInv, V2iPlaces, CapPlaces, I2vPlaces, Go
<1>1. LineInv /\ line \in Nat
    BY DEF Inv
<1>2. CASE \E x : Returns(x)
    BY <1>1, <1>2 DEF Returns
<1>3. CASE NewAic
    BY <1>3 DEF NewAic
<1>4. CASE \/ AgentId \/ PrincipalUidRead \/ DelegationMode \/ Version
           \/ DelegationAuthRead \/ OtherLine \/ PushCapability
    <2>1. at' = "line" /\ line' = line + 1
        BY <1>4 DEF AgentId, PrincipalUidRead, DelegationMode, Version,
           DelegationAuthRead, OtherLine, PushCapability, NextLine
    <2>2. line' \in Nat \ {0}
        BY <1>1, <2>1, NextLineNumber, Zenon
    <2>. QED  BY <2>1, <2>2
<1>5. CASE \/ PrincipalUid \/ DelegationAuth \/ NewCapability \/ SetNames
           \/ DecodeParameters \/ SetParameters
    BY <1>1, <1>5 DEF PrincipalUid, DelegationAuth, NewCapability, SetNames,
       DecodeParameters, SetParameters, Capability, AtLine, KeepConfig
<1>6. CASE V2iStep
    BY <1>2, <1>3, <1>4, <1>5, <1>6 DEF V2iStep, NewAicFails,
       PrincipalUidRefused, VersionRefused, SettingFails, DelegationAuthRefused,
       DelegationAuthNotRead, Validate, NewCapabilityFails, NamesFail,
       ParametersRefused, ParametersFail, PushFails, OutOfMemory, Rejected,
       V2iFails, CapabilityFails
<1>7. CASE \/ ListVersion \/ CopyAgentId \/ ListAgentId \/ WriteUid \/ ListUid
           \/ CopyReason \/ ListReason \/ CopyNonce \/ ListNonce
    BY <1>1, <1>7 DEF ListVersion, CopyAgentId, ListAgentId, WriteUid, ListUid,
       CopyReason, ListReason, CopyNonce, ListNonce, Copies
<1>8. CASE ListMode \/ ListCapability
    <2>1. at' = "scheme" /\ line' \in {1, line + 1}
        BY <1>8 DEF ListMode, ListCapability
    <2>2. line' \in Nat \ {0}
        BY <1>1, <2>1, NextLineNumber, Zenon
    <2>. QED  BY <2>1, <2>2
<1>9. CASE \/ CopyScheme \/ SchemeNotCopied \/ CopyId \/ IdNotCopied \/ NewLine
    BY <1>1, <1>9 DEF CopyScheme, SchemeNotCopied, CopyId, IdNotCopied, NewLine,
       AtCapability, Copies, NotCopied, Listed
<1>10. CASE CapabilitiesListed
    BY <1>1, <1>2, <1>10 DEF CapabilitiesListed
<1>11. CASE I2vStep
    BY <1>2, <1>7, <1>8, <1>9, <1>10, <1>11 DEF I2vStep, AllListed, ListingFails,
       I2vFails
<1>12. CASE Calls
    <2>1. at' \in {"new", "version", "idle"} /\ line' \in {0, line}
        BY <1>12 DEF Calls, CallV2i, CallI2v, ListResult, ReadAgain, CallerFrees
    <2>2. line' \in Nat
        BY <1>1, <2>1, NextLineNumber, Zenon
    <2>. QED  BY <2>1, <2>2
<1>. QED  BY <1>6, <1>11, <1>12

-----------------------------------------------------------------------------
\* Changing a field of an AIC, and adding to its lists.

LEMMA NoCaps == AreCaps(<<>>)
BY EmptySequence DEF AreCaps

LEMMA AppendCaps ==
    ASSUME NEW s, AreCaps(s), NEW c, IsCap(c)
    PROVE  AreCaps(Append(s, c))
<1>1. /\ IsSequence(Append(s, c))
      /\ Len(s) \in Nat /\ Len(Append(s, c)) = Len(s) + 1
      /\ \A i \in 1..Len(s) : Append(s, c)[i] = s[i]
      /\ Append(s, c)[Len(s) + 1] = c
    BY AppendSequence DEF AreCaps
<1>2. ASSUME NEW i \in 1..Len(s) + 1 PROVE IsCap(Append(s, c)[i])
    <2>1. CASE i = Len(s) + 1
        BY <1>1, <2>1
    <2>2. CASE i # Len(s) + 1
        <3>1. i \in 1..Len(s)
            BY <1>1, <2>2
        <3>. QED  BY <1>1, <3>1 DEF AreCaps
    <2>. QED  BY <2>1, <2>2
<1>. QED  BY <1>1, <1>2 DEF AreCaps

LEMMA EntriesAreCaps ==
    ASSUME NEW s, AreCaps(Entries(s))
    PROVE  AreCaps(Entries(Entries(s)))
BY NoCaps DEF Entries

LEMMA AicFields ==
    ASSUME NEW a, IsAic(a), NEW x
    PROVE  /\ IsAic([a EXCEPT !.agentId = x])
           /\ IsAic([a EXCEPT !.version = x])
           /\ IsAic([a EXCEPT !.delegationMode = x])
           /\ IsAic([a EXCEPT !.delegationAuthorization = x])
BY DEF IsAic

LEMMA AicPrincipal ==
    ASSUME NEW a, IsAic(a), NEW u, IsBytes(u.keyHash.id)
    PROVE  IsAic([a EXCEPT !.principalUid = u])
BY DEF IsAic

LEMMA AicCapabilities ==
    ASSUME NEW a, IsAic(a), NEW c, AreCaps(c)
    PROVE  /\ IsAic([a EXCEPT !.capabilities = c])
           /\ [a EXCEPT !.capabilities = c].authorizationConstraints =
                 a.authorizationConstraints
BY DEF IsAic

LEMMA AicConstraints ==
    ASSUME NEW a, IsAic(a), NEW c, AreCaps(Entries(c))
    PROVE  /\ IsAic([a EXCEPT !.authorizationConstraints = c])
           /\ [a EXCEPT !.authorizationConstraints = c].authorizationConstraints = c
BY DEF IsAic

LEMMA NewAicIsAic == IsAic([AIC_new EXCEPT !.version = 1])
<1>1. PICK a : a = [AIC_new EXCEPT !.version = 1]
    OBVIOUS
<1>2. /\ a = [version |-> a.version, agentId |-> a.agentId,
              principalUid |-> a.principalUid, capabilities |-> a.capabilities,
              delegationMode |-> a.delegationMode,
              authorizationConstraints |-> a.authorizationConstraints,
              delegationAuthorization |-> a.delegationAuthorization]
      /\ a.capabilities = <<>> /\ a.authorizationConstraints = NULL
      /\ a.principalUid = AIC_PRINCIPALUID_new
    BY <1>1 DEF AIC_new
<1>3. a.principalUid.keyHash.len = 0
    <2>1. a.principalUid.keyHash = Empty
        BY <1>2 DEF AIC_PRINCIPALUID_new
    <2>2. Empty.len = 0
        BY DEF Empty
    <2>. QED  BY <2>1, <2>2
<1>4. Entries(a.authorizationConstraints) = <<>>
    BY <1>2 DEF Entries
<1>. QED  BY <1>1, <1>2, <1>3, <1>4, NoCaps DEF IsAic

\* What a call that returns leaves.
LEMMA ReturnsData ==
    ASSUME Inv, NEW x, Returns(x), x = NULL \/ call # "section" \/ IsListable(x)
    PROVE  DataInv'
BY DEF Inv, DataInv, Returns, Go, V2iPlaces, CapPlaces, I2vPlaces

\* The next line is about to be read, with the AIC a.
LEMMA NextLineData ==
    ASSUME Inv, NEW a, IsAic(a), NextLine(a)
    PROVE  DataInv'
BY DEF Inv, DataInv, NextLine, Go, KeepConfig, V2iPlaces, CapPlaces, I2vPlaces

LEMMA V2iData ==
    ASSUME Inv, V2iStep
    PROVE  DataInv'
<1>. USE DEF Go
<1>1. CASE NewAic
    <2>1. /\ IsAic(aic') /\ at' = "line"
          /\ UNCHANGED <<section, list>>
        BY <1>1, NewAicIsAic DEF NewAic, KeepConfig
    <2>. QED  BY <2>1 DEF Inv, DataInv, V2iPlaces, CapPlaces, I2vPlaces
<1>2. CASE AgentId \/ DelegationMode \/ Version \/ DelegationAuthRead \/ OtherLine
    <2>1. IsAic(aic)
        BY <1>2 DEF AgentId, DelegationMode, Version, DelegationAuthRead, OtherLine,
           AtLine, Inv, DataInv, V2iPlaces
    <2>2. \E a : IsAic(a) /\ NextLine(a)
        BY <1>2, <2>1, AicFields DEF AgentId, DelegationMode, Version,
           DelegationAuthRead, OtherLine
    <2>. QED  BY <2>2, NextLineData
<1>3. CASE PrincipalUidRead
    <2>1. IsAic(aic) /\ IsBytes(uid.keyHash.id)
        BY <1>3 DEF PrincipalUidRead, Inv, DataInv, V2iPlaces, CodecInv, TextInv, Bytes
    <2>2. IsAic([aic EXCEPT !.principalUid = uid])
        BY <2>1, AicPrincipal
    <2>. QED  BY <1>3, <2>2, NextLineData DEF PrincipalUidRead
<1>4. CASE PushCapability
    <2>1. /\ IsAic(aic) /\ IsCap(cap) /\ Name \in {"capability", "authorizationConstraint"}
          /\ Name # "capability" => AreCaps(aic.authorizationConstraints)
        BY <1>4 DEF PushCapability, Inv, DataInv, V2iPlaces, CapPlaces, NewCap
    <2>2. CASE Name = "capability"
        <3>1. AreCaps(Append(aic.capabilities, cap))
            BY <2>1, AppendCaps DEF IsAic
        <3>2. IsAic(WithCap(Name))
            BY <2>1, <2>2, <3>1, AicCapabilities DEF WithCap
        <3>. QED  BY <1>4, <3>2, NextLineData DEF PushCapability
    <2>3. CASE Name # "capability"
        <3>1. AreCaps(Append(aic.authorizationConstraints, cap))
            BY <2>1, <2>3, AppendCaps
        <3>2. AreCaps(Entries(Append(aic.authorizationConstraints, cap)))
            BY <3>1, NoCaps DEF Entries
        <3>3. IsAic(WithCap(Name))
            BY <2>1, <2>3, <3>2, AicConstraints DEF WithCap
        <3>. QED  BY <1>4, <3>3, NextLineData DEF PushCapability
    <2>. QED  BY <2>2, <2>3
<1>5. CASE PrincipalUid \/ DelegationAuth
    <2>1. /\ at = "line" /\ at' \in {"uid", "der"}
          /\ UNCHANGED <<aic, section, list>>
        BY <1>5 DEF PrincipalUid, DelegationAuth, AtLine, KeepConfig
    <2>. QED  BY <2>1 DEF Inv, DataInv, V2iPlaces, CapPlaces, I2vPlaces
<1>6. CASE NewCapability
    <2>1. /\ at = "line" /\ at' = "names" /\ cap' = AIC_CAPABILITY_new
          /\ UNCHANGED <<section, list, line>>
          /\ Name \in {"capability", "authorizationConstraint"}
        BY <1>6 DEF NewCapability, Capability, AtLine, KeepConfig
    <2>2. IsAic(aic) /\ AreCaps(Entries(aic.authorizationConstraints))
        BY <2>1 DEF Inv, DataInv, V2iPlaces, IsAic
    <2>3. PICK c : /\ c = IF Name = "capability" THEN aic.authorizationConstraints
                          ELSE Entries(aic.authorizationConstraints)
                   /\ aic' = [aic EXCEPT !.authorizationConstraints = c]
        BY <1>6, <2>2 DEF NewCapability, IsAic
    <2>4. AreCaps(Entries(c))
        BY <2>2, <2>3, EntriesAreCaps
    <2>5. IsAic(aic') /\ aic'.authorizationConstraints = c
        BY <2>2, <2>3, <2>4, AicConstraints
    <2>6. Name # "capability" => AreCaps(c)
        BY <2>2, <2>3
    <2>7. NewCap(cap') /\ Name' = Name
        BY <2>1 DEF NewCap, IsCap, AIC_CAPABILITY_new, Empty, Name
    <2>. QED
        BY <2>1, <2>5, <2>6, <2>7 DEF Inv, DataInv, V2iPlaces, CapPlaces, I2vPlaces
<1>7. CASE SetNames \/ DecodeParameters \/ SetParameters
    <2>1. /\ at \in CapPlaces /\ at' \in CapPlaces
          /\ UNCHANGED <<section, list, line, aic>>
        BY <1>7 DEF SetNames, DecodeParameters, SetParameters, KeepConfig, CapPlaces
    <2>2. NewCap(cap) /\ Name \in {"capability", "authorizationConstraint"}
        BY <2>1 DEF Inv, DataInv
    <2>3. /\ Len(Value) \in Nat \ {0}
          /\ \A i \in 1..Len(Value) : Value[i].len \in Nat
        <3>1. IsLine(section[line])
            <4>1. line \in Nat /\ line # 0 /\ line <= Len(section)
                BY <2>1 DEF Inv, LineInv, CapPlaces, V2iPlaces
            <4>2. AreLines(section) /\ Len(section) \in Nat
                BY AppendSequence DEF Inv, DataInv, AreLines
            <4>. QED  BY <4>1, <4>2 DEF AreLines
        <3>. QED  BY <2>2, <3>1 DEF IsLine, Name, Value
    <2>4. NewCap(cap')
        <3>1. CASE SetNames
            <4>1. PICK x, y : /\ x.len \in Nat /\ y.len \in Nat
                              /\ cap' = [cap EXCEPT !.schemeId = x, !.capabilityId = y]
                <5>1. PICK y : /\ y = IF Len(Value) > 1 THEN Value[2] ELSE cap.capabilityId
                               /\ cap' = [cap EXCEPT !.schemeId = Value[1],
                                                     !.capabilityId = y]
                    BY <2>2, <3>1 DEF SetNames, NewCap
                <5>2. Value[1].len \in Nat /\ y.len \in Nat
                    BY <2>2, <2>3, <5>1 DEF NewCap, IsCap
                <5>. QED  BY <5>1, <5>2
            <4>. QED  BY <2>2, <4>1 DEF NewCap, IsCap
        <3>2. CASE DecodeParameters
            BY <2>2, <3>2 DEF DecodeParameters
        <3>3. CASE SetParameters
            <4>1. PICK p : /\ p = IF IsHex
                                  THEN OPENSSL_hexstr2buf(HexPrefixed[Value[3].id])
                                  ELSE Value[3]
                           /\ cap' = [cap EXCEPT !.parameters = p]
                BY <3>3 DEF SetParameters
            <4>2. p # NULL => p.len \in Nat
                <5>1. CASE IsHex
                    <6>1. HexPrefixed[Value[3].id].len \in Nat
                        BY <5>1, HexPrefixedTexts DEF IsHex
                    <6>. QED  BY <4>1, <5>1, <6>1 DEF OPENSSL_hexstr2buf
                <5>2. CASE ~IsHex
                    <6>1. Len(Value) = 3
                        BY <3>3, <5>2 DEF SetParameters, Inv, DataInv
                    <6>. QED  BY <2>3, <4>1, <5>2, <6>1
                <5>. QED  BY <5>1, <5>2
            <4>. QED  BY <2>2, <4>1, <4>2 DEF NewCap, IsCap
        <3>. QED  BY <1>7, <3>1, <3>2, <3>3
    <2>5. Name' = Name /\ Value' = Value
        BY <2>1 DEF Name, Value
    <2>6. at' \in {"parameters", "decoded parameters"} => Len(Value) = 3
        BY <1>7 DEF SetNames, DecodeParameters, SetParameters, Inv, DataInv
    <2>. QED
        BY <2>1, <2>4, <2>5, <2>6 DEF Inv, DataInv, V2iPlaces, CapPlaces, I2vPlaces
<1>8. CASE Validate
    <2>1. CASE Validated(aic)
        <3>1. IsAic(aic) /\ Returns(aic)
            BY <1>8, <2>1 DEF Validate, Inv, DataInv, V2iPlaces
        <3>2. aic.principalUid.keyHash.len # 0
            BY <2>1 DEF Validated, AIC_validate, PrincipalUidValid, Length
        <3>3. IsListable(aic)
            BY <3>1, <3>2 DEF IsAic, IsListable
        <3>. QED  BY <3>1, <3>3, ReturnsData
    <2>2. CASE ~Validated(aic)
        BY <1>8, <2>2, ReturnsData DEF Validate, Rejected, V2iFails
    <2>. QED  BY <2>1, <2>2
<1>9. CASE Returns(NULL)
    BY <1>9, ReturnsData
<1>. QED
    BY <1>1, <1>2, <1>3, <1>4, <1>5, <1>6, <1>7, <1>8, <1>9
    DEF V2iStep, NewAicFails, PrincipalUidRefused, VersionRefused, SettingFails,
        DelegationAuthRefused, DelegationAuthNotRead, NewCapabilityFails,
        NamesFail, ParametersRefused, ParametersFail, PushFails, OutOfMemory,
        Rejected, V2iFails, CapabilityFails

-----------------------------------------------------------------------------
LEMMA ElementOfBoth ==
    ASSUME NEW s, AreCaps(s), NEW t, AreCaps(t),
           NEW k \in Nat, k # 0, k <= Len(s \o t)
    PROVE  IsCap((s \o t)[k])
<1>1. IsSequence(s) /\ IsSequence(t)
    BY DEF AreCaps
<1>2. PICK m \in Nat, n \in Nat :
        /\ m = Len(s) /\ n = Len(t) /\ Len(s \o t) = m + n
        /\ \A i \in 1..m : (s \o t)[i] = s[i]
        /\ \A i \in 1..n : (s \o t)[m + i] = t[i]
    <2>1. /\ Len(s) \in Nat /\ Len(t) \in Nat /\ Len(s \o t) = Len(s) + Len(t)
          /\ \A i \in 1..Len(s) : (s \o t)[i] = s[i]
          /\ \A i \in 1..Len(t) : (s \o t)[Len(s) + i] = t[i]
        BY <1>1, ConcatSequence
    <2>. QED  BY <2>1, Zenon
<1>3. CASE k <= m
    <2>1. k \in 1..m
        BY <1>3
    <2>. QED  BY <1>2, <2>1 DEF AreCaps
<1>4. CASE k > m
    <2>1. PICK i : i = k - m
        OBVIOUS
    <2>2. i \in 1..n /\ k = m + i
        BY <1>2, <1>4, <2>1
    <2>3. (s \o t)[m + i] = t[i]
        BY <1>2, <2>2
    <2>. QED  BY <1>2, <2>2, <2>3 DEF AreCaps
<1>. QED  BY <1>2, <1>3, <1>4

\* The capability that is listed is one of the AIC's.
LEMMA ThisIsCap ==
    ASSUME Inv, at \in {"id", "room", "add capability"}
    PROVE  IsCap(This)
<1>1. line \in Nat /\ line # 0 /\ line <= Len(Listed)
    BY DEF Inv, LineInv
<1>2. AreCaps(aic.capabilities) /\ AreCaps(Entries(aic.authorizationConstraints))
    BY DEF Inv, DataInv, IsListable, I2vPlaces
<1>3. PICK k, s, t : /\ k = line /\ s = aic.capabilities
                     /\ t = Entries(aic.authorizationConstraints)
    OBVIOUS
<1>4. k \in Nat /\ k # 0 /\ k <= Len(s \o t) /\ AreCaps(s) /\ AreCaps(t)
    BY <1>1, <1>2, <1>3 DEF Listed
<1>5. IsCap((s \o t)[k])
    BY <1>4, ElementOfBoth
<1>. QED  BY <1>3, <1>5 DEF This, Listed

LEMMA TwoParts ==
    ASSUME NEW a, a.len \in Nat, NEW b, b.len \in Nat
    PROVE  /\ Len(<<a, b>> \o <<>>) = 2
           /\ \A i \in 1..2 : (<<a, b>> \o <<>>)[i].len \in Nat
<1>1. PICK v : v = <<a, b>> \o <<>>
    OBVIOUS
<1>2. Len(v) = 2 /\ v[1] = a /\ v[2] = b
    BY <1>1
<1>. QED  BY <1>1, <1>2

LEMMA ThreeParts ==
    ASSUME NEW a, a.len \in Nat, NEW b, b.len \in Nat, NEW c, c.len \in Nat
    PROVE  /\ Len(<<a, b>> \o <<c>>) = 3
           /\ \A i \in 1..3 : (<<a, b>> \o <<c>>)[i].len \in Nat
<1>1. PICK v : v = <<a, b>> \o <<c>>
    OBVIOUS
<1>2. Len(v) = 3 /\ v[1] = a /\ v[2] = b /\ v[3] = c
    BY <1>1
<1>. QED  BY <1>1, <1>2

LEMMA LineTexts ==
    ASSUME Inv, at = "add capability"
    PROVE  /\ Scheme.len \in Nat /\ Id.len \in Nat
           /\ \/ This.parameters = NULL /\ Parameters = <<>>
              \/ /\ This.parameters # NULL /\ This.parameters.len \in Nat
                 /\ \E p : /\ Parameters = <<p>>
                           /\ p.len = 2 * This.parameters.len
<1>1. IsCap(This)
    BY ThisIsCap
<1>2. Scheme.len \in Nat /\ Id.len \in Nat
    BY <1>1 DEF IsCap, Scheme, Id, Empty
<1>3. CASE This.parameters = NULL
    BY <1>2, <1>3 DEF Parameters
<1>4. CASE This.parameters # NULL
    <2>1. PICK p : p = [len |-> 2 * This.parameters.len,
                        id |-> HexText[This.parameters.id]]
        OBVIOUS
    <2>2. Parameters = <<p>> /\ p.len = 2 * This.parameters.len
        BY <1>4, <2>1 DEF Parameters
    <2>. QED  BY <1>1, <1>2, <1>4, <2>2 DEF IsCap
<1>. QED  BY <1>3, <1>4

LEMMA NoLines == AreLines(<<>>)
BY EmptySequence DEF AreLines

LEMMA AppendLines ==
    ASSUME NEW s, AreLines(s), NEW l, IsLine(l)
    PROVE  AreLines(Append(s, l))
<1>1. /\ IsSequence(Append(s, l))
      /\ Len(s) \in Nat /\ Len(Append(s, l)) = Len(s) + 1
      /\ \A i \in 1..Len(s) : Append(s, l)[i] = s[i]
      /\ Append(s, l)[Len(s) + 1] = l
    BY AppendSequence DEF AreLines
<1>2. ASSUME NEW i \in 1..Len(s) + 1 PROVE IsLine(Append(s, l)[i])
    <2>1. CASE i = Len(s) + 1
        BY <1>1, <2>1
    <2>2. CASE i # Len(s) + 1
        <3>1. i \in 1..Len(s)
            BY <1>1, <2>2
        <3>. QED  BY <1>1, <3>1 DEF AreLines
    <2>. QED  BY <2>1, <2>2
<1>. QED  BY <1>1, <1>2 DEF AreLines

\* A listing goes on, with or without a line more.
LEMMA ListingData ==
    ASSUME Inv, at \in I2vPlaces, at' \in I2vPlaces, AreLines(list'),
           UNCHANGED <<section, aic>>
    PROVE  DataInv'
BY DEF Inv, DataInv, V2iPlaces, CapPlaces, I2vPlaces

LEMMA AddsData ==
    ASSUME Inv, at \in I2vPlaces, at' \in I2vPlaces,
           NEW name, NEW value, NEW locals, Adds(name, value, locals),
           IsLine([name |-> name, value |-> value])
    PROVE  DataInv'
<1>1. AreLines(list')
    BY AppendLines DEF Inv, DataInv, Adds
<1>2. UNCHANGED <<section, aic>>
    BY DEF Adds
<1>. QED  BY <1>1, <1>2, ListingData

\* A line of one part, about nothing that is read with care.
LEMMA PlainLine ==
    ASSUME NEW name, name \notin {"principalUid", "capability", "authorizationConstraint"},
           NEW x
    PROVE  IsLine([name |-> name, value |-> <<x>>])
BY DEF IsLine

LEMMA I2vData ==
    ASSUME Inv, I2vStep
    PROVE  DataInv'
<1>. USE DEF Go
<1>1. CASE \/ CopyAgentId \/ CopyScheme \/ CopyId \/ NewLine \/ CopyReason
           \/ CopyNonce \/ SchemeNotCopied \/ IdNotCopied \/ WriteUid
    <2>1. at \in I2vPlaces /\ at' \in I2vPlaces /\ UNCHANGED <<section, aic, list>>
        BY <1>1 DEF CopyAgentId, CopyScheme, CopyId, NewLine, CopyReason,
           CopyNonce, SchemeNotCopied, IdNotCopied, WriteUid, Copies, NotCopied,
           AtCapability, KeepConfig, I2vPlaces
    <2>2. AreLines(list')
        BY <2>1 DEF Inv, DataInv
    <2>. QED  BY <2>1, <2>2, ListingData
<1>2. CASE ListVersion
    BY <1>2, PlainLine, AddsData DEF ListVersion, I2vPlaces
<1>3. CASE ListAgentId
    BY <1>3, PlainLine, AddsData DEF ListAgentId, I2vPlaces
<1>4. CASE ListUid
    <2>1. Adds("principalUid", string, {"text"}) /\ at \in I2vPlaces /\ at' \in I2vPlaces
        BY <1>4 DEF ListUid, I2vPlaces
    <2>2. IsLine([name |-> "principalUid", value |-> string])
        BY DEF Inv, CodecInv, TextInv, IsLine, Characters
    <2>. QED  BY <2>1, <2>2, AddsData
<1>5. CASE ListMode
    <2>1. PICK x : Adds("delegationMode", <<x>>, {})
        BY <1>5 DEF ListMode
    <2>2. at \in I2vPlaces /\ at' \in I2vPlaces
        BY <1>5 DEF ListMode, I2vPlaces
    <2>3. IsLine([name |-> "delegationMode", value |-> <<x>>])
        BY PlainLine
    <2>. QED  BY <2>1, <2>2, <2>3, AddsData
<1>6. CASE ListCapability
    <2>1. PICK v : /\ v = <<Scheme, Id>> \o Parameters
                   /\ Adds(ListedName, v, {"sid", "cid", "line"})
        BY <1>6 DEF ListCapability
    <2>2. at = "add capability" /\ at' \in I2vPlaces /\ at \in I2vPlaces
        BY <1>6 DEF ListCapability, I2vPlaces
    <2>3. Len(v) \in {2, 3} /\ \A i \in 1..Len(v) : v[i].len \in Nat
        <3>1. PICK a, b : a = Scheme /\ b = Id
            OBVIOUS
        <3>2. a.len \in Nat /\ b.len \in Nat
            BY <2>2, <3>1, LineTexts
        <3>3. CASE Parameters = <<>>
            <4>1. v = <<a, b>> \o <<>>
                BY <2>1, <3>1, <3>3
            <4>. QED  BY <3>2, <4>1, TwoParts
        <3>4. CASE Parameters # <<>>
            <4>1. PICK c : /\ Parameters = <<c>>
                           /\ c.len = 2 * This.parameters.len
                           /\ This.parameters.len \in Nat
                <5>1. \/ Parameters = <<>>
                      \/ /\ This.parameters.len \in Nat
                         /\ \E p : /\ Parameters = <<p>>
                                   /\ p.len = 2 * This.parameters.len
                    BY <2>2, LineTexts
                <5>. QED  BY <3>4, <5>1, Zenon
            <4>2. c.len \in Nat
                BY <4>1
            <4>3. v = <<a, b>> \o <<c>>
                BY <2>1, <3>1, <4>1
            <4>. QED  BY <3>2, <4>2, <4>3, ThreeParts
        <3>. QED  BY <3>3, <3>4
    <2>4. IsLine([name |-> ListedName, value |-> v])
        BY <2>3 DEF IsLine, ListedName
    <2>. QED  BY <2>1, <2>2, <2>4, AddsData
<1>7. CASE CapabilitiesListed
    <2>1. CASE Returns(list)
        <3>1. call # "section"
            BY <1>7 DEF CapabilitiesListed, Inv, ControlInv, I2vPlaces
        <3>. QED  BY <2>1, <3>1, ReturnsData
    <2>2. CASE ~Returns(list)
        <3>1. PICK x : Adds("delegationAuthorization", <<x>>, {})
            BY <1>7, <2>2 DEF CapabilitiesListed
        <3>2. at \in I2vPlaces /\ at' \in I2vPlaces
            BY <1>7, <2>2 DEF CapabilitiesListed, I2vPlaces
        <3>3. IsLine([name |-> "delegationAuthorization", value |-> <<x>>])
            BY PlainLine
        <3>. QED  BY <3>1, <3>2, <3>3, AddsData
    <2>. QED  BY <2>1, <2>2
<1>8. CASE ListReason
    BY <1>8, PlainLine, AddsData DEF ListReason, I2vPlaces
<1>9. CASE ListNonce
    BY <1>9, PlainLine, AddsData DEF ListNonce, I2vPlaces
<1>10. CASE AllListed
    <2>1. call # "section" /\ Returns(list)
        BY <1>10 DEF AllListed, Inv, ControlInv, I2vPlaces
    <2>. QED  BY <2>1, ReturnsData
<1>11. CASE ListingFails
    BY <1>11, ReturnsData DEF ListingFails, I2vFails
<1>. QED
    BY <1>1, <1>2, <1>3, <1>4, <1>5, <1>6, <1>7, <1>8, <1>9, <1>10, <1>11
    DEF I2vStep

-----------------------------------------------------------------------------
\* The sections and AICs that calls are made on.
LEMMA SectionIsLines ==
    ASSUME NEW s \in Sections
    PROVE  AreLines(s)
<1>1. s \in Seq(Elements(s))
    BY SectionsOfLines
<1>2. \A i \in 1..Len(s) : IsLine(s[i])
    BY SectionsOfLines DEF Elements, IsLine, IsCharacters
<1>. QED  BY <1>1, <1>2 DEF AreLines, IsSequence

LEMMA ExtensionIsListable ==
    ASSUME NEW e \in Extensions
    PROVE  IsListable(e)
<1>1. ASSUME NEW l \in {e.capabilities, Entries(e.authorizationConstraints)}
      PROVE  AreCaps(l)
    <2>1. l \in Seq(Elements(l))
        BY ExtensionsDecoded
    <2>2. \A c \in Elements(l) : IsCap(c)
        BY ExtensionsDecoded DEF IsCap
    <2>3. \A i \in 1..Len(l) : IsCap(l[i])
        BY <2>2 DEF Elements
    <2>. QED  BY <2>1, <2>3 DEF AreCaps, IsSequence
<1>. QED  BY <1>1, ExtensionsDecoded DEF IsListable, IsBytes

LEMMA CallsData ==
    ASSUME Inv, Calls
    PROVE  DataInv'
<1>. USE DEF DataInv, V2iPlaces, CapPlaces, I2vPlaces, Go
<1>1. DataInv
    BY DEF Inv
<1>2. CASE CallV2i
    BY <1>1, <1>2, SectionIsLines DEF CallV2i
<1>3. CASE CallI2v
    BY <1>1, <1>3, ExtensionIsListable DEF CallI2v
<1>4. CASE ListResult
    BY <1>1, <1>4, NoLines DEF ListResult
<1>5. CASE ReadAgain
    <2>1. /\ at' = "new" /\ list' = list
          /\ \E i \in 1..Len(section) : section' = Append(list, section[i])
        BY <1>5 DEF ReadAgain
    <2>2. AreLines(section')
        <3>1. PICK i \in 1..Len(section) : section' = Append(list, section[i])
            BY <2>1
        <3>2. IsLine(section[i])
            BY <1>1 DEF AreLines
        <3>. QED  BY <1>1, <3>1, <3>2, AppendLines
    <2>. QED  BY <1>1, <2>1, <2>2
<1>6. CASE CallerFrees
    <2>1. at' = "idle" /\ section' = <<>> /\ list' = <<>>
        BY <1>6 DEF CallerFrees
    <2>. QED  BY <2>1, NoLines
<1>. QED  BY <1>2, <1>3, <1>4, <1>5, <1>6 DEF Calls

\* The codec changes nothing that is the calls'.
LEMMA CodecOthers ==
    ASSUME Inv, InCodec
    PROVE  ControlInv' /\ LineInv' /\ DataInv'
<1>1. CodecOnly /\ UNCHANGED configVars
    BY CodecPointers DEF InCodec, Inv
<1>2. ControlInv'
    <2>1. at \in {"uid", "add principalUid"} /\ codec' # "idle"
        BY <1>1 DEF CodecOnly, Inv, ControlInv
    <2>2. held' \subseteq Blocks
        BY <1>1 DEF CodecOnly, Inv, ControlInv, Blocks, Locals
    <2>3. at' \in V2iPlaces \ {"new"} => "aic" \in held'
        BY <1>1 DEF CodecOnly, Inv, ControlInv, configVars
    <2>4. /\ at' = "uid" => codec' \in ReadPlaces
          /\ at' = "add principalUid" =>
                codec' \in WritePlaces /\ "pu" \notin pointers'
        BY <1>1 DEF CodecOnly, Inv, ControlInv, configVars
    <2>. QED
        BY <1>1, <2>1, <2>2, <2>3, <2>4
        DEF Inv, ControlInv, configVars, V2iPlaces, CapPlaces, I2vPlaces
<1>3. LineInv'
    BY <1>1 DEF Inv, LineInv, configVars, Listed
<1>4. DataInv'
    BY <1>1 DEF Inv, DataInv, configVars, Name, Value
<1>. QED  BY <1>2, <1>3, <1>4

LEMMA InitInv == Init => Inv
<1>. SUFFICES ASSUME Init PROVE Inv
    OBVIOUS
<1>1. CodecInv
    <2>1. /\ codec = "idle" /\ string = <<>> /\ uid = NULL /\ built = <<>>
          /\ pos = 0 /\ room = 0 /\ bits = 0 /\ acc = 0
        BY DEF Init, CodecInit
    <2>2. LoopInv
        BY <2>1, EmptySequence DEF LoopInv, CodecFits
    <2>3. TextInv
        BY <2>1 DEF TextInv
    <2>4. PointersInv
        BY <2>1 DEF Init, OwnershipInit, PointersInv
    <2>. QED  BY <2>2, <2>3, <2>4 DEF CodecInv
<1>2. ControlInv
    BY DEF Init, CodecInit, OwnershipInit, ControlInv, V2iPlaces, I2vPlaces, CapPlaces
<1>3. LineInv
    BY DEF Init, LineInv, V2iPlaces, CapPlaces
<1>4. DataInv
    BY NoLines DEF Init, DataInv, V2iPlaces, CapPlaces, I2vPlaces
<1>. QED  BY <1>1, <1>2, <1>3, <1>4 DEF Inv

LEMMA NextInv == Inv /\ [Next]_vars => Inv'
<1>. SUFFICES ASSUME Inv, [Next]_vars PROVE Inv'
    OBVIOUS
<1>1. CASE Calls
    BY <1>1, CallsCodec, CallsControl, LineKept, CallsData DEF Inv
<1>2. CASE V2iStep
    BY <1>2, V2iCodec, V2iControl, LineKept, V2iData DEF Inv
<1>3. CASE I2vStep
    BY <1>3, I2vCodec, I2vControl, LineKept, I2vData DEF Inv
<1>4. CASE InCodec
    <2>1. CodecInv /\ CodecStep
        BY <1>4 DEF Inv, InCodec
    <2>2. CodecInv'
        BY <2>1, CodecLoop, CodecText, CodecPointers DEF CodecInv
    <2>. QED  BY <1>4, <2>2, CodecOthers DEF Inv
<1>5. CASE UNCHANGED vars
    <2>1. CodecInv'
        BY <1>5 DEF vars, codecVars, ownershipVars, Inv, CodecInv, LoopInv,
           TextInv, PointersInv, CodecFits, Characters, Bytes
    <2>2. ControlInv' /\ LineInv'
        BY <1>5 DEF vars, configVars, codecVars, ownershipVars, Inv, ControlInv,
           LineInv, Listed
    <2>3. DataInv'
        BY <1>5 DEF vars, configVars, Inv, DataInv, Name, Value
    <2>. QED  BY <2>1, <2>2, <2>3 DEF Inv
<1>. QED  BY <1>1, <1>2, <1>3, <1>4, <1>5 DEF Next, Calls

LEMMA Invariance == Spec => []Inv
<1>. QED  BY InitInv, NextInv, PTL DEF Spec

-----------------------------------------------------------------------------
\* An AIC under construction is held until it is returned or freed, a
\* capability until it is pushed or freed, and the codec runs only when it was
\* called: v2i_AIC, parse_cap and i2v_AIC, for every section and AIC.
THEOREM TypeCorrect == Spec => []TypeOK
<1>1. Inv => TypeOK
    <2>. SUFFICES ASSUME Inv PROVE TypeOK
        OBVIOUS
    <2>1. /\ call \in {"none", "section", "certificate", "made", "listed"}
          /\ held \subseteq {"aic", "cap", "pbuf", "buf", "pu"} \cup {"fp"} \cup Locals
          /\ codec # "idle" => at \in {"uid", "add principalUid", "returned"}
        BY DEF Inv, ControlInv, Blocks
    <2>2. freedTwice \in BOOLEAN /\ starved \in BOOLEAN
        BY DEF Inv, CodecInv, PointersInv
    <2>3. line \in Nat /\ pos \in Nat /\ room \in Nat
        BY DEF Inv, LineInv, CodecInv, LoopInv
    <2>4. bits \in 0..6
        <3>1. bits \in {0, 2, 4, 6}
            BY DEF Inv, CodecInv, LoopInv
        <3>. QED  BY <3>1
    <2>5. at \in {"names", "parameters", "decoded parameters", "push"} =>
             {"cap", "aic"} \subseteq held /\ line <= Len(section)
        BY DEF Inv, ControlInv, LineInv, CapPlaces, V2iPlaces
    <2>. QED  BY <2>1, <2>2, <2>3, <2>4, <2>5 DEF TypeOK
<1>. QED  BY <1>1, Invariance, PTL

LEMMA LineFits ==
    ASSUME NEW a \in Nat, NEW b \in Nat, NEW p \in Nat
    PROVE  /\ a + 1 + b + 0 + 1 <= a + b + 3 + 0
           /\ a + 1 + b + (1 + 2 * p) + 1 <= a + b + 3 + 3 * p
OBVIOUS

\* No buffer of the codec and no line of a listing is written behind its end:
\* b64url_decode, b64url_encode and i2v_AIC, for texts, fingerprints, key
\* hashes and parameters of any length.
THEOREM NothingBehindTheEnd == Spec => []BuffersFit
<1>1. Inv => BuffersFit
    <2>. SUFFICES ASSUME Inv PROVE BuffersFit
        OBVIOUS
    <2>1. CodecFits
        BY DEF Inv, CodecInv, LoopInv
    <2>2. ASSUME at = "add capability"
          PROVE  Scheme.len + 1 + Id.len
                   + (IF Parameters = <<>> THEN 0 ELSE 1 + Parameters[1].len) + 1
                 <= LineRoom
        <3>1. PICK a \in Nat, b \in Nat : a = Scheme.len /\ b = Id.len
            BY <2>2, LineTexts
        <3>2. CASE This.parameters = NULL /\ Parameters = <<>>
            <4>1. LineRoom = a + b + 3 + 0
                BY <3>1, <3>2 DEF LineRoom
            <4>. QED  BY <3>1, <3>2, <4>1, LineFits
        <3>3. CASE /\ This.parameters # NULL /\ This.parameters.len \in Nat
                   /\ \E q : /\ Parameters = <<q>>
                             /\ q.len = 2 * This.parameters.len
            <4>1. PICK p \in Nat : p = This.parameters.len
                BY <3>3
            <4>2. PICK q : Parameters = <<q>> /\ q.len = 2 * p
                BY <3>3, <4>1
            <4>3. Parameters # <<>> /\ Parameters[1].len = 2 * p
                BY <4>2
            <4>4. LineRoom = a + b + 3 + 3 * p
                BY <3>1, <3>3, <4>1 DEF LineRoom
            <4>. QED  BY <3>1, <4>3, <4>4, LineFits
        <3>. QED  BY <2>2, <3>2, <3>3, LineTexts
    <2>. QED  BY <2>1, <2>2 DEF BuffersFit
<1>. QED  BY <1>1, Invariance, PTL

\* Only Err of AIC_principalUid_from_string, with a principal allocated, frees
\* what was freed before; nothing else in v2i_AIC, parse_cap, i2v_AIC or the
\* codec does, whatever allocation fails.
THEOREM OnlyErrFreesTwice == Spec => FreedOnce
<1>1. Inv /\ [Next]_vars => [freedTwice' => freedTwice \/ (Err /\ "pu" \in held)]_vars
    <2>. SUFFICES ASSUME Inv, Next
                  PROVE  freedTwice' => freedTwice \/ (Err /\ "pu" \in held)
        OBVIOUS
    <2>1. CASE Calls \/ V2iStep \/ I2vStep
        BY <2>1, CallsClean, V2iClean, I2vClean DEF Clean
    <2>2. CASE InCodec
        BY <2>2, CodecPointers DEF Inv, InCodec, CodecOnly
    <2>. QED  BY <2>1, <2>2 DEF Next, Calls
<1>. QED  BY <1>1, Invariance, PTL DEF Spec, FreedOnce

-----------------------------------------------------------------------------
(***************************************************************************)
(* What is held where                                                      *)
(***************************************************************************)

WorkingPlaces == V2iPlaces \cup I2vPlaces

\* The AIC belongs to the call that makes it, or to the caller that lists what
\* it was given.
AicHeld == at \in V2iPlaces \ {"new"} \/ (at \in I2vPlaces /\ call = "made")

\* Where each block is held while the call runs.
WhereHeld ==
    /\ "aic" \in held <=> AicHeld
    /\ "cap" \in held => at \in CapPlaces
    /\ "pbuf" \in held => at = "decoded parameters"
    /\ "buf" \in held => at = "der"
    /\ "s" \in held => at \in {"add agentId", "add reason"}
    /\ "hex" \in held => at = "add nonce"
    /\ "sid" \in held => at \in {"id", "room", "add capability"}
    /\ "cid" \in held => at \in {"room", "add capability"}
    /\ "line" \in held => at = "add capability"
    /\ "text" \in held => at = "add principalUid"
    /\ "fp" \in held => at \in {"uid", "add principalUid"}
    /\ "pu" \in held => at = "uid"

\* What the codec holds, and which of its pointers still point to what is
\* freed.
CodecHeld ==
    /\ codec \in {"idle", "answered"} =>
          /\ "fp" \in pointers <=> "fp" \in held
          /\ "pu" \in pointers <=> "pu" \in held /\ ~freedTwice
          /\ codec = "answered" => "fp" \notin held
    /\ codec \in {"read", "write"} => {"fp", "pu"} \cap (held \cup pointers) = {}
    /\ codec \in {"decode", "decoded", "encode", "encoded"} =>
          "fp" \in held \cap pointers /\ "pu" \notin held \cup pointers
    /\ codec = "filling" => {"fp", "pu"} \subseteq held \cap pointers
    /\ codec = "filled" => "pu" \in held \cap pointers /\ "fp" \in pointers \ held
    /\ codec = "err" =>
          IF "pu" \in held THEN "pu" \in pointers /\ "fp" \in pointers \ held
          ELSE "pu" \notin pointers /\ ("fp" \in pointers <=> "fp" \in held)

\* Only the principal is lost, and the call that loses it fails.
LostInv ==
    freedTwice =>
        /\ at = "uid" \/ (at = "returned" /\ result = NULL)
        /\ call \in {"section", "listed"}
        /\ codec = "answered" /\ "pu" \in held

HeldInv ==
    /\ held \ {"fp", "pu"} = pointers \ {"fp", "pu"}
    /\ at # "returned" => WhereHeld
    /\ CodecHeld
    /\ LostInv
    /\ NothingElseLost

\* Away from the codec, the pointers are those of the blocks that are held.
LEMMA Resting ==
    ASSUME Inv, HeldInv, at \notin {"uid", "add principalUid", "returned"}
    PROVE  /\ codec = "idle" /\ freedTwice = FALSE /\ pointers = held
           /\ {"fp", "pu"} \cap held = {}
<1>1. codec = "idle" /\ freedTwice = FALSE
    BY DEF Inv, ControlInv, CodecInv, PointersInv, HeldInv, LostInv
<1>2. {"fp", "pu"} \cap held = {}
    BY DEF HeldInv, WhereHeld
<1>3. {"fp", "pu"} \cap pointers = {}
    BY <1>1, <1>2 DEF HeldInv, CodecHeld
<1>. QED  BY <1>1, <1>2, <1>3 DEF HeldInv

LEMMA GoesOn ==
    ASSUME at' # "returned", WhereHeld', codec' = "idle", freedTwice' = FALSE,
           pointers' = held', {"fp", "pu"} \cap held' = {}
    PROVE  HeldInv'
BY DEF HeldInv, CodecHeld, LostInv, NothingElseLost

\* A call that loses nothing returns with its AIC or with nothing.
LEMMA ReturnsAll ==
    ASSUME at' = "returned", codec' \in {"idle", "answered"}, freedTwice' = FALSE,
           pointers' = held',
           held' = IF call' = "made" \/ (call' # "certificate" /\ result' # NULL)
                   THEN {"aic"} ELSE {}
    PROVE  HeldInv'
BY DEF HeldInv, CodecHeld, LostInv, NothingElseLost

LEMMA V2iHeld ==
    ASSUME Inv, HeldInv, V2iStep
    PROVE  HeldInv'
<1>. USE DEF V2iPlaces, CapPlaces, I2vPlaces, Go
<1>1. CASE NewAic \/ DelegationAuth \/ NewCapability \/ DecodeParameters
    BY <1>1, Resting, GoesOn DEF HeldInv, WhereHeld, AicHeld, NewAic,
       DelegationAuth, NewCapability, DecodeParameters, Capability, AtLine,
       Allocates, KeepConfig, KeepCodec, codecVars
<1>2. CASE AgentId \/ DelegationMode \/ Version \/ OtherLine
    BY <1>2, Resting, GoesOn DEF HeldInv, WhereHeld, AicHeld, AgentId,
       DelegationMode, Version, OtherLine, AtLine, NextLine, KeepMemory,
       ownershipVars, KeepConfig, KeepCodec, codecVars
<1>3. CASE SetNames
    BY <1>3, Resting, GoesOn DEF HeldInv, WhereHeld, AicHeld, SetNames,
       KeepMemory, ownershipVars, KeepConfig, KeepCodec, codecVars
<1>4. CASE PrincipalUid
    <2>1. /\ codec = "idle" /\ freedTwice = FALSE /\ pointers = held
          /\ {"fp", "pu"} \cap held = {}
        BY <1>4, Resting DEF PrincipalUid, AtLine
    <2>2. /\ at = "line" /\ at' = "uid" /\ codec' \in {"read", "answered"}
          /\ UNCHANGED <<held, pointers, freedTwice>>
        BY <1>4 DEF PrincipalUid, AtLine, FromString, Goto, KeepMemory, ownershipVars
    <2>. QED
        BY <2>1, <2>2 DEF HeldInv, WhereHeld, AicHeld, CodecHeld, LostInv,
           NothingElseLost
<1>5. CASE PrincipalUidRead
    <2>1. /\ at = "uid" /\ at' = "line" /\ codec = "answered" /\ codec' = "idle"
          /\ "pu" \in pointers /\ UNCHANGED freedTwice
          /\ held' = held \ {"pu"} /\ pointers' = pointers \ {"pu"}
        BY <1>5 DEF PrincipalUidRead, NextLine, HandsOver, Goto
    <2>2. freedTwice = FALSE /\ "fp" \notin held \cup pointers
        BY <2>1 DEF Inv, CodecInv, PointersInv, HeldInv, CodecHeld
    <2>3. pointers' = held' /\ {"fp", "pu"} \cap held' = {}
        BY <2>1, <2>2 DEF HeldInv
    <2>4. WhereHeld'
        BY <2>1, <2>2 DEF HeldInv, WhereHeld, AicHeld
    <2>. QED  BY <2>1, <2>2, <2>3, <2>4, GoesOn
<1>6. CASE PrincipalUidRefused
    <2>1. /\ at = "uid" /\ at' = "returned" /\ codec = "answered" /\ codec' = codec
          /\ "pu" \notin pointers /\ result' = NULL /\ call' = call
          /\ Frees({"aic"}, {"aic"})
        BY <1>6 DEF PrincipalUidRefused, Rejected, V2iFails, Returns, codecVars
    <2>2. /\ call \in {"section", "listed"} /\ "aic" \in held \cap pointers
          /\ freedTwice \in BOOLEAN /\ held \subseteq Blocks
        BY <2>1 DEF Inv, ControlInv, CodecInv, PointersInv, HeldInv, WhereHeld,
           AicHeld
    <2>3. held \subseteq {"aic", "pu"} /\ ("pu" \in held <=> freedTwice)
        BY <2>1, <2>2 DEF HeldInv, WhereHeld, CodecHeld, LostInv, Blocks, Locals
    <2>4. /\ held' = held \ {"aic"} /\ pointers' = pointers \ {"aic"}
          /\ freedTwice' = freedTwice
        BY <2>1, <2>2 DEF Frees
    <2>5. "fp" \notin pointers
        BY <2>1, <2>3 DEF HeldInv, CodecHeld
    <2>. QED
        BY <2>1, <2>2, <2>3, <2>4, <2>5 DEF HeldInv, CodecHeld, LostInv,
           NothingElseLost
<1>7. CASE DelegationAuthRead
    BY <1>7, Resting, GoesOn DEF HeldInv, WhereHeld, AicHeld, DelegationAuthRead,
       NextLine, Frees, KeepConfig, KeepCodec, codecVars
<1>8. CASE SetParameters
    BY <1>8, Resting, GoesOn DEF HeldInv, WhereHeld, AicHeld, SetParameters, Frees,
       KeepConfig, KeepCodec, codecVars
<1>9. CASE PushCapability
    BY <1>9, Resting, GoesOn DEF HeldInv, WhereHeld, AicHeld, PushCapability,
       NextLine, HandsOver, KeepConfig, KeepCodec, codecVars
<1>10. ASSUME NEW xs, NEW locals, at \in V2iPlaces \ {"uid"}, Returns(NULL),
              Frees(xs, locals), held \subseteq xs, held \subseteq locals
       PROVE  HeldInv'
    <2>1. codec' = "idle" /\ call' = call /\ result' = NULL /\ at' = "returned"
        BY <1>10, Resting DEF Returns, codecVars
    <2>2. held' = {} /\ pointers' = {} /\ freedTwice' = FALSE
        BY <1>10, Resting DEF Frees
    <2>3. call # "made"
        BY <1>10 DEF Inv, ControlInv
    <2>. QED  BY <2>1, <2>2, <2>3, ReturnsAll
<1>11. CASE \/ NewAicFails \/ VersionRefused \/ SettingFails
            \/ DelegationAuthRefused \/ NewCapabilityFails
    <2>1. V2iFails /\ at \in {"new", "line"}
        BY <1>11 DEF NewAicFails, VersionRefused, SettingFails, AtLine,
           DelegationAuthRefused, NewCapabilityFails, Capability, OutOfMemory,
           Rejected
    <2>2. held \subseteq {"aic"}
        BY <2>1 DEF Inv, ControlInv, HeldInv, WhereHeld, Blocks, Locals
    <2>. QED  BY <1>10, <2>1, <2>2 DEF V2iFails
<1>12. CASE DelegationAuthNotRead
    <2>1. held \subseteq {"buf", "aic"}
        BY <1>12 DEF DelegationAuthNotRead, Inv, ControlInv, HeldInv, WhereHeld,
           Blocks, Locals
    <2>. QED  BY <1>10, <1>12, <2>1 DEF DelegationAuthNotRead
<1>13. CASE NamesFail \/ ParametersRefused \/ ParametersFail \/ PushFails
    <2>1. PICK others : /\ CapabilityFails(others)
                        /\ others = IF at = "decoded parameters" THEN {"pbuf"}
                                    ELSE others
                        /\ at \in CapPlaces
        BY <1>13 DEF NamesFail, ParametersRefused, ParametersFail, PushFails,
           FreesDecoded
    <2>2. held \subseteq {"cap", "aic"} \cup others /\ held \subseteq {"cap", "aic", "pbuf"}
        BY <2>1 DEF Inv, ControlInv, HeldInv, WhereHeld, Blocks, Locals
    <2>. QED  BY <1>10, <2>1, <2>2 DEF CapabilityFails
<1>14. CASE Validate
    <2>1. at = "line" /\ held = {"aic"} /\ call # "certificate"
        <3>1. at = "line"
            BY <1>14 DEF Validate
        <3>2. "aic" \in held /\ call \in {"section", "listed"}
            BY <3>1 DEF Inv, ControlInv
        <3>3. held \subseteq {"aic"}
            BY <3>1 DEF Inv, ControlInv, HeldInv, WhereHeld, Blocks, Locals
        <3>. QED  BY <3>1, <3>2, <3>3
    <2>2. CASE Validated(aic)
        <3>1. aic # NULL
            BY <2>2 DEF Validated, AIC_validate
        <3>2. /\ at' = "returned" /\ result' = aic /\ call' = call /\ codec' = codec
              /\ UNCHANGED <<held, pointers, freedTwice>>
            BY <1>14, <2>2 DEF Validate, Returns, KeepMemory, ownershipVars, codecVars
        <3>. QED  BY <2>1, <3>1, <3>2, Resting, ReturnsAll
    <2>3. CASE ~Validated(aic)
        <3>1. V2iFails
            BY <1>14, <2>3 DEF Validate, Rejected
        <3>. QED  BY <1>10, <2>1, <3>1 DEF V2iFails
    <2>. QED  BY <2>2, <2>3
<1>. QED
    BY <1>1, <1>2, <1>3, <1>4, <1>5, <1>6, <1>7, <1>8, <1>9, <1>11, <1>12,
       <1>13, <1>14 DEF V2iStep

LEMMA I2vHeld ==
    ASSUME Inv, HeldInv, I2vStep
    PROVE  HeldInv'
<1>. USE DEF V2iPlaces, CapPlaces, I2vPlaces, Go
<1>1. CASE CopyAgentId \/ CopyScheme \/ CopyId \/ NewLine \/ CopyReason \/ CopyNonce
    <2>1. PICK x : /\ Allocates(x)
                   /\ \/ at = "agentId" /\ at' = "add agentId" /\ x = "s"
                      \/ at = "scheme" /\ at' = "id" /\ x = "sid"
                      \/ at = "id" /\ at' = "room" /\ x = "cid"
                      \/ at = "room" /\ at' = "add capability" /\ x = "line"
                      \/ at = "reason" /\ at' = "add reason" /\ x = "s"
                      \/ at = "nonce" /\ at' = "add nonce" /\ x = "hex"
        BY <1>1 DEF CopyAgentId, CopyScheme, CopyId, NewLine, CopyReason,
           CopyNonce, Copies, AtCapability
    <2>2. codec' = codec /\ call' = call
        BY <1>1 DEF CopyAgentId, CopyScheme, CopyId, NewLine, CopyReason,
           CopyNonce, Copies, KeepConfig, KeepCodec, codecVars
    <2>. QED
        BY <2>1, <2>2, Resting, GoesOn DEF HeldInv, WhereHeld, AicHeld, Allocates
<1>2. CASE SchemeNotCopied \/ IdNotCopied
    BY <1>2, Resting, GoesOn DEF HeldInv, WhereHeld, AicHeld, SchemeNotCopied,
       IdNotCopied, NotCopied, AtCapability, KeepConfig, KeepCodec, codecVars
<1>3. CASE WriteUid
    <2>1. /\ codec = "idle" /\ freedTwice = FALSE /\ pointers = held
          /\ {"fp", "pu"} \cap held = {}
        BY <1>3, Resting DEF WriteUid
    <2>2. /\ at = "principalUid" /\ at' = "add principalUid" /\ codec' = "write"
          /\ UNCHANGED <<held, pointers, freedTwice, call>>
        BY <1>3 DEF WriteUid, ToText, Goto, KeepMemory, ownershipVars, KeepConfig
    <2>. QED
        BY <2>1, <2>2 DEF HeldInv, WhereHeld, AicHeld, CodecHeld, LostInv,
           NothingElseLost
\* At the end of the codec its text is held, unless an allocation failed.
<1>4. ASSUME at = "add principalUid", codec = "answered"
      PROVE  /\ freedTwice = FALSE /\ pointers = held
             /\ held \subseteq {"aic", "text"}
    <2>1. freedTwice = FALSE
        BY <1>4 DEF Inv, CodecInv, PointersInv, HeldInv, LostInv
    <2>2. held \subseteq {"aic", "text"}
        BY <1>4 DEF Inv, ControlInv, HeldInv, WhereHeld, CodecHeld, Blocks, Locals
    <2>3. {"fp", "pu"} \cap pointers = {}
        BY <1>4, <2>1, <2>2 DEF HeldInv, CodecHeld
    <2>. QED  BY <2>1, <2>2, <2>3 DEF HeldInv
<1>5. CASE ListUid
    <2>1. /\ at = "add principalUid" /\ at' = "mode" /\ codec = "answered"
          /\ codec' = "idle" /\ call' = call /\ Frees({"text"}, {"text"})
        BY <1>5 DEF ListUid, Adds, Goto
    <2>2. /\ freedTwice' = FALSE /\ pointers' = held' /\ held' = held \ {"text"}
          /\ held \subseteq {"aic", "text"}
        BY <1>4, <2>1 DEF Frees
    <2>3. WhereHeld'
        BY <2>1, <2>2 DEF HeldInv, WhereHeld, AicHeld
    <2>. QED  BY <2>1, <2>2, <2>3, GoesOn
\* A line is added, and its locals are freed.
<1>6. ASSUME at \in I2vPlaces \ {"add principalUid"}, NEW name, NEW value,
             NEW locals, Adds(name, value, locals), KeepCodec,
             at' \in {"agentId", "principalUid", "scheme", "reason", "nonce", "listed"},
             held \subseteq {"aic"} \cup locals, "aic" \notin locals
      PROVE  HeldInv'
    <2>1. codec = "idle" /\ freedTwice = FALSE /\ pointers = held
        BY <1>6, Resting
    <2>2. /\ codec' = "idle" /\ call' = call /\ freedTwice' = FALSE
          /\ held' = held \ locals /\ pointers' = held'
        BY <1>6, <2>1 DEF Adds, Frees, KeepCodec, codecVars
    <2>3. held' \subseteq {"aic"} /\ ("aic" \in held' <=> "aic" \in held)
        BY <1>6, <2>2
    <2>4. WhereHeld'
        BY <1>6, <2>2, <2>3 DEF HeldInv, WhereHeld, AicHeld
    <2>. QED  BY <1>6, <2>2, <2>3, <2>4, GoesOn
<1>7. CASE ListVersion \/ ListMode
    <2>1. PICK name, value : Adds(name, value, {})
        BY <1>7 DEF ListVersion, ListMode
    <2>2. at \in {"version", "mode"} /\ at' \in {"agentId", "scheme"} /\ KeepCodec
        BY <1>7 DEF ListVersion, ListMode
    <2>3. held \subseteq {"aic"}
        BY <2>2 DEF Inv, ControlInv, HeldInv, WhereHeld, Blocks, Locals
    <2>. QED  BY <1>6, <2>1, <2>2, <2>3
<1>8. CASE ListAgentId \/ ListReason
    <2>1. PICK name, value : Adds(name, value, {"s"})
        BY <1>8 DEF ListAgentId, ListReason
    <2>2. /\ at \in {"add agentId", "add reason"} /\ at' \in {"principalUid", "nonce"}
          /\ KeepCodec
        BY <1>8 DEF ListAgentId, ListReason
    <2>3. held \subseteq {"aic"} \cup {"s"}
        BY <2>2 DEF Inv, ControlInv, HeldInv, WhereHeld, Blocks, Locals
    <2>. QED  BY <1>6, <2>1, <2>2, <2>3
<1>9. CASE ListNonce
    <2>1. held \subseteq {"aic"} \cup {"hex"}
        BY <1>9 DEF ListNonce, Inv, ControlInv, HeldInv, WhereHeld, Blocks, Locals
    <2>. QED  BY <1>6, <1>9, <2>1 DEF ListNonce
<1>10. CASE ListCapability
    <2>1. held \subseteq {"aic"} \cup {"sid", "cid", "line"}
        BY <1>10 DEF ListCapability, Inv, ControlInv, HeldInv, WhereHeld, Blocks,
           Locals
    <2>. QED  BY <1>6, <1>10, <2>1 DEF ListCapability
\* The list is returned, and nothing is held but the AIC that was listed.
<1>11. ASSUME at \in {"scheme", "listed"}, Returns(list), KeepMemory
       PROVE  HeldInv'
    <2>1. codec = "idle" /\ freedTwice = FALSE /\ pointers = held
        BY <1>11, Resting
    <2>2. /\ at' = "returned" /\ codec' = "idle" /\ call' = call
          /\ freedTwice' = FALSE /\ held' = held /\ pointers' = held
        BY <1>11, <2>1 DEF Returns, KeepMemory, ownershipVars, codecVars
    <2>3. call \in {"certificate", "made"} /\ held \subseteq {"aic"}
        BY <1>11 DEF Inv, ControlInv, HeldInv, WhereHeld, Blocks, Locals
    <2>4. "aic" \in held <=> call = "made"
        BY <1>11 DEF HeldInv, WhereHeld, AicHeld
    <2>. QED  BY <2>1, <2>2, <2>3, <2>4, ReturnsAll
<1>12. CASE CapabilitiesListed
    <2>1. CASE aic.delegationAuthorization = NULL
        BY <1>11, <1>12, <2>1 DEF CapabilitiesListed
    <2>2. CASE aic.delegationAuthorization # NULL
        <3>1. PICK value : Adds("delegationAuthorization", value, {})
            BY <1>12, <2>2 DEF CapabilitiesListed
        <3>2. at = "scheme" /\ at' = "reason" /\ KeepCodec
            BY <1>12, <2>2 DEF CapabilitiesListed
        <3>3. held \subseteq {"aic"}
            BY <3>2 DEF Inv, ControlInv, HeldInv, WhereHeld, Blocks, Locals
        <3>. QED  BY <1>6, <3>1, <3>2, <3>3
    <2>. QED  BY <2>1, <2>2
<1>13. CASE AllListed
    BY <1>11, <1>13 DEF AllListed
<1>14. CASE ListingFails
    <2>1. /\ at \in I2vPlaces /\ (at = "add principalUid" => codec = "answered")
          /\ I2vFails(Locals)
        BY <1>14 DEF ListingFails
    <2>2. codec \in {"idle", "answered"} /\ freedTwice = FALSE /\ pointers = held
        BY <1>4, <2>1, Resting
    <2>3. held \subseteq {"aic"} \cup Locals
        <3>1. {"fp", "pu"} \cap held = {}
            BY <1>4, <2>1, Resting
        <3>. QED  BY <2>1, <3>1 DEF Inv, ControlInv, HeldInv, WhereHeld, Blocks, Locals
    <2>4. call \in {"certificate", "made"} /\ ("aic" \in held <=> call = "made")
        BY <2>1 DEF Inv, ControlInv, HeldInv, WhereHeld, AicHeld
    <2>5. /\ at' = "returned" /\ codec' = codec /\ call' = call
          /\ freedTwice' = FALSE /\ held' = held \ Locals /\ pointers' = held'
        BY <2>1, <2>2 DEF I2vFails, Frees, Returns, codecVars
    <2>6. held' = IF call = "made" THEN {"aic"} ELSE {}
        BY <2>3, <2>4, <2>5 DEF Locals
    <2>7. result' = NULL
        BY <2>1 DEF I2vFails, Returns
    <2>. QED  BY <2>2, <2>4, <2>5, <2>6, <2>7, ReturnsAll
<1>. QED
    BY <1>1, <1>2, <1>3, <1>5, <1>7, <1>8, <1>9, <1>10, <1>12, <1>13, <1>14
    DEF I2vStep

LEMMA CallsHeld ==
    ASSUME Inv, HeldInv, Calls
    PROVE  HeldInv'
<1>. USE DEF V2iPlaces, CapPlaces, I2vPlaces, Go
<1>1. CASE CallV2i \/ CallI2v
    <2>1. /\ at = "idle" /\ at' \in {"new", "version"} /\ codec' = codec
          /\ UNCHANGED <<held, pointers, freedTwice>>
          /\ at' = "version" => call' = "certificate"
        BY <1>1 DEF CallV2i, CallI2v, Begins, codecVars
    <2>2. codec = "idle" /\ freedTwice = FALSE /\ pointers = held
        BY <2>1, Resting
    <2>3. held = {}
        BY <2>1 DEF Inv, ControlInv, HeldInv, WhereHeld, AicHeld, Blocks, Locals
    <2>. QED  BY <2>1, <2>2, <2>3, GoesOn DEF WhereHeld, AicHeld
<1>2. CASE ListResult
    <2>1. /\ at = "returned" /\ call = "section" /\ result # NULL
          /\ at' = "version" /\ call' = "made" /\ codec' = codec
          /\ UNCHANGED <<held, pointers, freedTwice>>
        BY <1>2 DEF ListResult, Begins, codecVars
    <2>2. codec = "idle" /\ freedTwice = FALSE
        BY <2>1 DEF Inv, ControlInv, CodecInv, PointersInv, HeldInv, LostInv
    <2>3. held = {"aic"}
        BY <2>1, <2>2 DEF HeldInv, NothingElseLost
    <2>4. {"fp", "pu"} \cap pointers = {}
        BY <2>2, <2>3 DEF HeldInv, CodecHeld
    <2>5. pointers = held
        BY <2>3, <2>4 DEF HeldInv
    <2>. QED  BY <2>1, <2>2, <2>3, <2>5, GoesOn DEF WhereHeld, AicHeld
<1>3. CASE ReadAgain
    <2>1. /\ at = "returned" /\ call = "made" /\ ~starved /\ at' = "new"
          /\ codec' = codec /\ Frees({"aic"}, {"aic"})
        BY <1>3 DEF ReadAgain, codecVars
    <2>2. codec = "idle" /\ freedTwice = FALSE
        BY <2>1 DEF Inv, ControlInv, CodecInv, PointersInv, HeldInv, LostInv
    <2>3. held = {"aic"}
        BY <2>1, <2>2 DEF HeldInv, NothingElseLost
    <2>4. {"fp", "pu"} \cap pointers = {}
        BY <2>2, <2>3 DEF HeldInv, CodecHeld
    <2>5. pointers = held
        BY <2>3, <2>4 DEF HeldInv
    <2>6. held' = {} /\ pointers' = {} /\ freedTwice' = FALSE
        BY <2>1, <2>2, <2>3, <2>5 DEF Frees
    <2>. QED  BY <2>1, <2>2, <2>6, GoesOn DEF WhereHeld, AicHeld
<1>4. CASE CallerFrees
    <2>1. /\ at' = "idle" /\ codec' = "idle" /\ held' = {} /\ pointers' = {}
          /\ freedTwice' = FALSE
        BY <1>4 DEF CallerFrees
    <2>. QED  BY <2>1, GoesOn DEF WhereHeld, AicHeld
<1>. QED  BY <1>1, <1>2, <1>3, <1>4 DEF Calls

\* Only Err with a principal allocated loses it, and it can only be at work in
\* v2i_AIC.
LEMMA InCodecHeld ==
    ASSUME Inv, HeldInv, InCodec
    PROVE  HeldInv'
<1>1. /\ at \in {"uid", "add principalUid"} /\ at' = at /\ call' = call
      /\ codec \notin {"idle", "answered"} /\ freedTwice = FALSE
      /\ at = "uid" => codec \in ReadPlaces /\ call \in {"section", "listed"}
      /\ at = "add principalUid" => codec \in WritePlaces
    <2>1. CodecOnly /\ UNCHANGED configVars
        BY CodecPointers DEF InCodec, Inv
    <2>. QED
        BY <2>1 DEF CodecOnly, configVars, Inv, ControlInv, CodecInv, PointersInv,
           HeldInv, LostInv, V2iPlaces
<1>2. CodecStep
    BY DEF InCodec
<1>3. HeldInv => NothingElseLost'
    BY <1>1 DEF NothingElseLost
<1>4. (AicHeld <=> AicHeld') /\ (at' \in CapPlaces <=> FALSE)
    BY <1>1 DEF AicHeld, CapPlaces
<1>5. DecodeChar \/ EncodeGroup \/ EncodeEnds =>
         /\ codec' = codec \/ (codec = "encode" /\ codec' = "encoded")
         /\ UNCHANGED <<held, pointers, freedTwice>>
    <2>1. CASE DecodeChar
        BY <2>1 DEF DecodeChar, ownershipVars
    <2>2. CASE EncodeGroup
        BY <2>2 DEF EncodeGroup, ownershipVars
    <2>3. CASE EncodeEnds
        BY <2>3 DEF EncodeEnds, ownershipVars, Goto
    <2>. QED  BY <2>1, <2>2, <2>3
<1>. USE DEF HeldInv, WhereHeld, CodecHeld, LostInv, Goto, ReadPlaces, WritePlaces
<1>6. CASE NewDecoded \/ NewEncoded
    BY <1>1, <1>3, <1>4, <1>6 DEF NewDecoded, NewEncoded, Allocates
<1>7. CASE DecodeChar \/ EncodeGroup \/ EncodeEnds
    BY <1>1, <1>3, <1>4, <1>5, <1>7
<1>8. ASSUME Refuse, codec = "decode"
      PROVE  HeldInv'
    BY <1>1, <1>3, <1>4, <1>8 DEF Refuse, Frees, NotReturned
<1>9. CASE BadChar
    BY <1>8, <1>9 DEF BadChar, Decoding
<1>10. CASE DecodeEnds
    <2>1. CASE Refuse
        BY <1>8, <1>10, <2>1 DEF DecodeEnds
    <2>2. CASE codec' \in {"decoded", "err"} /\ UNCHANGED ownershipVars
        BY <1>1, <1>3, <1>4, <1>10, <2>2 DEF DecodeEnds, ownershipVars
    <2>. QED  BY <1>10, <2>1, <2>2 DEF DecodeEnds
<1>11. CASE NewUid
    BY <1>1, <1>3, <1>4, <1>11 DEF NewUid, Allocates
<1>12. CASE FillUid
    BY <1>1, <1>3, <1>4, <1>12 DEF FillUid, Frees
<1>13. CASE SetHashAlgo
    BY <1>1, <1>3, <1>4, <1>13 DEF SetHashAlgo, Frees
<1>14. CASE Err
    <2>1. CASE "pu" \in held
        BY <1>1, <1>3, <1>4, <1>14, <2>1 DEF Err, Frees
    <2>2. CASE "pu" \notin held
        BY <1>1, <1>3, <1>4, <1>14, <2>2 DEF Err, Frees
    <2>. QED  BY <2>1, <2>2
<1>15. CASE Join
    BY <1>1, <1>3, <1>4, <1>15 DEF Join, HandsOver
<1>16. CASE NewDecodedFails \/ NewUidFails \/ SetHashAlgoFails
    <2>1. /\ codec \in {"read", "decoded", "filled"} /\ codec' = "err"
          /\ UNCHANGED <<held, pointers, freedTwice>>
        BY <1>16 DEF NewDecodedFails, NewUidFails, SetHashAlgoFails, StarvesToErr
    <2>. QED  BY <1>1, <1>3, <1>4, <2>1
<1>17. CASE FillUidFails
    BY <1>1, <1>3, <1>4, <1>17 DEF FillUidFails, Frees
<1>18. CASE NewEncodedFails \/ JoinFails
    BY <1>1, <1>3, <1>4, <1>18 DEF NewEncodedFails, JoinFails, WriteFails, Frees
<1>. QED
    BY <1>2, <1>6, <1>7, <1>9, <1>10, <1>11, <1>12, <1>13, <1>14, <1>15, <1>16,
       <1>17, <1>18 DEF CodecStep, CodecFails

\* When a call returns, it holds no block but the AIC it made, whatever
\* allocations failed and whichever line was refused: only the principal is
\* lost, when its hash algorithm cannot be allocated (v2i_AIC, parse_cap,
\* i2v_AIC and AIC_principalUid_from_string).
THEOREM OnlyPrincipalLost == Spec => []NothingElseLost
<1>1. Init => HeldInv
    BY DEF Init, CodecInit, OwnershipInit, HeldInv, WhereHeld, AicHeld, CodecHeld,
       LostInv, NothingElseLost, V2iPlaces, I2vPlaces
<1>2. Inv /\ HeldInv /\ [Next]_vars => HeldInv'
    <2>. SUFFICES ASSUME Inv, HeldInv, [Next]_vars PROVE HeldInv'
        OBVIOUS
    <2>1. CASE UNCHANGED vars
        <3>1. UNCHANGED <<at, call, result, codec, held, pointers, freedTwice>>
            BY <2>1 DEF vars, configVars, codecVars, ownershipVars
        <3>2. WhereHeld' <=> WhereHeld
            BY <3>1 DEF WhereHeld, AicHeld
        <3>3. CodecHeld' <=> CodecHeld
            BY <3>1 DEF CodecHeld
        <3>4. (LostInv' <=> LostInv) /\ (NothingElseLost' <=> NothingElseLost)
            BY <3>1 DEF LostInv, NothingElseLost
        <3>. QED  BY <3>1, <3>2, <3>3, <3>4 DEF HeldInv
    <2>. QED
        BY <2>1, V2iHeld, I2vHeld, CallsHeld, InCodecHeld DEF Next, Calls
<1>3. HeldInv => NothingElseLost
    BY DEF HeldInv
<1>. QED  BY <1>1, <1>2, <1>3, Invariance, PTL DEF Spec

-----------------------------------------------------------------------------
(***************************************************************************)
(* What a fingerprint spells, and what the codec reads and writes          *)
(***************************************************************************)
\* The bits of a character, the highest first.
LEMMA SextetBits ==
    ASSUME NEW c \in 0..63
    PROVE  \E b5, b4, b3, b2, b1, b0 \in 0..1 :
              /\ c = 32 * b5 + 16 * b4 + 8 * b3 + 4 * b2 + 2 * b1 + b0
              /\ Field(c, 5, 1) = b5 /\ Field(c, 4, 1) = b4 /\ Field(c, 3, 1) = b3
              /\ Field(c, 2, 1) = b2 /\ Field(c, 1, 1) = b1 /\ Field(c, 0, 1) = b0
<1>1. /\ Field(c, 5, 1) = (c \div 32) % 2 /\ Field(c, 4, 1) = (c \div 16) % 2
      /\ Field(c, 3, 1) = (c \div 8) % 2 /\ Field(c, 2, 1) = (c \div 4) % 2
      /\ Field(c, 1, 1) = (c \div 2) % 2 /\ Field(c, 0, 1) = (c \div 1) % 2
    BY DEF Field
<1>2. PICK b5, b4, b3, b2, b1, b0 :
         /\ b5 = (c \div 32) % 2 /\ b4 = (c \div 16) % 2 /\ b3 = (c \div 8) % 2
         /\ b2 = (c \div 4) % 2 /\ b1 = (c \div 2) % 2 /\ b0 = (c \div 1) % 2
    OBVIOUS
<1>3. /\ b5 \in 0..1 /\ b4 \in 0..1 /\ b3 \in 0..1
      /\ b2 \in 0..1 /\ b1 \in 0..1 /\ b0 \in 0..1
    BY <1>2
<1>4. c = 32 * b5 + 16 * b4 + 8 * b3 + 4 * b2 + 2 * b1 + b0
    BY <1>2
<1>5. /\ Field(c, 5, 1) = b5 /\ Field(c, 4, 1) = b4 /\ Field(c, 3, 1) = b3
      /\ Field(c, 2, 1) = b2 /\ Field(c, 1, 1) = b1 /\ Field(c, 0, 1) = b0
    BY <1>1, <1>2
<1>. QED  BY <1>3, <1>4, <1>5

LEMMA BitPlace ==
    ASSUME NEW s, NEW g \in Nat
    PROVE  /\ BitOf(s, 6 * g + 1) = Field(s[g + 1], 5, 1)
           /\ BitOf(s, 6 * g + 2) = Field(s[g + 1], 4, 1)
           /\ BitOf(s, 6 * g + 3) = Field(s[g + 1], 3, 1)
           /\ BitOf(s, 6 * g + 4) = Field(s[g + 1], 2, 1)
           /\ BitOf(s, 6 * g + 5) = Field(s[g + 1], 1, 1)
           /\ BitOf(s, 6 * g + 6) = Field(s[g + 1], 0, 1)
<1>1. BitOf(s, 6 * g + 1) = Field(s[g + 1], 5, 1)
    <2>1. 1 + ((6 * g + 1 - 1) \div 6) = g + 1 /\ 5 - ((6 * g + 1 - 1) % 6) = 5
        BY SMT
    <2>. QED  BY <2>1 DEF BitOf
<1>2. BitOf(s, 6 * g + 2) = Field(s[g + 1], 4, 1)
    <2>1. 1 + ((6 * g + 2 - 1) \div 6) = g + 1 /\ 5 - ((6 * g + 2 - 1) % 6) = 4
        BY SMT
    <2>. QED  BY <2>1 DEF BitOf
<1>3. BitOf(s, 6 * g + 3) = Field(s[g + 1], 3, 1)
    <2>1. 1 + ((6 * g + 3 - 1) \div 6) = g + 1 /\ 5 - ((6 * g + 3 - 1) % 6) = 3
        BY SMT
    <2>. QED  BY <2>1 DEF BitOf
<1>4. BitOf(s, 6 * g + 4) = Field(s[g + 1], 2, 1)
    <2>1. 1 + ((6 * g + 4 - 1) \div 6) = g + 1 /\ 5 - ((6 * g + 4 - 1) % 6) = 2
        BY SMT
    <2>. QED  BY <2>1 DEF BitOf
<1>5. BitOf(s, 6 * g + 5) = Field(s[g + 1], 1, 1)
    <2>1. 1 + ((6 * g + 5 - 1) \div 6) = g + 1 /\ 5 - ((6 * g + 5 - 1) % 6) = 1
        BY SMT
    <2>. QED  BY <2>1 DEF BitOf
<1>6. BitOf(s, 6 * g + 6) = Field(s[g + 1], 0, 1)
    <2>1. 1 + ((6 * g + 6 - 1) \div 6) = g + 1 /\ 5 - ((6 * g + 6 - 1) % 6) = 0
        BY SMT
    <2>. QED  BY <2>1 DEF BitOf
<1>. QED  BY <1>1, <1>2, <1>3, <1>4, <1>5, <1>6

\* The six bits of the character in place g + 1.
LEMMA SextetPlaces ==
    ASSUME NEW s, NEW g \in Nat, s[g + 1] \in 0..63
    PROVE  \E b5, b4, b3, b2, b1, b0 \in 0..1 :
              /\ s[g + 1] = 32 * b5 + 16 * b4 + 8 * b3 + 4 * b2 + 2 * b1 + b0
              /\ BitOf(s, 6 * g + 1) = b5 /\ BitOf(s, 6 * g + 2) = b4
              /\ BitOf(s, 6 * g + 3) = b3 /\ BitOf(s, 6 * g + 4) = b2
              /\ BitOf(s, 6 * g + 5) = b1 /\ BitOf(s, 6 * g + 6) = b0
<1>1. PICK c \in 0..63 : c = s[g + 1]
    OBVIOUS
<1>2. PICK b5, b4, b3, b2, b1, b0 \in 0..1 :
         /\ c = 32 * b5 + 16 * b4 + 8 * b3 + 4 * b2 + 2 * b1 + b0
         /\ Field(c, 5, 1) = b5 /\ Field(c, 4, 1) = b4 /\ Field(c, 3, 1) = b3
         /\ Field(c, 2, 1) = b2 /\ Field(c, 1, 1) = b1 /\ Field(c, 0, 1) = b0
    BY SextetBits, Zenon
<1>3. /\ BitOf(s, 6 * g + 1) = b5 /\ BitOf(s, 6 * g + 2) = b4
      /\ BitOf(s, 6 * g + 3) = b3 /\ BitOf(s, 6 * g + 4) = b2
      /\ BitOf(s, 6 * g + 5) = b1 /\ BitOf(s, 6 * g + 6) = b0
    BY <1>1, <1>2, BitPlace, Zenon
<1>4. s[g + 1] = 32 * b5 + 16 * b4 + 8 * b3 + 4 * b2 + 2 * b1 + b0
    BY <1>1, <1>2, Zenon
<1>. QED  BY <1>2, <1>3, <1>4

\* Three bytes lie across four characters.
LEMMA ByteFirst ==
    ASSUME NEW s, NEW m \in Nat, s[4 * m + 1] \in 0..63, s[4 * m + 2] \in 0..63
    PROVE  ByteOf(s, 3 * m + 1) = 4 * s[4 * m + 1] + (s[4 * m + 2] \div 16)
<1>1. PICK g \in Nat, h \in Nat : g = 4 * m + 0 /\ h = g + 1
    OBVIOUS
<1>2. PICK c \in 0..63, d \in 0..63 : c = s[g + 1] /\ d = s[h + 1]
    <2>1. 4 * m + 1 = g + 1 /\ 4 * m + 2 = h + 1
        BY <1>1
    <2>. QED  BY <2>1
<1>3. PICK c5, c4, c3, c2, c1, c0 \in 0..1 :
         /\ s[g + 1] = 32 * c5 + 16 * c4 + 8 * c3 + 4 * c2 + 2 * c1 + c0
         /\ BitOf(s, 6 * g + 1) = c5
         /\ BitOf(s, 6 * g + 2) = c4
         /\ BitOf(s, 6 * g + 3) = c3
         /\ BitOf(s, 6 * g + 4) = c2
         /\ BitOf(s, 6 * g + 5) = c1
         /\ BitOf(s, 6 * g + 6) = c0
    <2>1. g \in Nat /\ s[g + 1] \in 0..63
        BY <1>1, <1>2
    <2>. QED  BY <2>1, SextetPlaces
<1>4. PICK d5, d4, d3, d2, d1, d0 \in 0..1 :
         /\ s[h + 1] = 32 * d5 + 16 * d4 + 8 * d3 + 4 * d2 + 2 * d1 + d0
         /\ BitOf(s, 6 * h + 1) = d5
         /\ BitOf(s, 6 * h + 2) = d4
         /\ BitOf(s, 6 * h + 3) = d3
         /\ BitOf(s, 6 * h + 4) = d2
         /\ BitOf(s, 6 * h + 5) = d1
         /\ BitOf(s, 6 * h + 6) = d0
    <2>1. h \in Nat /\ s[h + 1] \in 0..63
        BY <1>1, <1>2
    <2>. QED  BY <2>1, SextetPlaces
<1>5. PICK k \in Nat : k = 8 * ((3 * m + 1) - 1)
    OBVIOUS
<1>6. /\ k + 1 = 6 * g + 1 /\ k + 2 = 6 * g + 2
      /\ k + 3 = 6 * g + 3 /\ k + 4 = 6 * g + 4
      /\ k + 5 = 6 * g + 5 /\ k + 6 = 6 * g + 6
      /\ k + 7 = 6 * h + 1 /\ k + 8 = 6 * h + 2
    BY <1>1, <1>5
<1>7. /\ BitOf(s, k + 1) = c5 /\ BitOf(s, k + 2) = c4
      /\ BitOf(s, k + 3) = c3 /\ BitOf(s, k + 4) = c2
      /\ BitOf(s, k + 5) = c1 /\ BitOf(s, k + 6) = c0
      /\ BitOf(s, k + 7) = d5 /\ BitOf(s, k + 8) = d4
    BY <1>3, <1>4, <1>6, Zenon
<1>8. ByteOf(s, 3 * m + 1) =
        128 * c5 + 64 * c4 + 32 * c3 + 16 * c2 + 8 * c1 + 4 * c0 + 2 * d5 + d4
    BY <1>5, <1>7 DEF ByteOf
<1>9. 128 * c5 + 64 * c4 + 32 * c3 + 16 * c2 + 8 * c1 + 4 * c0 + 2 * d5 + d4 = 4 * c + (d \div 16)
    BY <1>2, <1>3, <1>4, SMT
<1>. QED  BY <1>1, <1>2, <1>8, <1>9, SMT

LEMMA ByteSecond ==
    ASSUME NEW s, NEW m \in Nat, s[4 * m + 2] \in 0..63, s[4 * m + 3] \in 0..63
    PROVE  ByteOf(s, 3 * m + 2) = 16 * (s[4 * m + 2] % 16) + (s[4 * m + 3] \div 4)
<1>1. PICK g \in Nat, h \in Nat : g = 4 * m + 1 /\ h = g + 1
    OBVIOUS
<1>2. PICK c \in 0..63, d \in 0..63 : c = s[g + 1] /\ d = s[h + 1]
    <2>1. 4 * m + 2 = g + 1 /\ 4 * m + 3 = h + 1
        BY <1>1
    <2>. QED  BY <2>1
<1>3. PICK c5, c4, c3, c2, c1, c0 \in 0..1 :
         /\ s[g + 1] = 32 * c5 + 16 * c4 + 8 * c3 + 4 * c2 + 2 * c1 + c0
         /\ BitOf(s, 6 * g + 1) = c5
         /\ BitOf(s, 6 * g + 2) = c4
         /\ BitOf(s, 6 * g + 3) = c3
         /\ BitOf(s, 6 * g + 4) = c2
         /\ BitOf(s, 6 * g + 5) = c1
         /\ BitOf(s, 6 * g + 6) = c0
    <2>1. g \in Nat /\ s[g + 1] \in 0..63
        BY <1>1, <1>2
    <2>. QED  BY <2>1, SextetPlaces
<1>4. PICK d5, d4, d3, d2, d1, d0 \in 0..1 :
         /\ s[h + 1] = 32 * d5 + 16 * d4 + 8 * d3 + 4 * d2 + 2 * d1 + d0
         /\ BitOf(s, 6 * h + 1) = d5
         /\ BitOf(s, 6 * h + 2) = d4
         /\ BitOf(s, 6 * h + 3) = d3
         /\ BitOf(s, 6 * h + 4) = d2
         /\ BitOf(s, 6 * h + 5) = d1
         /\ BitOf(s, 6 * h + 6) = d0
    <2>1. h \in Nat /\ s[h + 1] \in 0..63
        BY <1>1, <1>2
    <2>. QED  BY <2>1, SextetPlaces
<1>5. PICK k \in Nat : k = 8 * ((3 * m + 2) - 1)
    OBVIOUS
<1>6. /\ k + 1 = 6 * g + 3 /\ k + 2 = 6 * g + 4
      /\ k + 3 = 6 * g + 5 /\ k + 4 = 6 * g + 6
      /\ k + 5 = 6 * h + 1 /\ k + 6 = 6 * h + 2
      /\ k + 7 = 6 * h + 3 /\ k + 8 = 6 * h + 4
    BY <1>1, <1>5
<1>7. /\ BitOf(s, k + 1) = c3 /\ BitOf(s, k + 2) = c2
      /\ BitOf(s, k + 3) = c1 /\ BitOf(s, k + 4) = c0
      /\ BitOf(s, k + 5) = d5 /\ BitOf(s, k + 6) = d4
      /\ BitOf(s, k + 7) = d3 /\ BitOf(s, k + 8) = d2
    BY <1>3, <1>4, <1>6, Zenon
<1>8. ByteOf(s, 3 * m + 2) =
        128 * c3 + 64 * c2 + 32 * c1 + 16 * c0 + 8 * d5 + 4 * d4 + 2 * d3 + d2
    BY <1>5, <1>7 DEF ByteOf
<1>9. 128 * c3 + 64 * c2 + 32 * c1 + 16 * c0 + 8 * d5 + 4 * d4 + 2 * d3 + d2 = 16 * (c % 16) + (d \div 4)
    BY <1>2, <1>3, <1>4, SMT
<1>. QED  BY <1>1, <1>2, <1>8, <1>9, SMT

LEMMA ByteThird ==
    ASSUME NEW s, NEW m \in Nat, s[4 * m + 3] \in 0..63, s[4 * m + 4] \in 0..63
    PROVE  ByteOf(s, 3 * m + 3) = 64 * (s[4 * m + 3] % 4) + s[4 * m + 4]
<1>1. PICK g \in Nat, h \in Nat : g = 4 * m + 2 /\ h = g + 1
    OBVIOUS
<1>2. PICK c \in 0..63, d \in 0..63 : c = s[g + 1] /\ d = s[h + 1]
    <2>1. 4 * m + 3 = g + 1 /\ 4 * m + 4 = h + 1
        BY <1>1
    <2>. QED  BY <2>1
<1>3. PICK c5, c4, c3, c2, c1, c0 \in 0..1 :
         /\ s[g + 1] = 32 * c5 + 16 * c4 + 8 * c3 + 4 * c2 + 2 * c1 + c0
         /\ BitOf(s, 6 * g + 1) = c5
         /\ BitOf(s, 6 * g + 2) = c4
         /\ BitOf(s, 6 * g + 3) = c3
         /\ BitOf(s, 6 * g + 4) = c2
         /\ BitOf(s, 6 * g + 5) = c1
         /\ BitOf(s, 6 * g + 6) = c0
    <2>1. g \in Nat /\ s[g + 1] \in 0..63
        BY <1>1, <1>2
    <2>. QED  BY <2>1, SextetPlaces
<1>4. PICK d5, d4, d3, d2, d1, d0 \in 0..1 :
         /\ s[h + 1] = 32 * d5 + 16 * d4 + 8 * d3 + 4 * d2 + 2 * d1 + d0
         /\ BitOf(s, 6 * h + 1) = d5
         /\ BitOf(s, 6 * h + 2) = d4
         /\ BitOf(s, 6 * h + 3) = d3
         /\ BitOf(s, 6 * h + 4) = d2
         /\ BitOf(s, 6 * h + 5) = d1
         /\ BitOf(s, 6 * h + 6) = d0
    <2>1. h \in Nat /\ s[h + 1] \in 0..63
        BY <1>1, <1>2
    <2>. QED  BY <2>1, SextetPlaces
<1>5. PICK k \in Nat : k = 8 * ((3 * m + 3) - 1)
    OBVIOUS
<1>6. /\ k + 1 = 6 * g + 5 /\ k + 2 = 6 * g + 6
      /\ k + 3 = 6 * h + 1 /\ k + 4 = 6 * h + 2
      /\ k + 5 = 6 * h + 3 /\ k + 6 = 6 * h + 4
      /\ k + 7 = 6 * h + 5 /\ k + 8 = 6 * h + 6
    BY <1>1, <1>5
<1>7. /\ BitOf(s, k + 1) = c1 /\ BitOf(s, k + 2) = c0
      /\ BitOf(s, k + 3) = d5 /\ BitOf(s, k + 4) = d4
      /\ BitOf(s, k + 5) = d3 /\ BitOf(s, k + 6) = d2
      /\ BitOf(s, k + 7) = d1 /\ BitOf(s, k + 8) = d0
    BY <1>3, <1>4, <1>6, Zenon
<1>8. ByteOf(s, 3 * m + 3) =
        128 * c1 + 64 * c0 + 32 * d5 + 16 * d4 + 8 * d3 + 4 * d2 + 2 * d1 + d0
    BY <1>5, <1>7 DEF ByteOf
<1>9. 128 * c1 + 64 * c0 + 32 * d5 + 16 * d4 + 8 * d3 + 4 * d2 + 2 * d1 + d0 = 64 * (c % 4) + d
    BY <1>2, <1>3, <1>4, SMT
<1>. QED  BY <1>1, <1>2, <1>8, <1>9, SMT

\* The last bits of a character, when six, four or two of them fill no byte.
LastBits(s, n, b) == {BitOf(s, k) : k \in 6 * n - b + 1..6 * n}

LEMMA LastBitsZero ==
    ASSUME NEW s, NEW g \in Nat, s[g + 1] \in 0..63
    PROVE  /\ LastBits(s, g + 1, 6) \subseteq {0} <=> s[g + 1] = 0
           /\ LastBits(s, g + 1, 4) \subseteq {0} <=> s[g + 1] % 16 = 0
           /\ LastBits(s, g + 1, 2) \subseteq {0} <=> s[g + 1] % 4 = 0
<1>1. PICK b5, b4, b3, b2, b1, b0 \in 0..1 :
         /\ s[g + 1] = 32 * b5 + 16 * b4 + 8 * b3 + 4 * b2 + 2 * b1 + b0
         /\ BitOf(s, 6 * g + 1) = b5 /\ BitOf(s, 6 * g + 2) = b4
         /\ BitOf(s, 6 * g + 3) = b3 /\ BitOf(s, 6 * g + 4) = b2
         /\ BitOf(s, 6 * g + 5) = b1 /\ BitOf(s, 6 * g + 6) = b0
    BY SextetPlaces
<1>. DEFINE Zero(b) == \A k \in 6 * (g + 1) - b + 1..6 * (g + 1) : BitOf(s, k) = 0
<1>2. Zero(2) <=> b1 = 0 /\ b0 = 0
    <2>1. 6 * (g + 1) - 2 + 1..6 * (g + 1) = {6 * g + 5, 6 * g + 6}
        BY SMT
    <2>. QED  BY <1>1, <2>1
<1>3. Zero(4) <=> b3 = 0 /\ b2 = 0 /\ b1 = 0 /\ b0 = 0
    <2>1. 6 * (g + 1) - 4 + 1..6 * (g + 1) =
             {6 * g + 3, 6 * g + 4, 6 * g + 5, 6 * g + 6}
        BY SMT
    <2>. QED  BY <1>1, <2>1
<1>4. Zero(6) <=> b5 = 0 /\ b4 = 0 /\ b3 = 0 /\ b2 = 0 /\ b1 = 0 /\ b0 = 0
    <2>1. 6 * (g + 1) - 6 + 1..6 * (g + 1) =
             {6 * g + 1, 6 * g + 2, 6 * g + 3, 6 * g + 4, 6 * g + 5, 6 * g + 6}
        BY SMT
    <2>. QED  BY <1>1, <2>1
<1>5. s[g + 1] % 4 = 2 * b1 + b0
    BY <1>1
<1>6. s[g + 1] % 16 = 8 * b3 + 4 * b2 + 2 * b1 + b0
    BY <1>1
<1>7. Zero(2) <=> s[g + 1] % 4 = 0
    BY <1>1, <1>2, <1>5
<1>8. Zero(4) <=> s[g + 1] % 16 = 0
    BY <1>1, <1>3, <1>6
<1>9. Zero(6) <=> s[g + 1] = 0
    BY <1>1, <1>4
<1>10. \A b : LastBits(s, g + 1, b) \subseteq {0} <=> Zero(b)
    BY DEF LastBits
<1>. QED  BY <1>7, <1>8, <1>9, <1>10

\* The length of what is spelled, and the bits behind it.
LEMMA SpelledLength ==
    ASSUME NEW s, NEW n \in Nat, Len(s) = n, NEW m \in Nat, NEW b \in {0, 2, 4, 6},
           8 * m + b = 6 * n
    PROVE  /\ Spelled(s) = [k \in 1..m |-> ByteOf(s, k)]
           /\ Len(Spelled(s)) = m
           /\ LeftOver(s) = LastBits(s, n, b)
<1>1. (6 * n) \div 8 = m
    BY SMT
<1>2. Spelled(s) = [k \in 1..m |-> ByteOf(s, k)]
    BY <1>1 DEF Spelled
<1>3. Len(Spelled(s)) = m
    BY <1>2
<1>4. 8 * m + 1 = 6 * n - b + 1
    BY SMT
<1>5. LeftOver(s) = LastBits(s, n, b)
    BY <1>3, <1>4 DEF LeftOver, LastBits
<1>. QED  BY <1>2, <1>3, <1>5

\* Characters that agree spell bytes that agree.
LEMMA SameBits ==
    ASSUME NEW s, NEW t, NEW n \in Nat, \A i \in 1..n : s[i] = t[i]
    PROVE  \A k \in 1..6 * n : BitOf(s, k) = BitOf(t, k)
<1>. SUFFICES ASSUME NEW k \in 1..6 * n PROVE BitOf(s, k) = BitOf(t, k)
    OBVIOUS
<1>1. 1 + ((k - 1) \div 6) \in 1..n
    BY SMT
<1>. QED  BY <1>1 DEF BitOf

LEMMA SameByte ==
    ASSUME NEW s, NEW t, NEW n \in Nat, \A i \in 1..n : s[i] = t[i],
           NEW k \in Nat, k # 0, 8 * k <= 6 * n
    PROVE  ByteOf(s, k) = ByteOf(t, k)
<1>1. ASSUME NEW i \in 1..8 PROVE 8 * (k - 1) + i \in 1..6 * n
    BY <1>1, SMT
<1>2. \A i \in 1..8 : BitOf(s, 8 * (k - 1) + i) = BitOf(t, 8 * (k - 1) + i)
    BY <1>1, SameBits
<1>. QED  BY <1>2 DEF ByteOf

\* The last two characters of what is collected.
LowBits(v, x, y) == v % 4096 = 64 * x + y

\* What is kept of the bits collected.
LEMMA ShiftedBits ==
    ASSUME NEW a \in Int, NEW c \in 0..63
    PROVE  /\ LowBits((64 * a + c) % (2 * (IntMax + 1)), a % 64, c)
           /\ (64 * a + c) % (2 * (IntMax + 1)) \in Nat
<1>1. PICK r \in Int : 2 * (IntMax + 1) = 65536 * r /\ 65536 * r > 0
    <2>1. IntMax \in Nat /\ (IntMax + 1) % 32768 = 0
        BY ExtensionConstants, IntHasSixteenBits
    <2>2. PICK r : r = (IntMax + 1) \div 32768
        OBVIOUS
    <2>3. r \in Int /\ IntMax + 1 = 32768 * r
        BY <2>1, <2>2, SMT
    <2>. QED  BY <2>1, <2>3, SMT
<1>2. PICK M \in Nat \ {0}, x \in Int, y \in Int : M = 65536 * r /\ x = 64 * a + c /\ y = x % M
    BY <1>1, SMT
<1>3. y \in Nat
    BY <1>2
<1>4. PICK q \in Int : x = M * q + y
    <2>1. PICK q : q = x \div M
        OBVIOUS
    <2>2. q \in Int /\ x = M * q + y
        BY <1>2, <2>1, SMT
    <2>. QED  BY <2>2
<1>5. PICK t \in Int : t = r * q
    OBVIOUS
<1>6. M * q = 65536 * t
    BY <1>2, <1>5, SMT
<1>7. PICK A \in Int, p \in 0..63 : a = 64 * A + p /\ p = a % 64
    <2>1. PICK A, p : A = a \div 64 /\ p = a % 64
        OBVIOUS
    <2>2. A \in Int /\ p \in 0..63 /\ a = 64 * A + p
        BY <2>1, SMT
    <2>. QED  BY <2>1, <2>2
<1>8. y = 4096 * (A - 16 * t) + (64 * p + c) /\ A - 16 * t \in Int
    BY <1>2, <1>3, <1>4, <1>6, <1>7, SMT
<1>9. y % 4096 = 64 * p + c
    BY <1>3, <1>8, SMT
<1>10. LowBits(y, p, c)
    BY <1>9 DEF LowBits
<1>. QED  BY <1>1, <1>2, <1>3, <1>7, <1>10

\* The byte that the eight bits above n of a 12-bit number make.
LEMMA ByteAbove ==
    ASSUME NEW v \in Nat, NEW p \in 0..63, NEW c \in 0..63, LowBits(v, p, c)
    PROVE  /\ Field(v, 4, 8) = 4 * p + (c \div 16)
           /\ Field(v, 2, 8) = 16 * (p % 16) + (c \div 4)
           /\ Field(v, 0, 8) = 64 * (p % 4) + c
           /\ v % 64 = c
<1>1. PICK A \in Nat : v = 4096 * A + (64 * p + c)
    <2>1. PICK A, r : A = v \div 4096 /\ r = v % 4096
        OBVIOUS
    <2>2. A \in Nat /\ v = 4096 * A + r
        BY <2>1, SMT
    <2>. QED  BY <2>1, <2>2, SMT DEF LowBits
<1>2. Field(v, 4, 8) = (v \div 16) % 256
    BY SMT DEF Field
<1>3. Field(v, 2, 8) = (v \div 4) % 256
    BY SMT DEF Field
<1>4. Field(v, 0, 8) = (v \div 1) % 256
    BY SMT DEF Field
<1>5. (v \div 16) % 256 = 4 * p + (c \div 16)
    BY <1>1, SMT
<1>6. (v \div 4) % 256 = 16 * (p % 16) + (c \div 4)
    BY <1>1, SMT
<1>7. (v \div 1) % 256 = 64 * (p % 4) + c
    BY <1>1, SMT
<1>8. v % 64 = c
    BY <1>1, SMT
<1>. QED  BY <1>2, <1>3, <1>4, <1>5, <1>6, <1>7, <1>8, SMT

Sextet(v, k) == Field(v, 24 - 6 * k, 6)
Group(a, b, c) == a * 65536 + b * 256 + c

\* The groups w, x, y, z of v and the bytes a, b, c.
Spells(v, w, x, y, z, a, b, c) ==
    /\ Sextet(v, 1) = w /\ Sextet(v, 2) = x
    /\ Sextet(v, 3) = y /\ Sextet(v, 4) = z
    /\ 4 * w + (x \div 16) = a
    /\ 16 * (x % 16) + (y \div 4) = b
    /\ 64 * (y % 4) + z = c
    /\ b = 0 => x % 16 = 0
    /\ c = 0 => y % 4 = 0

\* They spell the bytes, and the bits they leave are zero:
\* the four characters of three bytes, the three of two, the two of one.
LEMMA SextetsSpell ==
    ASSUME NEW a \in 0..255, NEW b \in 0..255, NEW c \in 0..255,
           NEW v \in Int, v = Group(a, b, c)
    PROVE  \E w, x, y, z \in 0..63 : Spells(v, w, x, y, z, a, b, c)
<1>1. PICK w \in 0..63, a0 \in 0..3 : w = a \div 4 /\ a0 = a % 4 /\ a = 4 * w + a0
    BY SMT
<1>2. PICK b1 \in 0..15, b0 \in 0..15 : b1 = b \div 16 /\ b0 = b % 16 /\ b = 16 * b1 + b0
    BY SMT
<1>3. PICK c1 \in 0..3, z \in 0..63 : c1 = c \div 64 /\ z = c % 64 /\ c = 64 * c1 + z
    BY SMT
<1>4. PICK x, y : x = 16 * a0 + b1 /\ y = 4 * b0 + c1
    OBVIOUS
<1>5. x \in 0..63 /\ y \in 0..63 /\ x \div 16 = a0 /\ x % 16 = b1 /\ y \div 4 = b0 /\ y % 4 = c1
    BY <1>4, SMT
<1>6. 4 * w + (x \div 16) = a /\ 16 * (x % 16) + (y \div 4) = b /\ 64 * (y % 4) + z = c
    BY <1>1, <1>2, <1>3, <1>5, SMT
<1>7. (b = 0 => x % 16 = 0) /\ (c = 0 => y % 4 = 0)
    BY <1>2, <1>3, <1>5, SMT
<1>8. /\ Sextet(v, 1) = w /\ Sextet(v, 2) = x
      /\ Sextet(v, 3) = y /\ Sextet(v, 4) = z
    <2>1. Sextet(v, 1) = (v \div 262144) % 64
        <3>1. Field(v, 18, 6) = (v \div 262144) % 64
            BY SMT DEF Field
        <3>. QED  BY <3>1, SMT DEF Sextet
    <2>2. Sextet(v, 2) = (v \div 4096) % 64
        <3>1. Field(v, 12, 6) = (v \div 4096) % 64
            BY SMT DEF Field
        <3>. QED  BY <3>1, SMT DEF Sextet
    <2>3. Sextet(v, 3) = (v \div 64) % 64
        <3>1. Field(v, 6, 6) = (v \div 64) % 64
            BY SMT DEF Field
        <3>. QED  BY <3>1, SMT DEF Sextet
    <2>4. Sextet(v, 4) = (v \div 1) % 64
        <3>1. Field(v, 0, 6) = (v \div 1) % 64
            BY SMT DEF Field
        <3>. QED  BY <3>1, SMT DEF Sextet
    <2>5. v = 262144 * w + (65536 * a0 + 4096 * b1 + 256 * b0 + 64 * c1 + z)
        BY <1>1, <1>2, <1>3, SMT DEF Group
    <2>6. v \div 262144 = w
        BY <1>1, <1>2, <1>3, <2>5, SMT
    <2>7. v \div 4096 = 64 * w + (16 * a0 + b1)
        BY <1>1, <1>2, <1>3, <2>5, SMT
    <2>8. v \div 64 = 64 * (64 * w + (16 * a0 + b1)) + (4 * b0 + c1)
        BY <1>1, <1>2, <1>3, <2>5, SMT
    <2>9. v \div 1 = 64 * (64 * (64 * w + (16 * a0 + b1)) + (4 * b0 + c1)) + z
        BY <1>1, <1>2, <1>3, <2>5, SMT
    <2>10. Sextet(v, 1) = w
        BY <1>1, <2>1, <2>6, SMT
    <2>11. Sextet(v, 2) = x
        BY <1>1, <1>4, <1>5, <2>2, <2>7, SMT
    <2>12. Sextet(v, 3) = y
        BY <1>1, <1>4, <1>5, <2>3, <2>8, SMT
    <2>13. Sextet(v, 4) = z
        BY <1>1, <1>2, <1>3, <2>4, <2>9, SMT
    <2>. QED  BY <2>10, <2>11, <2>12, <2>13
<1>9. w \in 0..63 /\ x \in 0..63 /\ y \in 0..63 /\ z \in 0..63
    BY <1>1, <1>3, <1>5
<1>10. Spells(v, w, x, y, z, a, b, c)
    BY <1>6, <1>7, <1>8 DEF Spells
<1>. QED  BY <1>9, <1>10, Zenon

-----------------------------------------------------------------------------
\* What is decoded so far, and the character whose bits are left.
DecodeMeans ==
    /\ \A k \in 1..pos : Characters[k] >= 0
    /\ pos # 0 => acc % 64 = Characters[pos]
    /\ \A k \in 1..Len(built) : built[k] = ByteOf(Characters, k)

\* While a string is read, and when it was.
ReadMeans ==
    /\ codec \in {"read", "decode", "decoded", "filling", "filled"} => Splits(string)
    /\ codec = "decode" => DecodeMeans
    /\ codec \in {"decoded", "filling"} =>
          IsFingerprint(Characters) /\ built = Spelled(Characters)
    /\ codec \in {"filling", "filled"} => "pu" \in pointers
    /\ codec = "filled" =>
          IsFingerprint(Characters) /\ [uid EXCEPT !.hashAlgo = "sha256"] = UidOf(string)
    /\ codec = "err" => starved \/ ~NamesPrincipal(string)
    /\ codec = "answered" /\ "pu" \in pointers =>
          NamesPrincipal(string) /\ uid = UidOf(string)
    /\ codec = "answered" /\ "pu" \notin pointers => starved \/ ~NamesPrincipal(string)

\* How far the loop is, by the bits that are left.
Place(p, l, b, m) ==
    /\ b = 0 => p = 4 * m /\ l = 3 * m
    /\ b = 6 => p = 4 * m + 1 /\ l = 3 * m
    /\ b = 4 => p = 4 * m + 2 /\ l = 3 * m + 1
    /\ b = 2 => p = 4 * m + 3 /\ l = 3 * m + 2

LEMMA DecodePlace ==
    ASSUME NEW p \in Nat, NEW l \in Nat, NEW b \in {0, 2, 4, 6}, 8 * l + b = 6 * p
    PROVE  \E m \in Nat : Place(p, l, b, m)
<1>1. PICK m \in Nat : m = p \div 4
    BY SMT
<1>2. Place(p, l, b, m)
    BY <1>1, SMT DEF Place
<1>. QED  BY <1>2

\* The byte that a character completes.
LEMMA ByteDecoded ==
    ASSUME NEW s, NEW p \in Nat, NEW l \in Nat, NEW b \in {2, 4, 6}, 8 * l + b = 6 * p,
           p # 0, s[p] \in 0..63, s[p + 1] \in 0..63,
           NEW v \in Nat, LowBits(v, s[p], s[p + 1])
    PROVE  Field(v, b - 2, 8) = ByteOf(s, l + 1)
<1>1. PICK m \in Nat : Place(p, l, b, m)
    <2>1. b \in {0, 2, 4, 6}
        OBVIOUS
    <2>. QED  BY <2>1, DecodePlace
<1>2. PICK x \in 0..63, y \in 0..63 : x = s[p] /\ y = s[p + 1]
    OBVIOUS
<1>3. LowBits(v, x, y)
    BY <1>2
<1>4. /\ Field(v, 4, 8) = 4 * x + (y \div 16)
      /\ Field(v, 2, 8) = 16 * (x % 16) + (y \div 4)
      /\ Field(v, 0, 8) = 64 * (x % 4) + y
    <2>1. x \in 0..63 /\ y \in 0..63
        BY <1>2
    <2>2. /\ Field(v, 4, 8) = 4 * x + (y \div 16)
          /\ Field(v, 2, 8) = 16 * (x % 16) + (y \div 4)
          /\ Field(v, 0, 8) = 64 * (x % 4) + y
          /\ v % 64 = y
        BY <1>3, <2>1, ByteAbove, Zenon
    <2>. QED  BY <2>2
<1>5. CASE b = 6
    <2>1. x = s[4 * m + 1] /\ y = s[4 * m + 2] /\ b - 2 = 4 /\ l + 1 = 3 * m + 1
        BY <1>1, <1>2, <1>5, SMT DEF Place
    <2>2. ByteOf(s, 3 * m + 1) = 4 * x + (y \div 16)
        <3>1. s[4 * m + 1] \in 0..63 /\ s[4 * m + 2] \in 0..63
            BY <1>2, <2>1
        <3>. QED  BY <2>1, <3>1, ByteFirst
    <2>. QED  BY <1>4, <1>5, <2>1, <2>2, Zenon
<1>6. CASE b = 4
    <2>1. x = s[4 * m + 2] /\ y = s[4 * m + 3] /\ b - 2 = 2 /\ l + 1 = 3 * m + 2
        BY <1>1, <1>2, <1>6, SMT DEF Place
    <2>2. ByteOf(s, 3 * m + 2) = 16 * (x % 16) + (y \div 4)
        <3>1. s[4 * m + 2] \in 0..63 /\ s[4 * m + 3] \in 0..63
            BY <1>2, <2>1
        <3>. QED  BY <2>1, <3>1, ByteSecond
    <2>. QED  BY <1>4, <1>6, <2>1, <2>2, Zenon
<1>7. CASE b = 2
    <2>1. x = s[4 * m + 3] /\ y = s[4 * m + 4] /\ b - 2 = 0 /\ l + 1 = 3 * m + 3
        BY <1>1, <1>2, <1>7, SMT DEF Place
    <2>2. ByteOf(s, 3 * m + 3) = 64 * (x % 4) + y
        <3>1. s[4 * m + 3] \in 0..63 /\ s[4 * m + 4] \in 0..63
            BY <1>2, <2>1
        <3>. QED  BY <2>1, <3>1, ByteThird
    <2>. QED  BY <1>4, <1>7, <2>1, <2>2, Zenon
<1>. QED  BY <1>5, <1>6, <1>7

\* The bits behind the last byte are those of the last character.
Pending(s, p, b, v) == b = 0 \/ (p # 0 /\ s[p] \in 0..63 /\ v % 64 = s[p])
NoPadding(v, b) == b > 0 => Field(v, 0, b) = 0

LEMMA PaddingBits ==
    ASSUME NEW s, NEW p \in Nat, NEW b \in {0, 2, 4, 6}, NEW v \in Int,
           Pending(s, p, b, v)
    PROVE  NoPadding(v, b) <=> LastBits(s, p, b) \subseteq {0}
<1>. USE DEF Pending, NoPadding
<1>1. CASE b = 0
    <2>1. 6 * p - b + 1..6 * p = {}
        BY <1>1, SMT
    <2>. QED  BY <1>1, <2>1 DEF LastBits
<1>2. CASE b # 0
    <2>1. p # 0
        BY <1>2
    <2>2. PICK g \in Nat, c \in 0..63 : p = g + 1 /\ c = s[g + 1]
        <3>1. p - 1 \in Nat /\ p = (p - 1) + 1
            BY <2>1, SMT
        <3>. QED  BY <1>2, <3>1
    <2>3. PICK A \in Int : v = 64 * A + c
        <3>1. PICK A : A = v \div 64
            OBVIOUS
        <3>2. PICK r : r = v % 64
            OBVIOUS
        <3>3. A \in Int /\ v = 64 * A + r
            BY <3>1, <3>2, SMT
        <3>. QED  BY <1>2, <2>2, <3>2, <3>3
    <2>4. /\ LastBits(s, p, 6) \subseteq {0} <=> c = 0
          /\ LastBits(s, p, 4) \subseteq {0} <=> c % 16 = 0
          /\ LastBits(s, p, 2) \subseteq {0} <=> c % 4 = 0
        BY <2>2, LastBitsZero
    <2>5. CASE b = 6
        <3>1. Field(v, 0, 6) = (v \div 1) % 64
            BY SMT DEF Field
        <3>2. (v \div 1) % 64 = c
            BY <2>3, SMT
        <3>. QED  BY <2>4, <2>5, <3>1, <3>2
    <2>6. CASE b = 4
        <3>1. Field(v, 0, 4) = (v \div 1) % 16
            BY SMT DEF Field
        <3>2. (v \div 1) % 16 = c % 16
            BY <2>3, SMT
        <3>. QED  BY <2>4, <2>6, <3>1, <3>2
    <2>7. CASE b = 2
        <3>1. Field(v, 0, 2) = (v \div 1) % 4
            BY SMT DEF Field
        <3>2. (v \div 1) % 4 = c % 4
            BY <2>3, SMT
        <3>. QED  BY <2>4, <2>7, <3>1, <3>2
    <2>. QED  BY <1>2, <2>5, <2>6, <2>7
<1>. QED  BY <1>1, <1>2

LEMMA DecodeStep ==
    ASSUME CodecInv, codec = "decode", DecodeMeans, DecodeChar
    PROVE  DecodeMeans'
<1>1. PICK n \in Nat : n = Len(Characters)
    BY Lengths DEF CodecInv, TextInv
<1>2. /\ pos \in Nat /\ pos < n /\ pos' = pos + 1 /\ bits \in {0, 2, 4, 6}
      /\ 8 * Len(built) + bits = 6 * pos
    BY <1>1 DEF CodecInv, LoopInv, DecodeChar, Decoding
<1>3. Characters' = Characters /\ bits' = BitsLeft
    BY DEF DecodeChar, Characters
<1>4. \A k \in 1..pos + 1 : Characters[k] \in 0..63
    <2>1. \A k \in 1..n : Characters[k] \in -1..63
        BY <1>1, ElementOf DEF CodecInv, TextInv, IsCharacters
    <2>2. \A k \in 1..pos + 1 : Characters[k] >= 0
        <3>1. Characters[pos + 1] >= 0
            BY DEF DecodeChar
        <3>2. \A k \in 1..pos + 1 : k \in 1..pos \/ k = pos + 1
            BY <1>2
        <3>. QED  BY <3>1, <3>2 DEF DecodeMeans
    <2>3. \A k \in 1..pos + 1 : k \in 1..n
        BY <1>1, <1>2
    <2>. QED  BY <2>1, <2>2, <2>3
<1>5. PICK c \in 0..63 : c = Characters[pos + 1]
    <2>1. pos + 1 \in 1..pos + 1
        BY <1>2
    <2>. QED  BY <1>4, <2>1
<1>6. /\ acc \in Int /\ acc' = (64 * acc + c) % (2 * (IntMax + 1))
      /\ acc' \in Nat /\ LowBits(acc', acc % 64, c)
    <2>1. acc' = (64 * acc + c) % (2 * (IntMax + 1))
        BY <1>5 DEF DecodeChar, Shifted
    <2>2. acc \in Int
        BY DEF CodecInv, LoopInv
    <2>. QED  BY <2>1, <2>2, ShiftedBits
<1>7. acc' % 64 = c
    <2>1. PICK p \in 0..63 : p = acc % 64
        BY <1>6, SMT
    <2>2. LowBits(acc', p, c)
        BY <1>6, <2>1
    <2>. QED  BY <1>6, <2>2, ByteAbove
<1>8. IsSequence(built) /\ Len(built) \in Nat
    BY AppendSequence DEF CodecInv, LoopInv
<1>9. \A k \in 1..Len(built') : built'[k] = ByteOf(Characters, k)
    <2>1. CASE bits + 6 >= 8
        <3>1. bits \in {2, 4, 6} /\ pos # 0
            BY <1>2, <1>8, <2>1
        <3>2. PICK x : x = Field(acc', bits - 2, 8)
            OBVIOUS
        <3>3. x = ByteOf(Characters, Len(built) + 1)
            <4>1. Characters[pos] \in 0..63 /\ Characters[pos + 1] \in 0..63
                BY <1>2, <1>4, <3>1
            <4>2. LowBits(acc', Characters[pos], Characters[pos + 1])
                BY <1>5, <1>6, <3>1 DEF DecodeMeans
            <4>. QED  BY <1>2, <1>6, <1>8, <3>1, <3>2, <4>1, <4>2, ByteDecoded
        <3>4. built' = Append(built, x)
            BY <2>1, <3>2 DEF DecodeChar
        <3>5. /\ Len(built') = Len(built) + 1
              /\ \A i \in 1..Len(built) : built'[i] = built[i]
              /\ built'[Len(built) + 1] = x
            BY <1>8, <3>4, AppendSequence
        <3>. SUFFICES ASSUME NEW k \in 1..Len(built) + 1
                      PROVE  built'[k] = ByteOf(Characters, k)
            BY <3>5
        <3>6. CASE k \in 1..Len(built)
            BY <3>5, <3>6 DEF DecodeMeans
        <3>7. CASE k = Len(built) + 1
            BY <3>3, <3>5, <3>7
        <3>. QED  BY <1>8, <3>6, <3>7
    <2>2. CASE ~(bits + 6 >= 8)
        BY <2>2 DEF DecodeChar, DecodeMeans
    <2>. QED  BY <2>1, <2>2
<1>10. \A k \in 1..pos' : Characters'[k] >= 0
    <2>1. \A k \in 1..pos + 1 : Characters[k] >= 0
        BY <1>4
    <2>. QED  BY <1>2, <1>3, <2>1
<1>11. acc' % 64 = Characters'[pos']
    BY <1>2, <1>3, <1>5, <1>7
<1>. QED  BY <1>3, <1>9, <1>10, <1>11 DEF DecodeMeans

\* The loop ends: the bytes are the ones that are spelled, and the padding
\* tells whether any bits are left over.
AllRead == pos = Len(Characters)

LEMMA DecodeEnd ==
    ASSUME CodecInv, codec = "decode", DecodeMeans, AllRead
    PROVE  /\ built = Spelled(Characters)
           /\ IsFingerprint(Characters) <=> PaddingIsZero /\ Len(built) \in 1..64
<1>1. PICK n \in Nat : n = Len(Characters)
    BY Lengths DEF CodecInv, TextInv
<1>2. /\ pos = n /\ bits \in {0, 2, 4, 6} /\ IsBytes(built) /\ acc \in Int
      /\ 8 * Len(built) + bits = 6 * n
    BY <1>1 DEF CodecInv, LoopInv, AllRead
<1>3. PICK l \in Nat : l = Len(built)
    BY <1>2, Lengths
<1>4. \A k \in 1..n : Characters[k] \in 0..63
    <2>1. \A k \in 1..n : Characters[k] \in -1..63
        BY <1>1, ElementOf DEF CodecInv, TextInv, IsCharacters
    <2>. QED  BY <1>2, <2>1 DEF DecodeMeans
<1>5. /\ Spelled(Characters) = [k \in 1..l |-> ByteOf(Characters, k)]
      /\ Len(Spelled(Characters)) = l
      /\ LeftOver(Characters) = LastBits(Characters, n, bits)
    <2>1. 8 * l + bits = 6 * n
        BY <1>2, <1>3
    <2>. QED  BY <1>1, <1>2, <2>1, SpelledLength
<1>6. built = Spelled(Characters)
    <2>1. built = [k \in 1..l |-> built[k]]
        BY <1>2, <1>3 DEF IsBytes
    <2>. QED  BY <1>3, <1>5, <2>1 DEF DecodeMeans
<1>7. PaddingIsZero <=> LeftOver(Characters) \subseteq {0}
    <2>1. 8 * l + bits = 6 * n
        BY <1>2, <1>3
    <2>2. Pending(Characters, n, bits, acc)
        <3>1. bits = 0 \/ n # 0
            BY <1>2, <2>1, SMT
        <3>2. n # 0 => n \in 1..n
            BY SMT
        <3>. QED  BY <1>2, <1>4, <3>1, <3>2 DEF DecodeMeans, Pending
    <2>3. NoPadding(acc, bits) <=> LastBits(Characters, n, bits) \subseteq {0}
        BY <1>2, <2>2, PaddingBits, Zenon
    <2>. QED  BY <1>5, <2>3 DEF PaddingIsZero, NoPadding
<1>8. \A k \in 1..Len(Characters) : Characters[k] >= 0
    <2>1. ASSUME NEW k \in 1..n PROVE Characters[k] >= 0
        <3>1. PICK c \in 0..63 : c = Characters[k]
            BY <1>4
        <3>. QED  BY <3>1
    <2>. QED  BY <1>1, <2>1
<1>. QED  BY <1>3, <1>5, <1>6, <1>7, <1>8 DEF IsFingerprint

LEMMA CodecReads ==
    ASSUME CodecInv, CodecStep, ReadMeans, codec \in ReadPlaces
    PROVE  ReadMeans'
<1>. USE DEF Goto
<1>1. string' = string \/ Join
    BY DEF CodecStep, NewDecoded, DecodeChar, BadChar, DecodeEnds, NewUid, FillUid,
       SetHashAlgo, Err, NewEncoded, EncodeGroup, EncodeEnds, CodecFails, Refuse,
       NewDecodedFails, NewUidFails, FillUidFails, SetHashAlgoFails,
       NewEncodedFails, JoinFails, StarvesToErr, WriteFails
<1>2. /\ codec \notin {"write", "encode", "encoded", "idle"}
      /\ ~Join /\ ~NewEncoded /\ ~EncodeGroup /\ ~EncodeEnds
      /\ ~NewEncodedFails /\ ~JoinFails
    BY DEF ReadPlaces, Join, NewEncoded, EncodeGroup, EncodeEnds, NewEncodedFails, JoinFails
<1>3. string' = string /\ Characters' = Characters
    BY <1>1, <1>2 DEF Characters
<1>4. /\ Splits(string') <=> Splits(string)
      /\ IsFingerprint(Characters') <=> IsFingerprint(Characters)
      /\ NamesPrincipal(string') <=> NamesPrincipal(string)
      /\ Spelled(Characters') = Spelled(Characters)
      /\ UidOf(string') = UidOf(string)
    BY <1>3
<1>5. NamesPrincipal(string) <=> Splits(string) /\ IsFingerprint(Characters)
    BY DEF NamesPrincipal, Characters
<1>6. CASE NewDecoded
    <2>1. codec' = "decode" /\ codec = "read" /\ built' = <<>> /\ pos' = 0
        BY <1>6 DEF NewDecoded, NewBuffer
    <2>2. DecodeMeans'
        BY <2>1, EmptySequence DEF DecodeMeans
    <2>. QED  BY <1>4, <2>1, <2>2 DEF ReadMeans
<1>7. CASE DecodeChar
    <2>1. codec = "decode" /\ codec' = "decode"
        BY <1>7 DEF DecodeChar, Decoding
    <2>2. DecodeMeans'
        BY <1>7, <2>1, DecodeStep DEF ReadMeans
    <2>. QED  BY <1>4, <2>1, <2>2 DEF ReadMeans
<1>8. CASE BadChar
    <2>1. codec = "decode" /\ codec' = "err"
        BY <1>8 DEF BadChar, Decoding, Refuse
    <2>2. ~IsFingerprint(Characters)
        <3>1. Characters[pos + 1] < 0 /\ pos < Len(Characters) /\ pos \in Nat
            BY <1>8 DEF BadChar, Decoding, CodecInv, LoopInv
        <3>2. PICK n \in Nat : n = Len(Characters)
            BY <2>1, Lengths DEF CodecInv, TextInv
        <3>3. pos + 1 \in 1..n
            BY <3>1, <3>2
        <3>4. PICK c \in -1..63 : c = Characters[pos + 1]
            BY <2>1, <3>2, <3>3, ElementOf DEF CodecInv, TextInv, IsCharacters
        <3>5. ~(Characters[pos + 1] >= 0)
            BY <3>1, <3>4
        <3>. QED  BY <3>2, <3>3, <3>5 DEF IsFingerprint
    <2>. QED  BY <1>4, <1>5, <2>1, <2>2 DEF ReadMeans
<1>9. CASE DecodeEnds
    <2>1. codec = "decode" /\ AllRead
        BY <1>9 DEF DecodeEnds, AllRead
    <2>2. /\ built = Spelled(Characters)
          /\ IsFingerprint(Characters) <=> PaddingIsZero /\ Len(built) \in 1..64
        BY <2>1, DecodeEnd DEF ReadMeans
    <2>3. CASE PaddingIsZero /\ Len(built) \in 1..64
        <3>1. codec' = "decoded" /\ built' = built
            BY <1>9, <2>3 DEF DecodeEnds, KeepLoop
        <3>. QED  BY <1>4, <2>1, <2>2, <2>3, <3>1 DEF ReadMeans
    <2>4. CASE ~(PaddingIsZero /\ Len(built) \in 1..64)
        <3>1. codec' = "err"
            BY <1>9, <2>4 DEF DecodeEnds, Refuse
        <3>2. ~NamesPrincipal(string')
            BY <1>4, <1>5, <2>2, <2>4
        <3>. QED  BY <3>1, <3>2 DEF ReadMeans
    <2>. QED  BY <2>3, <2>4
<1>10. CASE NewUid
    <2>1. codec = "decoded" /\ codec' = "filling" /\ built' = built /\ "pu" \in pointers'
        BY <1>10 DEF NewUid, KeepLoop, Allocates
    <2>. QED  BY <1>4, <2>1 DEF ReadMeans
<1>11. CASE FillUid
    <2>1. codec = "filling" /\ codec' = "filled" /\ pointers' = pointers
        BY <1>11 DEF FillUid, Frees
    <2>2. [uid' EXCEPT !.hashAlgo = "sha256"] = UidOf(string)
        <3>1. /\ uid' = [version |-> 1, realm |-> string[1], identifier |-> string[2],
                         keyHash |-> [len |-> Len(built), id |-> built],
                         hashAlgo |-> NULL]
            BY <1>11 DEF FillUid, AIC_PRINCIPALUID_new
        <3>2. built = Spelled(string[3].id)
            BY <2>1 DEF ReadMeans, Characters
        <3>. QED  BY <3>1, <3>2 DEF UidOf
    <2>. QED  BY <1>4, <2>1, <2>2 DEF ReadMeans
<1>12. CASE SetHashAlgo
    <2>1. /\ codec = "filled" /\ codec' = "answered" /\ "pu" \in pointers'
          /\ uid' = [uid EXCEPT !.hashAlgo = "sha256"]
        BY <1>12 DEF SetHashAlgo, Frees, ReadMeans
    <2>. QED  BY <1>4, <1>5, <2>1 DEF ReadMeans
<1>13. CASE Err
    <2>1. codec = "err" /\ codec' = "answered" /\ "pu" \notin pointers' /\ starved' = starved
        BY <1>13 DEF Err, Frees
    <2>. QED  BY <1>4, <2>1 DEF ReadMeans
<1>14. CASE NewDecodedFails \/ NewUidFails \/ SetHashAlgoFails
    <2>1. codec' = "err" /\ starved' = TRUE
        BY <1>14 DEF NewDecodedFails, NewUidFails, SetHashAlgoFails, StarvesToErr, Starves
    <2>. QED  BY <2>1 DEF ReadMeans
<1>15. CASE FillUidFails
    <2>1. codec' = "answered" /\ starved' = TRUE /\ "pu" \notin pointers'
        BY <1>15 DEF FillUidFails, Starves, Frees
    <2>. QED  BY <2>1 DEF ReadMeans
<1>. QED
    BY <1>2, <1>6, <1>7, <1>8, <1>9, <1>10, <1>11, <1>12, <1>13, <1>14, <1>15
    DEF CodecStep, CodecFails

-----------------------------------------------------------------------------
FingerprintText(f) == [len |-> Len(f), id |-> f]

\* While a principal is written, and when it was.
WriteMeans ==
    /\ codec \in {"write", "encode", "encoded"} => string = <<>>
    /\ codec = "encode" => \A k \in 1..pos : ByteOf(built, k) = Bytes[k]
    /\ codec = "encoded" => IsFingerprintOf(built, Bytes)
    /\ codec = "answered" /\ string # <<>> =>
          \E f \in Seq(0..63) :
             /\ string = <<uid.realm, uid.identifier, FingerprintText(f)>>
             /\ IsFingerprintOf(f, Bytes)

\* The first characters stay, and n groups of v follow them.
Grows(s, t, l, v, n) ==
    /\ s \in Seq(0..63) /\ Len(s) = l /\ t \in Seq(0..63) /\ Len(t) = l + n
    /\ \A k \in 1..l : t[k] = s[k]
    /\ \A k \in 1..n : t[l + k] = Sextet(v, k)

LEMMA SextetsGrow ==
    ASSUME NEW s \in Seq(0..63), NEW v \in Int, NEW n \in 0..4
    PROVE  Grows(s, s \o Sextets(v, n), Len(s), v, n)
BY SextetsAppended DEF Grows, Sextet

LEMMA GroupNumber ==
    ASSUME NEW a \in 0..255, NEW b \in 0..255, NEW c \in 0..255
    PROVE  Group(a, b, c) \in Int
BY SMT DEF Group

\* Bytes that were encoded stay encoded.
LEMMA BytesStay ==
    ASSUME NEW s, NEW t, NEW m \in Nat, \A k \in 1..4 * m : t[k] = s[k]
    PROVE  \A k \in 1..3 * m : ByteOf(t, k) = ByteOf(s, k)
<1>. SUFFICES ASSUME NEW k \in 1..3 * m PROVE ByteOf(t, k) = ByteOf(s, k)
    OBVIOUS
<1>1. k \in Nat /\ k # 0 /\ 8 * k <= 6 * (4 * m) /\ 4 * m \in Nat
    BY SMT
<1>2. \A i \in 1..4 * m : t[i] = s[i]
    OBVIOUS
<1>. QED  BY <1>1, <1>2, SameByte

Encoded(t, m, n, a, b, c) ==
    /\ n >= 2 => ByteOf(t, 3 * m + 1) = a
    /\ n >= 3 => ByteOf(t, 3 * m + 2) = b
    /\ n >= 4 => ByteOf(t, 3 * m + 3) = c
    /\ n = 2 /\ b = 0 => t[4 * m + 2] % 16 = 0
    /\ n = 3 /\ c = 0 => t[4 * m + 3] % 4 = 0
    /\ n >= 2 => t[4 * m + 2] \in 0..63
    /\ n >= 3 => t[4 * m + 3] \in 0..63

LEMMA GroupEncoded ==
    ASSUME NEW s, NEW t, NEW m \in Nat, NEW a \in 0..255, NEW b \in 0..255,
           NEW c \in 0..255, NEW v \in Int, v = Group(a, b, c),
           NEW n \in 0..4, Grows(s, t, 4 * m, v, n)
    PROVE  Encoded(t, m, n, a, b, c)
<1>1. PICK w \in 0..63, x \in 0..63, y \in 0..63, z \in 0..63 :
         Spells(v, w, x, y, z, a, b, c)
    BY SextetsSpell
<1>2. /\ n >= 1 => t[4 * m + 1] = w
      /\ n >= 2 => t[4 * m + 2] = x
      /\ n >= 3 => t[4 * m + 3] = y
      /\ n >= 4 => t[4 * m + 4] = z
    <2>1. /\ Sextet(v, 1) = w /\ Sextet(v, 2) = x
          /\ Sextet(v, 3) = y /\ Sextet(v, 4) = z
        BY <1>1 DEF Spells
    <2>2. \A k \in 1..n : t[4 * m + k] = Sextet(v, k)
        BY DEF Grows
    <2>3. /\ n >= 1 => t[4 * m + 1] = Sextet(v, 1)
          /\ n >= 2 => t[4 * m + 2] = Sextet(v, 2)
          /\ n >= 3 => t[4 * m + 3] = Sextet(v, 3)
          /\ n >= 4 => t[4 * m + 4] = Sextet(v, 4)
        BY <2>2
    <2>. QED  BY <2>1, <2>3
<1>3. ASSUME n >= 2 PROVE ByteOf(t, 3 * m + 1) = a
    <2>1. t[4 * m + 1] = w /\ t[4 * m + 2] = x
        BY <1>2, <1>3
    <2>2. t[4 * m + 1] \in 0..63 /\ t[4 * m + 2] \in 0..63
        BY <2>1
    <2>3. ByteOf(t, 3 * m + 1) = 4 * t[4 * m + 1] + (t[4 * m + 2] \div 16)
        BY <2>2, ByteFirst
    <2>4. 4 * w + (x \div 16) = a
        BY <1>1 DEF Spells
    <2>. QED  BY <2>1, <2>3, <2>4
<1>4. ASSUME n >= 3 PROVE ByteOf(t, 3 * m + 2) = b
    <2>1. t[4 * m + 2] = x /\ t[4 * m + 3] = y
        BY <1>2, <1>4
    <2>2. t[4 * m + 2] \in 0..63 /\ t[4 * m + 3] \in 0..63
        BY <2>1
    <2>3. ByteOf(t, 3 * m + 2) = 16 * (t[4 * m + 2] % 16) + (t[4 * m + 3] \div 4)
        BY <2>2, ByteSecond
    <2>4. 16 * (x % 16) + (y \div 4) = b
        BY <1>1 DEF Spells
    <2>. QED  BY <2>1, <2>3, <2>4
<1>5. ASSUME n >= 4 PROVE ByteOf(t, 3 * m + 3) = c
    <2>1. t[4 * m + 3] = y /\ t[4 * m + 4] = z
        BY <1>2, <1>5
    <2>2. t[4 * m + 3] \in 0..63 /\ t[4 * m + 4] \in 0..63
        BY <2>1
    <2>3. ByteOf(t, 3 * m + 3) = 64 * (t[4 * m + 3] % 4) + t[4 * m + 4]
        BY <2>2, ByteThird
    <2>4. 64 * (y % 4) + z = c
        BY <1>1 DEF Spells
    <2>. QED  BY <2>1, <2>3, <2>4
<1>6. n = 2 /\ b = 0 => t[4 * m + 2] % 16 = 0
    BY <1>1, <1>2 DEF Spells
<1>7. n = 3 /\ c = 0 => t[4 * m + 3] % 4 = 0
    BY <1>1, <1>2 DEF Spells
<1>8. (n >= 2 => t[4 * m + 2] \in 0..63) /\ (n >= 3 => t[4 * m + 3] \in 0..63)
    BY <1>2
<1>. QED  BY <1>3, <1>4, <1>5, <1>6, <1>7, <1>8 DEF Encoded

Fits(l, b, n) == 8 * l + b = 6 * n

LEMMA FingerprintMade ==
    ASSUME NEW t, NEW n \in Nat, Len(t) = n, NEW d \in Seq(0..255), NEW l \in Nat, Len(d) = l,
           NEW b \in {0, 2, 4}, Fits(l, b, n),
           \A k \in 1..l : ByteOf(t, k) = d[k], LastBits(t, n, b) \subseteq {0}
    PROVE  IsFingerprintOf(t, d)
<1>1. 8 * l + b = 6 * n
    BY DEF Fits
<1>2. n = (8 * l + 5) \div 6
    BY <1>1, SMT
<1>3. /\ Spelled(t) = [k \in 1..l |-> ByteOf(t, k)]
      /\ LeftOver(t) = LastBits(t, n, b)
    BY <1>1, SpelledLength
<1>4. d = [k \in 1..l |-> d[k]]
    OBVIOUS
<1>5. Spelled(t) = d
    BY <1>3, <1>4
<1>. QED  BY <1>2, <1>3, <1>5 DEF IsFingerprintOf

\* The bytes read so far, the characters written for them.
LEMMA EncodePlace ==
    ASSUME CodecInv, codec = "encode"
    PROVE  \E m \in Nat, n \in Nat :
              /\ pos = 3 * m /\ built \in Seq(0..63) /\ Len(built) = 4 * m
              /\ Len(Bytes) = n /\ Bytes \in Seq(0..255) /\ 3 * m <= n
<1>1. /\ IsBytes(Bytes) /\ built \in Seq(0..63)
      /\ pos \in Nat /\ pos <= Len(Bytes) /\ 3 * Len(built) = 4 * pos /\ pos % 3 = 0
    BY DEF CodecInv, LoopInv, TextInv
<1>2. PICK n \in Nat, l \in Nat : n = Len(Bytes) /\ l = Len(built)
    BY <1>1, Lengths
<1>3. PICK m \in Nat : pos = 3 * m
    <2>1. PICK m : m = pos \div 3
        OBVIOUS
    <2>2. m \in Nat /\ pos = 3 * m
        BY <1>1, <2>1
    <2>. QED  BY <2>2
<1>4. l = 4 * m
    BY <1>1, <1>2, <1>3
<1>. QED  BY <1>1, <1>2, <1>3, <1>4 DEF IsBytes

LEMMA EncodeStep ==
    ASSUME CodecInv, WriteMeans, EncodeGroup
    PROVE  \A k \in 1..pos' : ByteOf(built', k) = Bytes[k]
<1>1. codec = "encode"
    BY DEF EncodeGroup
<1>2. PICK m \in Nat, n \in Nat :
         /\ pos = 3 * m /\ built \in Seq(0..63) /\ Len(built) = 4 * m
         /\ Len(Bytes) = n /\ Bytes \in Seq(0..255) /\ 3 * m <= n
    BY <1>1, EncodePlace
<1>3. pos + 2 < n /\ pos' = pos + 3
    BY <1>2 DEF EncodeGroup
<1>4. pos + 1 \in 1..n /\ pos + 2 \in 1..n /\ pos + 3 \in 1..n
    BY <1>2, <1>3
<1>5. PICK a \in 0..255, b \in 0..255, c \in 0..255 :
         a = Bytes[pos + 1] /\ b = Bytes[pos + 2] /\ c = Bytes[pos + 3]
    BY <1>2, <1>4, ElementOf
<1>6. PICK v \in Int : v = Group(a, b, c)
    BY GroupNumber
<1>7. built' = built \o Sextets(v, 4)
    BY <1>5, <1>6 DEF EncodeGroup, Group
<1>8. Grows(built, built', 4 * m, v, 4)
    BY <1>2, <1>7, SextetsGrow
<1>9. /\ ByteOf(built', 3 * m + 1) = a /\ ByteOf(built', 3 * m + 2) = b
      /\ ByteOf(built', 3 * m + 3) = c
    <2>. 4 \in 0..4
        OBVIOUS
    <2>1. Encoded(built', m, 4, a, b, c)
        BY <1>6, <1>8, GroupEncoded, Zenon
    <2>. QED  BY <2>1 DEF Encoded
<1>10. \A k \in 1..3 * m : ByteOf(built', k) = Bytes[k]
    <2>1. \A k \in 1..4 * m : built'[k] = built[k]
        BY <1>8 DEF Grows
    <2>2. \A k \in 1..3 * m : ByteOf(built', k) = ByteOf(built, k)
        BY <2>1, BytesStay
    <2>. QED  BY <1>1, <1>2, <2>2 DEF WriteMeans
<1>11. \A k \in 1..3 * m + 3 :
          k \in 1..3 * m \/ k = 3 * m + 1 \/ k = 3 * m + 2 \/ k = 3 * m + 3
    BY SMT
<1>. QED  BY <1>2, <1>3, <1>5, <1>9, <1>10, <1>11

LEMMA EncodeEnd ==
    ASSUME CodecInv, WriteMeans, EncodeEnds
    PROVE  IsFingerprintOf(built', Bytes)
<1>1. codec = "encode"
    BY DEF EncodeEnds
<1>2. PICK m \in Nat, n \in Nat :
         /\ pos = 3 * m /\ built \in Seq(0..63) /\ Len(built) = 4 * m
         /\ Len(Bytes) = n /\ Bytes \in Seq(0..255) /\ 3 * m <= n
    BY <1>1, EncodePlace
<1>3. n <= 3 * m + 2 /\ built' = built \o LastSextets
    BY <1>2 DEF EncodeEnds
<1>4. \A k \in 1..3 * m : ByteOf(built, k) = Bytes[k]
    BY <1>1, <1>2 DEF WriteMeans
<1>5. ASSUME NEW v \in Int, NEW e \in 0..4, Grows(built, built', 4 * m, v, e)
      PROVE  \A k \in 1..3 * m : ByteOf(built', k) = Bytes[k]
    <2>1. \A k \in 1..4 * m : built'[k] = built[k]
        BY <1>5 DEF Grows
    <2>2. \A k \in 1..3 * m : ByteOf(built', k) = ByteOf(built, k)
        BY <2>1, BytesStay
    <2>. QED  BY <1>4, <2>2
<1>6. CASE n = 3 * m
    <2>1. n % 3 = 0
        BY <1>6, SMT
    <2>2. LastSextets = <<>>
        BY <1>2, <2>1 DEF LastSextets
    <2>3. built' = built
        BY <1>2, <1>3, <2>2
    <2>4. Fits(n, 0, 4 * m)
        BY <1>6 DEF Fits
    <2>5. LastBits(built, 4 * m, 0) \subseteq {0}
        <3>1. 6 * (4 * m) - 0 + 1..6 * (4 * m) = {}
            BY SMT
        <3>. QED  BY <3>1 DEF LastBits
    <2>6. IsFingerprintOf(built, Bytes)
        <3>1. /\ Len(built) = 4 * m /\ 4 * m \in Nat
              /\ \A k \in 1..n : ByteOf(built, k) = Bytes[k]
            BY <1>2, <1>4, <1>6
        <3>. QED  BY <1>2, <2>4, <2>5, <3>1, FingerprintMade
    <2>. QED  BY <2>3, <2>6
<1>7. CASE n = 3 * m + 1
    <2>1. n % 3 = 1 /\ pos + 1 \in 1..n
        BY <1>2, <1>7, SMT
    <2>2. PICK a \in 0..255 : a = Bytes[pos + 1]
        BY <1>2, <2>1, ElementOf
    <2>. 0 \in 0..255
        OBVIOUS
    <2>3. PICK v \in Int : v = Group(a, 0, 0)
        BY GroupNumber, Zenon
    <2>4. LastSextets = Sextets(v, 2)
        <3>1. v = Bytes[pos + 1] * 65536
            BY <2>2, <2>3, SMT DEF Group
        <3>. QED  BY <1>2, <2>1, <3>1, SMT DEF LastSextets
    <2>. 2 \in 0..4
        OBVIOUS
    <2>5. Grows(built, built', 4 * m, v, 2)
        BY <1>2, <1>3, <2>4, SextetsGrow
    <2>6. Encoded(built', m, 2, a, 0, 0)
        BY <2>3, <2>5, GroupEncoded, Zenon
    <2>7. /\ ByteOf(built', 3 * m + 1) = a
          /\ built'[4 * m + 2] % 16 = 0 /\ built'[4 * m + 2] \in 0..63
        BY <2>6 DEF Encoded
    <2>8. \A k \in 1..n : ByteOf(built', k) = Bytes[k]
        <3>1. \A k \in 1..3 * m : ByteOf(built', k) = Bytes[k]
            BY <1>5, <2>5
        <3>2. \A k \in 1..n : k \in 1..3 * m \/ k = 3 * m + 1
            BY <1>7
        <3>. QED  BY <1>2, <2>2, <2>7, <3>1, <3>2
    <2>9. PICK g \in Nat : g = 4 * m + 1 /\ 4 * m + 2 = g + 1
        OBVIOUS
    <2>10. LastBits(built', g + 1, 4) \subseteq {0}
        BY <2>7, <2>9, LastBitsZero
    <2>11. Fits(n, 4, g + 1)
        BY <1>7, <2>9 DEF Fits
    <2>12. Len(built') = g + 1 /\ g + 1 \in Nat
        BY <2>5, <2>9 DEF Grows
    <2>. QED  BY <1>2, <2>8, <2>10, <2>11, <2>12, FingerprintMade
<1>8. CASE n = 3 * m + 2
    <2>1. n % 3 = 2 /\ pos + 1 \in 1..n /\ pos + 2 \in 1..n
        BY <1>2, <1>8, SMT
    <2>2. PICK a \in 0..255, b \in 0..255 : a = Bytes[pos + 1] /\ b = Bytes[pos + 2]
        BY <1>2, <2>1, ElementOf
    <2>. 0 \in 0..255
        OBVIOUS
    <2>3. PICK v \in Int : v = Group(a, b, 0)
        BY GroupNumber, Zenon
    <2>4. LastSextets = Sextets(v, 3)
        <3>1. v = Bytes[pos + 1] * 65536 + Bytes[pos + 2] * 256
            BY <2>2, <2>3, SMT DEF Group
        <3>. QED  BY <1>2, <2>1, <3>1, SMT DEF LastSextets
    <2>. 3 \in 0..4
        OBVIOUS
    <2>5. Grows(built, built', 4 * m, v, 3)
        BY <1>2, <1>3, <2>4, SextetsGrow
    <2>6. Encoded(built', m, 3, a, b, 0)
        BY <2>3, <2>5, GroupEncoded, Zenon
    <2>7. /\ ByteOf(built', 3 * m + 1) = a /\ ByteOf(built', 3 * m + 2) = b
          /\ built'[4 * m + 3] % 4 = 0 /\ built'[4 * m + 3] \in 0..63
        BY <2>6 DEF Encoded
    <2>8. \A k \in 1..n : ByteOf(built', k) = Bytes[k]
        <3>1. \A k \in 1..3 * m : ByteOf(built', k) = Bytes[k]
            BY <1>5, <2>5
        <3>2. \A k \in 1..n : k \in 1..3 * m \/ k = 3 * m + 1 \/ k = 3 * m + 2
            BY <1>8
        <3>. QED  BY <1>2, <2>2, <2>7, <3>1, <3>2
    <2>9. PICK g \in Nat : g = 4 * m + 2 /\ 4 * m + 3 = g + 1
        OBVIOUS
    <2>10. LastBits(built', g + 1, 2) \subseteq {0}
        BY <2>7, <2>9, LastBitsZero
    <2>11. Fits(n, 2, g + 1)
        BY <1>8, <2>9 DEF Fits
    <2>12. Len(built') = g + 1 /\ g + 1 \in Nat
        BY <2>5, <2>9 DEF Grows
    <2>. QED  BY <1>2, <2>8, <2>10, <2>11, <2>12, FingerprintMade
<1>. QED  BY <1>2, <1>3, <1>6, <1>7, <1>8

LEMMA CodecWrites ==
    ASSUME CodecInv, CodecStep, WriteMeans, codec \in WritePlaces
    PROVE  WriteMeans' /\ uid' = uid
<1>. USE DEF Goto
<1>1. codec \in {"write", "encode", "encoded", "answered"}
    BY DEF WritePlaces
<1>2. CASE NewEncoded
    <2>1. /\ codec = "write" /\ codec' = "encode" /\ pos' = 0
          /\ UNCHANGED <<string, uid>>
        BY <1>2 DEF NewEncoded, NewBuffer
    <2>. QED  BY <2>1 DEF WriteMeans
<1>3. CASE EncodeGroup
    <2>1. codec = "encode" /\ codec' = "encode" /\ UNCHANGED <<string, uid>>
        BY <1>3 DEF EncodeGroup
    <2>2. Bytes' = Bytes
        BY <2>1 DEF Bytes
    <2>. QED  BY <1>3, <2>1, <2>2, EncodeStep DEF WriteMeans
<1>4. CASE EncodeEnds
    <2>1. codec = "encode" /\ codec' = "encoded" /\ UNCHANGED <<string, uid>>
        BY <1>4 DEF EncodeEnds
    <2>2. IsFingerprintOf(built', Bytes) /\ Bytes' = Bytes
        BY <1>4, <2>1, EncodeEnd DEF Bytes
    <2>. QED  BY <2>1, <2>2 DEF WriteMeans
<1>5. CASE Join
    <2>1. /\ codec = "encoded" /\ codec' = "answered" /\ uid' = uid
          /\ string' = <<uid.realm, uid.identifier, FingerprintText(built)>>
        BY <1>5 DEF Join, FingerprintText
    <2>2. built \in Seq(0..63) /\ IsFingerprintOf(built, Bytes) /\ Bytes' = Bytes
        BY <2>1 DEF CodecInv, LoopInv, WriteMeans, Bytes
    <2>3. /\ string' = <<uid'.realm, uid'.identifier, FingerprintText(built)>>
          /\ IsFingerprintOf(built, Bytes')
        BY <2>1, <2>2
    <2>. QED  BY <2>1, <2>2, <2>3 DEF WriteMeans
<1>6. CASE NewEncodedFails \/ JoinFails
    <2>1. /\ codec \in {"write", "encoded"} /\ codec' = "answered"
          /\ UNCHANGED <<string, uid>>
        BY <1>6 DEF NewEncodedFails, JoinFails, WriteFails
    <2>. QED  BY <2>1 DEF WriteMeans
<1>7. ~(\/ NewDecoded \/ DecodeChar \/ BadChar \/ DecodeEnds \/ NewUid \/ FillUid
        \/ SetHashAlgo \/ Err \/ NewDecodedFails \/ NewUidFails \/ FillUidFails
        \/ SetHashAlgoFails)
    BY <1>1 DEF NewDecoded, DecodeChar, BadChar, DecodeEnds, NewUid, FillUid,
       SetHashAlgo, Err, NewDecodedFails, NewUidFails, FillUidFails,
       SetHashAlgoFails, Decoding
<1>. QED
    BY <1>2, <1>3, <1>4, <1>5, <1>6, <1>7 DEF CodecStep, CodecFails

-----------------------------------------------------------------------------
(***************************************************************************)
(* Listings                                                                *)
(***************************************************************************)
LEMMA SequencesEqual ==
    ASSUME NEW s, IsSequence(s), NEW t, IsSequence(t), Len(s) = Len(t),
           \A i \in 1..Len(s) : s[i] = t[i]
    PROVE  s = t
<1>1. PICK S : s \in Seq(S)
    BY DEF IsSequence
<1>2. PICK T : t \in Seq(T)
    BY DEF IsSequence
<1>3. PICK U : U = S \cup T
    OBVIOUS
<1>4. s \in Seq(U) /\ t \in Seq(U)
    BY <1>1, <1>2, <1>3
<1>. QED  BY <1>4

\* The line of a capability.
CapabilityLine(kind, c) ==
    [name |-> kind, value |-> <<c.schemeId, c.capabilityId>> \o InHex(c.parameters)]

LEMMA CapabilityLinesMade ==
    ASSUME NEW caps, AreCaps(caps), NEW kind
    PROVE  /\ IsSequence(CapabilityLines(kind, caps))
           /\ Len(CapabilityLines(kind, caps)) = Len(caps)
           /\ Len(caps) \in Nat
           /\ \A i \in 1..Len(caps) :
                 CapabilityLines(kind, caps)[i] = CapabilityLine(kind, caps[i])
<1>1. PICK n \in Nat : n = Len(caps)
    BY DEF AreCaps, IsSequence
<1>2. CapabilityLines(kind, caps) = [i \in 1..n |-> CapabilityLine(kind, caps[i])]
    BY <1>1 DEF CapabilityLines, CapabilityLine
<1>3. PICK s : s = CapabilityLines(kind, caps)
    OBVIOUS
<1>4. s \in Seq({CapabilityLine(kind, caps[i]) : i \in 1..n})
    BY <1>2, <1>3
<1>5. Len(s) = n /\ \A i \in 1..n : s[i] = CapabilityLine(kind, caps[i])
    BY <1>2, <1>3
<1>. QED  BY <1>1, <1>3, <1>4, <1>5 DEF IsSequence

LEMMA HeadMade ==
    ASSUME NEW a, NEW f
    PROVE  /\ IsSequence(HeadLines(a, f)) /\ Len(HeadLines(a, f)) = 4
           /\ HeadLines(a, f)[1] =
                 [name |-> "version",
                  value |-> <<num(ASN1_INTEGER_get(a.version))>>]
           /\ HeadLines(a, f)[2] = [name |-> "agentId", value |-> <<a.agentId>>]
           /\ HeadLines(a, f)[3] =
                 [name |-> "principalUid",
                  value |-> <<a.principalUid.realm, a.principalUid.identifier, f>>]
           /\ HeadLines(a, f)[4] =
                 [name |-> "delegationMode",
                  value |-> <<[len |-> 10,
                               id |-> IF ASN1_INTEGER_get(a.delegationMode) = 1
                                      THEN "representative" ELSE "authorized"]>>]
<1>1. PICK w, x, y, z :
         /\ w = [name |-> "version",
                 value |-> <<num(ASN1_INTEGER_get(a.version))>>]
         /\ x = [name |-> "agentId", value |-> <<a.agentId>>]
         /\ y = [name |-> "principalUid",
                 value |-> <<a.principalUid.realm, a.principalUid.identifier, f>>]
         /\ z = [name |-> "delegationMode",
                 value |-> <<[len |-> 10,
                              id |-> IF ASN1_INTEGER_get(a.delegationMode) = 1
                                     THEN "representative" ELSE "authorized"]>>]
    OBVIOUS
<1>2. HeadLines(a, f) = <<w, x, y, z>>
    BY <1>1 DEF HeadLines
<1>3. <<w, x, y, z>> \in Seq({w, x, y, z})
    OBVIOUS
<1>4. PICK s : s = <<w, x, y, z>>
    OBVIOUS
<1>5. Len(s) = 4 /\ s[1] = w /\ s[2] = x /\ s[3] = y /\ s[4] = z
    BY <1>4
<1>6. IsSequence(s)
    BY <1>3, <1>4 DEF IsSequence
<1>. QED  BY <1>1, <1>2, <1>4, <1>5, <1>6

DelegationLength(da) == IF da = NULL THEN 0 ELSE 3

LEMMA DelegationMade ==
    ASSUME NEW da
    PROVE  /\ IsSequence(DelegationLines(da))
           /\ Len(DelegationLines(da)) = DelegationLength(da)
           /\ da # NULL =>
                 /\ DelegationLines(da)[1] =
                       [name |-> "delegationAuthorization",
                        value |-> <<[len |-> 7, id |-> "present"]>>]
                 /\ DelegationLines(da)[2] =
                       [name |-> "reasonCode", value |-> <<da.reason.reasonCode>>]
                 /\ DelegationLines(da)[3] = [name |-> "nonce", value |-> <<da.nonce>>]
<1>1. CASE da = NULL
    BY <1>1, EmptySequence DEF DelegationLines, DelegationLength
<1>2. CASE da # NULL
    <2>1. PICK x, y, z :
             /\ x = [name |-> "delegationAuthorization",
                     value |-> <<[len |-> 7, id |-> "present"]>>]
             /\ y = [name |-> "reasonCode", value |-> <<da.reason.reasonCode>>]
             /\ z = [name |-> "nonce", value |-> <<da.nonce>>]
        OBVIOUS
    <2>2. DelegationLines(da) = <<x, y, z>>
        BY <1>2, <2>1 DEF DelegationLines
    <2>3. <<x, y, z>> \in Seq({x, y, z})
        OBVIOUS
    <2>4. PICK s : s = <<x, y, z>>
        OBVIOUS
    <2>5. Len(s) = 3 /\ s[1] = x /\ s[2] = y /\ s[3] = z
        BY <2>4
    <2>6. IsSequence(s)
        BY <2>3, <2>4 DEF IsSequence
    <2>. QED  BY <1>2, <2>1, <2>2, <2>4, <2>5, <2>6 DEF DelegationLength
<1>. QED  BY <1>1, <1>2

-----------------------------------------------------------------------------
\* The capabilities and then the constraints of an AIC.
Both(a) == a.capabilities \o Entries(a.authorizationConstraints)
KindOf(a, i) == IF i <= Len(a.capabilities) THEN "capability" ELSE "authorizationConstraint"

LEMMA BothMade ==
    ASSUME NEW a, IsListable(a)
    PROVE  /\ AreCaps(Both(a)) /\ Len(Both(a)) \in Nat /\ Len(a.capabilities) \in Nat
           /\ Len(Entries(a.authorizationConstraints)) \in Nat
           /\ Len(Both(a)) = Len(a.capabilities) + Len(Entries(a.authorizationConstraints))
           /\ \A i \in 1..Len(a.capabilities) : Both(a)[i] = a.capabilities[i]
           /\ \A i \in 1..Len(Entries(a.authorizationConstraints)) :
                 Both(a)[Len(a.capabilities) + i] = Entries(a.authorizationConstraints)[i]
<1>1. PICK s, t : s = a.capabilities /\ t = Entries(a.authorizationConstraints)
    OBVIOUS
<1>2. AreCaps(s) /\ AreCaps(t) /\ IsSequence(s) /\ IsSequence(t)
    BY <1>1 DEF IsListable, AreCaps
<1>3. /\ IsSequence(s \o t) /\ Len(s) \in Nat /\ Len(t) \in Nat
      /\ Len(s \o t) = Len(s) + Len(t)
      /\ \A i \in 1..Len(s) : (s \o t)[i] = s[i]
      /\ \A i \in 1..Len(t) : (s \o t)[Len(s) + i] = t[i]
    BY <1>2, ConcatSequence
<1>4. ASSUME NEW i \in 1..Len(s \o t) PROVE IsCap((s \o t)[i])
    <2>1. CASE i \in 1..Len(s)
        BY <1>2, <1>3, <2>1 DEF AreCaps
    <2>2. CASE i \notin 1..Len(s)
        <3>1. PICK j \in 1..Len(t) : i = Len(s) + j
            <4>1. i - Len(s) \in 1..Len(t) /\ i = Len(s) + (i - Len(s))
                BY <1>3, <2>2
            <4>. QED  BY <4>1
        <3>. QED  BY <1>2, <1>3, <3>1 DEF AreCaps
    <2>. QED  BY <2>1, <2>2
<1>5. Len(s \o t) \in Nat
    BY <1>3
<1>. QED  BY <1>1, <1>3, <1>4, <1>5 DEF Both, AreCaps

\* What a listing has at its places.
ListingLength(a) == 4 + Len(Both(a)) + DelegationLength(a.delegationAuthorization)

ListingPlaces(a, f, s) ==
    /\ IsSequence(s) /\ Len(s) = ListingLength(a)
    /\ \A i \in 1..4 : s[i] = HeadLines(a, f)[i]
    /\ \A i \in 1..Len(Both(a)) : s[4 + i] = CapabilityLine(KindOf(a, i), Both(a)[i])
    /\ \A i \in 1..DelegationLength(a.delegationAuthorization) :
          s[4 + Len(Both(a)) + i] = DelegationLines(a.delegationAuthorization)[i]

LEMMA ListingMade ==
    ASSUME NEW a, IsListable(a), NEW f
    PROVE  ListingPlaces(a, f, Listing(a, f))
<1>1. PICK h, c, d, g :
         /\ h = HeadLines(a, f)
         /\ c = CapabilityLines("capability", a.capabilities)
         /\ d = CapabilityLines("authorizationConstraint",
                                Entries(a.authorizationConstraints))
         /\ g = DelegationLines(a.delegationAuthorization)
    OBVIOUS
<1>2. PICK n \in Nat, m \in Nat :
         n = Len(a.capabilities) /\ m = Len(Entries(a.authorizationConstraints))
    BY BothMade
<1>3. /\ Len(Both(a)) = n + m
      /\ \A i \in 1..n : Both(a)[i] = a.capabilities[i]
      /\ \A i \in 1..m : Both(a)[n + i] = Entries(a.authorizationConstraints)[i]
    BY <1>2, BothMade
<1>4. /\ IsSequence(h) /\ Len(h) = 4
    BY <1>1, HeadMade
<1>5. /\ IsSequence(c) /\ Len(c) = n
      /\ \A i \in 1..n : c[i] = CapabilityLine("capability", a.capabilities[i])
    <2>1. AreCaps(a.capabilities)
        BY DEF IsListable
    <2>. QED  BY <1>1, <1>2, <2>1, CapabilityLinesMade
<1>6. /\ IsSequence(d) /\ Len(d) = m
      /\ \A i \in 1..m :
            d[i] = CapabilityLine("authorizationConstraint",
                                  Entries(a.authorizationConstraints)[i])
    <2>1. AreCaps(Entries(a.authorizationConstraints))
        BY DEF IsListable
    <2>. QED  BY <1>1, <1>2, <2>1, CapabilityLinesMade
<1>7. PICK k \in Nat : k = DelegationLength(a.delegationAuthorization)
    BY DEF DelegationLength
<1>8. IsSequence(g) /\ Len(g) = k
    BY <1>1, <1>7, DelegationMade
<1>9. PICK hc : hc = h \o c
    OBVIOUS
<1>10. /\ IsSequence(hc) /\ Len(hc) = 4 + n
       /\ \A i \in 1..4 : hc[i] = h[i]
       /\ \A i \in 1..n : hc[4 + i] = c[i]
    <2>2. IsSequence(h) /\ IsSequence(c)
        BY <1>4, <1>5
    <2>1. /\ IsSequence(h \o c)
          /\ Len(h) \in Nat /\ Len(c) \in Nat
          /\ Len(h \o c) = Len(h) + Len(c)
          /\ \A i \in 1..Len(h) : (h \o c)[i] = h[i]
          /\ \A i \in 1..Len(c) : (h \o c)[Len(h) + i] = c[i]
        BY <2>2, ConcatSequence
    <2>. QED  BY <1>4, <1>5, <1>9, <2>1
<1>11. PICK hcd : hcd = hc \o d
    OBVIOUS
<1>12. /\ IsSequence(hcd) /\ Len(hcd) = 4 + n + m
       /\ \A i \in 1..4 + n : hcd[i] = hc[i]
       /\ \A i \in 1..m : hcd[4 + n + i] = d[i]
    <2>2. IsSequence(hc) /\ IsSequence(d)
        BY <1>6, <1>10
    <2>1. /\ IsSequence(hc \o d)
          /\ Len(hc) \in Nat /\ Len(d) \in Nat
          /\ Len(hc \o d) = Len(hc) + Len(d)
          /\ \A i \in 1..Len(hc) : (hc \o d)[i] = hc[i]
          /\ \A i \in 1..Len(d) : (hc \o d)[Len(hc) + i] = d[i]
        BY <2>2, ConcatSequence
    <2>. QED  BY <1>6, <1>10, <1>11, <2>1
<1>13. PICK s : s = hcd \o g
    OBVIOUS
<1>14. /\ IsSequence(s) /\ Len(s) = 4 + n + m + k
       /\ \A i \in 1..4 + n + m : s[i] = hcd[i]
       /\ \A i \in 1..k : s[4 + n + m + i] = g[i]
    <2>2. IsSequence(hcd) /\ IsSequence(g)
        BY <1>8, <1>12
    <2>1. /\ IsSequence(hcd \o g)
          /\ Len(hcd) \in Nat /\ Len(g) \in Nat
          /\ Len(hcd \o g) = Len(hcd) + Len(g)
          /\ \A i \in 1..Len(hcd) : (hcd \o g)[i] = hcd[i]
          /\ \A i \in 1..Len(g) : (hcd \o g)[Len(hcd) + i] = g[i]
        BY <2>2, ConcatSequence
    <2>. QED  BY <1>8, <1>12, <1>13, <2>1
<1>15. s = Listing(a, f)
    BY <1>1, <1>9, <1>11, <1>13 DEF Listing
<1>16. Len(s) = ListingLength(a)
    BY <1>3, <1>7, <1>14 DEF ListingLength
<1>17. \A i \in 1..4 : s[i] = h[i]
    <2>. SUFFICES ASSUME NEW i \in 1..4 PROVE s[i] = h[i]
        OBVIOUS
    <2>1. i \in 1..4 + n /\ i \in 1..4 + n + m
        OBVIOUS
    <2>. QED  BY <2>1, <1>10, <1>12, <1>14
<1>18. ASSUME NEW i \in 1..n + m PROVE s[4 + i] = CapabilityLine(KindOf(a, i), Both(a)[i])
    <2>0. 4 + i \in 1..4 + n + m
        OBVIOUS
    <2>1. CASE i <= n
        <3>1. i \in 1..n /\ 4 + i \in 1..4 + n
            BY <2>1
        <3>2. KindOf(a, i) = "capability"
            BY <1>2, <2>1 DEF KindOf
        <3>. QED  BY <1>3, <1>5, <1>10, <1>12, <1>14, <2>0, <3>1, <3>2
    <2>2. CASE ~(i <= n)
        <3>1. PICK j \in 1..m : i = n + j /\ 4 + i = 4 + n + j
            <4>1. i - n \in 1..m /\ i = n + (i - n) /\ 4 + i = 4 + n + (i - n)
                BY <2>2
            <4>. QED  BY <4>1
        <3>2. KindOf(a, i) = "authorizationConstraint"
            BY <1>2, <2>2 DEF KindOf
        <3>3. s[4 + i] = hcd[4 + i]
            BY <1>14, <2>0
        <3>4. hcd[4 + i] = d[j]
            BY <1>12, <3>1
        <3>5. Both(a)[i] = Entries(a.authorizationConstraints)[j]
            BY <1>3, <3>1
        <3>6. d[j] = CapabilityLine("authorizationConstraint",
                                    Entries(a.authorizationConstraints)[j])
            BY <1>6
        <3>. QED  BY <3>2, <3>3, <3>4, <3>5, <3>6
    <2>. QED  BY <2>1, <2>2
<1>19. \A i \in 1..k : s[4 + Len(Both(a)) + i] = g[i]
    <2>. SUFFICES ASSUME NEW i \in 1..k PROVE s[4 + Len(Both(a)) + i] = g[i]
        OBVIOUS
    <2>1. 4 + Len(Both(a)) + i = 4 + n + m + i
        BY <1>3
    <2>. QED  BY <1>14, <2>1
<1>. QED
    BY <1>1, <1>3, <1>7, <1>14, <1>15, <1>16, <1>17, <1>18, <1>19 DEF ListingPlaces

-----------------------------------------------------------------------------
(***************************************************************************)
(* What has been listed                                                    *)
(***************************************************************************)

\* The list is the first n lines of the listing with the fingerprint f.
Prefix(f, n) ==
    /\ Len(list) = n
    /\ \A i \in 1..n : list[i] = Listing(origin, FingerprintText(f))[i]

KeyHash == origin.principalUid.keyHash.id

\* Before a fingerprint is listed, any would do.
AnyPrefix(n) == \A f : Prefix(f, n)
SomePrefix(n) == \E f \in Seq(0..63) : IsFingerprintOf(f, KeyHash) /\ Prefix(f, n)

Progress ==
    /\ at \in {"agentId", "add agentId"} => AnyPrefix(1)
    /\ at \in {"principalUid", "add principalUid"} => AnyPrefix(2)
    /\ at = "mode" => SomePrefix(3)
    /\ at \in {"scheme", "id", "room", "add capability"} =>
          line <= Len(Listed) + 1 /\ SomePrefix(3 + line)
    /\ at \in {"id", "room", "add capability"} => "sid" \in pointers
    /\ at \in {"room", "add capability"} => "cid" \in pointers
    /\ at \in {"reason", "add reason", "nonce", "add nonce", "listed"} =>
          aic.delegationAuthorization # NULL
    /\ at \in {"reason", "add reason"} => SomePrefix(4 + Len(Listed) + 1)
    /\ at \in {"nonce", "add nonce"} => SomePrefix(4 + Len(Listed) + 2)
    /\ at = "listed" => SomePrefix(4 + Len(Listed) + 3)

\* What i2v_AIC returned.
WholeList ==
    /\ result = list
    /\ IsListable(origin)
    /\ \E f \in Seq(0..63) :
          /\ IsFingerprintOf(f, KeyHash)
          /\ list = Listing(origin, FingerprintText(f))

ListInv ==
    /\ at \in {"idle", "version"} => list = <<>>
    /\ at \in I2vPlaces => aic = origin
    /\ at = "add principalUid" => uid = aic.principalUid /\ WriteMeans
    /\ at \in I2vPlaces /\ ~starved => Progress
    /\ Returned({"certificate", "made"}) /\ ~starved => WholeList

\* One line more.
LEMMA OneMore ==
    ASSUME NEW f, NEW n \in Nat, IsSequence(list), Prefix(f, n), UNCHANGED origin,
           NEW l, list' = Append(list, l), l = Listing(origin, FingerprintText(f))[n + 1]
    PROVE  Prefix(f, n + 1)'
<1>1. /\ Len(list') = n + 1
      /\ \A i \in 1..n : list'[i] = list[i]
      /\ list'[n + 1] = l
    <2>1. /\ IsSequence(Append(list, l))
          /\ Len(list) \in Nat /\ Len(Append(list, l)) = Len(list) + 1
          /\ \A i \in 1..Len(list) : Append(list, l)[i] = list[i]
          /\ Append(list, l)[Len(list) + 1] = l
        BY AppendSequence, Zenon
    <2>2. Len(list) = n
        BY DEF Prefix
    <2>. QED  BY <2>1, <2>2
<1>2. PICK t : t = Listing(origin, FingerprintText(f))
    OBVIOUS
<1>3. Listing(origin, FingerprintText(f))' = t
    BY <1>2 DEF Listing, HeadLines, CapabilityLines, DelegationLines, FingerprintText
<1>4. ASSUME NEW i \in 1..n + 1 PROVE list'[i] = t[i]
    <2>1. CASE i = n + 1
        BY <1>1, <1>2, <2>1
    <2>2. CASE i # n + 1
        <3>1. i \in 1..n
            BY <2>2
        <3>. QED  BY <1>1, <1>2, <3>1 DEF Prefix
    <2>. QED  BY <2>1, <2>2
<1>. QED  BY <1>1, <1>3, <1>4 DEF Prefix

\* The list stays.
LEMMA PrefixStays ==
    ASSUME UNCHANGED <<list, origin>>, NEW n
    PROVE  /\ AnyPrefix(n) => AnyPrefix(n)'
           /\ SomePrefix(n) => SomePrefix(n)'
           /\ KeyHash' = KeyHash
<1>1. \A f : Prefix(f, n)' = Prefix(f, n)
    BY DEF Prefix, Listing, HeadLines, CapabilityLines, DelegationLines, FingerprintText
<1>2. KeyHash' = KeyHash
    BY DEF KeyHash
<1>. QED  BY <1>1, <1>2 DEF AnyPrefix, SomePrefix

LEMMA SomeMore ==
    ASSUME NEW n \in Nat, IsSequence(list), SomePrefix(n), UNCHANGED origin,
           NEW l, list' = Append(list, l),
           \A f \in Seq(0..63) : l = Listing(origin, FingerprintText(f))[n + 1]
    PROVE  SomePrefix(n + 1)'
<1>1. PICK f \in Seq(0..63) : IsFingerprintOf(f, KeyHash) /\ Prefix(f, n)
    BY DEF SomePrefix
<1>2. Prefix(f, n + 1)'
    BY <1>1, OneMore
<1>3. KeyHash' = KeyHash
    BY DEF KeyHash
<1>. QED  BY <1>1, <1>2, <1>3 DEF SomePrefix

\* The lines with a fixed place.
VersionLine(a) ==
    [name |-> "version", value |-> <<num(ASN1_INTEGER_get(a.version))>>]
AgentLine(a) == [name |-> "agentId", value |-> <<a.agentId>>]
PrincipalLine(a, f) ==
    [name |-> "principalUid",
     value |-> <<a.principalUid.realm, a.principalUid.identifier, f>>]
ModeLine(a) ==
    [name |-> "delegationMode",
     value |-> <<[len |-> 10, id |-> IF ASN1_INTEGER_get(a.delegationMode) = 1
                                     THEN "representative" ELSE "authorized"]>>]
PresentLine ==
    [name |-> "delegationAuthorization", value |-> <<[len |-> 7, id |-> "present"]>>]
ReasonLine(da) == [name |-> "reasonCode", value |-> <<da.reason.reasonCode>>]
NonceLine(da) == [name |-> "nonce", value |-> <<da.nonce>>]

LEMMA FixedLines ==
    ASSUME NEW a, IsListable(a), NEW f
    PROVE  /\ Listing(a, f)[1] = VersionLine(a)
           /\ Listing(a, f)[2] = AgentLine(a)
           /\ Listing(a, f)[3] = PrincipalLine(a, f)
           /\ Listing(a, f)[4] = ModeLine(a)
<1>. 1 \in 1..4 /\ 2 \in 1..4 /\ 3 \in 1..4 /\ 4 \in 1..4
    OBVIOUS
<1>1. \A i \in 1..4 : Listing(a, f)[i] = HeadLines(a, f)[i]
    BY ListingMade DEF ListingPlaces
<1>. QED  BY <1>1, HeadMade DEF VersionLine, AgentLine, PrincipalLine, ModeLine

Last(a, i) == 4 + Len(Both(a)) + i

LEMMA LastLines ==
    ASSUME NEW a, IsListable(a), NEW f, a.delegationAuthorization # NULL
    PROVE  /\ Listing(a, f)[Last(a, 1)] = PresentLine
           /\ Listing(a, f)[Last(a, 2)] = ReasonLine(a.delegationAuthorization)
           /\ Listing(a, f)[Last(a, 3)] = NonceLine(a.delegationAuthorization)
<1>. 1 \in 1..3 /\ 2 \in 1..3 /\ 3 \in 1..3
    OBVIOUS
<1>1. PICK da : da = a.delegationAuthorization
    OBVIOUS
<1>2. DelegationLength(da) = 3
    BY <1>1 DEF DelegationLength
<1>3. \A i \in 1..3 : Listing(a, f)[Last(a, i)] = DelegationLines(da)[i]
    BY <1>1, <1>2, ListingMade DEF ListingPlaces, Last
<1>. QED  BY <1>1, <1>3, DelegationMade DEF PresentLine, ReasonLine, NonceLine

-----------------------------------------------------------------------------
LEMMA V2iGoesOn ==
    ASSUME V2iStep
    PROVE  /\ at \in V2iPlaces /\ call' = call
           /\ at' \in V2iPlaces \cup {"returned"}
<1>. USE DEF V2iPlaces, Go
<1>1. CASE \E x : Returns(x)
    <2>1. at \in V2iPlaces
        BY DEF V2iStep, NewAic, NewAicFails, AgentId, PrincipalUid,
           PrincipalUidRead, PrincipalUidRefused, DelegationMode, Version,
           VersionRefused, SettingFails, DelegationAuth, DelegationAuthRefused,
           DelegationAuthRead, DelegationAuthNotRead, OtherLine, Validate,
           NewCapability, NewCapabilityFails, SetNames, NamesFail,
           DecodeParameters, ParametersRefused, SetParameters, ParametersFail,
           PushCapability, PushFails, AtLine, Capability
    <2>. QED  BY <1>1, <2>1 DEF Returns
<1>2. CASE NewAic
    BY <1>2 DEF NewAic, KeepConfig
<1>3. CASE \/ AgentId \/ PrincipalUidRead \/ DelegationMode \/ Version
           \/ DelegationAuthRead \/ OtherLine \/ PushCapability
    <2>1. at' = "line" /\ call' = call
        BY <1>3 DEF AgentId, PrincipalUidRead, DelegationMode, Version,
           DelegationAuthRead, OtherLine, PushCapability, NextLine, KeepConfig
    <2>. QED
        BY <1>3, <2>1 DEF AgentId, PrincipalUidRead, DelegationMode, Version,
           DelegationAuthRead, OtherLine, PushCapability, AtLine
<1>4. CASE \/ PrincipalUid \/ DelegationAuth \/ NewCapability \/ SetNames
           \/ DecodeParameters \/ SetParameters
    BY <1>4 DEF PrincipalUid, DelegationAuth, NewCapability, SetNames,
       DecodeParameters, SetParameters, Capability, AtLine, KeepConfig
<1>. QED
    BY <1>1, <1>2, <1>3, <1>4 DEF V2iStep, NewAicFails,
       PrincipalUidRefused, VersionRefused, SettingFails, DelegationAuthRefused,
       DelegationAuthNotRead, Validate, NewCapabilityFails, NamesFail,
       ParametersRefused, ParametersFail, PushFails, OutOfMemory, Rejected,
       V2iFails, CapabilityFails

\* A listing goes on.
LEMMA ListingGoesOn ==
    ASSUME ListInv, at \in I2vPlaces, at' \in I2vPlaces \ {"version"},
           UNCHANGED <<aic, origin>>,
           at' = "add principalUid" => uid' = aic.principalUid /\ WriteMeans',
           starved' \/ Progress'
    PROVE  ListInv'
BY DEF ListInv, Returned, I2vPlaces

LEMMA I2vList ==
    ASSUME Inv, ListInv, I2vStep
    PROVE  ListInv'
<1>. USE DEF Go
<1>1. ASSUME at \in I2vPlaces
      PROVE  IsListable(aic) /\ IsListable(origin) /\ aic = origin
    BY <1>1 DEF Inv, DataInv, ListInv
<1>2. IsSequence(list)
    BY DEF Inv, DataInv, AreLines
<1>3. Listed = Both(aic)
    BY DEF Listed, Both
<1>4. ASSUME NEW x, NEW place, Copies(x, place)
      PROVE  /\ UNCHANGED <<starved, list, origin, line, aic>> /\ at' = place
             /\ pointers' = pointers \cup {x}
             /\ \A n : AnyPrefix(n) => AnyPrefix(n)'
             /\ \A n : SomePrefix(n) => SomePrefix(n)'
    BY <1>4, PrefixStays DEF Copies, Allocates, KeepConfig
<1>5. ASSUME NEW name, NEW value, NEW locals, Adds(name, value, locals)
      PROVE  /\ UNCHANGED <<starved, origin, aic>>
             /\ list' = Append(list, [name |-> name, value |-> value])
    BY <1>5 DEF Adds
<1>6. CASE ListVersion
    <2>1. PICK l : l = VersionLine(aic)
        OBVIOUS
    <2>2. /\ UNCHANGED <<starved, origin, aic>> /\ list' = Append(list, l)
          /\ at = "version" /\ at' = "agentId"
        BY <1>5, <1>6, <2>1 DEF ListVersion, VersionLine
    <2>3. ASSUME NEW f PROVE Prefix(f, 1)'
        <3>1. list = <<>>
            BY <2>2 DEF ListInv
        <3>2. Prefix(f, 0)
            BY <3>1 DEF Prefix
        <3>3. l = Listing(origin, FingerprintText(f))[0 + 1]
            BY <1>1, <2>1, <2>2, FixedLines DEF I2vPlaces
        <3>4. Prefix(f, 0 + 1)'
            BY <1>2, <2>2, <3>2, <3>3, OneMore
        <3>. QED  BY <3>4
    <2>4. Progress'
        BY <2>2, <2>3 DEF Progress, AnyPrefix
    <2>. QED  BY <2>2, <2>4, ListingGoesOn DEF I2vPlaces
<1>7. CASE CopyAgentId
    <2>1. /\ UNCHANGED <<starved, origin, aic>> /\ at = "agentId" /\ at' = "add agentId"
          /\ AnyPrefix(1) => AnyPrefix(1)'
        BY <1>4, <1>7 DEF CopyAgentId
    <2>2. starved' \/ Progress'
        BY <2>1 DEF ListInv, Progress, I2vPlaces
    <2>. QED  BY <2>1, <2>2, ListingGoesOn DEF I2vPlaces
<1>8. CASE ListAgentId
    <2>1. PICK l : l = AgentLine(aic)
        OBVIOUS
    <2>2. /\ UNCHANGED <<starved, origin, aic>> /\ list' = Append(list, l)
          /\ at = "add agentId" /\ at' = "principalUid"
        BY <1>5, <1>8, <2>1 DEF ListAgentId, AgentLine
    <2>3. ASSUME NEW f, ~starved PROVE Prefix(f, 2)'
        <3>1. Prefix(f, 1)
            BY <2>2, <2>3 DEF ListInv, Progress, I2vPlaces, AnyPrefix
        <3>2. l = Listing(origin, FingerprintText(f))[1 + 1]
            <4>1. Listing(origin, FingerprintText(f))[2] = AgentLine(origin)
                BY <1>1, <2>2, FixedLines DEF I2vPlaces
            <4>2. aic = origin
                BY <1>1, <2>2 DEF I2vPlaces
            <4>. QED  BY <2>1, <4>1, <4>2
        <3>3. Prefix(f, 1 + 1)'
            BY <1>2, <2>2, <3>1, <3>2, OneMore
        <3>. QED  BY <3>3
    <2>4. starved' \/ Progress'
        BY <2>2, <2>3 DEF Progress, AnyPrefix
    <2>. QED  BY <2>2, <2>4, ListingGoesOn DEF I2vPlaces
<1>9. CASE WriteUid
    <2>1. /\ UNCHANGED <<starved, origin, aic, list>>
          /\ at = "principalUid" /\ at' = "add principalUid"
          /\ uid' = aic.principalUid /\ string' = <<>> /\ codec' = "write"
        BY <1>9 DEF WriteUid, ToText, Goto, KeepConfig, KeepMemory, ownershipVars
    <2>2. WriteMeans'
        BY <2>1 DEF WriteMeans
    <2>3. starved' \/ Progress'
        BY <2>1, PrefixStays DEF ListInv, Progress, I2vPlaces
    <2>. QED  BY <2>1, <2>2, <2>3, ListingGoesOn DEF I2vPlaces
<1>10. CASE ListUid
    <2>1. PICK l : l = [name |-> "principalUid", value |-> string]
        OBVIOUS
    <2>2. /\ UNCHANGED <<starved, origin, aic>> /\ list' = Append(list, l)
          /\ at = "add principalUid" /\ at' = "mode"
          /\ codec = "answered" /\ string # <<>>
        BY <1>5, <1>10, <2>1 DEF ListUid
    <2>3. PICK f \in Seq(0..63) :
             /\ string = <<uid.realm, uid.identifier, FingerprintText(f)>>
             /\ IsFingerprintOf(f, Bytes)
        BY <2>2 DEF ListInv, WriteMeans
    <2>4. uid = origin.principalUid
        BY <1>1, <2>2 DEF ListInv, I2vPlaces
    <2>5. ASSUME ~starved PROVE SomePrefix(3)'
        <3>1. Prefix(f, 2)
            BY <2>2, <2>5 DEF ListInv, Progress, I2vPlaces, AnyPrefix
        <3>2. l = Listing(origin, FingerprintText(f))[2 + 1]
            <4>1. l = PrincipalLine(origin, FingerprintText(f))
                BY <2>1, <2>3, <2>4 DEF PrincipalLine
            <4>2. Listing(origin, FingerprintText(f))[3]
                     = PrincipalLine(origin, FingerprintText(f))
                BY <1>1, <2>2, FixedLines DEF I2vPlaces
            <4>. QED  BY <4>1, <4>2
        <3>3. Prefix(f, 2 + 1)'
            BY <1>2, <2>2, <3>1, <3>2, OneMore
        <3>4. KeyHash' = KeyHash /\ KeyHash = Bytes
            BY <2>2, <2>4 DEF KeyHash, Bytes
        <3>. QED  BY <2>3, <3>3, <3>4 DEF SomePrefix
    <2>6. starved' \/ Progress'
        BY <2>2, <2>5 DEF Progress
    <2>. QED  BY <2>2, <2>6, ListingGoesOn DEF I2vPlaces
<1>11. CASE ListMode
    <2>1. PICK l : l = ModeLine(aic)
        OBVIOUS
    <2>2. /\ UNCHANGED <<starved, origin, aic>> /\ list' = Append(list, l)
          /\ at = "mode" /\ at' = "scheme" /\ line' = 1
        BY <1>5, <1>11, <2>1 DEF ListMode, ModeLine
    <2>3. ASSUME ~starved PROVE SomePrefix(4)'
        <3>1. SomePrefix(3)
            BY <2>2, <2>3 DEF ListInv, Progress, I2vPlaces
        <3>2. \A f \in Seq(0..63) : l = Listing(origin, FingerprintText(f))[3 + 1]
            BY <1>1, <2>1, <2>2, FixedLines DEF I2vPlaces
        <3>3. SomePrefix(3 + 1)'
            BY <1>2, <2>2, <3>1, <3>2, SomeMore
        <3>. QED  BY <3>3
    <2>4. line' <= Len(Listed') + 1 /\ 3 + line' = 4
        <3>1. Len(Listed') \in Nat
            BY <1>1, <1>3, <2>2, BothMade DEF I2vPlaces, Listed
        <3>. QED  BY <2>2, <3>1
    <2>5. starved' \/ Progress'
        BY <2>2, <2>3, <2>4 DEF Progress
    <2>. QED  BY <2>2, <2>5, ListingGoesOn DEF I2vPlaces
<1>12. CASE CopyScheme \/ CopyId \/ NewLine
    <2>1. PICK x, place :
             /\ Copies(x, place)
             /\ \/ at = "scheme" /\ place = "id" /\ x = "sid"
                \/ at = "id" /\ place = "room" /\ x = "cid"
                \/ at = "room" /\ place = "add capability" /\ x = "line"
        BY <1>12 DEF CopyScheme, CopyId, NewLine, AtCapability
    <2>2. /\ UNCHANGED <<starved, origin, aic, line>>
          /\ at \in I2vPlaces /\ at' = place /\ pointers' = pointers \cup {x}
          /\ Listed' = Listed
          /\ SomePrefix(3 + line) => SomePrefix(3 + line)'
        BY <1>4, <2>1 DEF I2vPlaces, Listed
    <2>3. starved' \/ Progress'
        BY <2>1, <2>2 DEF ListInv, Progress, I2vPlaces
    <2>. QED  BY <2>1, <2>2, <2>3, ListingGoesOn DEF I2vPlaces
<1>13. CASE SchemeNotCopied \/ IdNotCopied
    <2>1. /\ UNCHANGED <<origin, aic>> /\ starved' = TRUE
          /\ at \in {"scheme", "id"} /\ at' \in {"id", "room"}
        BY <1>13 DEF SchemeNotCopied, IdNotCopied, NotCopied, AtCapability, Starves,
           KeepConfig
    <2>. QED  BY <2>1, ListingGoesOn DEF I2vPlaces
<1>14. CASE ListCapability
    <2>1. PICK l : l = [name |-> ListedName, value |-> <<Scheme, Id>> \o Parameters]
        OBVIOUS
    <2>2. /\ UNCHANGED <<starved, origin, aic>> /\ list' = Append(list, l)
          /\ at = "add capability" /\ at' = "scheme" /\ line' = line + 1
        BY <1>5, <1>14, <2>1 DEF ListCapability
    <2>3. PICK n \in Nat : n = line /\ n # 0 /\ n \in 1..Len(Both(aic))
        <3>1. Len(Both(aic)) \in Nat
            BY <1>1, <2>2, BothMade DEF I2vPlaces
        <3>2. line \in Nat /\ line # 0 /\ line <= Len(Listed)
            BY <2>2 DEF Inv, LineInv
        <3>. QED  BY <1>3, <3>1, <3>2
    <2>4. ASSUME ~starved PROVE SomePrefix(3 + line)'
        <3>1. SomePrefix(3 + n) /\ "sid" \in pointers /\ "cid" \in pointers
            BY <2>2, <2>3, <2>4 DEF ListInv, Progress, I2vPlaces
        <3>2. l = CapabilityLine(KindOf(aic, n), Both(aic)[n])
            <4>1. This = Both(aic)[n] /\ ListedName = KindOf(aic, n)
                BY <1>3, <2>3 DEF This, ListedName, KindOf
            <4>2. Scheme = This.schemeId /\ Id = This.capabilityId
                BY <3>1 DEF Scheme, Id
            <4>3. Parameters = InHex(This.parameters)
                BY DEF Parameters, InHex
            <4>. QED  BY <2>1, <4>1, <4>2, <4>3 DEF CapabilityLine
        <3>3. ASSUME NEW f PROVE l = Listing(origin, FingerprintText(f))[3 + n + 1]
            <4>1. \A i \in 1..Len(Both(aic)) :
                     Listing(origin, FingerprintText(f))[4 + i]
                        = CapabilityLine(KindOf(aic, i), Both(aic)[i])
                <5>1. ListingPlaces(origin, FingerprintText(f),
                                    Listing(origin, FingerprintText(f)))
                    BY <1>1, <2>2, ListingMade DEF I2vPlaces
                <5>. QED  BY <1>1, <2>2, <5>1 DEF ListingPlaces, I2vPlaces
            <4>2. 3 + n + 1 = 4 + n
                OBVIOUS
            <4>. QED  BY <2>3, <3>2, <4>1, <4>2
        <3>4. 3 + n \in Nat
            OBVIOUS
        <3>5. SomePrefix(3 + n + 1)'
            BY <1>2, <2>2, <3>1, <3>3, <3>4, SomeMore
        <3>6. 3 + line' = 3 + n + 1
            <4>1. line' = line + 1
                BY <2>2
            <4>2. line = n
                BY <2>3
            <4>. QED  BY <4>1, <4>2
        <3>. QED  BY <3>5, <3>6
    <2>5. line' <= Len(Listed') + 1
        <3>1. Listed' = Listed /\ n \in 1..Len(Listed)
            BY <1>3, <2>2, <2>3 DEF Listed
        <3>2. Len(Listed) \in Nat
            BY <1>1, <1>3, <2>2, BothMade DEF I2vPlaces
        <3>3. line' = n + 1
            <4>1. line' = line + 1
                BY <2>2
            <4>2. line = n
                BY <2>3
            <4>. QED  BY <4>1, <4>2
        <3>. QED  BY <3>1, <3>2, <3>3
    <2>6. starved' \/ Progress'
        BY <2>2, <2>4, <2>5 DEF Progress
    <2>. QED  BY <2>2, <2>6, ListingGoesOn DEF I2vPlaces
<1>15. ASSUME at \in I2vPlaces, Returns(list), UNCHANGED starved,
              ~starved => SomePrefix(ListingLength(origin))
       PROVE  ListInv'
    <2>1. /\ at' = "returned" /\ result' = list
          /\ UNCHANGED <<call, list, origin, starved>>
        BY <1>15 DEF Returns
    <2>2. ASSUME ~starved PROVE WholeList'
        <3>1. PICK f \in Seq(0..63) :
                 IsFingerprintOf(f, KeyHash) /\ Prefix(f, ListingLength(origin))
            BY <1>15, <2>2 DEF SomePrefix
        <3>2. PICK t : t = Listing(origin, FingerprintText(f))
            OBVIOUS
        <3>3. IsSequence(t) /\ Len(t) = ListingLength(origin)
            BY <1>1, <1>15, <3>2, ListingMade DEF ListingPlaces
        <3>4. Len(list) = Len(t) /\ \A i \in 1..Len(list) : list[i] = t[i]
            BY <3>1, <3>2, <3>3 DEF Prefix
        <3>5. list = t
            BY <1>2, <3>3, <3>4, SequencesEqual
        <3>6. Listing(origin, FingerprintText(f))' = t /\ KeyHash' = KeyHash
            BY <2>1, <3>2 DEF KeyHash, Listing, HeadLines, CapabilityLines,
               DelegationLines, FingerprintText
        <3>7. IsListable(origin)'
            BY <1>1, <1>15, <2>1
        <3>. QED  BY <2>1, <3>1, <3>5, <3>6, <3>7 DEF WholeList
    <2>. QED  BY <2>1, <2>2 DEF ListInv, I2vPlaces
<1>16. CASE CapabilitiesListed
    <2>0. at = "scheme" /\ at \in I2vPlaces /\ line > Len(Listed)
        BY <1>16 DEF CapabilitiesListed, I2vPlaces
    <2>1. PICK n \in Nat : n = Len(Both(origin)) /\ n = Len(Listed)
        BY <1>1, <1>3, <2>0, BothMade
    <2>2. ASSUME ~starved PROVE SomePrefix(4 + n)
        <3>1. line <= n + 1 /\ line > n /\ SomePrefix(3 + line) /\ line \in Nat
            BY <2>0, <2>1, <2>2 DEF ListInv, Progress, I2vPlaces, Inv, LineInv
        <3>2. 3 + line = 4 + n
            BY <3>1
        <3>. QED  BY <3>1, <3>2
    <2>3. CASE aic.delegationAuthorization = NULL
        <3>1. Returns(list) /\ UNCHANGED starved
            BY <1>16, <2>3 DEF CapabilitiesListed, KeepMemory, ownershipVars
        <3>2. ListingLength(origin) = 4 + n
            BY <1>1, <2>0, <2>1, <2>3 DEF ListingLength, DelegationLength
        <3>. QED  BY <1>15, <2>0, <2>2, <3>1, <3>2
    <2>4. CASE aic.delegationAuthorization # NULL
        <3>1. PICK l : l = PresentLine
            OBVIOUS
        <3>2. /\ UNCHANGED <<starved, origin, aic>> /\ list' = Append(list, l)
              /\ at' = "reason"
            BY <1>5, <1>16, <2>4, <3>1 DEF CapabilitiesListed, PresentLine
        <3>3. ASSUME ~starved PROVE SomePrefix(4 + Len(Listed) + 1)'
            <4>1. ASSUME NEW f
                  PROVE  l = Listing(origin, FingerprintText(f))[4 + n + 1]
                <5>1. l = Listing(origin, FingerprintText(f))[Last(origin, 1)]
                    BY <1>1, <2>0, <2>4, <3>1, LastLines
                <5>2. Last(origin, 1) = 4 + n + 1
                    BY <2>1 DEF Last
                <5>. QED  BY <5>1, <5>2
            <4>2. 4 + n \in Nat
                OBVIOUS
            <4>3. SomePrefix(4 + n + 1)'
                BY <1>2, <2>2, <3>2, <3>3, <4>1, <4>2, SomeMore
            <4>4. Len(Listed') = n
                BY <2>1, <3>2 DEF Listed
            <4>. QED  BY <4>3, <4>4
        <3>4. starved' \/ Progress'
            BY <2>4, <3>2, <3>3 DEF Progress
        <3>. QED  BY <2>0, <3>2, <3>4, ListingGoesOn DEF I2vPlaces
    <2>. QED  BY <2>3, <2>4
<1>17. CASE CopyReason \/ CopyNonce
    <2>1. PICK x, place :
             /\ Copies(x, place)
             /\ \/ at = "reason" /\ place = "add reason"
                \/ at = "nonce" /\ place = "add nonce"
        BY <1>17 DEF CopyReason, CopyNonce
    <2>2. /\ UNCHANGED <<starved, origin, aic>>
          /\ at \in I2vPlaces /\ at' = place
          /\ Listed' = Listed
          /\ \A n : SomePrefix(n) => SomePrefix(n)'
        BY <1>4, <2>1 DEF I2vPlaces, Listed
    <2>3. starved' \/ Progress'
        BY <2>1, <2>2 DEF ListInv, Progress, I2vPlaces
    <2>. QED  BY <2>1, <2>2, <2>3, ListingGoesOn DEF I2vPlaces
<1>18. CASE ListReason
    <2>1. PICK l : l = ReasonLine(aic.delegationAuthorization)
        OBVIOUS
    <2>2. /\ UNCHANGED <<starved, origin, aic>> /\ list' = Append(list, l)
          /\ at = "add reason" /\ at' = "nonce"
        BY <1>5, <1>18, <2>1 DEF ListReason, ReasonLine
    <2>3. PICK n \in Nat : n = Len(Both(origin)) /\ n = Len(Listed) /\ n = Len(Listed')
        BY <1>1, <1>3, <2>2, BothMade DEF I2vPlaces, Listed
    <2>4. ASSUME ~starved
          PROVE  aic.delegationAuthorization # NULL /\ SomePrefix(4 + Len(Listed) + 2)'
        <3>1. aic.delegationAuthorization # NULL /\ SomePrefix(4 + n + 1)
            BY <2>2, <2>3, <2>4 DEF ListInv, Progress, I2vPlaces
        <3>2. ASSUME NEW f PROVE l = Listing(origin, FingerprintText(f))[4 + n + 2]
            <4>1. l = Listing(origin, FingerprintText(f))[Last(origin, 2)]
                BY <1>1, <2>1, <2>2, <3>1, LastLines DEF I2vPlaces
            <4>2. Last(origin, 2) = 4 + n + 2
                BY <2>3 DEF Last
            <4>. QED  BY <4>1, <4>2
        <3>3. PICK k \in Nat : k = 4 + n + 1 /\ k + 1 = 4 + n + 2
            OBVIOUS
        <3>4. SomePrefix(k + 1)'
            <4>1. \A f \in Seq(0..63) : l = Listing(origin, FingerprintText(f))[k + 1]
                BY <3>2, <3>3
            <4>2. SomePrefix(k)
                BY <3>1, <3>3
            <4>. QED  BY <1>2, <2>2, <4>1, <4>2, SomeMore
        <3>. QED  BY <2>3, <3>1, <3>3, <3>4
    <2>5. starved' \/ Progress'
        BY <2>2, <2>4 DEF Progress
    <2>. QED  BY <2>2, <2>5, ListingGoesOn DEF I2vPlaces
<1>19. CASE ListNonce
    <2>1. PICK l : l = NonceLine(aic.delegationAuthorization)
        OBVIOUS
    <2>2. /\ UNCHANGED <<starved, origin, aic>> /\ list' = Append(list, l)
          /\ at = "add nonce" /\ at' = "listed"
        BY <1>5, <1>19, <2>1 DEF ListNonce, NonceLine
    <2>3. PICK n \in Nat : n = Len(Both(origin)) /\ n = Len(Listed) /\ n = Len(Listed')
        BY <1>1, <1>3, <2>2, BothMade DEF I2vPlaces, Listed
    <2>4. ASSUME ~starved
          PROVE  aic.delegationAuthorization # NULL /\ SomePrefix(4 + Len(Listed) + 3)'
        <3>1. aic.delegationAuthorization # NULL /\ SomePrefix(4 + n + 2)
            BY <2>2, <2>3, <2>4 DEF ListInv, Progress, I2vPlaces
        <3>2. ASSUME NEW f PROVE l = Listing(origin, FingerprintText(f))[4 + n + 3]
            <4>1. l = Listing(origin, FingerprintText(f))[Last(origin, 3)]
                BY <1>1, <2>1, <2>2, <3>1, LastLines DEF I2vPlaces
            <4>2. Last(origin, 3) = 4 + n + 3
                BY <2>3 DEF Last
            <4>. QED  BY <4>1, <4>2
        <3>3. PICK k \in Nat : k = 4 + n + 2 /\ k + 1 = 4 + n + 3
            OBVIOUS
        <3>4. SomePrefix(k + 1)'
            <4>1. \A f \in Seq(0..63) : l = Listing(origin, FingerprintText(f))[k + 1]
                BY <3>2, <3>3
            <4>2. SomePrefix(k)
                BY <3>1, <3>3
            <4>. QED  BY <1>2, <2>2, <4>1, <4>2, SomeMore
        <3>. QED  BY <2>3, <3>1, <3>3, <3>4
    <2>5. starved' \/ Progress'
        BY <2>2, <2>4 DEF Progress
    <2>. QED  BY <2>2, <2>5, ListingGoesOn DEF I2vPlaces
<1>20. CASE AllListed
    <2>1. /\ at = "listed" /\ at \in I2vPlaces /\ Returns(list) /\ UNCHANGED starved
        BY <1>20 DEF AllListed, I2vPlaces, KeepMemory, ownershipVars
    <2>2. ASSUME ~starved PROVE SomePrefix(ListingLength(origin))
        <3>1. aic.delegationAuthorization # NULL /\ SomePrefix(4 + Len(Listed) + 3)
            BY <2>1, <2>2 DEF ListInv, Progress
        <3>2. ListingLength(origin) = 4 + Len(Listed) + 3
            BY <1>1, <1>3, <2>1, <3>1 DEF ListingLength, DelegationLength
        <3>. QED  BY <3>1, <3>2
    <2>. QED  BY <1>15, <2>1, <2>2
<1>21. CASE ListingFails
    <2>1. at' = "returned" /\ starved' = TRUE
        BY <1>21 DEF ListingFails, I2vFails, Starves, Returns
    <2>. QED  BY <2>1 DEF ListInv, I2vPlaces
<1>. QED
    BY <1>6, <1>7, <1>8, <1>9, <1>10, <1>11, <1>12, <1>13, <1>14, <1>16, <1>17,
       <1>18, <1>19, <1>20, <1>21 DEF I2vStep

LEMMA InitList == Init => ListInv
BY DEF Init, ListInv, I2vPlaces, Returned

LEMMA NextList == Inv /\ ListInv /\ [Next]_vars => ListInv'
<1>. SUFFICES ASSUME Inv, ListInv, [Next]_vars PROVE ListInv'
    OBVIOUS
<1>1. CASE CallV2i \/ ReadAgain
    <2>1. at' = "new"
        BY <1>1 DEF CallV2i, ReadAgain, Go
    <2>. QED  BY <2>1 DEF ListInv, I2vPlaces, Returned
<1>2. CASE CallI2v \/ ListResult
    <2>1. at' = "version" /\ list' = <<>> /\ aic' = origin'
        BY <1>2 DEF CallI2v, ListResult, Go, ListInv
    <2>. QED  BY <2>1 DEF ListInv, I2vPlaces, Returned, Progress
<1>3. CASE CallerFrees
    <2>1. at' = "idle" /\ list' = <<>>
        BY <1>3 DEF CallerFrees, Go
    <2>. QED  BY <2>1 DEF ListInv, I2vPlaces, Returned
<1>4. CASE V2iStep
    <2>1. /\ call' \in {"section", "listed"} /\ at' \in V2iPlaces \cup {"returned"}
        BY <1>4, V2iGoesOn DEF Inv, ControlInv
    <2>. QED  BY <2>1 DEF ListInv, I2vPlaces, V2iPlaces, Returned
<1>5. CASE I2vStep
    BY <1>5, I2vList
<1>6. CASE InCodec
    <2>1. CodecInv /\ CodecStep /\ UNCHANGED configVars
        BY <1>6 DEF Inv, InCodec
    <2>2. CodecOnly
        BY <2>1, CodecPointers
    <2>3. at \in {"uid", "add principalUid"} /\ at' = at
        BY <2>1, <2>2 DEF CodecOnly, Inv, ControlInv, configVars
    <2>4. CASE at = "uid"
        BY <2>3, <2>4 DEF ListInv, I2vPlaces, Returned
    <2>5. CASE at = "add principalUid"
        <3>1. /\ codec \in WritePlaces /\ uid = aic.principalUid /\ WriteMeans
            BY <2>5 DEF Inv, ControlInv, ListInv
        <3>2. WriteMeans' /\ uid' = uid
            BY <2>1, <3>1, CodecWrites
        <3>3. starved' \/ Progress'
            <4>1. ASSUME ~starved' PROVE Progress'
                <5>1. ~starved /\ AnyPrefix(2)
                    BY <2>2, <2>5, <4>1 DEF CodecOnly, ListInv, Progress, I2vPlaces
                <5>2. AnyPrefix(2)'
                    BY <2>1, <5>1, PrefixStays DEF configVars
                <5>. QED  BY <2>3, <2>5, <5>2 DEF Progress
            <4>. QED  BY <4>1
        <3>. QED
            BY <2>1, <2>3, <2>5, <3>1, <3>2, <3>3, ListingGoesOn
            DEF I2vPlaces, configVars
    <2>. QED  BY <2>3, <2>4, <2>5
<1>7. CASE UNCHANGED vars
    <2>1. UNCHANGED <<at, call, line, aic, list, result, origin, codec, string, uid, pos,
                      built, pointers, starved>>
        BY <1>7 DEF vars, configVars, codecVars, ownershipVars
    <2>2. WriteMeans' = WriteMeans
        BY <2>1 DEF WriteMeans, Bytes
    <2>3. \A f, n : Prefix(f, n)' = Prefix(f, n)
        BY <2>1 DEF Prefix, Listing, HeadLines, CapabilityLines, DelegationLines,
           FingerprintText
    <2>4. KeyHash' = KeyHash
        BY <2>1 DEF KeyHash
    <2>5. \A n : AnyPrefix(n)' = AnyPrefix(n) /\ SomePrefix(n)' = SomePrefix(n)
        BY <2>3, <2>4 DEF AnyPrefix, SomePrefix
    <2>6. Listed' = Listed
        BY <2>1 DEF Listed
    <2>7. Progress' = Progress
        BY <2>1, <2>5, <2>6 DEF Progress
    <2>8. WholeList' = WholeList
        BY <2>1, <2>4 DEF WholeList, Listing, HeadLines, CapabilityLines,
           DelegationLines, FingerprintText
    <2>. QED  BY <2>1, <2>2, <2>7, <2>8 DEF ListInv, Returned
<1>. QED  BY <1>1, <1>2, <1>3, <1>4, <1>5, <1>6, <1>7 DEF Next

\* What is listed is the listing to the last character, parameters in plain
\* hexadecimal, with a fingerprint that spells the key hash.
LEMMA ListedExactly ==
    ASSUME ListInv, Returned({"certificate", "made"}), ~starved
    PROVE  LET fingerprint == result[3].value[3]
           IN  /\ result = Listing(origin, fingerprint)
               /\ IsFingerprintOf(fingerprint.id, KeyHash)
<1>1. PICK f \in Seq(0..63) :
         /\ IsFingerprintOf(f, KeyHash)
         /\ result = Listing(origin, FingerprintText(f))
         /\ IsListable(origin)
    BY DEF ListInv, WholeList
<1>2. result[3].value = <<origin.principalUid.realm, origin.principalUid.identifier,
                          FingerprintText(f)>>
    <2>1. result[3] = PrincipalLine(origin, FingerprintText(f))
        BY <1>1, FixedLines
    <2>. QED  BY <2>1 DEF PrincipalLine
<1>3. result[3].value[3] = FingerprintText(f)
    BY <1>2
<1>4. FingerprintText(f).id = f
    BY DEF FingerprintText
<1>. QED  BY <1>1, <1>3, <1>4

\* Whatever i2v_AIC lists, of an AIC valid or not and of any size, is the listing
\* of the AIC in its fixed order: its version cut to the buffer it is printed to,
\* a fingerprint that spells the key hash, and parameters in a text that decodes
\* to them.
THEOREM AllIsListed == Spec => []ListingPrinted
<1>1. ListInv => ListingPrinted
    <2>. SUFFICES ASSUME ListInv, Returned({"certificate", "made"}), ~starved
                  PROVE  LET fingerprint == result[3].value[3]
                             listing == Listing(origin, fingerprint)
                         IN  /\ Len(result) = Len(listing)
                             /\ \A i \in 1..Len(listing) : SameLine(result[i], listing[i])
                             /\ IsFingerprintOf(fingerprint.id, KeyHash)
        BY DEF ListingPrinted, KeyHash
    <2>1. PICK f : f = result[3].value[3]
        OBVIOUS
    <2>2. result = Listing(origin, f) /\ IsFingerprintOf(f.id, KeyHash)
        BY <2>1, ListedExactly
    <2>3. \A l : SameLine(l, l)
        BY DEF SameLine
    <2>. QED  BY <2>1, <2>2, <2>3
<1>. QED  BY <1>1, InitInv, NextInv, InitList, NextList, PTL DEF Spec

-----------------------------------------------------------------------------
(***************************************************************************)
(* The lines of a name                                                     *)
(***************************************************************************)

LEMMA NamedStep ==
    ASSUME NEW s, NEW name, NEW n \in Nat
    PROVE  /\ s[n + 1].name = name => Named(s, name, n + 1) = Named(s, name, n) \cup {n + 1}
           /\ s[n + 1].name # name => Named(s, name, n + 1) = Named(s, name, n)
<1>1. \A i : i \in 1..n + 1 <=> i \in 1..n \/ i = n + 1
    OBVIOUS
<1>. QED  BY <1>1 DEF Named

LEMMA NamedFinite ==
    ASSUME NEW s, NEW name, NEW n \in Nat
    PROVE  /\ IsFiniteSet(Named(s, name, n)) /\ Count(s, name, n) \in Nat
           /\ Named(s, name, n) \subseteq 1..n
<1>1. IsFiniteSet(1..n)
    BY FS_Interval
<1>2. Named(s, name, n) \in SUBSET (1..n)
    BY DEF Named
<1>. QED  BY <1>1, <1>2, FS_Subset, FS_CardinalityType DEF Count

LEMMA CountStep ==
    ASSUME NEW s, NEW name, NEW n \in Nat
    PROVE  /\ s[n + 1].name = name => Count(s, name, n + 1) = Count(s, name, n) + 1
           /\ s[n + 1].name # name => Count(s, name, n + 1) = Count(s, name, n)
           /\ Count(s, name, 0) = 0
<1>1. n + 1 \notin Named(s, name, n)
    BY NamedFinite
<1>2. Cardinality(Named(s, name, n) \cup {n + 1}) = Cardinality(Named(s, name, n)) + 1
    BY <1>1, NamedFinite, FS_AddElement
<1>3. Named(s, name, 0) = {}
    BY DEF Named
<1>4. Cardinality({}) = 0
    BY FS_EmptySet
<1>5. Count(s, name, 0) = 0
    BY <1>3, <1>4 DEF Count
<1>6. ASSUME s[n + 1].name = name PROVE Count(s, name, n + 1) = Count(s, name, n) + 1
    <2>1. Named(s, name, n + 1) = Named(s, name, n) \cup {n + 1}
        BY <1>6, NamedStep
    <2>. QED  BY <1>2, <2>1 DEF Count
<1>7. ASSUME s[n + 1].name # name PROVE Count(s, name, n + 1) = Count(s, name, n)
    BY <1>7, NamedStep DEF Count
<1>. QED  BY <1>5, <1>6, <1>7

LEMMA CountGrows ==
    ASSUME NEW s, NEW name, NEW i \in Nat, NEW j \in Nat, i <= j
    PROVE  /\ Count(s, name, i) <= Count(s, name, j)
           /\ Count(s, name, i) = Count(s, name, j) => Named(s, name, i) = Named(s, name, j)
<1>1. Named(s, name, i) \in SUBSET Named(s, name, j)
    BY DEF Named
<1>. QED  BY <1>1, NamedFinite, FS_Subset DEF Count

\* The k-th line of a name is the only one.
IsNth(s, name, k, i) == i \in 1..Len(s) /\ s[i].name = name /\ Count(s, name, i) = k

LEMMA OnlyNth ==
    ASSUME NEW s, Len(s) \in Nat, NEW name, NEW k, NEW i, IsNth(s, name, k, i),
           NEW j, IsNth(s, name, k, j)
    PROVE  i = j
<1>1. ASSUME NEW x, IsNth(s, name, k, x), NEW y, IsNth(s, name, k, y), x <= y
      PROVE  x = y
    <2>1. x \in Nat /\ y \in Nat /\ x \in 1..Len(s) /\ y \in 1..Len(s)
        BY <1>1 DEF IsNth
    <2>2. Named(s, name, x) = Named(s, name, y)
        BY <1>1, <2>1, CountGrows DEF IsNth
    <2>3. y \in Named(s, name, y)
        BY <1>1, <2>1 DEF IsNth, Named
    <2>4. y <= x
        BY <2>1, <2>2, <2>3 DEF Named
    <2>. QED  BY <1>1, <2>1, <2>4
<1>2. i \in Int /\ j \in Int
    BY DEF IsNth
<1>3. i <= j \/ j <= i
    BY <1>2
<1>. QED  BY <1>1, <1>3

LEMMA NthIs ==
    ASSUME NEW s, Len(s) \in Nat, NEW name, NEW k, NEW i, IsNth(s, name, k, i)
    PROVE  Nth(s, name, k) = i
<1>1. \E x \in 1..Len(s) : s[x].name = name /\ Count(s, name, x) = k
    BY DEF IsNth
<1>2. IsNth(s, name, k, Nth(s, name, k))
    BY <1>1 DEF Nth, IsNth
<1>. QED  BY <1>2, OnlyNth

\* The capabilities of one line more.
LEMMA CapabilitiesStep ==
    ASSUME NEW s, NEW n \in Nat, Len(s) \in Nat, n + 1 <= Len(s), NEW name
    PROVE  /\ s[n + 1].name = name =>
                 CapabilitiesOf(s, name, n + 1) =
                    Append(CapabilitiesOf(s, name, n), CapabilityOf(s[n + 1].value))
           /\ s[n + 1].name # name => CapabilitiesOf(s, name, n + 1) = CapabilitiesOf(s, name, n)
<1>1. CASE s[n + 1].name = name
    <2>1. PICK c \in Nat : c = Count(s, name, n)
        BY NamedFinite
    <2>2. Count(s, name, n + 1) = c + 1
        BY <1>1, <2>1, CountStep
    <2>3. IsNth(s, name, c + 1, n + 1)
        BY <1>1, <2>2 DEF IsNth
    <2>4. Nth(s, name, c + 1) = n + 1
        BY <2>3, NthIs
    <2>5. PICK E : E = [k \in 1..c + 1 |-> CapabilityOf(s[Nth(s, name, k)].value)]
        OBVIOUS
    <2>6. PICK D : D = [k \in 1..c |-> CapabilityOf(s[Nth(s, name, k)].value)]
        OBVIOUS
    <2>7. E = Append(D, E[c + 1])
        <3>1. PICK S : S = {CapabilityOf(s[Nth(s, name, k)].value) : k \in 1..c + 1}
            OBVIOUS
        <3>2. D \in Seq(S) /\ E \in Seq(S) /\ Len(D) = c /\ Len(E) = c + 1
            BY <2>5, <2>6, <3>1
        <3>3. \A k \in 1..c : E[k] = D[k]
            BY <2>5, <2>6
        <3>4. E[c + 1] \in S
            BY <2>5, <3>1
        <3>5. Append(D, E[c + 1]) \in Seq(S) /\ Len(Append(D, E[c + 1])) = c + 1
            BY <3>2, <3>4
        <3>6. \A k \in 1..c + 1 : Append(D, E[c + 1])[k] = E[k]
            BY <3>2, <3>3, <3>4
        <3>. QED  BY <3>2, <3>5, <3>6
    <2>8. E[c + 1] = CapabilityOf(s[n + 1].value)
        BY <2>4, <2>5
    <2>9. CapabilitiesOf(s, name, n + 1) = E /\ CapabilitiesOf(s, name, n) = D
        BY <2>1, <2>2, <2>5, <2>6 DEF CapabilitiesOf
    <2>. QED  BY <1>1, <2>7, <2>8, <2>9
<1>2. CASE s[n + 1].name # name
    <2>1. Count(s, name, n + 1) = Count(s, name, n)
        BY <1>2, CountStep
    <2>. QED  BY <1>2, <2>1 DEF CapabilitiesOf
<1>. QED  BY <1>1, <1>2

\* The last line of a name.
LEMMA LastStep ==
    ASSUME NEW s, NEW n \in Nat, NEW name
    PROVE  /\ s[n + 1].name = name =>
                 Has(s, name, n + 1) /\ LastOf(s, name, n + 1) = n + 1
           /\ s[n + 1].name # name =>
                 /\ Has(s, name, n + 1) = Has(s, name, n)
                 /\ LastOf(s, name, n + 1) = LastOf(s, name, n)
           /\ ~Has(s, name, 0)
<1>1. CASE s[n + 1].name = name
    <2>1. Named(s, name, n + 1) = Named(s, name, n) \cup {n + 1}
        BY <1>1, NamedStep
    <2>2. n + 1 \in Named(s, name, n + 1) /\ \A j \in Named(s, name, n + 1) : j <= n + 1
        BY <2>1, NamedFinite
    <2>3. \A i \in Named(s, name, n + 1) :
             (\A j \in Named(s, name, n + 1) : j <= i) => i = n + 1
        <3>1. Named(s, name, n + 1) \subseteq Int
            BY DEF Named
        <3>. QED  BY <2>2, <3>1
    <2>4. LastOf(s, name, n + 1) = n + 1
        BY <2>2, <2>3 DEF LastOf
    <2>. QED  BY <1>1, <2>2, <2>4 DEF Has, Named
<1>2. CASE s[n + 1].name # name
    BY <1>2, NamedStep DEF Has, LastOf, Named
<1>3. ~Has(s, name, 0)
    BY DEF Has, Named
<1>. QED  BY <1>1, <1>2, <1>3

-----------------------------------------------------------------------------
(***************************************************************************)
(* The AIC that the first lines describe, field by field                   *)
(***************************************************************************)

VersionAt(s, n) ==
    IF Has(s, "version", n) THEN atol(Whole(LastValue(s, "version", n))) ELSE 1
AgentAt(s, n) ==
    IF Has(s, "agentId", n) THEN Whole(LastValue(s, "agentId", n)) ELSE Empty
PrincipalAt(s, n) ==
    IF Has(s, "principalUid", n) THEN UidOf(LastValue(s, "principalUid", n))
    ELSE AIC_PRINCIPALUID_new
ModeAt(s, n) ==
    IF /\ Has(s, "delegationMode", n)
       /\ Whole(LastValue(s, "delegationMode", n)).id = "representative"
    THEN 1 ELSE 0
ConstraintsAt(s, n) ==
    IF Has(s, "authorizationConstraint", n)
    THEN CapabilitiesOf(s, "authorizationConstraint", n) ELSE NULL
DelegationAt(s, n) ==
    IF Has(s, "delegationAuthDer", n)
    THEN DelegationOf(LastValue(s, "delegationAuthDer", n)) ELSE NULL

IsDescription(a, s, n) ==
    a = [version |-> VersionAt(s, n), agentId |-> AgentAt(s, n),
         principalUid |-> PrincipalAt(s, n),
         capabilities |-> CapabilitiesOf(s, "capability", n),
         delegationMode |-> ModeAt(s, n),
         authorizationConstraints |-> ConstraintsAt(s, n),
         delegationAuthorization |-> DelegationAt(s, n)]

LEMMA Describes ==
    ASSUME NEW s, NEW n
    PROVE  IsDescription(Described(s, n), s, n)
BY DEF IsDescription, Described, VersionAt, AgentAt, PrincipalAt, ModeAt,
   ConstraintsAt, DelegationAt

LEMMA NothingDescribed ==
    ASSUME NEW s
    PROVE  [AIC_new EXCEPT !.version = 1] = Described(s, 0)
<1>. 0 \in Nat
    OBVIOUS
<1>1. \A name : ~Has(s, name, 0) /\ Count(s, name, 0) = 0
    BY LastStep, CountStep
<1>2. CapabilitiesOf(s, "capability", 0) = <<>>
    BY <1>1 DEF CapabilitiesOf
<1>3. /\ VersionAt(s, 0) = 1 /\ AgentAt(s, 0) = Empty
      /\ PrincipalAt(s, 0) = AIC_PRINCIPALUID_new /\ ModeAt(s, 0) = 0
      /\ ConstraintsAt(s, 0) = NULL /\ DelegationAt(s, 0) = NULL
    BY <1>1 DEF VersionAt, AgentAt, PrincipalAt, ModeAt, ConstraintsAt, DelegationAt
<1>4. IsDescription(Described(s, 0), s, 0)
    BY Describes
<1>. QED  BY <1>2, <1>3, <1>4 DEF IsDescription, AIC_new

\* What a line does not name stays.
OthersStayed(s, n) ==
    /\ s[n + 1].name # "version" => VersionAt(s, n + 1) = VersionAt(s, n)
    /\ s[n + 1].name # "agentId" => AgentAt(s, n + 1) = AgentAt(s, n)
    /\ s[n + 1].name # "principalUid" => PrincipalAt(s, n + 1) = PrincipalAt(s, n)
    /\ s[n + 1].name # "delegationMode" => ModeAt(s, n + 1) = ModeAt(s, n)
    /\ s[n + 1].name # "authorizationConstraint" =>
          ConstraintsAt(s, n + 1) = ConstraintsAt(s, n)
    /\ s[n + 1].name # "delegationAuthDer" => DelegationAt(s, n + 1) = DelegationAt(s, n)
    /\ s[n + 1].name # "capability" =>
          CapabilitiesOf(s, "capability", n + 1) = CapabilitiesOf(s, "capability", n)

LEMMA OthersStay ==
    ASSUME NEW s, NEW n \in Nat, Len(s) \in Nat, n + 1 <= Len(s)
    PROVE  OthersStayed(s, n)
<1>1. ASSUME NEW name, s[n + 1].name # name
      PROVE  /\ Has(s, name, n + 1) = Has(s, name, n)
             /\ LastValue(s, name, n + 1) = LastValue(s, name, n)
    BY <1>1, LastStep DEF LastValue
<1>2. ASSUME NEW name, s[n + 1].name # name
      PROVE  CapabilitiesOf(s, name, n + 1) = CapabilitiesOf(s, name, n)
    BY <1>2, CapabilitiesStep
<1>3. s[n + 1].name # "version" => VersionAt(s, n + 1) = VersionAt(s, n)
    BY <1>1 DEF VersionAt
<1>4. s[n + 1].name # "agentId" => AgentAt(s, n + 1) = AgentAt(s, n)
    BY <1>1 DEF AgentAt
<1>5. s[n + 1].name # "principalUid" => PrincipalAt(s, n + 1) = PrincipalAt(s, n)
    BY <1>1 DEF PrincipalAt
<1>6. s[n + 1].name # "delegationMode" => ModeAt(s, n + 1) = ModeAt(s, n)
    BY <1>1 DEF ModeAt
<1>7. s[n + 1].name # "authorizationConstraint" => ConstraintsAt(s, n + 1) = ConstraintsAt(s, n)
    BY <1>1, <1>2 DEF ConstraintsAt
<1>8. s[n + 1].name # "delegationAuthDer" => DelegationAt(s, n + 1) = DelegationAt(s, n)
    BY <1>1 DEF DelegationAt
<1>. QED  BY <1>2, <1>3, <1>4, <1>5, <1>6, <1>7, <1>8 DEF OthersStayed

\* What it names is set, or added to.
WasSet(s, n, v) ==
    /\ s[n + 1].name = "version" => VersionAt(s, n + 1) = atol(Whole(v))
    /\ s[n + 1].name = "agentId" => AgentAt(s, n + 1) = Whole(v)
    /\ s[n + 1].name = "principalUid" => PrincipalAt(s, n + 1) = UidOf(v)
    /\ s[n + 1].name = "delegationMode" => ModeAt(s, n + 1) = Mode(Whole(v))
    /\ s[n + 1].name = "authorizationConstraint" =>
          ConstraintsAt(s, n + 1) =
             Append(CapabilitiesOf(s, "authorizationConstraint", n), CapabilityOf(v))
    /\ s[n + 1].name = "delegationAuthDer" => DelegationAt(s, n + 1) = DelegationOf(v)
    /\ s[n + 1].name = "capability" =>
          CapabilitiesOf(s, "capability", n + 1) =
             Append(CapabilitiesOf(s, "capability", n), CapabilityOf(v))

LEMMA NamedIsSet ==
    ASSUME NEW s, NEW n \in Nat, Len(s) \in Nat, n + 1 <= Len(s), NEW v, v = s[n + 1].value
    PROVE  WasSet(s, n, v)
<1>1. ASSUME NEW name, s[n + 1].name = name
      PROVE  Has(s, name, n + 1) /\ LastValue(s, name, n + 1) = v
    BY <1>1, LastStep DEF LastValue
<1>2. ASSUME NEW name, s[n + 1].name = name
      PROVE  CapabilitiesOf(s, name, n + 1) = Append(CapabilitiesOf(s, name, n), CapabilityOf(v))
    BY <1>2, CapabilitiesStep
<1>3. s[n + 1].name = "version" => VersionAt(s, n + 1) = atol(Whole(v))
    BY <1>1 DEF VersionAt
<1>4. s[n + 1].name = "agentId" => AgentAt(s, n + 1) = Whole(v)
    BY <1>1 DEF AgentAt
<1>5. s[n + 1].name = "principalUid" => PrincipalAt(s, n + 1) = UidOf(v)
    BY <1>1 DEF PrincipalAt
<1>6. s[n + 1].name = "delegationMode" => ModeAt(s, n + 1) = Mode(Whole(v))
    BY <1>1 DEF ModeAt, Mode
<1>7. s[n + 1].name = "authorizationConstraint" =>
         ConstraintsAt(s, n + 1) =
            Append(CapabilitiesOf(s, "authorizationConstraint", n), CapabilityOf(v))
    BY <1>1, <1>2 DEF ConstraintsAt
<1>8. s[n + 1].name = "delegationAuthDer" => DelegationAt(s, n + 1) = DelegationOf(v)
    BY <1>1 DEF DelegationAt
<1>. QED  BY <1>2, <1>3, <1>4, <1>5, <1>6, <1>7, <1>8 DEF WasSet

\* The AIC with one line more.
OneLineMore(s, n, a, v, name) ==
    /\ name = "version" => Described(s, n + 1) = [a EXCEPT !.version = atol(Whole(v))]
    /\ name = "agentId" => Described(s, n + 1) = [a EXCEPT !.agentId = Whole(v)]
    /\ name = "principalUid" => Described(s, n + 1) = [a EXCEPT !.principalUid = UidOf(v)]
    /\ name = "delegationMode" =>
          Described(s, n + 1) = [a EXCEPT !.delegationMode = Mode(Whole(v))]
    /\ name = "authorizationConstraint" =>
          Described(s, n + 1) =
             [a EXCEPT !.authorizationConstraints =
                 Append(CapabilitiesOf(s, "authorizationConstraint", n), CapabilityOf(v))]
    /\ name = "delegationAuthDer" =>
          Described(s, n + 1) = [a EXCEPT !.delegationAuthorization = DelegationOf(v)]
    /\ name = "capability" =>
          Described(s, n + 1) =
             [a EXCEPT !.capabilities =
                 Append(CapabilitiesOf(s, "capability", n), CapabilityOf(v))]
    /\ name \notin {"agentId", "principalUid", "delegationMode", "version",
                    "capability", "authorizationConstraint", "delegationAuthDer"} =>
          Described(s, n + 1) = a

LEMMA DescribedStep ==
    ASSUME NEW s, NEW n \in Nat, Len(s) \in Nat, n + 1 <= Len(s), NEW v, v = s[n + 1].value,
           NEW a, a = Described(s, n), NEW name, name = s[n + 1].name
    PROVE  OneLineMore(s, n, a, v, name)
<1>1. IsDescription(a, s, n) /\ IsDescription(Described(s, n + 1), s, n + 1)
    BY Describes
<1>11. OthersStayed(s, n) /\ WasSet(s, n, v)
    BY OthersStay, NamedIsSet
<1>. DEFINE Made(b) == IsDescription(b, s, n + 1)
<1>2. ASSUME NEW b, Made(b) PROVE Described(s, n + 1) = b
    BY <1>1, <1>2 DEF IsDescription
<1>. HIDE DEF Made
<1>3. CASE name = "version"
    <2>1. Made([a EXCEPT !.version = atol(Whole(v))])
        <3>1. /\ VersionAt(s, n + 1) = atol(Whole(v))
              /\ AgentAt(s, n + 1) = AgentAt(s, n)
              /\ PrincipalAt(s, n + 1) = PrincipalAt(s, n)
              /\ ModeAt(s, n + 1) = ModeAt(s, n)
              /\ ConstraintsAt(s, n + 1) = ConstraintsAt(s, n)
              /\ DelegationAt(s, n + 1) = DelegationAt(s, n)
              /\ CapabilitiesOf(s, "capability", n + 1) = CapabilitiesOf(s, "capability", n)
            BY <1>3, <1>11 DEF OthersStayed, WasSet
        <3>. QED  BY <1>1, <3>1 DEF IsDescription, Made
    <2>. QED  BY <1>2, <1>3, <2>1 DEF OneLineMore
<1>4. CASE name = "agentId"
    <2>1. Made([a EXCEPT !.agentId = Whole(v)])
        <3>1. /\ VersionAt(s, n + 1) = VersionAt(s, n)
              /\ AgentAt(s, n + 1) = Whole(v)
              /\ PrincipalAt(s, n + 1) = PrincipalAt(s, n)
              /\ ModeAt(s, n + 1) = ModeAt(s, n)
              /\ ConstraintsAt(s, n + 1) = ConstraintsAt(s, n)
              /\ DelegationAt(s, n + 1) = DelegationAt(s, n)
              /\ CapabilitiesOf(s, "capability", n + 1) = CapabilitiesOf(s, "capability", n)
            BY <1>4, <1>11 DEF OthersStayed, WasSet
        <3>. QED  BY <1>1, <3>1 DEF IsDescription, Made
    <2>. QED  BY <1>2, <1>4, <2>1 DEF OneLineMore
<1>5. CASE name = "principalUid"
    <2>1. Made([a EXCEPT !.principalUid = UidOf(v)])
        <3>1. /\ VersionAt(s, n + 1) = VersionAt(s, n)
              /\ AgentAt(s, n + 1) = AgentAt(s, n)
              /\ PrincipalAt(s, n + 1) = UidOf(v)
              /\ ModeAt(s, n + 1) = ModeAt(s, n)
              /\ ConstraintsAt(s, n + 1) = ConstraintsAt(s, n)
              /\ DelegationAt(s, n + 1) = DelegationAt(s, n)
              /\ CapabilitiesOf(s, "capability", n + 1) = CapabilitiesOf(s, "capability", n)
            BY <1>5, <1>11 DEF OthersStayed, WasSet
        <3>. QED  BY <1>1, <3>1 DEF IsDescription, Made
    <2>. QED  BY <1>2, <1>5, <2>1 DEF OneLineMore
<1>6. CASE name = "delegationMode"
    <2>1. Made([a EXCEPT !.delegationMode = Mode(Whole(v))])
        <3>1. /\ VersionAt(s, n + 1) = VersionAt(s, n)
              /\ AgentAt(s, n + 1) = AgentAt(s, n)
              /\ PrincipalAt(s, n + 1) = PrincipalAt(s, n)
              /\ ModeAt(s, n + 1) = Mode(Whole(v))
              /\ ConstraintsAt(s, n + 1) = ConstraintsAt(s, n)
              /\ DelegationAt(s, n + 1) = DelegationAt(s, n)
              /\ CapabilitiesOf(s, "capability", n + 1) = CapabilitiesOf(s, "capability", n)
            BY <1>6, <1>11 DEF OthersStayed, WasSet
        <3>. QED  BY <1>1, <3>1 DEF IsDescription, Made
    <2>. QED  BY <1>2, <1>6, <2>1 DEF OneLineMore
<1>7. CASE name = "authorizationConstraint"
    <2>1. Made([a EXCEPT !.authorizationConstraints =
                   Append(CapabilitiesOf(s, "authorizationConstraint", n), CapabilityOf(v))])
        <3>0. PICK x : x = Append(CapabilitiesOf(s, "authorizationConstraint", n), CapabilityOf(v))
            OBVIOUS
        <3>1. /\ VersionAt(s, n + 1) = VersionAt(s, n)
              /\ AgentAt(s, n + 1) = AgentAt(s, n)
              /\ PrincipalAt(s, n + 1) = PrincipalAt(s, n)
              /\ ModeAt(s, n + 1) = ModeAt(s, n)
              /\ ConstraintsAt(s, n + 1) = x
              /\ DelegationAt(s, n + 1) = DelegationAt(s, n)
              /\ CapabilitiesOf(s, "capability", n + 1) = CapabilitiesOf(s, "capability", n)
            BY <1>7, <1>11, <3>0 DEF OthersStayed, WasSet
        <3>3. Made([a EXCEPT !.authorizationConstraints = x])
            BY <1>1, <3>1 DEF IsDescription, Made
        <3>. QED  BY <3>0, <3>3
    <2>. QED  BY <1>2, <1>7, <2>1 DEF OneLineMore
<1>8. CASE name = "delegationAuthDer"
    <2>1. Made([a EXCEPT !.delegationAuthorization = DelegationOf(v)])
        <3>1. /\ VersionAt(s, n + 1) = VersionAt(s, n)
              /\ AgentAt(s, n + 1) = AgentAt(s, n)
              /\ PrincipalAt(s, n + 1) = PrincipalAt(s, n)
              /\ ModeAt(s, n + 1) = ModeAt(s, n)
              /\ ConstraintsAt(s, n + 1) = ConstraintsAt(s, n)
              /\ DelegationAt(s, n + 1) = DelegationOf(v)
              /\ CapabilitiesOf(s, "capability", n + 1) = CapabilitiesOf(s, "capability", n)
            BY <1>8, <1>11 DEF OthersStayed, WasSet
        <3>. QED  BY <1>1, <3>1 DEF IsDescription, Made
    <2>. QED  BY <1>2, <1>8, <2>1 DEF OneLineMore
<1>9. CASE name = "capability"
    <2>1. Made([a EXCEPT !.capabilities =
                   Append(CapabilitiesOf(s, "capability", n), CapabilityOf(v))])
        <3>0. PICK x : x = Append(CapabilitiesOf(s, "capability", n), CapabilityOf(v))
            OBVIOUS
        <3>1. /\ VersionAt(s, n + 1) = VersionAt(s, n)
              /\ AgentAt(s, n + 1) = AgentAt(s, n)
              /\ PrincipalAt(s, n + 1) = PrincipalAt(s, n)
              /\ ModeAt(s, n + 1) = ModeAt(s, n)
              /\ ConstraintsAt(s, n + 1) = ConstraintsAt(s, n)
              /\ DelegationAt(s, n + 1) = DelegationAt(s, n)
              /\ CapabilitiesOf(s, "capability", n + 1) = x
            BY <1>9, <1>11, <3>0 DEF OthersStayed, WasSet
        <3>3. Made([a EXCEPT !.capabilities = x])
            BY <1>1, <3>1 DEF IsDescription, Made
        <3>. QED  BY <3>0, <3>3
    <2>. QED  BY <1>2, <1>9, <2>1 DEF OneLineMore
<1>10. CASE name \notin {"agentId", "principalUid", "delegationMode", "version",
                         "capability", "authorizationConstraint", "delegationAuthDer"}
    <2>1. Made(a)
        BY <1>1, <1>10, <1>11 DEF OthersStayed, IsDescription, Made
    <2>. QED  BY <1>2, <1>10, <2>1 DEF OneLineMore
<1>. QED  BY <1>3, <1>4, <1>5, <1>6, <1>7, <1>8, <1>9, <1>10

-----------------------------------------------------------------------------
(***************************************************************************)
(* What has been read                                                      *)
(***************************************************************************)

\* A principal is made only when no allocation has failed.
NotStarved ==
    /\ codec \in {"read", "decode", "decoded", "filling", "filled"} => ~starved
    /\ codec = "answered" /\ "pu" \in pointers => ~starved

LEMMA CodecStarving ==
    ASSUME CodecInv, CodecStep, ReadMeans, NotStarved, codec \in ReadPlaces
    PROVE  NotStarved' /\ string' = string
<1>. USE DEF NotStarved, Goto
<1>1. /\ ~Join /\ ~NewEncoded /\ ~EncodeGroup /\ ~EncodeEnds
      /\ ~NewEncodedFails /\ ~JoinFails
    BY DEF ReadPlaces, Join, NewEncoded, EncodeGroup, EncodeEnds, NewEncodedFails, JoinFails
<1>2. CASE NewDecoded \/ NewUid
    BY <1>2 DEF NewDecoded, NewUid, Allocates
<1>3. CASE DecodeChar
    BY <1>3 DEF DecodeChar, Decoding, ownershipVars
<1>4. CASE BadChar
    BY <1>4 DEF BadChar, Refuse
<1>5. CASE DecodeEnds
    BY <1>5 DEF DecodeEnds, Refuse, ownershipVars
<1>6. CASE FillUid \/ SetHashAlgo
    BY <1>6 DEF FillUid, SetHashAlgo
<1>7. CASE Err
    BY <1>7 DEF Err, Frees
<1>8. CASE NewDecodedFails \/ NewUidFails \/ SetHashAlgoFails
    BY <1>8 DEF NewDecodedFails, NewUidFails, SetHashAlgoFails, StarvesToErr
<1>9. CASE FillUidFails
    BY <1>9 DEF FillUidFails, Frees
<1>. QED
    BY <1>1, <1>2, <1>3, <1>4, <1>5, <1>6, <1>7, <1>8, <1>9 DEF CodecStep, CodecFails

\* What v2i_AIC made from a section.
Source(s, a) ==
    /\ a = Described(s, Len(s)) /\ AIC_validate(a)
    /\ \A i \in 1..Len(s) : Readable(s[i])
    /\ IsListable(a)
    /\ a.capabilities \in Seq(Said(s))
    /\ a.authorizationConstraints # NULL => a.authorizationConstraints \in Seq(Said(s))

\* The last delegation of a section.
IsLastDer(s, d) ==
    /\ d \in 1..Len(s) /\ s[d].name = "delegationAuthDer"
    /\ \A j \in d + 1..Len(s) : s[j].name # "delegationAuthDer"

\* The section that is read again.
Relisted ==
    \E s \in Sections, f \in Seq(0..63), d \in Nat :
       /\ Source(s, origin) /\ IsLastDer(s, d)
       /\ section = Append(Listing(origin, FingerprintText(f)), s[d])
       /\ IsFingerprintOf(f, KeyHash)

WithNames(value) ==
    [schemeId |-> value[1],
     capabilityId |-> IF Len(value) > 1 THEN value[2] ELSE Empty,
     parameters |-> NULL]

\* The first n lines are read; the next one is being read.
Done(n) ==
    /\ line = n + 1 /\ n <= Len(section)
    /\ \A i \in 1..n : Readable(section[i])
    /\ CapabilitiesOf(section, "capability", n) \in Seq(Said(section))
    /\ CapabilitiesOf(section, "authorizationConstraint", n) \in Seq(Said(section))
    /\ aic = IF at \in CapPlaces /\ Name # "capability"
             THEN [Described(section, n) EXCEPT
                      !.authorizationConstraints =
                         CapabilitiesOf(section, "authorizationConstraint", n)]
             ELSE Described(section, n)

Making ==
    /\ at = "uid" => string = Value /\ Name = "principalUid" /\ ReadMeans /\ NotStarved
    /\ at = "der" => Name = "delegationAuthDer" /\ OPENSSL_hexstr2buf(Whole(Value)) # NULL
    /\ at = "names" => cap = AIC_CAPABILITY_new
    /\ at \in {"parameters", "decoded parameters"} =>
          cap = WithNames(Value) /\ HasParameters(Value)
    /\ at = "decoded parameters" => Prefixed(Value) /\ ParametersOf(Value) # NULL
    /\ at = "push" => cap = CapabilityOf(Value) /\ Readable(section[line])

\* What comes of a section: its AIC, or NULL.
Reading ==
    IF (\A i \in 1..Len(section) : Readable(section[i])) /\ AIC_validate(AllDescribed)
    THEN AllDescribed ELSE NULL

ReadInv ==
    /\ call \in {"section", "made"} => section \in Sections
    /\ call = "made" => Source(section, origin)
    /\ call = "listed" => Relisted
    /\ at \in V2iPlaces \ {"uid"} => ~starved
    /\ at \in V2iPlaces \ {"new"} => Making /\ \E n \in Nat : Done(n)
    /\ Returned({"section", "listed"}) => result = IF starved THEN NULL ELSE Reading
    /\ Returned({"section"}) /\ result # NULL => Source(section, result)

-----------------------------------------------------------------------------
LEMMA NotReading ==
    ASSUME NEW i \in 1..Len(section), ~Readable(section[i])
    PROVE  Reading = NULL
BY DEF Reading

\* The call fails.
LEMMA FailsRead ==
    ASSUME Inv, ReadInv, at \in V2iPlaces, Returns(NULL), starved' = TRUE \/ Reading = NULL
    PROVE  ReadInv'
<1>1. /\ at' = "returned" /\ result' = NULL /\ UNCHANGED <<call, section, origin>>
    BY DEF Returns, Go
<1>2. call \in {"section", "listed"}
    BY DEF Inv, ControlInv
<1>3. Reading' = Reading
    BY <1>1 DEF Reading, AllDescribed
<1>4. call' = "listed" => Relisted'
    BY <1>1 DEF ReadInv, Relisted, KeyHash
<1>. QED  BY <1>1, <1>2, <1>3, <1>4 DEF ReadInv, Returned, V2iPlaces

\* The call goes on.
LEMMA GoesOnRead ==
    ASSUME Inv, ReadInv, at \in V2iPlaces, at' \in V2iPlaces \ {"new"},
           UNCHANGED <<call, section, origin>>,
           at' # "uid" => ~starved', Making', NEW n \in Nat, Done(n)'
    PROVE  ReadInv'
<1>1. call \in {"section", "listed"}
    BY DEF Inv, ControlInv
<1>2. call' = "listed" => Relisted'
    BY DEF ReadInv, Relisted, KeyHash
<1>. QED  BY <1>1, <1>2 DEF ReadInv, Returned, V2iPlaces

LEMMA SectionLines ==
    ASSUME Inv
    PROVE  /\ IsSequence(section) /\ Len(section) \in Nat
           /\ \A i \in 1..Len(section) : IsLine(section[i])
BY AppendSequence DEF Inv, DataInv, AreLines

\* A line of a capability is among what is said.
LEMMA SaidStep ==
    ASSUME NEW s, Len(s) \in Nat, NEW n \in Nat, n + 1 <= Len(s),
           NEW kind \in {"capability", "authorizationConstraint"},
           CapabilitiesOf(s, kind, n) \in Seq(Said(s))
    PROVE  CapabilitiesOf(s, kind, n + 1) \in Seq(Said(s))
<1>1. CASE s[n + 1].name = kind
    <2>1. n + 1 \in Named(s, kind, Len(s))
        BY <1>1 DEF Named
    <2>2. PICK x : x = CapabilityOf(s[n + 1].value)
        OBVIOUS
    <2>3. x \in Said(s)
        BY <2>1, <2>2 DEF Said
    <2>4. CapabilitiesOf(s, kind, n + 1) = Append(CapabilitiesOf(s, kind, n), x)
        BY <1>1, <2>2, CapabilitiesStep
    <2>. QED  BY <2>3, <2>4
<1>2. CASE s[n + 1].name # kind
    BY <1>2, CapabilitiesStep
<1>. QED  BY <1>1, <1>2

\* The next line is about to be read.
LEMMA NextDone ==
    ASSUME Inv, ReadInv, at \in V2iPlaces \ {"new"}, NEW n \in Nat, Done(n),
           line <= Len(section), Readable(section[line]),
           NEW a, NextLine(a), a = Described(section, n + 1), ~starved'
    PROVE  ReadInv'
<1>1. /\ at' = "line" /\ aic' = a /\ line' = line + 1
      /\ UNCHANGED <<call, section, origin>>
    BY DEF NextLine, Go, KeepConfig
<1>2. line = n + 1 /\ n + 1 <= Len(section) /\ line' = n + 1 + 1
    BY <1>1 DEF Done
<1>3. Len(section) \in Nat
    BY SectionLines
<1>4. /\ CapabilitiesOf(section, "capability", n + 1) \in Seq(Said(section))
      /\ CapabilitiesOf(section, "authorizationConstraint", n + 1) \in Seq(Said(section))
    BY <1>2, <1>3, SaidStep DEF Done
<1>5. \A i \in 1..n + 1 : Readable(section[i])
    <2>. SUFFICES ASSUME NEW i \in 1..n + 1 PROVE Readable(section[i])
        OBVIOUS
    <2>1. i \in 1..n \/ i = n + 1
        OBVIOUS
    <2>. QED  BY <1>2, <2>1 DEF Done
<1>6. Done(n + 1)'
    BY <1>1, <1>2, <1>4, <1>5 DEF Done, CapPlaces
<1>7. Making'
    BY <1>1 DEF Making
<1>8. n + 1 \in Nat
    OBVIOUS
<1>. QED  BY <1>1, <1>6, <1>7, <1>8, GoesOnRead DEF V2iPlaces

-----------------------------------------------------------------------------
(***************************************************************************)
(* A list of capabilities is not NULL                                      *)
(***************************************************************************)

\* A capability that is listed and read again.
LEMMA ListedCapability ==
    ASSUME NEW s \in Sections, NEW c \in Said(s), IsCap(c), NEW kind
    PROVE  /\ CapabilityOf(CapabilityLine(kind, c).value) = AsListed(c)
           /\ CapabilityLine(kind, c).name = kind
           /\ \/ ~HasParameters(CapabilityLine(kind, c).value)
              \/ ~Prefixed(CapabilityLine(kind, c).value)
<1>1. PICK v : v = <<c.schemeId, c.capabilityId>> \o InHex(c.parameters)
    OBVIOUS
<1>2. CapabilityLine(kind, c).value = v /\ CapabilityLine(kind, c).name = kind
    BY <1>1 DEF CapabilityLine
<1>3. c = [schemeId |-> c.schemeId, capabilityId |-> c.capabilityId,
           parameters |-> c.parameters]
    BY DEF Said, CapabilityOf
<1>4. CASE c.parameters = NULL
    <2>1. v = <<c.schemeId, c.capabilityId>>
        BY <1>1, <1>4, TwoParts DEF InHex
    <2>2. Len(v) = 2 /\ v[1] = c.schemeId /\ v[2] = c.capabilityId
        BY <2>1
    <2>3. ~HasParameters(v)
        BY <2>2 DEF HasParameters
    <2>4. ParametersOf(v) = NULL
        BY <2>3 DEF ParametersOf
    <2>5. CapabilityOf(v) = [schemeId |-> c.schemeId, capabilityId |-> c.capabilityId,
                             parameters |-> NULL]
        BY <2>2, <2>4 DEF CapabilityOf
    <2>6. AsListed(c) = [schemeId |-> c.schemeId, capabilityId |-> c.capabilityId,
                         parameters |-> NULL]
        BY <1>3, <1>4 DEF AsListed
    <2>. QED  BY <1>2, <2>3, <2>5, <2>6
<1>5. CASE c.parameters # NULL
    <2>1. PICK p : p = [len |-> 2 * c.parameters.len, id |-> HexText[c.parameters.id]]
        OBVIOUS
    <2>2. v = <<c.schemeId, c.capabilityId>> \o <<p>>
        BY <1>1, <1>5, <2>1 DEF InHex
    <2>3. Len(v) = 3 /\ v[1] = c.schemeId /\ v[2] = c.capabilityId /\ v[3] = p
        <3>1. PICK x, y : x = c.schemeId /\ y = c.capabilityId
            OBVIOUS
        <3>2. v = <<x, y>> \o <<p>>
            BY <2>2, <3>1
        <3>. QED  BY <3>1, <3>2
    <2>4. p.id \notin DOMAIN HexPrefixed
        BY <1>5, <2>1, HexHasNoPrefix
    <2>5. ~Prefixed(v)
        BY <2>3, <2>4 DEF Prefixed
    <2>6. HasParameters(v) <=> c.parameters.len # 0
        <3>1. PICK n \in Nat : n = c.parameters.len
            BY <1>5 DEF IsCap
        <3>2. p.len = 2 * n
            BY <2>1, <3>1
        <3>. QED  BY <2>3, <3>1, <3>2 DEF HasParameters
    <2>7. ParametersOf(v) = IF c.parameters.len = 0 THEN NULL ELSE p
        BY <2>3, <2>5, <2>6 DEF ParametersOf
    <2>8. CapabilityOf(v) = [schemeId |-> c.schemeId, capabilityId |-> c.capabilityId,
                             parameters |-> IF c.parameters.len = 0 THEN NULL ELSE p]
        BY <2>3, <2>7 DEF CapabilityOf
    <2>9. AsListed(c) = [schemeId |-> c.schemeId, capabilityId |-> c.capabilityId,
                         parameters |-> IF c.parameters.len = 0 THEN NULL ELSE p]
        BY <1>3, <1>5, <2>1 DEF AsListed
    <2>. QED  BY <1>2, <2>5, <2>8, <2>9
<1>. QED  BY <1>4, <1>5

\* Every capability and constraint of what was made was said.
LEMMA BothSaid ==
    ASSUME NEW s, NEW a, Source(s, a), NEW i \in 1..Len(Both(a))
    PROVE  Both(a)[i] \in Said(s) /\ IsCap(Both(a)[i])
<1>1. IsListable(a)
    BY DEF Source
<1>2. PICK n \in Nat, m \in Nat :
         n = Len(a.capabilities) /\ m = Len(Entries(a.authorizationConstraints))
    BY <1>1, BothMade
<1>3. /\ AreCaps(Both(a)) /\ Len(Both(a)) = n + m
      /\ \A k \in 1..n : Both(a)[k] = a.capabilities[k]
      /\ \A k \in 1..m : Both(a)[n + k] = Entries(a.authorizationConstraints)[k]
    BY <1>1, <1>2, BothMade
<1>4. IsCap(Both(a)[i])
    BY <1>3 DEF AreCaps
<1>5. CASE i \in 1..n
    <2>1. a.capabilities[i] \in Said(s)
        BY <1>2, <1>5, ElementOf DEF Source
    <2>. QED  BY <1>3, <1>4, <1>5, <2>1
<1>6. CASE i \notin 1..n
    <2>1. PICK k \in 1..m : i = n + k
        <3>1. i - n \in 1..m /\ i = n + (i - n)
            BY <1>3, <1>6
        <3>. QED  BY <3>1
    <2>2. a.authorizationConstraints # NULL
        BY <1>2, <2>1 DEF Entries
    <2>3. Entries(a.authorizationConstraints) \in Seq(Said(s))
        BY <2>2 DEF Source, Entries
    <2>4. Entries(a.authorizationConstraints)[k] \in Said(s)
        BY <1>2, <2>1, <2>3, ElementOf
    <2>. QED  BY <1>3, <1>4, <2>1, <2>4
<1>. QED  BY <1>5, <1>6

\* The lines of a section that is read again: i of them are of capabilities.
IsRelisting(t, a, f, d) ==
    /\ IsSequence(t) /\ Len(t) = Len(Both(a)) + 8
    /\ t[1] = VersionLine(a) /\ t[2] = AgentLine(a)
    /\ t[3] = PrincipalLine(a, FingerprintText(f)) /\ t[4] = ModeLine(a)
    /\ \A i \in 1..Len(Both(a)) : t[4 + i] = CapabilityLine(KindOf(a, i), Both(a)[i])
    /\ t[Last(a, 1)] = PresentLine
    /\ t[Last(a, 2)] = ReasonLine(a.delegationAuthorization)
    /\ t[Last(a, 3)] = NonceLine(a.delegationAuthorization)
    /\ t[Last(a, 4)] = d

LEMMA RelistingMade ==
    ASSUME NEW a, IsListable(a), a.delegationAuthorization # NULL, NEW f, NEW d,
           NEW t, t = Append(Listing(a, FingerprintText(f)), d)
    PROVE  IsRelisting(t, a, f, d)
<1>1. PICK l : l = Listing(a, FingerprintText(f))
    OBVIOUS
<1>2. PICK n \in Nat : n = Len(Both(a))
    BY BothMade
<1>3. ListingPlaces(a, FingerprintText(f), l)
    BY <1>1, ListingMade
<1>4. IsSequence(l) /\ Len(l) = n + 7
    BY <1>2, <1>3 DEF ListingPlaces, ListingLength, DelegationLength
<1>5. /\ IsSequence(Append(l, d))
      /\ Len(l) \in Nat /\ Len(Append(l, d)) = Len(l) + 1
      /\ \A i \in 1..Len(l) : Append(l, d)[i] = l[i]
      /\ Append(l, d)[Len(l) + 1] = d
    BY <1>4, AppendSequence
<1>6. /\ IsSequence(t) /\ Len(t) = n + 8 /\ \A i \in 1..n + 7 : t[i] = l[i]
      /\ t[n + 8] = d
    <2>1. n + 7 + 1 = n + 8
        OBVIOUS
    <2>. QED  BY <1>1, <1>4, <1>5, <2>1
<1>7. /\ l[1] = VersionLine(a) /\ l[2] = AgentLine(a)
      /\ l[3] = PrincipalLine(a, FingerprintText(f)) /\ l[4] = ModeLine(a)
    BY <1>1, FixedLines
<1>8. /\ l[Last(a, 1)] = PresentLine
      /\ l[Last(a, 2)] = ReasonLine(a.delegationAuthorization)
      /\ l[Last(a, 3)] = NonceLine(a.delegationAuthorization)
    BY <1>1, LastLines
<1>9. /\ Last(a, 1) = n + 5 /\ Last(a, 2) = n + 6 /\ Last(a, 3) = n + 7 /\ Last(a, 4) = n + 8
    BY <1>2 DEF Last
<1>10. /\ 1 \in 1..n + 7 /\ 2 \in 1..n + 7 /\ 3 \in 1..n + 7 /\ 4 \in 1..n + 7
       /\ n + 5 \in 1..n + 7 /\ n + 6 \in 1..n + 7 /\ n + 7 \in 1..n + 7
    OBVIOUS
<1>11. ASSUME NEW i \in 1..n
       PROVE  t[4 + i] = CapabilityLine(KindOf(a, i), Both(a)[i])
    <2>1. 4 + i \in 1..n + 7
        OBVIOUS
    <2>2. l[4 + i] = CapabilityLine(KindOf(a, i), Both(a)[i])
        BY <1>2, <1>3 DEF ListingPlaces
    <2>. QED  BY <1>6, <2>1, <2>2
<1>. QED
    BY <1>2, <1>6, <1>7, <1>8, <1>9, <1>10, <1>11 DEF IsRelisting

\* A capability line of a section that is read again.
LEMMA RelistedSaid ==
    ASSUME NEW s \in Sections, NEW a, Source(s, a), NEW f, NEW d,
           d.name = "delegationAuthDer", NEW t, IsRelisting(t, a, f, d)
    PROVE  Said(t) \subseteq {AsListed(c) : c \in Said(s)}
<1>1. PICK n \in Nat : n = Len(Both(a))
    BY BothMade DEF Source
<1>2. ASSUME NEW i \in 1..Len(t), t[i].name \in {"capability", "authorizationConstraint"}
      PROVE  CapabilityOf(t[i].value) \in {AsListed(c) : c \in Said(s)}
    <2>1. Len(t) = n + 8
        BY <1>1 DEF IsRelisting
    <2>2. i \notin {1, 2, 3, 4, n + 5, n + 6, n + 7, n + 8}
        BY <1>1, <1>2 DEF IsRelisting, Last, VersionLine, AgentLine, PrincipalLine,
           ModeLine, PresentLine, ReasonLine, NonceLine
    <2>3. PICK j \in 1..n : i = 4 + j
        <3>1. i - 4 \in 1..n /\ i = 4 + (i - 4)
            BY <2>1, <2>2
        <3>. QED  BY <3>1
    <2>4. PICK c \in Said(s) : c = Both(a)[j] /\ IsCap(c)
        BY <1>1, BothSaid
    <2>5. t[i] = CapabilityLine(KindOf(a, j), c)
        BY <1>1, <2>3, <2>4 DEF IsRelisting
    <2>6. CapabilityOf(CapabilityLine(KindOf(a, j), c).value) = AsListed(c)
        BY <2>4, ListedCapability
    <2>7. CapabilityOf(t[i].value) = AsListed(c)
        BY <2>5, <2>6
    <2>. QED  BY <2>4, <2>7
<1>. QED  BY <1>2 DEF Said, Named

-----------------------------------------------------------------------------
LEMMA SourceDelegated ==
    ASSUME NEW s, NEW a, Source(s, a)
    PROVE  a.delegationAuthorization # NULL /\ IsListable(a)
BY DEF Source, AIC_validate, DelegationAuthValid

LEMMA LargerSeq ==
    ASSUME NEW S, NEW T, S \subseteq T
    PROVE  Seq(S) \subseteq Seq(T)
OBVIOUS

\* NULL is no list of what the lines say.
LEMMA NoNullList ==
    ASSUME ReadInv, call \in {"section", "listed"}
    PROVE  NULL \notin Seq(Said(section))
<1>1. CASE call = "section"
    <2>1. PICK s \in Sections : s = section
        BY <1>1 DEF ReadInv
    <2>2. PICK U : U = Said(s) \cup {AsListed(c) : c \in Said(s)}
        OBVIOUS
    <2>3. NULL \notin Seq(U) /\ Said(s) \subseteq U
        BY <2>2, NullIsNoList
    <2>. QED  BY <2>1, <2>3, LargerSeq
<1>2. CASE call = "listed"
    <2>1. PICK s \in Sections, f \in Seq(0..63), d \in Nat :
             /\ Source(s, origin) /\ IsLastDer(s, d)
             /\ section = Append(Listing(origin, FingerprintText(f)), s[d])
        BY <1>2 DEF ReadInv, Relisted
    <2>2. s[d].name = "delegationAuthDer"
        BY <2>1 DEF IsLastDer
    <2>3. IsListable(origin) /\ origin.delegationAuthorization # NULL
        BY <2>1, SourceDelegated
    <2>4. IsRelisting(section, origin, f, s[d])
        BY <2>1, <2>3, RelistingMade
    <2>5. Said(section) \subseteq {AsListed(c) : c \in Said(s)}
        BY <2>1, <2>2, <2>4, RelistedSaid
    <2>6. PICK U : U = Said(s) \cup {AsListed(c) : c \in Said(s)}
        OBVIOUS
    <2>7. NULL \notin Seq(U) /\ Said(section) \subseteq U
        BY <2>5, <2>6, NullIsNoList
    <2>. QED  BY <2>7, LargerSeq
<1>. QED  BY <1>1, <1>2

\* The constraints that the first lines describe, as a list.
LEMMA ConstraintsListed ==
    ASSUME ReadInv, call \in {"section", "listed"}, NEW n \in Nat,
           CapabilitiesOf(section, "authorizationConstraint", n) \in Seq(Said(section))
    PROVE  Entries(ConstraintsAt(section, n)) =
              CapabilitiesOf(section, "authorizationConstraint", n)
<1>1. PICK c : c = CapabilitiesOf(section, "authorizationConstraint", n)
    OBVIOUS
<1>2. c # NULL
    BY <1>1, NoNullList
<1>3. CASE Has(section, "authorizationConstraint", n)
    BY <1>1, <1>2, <1>3 DEF ConstraintsAt, Entries
<1>4. CASE ~Has(section, "authorizationConstraint", n)
    <2>1. Named(section, "authorizationConstraint", n) = {}
        BY <1>4 DEF Has
    <2>2. Count(section, "authorizationConstraint", n) = 0
        BY <2>1, FS_EmptySet DEF Count
    <2>3. c = <<>>
        BY <1>1, <2>2 DEF CapabilitiesOf
    <2>4. ConstraintsAt(section, n) = NULL
        BY <1>4 DEF ConstraintsAt
    <2>. QED  BY <1>1, <2>3, <2>4 DEF Entries
<1>. QED  BY <1>3, <1>4

LEMMA NothingSaid ==
    ASSUME NEW s, NEW name
    PROVE  CapabilitiesOf(s, name, 0) = <<>>
<1>1. 0 \in Nat
    OBVIOUS
<1>2. Count(s, name, 0) = 0
    BY <1>1, CountStep
<1>. QED  BY <1>2 DEF CapabilitiesOf

-----------------------------------------------------------------------------
\* The start.
LEMMA NewAicRead ==
    ASSUME Inv, ReadInv, NewAic
    PROVE  ReadInv'
<1>1. /\ at = "new" /\ at' = "line" /\ line' = 1
      /\ UNCHANGED <<call, section, origin>> /\ starved' = starved
    BY DEF NewAic, Go, KeepConfig, Allocates
<1>2. aic' = Described(section, 0)
    <2>1. aic' = [AIC_new EXCEPT !.version = 1]
        BY DEF NewAic
    <2>. QED  BY <2>1, NothingDescribed
<1>3. Len(section) \in Nat
    BY SectionLines
<1>4. <<>> \in Seq(Said(section))
    OBVIOUS
<1>5. Done(0)'
    <2>1. /\ CapabilitiesOf(section, "capability", 0) = <<>>
          /\ CapabilitiesOf(section, "authorizationConstraint", 0) = <<>>
        BY NothingSaid
    <2>2. PICK s : s = section /\ s = section'
        BY <1>1
    <2>3. /\ line' = 0 + 1 /\ 0 <= Len(s) /\ \A i \in 1..0 : Readable(s[i])
        BY <1>1, <1>3, <2>2
    <2>4. /\ CapabilitiesOf(s, "capability", 0) \in Seq(Said(s))
          /\ CapabilitiesOf(s, "authorizationConstraint", 0) \in Seq(Said(s))
        BY <1>4, <2>1, <2>2
    <2>5. aic' = Described(s, 0) /\ at' \notin CapPlaces
        BY <1>1, <1>2, <2>2 DEF CapPlaces
    <2>. QED  BY <2>2, <2>3, <2>4, <2>5 DEF Done
<1>6. Making'
    BY <1>1 DEF Making
<1>7. ~starved'
    BY <1>1 DEF ReadInv, V2iPlaces
<1>8. 0 \in Nat
    OBVIOUS
<1>. QED  BY <1>1, <1>5, <1>6, <1>7, <1>8, GoesOnRead DEF V2iPlaces

\* The line that is being read.
ThisLine(n) ==
    /\ n \in Nat /\ Len(section) \in Nat /\ Done(n)
    /\ line = n + 1 /\ n + 1 <= Len(section) /\ line \in 1..Len(section)
    /\ Name = section[n + 1].name /\ Value = section[n + 1].value

LEMMA OneLine ==
    ASSUME Inv, ReadInv, at \in V2iPlaces \ {"new"}, line <= Len(section)
    PROVE  \E n : ThisLine(n)
<1>1. PICK n \in Nat : Done(n)
    BY DEF ReadInv
<1>2. Len(section) \in Nat
    BY SectionLines
<1>3. line = n + 1
    BY <1>1 DEF Done
<1>4. line \in 1..Len(section)
    BY <1>2, <1>3
<1>5. n + 1 <= Len(section)
    BY <1>3
<1>. QED  BY <1>1, <1>2, <1>3, <1>4, <1>5 DEF ThisLine, Name, Value

\* A line that sets a field.
LEMMA LineRead ==
    ASSUME Inv, ReadInv, AgentId \/ DelegationMode \/ Version \/ OtherLine
    PROVE  ReadInv'
<1>1. /\ at = "line" /\ line <= Len(section) /\ starved' = starved
    BY DEF AgentId, DelegationMode, Version, OtherLine, AtLine, KeepMemory, ownershipVars
<1>2. PICK n : ThisLine(n)
    BY <1>1, OneLine DEF V2iPlaces
<1>3. aic = Described(section, n)
    BY <1>1, <1>2 DEF ThisLine, Done, CapPlaces
<1>4. ~starved'
    BY <1>1 DEF ReadInv, V2iPlaces
<1>5. ASSUME NEW a, NextLine(a), a = Described(section, n + 1), Readable(section[line])
      PROVE  ReadInv'
    BY <1>1, <1>2, <1>4, <1>5, NextDone DEF ThisLine, V2iPlaces
<1>. DEFINE name == section[n + 1].name
            v == section[n + 1].value
<1>12. /\ n \in Nat /\ Len(section) \in Nat /\ n + 1 <= Len(section)
       /\ name = section[n + 1].name /\ v = section[n + 1].value
    BY <1>2 DEF ThisLine
<1>6. /\ name = "version" => Described(section, n + 1) = [aic EXCEPT !.version = atol(Whole(v))]
      /\ name = "agentId" => Described(section, n + 1) = [aic EXCEPT !.agentId = Whole(v)]
      /\ name = "delegationMode" =>
            Described(section, n + 1) = [aic EXCEPT !.delegationMode = Mode(Whole(v))]
      /\ name \notin {"agentId", "principalUid", "delegationMode", "version",
                      "capability", "authorizationConstraint", "delegationAuthDer"} =>
            Described(section, n + 1) = aic
    <2>1. OneLineMore(section, n, aic, v, name)
        BY <1>3, <1>12, DescribedStep
    <2>. QED  BY <2>1 DEF OneLineMore
<1>7. Name = name /\ Value = v /\ section[line].name = name /\ section[line].value = v
    BY <1>2 DEF ThisLine, Name, Value
<1>. HIDE DEF name, v
<1>8. CASE AgentId
    <2>1. name = "agentId" /\ NextLine([aic EXCEPT !.agentId = Whole(v)])
        BY <1>7, <1>8 DEF AgentId, AtLine
    <2>2. Readable(section[line])
        BY <1>7, <2>1 DEF Readable
    <2>. QED  BY <1>5, <1>6, <2>1, <2>2
<1>9. CASE DelegationMode
    <2>1. name = "delegationMode" /\ NextLine([aic EXCEPT !.delegationMode = Mode(Whole(v))])
        BY <1>7, <1>9 DEF DelegationMode, AtLine
    <2>2. Readable(section[line])
        BY <1>7, <2>1 DEF Readable
    <2>. QED  BY <1>5, <1>6, <2>1, <2>2
<1>10. CASE Version
    <2>1. /\ name = "version" /\ NextLine([aic EXCEPT !.version = atol(Whole(v))])
          /\ atol(Whole(v)) \in {0, 1, 2}
        BY <1>7, <1>10 DEF Version, AtLine
    <2>2. Readable(section[line])
        BY <1>7, <2>1 DEF Readable
    <2>. QED  BY <1>5, <1>6, <2>1, <2>2
<1>11. CASE OtherLine
    <2>1. /\ name \notin {"agentId", "principalUid", "delegationMode", "version",
                          "capability", "authorizationConstraint", "delegationAuthDer"}
          /\ NextLine(aic)
        BY <1>7, <1>11 DEF OtherLine
    <2>2. Readable(section[line])
        BY <1>7, <2>1 DEF Readable
    <2>. QED  BY <1>5, <1>6, <2>1, <2>2
<1>. QED  BY <1>8, <1>9, <1>10, <1>11

-----------------------------------------------------------------------------
\* The same line is still read.
LEMMA DoneStays ==
    ASSUME NEW n, Done(n), UNCHANGED <<line, section, aic>>,
           at' \in CapPlaces <=> at \in CapPlaces
    PROVE  Done(n)'
<1>1. PICK b : b = Described(section, n)
    OBVIOUS
<1>2. PICK c : c = CapabilitiesOf(section, "authorizationConstraint", n)
    OBVIOUS
<1>3. Name' = Name
    BY DEF Name
<1>4. Described(section, n)' = b /\ CapabilitiesOf(section, "authorizationConstraint", n)' = c
    BY <1>1, <1>2
<1>5. aic' = IF at' \in CapPlaces /\ Name' # "capability"
             THEN [b EXCEPT !.authorizationConstraints = c] ELSE b
    BY <1>1, <1>2, <1>3 DEF Done
<1>6. /\ line' = n + 1 /\ n <= Len(section')
      /\ \A i \in 1..n : Readable(section'[i])
      /\ CapabilitiesOf(section', "capability", n) \in Seq(Said(section'))
      /\ CapabilitiesOf(section', "authorizationConstraint", n) \in Seq(Said(section'))
    BY DEF Done
<1>. QED  BY <1>4, <1>5, <1>6 DEF Done

\* A principal is read.
LEMMA PrincipalUidBegins ==
    ASSUME Inv, ReadInv, PrincipalUid
    PROVE  ReadInv'
<1>1. /\ at = "line" /\ line <= Len(section) /\ Name = "principalUid" /\ at' = "uid"
      /\ UNCHANGED <<call, section, origin, line, aic, pointers, starved>>
    BY DEF PrincipalUid, AtLine, Go, KeepConfig, KeepMemory, ownershipVars
<1>2. PICK n : ThisLine(n)
    BY <1>1, OneLine DEF V2iPlaces
<1>3. Done(n)'
    BY <1>1, <1>2, DoneStays DEF ThisLine, CapPlaces
<1>4. PICK v : v = Value
    OBVIOUS
<1>5. string' = v /\ codec' = IF Splits(v) THEN "read" ELSE "answered"
    BY <1>4 DEF PrincipalUid, FromString, Goto
<1>6. "pu" \notin pointers'
    BY <1>1 DEF Inv, ControlInv, CodecInv, PointersInv
<1>7. ~starved /\ ~starved'
    BY <1>1 DEF ReadInv, V2iPlaces
<1>8. ReadMeans'
    BY <1>5, <1>6 DEF ReadMeans, NamesPrincipal
<1>9. NotStarved'
    BY <1>7 DEF NotStarved
<1>10. Name' = "principalUid" /\ Value' = v
    BY <1>1, <1>4 DEF Name, Value
<1>11. Making'
    BY <1>1, <1>5, <1>8, <1>9, <1>10 DEF Making
<1>12. n \in Nat
    BY <1>2 DEF ThisLine
<1>. QED  BY <1>1, <1>3, <1>11, <1>12, GoesOnRead DEF V2iPlaces

LEMMA PrincipalUidEnds ==
    ASSUME Inv, ReadInv, PrincipalUidRead
    PROVE  ReadInv'
<1>1. /\ at = "uid" /\ codec = "answered" /\ "pu" \in pointers /\ starved' = starved
      /\ NextLine([aic EXCEPT !.principalUid = uid])
    BY DEF PrincipalUidRead, HandsOver
<1>2. line <= Len(section)
    BY <1>1 DEF Inv, LineInv
<1>3. PICK n : ThisLine(n)
    BY <1>1, <1>2, OneLine DEF V2iPlaces
<1>4. /\ string = Value /\ Name = "principalUid" /\ ReadMeans /\ NotStarved
    BY <1>1 DEF ReadInv, Making, V2iPlaces
<1>5. NamesPrincipal(Value) /\ uid = UidOf(Value)
    BY <1>1, <1>4 DEF ReadMeans
<1>6. ~starved'
    BY <1>1, <1>4 DEF NotStarved
<1>7. Readable(section[line])
    BY <1>4, <1>5 DEF Readable, Name, Value
<1>8. PICK v : v = Value
    OBVIOUS
<1>9. /\ n \in Nat /\ Len(section) \in Nat /\ n + 1 <= Len(section)
      /\ v = section[n + 1].value /\ "principalUid" = section[n + 1].name
      /\ aic = Described(section, n)
    BY <1>1, <1>3, <1>4, <1>8 DEF ThisLine, Done, CapPlaces
<1>10. OneLineMore(section, n, aic, v, "principalUid")
    BY <1>9, DescribedStep
<1>11. Described(section, n + 1) = [aic EXCEPT !.principalUid = UidOf(v)]
    BY <1>10 DEF OneLineMore
<1>12. PICK a : a = [aic EXCEPT !.principalUid = uid]
    OBVIOUS
<1>13. NextLine(a) /\ a = Described(section, n + 1)
    BY <1>1, <1>5, <1>8, <1>11, <1>12
<1>14. at \in V2iPlaces \ {"new"} /\ Done(n)
    BY <1>1, <1>3 DEF ThisLine, V2iPlaces
<1>. QED  BY <1>2, <1>6, <1>7, <1>9, <1>13, <1>14, NextDone

\* A delegation is read.
LEMMA DelegationBegins ==
    ASSUME Inv, ReadInv, DelegationAuth
    PROVE  ReadInv'
<1>1. /\ at = "line" /\ line <= Len(section) /\ Name = "delegationAuthDer" /\ at' = "der"
      /\ OPENSSL_hexstr2buf(Whole(Value)) # NULL
      /\ UNCHANGED <<call, section, origin, line, aic, starved>>
    BY DEF DelegationAuth, AtLine, Go, KeepConfig, Allocates
<1>2. PICK n : ThisLine(n)
    BY <1>1, OneLine DEF V2iPlaces
<1>3. Done(n)'
    BY <1>1, <1>2, DoneStays DEF ThisLine, CapPlaces
<1>4. PICK v : v = Value
    OBVIOUS
<1>5. Name' = "delegationAuthDer" /\ Value' = v
    BY <1>1, <1>4 DEF Name, Value
<1>6. Making'
    BY <1>1, <1>4, <1>5 DEF Making
<1>7. ~starved'
    BY <1>1 DEF ReadInv, V2iPlaces
<1>8. n \in Nat
    BY <1>2 DEF ThisLine
<1>. QED  BY <1>1, <1>3, <1>6, <1>7, <1>8, GoesOnRead DEF V2iPlaces

LEMMA DelegationEnds ==
    ASSUME Inv, ReadInv, DelegationAuthRead
    PROVE  ReadInv'
<1>1. PICK v : v = Value
    OBVIOUS
<1>2. PICK da : da = d2i_AIC_DELEGATIONAUTH(OPENSSL_hexstr2buf(Whole(v)))
    OBVIOUS
<1>3. /\ at = "der" /\ da # NULL /\ starved' = starved
      /\ NextLine([aic EXCEPT !.delegationAuthorization = da])
    BY <1>1, <1>2 DEF DelegationAuthRead
<1>4. line <= Len(section)
    BY <1>3 DEF Inv, LineInv
<1>5. PICK n : ThisLine(n)
    BY <1>3, <1>4, OneLine DEF V2iPlaces
<1>6. Name = "delegationAuthDer" /\ OPENSSL_hexstr2buf(Whole(v)) # NULL
    BY <1>1, <1>3 DEF ReadInv, Making, V2iPlaces
<1>7. da = DelegationOf(v)
    BY <1>2, <1>6 DEF DelegationOf
<1>8. ~starved'
    BY <1>3 DEF ReadInv, V2iPlaces
<1>9. Readable(section[line])
    BY <1>1, <1>3, <1>6, <1>7 DEF Readable, Name, Value
<1>10. /\ n \in Nat /\ Len(section) \in Nat /\ n + 1 <= Len(section)
       /\ v = section[n + 1].value /\ "delegationAuthDer" = section[n + 1].name
       /\ aic = Described(section, n)
    BY <1>1, <1>3, <1>5, <1>6 DEF ThisLine, Done, CapPlaces
<1>11. OneLineMore(section, n, aic, v, "delegationAuthDer")
    BY <1>10, DescribedStep
<1>12. Described(section, n + 1) = [aic EXCEPT !.delegationAuthorization = da]
    BY <1>7, <1>11 DEF OneLineMore
<1>13. PICK a : a = [aic EXCEPT !.delegationAuthorization = da]
    OBVIOUS
<1>14. NextLine(a) /\ a = Described(section, n + 1)
    BY <1>3, <1>12, <1>13
<1>15. at \in V2iPlaces \ {"new"} /\ Done(n)
    BY <1>3, <1>5 DEF ThisLine, V2iPlaces
<1>. QED  BY <1>4, <1>8, <1>9, <1>10, <1>14, <1>15, NextDone

-----------------------------------------------------------------------------
\* A capability, or a constraint, is begun.
LEMMA CapabilityBegins ==
    ASSUME Inv, ReadInv, NewCapability
    PROVE  ReadInv'
<1>1. /\ at = "line" /\ line <= Len(section) /\ at' = "names" /\ cap' = AIC_CAPABILITY_new
      /\ Name \in {"capability", "authorizationConstraint"}
      /\ UNCHANGED <<call, section, origin, line, starved>>
    BY DEF NewCapability, Capability, AtLine, Go, KeepConfig, Allocates
<1>2. PICK n : ThisLine(n)
    BY <1>1, OneLine DEF V2iPlaces
<1>3. Done(n) /\ n \in Nat
    BY <1>2 DEF ThisLine
<1>4. PICK b : b = Described(section, n)
    OBVIOUS
<1>5. PICK c : c = CapabilitiesOf(section, "authorizationConstraint", n)
    OBVIOUS
<1>6. aic = b
    BY <1>1, <1>3, <1>4 DEF Done, CapPlaces
<1>7. IsDescription(b, section, n)
    BY <1>4, Describes
<1>8. call \in {"section", "listed"}
    BY <1>1 DEF Inv, ControlInv, V2iPlaces
<1>9. Entries(b.authorizationConstraints) = c
    <2>1. b.authorizationConstraints = ConstraintsAt(section, n)
        BY <1>7 DEF IsDescription
    <2>2. c \in Seq(Said(section))
        BY <1>3, <1>5 DEF Done
    <2>. QED  BY <1>3, <1>5, <1>8, <2>1, <2>2, ConstraintsListed
<1>10. aic' = IF Name # "capability" THEN [b EXCEPT !.authorizationConstraints = c] ELSE b
    <2>1. PICK x : x = IF Name = "capability" THEN b.authorizationConstraints
                       ELSE Entries(b.authorizationConstraints)
        OBVIOUS
    <2>2. aic' = [b EXCEPT !.authorizationConstraints = x]
        BY <1>6, <1>7, <2>1 DEF NewCapability, IsDescription
    <2>3. CASE Name = "capability"
        BY <1>7, <2>1, <2>2, <2>3 DEF IsDescription
    <2>4. CASE Name # "capability"
        BY <1>9, <2>1, <2>2, <2>4
    <2>. QED  BY <2>3, <2>4
<1>11. Name' = Name /\ at' \in CapPlaces
    BY <1>1 DEF Name, CapPlaces
<1>12. /\ Described(section, n)' = b
       /\ CapabilitiesOf(section, "authorizationConstraint", n)' = c
    BY <1>1, <1>4, <1>5
<1>13. aic' = IF at' \in CapPlaces /\ Name' # "capability"
              THEN [b EXCEPT !.authorizationConstraints = c] ELSE b
    BY <1>10, <1>11
<1>14. /\ line' = n + 1 /\ n <= Len(section')
       /\ \A i \in 1..n : Readable(section'[i])
       /\ CapabilitiesOf(section', "capability", n) \in Seq(Said(section'))
       /\ CapabilitiesOf(section', "authorizationConstraint", n) \in Seq(Said(section'))
    BY <1>1, <1>3 DEF Done
<1>15. Done(n)'
    BY <1>12, <1>13, <1>14 DEF Done
<1>16. Making'
    BY <1>1 DEF Making
<1>17. ~starved'
    BY <1>1 DEF ReadInv, V2iPlaces
<1>. QED  BY <1>1, <1>3, <1>15, <1>16, <1>17, GoesOnRead DEF V2iPlaces

\* Its names and parameters are set.
LEMMA CapabilityGoesOn ==
    ASSUME Inv, ReadInv, SetNames \/ DecodeParameters \/ SetParameters
    PROVE  ReadInv'
<1>1. /\ at \in CapPlaces /\ at' \in CapPlaces /\ starved' = starved
      /\ UNCHANGED <<call, section, origin, line, aic>>
    BY DEF SetNames, DecodeParameters, SetParameters, KeepConfig, CapPlaces, Go,
       KeepMemory, ownershipVars, Allocates
<1>2. at \in V2iPlaces \ {"new", "uid"} /\ at' \in V2iPlaces \ {"new", "uid"}
    BY <1>1 DEF CapPlaces, V2iPlaces
<1>3. PICK n \in Nat : Done(n)
    BY <1>2 DEF ReadInv
<1>4. Done(n)'
    BY <1>1, <1>3, DoneStays
<1>5. ~starved'
    BY <1>1, <1>2 DEF ReadInv
<1>6. PICK v, l : v = Value /\ l = section[line]
    OBVIOUS
<1>7. Value' = v /\ section'[line'] = l /\ l.value = v
    BY <1>1, <1>6 DEF Value
<1>8. l.name \in {"capability", "authorizationConstraint"}
    BY <1>1, <1>6 DEF Inv, DataInv, Name
<1>9. Making
    BY <1>2 DEF ReadInv
<1>10. Making'
    <2>1. CASE SetNames
        <3>1. at = "names" /\ cap = AIC_CAPABILITY_new
            BY <1>9, <2>1 DEF SetNames, Making
        <3>2. PICK y : y = IF Len(v) > 1 THEN v[2] ELSE Empty
            OBVIOUS
        <3>3. cap = [schemeId |-> Empty, capabilityId |-> Empty, parameters |-> NULL]
            BY <3>1 DEF AIC_CAPABILITY_new
        <3>4. cap' = [cap EXCEPT !.schemeId = v[1], !.capabilityId = y]
            BY <1>6, <2>1, <3>2, <3>3 DEF SetNames
        <3>5. cap' = WithNames(v)
            BY <3>2, <3>3, <3>4 DEF WithNames
        <3>6. at' = IF HasParameters(v) THEN "parameters" ELSE "push"
            BY <1>6, <2>1 DEF SetNames, Go, HasParameters
        <3>7. CASE HasParameters(v)
            BY <1>7, <3>5, <3>6, <3>7 DEF Making
        <3>8. CASE ~HasParameters(v)
            <4>1. CapabilityOf(v) = WithNames(v)
                BY <3>8 DEF CapabilityOf, WithNames, ParametersOf
            <4>2. Readable(l)
                BY <1>7, <1>8, <3>8 DEF Readable
            <4>. QED  BY <1>7, <3>5, <3>6, <3>8, <4>1, <4>2 DEF Making
        <3>. QED  BY <3>7, <3>8
    <2>2. CASE DecodeParameters
        <3>1. /\ at = "parameters" /\ at' = "decoded parameters" /\ cap' = cap
              /\ Prefixed(v) /\ OPENSSL_hexstr2buf(HexPrefixed[v[3].id]) # NULL
            BY <1>6, <2>2 DEF DecodeParameters, Go, IsHex, Prefixed
        <3>2. cap = WithNames(v) /\ HasParameters(v)
            BY <1>6, <1>9, <3>1 DEF Making
        <3>3. ParametersOf(v) # NULL
            BY <3>1, <3>2 DEF ParametersOf
        <3>. QED  BY <1>7, <3>1, <3>2, <3>3 DEF Making
    <2>3. CASE SetParameters
        <3>1. at' = "push" /\ at \in {"parameters", "decoded parameters"}
            BY <2>3 DEF SetParameters, Go
        <3>2. cap = WithNames(v) /\ HasParameters(v)
            BY <1>6, <1>9, <3>1 DEF Making
        <3>3. PICK p : p = IF Prefixed(v) THEN OPENSSL_hexstr2buf(HexPrefixed[v[3].id])
                           ELSE v[3]
            OBVIOUS
        <3>4. cap' = [cap EXCEPT !.parameters = p]
            BY <1>6, <2>3, <3>3 DEF SetParameters, IsHex, Prefixed
        <3>5. p = ParametersOf(v)
            BY <3>2, <3>3 DEF ParametersOf
        <3>6. cap' = CapabilityOf(v)
            BY <3>2, <3>4, <3>5 DEF WithNames, CapabilityOf
        <3>7. Prefixed(v) => ParametersOf(v) # NULL
            BY <1>6, <1>9, <2>3 DEF SetParameters, Making, IsHex, Prefixed
        <3>8. Readable(l)
            BY <1>7, <1>8, <3>7 DEF Readable
        <3>. QED  BY <1>7, <3>1, <3>6, <3>8 DEF Making
    <2>. QED  BY <2>1, <2>2, <2>3
<1>. QED  BY <1>1, <1>2, <1>3, <1>4, <1>5, <1>10, GoesOnRead

\* It is added to its list.
LEMMA CapabilityEnds ==
    ASSUME Inv, ReadInv, PushCapability
    PROVE  ReadInv'
<1>1. at = "push" /\ starved' = starved /\ NextLine(WithCap(Name))
    BY DEF PushCapability, HandsOver
<1>2. line <= Len(section)
    BY <1>1 DEF Inv, LineInv, CapPlaces
<1>3. PICK n : ThisLine(n)
    BY <1>1, <1>2, OneLine DEF V2iPlaces
<1>4. PICK v : v = Value
    OBVIOUS
<1>5. cap = CapabilityOf(v) /\ Readable(section[line]) /\ ~starved'
    BY <1>1, <1>4 DEF ReadInv, Making, V2iPlaces
<1>6. Name \in {"capability", "authorizationConstraint"}
    BY <1>1 DEF Inv, DataInv, CapPlaces
<1>7. PICK b : b = Described(section, n)
    OBVIOUS
<1>8. IsDescription(b, section, n)
    BY <1>7, Describes
<1>9. /\ n \in Nat /\ Len(section) \in Nat /\ n + 1 <= Len(section)
      /\ v = section[n + 1].value /\ Name = section[n + 1].name
    BY <1>3, <1>4 DEF ThisLine
<1>10. OneLineMore(section, n, b, v, Name)
    BY <1>7, <1>9, DescribedStep
<1>11. WithCap(Name) = Described(section, n + 1)
    <2>1. CASE Name = "capability"
        <3>1. PICK c, x : c = CapabilitiesOf(section, "capability", n) /\ x = Append(c, cap)
            OBVIOUS
        <3>2. aic = b /\ b.capabilities = c
            BY <1>1, <1>3, <1>7, <1>8, <2>1, <3>1 DEF ThisLine, Done, IsDescription
        <3>3. WithCap(Name) = [b EXCEPT !.capabilities = x]
            BY <2>1, <3>1, <3>2 DEF WithCap
        <3>4. Described(section, n + 1) = [b EXCEPT !.capabilities = x]
            BY <1>5, <1>10, <2>1, <3>1 DEF OneLineMore
        <3>. QED  BY <3>3, <3>4
    <2>2. CASE Name # "capability"
        <3>1. PICK c, x : /\ c = CapabilitiesOf(section, "authorizationConstraint", n)
                          /\ x = Append(c, cap)
            OBVIOUS
        <3>2. aic = [b EXCEPT !.authorizationConstraints = c]
            BY <1>1, <1>3, <1>7, <2>2, <3>1 DEF ThisLine, Done, CapPlaces
        <3>3. aic.authorizationConstraints = c
            BY <1>8, <3>2 DEF IsDescription
        <3>4. WithCap(Name) = [aic EXCEPT !.authorizationConstraints = x]
            BY <2>2, <3>1, <3>3 DEF WithCap
        <3>5. WithCap(Name) = [b EXCEPT !.authorizationConstraints = x]
            BY <1>8, <3>2, <3>4 DEF IsDescription
        <3>6. Described(section, n + 1) = [b EXCEPT !.authorizationConstraints = x]
            BY <1>5, <1>6, <1>10, <2>2, <3>1 DEF OneLineMore
        <3>. QED  BY <3>5, <3>6
    <2>. QED  BY <2>1, <2>2
<1>12. PICK a : a = WithCap(Name)
    OBVIOUS
<1>13. NextLine(a) /\ a = Described(section, n + 1)
    BY <1>1, <1>11, <1>12
<1>14. at \in V2iPlaces \ {"new"} /\ Done(n)
    BY <1>1, <1>3 DEF ThisLine, V2iPlaces
<1>. QED  BY <1>2, <1>5, <1>9, <1>13, <1>14, NextDone

-----------------------------------------------------------------------------
\* An error in a line, or an allocation that fails.
LEMMA LineFails ==
    ASSUME Inv, ReadInv,
           \/ NewAicFails \/ PrincipalUidRefused \/ VersionRefused \/ SettingFails
           \/ DelegationAuthRefused \/ DelegationAuthNotRead \/ NewCapabilityFails
           \/ NamesFail \/ ParametersRefused \/ ParametersFail \/ PushFails
    PROVE  ReadInv'
<1>1. at \in V2iPlaces
    BY DEF NewAicFails, PrincipalUidRefused, VersionRefused, SettingFails,
       DelegationAuthRefused, DelegationAuthNotRead, NewCapabilityFails,
       NamesFail, ParametersRefused, ParametersFail, PushFails, AtLine, Capability,
       V2iPlaces
<1>2. Returns(NULL)
    BY DEF NewAicFails, PrincipalUidRefused, VersionRefused, SettingFails,
       DelegationAuthRefused, DelegationAuthNotRead, NewCapabilityFails,
       NamesFail, ParametersRefused, ParametersFail, PushFails, OutOfMemory,
       Rejected, V2iFails, CapabilityFails
<1>3. ASSUME line \in 1..Len(section), ~Readable(section[line]) PROVE ReadInv'
    <2>1. Reading = NULL
        BY <1>3, NotReading
    <2>. QED  BY <1>1, <1>2, <2>1, FailsRead
<1>4. CASE starved' = TRUE
    BY <1>1, <1>2, <1>4, FailsRead
<1>5. ASSUME at # "new", line <= Len(section) PROVE line \in 1..Len(section)
    <2>1. at \in V2iPlaces \ {"new"}
        BY <1>1, <1>5
    <2>2. PICK n : ThisLine(n)
        BY <1>5, <2>1, OneLine
    <2>. QED  BY <2>2 DEF ThisLine
<1>6. PICK v, l : v = Value /\ l = section[line]
    OBVIOUS
<1>7. Name = l.name /\ l.value = v
    BY <1>6 DEF Name, Value
<1>8. CASE PrincipalUidRefused
    <2>1. /\ at = "uid" /\ codec = "answered" /\ "pu" \notin pointers /\ starved' = starved
        BY <1>8 DEF PrincipalUidRefused, Rejected
    <2>2. line \in 1..Len(section)
        BY <1>5, <2>1 DEF Inv, LineInv
    <2>3. string = v /\ l.name = "principalUid" /\ ReadMeans
        BY <1>6, <1>7, <2>1 DEF ReadInv, Making, V2iPlaces
    <2>4. starved \/ ~NamesPrincipal(v)
        BY <2>1, <2>3 DEF ReadMeans
    <2>5. CASE starved
        <3>1. starved' = TRUE
            BY <2>1, <2>5 DEF Inv, CodecInv, PointersInv
        <3>. QED  BY <1>4, <3>1
    <2>6. CASE ~NamesPrincipal(v)
        <3>1. ~Readable(l)
            BY <1>7, <2>3, <2>6 DEF Readable
        <3>. QED  BY <1>3, <1>6, <2>2, <3>1
    <2>. QED  BY <2>4, <2>5, <2>6
<1>9. CASE VersionRefused
    <2>1. /\ at = "line" /\ line <= Len(section) /\ l.name = "version"
          /\ atol(Whole(v)) \notin {0, 1, 2}
        BY <1>6, <1>7, <1>9 DEF VersionRefused, AtLine
    <2>2. ~Readable(l)
        BY <1>7, <2>1 DEF Readable
    <2>. QED  BY <1>3, <1>5, <1>6, <2>1, <2>2
<1>10. CASE DelegationAuthRefused
    <2>1. at = "line" /\ line <= Len(section) /\ l.name = "delegationAuthDer"
        BY <1>7, <1>10 DEF DelegationAuthRefused, AtLine
    <2>2. CASE OPENSSL_hexstr2buf(Whole(v)) = NULL
        <3>1. ~Readable(l)
            BY <1>7, <2>1, <2>2 DEF Readable, DelegationOf
        <3>. QED  BY <1>3, <1>5, <1>6, <2>1, <3>1
    <2>3. CASE OPENSSL_hexstr2buf(Whole(v)) # NULL
        BY <1>4, <1>6, <1>10, <2>3 DEF DelegationAuthRefused, OutOfMemory, Starves
    <2>. QED  BY <2>2, <2>3
<1>11. CASE DelegationAuthNotRead
    <2>1. at = "der"
        BY <1>11 DEF DelegationAuthNotRead
    <2>2. l.name = "delegationAuthDer" /\ OPENSSL_hexstr2buf(Whole(v)) # NULL
        BY <1>6, <1>7, <2>1 DEF ReadInv, Making, V2iPlaces
    <2>3. line \in 1..Len(section)
        BY <1>5, <2>1 DEF Inv, LineInv
    <2>4. CASE d2i_AIC_DELEGATIONAUTH(OPENSSL_hexstr2buf(Whole(v))) = NULL
        <3>1. ~Readable(l)
            BY <1>7, <2>2, <2>4 DEF Readable, DelegationOf
        <3>. QED  BY <1>3, <1>6, <2>3, <3>1
    <2>5. CASE d2i_AIC_DELEGATIONAUTH(OPENSSL_hexstr2buf(Whole(v))) # NULL
        BY <1>4, <1>6, <1>11, <2>5 DEF DelegationAuthNotRead, Starves
    <2>. QED  BY <2>4, <2>5
<1>12. CASE ParametersRefused
    <2>1. /\ at = "parameters" /\ Prefixed(v)
          /\ OPENSSL_hexstr2buf(HexPrefixed[v[3].id]) = NULL
        BY <1>6, <1>12 DEF ParametersRefused, IsHex, Prefixed
    <2>2. HasParameters(v)
        BY <1>6, <2>1 DEF ReadInv, Making, V2iPlaces
    <2>3. l.name \in {"capability", "authorizationConstraint"}
        BY <1>7, <2>1 DEF Inv, DataInv, CapPlaces
    <2>4. ParametersOf(v) = NULL
        BY <2>1, <2>2 DEF ParametersOf
    <2>5. ~Readable(l)
        BY <1>7, <2>1, <2>2, <2>3, <2>4 DEF Readable
    <2>6. line \in 1..Len(section)
        BY <1>5, <2>1 DEF Inv, LineInv, CapPlaces
    <2>. QED  BY <1>3, <1>6, <2>5, <2>6
<1>13. CASE NewAicFails \/ SettingFails \/ NewCapabilityFails \/ NamesFail
            \/ ParametersFail \/ PushFails
    <2>1. starved' = TRUE
        BY <1>13 DEF NewAicFails, SettingFails, NewCapabilityFails, NamesFail,
           ParametersFail, PushFails, OutOfMemory, Starves
    <2>. QED  BY <1>4, <2>1
<1>. QED  BY <1>8, <1>9, <1>10, <1>11, <1>12, <1>13

\* The whole section is read.
LEMMA ValidateRead ==
    ASSUME Inv, Inv', ReadInv, Validate
    PROVE  ReadInv'
<1>1. at = "line" /\ line > Len(section) /\ starved' = starved
    BY DEF Validate, KeepMemory, ownershipVars, Rejected
<1>2. PICK n \in Nat : Done(n)
    BY <1>1 DEF ReadInv, V2iPlaces
<1>3. Len(section) \in Nat
    BY SectionLines
<1>4. n = Len(section)
    BY <1>1, <1>2, <1>3 DEF Done
<1>5. \A i \in 1..Len(section) : Readable(section[i])
    BY <1>2, <1>4 DEF Done
<1>6. aic = AllDescribed
    BY <1>1, <1>2, <1>4 DEF Done, CapPlaces, AllDescribed
<1>7. CASE ~AIC_validate(aic)
    <2>1. Reading = NULL
        BY <1>6, <1>7 DEF Reading
    <2>2. Returns(NULL)
        BY <1>7 DEF Validate, Validated, Rejected, V2iFails
    <2>. QED  BY <1>1, <2>1, <2>2, FailsRead DEF V2iPlaces
<1>8. CASE AIC_validate(aic)
    <2>1. /\ at' = "returned" /\ result' = aic /\ UNCHANGED <<call, section, origin>>
        BY <1>8 DEF Validate, Validated, Returns, Go
    <2>2. Reading = aic
        BY <1>5, <1>6, <1>8 DEF Reading
    <2>3. Reading' = aic
        BY <2>1, <2>2 DEF Reading, AllDescribed
    <2>4. ~starved'
        BY <1>1 DEF ReadInv, V2iPlaces
    <2>5. call \in {"section", "listed"}
        BY <1>1 DEF Inv, ControlInv, V2iPlaces
    <2>6. call' = "listed" => Relisted'
        BY <2>1 DEF ReadInv, Relisted, KeyHash
    <2>7. call = "section" => Source(section, aic)
        <3>1. CASE call = "section"
            <4>1. IsListable(aic)
                BY <2>1, <3>1, <1>8 DEF Inv, DataInv, AIC_validate
            <4>2. aic.capabilities = CapabilitiesOf(section, "capability", n)
                <5>1. IsDescription(aic, section, n)
                    BY <1>4, <1>6, Describes DEF AllDescribed
                <5>. QED  BY <5>1 DEF IsDescription
            <4>3. aic.authorizationConstraints # NULL =>
                     aic.authorizationConstraints =
                        CapabilitiesOf(section, "authorizationConstraint", n)
                <5>1. IsDescription(aic, section, n)
                    BY <1>4, <1>6, Describes DEF AllDescribed
                <5>. QED  BY <5>1 DEF IsDescription, ConstraintsAt
            <4>. QED
                BY <1>2, <1>5, <1>6, <1>8, <4>1, <4>2, <4>3 DEF Source, AllDescribed, Done
        <3>. QED  BY <3>1
    <2>9. (call' \in {"section", "made"} => section' \in Sections) /\ call' # "made"
        BY <2>1, <2>5 DEF ReadInv
    <2>10. at' \notin V2iPlaces
        BY <2>1 DEF V2iPlaces
    <2>11. Returned({"section"})' => Source(section, result)'
        <3>1. PICK a, s : a = aic /\ s = section
            OBVIOUS
        <3>2. call = "section" => Source(s, a)
            BY <2>7, <3>1
        <3>3. section' = s /\ result' = a /\ call' = call
            BY <2>1, <3>1
        <3>. QED  BY <3>2, <3>3 DEF Returned
    <2>12. result' = (IF starved THEN NULL ELSE Reading)'
        BY <2>1, <2>3, <2>4
    <2>. QED  BY <2>6, <2>9, <2>10, <2>11, <2>12 DEF ReadInv
<1>. QED  BY <1>7, <1>8

LEMMA V2iRead ==
    ASSUME Inv, Inv', ReadInv, V2iStep
    PROVE  ReadInv'
<1>1. CASE AgentId \/ DelegationMode \/ Version \/ OtherLine
    BY <1>1, LineRead
<1>2. CASE \/ NewAicFails \/ PrincipalUidRefused \/ VersionRefused \/ SettingFails
           \/ DelegationAuthRefused \/ DelegationAuthNotRead \/ NewCapabilityFails
           \/ NamesFail \/ ParametersRefused \/ ParametersFail \/ PushFails
    BY <1>2, LineFails
<1>3. CASE SetNames \/ DecodeParameters \/ SetParameters
    BY <1>3, CapabilityGoesOn
<1>4. CASE NewAic
    BY <1>4, NewAicRead
<1>5. CASE PrincipalUid
    BY <1>5, PrincipalUidBegins
<1>6. CASE PrincipalUidRead
    BY <1>6, PrincipalUidEnds
<1>7. CASE DelegationAuth
    BY <1>7, DelegationBegins
<1>8. CASE DelegationAuthRead
    BY <1>8, DelegationEnds
<1>9. CASE NewCapability
    BY <1>9, CapabilityBegins
<1>10. CASE PushCapability
    BY <1>10, CapabilityEnds
<1>11. CASE Validate
    BY <1>11, ValidateRead
<1>. QED
    BY <1>1, <1>2, <1>3, <1>4, <1>5, <1>6, <1>7, <1>8, <1>9, <1>10, <1>11 DEF V2iStep

-----------------------------------------------------------------------------
LEMMA I2vGoesOn ==
    ASSUME I2vStep
    PROVE  /\ at \in I2vPlaces /\ at' \in I2vPlaces \cup {"returned"}
           /\ UNCHANGED <<call, section, origin>>
<1>. USE DEF I2vPlaces, Go
<1>1. at \in I2vPlaces
    BY DEF I2vStep, ListVersion, CopyAgentId, ListAgentId, WriteUid, ListUid,
       ListMode, CopyScheme, SchemeNotCopied, CopyId, IdNotCopied, NewLine,
       ListCapability, CapabilitiesListed, CopyReason, ListReason, CopyNonce,
       ListNonce, AllListed, ListingFails, AtCapability
<1>2. CASE \/ CopyAgentId \/ WriteUid \/ CopyScheme \/ SchemeNotCopied \/ CopyId
           \/ IdNotCopied \/ NewLine \/ CopyReason \/ CopyNonce
    BY <1>1, <1>2 DEF CopyAgentId, WriteUid, CopyScheme, SchemeNotCopied, CopyId,
       IdNotCopied, NewLine, CopyReason, CopyNonce, Copies, NotCopied, KeepConfig
<1>3. CASE \/ ListVersion \/ ListAgentId \/ ListUid \/ ListMode \/ ListCapability
           \/ ListReason \/ ListNonce
    BY <1>1, <1>3 DEF ListVersion, ListAgentId, ListUid, ListMode, ListCapability,
       ListReason, ListNonce, Adds
<1>4. CASE CapabilitiesListed
    BY <1>1, <1>4 DEF CapabilitiesListed, Adds, Returns
<1>5. CASE AllListed \/ ListingFails
    BY <1>1, <1>5 DEF AllListed, ListingFails, I2vFails, Returns
<1>. QED  BY <1>2, <1>3, <1>4, <1>5 DEF I2vStep

LEMMA I2vRead ==
    ASSUME Inv, ReadInv, I2vStep
    PROVE  ReadInv'
<1>1. /\ at \in I2vPlaces /\ at' \in I2vPlaces \cup {"returned"}
      /\ UNCHANGED <<call, section, origin>>
    BY I2vGoesOn
<1>2. call \in {"certificate", "made"}
    BY <1>1 DEF Inv, ControlInv
<1>3. at' \notin V2iPlaces
    BY <1>1 DEF I2vPlaces, V2iPlaces
<1>4. call = "made" => section \in Sections /\ Source(section, origin)
    BY DEF ReadInv
<1>. QED  BY <1>1, <1>2, <1>3, <1>4 DEF ReadInv, Returned

LEMMA CallsRead ==
    ASSUME Inv, ListInv, ReadInv, Calls
    PROVE  ReadInv'
<1>1. CASE CallV2i
    BY <1>1 DEF CallV2i, Begins, Go, ReadInv, Returned
<1>2. CASE CallI2v
    BY <1>2 DEF CallI2v, Begins, Go, ReadInv, Returned, V2iPlaces
<1>3. CASE ListResult
    <2>1. /\ at = "returned" /\ call = "section" /\ result # NULL
          /\ call' = "made" /\ at' = "version" /\ origin' = result /\ section' = section
        BY <1>3 DEF ListResult, Begins, Go
    <2>2. section \in Sections /\ Source(section, result)
        BY <2>1 DEF ReadInv, Returned
    <2>3. section' \in Sections /\ Source(section', origin')
        BY <2>1, <2>2
    <2>. QED  BY <2>1, <2>3 DEF ReadInv, Returned, V2iPlaces
<1>4. CASE ReadAgain
    <2>1. /\ at = "returned" /\ call = "made" /\ ~starved /\ ~starved'
          /\ call' = "listed" /\ at' = "new" /\ origin' = origin
        BY <1>4 DEF ReadAgain, Go
    <2>2. PICK s : s = section
        OBVIOUS
    <2>3. PICK d \in 1..Len(s) :
             /\ s[d].name = "delegationAuthDer"
             /\ \A j \in d + 1..Len(s) : s[j].name # "delegationAuthDer"
             /\ section' = Append(list, s[d])
        BY <1>4, <2>2 DEF ReadAgain
    <2>4. s \in Sections /\ Source(s, origin)
        BY <2>1, <2>2 DEF ReadInv
    <2>5. PICK f \in Seq(0..63) :
             IsFingerprintOf(f, KeyHash) /\ list = Listing(origin, FingerprintText(f))
        BY <2>1 DEF ListInv, Returned, WholeList
    <2>6. IsLastDer(s, d) /\ d \in Nat
        <3>1. Len(s) \in Nat
            BY <2>2, SectionLines
        <3>. QED  BY <2>3, <3>1 DEF IsLastDer
    <2>7. PICK a : a = origin /\ a = origin'
        BY <2>1
    <2>8. /\ Source(s, a) /\ section' = Append(Listing(a, FingerprintText(f)), s[d])
          /\ IsFingerprintOf(f, a.principalUid.keyHash.id)
        BY <2>3, <2>4, <2>5, <2>7 DEF KeyHash
    <2>9. Relisted'
        BY <2>4, <2>6, <2>7, <2>8 DEF Relisted, KeyHash
    <2>. QED  BY <2>1, <2>9 DEF ReadInv, Returned
<1>5. CASE CallerFrees
    BY <1>5 DEF CallerFrees, Go, ReadInv, Returned, V2iPlaces
<1>. QED  BY <1>1, <1>2, <1>3, <1>4, <1>5 DEF Calls

\* The codec works on the principal of one line.
LEMMA CodecRead ==
    ASSUME Inv, ReadInv, InCodec
    PROVE  ReadInv'
<1>1. CodecInv /\ CodecStep /\ UNCHANGED configVars
    BY DEF Inv, InCodec
<1>2. CodecOnly
    BY <1>1, CodecPointers
<1>3. UNCHANGED <<at, call, section, line, aic, cap, list, result, origin>>
    BY <1>1 DEF configVars
<1>4. at \in {"uid", "add principalUid"}
    BY <1>2 DEF CodecOnly, Inv, ControlInv
<1>5. CASE at = "uid"
    <2>1. /\ codec \in ReadPlaces /\ string = Value /\ Name = "principalUid"
          /\ ReadMeans /\ NotStarved
        BY <1>5 DEF Inv, ControlInv, ReadInv, Making, V2iPlaces
    <2>2. ReadMeans' /\ NotStarved' /\ string' = string
        BY <1>1, <2>1, CodecReads, CodecStarving
    <2>3. Value' = Value /\ Name' = Name
        BY <1>3 DEF Value, Name
    <2>4. Making'
        BY <1>3, <1>5, <2>1, <2>2, <2>3 DEF Making
    <2>5. PICK n \in Nat : Done(n)
        BY <1>5 DEF ReadInv, V2iPlaces
    <2>6. Done(n)'
        BY <1>3, <2>5, DoneStays
    <2>. QED  BY <1>3, <1>5, <2>4, <2>5, <2>6, GoesOnRead DEF V2iPlaces
<1>6. CASE at = "add principalUid"
    <2>1. call = "made" => section \in Sections /\ Source(section, origin)
        BY DEF ReadInv
    <2>2. call \in {"certificate", "made"}
        BY <1>6 DEF Inv, ControlInv, I2vPlaces
    <2>. QED  BY <1>3, <1>6, <2>1, <2>2 DEF ReadInv, Returned, V2iPlaces
<1>. QED  BY <1>4, <1>5, <1>6

LEMMA InitRead == Init => ReadInv
BY DEF Init, ReadInv, Returned, V2iPlaces

LEMMA NextRead == Inv /\ Inv' /\ ListInv /\ ReadInv /\ [Next]_vars => ReadInv'
<1>. SUFFICES ASSUME Inv, Inv', ListInv, ReadInv, [Next]_vars PROVE ReadInv'
    OBVIOUS
<1>1. CASE Calls
    BY <1>1, CallsRead
<1>2. CASE V2iStep
    BY <1>2, V2iRead
<1>3. CASE I2vStep
    BY <1>3, I2vRead
<1>4. CASE InCodec
    BY <1>4, CodecRead
<1>5. CASE UNCHANGED vars
    <2>1. UNCHANGED <<at, call, section, line, aic, cap, list, result, origin, codec,
                      string, uid, pos, acc, bits, built, room, pointers, starved>>
        BY <1>5 DEF vars, configVars, codecVars, ownershipVars
    <2>2. Characters' = Characters
        BY <2>1 DEF Characters
    <2>3. ReadMeans' = ReadMeans /\ NotStarved' = NotStarved
        BY <2>1, <2>2 DEF ReadMeans, DecodeMeans, NotStarved
    <2>4. Name' = Name /\ Value' = Value
        BY <2>1 DEF Name, Value
    <2>5. Making' = Making
        BY <2>1, <2>3, <2>4 DEF Making
    <2>6. \A n : Done(n)' = Done(n)
        BY <2>1, <2>4 DEF Done
    <2>7. KeyHash' = KeyHash
        BY <2>1 DEF KeyHash
    <2>8. Relisted' = Relisted
        BY <2>1, <2>7 DEF Relisted
    <2>9. Reading' = Reading
        BY <2>1 DEF Reading, AllDescribed
    <2>. QED  BY <2>1, <2>5, <2>6, <2>8, <2>9 DEF ReadInv, Returned
<1>. QED  BY <1>1, <1>2, <1>3, <1>4, <1>5 DEF Next, Calls

\* An AIC that v2i_AIC makes of a section of any lines, in any order and number
\* and whatever allocations fail, is the one that the section describes as a
\* whole, all of its lines can be read, and it is valid when it was given a
\* delegation; and a section of proper lines that describes a valid AIC makes it
\* unless an allocation fails.
THEOREM SectionIsRead == Spec => []ResultIsReading
<1>1. ReadInv => ResultIsReading
    <2>. SUFFICES ASSUME ReadInv, Returned({"section", "listed"})
                  PROVE  ResultIsReading
        BY DEF ResultIsReading
    <2>1. result = IF starved THEN NULL ELSE Reading
        BY DEF ReadInv
    <2>2. PICK a : a = AllDescribed
        OBVIOUS
    <2>3. Reading = IF AllReadable /\ AIC_validate(a) THEN a ELSE NULL
        BY <2>2 DEF Reading, AllReadable
    <2>4. result # NULL => AllReadable /\ result = a /\ AIC_validate(a)
        BY <2>1, <2>3
    <2>5. ~starved /\ AllReadable /\ AIC_validate(a) => result = a
        BY <2>1, <2>3
    <2>6. starved => result = NULL
        BY <2>1
    <2>. QED  BY <2>2, <2>4, <2>5, <2>6 DEF ResultIsReading
<1>. QED
    BY <1>1, InitInv, NextInv, InitList, NextList, InitRead, NextRead, PTL DEF Spec

-----------------------------------------------------------------------------
(***************************************************************************)
(* A section that was listed                                               *)
(***************************************************************************)

\* A name that one line has.
IsOnly(s, name, n, i) == i \in 1..n /\ \A j \in 1..n : s[j].name = name <=> j = i

LEMMA OnlyNamed ==
    ASSUME NEW s, NEW n, NEW name, NEW i, IsOnly(s, name, n, i)
    PROVE  Has(s, name, n) /\ LastOf(s, name, n) = i /\ LastValue(s, name, n) = s[i].value
<1>1. Named(s, name, n) = {i}
    BY DEF Named, IsOnly
<1>2. Has(s, name, n) /\ LastOf(s, name, n) = i
    BY <1>1 DEF Has, LastOf
<1>. QED  BY <1>2 DEF LastValue

\* A name that m lines have, one after the other.
IsRun(s, name, lo, m) ==
    /\ lo \in Nat /\ m \in Nat /\ lo + m <= Len(s)
    /\ \A i \in 1..Len(s) : s[i].name = name <=> i \in lo + 1..lo + m

LEMMA Consecutive ==
    ASSUME NEW s, Len(s) \in Nat, NEW name, NEW lo, NEW m, IsRun(s, name, lo, m)
    PROVE  /\ CapabilitiesOf(s, name, Len(s)) = [k \in 1..m |-> CapabilityOf(s[lo + k].value)]
           /\ Has(s, name, Len(s)) <=> m # 0
<1>. USE DEF IsRun
<1>1. ASSUME NEW k \in 0..m PROVE Cardinality(lo + 1..lo + k) = k
    <2>1. lo + 1 \in Int /\ lo + k \in Int
        OBVIOUS
    <2>2. Cardinality(lo + 1..lo + k) = IF lo + 1 > lo + k THEN 0 ELSE lo + k - (lo + 1) + 1
        BY <2>1, FS_Interval
    <2>. QED  BY <2>2
<1>2. Named(s, name, Len(s)) = lo + 1..lo + m
    BY DEF Named
<1>3. Count(s, name, Len(s)) = m
    BY <1>1, <1>2 DEF Count
<1>4. ASSUME NEW k \in 1..m PROVE Nth(s, name, k) = lo + k
    <2>1. Named(s, name, lo + k) = lo + 1..lo + k
        BY DEF Named
    <2>2. Count(s, name, lo + k) = k
        BY <1>1, <2>1 DEF Count
    <2>3. lo + k \in 1..Len(s) /\ lo + k \in lo + 1..lo + m
        OBVIOUS
    <2>4. IsNth(s, name, k, lo + k)
        BY <2>2, <2>3 DEF IsNth
    <2>. QED  BY <2>4, NthIs
<1>5. CapabilitiesOf(s, name, Len(s)) = [k \in 1..m |-> CapabilityOf(s[lo + k].value)]
    BY <1>3, <1>4 DEF CapabilitiesOf
<1>6. Has(s, name, Len(s)) <=> m # 0
    <2>1. CASE m = 0
        BY <1>2, <2>1 DEF Has
    <2>2. CASE m # 0
        <3>1. lo + 1 \in lo + 1..lo + m
            BY <2>2
        <3>. QED  BY <1>2, <2>2, <3>1 DEF Has
    <2>. QED  BY <2>1, <2>2
<1>. QED  BY <1>5, <1>6

\* Where the names are.
NamesPlaced(t, p, q) ==
    LET n == p + q
    IN  \A i \in 1..n + 8 :
           /\ t[i].name = "version" <=> i = 1
           /\ t[i].name = "agentId" <=> i = 2
           /\ t[i].name = "principalUid" <=> i = 3
           /\ t[i].name = "delegationMode" <=> i = 4
           /\ t[i].name = "capability" <=> i \in 4 + 1..4 + p
           /\ t[i].name = "authorizationConstraint" <=> i \in 4 + p + 1..4 + p + q
           /\ t[i].name = "delegationAuthDer" <=> i = n + 8

LEMMA NamesAt ==
    ASSUME NEW a, NEW p \in Nat, NEW q \in Nat, p = Len(a.capabilities), Len(Both(a)) = p + q,
           NEW f, NEW d, d.name = "delegationAuthDer", NEW t, IsRelisting(t, a, f, d)
    PROVE  NamesPlaced(t, p, q)
<1>1. PICK n \in Nat : n = p + q /\ n = Len(Both(a))
    OBVIOUS
<1>2. /\ Last(a, 1) = n + 5 /\ Last(a, 2) = n + 6 /\ Last(a, 3) = n + 7 /\ Last(a, 4) = n + 8
    BY <1>1 DEF Last
<1>3. /\ t[1].name = "version" /\ t[2].name = "agentId" /\ t[3].name = "principalUid"
      /\ t[4].name = "delegationMode"
    BY DEF IsRelisting, VersionLine, AgentLine, PrincipalLine, ModeLine
<1>4. /\ t[n + 5].name = "delegationAuthorization" /\ t[n + 6].name = "reasonCode"
      /\ t[n + 7].name = "nonce" /\ t[n + 8].name = "delegationAuthDer"
    <2>1. /\ t[n + 5] = PresentLine /\ t[n + 6] = ReasonLine(a.delegationAuthorization)
          /\ t[n + 7] = NonceLine(a.delegationAuthorization) /\ t[n + 8] = d
        <3>1. /\ t[Last(a, 1)] = PresentLine
              /\ t[Last(a, 2)] = ReasonLine(a.delegationAuthorization)
              /\ t[Last(a, 3)] = NonceLine(a.delegationAuthorization)
              /\ t[Last(a, 4)] = d
            BY DEF IsRelisting
        <3>. QED  BY <1>2, <3>1
    <2>2. /\ PresentLine.name = "delegationAuthorization"
          /\ ReasonLine(a.delegationAuthorization).name = "reasonCode"
          /\ NonceLine(a.delegationAuthorization).name = "nonce"
        BY DEF PresentLine, ReasonLine, NonceLine
    <2>. QED  BY <2>1, <2>2
<1>5. ASSUME NEW j \in 1..n
      PROVE  t[4 + j].name = IF j <= p THEN "capability" ELSE "authorizationConstraint"
    <2>1. t[4 + j] = CapabilityLine(KindOf(a, j), Both(a)[j])
        BY <1>1 DEF IsRelisting
    <2>2. t[4 + j].name = KindOf(a, j)
        BY <2>1 DEF CapabilityLine
    <2>. QED  BY <2>2 DEF KindOf
<1>6. ASSUME NEW i \in 1..n + 8
      PROVE  /\ t[i].name = "version" <=> i = 1
             /\ t[i].name = "agentId" <=> i = 2
             /\ t[i].name = "principalUid" <=> i = 3
             /\ t[i].name = "delegationMode" <=> i = 4
             /\ t[i].name = "capability" <=> i \in 4 + 1..4 + p
             /\ t[i].name = "authorizationConstraint" <=> i \in 4 + p + 1..4 + p + q
             /\ t[i].name = "delegationAuthDer" <=> i = n + 8
    <2>1. CASE i \in {1, 2, 3, 4}
        BY <1>1, <1>3, <2>1
    <2>2. CASE i \in {n + 5, n + 6, n + 7, n + 8}
        BY <1>1, <1>4, <2>2
    <2>3. CASE i \notin {1, 2, 3, 4, n + 5, n + 6, n + 7, n + 8}
        <3>1. PICK j \in 1..n : i = 4 + j
            <4>1. i - 4 \in 1..n /\ i = 4 + (i - 4)
                BY <2>3
            <4>. QED  BY <4>1
        <3>2. t[i].name = IF j <= p THEN "capability" ELSE "authorizationConstraint"
            BY <1>5, <3>1
        <3>3. CASE j <= p
            BY <1>1, <3>1, <3>2, <3>3
        <3>4. CASE ~(j <= p)
            BY <1>1, <3>1, <3>2, <3>4
        <3>. QED  BY <3>3, <3>4
    <2>. QED  BY <2>1, <2>2, <2>3
<1>. QED  BY <1>1, <1>6 DEF NamesPlaced

-----------------------------------------------------------------------------
\* What v2i_AIC makes of every section it accepts.
WellMade(a) ==
    /\ a = [version |-> a.version, agentId |-> a.agentId, principalUid |-> a.principalUid,
            capabilities |-> a.capabilities, delegationMode |-> a.delegationMode,
            authorizationConstraints |-> a.authorizationConstraints,
            delegationAuthorization |-> a.delegationAuthorization]
    /\ AIC_validate(a) /\ IsListable(a)
    /\ a.delegationMode \in {0, 1}
    /\ LET u == a.principalUid
       IN  u = [version |-> 1, realm |-> u.realm, identifier |-> u.identifier,
                keyHash |-> [len |-> Len(u.keyHash.id), id |-> u.keyHash.id],
                hashAlgo |-> "sha256"]
    /\ a.authorizationConstraints # NULL => Len(a.authorizationConstraints) # 0

LEMMA HasCount ==
    ASSUME NEW s, NEW name, NEW n \in Nat, Has(s, name, n)
    PROVE  Count(s, name, n) # 0 /\ Count(s, name, n) \in Nat
<1>1. PICK i : i \in Named(s, name, n)
    BY DEF Has
<1>2. IsFiniteSet(Named(s, name, n)) /\ Count(s, name, n) \in Nat
    BY NamedFinite
<1>3. Cardinality(Named(s, name, n)) = 0 <=> Named(s, name, n) = {}
    BY <1>2, FS_EmptySet
<1>. QED  BY <1>1, <1>2, <1>3 DEF Count

LEMMA SourceWellMade ==
    ASSUME NEW s \in Sections, NEW a, Source(s, a)
    PROVE  WellMade(a)
<1>1. Len(s) \in Nat
    BY SectionIsLines, AppendSequence DEF AreLines
<1>2. PICK n \in Nat : n = Len(s)
    BY <1>1
<1>3. IsDescription(a, s, n)
    <2>1. a = Described(s, n)
        BY <1>2 DEF Source
    <2>. QED  BY <2>1, Describes
<1>4. AIC_validate(a) /\ IsListable(a)
    BY DEF Source
<1>5. a = [version |-> a.version, agentId |-> a.agentId, principalUid |-> a.principalUid,
           capabilities |-> a.capabilities, delegationMode |-> a.delegationMode,
           authorizationConstraints |-> a.authorizationConstraints,
           delegationAuthorization |-> a.delegationAuthorization]
    BY <1>3 DEF IsDescription
<1>6. a.delegationMode \in {0, 1}
    BY <1>3 DEF IsDescription, ModeAt
<1>7. PICK u : u = a.principalUid
    OBVIOUS
<1>8. u = PrincipalAt(s, n)
    BY <1>3, <1>7 DEF IsDescription
<1>9. Has(s, "principalUid", n)
    <2>1. u.realm.len # 0
        <3>1. u.realm.len \in 1..128
            BY <1>4, <1>7 DEF AIC_validate, PrincipalUidValid, Length
        <3>. QED  BY <3>1
    <2>2. AIC_PRINCIPALUID_new.realm.len = 0
        BY DEF AIC_PRINCIPALUID_new, Empty
    <2>. QED  BY <1>8, <2>1, <2>2 DEF PrincipalAt
<1>10. u = [version |-> 1, realm |-> u.realm, identifier |-> u.identifier,
            keyHash |-> [len |-> Len(u.keyHash.id), id |-> u.keyHash.id],
            hashAlgo |-> "sha256"]
    <2>1. PICK v : v = LastValue(s, "principalUid", n)
        OBVIOUS
    <2>2. u = UidOf(v)
        BY <1>8, <1>9, <2>1 DEF PrincipalAt
    <2>3. PICK h : h = Spelled(v[3].id)
        OBVIOUS
    <2>4. u = [version |-> 1, realm |-> v[1], identifier |-> v[2],
               keyHash |-> [len |-> Len(h), id |-> h], hashAlgo |-> "sha256"]
        BY <2>2, <2>3 DEF UidOf
    <2>. QED  BY <2>4
<1>11. ASSUME a.authorizationConstraints # NULL PROVE Len(a.authorizationConstraints) # 0
    <2>1. a.authorizationConstraints = ConstraintsAt(s, n)
        BY <1>3 DEF IsDescription
    <2>2. Has(s, "authorizationConstraint", n)
        BY <1>11, <2>1 DEF ConstraintsAt
    <2>3. PICK m \in Nat : m = Count(s, "authorizationConstraint", n) /\ m # 0
        BY <2>2, HasCount
    <2>4. a.authorizationConstraints = CapabilitiesOf(s, "authorizationConstraint", n)
        BY <2>1, <2>2 DEF ConstraintsAt
    <2>5. PICK c : c = a.authorizationConstraints
        OBVIOUS
    <2>6. c = [k \in 1..m |-> CapabilityOf(s[Nth(s, "authorizationConstraint", k)].value)]
        BY <2>3, <2>4, <2>5 DEF CapabilitiesOf
    <2>7. Len(c) = m
        BY <2>6
    <2>. QED  BY <2>3, <2>5, <2>7
<1>. QED  BY <1>4, <1>5, <1>6, <1>7, <1>10, <1>11 DEF WellMade

\* The last delegation of a section is the one that counts.
LEMMA LastDerCounts ==
    ASSUME NEW s \in Sections, NEW a, Source(s, a), NEW d, IsLastDer(s, d)
    PROVE  DelegationOf(s[d].value) = a.delegationAuthorization
<1>1. PICK n \in Nat : n = Len(s)
    BY SectionIsLines, AppendSequence DEF AreLines
<1>2. IsDescription(a, s, n)
    <2>1. a = Described(s, n)
        BY <1>1 DEF Source
    <2>. QED  BY <2>1, Describes
<1>3. d \in 1..n /\ d \in Named(s, "delegationAuthDer", n)
    BY <1>1 DEF IsLastDer, Named
<1>4. \A j \in Named(s, "delegationAuthDer", n) : j \in Int /\ j <= d
    <2>. SUFFICES ASSUME NEW j \in Named(s, "delegationAuthDer", n) PROVE j \in Int /\ j <= d
        OBVIOUS
    <2>1. j \in 1..n /\ s[j].name = "delegationAuthDer"
        BY DEF Named
    <2>2. j \notin d + 1..n
        BY <1>1, <2>1 DEF IsLastDer
    <2>. QED  BY <1>3, <2>1, <2>2
<1>5. LastOf(s, "delegationAuthDer", n) = d
    <2>1. \A i \in Named(s, "delegationAuthDer", n) :
             (\A j \in Named(s, "delegationAuthDer", n) : j <= i) => i = d
        BY <1>3, <1>4
    <2>. QED  BY <1>3, <1>4, <2>1 DEF LastOf
<1>6. Has(s, "delegationAuthDer", n)
    BY <1>3 DEF Has
<1>. QED  BY <1>2, <1>5, <1>6 DEF IsDescription, DelegationAt, LastValue

-----------------------------------------------------------------------------
AllAsListed(caps) == [k \in 1..Len(caps) |-> AsListed(caps[k])]

\* The AIC that is read when a is listed.
AgainOf(a) ==
    [version |-> a.version, agentId |-> a.agentId, principalUid |-> a.principalUid,
     capabilities |-> AllAsListed(a.capabilities), delegationMode |-> a.delegationMode,
     authorizationConstraints |-> IF a.authorizationConstraints = NULL THEN NULL
                                  ELSE AllAsListed(a.authorizationConstraints),
     delegationAuthorization |-> a.delegationAuthorization]

LEMMA WholeOfOne ==
    ASSUME NEW x
    PROVE  Whole(<<x>>) = x
<1>1. PICK v : v = <<x>>
    OBVIOUS
<1>2. Len(v) = 1 /\ v[1] = x
    BY <1>1
<1>3. Whole(v) = x
    BY <1>2 DEF Whole
<1>. QED  BY <1>1, <1>3

LEMMA VersionStays ==
    ASSUME NEW v, ASN1_INTEGER_get(v) \in {0, 1, 2}
    PROVE  ASN1_INTEGER_get(v) = v
BY DEF ASN1_INTEGER_get

\* A number of one digit is printed as it is.
LEMMA DigitStays ==
    ASSUME NEW v \in {0, 1, 2}
    PROVE  num(v).id = v
<1>1. PICK limit \in Nat : limit = 10^(NumRoom - 1) /\ limit > 9
    BY NumHoldsDigits
<1>2. Cut(v, 10^(NumRoom - 1)) = v
    BY <1>1 DEF Cut
<1>3. ~(v < 0)
    OBVIOUS
<1>. QED  BY <1>2, <1>3 DEF num

LEMMA ModeStays ==
    ASSUME NEW m \in {0, 1}
    PROVE  ASN1_INTEGER_get(m) = m
<1>1. LongMax \in Nat /\ LongMax >= 1
    BY ExtensionConstants
<1>2. m \in -(LongMax + 1)..LongMax
    BY <1>1
<1>. QED  BY <1>2 DEF ASN1_INTEGER_get

\* What is listed of a section that was made.
Relists(s, a, f, d, t) ==
    /\ s \in Sections /\ Source(s, a) /\ f \in Seq(0..63)
    /\ IsFingerprintOf(f, a.principalUid.keyHash.id)
    /\ d.name = "delegationAuthDer" /\ DelegationOf(d.value) = a.delegationAuthorization
    /\ IsRelisting(t, a, f, d)

\* How long its parts are.
Sizes(a, p, q, t) ==
    /\ p \in Nat /\ q \in Nat /\ p = Len(a.capabilities)
    /\ q = Len(Entries(a.authorizationConstraints))
    /\ Len(Both(a)) = p + q /\ Len(t) = p + q + 8
    /\ \A i \in 1..p : Both(a)[i] = a.capabilities[i]
    /\ \A i \in 1..q : Both(a)[p + i] = Entries(a.authorizationConstraints)[i]
    /\ NamesPlaced(t, p, q)

LEMMA SizesOf ==
    ASSUME NEW s, NEW a, NEW f, NEW d, NEW t, Relists(s, a, f, d, t)
    PROVE  \E p, q : Sizes(a, p, q, t)
<1>1. IsListable(a)
    BY DEF Relists, Source
<1>2. PICK p \in Nat, q \in Nat :
         p = Len(a.capabilities) /\ q = Len(Entries(a.authorizationConstraints))
    BY <1>1, BothMade
<1>3. /\ Len(Both(a)) = p + q
      /\ \A i \in 1..p : Both(a)[i] = a.capabilities[i]
      /\ \A i \in 1..q : Both(a)[p + i] = Entries(a.authorizationConstraints)[i]
    BY <1>1, <1>2, BothMade
<1>4. NamesPlaced(t, p, q)
    BY <1>2, <1>3, NamesAt DEF Relists
<1>5. Len(t) = p + q + 8
    BY <1>3 DEF Relists, IsRelisting
<1>. QED  BY <1>2, <1>3, <1>4, <1>5 DEF Sizes

LEMMA FieldsAgain ==
    ASSUME NEW s, NEW a, NEW f, NEW d, NEW t, Relists(s, a, f, d, t),
           NEW p, NEW q, Sizes(a, p, q, t), NEW n \in Nat, n = Len(t)
    PROVE  /\ VersionAt(t, n) = a.version /\ AgentAt(t, n) = a.agentId
           /\ PrincipalAt(t, n) = a.principalUid /\ ModeAt(t, n) = a.delegationMode
           /\ DelegationAt(t, n) = a.delegationAuthorization
<1>1. WellMade(a)
    BY SourceWellMade DEF Relists
<1>2. /\ n = p + q + 8 /\ p \in Nat /\ q \in Nat
      /\ \A i \in 1..n :
            /\ t[i].name = "version" <=> i = 1
            /\ t[i].name = "agentId" <=> i = 2
            /\ t[i].name = "principalUid" <=> i = 3
            /\ t[i].name = "delegationMode" <=> i = 4
            /\ t[i].name = "delegationAuthDer" <=> i = n
    <2>1. n = p + q + 8 /\ p \in Nat /\ q \in Nat
        BY DEF Sizes
    <2>2. PICK m : m = p + q /\ m + 8 = n
        BY <2>1
    <2>3. \A i \in 1..m + 8 :
             /\ t[i].name = "version" <=> i = 1
             /\ t[i].name = "agentId" <=> i = 2
             /\ t[i].name = "principalUid" <=> i = 3
             /\ t[i].name = "delegationMode" <=> i = 4
             /\ t[i].name = "delegationAuthDer" <=> i = m + 8
        BY <2>2 DEF Sizes, NamesPlaced
    <2>. QED  BY <2>1, <2>2, <2>3
<1>3. 1 \in 1..n /\ 2 \in 1..n /\ 3 \in 1..n /\ 4 \in 1..n /\ n \in 1..n
    BY <1>2
<1>4. /\ Has(t, "version", n) /\ LastValue(t, "version", n) = t[1].value
      /\ Has(t, "agentId", n) /\ LastValue(t, "agentId", n) = t[2].value
      /\ Has(t, "principalUid", n) /\ LastValue(t, "principalUid", n) = t[3].value
      /\ Has(t, "delegationMode", n) /\ LastValue(t, "delegationMode", n) = t[4].value
      /\ Has(t, "delegationAuthDer", n) /\ LastValue(t, "delegationAuthDer", n) = t[n].value
    <2>1. Has(t, "version", n) /\ LastValue(t, "version", n) = t[1].value
        <3>1. IsOnly(t, "version", n, 1)
            BY <1>2, <1>3 DEF IsOnly
        <3>. QED  BY <3>1, OnlyNamed
    <2>2. Has(t, "agentId", n) /\ LastValue(t, "agentId", n) = t[2].value
        <3>1. IsOnly(t, "agentId", n, 2)
            BY <1>2, <1>3 DEF IsOnly
        <3>. QED  BY <3>1, OnlyNamed
    <2>3. Has(t, "principalUid", n) /\ LastValue(t, "principalUid", n) = t[3].value
        <3>1. IsOnly(t, "principalUid", n, 3)
            BY <1>2, <1>3 DEF IsOnly
        <3>. QED  BY <3>1, OnlyNamed
    <2>4. Has(t, "delegationMode", n) /\ LastValue(t, "delegationMode", n) = t[4].value
        <3>1. IsOnly(t, "delegationMode", n, 4)
            BY <1>2, <1>3 DEF IsOnly
        <3>. QED  BY <3>1, OnlyNamed
    <2>5. Has(t, "delegationAuthDer", n) /\ LastValue(t, "delegationAuthDer", n) = t[n].value
        <3>1. IsOnly(t, "delegationAuthDer", n, n)
            BY <1>2, <1>3 DEF IsOnly
        <3>. QED  BY <3>1, OnlyNamed
    <2>. QED  BY <2>1, <2>2, <2>3, <2>4, <2>5
<1>5. VersionAt(t, n) = a.version
    <2>1. PICK x : x = num(ASN1_INTEGER_get(a.version))
        OBVIOUS
    <2>2. t[1].value = <<x>>
        BY <2>1 DEF Relists, IsRelisting, VersionLine
    <2>3. VersionAt(t, n) = x.id
        BY <1>4, <2>2, WholeOfOne DEF VersionAt, atol
    <2>4. ASN1_INTEGER_get(a.version) \in {0, 1, 2}
        BY <1>1 DEF WellMade, AIC_validate, VersionValid
    <2>5. ASN1_INTEGER_get(a.version) = a.version
        BY <2>4, VersionStays
    <2>6. x.id = ASN1_INTEGER_get(a.version)
        BY <2>1, <2>4, DigitStays
    <2>. QED  BY <2>3, <2>5, <2>6
<1>6. AgentAt(t, n) = a.agentId
    <2>1. t[2].value = <<a.agentId>>
        BY DEF Relists, IsRelisting, AgentLine
    <2>. QED  BY <1>4, <2>1, WholeOfOne DEF AgentAt
<1>7. PrincipalAt(t, n) = a.principalUid
    <2>1. PICK u : u = a.principalUid
        OBVIOUS
    <2>2. PICK v : v = t[3].value
        OBVIOUS
    <2>3. v = <<u.realm, u.identifier, FingerprintText(f)>>
        BY <2>1, <2>2 DEF Relists, IsRelisting, PrincipalLine
    <2>4. v[1] = u.realm /\ v[2] = u.identifier /\ v[3] = FingerprintText(f)
        BY <2>3
    <2>5. v[3].id = f
        BY <2>4 DEF FingerprintText
    <2>6. Spelled(f) = u.keyHash.id
        BY <2>1 DEF Relists, IsFingerprintOf
    <2>7. UidOf(v) = [version |-> 1, realm |-> u.realm, identifier |-> u.identifier,
                      keyHash |-> [len |-> Len(u.keyHash.id), id |-> u.keyHash.id],
                      hashAlgo |-> "sha256"]
        BY <2>4, <2>5, <2>6 DEF UidOf
    <2>8. UidOf(v) = u
        BY <1>1, <2>1, <2>7 DEF WellMade
    <2>. QED  BY <1>4, <2>1, <2>2, <2>8 DEF PrincipalAt
<1>8. ModeAt(t, n) = a.delegationMode
    <2>1. a.delegationMode \in {0, 1} /\ ASN1_INTEGER_get(a.delegationMode) = a.delegationMode
        BY <1>1, ModeStays DEF WellMade
    <2>2. PICK w : w = IF a.delegationMode = 1 THEN "representative" ELSE "authorized"
        OBVIOUS
    <2>3. PICK x : x = [len |-> 10, id |-> w]
        OBVIOUS
    <2>4. t[4].value = <<x>>
        BY <2>1, <2>2, <2>3 DEF Relists, IsRelisting, ModeLine
    <2>5. Whole(LastValue(t, "delegationMode", n)).id = w
        BY <1>4, <2>3, <2>4, WholeOfOne
    <2>. QED  BY <1>4, <2>1, <2>2, <2>5 DEF ModeAt
<1>9. DelegationAt(t, n) = a.delegationAuthorization
    <2>1. n = Last(a, 4)
        BY <1>2 DEF Sizes, Last
    <2>2. t[n] = d
        BY <2>1 DEF Relists, IsRelisting
    <2>. QED  BY <1>4, <2>2 DEF DelegationAt, Relists
<1>. QED  BY <1>5, <1>6, <1>7, <1>8, <1>9

\* Every capability and constraint is read as it was listed.
LEMMA LinesAgain ==
    ASSUME NEW s, NEW a, NEW f, NEW d, NEW t, Relists(s, a, f, d, t),
           NEW p, NEW q, Sizes(a, p, q, t), NEW i \in 1..p + q
    PROVE  /\ CapabilityOf(t[4 + i].value) = AsListed(Both(a)[i])
           /\ \/ ~HasParameters(t[4 + i].value)
              \/ ~Prefixed(t[4 + i].value)
<1>1. s \in Sections /\ Source(s, a) /\ i \in 1..Len(Both(a))
    BY DEF Relists, Sizes
<1>2. PICK c \in Said(s) : c = Both(a)[i] /\ IsCap(c)
    BY <1>1, BothSaid
<1>3. t[4 + i] = CapabilityLine(KindOf(a, i), c)
    BY <1>1, <1>2 DEF Relists, IsRelisting
<1>4. PICK kind : kind = KindOf(a, i)
    OBVIOUS
<1>5. /\ CapabilityOf(CapabilityLine(kind, c).value) = AsListed(c)
      /\ \/ ~HasParameters(CapabilityLine(kind, c).value)
         \/ ~Prefixed(CapabilityLine(kind, c).value)
    BY <1>1, <1>2, ListedCapability
<1>. QED  BY <1>2, <1>3, <1>4, <1>5

LEMMA CapabilitiesAgain ==
    ASSUME NEW s, NEW a, NEW f, NEW d, NEW t, Relists(s, a, f, d, t),
           NEW p, NEW q, Sizes(a, p, q, t), NEW n \in Nat, n = Len(t)
    PROVE  /\ CapabilitiesOf(t, "capability", n) = AllAsListed(a.capabilities)
           /\ ConstraintsAt(t, n) = IF a.authorizationConstraints = NULL THEN NULL
                                    ELSE AllAsListed(a.authorizationConstraints)
<1>1. n = p + q + 8 /\ p \in Nat /\ q \in Nat
    BY DEF Sizes
<1>2. IsRun(t, "capability", 4, p)
    <2>1. PICK m : m = p + q /\ m + 8 = n
        BY <1>1
    <2>2. \A i \in 1..m + 8 : t[i].name = "capability" <=> i \in 4 + 1..4 + p
        BY <2>1 DEF Sizes, NamesPlaced
    <2>. QED  BY <1>1, <2>1, <2>2 DEF IsRun
<1>3. IsRun(t, "authorizationConstraint", 4 + p, q)
    <2>1. PICK m : m = p + q /\ m + 8 = n
        BY <1>1
    <2>2. \A i \in 1..m + 8 :
             t[i].name = "authorizationConstraint" <=> i \in 4 + p + 1..4 + p + q
        BY <2>1 DEF Sizes, NamesPlaced
    <2>. QED  BY <1>1, <2>1, <2>2 DEF IsRun
<1>4. CapabilitiesOf(t, "capability", n) = [k \in 1..p |-> CapabilityOf(t[4 + k].value)]
    BY <1>2, Consecutive
<1>5. /\ CapabilitiesOf(t, "authorizationConstraint", n) =
            [k \in 1..q |-> CapabilityOf(t[4 + p + k].value)]
      /\ Has(t, "authorizationConstraint", n) <=> q # 0
    BY <1>3, Consecutive
<1>6. \A k \in 1..p : CapabilityOf(t[4 + k].value) = AsListed(a.capabilities[k])
    <2>. SUFFICES ASSUME NEW k \in 1..p
                  PROVE  CapabilityOf(t[4 + k].value) = AsListed(a.capabilities[k])
        OBVIOUS
    <2>1. k \in 1..p + q
        BY <1>1
    <2>2. CapabilityOf(t[4 + k].value) = AsListed(Both(a)[k])
        BY <2>1, LinesAgain
    <2>3. Both(a)[k] = a.capabilities[k]
        BY DEF Sizes
    <2>. QED  BY <2>2, <2>3
<1>7. CapabilitiesOf(t, "capability", n) = AllAsListed(a.capabilities)
    <2>1. p = Len(a.capabilities)
        BY DEF Sizes
    <2>. QED  BY <1>4, <1>6, <2>1 DEF AllAsListed
<1>8. PICK e : e = Entries(a.authorizationConstraints)
    OBVIOUS
<1>9. q = Len(e)
    BY <1>8 DEF Sizes
<1>10. \A k \in 1..q : CapabilityOf(t[4 + p + k].value) = AsListed(e[k])
    <2>. SUFFICES ASSUME NEW k \in 1..q
                  PROVE  CapabilityOf(t[4 + p + k].value) = AsListed(e[k])
        OBVIOUS
    <2>1. p + k \in 1..p + q /\ 4 + (p + k) = 4 + p + k
        BY <1>1
    <2>2. CapabilityOf(t[4 + (p + k)].value) = AsListed(Both(a)[p + k])
        BY <2>1, LinesAgain
    <2>3. Both(a)[p + k] = e[k]
        BY <1>8 DEF Sizes
    <2>. QED  BY <2>1, <2>2, <2>3
<1>11. CASE a.authorizationConstraints = NULL
    <2>1. q = 0
        BY <1>8, <1>9, <1>11, EmptySequence DEF Entries
    <2>. QED  BY <1>5, <1>7, <1>11, <2>1 DEF ConstraintsAt
<1>12. CASE a.authorizationConstraints # NULL
    <2>1. e = a.authorizationConstraints
        BY <1>8, <1>12 DEF Entries
    <2>2. Len(a.authorizationConstraints) # 0
        BY <1>12, SourceWellMade DEF WellMade, Relists
    <2>3. Has(t, "authorizationConstraint", n)
        BY <1>5, <1>9, <2>1, <2>2
    <2>4. CapabilitiesOf(t, "authorizationConstraint", n) = AllAsListed(e)
        BY <1>5, <1>9, <1>10 DEF AllAsListed
    <2>. QED  BY <1>7, <1>12, <2>1, <2>3, <2>4 DEF ConstraintsAt
<1>. QED  BY <1>11, <1>12

LEMMA AgainDescribed ==
    ASSUME NEW s, NEW a, NEW f, NEW d, NEW t, Relists(s, a, f, d, t)
    PROVE  Described(t, Len(t)) = AgainOf(a)
<1>1. PICK p, q : Sizes(a, p, q, t)
    BY SizesOf
<1>2. PICK n \in Nat : n = Len(t)
    <2>1. p \in Nat /\ q \in Nat /\ Len(t) = p + q + 8
        BY <1>1 DEF Sizes
    <2>2. Len(t) \in Nat
        BY <2>1
    <2>. QED  BY <2>2
<1>3. /\ VersionAt(t, n) = a.version /\ AgentAt(t, n) = a.agentId
      /\ PrincipalAt(t, n) = a.principalUid /\ ModeAt(t, n) = a.delegationMode
      /\ DelegationAt(t, n) = a.delegationAuthorization
    BY <1>1, <1>2, FieldsAgain
<1>4. /\ CapabilitiesOf(t, "capability", n) = AllAsListed(a.capabilities)
      /\ ConstraintsAt(t, n) = IF a.authorizationConstraints = NULL THEN NULL
                               ELSE AllAsListed(a.authorizationConstraints)
    BY <1>1, <1>2, CapabilitiesAgain
<1>5. IsDescription(Described(t, n), t, n)
    BY Describes
<1>. QED  BY <1>2, <1>3, <1>4, <1>5 DEF IsDescription, AgainOf

-----------------------------------------------------------------------------
LEMMA NotNegative ==
    ASSUME NEW f \in Seq(0..63), NEW i \in 1..Len(f)
    PROVE  f[i] >= 0
<1>1. f[i] \in 0..63
    BY ElementOf
<1>2. \A x \in 0..63 : x >= 0
    OBVIOUS
<1>. QED  BY <1>1, <1>2

\* The principal that is listed is named by its line.
LEMMA PrincipalNamed ==
    ASSUME NEW u, PrincipalUidValid(u), u.keyHash.len = Len(u.keyHash.id),
           NEW f \in Seq(0..63), IsFingerprintOf(f, u.keyHash.id),
           NEW v, v = <<u.realm, u.identifier, FingerprintText(f)>>
    PROVE  NamesPrincipal(v)
<1>1. Len(v) = 3 /\ v[1] = u.realm /\ v[2] = u.identifier /\ v[3] = FingerprintText(f)
    OBVIOUS
<1>2. v[3].len = Len(f) /\ v[3].id = f
    BY <1>1 DEF FingerprintText
<1>3. PICK n \in 1..64 : n = Len(u.keyHash.id)
    BY DEF PrincipalUidValid, Length
<1>4. Len(f) = (8 * n + 5) \div 6
    BY <1>3 DEF IsFingerprintOf
<1>5. Len(f) # 0
    BY <1>4
<1>6. Splits(v)
    BY <1>1, <1>2, <1>5 DEF Splits, PrincipalUidValid, Length
<1>7. \A i \in 1..Len(f) : f[i] >= 0
    BY NotNegative
<1>8. IsFingerprint(f)
    BY <1>3, <1>7 DEF IsFingerprint, IsFingerprintOf
<1>. QED  BY <1>2, <1>6, <1>8 DEF NamesPrincipal

LEMMA AgainReadable ==
    ASSUME NEW s, NEW a, NEW f, NEW d, NEW t, Relists(s, a, f, d, t),
           NEW i \in 1..Len(t)
    PROVE  Readable(t[i])
<1>1. PICK p, q : Sizes(a, p, q, t)
    BY SizesOf
<1>2. p \in Nat /\ q \in Nat /\ Len(t) = p + q + 8
    BY <1>1 DEF Sizes
<1>3. PICK n \in Nat : n = p + q
    BY <1>2
<1>4. Len(t) = n + 8 /\ i \in 1..n + 8
    BY <1>2, <1>3
<1>5. /\ t[i].name = "version" <=> i = 1
      /\ t[i].name = "principalUid" <=> i = 3
      /\ t[i].name = "capability" <=> i \in 4 + 1..4 + p
      /\ t[i].name = "authorizationConstraint" <=> i \in 4 + p + 1..4 + p + q
      /\ t[i].name = "delegationAuthDer" <=> i = n + 8
    BY <1>1, <1>3, <1>4 DEF Sizes, NamesPlaced
<1>6. WellMade(a)
    BY SourceWellMade DEF Relists
<1>7. AIC_validate(a)
    BY <1>6 DEF WellMade
<1>8. ASSUME t[i].name = "principalUid" PROVE NamesPrincipal(t[i].value)
    <2>1. PICK u : u = a.principalUid
        OBVIOUS
    <2>2. PrincipalUidValid(u)
        BY <1>7, <2>1 DEF AIC_validate
    <2>3. u.keyHash.len = Len(u.keyHash.id)
        <3>1. u = [version |-> 1, realm |-> u.realm, identifier |-> u.identifier,
                   keyHash |-> [len |-> Len(u.keyHash.id), id |-> u.keyHash.id],
                   hashAlgo |-> "sha256"]
            BY <1>6, <2>1 DEF WellMade
        <3>2. u.keyHash = [len |-> Len(u.keyHash.id), id |-> u.keyHash.id]
            BY <3>1
        <3>. QED  BY <3>2
    <2>4. f \in Seq(0..63) /\ IsFingerprintOf(f, u.keyHash.id)
        BY <2>1 DEF Relists
    <2>5. PICK v : v = t[i].value
        OBVIOUS
    <2>6. t[3] = PrincipalLine(a, FingerprintText(f))
        BY DEF Relists, IsRelisting
    <2>7. v = <<u.realm, u.identifier, FingerprintText(f)>>
        BY <1>5, <1>8, <2>1, <2>5, <2>6 DEF PrincipalLine
    <2>8. NamesPrincipal(v)
        BY <2>2, <2>3, <2>4, <2>7, PrincipalNamed
    <2>. QED  BY <2>5, <2>8
<1>9. ASSUME t[i].name = "version" PROVE atol(Whole(t[i].value)) \in {0, 1, 2}
    <2>1. PICK x : x = num(ASN1_INTEGER_get(a.version))
        OBVIOUS
    <2>2. t[i].value = <<x>>
        BY <1>5, <1>9, <2>1 DEF Relists, IsRelisting, VersionLine
    <2>3. ASN1_INTEGER_get(a.version) \in {0, 1, 2}
        BY <1>7 DEF AIC_validate, VersionValid
    <2>4. x.id \in {0, 1, 2}
        BY <2>1, <2>3, DigitStays
    <2>. QED  BY <2>2, <2>4, WholeOfOne DEF atol
<1>10. ASSUME t[i].name = "delegationAuthDer" PROVE DelegationOf(t[i].value) # NULL
    <2>1. Last(a, 4) = n + 8
        BY <1>1, <1>3 DEF Sizes, Last
    <2>2. t[i] = d
        BY <1>5, <1>10, <2>1 DEF Relists, IsRelisting
    <2>3. a.delegationAuthorization # NULL
        BY <1>7 DEF AIC_validate, DelegationAuthValid
    <2>. QED  BY <2>2, <2>3 DEF Relists
<1>11. ASSUME t[i].name \in {"capability", "authorizationConstraint"}
       PROVE  ~HasParameters(t[i].value) \/ ~Prefixed(t[i].value)
    <2>1. PICK j \in 1..p + q : i = 4 + j
        <3>1. i - 4 \in 1..p + q /\ i = 4 + (i - 4)
            BY <1>2, <1>4, <1>5, <1>11
        <3>. QED  BY <3>1
    <2>2. ~HasParameters(t[4 + j].value) \/ ~Prefixed(t[4 + j].value)
        BY <1>1, LinesAgain
    <2>. QED  BY <2>1, <2>2
<1>. QED  BY <1>8, <1>9, <1>10, <1>11 DEF Readable

\* A list of what a section says, listed and read again.
ListedAgain(s, l, m) ==
    /\ IsSequence(m) /\ Len(m) = Len(l) /\ Len(l) \in Nat /\ m # NULL
    /\ \A k \in 1..Len(l) :
          /\ m[k] = AsListed(l[k]) /\ l[k] \in Said(s) /\ IsCap(l[k])
          /\ m[k].schemeId = l[k].schemeId
    /\ m = <<>> <=> l = <<>>

LEMMA ListAgain ==
    ASSUME NEW s \in Sections, NEW l \in Seq(Said(s)), AreCaps(l)
    PROVE  ListedAgain(s, l, AllAsListed(l))
<1>1. PICK n \in Nat : n = Len(l)
    OBVIOUS
<1>2. PICK m : m = AllAsListed(l)
    OBVIOUS
<1>3. m = [k \in 1..n |-> AsListed(l[k])]
    BY <1>1, <1>2 DEF AllAsListed
<1>4. \A k \in 1..n : l[k] \in Said(s) /\ IsCap(l[k])
    <2>. SUFFICES ASSUME NEW k \in 1..n PROVE l[k] \in Said(s) /\ IsCap(l[k])
        OBVIOUS
    <2>1. k \in 1..Len(l)
        BY <1>1
    <2>. QED  BY <2>1, ElementOf DEF AreCaps
<1>5. PICK C : C = {AsListed(c) : c \in Said(s)}
    OBVIOUS
<1>6. \A k \in 1..n : AsListed(l[k]) \in C
    BY <1>4, <1>5
<1>7. m \in Seq(C) /\ Len(m) = n
    BY <1>3, <1>6
<1>8. m \in Seq(Said(s) \cup C)
    BY <1>7
<1>9. m # NULL
    BY <1>5, <1>8, NullIsNoList
<1>10. \A k \in 1..n : m[k].schemeId = l[k].schemeId
    <2>. SUFFICES ASSUME NEW k \in 1..n PROVE m[k].schemeId = l[k].schemeId
        OBVIOUS
    <2>1. PICK c : c = l[k]
        OBVIOUS
    <2>2. c = [schemeId |-> c.schemeId, capabilityId |-> c.capabilityId,
               parameters |-> c.parameters]
        BY <1>4, <2>1 DEF Said, CapabilityOf
    <2>3. m[k] = AsListed(c)
        BY <1>3, <2>1
    <2>4. AsListed(c).schemeId = c.schemeId
        BY <2>2 DEF AsListed
    <2>. QED  BY <2>1, <2>3, <2>4
<1>11. IsSequence(m) /\ IsSequence(l)
    BY <1>7 DEF IsSequence
<1>12. m = <<>> <=> l = <<>>
    <2>1. m = <<>> <=> n = 0
        BY <1>7, <1>11, EmptySequence, SequencesEqual
    <2>2. l = <<>> <=> n = 0
        BY <1>1, <1>11, EmptySequence, SequencesEqual
    <2>. QED  BY <2>1, <2>2
<1>. QED
    BY <1>1, <1>2, <1>3, <1>4, <1>7, <1>9, <1>10, <1>11, <1>12 DEF ListedAgain

LEMMA ListsAgain ==
    ASSUME NEW s \in Sections, NEW a, Source(s, a)
    PROVE  /\ ListedAgain(s, a.capabilities, AllAsListed(a.capabilities))
           /\ a.authorizationConstraints # NULL =>
                 ListedAgain(s, a.authorizationConstraints,
                             AllAsListed(a.authorizationConstraints))
<1>1. ListedAgain(s, a.capabilities, AllAsListed(a.capabilities))
    BY ListAgain DEF Source, IsListable
<1>2. ASSUME a.authorizationConstraints # NULL
      PROVE  ListedAgain(s, a.authorizationConstraints,
                         AllAsListed(a.authorizationConstraints))
    <2>1. AreCaps(a.authorizationConstraints) /\ a.authorizationConstraints \in Seq(Said(s))
        BY <1>2 DEF Source, IsListable, Entries
    <2>. QED  BY <2>1, ListAgain
<1>. QED  BY <1>1, <1>2

\* Neither the schemes nor the numbers change.
LEMMA AgainValid ==
    ASSUME NEW s \in Sections, NEW a, Source(s, a), AgainOf(a) # NULL
    PROVE  AIC_validate(AgainOf(a))
<1>1. AIC_validate(a)
    BY DEF Source
<1>2. PICK r : r = AgainOf(a)
    OBVIOUS
<1>3. /\ r.version = a.version /\ r.agentId = a.agentId
      /\ r.principalUid = a.principalUid
      /\ r.delegationAuthorization = a.delegationAuthorization
      /\ r.capabilities = AllAsListed(a.capabilities)
      /\ r.authorizationConstraints = IF a.authorizationConstraints = NULL THEN NULL
                                      ELSE AllAsListed(a.authorizationConstraints)
    BY <1>2 DEF AgainOf
<1>4. /\ r # NULL /\ VersionValid(r) /\ r.agentId.len # 0
      /\ PrincipalUidValid(r.principalUid)
      /\ DelegationAuthValid(r.delegationAuthorization)
    BY <1>1, <1>2, <1>3 DEF AIC_validate, VersionValid
<1>5. PICK l, m : l = a.capabilities /\ m = r.capabilities
    OBVIOUS
<1>6. ListedAgain(s, l, m)
    BY <1>3, <1>5, ListsAgain
<1>7. PICK e, h : /\ e = Entries(a.authorizationConstraints)
                  /\ h = Entries(r.authorizationConstraints)
    OBVIOUS
<1>8. /\ Len(h) = Len(e) /\ (h = <<>> <=> e = <<>>)
      /\ \A k \in 1..Len(e) : h[k].schemeId = e[k].schemeId
    <2>1. CASE a.authorizationConstraints = NULL
        BY <1>3, <1>7, <2>1 DEF Entries
    <2>2. CASE a.authorizationConstraints # NULL
        <3>1. ListedAgain(s, a.authorizationConstraints,
                          AllAsListed(a.authorizationConstraints))
            BY <2>2, ListsAgain
        <3>2. AllAsListed(a.authorizationConstraints) # NULL
            BY <3>1 DEF ListedAgain
        <3>3. e = a.authorizationConstraints /\ h = AllAsListed(e)
            BY <1>3, <1>7, <2>2, <3>2 DEF Entries
        <3>4. ListedAgain(s, e, h)
            BY <3>1, <3>3
        <3>. QED  BY <3>4 DEF ListedAgain
    <2>. QED  BY <2>1, <2>2
<1>9. /\ Len(m) = Len(l) /\ (m = <<>> <=> l = <<>>)
      /\ \A k \in 1..Len(l) : m[k].schemeId = l[k].schemeId
    BY <1>6 DEF ListedAgain
<1>10. /\ Len(l) <= MaxCapabilities /\ Len(e) <= MaxConstraints
       /\ \A k \in 1..Len(e) : IsConstraint(e[k])
       /\ \A k \in 1..Len(l) : IsPlain(l[k])
       /\ l # <<>> \/ e # <<>>
    BY <1>1, <1>5, <1>7 DEF AIC_validate, CapabilitiesValid, Every
<1>11. /\ Len(m) <= MaxCapabilities /\ Len(h) <= MaxConstraints
       /\ \A k \in 1..Len(h) : IsConstraint(h[k])
       /\ \A k \in 1..Len(m) : IsPlain(m[k])
       /\ m # <<>> \/ h # <<>>
    BY <1>8, <1>9, <1>10 DEF IsConstraint, IsPlain
<1>12. CapabilitiesValid(r)
    BY <1>5, <1>7, <1>11 DEF CapabilitiesValid, Every
<1>. QED  BY <1>2, <1>4, <1>12 DEF AIC_validate

\* Only parameters are read as what they were not.
LEMMA CapabilityStays ==
    ASSUME NEW s \in Sections, NEW c \in Said(s), IsCap(c)
    PROVE  AsListed(c) = c <=> c.parameters = NULL
<1>1. c = [schemeId |-> c.schemeId, capabilityId |-> c.capabilityId,
           parameters |-> c.parameters]
    BY DEF Said, CapabilityOf
<1>2. CASE c.parameters = NULL
    <2>1. AsListed(c) = [schemeId |-> c.schemeId, capabilityId |-> c.capabilityId,
                         parameters |-> NULL]
        BY <1>1, <1>2 DEF AsListed
    <2>. QED  BY <1>1, <1>2, <2>1
<1>3. CASE c.parameters # NULL
    <2>1. PICK n \in Nat : n = c.parameters.len
        BY <1>3 DEF IsCap
    <2>2. PICK p : p = [len |-> 2 * n, id |-> HexText[c.parameters.id]]
        OBVIOUS
    <2>3. AsListed(c).parameters = IF n = 0 THEN NULL ELSE p
        BY <1>1, <1>3, <2>1, <2>2 DEF AsListed
    <2>4. n # 0 => p # c.parameters
        <3>1. p.len = 2 * n
            BY <2>2
        <3>. QED  BY <2>1, <3>1
    <2>. QED  BY <1>3, <2>3, <2>4
<1>. QED  BY <1>2, <1>3

NoneHas(l) == \A k \in 1..Len(l) : l[k].parameters = NULL

LEMMA ListStays ==
    ASSUME NEW s \in Sections, NEW l, AreCaps(l), NEW m, ListedAgain(s, l, m)
    PROVE  m = l <=> NoneHas(l)
<1>1. \A k \in 1..Len(l) : m[k] = l[k] <=> l[k].parameters = NULL
    <2>. SUFFICES ASSUME NEW k \in 1..Len(l) PROVE m[k] = l[k] <=> l[k].parameters = NULL
        OBVIOUS
    <2>1. PICK c : c = l[k]
        OBVIOUS
    <2>2. m[k] = AsListed(c) /\ c \in Said(s) /\ IsCap(c)
        BY <2>1 DEF ListedAgain
    <2>3. AsListed(c) = c <=> c.parameters = NULL
        BY <2>2, CapabilityStays
    <2>. QED  BY <2>1, <2>2, <2>3
<1>2. IsSequence(m) /\ IsSequence(l) /\ Len(m) = Len(l)
    BY DEF ListedAgain, AreCaps
<1>3. (\A k \in 1..Len(l) : m[k] = l[k]) => m = l
    BY <1>2, SequencesEqual
<1>. QED  BY <1>1, <1>3 DEF NoneHas

LEMMA ParametersOfBoth ==
    ASSUME NEW a
    PROVE  NoParameters(a) <=>
              NoneHas(a.capabilities) /\ NoneHas(Entries(a.authorizationConstraints))
BY DEF NoParameters, NoneHas

LEMMA AgainSame ==
    ASSUME NEW s \in Sections, NEW a, Source(s, a)
    PROVE  AgainOf(a) = a <=> NoParameters(a)
<1>1. PICK l, e : l = a.capabilities /\ e = a.authorizationConstraints
    OBVIOUS
<1>2. AreCaps(l) /\ AreCaps(Entries(e))
    BY <1>1 DEF Source, IsListable
<1>3. AllAsListed(l) = l <=> NoneHas(l)
    <2>1. ListedAgain(s, l, AllAsListed(l))
        BY <1>1, ListsAgain
    <2>. QED  BY <1>2, <2>1, ListStays
<1>4. (IF e = NULL THEN NULL ELSE AllAsListed(e)) = e <=> NoneHas(Entries(e))
    <2>1. CASE e = NULL
        <3>1. NoneHas(Entries(e))
            BY <2>1, EmptySequence DEF NoneHas, Entries
        <3>. QED  BY <2>1, <3>1
    <2>2. CASE e # NULL
        <3>1. Entries(e) = e /\ AreCaps(e)
            BY <1>2, <2>2 DEF Entries
        <3>2. ListedAgain(s, e, AllAsListed(e))
            BY <1>1, <2>2, ListsAgain
        <3>3. AllAsListed(e) = e <=> NoneHas(e)
            BY <3>1, <3>2, ListStays
        <3>. QED  BY <2>2, <3>1, <3>3
    <2>. QED  BY <2>1, <2>2
<1>5. a = [version |-> a.version, agentId |-> a.agentId, principalUid |-> a.principalUid,
           capabilities |-> l, delegationMode |-> a.delegationMode,
           authorizationConstraints |-> e,
           delegationAuthorization |-> a.delegationAuthorization]
    BY <1>1, SourceWellMade DEF WellMade
<1>6. PICK m, h : m = AllAsListed(l) /\ h = IF e = NULL THEN NULL ELSE AllAsListed(e)
    OBVIOUS
<1>7. AgainOf(a) =
          [version |-> a.version, agentId |-> a.agentId, principalUid |-> a.principalUid,
           capabilities |-> m, delegationMode |-> a.delegationMode,
           authorizationConstraints |-> h,
           delegationAuthorization |-> a.delegationAuthorization]
    BY <1>1, <1>6 DEF AgainOf
<1>8. AgainOf(a) = a <=> m = l /\ h = e
    <2>1. ASSUME m = l /\ h = e PROVE AgainOf(a) = a
        BY <1>5, <1>7, <2>1
    <2>2. ASSUME AgainOf(a) = a PROVE m = l /\ h = e
        <3>1. AgainOf(a).capabilities = m /\ AgainOf(a).authorizationConstraints = h
            BY <1>7
        <3>. QED  BY <1>1, <2>2, <3>1
    <2>. QED  BY <2>1, <2>2
<1>9. NoParameters(a) <=> NoneHas(l) /\ NoneHas(Entries(e))
    BY <1>1, ParametersOfBoth
<1>. QED  BY <1>3, <1>4, <1>6, <1>8, <1>9

LEMMA ReadAgainIs ==
    ASSUME Relisted
    PROVE  Reading = AgainOf(origin) /\ (AgainOf(origin) = origin <=> NoParameters(origin))
<1>1. PICK a, t : a = origin /\ t = section
    OBVIOUS
<1>2. PICK s \in Sections, f \in Seq(0..63), k \in Nat :
         /\ Source(s, a) /\ IsLastDer(s, k)
         /\ t = Append(Listing(a, FingerprintText(f)), s[k])
         /\ IsFingerprintOf(f, a.principalUid.keyHash.id)
    BY <1>1 DEF Relisted, KeyHash
<1>3. IsListable(a) /\ a.delegationAuthorization # NULL
    BY <1>2 DEF Source, AIC_validate, DelegationAuthValid
<1>4. PICK d : d = s[k]
    OBVIOUS
<1>5. IsRelisting(t, a, f, d)
    BY <1>2, <1>3, <1>4, RelistingMade
<1>6. d.name = "delegationAuthDer" /\ DelegationOf(d.value) = a.delegationAuthorization
    BY <1>2, <1>4, LastDerCounts DEF IsLastDer
<1>7. Relists(s, a, f, d, t)
    BY <1>2, <1>5, <1>6 DEF Relists
<1>8. Described(t, Len(t)) = AgainOf(a)
    BY <1>7, AgainDescribed
<1>9. \A i \in 1..Len(t) : Readable(t[i])
    BY <1>7, AgainReadable
<1>10. AgainOf(a) = NULL \/ AIC_validate(AgainOf(a))
    BY <1>2, AgainValid
<1>11. Reading = AgainOf(a)
    BY <1>1, <1>8, <1>9, <1>10 DEF Reading, AllDescribed
<1>12. AgainOf(a) = a <=> NoParameters(a)
    BY <1>2, AgainSame
<1>. QED  BY <1>1, <1>11, <1>12

\* Whatever section an AIC without parameters was made from, listing it and
\* reading the lines again, with its delegation, makes the same AIC.
THEOREM ListingReadsBack == Spec => []ReadsBack
<1>1. ReadInv => ReadsBack
    <2>. SUFFICES ASSUME ReadInv, Returned({"listed"}), ~starved, NoParameters(origin)
                  PROVE  result = origin
        BY DEF ReadsBack
    <2>1. Relisted /\ result = Reading
        BY DEF ReadInv, Returned
    <2>2. Reading = AgainOf(origin) /\ (AgainOf(origin) = origin <=> NoParameters(origin))
        BY <2>1, ReadAgainIs
    <2>. QED  BY <2>1, <2>2
<1>. QED
    BY <1>1, InitInv, NextInv, InitList, NextList, InitRead, NextRead, PTL DEF Spec
=============================================================================
