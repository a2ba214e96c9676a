--------------------------- MODULE PrincipalUidText ---------------------------
(***************************************************************************)
(* src/v3_aic.c: AIC_principalUid_from_string and                          *)
(* AIC_principalUid_to_string, with the base64url codec under them, one    *)
(* character or group of bytes at a time.                                  *)
(*                                                                         *)
(* The string realm:identifier:fingerprint is the sequence of its parts,   *)
(* split at the first two colons; a string with fewer colons has fewer     *)
(* parts.  The id of a fingerprint is the sequence of its characters, each *)
(* by the value b64url_val gives it (-1 for a character outside of the     *)
(* alphabet), the id of a key hash the sequence of its bytes.              *)
(***************************************************************************)
EXTENDS AicTemplates, Ownership

VARIABLES
    codec,   \* where the call is
    string,  \* the string that is read, or that was written
    uid,     \* the AIC_PRINCIPALUID that is written, or that was read, or NULL
    pos,     \* the loop index: the characters or bytes consumed
    acc,     \* the bits collected, as the int they are in
    bits,    \* how many of them are not yet written
    built,   \* the bytes or the characters written so far
    room     \* the size of the buffer they are written to

codecVars == <<codec, string, uid, pos, acc, bits, built, room>>

\* An int has 16 bits at least, in two's complement.
ASSUME IntHasSixteenBits == IntMax >= 32767 /\ (IntMax + 1) % 32768 = 0

CodecInit ==
    /\ codec = "idle"
    /\ string = <<>>
    /\ uid = NULL
    /\ pos = 0
    /\ acc = 0
    /\ bits = 0
    /\ built = <<>>
    /\ room = 0

Characters == string[3].id
Bytes == uid.keyHash.id

Goto(place) == codec' = place

\* The loop starts over an empty buffer of size bytes.
NewBuffer(size) ==
    /\ room' = size
    /\ built' = <<>>
    /\ pos' = 0
    /\ acc' = 0
    /\ bits' = 0

KeepLoop == UNCHANGED <<pos, acc, bits, built, room>>

-----------------------------------------------------------------------------
(***************************************************************************)
(* Reading                                                                 *)
(***************************************************************************)

\* What the string must look like before anything is allocated.
Splits(s) ==
    /\ Len(s) = 3
    /\ Length(s[1], 1, 128)
    /\ Length(s[2], 1, 256)
    /\ s[3].len # 0

\* AIC_principalUid_from_string(s) is called.
FromString(s) ==
    /\ string' = s
    /\ uid' = NULL
    /\ Goto(IF Splits(s) THEN "read" ELSE "answered")
    /\ KeepLoop

\* (mutant: a third byte of the last group is not counted)
RoundedDown(n) == (n \div 4) * 3
DecodedRoom(n) == (n \div 4) * 3 + 3

NewDecoded ==
    /\ codec = "read"
    /\ NewBuffer(DecodedRoom(Len(Characters)))
    /\ Goto("decode")
    /\ Allocates("fp")
    /\ UNCHANGED <<string, uid>>

\* err: whatever fp points to is freed, and NULL is returned.
Err ==
    /\ codec = "err"
    /\ Frees({"fp"}, {"fp", "pu"})
    /\ uid' = NULL
    /\ Goto("answered")
    /\ UNCHANGED <<string, starved>>
    /\ KeepLoop

\* An allocation failed, and what was allocated before is left to err.
StarvesToErr ==
    /\ Starves
    /\ Goto("err")
    /\ UNCHANGED <<string, uid, held, pointers, freedTwice>>
    /\ KeepLoop

NewDecodedFails == codec = "read" /\ StarvesToErr

Decoding == codec = "decode" /\ pos < Len(Characters)

\* The bits of a non-negative number from bit n on, m of them.
Field(v, n, m) == (v \div 2^n) % 2^m

\* (acc << 6) | v, in an int that keeps its low bits.  (mutant: in a byte)
ShiftedByte(v) == (64 * acc + v) % 256
Shifted(v) == (64 * acc + v) % (2 * (IntMax + 1))

\* A byte is written as soon as there are eight bits for it.  (mutant: its
\* bits are not taken off)
BitsKept == bits + 6
BitsLeft == IF bits + 6 >= 8 THEN bits - 2 ELSE bits + 6

DecodeChar ==
    /\ Decoding
    /\ Characters[pos + 1] >= 0
    /\ pos' = pos + 1
    /\ acc' = Shifted(Characters[pos + 1])
    /\ bits' = BitsLeft
    /\ built' = IF bits + 6 >= 8 THEN Append(built, Field(acc', bits - 2, 8))
                ELSE built
    /\ UNCHANGED <<codec, string, uid, room, ownershipVars>>

\* The pointer that b64url_decode does not return when it refuses.  (mutant:
\* it returns the buffer it has freed)
NotReturnedNone == {}
NotReturned == {"fp"}

\* b64url_decode frees its buffer and returns NULL.
Refuse ==
    /\ Frees({"fp"}, NotReturned)
    /\ Goto("err")
    /\ UNCHANGED <<string, uid, starved>>
    /\ KeepLoop

BadChar == Decoding /\ Characters[pos + 1] < 0 /\ Refuse

\* The bits behind the last byte.  (mutant: they may be anything)
AnyPadding == TRUE
PaddingIsZero == bits > 0 => Field(acc, 0, bits) = 0

DecodeEnds ==
    /\ codec = "decode"
    /\ pos = Len(Characters)
    /\ IF PaddingIsZero
       THEN /\ Goto(IF Len(built) \in 1..64 THEN "decoded" ELSE "err")
            /\ UNCHANGED <<string, uid, ownershipVars>>
            /\ KeepLoop
       ELSE Refuse

NewUid ==
    /\ codec = "decoded"
    /\ Allocates("pu")
    /\ Goto("filling")
    /\ UNCHANGED <<string, uid>>
    /\ KeepLoop

NewUidFails == codec = "decoded" /\ StarvesToErr

\* Version, realm, identifier and hash are set, and the decoded hash, which
\* was copied, is freed.
FillUid ==
    /\ codec = "filling"
    /\ uid' = [AIC_PRINCIPALUID_new EXCEPT
                  !.version = 1, !.realm = string[1], !.identifier = string[2],
                  !.keyHash = [len |-> Len(built), id |-> built]]
    /\ Frees({"fp"}, {})
    /\ Goto("filled")
    /\ UNCHANGED <<string, starved>>
    /\ KeepLoop

\* One of the four fields could not be set.
FillUidFails ==
    /\ codec = "filling"
    /\ Starves
    /\ Frees({"pu", "fp"}, {"pu", "fp"})
    /\ Goto("answered")
    /\ UNCHANGED <<string, uid>>
    /\ KeepLoop

SetHashAlgo ==
    /\ codec = "filled"
    /\ uid' = [uid EXCEPT !.hashAlgo = "sha256"]
    /\ Frees({}, {"fp"})
    /\ Goto("answered")
    /\ UNCHANGED <<string, starved>>
    /\ KeepLoop

\* X509_ALGOR_new returns NULL: err frees the decoded hash once more, and
\* nothing frees the principal.
SetHashAlgoFails == codec = "filled" /\ StarvesToErr

-----------------------------------------------------------------------------
(***************************************************************************)
(* Writing                                                                 *)
(***************************************************************************)

\* AIC_principalUid_to_string(u) is called.
ToText(u) ==
    /\ uid' = u
    /\ string' = <<>>
    /\ Goto("write")
    /\ KeepLoop

\* b64url_encoded_len.  (mutant: three characters for a last byte or two)
EncodedLenShort(n) == (n \div 3) * 4 + (n % 3)
EncodedLen(n) == ((n + 2) \div 3) * 4

NewEncoded ==
    /\ codec = "write"
    /\ NewBuffer(EncodedLen(Len(Bytes)) + 1)
    /\ Goto("encode")
    /\ Allocates("fp")
    /\ UNCHANGED <<string, uid>>

WriteFails ==
    /\ Starves
    /\ Frees({"fp"}, {"fp"})
    /\ Goto("answered")
    /\ UNCHANGED <<string, uid>>
    /\ KeepLoop

NewEncodedFails == codec = "write" /\ WriteFails

\* The first n of the four six-bit groups of a 24-bit number.  (mutant: from
\* the low end)
SextetsFromLow(v, n) == [k \in 1..n |-> Field(v, 6 * (k - 1), 6)]
Sextets(v, n) == [k \in 1..n |-> Field(v, 24 - 6 * k, 6)]

\* Three bytes become four characters.
EncodeGroup ==
    /\ codec = "encode"
    /\ pos + 2 < Len(Bytes)
    /\ LET v == Bytes[pos + 1] * 65536 + Bytes[pos + 2] * 256 + Bytes[pos + 3]
       IN  built' = built \o Sextets(v, 4)
    /\ pos' = pos + 3
    /\ UNCHANGED <<codec, string, uid, acc, bits, room, ownershipVars>>

\* The one or two bytes left become two or three characters.
LastSextets ==
    CASE Len(Bytes) % 3 = 0 -> <<>>
      [] Len(Bytes) % 3 = 1 -> Sextets(Bytes[pos + 1] * 65536, 2)
      [] Len(Bytes) % 3 = 2 ->
            Sextets(Bytes[pos + 1] * 65536 + Bytes[pos + 2] * 256, 3)

EncodeEnds ==
    /\ codec = "encode"
    /\ pos + 2 >= Len(Bytes)
    /\ built' = built \o LastSextets
    /\ Goto("encoded")
    /\ UNCHANGED <<string, uid, pos, acc, bits, room, ownershipVars>>

\* The three parts are copied into the buffer that is returned.
Join ==
    /\ codec = "encoded"
    /\ string' = <<uid.realm, uid.identifier,
                   [len |-> Len(built), id |-> built]>>
    /\ HandsOver("fp", {"text"})
    /\ Goto("answered")
    /\ UNCHANGED uid
    /\ KeepLoop

JoinFails == codec = "encoded" /\ WriteFails

-----------------------------------------------------------------------------

CodecFails ==
    \/ NewDecodedFails \/ NewUidFails \/ FillUidFails \/ SetHashAlgoFails
    \/ NewEncodedFails \/ JoinFails

CodecStep ==
    \/ NewDecoded \/ DecodeChar \/ BadChar \/ DecodeEnds
    \/ NewUid \/ FillUid \/ SetHashAlgo \/ Err
    \/ NewEncoded \/ EncodeGroup \/ EncodeEnds \/ Join
    \/ CodecFails

-----------------------------------------------------------------------------
(***************************************************************************)
(* What a fingerprint stands for, as one string of bits                    *)
(***************************************************************************)

\* Bit k, counted from 1, of characters of six bits.
BitOf(characters, k) ==
    Field(characters[1 + ((k - 1) \div 6)], 5 - ((k - 1) % 6), 1)

ByteOf(characters, k) ==
    LET Bit(i) == BitOf(characters, 8 * (k - 1) + i)
    IN  128 * Bit(1) + 64 * Bit(2) + 32 * Bit(3) + 16 * Bit(4)
          + 8 * Bit(5) + 4 * Bit(6) + 2 * Bit(7) + Bit(8)

\* The bytes that the characters spell, and the bits that fill no byte.
Spelled(characters) ==
    [k \in 1..(6 * Len(characters)) \div 8 |-> ByteOf(characters, k)]
LeftOver(characters) ==
    {BitOf(characters, k) : k \in 8 * Len(Spelled(characters)) + 1
                                   ..6 * Len(characters)}

IsFingerprint(characters) ==
    /\ \A i \in 1..Len(characters) : characters[i] >= 0
    /\ LeftOver(characters) \subseteq {0}
    /\ Len(Spelled(characters)) \in 1..64

\* A string that names a principal, and the principal.
NamesPrincipal(s) == Splits(s) /\ IsFingerprint(s[3].id)
UidOf(s) ==
    [version |-> 1, realm |-> s[1], identifier |-> s[2],
     keyHash |-> [len |-> Len(Spelled(s[3].id)), id |-> Spelled(s[3].id)],
     hashAlgo |-> "sha256"]

\* Nothing is written behind the end of a buffer; the string that is written
\* has a terminating NUL.
CodecFits ==
    /\ codec \in {"decode", "decoded", "filling"} => Len(built) <= room
    /\ codec \in {"encode", "encoded"} => Len(built) + 1 <= room
=============================================================================
