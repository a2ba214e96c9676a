------------------------------ MODULE JsonString ------------------------------
(***************************************************************************)
(* parse_string of src/lib/cjson/cJSON.c, one loop iteration a step.       *)
(*                                                                         *)
(* `lit' is what follows the opening quote, up to the end of the input or  *)
(* to a place beyond the closing quote.  A first loop looks for the        *)
(* closing quote and counts the escapes, the output is allocated for what  *)
(* it counted, and a second loop decodes.  The loops do not always agree   *)
(* on where an escape begins: the second takes the four characters after   *)
(* \u as they come, a backslash among them included.  Places are           *)
(* one-based, so that `end' is also the distance from the opening quote    *)
(* to the closing one.                                                     *)
(***************************************************************************)
EXTENDS JsonHeap

VARIABLES
    phase,    \* "idle", "scan", "copy", "parsed" or "failed"
    lit,      \* the input behind the opening quote, as bytes
    end,      \* input_end
    skipped,  \* skipped_bytes
    in,       \* input_pointer
    out,      \* what lies between output and output_pointer
    output    \* the block `output', or Null

stringVars == <<phase, lit, end, skipped, in, out, output>>

Quote == 34
Backslash == 92
LetterU == 117

StringInit ==
    /\ phase = "idle"
    /\ lit = <<>>
    /\ end = 1
    /\ skipped = 0
    /\ in = 1
    /\ out = <<>>
    /\ output = Null

\* parse_string is not running; its variables are forgotten.
StringIdle ==
    /\ phase' = "idle"
    /\ lit' = <<>>
    /\ end' = 1
    /\ skipped' = 0
    /\ in' = 1
    /\ out' = <<>>
    /\ output' = Null

BeginString(literal) ==
    /\ phase' = "scan"
    /\ lit' = literal
    /\ end' = 1
    /\ skipped' = 0
    /\ in' = 1
    /\ out' = <<>>
    /\ output' = Null

-----------------------------------------------------------------------------
(***************************************************************************)
(* The first loop                                                          *)
(***************************************************************************)

Scan ==
    /\ phase = "scan"
    /\ end <= Len(lit)
    /\ lit[end] \notin {Quote, Backslash}
    /\ end' = end + 1
    /\ UNCHANGED <<phase, lit, skipped, in, out, output, heapVars>>

\* What an escape saves of the allocation: one byte, though some save more
\* (mutant: all that a \u escape of an ASCII character saves).
EscapeSavesAll == IF lit[end + 1] = LetterU THEN 5 ELSE 1
EscapeSaves == 1

ScanEscape ==
    /\ phase = "scan"
    /\ end < Len(lit)
    /\ lit[end] = Backslash
    /\ end' = end + 2
    /\ skipped' = skipped + EscapeSaves
    /\ UNCHANGED <<phase, lit, in, out, output, heapVars>>

\* The input ends before the string does, or with a lone backslash.
Unterminated ==
    /\ phase = "scan"
    /\ \/ end > Len(lit)
       \/ end = Len(lit) /\ lit[end] = Backslash
    /\ phase' = "failed"
    /\ UNCHANGED <<lit, end, skipped, in, out, output, heapVars>>

\* allocation_length, without the terminating zero.
Allocated == end - skipped

AtQuote == phase = "scan" /\ end <= Len(lit) /\ lit[end] = Quote

AllocateOutput ==
    /\ AtQuote
    /\ phase' = "copy"
    /\ output' = Fresh
    /\ heap' = With(Fresh, Bytes(<<>>))
    /\ UNCHANGED <<lit, end, skipped, in, out, starved>>

OutputFails ==
    /\ AtQuote
    /\ phase' = "failed"
    /\ starved' = TRUE
    /\ UNCHANGED <<lit, end, skipped, in, out, output, heap>>

-----------------------------------------------------------------------------
(***************************************************************************)
(* UTF-16 escapes                                                          *)
(***************************************************************************)

HexDigit(c) ==
    CASE c \in 48..57 -> c - 48
      [] c \in 65..70 -> c - 55
      [] c \in 97..102 -> c - 87

IsHex(c) == c \in 48..57 \cup 65..70 \cup 97..102

\* Four digits that are not all hexadecimal read as 0.
parse_hex4(i) ==
    IF \A k \in 0..3 : IsHex(lit[i + k])
    THEN 4096 * HexDigit(lit[i]) + 256 * HexDigit(lit[i + 1])
            + 16 * HexDigit(lit[i + 2]) + HexDigit(lit[i + 3])
    ELSE 0

Unit(i) == parse_hex4(i + 2)
HighSurrogate(unit) == unit \in 55296..56319
LowSurrogate(unit) == unit \in 56320..57343

Single(i) ==
    /\ end - i >= 6
    /\ ~HighSurrogate(Unit(i))
    /\ ~LowSurrogate(Unit(i))

Pair(i) ==
    /\ end - i >= 12
    /\ HighSurrogate(Unit(i))
    /\ lit[i + 6] = Backslash
    /\ lit[i + 7] = LetterU
    /\ LowSurrogate(Unit(i + 6))

Trailing(codepoint) == 128 + (codepoint % 64)

Utf8(codepoint) ==
    CASE codepoint < 128 -> <<codepoint>>
      [] codepoint >= 128 /\ codepoint < 2048 ->
            <<192 + codepoint \div 64, Trailing(codepoint)>>
      [] codepoint >= 2048 /\ codepoint < 65536 ->
            <<224 + codepoint \div 4096, Trailing(codepoint \div 64),
              Trailing(codepoint)>>
      [] codepoint >= 65536 ->
            <<240 + codepoint \div 262144, Trailing(codepoint \div 4096),
              Trailing(codepoint \div 64), Trailing(codepoint)>>

CodePointOfPair(i) ==
    65536 + 1024 * (Unit(i) % 1024) + (Unit(i + 6) % 1024)

-----------------------------------------------------------------------------
(***************************************************************************)
(* The second loop                                                         *)
(***************************************************************************)

\* The character that \b, \f, \n, \r, \t and a quoted ", \ or / stand for.
Unescaped(c) ==
    CASE c = 98 -> 8
      [] c = 102 -> 12
      [] c = 110 -> 10
      [] c = 114 -> 13
      [] c = 116 -> 9
      [] c \in {34, 92, 47} -> c

SimpleEscapes == {98, 102, 110, 114, 116, 34, 92, 47}

Take(taken, bytes) ==
    /\ in' = in + taken
    /\ out' = out \o bytes
    /\ UNCHANGED <<phase, lit, end, skipped, output, heapVars>>

InCopy == phase = "copy" /\ in < end
AtEscape == InCopy /\ lit[in] = Backslash
AtUnicode == AtEscape /\ lit[in + 1] = LetterU

CopyPlain == InCopy /\ lit[in] # Backslash /\ Take(1, <<lit[in]>>)

CopyEscape ==
    /\ AtEscape
    /\ lit[in + 1] \in SimpleEscapes
    /\ Take(2, <<Unescaped(lit[in + 1])>>)

CopySingle == AtUnicode /\ Single(in) /\ Take(6, Utf8(Unit(in)))

CopyPair == AtUnicode /\ Pair(in) /\ Take(12, Utf8(CodePointOfPair(in)))

\* An unknown escape, or a \u that does not convert: the output is freed.
CopyFails ==
    /\ AtEscape
    /\ lit[in + 1] \notin SimpleEscapes
    /\ lit[in + 1] = LetterU => ~Single(in) /\ ~Pair(in)
    /\ phase' = "failed"
    /\ heap' = Without({output})
    /\ output' = Null
    /\ UNCHANGED <<lit, end, skipped, in, out, starved>>

CopyEnds ==
    /\ phase = "copy"
    /\ in >= end
    /\ phase' = "parsed"
    /\ heap' = With(output, Bytes(out))
    /\ UNCHANGED <<lit, end, skipped, in, out, output, starved>>

StringStep ==
    \/ Scan \/ ScanEscape \/ Unterminated
    \/ AllocateOutput \/ OutputFails
    \/ CopyPlain \/ CopyEscape \/ CopySingle \/ CopyPair \/ CopyFails
    \/ CopyEnds

-----------------------------------------------------------------------------
\* The decoded string never outgrows the block allocated for it (one byte
\* more than Allocated, for the terminating zero), though the two loops may
\* disagree on where the escapes begin; and the second loop reads nothing
\* behind the closing quote.
StringFits ==
    phase \in {"copy", "parsed"} =>
        /\ Len(out) <= Allocated
        /\ in <= end + 1
=============================================================================
