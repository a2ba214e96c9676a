------------------------------ MODULE JsonPrinter ------------------------------
(***************************************************************************)
(* print of src/lib/cjson/cJSON.c, which renders a tree of items into a    *)
(* buffer that grows with realloc.                                         *)
(*                                                                         *)
(* What is printed is a sequence of the tokens of JsonParser.  Each piece  *)
(* of output asks `ensure' for some bytes and then writes some; some       *)
(* pieces move printbuffer.offset themselves, others leave that to a later *)
(* update_offset, which looks for the terminating zero.                    *)
(***************************************************************************)
EXTENDS JsonHeap

CONSTANTS
    DefaultSize,  \* default_buffer_size (256)
    PrintMax      \* INT_MAX, the longest buffer

ASSUME PrinterConstants ==
    /\ DefaultSize \in Nat \ {0}
    /\ PrintMax \in Nat
    /\ DefaultSize <= PrintMax

VARIABLES
    printer,   \* where the printer is: "idle", "value", "each", ...
    format,    \* printbuffer.format
    walk,      \* the containers being printed, outermost first
    printing,  \* the item that print_value is called with
    buffer,    \* the block printbuffer.buffer, or Null
    length,    \* printbuffer.length
    position,  \* printbuffer.offset
    pending,   \* bytes that lie behind position, up to a terminating zero
    ended,     \* whether a terminating zero follows them
    reach,     \* one more than the last byte that was written
    pieces     \* what was written, with the place of each piece

bufferVars == <<buffer, length, position, pending, ended, reach, pieces>>
printerVars == <<printer, format, walk, printing, bufferVars>>

Forgotten ==
    /\ format' = FALSE
    /\ walk' = <<>>
    /\ printing' = Null
    /\ length' = 0
    /\ position' = 0
    /\ pending' = 0
    /\ ended' = FALSE
    /\ reach' = 0

PrinterInit ==
    /\ printer = "idle"
    /\ format = FALSE
    /\ walk = <<>>
    /\ printing = Null
    /\ buffer = Null
    /\ length = 0
    /\ position = 0
    /\ pending = 0
    /\ ended = FALSE
    /\ reach = 0
    /\ pieces = <<>>

-----------------------------------------------------------------------------
(***************************************************************************)
(* Sums and concatenations, as recursive functions of one number           *)
(***************************************************************************)

Sum(numbers) ==
    LET S[n \in 0..Len(numbers)] ==
            IF n = 0 THEN 0 ELSE S[n - 1] + numbers[n]
    IN  S[Len(numbers)]

Joined(parts) ==
    LET J[n \in 0..Len(parts)] ==
            IF n = 0 THEN <<>> ELSE J[n - 1] \o parts[n]
    IN  J[Len(parts)]

-----------------------------------------------------------------------------
(***************************************************************************)
(* Strings: print_string_ptr                                               *)
(***************************************************************************)

\* A C string ends at its first zero.
CString(bytes) ==
    LET zeros == {i \in 1..Len(bytes) : bytes[i] = 0}
    IN  IF zeros = {} THEN bytes
        ELSE SubSeq(bytes, 1, (CHOOSE i \in zeros : \A j \in zeros : i <= j) - 1)

\* What the first loop adds for a character, and what the second writes.
\* (mutant: as if every escape had two characters)
ShortEscapes(c) == IF c \in {34, 92} \/ c < 32 THEN 1 ELSE 0
EscapeCharacters(c) ==
    IF c \in {34, 92, 8, 12, 10, 13, 9} THEN 1 ELSE IF c \in 0..31 THEN 5 ELSE 0

HexCharacter(d) == IF d < 10 THEN 48 + d ELSE 87 + d

\* (mutant: a backslash is left as it is)
Unescaped92(c) == IF c = 34 THEN <<92, 34>> ELSE <<c>>
Escaped(c) ==
    CASE c \in {34, 92} -> <<92, c>>
      [] c = 8 -> <<92, 98>>
      [] c = 12 -> <<92, 102>>
      [] c = 10 -> <<92, 110>>
      [] c = 13 -> <<92, 114>>
      [] c = 9 -> <<92, 116>>
      [] c \in 1..31 \ {8, 9, 10, 12, 13} ->
            <<92, 117, 48, 48, HexCharacter(c \div 16), HexCharacter(c % 16)>>
      [] OTHER -> <<c>>

\* output_length: the first loop.
OutputLength(string) ==
    Sum([i \in 1..Len(string) |-> 1 + EscapeCharacters(string[i])])

\* The second loop, up to and with the closing quote.
StringToken(string) ==
    [kind |-> "string",
     bytes |-> Append(Joined([i \in 1..Len(string) |-> Escaped(string[i])]), 34)]

-----------------------------------------------------------------------------
(***************************************************************************)
(* Tokens and their width in bytes                                         *)
(***************************************************************************)

Mark(kind) == [kind |-> kind]
Spaces(n) == [i \in 1..n |-> Mark("space")]

\* A number in halves: an integer has its digits and its sign, a half
\* ".5" as well.  What strtod made infinite is printed as null.
Infinite == 2147483647
NumberToken(value) ==
    IF value = Infinite THEN Mark("null")
    ELSE [kind |-> "number", value |-> value]

Magnitude(value) == IF value < 0 THEN -value ELSE value
Digits(n) == 1 + Cardinality({k \in 1..9 : n >= 10^k})

Width(token) ==
    CASE token.kind \in {"null", "true"} -> 4
      [] token.kind = "false" -> 5
      [] token.kind = "string" -> 1 + Len(token.bytes)
      [] token.kind = "number" ->
            Digits(Magnitude(token.value) \div 2)
              + (IF token.value < 0 THEN 1 ELSE 0)
              + (IF token.value % 2 = 0 THEN 0 ELSE 2)
      [] OTHER -> 1

TotalWidth(tokens) == Sum([i \in 1..Len(tokens) |-> Width(tokens[i])])

-----------------------------------------------------------------------------
(***************************************************************************)
(* The buffer: ensure, the writes behind it, update_offset                 *)
(***************************************************************************)

\* A piece asks for `needed' bytes and writes its tokens, with a zero behind
\* them if `zero'; `counted' pieces move the offset themselves.
Piece(needed, tokens, zero, counted) ==
    [needed |-> needed, tokens |-> tokens, zero |-> zero, counted |-> counted]

Needs(piece) == piece.needed + position + 1

Fits(piece) == Needs(piece) <= length

\* The size that ensure asks realloc for.
NewSize(piece) ==
    IF Needs(piece) > PrintMax \div 2 THEN PrintMax ELSE 2 * Needs(piece)

\* The pieces that the next one leaves: the places never decrease, and what
\* lies at the offset is written over.
BeforeOffset ==
    SubSeq(pieces, 1,
           Cardinality({i \in 1..Len(pieces) : pieces[i].at < position}))

\* ensure refuses: a size that no int holds, or an offset out of the buffer.
Refused(piece) ==
    \/ length > 0 /\ position >= length
    \/ piece.needed > PrintMax
    \/ ~Fits(piece) /\ Needs(piece) > PrintMax

Emit(piece) ==
    LET width == TotalWidth(piece.tokens)
        last == position + width + (IF piece.zero THEN 1 ELSE 0)
    IN  /\ ~Refused(piece)
        /\ length' = IF Fits(piece) THEN length ELSE NewSize(piece)
        /\ position' = IF piece.counted THEN position + width ELSE position
        /\ pending' = IF piece.counted THEN 0 ELSE width
        /\ ended' = piece.zero
        /\ reach' = IF last > reach THEN last ELSE reach
        /\ pieces' = Append(BeforeOffset,
                            [at |-> position, tokens |-> piece.tokens])
        /\ UNCHANGED <<buffer, heapVars>>

\* ensure returns NULL; when it is realloc that fails, the buffer is freed.
EmitFails(piece) ==
    /\ printer' = "fail"
    /\ \/ /\ Refused(piece)
          /\ UNCHANGED <<buffer, heapVars>>
       \/ /\ ~Refused(piece)
          /\ ~Fits(piece)
          /\ heap' = Without({buffer})
          /\ buffer' = Null
          /\ starved' = TRUE
    /\ UNCHANGED <<format, walk, printing, length, position, pending, ended,
                   reach, pieces>>

-----------------------------------------------------------------------------
(***************************************************************************)
(* The pieces                                                              *)
(***************************************************************************)

Innermost == walk[Len(walk)]
Outer == SubSeq(walk, 1, Len(walk) - 1)

\* A piece that is asked for with room for its terminating zero.
Closed(token) == Piece(Width(token) + 1, <<token>>, TRUE, FALSE)

\* A string that is missing is printed as an empty one.
CharactersOf(block) == IF block = Null THEN <<>> ELSE CString(heap[block].bytes)

StringPiece(block) ==
    LET string == CharactersOf(block)
    IN  Piece(OutputLength(string) + 3, <<StringToken(string)>>, TRUE, FALSE)

NumberPiece(value) ==
    Piece(Width(NumberToken(value)) + 1, <<NumberToken(value)>>, TRUE, TRUE)

ScalarPiece(item) ==
    CASE item.type = "NULL" -> Closed(Mark("null"))
      [] item.type = "False" -> Closed(Mark("false"))
      [] item.type = "True" -> Closed(Mark("true"))
      [] item.type = "Number" -> NumberPiece(item.valuedouble)
      [] item.type = "String" -> StringPiece(item.valuestring)

NewlineIf(wanted) == IF wanted THEN <<Mark("space")>> ELSE <<>>

OpenPiece(type) ==
    IF type = "Array" THEN Piece(1, <<Mark("[")>>, FALSE, TRUE)
    ELSE Piece(IF format THEN 3 ELSE 2,
               <<Mark("{")>> \o NewlineIf(format), FALSE, TRUE)

\* The closing brace of a formatted object is indented one tab less.
ClosePiece ==
    IF Innermost.type = "Array" THEN Closed(Mark("]"))
    ELSE IF format
    THEN Piece(Len(walk) + 1, Append(Spaces(Len(walk) - 1), Mark("}")),
               TRUE, FALSE)
    ELSE Closed(Mark("}"))

IndentPiece == Piece(Len(walk), Spaces(Len(walk)), FALSE, TRUE)

ColonPiece ==
    Piece(IF format THEN 2 ELSE 1, <<Mark(":")>> \o NewlineIf(format),
          FALSE, TRUE)

\* Behind an element: a comma when another follows, and in a formatted
\* object a newline either way.
CommaPiece(more) ==
    LET comma == IF more THEN <<Mark(",")>> ELSE <<>>
        space == NewlineIf(format /\ (more \/ Innermost.type = "Object"))
    IN  Piece(Len(comma \o space) + 1, comma \o space, TRUE, TRUE)

-----------------------------------------------------------------------------
(***************************************************************************)
(* print_value, print_array and print_object                               *)
(***************************************************************************)

Type == heap[printing].type
Containers == {"Array", "Object"}

Goto(place) ==
    /\ printer' = place
    /\ UNCHANGED <<format, walk, printing>>

PrintScalar ==
    /\ printer = "value"
    /\ Type \notin Containers
    /\ Emit(ScalarPiece(heap[printing]))
    /\ Goto("printed")

PrintOpen ==
    /\ printer = "value"
    /\ Type \in Containers
    /\ Emit(OpenPiece(Type))
    /\ walk' = Append(walk, [type |-> Type, current |-> heap[printing].child])
    /\ printer' = "each"
    /\ UNCHANGED <<format, printing>>

PrintClose ==
    /\ printer = "each"
    /\ Innermost.current = Null
    /\ Emit(ClosePiece)
    /\ walk' = Outer
    /\ printer' = "printed"
    /\ UNCHANGED <<format, printing>>

Visit(place) ==
    /\ printing' = Innermost.current
    /\ printer' = place
    /\ UNCHANGED <<format, walk>>

VisitElement ==
    /\ printer = "each"
    /\ Innermost.current # Null
    /\ Innermost.type = "Array" \/ ~format
    /\ Visit(IF Innermost.type = "Array" THEN "value" ELSE "key")
    /\ UNCHANGED <<bufferVars, heapVars>>

PrintIndent ==
    /\ printer = "each"
    /\ Innermost.current # Null
    /\ Innermost.type = "Object" /\ format
    /\ Emit(IndentPiece)
    /\ Visit("key")

PrintKey ==
    /\ printer = "key"
    /\ Emit(StringPiece(heap[printing].string))
    /\ Goto("keyed")

PrintColon ==
    /\ printer = "colon"
    /\ Emit(ColonPiece)
    /\ Goto("value")

\* update_offset: strlen from the offset on.
\* (mutant: the offset stays)
OffsetStays == position
OffsetMoved == position + pending

update_offset ==
    /\ printer \in {"keyed", "printed"}
    /\ position' = OffsetMoved
    /\ pending' = 0
    /\ Goto(IF printer = "keyed" THEN "colon" ELSE "behind")
    /\ UNCHANGED <<buffer, length, ended, reach, pieces, heapVars>>

\* A container goes on to the next item of its list.
NextItem == heap[Innermost.current].next

Advance ==
    /\ walk' = Append(Outer, [Innermost EXCEPT !.current = NextItem])
    /\ printer' = "each"
    /\ UNCHANGED <<format, printing>>

Separates == walk # <<>> /\ (NextItem # Null \/ Innermost.type = "Object")

PrintComma ==
    /\ printer = "behind"
    /\ Separates
    /\ Emit(CommaPiece(NextItem # Null))
    /\ Advance

LastElement ==
    /\ printer = "behind"
    /\ walk # <<>>
    /\ ~Separates
    /\ Advance
    /\ UNCHANGED <<bufferVars, heapVars>>

\* ensure fails on the piece that the printer is about to print.
PieceFails ==
    \/ /\ printer = "value"
       /\ Type \notin Containers
       /\ EmitFails(ScalarPiece(heap[printing]))
    \/ /\ printer = "value"
       /\ Type \in Containers
       /\ EmitFails(OpenPiece(Type))
    \/ /\ printer = "each"
       /\ Innermost.current = Null
       /\ EmitFails(ClosePiece)
    \/ /\ printer = "each"
       /\ Innermost.current # Null
       /\ Innermost.type = "Object" /\ format
       /\ EmitFails(IndentPiece)
    \/ printer = "key" /\ EmitFails(StringPiece(heap[printing].string))
    \/ printer = "colon" /\ EmitFails(ColonPiece)
    \/ /\ printer = "behind"
       /\ Separates
       /\ EmitFails(CommaPiece(NextItem # Null))

-----------------------------------------------------------------------------
(***************************************************************************)
(* print                                                                   *)
(***************************************************************************)

BeginPrint(p, formatted) ==
    /\ printer' = "buffer"
    /\ format' = formatted
    /\ walk' = <<>>
    /\ printing' = p
    /\ UNCHANGED bufferVars

NewBuffer ==
    /\ printer = "buffer"
    /\ heap' = With(Fresh, Bytes(<<>>))
    /\ buffer' = Fresh
    /\ length' = DefaultSize
    /\ Goto("value")
    /\ UNCHANGED <<position, pending, ended, reach, pieces, starved>>

NewBufferFails ==
    /\ printer = "buffer"
    /\ starved' = TRUE
    /\ Goto("fail")
    /\ UNCHANGED <<bufferVars, heap>>

\* The tokens that lie before the offset.
Printed == Joined([i \in 1..Len(BeforeOffset) |-> pieces[i].tokens])

\* The buffer is cut to its content by a last realloc.
CutBuffer ==
    /\ printer = "behind"
    /\ walk = <<>>
    /\ printer' = "done"
    /\ heap' = [heap EXCEPT ![buffer].bytes = Printed]
    /\ pieces' = <<>>
    /\ Forgotten
    /\ UNCHANGED <<buffer, starved>>

CutFails ==
    /\ printer = "behind"
    /\ walk = <<>>
    /\ starved' = TRUE
    /\ Goto("fail")
    /\ UNCHANGED <<bufferVars, heap>>

PrintFails ==
    /\ printer = "fail"
    /\ printer' = "done"
    /\ heap' = Without({buffer})
    /\ buffer' = Null
    /\ pieces' = <<>>
    /\ Forgotten
    /\ UNCHANGED starved

PrinterStep ==
    \/ NewBuffer \/ NewBufferFails
    \/ PrintScalar \/ PrintOpen \/ PrintClose \/ VisitElement \/ PrintIndent
    \/ PrintKey \/ PrintColon \/ update_offset \/ PrintComma \/ LastElement
    \/ PieceFails \/ CutBuffer \/ CutFails \/ PrintFails

-----------------------------------------------------------------------------
\* Every byte that the printer writes lies in the buffer, and update_offset
\* always finds a terminating zero in it, whatever the tree and however the
\* buffer grew.
BufferSafe ==
    /\ reach <= length
    /\ printer \in {"keyed", "printed"} =>
            ended /\ position + pending < length
=============================================================================
