------------------------------ MODULE JsonParser ------------------------------
(***************************************************************************)
(* cJSON_ParseWithLength of src/lib/cjson/cJSON.c over texts of tokens.    *)
(*                                                                         *)
(* A token is a record with a `kind': "null", "false", "true", a mark of   *)
(* punctuation, "space" (any byte up to 32), "number", "string", "bom"     *)
(* (the UTF-8 byte order mark) or "junk" (any other byte).  A number has   *)
(* its `value' in halves, which tell integers from fractions; a number     *)
(* token that strtod does not take (a lone minus) has the kind "sign".  A  *)
(* string has the bytes behind its opening quote.  Places in the text are  *)
(* counted in tokens from 0, as `offset' counts bytes: whitespace and      *)
(* punctuation, the only places the code steps back over, are one byte.    *)
(*                                                                         *)
(* The recursion of parse_value is a stack of the containers being parsed. *)
(***************************************************************************)
EXTENDS JsonString

CONSTANT NestingLimit   \* CJSON_NESTING_LIMIT

ASSUME NestingLimitNatural == NestingLimit \in Nat

VARIABLES
    parser,   \* where the parser is: "idle", "value", "element", ...
    text,     \* the tokens of input_buffer
    offset,   \* input_buffer->offset
    frames,   \* the open containers, outermost first
    item,     \* the item that the next value goes to
    root      \* the item that the caller gets, or Null

parserVars == <<parser, text, offset, frames, item, root, stringVars>>

\* No parse is going on; the variables of the last one are forgotten.
ParserForgotten ==
    /\ parser' = "idle"
    /\ text' = <<>>
    /\ offset' = 0
    /\ frames' = <<>>
    /\ item' = Null
    /\ root' = Null
    /\ StringIdle

ParserInit ==
    /\ parser = "idle"
    /\ text = <<>>
    /\ offset = 0
    /\ frames = <<>>
    /\ item = Null
    /\ root = Null
    /\ StringInit

-----------------------------------------------------------------------------
(***************************************************************************)
(* The input buffer                                                        *)
(***************************************************************************)

can_access(o) == o < Len(text)
TokenAt(o) == text[o + 1]
Sees(o, kind) == can_access(o) /\ TokenAt(o).kind = kind

\* buffer_skip_whitespace: a buffer that ends in whitespace is left one
\* byte before its end.
buffer_skip_whitespace(o) ==
    LET stop == CHOOSE s \in o..Len(text) :
                    /\ \A k \in o..s - 1 : Sees(k, "space")
                    /\ ~Sees(s, "space")
    IN  IF can_access(o) /\ stop = Len(text) THEN stop - 1 ELSE stop

\* The byte order mark is skipped when two bytes come after it.
OneByte(token) ==
    \/ token.kind \in {"[", "]", "{", "}", ",", ":", "space", "junk", "sign"}
    \/ token.kind = "number" /\ token.value \in {2 * d : d \in 0..9}

BomSkipped(t) ==
    /\ t # <<>>
    /\ t[1].kind = "bom"
    /\ Len(t) > 2 \/ (Len(t) = 2 /\ ~OneByte(t[2]))

skip_utf8_bom == IF BomSkipped(text) THEN 1 ELSE 0

\* The depth of the buffer: every open container has raised it by one.
depth == Len(frames)

-----------------------------------------------------------------------------
(***************************************************************************)
(* Items                                                                   *)
(***************************************************************************)

Scalars == {"null", "false", "true", "number", "string"}

ContainerType(open) == IF open = "[" THEN "Array" ELSE "Object"
CloseOf(frame) == IF frame.open = "[" THEN "]" ELSE "}"

Top == frames[depth]
Below == SubSeq(frames, 1, depth - 1)

\* heap with some fields of an item changed.
SetItem(h, p, change) ==
    [h EXCEPT ![p] = [f \in DOMAIN @ |->
                        IF f \in DOMAIN change THEN change[f] ELSE @[f]]]

Parsed(o) ==
    /\ parser' = "parsed"
    /\ offset' = o
    /\ UNCHANGED <<text, frames, item, root, stringVars, starved>>

ParseFails ==
    /\ parser' = "fail"
    /\ UNCHANGED <<text, offset, frames, item, root, stringVars, heapVars>>

OutOfMemory ==
    /\ parser' = "fail"
    /\ starved' = TRUE
    /\ UNCHANGED <<text, offset, frames, item, root, stringVars, heap>>

-----------------------------------------------------------------------------
(***************************************************************************)
(* cJSON_ParseWithLengthOpts                                               *)
(***************************************************************************)

BeginParse(tokens) ==
    /\ parser' = "root"
    /\ text' = tokens
    /\ offset' = 0
    /\ frames' = <<>>
    /\ item' = Null
    /\ root' = Null

NewRoot ==
    /\ parser = "root"
    /\ parser' = "value"
    /\ heap' = With(Fresh, cJSON_New_Item)
    /\ root' = Fresh
    /\ item' = Fresh
    /\ offset' = buffer_skip_whitespace(skip_utf8_bom)
    /\ UNCHANGED <<text, frames, stringVars, starved>>

RootFails == parser = "root" /\ OutOfMemory

\* The end of cJSON_ParseWithLengthOpts: nothing looks at the rest of the
\* text, because libopenaic does not ask for a terminating zero.
RootParsed ==
    /\ parser = "parsed"
    /\ frames = <<>>
    /\ parser' = "done"
    /\ UNCHANGED <<text, offset, frames, item, root, stringVars, heapVars>>

RootDeleted ==
    /\ parser = "fail"
    /\ frames = <<>>
    /\ parser' = "done"
    /\ heap' = Without(cJSON_Delete(root))
    /\ root' = Null
    /\ UNCHANGED <<text, offset, frames, item, stringVars, starved>>

-----------------------------------------------------------------------------
(***************************************************************************)
(* parse_value                                                             *)
(***************************************************************************)

AtValue == parser = "value" /\ can_access(offset)

Literal ==
    /\ AtValue
    /\ \/ /\ TokenAt(offset).kind = "null"
          /\ heap' = SetItem(heap, item, [type |-> "NULL"])
       \/ /\ TokenAt(offset).kind = "false"
          /\ heap' = SetItem(heap, item, [type |-> "False"])
       \/ /\ TokenAt(offset).kind = "true"
          /\ heap' = SetItem(heap, item, [type |-> "True"])
    /\ Parsed(offset + 1)

parse_number ==
    /\ AtValue
    /\ TokenAt(offset).kind = "number"
    /\ heap' = SetItem(heap, item,
                 [type |-> "Number", valuedouble |-> TokenAt(offset).value])
    /\ Parsed(offset + 1)

StringValue ==
    /\ AtValue
    /\ TokenAt(offset).kind = "string"
    /\ parser' = "string"
    /\ BeginString(TokenAt(offset).bytes)
    /\ UNCHANGED <<text, offset, frames, item, root, heapVars>>

\* A container with nothing in it, and one with a first element; `inside'
\* is where the first thing that is no whitespace stands.
Inside == buffer_skip_whitespace(offset + 1)

\* (mutant: one level too many)
DeepEnough == depth <= NestingLimit
MayNest == depth < NestingLimit

AtContainer ==
    /\ AtValue
    /\ TokenAt(offset).kind \in {"[", "{"}
    /\ MayNest

Open == TokenAt(offset).kind

EmptyContainer ==
    /\ AtContainer
    /\ Sees(Inside, CloseOf([open |-> Open]))
    /\ heap' = SetItem(heap, item, [type |-> ContainerType(Open)])
    /\ Parsed(Inside + 1)

OpenContainer ==
    /\ AtContainer
    /\ can_access(Inside)
    /\ ~Sees(Inside, CloseOf([open |-> Open]))
    /\ parser' = "element"
    /\ offset' = Inside - 1
    /\ frames' = Append(frames, [open |-> Open, owner |-> item,
                                 head |-> Null, tail |-> Null])
    /\ UNCHANGED <<text, item, root, stringVars, heapVars>>

\* No value begins here, or a container is too deep or ends with the text.
NoValue ==
    /\ parser = "value"
    /\ can_access(offset) => Open \notin Scalars
    /\ can_access(offset) /\ Open \in {"[", "{"} =>
            ~MayNest \/ ~can_access(Inside)
    /\ ParseFails

-----------------------------------------------------------------------------
(***************************************************************************)
(* The loops of parse_array and parse_object                               *)
(***************************************************************************)

\* Places a new item at the end of the list of the innermost container.
NewElement ==
    LET grown == With(Fresh, [cJSON_New_Item EXCEPT !.prev = Top.tail])
    IN  /\ heap' = IF Top.tail = Null THEN grown
                   ELSE SetItem(grown, Top.tail, [next |-> Fresh])
        /\ item' = Fresh
        /\ frames' = Append(Below,
                       [Top EXCEPT !.head = IF @ = Null THEN Fresh ELSE @,
                                   !.tail = Fresh])

\* Where the loops look for the next value or name (mutant: whitespace is
\* not skipped).
AtNextByte == offset + 1
AtNext == buffer_skip_whitespace(offset + 1)

ArrayElement ==
    /\ parser = "element"
    /\ Top.open = "["
    /\ NewElement
    /\ offset' = AtNext
    /\ parser' = "value"
    /\ UNCHANGED <<text, root, stringVars, starved>>

ObjectMember ==
    /\ parser = "element"
    /\ Top.open = "{"
    /\ NewElement
    /\ IF Sees(AtNext, "string")
       THEN /\ parser' = "name"
            /\ offset' = AtNext
            /\ BeginString(TokenAt(AtNext).bytes)
       ELSE /\ parser' = "fail"
            /\ UNCHANGED <<offset, stringVars>>
    /\ UNCHANGED <<text, root, starved>>

ElementFails == parser = "element" /\ OutOfMemory

\* What stands behind a value that was parsed inside a container.
Behind == buffer_skip_whitespace(offset)
InContainer == parser = "parsed" /\ frames # <<>>

Comma ==
    /\ InContainer
    /\ Sees(Behind, ",")
    /\ parser' = "element"
    /\ offset' = Behind
    /\ UNCHANGED <<text, frames, item, root, stringVars, heapVars>>

\* success: the head of a list points back to its tail (mutant: it does not).
ListOpen == heap
ListClosed == SetItem(heap, Top.head, [prev |-> Top.tail])

CloseContainer ==
    /\ InContainer
    /\ Sees(Behind, CloseOf(Top))
    /\ heap' = SetItem(ListClosed, Top.owner,
                 [type |-> ContainerType(Top.open), child |-> Top.head])
    /\ parser' = "parsed"
    /\ offset' = Behind + 1
    /\ frames' = Below
    /\ UNCHANGED <<text, item, root, stringVars, starved>>

NotClosed ==
    /\ InContainer
    /\ ~Sees(Behind, ",")
    /\ ~Sees(Behind, CloseOf(Top))
    /\ ParseFails

\* A failed container deletes the list it made and its caller fails too
\* (mutants: the list is left, the failure does not reach the caller).
ListLeft == UNCHANGED heap
DeleteList == heap' = Without(cJSON_Delete(Top.head))

StayInFrame == frames
LeaveFrame == Below

Unwind ==
    /\ parser = "fail"
    /\ frames # <<>>
    /\ DeleteList
    /\ frames' = LeaveFrame
    /\ UNCHANGED <<parser, text, offset, item, root, stringVars, starved>>

-----------------------------------------------------------------------------
(***************************************************************************)
(* The ends of parse_string, in parse_value and in parse_object            *)
(***************************************************************************)

StringParsed ==
    /\ parser = "string"
    /\ phase = "parsed"
    /\ heap' = SetItem(heap, item, [type |-> "String", valuestring |-> output])
    /\ StringIdle
    /\ parser' = "parsed"
    /\ offset' = offset + 1
    /\ UNCHANGED <<text, frames, item, root, starved>>

\* The name moves from valuestring to string (mutant: it is left there too).
NameKept == [type |-> "String", string |-> output, valuestring |-> output]
NameMoved == [type |-> "String", string |-> output]

\* A colon and a value follow.
NameParsed ==
    /\ parser = "name"
    /\ phase = "parsed"
    /\ heap' = SetItem(heap, item, NameMoved)
    /\ StringIdle
    /\ LET colon == buffer_skip_whitespace(offset + 1)
       IN  IF Sees(colon, ":")
           THEN parser' = "value" /\ offset' = buffer_skip_whitespace(colon + 1)
           ELSE parser' = "fail" /\ offset' = colon
    /\ UNCHANGED <<text, frames, item, root, starved>>

StringFailed ==
    /\ parser \in {"string", "name"}
    /\ phase = "failed"
    /\ StringIdle
    /\ parser' = "fail"
    /\ UNCHANGED <<text, offset, frames, item, root, heapVars>>

InString ==
    /\ parser \in {"string", "name"}
    /\ StringStep
    /\ UNCHANGED <<parser, text, offset, frames, item, root>>

ParserStep ==
    \/ NewRoot \/ RootFails \/ RootParsed \/ RootDeleted
    \/ Literal \/ parse_number \/ StringValue \/ EmptyContainer
    \/ OpenContainer \/ NoValue
    \/ ArrayElement \/ ObjectMember \/ ElementFails
    \/ Comma \/ CloseContainer \/ NotClosed \/ Unwind
    \/ StringParsed \/ NameParsed \/ StringFailed \/ InString
=============================================================================
