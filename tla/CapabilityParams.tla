--------------------------- MODULE CapabilityParams ---------------------------
(***************************************************************************)
(* src/lib/openaic.c: the JSON view of the opaque capability parameters.   *)
(*                                                                         *)
(* One call after another, each from its entry to its return, over the     *)
(* parser and the printer of cJSON and their memory.  The caller frees     *)
(* what a call returned before it makes the next one.                      *)
(***************************************************************************)
EXTENDS JsonParser, JsonPrinter, JsonGrammar

CONSTANTS
    Calls,   \* the calls made: [op, capId, params]
    Again    \* whether a text that was printed is parsed again

\* The parameters come with their length n: they are finite texts of tokens.
ASSUME ParamsAreTexts ==
    \A c \in Calls : c.params \in Seq({c.params[i] : i \in DOMAIN c.params})

VARIABLES
    at,      \* where the call is
    call,    \* the call being made
    raw,     \* the copy of the parameters that is parsed, or Null
    result,  \* what the call returned: a pointer, or 0 or 1
    wanted   \* the text that the tree should be printed as

vars == <<at, call, raw, result, wanted, parserVars, printerVars, heapVars>>

NoCall == [op |-> "none", capId |-> "none", params |-> <<>>]

\* The entry points that parse and print, and those that validate.
Validators == {"max_concurrent", "capability_params"}
Printers == {"canonical", "pretty", "from_json"}

Init ==
    /\ heap = <<>>
    /\ starved = FALSE
    /\ at = "idle"
    /\ call = NoCall
    /\ raw = Null
    /\ result = 0
    /\ wanted = <<>>
    /\ ParserInit
    /\ PrinterInit

-----------------------------------------------------------------------------
(***************************************************************************)
(* What an item stands for                                                 *)
(***************************************************************************)

\* The value of an item, and the values of a list of items, names included.
Values ==
    LET String(p) == heap[p].bytes
        V[what \in {"value", "items", "members"}, p \in Live \cup {Null}] ==
            CASE p = Null -> <<>>
              [] p # Null /\ what = "items" ->
                    <<V["value", p]>> \o V[what, heap[p].next]
              [] p # Null /\ what = "members" ->
                    <<[name |-> String(heap[p].string),
                       value |-> V["value", p]]>> \o V[what, heap[p].next]
              [] OTHER ->
                    CASE heap[p].type = "Number" ->
                            [type |-> "Number", value |-> heap[p].valuedouble]
                      [] heap[p].type = "String" ->
                            [type |-> "String",
                             bytes |-> String(heap[p].valuestring)]
                      [] heap[p].type = "Array" ->
                            [type |-> "Array",
                             items |-> V["items", heap[p].child]]
                      [] heap[p].type = "Object" ->
                            [type |-> "Object",
                             members |-> V["members", heap[p].child]]
                      [] OTHER -> [type |-> heap[p].type]
    IN  V

ValueOf(p) == Values["value", p]

\* The text that an item should be printed as, with the whitespace of the
\* formatted output if `formatted'.
Rendering(top, formatted) ==
    LET Space(n) == IF formatted THEN Spaces(n) ELSE <<>>
        String(p) == StringToken(CharactersOf(p))
        Separator(p) == IF heap[p].next = Null THEN <<>> ELSE <<Mark(",")>>
        Steps == {"value", "items", "members"}
                    \X ({q \in Live : IsItem(q)} \cup {Null}) \X Nat
        R[x \in Steps] ==
            LET p == x[2]
                d == x[3]
                Value == R[<<"value", p, d>>]
                Following == R[<<x[1], heap[p].next, d>>]
            IN  CASE p = Null -> <<>>
                  [] p # Null /\ x[1] = "items" ->
                        Value \o Separator(p) \o Space(Len(Separator(p)))
                            \o Following
                  [] p # Null /\ x[1] = "members" ->
                        Space(d) \o <<String(heap[p].string), Mark(":")>>
                            \o Space(1) \o Value \o Separator(p) \o Space(1)
                            \o Following
                  [] OTHER ->
                        CASE heap[p].type = "NULL" -> <<Mark("null")>>
                          [] heap[p].type = "False" -> <<Mark("false")>>
                          [] heap[p].type = "True" -> <<Mark("true")>>
                          [] heap[p].type = "Number" ->
                                <<NumberToken(heap[p].valuedouble)>>
                          [] heap[p].type = "String" ->
                                <<String(heap[p].valuestring)>>
                          [] heap[p].type = "Array" ->
                                <<Mark("[")>> \o R[<<"items", heap[p].child, d + 1>>]
                                    \o <<Mark("]")>>
                          [] heap[p].type = "Object" ->
                                <<Mark("{")>> \o Space(1)
                                    \o R[<<"members", heap[p].child, d + 1>>]
                                    \o Space(d) \o <<Mark("}")>>
    IN  R[<<"value", top, 0>>]

-----------------------------------------------------------------------------
(***************************************************************************)
(* Calls                                                                   *)
(***************************************************************************)

Return(value) ==
    /\ at' = "returned"
    /\ result' = value

Call ==
    /\ at = "idle"
    /\ call' \in Calls
    /\ at' = "called"
    /\ UNCHANGED <<raw, result, wanted, parserVars, printerVars, heapVars>>

Nothing == call.params = <<>>

KnownCapability == call.capId = "max-concurrent"

\* openaic_validate_capability_params: nothing is acceptable, and anything
\* else only for the capability that has a validator.
DispatchAnswers ==
    /\ at = "called"
    /\ call.op = "capability_params"
    /\ Nothing \/ ~KnownCapability
    /\ Return(IF Nothing THEN 1 ELSE 0)
    /\ UNCHANGED <<call, raw, wanted, parserVars, printerVars, heapVars>>

\* openaic_validate_constraint_scheme: of a scheme that is not NULL.
ConstraintSchemes == {"constraint", "constraint-v1"}

SchemeAnswers ==
    /\ at = "called"
    /\ call.op = "constraint_scheme"
    /\ Return(IF call.capId \in ConstraintSchemes THEN 1 ELSE 0)
    /\ UNCHANGED <<call, raw, wanted, parserVars, printerVars, heapVars>>

\* openaic_params_parse: the parameters are copied, parsed and forgotten.
Parses ==
    /\ at = "called"
    /\ call.op # "constraint_scheme"
    /\ call.op = "capability_params" => ~Nothing /\ KnownCapability

NothingToParse ==
    /\ Parses
    /\ Nothing
    /\ Return(0)
    /\ UNCHANGED <<call, raw, wanted, parserVars, printerVars, heapVars>>

CopyParams ==
    /\ Parses
    /\ ~Nothing
    /\ at' = "parse"
    /\ raw' = Fresh
    /\ heap' = With(Fresh, Bytes(call.params))
    /\ BeginParse(call.params)
    /\ UNCHANGED <<call, result, wanted, stringVars, printerVars, starved>>

ParamsNotCopied ==
    /\ Parses
    /\ ~Nothing
    /\ starved' = TRUE
    /\ Return(0)
    /\ UNCHANGED <<call, raw, wanted, parserVars, printerVars, heap>>

Parse ==
    /\ at = "parse"
    /\ ParserStep
    /\ UNCHANGED <<at, call, raw, result, wanted, printerVars>>

ParseEnds ==
    /\ at = "parse"
    /\ parser = "done"
    /\ heap' = Without({raw})
    /\ raw' = Null
    /\ parser' = "idle"
    /\ at' = "parsed"
    /\ UNCHANGED <<call, result, wanted, text, offset, frames, item, root,
                   stringVars, printerVars, starved>>

\* What the other functions do with the tree.
NoTree ==
    /\ at = "parsed"
    /\ root = Null
    /\ Return(0)
    /\ UNCHANGED <<call, raw, wanted, parserVars, printerVars, heapVars>>

ReturnTree ==
    /\ at = "parsed"
    /\ root # Null
    /\ call.op = "parse"
    /\ Return(root)
    /\ UNCHANGED <<call, raw, wanted, parserVars, printerVars, heapVars>>

-----------------------------------------------------------------------------
(***************************************************************************)
(* openaic_validate_max_concurrent                                         *)
(***************************************************************************)

MaxName == <<109, 97, 120>>

\* get_object_item, case-sensitive: the first member that strcmp takes for
\* the name; an item without a name (of an array) ends the search.
get_object_item(p, name) ==
    LET Find[q \in Live \cup {Null}] ==
            IF q = Null \/ heap[q].string = Null THEN Null
            ELSE IF CString(heap[heap[q].string].bytes) = name THEN q
            ELSE Find[heap[q].next]
    IN  Find[heap[p].child]

\* Between OPENAIC_MAX_CONCURRENT_MIN and _MAX, and integral.
\* (mutant: fractions as well).
AnyInRange(halves) == halves \in 2..2048
InRange(halves) == halves \in 2..2048 /\ halves % 2 = 0

MaxConcurrent ==
    /\ at = "parsed"
    /\ root # Null
    /\ call.op \in Validators
    /\ LET max == get_object_item(root, MaxName)
       IN  Return(IF /\ max # Null
                     /\ heap[max].type = "Number"
                     /\ InRange(heap[max].valuedouble)
                  THEN 1 ELSE 0)
    /\ heap' = Without(cJSON_Delete(root))
    /\ root' = Null
    /\ UNCHANGED <<call, raw, wanted, parser, text, offset, frames, item,
                   stringVars, printerVars, starved>>

-----------------------------------------------------------------------------
(***************************************************************************)
(* openaic_params_canonical, openaic_params_pretty, openaic_params_from_json*)
(***************************************************************************)

StartPrint ==
    /\ at = "parsed"
    /\ root # Null
    /\ call.op \in Printers
    /\ at' = "print"
    /\ wanted' = Rendering(root, call.op = "pretty")
    /\ BeginPrint(root, call.op = "pretty")
    /\ UNCHANGED <<call, raw, result, parserVars, heapVars>>

PrintGoesOn ==
    /\ at = "print"
    /\ PrinterStep
    /\ UNCHANGED <<at, call, raw, result, wanted, parserVars>>

\* The printer is done; its buffer goes to the caller.
Forget == printer' = "idle" /\ buffer' = Null

KeepPrinter ==
    UNCHANGED <<format, walk, printing, length, position, pending, ended,
                reach, pieces>>

\* canonical and pretty delete the tree they parsed and return the text.
PrintEnds ==
    /\ at = "print"
    /\ printer = "done"
    /\ call.op # "from_json"
    /\ Return(buffer)
    /\ heap' = Without(cJSON_Delete(root))
    /\ root' = Null
    /\ Forget /\ KeepPrinter
    /\ UNCHANGED <<call, raw, wanted, parser, text, offset, frames, item,
                   stringVars, starved>>

\* from_json returns a copy of the text; the tree is its caller's.
FromJsonEnds ==
    /\ at = "print"
    /\ printer = "done"
    /\ call.op = "from_json"
    /\ \/ /\ buffer # Null
          /\ Return(Fresh)
          /\ heap' = [q \in (Live \cup {Fresh}) \ {buffer} |->
                        IF q = Fresh THEN heap[buffer] ELSE heap[q]]
          /\ UNCHANGED starved
       \/ /\ buffer # Null
          /\ Return(Null)
          /\ heap' = Without({buffer})
          /\ starved' = TRUE
       \/ /\ buffer = Null
          /\ Return(Null)
          /\ UNCHANGED heapVars
    /\ Forget /\ KeepPrinter
    /\ UNCHANGED <<call, raw, wanted, parserVars>>

-----------------------------------------------------------------------------
(***************************************************************************)
(* The caller                                                              *)
(***************************************************************************)

\* What the caller owns when a call has returned: the result, and the tree
\* that it gave to from_json.
CallerOwns ==
    (IF call.op \in Validators THEN {} ELSE cJSON_Delete(result))
        \cup (IF call.op = "from_json" THEN cJSON_Delete(root) ELSE {})

Text == IF result # Null /\ call.op \in Printers
        THEN heap[result].bytes ELSE <<>>

CallerHasFreed ==
    /\ at = "returned"
    /\ heap' = Without(CallerOwns)
    /\ result' = 0
    /\ starved' = FALSE
    /\ ParserForgotten
    /\ UNCHANGED <<raw, printerVars>>

CallerFrees ==
    /\ CallerHasFreed
    /\ at' = "idle"
    /\ call' = NoCall
    /\ wanted' = <<>>

\* A printed text comes back, as the parameters of another capability do
\* that were made with from_json.
ComesBack ==
    /\ Again
    /\ Text # <<>>
    /\ CallerHasFreed
    /\ at' = "called"
    /\ call' = [op |-> "parse", capId |-> "again", params |-> Text]
    /\ UNCHANGED wanted

CallStep ==
    \/ DispatchAnswers \/ SchemeAnswers \/ NothingToParse
    \/ CopyParams \/ ParamsNotCopied \/ Parse \/ ParseEnds
    \/ NoTree \/ ReturnTree \/ MaxConcurrent
    \/ StartPrint \/ PrintGoesOn \/ PrintEnds \/ FromJsonEnds

Next == Call \/ CallStep \/ CallerFrees \/ ComesBack

Spec == Init /\ [][Next]_vars

\* A call that was entered goes on; whether there is a next one is open.
FairSpec == Spec /\ WF_vars(CallStep)

-----------------------------------------------------------------------------
(***************************************************************************)
(* Properties                                                              *)
(***************************************************************************)

Tree == IF root = Null THEN {} ELSE cJSON_Delete(root)

\* Types: pointers point to live blocks of their kind or are Null, places
\* lie in their text.
TypeOK ==
    /\ at \in {"idle", "called", "parse", "parsed", "print", "returned"}
    /\ offset \in 0..Len(text)
    /\ depth <= NestingLimit
    /\ \A p \in {root, raw, output, buffer} : p = Null \/ p \in Live
    /\ \A p \in Live : heap[p].block \in {"item", "bytes"}
    /\ root # Null => IsItem(root)
    /\ \A i \in 1..Len(frames) :
            IsItem(frames[i].owner) /\ frames[i].head \in Live \cup {Null}
    /\ length <= PrintMax

WithoutBom(params) == IF BomSkipped(params) THEN Tail(params) ELSE params

\* The value that some parameters begin with, and the one that they are from
\* end to end: no value, or one.
Meaning(params) == Beginnings(WithoutBom(params), NestingLimit)
WhollyJson(params) == Wholes(params, NestingLimit)

\* Literals that cJSON takes though JSON has none of them: a control
\* character, or a \u that is not followed by four hexadecimal digits.
Lax(bytes) ==
    \/ \E i \in 1..Len(bytes) : bytes[i] < 32
    \/ \E i \in 1..Len(bytes) - 1 :
            /\ bytes[i] = Backslash /\ bytes[i + 1] = LetterU
            /\ FourDigits(bytes, i + 2) = {}

Strict(params) ==
    \A i \in 1..Len(params) : params[i].kind = "string" => ~Lax(params[i].bytes)

\* With memory, parameters that are JSON from end to end, nested no deeper
\* than the limit, are parsed to the tree of their value; and a tree that is
\* built is of a value that the text begins with, its escapes decoded, when
\* no literal is lax.  Nothing is said of what cJSON takes beyond JSON.
ParsedIsJson ==
    at = "parsed" /\ ~starved =>
        /\ \A v \in WhollyJson(call.params) : root # Null /\ ValueOf(root) = v
        /\ root # Null /\ Strict(call.params) =>
                ValueOf(root) \in Meaning(call.params)

\* openaic.h: what is not valid JSON is not parsed, has no canonical and no
\* pretty text, and is no parameter that a validator grants.
OnlyJsonAccepted ==
    /\ at = "returned"
    /\ call.op \in {"parse", "canonical", "pretty"} \cup Validators
    /\ call.params # <<>> /\ result # 0
    => WhollyJson(WithoutBom(call.params)) # {}

\* The roots of what is owned while a call runs: the copy, the tree, the
\* lists of the open containers, the string being parsed, the buffer.
Roots ==
    {raw, root, output, buffer} \cup {frames[i].head : i \in 1..Len(frames)}
        \cup (IF at = "returned" THEN CallerOwns ELSE {})

\* Nothing leaks, whatever fails where: every live block is owned by the
\* call that runs or by its caller.
NothingLeaked ==
    Live \subseteq UNION {cJSON_Delete(p) : p \in Roots \ {Null}}

\* Nothing is freed twice: every live block has one owner, an item its list
\* or its container, a string its item.
Pointers(p) ==
    IF IsItem(p)
    THEN {<<p, "child", heap[p].child>>, <<p, "next", heap[p].next>>,
          <<p, "string", heap[p].string>>,
          <<p, "valuestring", heap[p].valuestring>>}
    ELSE {}

OneOwner ==
    \A q \in Live :
        /\ Cardinality({e \in UNION {Pointers(p) : p \in Live} : e[3] = q})
              + Cardinality({r \in {raw, root, output, buffer} : r = q})
              + Cardinality({i \in 1..Len(frames) : frames[i].head = q}) <= 1
        /\ IsItem(q) => Owned(q) \subseteq Live

\* In a parsed tree the lists of items are linked both ways, the head's prev
\* being the tail.
Linked ==
    at \in {"parsed", "print"} =>
        \A p \in Tree : IsItem(p) =>
            /\ heap[p].next # Null => heap[heap[p].next].prev = p
            /\ heap[p].child # Null =>
                    LET tail == heap[heap[p].child].prev
                    IN  tail # Null /\ heap[tail].next = Null

\* What canonical and from_json return is the rendering of the tree, and
\* what pretty returns is it up to whitespace, of which openaic.h and the
\* code disagree.  With memory, the tree of parameters that are JSON from end
\* to end, and any tree given to from_json, is printed when it fits the
\* largest buffer.
MustPrint == call.op = "from_json" \/ WhollyJson(call.params) # {}

PrintedText ==
    at = "returned" /\ call.op \in Printers =>
        /\ Text # <<>> =>
                IF call.op = "pretty" THEN Dense(Text) = Dense(wanted)
                ELSE Text = wanted
        /\ Text = <<>> /\ wanted # <<>> /\ MustPrint =>
                starved \/ TotalWidth(wanted) + 2 > PrintMax

\* A printed text that is parsed again gives a tree that prints the same.
PrintingIsStable ==
    at = "returned" /\ call.capId = "again" /\ ~starved =>
        /\ result # Null
        /\ Rendering(result, FALSE) = Dense(wanted)

FirstMax(members) ==
    LET named == {i \in 1..Len(members) : CString(members[i].name) = MaxName}
    IN  {members[i].value : i \in {i \in named : \A j \in named : i <= j}}

Integral == {2 * k : k \in 1..1024}

GoodMax(value) ==
    /\ value.type = "Object"
    /\ \E v \in FirstMax(value.members) : v.type = "Number" /\ v.value \in Integral

\* The object {"max":N} of openaic.h, and nothing beside it.
MaxObject(n) ==
    [type |-> "Object",
     members |-> <<[name |-> MaxName, value |-> [type |-> "Number", value |-> n]]>>]

Absent == call.op = "capability_params" /\ Nothing
KnownScheme == call.op = "constraint_scheme" /\ call.capId \in ConstraintSchemes
KnownParams == call.op = "capability_params" => KnownCapability

\* Nothing is granted but absent parameters, a known scheme, and parameters
\* of max-concurrent that begin with an object whose first member named "max"
\* is an integer from 1 to 1024; and with memory, the first two and {"max":N}
\* itself are granted.  What stands beside that object is left open.
MaxValidated ==
    at = "returned" /\ call.op \in Validators \cup {"constraint_scheme"} =>
        /\ result = 1 =>
            \/ Absent
            \/ KnownScheme
            \/ /\ call.op \in Validators /\ KnownParams
               /\ Strict(call.params) => \E v \in Meaning(call.params) : GoodMax(v)
        /\ Absent \/ KnownScheme => result = 1
        /\ /\ call.op \in Validators /\ KnownParams
           /\ \E n \in Integral : MaxObject(n) \in WhollyJson(call.params)
           => result = 1 \/ starved

\* Every call comes back: no text and no failure keeps the parser or the
\* printer in a loop.
EveryCallReturns == at = "called" ~> at = "returned"
=============================================================================
