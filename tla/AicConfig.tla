------------------------------ MODULE AicConfig -------------------------------
(***************************************************************************)
(* src/v3_aic.c: v2i_AIC, which makes an AIC from a section of an OpenSSL  *)
(* configuration file, and i2v_AIC, which lists an AIC as text.            *)
(*                                                                         *)
(* A line is [name, value].  A value is the sequence of its parts, split   *)
(* at the first two colons.  The id of a version or delegation mode is     *)
(* what the code reads from it: a number, or the word.                     *)
(***************************************************************************)
EXTENDS PrincipalUidText, FiniteSets

CONSTANTS
    Sections,    \* the sections read
    Extensions,  \* the decoded AICs listed
    HexPrefixed, \* [id of a text that begins with hex: -> what follows]
    HexBytes,    \* [id of a text in hexadecimal -> the bytes]
    HexText,     \* [id of bytes -> their text in hexadecimal]
    NumRoom,     \* sizeof(num), where a version is printed (16)
    DerValue     \* [id of bytes that are a DelegationAuthorization -> it]

Elements(s) == {s[i] : i \in 1..Len(s)}

\* A fingerprint is a sequence of characters, and every part of a capability
\* has a length.
ASSUME SectionsOfLines ==
    \A s \in Sections :
        /\ s \in Seq(Elements(s))
        /\ \A l \in Elements(s) :
              /\ Len(l.value) \in Nat \ {0}
              /\ l.name = "principalUid" /\ Len(l.value) = 3 =>
                    l.value[3].id \in Seq(-1..63)
              /\ l.name \in {"capability", "authorizationConstraint"} =>
                    \A i \in 1..Len(l.value) : l.value[i].len \in Nat

\* A key hash is a sequence of bytes, and every capability has its texts.
ASSUME ExtensionsDecoded ==
    \A e \in Extensions :
        /\ e.principalUid.keyHash.id \in Seq(0..255)
        /\ \A list \in {e.capabilities, Entries(e.authorizationConstraints)} :
              /\ list \in Seq(Elements(list))
              /\ \A c \in Elements(list) :
                    /\ c.schemeId.len \in Nat /\ c.capabilityId.len \in Nat
                    /\ c.parameters # NULL => c.parameters.len \in Nat

ASSUME HexPrefixedTexts == \A id \in DOMAIN HexPrefixed : HexPrefixed[id].len \in Nat

\* What is printed in hexadecimal is decoded to the same bytes.
ASSUME HexDecodes ==
    \A id \in DOMAIN HexText :
        HexText[id] \in DOMAIN HexBytes /\ HexBytes[HexText[id]] = id

\* The buffer num holds a sign and a digit.
ASSUME NumHoldsDigits ==
    NumRoom \in Nat /\ NumRoom > 2 /\ 10^(NumRoom - 1) \in Nat \ 0..9

VARIABLES
    at,       \* where the call is
    call,     \* the call and on what it is made: v2i on a "section", i2v on a
              \* "certificate" or on what v2i "made", v2i on what was "listed"
    section,  \* the lines to read
    line,     \* the line being read, or the capability being listed
    aic,      \* the AIC being made or listed
    cap,      \* the capability being made
    list,     \* the lines listed so far
    result,   \* what the call returned
    origin    \* the AIC that was listed before it is read again, or NULL

configVars == <<at, call, section, line, aic, cap, list, result, origin>>
vars == <<configVars, codecVars, ownershipVars>>

Init ==
    /\ at = "idle"
    /\ call = "none"
    /\ section = <<>>
    /\ line = 0
    /\ aic = NULL
    /\ cap = NULL
    /\ list = <<>>
    /\ result = NULL
    /\ origin = NULL
    /\ CodecInit
    /\ OwnershipInit

-----------------------------------------------------------------------------
(***************************************************************************)
(* Texts                                                                   *)
(***************************************************************************)

\* The whole of a value, colons included.
Whole(value) ==
    CASE Len(value) = 1 -> value[1]
      [] Len(value) = 2 -> [len |-> value[1].len + 1 + value[2].len,
                            id |-> <<value[1].id, value[2].id>>]
      [] Len(value) = 3 ->
            [len |-> value[1].len + value[2].len + value[3].len + 2,
             id |-> <<value[1].id, value[2].id, value[3].id>>]

OPENSSL_hexstr2buf(text) ==
    IF text.id \in DOMAIN HexBytes
    THEN [len |-> text.len \div 2, id |-> HexBytes[text.id]] ELSE NULL

d2i_AIC_DELEGATIONAUTH(bytes) ==
    IF bytes.id \in DOMAIN DerValue THEN DerValue[bytes.id] ELSE NULL

Name == section[line].name
Value == section[line].value

-----------------------------------------------------------------------------
(***************************************************************************)
(* Calls and returns                                                       *)
(***************************************************************************)

Go(place) == at' = place

Begins(what) ==
    /\ call' = what
    /\ result' = NULL
    /\ starved' = FALSE
    /\ UNCHANGED <<held, pointers, freedTwice, codecVars>>

CallV2i ==
    /\ at = "idle"
    /\ section' \in Sections
    /\ Begins("section")
    /\ Go("new")
    /\ UNCHANGED <<line, aic, cap, list, origin>>

CallI2v ==
    /\ at = "idle"
    /\ aic' \in Extensions
    /\ Begins("certificate")
    /\ Go("version")
    /\ origin' = aic'
    /\ UNCHANGED <<section, line, cap, list>>

\* The AIC that v2i made is listed.
ListResult ==
    /\ at = "returned"
    /\ call = "section"
    /\ result # NULL
    /\ aic' = result
    /\ origin' = result
    /\ Begins("made")
    /\ Go("version")
    /\ list' = <<>>
    /\ UNCHANGED <<section, line, cap>>

\* The lines listed are read as a section, with the last delegation of the
\* section they came from, which had one or the AIC was not valid.  Both the
\* AIC and the list were freed before.
ReadAgain ==
    /\ at = "returned"
    /\ call = "made"
    /\ ~starved
    /\ \E i \in 1..Len(section) :
          /\ section[i].name = "delegationAuthDer"
          /\ \A j \in i + 1..Len(section) : section[j].name # "delegationAuthDer"
          /\ section' = Append(list, section[i])
    /\ call' = "listed"
    /\ result' = NULL
    /\ Go("new")
    /\ Frees({"aic"}, {"aic"})
    /\ UNCHANGED <<line, aic, cap, list, origin, starved, codecVars>>

\* The caller is done with what it was given.
CallerFrees ==
    /\ at = "returned"
    /\ Go("idle")
    /\ call' = "none"
    /\ section' = <<>>
    /\ line' = 0
    /\ aic' = NULL
    /\ cap' = NULL
    /\ list' = <<>>
    /\ result' = NULL
    /\ origin' = NULL
    /\ codec' = "idle"
    /\ string' = <<>>
    /\ uid' = NULL
    /\ NewBuffer(0)
    /\ held' = {}
    /\ pointers' = {}
    /\ freedTwice' = FALSE
    /\ starved' = FALSE

\* The call returns x; its locals are gone.
Returns(x) ==
    /\ Go("returned")
    /\ result' = x
    /\ UNCHANGED <<call, section, line, aic, cap, list, origin, codecVars>>

-----------------------------------------------------------------------------
(***************************************************************************)
(* v2i_AIC                                                                 *)
(***************************************************************************)

KeepConfig == UNCHANGED <<call, section, list, result, origin>>
KeepCodec == UNCHANGED codecVars

\* err: the AIC is freed, with what belongs to it.
V2iFails ==
    /\ Frees({"aic"}, {"aic"})
    /\ Returns(NULL)

OutOfMemory == V2iFails /\ Starves
Rejected == V2iFails /\ UNCHANGED starved

\* The AIC is there, and its version is 1 until a line says otherwise.
NewAic ==
    /\ at = "new"
    /\ Allocates("aic")
    /\ aic' = [AIC_new EXCEPT !.version = 1]
    /\ line' = 1
    /\ Go("line")
    /\ UNCHANGED cap
    /\ KeepConfig
    /\ KeepCodec

NewAicFails == at = "new" /\ OutOfMemory

AtLine(name) == at = "line" /\ line <= Len(section) /\ Name = name

\* The next line, with the AIC changed to a.
NextLine(a) ==
    /\ aic' = a
    /\ line' = line + 1
    /\ Go("line")
    /\ KeepConfig

AgentId ==
    /\ AtLine("agentId")
    /\ NextLine([aic EXCEPT !.agentId = Whole(Value)])
    /\ UNCHANGED cap
    /\ KeepCodec
    /\ KeepMemory

\* The string is read by AIC_principalUid_from_string.
PrincipalUid ==
    /\ AtLine("principalUid")
    /\ FromString(Value)
    /\ Go("uid")
    /\ UNCHANGED <<line, aic, cap>>
    /\ KeepConfig
    /\ KeepMemory

\* The principal replaces the one of AIC_new or of an earlier line.
PrincipalUidRead ==
    /\ at = "uid"
    /\ codec = "answered"
    /\ "pu" \in pointers
    /\ NextLine([aic EXCEPT !.principalUid = uid])
    /\ HandsOver("pu", {})
    /\ Goto("idle")
    /\ UNCHANGED <<cap, string, uid>>
    /\ KeepLoop

PrincipalUidRefused ==
    /\ at = "uid"
    /\ codec = "answered"
    /\ "pu" \notin pointers
    /\ Rejected

\* (mutant: any word but authorized)
ModeUnlessAuthorized(text) == IF text.id = "authorized" THEN 0 ELSE 1
Mode(text) == IF text.id = "representative" THEN 1 ELSE 0

DelegationMode ==
    /\ AtLine("delegationMode")
    /\ NextLine([aic EXCEPT !.delegationMode = Mode(Whole(Value))])
    /\ UNCHANGED cap
    /\ KeepCodec
    /\ KeepMemory

atol(text) == text.id

Version ==
    /\ AtLine("version")
    /\ atol(Whole(Value)) \in {0, 1, 2}
    /\ NextLine([aic EXCEPT !.version = atol(Whole(Value))])
    /\ UNCHANGED cap
    /\ KeepCodec
    /\ KeepMemory

VersionRefused ==
    /\ AtLine("version")
    /\ atol(Whole(Value)) \notin {0, 1, 2}
    /\ Rejected

\* The number, the text or the stack of a line cannot be allocated.
SettingFails ==
    /\ \/ \E name \in {"agentId", "delegationMode"} : AtLine(name)
       \/ AtLine("authorizationConstraint") /\ aic.authorizationConstraints = NULL
       \/ AtLine("version") /\ atol(Whole(Value)) \in {0, 1, 2}
    /\ OutOfMemory

DelegationAuth ==
    LET bytes == OPENSSL_hexstr2buf(Whole(Value))
    IN  /\ AtLine("delegationAuthDer")
        /\ bytes # NULL
        /\ Allocates("buf")
        /\ Go("der")
        /\ UNCHANGED <<line, aic, cap>>
        /\ KeepConfig
        /\ KeepCodec

DelegationAuthRefused ==
    /\ AtLine("delegationAuthDer")
    /\ IF OPENSSL_hexstr2buf(Whole(Value)) = NULL THEN Rejected ELSE OutOfMemory

\* The buffer is freed whether or not the DER in it was read.
DelegationAuthRead ==
    LET da == d2i_AIC_DELEGATIONAUTH(OPENSSL_hexstr2buf(Whole(Value)))
    IN  /\ at = "der"
        /\ da # NULL
        /\ NextLine([aic EXCEPT !.delegationAuthorization = da])
        /\ Frees({"buf"}, {"buf"})
        /\ UNCHANGED <<cap, starved>>
        /\ KeepCodec

DelegationAuthNotRead ==
    /\ at = "der"
    /\ Frees({"buf", "aic"}, {"buf", "aic"})
    /\ \/ /\ d2i_AIC_DELEGATIONAUTH(OPENSSL_hexstr2buf(Whole(Value))) = NULL
          /\ UNCHANGED starved
       \/ Starves
    /\ Returns(NULL)

Capability == AtLine("capability") \/ AtLine("authorizationConstraint")

OtherLine ==
    /\ at = "line"
    /\ line <= Len(section)
    /\ Name \notin {"agentId", "principalUid", "delegationMode", "version",
                    "capability", "authorizationConstraint",
                    "delegationAuthDer"}
    /\ NextLine(aic)
    /\ UNCHANGED cap
    /\ KeepCodec
    /\ KeepMemory

\* The whole section is read.  (mutant: it is not validated)
Unvalidated(a) == TRUE
Validated(a) == AIC_validate(a)

Validate ==
    /\ at = "line"
    /\ line > Len(section)
    /\ IF Validated(aic) THEN KeepMemory /\ Returns(aic) ELSE Rejected

-----------------------------------------------------------------------------
(***************************************************************************)
(* parse_cap                                                               *)
(***************************************************************************)

\* An absent list of constraints is made before its first line is read.
NewCapability ==
    /\ Capability
    /\ Allocates("cap")
    /\ cap' = AIC_CAPABILITY_new
    /\ aic' = [aic EXCEPT
                  !.authorizationConstraints =
                     IF Name = "capability" THEN @ ELSE Entries(@)]
    /\ Go("names")
    /\ UNCHANGED line
    /\ KeepConfig
    /\ KeepCodec

NewCapabilityFails == Capability /\ OutOfMemory

\* Without a colon the whole value is the scheme; an empty third part is as
\* none.
SetNames ==
    /\ at = "names"
    /\ cap' = [cap EXCEPT
                  !.schemeId = Value[1],
                  !.capabilityId = IF Len(Value) > 1 THEN Value[2] ELSE @]
    /\ Go(IF Len(Value) = 3 /\ Value[3].len > 0 THEN "parameters" ELSE "push")
    /\ UNCHANGED <<line, aic>>
    /\ KeepConfig
    /\ KeepCodec
    /\ KeepMemory

\* err of parse_cap and then of v2i: the capability and the AIC are freed.
CapabilityFails(others) ==
    /\ Frees({"cap", "aic"} \cup others, {"cap", "aic", "pbuf"})
    /\ Returns(NULL)

NamesFail == at = "names" /\ Starves /\ CapabilityFails({})

IsHex == Value[3].id \in DOMAIN HexPrefixed

\* The prefix hex: is there and what follows is decoded to a buffer.
DecodeParameters ==
    /\ at = "parameters"
    /\ IsHex
    /\ OPENSSL_hexstr2buf(HexPrefixed[Value[3].id]) # NULL
    /\ Allocates("pbuf")
    /\ Go("decoded parameters")
    /\ UNCHANGED <<line, aic, cap>>
    /\ KeepConfig
    /\ KeepCodec

ParametersRefused ==
    /\ at = "parameters"
    /\ IsHex
    /\ OPENSSL_hexstr2buf(HexPrefixed[Value[3].id]) = NULL
    /\ CapabilityFails({})
    /\ UNCHANGED starved

SetParameters ==
    /\ \/ at = "parameters" /\ ~IsHex
       \/ at = "decoded parameters"
    /\ cap' = [cap EXCEPT !.parameters =
                  IF IsHex THEN OPENSSL_hexstr2buf(HexPrefixed[Value[3].id])
                  ELSE Value[3]]
    /\ Frees({"pbuf"}, {"pbuf"})
    /\ Go("push")
    /\ UNCHANGED <<line, aic, starved>>
    /\ KeepConfig
    /\ KeepCodec

\* (mutant: the decoded parameters are forgotten)
FreesNothing == {}
FreesDecoded == {"pbuf"}

ParametersFail ==
    /\ at \in {"parameters", "decoded parameters"}
    /\ Starves
    /\ CapabilityFails(FreesDecoded)

\* (mutant: a repeated line replaces the one before it)
WithOnlyCap(name) ==
    IF name = "capability"
    THEN [aic EXCEPT !.capabilities = <<cap>>]
    ELSE [aic EXCEPT !.authorizationConstraints = <<cap>>]

\* The list the line adds to, with the capability at its end.
WithCap(name) ==
    IF name = "capability"
    THEN [aic EXCEPT !.capabilities = Append(@, cap)]
    ELSE [aic EXCEPT !.authorizationConstraints = Append(@, cap)]

PushCapability ==
    /\ at = "push"
    /\ NextLine(WithCap(Name))
    /\ HandsOver("cap", {})
    /\ UNCHANGED cap
    /\ KeepCodec

PushFails ==
    /\ at = "push"
    /\ Starves
    /\ CapabilityFails({})

-----------------------------------------------------------------------------
(***************************************************************************)
(* i2v_AIC                                                                 *)
(***************************************************************************)

\* NULL is returned, without the lines that were added before.
I2vFails(locals) ==
    /\ Frees(locals, locals)
    /\ Starves
    /\ Returns(NULL)

\* X509V3_add_value copies the value, and the locals are freed.
Adds(name, value, locals) ==
    /\ list' = Append(list, [name |-> name, value |-> value])
    /\ Frees(locals, locals)
    /\ UNCHANGED <<starved, call, section, aic, cap, result, origin>>

\* The text is in a block of its own, held by x.
Copies(x, place) ==
    /\ Allocates(x)
    /\ Go(place)
    /\ UNCHANGED <<line, aic, cap>>
    /\ KeepConfig
    /\ KeepCodec

\* snprintf of a long to the buffer num: of a text that is longer than the
\* buffer the last digits are cut off.
Cut(n, limit) ==
    LET Rest[m \in Nat] ==
            IF m \div 10 < limit THEN m \div 10 ELSE Rest[m \div 10]
    IN  IF n < limit THEN n ELSE Rest[n]

num(v) ==
    LET kept == IF v < 0 THEN -Cut(-v, 10^(NumRoom - 2))
                ELSE Cut(v, 10^(NumRoom - 1))
        Longer(k) == IF kept < 0 THEN kept <= -10^(k - 1) ELSE kept >= 10^k
    IN  [len |-> 1 + Cardinality({k \in 1..NumRoom : Longer(k)}), id |-> kept]

ListVersion ==
    /\ at = "version"
    /\ Adds("version", <<num(ASN1_INTEGER_get(aic.version))>>, {})
    /\ Go("agentId")
    /\ UNCHANGED line
    /\ KeepCodec

CopyAgentId == at = "agentId" /\ Copies("s", "add agentId")

ListAgentId ==
    /\ at = "add agentId"
    /\ Adds("agentId", <<aic.agentId>>, {"s"})
    /\ Go("principalUid")
    /\ UNCHANGED line
    /\ KeepCodec

\* The principal is written by AIC_principalUid_to_string.
WriteUid ==
    /\ at = "principalUid"
    /\ ToText(aic.principalUid)
    /\ Go("add principalUid")
    /\ UNCHANGED <<line, aic, cap>>
    /\ KeepConfig
    /\ KeepMemory

ListUid ==
    /\ at = "add principalUid"
    /\ codec = "answered"
    /\ string # <<>>
    /\ Adds("principalUid", string, {"text"})
    /\ Go("mode")
    /\ Goto("idle")
    /\ UNCHANGED <<line, string, uid>>
    /\ KeepLoop

ListMode ==
    LET word == IF ASN1_INTEGER_get(aic.delegationMode) = 1
                THEN "representative" ELSE "authorized"
    IN  /\ at = "mode"
        /\ Adds("delegationMode", <<[len |-> 10, id |-> word]>>, {})
        /\ Go("scheme")
        /\ line' = 1
        /\ KeepCodec

\* The two loops, over the capabilities and then over the constraints.
Listed == aic.capabilities \o Entries(aic.authorizationConstraints)
\* (mutant: the last capability is listed as a constraint)
ListedEarly == IF line < Len(aic.capabilities)
               THEN "capability" ELSE "authorizationConstraint"
ListedName == IF line <= Len(aic.capabilities)
              THEN "capability" ELSE "authorizationConstraint"
AtCapability == at = "scheme" /\ line <= Len(Listed)
This == Listed[line]

\* A name that cannot be copied is taken for an empty one.
NotCopied(place) ==
    /\ Starves
    /\ Go(place)
    /\ UNCHANGED <<held, pointers, freedTwice, line, aic, cap>>
    /\ KeepConfig
    /\ KeepCodec

CopyScheme == AtCapability /\ Copies("sid", "id")
SchemeNotCopied == AtCapability /\ NotCopied("id")
CopyId == at = "id" /\ Copies("cid", "room")
IdNotCopied == at = "id" /\ NotCopied("room")
NewLine == at = "room" /\ Copies("line", "add capability")

\* What is in the line, by its parts.
Scheme == IF "sid" \in pointers THEN This.schemeId ELSE Empty
Id == IF "cid" \in pointers THEN This.capabilityId ELSE Empty
Parameters ==
    IF This.parameters = NULL THEN <<>>
    ELSE <<[len |-> 2 * This.parameters.len,
            id |-> HexText[This.parameters.id]]>>

\* The size of the line.  (mutant: as if parameters were listed as they are)
LineRoomOpaque ==
    Scheme.len + Id.len + 3
      + (IF This.parameters = NULL THEN 0 ELSE This.parameters.len)
LineRoom ==
    Scheme.len + Id.len + 3
      + (IF This.parameters = NULL THEN 0 ELSE 3 * This.parameters.len)

ListCapability ==
    /\ at = "add capability"
    /\ Adds(ListedName, <<Scheme, Id>> \o Parameters, {"sid", "cid", "line"})
    /\ Go("scheme")
    /\ line' = line + 1
    /\ KeepCodec

\* The delegation, if there is one, is only said to be present.
CapabilitiesListed ==
    /\ at = "scheme"
    /\ line > Len(Listed)
    /\ IF aic.delegationAuthorization = NULL
       THEN Returns(list) /\ KeepMemory
       ELSE /\ Adds("delegationAuthorization", <<[len |-> 7, id |-> "present"]>>, {})
            /\ Go("reason")
            /\ UNCHANGED line
            /\ KeepCodec

CopyReason == at = "reason" /\ Copies("s", "add reason")

ListReason ==
    /\ at = "add reason"
    /\ Adds("reasonCode", <<aic.delegationAuthorization.reason.reasonCode>>, {"s"})
    /\ Go("nonce")
    /\ UNCHANGED line
    /\ KeepCodec

CopyNonce == at = "nonce" /\ Copies("hex", "add nonce")

ListNonce ==
    /\ at = "add nonce"
    /\ Adds("nonce", <<aic.delegationAuthorization.nonce>>, {"hex"})
    /\ Go("listed")
    /\ UNCHANGED line
    /\ KeepCodec

AllListed == at = "listed" /\ Returns(list) /\ KeepMemory

\* A copy or a line of the list could not be made.
Locals == {"s", "text", "sid", "cid", "line", "hex"}

ListingFails ==
    /\ \/ at \in {"version", "agentId", "add agentId", "mode", "room",
                   "add capability", "reason", "add reason", "nonce",
                   "add nonce"}
       \/ at = "add principalUid" /\ codec = "answered"
       \/ /\ at = "scheme"
          /\ line > Len(Listed)
          /\ aic.delegationAuthorization # NULL
    /\ I2vFails(Locals)

-----------------------------------------------------------------------------

\* The codec works for one of the two calls.
InCodec ==
    /\ CodecStep
    /\ UNCHANGED configVars

V2iStep ==
    \/ NewAic \/ NewAicFails \/ AgentId \/ PrincipalUid \/ PrincipalUidRead
    \/ PrincipalUidRefused \/ DelegationMode \/ Version \/ VersionRefused
    \/ SettingFails \/ DelegationAuth \/ DelegationAuthRefused
    \/ DelegationAuthRead \/ DelegationAuthNotRead \/ OtherLine \/ Validate
    \/ NewCapability \/ NewCapabilityFails \/ SetNames \/ NamesFail
    \/ DecodeParameters \/ ParametersRefused \/ SetParameters
    \/ ParametersFail \/ PushCapability \/ PushFails

I2vStep ==
    \/ ListVersion \/ CopyAgentId \/ ListAgentId \/ WriteUid \/ ListUid
    \/ ListMode \/ CopyScheme \/ SchemeNotCopied \/ CopyId \/ IdNotCopied
    \/ NewLine \/ ListCapability \/ CapabilitiesListed \/ CopyReason
    \/ ListReason \/ CopyNonce \/ ListNonce \/ AllListed \/ ListingFails

Next ==
    \/ CallV2i \/ CallI2v \/ ListResult \/ ReadAgain \/ CallerFrees
    \/ V2iStep \/ I2vStep \/ InCodec

Spec == Init /\ [][Next]_vars

-----------------------------------------------------------------------------
(***************************************************************************)
(* What a section says, taken as a whole                                   *)
(***************************************************************************)

\* The lines of a name among the first n of a section, and the last of them.
Named(s, name, n) == {i \in 1..n : s[i].name = name}
Has(s, name, n) == Named(s, name, n) # {}
LastOf(s, name, n) ==
    CHOOSE i \in Named(s, name, n) : \A j \in Named(s, name, n) : j <= i
LastValue(s, name, n) == s[LastOf(s, name, n)].value

\* How many lines have a name, and which is the k-th of them.
Count(s, name, n) == Cardinality(Named(s, name, n))
Nth(s, name, k) ==
    CHOOSE i \in 1..Len(s) : s[i].name = name /\ Count(s, name, i) = k

HasParameters(value) == Len(value) = 3 /\ value[3].len > 0
Prefixed(value) == value[3].id \in DOMAIN HexPrefixed

\* The parameters of a line, when it has some that can be decoded.
ParametersOf(value) ==
    IF ~HasParameters(value) THEN NULL
    ELSE IF Prefixed(value) THEN OPENSSL_hexstr2buf(HexPrefixed[value[3].id])
    ELSE value[3]

CapabilityOf(value) ==
    [schemeId |-> value[1],
     capabilityId |-> IF Len(value) > 1 THEN value[2] ELSE Empty,
     parameters |-> ParametersOf(value)]

DelegationOf(value) ==
    LET bytes == OPENSSL_hexstr2buf(Whole(value))
    IN  IF bytes = NULL THEN NULL ELSE d2i_AIC_DELEGATIONAUTH(bytes)

\* Every line can be read, also one that a later line makes pointless.
Readable(l) ==
    /\ l.name = "principalUid" => NamesPrincipal(l.value)
    /\ l.name = "version" => atol(Whole(l.value)) \in {0, 1, 2}
    /\ l.name = "delegationAuthDer" => DelegationOf(l.value) # NULL
    /\ l.name \in {"capability", "authorizationConstraint"} =>
          (HasParameters(l.value) /\ Prefixed(l.value) => ParametersOf(l.value) # NULL)

CapabilitiesOf(s, name, n) ==
    [k \in 1..Count(s, name, n) |-> CapabilityOf(s[Nth(s, name, k)].value)]

\* The AIC of the first n lines of a section, when they can all be read: the
\* last line of a name counts, but capabilities and constraints add up.
Described(s, n) ==
    [version |-> IF Has(s, "version", n)
                 THEN atol(Whole(LastValue(s, "version", n))) ELSE 1,
     agentId |-> IF Has(s, "agentId", n) THEN Whole(LastValue(s, "agentId", n))
                 ELSE Empty,
     principalUid |-> IF Has(s, "principalUid", n)
                      THEN UidOf(LastValue(s, "principalUid", n))
                      ELSE AIC_PRINCIPALUID_new,
     capabilities |-> CapabilitiesOf(s, "capability", n),
     delegationMode |->
        IF /\ Has(s, "delegationMode", n)
           /\ Whole(LastValue(s, "delegationMode", n)).id = "representative"
        THEN 1 ELSE 0,
     authorizationConstraints |->
        IF Has(s, "authorizationConstraint", n)
        THEN CapabilitiesOf(s, "authorizationConstraint", n) ELSE NULL,
     delegationAuthorization |->
        IF Has(s, "delegationAuthDer", n)
        THEN DelegationOf(LastValue(s, "delegationAuthDer", n)) ELSE NULL]

AllDescribed == Described(section, Len(section))
AllReadable == \A i \in 1..Len(section) : Readable(section[i])

\* A line that the configuration format knows, with a value it knows.
Names == {"version", "agentId", "principalUid", "delegationMode", "capability",
          "authorizationConstraint", "delegationAuthDer"}
Proper(l) ==
    /\ l.name \in Names
    /\ l.name = "delegationMode" => Whole(l.value).id \in {"authorized", "representative"}
    /\ l.name = "version" => atol(Whole(l.value)) \in {1, 2}

\* The lines of an AIC, with the fingerprint given.
HeadLines(a, fingerprint) ==
    <<[name |-> "version", value |-> <<num(ASN1_INTEGER_get(a.version))>>],
      [name |-> "agentId", value |-> <<a.agentId>>],
      [name |-> "principalUid",
       value |-> <<a.principalUid.realm, a.principalUid.identifier, fingerprint>>],
      [name |-> "delegationMode",
       value |-> <<[len |-> 10, id |-> IF ASN1_INTEGER_get(a.delegationMode) = 1
                                       THEN "representative" ELSE "authorized"]>>]>>

InHex(parameters) ==
    IF parameters = NULL THEN <<>>
    ELSE <<[len |-> 2 * parameters.len, id |-> HexText[parameters.id]]>>

CapabilityLines(kind, caps) ==
    [i \in 1..Len(caps) |->
        [name |-> kind,
         value |-> <<caps[i].schemeId, caps[i].capabilityId>> \o InHex(caps[i].parameters)]]

DelegationLines(da) ==
    IF da = NULL THEN <<>>
    ELSE <<[name |-> "delegationAuthorization", value |-> <<[len |-> 7, id |-> "present"]>>],
           [name |-> "reasonCode", value |-> <<da.reason.reasonCode>>],
           [name |-> "nonce", value |-> <<da.nonce>>]>>

Listing(a, fingerprint) ==
    HeadLines(a, fingerprint)
      \o CapabilityLines("capability", a.capabilities)
      \o CapabilityLines("authorizationConstraint", Entries(a.authorizationConstraints))
      \o DelegationLines(a.delegationAuthorization)

\* A capability that is listed and read again: parameters in hexadecimal are
\* taken as they stand.
AsListed(c) ==
    [c EXCEPT !.parameters =
        IF c.parameters = NULL \/ c.parameters.len = 0 THEN NULL
        ELSE [len |-> 2 * c.parameters.len, id |-> HexText[c.parameters.id]]]

\* What the lines of a section say of capabilities and constraints.  NULL is no
\* list of them, and hexadecimal does not begin with hex:.
Said(s) ==
    {CapabilityOf(s[i].value) :
        i \in Named(s, "capability", Len(s)) \cup Named(s, "authorizationConstraint", Len(s))}

ASSUME NullIsNoList ==
    \A s \in Sections : NULL \notin Seq(Said(s) \cup {AsListed(c) : c \in Said(s)})

ASSUME HexHasNoPrefix ==
    \A s \in Sections : \A c \in Said(s) :
        c.parameters # NULL => HexText[c.parameters.id] \notin DOMAIN HexPrefixed

\* The characters spell the bytes and no more.
IsFingerprintOf(characters, bytes) ==
    /\ Len(characters) = (8 * Len(bytes) + 5) \div 6
    /\ Spelled(characters) = bytes
    /\ LeftOver(characters) \subseteq {0}

-----------------------------------------------------------------------------
(***************************************************************************)
(* Properties                                                              *)
(***************************************************************************)

Returned(calls) == at = "returned" /\ call \in calls

\* The state of a call is what its place says: an AIC under construction has
\* the block aic, a capability the block cap, and the codec runs only when it
\* was called (v2i_AIC, parse_cap and i2v_AIC in src/v3_aic.c).
TypeOK ==
    /\ call \in {"none", "section", "certificate", "made", "listed"}
    /\ held \subseteq {"aic", "cap", "pbuf", "buf", "pu"} \cup {"fp"} \cup Locals
    /\ freedTwice \in BOOLEAN /\ starved \in BOOLEAN
    /\ line \in Nat
    /\ at \in {"names", "parameters", "decoded parameters", "push"} =>
          {"cap", "aic"} \subseteq held /\ line <= Len(section)
    /\ codec # "idle" => at \in {"uid", "add principalUid", "returned"}
    /\ bits \in 0..6 /\ pos \in Nat /\ room \in Nat

\* An AIC that v2i_AIC makes from a section, line by line, is the one that
\* the section as a whole describes, of lines that can all be read, and valid
\* when a delegation is among them; a section of proper lines that describes
\* a valid AIC makes it; and nothing is made when an allocation failed
\* (v2i_AIC, its lines in any order and number, over parse_cap and
\* AIC_principalUid_from_string).
ResultIsReading ==
    Returned({"section", "listed"}) =>
        /\ result # NULL =>
              /\ AllReadable /\ result = AllDescribed
              /\ Has(section, "delegationAuthDer", Len(section)) => AIC_validate(result)
        /\ starved => result = NULL
        /\ /\ ~starved /\ AllReadable /\ AIC_validate(AllDescribed)
           /\ \A i \in 1..Len(section) : Proper(section[i])
           => result = AllDescribed

\* The lines say the same; of parameters only the bytes that are noted count,
\* in whatever notation OPENSSL_hexstr2buf decodes.
SameParameters(s, t) ==
    {s.id, t.id} \subseteq DOMAIN HexBytes /\ HexBytes[s.id] = HexBytes[t.id]
SameLine(l, m) ==
    \/ l = m
    \/ /\ l.name = m.name /\ m.name \in {"capability", "authorizationConstraint"}
       /\ Len(l.value) = 3 /\ Len(m.value) = 3
       /\ l.value[1] = m.value[1] /\ l.value[2] = m.value[2]
       /\ SameParameters(l.value[3], m.value[3])

\* i2v_AIC lists an AIC, valid or not, in a fixed order with a fingerprint
\* that spells its key hash, when every allocation succeeds; a version with
\* more characters than its buffer loses the last of them.
ListingPrinted ==
    Returned({"certificate", "made"}) /\ ~starved =>
        LET fingerprint == result[3].value[3]
            listing == Listing(origin, fingerprint)
        IN  /\ Len(result) = Len(listing)
            /\ \A i \in 1..Len(listing) : SameLine(result[i], listing[i])
            /\ IsFingerprintOf(fingerprint.id, origin.principalUid.keyHash.id)

NoParameters(a) ==
    \A c \in {a.capabilities[i] : i \in 1..Len(a.capabilities)} \cup
              {Entries(a.authorizationConstraints)[i] :
                  i \in 1..Len(Entries(a.authorizationConstraints))} :
        c.parameters = NULL

\* What i2v_AIC lists of an AIC that v2i_AIC made, and that has no parameters,
\* is read by v2i_AIC as the same AIC, once the delegation that the listing
\* only calls present is given again.
ReadsBack ==
    Returned({"listed"}) /\ ~starved /\ NoParameters(origin) => result = origin

\* When a call returns, it holds no block but the AIC it made: not after an
\* error in any line, nor after an allocation failed.  Only the principal is
\* lost, when its hash algorithm cannot be allocated
\* (AIC_principalUid_from_string, v2i_AIC, i2v_AIC).
NothingElseLost ==
    at = "returned" =>
        held = (IF call = "made" \/ (call # "certificate" /\ result # NULL)
                THEN {"aic"} ELSE {})
               \cup (IF freedTwice THEN {"pu"} ELSE {})

\* Nothing is freed twice, except the decoded key hash when the hash algorithm
\* cannot be allocated (AIC_principalUid_from_string jumps to err with the
\* hash already freed).
FreedOnce == [][freedTwice' => freedTwice \/ (Err /\ "pu" \in held)]_vars

\* Nothing is written behind the end of a buffer: the decoded hash, the
\* encoded fingerprint, or a capability line with its parameters in
\* hexadecimal (b64url_decode, b64url_encode, i2v_AIC).
BuffersFit ==
    /\ CodecFits
    /\ at = "add capability" =>
          Scheme.len + 1 + Id.len
            + (IF Parameters = <<>> THEN 0 ELSE 1 + Parameters[1].len) + 1
          <= LineRoom
=============================================================================
