---------------------------- MODULE AicExtension -----------------------------
(***************************************************************************)
(* The decoded AIC extension and AIC_validate (src/v3_aic.c).              *)
(*                                                                         *)
(* An AIC is a record with the fields of AIC_st.  A string or an octet     *)
(* string is a "text" [len, id]: len is its length in bytes and id its     *)
(* content as the C code compares it.  A field that the ASN.1 template     *)
(* marks SIMPLE is allocated by AIC_new and by the decoder, so that it is  *)
(* there in every AIC the program holds; an OPTIONAL one may be NULL.      *)
(* Vendor extensions [1] are carried along by the code and never read.     *)
(***************************************************************************)
EXTENDS Integers, Sequences

CONSTANTS
    NULL,             \* an absent optional field, a NULL pointer
    LongMax,          \* the largest C long
    IntMax,           \* the largest C int
    MaxCapabilities,  \* AIC_MAX_CAPABILITIES (256)
    MaxConstraints    \* AIC_MAX_CONSTRAINTS (32)

ASSUME ExtensionConstants ==
    /\ IntMax \in Nat \ {0, 1}
    /\ LongMax \in Nat
    /\ LongMax >= IntMax
    /\ MaxCapabilities \in Nat
    /\ MaxConstraints \in Nat

-----------------------------------------------------------------------------
(***************************************************************************)
(* Integers                                                                *)
(***************************************************************************)

\* A decoded INTEGER has any size; one that no long holds reads as -1.
ASN1_INTEGER_get(i) == IF i \in -(LongMax + 1)..LongMax THEN i ELSE -1

\* The cast (int) of a long keeps the low bits.
CastToInt(i) == ((i + IntMax + 1) % (2 * (IntMax + 1))) - (IntMax + 1)

-----------------------------------------------------------------------------
(***************************************************************************)
(* AIC_validate                                                            *)
(***************************************************************************)

Length(text, least, most) == text.len \in least..most

\* An absent optional list counts as an empty one.
Entries(list) == IF list = NULL THEN <<>> ELSE list

Every(list, Test(_)) == \A i \in 1..Len(list) : Test(list[i])

VersionValid(aic) == ASN1_INTEGER_get(aic.version) \in {0, 1, 2}

PrincipalUidValid(uid) ==
    /\ Length(uid.realm, 1, 128)
    /\ Length(uid.identifier, 1, 256)
    /\ Length(uid.keyHash, 1, 64)

DelegationAuthValid(da) ==
    /\ da # NULL
    /\ Length(da.reason.reasonCode, 1, 64)
    /\ Length(da.reason.description, 1, 512)
    /\ da.nonce.len = 32
    /\ da.signatureValue.len # 0

\* The two scheme names that authorizationConstraints must use, and that
\* capabilities must not.
IsConstraint(cap) == cap.schemeId.id \in {"constraint", "constraint-v1"}
IsPlain(cap) == ~IsConstraint(cap)

CapabilitiesValid(aic) ==
    LET caps == aic.capabilities
        constraints == Entries(aic.authorizationConstraints)
    IN  /\ Len(caps) <= MaxCapabilities
        /\ Len(constraints) <= MaxConstraints
        /\ Every(constraints, IsConstraint)
        /\ Every(caps, IsPlain)
        /\ caps # <<>> \/ constraints # <<>>

AIC_validate(aic) ==
    /\ aic # NULL
    /\ VersionValid(aic)
    /\ aic.agentId.len # 0
    /\ PrincipalUidValid(aic.principalUid)
    /\ DelegationAuthValid(aic.delegationAuthorization)
    /\ CapabilitiesValid(aic)
=============================================================================
