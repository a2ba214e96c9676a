----------------------------- MODULE AicTemplates -----------------------------
(***************************************************************************)
(* The ASN.1 templates of src/v3_aic.c and the structures of src/v3_aic.h: *)
(* what AIC_new and the like allocate.  A SIMPLE field is there from the   *)
(* start, empty; an OPTIONAL one is NULL until somebody sets it.           *)
(***************************************************************************)
EXTENDS AicExtension

Empty == [len |-> 0, id |-> ""]

\* An OBJECT IDENTIFIER inside a new AlgorithmIdentifier.
Undefined == "undef"

AIC_REASON_new == [reasonCode |-> Empty, description |-> Empty]

AIC_CAPABILITY_new ==
    [schemeId |-> Empty, capabilityId |-> Empty, parameters |-> NULL]

AIC_PRINCIPALUID_new ==
    [version |-> 0, realm |-> Empty, identifier |-> Empty, keyHash |-> Empty,
     hashAlgo |-> NULL]

AIC_DELEGATIONAUTH_new ==
    [reason |-> AIC_REASON_new, requestedLifetime |-> 0, timestamp |-> "",
     nonce |-> Empty, signatureAlgorithm |-> Undefined,
     signatureValue |-> Empty]

\* The vendor extensions stay NULL in everything this code makes.
AIC_new ==
    [version |-> 0, agentId |-> Empty, principalUid |-> AIC_PRINCIPALUID_new,
     capabilities |-> <<>>, delegationMode |-> 0,
     authorizationConstraints |-> NULL, delegationAuthorization |-> NULL]
=============================================================================
