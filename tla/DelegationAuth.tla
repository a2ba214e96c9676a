--------------------------- MODULE DelegationAuth ----------------------------
(***************************************************************************)
(* The DelegationAuthorization check of src/aic_verify.c: the rebuilding   *)
(* of the signed DelegationAuthTBS, the signature check and the choice of  *)
(* the DA version.                                                         *)
(*                                                                         *)
(* Cryptography is symbolic.  A public key stands for itself and for its   *)
(* SPKI; SHA256 is injective; a signatureValue [len, of] is the signature  *)
(* of one delegation `of`, or of nothing (NULL), and a delegation is what  *)
(* the holder of a key once signed: [key, scheme, tbs].                    *)
(***************************************************************************)
EXTENDS AicExtension

CONSTANTS
    Keys,         \* the public keys
    KeyType,      \* KeyType[k]: "rsa", "ec", "ed25519" or "unsupported"
    Delegations   \* what the principals have signed

\* Of a string of bytes: SHA-256 keeps different SPKIs apart.
SHA256(spki) == [len |-> 32, id |-> spki]

\* The fields of a DelegationAuthTBS.
TbsFields(t) ==
    [version |-> t.version, agentId |-> t.agentId,
     principalUid |-> t.principalUid, reason |-> t.reason,
     capabilities |-> t.capabilities, delegationMode |-> t.delegationMode,
     authorizationConstraints |-> t.authorizationConstraints,
     requestedLifetime |-> t.requestedLifetime, timestamp |-> t.timestamp,
     nonce |-> t.nonce, agentKeyBinding |-> t.agentKeyBinding]

\* What a principal signs (external): a TBS of version 1 or 2 with the
\* delegation modes and lifetimes of the format, bound to an agent's key in
\* version 2.
ASSUME DelegationConstants ==
    /\ NULL \notin Keys
    /\ NULL \notin Delegations
    /\ \A d \in Delegations :
          /\ d.tbs = TbsFields(d.tbs)
          /\ d.tbs.delegationMode \in 0..LongMax
          /\ d.tbs.requestedLifetime \in 0..LongMax
          /\ \/ d.tbs.version = 1 /\ d.tbs.agentKeyBinding = NULL
             \/ /\ d.tbs.version = 2
                /\ \E k \in Keys : d.tbs.agentKeyBinding =
                      [keyHash |-> SHA256(k), hashAlgo |-> "sha256"]

\* Signatures cannot be forged: the bytes of a signatureValue are the signature
\* of a delegation that was signed, or of nothing.
SignedByPrincipal(da) ==
    da # NULL => da.signatureValue.of \in Delegations \union {NULL}

-----------------------------------------------------------------------------
(***************************************************************************)
(* aic_build_tbs                                                           *)
(***************************************************************************)

\* AgentKeyBinding of DA version 2: the SPKI of the agent's certificate.
\* (mutant: the binding is left out)
AgentKeyBindingDropped(version, spki) == NULL
AgentKeyBinding(version, spki) ==
    IF version = 2 THEN [keyHash |-> SHA256(spki), hashAlgo |-> "sha256"]
                   ELSE NULL

\* mutant: the authorization constraints are not copied
TbsWithoutConstraints(aic, da, version, spki) ==
    [version                  |-> version,
     agentId                  |-> aic.agentId,
     principalUid             |-> aic.principalUid,
     reason                   |-> da.reason,
     capabilities             |-> aic.capabilities,
     delegationMode           |-> ASN1_INTEGER_get(aic.delegationMode),
     authorizationConstraints |-> NULL,
     requestedLifetime        |-> ASN1_INTEGER_get(da.requestedLifetime),
     timestamp                |-> da.timestamp,
     nonce                    |-> da.nonce,
     agentKeyBinding          |-> AgentKeyBinding(version, spki)]

Tbs(aic, da, version, spki) ==
    [version                  |-> version,
     agentId                  |-> aic.agentId,
     principalUid             |-> aic.principalUid,
     reason                   |-> da.reason,
     capabilities             |-> aic.capabilities,
     delegationMode           |-> ASN1_INTEGER_get(aic.delegationMode),
     authorizationConstraints |-> aic.authorizationConstraints,
     requestedLifetime        |-> ASN1_INTEGER_get(da.requestedLifetime),
     timestamp                |-> da.timestamp,
     nonce                    |-> da.nonce,
     agentKeyBinding          |-> AgentKeyBinding(version, spki)]

\* When a TBS can be rebuilt: any of its allocations may fail, and version 2
\* without an agent SPKI fails closed.  mem is the set of the versions whose
\* allocations succeed.
TbsExists(version, spki, mem) ==
    /\ version \in {1, 2}
    /\ version \in mem
    /\ version = 2 => spki # NULL

-----------------------------------------------------------------------------
(***************************************************************************)
(* Signature algorithms                                                    *)
(***************************************************************************)

\* da_digest_nid: "none" is the pure signature of Ed25519.
Digest(oid) ==
    CASE oid \in {"rsa-sha256", "ecdsa-sha256", "rsassaPss"} -> "sha256"
      [] oid \in {"rsa-sha384", "ecdsa-sha384"} -> "sha384"
      [] oid \in {"rsa-sha512", "ecdsa-sha512"} -> "sha512"
      [] oid = "ed25519" -> "none"
      [] OTHER -> "unsupported"

IsPss(oid) == oid = "rsassaPss"

(***************************************************************************)
(* What EVP_DigestVerifyInit and the two padding calls set up for a key    *)
(* (external).  The key decides on the algorithm, the OID only on digest   *)
(* and padding: an EC key under an RSA OID is ECDSA; a missing digest is   *)
(* the default SHA-256 of the key's type; Ed25519 takes no digest, and PSS *)
(* needs an RSA key, else the set-up fails.                                *)
(***************************************************************************)
SetUpWorks(key, oid) ==
    /\ KeyType[key] = "ed25519" => Digest(oid) = "none"
    /\ IsPss(oid) => KeyType[key] = "rsa"

\* EVP_DigestVerifyUpdate (external): OpenSSL 3 verifies an Ed25519 signature
\* in one call and takes no data in pieces for it.
UpdateWorks(key) == KeyType[key] # "ed25519"

Scheme(key, oid) ==
    [algorithm |-> KeyType[key],
     padding   |-> IF IsPss(oid) THEN "pss" ELSE "default",
     digest    |-> IF Digest(oid) = "none" /\ KeyType[key] # "ed25519"
                   THEN "sha256" ELSE Digest(oid)]

-----------------------------------------------------------------------------
(***************************************************************************)
(* aic_verify_da_one and AIC_verify_da_ex                                  *)
(***************************************************************************)

Verifies(signature, key, scheme, tbs) ==
    /\ signature.of # NULL
    /\ signature.of.key = key
    /\ signature.of.scheme = scheme
    /\ signature.of.tbs = tbs

VerifyDaOne(da, aic, key, version, spki, mem) ==
    LET oid == da.signatureAlgorithm
    IN  /\ TbsExists(version, spki, mem)
        /\ Digest(oid) # "unsupported"
        /\ SetUpWorks(key, oid)
        /\ UpdateWorks(key)
        /\ Verifies(da.signatureValue, key, Scheme(key, oid),
                    Tbs(aic, da, version, spki))

\* The C int that AIC_verify_da_ex switches on.
DaVersion(aic) == CastToInt(ASN1_INTEGER_get(aic.version))

\* The version AIC_verify_da_ex reports in *daVersion, 0 when it returns 0.
\* A version 0 AIC is tried as version 2, then as version 1.
\* (mutant: a version 2 AIC falls back to version 1 as well)
VerifyDaExFallsBack(da, aic, key, spki, mem) ==
    LET One(v) == VerifyDaOne(da, aic, key, v, spki, mem)
    IN  IF da # NULL /\ DaVersion(aic) \in {0, 2} /\ One(2) THEN 2
        ELSE IF da # NULL /\ DaVersion(aic) \in {0, 1, 2} /\ One(1) THEN 1 ELSE 0
AIC_verify_da_ex(da, aic, key, spki, mem) ==
    LET One(v) == VerifyDaOne(da, aic, key, v, spki, mem)
    IN  IF da # NULL /\ DaVersion(aic) \in {0, 2} /\ One(2) THEN 2
        ELSE IF da # NULL /\ DaVersion(aic) \in {0, 1} /\ One(1) THEN 1 ELSE 0

\* Which of the two TBS versions find memory in one call.
Memory(fails) == IF fails THEN SUBSET {1, 2} ELSE {{1, 2}}

-----------------------------------------------------------------------------
(***************************************************************************)
(* What a verified delegation is worth (for the properties)                *)
(***************************************************************************)

\* The delegation d covers every field of the AIC and of the authorization da
\* that says who may do what, and, when it is bound to an agent key, that key.
Covers(d, aic, da, spki) ==
    /\ d.tbs.agentId = aic.agentId
    /\ d.tbs.principalUid = aic.principalUid
    /\ d.tbs.reason = da.reason
    /\ d.tbs.capabilities = aic.capabilities
    /\ d.tbs.delegationMode = aic.delegationMode
    /\ d.tbs.authorizationConstraints = aic.authorizationConstraints
    /\ d.tbs.requestedLifetime = da.requestedLifetime
    /\ d.tbs.timestamp = da.timestamp
    /\ d.tbs.nonce = da.nonce
    /\ d.tbs.version = 2 => d.tbs.agentKeyBinding.keyHash = SHA256(spki)
    /\ aic.version \in {1, 2} => d.tbs.version = aic.version
=============================================================================
