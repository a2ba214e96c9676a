-------------------------- MODULE MCDelegationAuth ---------------------------
(***************************************************************************)
(* Keys, delegations and extensions for the small instances.  ints have 3  *)
(* bits and longs 5, so that there are versions that fit a long and are    *)
(* changed by the cast to int.                                             *)
(*                                                                         *)
(* Every AIC starts from a delegation some principal signed, is given a    *)
(* version and a declared algorithm, and is then changed in at most one    *)
(* field.                                                                  *)
(***************************************************************************)
EXTENDS DelegationAuth

CONSTANTS alice, bob, edna, agent1, agent2

MCKeys == {alice, bob, edna, agent1, agent2}

\* edna's key is an Ed25519 key, agent2 has one OpenSSL does not know.
MCKeyType == [k \in MCKeys |->
    CASE k \in {alice, agent1} -> "rsa" [] k = bob -> "ec"
      [] k = edna -> "ed25519" [] k = agent2 -> "unsupported"]

Text(len, id) == [len |-> len, id |-> id]

Capability(scheme, name) ==
    [schemeId |-> Text(10, scheme), capabilityId |-> Text(4, name),
     parameters |-> NULL]
Read == Capability("tool", "read")
Write == Capability("tool", "write")
Limit == Capability("constraint", "max-concurrent")

Uid(keyHash) ==
    [version |-> 1, realm |-> Text(128, "r"), identifier |-> Text(256, "i"),
     keyHash |-> keyHash, hashAlgo |-> NULL]

Reason == [reasonCode |-> Text(64, "code"), description |-> Text(512, "why")]

Plain(type, digest) ==
    [algorithm |-> type, padding |-> "default", digest |-> digest]

\* A delegation by key with nonce number n; agent is NULL for version 1.
Delegation(key, scheme, agent, caps, constraints, mode, n) ==
    [key |-> key, scheme |-> scheme,
     tbs |-> [version |-> IF agent = NULL THEN 1 ELSE 2,
              agentId |-> Text(5, "agent"),
              principalUid |-> Uid(SHA256(key)),
              reason |-> Reason,
              capabilities |-> caps,
              delegationMode |-> mode,
              authorizationConstraints |-> constraints,
              requestedLifetime |-> 0,
              timestamp |-> "t",
              nonce |-> Text(32, n),
              agentKeyBinding |-> IF agent = NULL THEN NULL
                 ELSE [keyHash |-> SHA256(agent), hashAlgo |-> "sha256"]]]

MCDelegations ==
    {Delegation(alice, Plain("rsa", "sha256"), NULL, <<Read>>, NULL, 0, "n1"),
     Delegation(alice, [Plain("rsa", "sha256") EXCEPT !.padding = "pss"],
                agent2, <<Read>>, <<Limit>>, 1, "n1"),
     Delegation(bob, Plain("ec", "sha256"), agent1, <<Read>>, NULL, 0, "n2"),
     Delegation(edna, Plain("ed25519", "none"), agent1, <<Read>>, NULL, 0, "n2")}

\* An AIC around the TBS of d that declares the version and the algorithm.
Extension(d, version, oid) ==
    [version |-> version,
     agentId |-> d.tbs.agentId,
     principalUid |-> d.tbs.principalUid,
     capabilities |-> d.tbs.capabilities,
     delegationMode |-> d.tbs.delegationMode,
     authorizationConstraints |-> d.tbs.authorizationConstraints,
     delegationAuthorization |->
        [reason |-> d.tbs.reason, requestedLifetime |-> d.tbs.requestedLifetime,
         timestamp |-> d.tbs.timestamp, nonce |-> d.tbs.nonce,
         signatureAlgorithm |-> oid,
         signatureValue |-> [len |-> 64, of |-> d]]]

\* One field differs from what was signed, or is out of its range.
Changes(a) ==
    {a,
     [a EXCEPT !.agentId = Text(0, "")],
     [a EXCEPT !.principalUid.keyHash = SHA256(agent1)],
     [a EXCEPT !.principalUid.keyHash.len = 48],
     [a EXCEPT !.principalUid.realm.len = 129],
     [a EXCEPT !.capabilities = <<Read, Write>>],
     [a EXCEPT !.capabilities = <<>>],
     [a EXCEPT !.capabilities = <<Read, Read, Write>>],
     [a EXCEPT !.capabilities = <<Limit>>],
     [a EXCEPT !.authorizationConstraints = IF @ = NULL THEN <<Limit>> ELSE NULL],
     [a EXCEPT !.authorizationConstraints = <<Read>>],
     [a EXCEPT !.delegationMode = LongMax + 1],
     [a EXCEPT !.delegationAuthorization.requestedLifetime = LongMax + 1],
     [a EXCEPT !.delegationAuthorization.nonce.len = 31],
     [a EXCEPT !.delegationAuthorization.reason.description.len = 513],
     [a EXCEPT !.delegationAuthorization.signatureValue = [len |-> 0, of |-> NULL]],
     [a EXCEPT !.delegationAuthorization.signatureValue.of = NULL],
     [a EXCEPT !.delegationAuthorization = NULL]}

\* The algorithm the delegation was signed with.
DeclaredOid(d) ==
    CASE d.scheme.padding = "pss" -> "rsassaPss"
      [] d.scheme.algorithm = "ec" -> "ecdsa-sha256"
      [] d.scheme.algorithm = "ed25519" -> "ed25519"
      [] OTHER -> "rsa-sha256"

\* 0, 1, 2, one that an int truncates to 1, and one that no long holds.
Versions == {0, 1, 2, 1 + 2 * (IntMax + 1), LongMax + 1}
Oids == {"rsa-sha256", "rsassaPss", "ecdsa-sha384", "ed25519", "md5"}

AllExtensions ==
    {Extension(d, v, oid) : d \in MCDelegations, v \in Versions, oid \in Oids}
    \union UNION {Changes(Extension(d, v, DeclaredOid(d))) :
                     d \in MCDelegations, v \in {0, 2}}
=============================================================================
