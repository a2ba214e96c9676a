------------------------ MODULE DelegationAuthProofs -------------------------
(***************************************************************************)
(* What a successful AIC_verify_da_ex establishes, for every key, AIC and  *)
(* set of delegations, and every width of int and long.                    *)
(***************************************************************************)
EXTENDS DirectVerify, TLAPS

LEMMA SmallModulo ==
  ASSUME NEW a \in Nat, NEW b \in Nat, a < b
  PROVE  a % b = a
  BY SMT

\* A version that the format knows survives the long and the cast to int.
LEMMA KnownVersionKept ==
  ASSUME NEW aic, aic.version \in {1, 2}
  PROVE  DaVersion(aic) = aic.version
<1> DEFINE v == aic.version
<1>1. IntMax \in Nat /\ LongMax \in Nat /\ IntMax >= 2 /\ LongMax >= IntMax
  BY ExtensionConstants
<1>2. ASN1_INTEGER_get(v) = v
  BY <1>1 DEF ASN1_INTEGER_get
<1>3. (v + IntMax + 1) % (2 * (IntMax + 1)) = v + IntMax + 1
  BY <1>1, SmallModulo
<1> QED
  BY <1>1, <1>2, <1>3 DEF DaVersion, CastToInt

\* An integer that reads as a non-negative long is that integer.
LEMMA ReadBack ==
  ASSUME NEW i, NEW j \in 0..LongMax, ASN1_INTEGER_get(i) = j
  PROVE  i = j
  BY ExtensionConstants DEF ASN1_INTEGER_get

\* One version attempt that succeeds found a delegation of that version that
\* covers the AIC.
LEMMA OneSound ==
  ASSUME NEW aic, NEW key, NEW spki, NEW mem, NEW version \in {1, 2},
         NEW da, da # NULL, SignedByPrincipal(da),
         VerifyDaOne(da, aic, key, version, spki, mem),
         aic.version \in {1, 2} => aic.version = version
  PROVE  /\ version = 2 => spki # NULL
         /\ \E d \in Delegations :
               d.key = key /\ d.tbs.version = version /\ Covers(d, aic, da, spki)
<1> DEFINE d == da.signatureValue.of
<1>1. d \in Delegations /\ d.key = key /\ d.tbs = Tbs(aic, da, version, spki)
  BY DEF VerifyDaOne, Verifies, SignedByPrincipal
<1>2. version = 2 => spki # NULL
  BY DEF VerifyDaOne, TbsExists
<1>3. /\ d.tbs.version = version
      /\ d.tbs.agentId = aic.agentId
      /\ d.tbs.principalUid = aic.principalUid
      /\ d.tbs.reason = da.reason
      /\ d.tbs.capabilities = aic.capabilities
      /\ d.tbs.delegationMode = ASN1_INTEGER_get(aic.delegationMode)
      /\ d.tbs.authorizationConstraints = aic.authorizationConstraints
      /\ d.tbs.requestedLifetime = ASN1_INTEGER_get(da.requestedLifetime)
      /\ d.tbs.timestamp = da.timestamp
      /\ d.tbs.nonce = da.nonce
      /\ d.tbs.agentKeyBinding = AgentKeyBinding(version, spki)
  BY <1>1 DEF Tbs
<1>4. d.tbs.delegationMode \in 0..LongMax /\ d.tbs.requestedLifetime \in 0..LongMax
  BY <1>1, DelegationConstants
<1>5. /\ d.tbs.delegationMode = aic.delegationMode
      /\ d.tbs.requestedLifetime = da.requestedLifetime
  BY <1>3, <1>4, ReadBack
<1>6. version = 2 => d.tbs.agentKeyBinding.keyHash = SHA256(spki)
  BY <1>3 DEF AgentKeyBinding
<1>7. Covers(d, aic, da, spki)
  BY <1>3, <1>5, <1>6 DEF Covers
<1> QED
  BY <1>1, <1>2, <1>3, <1>7

\* What AIC_verify_da_ex reports, it found.
LEMMA VerifyDaExSound ==
  ASSUME NEW aic, NEW key, NEW spki, NEW mem,
         NEW da, SignedByPrincipal(da),
         AIC_verify_da_ex(da, aic, key, spki, mem) # 0
  PROVE  \E d \in Delegations :
            /\ d.key = key
            /\ d.tbs.version = AIC_verify_da_ex(da, aic, key, spki, mem)
            /\ d.tbs.version = 2 => spki # NULL
            /\ Covers(d, aic, da, spki)
<1> DEFINE v == AIC_verify_da_ex(da, aic, key, spki, mem)
<1>1. /\ da # NULL
      /\ v \in {1, 2}
      /\ VerifyDaOne(da, aic, key, v, spki, mem)
      /\ DaVersion(aic) \in {0, v}
  BY DEF AIC_verify_da_ex
<1>2. aic.version \in {1, 2} => aic.version = v
  BY <1>1, KnownVersionKept
<1> HIDE DEF v
<1>3. /\ v = 2 => spki # NULL
      /\ \E d \in Delegations :
            d.key = key /\ d.tbs.version = v /\ Covers(d, aic, da, spki)
  <2>1. ASSUME NEW w \in {1, 2}, w = v
        PROVE  /\ w = 2 => spki # NULL
               /\ \E d \in Delegations :
                     d.key = key /\ d.tbs.version = w /\ Covers(d, aic, da, spki)
    <3>1. VerifyDaOne(da, aic, key, w, spki, mem) /\ da # NULL
      BY <1>1, <2>1
    <3>2. aic.version \in {1, 2} => aic.version = w
      BY <1>2, <2>1
    <3> QED
      BY <3>1, <3>2, <2>1, OneSound, Z3
  <2> QED
    BY <1>1, <2>1
<1> QED
  BY <1>3 DEF v

-----------------------------------------------------------------------------
\* A version that the format knows is the int that is switched on.
LEMMA ValidVersion ==
  ASSUME NEW aic, VersionValid(aic)
  PROVE  aic.version \in {0, 1, 2} /\ DaVersion(aic) = aic.version
<1>1. IntMax \in Nat /\ LongMax \in Nat /\ IntMax >= 2 /\ LongMax >= IntMax
  BY ExtensionConstants
<1>2. aic.version \in {0, 1, 2}
  <2>1. PICK j \in 0..LongMax : j \in {0, 1, 2} /\ ASN1_INTEGER_get(aic.version) = j
    BY <1>1 DEF VersionValid
  <2> QED
    BY <2>1, ReadBack
<1>3. CASE aic.version = 0
  <2>1. ASN1_INTEGER_get(0) = 0
    BY <1>1 DEF ASN1_INTEGER_get
  <2>2. (0 + IntMax + 1) % (2 * (IntMax + 1)) = IntMax + 1
    BY <1>1, SmallModulo
  <2>3. CastToInt(0) = 0
    BY <1>1, <2>2 DEF CastToInt
  <2> QED
    BY <1>3, <2>1, <2>3 DEF DaVersion
<1> QED
  BY <1>2, <1>3, KnownVersionKept

\* What is rebuilt from an AIC that a delegation covers is what was signed.
LEMMA SignedIsRebuilt ==
  ASSUME NEW aic, NEW da, NEW spki, NEW d \in Delegations, Covers(d, aic, da, spki)
  PROVE  d.tbs = Tbs(aic, da, d.tbs.version, spki)
<1> DEFINE t == d.tbs
<1>1. /\ t = TbsFields(t)
      /\ t.delegationMode \in 0..LongMax /\ t.requestedLifetime \in 0..LongMax
      /\ \/ t.version = 1 /\ t.agentKeyBinding = NULL
         \/ /\ t.version = 2
            /\ \E k \in Keys : t.agentKeyBinding =
                  [keyHash |-> SHA256(k), hashAlgo |-> "sha256"]
  BY DelegationConstants
<1>2. /\ t.agentId = aic.agentId /\ t.principalUid = aic.principalUid
      /\ t.reason = da.reason /\ t.capabilities = aic.capabilities
      /\ t.delegationMode = aic.delegationMode
      /\ t.authorizationConstraints = aic.authorizationConstraints
      /\ t.requestedLifetime = da.requestedLifetime
      /\ t.timestamp = da.timestamp /\ t.nonce = da.nonce
      /\ t.version = 2 => t.agentKeyBinding.keyHash = SHA256(spki)
  BY DEF Covers
<1>3. /\ ASN1_INTEGER_get(aic.delegationMode) = t.delegationMode
      /\ ASN1_INTEGER_get(da.requestedLifetime) = t.requestedLifetime
  BY <1>1, <1>2, ExtensionConstants DEF ASN1_INTEGER_get
<1>4. AgentKeyBinding(t.version, spki) = t.agentKeyBinding
  <2>1. CASE t.version = 1 /\ t.agentKeyBinding = NULL
    BY <2>1 DEF AgentKeyBinding
  <2>2. ASSUME NEW k \in Keys, t.version = 2,
               t.agentKeyBinding = [keyHash |-> SHA256(k), hashAlgo |-> "sha256"]
        PROVE  AgentKeyBinding(t.version, spki) = t.agentKeyBinding
    <3>1. PICK b : b = t.agentKeyBinding
      OBVIOUS
    <3>2. b = [keyHash |-> SHA256(k), hashAlgo |-> "sha256"]
      BY <2>2, <3>1
    <3>3. b.keyHash = SHA256(spki)
      BY <1>2, <2>2, <3>1
    <3>4. b = [keyHash |-> SHA256(spki), hashAlgo |-> "sha256"]
      BY <3>2, <3>3
    <3> QED
      BY <2>2, <3>1, <3>4 DEF AgentKeyBinding
  <2> QED
    BY <1>1, <2>1, <2>2
<1>5. Tbs(aic, da, t.version, spki) = TbsFields(t)
  BY <1>2, <1>3, <1>4 DEF Tbs, TbsFields
<1> QED
  BY <1>1, <1>5

\* With memory a delegation that covers the AIC and was signed as declared is
\* found, under whatever version the AIC has.
LEMMA VerifyDaExComplete ==
  ASSUME NEW aic, VersionValid(aic), NEW spki, spki # NULL,
         NEW da, da # NULL,
         NEW d \in Delegations, d = da.signatureValue.of, Covers(d, aic, da, spki),
         Digest(da.signatureAlgorithm) # "unsupported",
         SetUpWorks(d.key, da.signatureAlgorithm), UpdateWorks(d.key),
         d.scheme = Scheme(d.key, da.signatureAlgorithm)
  PROVE  AIC_verify_da_ex(da, aic, d.key, spki, {1, 2}) # 0
<1>1. d.tbs.version \in {1, 2} /\ d # NULL
  BY DelegationConstants
<1>2. VerifyDaOne(da, aic, d.key, d.tbs.version, spki, {1, 2})
  BY <1>1, SignedIsRebuilt DEF VerifyDaOne, TbsExists, Verifies
<1>3. aic.version \in {0, 1, 2} /\ DaVersion(aic) = aic.version
  BY ValidVersion
<1>4. aic.version \in {1, 2} => d.tbs.version = aic.version
  BY DEF Covers
<1> QED
  BY <1>1, <1>2, <1>3, <1>4 DEF AIC_verify_da_ex

\* An allocation that fails, of a TBS or of the agent's SPKI, never gets a
\* delegation verified that would not verify with memory: the fallback of a
\* version 0 AIC is tried in both cases.
LEMMA MemoryOnlyRefuses ==
  ASSUME NEW da, NEW aic, NEW key, NEW spki, NEW s \in {spki, NULL}, NEW mem,
         AIC_verify_da_ex(da, aic, key, s, mem) # 0
  PROVE  AIC_verify_da_ex(da, aic, key, spki, {1, 2}) # 0
<1>1. PICK v \in {1, 2} :
         /\ da # NULL
         /\ DaVersion(aic) \in {0, v}
         /\ VerifyDaOne(da, aic, key, v, s, mem)
  BY DEF AIC_verify_da_ex
<1>2. TbsExists(v, spki, {1, 2})
  BY <1>1 DEF VerifyDaOne, TbsExists
<1>3. Tbs(aic, da, v, s) = Tbs(aic, da, v, spki)
  <2>1. v = 2 => s = spki
    BY <1>1 DEF VerifyDaOne, TbsExists
  <2>2. AgentKeyBinding(v, s) = AgentKeyBinding(v, spki)
    BY <2>1 DEF AgentKeyBinding
  <2> QED
    BY <2>2 DEF Tbs
<1>4. VerifyDaOne(da, aic, key, v, spki, {1, 2})
  BY <1>1, <1>2, <1>3 DEF VerifyDaOne
<1> QED
  BY <1>1, <1>4 DEF AIC_verify_da_ex

-----------------------------------------------------------------------------
(* The public entry points *)

Reported == call # NULL => call \in DirectRequests
ReportedInv == Reported /\ (call = NULL => daVersion = 0) /\ ReportedWasDelegated

\* ReportedWasDelegated: whatever AIC is handed to AIC_verify_da_ex, validated
\* or not, a reported version is that of a delegation the key signed.
THEOREM ReportedDelegated == DirectSpec => []ReportedWasDelegated
<1>1. DirectInit => ReportedInv
  BY DEF DirectInit, ReportedInv, Reported, ReportedWasDelegated
<1>2. ReportedInv /\ [DirectNext]_directVars => ReportedInv'
  <2> SUFFICES ASSUME ReportedInv, [DirectNext]_directVars PROVE ReportedInv'
    OBVIOUS
  <2>1. ASSUME NEW r \in DirectRequests, VerifyDaEx(r) PROVE ReportedInv'
    <3>1. call' = r /\ r # NULL /\ SignedByPrincipal(r.da)
      BY <2>1, DirectConstants DEF VerifyDaEx
    <3>2. CASE daVersion' = 0
      BY <3>1, <3>2 DEF ReportedInv, Reported, ReportedWasDelegated
    <3>3. ASSUME NEW mem,
                 daVersion' = AIC_verify_da_ex(r.da, r.aic, r.key, r.spki, mem)
          PROVE  ReportedInv'
      <4>1. daVersion' # 0 =>
               \E d \in Delegations :
                  /\ d.key = r.key /\ d.tbs.version = daVersion'
                  /\ Covers(d, r.aic, r.da, r.spki)
        BY <3>1, <3>3, VerifyDaExSound
      <4> QED
        BY <3>1, <4>1 DEF ReportedInv, Reported, ReportedWasDelegated
    <3> QED
      BY <2>1, <3>2, <3>3 DEF VerifyDaEx
  <2>2. CASE UNCHANGED directVars
    BY <2>2 DEF directVars, ReportedInv, Reported, ReportedWasDelegated
  <2> QED
    BY <2>1, <2>2 DEF DirectNext, DirectVerifyDa
<1>3. ReportedInv => ReportedWasDelegated
  BY DEF ReportedInv
<1> QED
  BY <1>1, <1>2, <1>3, PTL DEF DirectSpec
=============================================================================
