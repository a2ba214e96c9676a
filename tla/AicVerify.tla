----------------------------- MODULE AicVerify -------------------------------
(***************************************************************************)
(* AIC_verify_cert (src/aic_verify.c), called by several callers that may  *)
(* share anti-replay contexts.                                             *)
(*                                                                         *)
(* One action per step of the function, in its order: read the extension,  *)
(* validate it, check its nonce, find the principal, verify the            *)
(* delegation.  The contexts appear as the sets of nonces they hold, with  *)
(* AIC_replay_check one atomic step: ReplayCache shows that, under the     *)
(* callers' lock.  Memory may run out at every step.                       *)
(***************************************************************************)
EXTENDS DelegationAuth, AicVerdict

CONSTANTS
    Callers,     \* threads that verify certificates
    Caches,      \* anti-replay contexts
    Requests     \* arguments of AIC_verify_cert

(***************************************************************************)
(* A request: cert, or NULL; untrusted, the SPKIs of the candidate         *)
(* certificates, or NULL; opts, or NULL.  A certificate is [spki, ext]     *)
(* where ext.status tells what X509_get_ext_d2i finds and ext.aic is the   *)
(* AIC when it finds one that decodes.  starved is not an argument but the *)
(* circumstance that allocations may fail in the call.                     *)
(***************************************************************************)
ASSUME RequestConstants ==
    /\ NULL \notin Requests
    /\ NULL \notin Caches
    /\ \A r \in Requests :
          /\ r.starved \in BOOLEAN
          /\ r.cert # NULL => r.cert.spki \in Keys
          /\ r.cert # NULL /\ r.cert.ext.status = "present" =>
                SignedByPrincipal(r.cert.ext.aic.delegationAuthorization)
          /\ r.opts # NULL => r.opts.flags \subseteq FlagBits
          /\ r.untrusted # NULL => r.untrusted \in Seq(Keys)
          /\ r.opts # NULL => r.opts.replay \in Caches \union {NULL}

VARIABLES
    pc,       \* pc[c]: the next step of caller c
    req,      \* req[c]: the arguments of its last call
    user,     \* user[c]: userCert, the SPKI of the principal's certificate
    verdict,  \* verdict[c]: what the last call returned: 1, 0 or -1
    spent,    \* spent[x]: the nonces context x holds
    granted   \* history: <<x, nonce>> for which a call with x returned 1

vars == <<pc, req, user, verdict, spent, granted>>

\* What a caller may last have asked.
LastRequests == Requests \union {NULL}

Steps == {"decode", "validate", "replay", "find", "verify"}

Init ==
    /\ pc = [c \in Callers |-> "idle"]
    /\ req = [c \in Callers |-> NULL]
    /\ user = [c \in Callers |-> NULL]
    /\ verdict = [c \in Callers |-> 0]
    /\ spent = [x \in Caches |-> {}]
    /\ granted = {}

-----------------------------------------------------------------------------
(***************************************************************************)
(* What a request asks for                                                 *)
(***************************************************************************)

\* opts == NULL stands for the two default checks.
Flags(r) == IF r.opts = NULL THEN {"CHECK_SPKI", "VERIFY_DA"} ELSE r.opts.flags

Cache(r) == IF r.opts = NULL THEN NULL ELSE r.opts.replay

Untrusted(r) == IF r.untrusted = NULL THEN <<>> ELSE r.untrusted

Aic(r) == r.cert.ext.aic

Nonce(r) == Aic(r).delegationAuthorization.nonce

\* The first certificate whose SPKI hashes to keyHash, which must be a
\* SHA-256 by its length.
KeyHashMatches(uid, spki) ==
    /\ uid.keyHash.len = 32
    /\ uid.keyHash = SHA256(spki)

Matching(r) ==
    {i \in 1..Len(Untrusted(r)) :
        KeyHashMatches(Aic(r).principalUid, Untrusted(r)[i])}

-----------------------------------------------------------------------------
Call(c, r) ==
    /\ pc[c] = "idle"
    /\ pc' = [pc EXCEPT ![c] = "decode"]
    /\ req' = [req EXCEPT ![c] = r]
    /\ user' = [user EXCEPT ![c] = NULL]
    /\ UNCHANGED <<verdict, spent, granted>>

Return(c, v) ==
    /\ pc' = [pc EXCEPT ![c] = "idle"]
    /\ verdict' = [verdict EXCEPT ![c] = v]

Goto(c, step) ==
    /\ pc' = [pc EXCEPT ![c] = step]
    /\ UNCHANGED verdict

\* What is returned without an extension (mutant: REQUIRE is forgotten)
SkipAlways(r) == -1
Skip(r) == IF "REQUIRE" \in Flags(r) THEN 0 ELSE -1

\* X509_get_ext_d2i returns NULL for an absent extension, for two of them,
\* for one that does not decode and when memory runs out.
Decode(c) ==
    LET r == req[c]
    IN  /\ pc[c] = "decode"
        /\ \/ r.cert = NULL /\ Return(c, 0)
           \/ /\ r.cert # NULL
              /\ r.cert.ext.status # "present" \/ r.starved
              /\ Return(c, Skip(r))
           \/ /\ r.cert # NULL
              /\ r.cert.ext.status = "present"
              /\ Goto(c, "validate")
        /\ UNCHANGED <<req, user, spent, granted>>

\* (mutant: the return value of AIC_validate is not looked at)
ValidateUnchecked(c) ==
    /\ pc[c] = "validate"
    /\ Goto(c, "replay")
    /\ UNCHANGED <<req, user, spent, granted>>
Validate(c) ==
    /\ pc[c] = "validate"
    /\ IF AIC_validate(Aic(req[c])) THEN Goto(c, "replay") ELSE Return(c, 0)
    /\ UNCHANGED <<req, user, spent, granted>>

\* AIC_replay_check, which spends the nonce before the principal and the
\* signature are known (mutant: the nonce is compared and not stored)
SpendNothing(x, nonce) == UNCHANGED spent
Spend(x, nonce) == spent' = [spent EXCEPT ![x] = @ \union {nonce}]

Replay(c) ==
    LET r == req[c]
        x == Cache(r)
    IN  /\ pc[c] = "replay"
        /\ \/ /\ "REPLAY" \notin Flags(r)
              /\ Goto(c, "find")
              /\ UNCHANGED spent
           \/ /\ "REPLAY" \in Flags(r)
              /\ (x # NULL => Nonce(r) \in spent[x]) \/ r.starved
              /\ Return(c, 0)
              /\ UNCHANGED spent
           \/ /\ "REPLAY" \in Flags(r)
              /\ x # NULL
              /\ Nonce(r) \notin spent[x]
              /\ Spend(x, Nonce(r))
              /\ Goto(c, "find")
        /\ UNCHANGED <<req, user, granted>>

\* The SPKI of a candidate may fail to encode, so that a later match is taken
\* or none; matching certificates all carry the same key.  (mutant: the first
\* candidate is taken, whatever CHECK_SPKI asks)
FindFirst(c) ==
    /\ pc[c] = "find"
    /\ user' = [user EXCEPT ![c] =
          IF Untrusted(req[c]) = <<>> THEN NULL ELSE Untrusted(req[c])[1]]
    /\ Goto(c, "verify")
    /\ UNCHANGED <<req, spent, granted>>
FindUser(c) ==
    LET r == req[c]
    IN  /\ pc[c] = "find"
        /\ \/ /\ "CHECK_SPKI" \in Flags(r)
              /\ \E i \in Matching(r) : user' = [user EXCEPT ![c] = Untrusted(r)[i]]
              /\ Goto(c, "verify")
           \/ /\ "CHECK_SPKI" \in Flags(r)
              /\ Matching(r) = {} \/ r.starved
              /\ Return(c, 0)
              /\ UNCHANGED user
           \/ /\ "CHECK_SPKI" \notin Flags(r)
              /\ user' = [user EXCEPT ![c] =
                    IF Untrusted(r) = <<>> THEN NULL ELSE Untrusted(r)[1]]
              /\ Goto(c, "verify")
        /\ UNCHANGED <<req, spent, granted>>

\* An SPKI that fails to encode is passed on as NULL.
SpkiRead(r) == {r.cert.spki} \union (IF r.starved THEN {NULL} ELSE {})

\* The call returns 1
Accept(c) ==
    LET r == req[c]
    IN  /\ Return(c, 1)
        /\ granted' = IF "REPLAY" \in Flags(r)
                      THEN granted \union {<<Cache(r), Nonce(r)>>} ELSE granted

\* X509_get_pubkey gives no key for an algorithm OpenSSL does not know.
PublicKeyUnusable(c) ==
    \/ user[c] # NULL => KeyType[user[c]] = "unsupported"
    \/ req[c].starved

VerifyDa(c) ==
    LET r == req[c]
        aic == Aic(r)
        da == aic.delegationAuthorization
    IN  /\ pc[c] = "verify"
        /\ \/ "VERIFY_DA" \notin Flags(r) /\ Accept(c)
           \/ /\ "VERIFY_DA" \in Flags(r)
              /\ PublicKeyUnusable(c)
              /\ Return(c, 0)
              /\ UNCHANGED granted
           \/ /\ "VERIFY_DA" \in Flags(r)
              /\ user[c] # NULL /\ KeyType[user[c]] # "unsupported"
              /\ \E mem \in Memory(r.starved), spki \in SpkiRead(r) :
                    IF AIC_verify_da_ex(da, aic, user[c], spki, mem) # 0
                    THEN Accept(c)
                    ELSE Return(c, 0) /\ UNCHANGED granted
        /\ UNCHANGED <<req, user, spent>>

Step(c) == Decode(c) \/ Validate(c) \/ Replay(c) \/ FindUser(c) \/ VerifyDa(c)

Next ==
    \E c \in Callers :
        \/ \E r \in Requests : Call(c, r)
        \/ Step(c)

Spec == Init /\ [][Next]_vars

-----------------------------------------------------------------------------
(***************************************************************************)
(* Properties                                                              *)
(***************************************************************************)

TypeOK ==
    /\ pc \in [Callers -> Steps \union {"idle"}]
    /\ req \in [Callers -> LastRequests]
    /\ user \in [Callers -> Keys \union {NULL}]
    /\ verdict \in [Callers -> {-1, 0, 1}]
    /\ DOMAIN spent = Caches
    /\ \A g \in granted : g[1] \in Caches /\ g[2] \in spent[g[1]]

Returned(c, v) == pc[c] = "idle" /\ req[c] # NULL /\ verdict[c] = v

\* Whose signature counts: with CHECK_SPKI the candidate that hashes to
\* keyHash, without it the first candidate.
Principal(r, key) ==
    IF "CHECK_SPKI" \in Flags(r)
    THEN /\ \E i \in 1..Len(Untrusted(r)) : Untrusted(r)[i] = key
         /\ Aic(r).principalUid.keyHash = SHA256(key)
    ELSE Untrusted(r) # <<>> /\ Untrusted(r)[1] = key

\* AIC_verify_cert returns 1 under AIC_VERIFY_VERIFY_DA only for a valid AIC
\* whose principal signed a delegation of exactly these capabilities to this
\* agent, and, for a version 2 delegation, to the very key of the certificate:
\* through the version 0 fallback, the algorithm dispatch and every failed
\* allocation.
AcceptedWasDelegated ==
    \A c \in Callers :
        Returned(c, 1) /\ "VERIFY_DA" \in Flags(req[c]) =>
            LET aic == Aic(req[c])
            IN  /\ AIC_validate(aic)
                /\ \E d \in Delegations :
                      /\ Principal(req[c], d.key)
                      /\ Covers(d, aic, aic.delegationAuthorization, req[c].cert.spki)

\* "anti-replay: reject reused nonces" (src/aic_verify.h): whatever the
\* interleaving of the callers of a context, it lets a nonce through once.
NonceGrantedOnce ==
    [][\A c \in Callers :
          pc[c] = "verify" /\ pc'[c] = "idle" /\ verdict'[c] = 1
          /\ "REPLAY" \in Flags(req[c])
          => <<Cache(req[c]), Nonce(req[c])>> \notin granted]_vars

\* An AIC that fails AIC_validate never uses up the nonce of a good one.
NonceSpentByValidAic ==
    [][\A x \in Caches : spent'[x] # spent[x] =>
          \E c \in Callers :
              /\ pc[c] = "replay" /\ Cache(req[c]) = x
              /\ AIC_validate(Aic(req[c]))
              /\ spent'[x] = spent[x] \union {Nonce(req[c])}]_vars

\* A genuine delegation: structurally valid, signed by its principal with the
\* algorithm it declares, and for the key of the certificate.
Genuine(r) ==
    /\ r.cert # NULL
    /\ r.cert.ext.status = "present"
    /\ AIC_validate(Aic(r))
    /\ LET da == Aic(r).delegationAuthorization
           d == da.signatureValue.of
       IN  /\ d # NULL
           /\ Principal(r, d.key)
           /\ Covers(d, Aic(r), da, r.cert.spki)
           /\ KeyType[d.key] # "unsupported"
           /\ Digest(da.signatureAlgorithm) # "unsupported"
           /\ SetUpWorks(d.key, da.signatureAlgorithm)
           /\ d.scheme = Scheme(d.key, da.signatureAlgorithm)

\* The calls that returned and neither ran out of memory nor checked a nonce.
Undisturbed(c) ==
    /\ pc[c] = "idle" /\ req[c] # NULL
    /\ ~req[c].starved /\ "REPLAY" \notin Flags(req[c])

\* A genuine delegation of either version that was signed with RSA or ECDSA is
\* verified, a version 0 AIC included: "fall back to v1 so pre-v0.6.0 certs
\* still verify".
GenuineAccepted ==
    \A c \in Callers :
        /\ Undisturbed(c)
        /\ Genuine(req[c])
        /\ UpdateWorks(Aic(req[c]).delegationAuthorization.signatureValue.of.key)
        => verdict[c] = 1

\* "dispatching on the declared signatureAlgorithm OID (ECDSA / RSA-PKCS1 /
\* RSA-PSS / Ed25519)" (src/aic_verify.h): genuine delegations of all four are
\* verified.
EveryAlgorithmVerified ==
    \A c \in Callers : Undisturbed(c) /\ Genuine(req[c]) => verdict[c] = 1

\* The request as AicVerdict sees it.
ExtensionState(r) ==
    IF r.cert.ext.status = "absent" THEN "absent"
    ELSE IF r.cert.ext.status # "present" THEN "unreadable"
    ELSE IF AIC_validate(Aic(r)) THEN "valid" ELSE "malformed"

Signs(r, key) ==
    /\ KeyType[key] # "unsupported"
    /\ AIC_verify_da_ex(Aic(r).delegationAuthorization, Aic(r), key, r.cert.spki,
                        {1, 2}) # 0

Candidates(r) ==
    IF ExtensionState(r) # "valid" THEN <<>>
    ELSE [i \in 1..Len(Untrusted(r)) |->
             [matches |-> KeyHashMatches(Aic(r).principalUid, Untrusted(r)[i]),
              signs   |-> Signs(r, Untrusted(r)[i])]]

\* The verdict on a request when memory does not run out and its nonce is fresh.
BestVerdict(r) ==
    IF r.cert = NULL THEN 0
    ELSE Verdict(ExtensionState(r), Candidates(r), Flags(r), Cache(r) # NULL)

\* With memory, and with no nonce check asked for, the steps of AIC_verify_cert
\* together answer the verdict, which the callback and the tool rely on.
AnswersVerdict ==
    \A c \in Callers : Undisturbed(c) => verdict[c] = BestVerdict(req[c])

\* The other verdicts on a request: 0 for a spent nonce, and for memory that
\* runs out once the extension is read; before that, the answer to a
\* certificate without one.
Permitted(r) ==
    {v \in {-1, 0, 1} :
        \/ v = BestVerdict(r)
        \/ /\ v = 0
           /\ r.cert # NULL /\ ExtensionState(r) = "valid"
           /\ "REPLAY" \in Flags(r) \/ r.starved
        \/ v = Skip(r) /\ r.cert # NULL /\ r.starved}

\* A nonce is good for one grant of its context.
Tickets(r) == IF "REPLAY" \in Flags(r) THEN {<<Cache(r), Nonce(r)>>} ELSE {}

InCall == {c \in Callers : pc[c] # "idle"}

Gate == INSTANCE DelegationGate
    WITH Clients <- Callers, asked <- req, open <- InCall

\* The steps of the callers, however they interleave and wherever allocations
\* fail, amount to one decision per call: no failure and no order of calls ever
\* gets a request granted that memory and a fresh nonce would see refused, and
\* a nonce of a context is worth one grant.
ImplementsGate == Gate!GateSpec

\* "-1 no AIC extension and AIC_VERIFY_REQUIRE not set" (src/aic_verify.h):
\* a call that skips, with memory, had no extension to look at.
SkipMeansNoExtension ==
    \A c \in Callers : Returned(c, -1) /\ ~req[c].starved =>
        req[c].cert.ext.status = "absent"
=============================================================================
