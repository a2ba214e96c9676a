--------------------------- MODULE AicVerifyProofs ---------------------------
(***************************************************************************)
(* Proofs about AicVerify, for every set of callers, contexts, requests,   *)
(* keys and delegations, and every width of int and long.                  *)
(***************************************************************************)
EXTENDS AicVerify, DelegationAuthProofs, TLAPS

-----------------------------------------------------------------------------
(***************************************************************************)
(* The inductive invariant                                                 *)
(***************************************************************************)

\* What a caller knows of its request when it has come to a step.
Known(c) ==
    /\ pc[c] # "idle" => req[c] \in Requests
    /\ pc[c] \in {"validate", "replay", "find", "verify"} =>
          req[c].cert # NULL /\ req[c].cert.ext.status = "present"
    /\ pc[c] \in {"replay", "find", "verify"} => AIC_validate(Aic(req[c]))
    /\ pc[c] = "verify" /\ user[c] # NULL => Principal(req[c], user[c])

\* A caller past the nonce check holds its nonce.
Holds(c) == pc[c] \in {"find", "verify"} /\ "REPLAY" \in Flags(req[c])

Claim(c) == <<Cache(req[c]), Nonce(req[c])>>

\* A held nonce is spent, held by one caller, and not granted yet.
Claims ==
    /\ \A c \in Callers : Holds(c) =>
          /\ Cache(req[c]) \in Caches
          /\ Nonce(req[c]) \in spent[Cache(req[c])]
          /\ Claim(c) \notin granted
    /\ \A c, e \in Callers : Holds(c) /\ Holds(e) /\ Claim(c) = Claim(e) => c = e

IInv ==
    /\ TypeOK
    /\ \A c \in Callers : Known(c)
    /\ Claims
    /\ AcceptedWasDelegated

LEMMA InvInit == Init => IInv
  BY RequestConstants
  DEF Init, IInv, TypeOK, LastRequests, Steps, Known, Claims, Holds, AcceptedWasDelegated, Returned

\* The candidates are keys.
LEMMA UntrustedKeys ==
  ASSUME NEW r \in Requests
  PROVE  Untrusted(r) \in Seq(Keys)
  BY RequestConstants DEF Untrusted

LEMMA CacheKnown ==
  ASSUME NEW r \in Requests
  PROVE  Cache(r) \in Caches \union {NULL}
  BY RequestConstants DEF Cache

-----------------------------------------------------------------------------
(***************************************************************************)
(* Each conjunct is preserved                                              *)
(***************************************************************************)

LEMMA TypeStep == IInv /\ [Next]_vars => TypeOK'
<1> SUFFICES ASSUME IInv, [Next]_vars PROVE TypeOK'
  OBVIOUS
<1> USE DEF IInv, TypeOK, LastRequests, Steps
<1>1. ASSUME NEW c \in Callers, NEW r \in Requests, Call(c, r) PROVE TypeOK'
  BY <1>1 DEF Call
<1>2. ASSUME NEW c \in Callers, Decode(c) PROVE TypeOK'
  BY <1>2 DEF Decode, Skip, Return, Goto
<1>3. ASSUME NEW c \in Callers, Validate(c) PROVE TypeOK'
  BY <1>3 DEF Validate, Return, Goto
<1>4. ASSUME NEW c \in Callers, Replay(c) PROVE TypeOK'
  <2>1. DOMAIN spent' = Caches /\ \A x \in Caches : spent[x] \subseteq spent'[x]
    BY <1>4 DEF Replay, Spend
  <2>2. pc' \in [Callers -> Steps \union {"idle"}] /\ verdict' \in [Callers -> {-1, 0, 1}]
    BY <1>4 DEF Replay, Return, Goto
  <2> QED
    BY <1>4, <2>1, <2>2 DEF Replay
<1>5. ASSUME NEW c \in Callers, FindUser(c) PROVE TypeOK'
  <2>1. req[c] \in Requests
    BY <1>5 DEF FindUser, Known
  <2>2. \A i \in 1..Len(Untrusted(req[c])) : Untrusted(req[c])[i] \in Keys
    BY <2>1, UntrustedKeys
  <2>3. Untrusted(req[c]) # <<>> => Untrusted(req[c])[1] \in Keys
    BY <2>1, UntrustedKeys
  <2>4. user' \in [Callers -> Keys \union {NULL}]
    BY <1>5, <2>2, <2>3 DEF FindUser, Matching
  <2>5. pc' \in [Callers -> Steps \union {"idle"}] /\ verdict' \in [Callers -> {-1, 0, 1}]
    BY <1>5 DEF FindUser, Return, Goto
  <2> QED
    BY <1>5, <2>4, <2>5 DEF FindUser
<1>6. ASSUME NEW c \in Callers, VerifyDa(c) PROVE TypeOK'
  <2>1. pc' \in [Callers -> Steps \union {"idle"}] /\ verdict' \in [Callers -> {-1, 0, 1}]
    BY <1>6 DEF VerifyDa, Return, Accept
  <2>2. \A g \in granted' : g[1] \in Caches /\ g[2] \in spent[g[1]]
    <3>1. CASE granted' = granted
      BY <3>1
    <3>2. CASE "REPLAY" \in Flags(req[c]) /\ granted' = granted \union {Claim(c)}
      BY <1>6, <3>2 DEF VerifyDa, Claims, Holds, Claim
    <3> QED
      BY <1>6, <3>1, <3>2 DEF VerifyDa, Accept, Claim
  <2> QED
    BY <1>6, <2>1, <2>2 DEF VerifyDa
<1>7. CASE UNCHANGED vars
  BY <1>7 DEF vars
<1> QED
  BY <1>1, <1>2, <1>3, <1>4, <1>5, <1>6, <1>7 DEF Next, Step

\* A step of c leaves the other callers where they were.
LEMMA OthersStand ==
  ASSUME TypeOK, NEW c \in Callers, Step(c) \/ \E r \in Requests : Call(c, r)
  PROVE  \A e \in Callers \ {c} :
            /\ pc'[e] = pc[e] /\ req'[e] = req[e]
            /\ user'[e] = user[e] /\ verdict'[e] = verdict[e]
  BY DEF TypeOK, Step, Call, Decode, Validate, Replay, FindUser, VerifyDa,
     Return, Goto, Accept

LEMMA KnownStep ==
  ASSUME IInv, NEW c \in Callers, Step(c) \/ \E r \in Requests : Call(c, r)
  PROVE  \A e \in Callers : Known(e)'
<1>1. \A e \in Callers \ {c} : Known(e)'
  BY OthersStand DEF IInv, Known
<1>t. TypeOK /\ Known(c)
  BY DEF IInv
<1>2. ASSUME NEW r \in Requests, Call(c, r) PROVE Known(c)'
  BY <1>2, <1>t DEF Call, Known, TypeOK
<1>3. CASE Decode(c)
  <2>1. req' = req /\ req[c] \in Requests
    BY <1>3, <1>t DEF Decode, Known
  <2>2. \/ pc'[c] = "idle"
        \/ /\ pc'[c] = "validate" /\ req[c].cert # NULL
           /\ req[c].cert.ext.status = "present"
    BY <1>3, <1>t DEF Decode, Return, Goto, TypeOK
  <2> QED
    BY <2>1, <2>2, <1>1 DEF Known
<1>4. CASE Validate(c)
  BY <1>1, <1>4, <1>t DEF Validate, Known, Return, Goto, TypeOK
<1>5. CASE Replay(c)
  <2>1. req' = req /\ pc[c] = "replay" /\ pc'[c] \in {"idle", "find"}
    BY <1>5, <1>t DEF Replay, Return, Goto, TypeOK
  <2> QED
    BY <1>1, <2>1, <1>t DEF Known
<1>6. CASE FindUser(c)
  <2>1. req' = req /\ pc[c] = "find" /\ pc'[c] \in {"idle", "verify"}
    BY <1>6, <1>t DEF FindUser, Return, Goto, TypeOK
  <2>2. pc'[c] = "verify" /\ user'[c] # NULL => Principal(req[c], user'[c])
    <3>1. CASE /\ "CHECK_SPKI" \in Flags(req[c])
               /\ \E i \in Matching(req[c]) :
                     user' = [user EXCEPT ![c] = Untrusted(req[c])[i]]
      BY <3>1, <1>t DEF TypeOK, Matching, KeyHashMatches, Principal
    <3>2. CASE pc'[c] = "idle"
      BY <3>2
    <3>3. CASE /\ "CHECK_SPKI" \notin Flags(req[c])
               /\ user' = [user EXCEPT ![c] =
                    IF Untrusted(req[c]) = <<>> THEN NULL ELSE Untrusted(req[c])[1]]
      BY <3>3, <1>t DEF TypeOK, Principal
    <3> QED
      BY <1>6, <3>1, <3>2, <3>3, <1>t DEF FindUser, Return, TypeOK
  <2> QED
    BY <1>1, <2>1, <2>2, <1>t DEF Known
<1>7. CASE VerifyDa(c)
  <2>1. req' = req /\ pc'[c] = "idle"
    BY <1>7, <1>t DEF VerifyDa, Return, Accept, TypeOK
  <2> QED
    BY <1>1, <2>1 DEF Known
<1> QED
  BY <1>1, <1>2, <1>3, <1>4, <1>5, <1>6, <1>7 DEF Step

LEMMA ClaimsStep ==
  ASSUME IInv, NEW c \in Callers, Step(c) \/ \E r \in Requests : Call(c, r)
  PROVE  Claims'
<1>t. TypeOK /\ Known(c) /\ Claims
  BY DEF IInv
<1>o. \A e \in Callers \ {c} : pc'[e] = pc[e] /\ req'[e] = req[e]
  BY OthersStand DEF IInv
<1>1. CASE \E r \in Requests : Call(c, r)
  <2>1. ~Holds(c)' /\ UNCHANGED <<spent, granted>>
    BY <1>1, <1>t DEF Call, Holds, TypeOK
  <2> QED
    BY <2>1, <1>t, <1>o DEF Claims, Holds, Claim
<1>2. CASE Decode(c) \/ Validate(c)
  <2>1. ~Holds(c)' /\ UNCHANGED <<spent, granted>>
    BY <1>2, <1>t DEF Decode, Validate, Return, Goto, Holds, TypeOK
  <2> QED
    BY <2>1, <1>t, <1>o DEF Claims, Holds, Claim
<1>3. CASE Replay(c)
  <2>1. UNCHANGED <<req, granted>> /\ pc[c] = "replay"
    BY <1>3 DEF Replay
  <2>2. CASE UNCHANGED spent /\ ("REPLAY" \notin Flags(req[c]) \/ pc'[c] = "idle")
    <3>1. ~Holds(c)'
      BY <2>1, <2>2 DEF Holds
    <3> QED
      BY <2>1, <2>2, <3>1, <1>t, <1>o DEF Claims, Holds, Claim
  <2>3. CASE /\ Cache(req[c]) # NULL
             /\ Nonce(req[c]) \notin spent[Cache(req[c])]
             /\ Spend(Cache(req[c]), Nonce(req[c]))
    <3> DEFINE x == Cache(req[c])
    <3>1. x \in Caches
      BY <2>1, <2>3, <1>t, CacheKnown DEF Known
    <3>2. /\ spent' = [spent EXCEPT ![x] = @ \union {Nonce(req[c])}]
          /\ \A y \in Caches : spent[y] \subseteq spent'[y]
          /\ Nonce(req[c]) \in spent'[x]
      BY <2>3, <3>1, <1>t DEF Spend, TypeOK
    <3>3. Claim(c) \notin granted
      BY <2>3, <1>t DEF Claim, TypeOK
    <3>4. \A e \in Callers : Holds(e) => Claim(e) # Claim(c)
      BY <2>3, <1>t DEF Claims, Claim
    <3>5. \A e \in Callers \ {c} : Holds(e)' <=> Holds(e)
      BY <1>o DEF Holds
    <3>6. \A e \in Callers : Claim(e)' = Claim(e)
      BY <2>1 DEF Claim
    <3>7. \A e \in Callers : Holds(e)' =>
             /\ Cache(req'[e]) \in Caches
             /\ Nonce(req'[e]) \in spent'[Cache(req'[e])]
             /\ Claim(e)' \notin granted'
      BY <2>1, <3>1, <3>2, <3>3, <3>5, <3>6, <1>t DEF Claims
    <3>8. \A e, f \in Callers :
             Holds(e)' /\ Holds(f)' /\ Claim(e)' = Claim(f)' => e = f
      BY <3>4, <3>5, <3>6, <1>t DEF Claims
    <3> QED
      BY <3>7, <3>8 DEF Claims
  <2> QED
    BY <1>3, <2>2, <2>3, <1>t DEF Replay, Return, TypeOK
<1>4. CASE FindUser(c)
  <2>1. UNCHANGED <<req, spent, granted>> /\ pc[c] = "find"
    BY <1>4 DEF FindUser
  <2>2. Holds(c)' => Holds(c)
    BY <2>1 DEF Holds
  <2> QED
    BY <2>1, <2>2, <1>t, <1>o DEF Claims, Holds, Claim
<1>5. CASE VerifyDa(c)
  <2>1. UNCHANGED <<req, spent>> /\ pc[c] = "verify" /\ pc'[c] = "idle"
    BY <1>5, <1>t DEF VerifyDa, Return, Accept, TypeOK
  <2>2. ~Holds(c)' /\ \A e \in Callers \ {c} : Holds(e)' => Holds(e)
    BY <2>1, <1>o DEF Holds
  <2>3. \/ granted' = granted
        \/ Holds(c) /\ granted' = granted \union {Claim(c)}
    BY <1>5, <2>1 DEF VerifyDa, Accept, Holds, Claim
  <2>4. \A e \in Callers \ {c} : Holds(e) => Claim(e) \notin granted'
    BY <2>3, <1>t DEF Claims
  <2>5. \A e \in Callers : Claim(e)' = Claim(e)
    BY <2>1 DEF Claim
  <2> QED
    BY <2>1, <2>2, <2>4, <2>5, <1>t DEF Claims
<1> QED
  BY <1>1, <1>2, <1>3, <1>4, <1>5 DEF Step

\* The instance of AcceptedWasDelegated for one caller.
Delegated(c) ==
    Returned(c, 1) /\ "VERIFY_DA" \in Flags(req[c]) =>
        /\ AIC_validate(Aic(req[c]))
        /\ \E d \in Delegations :
              /\ Principal(req[c], d.key)
              /\ Covers(d, Aic(req[c]), Aic(req[c]).delegationAuthorization,
                        req[c].cert.spki)

LEMMA AcceptedStep ==
  ASSUME IInv, NEW c \in Callers, Step(c) \/ \E r \in Requests : Call(c, r)
  PROVE  AcceptedWasDelegated'
<1>t. TypeOK /\ Known(c) /\ AcceptedWasDelegated
  BY DEF IInv
<1>1. SUFFICES Delegated(c)'
  <2>1. \A e \in Callers \ {c} : Delegated(e)'
    BY OthersStand, <1>t DEF Delegated, AcceptedWasDelegated, Returned
  <2> QED
    BY <2>1 DEF Delegated, AcceptedWasDelegated
<1>2. CASE \E r \in Requests : Call(c, r)
  BY <1>2, <1>t DEF Call, Delegated, Returned, TypeOK
<1>3. CASE Decode(c) \/ Validate(c) \/ Replay(c) \/ FindUser(c)
  <2>1. pc'[c] # "idle" \/ verdict'[c] # 1
    BY <1>3, <1>t DEF Decode, Skip, Validate, Replay, FindUser, Return, Goto, TypeOK
  <2> QED
    BY <2>1 DEF Delegated, Returned
<1>4. CASE VerifyDa(c)
  <2> DEFINE r == req[c]
             aic == Aic(r)
             da == aic.delegationAuthorization
  <2>1. req' = req /\ pc[c] = "verify"
    BY <1>4 DEF VerifyDa
  <2>2. r \in Requests /\ AIC_validate(aic) /\ SignedByPrincipal(da)
    BY <2>1, <1>t, RequestConstants DEF Known, Aic
  <2>3. CASE verdict'[c] # 1 \/ "VERIFY_DA" \notin Flags(r)
    BY <2>1, <2>3 DEF Delegated, Returned
  <2>4. CASE /\ user[c] # NULL
             /\ \E mem \in Memory(r.starved), spki \in SpkiRead(r) :
                   AIC_verify_da_ex(da, aic, user[c], spki, mem) # 0
    <3>1. PICK mem \in Memory(r.starved), spki \in SpkiRead(r) :
             AIC_verify_da_ex(da, aic, user[c], spki, mem) # 0
      BY <2>4
    <3>2. PICK d \in Delegations :
             /\ d.key = user[c]
             /\ d.tbs.version = 2 => spki # NULL
             /\ Covers(d, aic, da, spki)
      BY <2>2, <3>1, VerifyDaExSound
    <3>3. spki = r.cert.spki \/ d.tbs.version # 2
      BY <3>2 DEF SpkiRead
    <3>4. Covers(d, aic, da, r.cert.spki)
      BY <3>2, <3>3 DEF Covers
    <3>5. Principal(r, d.key)
      BY <2>1, <2>4, <3>2, <1>t DEF Known
    <3> QED
      BY <2>1, <2>2, <3>4, <3>5 DEF Delegated
  <2> QED
    BY <1>4, <2>3, <2>4, <1>t DEF VerifyDa, Return, TypeOK
<1> QED
  BY <1>2, <1>3, <1>4 DEF Step

LEMMA InvStep == IInv /\ [Next]_vars => IInv'
<1> SUFFICES ASSUME IInv, [Next]_vars PROVE IInv'
  OBVIOUS
<1>1. TypeOK'
  BY TypeStep
<1>2. ASSUME NEW c \in Callers, Step(c) \/ \E r \in Requests : Call(c, r)
      PROVE  IInv'
  BY <1>1, <1>2, KnownStep, ClaimsStep, AcceptedStep DEF IInv
<1>3. CASE UNCHANGED vars
  BY <1>1, <1>3 DEF vars, IInv, Known, Claims, Holds, Claim, AcceptedWasDelegated, Returned
<1> QED
  BY <1>2, <1>3 DEF Next

LEMMA Invariance == Spec => []IInv
<1>1. IInv /\ [Next]_vars => IInv'
  BY InvStep
<1> QED
  BY <1>1, InvInit, PTL DEF Spec

-----------------------------------------------------------------------------
(***************************************************************************)
(* Theorems                                                                *)
(***************************************************************************)

\* TypeOK: a granted nonce is among the spent ones of its context, and no
\* step leaves a caller outside the six places of AIC_verify_cert.
THEOREM TypeCorrect == Spec => []TypeOK
<1>1. IInv => TypeOK
  BY DEF IInv
<1> QED
  BY <1>1, Invariance, PTL

\* AcceptedWasDelegated: AIC_verify_cert returns 1 under AIC_VERIFY_VERIFY_DA
\* only for a valid AIC that its principal delegated to this agent.
THEOREM AcceptedDelegated == Spec => []AcceptedWasDelegated
<1>1. IInv => AcceptedWasDelegated
  BY DEF IInv
<1> QED
  BY <1>1, Invariance, PTL

\* NonceGrantedOnce: the callers of a context get one verification out of a
\* nonce, however their calls interleave.
THEOREM GrantedOnce == Spec => NonceGrantedOnce
<1> DEFINE Once ==
       \A c \in Callers :
          pc[c] = "verify" /\ pc'[c] = "idle" /\ verdict'[c] = 1
          /\ "REPLAY" \in Flags(req[c])
          => <<Cache(req[c]), Nonce(req[c])>> \notin granted
<1>1. IInv => [Once]_vars
  BY DEF IInv, Claims, Holds, Claim
<1> QED
  BY <1>1, Invariance, PTL DEF NonceGrantedOnce

\* NonceSpentByValidAic: only a caller that has validated its AIC stores a
\* nonce, and it stores its own.
THEOREM SpentByValid == Spec => NonceSpentByValidAic
<1> DEFINE Spends ==
       \A x \in Caches : spent'[x] # spent[x] =>
          \E c \in Callers :
              /\ pc[c] = "replay" /\ Cache(req[c]) = x
              /\ AIC_validate(Aic(req[c]))
              /\ spent'[x] = spent[x] \union {Nonce(req[c])}
<1>1. ASSUME IInv, Next PROVE Spends
  <2>1. ASSUME NEW c \in Callers, Replay(c) PROVE Spends
    <3>1. pc[c] = "replay" /\ AIC_validate(Aic(req[c])) /\ DOMAIN spent = Caches
      BY <1>1, <2>1 DEF Replay, IInv, Known, TypeOK
    <3>2. \/ UNCHANGED spent
          \/ spent' = [spent EXCEPT ![Cache(req[c])] = @ \union {Nonce(req[c])}]
      BY <2>1 DEF Replay, Spend
    <3>3. ASSUME NEW x \in Caches, spent'[x] # spent[x]
          PROVE  /\ Cache(req[c]) = x
                 /\ spent'[x] = spent[x] \union {Nonce(req[c])}
      BY <3>1, <3>2, <3>3
    <3> QED
      BY <3>1, <3>3
  <2>2. CASE UNCHANGED spent
    BY <2>2
  <2> QED
    BY <1>1, <2>1, <2>2 DEF Next, Step, Call, Decode, Validate, FindUser, VerifyDa
<1>2. IInv /\ [Next]_vars => [Spends]_vars
  BY <1>1
<1> QED
  BY <1>2, Invariance, PTL DEF Spec, NonceSpentByValidAic

-----------------------------------------------------------------------------
(***************************************************************************)
(* AIC_verify_cert answers AicVerdict                                      *)
(***************************************************************************)

\* The user that has been found.
Found(c) ==
    pc[c] = "verify" =>
        IF "CHECK_SPKI" \in Flags(req[c])
        THEN \E i \in Matching(req[c]) : user[c] = Untrusted(req[c])[i]
        ELSE user[c] = IF Untrusted(req[c]) = <<>> THEN NULL ELSE Untrusted(req[c])[1]

Answered(c) ==
    /\ pc[c] = "idle" /\ req[c] # NULL
    /\ ~req[c].starved /\ "REPLAY" \notin Flags(req[c])
    => verdict[c] = BestVerdict(req[c])

VInv == \A c \in Callers : Found(c) /\ Answered(c)

\* The principals among the candidates of a valid AIC.
LEMMA ValidPrincipals ==
  ASSUME NEW r \in Requests, ExtensionState(r) = "valid"
  PROVE  /\ Principals(Candidates(r), Flags(r)) =
               IF "CHECK_SPKI" \in Flags(r) THEN Matching(r)
               ELSE {i \in 1..Len(Untrusted(r)) : i = 1}
         /\ \A i \in 1..Len(Untrusted(r)) :
               Candidates(r)[i].signs <=> Signs(r, Untrusted(r)[i])
<1>1. Untrusted(r) \in Seq(Keys)
  BY UntrustedKeys
<1>2. Candidates(r) = [i \in 1..Len(Untrusted(r)) |->
             [matches |-> KeyHashMatches(Aic(r).principalUid, Untrusted(r)[i]),
              signs   |-> Signs(r, Untrusted(r)[i])]]
  BY DEF Candidates
<1>3. Len(Candidates(r)) = Len(Untrusted(r))
  BY <1>1, <1>2
<1> QED
  BY <1>1, <1>2, <1>3 DEF Principals, Matching

\* All that match have one key.
LEMMA OneKey ==
  ASSUME NEW r, NEW i \in Matching(r), NEW j \in Matching(r)
  PROVE  Untrusted(r)[i] = Untrusted(r)[j]
<1>1. SHA256(Untrusted(r)[i]) = SHA256(Untrusted(r)[j])
  BY DEF Matching, KeyHashMatches
<1> QED
  BY <1>1 DEF SHA256

\* What the verdict on a valid AIC comes down to, for the user found.
LEMMA VerdictValid ==
  ASSUME NEW r \in Requests, r.cert # NULL, ExtensionState(r) = "valid",
         "REPLAY" \in Flags(r) => Cache(r) # NULL, NEW u,
         IF "CHECK_SPKI" \in Flags(r)
         THEN \E i \in Matching(r) : u = Untrusted(r)[i]
         ELSE u = IF Untrusted(r) = <<>> THEN NULL ELSE Untrusted(r)[1]
  PROVE  BestVerdict(r) = IF "VERIFY_DA" \in Flags(r) => u # NULL /\ Signs(r, u)
                        THEN 1 ELSE 0
<1> DEFINE principals == Principals(Candidates(r), Flags(r))
<1>1. Untrusted(r) \in Seq(Keys)
  BY UntrustedKeys
<1>2. BestVerdict(r) =
        IF /\ Flags(r) \cap {"CHECK_SPKI", "VERIFY_DA"} # {} => principals # {}
           /\ "VERIFY_DA" \in Flags(r) => \A i \in principals : Candidates(r)[i].signs
        THEN 1 ELSE 0
  BY DEF BestVerdict, Verdict
<1>3. CASE "CHECK_SPKI" \in Flags(r)
  <2>1. PICK k \in Matching(r) : u = Untrusted(r)[k]
    BY <1>3
  <2>2. principals = Matching(r) /\ principals # {}
    BY <1>3, <2>1, ValidPrincipals
  <2>3. \A i \in Matching(r) : Untrusted(r)[i] = u /\ i \in 1..Len(Untrusted(r))
    BY <2>1, OneKey DEF Matching
  <2>4. (\A i \in principals : Candidates(r)[i].signs) <=> Signs(r, u)
    BY <2>1, <2>2, <2>3, ValidPrincipals
  <2>5. u # NULL
    BY <1>1, <2>1, <2>3, DelegationConstants
  <2> QED
    BY <1>2, <2>2, <2>4, <2>5
<1>4. CASE "CHECK_SPKI" \notin Flags(r) /\ Untrusted(r) = <<>>
  <2>1. principals = {} /\ u = NULL
    BY <1>4, ValidPrincipals
  <2> QED
    BY <1>2, <1>4, <2>1
<1>5. CASE "CHECK_SPKI" \notin Flags(r) /\ Untrusted(r) # <<>>
  <2>1. 1 \in 1..Len(Untrusted(r)) /\ u = Untrusted(r)[1] /\ u # NULL
    BY <1>1, <1>5, DelegationConstants
  <2>2. principals = {1}
    BY <1>5, <2>1, ValidPrincipals
  <2>3. Candidates(r)[1].signs <=> Signs(r, u)
    BY <2>1, ValidPrincipals
  <2> QED
    BY <1>2, <2>1, <2>2, <2>3
<1> QED
  BY <1>3, <1>4, <1>5

LEMMA FoundStep ==
  ASSUME IInv, VInv, NEW c \in Callers, Step(c) \/ \E r \in Requests : Call(c, r)
  PROVE  \A e \in Callers : Found(e)'
<1>t. TypeOK
  BY DEF IInv
<1>1. \A e \in Callers \ {c} : Found(e)'
  BY OthersStand, <1>t DEF VInv, Found
<1>2. CASE FindUser(c)
  <2>1. req' = req
    BY <1>2 DEF FindUser
  <2>2. CASE pc'[c] = "idle"
    BY <2>2, <1>1 DEF Found
  <2>3. CASE /\ "CHECK_SPKI" \in Flags(req[c])
             /\ \E i \in Matching(req[c]) :
                   user' = [user EXCEPT ![c] = Untrusted(req[c])[i]]
    BY <1>1, <1>t, <2>1, <2>3 DEF Found, TypeOK
  <2>4. CASE /\ "CHECK_SPKI" \notin Flags(req[c])
             /\ user' = [user EXCEPT ![c] =
                   IF Untrusted(req[c]) = <<>> THEN NULL ELSE Untrusted(req[c])[1]]
    BY <1>1, <1>t, <2>1, <2>4 DEF Found, TypeOK
  <2> QED
    BY <1>2, <1>t, <2>2, <2>3, <2>4 DEF FindUser, Return, TypeOK
<1>3. CASE ~FindUser(c)
  <2>1. pc'[c] # "verify"
    BY <1>3, <1>t DEF Step, Call, Decode, Validate, Replay, VerifyDa, Return, Goto,
       Accept, TypeOK
  <2> QED
    BY <1>1, <2>1 DEF Found
<1> QED
  BY <1>2, <1>3

LEMMA AnsweredStep ==
  ASSUME IInv, VInv, NEW c \in Callers, Step(c) \/ \E r \in Requests : Call(c, r)
  PROVE  \A e \in Callers : Answered(e)'
<1> DEFINE r == req[c]
<1>t. TypeOK /\ Known(c) /\ Found(c)
  BY DEF IInv, VInv
<1>1. \A e \in Callers \ {c} : Answered(e)'
  BY OthersStand, <1>t DEF VInv, Answered
<1>2. SUFFICES ASSUME pc'[c] = "idle", ~req'[c].starved, "REPLAY" \notin Flags(req'[c])
               PROVE  verdict'[c] = BestVerdict(req'[c])
  BY <1>1 DEF Answered
<1>3. ~\E q \in Requests : Call(c, q)
  BY <1>2, <1>t DEF Call, TypeOK
<1>4. req' = req /\ r \in Requests /\ ~r.starved /\ "REPLAY" \notin Flags(r)
  BY <1>2, <1>3, <1>t DEF Step, Decode, Validate, Replay, FindUser, VerifyDa, Known
<1>5. CASE Decode(c)
  <2>1. CASE r.cert = NULL
    BY <1>2, <1>4, <1>5, <1>t, <2>1 DEF Decode, Return, BestVerdict, TypeOK
  <2>2. CASE r.cert # NULL /\ r.cert.ext.status # "present"
    <3>1. verdict'[c] = IF "REQUIRE" \in Flags(r) THEN 0 ELSE -1
      BY <1>2, <1>5, <1>t, <2>2 DEF Decode, Return, Goto, Skip, TypeOK
    <3>2. ExtensionState(r) \in {"absent", "unreadable"}
      BY <2>2 DEF ExtensionState
    <3> QED
      BY <1>4, <2>2, <3>1, <3>2 DEF BestVerdict, Verdict
  <2> QED
    BY <1>2, <1>5, <1>t, <2>1, <2>2 DEF Decode, Goto, TypeOK
<1>6. CASE Validate(c)
  <2>1. verdict'[c] = 0 /\ ~AIC_validate(Aic(r))
    BY <1>2, <1>6, <1>t DEF Validate, Return, Goto, TypeOK
  <2>2. ExtensionState(r) = "malformed" /\ r.cert # NULL
    BY <1>6, <1>t, <2>1 DEF Validate, Known, ExtensionState
  <2> QED
    BY <1>4, <2>1, <2>2 DEF BestVerdict, Verdict
<1>v. pc[c] \in {"replay", "find", "verify"} => ExtensionState(r) = "valid" /\ r.cert # NULL
  BY <1>t DEF Known, ExtensionState
<1>7. CASE Replay(c)
  BY <1>2, <1>4, <1>7, <1>t DEF Replay, Goto, TypeOK
<1>8. CASE FindUser(c)
  <2>1. /\ pc[c] = "find" /\ verdict'[c] = 0
        /\ "CHECK_SPKI" \in Flags(r) /\ Matching(r) = {}
    BY <1>2, <1>8, <1>t DEF FindUser, Return, Goto, TypeOK
  <2>2. Principals(Candidates(r), Flags(r)) = {}
    BY <1>4, <1>v, <2>1, ValidPrincipals
  <2> QED
    BY <1>4, <1>v, <2>1, <2>2 DEF BestVerdict, Verdict
<1>9. CASE VerifyDa(c)
  <2>1. pc[c] = "verify"
    BY <1>9 DEF VerifyDa
  <2>2. BestVerdict(r) = IF "VERIFY_DA" \in Flags(r) => user[c] # NULL /\ Signs(r, user[c])
                       THEN 1 ELSE 0
    BY <1>4, <1>t, <1>v, <2>1, VerdictValid DEF Found
  <2>3. Memory(r.starved) = {{1, 2}} /\ SpkiRead(r) = {r.cert.spki}
    BY <1>4 DEF Memory, SpkiRead
  <2>4. CASE "VERIFY_DA" \notin Flags(r)
    BY <1>4, <1>9, <1>t, <2>2, <2>4 DEF VerifyDa, Accept, Return, TypeOK
  <2>5. CASE "VERIFY_DA" \in Flags(r) /\ PublicKeyUnusable(c)
    BY <1>2, <1>4, <1>9, <1>t, <2>2, <2>5
       DEF VerifyDa, Return, PublicKeyUnusable, Signs, TypeOK
  <2>6. CASE "VERIFY_DA" \in Flags(r) /\ ~PublicKeyUnusable(c)
    <3>1. verdict'[c] = IF AIC_verify_da_ex(Aic(r).delegationAuthorization, Aic(r),
                               user[c], r.cert.spki, {1, 2}) # 0 THEN 1 ELSE 0
      BY <1>9, <1>t, <2>3, <2>6 DEF VerifyDa, Accept, Return, TypeOK
    <3>2. user[c] # NULL /\ KeyType[user[c]] # "unsupported"
      BY <2>6 DEF PublicKeyUnusable
    <3> QED
      BY <1>4, <2>2, <2>6, <3>1, <3>2 DEF Signs
  <2> QED
    BY <2>4, <2>5, <2>6
<1> QED
  BY <1>3, <1>5, <1>6, <1>7, <1>8, <1>9 DEF Step

LEMMA VInvStep == IInv /\ VInv /\ [Next]_vars => VInv'
<1> SUFFICES ASSUME IInv, VInv, [Next]_vars PROVE VInv'
  OBVIOUS
<1>1. ASSUME NEW c \in Callers, Step(c) \/ \E r \in Requests : Call(c, r)
      PROVE  VInv'
  BY <1>1, FoundStep, AnsweredStep DEF VInv
<1>2. CASE UNCHANGED vars
  BY <1>2 DEF vars, VInv, Found, Answered
<1> QED
  BY <1>1, <1>2 DEF Next

\* AnswersVerdict: with memory and without a nonce check, AIC_verify_cert
\* answers what AicVerdict says, whatever its callers do.
THEOREM VerdictAnswered == Spec => []AnswersVerdict
<1>1. Init => VInv
  BY DEF Init, VInv, Found, Answered
<1>2. VInv => AnswersVerdict
  BY DEF VInv, Answered, AnswersVerdict, Undisturbed
<1> QED
  BY <1>1, <1>2, Invariance, VInvStep, PTL DEF Spec

-----------------------------------------------------------------------------
(***************************************************************************)
(* What is genuine is accepted                                             *)
(***************************************************************************)

\* The verdict on a genuine delegation with RSA or ECDSA.
LEMMA GenuineVerdict ==
  ASSUME NEW r \in Requests, "REPLAY" \notin Flags(r), Genuine(r),
         UpdateWorks(Aic(r).delegationAuthorization.signatureValue.of.key)
  PROVE  BestVerdict(r) = 1
<1> DEFINE aic == Aic(r)
           da == aic.delegationAuthorization
           d == da.signatureValue.of
<1>1. /\ r.cert # NULL /\ r.cert.ext.status = "present" /\ AIC_validate(aic)
      /\ d # NULL /\ Principal(r, d.key) /\ Covers(d, aic, da, r.cert.spki)
      /\ KeyType[d.key] # "unsupported"
      /\ Digest(da.signatureAlgorithm) # "unsupported"
      /\ SetUpWorks(d.key, da.signatureAlgorithm) /\ UpdateWorks(d.key)
      /\ d.scheme = Scheme(d.key, da.signatureAlgorithm)
  BY DEF Genuine
<1>2. ExtensionState(r) = "valid"
  BY <1>1 DEF ExtensionState
<1>3. da # NULL /\ VersionValid(aic)
  BY <1>1 DEF AIC_validate, DelegationAuthValid
<1>4. d \in Delegations /\ r.cert.spki # NULL
  BY <1>1, <1>3, RequestConstants, DelegationConstants DEF SignedByPrincipal, Aic
<1>5. Signs(r, d.key)
  BY <1>1, <1>3, <1>4, VerifyDaExComplete DEF Signs
<1>6. Untrusted(r) \in Seq(Keys)
  BY UntrustedKeys
<1>7. IF "CHECK_SPKI" \in Flags(r)
      THEN \E i \in Matching(r) : d.key = Untrusted(r)[i]
      ELSE Untrusted(r) # <<>> /\ d.key = Untrusted(r)[1]
  BY <1>1 DEF Principal, Matching, KeyHashMatches, SHA256
<1>8. d.key # NULL
  <2>1. d.key \in Keys
    BY <1>6, <1>7 DEF Matching
  <2> QED
    BY <2>1, DelegationConstants
<1> HIDE DEF d, da, aic
<1> QED
  BY <1>1, <1>2, <1>5, <1>7, <1>8, VerdictValid

\* GenuineAccepted: with memory and without a nonce check, AIC_verify_cert
\* returns 1 for every delegation that its principal signed with RSA or ECDSA,
\* as declared, for this AIC and this key, of either version, and whatever
\* checks are asked for.
THEOREM AcceptedWhenGenuine == Spec => []GenuineAccepted
<1>1. IInv /\ VInv => GenuineAccepted
  <2>1. ASSUME IInv, VInv, NEW c \in Callers,
               Undisturbed(c), Genuine(req[c]),
               UpdateWorks(Aic(req[c]).delegationAuthorization.signatureValue.of.key)
        PROVE  verdict[c] = 1
    <3>1. req[c] \in Requests
      BY <2>1 DEF IInv, TypeOK, LastRequests, Undisturbed
    <3>2. verdict[c] = BestVerdict(req[c])
      BY <2>1 DEF VInv, Answered, Undisturbed
    <3> QED
      BY <2>1, <3>1, <3>2, GenuineVerdict DEF Undisturbed
  <2> QED
    BY <2>1 DEF GenuineAccepted
<1>2. Init => VInv
  BY DEF Init, VInv, Found, Answered
<1> QED
  BY <1>1, <1>2, Invariance, VInvStep, PTL DEF Spec

-----------------------------------------------------------------------------
(***************************************************************************)
(* AIC_verify_cert implements DelegationGate                               *)
(***************************************************************************)

\* Where a caller has come to, its request permits what it may answer.
LEMMA PermittedVerdicts ==
  ASSUME NEW r
  PROVE  /\ BestVerdict(r) \in {-1, 0, 1} => BestVerdict(r) \in Permitted(r)
         /\ r.cert # NULL /\ r.starved => Skip(r) \in Permitted(r)
         /\ /\ r.cert # NULL /\ ExtensionState(r) = "valid"
            /\ "REPLAY" \in Flags(r) \/ r.starved
            => 0 \in Permitted(r)
  BY DEF Permitted, Skip

LEMMA BestIsVerdict ==
  ASSUME NEW r
  PROVE  BestVerdict(r) \in {-1, 0, 1}
  BY DEF BestVerdict, Verdict

LEMMA GateStart == Init => Gate!GateInit
  BY DEF Init, Gate!GateInit, InCall

\* A step that stays in the call is no step of the gate.
LEMMA GoingOn ==
  ASSUME TypeOK, NEW c \in Callers, NEW step \in Steps, pc[c] # "idle", Goto(c, step)
  PROVE  InCall' = InCall /\ verdict' = verdict
<1>1. \A e \in Callers : pc'[e] = IF e = c THEN step ELSE pc[e]
  BY DEF Goto, TypeOK
<1>2. step # "idle"
  BY DEF Steps
<1> QED
  BY <1>1, <1>2 DEF InCall, Goto

\* A return with a verdict that is permitted is a reply.
LEMMA Replying ==
  ASSUME TypeOK, NEW c \in Callers, NEW v, pc[c] # "idle", Return(c, v),
         v \in Permitted(req[c]), req' = req
  PROVE  Gate!Reply(c, v)
<1>1. c \in InCall /\ InCall' = InCall \ {c}
  BY DEF InCall, Return, TypeOK
<1> QED
  BY <1>1 DEF Gate!Reply, Return

\* With verdict 1 it is a grant, when it uses up the tickets of the request.
LEMMA Granting ==
  ASSUME NEW c \in Callers, Gate!Reply(c, 1),
         Tickets(req[c]) \cap granted = {},
         granted' = granted \union Tickets(req[c])
  PROVE  Gate!GateNext
  BY DEF Gate!GateNext, Gate!Grant

\* With another verdict, that leaves the tickets, it turns the caller away.
LEMMA Refusing ==
  ASSUME NEW c \in Callers, NEW v \in {-1, 0}, Gate!Reply(c, v), granted' = granted
  PROVE  Gate!GateNext
  BY DEF Gate!GateNext, Gate!TurnAway

\* What is accepted is accepted with memory and a fresh nonce, and has its
\* ticket still.
LEMMA AcceptIsGrant ==
  ASSUME IInv, VInv, NEW c \in Callers, VerifyDa(c), Accept(c)
  PROVE  Gate!GateNext
<1> DEFINE r == req[c]
           da == Aic(r).delegationAuthorization
<1>t. TypeOK /\ Known(c) /\ Claims /\ Found(c)
  BY DEF IInv, VInv
<1>1. /\ pc[c] = "verify" /\ req' = req /\ r \in Requests /\ r.cert # NULL
      /\ ExtensionState(r) = "valid"
  BY <1>t DEF VerifyDa, Known, ExtensionState
<1>2. "REPLAY" \in Flags(r) => Cache(r) # NULL
  BY <1>1, <1>t, RequestConstants DEF Claims, Holds
<1>3. "VERIFY_DA" \in Flags(r) => user[c] # NULL /\ Signs(r, user[c])
  <2>1. SUFFICES ASSUME "VERIFY_DA" \in Flags(r)
                 PROVE  user[c] # NULL /\ Signs(r, user[c])
    OBVIOUS
  <2>2. verdict'[c] = 1
    BY <1>t DEF Accept, Return, TypeOK
  <2>3. /\ user[c] # NULL /\ KeyType[user[c]] # "unsupported"
        /\ \E mem \in Memory(r.starved), spki \in SpkiRead(r) :
              AIC_verify_da_ex(da, Aic(r), user[c], spki, mem) # 0
    BY <2>1, <2>2, <1>t DEF VerifyDa, Return, TypeOK
  <2>4. AIC_verify_da_ex(da, Aic(r), user[c], r.cert.spki, {1, 2}) # 0
    BY <2>3, MemoryOnlyRefuses DEF SpkiRead
  <2> QED
    BY <2>3, <2>4 DEF Signs
<1>4. BestVerdict(r) = 1
  BY <1>1, <1>2, <1>3, <1>t, VerdictValid DEF Found
<1>5. 1 \in Permitted(r)
  BY <1>4, PermittedVerdicts
<1>6. Gate!Reply(c, 1)
  BY <1>1, <1>5, <1>t, Replying DEF Accept
<1>7. Tickets(r) \cap granted = {} /\ granted' = granted \union Tickets(r)
  BY <1>1, <1>t DEF Accept, Tickets, Claims, Holds, Claim
<1> QED
  BY <1>6, <1>7, Granting

\* What AIC_verify_cert does in one step, the gate does in one or none.
LEMMA GateStep ==
  ASSUME IInv, VInv, [Next]_vars
  PROVE  Gate!GateNext \/ UNCHANGED <<req, InCall, verdict, granted>>
<1> DEFINE Goal == Gate!GateNext \/ UNCHANGED <<req, InCall, verdict, granted>>
<1>1. CASE UNCHANGED vars
  BY <1>1 DEF vars, InCall
<1>2. ASSUME NEW c \in Callers, NEW r \in Requests, Call(c, r)
      PROVE  Goal
  <2>1. TypeOK
    BY DEF IInv
  <2>2. c \notin InCall /\ InCall' = InCall \union {c}
    BY <1>2, <2>1 DEF Call, InCall, TypeOK
  <2>3. Gate!Present(c)
    BY <1>2, <2>1, <2>2 DEF Call, Gate!Present, TypeOK
  <2> QED
    BY <2>3 DEF Gate!GateNext
<1>3. ASSUME NEW c \in Callers, Step(c)
      PROVE  Goal
  <2> DEFINE r == req[c]
  <2>t. TypeOK /\ Known(c)
    BY DEF IInv
  <2>1. pc[c] # "idle" /\ req' = req /\ r \in Requests
    BY <1>3, <2>t DEF Step, Decode, Validate, Replay, FindUser, VerifyDa, Known
  <2>2. pc[c] \in {"replay", "find", "verify"} =>
           r.cert # NULL /\ ExtensionState(r) = "valid"
    BY <2>t DEF Known, ExtensionState
  <2>3. ASSUME NEW step \in Steps, Goto(c, step), granted' = granted PROVE Goal
    BY <2>1, <2>3, <2>t, GoingOn
  <2>4. ASSUME NEW v \in {-1, 0}, Return(c, v), v \in Permitted(r), granted' = granted
        PROVE  Goal
    <3>1. Gate!Reply(c, v)
      BY <2>1, <2>4, <2>t, Replying
    <3> QED
      BY <2>4, <3>1, Refusing
  <2>5. CASE Decode(c)
    <3>1. CASE r.cert = NULL /\ Return(c, 0)
      <4>1. 0 \in Permitted(r)
        BY <3>1, PermittedVerdicts DEF BestVerdict
      <4> QED
        BY <2>4, <2>5, <3>1, <4>1 DEF Decode
    <3>2. CASE /\ r.cert # NULL
               /\ r.cert.ext.status # "present" \/ r.starved
               /\ Return(c, Skip(r))
      <4>1. r.cert.ext.status # "present" => BestVerdict(r) = Skip(r)
        BY <3>2 DEF BestVerdict, Verdict, ExtensionState, Skip
      <4>2. Skip(r) \in {-1, 0}
        BY DEF Skip
      <4>3. Skip(r) \in Permitted(r)
        BY <3>2, <4>1, <4>2, PermittedVerdicts
      <4> QED
        BY <2>4, <2>5, <3>2, <4>2, <4>3 DEF Decode
    <3> QED
      BY <2>3, <2>5, <3>1, <3>2 DEF Decode, Steps
  <2>6. CASE Validate(c)
    <3>1. CASE ~AIC_validate(Aic(r)) /\ Return(c, 0)
      <4>1. ExtensionState(r) = "malformed" /\ r.cert # NULL
        BY <2>6, <2>t, <3>1 DEF Validate, Known, ExtensionState
      <4>2. 0 \in Permitted(r)
        BY <4>1, PermittedVerdicts DEF BestVerdict, Verdict
      <4> QED
        BY <2>4, <2>6, <3>1, <4>2 DEF Validate
    <3> QED
      BY <2>3, <2>6, <3>1 DEF Validate, Steps
  <2>7. CASE Replay(c)
    <3>1. CASE "REPLAY" \in Flags(r) /\ Return(c, 0)
      <4>1. 0 \in Permitted(r)
        BY <2>2, <2>7, <3>1, PermittedVerdicts DEF Replay
      <4> QED
        BY <2>4, <2>7, <3>1, <4>1 DEF Replay
    <3> QED
      BY <2>3, <2>7, <3>1 DEF Replay, Steps
  <2>8. CASE FindUser(c)
    <3>1. CASE /\ "CHECK_SPKI" \in Flags(r)
               /\ Matching(r) = {} \/ r.starved
               /\ Return(c, 0)
      <4>1. r.cert # NULL /\ ExtensionState(r) = "valid"
        BY <2>2, <2>8 DEF FindUser
      <4>2. CASE Matching(r) = {}
        <5>1. Principals(Candidates(r), Flags(r)) = {}
          BY <2>1, <3>1, <4>1, <4>2, ValidPrincipals
        <5>2. 0 \in Permitted(r)
          BY <3>1, <4>1, <5>1, PermittedVerdicts DEF BestVerdict, Verdict
        <5> QED
          BY <2>4, <2>8, <3>1, <5>2 DEF FindUser
      <4>3. CASE r.starved
        <5>1. 0 \in Permitted(r)
          BY <4>1, <4>3, PermittedVerdicts
        <5> QED
          BY <2>4, <2>8, <3>1, <5>1 DEF FindUser
      <4> QED
        BY <3>1, <4>2, <4>3
    <3> QED
      BY <2>3, <2>8, <3>1 DEF FindUser, Steps
  <2>9. CASE VerifyDa(c)
    <3>1. CASE Accept(c)
      BY <2>9, <3>1, AcceptIsGrant
    <3>2. CASE Return(c, 0) /\ granted' = granted
      <4>1. 0 \in Permitted(r)
        <5>1. CASE r.starved \/ "REPLAY" \in Flags(r)
          BY <2>2, <2>9, <5>1, PermittedVerdicts DEF VerifyDa
        <5>2. CASE ~r.starved /\ "REPLAY" \notin Flags(r)
          <6>1. Answered(c)'
            BY <1>3, AnsweredStep
          <6>2. pc'[c] = "idle" /\ verdict'[c] = 0
            BY <2>t, <3>2 DEF Return, TypeOK
          <6>3. BestVerdict(r) = 0
            BY <2>1, <5>2, <6>1, <6>2, RequestConstants DEF Answered
          <6> QED
            BY <6>3, PermittedVerdicts
        <5> QED
          BY <5>1, <5>2
      <4> QED
        BY <2>4, <3>2, <4>1
    <3> QED
      BY <2>9, <3>1, <3>2 DEF VerifyDa
  <2> QED
    BY <1>3, <2>5, <2>6, <2>7, <2>8, <2>9 DEF Step
<1> QED
  BY <1>1, <1>2, <1>3 DEF Next

\* ImplementsGate: for any callers, contexts, certificates and flags, and with
\* allocations failing anywhere, each call of AIC_verify_cert is one decision
\* its request permits, and a nonce of a context is worth one grant.
THEOREM GateImplemented == Spec => ImplementsGate
<1>1. IInv /\ VInv /\ [Next]_vars => [Gate!GateNext]_(Gate!gvars)
  BY GateStep DEF Gate!gvars
<1>2. Init => VInv
  BY DEF Init, VInv, Found, Answered
<1> QED
  BY <1>1, <1>2, GateStart, Invariance, VInvStep, PTL
  DEF Spec, ImplementsGate, Gate!GateSpec
=============================================================================
