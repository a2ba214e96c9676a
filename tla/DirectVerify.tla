---------------------------- MODULE DirectVerify -----------------------------
(***************************************************************************)
(* AIC_verify_da_ex and AIC_verify_da (src/aic_verify.c) as public entry   *)
(* points: nothing has validated the AIC, the caller chooses the key and   *)
(* the agent SPKI, and the authorization da need not be the AIC's own.     *)
(***************************************************************************)
EXTENDS DelegationAuth

CONSTANTS
    DirectRequests,  \* arguments: [da, pu, aic, key, spki], each may be NULL
    MemoryFails      \* an allocation may fail

ASSUME DirectConstants ==
    /\ NULL \notin DirectRequests
    /\ MemoryFails \in BOOLEAN
    /\ \A r \in DirectRequests :
          /\ {r.key, r.spki} \subseteq Keys \union {NULL}
          /\ SignedByPrincipal(r.da)

VARIABLES
    call,      \* the arguments of the last call, NULL before the first
    daVersion  \* *daVersion after it: 0 when the call returned 0

directVars == <<call, daVersion>>

DirectInit == call = NULL /\ daVersion = 0

\* *daVersion is reset before the arguments are looked at.  (The name of the
\* principal, pu, is asked for; the one of the AIC is what is signed.)
VerifyDaEx(r) ==
    /\ call' = r
    /\ \/ /\ NULL \in {r.da, r.pu, r.aic, r.key}
          /\ daVersion' = 0
       \/ /\ NULL \notin {r.da, r.pu, r.aic, r.key}
          /\ \E mem \in Memory(MemoryFails) :
                daVersion' = AIC_verify_da_ex(r.da, r.aic, r.key, r.spki, mem)

\* AIC_verify_da: no agent SPKI.
DirectVerifyDa(r) == r.spki = NULL /\ VerifyDaEx(r)

DirectNext == \E r \in DirectRequests : VerifyDaEx(r) \/ DirectVerifyDa(r)

DirectSpec == DirectInit /\ [][DirectNext]_directVars

-----------------------------------------------------------------------------
(***************************************************************************)
(* Properties                                                              *)
(***************************************************************************)

\* A call that reports a version found a delegation of that version that the
\* given key signed and that covers the AIC and the authorization it was given,
\* be it another AIC's; version 2 is reported only for the agent key of the
\* delegation, and never without one.
ReportedWasDelegated ==
    daVersion # 0 =>
        \E d \in Delegations :
            /\ d.key = call.key
            /\ d.tbs.version = daVersion
            /\ Covers(d, call.aic, call.da, call.spki)

\* "any other version: rejected (fail-closed)" (src/aic_verify.h).
UnknownVersionRejected ==
    daVersion # 0 => call.aic.version \in {0, 1, 2}
=============================================================================
