----------------------------- MODULE MCAicVerify -----------------------------
(***************************************************************************)
(* Small instances of AicVerify for TLC: every extension of                *)
(* MCDelegationAuth in one call, and a few requests for callers that share *)
(* contexts; and beside them the entry points of DirectVerify.             *)
(***************************************************************************)
EXTENDS AicVerify, MCDirectVerify

Present(spki, a) == [spki |-> spki, ext |-> [status |-> "present", aic |-> a]]
Without(spki, status) == [spki |-> spki, ext |-> [status |-> status, aic |-> NULL]]

Request(cert, untrusted, opts, starved) ==
    [cert |-> cert, untrusted |-> untrusted, opts |-> opts, starved |-> starved]
Opts(flags, cache) == [flags |-> flags, replay |-> cache]

BrokenCerts ==
    {NULL} \union {Without(agent1, st) : st \in {"absent", "duplicate", "undecodable"}}

NoReplay ==
    {NULL, Opts({}, NULL), Opts({"VERIFY_DA"}, NULL),
     Opts({"CHECK_SPKI", "VERIFY_DA", "REQUIRE"}, NULL)}

UntrustedLists ==
    {NULL, <<agent2, alice>>, <<bob>>, <<edna, bob>>, <<alice, alice>>}

\* Every extension, for one caller and without a nonce check, with memory and
\* without.
AllRequests ==
    {Request(Present(k, a), u, o, s) :
        k \in {agent1, agent2}, a \in AllExtensions, u \in UntrustedLists,
        o \in NoReplay, s \in BOOLEAN}
    \union {Request(x, NULL, o, s) : x \in BrokenCerts, o \in NoReplay, s \in BOOLEAN}

-----------------------------------------------------------------------------
\* Few requests, for callers that share contexts: good, forged, malformed and
\* absent extensions with and without a nonce check, in either context.
CONSTANTS x1, x2

Good(key) ==
    LET d == CHOOSE e \in MCDelegations : e.key = key /\ e.scheme.padding = "default"
    IN  Extension(d, 0, DeclaredOid(d))
Malformed(key) == [Good(key) EXCEPT !.agentId = Text(0, "")]
Forged(key) == [Good(key) EXCEPT !.capabilities = <<Read, Write>>]

Full == {"CHECK_SPKI", "VERIFY_DA", "REPLAY"}

SharedRequests ==
    {Request(Present(agent1, a), <<alice, bob>>, Opts(Full, x1), TRUE) :
        a \in {Good(bob), Malformed(bob), Forged(alice)}}
    \union {Request(Present(agent1, Good(bob)), <<alice, bob>>, o, TRUE) :
               o \in {Opts(Full, x2), Opts({"REPLAY"}, x1), Opts({"REPLAY"}, NULL)}}
    \union {Request(Present(agent1, Good(bob)), <<alice, bob>>, NULL, FALSE),
            Request(Without(agent1, "undecodable"), NULL, NULL, TRUE)}

-----------------------------------------------------------------------------
(***************************************************************************)
(* One instance for all of it: either one call out of AllRequests, or      *)
(* calls of SharedRequests by all callers in any order, or calls of the    *)
(* public entry points.                                                    *)
(***************************************************************************)
EitherRequests == {r \in AllRequests \union SharedRequests : r.starved \in BOOLEAN}
MCRequestsOfCert == EitherRequests

Others(c) == {req[e] : e \in Callers \ {c}}

SharedCall(c) ==
    /\ call = NULL
    /\ Others(c) \subseteq {NULL} \union SharedRequests
    /\ \E r \in SharedRequests : Call(c, r)

OnlyCall ==
    /\ call = NULL
    /\ req = [e \in Callers |-> NULL]
    /\ \E r \in AllRequests : Call(CHOOSE c \in Callers : TRUE, r)

MCInit == Init /\ DirectInit

MCNext ==
    \/ /\ OnlyCall \/ \E c \in Callers : SharedCall(c) \/ Step(c)
       /\ UNCHANGED directVars
    \/ /\ req = [e \in Callers |-> NULL]
       /\ \E r \in IF call = NULL THEN DirectRequests ELSE {call} :
             VerifyDaEx(r) \/ DirectVerifyDa(r)
       /\ UNCHANGED vars

MCSpec == MCInit /\ [][MCNext]_<<vars, directVars>>
=============================================================================
