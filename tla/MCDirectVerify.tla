--------------------------- MODULE MCDirectVerify ----------------------------
(* Small instances of DirectVerify for TLC. *)
EXTENDS DirectVerify, MCDelegationAuth

\* Every version under every algorithm, and the changes that AIC_validate
\* would have refused or that only the signature can tell.
DirectExtensions(d) ==
    {Extension(d, v, oid) : v \in Versions, oid \in {DeclaredOid(d), "ed25519", "md5"}}
    \union Changes(Extension(d, 0, DeclaredOid(d)))

Arguments(da, aic, key, spki) ==
    [da |-> da, pu |-> aic.principalUid, aic |-> aic, key |-> key, spki |-> spki]

\* An AIC with its own authorization, or with that of another delegation.
Own(d) ==
    {Arguments(a.delegationAuthorization, a, k, s) :
        a \in DirectExtensions(d), k \in {d.key, agent1}, s \in {agent1, agent2, NULL}}
Anothers(d, e) ==
    {Arguments(Extension(e, 0, DeclaredOid(e)).delegationAuthorization,
               Extension(d, v, DeclaredOid(d)), k, agent1) :
        v \in Versions, k \in {d.key, e.key}}

\* The arguments q with one of them missing.
Missing(q) ==
    {[q EXCEPT !.da = NULL], [q EXCEPT !.pu = NULL], [q EXCEPT !.aic = NULL],
     [q EXCEPT !.key = NULL]}

MCRequests ==
    UNION {Own(d) : d \in MCDelegations}
    \union UNION {Anothers(d, e) : d, e \in MCDelegations}
    \union UNION {Missing(CHOOSE q \in Own(d) : q.aic.version = 0 /\ q.key = d.key) :
                     d \in MCDelegations}
=============================================================================
