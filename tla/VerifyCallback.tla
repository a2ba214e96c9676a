--------------------------- MODULE VerifyCallback ----------------------------
(***************************************************************************)
(* aic_verify_cb (src/aic_verify.c) at work: sessions of certificate chain *)
(* verification, each with an X509_STORE_CTX of its own whose parameter    *)
(* object is allocated when the session opens and freed when it closes,    *)
(* over the one registry of AIC flags.                                     *)
(*                                                                         *)
(* The chain walk is libcrypto's (external): from the root down to the     *)
(* leaf it calls the callback with what it thinks of each certificate, and *)
(* stops when the callback says no.  Whatever the certificate, the         *)
(* callback looks at the leaf (X509_STORE_CTX_get0_cert).                  *)
(***************************************************************************)
EXTENDS AicParamRegistry

CONSTANTS
    Sessions,  \* chain verifications that may go on at the same time
    Chains,    \* [stock, leaf]: libcrypto's opinion of each certificate, leaf
               \* first, and the leaf [ext, candidates] as AicVerdict sees it
    Flags,     \* the flag sets the sessions ask for
    None       \* no address, no chain, no flags asked for

ASSUME CallbackConstants ==
    /\ Flags \subseteq SUBSET FlagBits
    /\ \A f \in SUBSET FlagBits : f # None
    /\ None \notin Addresses
    /\ None \notin Chains
    /\ \A ch \in Chains : ch.stock \in Seq(BOOLEAN) /\ ch.stock # <<>>

VARIABLES
    pc,     \* pc[s]: "closed", "open", "walking" or "done"
    addr,   \* addr[s]: the parameter object of the session
    asked,  \* asked[s]: the flags it set, or None
    chain,  \* chain[s]: what it verifies
    depth,  \* depth[s]: the certificate whose callback is next, 1 is the leaf
    valid   \* valid[s]: the outcome of X509_verify_cert

sessions == <<pc, addr, asked, chain, depth, valid>>
vars == <<registry, sessions>>

Init ==
    /\ RegistryInit
    /\ pc = [s \in Sessions |-> "closed"]
    /\ addr = [s \in Sessions |-> None]
    /\ asked = [s \in Sessions |-> None]
    /\ chain = [s \in Sessions |-> None]
    /\ depth = [s \in Sessions |-> 0]
    /\ valid = [s \in Sessions |-> FALSE]

Live(s) == pc[s] # "closed"

-----------------------------------------------------------------------------
\* AIC_verify_cert without an anti-replay context, which the callback does not
\* have.
Answer(leaf, flags) == Verdict(leaf.ext, leaf.candidates, flags, FALSE)

\* (mutants: a libcrypto error is forgotten when the AIC is good; every answer
\* but 1 is taken for "no AIC, not required")
CallbackForgives(ok, a, leaf) ==
    IF Lookup(a) = {} THEN ok ELSE Answer(leaf, Lookup(a)) # 0
CallbackSkips(ok, a, leaf) == ok
aic_verify_cb(ok, a, leaf) ==
    ok /\ (Lookup(a) # {} => Answer(leaf, Lookup(a)) # 0)

-----------------------------------------------------------------------------
\* X509_STORE_CTX_init allocates the parameter object, at an address that may
\* have been used before.
Open(s, a) ==
    /\ pc[s] = "closed"
    /\ \A e \in Sessions : Live(e) => addr[e] # a
    /\ pc' = [pc EXCEPT ![s] = "open"]
    /\ addr' = [addr EXCEPT ![s] = a]
    /\ UNCHANGED <<registry, asked, chain, depth, valid>>

Configure(s, f) ==
    /\ pc[s] = "open"
    /\ \/ SetAicFlags(addr[s], f) /\ asked' = [asked EXCEPT ![s] = f]
       \/ SetAicFlagsFails(addr[s]) /\ UNCHANGED asked
    /\ UNCHANGED <<pc, addr, chain, depth, valid>>

\* X509_verify_cert builds a chain and starts at its root.
Begin(s, ch) ==
    /\ pc[s] = "open"
    /\ pc' = [pc EXCEPT ![s] = "walking"]
    /\ chain' = [chain EXCEPT ![s] = ch]
    /\ depth' = [depth EXCEPT ![s] = Len(ch.stock)]
    /\ UNCHANGED <<registry, addr, asked, valid>>

End(s, outcome) ==
    /\ pc' = [pc EXCEPT ![s] = "done"]
    /\ depth' = [depth EXCEPT ![s] = 0]
    /\ valid' = [valid EXCEPT ![s] = outcome]

\* One certificate of the chain (mutant: the walk ends one certificate late).
WalkTooFar(s) ==
    LET ok == aic_verify_cb(chain[s].stock[depth[s]], addr[s], chain[s].leaf)
    IN  /\ pc[s] = "walking"
        /\ \/ ~ok /\ End(s, FALSE)
           \/ ok /\ depth[s] = 0 /\ End(s, TRUE)
           \/ /\ ok /\ depth[s] > 0
              /\ depth' = [depth EXCEPT ![s] = @ - 1]
              /\ UNCHANGED <<pc, valid>>
        /\ UNCHANGED <<registry, addr, asked, chain>>
Walk(s) ==
    LET ok == aic_verify_cb(chain[s].stock[depth[s]], addr[s], chain[s].leaf)
    IN  /\ pc[s] = "walking"
        /\ \/ ~ok /\ End(s, FALSE)
           \/ ok /\ depth[s] = 1 /\ End(s, TRUE)
           \/ /\ ok /\ depth[s] > 1
              /\ depth' = [depth EXCEPT ![s] = @ - 1]
              /\ UNCHANGED <<pc, valid>>
        /\ UNCHANGED <<registry, addr, asked, chain>>

\* X509_STORE_CTX_free: the parameter object goes, its registry entry stays.
Close(s) ==
    /\ pc[s] \in {"open", "done"}
    /\ pc' = [pc EXCEPT ![s] = "closed"]
    /\ addr' = [addr EXCEPT ![s] = None]
    /\ asked' = [asked EXCEPT ![s] = None]
    /\ chain' = [chain EXCEPT ![s] = None]
    /\ valid' = [valid EXCEPT ![s] = FALSE]
    /\ UNCHANGED <<registry, depth>>

Next ==
    \E s \in Sessions :
        \/ \E a \in Addresses : Open(s, a)
        \/ \E f \in Flags : Configure(s, f)
        \/ \E ch \in Chains : Begin(s, ch)
        \/ Walk(s)
        \/ Close(s)

Spec == Init /\ [][Next]_vars

-----------------------------------------------------------------------------
(***************************************************************************)
(* Properties                                                              *)
(***************************************************************************)

TypeOK ==
    /\ reg \in Seq([param : Addresses, flags : SUBSET FlagBits])
    /\ regCap \in Nat
    /\ pc \in [Sessions -> {"closed", "open", "walking", "done"}]
    /\ addr \in [Sessions -> {None} \union Addresses]
    /\ asked \in [Sessions -> {None} \union SUBSET FlagBits]
    /\ chain \in [Sessions -> {None} \union Chains]
    /\ depth \in [Sessions -> Nat]
    /\ valid \in [Sessions -> BOOLEAN]
    /\ \A s \in Sessions :
          /\ Live(s) <=> addr[s] # None
          /\ asked[s] # None => Live(s)
          /\ pc[s] \in {"walking", "done"} <=> chain[s] # None
          /\ pc[s] = "walking" => depth[s] \in 1..Len(chain[s].stock)

\* The flags a session set successfully are in force on its parameter object
\* until it closes, whatever the other sessions set, grow or fail to grow.
AskedInForce ==
    \A s \in Sessions : Live(s) /\ asked[s] # None => Lookup(addr[s]) = asked[s]

StockValid(ch) == \A i \in 1..Len(ch.stock) : ch.stock[i]

\* "Enables AIC verification for the end-entity certificate when ctx->param has
\* the AIC_VERIFY_REQUIRE flag set" (src/aic_verify.h): a session that set flags
\* with REQUIRE gets the conjunction of the stock verification and the AIC
\* verification they ask for, however libcrypto walks the chain and whatever
\* the other sessions do to the registry meanwhile: a good leaf under a rejected
\* root is not passed, nor one without an AIC.  A session that set no flag gets
\* the stock verification.
FollowsFlags ==
    \A s \in Sessions :
        pc[s] = "done" =>
            /\ asked[s] # None /\ "REQUIRE" \in asked[s] =>
                  valid[s] = /\ StockValid(chain[s])
                             /\ Answer(chain[s].leaf, asked[s]) = 1
            /\ asked[s] = {} => valid[s] = StockValid(chain[s])

\* No session, not even one that sets no flags, passes a chain that libcrypto
\* rejects.
StockFailureStands ==
    \A s \in Sessions : pc[s] = "done" /\ valid[s] => StockValid(chain[s])

\* "These hooks are OFF by default - stock OpenSSL verification behaviour is
\* unchanged" (src/aic_verify.h): nothing changes for a session that sets no
\* flags on its parameter object.
OffByDefault ==
    \A s \in Sessions :
        pc[s] = "done" /\ asked[s] = None => valid[s] = StockValid(chain[s])
=============================================================================
