-------------------------- MODULE MCVerifyCallback ---------------------------
(***************************************************************************)
(* Small instances of VerifyCallback for TLC.  The registry grows from one *)
(* entry to two and four, for three addresses; any growth may fail.        *)
(***************************************************************************)
EXTENDS VerifyCallback, TLC

Leaf(ext, candidates) == [ext |-> ext, candidates |-> candidates]

Principal == [matches |-> TRUE, signs |-> TRUE]
Impostor == [matches |-> TRUE, signs |-> FALSE]
Stranger == [matches |-> FALSE, signs |-> FALSE]
Signer == [matches |-> FALSE, signs |-> TRUE]

Good == Leaf("valid", <<Stranger, Principal>>)

MCLeaves ==
    {Good, Leaf("valid", <<Impostor>>), Leaf("valid", <<Signer>>), Leaf("valid", <<>>),
     Leaf("absent", <<>>), Leaf("unreadable", <<>>),
     Leaf("malformed", <<Principal>>)}

MCChains ==
    {[stock |-> <<TRUE, TRUE>>, leaf |-> l] : l \in MCLeaves}
    \union {[stock |-> st, leaf |-> Good] : st \in {<<FALSE, TRUE>>, <<TRUE, FALSE>>}}

MCFlags ==
    {{}, {"VERIFY_DA"}, {"REQUIRE", "CHECK_SPKI"}, {"REQUIRE", "VERIFY_DA"},
     {"REQUIRE", "VERIFY_DA", "REPLAY"}}

\* Neither the addresses nor the sessions are told apart.
Symmetry == Permutations(Addresses) \union Permutations(Sessions)
=============================================================================
