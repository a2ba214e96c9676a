--------------------------- MODULE MCOpenaicTool -----------------------------
(***************************************************************************)
(* Small instances of OpenaicTool for TLC: every command line of up to two *)
(* words, and of three options in any order.                               *)
(***************************************************************************)
EXTENDS OpenaicTool

Holder(key) ==
    [key |-> key, ext |-> "absent", keyHash |-> "none", signer |-> "none"]
Credential(ext, keyHash, signer) ==
    [key |-> "agent", ext |-> ext, keyHash |-> keyHash, signer |-> signer]

\* rotated.pem: the principal has a new key, which signed.
MCCertificates ==
    [f \in {"alice.pem", "bob.pem", "agent.pem", "rotated.pem", "broken.pem",
           "twice.pem"} |->
        CASE f = "alice.pem" -> Holder("alice")
          [] f = "bob.pem" -> Holder("bob")
          [] f = "agent.pem" -> Credential("valid", "alice", "alice")
          [] f = "rotated.pem" -> Credential("valid", "alice", "bob")
          [] f = "broken.pem" -> Credential("malformed", "alice", "alice")
          [] f = "twice.pem" -> Credential("unreadable", "none", "none")]

Agents == {"agent.pem", "rotated.pem", "broken.pem", "twice.pem", "alice.pem"}

AllWords == DOMAIN Sets \union DOMAIN Clears
            \union {"--user", "--bogus", "alice.pem", "missing.pem"}

GoodOptions ==
    {<<"--user", "alice.pem">>, <<"--user", "bob.pem">>, <<"--replay">>,
     <<"--require">>, <<"--no-require">>, <<"--check-spki">>,
     <<"--no-check-spki">>, <<"--verify-da">>, <<"--no-verify-da">>}

AnyLines == UNION {[1..n -> AllWords] : n \in 0..2}
GoodLines == {o1 \o o2 \o o3 : o1, o2, o3 \in GoodOptions}

Line(command, agent, words) == [command |-> command, agent |-> agent, words |-> words]

MCCommandLines ==
    {Line("verify", a, w) : a \in Agents, w \in AnyLines \union GoodLines}
    \union {Line("verify", a, <<>>) : a \in {NULL, "missing.pem"}}
    \union {Line("print", a, <<>>) : a \in Agents \union {NULL, "missing.pem"}}
    \union {Line("help", NULL, <<>>)}
=============================================================================
