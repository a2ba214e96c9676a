------------------------------ MODULE MCAicConfig ------------------------------
(***************************************************************************)
(* Sections and AICs for the small instance.  A complete section is there  *)
(* with its lines rotated, with one line removed, and with a line added at *)
(* each end; fingerprints have every length up to five characters, and one *)
(* spells a byte too many.                                                 *)
(***************************************************************************)
EXTENDS AicConfig, TLC

T(len, id) == [len |-> len, id |-> id]
L(name, value) == [name |-> name, value |-> value]

MCHexBytes == "7b7d" :> "{}" @@ "3081" :> "der1" @@ "3082" :> "der2" @@ "00" :> "nul"
      @@ "726177" :> "raw" @@ "37623764" :> "7b7d" @@ "373236313737" :> "726177"
      @@ "3030" :> "00"
MCHexText ==
    "{}" :> "7b7d" @@ "nul" :> "00" @@ "raw" :> "726177" @@ "7b7d" :> "37623764"
      @@ "726177" :> "373236313737" @@ "00" :> "3030"
MCHexPrefixed ==
    "hex:7b7d" :> T(4, "7b7d") @@ "hex:7g" :> T(2, "7g") @@ "hex:" :> T(0, "")

Da(code, nonce) ==
    [reason |-> [reasonCode |-> T(4, code), description |-> T(3, "why")],
     requestedLifetime |-> 0, timestamp |-> "t", nonce |-> nonce,
     signatureAlgorithm |-> "rsa-sha256", signatureValue |-> T(64, "sig")]

\* The second delegation is decoded but not valid.
MCDerValue == "der1" :> Da("c1", T(32, "n")) @@ "der2" :> Da("c2", T(31, "m"))

-----------------------------------------------------------------------------
(***************************************************************************)
(* Lines                                                                   *)
(***************************************************************************)

Fingerprint(characters) == T(Len(characters), characters)

UidLine(realm, identifier, characters) ==
    L("principalUid",
      <<T(realm, "r"), T(identifier, "i"), Fingerprint(characters)>>)

\* Characters of every kind, -1 for one outside of the alphabet.
Fingerprints ==
    UNION {[1..n -> {0, 16, 63}] : n \in 1..3}
      \cup {<<a, b, c, d>> : a \in {0, 63}, b \in {1}, c \in {43}, d \in {0, 62, -1}}
      \cup {<<-1>>, <<5, 25, 44, 14, 0>>, <<5, 25, 44, 14, 32>>,
            <<1, 2, 3, 4, 5, 16>>, <<1, 2, 3, 4, 5, 6, 4>>, <<63, 63, -1, 63>>,
            [i \in 1..86 |-> IF i = 86 THEN 48 ELSE 17], [i \in 1..87 |-> 0]}

AgentLine == L("agentId", <<T(7, "agent-7")>>)
GoodUid == UidLine(128, 256, <<20, 40, 12>>)
ModeLine == L("delegationMode", <<T(14, "representative")>>)
DaLine == L("delegationAuthDer", <<T(4, "3081")>>)
CapLine == L("capability", <<T(4, "tool"), T(4, "read")>>)
ConstraintLine == L("authorizationConstraint",
                    <<T(10, "constraint"), T(3, "max"), T(8, "hex:7b7d")>>)
VersionLine == L("version", <<T(1, 2)>>)

Complete == <<AgentLine, GoodUid, ModeLine, CapLine, ConstraintLine, DaLine>>
Minimal == <<DaLine, CapLine, GoodUid, AgentLine>>

\* The lines that are added to a complete section, or replace one of it.
Extra ==
    {L("version", <<T(1, v)>>) : v \in 0..3}
      \cup {L("delegationMode", <<T(9, "something")>>),
            L("delegationMode", <<T(10, "authorized")>>),
            L("nonce", <<T(4, "skip")>>),
            L("agentId", <<T(0, "")>>),
            L("agentId", <<T(7, "agent-8")>>),
            L("principalUid", <<T(2, "r"), T(1, "i")>>),
            L("principalUid", <<T(2, "r"), T(1, "i"), Fingerprint(<<>>)>>),
            UidLine(0, 1, <<1, 16>>), UidLine(129, 1, <<1, 16>>),
            UidLine(1, 257, <<1, 16>>), UidLine(1, 0, <<1, 16>>),
            L("capability", <<T(5, "shell")>>),
            L("capability", <<T(4, "tool"), T(5, "write"), T(0, "")>>),
            L("capability", <<T(4, "tool"), T(5, "write"), T(3, "raw")>>),
            L("capability", <<T(4, "tool"), T(5, "write"), T(8, "hex:7b7d")>>),
            L("capability", <<T(4, "tool"), T(5, "write"), T(6, "hex:7g")>>),
            L("capability", <<T(4, "tool"), T(5, "write"), T(4, "hex:")>>),
            L("capability", <<T(10, "constraint"), T(3, "max")>>),
            L("authorizationConstraint", <<T(4, "tool"), T(4, "read")>>),
            L("authorizationConstraint", <<T(13, "constraint-v1"), T(3, "max")>>),
            L("delegationAuthDer", <<T(4, "3082")>>),
            L("delegationAuthDer", <<T(2, "00")>>),
            L("delegationAuthDer", <<T(2, "7g")>>)}

Without(s, i) == SubSeq(s, 1, i - 1) \o SubSeq(s, i + 1, Len(s))
Rotated(s, i) == SubSeq(s, i + 1, Len(s)) \o SubSeq(s, 1, i)

MCSections ==
    {<<>>, Complete, Minimal, Minimal \o <<VersionLine, CapLine, ConstraintLine>>}
      \cup {Without(Complete, i) : i \in 1..Len(Complete)}
      \cup {Rotated(Complete, i) : i \in 1..Len(Complete)}
      \cup {Append(Minimal, l) : l \in Extra}
      \cup {<<k>> \o Minimal \o <<l>> : k, l \in Extra}
      \cup {<<UidLine(1, 1, f), AgentLine, CapLine, DaLine>> : f \in Fingerprints}

-----------------------------------------------------------------------------
(***************************************************************************)
(* AICs as a certificate may hold them, valid or not                       *)
(***************************************************************************)

HashBytes == {<<>>, <<255>>, <<0, 128>>, <<1, 2, 3>>, <<254, 0, 7, 129>>,
              [i \in 1..65 |-> i]}

Cap(scheme, name, parameters) ==
    [schemeId |-> scheme, capabilityId |-> name, parameters |-> parameters]

MCExtensions ==
    {[AIC_new EXCEPT !.agentId = T(5, "agent"),
                     !.principalUid.keyHash = T(Len(h), h),
                     !.delegationAuthorization = Da("c3", T(32, "n"))] :
        h \in HashBytes}
      \cup
    {[AIC_new EXCEPT !.version = v, !.delegationMode = mode,
                     !.principalUid.keyHash = T(0, <<>>),
                     !.capabilities = caps,
                     !.authorizationConstraints = constraints] :
        v \in {2, 999, 1000, -7, -100, LongMax, LongMax + 1}, mode \in {1, 7},
        caps \in {<<>>, <<Cap(T(4, "tool"), T(4, "read"), T(2, "{}")),
                          Cap(Empty, Empty, T(1, "nul"))>>},
        constraints \in {NULL, <<>>, <<Cap(T(10, "constraint"), Empty, NULL)>>}}
=============================================================================
