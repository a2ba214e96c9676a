---------------------------- MODULE OpenaicTool ------------------------------
(***************************************************************************)
(* One run of the command line tool (cmd/openaic-tool/main.c): it loads    *)
(* the agent's certificate, goes through the words of its command line one *)
(* option at a time, calls AIC_verify_cert (AicVerdict) and frees what it  *)
(* holds.                                                                  *)
(*                                                                         *)
(* The heap is the set of objects that main.c has to free; what it prints  *)
(* is left out.                                                            *)
(***************************************************************************)
EXTENDS AicVerdict

CONSTANTS
    NULL,
    CommandLines,  \* [command, agent, words]: argv, agent NULL when it is missing
    Certificates,  \* for every file that holds a certificate, the certificate
    MemoryFails    \* an allocation may fail

(***************************************************************************)
(* A certificate is [key, ext, keyHash, signer]: its key, the state of its *)
(* AIC extension as in AicVerdict, the key that hashes to the AIC's        *)
(* keyHash, the key that its delegation verifies under.                    *)
(***************************************************************************)
ASSUME ToolConstants ==
    /\ MemoryFails \in BOOLEAN
    /\ NULL \notin DOMAIN Certificates
    /\ \A c \in CommandLines : c.words \in Seq(STRING)

VARIABLES
    pc,       \* "main", "print", "printing", "options" or "exited"
    cmd,      \* the command line
    next,     \* i - 1: the word the option loop is at
    flags,    \* opts.flags
    users,    \* untrusted: the positions of the loaded --user words, in order
    heap,     \* what has been allocated and not freed
    starved,  \* an allocation has failed
    status    \* the exit status, 0 until then

vars == <<pc, cmd, next, flags, users, heap, starved, status>>

Words == cmd.words

\* The objects: the certificate loaded for word i, the agent's for 0.
Cert(i) == <<"cert", i>>
Aic == <<"aic", 0>>
Stack == <<"untrusted", 0>>
Cache == <<"replay", 0>>

Init ==
    /\ pc = "main"
    /\ cmd \in CommandLines
    /\ next = 1
    /\ flags = {"CHECK_SPKI", "VERIFY_DA"}
    /\ users = <<>>
    /\ heap = {}
    /\ starved = FALSE
    /\ status = 0

Exit(s) == pc' = "exited" /\ status' = s

Starve == MemoryFails /\ starved' = TRUE

Loads(file) == file \in DOMAIN Certificates

-----------------------------------------------------------------------------
(***************************************************************************)
(* main, and the start of cmd_print and cmd_verify                         *)
(***************************************************************************)

UsageOfMain ==
    /\ cmd.command \notin {"print", "verify"} \/ cmd.agent = NULL
    /\ Exit(2)
    /\ UNCHANGED <<heap, starved>>

\* load_cert returns NULL: no file, no certificate, no memory.
LoadFails ==
    /\ cmd.command \in {"print", "verify"} /\ cmd.agent # NULL
    /\ \/ ~Loads(cmd.agent) /\ UNCHANGED starved
       \/ Loads(cmd.agent) /\ Starve
    /\ Exit(1)
    /\ UNCHANGED heap

LoadAgent ==
    /\ Loads(cmd.agent)
    /\ heap' = {Cert(0)}
    /\ \/ cmd.command = "print" /\ pc' = "print"
       \/ cmd.command = "verify" /\ pc' = "options"
    /\ UNCHANGED <<starved, status>>

Main ==
    /\ pc = "main"
    /\ UsageOfMain \/ LoadFails \/ LoadAgent
    /\ UNCHANGED <<cmd, next, flags, users>>

-----------------------------------------------------------------------------
(***************************************************************************)
(* cmd_print                                                               *)
(***************************************************************************)

Agent == Certificates[cmd.agent]

\* X509_get_ext_d2i finds no AIC, or none that decodes, or has no memory.
NoAic ==
    /\ pc = "print"
    /\ \/ Agent.ext \in {"absent", "unreadable"} /\ UNCHANGED starved
       \/ Starve
    /\ heap' = heap \ {Cert(0)}
    /\ Exit(0)

DecodeAic ==
    /\ pc = "print"
    /\ Agent.ext \notin {"absent", "unreadable"}
    /\ heap' = heap \union {Aic}
    /\ pc' = "printing"
    /\ UNCHANGED <<starved, status>>

\* An invalid AIC is printed too.  What its name and its parameters are printed
\* from is freed as soon as it is out.
PrintAic ==
    /\ pc = "printing"
    /\ heap' = heap \ {Aic, Cert(0)}
    /\ Exit(0)
    /\ UNCHANGED starved

CmdPrint ==
    /\ NoAic \/ DecodeAic \/ PrintAic
    /\ UNCHANGED <<cmd, next, flags, users>>

-----------------------------------------------------------------------------
(***************************************************************************)
(* The option loop of cmd_verify                                           *)
(***************************************************************************)

Sets == [w \in {"--check-spki", "--verify-da", "--require", "--replay"} |->
    CASE w = "--check-spki" -> "CHECK_SPKI" [] w = "--verify-da" -> "VERIFY_DA"
      [] w = "--require" -> "REQUIRE" [] w = "--replay" -> "REPLAY"]

Clears == [w \in {"--no-check-spki", "--no-verify-da", "--no-require"} |->
    CASE w = "--no-check-spki" -> "CHECK_SPKI" [] w = "--no-verify-da" -> "VERIFY_DA"
      [] w = "--no-require" -> "REQUIRE"]

\* What both exits of cmd_verify free (mutant: not the anti-replay context)
HeldButCache == {Cert(0), Stack} \union {Cert(users[i]) : i \in 1..Len(users)}
Held == {Cert(0), Stack, Cache} \union {Cert(users[i]) : i \in 1..Len(users)}

AtOption(w) == pc = "options" /\ next <= Len(Words) /\ Words[next] = w

GoOn(n) ==
    /\ next' = next + n
    /\ UNCHANGED <<pc, cmd, status>>

\* The loop ends with error set, which frees what is held and exits with 2;
\* lost is what the failed option had allocated.
UsageError(lost) ==
    /\ heap' = (heap \union lost) \ Held
    /\ Exit(2)
    /\ UNCHANGED <<cmd, next, flags, users>>

\* (mutant: &= without the ~)
KeepOnly(w) == flags' = flags \cap {Clears[w]}
Clear(w) == flags' = flags \ {Clears[w]}

ClearFlag ==
    /\ \E w \in DOMAIN Clears : AtOption(w) /\ Clear(w)
    /\ GoOn(1)
    /\ UNCHANGED <<users, heap, starved>>

\* --replay creates one context, however often it is given; when that fails
\* the flag stays and there is none.
SetFlag ==
    /\ \E w \in DOMAIN Sets : AtOption(w) /\ flags' = flags \union {Sets[w]}
    /\ \/ Words[next] = "--replay" /\ heap' = heap \union {Cache} /\ UNCHANGED starved
       \/ Words[next] = "--replay" /\ Cache \notin heap /\ Starve /\ UNCHANGED heap
       \/ Words[next] # "--replay" /\ UNCHANGED <<heap, starved>>
    /\ GoOn(1)
    /\ UNCHANGED users

\* (mutant: a second --user does not reach the stack)
PushOnce(i) == users' = IF users = <<>> THEN <<i>> ELSE users
Push(i) == users' = Append(users, i)

HasPath == next < Len(Words) /\ Loads(Words[next + 1])

\* --user takes the next word as a path, whatever it is.
User ==
    /\ AtOption("--user") /\ HasPath
    /\ heap' = heap \union {Stack, Cert(next + 1)}
    /\ Push(next + 1)
    /\ GoOn(2)
    /\ UNCHANGED <<flags, starved>>

\* Without a path, or with one that does not load; memory fails before the
\* certificate is there, or for the stack, or for the push.
UserFails ==
    /\ AtOption("--user")
    /\ \/ ~HasPath /\ UsageError({}) /\ UNCHANGED starved
       \/ /\ HasPath
          /\ \E lost \in {{}, {Cert(next + 1)}} : UsageError(lost)
          /\ Starve

UnknownOption ==
    /\ pc = "options" /\ next <= Len(Words)
    /\ Words[next] \notin DOMAIN Sets \union DOMAIN Clears \union {"--user"}
    /\ UsageError({})
    /\ UNCHANGED starved

Option == ClearFlag \/ SetFlag \/ User \/ UserFails \/ UnknownOption

-----------------------------------------------------------------------------
(***************************************************************************)
(* AIC_verify_cert and the exit                                            *)
(***************************************************************************)

Candidates ==
    [i \in 1..Len(users) |->
        LET key == Certificates[Words[users[i]]].key
        IN  [matches |-> key = Agent.keyHash, signs |-> key = Agent.signer]]

\* What AIC_verify_cert returns on a context without a nonce.
Answer == Verdict(Agent.ext, Candidates, flags, Cache \in heap)

ExitStatus(rc) == IF rc = 1 THEN 0 ELSE 1

\* Without memory a certificate with a good AIC may be refused, or look as if
\* it had none.
Verify ==
    /\ pc = "options" /\ next > Len(Words)
    /\ \E rc \in {-1, 0, 1} :
          /\ \/ rc = Answer /\ UNCHANGED starved
             \/ rc = 0 /\ Starve
             \/ rc = -1 /\ "REQUIRE" \notin flags /\ Starve
          /\ Exit(ExitStatus(rc))
    /\ heap' = heap \ Held
    /\ UNCHANGED <<cmd, next, flags, users>>

Next == Main \/ CmdPrint \/ Option \/ Verify

Spec == Init /\ [][Next]_vars

-----------------------------------------------------------------------------
(***************************************************************************)
(* Properties                                                              *)
(***************************************************************************)

TypeOK ==
    /\ pc \in {"main", "print", "printing", "options", "exited"}
    /\ cmd \in CommandLines
    /\ next \in Nat \ {0}
    /\ flags \subseteq FlagBits
    /\ users \in Seq(Nat \ {0})
    /\ starved \in BOOLEAN
    /\ status \in {0, 1, 2}
    /\ pc = "options" => heap \subseteq Held
    /\ pc \in {"print", "printing"} => heap \subseteq {Cert(0), Aic}

\* What the words of a command line ask for, read as a whole.  Word i is an
\* option unless it is the path of a --user.
IsOption[i \in Nat] ==
    i = 1 \/ (i > 1 /\ ~(IsOption[i - 1] /\ Words[i - 1] = "--user"))

Options == {i \in 1..Len(Words) : IsOption[i]}

Paths == {i + 1 : i \in {j \in Options : Words[j] = "--user"}}

WellFormed ==
    /\ \A i \in Options : Words[i] \in DOMAIN Sets \union DOMAIN Clears \union {"--user"}
    /\ \A i \in Paths : i <= Len(Words) /\ Loads(Words[i])

\* A flag is on when the last option about it sets it, or none clears it and it
\* is on by default.
Asked(flag) ==
    LET about == {i \in Options :
                    \/ Words[i] \in DOMAIN Sets /\ Sets[Words[i]] = flag
                    \/ Words[i] \in DOMAIN Clears /\ Clears[Words[i]] = flag}
    IN  IF about = {} THEN flag \in {"CHECK_SPKI", "VERIFY_DA"}
        ELSE \E i \in about : Words[i] \in DOMAIN Sets /\ \A j \in about : j <= i

Key(i) == Certificates[Words[i]].key

\* The --user certificate that counts: one of the right key, or the first.
Counts(i) ==
    /\ i \in Paths
    /\ IF Asked("CHECK_SPKI") THEN Key(i) = Agent.keyHash ELSE \A j \in Paths : i <= j

SomeoneCounts == \E i \in Paths : Counts(i)

SignedByWhoCounts == \A i \in Paths : Counts(i) => Key(i) = Agent.signer

\* The certificate passes every check, with a principal for each.
Delegated ==
    /\ WellFormed
    /\ Agent.ext = "valid"
    /\ Asked("CHECK_SPKI") \/ Asked("VERIFY_DA") => SomeoneCounts
    /\ Asked("VERIFY_DA") => SignedByWhoCounts

\* The least that 0 may stand for under --verify-da, and under --no-verify-da,
\* with which docs/cli.md calls the check structural.
Verified ==
    /\ WellFormed
    /\ Agent.ext = "valid"
    /\ Asked("VERIFY_DA") => SomeoneCounts /\ SignedByWhoCounts
    /\ Asked("CHECK_SPKI") /\ Paths # {} => SomeoneCounts

\* "tolerate missing AIC (return success with a notice, default)" (docs/cli.md)
Tolerated ==
    /\ WellFormed
    /\ Agent.ext = "absent"
    /\ ~Asked("REQUIRE")

Finished(command) == pc = "exited" /\ cmd.command = command

\* `verify` exits with 0 only for a well formed command line and a certificate
\* that passes the checks it asks for, each as the last option about it says,
\* or that has no AIC where none is required; and with 0 when the certificate
\* passes them all.  Without memory it may refuse, never pass.  (What it does
\* with a certificate without AIC, or with the key check and no principal, is
\* left open.)
ZeroMeansDelegated ==
    Finished("verify") =>
        /\ status = 0 => Loads(cmd.agent) /\ (Verified \/ Tolerated)
        /\ ~starved /\ Loads(cmd.agent) /\ Delegated => status = 0

\* Every path through the tool, `print` and `verify`, frees the certificates it
\* loaded, the AIC it decoded, the stack and the anti-replay context, as long
\* as no allocation fails.
EverythingFreed == pc = "exited" /\ ~starved => heap = {}
=============================================================================
