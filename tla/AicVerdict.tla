----------------------------- MODULE AicVerdict ------------------------------
(***************************************************************************)
(* What AIC_verify_cert (src/aic_verify.c) answers, in one expression, when *)
(* memory does not run out.  The callback and the command line tool are    *)
(* modelled over it; AicVerify has the function step by step and shows     *)
(* that it answers this.                                                   *)
(*                                                                         *)
(*   ext         "absent", "unreadable" (does not decode, or there twice), *)
(*               "malformed" (AIC_validate refuses it) or "valid"          *)
(*   candidates  the certificates in `untrusted`, in order: [matches,      *)
(*               signs], whether its SPKI hashes to keyHash and whether    *)
(*               the delegation verifies under its key                     *)
(*   fresh       there is an anti-replay context, without the nonce        *)
(***************************************************************************)
EXTENDS Integers, Sequences

FlagBits == {"REQUIRE", "CHECK_SPKI", "VERIFY_DA", "REPLAY"}

\* The candidates that may stand for the principal: with CHECK_SPKI those that
\* match (they all have one key), else the first one.
Principals(candidates, flags) ==
    {i \in 1..Len(candidates) :
        IF "CHECK_SPKI" \in flags THEN candidates[i].matches ELSE i = 1}

Verdict(ext, candidates, flags, fresh) ==
    LET principals == Principals(candidates, flags)
    IN  IF ext \in {"absent", "unreadable"}
        THEN IF "REQUIRE" \in flags THEN 0 ELSE -1
        ELSE IF /\ ext = "valid"
                /\ "REPLAY" \in flags => fresh
                /\ flags \cap {"CHECK_SPKI", "VERIFY_DA"} # {} => principals # {}
                /\ "VERIFY_DA" \in flags => \A i \in principals : candidates[i].signs
             THEN 1 ELSE 0
=============================================================================
