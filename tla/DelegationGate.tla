--------------------------- MODULE DelegationGate ----------------------------
(***************************************************************************)
(* What AIC_verify_cert promises to the programs that put it in front of   *)
(* what an agent may do, however many of them call it and in whatever      *)
(* steps it goes about it: every call is answered once, in one instant,    *)
(* with a verdict its request permits; and what may be granted once is     *)
(* granted once, to whichever client comes first.                          *)
(*                                                                         *)
(* The verdicts are those of src/aic_verify.h: 1 verified, 0 refused, -1   *)
(* nothing to verify.                                                      *)
(***************************************************************************)
EXTENDS Integers

CONSTANTS
    Clients,       \* those who call
    Requests,      \* what they may ask
    NULL,          \* nothing asked yet
    Permitted(_),  \* Permitted(r): the verdicts that r may be answered with
    Tickets(_)     \* Tickets(r): what is used up when r is granted

VARIABLES
    asked,    \* asked[c]: the last request of client c
    open,     \* the clients that wait for their answer
    verdict,  \* verdict[c]: the last answer client c got
    granted   \* the tickets that have been used up

gvars == <<asked, open, verdict, granted>>

GateInit ==
    /\ asked = [c \in Clients |-> NULL]
    /\ open = {}
    /\ verdict = [c \in Clients |-> 0]
    /\ granted = {}

Present(c) ==
    /\ c \notin open
    /\ open' = open \union {c}
    /\ asked'[c] \in Requests
    /\ asked' = [asked EXCEPT ![c] = asked'[c]]
    /\ UNCHANGED <<verdict, granted>>

Reply(c, v) ==
    /\ c \in open
    /\ open' = open \ {c}
    /\ verdict' = [verdict EXCEPT ![c] = v]
    /\ v \in Permitted(asked[c])
    /\ UNCHANGED asked

Grant(c) ==
    /\ Reply(c, 1)
    /\ Tickets(asked[c]) \cap granted = {}
    /\ granted' = granted \union Tickets(asked[c])

TurnAway(c) ==
    /\ \E v \in {-1, 0} : Reply(c, v)
    /\ UNCHANGED granted

GateNext ==
    \E c \in Clients :
        \/ Present(c)
        \/ Grant(c)
        \/ TurnAway(c)

GateSpec == GateInit /\ [][GateNext]_gvars
=============================================================================
