---------------------------- MODULE NonceRegister ----------------------------
(***************************************************************************)
(* What an anti-replay context promises to the callers of                  *)
(* AIC_replay_check, whatever array it keeps its nonces in: a nonce is     *)
(* accepted at most once in the life of a context, and it is called a      *)
(* replay only if this context accepted it before.                         *)
(*                                                                         *)
(* A call is open from Ask to one of the four answers.  The C function     *)
(* returns 1 for "accepted" and 0 for the three others; the register keeps *)
(* the reason, because the promise depends on it.                          *)
(***************************************************************************)
CONSTANTS
    Threads,    \* callers of the context
    Nonces,     \* the 32-byte nonces
    ShortNonce  \* an argument whose length is not 32 bytes

VARIABLES
    spent,      \* the nonces the current context has accepted
    query,      \* query[t]: the argument of the call of thread t
    answer      \* answer[t]: "pending" while t is in a call, else the last answer

rvars == <<spent, query, answer>>

Answers == {"none", "pending", "accepted", "replayed", "nomem", "refused"}

RegisterInit ==
    /\ spent = {}
    /\ query = [t \in Threads |-> ShortNonce]
    /\ answer = [t \in Threads |-> "none"]

Ask(t, x) ==
    /\ answer[t] # "pending"
    /\ query' = [query EXCEPT ![t] = x]
    /\ answer' = [answer EXCEPT ![t] = "pending"]
    /\ UNCHANGED spent

Reply(t, a) ==
    /\ answer[t] = "pending"
    /\ answer' = [answer EXCEPT ![t] = a]
    /\ UNCHANGED query

Accept(t) ==
    /\ query[t] \in Nonces \ spent
    /\ Reply(t, "accepted")
    /\ spent' = spent \union {query[t]}

CallReplay(t) ==
    /\ query[t] \in spent
    /\ Reply(t, "replayed")
    /\ UNCHANGED spent

\* No memory for one more nonce: the caller is turned away, and the nonce is
\* still good for a later call.
RunOut(t) ==
    /\ query[t] \in Nonces \ spent
    /\ Reply(t, "nomem")
    /\ UNCHANGED spent

\* A NULL context or an argument of the wrong length.
Refuse(t) ==
    /\ Reply(t, "refused")
    /\ UNCHANGED spent

\* The context is freed: the promise is per context, not per process.
Forget ==
    /\ spent # {}
    /\ spent' = {}
    /\ UNCHANGED <<query, answer>>

RegisterNext ==
    \/ \E t \in Threads, x \in Nonces \union {ShortNonce} : Ask(t, x)
    \/ \E t \in Threads : Accept(t) \/ CallReplay(t) \/ RunOut(t) \/ Refuse(t)
    \/ Forget

RegisterSpec == RegisterInit /\ [][RegisterNext]_rvars
=============================================================================
