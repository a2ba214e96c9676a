----------------------------- MODULE ReplayCache -----------------------------
(***************************************************************************)
(* The anti-replay context of src/aic_verify.c: AIC_replay_new,            *)
(* AIC_replay_free and AIC_replay_check, statement by statement, over the  *)
(* growable array `nonces` with its fill count n and its capacity cap.     *)
(*                                                                         *)
(* Several threads share one context.  The C code takes no lock, so mutual *)
(* exclusion is up to the callers: Locked says whether they provide it     *)
(* (one thread at a time between the first and the last statement of       *)
(* AIC_replay_check).  MaxCap bounds the memory: a realloc beyond it       *)
(* always fails, one below it may fail.                                    *)
(***************************************************************************)
EXTENDS Naturals

CONSTANTS
    Threads,     \* the threads that call the context
    Nonces,      \* the 32-byte nonces
    ShortNonce,  \* a nonce argument whose length is not 32
    Junk,        \* the content of a slot that was never written
    InitialCap,  \* capacity of the first allocation (8 in the code)
    MaxCap,      \* bound: the largest array the allocator ever grants
    Locked       \* the callers serialise their calls

ASSUME CacheConstants ==
    /\ ShortNonce \notin Nonces
    /\ Junk \notin Nonces
    /\ InitialCap \in Nat \ {0}
    /\ MaxCap \in Nat
    /\ Locked \in BOOLEAN

VARIABLES
    ctx,     \* "null" or "live": the AIC_REPLAY_CTX pointer the callers hold
    nonces,  \* ctx->nonces, slots 1..cap
    n,       \* ctx->n
    cap,     \* ctx->cap
    pc,      \* pc[t]: the next statement of thread t
    arg,     \* arg[t]: the nonce thread t passed
    idx,     \* idx[t]: the loop index of thread t (1-based)
    result   \* result[t]: why the last call of t returned what it returned

vars == <<ctx, nonces, n, cap, pc, arg, idx, result>>

context == <<ctx, nonces, n, cap>>

Statements == {"idle", "enter", "scan", "grow", "store", "count"}

\* Thread t is between the first and the last access to the context.
Inside(t) == pc[t] \in {"scan", "grow", "store", "count"}

Init ==
    /\ ctx = "null"
    /\ nonces = [i \in {} |-> Junk]
    /\ n = 0
    /\ cap = 0
    /\ pc = [t \in Threads |-> "idle"]
    /\ arg = [t \in Threads |-> ShortNonce]
    /\ idx = [t \in Threads |-> 1]
    /\ result = [t \in Threads |-> "none"]

(***************************************************************************)
(* AIC_replay_new: zalloc of the context.  When it fails the caller keeps  *)
(* a NULL pointer, which AIC_replay_check accepts as an argument.          *)
(***************************************************************************)
New ==
    /\ ctx = "null"
    /\ ctx' = "live"
    /\ nonces' = [i \in {} |-> Junk]
    /\ n' = 0
    /\ cap' = 0
    /\ UNCHANGED <<pc, arg, idx, result>>

\* AIC_replay_free: called when no thread is in a check on the context.
Free ==
    /\ ctx = "live"
    /\ \A t \in Threads : pc[t] = "idle"
    /\ ctx' = "null"
    /\ nonces' = [i \in {} |-> Junk]
    /\ n' = 0
    /\ cap' = 0
    /\ UNCHANGED <<pc, arg, idx, result>>

(***************************************************************************)
(* AIC_replay_check                                                        *)
(***************************************************************************)
Call(t, x) ==
    /\ pc[t] = "idle"
    /\ pc' = [pc EXCEPT ![t] = "enter"]
    /\ arg' = [arg EXCEPT ![t] = x]
    /\ result' = [result EXCEPT ![t] = "pending"]
    /\ UNCHANGED <<context, idx>>

Return(t, r) ==
    /\ pc' = [pc EXCEPT ![t] = "idle"]
    /\ result' = [result EXCEPT ![t] = r]

\* The first slot the loop looks at (mutant: i = 1)
SecondSlot == 2
FirstSlot == 1

\* if (ctx == NULL || nonce_len != 32) return 0;
Enter(t) ==
    /\ pc[t] = "enter"
    /\ Locked => \A u \in Threads : ~Inside(u)
    /\ \/ /\ ctx = "null" \/ arg[t] = ShortNonce
          /\ Return(t, "refused")
          /\ UNCHANGED idx
       \/ /\ ctx = "live" /\ arg[t] # ShortNonce
          /\ pc' = [pc EXCEPT ![t] = "scan"]
          /\ idx' = [idx EXCEPT ![t] = FirstSlot]
          /\ UNCHANGED result
    /\ UNCHANGED <<context, arg>>

\* for (i = 0; i < ctx->n; i++): the loop has seen every counted slot ...
\* (mutant: i < ctx->n - 1)
AtEndTooEarly(t) == idx[t] >= n
AtEnd(t) == idx[t] > n

\* ... or goes on with the next one (mutant: no i++)
AdvanceForgotten(t) == UNCHANGED idx
Advance(t) == idx' = [idx EXCEPT ![t] = @ + 1]

\* One round of the loop: leave it, find a replay, or look at the next slot.
Scan(t) ==
    /\ pc[t] = "scan"
    /\ \/ /\ AtEnd(t)
          /\ pc' = [pc EXCEPT ![t] = "grow"]
          /\ UNCHANGED <<idx, result>>
       \/ /\ ~AtEnd(t)
          /\ nonces[idx[t]] = arg[t]
          /\ Return(t, "replayed")
          /\ UNCHANGED idx
       \/ /\ ~AtEnd(t)
          /\ nonces[idx[t]] # arg[t]
          /\ Advance(t)
          /\ UNCHANGED <<pc, result>>
    /\ UNCHANGED <<context, arg>>

NewCap == IF cap = 0 THEN InitialCap ELSE cap * 2

\* realloc keeps the old slots and adds unwritten ones.
Realloc ==
    /\ NewCap <= MaxCap
    /\ nonces' = [i \in 1..NewCap |-> IF i <= cap THEN nonces[i] ELSE Junk]
    /\ cap' = NewCap

\* realloc returned NULL (mutant: ctx->cap assigned before the test of p)
ReallocFailsLate == cap' = NewCap /\ UNCHANGED nonces
ReallocFails == UNCHANGED <<nonces, cap>>

\* if (ctx->n == ctx->cap) (mutant: ctx->n > ctx->cap)
FullOneLate == n > cap
Full == n = cap

Grow(t) ==
    /\ pc[t] = "grow"
    /\ \/ /\ ~Full
          /\ pc' = [pc EXCEPT ![t] = "store"]
          /\ UNCHANGED <<nonces, cap, result>>
       \/ /\ Full
          /\ Realloc
          /\ pc' = [pc EXCEPT ![t] = "store"]
          /\ UNCHANGED result
       \/ /\ Full
          /\ ReallocFails
          /\ Return(t, "nomem")
    /\ UNCHANGED <<ctx, n, arg, idx>>

\* memcpy(ctx->nonces[ctx->n], nonce, 32)
Store(t) ==
    /\ pc[t] = "store"
    /\ nonces' = [nonces EXCEPT ![n + 1] = arg[t]]
    /\ pc' = [pc EXCEPT ![t] = "count"]
    /\ UNCHANGED <<ctx, n, cap, arg, idx, result>>

\* ctx->n++; return 1; (mutant: the increment is missing)
CountForgotten(t) ==
    /\ pc[t] = "count"
    /\ Return(t, "accepted")
    /\ UNCHANGED <<context, arg, idx>>
Count(t) ==
    /\ pc[t] = "count"
    /\ n' = n + 1
    /\ Return(t, "accepted")
    /\ UNCHANGED <<ctx, nonces, cap, arg, idx>>

Step(t) == Enter(t) \/ Scan(t) \/ Grow(t) \/ Store(t) \/ Count(t)

Next ==
    \/ New
    \/ Free
    \/ \E t \in Threads :
          \/ \E x \in Nonces \union {ShortNonce} : Call(t, x)
          \/ Step(t)

Spec == Init /\ [][Next]_vars

\* A thread that runs keeps executing the statements of the function, and the
\* lock of the callers, when there is one, is handed out fairly.
FairSpec ==
    /\ Spec
    /\ \A t \in Threads :
          /\ SF_vars(Enter(t))
          /\ WF_vars(Scan(t) \/ Grow(t) \/ Store(t) \/ Count(t))

-----------------------------------------------------------------------------
(***************************************************************************)
(* Properties                                                              *)
(***************************************************************************)

\* The nonces the context holds: the first n slots.
Stored == {nonces[i] : i \in 1..n}

TypeOK ==
    /\ ctx \in {"null", "live"}
    /\ n \in Nat
    /\ cap \in Nat
    /\ nonces \in [1..cap -> Nonces \union {Junk}]
    /\ pc \in [Threads -> Statements]
    /\ arg \in [Threads -> Nonces \union {ShortNonce}]
    /\ idx \in [Threads -> Nat \ {0}]
    /\ result \in [Threads -> {"none", "pending", "accepted", "replayed",
                               "nomem", "refused"}]

\* The array never overflows: a thread about to write slot n has that slot,
\* through every growth and every failed growth of AIC_replay_check.
StoreInBounds ==
    /\ n <= cap
    /\ \A t \in Threads : pc[t] = "store" => n < cap

\* The counted slots are written and pairwise different: no nonce is kept
\* twice, so none was accepted twice by this context.
NoDuplicateNonce ==
    /\ Stored \subseteq Nonces
    /\ \A i, j \in 1..n : nonces[i] = nonces[j] => i = j

\* "anti-replay: reject reused nonces" (src/aic_verify.h): a call never
\* accepts a nonce the context already holds.
ReusedNonceRejected ==
    [][\A t \in Threads :
          pc[t] = "count" /\ pc'[t] = "idle" => arg[t] \notin Stored]_vars

\* The context keeps the promise of the register: what it holds is what it
\* has accepted, and the statements of a call together are one atomic answer.
Register == INSTANCE NonceRegister
    WITH spent <- Stored, query <- arg, answer <- result

ImplementsRegister == Register!RegisterSpec

\* Every call returns, however large the array has grown.
EveryCheckReturns ==
    \A t \in Threads : pc[t] # "idle" ~> pc[t] = "idle"
=============================================================================
