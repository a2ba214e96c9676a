-------------------------- MODULE ReplayCacheProofs --------------------------
(***************************************************************************)
(* Proofs about ReplayCache, for every number of threads and nonces, every *)
(* first capacity and every memory limit.                                  *)
(*                                                                         *)
(* Under the callers' lock the array stays in bounds and without           *)
(* duplicates, and the context implements NonceRegister.  The inductive    *)
(* invariant says how far the one thread inside has come: which slots it   *)
(* has compared, that the room it made is still there, and that the slot   *)
(* it wrote is the one it is about to count.                               *)
(***************************************************************************)
EXTENDS ReplayCache, TLAPS

\* At most one thread is inside the function body.
MutualExclusion ==
    \A t, u \in Threads : Inside(t) /\ Inside(u) => t = u

\* A thread is inside with a live context and a nonce of the right length.
InsideLive ==
    \A t \in Threads : Inside(t) => ctx = "live" /\ arg[t] \in Nonces

\* What needs no lock: a thread inside is there with a live context and a
\* nonce that fits a slot.
Typed == TypeOK /\ InsideLive

NullIsEmpty == ctx = "null" => n = 0

\* What the thread inside has established so far.
Compared(t) ==
    /\ pc[t] = "scan" => \A j \in 1..n : j < idx[t] => nonces[j] # arg[t]
    /\ pc[t] \in {"grow", "store", "count"} =>
          \A j \in 1..n : nonces[j] # arg[t]
    /\ pc[t] \in {"store", "count"} => n < cap
    /\ pc[t] = "count" => nonces[n + 1] = arg[t]

Progressing == \A t \in Threads : Compared(t)

InCall == \A t \in Threads : pc[t] # "idle" <=> result[t] = "pending"

Array ==
    /\ n <= cap
    /\ NoDuplicateNonce

IInv ==
    /\ Typed
    /\ MutualExclusion
    /\ NullIsEmpty
    /\ Array
    /\ Progressing
    /\ InCall

-----------------------------------------------------------------------------
(***************************************************************************)
(* Types, lock or no lock                                                  *)
(***************************************************************************)

LEMMA TypedInit == Init => Typed
  BY CacheConstants DEF Init, Typed, TypeOK, InsideLive, Inside, Statements

LEMMA TypedStep == Typed /\ [Next]_vars => Typed'
<1> SUFFICES ASSUME Typed, [Next]_vars PROVE TypeOK' /\ InsideLive'
  BY DEF Typed
<1> USE CacheConstants DEF Typed, TypeOK, InsideLive, Inside, Statements
<1>1. CASE New
  BY <1>1 DEF New
<1>2. CASE Free
  BY <1>2 DEF Free
<1>3. ASSUME NEW t \in Threads, NEW x \in Nonces \union {ShortNonce}, Call(t, x)
      PROVE  TypeOK' /\ InsideLive'
  BY <1>3 DEF Call, context
<1>4. ASSUME NEW t \in Threads, Enter(t) PROVE TypeOK' /\ InsideLive'
  <2>1. CASE ctx = "null" \/ arg[t] = ShortNonce
    BY <1>4, <2>1 DEF Enter, Return, context
  <2>2. CASE ctx = "live" /\ arg[t] # ShortNonce
    <3>1. arg[t] \in Nonces /\ UNCHANGED <<ctx, nonces, n, cap, arg, result>>
      BY <1>4, <2>2 DEF Enter, context
    <3>2. pc' = [pc EXCEPT ![t] = "scan"] /\ idx' = [idx EXCEPT ![t] = 1]
      BY <1>4, <2>2 DEF Enter, FirstSlot
    <3>3. TypeOK'
      BY <3>1, <3>2
    <3>4. InsideLive'
      BY <2>2, <3>1, <3>2
    <3> QED
      BY <3>3, <3>4
  <2> QED
    BY <2>1, <2>2
<1>5. ASSUME NEW t \in Threads, Scan(t) PROVE TypeOK' /\ InsideLive'
  <2>1. pc[t] = "scan" /\ UNCHANGED <<ctx, nonces, n, cap, arg>>
    BY <1>5 DEF Scan, context
  <2>2. pc' \in [Threads -> Statements] /\ idx' \in [Threads -> Nat \ {0}]
    <3>1. pc' = pc \/ \E v \in Statements : pc' = [pc EXCEPT ![t] = v]
      BY <1>5 DEF Scan, Return
    <3>2. idx' = idx \/ idx' = [idx EXCEPT ![t] = @ + 1]
      BY <1>5 DEF Scan, Advance
    <3>3. pc' \in [Threads -> Statements]
      BY <3>1
    <3>4. idx' \in [Threads -> Nat \ {0}]
      BY <3>2
    <3> QED
      BY <3>3, <3>4
  <2>3. result' \in [Threads -> {"none", "pending", "accepted", "replayed",
                                 "nomem", "refused"}]
    BY <1>5 DEF Scan, Return
  <2>4. \A u \in Threads : Inside(u)' => Inside(u)
    BY <1>5 DEF Scan, Return
  <2> QED
    BY <2>1, <2>2, <2>3, <2>4
<1>6. ASSUME NEW t \in Threads, Grow(t) PROVE TypeOK' /\ InsideLive'
  <2>1. CASE UNCHANGED <<nonces, cap>>
    BY <1>6, <2>1 DEF Grow, Realloc, ReallocFails, Return
  <2>2. CASE Realloc
    <3>1. NewCap \in Nat
      BY DEF NewCap
    <3>2. nonces' \in [1..cap' -> Nonces \union {Junk}] /\ cap' \in Nat
      BY <2>2, <3>1 DEF Realloc
    <3> QED
      BY <1>6, <3>2 DEF Grow, Return
  <2> QED
    BY <1>6, <2>1, <2>2 DEF Grow, ReallocFails
<1>7. ASSUME NEW t \in Threads, Store(t) PROVE TypeOK' /\ InsideLive'
  <2>1. arg[t] \in Nonces
    BY <1>7 DEF Store
  <2>2. nonces' \in [1..cap' -> Nonces \union {Junk}]
    BY <1>7, <2>1 DEF Store
  <2>3. pc' \in [Threads -> Statements]
    BY <1>7 DEF Store
  <2>4. InsideLive'
    BY <1>7 DEF Store
  <2> QED
    BY <1>7, <2>2, <2>3, <2>4 DEF Store
<1>8. ASSUME NEW t \in Threads, Count(t) PROVE TypeOK' /\ InsideLive'
  BY <1>8 DEF Count, Return, context
<1>9. CASE UNCHANGED vars
  BY <1>9 DEF vars
<1> QED
  BY <1>1, <1>2, <1>3, <1>4, <1>5, <1>6, <1>7, <1>8, <1>9 DEF Next, Step

\* TypeOK, whether or not the callers lock: no statement of the three
\* functions leaves the context or a call in a shape the code cannot have.
THEOREM TypeCorrect == Spec => []TypeOK
<1>1. Typed /\ UNCHANGED vars => Typed'
  BY TypedStep
<1>2. Typed => TypeOK
  BY DEF Typed
<1> QED
  BY <1>2, TypedInit, TypedStep, PTL DEF Spec

-----------------------------------------------------------------------------
(***************************************************************************)
(* The lock and the array                                                  *)
(***************************************************************************)

LEMMA InvInit == Init => IInv
<1> SUFFICES ASSUME Init PROVE IInv
  OBVIOUS
<1>1. Typed
  BY TypedInit
<1>2. Array
  BY DEF Init, Array, NoDuplicateNonce, Stored
<1>3. MutualExclusion /\ NullIsEmpty /\ Progressing /\ InCall
  BY DEF Init, MutualExclusion, NullIsEmpty, Progressing, Compared, InCall, Inside
<1> QED
  BY <1>1, <1>2, <1>3 DEF IInv

\* A thread in the body of the function is there alone.
LEMMA Alone ==
  ASSUME MutualExclusion, NEW t \in Threads, Inside(t)
  PROVE  \A u \in Threads \ {t} : ~Inside(u)
  BY DEF MutualExclusion

\* The facts about one thread hold trivially while it is outside.
LEMMA OutsideCompared ==
  ASSUME NEW t \in Threads, ~Inside(t)
  PROVE  Compared(t)
  BY DEF Compared, Inside

LEMMA InvStep == ASSUME Locked PROVE IInv /\ [Next]_vars => IInv'
<1> SUFFICES ASSUME IInv, [Next]_vars
             PROVE  /\ MutualExclusion' /\ NullIsEmpty' /\ InCall'
                    /\ Array' /\ Progressing'
  BY TypedStep DEF IInv
<1> DEFINE Goal == /\ MutualExclusion' /\ NullIsEmpty' /\ InCall'
                   /\ Array' /\ Progressing'
<1>t. TypeOK /\ InsideLive
  BY DEF IInv, Typed
<1>1. CASE New \/ Free
  <2>1. n' = 0 /\ cap' = 0 /\ UNCHANGED <<pc, arg, idx, result>>
    BY <1>1 DEF New, Free
  <2>2. \A t \in Threads : ~Inside(t)
    BY <1>1, <1>t DEF New, Free, InsideLive, Inside
  <2>3. Array'
    BY <2>1 DEF Array, NoDuplicateNonce, Stored
  <2>4. Progressing'
    BY <2>1, <2>2 DEF Progressing, Compared, Inside
  <2> QED
    BY <2>1, <2>2, <2>3, <2>4 DEF IInv, MutualExclusion, NullIsEmpty, InCall, Inside
<1>2. ASSUME NEW t \in Threads, NEW x \in Nonces \union {ShortNonce}, Call(t, x)
      PROVE  Goal
  <2>1. /\ pc' = [pc EXCEPT ![t] = "enter"] /\ arg' = [arg EXCEPT ![t] = x]
        /\ result' = [result EXCEPT ![t] = "pending"]
        /\ UNCHANGED <<ctx, nonces, n, cap, idx>>
    BY <1>2 DEF Call, context
  <2>2. Array'
    BY <2>1 DEF IInv, Array, NoDuplicateNonce, Stored
  <2>3. \A u \in Threads : Compared(u)'
    <3> SUFFICES ASSUME NEW u \in Threads PROVE Compared(u)'
      OBVIOUS
    <3>1. Compared(u)
      BY DEF IInv, Progressing
    <3>2. u # t => pc'[u] = pc[u] /\ arg'[u] = arg[u] /\ idx'[u] = idx[u]
      BY <2>1, <1>t DEF TypeOK
    <3>3. pc'[t] = "enter"
      BY <2>1, <1>t DEF TypeOK
    <3> QED
      BY <2>1, <3>1, <3>2, <3>3 DEF Compared
  <2>4. MutualExclusion' /\ NullIsEmpty' /\ InCall'
    BY <2>1, <1>t DEF IInv, MutualExclusion, NullIsEmpty, InCall, Inside, TypeOK
  <2> QED
    BY <2>2, <2>3, <2>4 DEF Progressing
<1>3. ASSUME NEW t \in Threads, Enter(t) PROVE Goal
  <2>1. UNCHANGED <<ctx, nonces, n, cap, arg>>
    BY <1>3 DEF Enter, context
  <2>2. \A u \in Threads : ~Inside(u)
    BY <1>3 DEF Enter
  <2>3. Array'
    BY <2>1 DEF IInv, Array, NoDuplicateNonce, Stored
  <2>4. CASE Return(t, "refused")
    <3>1. \A u \in Threads : ~Inside(u)'
      BY <2>2, <2>4, <1>t DEF Return, Inside, TypeOK
    <3>2. Progressing'
      BY <3>1, OutsideCompared DEF Progressing, Compared, Inside
    <3>3. InCall'
      BY <2>4, <1>t DEF Return, InCall, IInv, TypeOK
    <3> QED
      BY <2>1, <2>3, <3>1, <3>2, <3>3 DEF IInv, MutualExclusion, NullIsEmpty
  <2>5. CASE pc' = [pc EXCEPT ![t] = "scan"] /\ idx' = [idx EXCEPT ![t] = FirstSlot]
             /\ UNCHANGED result
    <3>1. pc'[t] = "scan" /\ idx'[t] = 1
      BY <2>5, <1>t DEF TypeOK, FirstSlot
    <3>2. \A u \in Threads \ {t} : ~Inside(u)'
      BY <2>2, <2>5, <1>t DEF Inside, TypeOK
    <3>3. Compared(t)'
      BY <2>1, <3>1, <1>t DEF Compared, TypeOK
    <3>4. Progressing'
      BY <3>2, <3>3 DEF Progressing, Compared, Inside
    <3>5. InCall'
      BY <1>3, <2>5, <1>t DEF InCall, IInv, TypeOK, Enter
    <3> QED
      BY <2>1, <2>3, <3>2, <3>4, <3>5 DEF IInv, MutualExclusion, NullIsEmpty
  <2> QED
    BY <1>3, <2>4, <2>5 DEF Enter
<1>4. ASSUME NEW t \in Threads, Scan(t) \/ Grow(t) \/ Store(t) \/ Count(t)
      PROVE  Goal
  <2>1. Inside(t) /\ ctx = "live" /\ arg[t] \in Nonces
    BY <1>4, <1>t DEF Scan, Grow, Store, Count, Inside, InsideLive
  <2>2. \A u \in Threads \ {t} : ~Inside(u)
    BY <2>1, Alone DEF IInv
  <2>3. Compared(t)
    BY DEF IInv, Progressing
  <2>4. \A u \in Threads \ {t} : pc'[u] = pc[u] /\ result'[u] = result[u]
    BY <1>4, <1>t DEF Scan, Grow, Store, Count, Return, TypeOK
  <2>5. pc'[t] # "idle" <=> result'[t] = "pending"
    BY <1>4, <1>t DEF Scan, Grow, Store, Count, Return, TypeOK, IInv, InCall
  <2>6. \A u \in Threads \ {t} : ~Inside(u)'
    BY <2>2, <2>4 DEF Inside
  <2>7. MutualExclusion' /\ NullIsEmpty' /\ InCall'
    <3>1. UNCHANGED ctx
      BY <1>4 DEF Scan, Grow, Store, Count, context
    <3> QED
      BY <2>1, <2>4, <2>5, <2>6, <3>1 DEF MutualExclusion, NullIsEmpty, InCall, IInv
  <2>8. SUFFICES Array' /\ Compared(t)'
    BY <2>6, <2>7 DEF Progressing, Compared, Inside
  <2>9. CASE Scan(t)
    <3>1. UNCHANGED <<nonces, n, cap, arg>>
      BY <2>9 DEF Scan, context
    <3>2. Array'
      BY <3>1 DEF IInv, Array, NoDuplicateNonce, Stored
    <3>3. CASE AtEnd(t) /\ pc'[t] = "grow"
      BY <2>3, <2>9, <3>1, <3>2, <3>3, <1>t DEF Compared, AtEnd, Scan, TypeOK
    <3>4. CASE pc'[t] = "idle"
      BY <3>2, <3>4 DEF Compared
    <3>5. CASE /\ pc[t] = "scan" /\ pc'[t] = "scan"
               /\ nonces[idx[t]] # arg[t] /\ idx'[t] = idx[t] + 1
      BY <2>3, <3>1, <3>2, <3>5, <1>t DEF Compared, TypeOK
    <3> QED
      BY <2>9, <1>t, <3>2, <3>3, <3>4, <3>5 DEF Scan, Return, Advance, TypeOK
  <2>10. CASE Grow(t)
    <3>1. UNCHANGED <<n, arg>> /\ pc[t] = "grow"
      BY <2>10 DEF Grow
    <3>2. n <= cap /\ n \in Nat /\ cap \in Nat
      BY <1>t DEF IInv, Array, TypeOK
    <3>3. CASE UNCHANGED <<nonces, cap>>
      <4>1. Array'
        BY <3>1, <3>3 DEF IInv, Array, NoDuplicateNonce, Stored
      <4>2. CASE pc'[t] = "store" /\ ~Full
        BY <2>3, <3>1, <3>2, <3>3, <4>1, <4>2 DEF Compared, Full
      <4>3. CASE pc'[t] = "idle"
        BY <4>1, <4>3 DEF Compared
      <4>4. CASE Full /\ Realloc
        BY <3>2, <3>3, <4>4, CacheConstants DEF Realloc, NewCap, Full
      <4> QED
        BY <2>10, <4>2, <4>3, <4>4, <1>t DEF Grow, Return, TypeOK
    <3>4. CASE Full /\ Realloc /\ pc'[t] = "store"
      <4>1. NewCap \in Nat /\ NewCap > cap
        BY <3>2, CacheConstants DEF NewCap
      <4>2. cap' = NewCap /\ n < cap'
        BY <3>2, <3>4, <4>1 DEF Realloc, Full
      <4>3. \A i \in 1..n : nonces'[i] = nonces[i]
        BY <3>2, <3>4, <4>1 DEF Realloc
      <4>4. Array'
        BY <3>1, <3>2, <4>1, <4>2, <4>3 DEF IInv, Array, NoDuplicateNonce, Stored
      <4> QED
        BY <2>3, <3>1, <3>4, <4>2, <4>3, <4>4 DEF Compared
    <3> QED
      BY <2>10, <3>3, <3>4, <1>t DEF Grow, ReallocFails, TypeOK
  <2>11. CASE Store(t)
    <3>1. UNCHANGED <<n, cap, arg>> /\ pc[t] = "store" /\ pc'[t] = "count"
      BY <2>11, <1>t DEF Store, TypeOK
    <3>2. n \in Nat /\ cap \in Nat /\ n < cap
      BY <2>3, <3>1, <1>t DEF TypeOK, Compared
    <3>3. nonces'[n + 1] = arg[t] /\ \A i \in 1..n : nonces'[i] = nonces[i]
      BY <2>11, <3>2, <1>t DEF Store, TypeOK
    <3>4. Array'
      BY <3>1, <3>2, <3>3 DEF IInv, Array, NoDuplicateNonce, Stored
    <3> QED
      BY <2>3, <3>1, <3>2, <3>3, <3>4 DEF Compared
  <2>12. CASE Count(t)
    <3>1. UNCHANGED <<nonces, cap, arg>> /\ n' = n + 1 /\ pc[t] = "count"
      BY <2>12 DEF Count
    <3>2. /\ n \in Nat /\ cap \in Nat /\ n < cap
          /\ nonces[n + 1] = arg[t] /\ \A j \in 1..n : nonces[j] # arg[t]
      BY <2>3, <3>1, <1>t DEF TypeOK, Compared
    <3>3. NoDuplicateNonce'
      <4>1. \A i \in 1..(n + 1) : i \in 1..n \/ i = n + 1
        BY <3>2
      <4> QED
        BY <2>1, <3>1, <3>2, <4>1 DEF NoDuplicateNonce, Stored, IInv, Array
    <3>4. pc'[t] = "idle"
      BY <2>12, <1>t DEF Count, Return, TypeOK
    <3> QED
      BY <3>1, <3>2, <3>3, <3>4 DEF Array, Compared
  <2> QED
    BY <1>4, <2>9, <2>10, <2>11, <2>12
<1>5. CASE UNCHANGED vars
  BY <1>5 DEF vars, IInv, Array, NoDuplicateNonce, Stored, MutualExclusion,
     NullIsEmpty, InCall, Progressing, Compared, Inside
<1> QED
  BY <1>1, <1>2, <1>3, <1>4, <1>5 DEF Next, Step

LEMMA LockedInvariance == ASSUME Locked PROVE Spec => []IInv
<1>1. IInv /\ [Next]_vars => IInv'
  BY InvStep
<1> QED
  BY <1>1, InvInit, PTL DEF Spec

\* StoreInBounds: memcpy never writes past the array, through every growth
\* and every failed growth.
THEOREM InBounds == ASSUME Locked PROVE Spec => []StoreInBounds
<1>1. IInv => StoreInBounds
  BY DEF IInv, Array, Progressing, Compared, StoreInBounds
<1> QED
  BY <1>1, LockedInvariance, PTL

\* NoDuplicateNonce: the counted slots are written and pairwise different.
THEOREM NoDuplicate == ASSUME Locked PROVE Spec => []NoDuplicateNonce
<1>1. IInv => NoDuplicateNonce
  BY DEF IInv, Array
<1> QED
  BY <1>1, LockedInvariance, PTL

LEMMA CountsNew ==
  ASSUME IInv, NEW t \in Threads, pc[t] = "count"
  PROVE  arg[t] \notin Stored
  BY DEF IInv, Progressing, Compared, Stored

\* ReusedNonceRejected: AIC_replay_check never returns 1 for a nonce that the
\* context already holds.
THEOREM ReusedRejected == ASSUME Locked PROVE Spec => ReusedNonceRejected
<1> DEFINE Rejected == \A t \in Threads :
          pc[t] = "count" /\ pc'[t] = "idle" => arg[t] \notin Stored
<1>1. IInv => Rejected
  BY CountsNew
<1>2. IInv => [Rejected]_vars
  BY <1>1
<1> QED
  BY <1>2, LockedInvariance, PTL DEF ReusedNonceRejected

-----------------------------------------------------------------------------
(***************************************************************************)
(* The context implements the register                                     *)
(***************************************************************************)

LEMMA RegisterStart == Init => Register!RegisterInit
  BY DEF Init, Register!RegisterInit, Stored

LEMMA RegisterStep ==
  IInv /\ [Next]_vars => [Register!RegisterNext]_(Register!rvars)
<1> SUFFICES ASSUME IInv, [Next]_vars
             PROVE  Register!RegisterNext \/ UNCHANGED <<Stored, arg, result>>
  BY DEF Register!rvars
<1>t. TypeOK /\ InsideLive
  BY DEF IInv, Typed
<1>s. ASSUME UNCHANGED <<nonces, n>> PROVE UNCHANGED Stored
  BY <1>s DEF Stored
<1>1. CASE New
  <2>1. Stored = {} /\ Stored' = {}
    BY <1>1 DEF New, IInv, NullIsEmpty, Stored
  <2> QED
    BY <1>1, <2>1 DEF New
<1>2. CASE Free
  <2>1. Stored' = {} /\ UNCHANGED <<arg, result>>
    BY <1>2 DEF Free, Stored
  <2> QED
    BY <2>1 DEF Register!RegisterNext, Register!Forget
<1>3. ASSUME NEW t \in Threads, NEW x \in Nonces \union {ShortNonce}, Call(t, x)
      PROVE  Register!RegisterNext
  <2>1. result[t] # "pending"
    BY <1>3 DEF Call, IInv, InCall
  <2>2. UNCHANGED Stored
    BY <1>3, <1>s DEF Call, context
  <2>3. Register!Ask(t, x)
    BY <1>3, <2>1, <2>2 DEF Call, Register!Ask
  <2> QED
    BY <2>3 DEF Register!RegisterNext
<1>4. ASSUME NEW t \in Threads, Step(t)
      PROVE  Register!RegisterNext \/ UNCHANGED <<Stored, arg, result>>
  <2>1. result[t] = "pending" /\ UNCHANGED arg
    BY <1>4 DEF Step, Enter, Scan, Grow, Store, Count, IInv, InCall
  <2>2. SUFFICES
          \/ UNCHANGED <<Stored, result>>
          \/ Register!Accept(t) \/ Register!CallReplay(t)
          \/ Register!RunOut(t) \/ Register!Refuse(t)
    BY <2>1 DEF Register!RegisterNext
  <2>3. CASE Enter(t)
    <3>1. UNCHANGED Stored
      BY <2>3, <1>s DEF Enter, context
    <3> QED
      BY <2>1, <2>3, <3>1 DEF Enter, Return, Register!Refuse, Register!Reply
  <2>4. CASE Scan(t)
    <3>1. UNCHANGED Stored
      BY <2>4, <1>s DEF Scan, context
    <3>2. CASE UNCHANGED result
      BY <3>1, <3>2
    <3>3. CASE ~AtEnd(t) /\ nonces[idx[t]] = arg[t] /\ Return(t, "replayed")
      <4>1. arg[t] \in Stored
        BY <3>3, <1>t DEF TypeOK, AtEnd, Stored
      <4> QED
        BY <2>1, <3>1, <3>3, <4>1
        DEF Return, Register!CallReplay, Register!Reply
    <3> QED
      BY <2>4, <3>2, <3>3 DEF Scan
  <2>5. CASE Grow(t)
    <3>1. arg[t] \in Nonces \ Stored
      BY <2>5, <1>t DEF Grow, InsideLive, Inside, IInv, Progressing, Compared, Stored
    <3>2. n \in Nat /\ cap \in Nat /\ n <= cap /\ n' = n
      BY <2>5, <1>t DEF Grow, TypeOK, IInv, Array
    <3>3. CASE UNCHANGED nonces
      <4>1. UNCHANGED Stored
        BY <1>s, <3>2, <3>3
      <4> QED
        BY <2>1, <2>5, <3>1, <4>1 DEF Grow, Return, Register!RunOut, Register!Reply
    <3>4. CASE Realloc /\ UNCHANGED result
      <4>1. NewCap \in Nat /\ n <= NewCap
        BY <3>2, CacheConstants DEF NewCap
      <4>2. \A i \in 1..n : nonces'[i] = nonces[i]
        BY <3>2, <3>4, <4>1 DEF Realloc
      <4>3. UNCHANGED Stored
        BY <3>2, <4>2 DEF Stored
      <4> QED
        BY <3>4, <4>3
    <3> QED
      BY <2>5, <3>3, <3>4 DEF Grow, ReallocFails
  <2>6. CASE Store(t)
    <3>1. n \in Nat /\ n' = n /\ nonces' = [nonces EXCEPT ![n + 1] = arg[t]]
      BY <2>6, <1>t DEF Store, TypeOK
    <3>2. \A i \in 1..n : nonces'[i] = nonces[i]
      <4>1. n <= cap /\ cap \in Nat
        BY <1>t DEF IInv, Array, TypeOK
      <4> QED
        BY <3>1, <4>1, <1>t DEF TypeOK
    <3>3. UNCHANGED Stored
      BY <3>1, <3>2 DEF Stored
    <3> QED
      BY <2>6, <3>3 DEF Store
  <2>7. CASE Count(t)
    <3>1. arg[t] \in Nonces \ Stored
      BY <2>7, <1>t, CountsNew DEF Count, InsideLive, Inside
    <3>2. n \in Nat /\ n' = n + 1 /\ nonces' = nonces /\ nonces[n + 1] = arg[t]
      BY <2>7, <1>t DEF Count, TypeOK, IInv, Progressing, Compared
    <3>3. Stored' = Stored \union {arg[t]}
      <4>1. 1..(n + 1) = (1..n) \union {n + 1}
        BY <3>2
      <4> QED
        BY <3>2, <4>1 DEF Stored
    <3> QED
      BY <2>1, <2>7, <3>1, <3>3 DEF Count, Return, Register!Accept, Register!Reply
  <2> QED
    BY <1>4, <2>3, <2>4, <2>5, <2>6, <2>7 DEF Step
<1>5. CASE UNCHANGED vars
  BY <1>5, <1>s DEF vars
<1> QED
  BY <1>1, <1>2, <1>3, <1>4, <1>5 DEF Next

\* ImplementsRegister: under the callers' lock the statements of a call act as
\* one atomic answer of the register, through growth, failed growth, a NULL
\* context and a freed one.
THEOREM RegisterImplemented == ASSUME Locked PROVE Spec => ImplementsRegister
<1>1. IInv /\ [Next]_vars => [Register!RegisterNext]_(Register!rvars)
  BY RegisterStep
<1> QED
  BY <1>1, RegisterStart, LockedInvariance, PTL
  DEF Spec, ImplementsRegister, Register!RegisterSpec
=============================================================================
