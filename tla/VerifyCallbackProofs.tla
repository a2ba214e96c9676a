------------------------ MODULE VerifyCallbackProofs -------------------------
(***************************************************************************)
(* Proofs about the flag registry and the verification callback, for any   *)
(* number of addresses and sessions, any capacity and chains of any length *)
(***************************************************************************)
EXTENDS VerifyCallback, TLAPS

Entry == [param : Addresses, flags : SUBSET FlagBits]
RegTyped == reg \in Seq(Entry) /\ regCap \in Nat

-----------------------------------------------------------------------------
\* With one entry to an address, the lookup finds that entry, in this state
\* and in the next one.
LEMMA LookupFinds ==
    ASSUME RegistryOK, NEW a, NEW i \in EntriesOf(a)
    PROVE  Lookup(a) = reg[i].flags
<1>1. EntriesOf(a) = {i}
    BY DEF RegistryOK, EntriesOf
<1>2. IsFirst(i, a) /\ \A j : IsFirst(j, a) => j = i
    <2>1. i \in Nat
        BY DEF EntriesOf
    <2>. QED  BY <1>1, <2>1 DEF IsFirst
<1>. QED  BY <1>1, <1>2 DEF Lookup

LEMMA LookupFindsNext ==
    ASSUME RegistryOK', NEW a, NEW i \in EntriesOf(a)'
    PROVE  Lookup(a)' = reg'[i].flags
<1>1. EntriesOf(a)' = {i}
    BY DEF RegistryOK, EntriesOf
<1>2. IsFirst(i, a)' /\ \A j : IsFirst(j, a)' => j = i
    <2>1. i \in Nat
        BY DEF EntriesOf
    <2>. QED  BY <1>1, <2>1 DEF IsFirst
<1>. QED  BY <1>1, <1>2 DEF Lookup

\* set_aic_flags keeps the array well formed.
LEMMA SetKeepsRegistry ==
    ASSUME RegTyped, RegistryOK,
           NEW a \in Addresses, NEW f \in SUBSET FlagBits, SetAicFlags(a, f)
    PROVE  RegTyped' /\ RegistryOK'
<1>1. CASE Listed(a) /\ Overwrite(a, f)
    <2>1. PICK i \in 1..Len(reg) : reg' = [reg EXCEPT ![i].flags = f]
        BY <1>1 DEF Overwrite
    <2>2. reg' \in Seq(Entry) /\ Len(reg') = Len(reg)
        <3>1. reg[i] \in Entry
            BY DEF RegTyped
        <3>2. [reg[i] EXCEPT !.flags = f] \in Entry
            BY <3>1 DEF Entry
        <3>. QED  BY <2>1, <3>2 DEF RegTyped
    <2>3. \A j \in 1..Len(reg) : reg'[j].param = reg[j].param
        BY <2>1 DEF RegTyped, Entry
    <2>. QED  BY <1>1, <2>2, <2>3 DEF RegTyped, RegistryOK, Overwrite
<1>2. CASE /\ ~Listed(a)
           /\ Room
           /\ reg' = Append(reg, [param |-> a, flags |-> f])
    <2>1. reg' \in Seq(Entry) /\ Len(reg') = Len(reg) + 1
        BY <1>2 DEF RegTyped, Entry
    <2>2. regCap' \in Nat /\ Len(reg) + 1 <= regCap'
        BY <1>2, RegistryConstants DEF Room, NewCap, RegTyped, RegistryOK
    <2>3. /\ \A j \in 1..Len(reg) : reg'[j] = reg[j] /\ reg[j].param # a
          /\ reg'[Len(reg) + 1].param = a
        BY <1>2 DEF RegTyped, Listed, EntriesOf
    <2>. QED  BY <2>1, <2>2, <2>3 DEF RegTyped, RegistryOK
<1>. QED  BY <1>1, <1>2 DEF SetAicFlags

\* ... gives the address its flags, and no other address other ones.
LEMMA SetEffect ==
    ASSUME RegTyped, RegistryOK,
           NEW a \in Addresses, NEW f \in SUBSET FlagBits, SetAicFlags(a, f)
    PROVE  /\ Lookup(a)' = f
           /\ \A b \in Addresses \ {a} : Lookup(b)' = Lookup(b)
<1>0. RegTyped' /\ RegistryOK'
    BY SetKeepsRegistry
<1>1. CASE Listed(a) /\ Overwrite(a, f)
    <2>1. PICK i \in 1..Len(reg) : IsFirst(i, a) /\ reg' = [reg EXCEPT ![i].flags = f]
        BY <1>1 DEF Overwrite
    <2>2. /\ Len(reg') = Len(reg)
          /\ reg'[i].param = a /\ reg'[i].flags = f
          /\ \A j \in 1..Len(reg) : /\ reg'[j].param = reg[j].param
                                    /\ j # i => reg'[j] = reg[j]
        BY <2>1 DEF RegTyped, Entry, IsFirst, EntriesOf
    <2>3. Lookup(a)' = f
        <3>1. i \in EntriesOf(a)'
            BY <2>2 DEF EntriesOf
        <3>. QED  BY <1>0, <2>2, <3>1, LookupFindsNext
    <2>4. ASSUME NEW b \in Addresses \ {a}  PROVE Lookup(b)' = Lookup(b)
        <3>1. EntriesOf(b)' = EntriesOf(b) /\ i \notin EntriesOf(b)
            BY <2>2 DEF EntriesOf
        <3>2. CASE EntriesOf(b) = {}
            BY <3>1, <3>2 DEF Lookup
        <3>3. ASSUME NEW j \in EntriesOf(b)  PROVE Lookup(b)' = Lookup(b)
            <4>1. Lookup(b) = reg[j].flags /\ Lookup(b)' = reg'[j].flags
                BY <1>0, <3>1, LookupFinds, LookupFindsNext
            <4>2. reg'[j] = reg[j]
                BY <2>2, <3>1 DEF EntriesOf
            <4>. QED  BY <4>1, <4>2
        <3>. QED  BY <3>2, <3>3
    <2>. QED  BY <2>3, <2>4
<1>2. CASE /\ ~Listed(a)
           /\ reg' = Append(reg, [param |-> a, flags |-> f])
    <2>1. /\ Len(reg') = Len(reg) + 1
          /\ reg'[Len(reg) + 1] = [param |-> a, flags |-> f]
          /\ \A j \in 1..Len(reg) : reg'[j] = reg[j]
        BY <1>2 DEF RegTyped
    <2>2. Len(reg) \in Nat
        BY DEF RegTyped
    <2>3. Lookup(a)' = f
        <3>1. Len(reg) + 1 \in EntriesOf(a)'
            BY <2>1, <2>2 DEF EntriesOf
        <3>. QED  BY <1>0, <2>1, <3>1, LookupFindsNext
    <2>4. ASSUME NEW b \in Addresses \ {a}  PROVE Lookup(b)' = Lookup(b)
        <3>1. EntriesOf(b)' = EntriesOf(b)
            BY <2>1, <2>2 DEF EntriesOf
        <3>2. CASE EntriesOf(b) = {}
            BY <3>1, <3>2 DEF Lookup
        <3>3. ASSUME NEW j \in EntriesOf(b)  PROVE Lookup(b)' = Lookup(b)
            <4>1. Lookup(b) = reg[j].flags /\ Lookup(b)' = reg'[j].flags
                BY <1>0, <3>1, LookupFinds, LookupFindsNext
            <4>2. reg'[j] = reg[j]
                BY <2>1 DEF EntriesOf
            <4>. QED  BY <4>1, <4>2
        <3>. QED  BY <3>2, <3>3
    <2>. QED  BY <2>3, <2>4
<1>. QED  BY <1>1, <1>2 DEF SetAicFlags

-----------------------------------------------------------------------------
(***************************************************************************)
(* The invariant.  Two live sessions have parameter objects of their own;  *)
(* and the callback has agreed with every certificate a walk has passed.   *)
(***************************************************************************)

OwnAddress ==
    \A s, t \in Sessions : Live(s) /\ Live(t) /\ addr[s] = addr[t] => s = t

WalkSoFar ==
    \A s \in Sessions : pc[s] = "walking" =>
        \A i \in 1..Len(chain[s].stock) : i > depth[s] =>
            aic_verify_cb(chain[s].stock[i], addr[s], chain[s].leaf)

\* What a session that set its flags is answered, under any flags.
AnswerFollowed ==
    \A s \in Sessions :
        pc[s] = "done" /\ asked[s] # None =>
            valid[s] = /\ StockValid(chain[s])
                       /\ asked[s] # {} => Answer(chain[s].leaf, asked[s]) # 0

Inv == /\ TypeOK /\ RegistryOK /\ OwnAddress /\ AskedInForce /\ WalkSoFar
       /\ AnswerFollowed /\ StockFailureStands

LEMMA InitInv == Init => Inv
<1>. SUFFICES ASSUME Init PROVE Inv
    OBVIOUS
<1>1. TypeOK
    BY DEF Init, RegistryInit, TypeOK, Live
<1>2. RegistryOK
    BY DEF Init, RegistryInit, RegistryOK
<1>3. OwnAddress /\ AskedInForce /\ WalkSoFar /\ AnswerFollowed /\ StockFailureStands
    BY DEF Init, OwnAddress, AskedInForce, WalkSoFar, AnswerFollowed,
           StockFailureStands, Live
<1>. QED  BY <1>1, <1>2, <1>3 DEF Inv

\* What a step that leaves the registry alone leaves alone.
LEMMA SameRegistry ==
    ASSUME UNCHANGED registry
    PROVE  /\ RegistryOK <=> RegistryOK'
           /\ \A a : Lookup(a)' = Lookup(a)
           /\ \A ok, a, leaf :
                 aic_verify_cb(ok, a, leaf)' <=> aic_verify_cb(ok, a, leaf)
BY DEF registry, RegistryOK, Lookup, IsFirst, EntriesOf, aic_verify_cb

LEMMA StutterInv ==
    ASSUME Inv, UNCHANGED vars
    PROVE  Inv'
<1>. UNCHANGED registry /\ UNCHANGED sessions
    BY DEF vars
<1>1. TypeOK'
    BY DEF Inv, TypeOK, Live, sessions, registry
<1>2. RegistryOK' /\ OwnAddress' /\ AskedInForce'
    BY SameRegistry DEF Inv, OwnAddress, AskedInForce, Live, sessions
<1>3. WalkSoFar'
    BY SameRegistry DEF Inv, WalkSoFar, aic_verify_cb, sessions
<1>4. AnswerFollowed' /\ StockFailureStands'
    BY DEF Inv, AnswerFollowed, StockFailureStands, sessions
<1>. QED  BY <1>1, <1>2, <1>3, <1>4 DEF Inv

LEMMA OpenInv ==
    ASSUME Inv, NEW s \in Sessions, NEW a \in Addresses, Open(s, a)
    PROVE  Inv'
<1>1. TypeOK'
    BY CallbackConstants DEF Inv, TypeOK, Open, registry, Live
<1>2. RegistryOK'
    BY SameRegistry DEF Inv, Open
<1>3. OwnAddress'
    BY DEF Inv, TypeOK, OwnAddress, Open, Live
<1>4. AskedInForce' /\ asked[s] = None
    <2>1. asked[s] = None
        BY DEF Inv, TypeOK, Open, Live
    <2>. QED  BY <2>1, SameRegistry DEF Inv, TypeOK, AskedInForce, Open, Live
<1>5. WalkSoFar'
    BY SameRegistry DEF Inv, TypeOK, WalkSoFar, Open
<1>6. AnswerFollowed' /\ StockFailureStands'
    BY DEF Inv, TypeOK, AnswerFollowed, StockFailureStands, Open
<1>. QED  BY <1>1, <1>2, <1>3, <1>4, <1>5, <1>6 DEF Inv

LEMMA ConfigureInv ==
    ASSUME Inv, NEW s \in Sessions, NEW f \in Flags, Configure(s, f)
    PROVE  Inv'
<1>0. /\ RegTyped /\ RegistryOK
      /\ f \in SUBSET FlagBits /\ f # None
      /\ addr[s] \in Addresses /\ Live(s)
    BY CallbackConstants DEF Inv, TypeOK, RegTyped, Entry, Configure, Live
<1>1. CASE SetAicFlags(addr[s], f) /\ asked' = [asked EXCEPT ![s] = f]
    <2>1. RegTyped' /\ RegistryOK'
        BY <1>0, <1>1, SetKeepsRegistry
    <2>2. /\ Lookup(addr[s])' = f
          /\ \A b \in Addresses \ {addr[s]} : Lookup(b)' = Lookup(b)
        BY <1>0, <1>1, SetEffect DEF Configure
    <2>3. TypeOK'
        BY <1>0, <1>1, <2>1 DEF Inv, TypeOK, RegTyped, Entry, Configure, Live
    <2>4. OwnAddress'
        BY DEF Inv, OwnAddress, Configure, Live
    <2>5. \A t \in Sessions \ {s} :
             Live(t) => addr[t] \in Addresses /\ Lookup(addr[t])' = Lookup(addr[t])
        <3>1. \A t \in Sessions : Live(t) => addr[t] \in Addresses
            BY DEF Inv, TypeOK
        <3>2. \A t \in Sessions \ {s} : Live(t) => addr[t] # addr[s]
            BY <1>0 DEF Inv, OwnAddress
        <3>. QED  BY <2>2, <3>1, <3>2 DEF Configure
    <2>6. AskedInForce'
        BY <1>0, <1>1, <2>2, <2>5 DEF Inv, TypeOK, AskedInForce, Configure, Live
    <2>7. WalkSoFar'
        BY <2>5 DEF Inv, TypeOK, WalkSoFar, Configure, Live, aic_verify_cb
    <2>8. AnswerFollowed' /\ StockFailureStands'
        BY <1>1 DEF Inv, TypeOK, AnswerFollowed, StockFailureStands, Configure
    <2>. QED  BY <2>1, <2>3, <2>4, <2>6, <2>7, <2>8 DEF Inv
<1>2. CASE SetAicFlagsFails(addr[s]) /\ UNCHANGED asked
    <2>1. UNCHANGED vars
        BY <1>2 DEF SetAicFlagsFails, Configure, vars, sessions
    <2>. QED  BY <2>1, StutterInv
<1>. QED  BY <1>1, <1>2 DEF Configure

LEMMA BeginInv ==
    ASSUME Inv, NEW s \in Sessions, NEW ch \in Chains, Begin(s, ch)
    PROVE  Inv'
<1>0. ch # None /\ Len(ch.stock) \in Nat \ {0}
    BY CallbackConstants
<1>1. TypeOK'
    BY <1>0 DEF Inv, TypeOK, Begin, registry, Live
<1>2. RegistryOK'
    BY SameRegistry DEF Inv, Begin
<1>3. OwnAddress' /\ AskedInForce'
    BY SameRegistry DEF Inv, TypeOK, OwnAddress, AskedInForce, Begin, Live
<1>4. WalkSoFar'
    <2>. SUFFICES ASSUME NEW t \in Sessions, pc'[t] = "walking",
                         NEW i \in 1..Len(chain'[t].stock), i > depth'[t]
                  PROVE  aic_verify_cb(chain[t].stock[i], addr[t], chain[t].leaf)'
        BY DEF WalkSoFar
    <2>1. CASE t = s
        BY <1>0, <2>1 DEF Inv, TypeOK, Begin
    <2>2. CASE t # s
        <3>1. /\ pc[t] = "walking" /\ chain'[t] = chain[t] /\ addr'[t] = addr[t]
              /\ depth'[t] = depth[t]
            BY <2>2 DEF Inv, TypeOK, Begin
        <3>. QED  BY <3>1, SameRegistry DEF Inv, WalkSoFar, Begin, aic_verify_cb
    <2>. QED  BY <2>1, <2>2
<1>5. AnswerFollowed' /\ StockFailureStands'
    BY DEF Inv, TypeOK, AnswerFollowed, StockFailureStands, Begin
<1>. QED  BY <1>1, <1>2, <1>3, <1>4, <1>5 DEF Inv

LEMMA WalkInv ==
    ASSUME Inv, NEW s \in Sessions, Walk(s)
    PROVE  Inv'
<1> DEFINE n == Len(chain[s].stock)
           agrees(i) == aic_verify_cb(chain[s].stock[i], addr[s], chain[s].leaf)
<1>0. /\ pc[s] = "walking" /\ Live(s) /\ UNCHANGED <<registry, addr, asked, chain>>
      /\ \A t \in Sessions \ {s} :
            pc'[t] = pc[t] /\ depth'[t] = depth[t] /\ valid'[t] = valid[t]
      /\ pc'[s] \in {"walking", "done"}
    BY DEF Inv, TypeOK, Walk, End, Live
<1>1. /\ chain[s] \in Chains /\ n \in Nat /\ depth[s] \in 1..n
      /\ \A i \in 1..n : chain[s].stock[i] \in BOOLEAN
    BY <1>0, CallbackConstants DEF Inv, TypeOK
<1>2. \A i \in 1..n : i > depth[s] => agrees(i)
    BY <1>0 DEF Inv, WalkSoFar
<1>3. asked[s] # None => Lookup(addr[s]) = asked[s]
    BY <1>0 DEF Inv, AskedInForce
<1>4. RegistryOK' /\ OwnAddress' /\ AskedInForce'
    BY <1>0, SameRegistry DEF Inv, OwnAddress, AskedInForce, Live
<1>5. CASE ~agrees(depth[s]) /\ End(s, FALSE)
    <2>1. pc'[s] = "done" /\ depth'[s] = 0 /\ valid'[s] = FALSE
        BY <1>5 DEF End, Inv, TypeOK
    <2>2. TypeOK'
        BY <1>0, <1>5, <2>1 DEF Inv, TypeOK, End, Live, registry
    <2>3. WalkSoFar'
        BY <1>0, <2>1, SameRegistry DEF Inv, WalkSoFar, aic_verify_cb
    <2>4. AnswerFollowed'
        BY <1>0, <1>1, <1>3, <1>5, <2>1
           DEF Inv, AnswerFollowed, StockValid, aic_verify_cb
    <2>5. StockFailureStands'
        BY <1>0, <2>1 DEF Inv, StockFailureStands
    <2>. QED  BY <1>4, <2>2, <2>3, <2>4, <2>5 DEF Inv
<1>6. CASE agrees(depth[s]) /\ depth[s] = 1 /\ End(s, TRUE)
    <2>1. pc'[s] = "done" /\ depth'[s] = 0 /\ valid'[s] = TRUE
        BY <1>6 DEF End, Inv, TypeOK
    <2>2. TypeOK'
        BY <1>0, <1>6, <2>1 DEF Inv, TypeOK, End, Live, registry
    <2>3. WalkSoFar'
        BY <1>0, <2>1, SameRegistry DEF Inv, WalkSoFar, aic_verify_cb
    <2>4. \A i \in 1..n : agrees(i)
        BY <1>1, <1>2, <1>6
    <2>5. /\ StockValid(chain[s])
          /\ Lookup(addr[s]) # {} => Answer(chain[s].leaf, Lookup(addr[s])) # 0
        BY <1>1, <2>4 DEF StockValid, aic_verify_cb
    <2>6. AnswerFollowed' /\ StockFailureStands'
        BY <1>0, <1>3, <2>1, <2>5 DEF Inv, AnswerFollowed, StockFailureStands
    <2>. QED  BY <1>4, <2>2, <2>3, <2>6 DEF Inv
<1>7. CASE /\ agrees(depth[s]) /\ depth[s] > 1
           /\ depth' = [depth EXCEPT ![s] = @ - 1]
           /\ UNCHANGED <<pc, valid>>
    <2>1. depth'[s] = depth[s] - 1 /\ depth'[s] \in 1..n
        BY <1>1, <1>7 DEF Inv, TypeOK
    <2>2. TypeOK'
        BY <1>0, <1>1, <1>7, <2>1 DEF Inv, TypeOK, Live, registry
    <2>3. WalkSoFar'
        <3>. SUFFICES ASSUME NEW t \in Sessions, pc'[t] = "walking",
                             NEW i \in 1..Len(chain[t].stock), i > depth'[t]
                      PROVE  aic_verify_cb(chain[t].stock[i], addr[t], chain[t].leaf)
            BY <1>0, SameRegistry DEF WalkSoFar, aic_verify_cb
        <3>1. CASE t = s
            BY <1>1, <1>2, <1>7, <2>1, <3>1
        <3>2. CASE t # s
            BY <1>0, <3>2 DEF Inv, WalkSoFar
        <3>. QED  BY <3>1, <3>2
    <2>4. AnswerFollowed' /\ StockFailureStands'
        BY <1>0, <1>7 DEF Inv, AnswerFollowed, StockFailureStands
    <2>. QED  BY <1>4, <2>2, <2>3, <2>4 DEF Inv
<1>. QED  BY <1>5, <1>6, <1>7 DEF Walk

LEMMA CloseInv ==
    ASSUME Inv, NEW s \in Sessions, Close(s)
    PROVE  Inv'
<1>1. TypeOK'
    BY DEF Inv, TypeOK, Close, registry, Live
<1>2. RegistryOK'
    BY SameRegistry DEF Inv, Close
<1>3. OwnAddress' /\ AskedInForce'
    BY SameRegistry DEF Inv, TypeOK, OwnAddress, AskedInForce, Close, Live
<1>4. WalkSoFar'
    BY SameRegistry DEF Inv, TypeOK, WalkSoFar, Close, aic_verify_cb
<1>5. AnswerFollowed' /\ StockFailureStands'
    BY DEF Inv, TypeOK, AnswerFollowed, StockFailureStands, Close
<1>. QED  BY <1>1, <1>2, <1>3, <1>4, <1>5 DEF Inv

LEMMA Inductive == Inv /\ [Next]_vars => Inv'
BY OpenInv, ConfigureInv, BeginInv, WalkInv, CloseInv, StutterInv DEF Next

LEMMA Invariance == Spec => []Inv
BY InitInv, Inductive, PTL DEF Spec

-----------------------------------------------------------------------------
\* The variables keep their types; a walking session is at a certificate of
\* its chain.
THEOREM TypeCorrect == Spec => []TypeOK
BY Invariance, PTL DEF Inv

\* The registry never has two entries for one address, nor more than it has
\* room for, whatever is set, grows and fails to grow.
THEOREM RegistryWellFormed == Spec => []RegistryOK
BY Invariance, PTL DEF Inv

\* Flags set on a parameter object stay in force on it until it is freed.
THEOREM FlagsInForce == Spec => []AskedInForce
BY Invariance, PTL DEF Inv

\* A session that set flags with REQUIRE ends with the conjunction of the stock
\* result and of the AIC verification under those flags, one that set no flag
\* with the stock result, for chains of any length.
THEOREM FlagsFollowed == Spec => []FollowsFlags
<1>1. Inv => FollowsFlags
  <2>1. ASSUME NEW leaf, NEW flags, "REQUIRE" \in flags
        PROVE  Answer(leaf, flags) # 0 <=> Answer(leaf, flags) = 1
    BY <2>1 DEF Answer, Verdict
  <2>2. ASSUME Inv, NEW s \in Sessions, pc[s] = "done",
               asked[s] # None, "REQUIRE" \in asked[s]
        PROVE  valid[s] = /\ StockValid(chain[s])
                          /\ Answer(chain[s].leaf, asked[s]) = 1
    <3>1. valid[s] = /\ StockValid(chain[s])
                     /\ asked[s] # {} => Answer(chain[s].leaf, asked[s]) # 0
      BY <2>2 DEF Inv, AnswerFollowed
    <3>2. asked[s] # {} /\ (Answer(chain[s].leaf, asked[s]) # 0
                               <=> Answer(chain[s].leaf, asked[s]) = 1)
      BY <2>1, <2>2
    <3> QED
      BY <3>1, <3>2
  <2>3. ASSUME Inv, NEW s \in Sessions, pc[s] = "done", asked[s] = {}
        PROVE  valid[s] = StockValid(chain[s])
    <3>1. asked[s] # None
      BY <2>3, CallbackConstants
    <3>2. valid[s] = /\ StockValid(chain[s])
                     /\ asked[s] # {} => Answer(chain[s].leaf, asked[s]) # 0
      BY <2>3, <3>1 DEF Inv, AnswerFollowed
    <3>3. valid[s] \in BOOLEAN /\ StockValid(chain[s]) \in BOOLEAN
      BY <2>3 DEF Inv, TypeOK, StockValid
    <3> QED
      BY <2>3, <3>2, <3>3
  <2> QED
    BY <2>2, <2>3 DEF FollowsFlags
<1> QED
  BY <1>1, Invariance, PTL

\* No session passes a chain with a certificate libcrypto rejects.
THEOREM NothingForgiven == Spec => []StockFailureStands
BY Invariance, PTL DEF Inv
=============================================================================
