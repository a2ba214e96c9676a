-------------------------- MODULE OpenaicToolProofs ---------------------------
(***************************************************************************)
(* Proofs about the command line tool, for any files, any command lines    *)
(* and any number of options.                                              *)
(***************************************************************************)
EXTENDS OpenaicTool, WellFoundedInduction, TLAPS

\* What is allocated while the tool runs is what both exits free.
MemoryInv ==
    /\ pc = "main" => heap = {} /\ starved = FALSE
    /\ pc = "options" => heap \subseteq Held
    /\ pc \in {"print", "printing"} => heap \subseteq {Cert(0), Aic}
    /\ pc = "print" => heap \subseteq {Cert(0)}
    /\ EverythingFreed

Inv == TypeOK /\ MemoryInv

LEMMA FlagsOfOptions ==
    /\ \A w \in DOMAIN Sets : Sets[w] \in FlagBits
    /\ \A w \in DOMAIN Clears : Clears[w] \in FlagBits
BY DEF Sets, Clears, FlagBits

\* A certificate added to the list is among what the exits free.
LEMMA PushedHeld ==
    ASSUME users \in Seq(Nat \ {0}), NEW i \in Nat \ {0}, Push(i)
    PROVE  Held \cup {Stack, Cert(i)} \subseteq Held' /\ users' \in Seq(Nat \ {0})
<1>1. users' \in Seq(Nat \ {0}) /\ Len(users') = Len(users) + 1
    BY DEF Push
<1>2. \A k \in 1..Len(users) : users'[k] = users[k] /\ k \in 1..Len(users')
    BY <1>1 DEF Push
<1>3. users'[Len(users')] = i /\ Len(users') \in 1..Len(users')
    BY <1>1 DEF Push
<1>4. ASSUME NEW x \in Held PROVE x \in Held'
    <2>1. CASE x \in {Cert(0), Stack, Cache}
        BY <2>1 DEF Held
    <2>2. ASSUME NEW k \in 1..Len(users), x = Cert(users[k]) PROVE x \in Held'
        <3>1. x = Cert(users'[k]) /\ k \in 1..Len(users')
            BY <1>2, <2>2, Zenon
        <3>. QED  BY <3>1, Zenon DEF Held
    <2>. QED  BY <2>1, <2>2, Zenon DEF Held
<1>5. Cert(i) \in Held' /\ Stack \in Held'
    BY <1>3, Zenon DEF Held
<1>. QED  BY <1>1, <1>4, <1>5, Zenon

LEMMA InitInv == Init => Inv
<1>. SUFFICES ASSUME Init PROVE Inv
    OBVIOUS
<1>1. users \in Seq(Nat \ {0}) /\ next \in Nat \ {0}
    BY DEF Init
<1>2. flags \subseteq FlagBits
    BY DEF Init, FlagBits
<1>3. /\ pc = "main" /\ cmd \in CommandLines /\ heap = {}
      /\ starved = FALSE /\ status = 0
    BY DEF Init
<1>. QED  BY <1>1, <1>2, <1>3 DEF Inv, TypeOK, MemoryInv, EverythingFreed

LEMMA MainInv ==
    ASSUME Inv, Main
    PROVE  Inv'
<1>. USE DEF Inv, TypeOK, MemoryInv, EverythingFreed
<1>1. CASE UsageOfMain
    BY <1>1 DEF Main, UsageOfMain, Exit
<1>2. CASE LoadFails
    BY <1>2 DEF Main, LoadFails, Exit, Starve
<1>3. CASE LoadAgent
    BY <1>3 DEF Main, LoadAgent, Held
<1>. QED  BY <1>1, <1>2, <1>3 DEF Main

LEMMA PrintInv ==
    ASSUME Inv, CmdPrint
    PROVE  Inv'
<1>. USE DEF Inv, TypeOK, MemoryInv, EverythingFreed
<1>1. CASE NoAic
    BY <1>1 DEF CmdPrint, NoAic, Exit, Starve
<1>2. CASE DecodeAic
    BY <1>2 DEF CmdPrint, DecodeAic
<1>3. CASE PrintAic
    BY <1>3 DEF CmdPrint, PrintAic, Exit
<1>. QED  BY <1>1, <1>2, <1>3 DEF CmdPrint

\* Every way out of the options frees what was held, and no more than the
\* failed option had allocated is left.
LEMMA LeaveInv ==
    ASSUME Inv, pc = "options", NEW lost, heap' = (heap \union lost) \ Held,
           NEW s \in {0, 1, 2}, Exit(s), UNCHANGED <<cmd, next, flags, users>>,
           \/ lost = {} /\ (starved' = starved \/ starved' = TRUE)
           \/ starved' = TRUE
    PROVE  Inv'
<1>1. lost = {} => heap' = {}
    BY DEF Inv, MemoryInv
<1>2. TypeOK'
    BY DEF Inv, TypeOK, Exit
<1>. QED  BY <1>1, <1>2 DEF Inv, MemoryInv, EverythingFreed, Exit

LEMMA OptionInv ==
    ASSUME Inv, Option
    PROVE  Inv'
<1>1. CASE ClearFlag
    <2>1. /\ flags' \subseteq flags /\ next' = next + 1
          /\ UNCHANGED <<pc, cmd, status, users, heap, starved>>
        BY <1>1 DEF ClearFlag, Clear, GoOn
    <2>2. Held' = Held
        BY <2>1 DEF Held
    <2>. QED  BY <2>1, <2>2 DEF Inv, TypeOK, MemoryInv, EverythingFreed
<1>2. CASE SetFlag
    <2>1. /\ flags' \subseteq FlagBits /\ next' = next + 1
          /\ UNCHANGED <<pc, cmd, status, users>>
          /\ heap' \subseteq heap \cup {Cache} /\ starved' \in BOOLEAN
          /\ pc = "options"
        BY <1>2, FlagsOfOptions DEF SetFlag, GoOn, AtOption, Inv, TypeOK, Starve
    <2>2. Held' = Held /\ Cache \in Held
        BY <2>1 DEF Held
    <2>. QED  BY <2>1, <2>2 DEF Inv, TypeOK, MemoryInv, EverythingFreed
<1>3. CASE User
    <2>1. /\ next' = next + 2 /\ next + 1 \in Nat \ {0} /\ Push(next + 1)
          /\ heap' = heap \cup {Stack, Cert(next + 1)}
          /\ UNCHANGED <<pc, cmd, status, flags, starved>> /\ pc = "options"
        BY <1>3 DEF User, GoOn, AtOption, Inv, TypeOK
    <2>2. Held \cup {Stack, Cert(next + 1)} \subseteq Held' /\ users' \in Seq(Nat \ {0})
        BY <2>1, PushedHeld DEF Inv, TypeOK
    <2>. QED  BY <2>1, <2>2 DEF Inv, TypeOK, MemoryInv, EverythingFreed
<1>4. CASE UserFails
    BY <1>4, LeaveInv DEF UserFails, UsageError, AtOption, Starve
<1>5. CASE UnknownOption
    BY <1>5, LeaveInv DEF UnknownOption, UsageError
<1>. QED  BY <1>1, <1>2, <1>3, <1>4, <1>5 DEF Option

LEMMA VerifyInv ==
    ASSUME Inv, Verify
    PROVE  Inv'
<1>1. PICK rc \in {-1, 0, 1} :
        /\ starved' = starved \/ starved' = TRUE
        /\ Exit(ExitStatus(rc))
    BY DEF Verify, Starve
<1>2. ExitStatus(rc) \in {0, 1, 2}
    BY DEF ExitStatus
<1>3. pc = "options" /\ heap' = (heap \cup {}) \ Held
      /\ UNCHANGED <<cmd, next, flags, users>>
    BY DEF Verify
<1>. QED  BY <1>1, <1>2, <1>3, LeaveInv

LEMMA Inductive == Inv /\ [Next]_vars => Inv'
<1>1. ASSUME Inv, UNCHANGED vars PROVE Inv'
    BY <1>1 DEF vars, Inv, TypeOK, MemoryInv, EverythingFreed, Held
<1>. QED  BY <1>1, MainInv, PrintInv, OptionInv, VerifyInv DEF Next

LEMMA Invariance == Spec => []Inv
<1>. QED  BY InitInv, Inductive, PTL DEF Spec

\* The option loop keeps its place, its flags and its list within their types,
\* and all that is allocated is among what the exits free.
THEOREM TypeCorrect == Spec => []TypeOK
<1>1. Inv => TypeOK
    BY DEF Inv
<1>. QED  BY <1>1, Invariance, PTL

\* Whatever the command line, every path through the tool frees what it
\* allocated, as long as no allocation fails.
THEOREM AllFreed == Spec => []EverythingFreed
<1>1. Inv => EverythingFreed
    BY DEF Inv, MemoryInv
<1>. QED  BY <1>1, Invariance, PTL

-----------------------------------------------------------------------------
(***************************************************************************)
(* Which words are options                                                 *)
(***************************************************************************)

\* Every set of numbers that is not empty has a least one.
Below == {p \in Nat \X Nat : p[1] < p[2]}

LEMMA BelowWellFounded == IsWellFoundedOn(Below, Nat)
<1>1. Below = OpToRel(<, Nat)
    BY DEF Below, OpToRel
<1>. QED  BY <1>1, NatLessThanWellFounded

LEMMA Least ==
    ASSUME NEW T, T \subseteq Nat, T # {}
    PROVE  \E n \in T : \A m \in T : n <= m
<1>1. PICK n \in T : \A m \in T : ~(<<m, n>> \in Below)
    BY BelowWellFounded, WFMin
<1>2. ASSUME NEW m \in T PROVE n <= m
    <2>1. m \in Nat /\ n \in Nat
        OBVIOUS
    <2>2. ~(m < n)
        BY <1>1, <2>1 DEF Below
    <2>. QED  BY <2>1, <2>2
<1>. QED  BY <1>2

\* Without recursion: the words after the last one before i that is no --user
\* are options and paths by turns.
OptionStart(i, j) ==
    /\ j = 0 \/ Words[j] # "--user"
    /\ \A k \in j + 1 .. i - 1 : Words[k] = "--user"

ByTurns == [i \in Nat |-> \E j \in 0 .. i - 1 : OptionStart(i, j) /\ (i - j) % 2 = 1]

LEMMA StartExists ==
    ASSUME NEW i \in Nat \ {0}
    PROVE  \E j \in 0 .. i - 1 : OptionStart(i, j)
<1> DEFINE T == {n \in 0 .. i - 1 : i - 1 - n = 0 \/ Words[i - 1 - n] # "--user"}
<1>1. i - 1 \in T /\ T \subseteq Nat
    OBVIOUS
<1>2. PICK n \in T : \A m \in T : n <= m
    BY <1>1, Least
<1>3. PICK j \in 0 .. i - 1 : j = i - 1 - n
    BY <1>1
<1>4. j = 0 \/ Words[j] # "--user"
    BY <1>2, <1>3
<1>5. ASSUME NEW k \in j + 1 .. i - 1 PROVE Words[k] = "--user"
    <2>1. PICK m \in 0 .. i - 1 : m = i - 1 - k /\ m < n /\ i - 1 - m = k
        BY <1>3
    <2>2. m \notin T
        BY <1>2, <2>1
    <2>3. Words[i - 1 - m] = "--user"
        BY <2>2
    <2>. QED  BY <2>1, <2>3
<1>. QED  BY <1>4, <1>5 DEF OptionStart

LEMMA StartUnique ==
    ASSUME NEW i \in Nat, NEW j \in 0 .. i - 1, NEW k \in 0 .. i - 1,
           OptionStart(i, j), OptionStart(i, k)
    PROVE  j = k
<1>1. ~(j < k) /\ ~(k < j)
    BY DEF OptionStart
<1>. QED  BY <1>1

LEMMA ByTurnsStep ==
    ASSUME NEW i \in Nat
    PROVE  ByTurns[i] <=> (i = 1 \/ (i > 1 /\ ~(ByTurns[i - 1] /\ Words[i - 1] = "--user")))
<1>1. CASE i = 0
    BY <1>1 DEF ByTurns
<1>2. CASE i = 1
    <2>1. OptionStart(1, 0)
        BY DEF OptionStart
    <2>. QED  BY <1>2, <2>1 DEF ByTurns
<1>3. CASE i > 1 /\ Words[i - 1] # "--user"
    <2>1. OptionStart(i, i - 1)
        BY <1>3 DEF OptionStart
    <2>2. i - 1 \in 0 .. i - 1 /\ (i - (i - 1)) % 2 = 1
        BY <1>3
    <2>3. ByTurns[i]
        BY <2>1, <2>2 DEF ByTurns
    <2>. QED  BY <1>3, <2>3
<1>4. CASE i > 1 /\ Words[i - 1] = "--user"
    <2>1. PICK j \in 0 .. (i - 1) - 1 : OptionStart(i - 1, j)
        BY <1>4, StartExists
    <2>2. OptionStart(i, j) /\ j \in 0 .. i - 1
        BY <1>4, <2>1 DEF OptionStart
    <2>3. ByTurns[i] <=> (i - j) % 2 = 1
        BY <2>2, StartUnique DEF ByTurns
    <2>4. ByTurns[i - 1] <=> (i - 1 - j) % 2 = 1
        BY <1>4, <2>1, StartUnique DEF ByTurns
    <2>5. (i - j) % 2 = 1 <=> ~((i - 1 - j) % 2 = 1)
        BY <1>4, <2>1
    <2>. QED  BY <1>4, <2>3, <2>4, <2>5
<1>. QED  BY <1>1, <1>2, <1>3, <1>4

\* The recursive function of the specification is one, and what it says of the
\* word after an option.
LEMMA OptionEquation ==
    IsOption = [i \in Nat |->
        i = 1 \/ (i > 1 /\ ~(IsOption[i - 1] /\ Words[i - 1] = "--user"))]
<1>1. ByTurns = [i \in Nat |->
        i = 1 \/ (i > 1 /\ ~(ByTurns[i - 1] /\ Words[i - 1] = "--user"))]
    <2>1. \A i \in Nat : ByTurns[i] =
            (i = 1 \/ (i > 1 /\ ~(ByTurns[i - 1] /\ Words[i - 1] = "--user")))
        <3>1. \A i \in Nat : ByTurns[i] \in BOOLEAN
            BY DEF ByTurns
        <3>. QED  BY <3>1, ByTurnsStep
    <2>2. ByTurns = [i \in Nat |-> ByTurns[i]]
        BY DEF ByTurns
    <2>. QED  BY <2>1, <2>2
<1>2. \E f : f = [i \in Nat |->
        i = 1 \/ (i > 1 /\ ~(f[i - 1] /\ Words[i - 1] = "--user"))]
    BY <1>1
<1>. QED  BY <1>2 DEF IsOption

LEMMA NextOption ==
    /\ IsOption[1]
    /\ \A i \in Nat : i >= 1 =>
          (IsOption[i + 1] <=> ~(IsOption[i] /\ Words[i] = "--user"))
<1>1. \A i \in Nat : IsOption[i] =
        (i = 1 \/ (i > 1 /\ ~(IsOption[i - 1] /\ Words[i - 1] = "--user")))
    BY OptionEquation
<1>2. ASSUME NEW i \in Nat, i >= 1
      PROVE  IsOption[i + 1] <=> ~(IsOption[i] /\ Words[i] = "--user")
    <2>1. i + 1 \in Nat /\ i + 1 # 1 /\ i + 1 > 1 /\ (i + 1) - 1 = i
        BY <1>2
    <2>2. IsOption[i + 1] = (i + 1 = 1 \/ (i + 1 > 1
              /\ ~(IsOption[(i + 1) - 1] /\ Words[(i + 1) - 1] = "--user")))
        BY <1>1, <2>1, Zenon
    <2>. QED  BY <2>1, <2>2, Zenon
<1>3. IsOption[1]
    <2>1. IsOption[1] = (1 = 1 \/ (1 > 1
              /\ ~(IsOption[1 - 1] /\ Words[1 - 1] = "--user")))
        BY <1>1, Zenon
    <2>. QED  BY <2>1, Zenon
<1>. QED  BY <1>2, <1>3

LEMMA SameWords ==
    ASSUME cmd' = cmd
    PROVE  Words' = Words /\ IsOption' = IsOption
BY DEF IsOption, Words

-----------------------------------------------------------------------------
(***************************************************************************)
(* What the option loop knows of the words it has been through             *)
(***************************************************************************)

OptionsBefore(n) == {i \in Options : i < n}
PathsBefore(n) == {i \in Paths : i < n}

Says(i, f) ==
    \/ Words[i] \in DOMAIN Sets /\ Sets[Words[i]] = f
    \/ Words[i] \in DOMAIN Clears /\ Clears[Words[i]] = f

\* The flag f after the options at the positions A, which are about it.
LastSays(f, A) ==
    IF A = {} THEN f \in {"CHECK_SPKI", "VERIFY_DA"}
    ELSE \E i \in A : Words[i] \in DOMAIN Sets /\ \A j \in A : j <= i

FlagBefore(f, n) == LastSays(f, {i \in OptionsBefore(n) : Says(i, f)})

Understood(i) == Words[i] \in DOMAIN Sets \union DOMAIN Clears \union {"--user"}

Ascending == \A k, l \in 1..Len(users) : k < l => users[k] < users[l]

LoopInv ==
    /\ cmd.command = "verify" /\ Loads(cmd.agent)
    /\ next <= Len(Words) + 1 /\ IsOption[next]
    /\ \A i \in OptionsBefore(next) : Understood(i)
    /\ \A i \in PathsBefore(next) : Loads(Words[i]) /\ i <= Len(Words)
    /\ PathsBefore(next) = {users[k] : k \in 1..Len(users)}
    /\ Ascending
    /\ flags = {f \in FlagBits : FlagBefore(f, next)}
    /\ "REPLAY" \in flags /\ ~starved => Cache \in heap

\* `verify` exits with 0 exactly when the certificate passes every check, with
\* a principal for each.
ZeroIsDelegated ==
    Finished("verify") =>
        /\ status = 0 => Loads(cmd.agent) /\ Delegated
        /\ ~starved /\ Loads(cmd.agent) /\ Delegated => status = 0

AnswerInv ==
    /\ pc \in {"print", "printing"} => cmd.command = "print"
    /\ pc = "main" => next = 1 /\ users = <<>> /\ flags = {"CHECK_SPKI", "VERIFY_DA"}
    /\ pc = "options" => LoopInv
    /\ ZeroIsDelegated

\* Behind the first word there is no option yet, and no path.
LEMMA NothingBefore == OptionsBefore(1) = {} /\ PathsBefore(1) = {}
<1>1. \A i \in Options : i \in Nat /\ i >= 1
    BY DEF Options
<1>2. \A i \in Paths : i \in Nat /\ i >= 2
    BY <1>1 DEF Paths
<1>. QED  BY <1>1, <1>2 DEF OptionsBefore, PathsBefore

LEMMA WordsAreSequence == ASSUME TypeOK PROVE Len(Words) \in Nat
BY ToolConstants DEF TypeOK, Words

\* After an option without a path comes the next option.
LEMMA OneWord ==
    ASSUME TypeOK, NEW n \in Options, Words[n] # "--user"
    PROVE  /\ IsOption[n + 1]
           /\ OptionsBefore(n + 1) = OptionsBefore(n) \cup {n}
           /\ PathsBefore(n + 1) = PathsBefore(n)
<1>1. n \in Nat /\ n >= 1 /\ IsOption[n]
    BY WordsAreSequence DEF Options
<1>2. IsOption[n + 1]
    BY <1>1, NextOption
<1>3. Options \subseteq Nat /\ Paths \subseteq Nat
    BY DEF Options, Paths
<1>4. n \notin Paths
    <2>1. SUFFICES ASSUME NEW j \in Options, Words[j] = "--user", n = j + 1 PROVE FALSE
        BY DEF Paths
    <2>2. j \in Nat /\ j >= 1 /\ IsOption[j]
        BY DEF Options
    <2>. QED  BY <1>1, <2>1, <2>2, NextOption
<1>5. \A i \in Nat : i < n + 1 <=> (i < n \/ i = n)
    BY <1>1
<1>6. OptionsBefore(n + 1) = OptionsBefore(n) \cup {n}
    BY <1>3, <1>5, Zenon DEF OptionsBefore
<1>7. PathsBefore(n + 1) = PathsBefore(n)
    BY <1>3, <1>4, <1>5, Zenon DEF PathsBefore
<1>. QED  BY <1>2, <1>6, <1>7

\* After --user comes its path, then the next option.
LEMMA TwoWords ==
    ASSUME TypeOK, NEW n \in Options, Words[n] = "--user"
    PROVE  /\ IsOption[n + 2]
           /\ OptionsBefore(n + 2) = OptionsBefore(n) \cup {n}
           /\ PathsBefore(n + 2) = PathsBefore(n) \cup {n + 1}
<1>1. n \in Nat /\ n >= 1 /\ IsOption[n]
    BY WordsAreSequence DEF Options
<1>2. n + 1 \in Nat /\ n + 1 >= 1 /\ (n + 1) + 1 = n + 2
    BY <1>1
<1>3. ~IsOption[n + 1]
    BY <1>1, NextOption
<1>4. IsOption[n + 2]
    BY <1>2, <1>3, NextOption
<1>5. Options \subseteq Nat /\ Paths \subseteq Nat
    BY DEF Options, Paths
<1>6. n \notin Paths
    <2>1. SUFFICES ASSUME NEW j \in Options, Words[j] = "--user", n = j + 1 PROVE FALSE
        BY DEF Paths
    <2>2. j \in Nat /\ j >= 1 /\ IsOption[j]
        BY DEF Options
    <2>. QED  BY <1>1, <2>1, <2>2, NextOption
<1>7. n + 1 \in Paths /\ n + 1 \notin Options
    BY <1>3 DEF Paths, Options
<1>8. \A i \in Nat : i < n + 2 <=> (i < n \/ i = n \/ i = n + 1)
    BY <1>1
<1>9. OptionsBefore(n + 2) = OptionsBefore(n) \cup {n}
    BY <1>5, <1>7, <1>8, Zenon DEF OptionsBefore
<1>10. PathsBefore(n + 2) = PathsBefore(n) \cup {n + 1}
    BY <1>5, <1>6, <1>7, <1>8, Zenon DEF PathsBefore
<1>. QED  BY <1>4, <1>9, <1>10

\* The option at n decides on the flag it is about, and on no other.
LEMMA LatestCounts ==
    ASSUME NEW n \in Options, NEW m, OptionsBefore(m) = OptionsBefore(n) \cup {n},
           NEW f
    PROVE  FlagBefore(f, m) <=>
              IF Says(n, f) THEN Words[n] \in DOMAIN Sets ELSE FlagBefore(f, n)
<1> DEFINE A == {i \in OptionsBefore(n) : Says(i, f)}
           B == {i \in OptionsBefore(m) : Says(i, f)}
<1>1. n \in Nat /\ A \subseteq Nat /\ \A i \in A : i < n
    BY DEF Options, OptionsBefore
<1>2. CASE ~Says(n, f)
    <2>1. A = B
        BY <1>2
    <2>. QED  BY <1>2, <2>1 DEF FlagBefore
<1>3. CASE Says(n, f)
    <2>1. B = A \cup {n}
        BY <1>3
    <2>2. \A i \in B : i <= n /\ (i # n => ~(n <= i))
        BY <1>1, <2>1
    <2>3. n \in B
        BY <2>1
    <2> HIDE DEF A, B
    <2>4. LastSays(f, B) <=> Words[n] \in DOMAIN Sets
        BY <2>2, <2>3 DEF LastSays
    <2>. QED  BY <1>3, <2>4 DEF FlagBefore, B
<1>. QED  BY <1>2, <1>3

\* What is read in the words of the command line stays what it was.
LEMMA SameLine ==
    ASSUME cmd' = cmd, NEW n, n = next'
    PROVE  /\ Words' = Words /\ IsOption' = IsOption
           /\ Options' = Options /\ Paths' = Paths
           /\ OptionsBefore(next)' = OptionsBefore(n)
           /\ PathsBefore(next)' = PathsBefore(n)
           /\ \A i : Understood(i)' <=> Understood(i)
           /\ \A f : FlagBefore(f, next)' <=> FlagBefore(f, n)
<1>1. Words' = Words /\ IsOption' = IsOption
    BY SameWords
<1>2. Options' = Options
    BY <1>1 DEF Options
<1>3. Paths' = Paths
    BY <1>1, <1>2 DEF Paths
<1>4. /\ OptionsBefore(next)' = OptionsBefore(n)
      /\ PathsBefore(next)' = PathsBefore(n)
    BY <1>2, <1>3 DEF OptionsBefore, PathsBefore
<1>5. \A i : Understood(i)' <=> Understood(i)
    BY <1>1 DEF Understood, Sets, Clears
<1>6. \A f : FlagBefore(f, next)' <=> FlagBefore(f, n)
    BY <1>1, <1>4 DEF FlagBefore, LastSays, Says, Sets, Clears
<1>. QED  BY <1>1, <1>2, <1>3, <1>4, <1>5, <1>6

LEMMA SameQuestion ==
    ASSUME cmd' = cmd
    PROVE  WellFormed' = WellFormed /\ Delegated' = Delegated
<1>1. Words' = Words /\ IsOption' = IsOption
    BY SameWords
<1>2. Options' = Options
    BY <1>1 DEF Options
<1>3. Paths' = Paths
    BY <1>1, <1>2 DEF Paths
<1>4. WellFormed' = WellFormed
    BY <1>1, <1>2, <1>3 DEF WellFormed, Sets, Clears, Loads
<1>5. Asked("CHECK_SPKI")' = Asked("CHECK_SPKI") /\ Asked("VERIFY_DA")' = Asked("VERIFY_DA")
    BY <1>1, <1>2 DEF Asked, Sets, Clears
<1>6. Agent' = Agent /\ \A i : Key(i)' = Key(i)
    BY <1>1 DEF Agent, Key
<1>7. \A i : Counts(i)' = Counts(i)
    BY <1>3, <1>5, <1>6 DEF Counts
<1>8. Delegated' = Delegated
    BY <1>3, <1>4, <1>5, <1>6, <1>7 DEF Delegated, SomeoneCounts, SignedByWhoCounts
<1>. QED  BY <1>4, <1>8

-----------------------------------------------------------------------------
(***************************************************************************)
(* The option loop keeps what it knows                                     *)
(***************************************************************************)

\* An option without a path that is understood, and does to the flags what it
\* says.
LEMMA FlagStep ==
    ASSUME TypeOK, LoopInv, next <= Len(Words), Words[next] # "--user",
           Understood(next), next' = next + 1, UNCHANGED <<cmd, users>>,
           flags' \subseteq FlagBits,
           \A f \in FlagBits : f \in flags' <=>
              IF Says(next, f) THEN Words[next] \in DOMAIN Sets ELSE f \in flags,
           "REPLAY" \in flags' /\ ~starved' => Cache \in heap'
    PROVE  LoopInv'
<1>1. PICK n \in Options : n = next /\ n + 1 = next'
    BY DEF Options, TypeOK, LoopInv
<1>2. PICK m : m = next'
    OBVIOUS
<1>3. /\ IsOption[m]
      /\ OptionsBefore(m) = OptionsBefore(n) \cup {n}
      /\ PathsBefore(m) = PathsBefore(n)
    BY <1>1, <1>2, OneWord
<1>4. \A f : FlagBefore(f, m) <=>
         IF Says(n, f) THEN Words[n] \in DOMAIN Sets ELSE FlagBefore(f, n)
    BY <1>3, LatestCounts
<1>5. flags = {f \in FlagBits : FlagBefore(f, n)}
    BY <1>1 DEF LoopInv
<1>6. flags' = {f \in FlagBits : FlagBefore(f, m)}
    BY <1>1, <1>4, <1>5
<1>7. /\ (cmd.command = "verify")' /\ Loads(cmd.agent)'
      /\ (next <= Len(Words) + 1)' /\ IsOption[next]'
    <2>1. m <= Len(Words) + 1
        BY <1>1, <1>2, WordsAreSequence DEF Options
    <2>. QED  BY <1>2, <1>3, <2>1, SameLine DEF LoopInv, Loads
<1>8. (\A i \in OptionsBefore(next) : Understood(i))'
    <2>1. \A i \in OptionsBefore(m) : Understood(i)
        BY <1>1, <1>3 DEF LoopInv
    <2>. QED  BY <1>2, <2>1, SameLine
<1>9. (\A i \in PathsBefore(next) : Loads(Words[i]) /\ i <= Len(Words))'
    <2>1. \A i \in PathsBefore(m) : Loads(Words[i]) /\ i <= Len(Words)
        BY <1>1, <1>3 DEF LoopInv
    <2>. QED  BY <1>2, <2>1, SameLine DEF Loads
<1>10. (PathsBefore(next) = {users[k] : k \in 1..Len(users)})'
    <2>1. PathsBefore(m) = {users[k] : k \in 1..Len(users)}
        BY <1>1, <1>3 DEF LoopInv
    <2>. QED  BY <1>2, <2>1, SameLine
<1>11. Ascending'
    BY DEF LoopInv, Ascending
<1>12. (flags = {f \in FlagBits : FlagBefore(f, next)})'
    BY <1>2, <1>6, SameLine
<1>. QED  BY <1>7, <1>8, <1>9, <1>10, <1>11, <1>12 DEF LoopInv

\* --user with a path that loads.
LEMMA UserStep ==
    ASSUME TypeOK, LoopInv, AtOption("--user"), HasPath, Push(next + 1),
           next' = next + 2, UNCHANGED <<cmd, flags, starved>>,
           Cache \in heap => Cache \in heap'
    PROVE  LoopInv'
<1>1. PICK n \in Options : n = next /\ n + 2 = next' /\ Words[n] = "--user"
    BY DEF Options, TypeOK, LoopInv, AtOption
<1>2. PICK m : m = next'
    OBVIOUS
<1>3. /\ IsOption[m]
      /\ OptionsBefore(m) = OptionsBefore(n) \cup {n}
      /\ PathsBefore(m) = PathsBefore(n) \cup {n + 1}
    BY <1>1, <1>2, TwoWords
<1>4. n \in Nat /\ n + 1 <= Len(Words) /\ Loads(Words[n + 1])
    BY <1>1, WordsAreSequence DEF HasPath, TypeOK, Options
<1>5. \A f : ~Says(n, f)
    BY <1>1 DEF Says, Sets, Clears
<1>6. \A f : FlagBefore(f, m) <=> FlagBefore(f, n)
    BY <1>3, <1>5, LatestCounts
<1>7. /\ (cmd.command = "verify")' /\ Loads(cmd.agent)'
      /\ (next <= Len(Words) + 1)' /\ IsOption[next]'
    <2>1. m <= Len(Words) + 1
        BY <1>1, <1>2, <1>4, WordsAreSequence
    <2>. QED  BY <1>2, <1>3, <2>1, SameLine DEF LoopInv, Loads
<1>8. (\A i \in OptionsBefore(next) : Understood(i))'
    <2>1. \A i \in OptionsBefore(m) : Understood(i)
        BY <1>1, <1>3 DEF LoopInv, Understood
    <2>. QED  BY <1>2, <2>1, SameLine
<1>9. (\A i \in PathsBefore(next) : Loads(Words[i]) /\ i <= Len(Words))'
    <2>1. \A i \in PathsBefore(m) : Loads(Words[i]) /\ i <= Len(Words)
        BY <1>1, <1>3, <1>4 DEF LoopInv
    <2>. QED  BY <1>2, <2>1, SameLine DEF Loads
<1>10. /\ users \in Seq(Nat) /\ users' = Append(users, n + 1) /\ n + 1 \in Nat
       /\ Len(users) \in Nat /\ Len(users') = Len(users) + 1
       /\ \A k \in 1..Len(users) : users'[k] = users[k]
       /\ users'[Len(users) + 1] = n + 1
    BY <1>1, <1>4 DEF TypeOK, Push
<1>11. PathsBefore(n) = {users[k] : k \in 1..Len(users)}
    BY <1>1 DEF LoopInv
<1>12. (PathsBefore(next) = {users[k] : k \in 1..Len(users)})'
    <2>1. PathsBefore(m) = {users'[k] : k \in 1..Len(users')}
        BY <1>3, <1>10, <1>11
    <2>. QED  BY <1>2, <2>1, SameLine
<1>13. \A k \in 1..Len(users) : users[k] < n
    BY <1>11 DEF PathsBefore
<1>14. Ascending'
    <2>1. SUFFICES ASSUME NEW k \in 1..Len(users'), NEW l \in 1..Len(users'), k < l
                   PROVE  users'[k] < users'[l]
        BY DEF Ascending
    <2>2. k \in 1..Len(users) /\ (l \in 1..Len(users) \/ l = Len(users) + 1)
        <3>1. PICK p \in Nat : p = Len(users) /\ Len(users') = p + 1
            BY <1>10
        <3>2. k \in 1..p + 1 /\ l \in 1..p + 1 /\ k < l
            BY <2>1, <3>1
        <3>3. k \in 1..p /\ (l \in 1..p \/ l = p + 1)
            BY <3>2
        <3>. QED  BY <3>1, <3>3
    <2>3. CASE l \in 1..Len(users)
        BY <1>10, <2>1, <2>2, <2>3 DEF LoopInv, Ascending
    <2>4. CASE l = Len(users) + 1
        <3>1. users[k] \in Nat /\ users[k] < n + 1
            BY <1>4, <1>10, <1>13, <2>2
        <3>. QED  BY <1>10, <2>2, <2>4, <3>1
    <2>. QED  BY <2>2, <2>3, <2>4
<1>15. (flags = {f \in FlagBits : FlagBefore(f, next)})'
    <2>1. flags = {f \in FlagBits : FlagBefore(f, n)}
        BY <1>1 DEF LoopInv
    <2>. QED  BY <1>2, <1>6, <2>1, SameLine
<1>16. ("REPLAY" \in flags /\ ~starved => Cache \in heap)'
    BY DEF LoopInv
<1>. QED  BY <1>7, <1>8, <1>9, <1>12, <1>14, <1>15, <1>16 DEF LoopInv

-----------------------------------------------------------------------------
(***************************************************************************)
(* The answer                                                              *)
(***************************************************************************)

\* When every word has been read, the flags and the candidates are what the
\* command line asks for, and the verdict is that of the request.
LEMMA WholeLine ==
    ASSUME TypeOK, LoopInv, next > Len(Words)
    PROVE  /\ WellFormed
           /\ \A f \in FlagBits : f \in flags <=> Asked(f)
           /\ Paths = {users[k] : k \in 1..Len(users)}
<1>1. Len(Words) \in Nat /\ next \in Nat /\ next = Len(Words) + 1
    BY WordsAreSequence DEF TypeOK, LoopInv
<1>2. OptionsBefore(next) = Options
    BY <1>1 DEF OptionsBefore, Options
<1>3. PathsBefore(next) = Paths
    <2>1. ASSUME NEW i \in Paths PROVE i < next
        <3>1. PICK j \in Options : i = j + 1 /\ Words[j] = "--user"
            BY DEF Paths
        <3>2. j \in Nat /\ j >= 1 /\ j <= Len(Words) /\ IsOption[j]
            BY DEF Options
        <3>3. ~IsOption[j + 1]
            BY <3>1, <3>2, NextOption, Zenon
        <3>4. IsOption[next]
            BY DEF LoopInv
        <3>5. j + 1 # next
            BY <3>3, <3>4
        <3>. QED  BY <1>1, <3>1, <3>2, <3>5
    <2>. QED  BY <2>1 DEF PathsBefore
<1>4. WellFormed
    BY <1>2, <1>3 DEF WellFormed, LoopInv, Understood
<1>5. \A f : Asked(f) <=> FlagBefore(f, next)
    BY <1>2 DEF Asked, FlagBefore, LastSays, Says
<1>. QED  BY <1>3, <1>4, <1>5, <1>2 DEF LoopInv

\* The candidates that AIC_verify_cert takes for the principal are the paths
\* that count.
LEMMA PrincipalsCount ==
    ASSUME TypeOK, LoopInv, next > Len(Words), NEW k \in 1..Len(users)
    PROVE  /\ k \in Principals(Candidates, flags) <=> Counts(users[k])
           /\ Candidates[k].signs <=> Key(users[k]) = Agent.signer
<1>1. /\ Len(users) \in Nat /\ Len(Candidates) = Len(users)
      /\ \A l \in 1..Len(users) : users[l] \in Nat
    BY DEF TypeOK, Candidates
<1>2. Candidates[k] = [matches |-> Key(users[k]) = Agent.keyHash,
                       signs |-> Key(users[k]) = Agent.signer]
    BY DEF Candidates, Key
<1>3. /\ Candidates[k].signs <=> Key(users[k]) = Agent.signer
      /\ Candidates[k].matches <=> Key(users[k]) = Agent.keyHash
    <2>1. PICK a \in BOOLEAN : a = (Key(users[k]) = Agent.keyHash)
        OBVIOUS
    <2>2. PICK b \in BOOLEAN : b = (Key(users[k]) = Agent.signer)
        OBVIOUS
    <2>3. Candidates[k] = [matches |-> a, signs |-> b]
        BY <1>2, <2>1, <2>2, Zenon
    <2>4. Candidates[k].matches = a /\ Candidates[k].signs = b
        BY <2>3
    <2>. QED  BY <2>1, <2>2, <2>4, Zenon
<1>4. /\ "CHECK_SPKI" \in flags <=> Asked("CHECK_SPKI")
      /\ Paths = {users[l] : l \in 1..Len(users)}
    BY WholeLine DEF FlagBits
<1>5. k = 1 <=> \A j \in Paths : users[k] <= j
    <2>1. ASSUME k = 1, NEW l \in 1..Len(users) PROVE users[k] <= users[l]
        <3>1. l = 1 \/ users[1] < users[l]
            BY <1>1, <2>1 DEF LoopInv, Ascending
        <3>. QED  BY <1>1, <2>1, <3>1
    <2>2. ASSUME k # 1 PROVE \E l \in 1..Len(users) : ~(users[k] <= users[l])
        <3>1. 1 \in 1..Len(users) /\ users[1] < users[k]
            BY <1>1, <2>2 DEF LoopInv, Ascending
        <3>. QED  BY <1>1, <3>1
    <2>. QED  BY <1>4, <2>1, <2>2, Zenon
<1>6. users[k] \in Paths
    BY <1>4
<1>7. k \in Principals(Candidates, flags) <=>
         IF "CHECK_SPKI" \in flags THEN Candidates[k].matches ELSE k = 1
    BY <1>1 DEF Principals
<1>. QED  BY <1>3, <1>4, <1>5, <1>6, <1>7 DEF Counts

\* The verdict is 1 exactly when the request is a delegation; with --replay
\* it takes the context that was asked for.
LEMMA VerdictIsDelegated ==
    ASSUME TypeOK, LoopInv, next > Len(Words)
    PROVE  Answer = 1 <=> Delegated /\ ("REPLAY" \in flags => Cache \in heap)
<1> DEFINE P == Principals(Candidates, flags)
<1>1. /\ WellFormed
      /\ "CHECK_SPKI" \in flags <=> Asked("CHECK_SPKI")
      /\ "VERIFY_DA" \in flags <=> Asked("VERIFY_DA")
      /\ Paths = {users[k] : k \in 1..Len(users)}
    BY WholeLine DEF FlagBits
<1>2. P \subseteq 1..Len(users)
    BY DEF Principals, Candidates, TypeOK
<1>3. P # {} <=> \E i \in Paths : Counts(i)
    BY <1>1, <1>2, PrincipalsCount
<1>4. (\A k \in P : Candidates[k].signs)
         <=> \A i \in Paths : Counts(i) => Key(i) = Agent.signer
    BY <1>1, <1>2, PrincipalsCount
<1>5. flags \cap {"CHECK_SPKI", "VERIFY_DA"} # {}
         <=> Asked("CHECK_SPKI") \/ Asked("VERIFY_DA")
    BY <1>1
<1>6. Answer = 1 <=>
         /\ Agent.ext = "valid"
         /\ "REPLAY" \in flags => Cache \in heap
         /\ flags \cap {"CHECK_SPKI", "VERIFY_DA"} # {} => P # {}
         /\ "VERIFY_DA" \in flags => \A k \in P : Candidates[k].signs
    BY DEF Answer, Verdict
<1> HIDE DEF P
<1>. QED  BY <1>1, <1>3, <1>4, <1>5, <1>6 DEF Delegated, SomeoneCounts, SignedByWhoCounts

-----------------------------------------------------------------------------
(***************************************************************************)
(* The exit status is right                                                *)
(***************************************************************************)

LEMMA InitAnswer == Init => AnswerInv
BY DEF Init, AnswerInv, ZeroIsDelegated, Finished

LEMMA MainAnswer ==
    ASSUME Inv, AnswerInv, Main
    PROVE  AnswerInv'
<1>. USE DEF Main, AnswerInv, ZeroIsDelegated, Finished
<1>1. pc = "main" /\ cmd' = cmd /\ next' = 1 /\ users' = <<>>
      /\ flags' = {"CHECK_SPKI", "VERIFY_DA"} /\ starved = FALSE
    BY DEF Inv, MemoryInv
<1>2. Loads(NULL) = FALSE
    BY ToolConstants DEF Loads
<1>3. CASE UsageOfMain
    <2>1. pc' = "exited" /\ status' = 2
        BY <1>3 DEF UsageOfMain, Exit
    <2>2. cmd.command = "verify" => ~Loads(cmd.agent)
        BY <1>2, <1>3 DEF UsageOfMain
    <2>. QED  BY <1>1, <2>1, <2>2 DEF Loads
<1>4. CASE LoadFails
    <2>1. pc' = "exited" /\ status' = 1 /\ (~Loads(cmd.agent) \/ starved')
        BY <1>4 DEF LoadFails, Exit, Starve
    <2>. QED  BY <1>1, <2>1 DEF Loads
<1>5. CASE LoadAgent /\ pc' = "print"
    BY <1>1, <1>5 DEF LoadAgent
<1>6. CASE LoadAgent /\ pc' = "options"
    <2>1. pc' = "options" /\ cmd.command = "verify" /\ Loads(cmd.agent)
          /\ starved' = FALSE
        BY <1>1, <1>6 DEF LoadAgent
    <2>2. PICK m : m = next' /\ m = 1
        BY <1>1
    <2>3. OptionsBefore(m) = {} /\ PathsBefore(m) = {} /\ IsOption[m]
        BY <2>2, NothingBefore, NextOption
    <2>4. \A f : FlagBefore(f, m) <=> f \in {"CHECK_SPKI", "VERIFY_DA"}
        BY <2>3 DEF FlagBefore, LastSays
    <2>5. Len(Words) \in Nat
        BY WordsAreSequence DEF Inv
    <2>6. /\ (cmd.command = "verify")' /\ Loads(cmd.agent)'
          /\ (next <= Len(Words) + 1)' /\ IsOption[next]'
        BY <1>1, <2>1, <2>2, <2>3, <2>5, SameLine DEF Loads
    <2>7. (\A i \in OptionsBefore(next) : Understood(i))'
        BY <1>1, <2>2, <2>3, SameLine
    <2>8. /\ (\A i \in PathsBefore(next) : Loads(Words[i]) /\ i <= Len(Words))'
          /\ (PathsBefore(next) = {users[k] : k \in 1..Len(users)})'
        BY <1>1, <2>2, <2>3, SameLine
    <2>9. Ascending'
        BY <1>1 DEF Ascending
    <2>10. (flags = {f \in FlagBits : FlagBefore(f, next)})'
        BY <1>1, <2>2, <2>4, SameLine DEF FlagBits
    <2>11. LoopInv'
        BY <1>1, <2>1, <2>6, <2>7, <2>8, <2>9, <2>10 DEF LoopInv
    <2>. QED  BY <2>1, <2>11
<1>. QED  BY <1>3, <1>4, <1>5, <1>6 DEF LoadAgent

LEMMA PrintAnswer ==
    ASSUME AnswerInv, CmdPrint
    PROVE  AnswerInv'
<1>1. pc \in {"print", "printing"} /\ pc' \in {"printing", "exited"} /\ cmd' = cmd
    BY DEF CmdPrint, NoAic, DecodeAic, PrintAic, Exit
<1>. QED  BY <1>1 DEF AnswerInv, ZeroIsDelegated, Finished

\* A command line that is refused is not well formed, or memory ran out.
LEMMA RefusedAnswer ==
    ASSUME AnswerInv, pc' = "exited", status' = 2, cmd' = cmd,
           ~WellFormed \/ starved'
    PROVE  AnswerInv'
<1>1. ~starved' => ~Delegated'
    BY SameQuestion DEF Delegated
<1>. QED  BY <1>1 DEF AnswerInv, ZeroIsDelegated, Finished

LEMMA OptionAnswer ==
    ASSUME Inv, AnswerInv, Option
    PROVE  AnswerInv'
<1>1. TypeOK /\ pc = "options" /\ LoopInv /\ next \in Nat /\ next >= 1
      /\ next <= Len(Words) /\ Len(Words) \in Nat
    BY WordsAreSequence DEF Inv, TypeOK, AnswerInv, Option, ClearFlag, SetFlag, User,
       UserFails, UnknownOption, AtOption
<1>2. next \in Options
    BY <1>1 DEF Options, LoopInv
<1>3. ASSUME LoopInv', pc' = pc PROVE AnswerInv'
    BY <1>1, <1>3 DEF AnswerInv, ZeroIsDelegated, Finished
<1>4. CASE ClearFlag
    <2>1. PICK w \in DOMAIN Clears : AtOption(w) /\ Clear(w)
        BY <1>4 DEF ClearFlag
    <2>2. /\ UNCHANGED <<pc, cmd, status, users, heap, starved>>
          /\ next' = next + 1
        BY <1>4 DEF ClearFlag, GoOn
    <2>3. Words[next] = w /\ w # "--user" /\ w \notin DOMAIN Sets /\ Understood(next)
        BY <2>1 DEF AtOption, Clears, Sets, Understood
    <2>4. flags' = flags \ {Clears[w]} /\ flags' \subseteq FlagBits
        BY <1>1, <2>1 DEF Clear, TypeOK
    <2>5. \A f \in FlagBits : f \in flags' <=>
             IF Says(next, f) THEN Words[next] \in DOMAIN Sets ELSE f \in flags
        BY <2>1, <2>3, <2>4 DEF Says
    <2>6. "REPLAY" \in flags' /\ ~starved' => Cache \in heap'
        BY <1>1, <2>2, <2>4 DEF LoopInv
    <2>. QED  BY <1>1, <1>3, <2>2, <2>3, <2>4, <2>5, <2>6, FlagStep
<1>5. CASE SetFlag
    <2>1. PICK w \in DOMAIN Sets : AtOption(w) /\ flags' = flags \union {Sets[w]}
        BY <1>5 DEF SetFlag
    <2>2. UNCHANGED <<pc, cmd, status, users>> /\ next' = next + 1
        BY <1>5 DEF SetFlag, GoOn
    <2>3. Words[next] = w /\ w # "--user" /\ w \notin DOMAIN Clears /\ Understood(next)
        BY <2>1 DEF AtOption, Clears, Sets, Understood
    <2>4. flags' \subseteq FlagBits
        BY <1>1, <2>1, FlagsOfOptions DEF TypeOK
    <2>5. \A f \in FlagBits : f \in flags' <=>
             IF Says(next, f) THEN Words[next] \in DOMAIN Sets ELSE f \in flags
        BY <2>1, <2>3 DEF Says
    <2>6. "REPLAY" \in flags' /\ ~starved' => Cache \in heap'
        <3>1. CASE w = "--replay"
            BY <1>5, <2>3, <3>1 DEF SetFlag, Starve
        <3>2. CASE w # "--replay"
            <4>1. Sets[w] # "REPLAY"
                BY <2>1, <3>2 DEF Sets
            <4>2. UNCHANGED <<heap, starved>>
                BY <1>5, <2>3, <3>2 DEF SetFlag
            <4>. QED  BY <1>1, <2>1, <4>1, <4>2 DEF LoopInv
        <3>. QED  BY <3>1, <3>2
    <2>. QED  BY <1>1, <1>3, <2>2, <2>3, <2>4, <2>5, <2>6, FlagStep
<1>6. CASE User
    BY <1>1, <1>3, <1>6, UserStep DEF User, GoOn
<1>7. CASE UserFails
    <2>1. pc' = "exited" /\ status' = 2 /\ cmd' = cmd /\ Words[next] = "--user"
        BY <1>7 DEF UserFails, UsageError, Exit, AtOption
    <2>2. ~HasPath \/ starved'
        BY <1>7 DEF UserFails, Starve
    <2>3. next + 1 \in Paths
        BY <1>2, <2>1 DEF Paths
    <2>4. WellFormed => HasPath
        BY <1>1, <2>3 DEF WellFormed, HasPath
    <2>. QED  BY <2>1, <2>2, <2>4, RefusedAnswer
<1>8. CASE UnknownOption
    <2>1. pc' = "exited" /\ status' = 2 /\ cmd' = cmd
        BY <1>8 DEF UnknownOption, UsageError, Exit
    <2>2. ~WellFormed
        BY <1>2, <1>8 DEF WellFormed, UnknownOption
    <2>. QED  BY <2>1, <2>2, RefusedAnswer
<1>. QED  BY <1>4, <1>5, <1>6, <1>7, <1>8 DEF Option

LEMMA VerifyAnswer ==
    ASSUME Inv, AnswerInv, Verify
    PROVE  AnswerInv'
<1>1. TypeOK /\ LoopInv /\ next > Len(Words)
    BY DEF Inv, AnswerInv, Verify
<1>2. PICK rc \in {-1, 0, 1} :
        /\ \/ rc = Answer /\ UNCHANGED starved
           \/ rc \in {-1, 0} /\ starved' = TRUE
        /\ pc' = "exited" /\ status' = ExitStatus(rc)
    BY DEF Verify, Exit, Starve
<1>3. cmd' = cmd
    BY DEF Verify
<1>4. status' = 0 <=> rc = 1
    BY <1>2 DEF ExitStatus
<1>5. Answer = 1 <=> Delegated /\ ("REPLAY" \in flags => Cache \in heap)
    BY <1>1, VerdictIsDelegated
<1>6. rc = 1 => Delegated
    BY <1>2, <1>5
<1>7. ~starved' /\ Delegated => rc = 1
    BY <1>1, <1>2, <1>5 DEF LoopInv
<1>8. Delegated' = Delegated /\ Loads(cmd.agent)' = Loads(cmd.agent) /\ Loads(cmd.agent)
    BY <1>1, <1>3, SameQuestion DEF Loads, LoopInv
<1>. QED  BY <1>2, <1>4, <1>6, <1>7, <1>8 DEF AnswerInv, ZeroIsDelegated, Finished

LEMMA StutterAnswer ==
    ASSUME AnswerInv, UNCHANGED vars
    PROVE  AnswerInv'
<1>1. cmd' = cmd /\ UNCHANGED <<pc, next, flags, users, heap, starved, status>>
    BY DEF vars
<1>2. PICK n : n = next'
    OBVIOUS
<1>3. LoopInv => LoopInv'
    <2>1. LoopInv => (PathsBefore(next) = {users[k] : k \in 1..Len(users)})'
        BY <1>1, <1>2, SameLine DEF LoopInv
    <2>2. LoopInv => (flags = {f \in FlagBits : FlagBefore(f, next)})'
        BY <1>1, <1>2, SameLine DEF LoopInv
    <2>3. LoopInv => (\A i \in OptionsBefore(next) : Understood(i))'
        BY <1>1, <1>2, SameLine DEF LoopInv
    <2>4. LoopInv => (\A i \in PathsBefore(next) : Loads(Words[i]) /\ i <= Len(Words))'
        BY <1>1, <1>2, SameLine DEF LoopInv, Loads
    <2>5. LoopInv => (next <= Len(Words) + 1 /\ IsOption[next])'
        BY <1>1, <1>2, SameLine DEF LoopInv
    <2>. QED  BY <1>1, <2>1, <2>2, <2>3, <2>4, <2>5 DEF LoopInv, Loads, Ascending
<1>4. Delegated' = Delegated
    BY <1>1, SameQuestion
<1>. QED  BY <1>1, <1>3, <1>4 DEF AnswerInv, ZeroIsDelegated, Finished, Loads

\* For any command line, however long, `verify` exits with 0 only when the line
\* is well formed and the certificate passes the checks that the last options
\* about them ask for, or has no AIC where none is required, and with 0 when it
\* passes them all with a principal for each; without memory it may refuse,
\* never pass.
THEOREM ZeroIsRight == Spec => []ZeroMeansDelegated
<1>1. Init => Inv /\ AnswerInv
    BY InitInv, InitAnswer
<1>2. Inv /\ AnswerInv /\ [Next]_vars => (Inv /\ AnswerInv)'
    BY Inductive, MainAnswer, PrintAnswer, OptionAnswer, VerifyAnswer, StutterAnswer DEF Next
<1>3. Inv /\ AnswerInv => ZeroMeansDelegated
    BY DEF AnswerInv, ZeroIsDelegated, ZeroMeansDelegated, Delegated, Verified
<1>. QED  BY <1>1, <1>2, <1>3, PTL DEF Spec
=============================================================================
