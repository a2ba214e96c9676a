-------------------------- MODULE AicParamRegistry ---------------------------
(***************************************************************************)
(* The table of src/aic_verify.c that gives an X509_VERIFY_PARAM its AIC   *)
(* flags: a growable array of (address, flags) pairs, global to the        *)
(* process.  Entries are added and overwritten, never removed, not even    *)
(* when the parameter object they were made for is freed.                  *)
(*                                                                         *)
(* The array is the sequence reg with room for regCap entries.  Each       *)
(* function is one step: the program configures its parameters one at a    *)
(* time.                                                                   *)
(***************************************************************************)
EXTENDS AicVerdict

CONSTANTS
    Addresses,   \* where a parameter object can be allocated
    FirstCap,    \* capacity of the first allocation (4 in the code)
    MaxCap       \* bound: the largest array the allocator ever grants

ASSUME RegistryConstants ==
    /\ FirstCap \in Nat \ {0}
    /\ MaxCap \in Nat

VARIABLES
    reg,     \* aic_param_reg, its first aic_param_reg_n entries
    regCap   \* aic_param_reg_cap

registry == <<reg, regCap>>

RegistryInit ==
    /\ reg = <<>>
    /\ regCap = 0

\* The entries made for an address, and the first of them.
EntriesOf(a) == {i \in 1..Len(reg) : reg[i].param = a}
IsFirst(i, a) == i \in EntriesOf(a) /\ \A j \in EntriesOf(a) : i <= j

\* aic_param_lookup: the flags of the first entry, none without one.
Lookup(a) ==
    IF EntriesOf(a) = {} THEN {} ELSE reg[CHOOSE i \in EntriesOf(a) : IsFirst(i, a)].flags

\* The scan of set_aic_flags for an entry of the address (mutant: it compares
\* with the last entry only)
ListedLast(a) == reg # <<>> /\ reg[Len(reg)].param = a
Listed(a) == EntriesOf(a) # {}

Overwrite(a, f) ==
    /\ \E i \in 1..Len(reg) :
          IsFirst(i, a) /\ reg' = [reg EXCEPT ![i].flags = f]
    /\ UNCHANGED regCap

NewCap == IF regCap = 0 THEN FirstCap ELSE regCap * 2

\* The array has room for one more entry, or is given it.
Room ==
    \/ Len(reg) # regCap /\ UNCHANGED regCap
    \/ Len(reg) = regCap /\ NewCap <= MaxCap /\ regCap' = NewCap

\* X509_VERIFY_PARAM_set_aic_flags returns 1 ...
SetAicFlags(a, f) ==
    \/ Listed(a) /\ Overwrite(a, f)
    \/ /\ ~Listed(a)
       /\ Room
       /\ reg' = Append(reg, [param |-> a, flags |-> f])

\* ... or 0, when realloc returns NULL.
SetAicFlagsFails(a) ==
    /\ ~Listed(a)
    /\ Len(reg) = regCap
    /\ UNCHANGED registry

\* The array never holds two entries of one address, nor more than fit.
RegistryOK ==
    /\ Len(reg) <= regCap
    /\ \A i, j \in 1..Len(reg) : reg[i].param = reg[j].param => i = j
=============================================================================
