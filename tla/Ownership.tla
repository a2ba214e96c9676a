------------------------------ MODULE Ownership -------------------------------
(***************************************************************************)
(* The blocks that a call of src/v3_aic.c has allocated and must free or   *)
(* hand over, each named after the local pointer that holds it.  A block   *)
(* that becomes part of a structure belongs to the structure.  A pointer   *)
(* keeps its value when its block is freed, as in C.                       *)
(***************************************************************************)

VARIABLES
    held,        \* the blocks that are allocated and owned by a local pointer
    pointers,    \* the local pointers that are not NULL
    freedTwice,  \* whether a freed block was freed again
    starved      \* whether an allocation of this call has failed

ownershipVars == <<held, pointers, freedTwice, starved>>

OwnershipInit ==
    /\ held = {}
    /\ pointers = {}
    /\ freedTwice = FALSE
    /\ starved = FALSE

Allocates(x) ==
    /\ held' = held \cup {x}
    /\ pointers' = pointers \cup {x}
    /\ UNCHANGED <<freedTwice, starved>>

\* The pointers in xs are freed, NULL ones with no effect; those in locals go
\* out of scope.
Frees(xs, locals) ==
    LET freed == xs \cap pointers
    IN  /\ held' = held \ freed
        /\ freedTwice' = (freedTwice \/ ~(freed \subseteq held))
        /\ pointers' = pointers \ locals

\* The block of x becomes part of a structure, or is returned as y.
HandsOver(x, y) ==
    /\ held' = (held \ {x}) \cup y
    /\ pointers' = (pointers \ {x}) \cup y
    /\ UNCHANGED <<freedTwice, starved>>

Starves == starved' = TRUE
KeepMemory == UNCHANGED ownershipVars
=============================================================================
