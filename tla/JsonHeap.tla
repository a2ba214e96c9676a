------------------------------- MODULE JsonHeap -------------------------------
(***************************************************************************)
(* The memory of src/lib/cjson/cJSON.c and src/lib/openaic.c: the blocks   *)
(* that malloc handed out and nobody freed.  A block is an item of a JSON  *)
(* tree or raw bytes; a pointer is the number of a block, Null is NULL.    *)
(* Any allocation may fail, which `starved' remembers until the next call. *)
(***************************************************************************)
EXTENDS Integers, Sequences, FiniteSets

VARIABLES
    heap,     \* the live blocks, by number
    starved   \* whether an allocation of this call has failed

heapVars == <<heap, starved>>

Null == 0

Live == DOMAIN heap

\* A block that is not in use.
Fresh == CHOOSE p \in 1..Cardinality(Live) + 1 : p \notin Live

With(p, block) == [q \in Live \cup {p} |-> IF q = p THEN block ELSE heap[q]]
Without(blocks) == [q \in Live \ blocks |-> heap[q]]

Bytes(b) == [block |-> "bytes", bytes |-> b]

-----------------------------------------------------------------------------
(***************************************************************************)
(* Items: struct cJSON, without the flags IsReference and StringIsConst,   *)
(* which nothing in libopenaic sets, and without valueint, which only      *)
(* chooses the format that print_number uses.                              *)
(***************************************************************************)

IsItem(p) == p \in Live /\ heap[p].block = "item"

cJSON_New_Item ==
    [block |-> "item", type |-> "Invalid", next |-> Null, prev |-> Null,
     child |-> Null, string |-> Null, valuestring |-> Null, valuedouble |-> 0]

\* What an item owns besides itself: its members and its two strings.  The
\* next item of its list is owned by the list, and prev owns nothing.
Owned(p) ==
    {heap[p].child, heap[p].string, heap[p].valuestring, heap[p].next} \ {Null}

\* The blocks that cJSON_Delete(p) frees: the items of the list that starts
\* at p and all that they own, one level deeper at a time.
cJSON_Delete(p) ==
    LET Reach[n \in 0..Cardinality(Live)] ==
            IF n = 0 THEN {p} \ {Null}
            ELSE Reach[n - 1] \cup
                 UNION {Owned(q) : q \in {r \in Reach[n - 1] : IsItem(r)}}
    IN  Reach[Cardinality(Live)]
=============================================================================
