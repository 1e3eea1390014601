------------------------------- MODULE MemPool -------------------------------
(***************************************************************************)
(* The memory pool of src/src/zapi.c (DEBUG_FLAG 1): a table of the        *)
(* allocations in use, behind MALLOC_MM and FREE_MM.  The callers are the  *)
(* page engine, which frees each node it holds at most once and may free   *)
(* NULL, and the driver, which may ask for the statistics at any time.     *)
(*                                                                         *)
(* malloc is taken to succeed (a caller would write through NULL at once   *)
(* if it did not) and gives any pointer that is not in use.                *)
(***************************************************************************)
EXTENDS Integers, FiniteSetsExt

CONSTANTS
    Pointers,   \* what malloc may return
    NULL,       \* the null pointer
    MaxCap      \* bound: the table is not grown beyond this

ASSUME MemPoolAssumption == NULL \notin Pointers /\ MaxCap \in Nat \ {0}

VARIABLES
    size,      \* mem_pool_size
    cap,       \* mem_pool_cap
    table,     \* mem_pool_arr, by index; without an index when it is NULL
    heap,      \* what malloc gave and free did not take back
    held,      \* what the page engine got and has not freed
    dropped,   \* what it held when the statistics took the table away
    fault      \* "none", or how the program stopped

vars == <<size, cap, table, heap, held, dropped, fault>>

NoTable == [s \in {} |-> NULL]

Init ==
    /\ size = 0 /\ cap = 1 /\ table = NoTable
    /\ heap = {} /\ held = {} /\ dropped = {}
    /\ fault = "none"

(* Mutation: a full table is not grown.                                    *)
MustGrowLate == size > cap \/ table = NoTable

(* debug_malloc grows the table when it is full, or not there.             *)
MustGrow == size >= cap \/ table = NoTable

(* Mutation: the new table is allocated before the capacity is doubled.    *)
GrownSmall ==
    IF MustGrow
    THEN [s \in 0..(cap - 1) |-> IF s < size THEN table[s] ELSE NULL]
    ELSE table

(* Mutation: the last entry is not copied.                                 *)
GrownShort ==
    IF MustGrow
    THEN [s \in 0..(2 * cap - 1) |-> IF s < size - 1 THEN table[s] ELSE NULL]
    ELSE table

(* The table debug_malloc looks for a slot in: when it grows, the first    *)
(* `size' entries are copied.                                              *)
Grown ==
    IF MustGrow
    THEN [s \in 0..(2 * cap - 1) |-> IF s < size THEN table[s] ELSE NULL]
    ELSE table

FreeSlots(t) == {s \in DOMAIN t : t[s] = NULL}

(* Mutation: the last free slot is taken.                                  *)
SlotForLast(t) == Max(FreeSlots(t))

SlotFor(t) == Min(FreeSlots(t))

(* debug_malloc: there is nothing to copy the entries from when the        *)
(* statistics took them; a search without success ends without a value.    *)
Malloc ==
    /\ fault = "none"
    /\ IF table = NoTable /\ size > 0
       THEN fault' = "null table" /\ UNCHANGED <<size, cap, table, heap, held>>
       ELSE /\ cap' = IF MustGrow THEN 2 * cap ELSE cap
            /\ cap' <= MaxCap
            /\ IF FreeSlots(Grown) = {}
               THEN /\ table' = Grown /\ fault' = "no value"
                    /\ UNCHANGED <<size, heap, held>>
               ELSE \E p \in Pointers \ heap :
                      /\ table' = [Grown EXCEPT ![SlotFor(Grown)] = p]
                      /\ size' = size + 1
                      /\ heap' = heap \cup {p}
                      /\ held' = held \cup {p}
                      /\ UNCHANGED fault
    /\ UNCHANGED dropped

(* debug_free: NULL is ignored; otherwise the entry is cleared, if there   *)
(* is one, and that is all: the memory is not handed to free.              *)
Free(p) ==
    /\ fault = "none"
    /\ held' = held \ {p}
    /\ IF p # NULL /\ table = NoTable THEN fault' = "null table" ELSE UNCHANGED fault
    /\ IF \E s \in DOMAIN table : p # NULL /\ table[s] = p
       THEN LET s == Min({r \in DOMAIN table : table[r] = p})
            IN  table' = [table EXCEPT ![s] = NULL] /\ size' = size - 1
       ELSE UNCHANGED <<table, size>>
    /\ UNCHANGED <<cap, heap, dropped>>

(* memory_management_stats frees the table, whatever is in it, and leaves  *)
(* its size and capacity as they are.                                      *)
Stats ==
    /\ fault = "none"
    /\ table' = NoTable
    /\ dropped' = dropped \cup {table[s] : s \in DOMAIN table \ FreeSlots(table)}
    /\ UNCHANGED <<size, cap, heap, held, fault>>

(* After a fault the program is gone.                                      *)
Stopped == fault # "none" /\ UNCHANGED vars

Next ==
    \/ Malloc
    \/ \E p \in held \cup {NULL} : Free(p)
    \/ Stats
    \/ Stopped

Spec == Init /\ [][Next]_vars

-----------------------------------------------------------------------------
(* Properties *)

(* Every variable has its type; the table, when there is one, has `cap'    *)
(* entries.                                                                *)
TypeOK ==
    /\ size \in 0..cap /\ cap \in 1..MaxCap
    /\ table = NoTable \/ table \in [0..(cap - 1) -> Pointers \cup {NULL}]
    /\ heap \subseteq Pointers /\ held \subseteq heap /\ dropped \subseteq heap
    /\ fault \in {"none", "null table", "no value"}

(* Growing, filling holes and clearing entries never lose or double an     *)
(* allocation: what the page engine holds is in the table, each pointer in *)
(* one slot, and the size counts them.                                     *)
TableIsHeld ==
    dropped = {} =>
        /\ {table[s] : s \in DOMAIN table \ FreeSlots(table)} = held
        /\ \A r, s \in DOMAIN table : table[r] = table[s] /\ table[r] # NULL => r = s
        /\ size = Cardinality(held)

(* debug_malloc finds a slot every time, and neither it nor debug_free     *)
(* touches a missing table, unless the statistics were asked for while     *)
(* nodes were still held.                                                  *)
FaultsOnlyAfterDrop ==
    fault # "none" => fault = "null table" /\ dropped # {}

(* A step that hands out memory: the new pointer is in a slot with    *)
(* no free one below it, and every other entry was there before.           *)
LowestSlotStep ==
    held \subseteq held' /\ held # held' =>
        \E s \in DOMAIN table' :
            /\ table'[s] \in held' \ held
            /\ \A r \in DOMAIN table' :
                  /\ r < s => table'[r] # NULL
                  /\ r # s /\ table'[r] # NULL => r \in DOMAIN table /\ table'[r] = table[r]

(* debug_malloc takes the lowest free slot and moves no other allocation,  *)
(* which is how ZapiPage names nodes.                                      *)
TakesLowestSlot == [][LowestSlotStep]_vars

=============================================================================
