------------------------------ MODULE PageStore ------------------------------
(***************************************************************************)
(* What a user of zapi.h relies on: a store of pages, each an array of     *)
(* blocks, with no compression, no deltas and no memory management.        *)
(*                                                                         *)
(* A block's content is the set of its cells that are not zero, so {} is   *)
(* the zero block.  `orig' is what the page held when it was generated:    *)
(* an update to exactly that value may go unnoticed (zapi_update_block     *)
(* compares with the compressed base, not with the current value).         *)
(***************************************************************************)
EXTENDS Integers

CONSTANTS
    Pages,      \* page buffers the caller owns
    NumBlocks,  \* p_opts->blocks
    Cells       \* the cells (groups of bytes) of a block

Blocks == 0..(NumBlocks - 1)
Content == SUBSET Cells
PageContent == [Blocks -> Content]

VARIABLES
    usable,   \* the buffer holds a generated page
    content,  \* what a full read of the page returns
    orig,     \* what the page was generated from
    ret       \* the last call: name, page, block, return code, block passed in,
              \* and the caller's page buffer before (in) and after (out)

vars == <<usable, content, orig, ret>>

Init ==
    /\ usable = [p \in Pages |-> FALSE]
    /\ content = [p \in Pages |-> [b \in Blocks |-> {}]]
    /\ orig = [p \in Pages |-> [b \in Blocks |-> {}]]
    /\ ret.op = "none"

Becomes(p, pc) ==
    /\ usable' = [usable EXCEPT ![p] = TRUE]
    /\ content' = [content EXCEPT ![p] = pc]
    /\ orig' = [orig EXCEPT ![p] = pc]

(* A page is written from `ret.in', or not written at all (code 0).        *)
Generate(p) ==
    /\ ret'.op = "generate" /\ ret'.page = p
    /\ ~usable[p]
    /\ \/ Becomes(p, ret'.in)
       \/ ret'.code = 0 /\ UNCHANGED <<usable, content, orig>>

(* Code 1: the block now reads as the new value, unless the new value is   *)
(* the one the page was generated with; code 0: nothing changed.  No other *)
(* block moves in any case.                                                *)
Update(p) ==
    LET b == ret'.block
        v == ret'.src
    IN  /\ ret'.op = "update" /\ ret'.page = p
        /\ usable[p]
        /\ \/ ret'.code = 1 /\ content' = [content EXCEPT ![p][b] = v]
           \/ ret'.code = 1 /\ v = orig[p][b] /\ UNCHANGED content
           \/ ret'.code = 0 /\ UNCHANGED content
        /\ UNCHANGED <<usable, orig>>

(* `code' blocks from `block' on read as zero.                             *)
Delete(p) ==
    LET first == ret'.block
        last  == ret'.block + ret'.code - 1
    IN  /\ ret'.op = "delete" /\ ret'.page = p
        /\ usable[p]
        /\ content' = [content EXCEPT ![p] =
              [b \in Blocks |-> IF b \in first..last THEN {} ELSE content[p][b]]]
        /\ UNCHANGED <<usable, orig>>

(* A read of the first `block' blocks returns their current content.       *)
Decompress(p) ==
    /\ ret'.op = "decompress" /\ ret'.page = p
    /\ usable[p]
    /\ \A b \in Blocks : b < ret'.block => ret'.out[b] = content[p][b]
    /\ UNCHANGED <<usable, content, orig>>

(* A read of one block the caller holds the original of.  A block that     *)
(* was deleted may read as anything.                                       *)
ApplyDelta(p) ==
    /\ ret'.op = "apply" /\ ret'.page = p
    /\ usable[p]
    /\ content[p][ret'.block] # {} =>
           ret'.out[ret'.block] = content[p][ret'.block]
    /\ UNCHANGED <<usable, content, orig>>

(* q becomes a freshly generated copy of what p reads as.                  *)
Pack(p, q) ==
    /\ ret'.op = "pack" /\ ret'.page = p
    /\ usable[p] /\ ~usable[q]
    /\ \/ Becomes(q, content[p])
       \/ ret'.code <= 0 /\ UNCHANGED <<usable, content, orig>>

Free(p) ==
    /\ ret'.op = "free" /\ ret'.page = p
    /\ usable[p]
    /\ usable' = [usable EXCEPT ![p] = FALSE]
    /\ content' = [content EXCEPT ![p] = [b \in Blocks |-> {}]]
    /\ orig' = [orig EXCEPT ![p] = [b \in Blocks |-> {}]]

Next ==
    \E p \in Pages :
        \/ Generate(p) \/ Update(p) \/ Delete(p) \/ Decompress(p)
        \/ ApplyDelta(p) \/ Free(p)
        \/ \E q \in Pages : Pack(p, q)

Spec == Init /\ [][Next]_vars
=============================================================================
