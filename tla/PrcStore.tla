------------------------------- MODULE PrcStore -------------------------------
(***************************************************************************)
(* What a user of zapi_prc.h relies on: a store of pages, each an array of *)
(* blocks.  An update or a deletion may move a page into another buffer,   *)
(* and the old buffer then holds no page any more.                         *)
(*                                                                         *)
(* `orig' is what the stream of the page was compressed from.  It shows in *)
(* two places only: an update to exactly that value may go unnoticed, and  *)
(* a deletion keeps what lies behind its first block only if the blocks    *)
(* before it are what they were compressed from.                           *)
(***************************************************************************)
EXTENDS Integers

CONSTANTS
    Pages,      \* page buffers the caller owns
    NumBlocks,  \* p_opts->blocks
    Cells       \* the cells (groups of bytes) of a block

Blocks == 0..(NumBlocks - 1)
Content == SUBSET Cells
PageContent == [Blocks -> Content]

VARIABLES
    usable,   \* the buffer holds a page
    content,  \* what a full read of the page returns
    orig,     \* what its stream was compressed from
    ret       \* the last call: name, page, new page, block and number of blocks,
              \* answer, block passed in, and the caller's scratch buffer (out)

vars == <<usable, content, orig, ret>>

Nothing == [b \in Blocks |-> {}]

Init ==
    /\ usable = [p \in Pages |-> FALSE]
    /\ content = [p \in Pages |-> Nothing]
    /\ orig = [p \in Pages |-> Nothing]
    /\ ret.op = "none"

Becomes(q, pc) ==
    /\ usable' = [usable EXCEPT ![q] = TRUE]
    /\ content' = [content EXCEPT ![q] = pc]
    /\ orig' = [orig EXCEPT ![q] = pc]

(* The page of p is in q from now on, and reads there as pc; its stream is *)
(* the old one up to `first' and new from there on.                        *)
MovesTo(p, q, first, pc) ==
    /\ usable' = [usable EXCEPT ![p] = FALSE, ![q] = TRUE]
    /\ content' = [content EXCEPT ![p] = Nothing, ![q] = pc]
    /\ orig' = [orig EXCEPT ![p] = Nothing,
           ![q] = [b \in Blocks |-> IF b < first THEN orig[p][b] ELSE pc[b]]]

Generate(p) ==
    /\ ret'.op = "generate" /\ ret'.page = p
    /\ ~usable[p]
    /\ \/ Becomes(p, ret'.out)
       \/ ret'.code = 0 /\ UNCHANGED <<usable, content, orig>>

(* The four answers of zapi_prc.h:77-92.                                   *)
Update(p, q) ==
    LET b     == ret'.block
        after == [content[p] EXCEPT ![b] = ret'.src]
    IN  /\ ret'.op = "update" /\ ret'.page = p /\ ret'.new = q
        /\ usable[p]
        /\ \/ /\ ret'.code = 0
              /\ content' = [content EXCEPT ![p] = after]
              /\ UNCHANGED <<usable, orig>>
           \/ /\ ret'.code = 1 /\ ret'.src = orig[p][b]
              /\ UNCHANGED <<usable, content, orig>>
           \/ /\ ret'.code = 2 /\ ~usable[q]
              /\ MovesTo(p, q, b, after)
           \/ /\ ret'.code = 3 /\ ret'.out = after
              /\ UNCHANGED <<usable, content, orig>>

(* The page with `n' blocks from `block' on cleared is handed back in any  *)
(* case (zapi_prc.h:125), and is in q when the answer is not 0.            *)
Delete(p, q) ==
    LET first   == ret'.block
        cleared == [b \in Blocks |->
                       IF b \in first..(first + ret'.n - 1) THEN {} ELSE content[p][b]]
        Same(pc) == \A b \in Blocks : b < first => pc[b] = content[p][b]
    IN  /\ ret'.op = "delete" /\ ret'.page = p /\ ret'.new = q
        /\ usable[p] /\ ~usable[q]
        /\ ret'.out = cleared
        /\ \/ /\ ret'.code = 0
              /\ UNCHANGED <<usable, content, orig>>
           \/ /\ ret'.code > 0
              /\ \E pc \in IF Same(orig[p]) THEN {cleared} ELSE PageContent :
                     Same(pc) /\ MovesTo(p, q, first, pc)

Decompress(p) ==
    /\ ret'.op = "decompress" /\ ret'.page = p
    /\ usable[p]
    /\ \A b \in Blocks : b < ret'.n => ret'.out[b] = content[p][b]
    /\ UNCHANGED <<usable, content, orig>>

ApplyDelta(p) ==
    /\ ret'.op = "apply" /\ ret'.page = p
    /\ usable[p]
    /\ ret'.out[ret'.block] = content[p][ret'.block]
    /\ UNCHANGED <<usable, content, orig>>

(* q becomes a freshly generated copy of what p reads as.                  *)
Pack(p, q) ==
    /\ ret'.op = "pack" /\ ret'.page = p /\ ret'.new = q
    /\ usable[p] /\ ~usable[q]
    /\ ret'.code >= 0 => ret'.out = content[p]
    /\ \/ Becomes(q, content[p])
       \/ ret'.code <= 0 /\ UNCHANGED <<usable, content, orig>>

(* Frees a page, or the buffer a page was moved out of.                    *)
Free(p) ==
    /\ ret'.op = "free" /\ ret'.page = p
    /\ usable' = [usable EXCEPT ![p] = FALSE]
    /\ content' = [content EXCEPT ![p] = Nothing]
    /\ orig' = [orig EXCEPT ![p] = Nothing]

Next ==
    \E p \in Pages :
        \/ Generate(p) \/ Decompress(p) \/ ApplyDelta(p) \/ Free(p)
        \/ \E q \in Pages : Update(p, q) \/ Delete(p, q) \/ Pack(p, q)

Spec == Init /\ [][Next]_vars
=============================================================================
