------------------------------- MODULE Drivers -------------------------------
(***************************************************************************)
(* The programs that use the page engine of PrcPage: src/src/example.c     *)
(* edits a page at random, compares it with a plain copy after every edit, *)
(* deletes blocks into a second page and frees both; src/src/latency_prc.c *)
(* recompresses, or reads, one page over and over.  rand() is a choice,    *)
(* the file holds any of Sources, and the numbers in the code are          *)
(* constants.                                                              *)
(***************************************************************************)
EXTENDS PrcPage

CONSTANTS
    page,       \* the page a program starts from
    newPage,    \* del_page, prc_page
    Edits,      \* updates of delta_battery (4)
    EditLimit,  \* its delta_thres (100)
    GenThres,   \* what run_tests compresses into (1851)
    DelStart, DelTotal,  \* the blocks it deletes (2 from 4 on)
    AmpleThres, \* more than a page can need (4000; size*2)
    Times       \* repetitions of latency_compression

ASSUME DriversAssumption ==
    /\ page # newPage /\ Pages = {page, newPage}
    /\ DelStart \in Blocks /\ DelTotal \in 1..(NumBlocks - DelStart)
    /\ AmpleThres \in Nat
    /\ AmpleThres >= PageHeader + NumBlocks * Max({LiteralSize, CopySize})
    /\ PrcThres = 0
    /\ EditLimit \in Nat /\ GenThres \in Nat /\ Edits \in Nat /\ Times \in Nat \ {0}

VARIABLES
    program,    \* "example", "prc" and "read" (latency_prc with and without prc)
    pc,         \* where it is
    data,       \* the file
    edit,       \* edit_full; in latency_prc file_data
    block,      \* the block edited last
    count,      \* turns of the loop
    announced,  \* per block: the last update of it was announced as failed
    cut,        \* per block: the cells that its last delta is not decoded to
    matches     \* the last verdict of cmp_page

driver == <<program, pc, data, edit, block, count, announced, cut, matches>>
allVars == <<vars, driver>>

At(here, programs) == pc = here /\ program \in programs
Go(there) == pc' = there

(* Mutation: the loop's counter stands still.                              *)
CountedNever(n) == n

Counted(n) == n + 1

-----------------------------------------------------------------------------
(* Both programs *)

(* generate_random_edit.                                                   *)
RandomEdit(b, v) == edit' = [edit EXCEPT ![b] = v] /\ block' = b

(* cmp_page.                                                               *)
ComparePage(p) ==
    /\ Decompress(p, NumBlocks)
    /\ matches' = (ret'.out = edit)

(* The first compression of the file, and its copy to a buffer of its size. *)
GenerateExample ==
    /\ At("generate", {"example"})
    /\ \E enc \in Attempts(data, 0) :
          /\ Generate(page, data, enc, GenThres)
          /\ Go(IF CompressCode(enc, GenThres) > 0 THEN "compare" ELSE "done")
    /\ UNCHANGED <<program, data, edit, block, count, announced, cut, matches>>

GenerateLatency ==
    /\ At("generate", {"prc", "read"})
    /\ \E enc \in Encodings(data, 0) : Generate(page, data, enc, AmpleThres)
    /\ Go("edit")
    /\ UNCHANGED <<program, data, edit, block, count, announced, cut, matches>>

FreePage ==
    /\ pc = "free"
    /\ Free(page)
    /\ Go("done")
    /\ UNCHANGED <<program, data, edit, block, count, announced, cut, matches>>

-----------------------------------------------------------------------------
(* example.c *)

EditExample ==
    /\ At("edit", {"example"})
    /\ \E b \in Blocks, v \in Content : RandomEdit(b, v)
    /\ Go("update")
    /\ UNCHANGED <<vars, program, data, count, announced, cut, matches>>

(* Mutation: only the answer for a delta that does not fit is.             *)
AnnouncesFailed(code) == code = 3

(* "Need to allocate a new page".                                          *)
Announces(code) == code # 0

(* The changes that decode_packed does not get to.                         *)
CutOff(flips) == flips \ Reached[flips]

UpdateExample ==
    /\ At("update", {"example"})
    /\ \/ UpdateDelta(page, block, edit[block], EditLimit, TRUE)
       \/ UpdateScratch(page, block, edit[block], EditLimit)
    /\ announced' = [announced EXCEPT ![block] = Announces(ret'.code)]
    /\ cut' = [cut EXCEPT ![block] =
           IF ret'.code = 0 THEN CutOff(XOR(edit[block], Base(page)[block])) ELSE {}]
    /\ Go("compare")
    /\ UNCHANGED <<program, data, edit, block, count, matches>>

CompareExample ==
    /\ At("compare", {"example"})
    /\ ComparePage(page)
    /\ count' = Counted(count)
    /\ Go(IF count < Edits THEN "edit" ELSE "delete")
    /\ UNCHANGED <<program, data, edit, block, announced, cut>>

(* Mutation: the copy is cleared one block short.                          *)
ClearedShort(pg) == [b \in Blocks |-> IF b \in DelStart..(DelStart + DelTotal - 2) THEN {} ELSE pg[b]]

IsDeleted(b) == b \in DelStart..(DelStart + DelTotal - 1)
Cleared(pg) == [b \in Blocks |-> IF IsDeleted(b) THEN {} ELSE pg[b]]

(* The answer of the deletion is printed and not looked at.  What went     *)
(* wrong with a block before it is deleted does not matter any more.       *)
DeleteExample ==
    /\ At("delete", {"example"})
    /\ \E enc \in Encodings(DeletedPage(page, DelStart, DelTotal), DelStart) :
          Delete(page, newPage, DelStart, DelTotal, enc, AmpleThres)
    /\ edit' = Cleared(edit)
    /\ cut' = Cleared(cut)
    /\ announced' = [b \in Blocks |-> announced[b] /\ ~IsDeleted(b)]
    /\ Go("compare_new")
    /\ UNCHANGED <<program, data, block, count, matches>>

CompareNew ==
    /\ At("compare_new", {"example"})
    /\ ComparePage(newPage)
    /\ Go("free_new")
    /\ UNCHANGED <<program, data, edit, block, count, announced, cut>>

(* Mutation: its buffer is freed, the page in it is not.                   *)
FreeNewBuffer ==
    /\ At("free_new", {"example"})
    /\ Go("free")
    /\ UNCHANGED <<vars, program, data, edit, block, count, announced, cut, matches>>

FreeNew ==
    /\ At("free_new", {"example"})
    /\ Free(newPage)
    /\ Go("free")
    /\ UNCHANGED <<program, data, edit, block, count, announced, cut, matches>>

-----------------------------------------------------------------------------
(* latency_prc.c *)

EditLatency ==
    /\ At("edit", {"prc", "read"})
    /\ \E b \in Blocks, v \in Content : RandomEdit(b, v)
    /\ Go("repeat")
    /\ UNCHANGED <<vars, program, data, count, announced, cut, matches>>

(* Mutation: the block that was edited.                                    *)
NewValueOfBlock == edit[block]

(* file_data is passed as the new block, so the bytes of block 0 are.      *)
NewValue == edit[0]

(* The page a program recompresses stays what it is, and its new page is   *)
(* overwritten the next time.                                              *)
UpdateAgain ==
    /\ At("repeat", {"prc"})
    /\ count < Times
    /\ \E enc \in Encodings(UpdatedTail(page, block, NewValue), block) :
          /\ Recompress(page, newPage, block, enc, AmpleThres)
          /\ ret' = [Answer("update", page, newPage, block, 0, 2, NewValue,
                            UpdatedTail(page, block, NewValue))
                        EXCEPT !.size = RecompressCode(page, block, enc, AmpleThres)]
    /\ count' = Counted(count)
    /\ UNCHANGED <<program, pc, data, edit, block, announced, cut, matches>>

ReadAgain ==
    /\ At("repeat", {"read"})
    /\ count < Times
    /\ Decompress(page, NumBlocks)
    /\ count' = Counted(count)
    /\ UNCHANGED <<program, pc, data, edit, block, announced, cut, matches>>

(* The buffer of the last new page is freed without zapi_free_page.        *)
DropNew ==
    /\ At("repeat", {"prc", "read"})
    /\ count = Times
    /\ status' = [status EXCEPT ![newPage] = "raw"]
    /\ stream' = [stream EXCEPT ![newPage] = Empty]
    /\ t_size' = [t_size EXCEPT ![newPage] = 0]
    /\ deltas' = [deltas EXCEPT ![newPage] = <<>>]
    /\ Go("free")
    /\ UNCHANGED <<pool, ret, program, data, edit, block, count, announced, cut, matches>>

-----------------------------------------------------------------------------
Done == pc = "done" /\ UNCHANGED allVars

DriversInit ==
    /\ Init
    /\ program \in {"example", "prc", "read"}
    /\ pc = "generate"
    /\ data \in Sources /\ edit = data
    /\ block = 0 /\ count = 0
    /\ announced = [b \in Blocks |-> FALSE]
    /\ cut = Zero
    /\ matches = TRUE

Step ==
    \/ GenerateExample \/ EditExample \/ UpdateExample \/ CompareExample
    \/ DeleteExample \/ CompareNew \/ FreeNew
    \/ GenerateLatency \/ EditLatency \/ UpdateAgain \/ ReadAgain \/ DropNew
    \/ FreePage

DriversNext == Step \/ Done

(* A program runs on until it ends.                                        *)
DriversSpec == DriversInit /\ [][DriversNext]_allVars /\ WF_allVars(Step)

-----------------------------------------------------------------------------
(* Properties *)

(* What the copy says of a block, without the changes the decoder drops.   *)
AsKept(b) == XOR(edit[b], cut[b])

(* Edits pile up in the copy of example.c, refused ones never reach the    *)
(* page and the decoder may stop before the end of a block.  Still, every  *)
(* block reads as the copy without just the cells that its own last delta  *)
(* is not decoded to, unless its last update was announced as one that     *)
(* needs a new page; nothing else makes a comparison fail.                 *)
FailureAnnounced ==
    /\ At("edit", {"example"}) \/ At("delete", {"example"}) =>
          \A b \in Blocks : announced[b] \/ PageReads(page)[b] = AsKept(b)
    /\ ~matches /\ pc \in {"edit", "delete"} =>
          \E b \in Blocks : announced[b] \/ cut[b] # {}

(* A block behind the start of the deletion was compressed as a copy of    *)
(* one before it, as that one read with its delta; the decoder copies what *)
(* is in the stream there.                                                 *)
Stale(b) ==
    \E j \in Before(DelStart) :
        /\ b >= DelStart /\ Hits(deltas[newPage], j) # {}
        /\ PageReads(newPage)[j] = AsKept(b)
        /\ PageReads(newPage)[b] = Base(newPage)[j]

(* The same after the deletion of example.c, for the blocks behind the     *)
(* deleted ones too: their deltas are gone, in the new stream is what they *)
(* were decoded to, and the one other thing that can go wrong is the       *)
(* dictionary, in just the blocks and to just the values Stale describes.  *)
DeletionVerdict ==
    pc = "free_new" =>
        /\ \A b \in Blocks :
              announced[b] \/ PageReads(newPage)[b] = AsKept(b) \/ Stale(b)
        /\ ~matches => \E b \in Blocks : announced[b] \/ cut[b] # {} \/ Stale(b)

(* When a program ends, memory_management_stats has nothing to report,     *)
(* whichever of its two pages the deltas have moved to.                    *)
NothingLeft == pc = "done" => pool = {}

(* Every repetition does the same work: the page it starts from is the     *)
(* file's, without deltas, and the new page is the file with its first     *)
(* block as edited in the place of the chosen one.                         *)
SameWorkEveryTime ==
    At("repeat", {"prc", "read"}) =>
        /\ PageReads(page) = data /\ deltas[page] = <<>>
        /\ program = "prc" /\ count > 0 =>
              PageReads(newPage) = [data EXCEPT ![block] = edit[0]]

(* Each program gets to its end: no call is made on a buffer that does not *)
(* hold a page, which the engine has no guard against.                     *)
ProgramEnds == <>(pc = "done")
=============================================================================
