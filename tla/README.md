# Z API: models and proofs

A TLA+ development of the compressed-page library in `src/`: what its pages,
delta code and memory pool do, which of their promises hold, and which do not.

## 1. The system

Z API keeps *pages* (a fixed number of *blocks* of equal size) compressed in
memory. A page is generated once as an LZ4 stream; updates of single blocks are
not recompressed but kept as run-length coded XOR *deltas* in a linked list
behind the page header; a deletion is a delta without data, a *tombstone*. The
code is single-threaded: nothing is persisted, there are no callbacks, and the
only interleaving is the order in which a client calls the library. What makes
it hard are long sequences of legal calls, state that is stale when it is used
again, calls that fail half way, and numeric bounds.

| Component | Source | State | Operations | Modelled by |
|---|---|---|---|---|
| page engine | `src/src/zapi.c`, `zapi.h` | page buffer (header with `t_size` and `delta_head`, LZ4 stream), delta nodes | generate, update, delete, decompress, apply delta, pack, free, size | `ZapiPage`, promise in `PageStore` |
| delta code | `zapi.c:132-307` | the encoder's run and bit buffer, the decoder's position and last token | `delta_packed`, `decode_packed` | `DeltaCodec` |
| memory pool | `zapi.c:31-103` | `mem_pool_arr`, `_size`, `_cap` | `debug_malloc`, `debug_free`, `memory_management_stats` | `MemPool` |
| page engine with partial recompression (PRC) | `src/src/prc/zapi_prc.c`, `zapi_prc.h` | as the page engine, with list nodes that move between pages | as above; update and delete recompress the tail of the page into a new buffer | `PrcPage`, promise in `PrcStore` |
| LZ4 streaming (vendored, edited) | `src/src/lz4_lib/` | encoder: hash table, dictionary size, offset; decoder: prefix | `LZ4_createStream`, `LZ4_loadDict`, `LZ4_compress_fast_continue`, `LZ4_decompress_safe_continue_unkown_size` | `Lz4Stream` (the part that is called) |
| example driver | `example.c` | a page, a plain copy of it, a second page | `run_tests`, `delta_battery` | `Drivers` |
| latency driver | `latency_prc.c` | a page, a page made anew every turn | `latency_compression` | `Drivers` |
| prototype | `src/src/main.c` | own page format | older versions of the same | no, superseded |
| data, script | `src/data`, `run_test.sh` | none | none | no |

How they interact. The page engine calls LZ4 to write and read the stream,
`delta_packed` to probe an update against the *base* (the page as it was
generated, without its deltas), `decode_packed` to read a delta, and the pool
for every node. A page and its nodes are tied by the list only; `t_size` is
redundant bookkeeping that must follow it. The client owns all page buffers and
may combine them by `zapi_pack_page`. The PRC engine differs in this: an update
that does not fit in a delta, and every deletion, compresses the page again from
the block it changes on, behind a copy of the stream before it, and the nodes
that are still needed go over to the new page. LZ4 then compresses with the
blocks before as a dictionary, and decodes block after block from where the last
one ended, because no compressed size is stored. The drivers are the only
clients in the repository.

What makes each component correct:

- *page engine*: a page reads as the last thing written to each block; one node
  per block; no node lost, freed twice or shared by two pages; `t_size` is what
  the page occupies; both ways of reading a block agree.
- *delta code*: decoding what was encoded gives the block; the answer is exact
  for every limit of the caller; nothing is written outside the block; both
  loops end.
- *memory pool*: no allocation is lost or doubled as the table grows and gets
  holes; a slot is always found; what is given back is freed.
- *PRC engine*: the new page reads as the old one with the change in it; the
  dictionary of the recompressed tail is what its decoder has; nodes belong to
  one page; a failed recompression leaves the old page whole.
- *LZ4 streaming*: what is decoded is what was compressed, also behind a
  dictionary; nothing is written behind the budget or the block, although both
  sides copy whole words; the end of a block is found without its size.
- *drivers*: a difference they report is one they announced, or what a delta cut
  short by its decoder left out; the benchmark does the same work every turn; at
  the end nothing is allocated.

## 2. Modules

### `ZapiPage` (with `MCZapiPage`)

State: per page buffer `status` (holds a page or not), `base` and `comp` (the
page its LZ4 stream decodes to, and the stream's length), `t_size`, `deltas`
(the list, first node first); `pool`, the slots of the pool's table in use; and
`ret`, the last call with its arguments, its answer and the client's page
buffer before and after, so that what a call hands back can be checked.

| Action | Code |
|---|---|
| `Generate` | `zapi_generate_page`, `compress_page_internal` |
| `Update` | `zapi_update_block`, `delta_packed`, `update_delta_llist` |
| `Delete` | `zapi_delete_block`: the whole loop over `update_delta_llist` |
| `Decompress` | `zapi_decompress_page`, `apply_delta` |
| `ApplyDelta` | `zapi_apply_delta` |
| `Pack` | `zapi_pack_page` |
| `Free` | `zapi_free_page` and the client's `free` of the buffer behind it |

`Compress` is the part `Generate` and `Pack` share, and `UpdateDeltaList` is
`update_delta_llist` on a header and pool, field by field (`ListAfter`,
`SizeAfter`, `PoolAfter`), so that the loop of a deletion can iterate it. A
node's length is read back through its length byte as the code does, which for
a tombstone is a stale byte behind the allocation (`StaleBytes`).

Abstractions: a block is the set of its cells that are not zero, XOR is the
symmetric difference; LZ4 is a stream that decodes to what was compressed, of
any length in `CompSizes`, or a refusal; the delta code is `PackedLen` (length
of its output), `Aligned` (whether it ends with a whole byte) and `Reached` (the
cells its decoder gets to). A limit of 0 passes the checks on the way, where it
is taken for none, and is looked at only if bits are left over at the end; hence
`Aligned`, in `WithinLimit`. The runs take the code to be lossless, `DeltaCodec`
says when it is. `t_size` is a 16-bit short.

Assumed of the client, from `zapi.h`: it generates only into a buffer that
holds no page, frees a page once, names blocks of the page, and keeps
`block_sz` at most 512 (the limit hard-coded at `zapi.c:214`).

### `PageStore`

The promise to a user of `zapi.h`: pages are arrays of blocks. The one weakness
it admits openly is that an update back to the value the page was generated
with may answer "no change" and change nothing. `StoreSpec` instantiates it
with what a read of the page returns as its content and checks that `ZapiPage`
implements it.

### `DeltaCodec` (with `MCDeltaCodec`)

One behaviour encodes a block of XOR bytes, one action per round of
`delta_packed`'s loop (`EncodeByte`, `EncodeEnd`), then decodes the result, one
action per round of `decode_packed`'s (`DecodeToken`, `DecodeEnd`). The stream
is kept as tokens with their bit positions: enough for the two things that can
go wrong between the functions, a long token taken for an end mark
(`zapi.c:160`) and a stream cut short by its one length byte (`zapi.c:305`),
where the last token may be cut in the middle (`HeadToken`). The end mark the
encoder sets at `zapi.c:300` goes into bits that are never written out, so the
padding is zeros. `at`, the byte a token starts to describe, is for the
properties only.

### `PrcPage` (with `MCPrcPage`)

State as in `ZapiPage`, with two differences. A buffer's `status` has two more
values, because a buffer is written before the call knows whether it fits:
`moved`, a page whose list went to another, and `torn`, what a failed
compression leaves. And `stream` is kept block by block, each either spelled out
(`Literal`) or a reference to an equal earlier block (`Copy`); the compressor may
do either, and whether it gives up is a choice too (`Attempts`), so that nothing
rests on how well LZ4 does. This is what a recompression with a wrong dictionary
needs: `Decoded` takes for a copy what the decoder has made of the block it
names, not what the compressor had.

| Action | Code |
|---|---|
| `Generate` | `zapi_generate_page`, `compress_page_internal` |
| `UpdateDelta` | `zapi_update_block` as far as the delta (answers 0 and 1) |
| `UpdateRecompress` | `zapi_update_block` with `partial_recompression` (answer 2, or 3 when it fails) |
| `UpdateScratch` | `zapi_update_block` with `disable_prc` (answer 3) |
| `Delete` | `zapi_delete_block`, `partial_recompression`, `move_deltas` |
| `Decompress`, `ApplyDelta`, `Pack`, `Free` | `zapi_decompress_page`, `zapi_apply_delta`, `zapi_pack_page`, `zapi_free_page` |

The client is assumed to write a page only into a buffer without one. The delta
code is `PackedLen`, `Aligned` and `Reached`, as in `ZapiPage`: `zapi_prc.c` has
the same code, stray end marks included. A delta is decoded into a page that
holds the base, so what its decoder does not get to reads as the base does
(`DecodePacked`). The runs `prc_*` take the code to be lossless, the run
`drivers` does not. The pool hands out the lowest slot (`MemPool`).

### `PrcStore`

The promise of `zapi_prc.h`, with the four answers of an update. It is stricter
than `PageStore`: an answer of 3 must hand back the whole page with the change
in it, and 2 must leave the old buffer without a page. It admits two
weaknesses: an update to what the stream already holds may go unnoticed, and a
deletion behind a block with a delta promises only the blocks before it.

### `Lz4Stream` (with `MCLz4Stream`)

Really the algorithm, on bytes: hashing and probing (`Probe`, `SearchFrom`, with
the step that grows), the candidate's three tests (`Usable`), catching up
backwards, counting forwards, the three tests against the budget, the match
right behind a match (`TestNextPosition`), the last literals; then the decoder,
one sequence per step, with its shortcut and its three ways of ending a copy. A
block's stream is a sequence of sequences (literals, offset, length) and bytes
are counted, not laid out; `ends` keeps where in the stream each block ends, and
`enc.head` where the kept head of a recompressed page does. Every recompression
has a budget of its own, as in the code, so that it may end before the kept head
and leave the compressor a negative capacity (`zapi_prc.c:390`), which must refuse
the tail. `enc.reach` and `dec.reach` record how far a copy of whole words wrote.
A match that ends within 12 bytes of the end of the block is copied in whole
words up to `CopyLimit`, seven bytes before the end, and byte by byte behind it
(`lz4.c:2148-2156`, `EndReach`), so that its last word may end at the very end of
the block, far behind the match. `LoadDict` enters every third position of the
dictionary under indexes that start at 64 KB, as the code does.

`lost` stands for a decoder that has answered an error or stands at a place that
is not the next block's: the engines add the answer to their place in the stream
and go on, which yields arbitrary bytes, and the model stops there.

Abstractions: `LZ4_hash5` is any of some weighted sums of five bytes (a hash only
chooses which candidates are looked at; every property is to hold for any); the
window is a parameter. The decoder's fast loop is not told apart from its main
loop: it copies the same bytes and is left 64 bytes before the end.

### `Drivers` (with `MCDrivers`)

`EXTENDS PrcPage`: each step of a program is a call of the engine, one action
per call, with `rand()` and the input file as choices. `example.c` only updates
with `disable_prc`, and `latency_prc.c` only with recompression or reads, so
together they use every path of an update. Constants stand for the numbers in
the code (`Edits`, `DelStart`, `DelTotal`, ...). Two variables are history, for the
properties only: `announced`, the blocks whose last update `example.c` said needs a
new page, and `cut`, the cells of each block that the decoder does not get to in
its last delta. `example.c` edits a block again and again at random places, which
is just what makes a delta that looks as if it ended early (`zapi_prc.c:160`):
then the update answers 0 and the page does not have the whole edit, without a
word. What the properties of `example.c` say is that nothing else is lost, and
nothing in other blocks or for longer than until the block's next update.

### `MemPool`

The table, its size and capacity, and beside them the memory really allocated
(`heap`) and what the page engine holds (`held`). Undefined behaviour (reading
or copying from a NULL table, falling off the end of `debug_malloc`) is a state
of its own in `fault`.

### `PartialSums`

`SumUpTo(n, f)`, the sum of `f[1]` to `f[n]`: the size of a stream and of a list
in `PrcPage`, the bits of an encoding in `DeltaCodec`. It is a recursive function
and not a fold, so that theorems about it can be proved (in `Iteration`).

### `Iteration`, `ZapiPageProofs`, `PrcPageProofs`, `DeltaCodecProofs`, `MemPoolProofs`, `Lz4StreamProofs`, `Lz4RoundTripProofs`, `DriversProofs`

See section 4.

## 3. What is checked

| Run | Shows | Bounds |
|---|---|---|
| `zapi_lists` | types, `PoolIsOwned`, `OneDeltaPerBlock`, `SizeNeverOverstated`, `SizeDriftsOnlyAtTombstones` | 1 page, 3 blocks, 1 cell: every list of up to 3 nodes in every order, every deletion range, a delta limit and the limit 0; `t_size` may drift below the header (`SizeFloor`) |
| `zapi_store` | `PoolIsOwned` across pages, `ReadsAgree`, `StoreSpec` | 2 pages (symmetric), 2 blocks, at most `MaxNodes` = 2 nodes in use, one delta limit that refuses a change and one that takes it |
| `zapi_revert` | finding: an update that reverts a block is dropped | as `zapi_store` |
| `codec_blocks` | `PrefixEncoded`, `AnswerIsExact`, `DecodesUntilStopped`, `Terminates` | blocks of up to 3 runs with lengths 1, 2, 7, 8, 16, 17, 255, 256 (both sides of every bound in the code), blocks without runs whose encoding is just below and above 256 bytes, limits 0 and from 2 to 300 |
| `codec_endmark` | finding: a delta does not always come back | the same blocks |
| `codec_long` | finding: a run over 256 bytes overruns the block | two blocks of 257 and 258 bytes |
| `mempool_table` | `TableIsHeld`, `FaultsOnlyAfterDrop`, `TakesLowestSlot` | 5 pointers, table grown from 1 to 8 with holes at every place |
| `prc_store` | types, `PoolIsOwned`, `OneDeltaPerBlock`, `SizeIsExact`, `AnswerIsBufferSize`, `StoreSpec` | 2 pages (symmetric), 2 blocks, deltas for the first (`PrcThres` 1) or with `disable_prc` for both, at most 2 nodes, budgets that refuse and that allow, a delta limit that allows and the limit 0 |
| `prc_delete` | finding: a deletion behind a delta changes other blocks | as `prc_store`, one budget |
| `prc_buffer` | finding: a recompression overruns a small new buffer | as `prc_store` |
| `lz4_pages` | types, `MatchInWindow`, `TableIsBehind`, `StaysInBudget`, `ReadsBack`, `CapacityDecides`, `DecoderStaysInBlock`, `Terminates` | pages of 1 to 3 blocks of 7 to 280 bytes, with runs, short periods, repetition across blocks and none; 2 recompressions at any block; budgets 20, 48, 400, one for each compression; a window of 40 bytes; a capacity of 64; 8 buckets, 2 hash functions |
| `drivers` | `FailureAnnounced`, `DeletionVerdict`, `NothingLeft`, `SameWorkEveryTime`, `ProgramEnds` | pages of 3 blocks, the middle one deleted; 2 cells, and a delta of the second alone is taken to end before it; 2 files, 4 edits (as in the code), 3 turns |

Why the bounds are enough. The list code looks at a list only through the first
node of a block, so three blocks give a first, middle and last place to replace
and to append; a second page is what sharing nodes needs. One cell tells a
written block from a zero one, which is all the store distinguishes. The codec's
decisions depend on the length and zeroness of a run and on the run before it.
The pool's table is grown three times, and each time with and without holes.
In `PrcPage` two blocks give a block before the recompressed one and one in it,
which is where a list is split and where a dictionary can be wrong. In
`Lz4Stream` a window of 40 bytes lies inside a page of two 24-byte blocks, so
that dictionaries are longer and shorter than it and matches end at it; lengths
of 15 and more, 270 and more, and blocks below 13 bytes are among the pages, the
capacity lies below some blocks, and with 8 buckets most positions collide. The
budgets stop the compressor at a literal run, a match and the last literals, and
the lowest lies below the head that the others let a page keep. In `Drivers` three
blocks give one before, one in and one behind the deleted range, each with a delta,
a cut delta or none.

Fairness. `DeltaCodec!Terminates` and `Lz4Stream!Terminates` assume weak
fairness of the next step of a function that was called, which a sequential
function has until it returns; the calls themselves are not fair. `Drivers`
assumes it of the whole program, which is one thread that nothing waits for. The
page engines and the pool promise nothing about when a client calls. Deadlock is
not checked in `lz4_pages`: the model stops when a page was refused or lost, or
has been recompressed `MaxEdits` times.

What the runs found, in short (details and lines under "findings" in
`PROJECT.json`): in both engines updates are compared with the base, so in
`zapi.c` a revert leaves the older delta in force; in both a run of two or more
equal changed bytes, or of eight or more unchanged ones, followed by a run of 17
or more loses the rest of the block, so that `example.c`, which makes such deltas
when it edits a block twice, may report a difference it announced nowhere; full runs in blocks over 256 bytes are
counted one too long; a deletion in the PRC engine recompresses behind a
dictionary that has deltas in it and the stream has not, so that blocks that were
not deleted may change; a recompression writes the kept head of the stream into
the new buffer whatever its budget.

Four more were met and have no run of their own, because the models show them
plainly. `t_size` of `zapi.c` drifts down by a stale byte and one whenever a
tombstone is replaced, and only then (`SizeDriftsOnlyAtTombstones`; `zapi.h:24`
calls it the total size). A refused update of `zapi.c` hands back the base
without its deltas (`Update`'s answer 0 in `PageStore` promises nothing about the
buffer; the comment at `zapi.c:413` does), and a partial read applies the deltas
of all blocks, also behind the buffer (`PageStore!Decompress` promises the blocks
asked for only). And `debug_free` never calls `free`: in `MemPool` `Free` only
clears the table's entry, and no action takes anything from `heap`.

## 4. What is proved

`ZapiPageProofs` proves, for any number of pages, blocks and cells and any
`PackedLen`, `Reached`, sizes and limits that satisfy `ZapiPageAssumption`:

- `TypeCorrect`: `Spec => []TypeOK`;
- `PoolOwnership`: `Spec => []PoolIsOwned`;
- `SingleDelta`: `Spec => []OneDeltaPerBlock`;
- `ReadsAlwaysAgree`: `Spec => []ReadsAgree`, and
- `StoreImplemented`: `Spec => StoreSpec`, both if the delta code is `Lossless`;
- `SizeInvariant`, `SizeIsLowerBound`: `Spec => []SizeNeverOverstated`, and
- `DriftIsTombstones`: `Spec => SizeDriftsOnlyAtTombstones`, both if
  `ShortEncodings` and `RoomForDrift`, the last if `PageFits` too.

The argument. `MemoryInv` is the strengthening: every node's slot is in use, no
two nodes of any pages share a slot, every slot in use belongs to some list, no
list has two nodes of a block, and a buffer without a page has an empty list.
`UpdateDeltaList` keeps the part of it that is about one header and the pool
(the slot it takes is free, because among the first `Cardinality(pool) + 1`
naturals one is not in `pool`), and leaves the other pages' slots alone. A
deletion is a loop over it: `DeleteHeader` is a recursive function, and
`Iteration` proves from the least number principle that such a function is what
its equations say as long as its body stays in a set (`LoopExists`), so that an
invariant of the body is one of the loop (`DeleteStaysIn`). The same argument
gives `ApplyDeltas` its type, which `Pack` needs.

The refinement is proved call by call. What a page reads as is unfolded by a
loop again: a list without two nodes of a block reads as its base with each
node's delta in the place of its block, so that replacing or appending a node
changes the block written and no other. The sizes need more: `SizeInv` bounds
every node's length byte and keeps `t_size` above `SizeFloor` while there are
nodes, because 16-bit arithmetic is what it looks like only as long as nothing
wraps.

Their assumptions on constants are these. `Lossless`: the decoder gets to every
cell, which `RoundTripUnlessStopped` (below) proves of blocks whose encoding
has no stray end mark; the run `codec_endmark` shows that it fails of others, so
the theorem says what the engine does with a delta code that is right.
`ShortEncodings`: what an update keeps (what `WithinLimit` lets pass) has at most
255 bytes before its length byte, which the code has whenever `delta_thres` is
from 1 to 256 or blocks are small; beyond it the length byte is wrong (`codec_blocks` has such encodings).
`RoomForDrift`: `t_size` stays so high that no single call takes it below the
least short. It is a bound of the model: the drift has no end in the code, and
after some hundred replaced tombstones `t_size` wraps. `PageFits`: a page with a
delta of the largest size for every block has at most 32767 bytes.

`PrcPageProofs` proves, for any number of pages, blocks and nodes and whatever
the compressor makes of a page:

- `PoolOwnership`: `Spec => []PoolIsOwned`;
- `SingleDelta`: `Spec => []OneDeltaPerBlock`;
- `TypeCorrect`: `Spec => []TypeOK`;
- `PageInvariant`, `SizeExactUpToOverflow`: `t_size` is exact for every page that
  occupies at most 32767 bytes, and `SizeExact`: `Spec => []SizeIsExact` if no
  page can be larger (`ShortPages`);
- `AnswerExact`: `Spec => []AnswerIsBufferSize`, and
- `StoreImplemented`: `Spec => StoreSpec`, both if budgets are at most 32767
  (`ShortBudgets`), the last if the delta code is `Lossless` too, as above.

The argument. `MemoryInv` says the same of all buffers instead of the live ones,
and that only live ones have a list, so that a page which becomes `moved` or
`torn` has nothing to lose. There are three ways to change lists. An update puts
one new node in place of one or behind all (`OneNew`). A recompression moves
nodes: what `move_deltas` keeps is made of the old list's nodes, none twice
(`KeptSelects`, an induction over its loop by `LoopExists`), so that slots and
blocks stay apart (`MoveKeeps`); a failed one touches no list. And a free empties
a list.

`PageInv` adds the types and that `t_size` is the 16-bit remainder of the bytes
the page occupies, header, stream and nodes. Nothing is assumed for that: a
remainder of a sum is the remainder of the sum of remainders, so each call has
only to change `t_size` by as much as it changes the list (`CountedUpdate`) or
to count what it moves (`CountedRecompress`). That the sums of a list change as they
should rests on a handful of lemmas about `PartialSums` (`SumStep`, `SumSame`,
`SumAdds`, `SumDiffers`, `SumBounded`), proved once in `Iteration`. The remainder
is the number itself as long as it is below 32768; `ShortPages` says so of the
largest page, and `ShortBudgets` that no budget a client passes is larger, so
that the answer, an `unsigned` made from a `short`, is the size that was
written. Both hold of the pages the repository makes (a few kilobytes).

The refinement `StoreImplemented` has one lemma per call. `Decoded` of a stream
stitched together from a kept head and a tail is the head's blocks and, if the
dictionary of the tail was what the head decodes to, the data (`StitchedDecodes`);
an update's dictionary is that, a deletion's is not, which is why `PrcStore`
promises a deletion less. Of the list it uses that the nodes kept by
`move_deltas` change the blocks before the recompressed one as they did before
(`KeptReads`).

`MemPoolProofs` proves, for every capacity `MaxCap` and any set of pointers:

- `TypeCorrect`: `Spec => []TypeOK`;
- `TableKept`: `Spec => []TableIsHeld`;
- `NoFault`: `Spec => []FaultsOnlyAfterDrop`;
- `LowestSlot`: the action property `TakesLowestSlot`.

The argument. The three invariants need one another and two facts more (`IInv`):
finitely many pointers are held, and a dropped table leaves `size` above zero.
The table is grown only when `size` says that it is full, and then it has no
hole to lose; when it is not full it has an empty slot, because the taken slots
map one to one to the pointers held, of which there are `size` (`FreeSlotLeft`).

`DeltaCodecProofs` proves, for any limits, and, but for the first, for inputs of
at most 256 bytes (`ShortInputs`):

- `TypeCorrect`: `Spec => []TypeOK`;
- `EncodesThePrefix`: `Spec => []PrefixEncoded`;
- `DecodesThePrefix`: `Spec => []DecodesUntilStopped`;
- `RoundTripUnlessStopped`: where no token looks like an end mark and all are in
  reach of the length byte, the block comes back;
- `AnswerCorrect`: `Spec => []AnswerIsExact`.

The argument. `PackDeltaFacts` says
what `pack_delta` writes for one run, seven zeros or a single token, and
`PackAfterFacts` that appending it keeps the tokens a tiling of what was read.
The loop then has three cases: nothing is packed, the run before this byte is,
or this byte ends the block and is packed with it (`FirstPacked`, `AllPacked`).
The assumption excludes the fourth, a run that is full before the block ends,
after which the code counts a byte twice; the run `codec_long` shows that case.
The decoder is at the place its next token describes, and what it has written
is the block up to there (`DInv`). The answer is a sum over runs: the bits
written so far are those of the runs closed so far (`AInv`), whichever of them
were packed together, so that the three checks on the way compare a part of the
sum with the limit and the last one all of it.

`Lz4StreamProofs` proves of the compressor, for any pages of any block size, any
recompressions, budgets, windows, table sizes and hash functions:

- `BudgetKept`: `Spec => []StaysInBudget`;
- `MatchesKept`: `Spec => []MatchInWindow`;
- `TableKept`: `Spec => []TableIsBehind`.

The argument. `IInv` says what holds at each place of the compressor: where
`anchor`, `ip` and `match` lie in the block, that no bucket is ahead of the
position looked up next (a match that was found at a position and caught up
backwards still ends behind it, because it has at least the four bytes that were
compared), and that two bytes of budget are left before a match. `LoadDict`
keeps the table behind the tail, as it enters positions before it under indexes
below the window. That the tests against the budget are enough is arithmetic:
`LiteralsAreChecked`, `MatchIsChecked` and `LastIsChecked` show that each leaves
room for the length bytes and for the words a copy writes too much. As every
recompression has its own budget, `StaysInBudget` is about what the compressor
writes itself, and a budget below the kept head lets it write nothing.

`Lz4RoundTripProofs` proves of compressor and decoder together, under the same
assumptions:

- `RoundTrip`: `Spec => []ReadsBack`, what is decoded to the end is the page;
- `CapacityKept`: `Spec => []CapacityDecides`, the end of a block is found
  although its size is not stored, exactly if `BlockSz <= Capacity`;
- `DecoderKept`: `Spec => []DecoderStaysInBlock`;
- `TypeCorrect`: `Spec => []TypeOK`, every offset fits its two bytes and the
  search moves on with every step.

The argument. The sequences of a block *tile* it: there are functions `pos` and
`at` that say which byte of the page each sequence begins with and where in the
stream it is, every match is a run of bytes equal to those `off` before, and the
last literals end at the end of the block (`MatchPiece`, `LastPiece`, `Open`,
`Closed`). The compressor extends the tiling of its block (`OpenAppend`,
`OpenClose`); a recompression changes the page from a block on and leaves the
tilings before it alone (`BytesBefore`, `SameClosed`), dictionary or not. The
decoder is at `pos` in the page and at `at` in the stream when it comes to a
sequence. A run that equals the bytes `off` before is periodic (`Periodic`), so
copying byte by byte goes on with the page even where a match overlaps itself
(`CopyFacts`). That every match starts at least 12 bytes before the end of its
block and ends at least 5 before it, as the compressor sees to, is what keeps the
decoder from taking a sequence for the last and leaves its copies of whole words
room, those up to `CopyLimit` too (`ReachFacts`). The invariant (`RInv`) rests on `IInv`, which says that a
match lies behind the position and in the window. `TypeOK` follows from the two
for what a search or a match has just set (`FreshFields`), the types of the
sequences from the tilings; elsewhere the fields are what they were (`FieldsInv`).

`DriversProofs` proves of the two programs, for pages of any number of blocks,
any files, edits and numbers of turns, any delta limit, any delta code, lossy or
not, and whatever the compressor makes of a page, with no assumption but
`DriversAssumption` and `PrcPageAssumption`:

- `DriversInvariant`: `DriversSpec => []DriversInv`, below;
- `FailuresAreAnnounced`: `DriversSpec => []FailureAnnounced`, a block whose last
  update was not announced reads as the copy, but for the cells that its own delta
  is not decoded to, and a comparison fails only if there is such a block or an
  announced one;
- `VerdictIsExplained`: `DriversSpec => []DeletionVerdict`, the same behind the
  deletion for every block, deleted, before or behind, with the one exception the
  stale dictionary makes: a block that is compressed as a copy of one with a delta
  reads as that one does without it (`Stale`);
- `NothingIsLeft`: `DriversSpec => []NothingLeft`;
- `TurnsAreAlike`: `DriversSpec => []SameWorkEveryTime`.

The argument. `DriversInv` joins `MemoryInv` and `PageInv` of `PrcPageProofs` with
what each program relies on at each place. For `example.c`: every block was
announced or reads as the copy without its cut cells (`Excused`), except, between
an edit and its update, the block just edited. That survives the deletion because
a tail that is compressed behind a dictionary with deltas decodes to what was
compressed except where it copies a block whose delta the stream does not have
(`TailDecodes`), and `DeleteDoes` joins that with the deltas the new page keeps;
where no block is cut or stale the copy is the page (`NothingCut`). For
`latency_prc.c`: no list ever has a node, the page reads as the file and the new
page as the file with one block replaced. Each call of the engine has one lemma that says what it makes of
reads, answers and lists (`GenerateDoes`, `UpdateDoes`, `RecompressDoes`,
`DeleteDoes`, `ReadDoes`), and `AmpleIsEnough` that a buffer of `AmpleThres` bytes
has room for every stream, so that calls whose answers nobody looks at do not
fail. The engine's theorems cannot be used as they stand, because the programs
step outside its specification twice: `latency_prc.c` goes on recompressing a
page that counts as moved, and frees the memory of its last new page without
`zapi_free_page`. Both are harmless only because that program makes no deltas,
which is why the empty lists are part of the invariant; that invariant was
checked by TLC on the instance of `drivers` before.

Only model-checked: liveness (`Terminates`, `ProgramEnds`), which is out of the
prover's reach, and with it that no call is made where the engine has none
(`ENABLED`). What the findings show is checked on their instances only. The
lossless delta code that `ReadsAlwaysAgree` assumes and
`RoundTripUnlessStopped` proves of blocks without a stray end mark are joined in
words, as `ZapiPage` counts cells and `DeltaCodec` bits.

## 5. Plan

1. Done: `PageStore`, `ZapiPage`, `DeltaCodec`, `MemPool` with the proofs of
   section 4; `PrcStore`, `PrcPage`, `Lz4Stream` and `Drivers` with theirs.
2. Done: the codec's decoder and answer, the sizes of both engines, and that
   both implement their stores; the invariants of both programs and the types of
   `Lz4Stream`. Every safety property of a passing run is a theorem now.
3. To come: `SizeDriftsOnlyAtTombstones` up to a multiple of 65536, which needs no
   `RoomForDrift`, the way `PageInv` of `PrcPageProofs` counts.

Not modelled, and why. Of LZ4: what nothing in the repository calls, that is
16-bit and pointer hash tables, `fillOutput`, partial and in-place decoding,
attached dictionaries, decoding into a ring or other buffers (the added function
only prints that it cannot), and renormalising indexes above 2 GB. What a decoder
makes of a stream after its first error: arbitrary bytes. The prototype `main.c`,
superseded by `zapi.c`. Of the drivers: printing, timing, reading files, what is
commented out, and `print_compression` and `write_file`, which nothing calls. The
script and the data.
