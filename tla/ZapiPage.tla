------------------------------- MODULE ZapiPage -------------------------------
(***************************************************************************)
(* The page engine of src/src/zapi.c: compressed pages whose updates are   *)
(* kept as a linked list of delta nodes behind the compressed bytes.       *)
(*                                                                         *)
(* Abstractions.  A block's content is the set of its cells (groups of     *)
(* bytes) that are not zero; the XOR of two blocks is the symmetric        *)
(* difference.  The LZ4 stream is kept as the page it decodes to (`base')  *)
(* and its length (`comp'), and may refuse any page.  The delta code is    *)
(* kept as the length of its output (PackedLen) and the cells its decoder  *)
(* gets to before it stops (Reached); DeltaCodec models the code itself.   *)
(* A delta node is known by the slot of the memory pool that holds it.     *)
(***************************************************************************)
EXTENDS Integers, Sequences, FiniteSets

CONSTANTS
    Pages,        \* page buffers the caller owns
    NumBlocks,    \* p_opts->blocks
    Cells,        \* the cells of a block
    Sources,      \* pages the caller compresses
    OldBuffers,   \* what the caller's decompression buffer may hold before a call
    CompSizes,    \* lengths the LZ4 stream of a page may have
    Thresholds,   \* `thres' of generate and pack
    DeltaThres,   \* `delta_thres' of update
    StaleBytes,   \* values of the byte behind a 10-byte allocation
    PackedLen,    \* bytes delta_packed writes for an XOR block, length byte excluded
    Aligned,      \* the XOR blocks of which it writes whole bytes, with no bit left over
    Reached,      \* the cells decode_packed writes when it decodes that output
    SizeFloor,    \* bound: no update or delete takes t_size below this
    MaxNodes      \* bound: no update or delete leaves more delta nodes in use

Blocks == 0..(NumBlocks - 1)
Content == SUBSET Cells
PageContent == [Blocks -> Content]
Zero == [b \in Blocks |-> {}]

(* The ranges of a C short and of a byte.                                  *)
MinShort == -32768
MaxShort == 32767
MaxByte == 255
Shorts == MinShort..MaxShort

ASSUME ZapiPageAssumption ==
    /\ NumBlocks \in 1..MaxShort
    /\ Sources \subseteq PageContent
    /\ OldBuffers \subseteq PageContent
    /\ CompSizes \subseteq Nat
    /\ Thresholds \subseteq Nat
    /\ DeltaThres \subseteq Nat
    /\ StaleBytes \subseteq 0..MaxByte
    /\ PackedLen \in [Content -> Nat]
    /\ Aligned \subseteq Content
    /\ Reached \in [Content -> SUBSET Cells]
    /\ SizeFloor \in Int
    /\ MaxNodes \in Nat

PageHeader == 16   \* sizeof(zapi_page_header): a short, padding, a pointer
NodeHeader == 10   \* sizeof(zapi_delta_block), packed: a pointer and a short

(* Assignment to a C short: the low 16 bits, read as a signed number.      *)
Int16(x) == ((x + 32768) % 65536) - 32768

VARIABLES
    status,   \* per page buffer: "raw" or "live"
    base,     \* the page the LZ4 stream decodes to
    comp,     \* the length of the LZ4 stream
    t_size,   \* zapi_page_header.t_size
    deltas,   \* the list at zapi_page_header.delta_head
    pool,     \* the slots of mem_pool_arr in use
    ret       \* the last call (see PageStore)

vars == <<status, base, comp, t_size, deltas, pool, ret>>

-----------------------------------------------------------------------------
(* Delta nodes *)

(* An allocated node.  Bit 15 of the id marks a tombstone, which has no    *)
(* payload at all; any other node holds a length byte and `bytes' more.    *)
Node(slot, b, tomb, flips, bytes) ==
    [slot |-> slot, id |-> b, tomb |-> tomb, flips |-> flips, bytes |-> bytes]

Payload(nd) == IF nd.tomb THEN 0 ELSE nd.bytes + 1

(* Mutation: the length byte read back as if it did not count itself.      *)
LengthByteShort(nd, g) == IF nd.tomb THEN g ELSE (nd.bytes % 256) - 1

(* The byte behind the node's header: the length byte, or for a tombstone  *)
(* the stale byte g that lies behind its allocation.                       *)
LengthByte(nd, g) == IF nd.tomb THEN g ELSE nd.bytes % 256

(* debug_malloc: the first free slot of the pool.                          *)
FreshSlot(used) ==
    CHOOSE s \in 0..Cardinality(used) :
        s \notin used /\ \A r \in 0..(s - 1) : r \in used

(* Mutation: ids compared without masking bit 15, so tombstones are missed. *)
HitsUnmasked(list, b) == {k \in DOMAIN list : list[k].id = b /\ ~list[k].tomb}

Hits(list, b) == {k \in DOMAIN list : list[k].id = b}
FirstHit(list, b) ==
    CHOOSE k \in Hits(list, b) : \A j \in Hits(list, b) : k <= j

(* Mutation: the header of a new node is not counted.                      *)
SizeAfterUncounted(h, nd, g) ==
    IF Hits(h.list, nd.id) = {} THEN Int16(h.size + Payload(nd))
    ELSE Int16(h.size + Payload(nd)
               - (LengthByte(h.list[FirstHit(h.list, nd.id)], g) + 1))

(* The change of t_size: the old node is accounted for by the length byte  *)
(* found in it.                                                            *)
SizeAfter(h, nd, g) ==
    IF Hits(h.list, nd.id) = {}
    THEN Int16(h.size + Payload(nd) + NodeHeader)
    ELSE Int16(h.size + Payload(nd)
               - (LengthByte(h.list[FirstHit(h.list, nd.id)], g) + 1))

(* Mutation: the node replaced is not freed.                               *)
PoolAfterLeak(h, nd) == h.pool \cup {FreshSlot(h.pool)}

(* The new node is allocated before the old one is freed.                  *)
PoolAfter(h, nd) ==
    LET grown == h.pool \cup {FreshSlot(h.pool)}
    IN  IF Hits(h.list, nd.id) = {} THEN grown
        ELSE grown \ {h.list[FirstHit(h.list, nd.id)].slot}

(* The new node takes the place of the first node of its block, or goes to *)
(* the end of the list.                                                    *)
ListAfter(h, nd) ==
    LET new == [nd EXCEPT !.slot = FreshSlot(h.pool)]
    IN  IF Hits(h.list, nd.id) = {} THEN Append(h.list, new)
        ELSE [h.list EXCEPT ![FirstHit(h.list, nd.id)] = new]

(* update_delta_llist on the header and pool in h.                         *)
UpdateDeltaList(h, nd, g) ==
    [list |-> ListAfter(h, nd), size |-> SizeAfter(h, nd, g), pool |-> PoolAfter(h, nd)]

(* The slots of a list's nodes.                                            *)
SlotsOf(list) == {list[k].slot : k \in DOMAIN list}

Header(p) == [list |-> deltas[p], size |-> t_size[p], pool |-> pool]

-----------------------------------------------------------------------------
(* Contents *)

XOR(x, y) == (x \ y) \cup (y \ x)

(* decode_packed of `flips' over `orig' into a buffer that holds `old':    *)
(* the cells it does not reach keep what the buffer held.                  *)
DecodePacked(orig, flips, old) ==
    (XOR(orig, flips) \cap Reached[flips]) \cup (old \ Reached[flips])

(* What one node does to a decompressed page.                              *)
ApplyNode(nd, page) ==
    [page EXCEPT ![nd.id] =
        IF nd.tomb THEN {} ELSE DecodePacked(page[nd.id], nd.flips, page[nd.id])]

(* apply_delta over the whole list, in list order.                         *)
ApplyDeltas(list, page) ==
    LET after[k \in 0..Len(list)] ==
            IF k = 0 THEN page ELSE ApplyNode(list[k], after[k - 1])
    IN  after[Len(list)]

(* decompress_page_internal: the first n blocks of the base over `old'.    *)
DecompressInto(p, n, old) ==
    [b \in Blocks |-> IF b < n THEN base[p][b] ELSE old[b]]

(* What a complete read of the page returns.                               *)
PageReads(p) == ApplyDeltas(deltas[p], base[p])

(* delta_packed: 0 when the output does not fit (checked first), -1 when   *)
(* the blocks are equal, otherwise the size of the encoding.  A limit of 0 *)
(* is looked at only if bits are left over at the end.                     *)
WithinLimit(flips, lim) ==
    IF lim = 0 THEN flips \in Aligned ELSE PackedLen[flips] + 1 <= lim

DeltaPacked(flips, lim) ==
    IF ~WithinLimit(flips, lim) THEN 0
    ELSE IF flips = {} THEN -1 ELSE PackedLen[flips] + 1

Answer(op, p, b, code, src, in, out) ==
    [op |-> op, page |-> p, block |-> b, code |-> code,
     src |-> src, in |-> in, out |-> out]

-----------------------------------------------------------------------------
(* Operations *)

Init ==
    /\ status = [p \in Pages |-> "raw"]
    /\ base = [p \in Pages |-> Zero]
    /\ comp = [p \in Pages |-> 0]
    /\ t_size = [p \in Pages |-> 0]
    /\ deltas = [p \in Pages |-> <<>>]
    /\ pool = {}
    /\ ret = [op |-> "none"]

(* zapi_generate_page of `src' into the buffer p: nothing happens below    *)
(* the header's size, then the header is reset, and the stream of c bytes  *)
(* is added to it, or the compressor gives up (c = -1).                    *)
Compress(p, src, thres, c) ==
    IF thres < PageHeader
    THEN UNCHANGED <<status, base, comp, t_size, deltas>>
    ELSE /\ c = -1 \/ c + PageHeader <= thres
         /\ deltas' = [deltas EXCEPT ![p] = <<>>]
         /\ IF c = -1
            THEN /\ t_size' = [t_size EXCEPT ![p] = PageHeader]
                 /\ UNCHANGED <<status, base, comp>>
            ELSE /\ t_size' = [t_size EXCEPT ![p] = Int16(PageHeader + c)]
                 /\ status' = [status EXCEPT ![p] = "live"]
                 /\ base' = [base EXCEPT ![p] = src]
                 /\ comp' = [comp EXCEPT ![p] = c]

(* What zapi_generate_page returns.                                        *)
CompressCode(thres, c) ==
    IF thres < PageHeader \/ c = -1 THEN 0 ELSE Int16(PageHeader + c)

(* The caller generates only into a buffer that holds no page (zapi.h:79). *)
Generate(p, src, thres, c) ==
    /\ status[p] # "live"
    /\ Compress(p, src, thres, c)
    /\ ret' = Answer("generate", p, 0, CompressCode(thres, c), {}, src, src)
    /\ UNCHANGED pool

(* zapi_update_block: the new value is compared with the block of the      *)
(* base.  A delta that fits is put in the list and the buffer holds the    *)
(* base up to the block; an equal block changes nothing (code 1 too); a    *)
(* delta that does not fit leaves the whole base in the buffer (code 0).   *)
Update(p, b, v, lim, g, old) ==
    LET flips == XOR(v, base[p][b])
        d     == DeltaPacked(flips, lim)
        h     == UpdateDeltaList(Header(p), Node(0, b, FALSE, flips, d - 1), g)
        n     == IF d = 0 THEN NumBlocks ELSE b + 1
    IN  /\ status[p] = "live"
        /\ ret' = Answer("update", p, b, IF d = 0 THEN 0 ELSE 1,
                         v, old, DecompressInto(p, n, old))
        /\ IF d > 0
           THEN /\ h.size >= SizeFloor /\ Cardinality(h.pool) <= MaxNodes
                /\ deltas' = [deltas EXCEPT ![p] = h.list]
                /\ t_size' = [t_size EXCEPT ![p] = h.size]
                /\ pool' = h.pool
           ELSE UNCHANGED <<deltas, t_size, pool>>
        /\ UNCHANGED <<status, base, comp>>

(* Mutation: the block numbers run one ahead.                              *)
DeleteHeaderAhead(p, start, n, g) ==
    LET after[i \in 0..n] ==
            IF i = 0 THEN Header(p)
            ELSE UpdateDeltaList(after[i - 1],
                                 Node(0, start + i, TRUE, {}, 0), g[i])
    IN  after[n]

(* zapi_delete_block: a tombstone for each of the n blocks from `start'    *)
(* (zapi.h:119: they all lie in the page), g the stale bytes it may read.  *)
DeleteHeader(p, start, n, g) ==
    LET after[i \in 0..n] ==
            IF i = 0 THEN Header(p)
            ELSE UpdateDeltaList(after[i - 1],
                                 Node(0, start + i - 1, TRUE, {}, 0), g[i])
    IN  after[n]

Delete(p, start, n, g) ==
    LET h == DeleteHeader(p, start, n, g)
    IN  /\ status[p] = "live"
        /\ h.size >= SizeFloor /\ Cardinality(h.pool) <= MaxNodes
        /\ deltas' = [deltas EXCEPT ![p] = h.list]
        /\ t_size' = [t_size EXCEPT ![p] = h.size]
        /\ pool' = h.pool
        /\ ret' = Answer("delete", p, start, n, {}, Zero, Zero)
        /\ UNCHANGED <<status, base, comp>>

(* Mutation: the deltas are not applied.                                   *)
DecompressedBase(p, n, old) == DecompressInto(p, n, old)

(* zapi_decompress_page of the first n blocks: the deltas of every block   *)
(* of the page are applied, whatever n is.                                 *)
Decompressed(p, n, old) == ApplyDeltas(deltas[p], DecompressInto(p, n, old))

Decompress(p, n, old) ==
    /\ status[p] = "live"
    /\ ret' = Answer("decompress", p, n, 1, {}, old, Decompressed(p, n, old))
    /\ UNCHANGED <<status, base, comp, t_size, deltas, pool>>

(* Mutation: the delta is decoded over the return buffer.                  *)
BlockReadsOverOld(p, b, old) ==
    IF Hits(deltas[p], b) = {} THEN {base[p][b]}
    ELSE LET nd == deltas[p][FirstHit(deltas[p], b)]
         IN  IF nd.tomb THEN Content ELSE {DecodePacked(old[b], nd.flips, old[b])}

(* What zapi_apply_delta may give for the original of block b: the first   *)
(* node of the block is decoded into the caller's block.  A tombstone has  *)
(* nothing to decode: what is read behind it makes any block.              *)
BlockReads(p, b, old) ==
    IF Hits(deltas[p], b) = {} THEN {base[p][b]}
    ELSE LET nd == deltas[p][FirstHit(deltas[p], b)]
         IN  IF nd.tomb THEN Content ELSE {DecodePacked(base[p][b], nd.flips, old[b])}

(* zapi_apply_delta to the original of block b, which the caller kept from *)
(* when it generated the page.                                             *)
ApplyDelta(p, b, old) ==
    /\ status[p] = "live"
    /\ \E out \in BlockReads(p, b, old) :
           ret' = Answer("apply", p, b, 1, base[p][b], old, [old EXCEPT ![b] = out])
    /\ UNCHANGED <<status, base, comp, t_size, deltas, pool>>

(* zapi_pack_page: a page without deltas is left alone unless forced (-1); *)
(* otherwise what the page reads as is generated into q.  The old page     *)
(* stays as it is, its list included.                                      *)
Pack(p, q, thres, force, c) ==
    LET out == Decompressed(p, NumBlocks, Zero)
    IN  /\ status[p] = "live" /\ status[q] # "live"
        /\ IF deltas[p] = <<>> /\ ~force
           THEN /\ ret' = Answer("pack", p, 0, -1, {}, Zero, Zero)
                /\ UNCHANGED <<status, base, comp, t_size, deltas>>
           ELSE /\ Compress(q, out, thres, c)
                /\ ret' = Answer("pack", p, 0, CompressCode(thres, c), {}, Zero, out)
        /\ UNCHANGED pool

(* Mutation: only the first node of the list is freed.                     *)
FreeHeadOnly(p) ==
    /\ status[p] = "live"
    /\ pool' = IF deltas[p] = <<>> THEN pool ELSE pool \ {deltas[p][1].slot}
    /\ status' = [status EXCEPT ![p] = "raw"]
    /\ base' = [base EXCEPT ![p] = Zero]
    /\ comp' = [comp EXCEPT ![p] = 0]
    /\ t_size' = [t_size EXCEPT ![p] = 0]
    /\ deltas' = [deltas EXCEPT ![p] = <<>>]
    /\ ret' = Answer("free", p, 0, 1, {}, Zero, Zero)

(* zapi_free_page, and the caller's free of the buffer that follows it     *)
(* (zapi.h:78-79): every node of the list is freed, and with the buffer go *)
(* the header, which still pointed at the first of them, and the stream.   *)
Free(p) ==
    /\ status[p] = "live"
    /\ pool' = pool \ SlotsOf(deltas[p])
    /\ status' = [status EXCEPT ![p] = "raw"]
    /\ base' = [base EXCEPT ![p] = Zero]
    /\ comp' = [comp EXCEPT ![p] = 0]
    /\ t_size' = [t_size EXCEPT ![p] = 0]
    /\ deltas' = [deltas EXCEPT ![p] = <<>>]
    /\ ret' = Answer("free", p, 0, 1, {}, Zero, Zero)

Next ==
    \E p \in Pages :
        \/ \E src \in Sources, thres \in Thresholds, c \in CompSizes \cup {-1} :
               Generate(p, src, thres, c)
        \/ \E b \in Blocks, v \in Content, lim \in DeltaThres,
              g \in StaleBytes, old \in OldBuffers :
               Update(p, b, v, lim, g, old)
        \/ \E start \in Blocks : \E n \in 1..(NumBlocks - start) :
               \E g \in [1..n -> StaleBytes] : Delete(p, start, n, g)
        \/ \E n \in 0..NumBlocks, old \in OldBuffers : Decompress(p, n, old)
        \/ \E b \in Blocks, old \in OldBuffers : ApplyDelta(p, b, old)
        \/ \E q \in Pages, thres \in Thresholds, force \in BOOLEAN,
              c \in CompSizes \cup {-1} :
               Pack(p, q, thres, force, c)
        \/ Free(p)

Spec == Init /\ [][Next]_vars

-----------------------------------------------------------------------------
(* Properties *)

DeltaNodes == [slot : Nat, id : Blocks, tomb : BOOLEAN, flips : Content, bytes : Nat]

(* Every variable has its type: in particular t_size stays a short and     *)
(* every node in a list names a block of the page.                         *)
TypeOK ==
    /\ status \in [Pages -> {"raw", "live"}]
    /\ base \in [Pages -> PageContent]
    /\ comp \in [Pages -> Nat]
    /\ t_size \in [Pages -> Shorts]
    /\ deltas \in [Pages -> Seq(DeltaNodes)]
    /\ IsFiniteSet(pool) /\ pool \subseteq Nat

Live == {p \in Pages : status[p] = "live"}

(* Memory discipline of update_delta_llist and zapi_free_page: the slots   *)
(* in use are those of the live pages' nodes (nothing leaks, nothing freed *)
(* is still linked), and no two nodes share one.                           *)
PoolIsOwned ==
    /\ pool = UNION {SlotsOf(deltas[p]) : p \in Live}
    /\ \A p, q \in Live : \A j \in DOMAIN deltas[p], k \in DOMAIN deltas[q] :
           deltas[p][j].slot = deltas[q][k].slot => p = q /\ j = k

(* A page never holds two deltas for one block: a later update or delete   *)
(* takes the place of the earlier one.  apply_delta would otherwise XOR    *)
(* both into the block, zapi_apply_delta only the first.                   *)
OneDeltaPerBlock ==
    \A p \in Pages : \A j, k \in DOMAIN deltas[p] :
        deltas[p][j].id = deltas[p][k].id => j = k

(* The bytes of a list's delta nodes.                                      *)
ListBytes(list) ==
    LET upto[k \in 0..Len(list)] ==
            IF k = 0 THEN 0 ELSE upto[k - 1] + NodeHeader + Payload(list[k])
    IN  upto[Len(list)]

(* What a live page occupies: header, stream and delta nodes.              *)
OccupiedBytes(p) == PageHeader + comp[p] + ListBytes(deltas[p])

(* zapi_page_size never says more than the page occupies.                  *)
SizeNeverOverstated == \A p \in Live : t_size[p] <= OccupiedBytes(p)

Tombstones(p) == {k \in DOMAIN deltas[p] : deltas[p][k].tomb}

(* Replacing a node that holds data keeps t_size in step with what the     *)
(* page occupies; only a call that replaces a tombstone makes t_size lose  *)
(* bytes, and then 1 to 256 for each tombstone replaced.                   *)
SizeDriftsOnlyAtTombstones ==
    [][\A p \in Live : status'[p] = "live" =>
         LET replaced == Cardinality({k \in Tombstones(p) :
                              deltas'[p][k].slot # deltas[p][k].slot})
             lost == (OccupiedBytes(p)' - OccupiedBytes(p)) - (t_size'[p] - t_size[p])
         IN  lost \in replaced..(256 * replaced)]_vars

(* The two ways of reading agree: zapi_apply_delta on the original of a    *)
(* block gives what a read of the page gives, unless the block is deleted. *)
ReadsAgree ==
    ret.op = "apply" =>
        LET p == ret.page
            b == ret.block
        IN  (\A k \in Tombstones(p) : deltas[p][k].id # b)
                => ret.out[b] = PageReads(p)[b]

(* The documented answer of a successful update (zapi.h:82-87): the block  *)
(* reads as the new value.                                                 *)
UpdateReadsBack ==
    ret.op = "update" /\ ret.code = 1 =>
        PageReads(ret.page)[ret.block] = ret.src

(* The page store a user of zapi.h sees (PageStore): a read of the base    *)
(* with the deltas applied is the content.                                 *)
Seen(p, x) == IF status[p] = "live" THEN x ELSE Zero

UsableBar == [p \in Pages |-> status[p] = "live"]
ContentBar == [p \in Pages |-> Seen(p, PageReads(p))]
OrigBar == [p \in Pages |-> Seen(p, base[p])]

Store == INSTANCE PageStore WITH
    usable <- UsableBar, content <- ContentBar, orig <- OrigBar

StoreSpec == Store!Spec
=============================================================================
