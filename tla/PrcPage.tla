------------------------------- MODULE PrcPage -------------------------------
(***************************************************************************)
(* The page engine of src/src/prc/zapi_prc.c: as ZapiPage, but an update   *)
(* without a delta and every deletion recompress the page from the block   *)
(* they change into another buffer, behind a copy of the stream before it, *)
(* and hand the page's delta list over.                                    *)
(*                                                                         *)
(* Abstractions.  As in ZapiPage a block is the set of its cells that are  *)
(* not zero, a delta the cells that differ, with the length of its code    *)
(* (PackedLen) and the cells its decoder gets to (Reached), and a node is  *)
(* known by its slot in the pool.  The stream is kept block by block: LZ4  *)
(* writes a block out (Literal) or refers to an equal block of its         *)
(* dictionary (Copy), and may do either.                                   *)
(***************************************************************************)
EXTENDS Integers, FiniteSetsExt, SequencesExt, PartialSums

CONSTANTS
    Pages,        \* page buffers the caller owns
    NumBlocks,    \* p_opts->blocks
    PrcThres,     \* p_opts->prc_thres: deltas are for blocks before it
    Cells,        \* the cells of a block
    Sources,      \* pages the caller compresses
    Thresholds,   \* `thres' and `comp_thres'
    DeltaThres,   \* `delta_thres' of update
    PackedLen,    \* bytes delta_packed writes for an XOR block, length byte excluded
    Aligned,      \* the XOR blocks of which it writes whole bytes, with no bit left over
    Reached,      \* the cells decode_packed writes when it decodes that output
    LiteralSize,  \* bytes LZ4 writes for a block that it spells out
    CopySize,     \* and for one that it copies from its dictionary
    MaxNodes      \* bound: no update leaves more delta nodes in use

Blocks == 0..(NumBlocks - 1)
Content == SUBSET Cells
PageContent == [Blocks -> Content]
Zero == [b \in Blocks |-> {}]

(* What a C short can hold.                                                *)
MinShort == -32768
MaxShort == 32767
Shorts == MinShort..MaxShort

ASSUME PrcPageAssumption ==
    /\ NumBlocks \in 1..MaxShort
    /\ PrcThres \in 0..NumBlocks
    /\ Sources \subseteq PageContent
    /\ Thresholds \subseteq Nat
    /\ DeltaThres \subseteq Nat
    /\ PackedLen \in [Content -> 0..255]
    /\ Aligned \subseteq Content
    /\ Reached \in [Content -> SUBSET Cells]
    /\ LiteralSize \in Nat \ {0} /\ CopySize \in Nat \ {0}
    /\ MaxNodes \in Nat

PageHeader == 16   \* sizeof(zapi_page_header)
NodeHeader == 10   \* sizeof(zapi_delta_block)

Int16(x) == ((x + 32768) % 65536) - 32768

VARIABLES
    status,   \* per buffer: "raw"; "live", a page; "moved", a page whose list went
              \* elsewhere; "torn", what a failed compression leaves
    stream,   \* per buffer and block: its encoding
    t_size,   \* zapi_page_header.t_size
    deltas,   \* the list at zapi_page_header.delta_head
    pool,     \* the slots of mem_pool_arr in use
    ret       \* the last call (see PrcStore)

vars == <<status, stream, t_size, deltas, pool, ret>>

-----------------------------------------------------------------------------
(* Streams *)

NoCopy == -1
Literal(v) == [val |-> v, from |-> NoCopy]
Copy(j) == [val |-> {}, from |-> j]
EncodingType == [val : Content, from : {NoCopy} \cup Blocks]

EncodedSize(e) == IF e.from = NoCopy THEN LiteralSize ELSE CopySize

(* The bytes of the blocks in S.                                           *)
StreamSize(s, S) ==
    SumUpTo(NumBlocks,
            [n \in 1..NumBlocks |-> IF n - 1 \in S THEN EncodedSize(s[n - 1]) ELSE 0])

(* compress_page_internal on data[first..]: each block is spelled out, or  *)
(* copied from the last equal one before it in what the compressor is      *)
(* given, the blocks before `first' (its dictionary) included.             *)
Equals(data, b) == {j \in 0..(b - 1) : data[j] = data[b]}

Encodings(data, first) ==
    LET tail == first..(NumBlocks - 1)
    IN  {[b \in tail |-> IF b \in copied THEN Copy(Max(Equals(data, b)))
                         ELSE Literal(data[b])] :
            copied \in SUBSET {b \in tail : Equals(data, b) # {}}}

(* The compressor gives up: no block is encoded.                           *)
Refused == <<>>

(* decompress_page_internal: a copy takes what the decoder has made of the *)
(* block it names.                                                         *)
Decoded(s) ==
    LET block[b \in Blocks] ==
            IF s[b].from = NoCopy THEN s[b].val ELSE block[s[b].from]
    IN  [b \in Blocks |-> block[b]]

Base(p) == Decoded(stream[p])
DecompressInto(p, n) == [b \in Blocks |-> IF b < n THEN Base(p)[b] ELSE {}]

-----------------------------------------------------------------------------
(* Delta nodes *)

XOR(x, y) == (x \ y) \cup (y \ x)

(* Mutation: the id stored is one ahead.                                   *)
NodeAhead(slot, b, flips) == [slot |-> slot, id |-> b + 1, flips |-> flips]

Node(slot, b, flips) == [slot |-> slot, id |-> b, flips |-> flips]

(* The length byte and what it counts.                                     *)
Payload(nd) == PackedLen[nd.flips] + 1

(* The bytes of a list of nodes.                                           *)
ListBytes(list) ==
    SumUpTo(Len(list), [k \in DOMAIN list |-> Payload(list[k]) + NodeHeader])

FreshSlot(used) == Min(0..Cardinality(used) \ used)

SlotsOf(list) == {list[k].slot : k \in DOMAIN list}

(* Mutation: an older delta of the block is not looked for.                *)
HitsNone(list, b) == {}

Hits(list, b) == {k \in DOMAIN list : list[k].id = b}

(* update_delta_llist: the new node takes the place of the one of its      *)
(* block, or goes to the end.                                              *)
UpdateDeltaList(p, b, flips) ==
    LET new == Node(FreshSlot(pool), b, flips)
        hit == Hits(deltas[p], b)
        old == deltas[p][Min(hit)]
    IN  /\ hit # {} \/ Cardinality(pool) < MaxNodes
        /\ IF hit = {}
           THEN /\ deltas' = [deltas EXCEPT ![p] = Append(@, new)]
                /\ t_size' = [t_size EXCEPT ![p] = Int16(@ + Payload(new) + NodeHeader)]
                /\ pool' = pool \cup {new.slot}
           ELSE /\ deltas' = [deltas EXCEPT ![p][Min(hit)] = new]
                /\ t_size' = [t_size EXCEPT ![p] = Int16(@ + Payload(new) - Payload(old))]
                /\ pool' = (pool \cup {new.slot}) \ {old.slot}

(* decode_packed of `flips' over `orig' into a buffer that holds `old',    *)
(* whose cells stay where the decoder does not get to.                     *)
DecodePacked(orig, flips, old) ==
    (XOR(orig, flips) \cap Reached[flips]) \cup (old \ Reached[flips])

(* apply_delta of the nodes whose block is in S, each in place.            *)
ApplyNode(nd, S, page) ==
    IF nd.id \in S THEN [page EXCEPT ![nd.id] = DecodePacked(@, nd.flips, @)] ELSE page

ApplyDeltas(list, S, page) ==
    LET after[k \in 0..Len(list)] ==
            IF k = 0 THEN page ELSE ApplyNode(list[k], S, after[k - 1])
    IN  after[Len(list)]

From(b) == b..(NumBlocks - 1)
Before(b) == 0..(b - 1)

PageReads(p) == ApplyDeltas(deltas[p], Blocks, Base(p))

(* delta_packed: 0 when the output does not fit, -1 when nothing changed.  *)
(* A limit of 0 is looked at only if bits are left over at the end.        *)
WithinLimit(flips, lim) ==
    IF lim = 0 THEN flips \in Aligned ELSE PackedLen[flips] + 1 <= lim

DeltaPacked(flips, lim) ==
    IF ~WithinLimit(flips, lim) THEN 0
    ELSE IF flips = {} THEN -1 ELSE PackedLen[flips] + 1

Answer(op, p, q, b, n, code, src, out) ==
    [op |-> op, page |-> p, new |-> q, block |-> b, n |-> n, code |-> code,
     src |-> src, out |-> out, size |-> 0, over |-> 0]

-----------------------------------------------------------------------------
(* Compression *)

Fits(enc, head, thres) ==
    /\ enc # Refused
    /\ PageHeader + head + StreamSize(enc, DOMAIN enc) <= thres

NewSize(enc, head) == Int16(PageHeader + head + StreamSize(enc, DOMAIN enc))

(* zapi_generate_page of data into q: nothing below the header's size.     *)
Compress(q, enc, thres) ==
    IF thres < PageHeader
    THEN UNCHANGED <<status, stream, t_size, deltas>>
    ELSE /\ deltas' = [deltas EXCEPT ![q] = <<>>]
         /\ IF Fits(enc, 0, thres)
            THEN /\ status' = [status EXCEPT ![q] = "live"]
                 /\ stream' = [stream EXCEPT ![q] = enc]
                 /\ t_size' = [t_size EXCEPT ![q] = NewSize(enc, 0)]
            ELSE /\ status' = [status EXCEPT ![q] = "torn"]
                 /\ t_size' = [t_size EXCEPT ![q] = PageHeader]
                 /\ UNCHANGED stream

CompressCode(enc, thres) == IF Fits(enc, 0, thres) THEN NewSize(enc, 0) ELSE 0

HeadSize(p, first) == StreamSize(stream[p], Before(first))

(* The nodes of blocks before `first', in their order.                     *)
Kept(p, first) ==
    LET kept[k \in 0..Len(deltas[p])] ==
            IF k = 0 THEN <<>>
            ELSE IF deltas[p][k].id < first THEN Append(kept[k - 1], deltas[p][k])
            ELSE kept[k - 1]
    IN  kept[Len(deltas[p])]

(* Mutation: the length byte is not counted.                               *)
KeptBytesShort(p, first) == ListBytes(Kept(p, first)) - Len(Kept(p, first))

KeptBytes(p, first) == ListBytes(Kept(p, first))

(* Mutation: the old page still points at the list.                        *)
MoveDeltasShared(p, q, first, size) ==
    /\ pool' = pool \ (SlotsOf(deltas[p]) \ SlotsOf(Kept(p, first)))
    /\ deltas' = [deltas EXCEPT ![p] = Kept(p, first), ![q] = Kept(p, first)]
    /\ t_size' = [t_size EXCEPT ![q] = Int16(size + KeptBytes(p, first))]

(* move_deltas: the nodes from block `first' on are freed, the others are  *)
(* counted in the new page, which gets the list.                           *)
MoveDeltas(p, q, first, size) ==
    /\ pool' = pool \ (SlotsOf(deltas[p]) \ SlotsOf(Kept(p, first)))
    /\ deltas' = [deltas EXCEPT ![p] = <<>>, ![q] = Kept(p, first)]
    /\ t_size' = [t_size EXCEPT ![q] = Int16(size + KeptBytes(p, first))]

(* partial_recompression of p into q from block `first' on: the stream     *)
(* before it is copied, whether it fits or not, then the rest is           *)
(* compressed into what is left of the budget.                             *)
Recompress(p, q, first, enc, thres) ==
    IF Fits(enc, HeadSize(p, first), thres)
    THEN /\ status' = [status EXCEPT ![p] = "moved", ![q] = "live"]
         /\ stream' = [stream EXCEPT ![q] =
                [b \in Blocks |-> IF b < first THEN stream[p][b] ELSE enc[b]]]
         /\ MoveDeltas(p, q, first, NewSize(enc, HeadSize(p, first)))
    ELSE /\ status' = [status EXCEPT ![q] = "torn"]
         /\ t_size' = [t_size EXCEPT ![q] = Int16(PageHeader + HeadSize(p, first))]
         /\ UNCHANGED <<stream, deltas, pool>>

(* Mutation: the size is taken after move_deltas.                          *)
RecompressCodeLate(p, first, enc, thres) ==
    IF Fits(enc, HeadSize(p, first), thres)
    THEN Int16(NewSize(enc, HeadSize(p, first)) + KeptBytes(p, first)) ELSE 0

(* What partial_recompression returns: the size before move_deltas.        *)
RecompressCode(p, first, enc, thres) ==
    IF Fits(enc, HeadSize(p, first), thres) THEN NewSize(enc, HeadSize(p, first)) ELSE 0

(* How many bytes are written behind a new buffer of `thres' bytes (or of  *)
(* the header's size, if that is more).                                    *)
RecompressOver(p, first, thres) ==
    Max({0, PageHeader + HeadSize(p, first) - Max({thres, PageHeader})})

-----------------------------------------------------------------------------
(* Operations *)

Empty == [b \in Blocks |-> Literal({})]

Init ==
    /\ status = [p \in Pages |-> "raw"]
    /\ stream = [p \in Pages |-> Empty]
    /\ t_size = [p \in Pages |-> 0]
    /\ deltas = [p \in Pages |-> <<>>]
    /\ pool = {}
    /\ ret = [op |-> "none"]

(* The buffers that hold a page.                                           *)
Live == {p \in Pages : status[p] = "live"}

(* The client writes a page only into a buffer that holds none, and frees  *)
(* a page before it uses its buffer again (zapi_prc.h:68-75).              *)
Writable(q) == status[q] \in {"raw", "torn"}

(* zapi_generate_page.                                                     *)
Generate(p, src, enc, thres) ==
    /\ Writable(p)
    /\ Compress(p, enc, thres)
    /\ ret' = Answer("generate", p, p, 0, 0, CompressCode(enc, thres), {}, src)
    /\ UNCHANGED pool

(* zapi_update_block as far as the delta: it is tried for blocks before    *)
(* prc_thres, or for all if there is no recompression, and compared with   *)
(* the block of the base.                                                  *)
DeltaTried(b, disable) == b < PrcThres \/ disable
DeltaSize(p, b, v, lim) == DeltaPacked(XOR(v, Base(p)[b]), lim)

UpdateDelta(p, b, v, lim, disable) ==
    LET d == DeltaSize(p, b, v, lim)
    IN  /\ status[p] = "live"
        /\ DeltaTried(b, disable) /\ d # 0
        /\ IF d > 0 THEN UpdateDeltaList(p, b, XOR(v, Base(p)[b]))
           ELSE UNCHANGED <<t_size, deltas, pool>>
        /\ ret' = Answer("update", p, p, b, 0, IF d > 0 THEN 0 ELSE 1, v,
                         DecompressInto(p, b + 1))
        /\ UNCHANGED <<status, stream>>

(* The page as it is recompressed: from the block on, deltas and new value *)
(* are in it; before the block, the bare base is.                          *)
UpdatedTail(p, b, v) == [ApplyDeltas(deltas[p], From(b), Base(p)) EXCEPT ![b] = v]

(* Mutation: the deltas before the block are not added at the end.         *)
UpdatedPageTailOnly(p, b, v) == UpdatedTail(p, b, v)

(* The deltas before the block are added when no new page came about.      *)
UpdatedPage(p, b, v) == ApplyDeltas(deltas[p], Before(b), UpdatedTail(p, b, v))

(* The rest of zapi_update_block without recompression: the client gets    *)
(* the page with the change in it.                                         *)
UpdateScratch(p, b, v, lim) ==
    /\ status[p] = "live"
    /\ DeltaSize(p, b, v, lim) = 0
    /\ ret' = Answer("update", p, p, b, 0, 3, v, UpdatedPage(p, b, v))
    /\ UNCHANGED <<status, stream, t_size, deltas, pool>>

(* And with it: a new page in q, or as above.                              *)
UpdateRecompress(p, q, b, v, lim, enc, thres) ==
    LET code == RecompressCode(p, b, enc, thres)
        out  == IF code = 0 THEN UpdatedPage(p, b, v) ELSE UpdatedTail(p, b, v)
    IN  /\ status[p] = "live" /\ Writable(q)
        /\ ~DeltaTried(b, FALSE) \/ DeltaSize(p, b, v, lim) = 0
        /\ Recompress(p, q, b, enc, thres)
        /\ ret' = [Answer("update", p, q, b, 0, IF code = 0 THEN 3 ELSE 2, v, out)
                      EXCEPT !.size = code, !.over = RecompressOver(p, b, thres)]

(* zapi_delete_block: what it recompresses has every delta applied.        *)
DeletedPage(p, first, n) ==
    [b \in Blocks |-> IF b \in first..(first + n - 1) THEN {} ELSE PageReads(p)[b]]

Delete(p, q, first, n, enc, thres) ==
    /\ status[p] = "live" /\ Writable(q)
    /\ Recompress(p, q, first, enc, thres)
    /\ ret' = [Answer("delete", p, q, first, n, RecompressCode(p, first, enc, thres),
                      {}, DeletedPage(p, first, n))
                  EXCEPT !.over = RecompressOver(p, first, thres)]

(* zapi_decompress_page of the first n blocks.                             *)
Decompress(p, n) ==
    /\ status[p] = "live"
    /\ ret' = Answer("decompress", p, p, 0, n, 1, {},
                     ApplyDeltas(deltas[p], Blocks, DecompressInto(p, n)))
    /\ UNCHANGED <<status, stream, t_size, deltas, pool>>

(* zapi_apply_delta to what the stream holds for block b, into a buffer    *)
(* that holds `old': the first node of the block counts.                   *)
ApplyDelta(p, b, old) ==
    LET hit == Hits(deltas[p], b)
        out == IF hit = {} THEN Base(p)[b]
               ELSE DecodePacked(Base(p)[b], deltas[p][Min(hit)].flips, old)
    IN  /\ status[p] = "live"
        /\ ret' = Answer("apply", p, p, b, 0, 1, Base(p)[b], [Zero EXCEPT ![b] = out])
        /\ UNCHANGED <<status, stream, t_size, deltas, pool>>

(* zapi_pack_page: a page without deltas is left alone unless forced.      *)
Pack(p, q, force, enc, thres) ==
    /\ status[p] = "live" /\ Writable(q)
    /\ IF deltas[p] = <<>> /\ ~force
       THEN /\ ret' = Answer("pack", p, q, 0, 0, -1, {}, Zero)
            /\ UNCHANGED <<status, stream, t_size, deltas>>
       ELSE /\ Compress(q, enc, thres)
            /\ ret' = Answer("pack", p, q, 0, 0, CompressCode(enc, thres), {}, PageReads(p))
    /\ UNCHANGED pool

(* zapi_free_page, and the client's free of the buffer behind it.          *)
Free(p) ==
    /\ status[p] \in {"live", "moved"}
    /\ status' = [status EXCEPT ![p] = "raw"]
    /\ stream' = [stream EXCEPT ![p] = Empty]
    /\ t_size' = [t_size EXCEPT ![p] = 0]
    /\ deltas' = [deltas EXCEPT ![p] = <<>>]
    /\ pool' = pool \ SlotsOf(deltas[p])
    /\ ret' = Answer("free", p, p, 0, 0, 1, {}, Zero)

(* What the compressor may make of data from block `first' on.             *)
Attempts(data, first) == Encodings(data, first) \cup {Refused}

Next ==
    \/ \E p \in Pages :
          \/ \E src \in Sources, thres \in Thresholds : \E enc \in Attempts(src, 0) :
                Generate(p, src, enc, thres)
          \/ Free(p)
    \/ \E p \in Live :
          \/ \E b \in Blocks, v \in Content, lim \in DeltaThres :
                \/ \E disable \in BOOLEAN : UpdateDelta(p, b, v, lim, disable)
                \/ UpdateScratch(p, b, v, lim)
          \/ \E n \in 1..NumBlocks : Decompress(p, n)
          \/ \E b \in Blocks, old \in Content : ApplyDelta(p, b, old)
    \/ \E p \in Live, q \in Pages \ Live, thres \in Thresholds :
          \/ \E b \in Blocks, v \in Content, lim \in DeltaThres :
                \E enc \in Attempts(UpdatedTail(p, b, v), b) :
                   UpdateRecompress(p, q, b, v, lim, enc, thres)
          \/ \E first \in Blocks : \E n \in 1..(NumBlocks - first) :
                \E enc \in Attempts(DeletedPage(p, first, n), first) :
                   Delete(p, q, first, n, enc, thres)
          \/ \E force \in BOOLEAN : \E enc \in Attempts(PageReads(p), 0) :
                Pack(p, q, force, enc, thres)

Spec == Init /\ [][Next]_vars

-----------------------------------------------------------------------------
(* Properties *)

(* Every variable has its type, and a copy refers to an earlier block.     *)
TypeOK ==
    /\ status \in [Pages -> {"raw", "live", "moved", "torn"}]
    /\ stream \in [Pages -> [Blocks -> EncodingType]]
    /\ \A p \in Pages, b \in Blocks : stream[p][b].from < b
    /\ t_size \in [Pages -> Shorts]
    /\ deltas \in [Pages -> Seq([slot : Nat, id : Blocks, flips : Content])]
    /\ IsFiniteSet(pool) /\ pool \subseteq Nat

(* move_deltas and update_delta_llist keep every node in one list: the     *)
(* slots in use are those of the live pages' nodes, no two share one, a    *)
(* page that was recompressed elsewhere keeps none and a buffer that holds *)
(* no page has none.                                                       *)
PoolIsOwned ==
    /\ pool = UNION {SlotsOf(deltas[p]) : p \in Live}
    /\ \A p, q \in Pages : \A j \in DOMAIN deltas[p], k \in DOMAIN deltas[q] :
           deltas[p][j].slot = deltas[q][k].slot => p = q /\ j = k

(* A list never holds two deltas for one block: apply_delta would XOR both *)
(* into it, zapi_apply_delta only the first.                               *)
OneDeltaPerBlock ==
    \A p \in Pages : \A j, k \in DOMAIN deltas[p] :
        deltas[p][j].id = deltas[p][k].id => j = k

OccupiedBytes(p) == PageHeader + StreamSize(stream[p], Blocks) + ListBytes(deltas[p])

(* zapi_page_size is what a page occupies (zapi_prc.h:24), also after its  *)
(* nodes were counted anew in another page.                                *)
SizeIsExact == \A p \in Live : t_size[p] = OccupiedBytes(p)

(* What a call answers as the new page's size is what the client must copy *)
(* out of the new buffer (header and stream, without the nodes that moved  *)
(* with it), and never 0 for a page that is there.                         *)
AnswerIsBufferSize ==
    LET size == IF ret.op = "update" THEN ret.size ELSE ret.code
    IN  ret.op \in {"update", "delete"} /\ ret.new # ret.page =>
            IF status[ret.new] = "live"
            THEN size = PageHeader + StreamSize(stream[ret.new], Blocks)
            ELSE size = 0

(* The page store a user of zapi_prc.h sees: the four answers of an update *)
(* and what each leaves behind, a failed recompression that leaves the old *)
(* page whole, the cleared page a deletion hands back.                     *)
Seen(p, x) == IF status[p] = "live" THEN x ELSE Zero

UsableBar == [p \in Pages |-> status[p] = "live"]
ContentBar == [p \in Pages |-> Seen(p, PageReads(p))]
OrigBar == [p \in Pages |-> Seen(p, Base(p))]

Store == INSTANCE PrcStore WITH
    usable <- UsableBar, content <- ContentBar, orig <- OrigBar

StoreSpec == Store!Spec

(* zapi_prc.h:111-112: the deletion sets the blocks to zero and recompresses *)
(* the page, so the new page reads as what the call left in scratch.       *)
DeletionReadsBack ==
    ret.op = "delete" /\ ret.code > 0 => PageReads(ret.new) = ret.out

(* zapi_prc.h:101-103, 117: a new page's buffer of comp_thres (thres)      *)
(* bytes is large enough.                                                  *)
StaysInBuffer == ret.op \in {"update", "delete"} => ret.over = 0
=============================================================================
