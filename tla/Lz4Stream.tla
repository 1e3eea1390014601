------------------------------ MODULE Lz4Stream ------------------------------
(***************************************************************************)
(* The streaming LZ4 of src/src/lz4_lib/lz4.c the way the page engines     *)
(* call it: a page is compressed block by block into one stream, its tail  *)
(* can be compressed again behind a dictionary (LZ4_loadDict), and it is   *)
(* decoded without knowing how long a block's encoding is                  *)
(* (LZ4_decompress_safe_continue_unkown_size, added to the library).       *)
(*                                                                         *)
(* Positions count from the start of the page, whose blocks lie one after  *)
(* the other; the hash table holds positions plus `shift'.  A stream is    *)
(* kept as its sequences (literals, then a match), and bytes are counted.  *)
(* The window of 64 KB is a parameter, to bring its end into reach.        *)
(***************************************************************************)
EXTENDS Integers, FiniteSetsExt, SequencesExt

CONSTANTS
    Pages,        \* pages: sequences of blocks of the same length
    Values,       \* new values of a block
    Budgets,      \* bytes there are for the stream
    HashWeights,  \* stand for LZ4_hash5: any function of five bytes will do
    HashSize,     \* buckets of the table
    Window,       \* 64 KB
    Capacity,     \* bytes a block is decoded into (512 in the page engines)
    MaxEdits      \* bound: recompressions

ASSUME Lz4Assumption ==
    /\ \A pg \in Pages : /\ pg \in Seq(Seq(Nat)) /\ pg # <<>>
                         /\ \A b \in DOMAIN pg : Len(pg[b]) = Len(pg[1])
    /\ Values \subseteq Seq(Nat)
    /\ HashWeights \subseteq [1..5 -> Nat]
    /\ Budgets \subseteq Nat
    /\ HashSize \in Nat \ {0}
    /\ Window \in Nat \ (0..15)
    /\ Capacity \in Nat \ {0}
    /\ MaxEdits \in Nat

MinMatch == 4
LastLiterals == 5
MFLimit == 12
WildCopyLength == 8
HashUnit == 8
SkipUnit == 64   \* 1 << LZ4_skipTrigger
DistanceMax == Window - 1

VARIABLES
    page,     \* what is being, or was last, compressed
    budget,   \* `thres' of the last compression, the header excluded
    weights,  \* the hash function
    edits,    \* recompressions so far
    stream,   \* the blocks encoded so far
    ends,     \* where in the stream each of them ends
    enc,      \* LZ4_compress_generic_validated
    table,    \* LZ4_stream_t.hashTable
    cctx,     \* its dictSize and currentOffset
    dec       \* decompress_page_internal

vars == <<page, budget, weights, edits, stream, ends, enc, table, cctx, dec>>

BlockSz == Len(page[1])
NumBlocks == Len(page)
PageBytes == BlockSz * NumBlocks
Byte(p) == page[(p \div BlockSz) + 1][(p % BlockSz) + 1]
Bytes(p, n) == [i \in 1..n |-> Byte(p + i - 1)]

-----------------------------------------------------------------------------
(* Sequences *)

(* Bytes after the token for a length of n: none below 15, then 255 each.  *)
Extra(n) == IF n < 15 THEN 0 ELSE (n - 15) \div 255 + 1

Sequence(lits, off, len) == [lits |-> lits, off |-> off, len |-> len]
LiteralRun(lits) == Sequence(lits, 0, 0)

LiteralSize(n) == 1 + Extra(n) + n
MatchSize(n) == 2 + Extra(n - MinMatch)
SequenceSize(sq) ==
    LiteralSize(Len(sq.lits)) + (IF sq.len = 0 THEN 0 ELSE MatchSize(sq.len))

(* LZ4_wildCopy8 writes whole words, and one at least.                     *)
WildCopy(n) == IF n = 0 THEN 8 ELSE 8 * ((n + 7) \div 8)

-----------------------------------------------------------------------------
(* The hash table *)

HashPosition(p) ==
    (weights[1] * Byte(p) + weights[2] * Byte(p + 1) + weights[3] * Byte(p + 2)
        + weights[4] * Byte(p + 3) + weights[5] * Byte(p + 4)) % HashSize

(* The block being compressed is block enc.blk; `base' is where index 0 is. *)
Source == enc.blk * BlockSz
StartIndex == cctx.currentOffset
Index(p) == StartIndex + (p - Source)
Position(index) == Source + (index - StartIndex)
(* Mutation: the position behind it is stored.                             *)
PutAhead(t, p) == [t EXCEPT ![HashPosition(p)] = Index(p) + 1]

Put(t, p) == [t EXCEPT ![HashPosition(p)] = Index(p)]
Empty == [h \in 0..(HashSize - 1) |-> 0]

(* dictSmall: an index before prefixIdxLimit is outside the dictionary.    *)
DictSmall == cctx.dictSize < Window /\ cctx.dictSize < cctx.currentOffset
PrefixIdxLimit == StartIndex - cctx.dictSize
LowLimit == Source - cctx.dictSize

(* A candidate for position p that LZ4 accepts.                            *)
(* Mutation: however far back it is.                                       *)
UsableAnyDistance(index, p) ==
    /\ DictSmall => index >= PrefixIdxLimit
    /\ Bytes(Position(index), MinMatch) = Bytes(p, MinMatch)

(* Mutation: an equal hash is taken for equal bytes.                       *)
UsableUnchecked(index, p) ==
    /\ DictSmall => index >= PrefixIdxLimit
    /\ index + DistanceMax >= Index(p)

Usable(index, p) ==
    /\ DictSmall => index >= PrefixIdxLimit
    /\ index + DistanceMax >= Index(p)
    /\ Bytes(Position(index), MinMatch) = Bytes(p, MinMatch)

-----------------------------------------------------------------------------
(* Compression of a page or of its tail *)

(* LZ4_loadDict of the n bytes before the tail: every third position of    *)
(* the last 64 KB goes into the table.                                     *)
LoadDict(n) ==
    LET size == IF n < HashUnit THEN 0 ELSE Min({n, Window})
        hashed == {p \in (n - size)..(n - HashUnit) : (p - (n - size)) % 3 = 0}
    IN  /\ cctx' = [dictSize |-> size, currentOffset |-> Window]
        /\ table' = [h \in DOMAIN Empty |->
                        Max({0} \cup {p + Window - n : p \in {q \in hashed : HashPosition(q) = h}})]

(* createStream: nothing before the page.                                  *)
InitStream ==
    /\ cctx' = [dictSize |-> 0, currentOffset |-> 0]
    /\ table' = Empty

Encoder(pc, blk, op) ==
    [pc |-> pc, blk |-> blk, ip |-> 0, step |-> 1, nb |-> 0, anchor |-> 0, match |-> 0,
     head |-> op, op |-> op, reach |-> op, sqs |-> <<>>]

Decoder(pc) == [pc |-> pc, blk |-> 0, seq |-> 1, read |-> 0, reach |-> 0, dst |-> <<>>]

(* zapi_generate_page.                                                     *)
Generate ==
    /\ enc.pc = "idle" /\ ends = <<>>
    /\ enc' = Encoder("block", 0, 0)
    /\ InitStream
    /\ UNCHANGED <<page, budget, weights, edits, stream, ends, dec>>

(* partial_recompression from block b on, of a page whose blocks before b  *)
(* are still those its stream was made from, with a budget of its own: if  *)
(* that ends before the stream that is kept, what is left is negative, and *)
(* nothing fits.                                                           *)
Recompress(b, v, thres) ==
    /\ dec.pc = "end" /\ edits < MaxEdits
    /\ budget' = thres
    /\ page' = [page EXCEPT ![b + 1] = v]
    /\ edits' = edits + 1
    /\ stream' = SubSeq(stream, 1, b)
    /\ ends' = SubSeq(ends, 1, b)
    /\ enc' = Encoder("block", b, IF b = 0 THEN 0 ELSE ends[b])
    /\ LoadDict(b * BlockSz)
    /\ dec' = Decoder("idle")
    /\ UNCHANGED weights

IEnd == Source + BlockSz
MFLimitPlusOne == IEnd - MFLimit + 1
MatchLimit == IEnd - LastLiterals

Refuse(reach) ==
    /\ enc' = [enc EXCEPT !.pc = "refused", !.reach = Max({@, reach})]
    /\ UNCHANGED <<stream, ends, table, cctx, dec>>

(* Mutation: an acceleration of 0 makes the step 0.                        *)
SearchFromStuck(e, p) ==
    [e EXCEPT !.pc = "search", !.ip = p, !.step = 1, !.nb = 0]

(* From position p on, candidates are tried.                               *)
SearchFrom(e, p) ==
    [e EXCEPT !.pc = "search", !.ip = p, !.step = 1, !.nb = SkipUnit]

(* LZ4_compress_fast_continue for the next block, up to the main loop.     *)
BeginBlock ==
    /\ enc.pc = "block"
    /\ LET e == [enc EXCEPT !.anchor = Source, !.sqs = <<>>]
       IN  IF BlockSz < MFLimit + 1
           THEN /\ enc' = [e EXCEPT !.pc = "last"]
                /\ UNCHANGED table
           ELSE /\ enc' = SearchFrom(e, Source + 1)
                /\ table' = Put(table, Source)
    /\ UNCHANGED <<page, budget, weights, edits, stream, ends, cctx, dec>>

(* How far the match m of position p extends back, and then forward.       *)
CatchUp(p, m) ==
    LET most == Min({p - enc.anchor, m - LowLimit})
    IN  Min({c \in 0..most : c = most \/ Byte(p - c - 1) # Byte(m - c - 1)})

(* Mutation: the match may take the last bytes of the block too.           *)
MatchLengthToEnd(p, m) ==
    Min({n \in MinMatch..(IEnd - p) : n = IEnd - p \/ Byte(p + n) # Byte(m + n)})

MatchLength(p, m) ==
    Min({n \in MinMatch..(MatchLimit - p) : n = MatchLimit - p \/ Byte(p + n) # Byte(m + n)})

(* Mutation: no room is kept for the word that the copy may overshoot.     *)
LiteralsFitTight(n) == enc.op + 1 + n + n \div 255 <= budget

LiteralsFit(n) == enc.op + 1 + n + (2 + 1 + LastLiterals) + n \div 255 <= budget
MatchFits(len) == enc.op + 2 + (1 + LastLiterals) + (len - MinMatch + 240) \div 255 <= budget
LastFit(n) == enc.op + n + 1 + (n + 240) \div 255 <= budget

(* The literals from the anchor to position p, whose match is at m.        *)
EncodeLiterals(p, m) ==
    LET n == p - enc.anchor
    IN  enc' = IF LiteralsFit(n)
               THEN [enc EXCEPT !.pc = "match", !.ip = p, !.match = m,
                                !.op = @ + LiteralSize(n),
                                !.reach = Max({@, enc.op + 1 + Extra(n) + WildCopy(n)})]
               ELSE [enc EXCEPT !.pc = "refused"]

(* One turn of the loop that looks for a match.                            *)
Probe ==
    /\ enc.pc = "search"
    /\ LET p == enc.ip
           index == table[HashPosition(p)]
           back == CatchUp(p, Position(index))
       IN  IF p + enc.step > MFLimitPlusOne
           THEN /\ enc' = [enc EXCEPT !.pc = "last"]
                /\ UNCHANGED table
           ELSE /\ table' = Put(table, p)
                /\ IF Usable(index, p)
                   THEN EncodeLiterals(p - back, Position(index) - back)
                   ELSE enc' = [enc EXCEPT !.ip = p + enc.step,
                                           !.step = enc.nb \div SkipUnit,
                                           !.nb = @ + 1]
    /\ UNCHANGED <<page, budget, weights, edits, stream, ends, cctx, dec>>

(* LZ4_write32 fills the bytes of a long match length word by word.        *)
WrittenForLength(code) == IF code < 15 THEN 0 ELSE 4 * (1 + (code - 15) \div (4 * 255))

(* The position behind a match: is there another one right here?           *)
TestNextPosition(e, p) ==
    LET filled == Put(table, p - 2)
        index == filled[HashPosition(p)]
    IN  IF p >= MFLimitPlusOne
        THEN /\ enc' = [e EXCEPT !.pc = "last"]
             /\ UNCHANGED table
        ELSE /\ table' = Put(filled, p)
             /\ enc' = IF Usable(index, p)
                       THEN [e EXCEPT !.ip = p, !.match = Position(index), !.op = @ + 1]
                       ELSE SearchFrom(e, p + 1)

EncodeMatch ==
    /\ enc.pc = "match"
    /\ LET len == MatchLength(enc.ip, enc.match)
           lits == Bytes(enc.anchor, enc.ip - enc.anchor)
           written == [enc EXCEPT !.reach = Max({@, enc.op + 2 + WrittenForLength(len - MinMatch),
                                                 enc.op + MatchSize(len)})]
       IN  IF ~MatchFits(len)
           THEN Refuse(enc.op + 2)
           ELSE /\ TestNextPosition(
                      [written EXCEPT !.sqs = Append(@, Sequence(lits, enc.ip - enc.match, len)),
                                      !.op = @ + MatchSize(len),
                                      !.anchor = enc.ip + len],
                      enc.ip + len)
                /\ UNCHANGED <<stream, ends, cctx, dec>>
    /\ UNCHANGED <<page, budget, weights, edits>>

(* _last_literals, and on to the next block of compress_page_internal.     *)
EncodeLastLiterals ==
    /\ enc.pc = "last"
    /\ LET n == IEnd - enc.anchor
           more == enc.blk + 1 < NumBlocks
       IN  IF ~LastFit(n)
           THEN Refuse(enc.op)
           ELSE /\ stream' = Append(stream, Append(enc.sqs, LiteralRun(Bytes(enc.anchor, n))))
                /\ ends' = Append(ends, enc.op + LiteralSize(n))
                /\ enc' = [enc EXCEPT !.pc = IF more THEN "block" ELSE "idle",
                                      !.blk = @ + 1,
                                      !.op = @ + LiteralSize(n),
                                      !.reach = Max({@, enc.op + LiteralSize(n)})]
                /\ cctx' = [dictSize |-> cctx.dictSize + BlockSz,
                            currentOffset |-> cctx.currentOffset + BlockSz]
                /\ dec' = IF more THEN dec ELSE Decoder("run")
                /\ UNCHANGED table
    /\ UNCHANGED <<page, budget, weights, edits>>

-----------------------------------------------------------------------------
(* Decompression of the page *)

Block == stream[dec.blk + 1]
Current == Block[dec.seq]
Op == Len(dec.dst)
OEnd == dec.blk * BlockSz + Min({BlockSz, Capacity})

(* Byte by byte: a match may overlap what it produces.                     *)
CopyMatch(dst, off, len) ==
    dst \o [i \in 1..len |-> dst[Len(dst) - off + ((i - 1) % off) + 1]]

(* The shortcut for short sequences well before the end.                   *)
Shortcut(n) == n <= 8 /\ Op <= OEnd - 8 - 18
ShortMatch(sq) == Shortcut(Len(sq.lits)) /\ sq.len - MinMatch < 15 /\ sq.off >= 8

(* Literals that end this near to the end must be the last.                *)
EndsBlock(cpy) == cpy > OEnd - WildCopyLength

(* Mutation: whole words are copied as long as there is room for a byte.   *)
CopyLimitLate == OEnd

(* oCopyLimit: behind it a match is copied byte by byte.                   *)
CopyLimit == OEnd - (WildCopyLength - 1)

(* A match that ends near the end, after its first word.                   *)
EndReach(op, cpy) ==
    Max({cpy, IF op < CopyLimit THEN op + WildCopy(CopyLimit - op) ELSE op})

(* How far the copies of a sequence write.  The fast loop of LZ4 is not    *)
(* told apart: its literals go the same way, and behind its matches there  *)
(* are 64 bytes left.                                                      *)
LiteralsReach(n) == Op + (IF Shortcut(n) THEN 8 ELSE WildCopy(n))
MatchReach(sq, op) ==
    LET cpy == op + sq.len
    IN  IF ShortMatch(sq) THEN op + 18
        ELSE IF cpy > OEnd - MFLimit THEN EndReach(op + 8, cpy)
        ELSE IF sq.len <= 16 THEN op + 16 ELSE op + 16 + WildCopy(sq.len - 16)

(* Mutation: after an error the same place is tried again.                 *)
LoseRetry == dec' = dec

Lose == dec' = [dec EXCEPT !.pc = "lost"]

(* The next block is looked for behind the bytes taken so far.             *)
FinishBlock ==
    LET lits == Current.lits
        taken == dec.read + LiteralSize(Len(lits))
        more == dec.blk + 1 < NumBlocks
    IN  IF taken # ends[dec.blk + 1]
        THEN Lose
        ELSE dec' = [dec EXCEPT !.pc = IF more THEN "run" ELSE "end",
                                !.blk = @ + 1, !.seq = 1, !.read = taken,
                                !.dst = @ \o lits]

(* LZ4_decompress_generic, one sequence; `lost' stands for an error, whose *)
(* answer the caller adds to its place in the stream, and for any other    *)
(* place that is not the next block's.                                     *)
DecodeSequence ==
    /\ dec.pc = "run"
    /\ LET sq == Current
           cpy == Op + Len(sq.lits)
           end == cpy + sq.len
       IN  IF EndsBlock(cpy)
           THEN IF cpy = OEnd THEN FinishBlock ELSE Lose
           ELSE IF sq.len = 0 \/ sq.off \notin 1..cpy \/ end > OEnd
                   \/ (end > OEnd - LastLiterals /\ ~ShortMatch(sq))
           THEN Lose
           ELSE dec' = [dec EXCEPT
                   !.seq = @ + 1, !.read = @ + SequenceSize(sq),
                   !.reach = Max({LiteralsReach(Len(sq.lits)), MatchReach(sq, cpy)}),
                   !.dst = CopyMatch(@ \o sq.lits, sq.off, sq.len)]
    /\ UNCHANGED <<page, budget, weights, edits, stream, ends, enc, table, cctx>>

-----------------------------------------------------------------------------
Init ==
    /\ page \in Pages
    /\ budget \in Budgets
    /\ weights \in HashWeights
    /\ edits = 0
    /\ stream = <<>>
    /\ ends = <<>>
    /\ enc = Encoder("idle", 0, 0)
    /\ table = Empty
    /\ cctx = [dictSize |-> 0, currentOffset |-> 0]
    /\ dec = Decoder("idle")

Next ==
    \/ Generate
    \/ \E b \in 0..(NumBlocks - 1) :
          \E v \in {w \in Values : Len(w) = BlockSz}, thres \in Budgets :
             Recompress(b, v, thres)
    \/ BeginBlock \/ Probe \/ EncodeMatch \/ EncodeLastLiterals
    \/ DecodeSequence

(* The loops of the compressor and of the decompressor keep turning.       *)
Fairness == WF_vars(BeginBlock \/ Probe \/ EncodeMatch \/ EncodeLastLiterals \/ DecodeSequence)

Spec == Init /\ [][Next]_vars /\ Fairness

-----------------------------------------------------------------------------
(* Properties *)

SequenceType(sq) ==
    sq.off \in 0..DistanceMax /\ (sq.len = 0 \/ sq.len >= MinMatch)

(* Every step of the search moves on, and every offset fits its two bytes. *)
TypeOK ==
    /\ enc.pc \in {"idle", "block", "search", "match", "last", "refused"}
    /\ enc.ip \in 0..PageBytes /\ enc.anchor \in 0..PageBytes
    /\ enc.step \in Nat \ {0}
    /\ \A sqs \in Range(Append(stream, enc.sqs)) : \A sq \in Range(sqs) : SequenceType(sq)
    /\ table \in [0..(HashSize - 1) -> Nat]
    /\ dec.pc \in {"idle", "run", "end", "lost"}
    /\ edits \in 0..MaxEdits

(* A match starts behind its position, at most 64 KB - 1, and not before   *)
(* the dictionary (the asserts of lz4.c on offset and lowLimit).           *)
MatchInWindow ==
    enc.pc = "match" =>
        /\ enc.ip - enc.match \in 1..DistanceMax
        /\ enc.match >= Max({0, LowLimit})

(* assert(matchIndex < current): no bucket of the table is ahead of the    *)
(* position that is looked up next, also when the table comes from a       *)
(* dictionary whose indexes start at 64 KB.                                *)
TableIsBehind ==
    enc.pc = "search" => \A h \in DOMAIN table : table[h] < Index(enc.ip)

(* The compressor never writes behind the budget it was given, the words   *)
(* that its copies write too much included; the head of a page that is     *)
(* recompressed was copied before.                                         *)
StaysInBudget ==
    enc.reach <= Max({budget, enc.head})

(* What has been decoded to the end is the page, whether its stream was    *)
(* made in one go or its tail was compressed again behind a dictionary of  *)
(* the blocks before it.                                                   *)
ReadsBack ==
    dec.pc = "end" => dec.dst = Bytes(0, PageBytes)

(* Every block of a page is decoded, and the place of the next one found   *)
(* although no size is stored, exactly if the block has at most the bytes  *)
(* that the caller hard-codes (512): of larger ones none is.               *)
CapacityDecides ==
    /\ dec.pc = "lost" => BlockSz > Capacity
    /\ dec.pc = "end" \/ dec.blk > 0 => BlockSz <= Capacity

(* The decoder, whose copies write more than they are told, writes nothing *)
(* behind the block it decodes: behind the last one ends the buffer.       *)
DecoderStaysInBlock ==
    dec.reach <= (dec.blk + 1) * BlockSz

(* The compressor ends, with the page or a refusal, and then the decoder.  *)
Terminates ==
    /\ enc.pc = "block" ~> enc.pc \in {"idle", "refused"}
    /\ dec.pc = "run" ~> dec.pc \in {"end", "lost"}

=============================================================================
