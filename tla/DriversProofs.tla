---------------------------- MODULE DriversProofs ----------------------------
(***************************************************************************)
(* Proofs about Drivers, for pages of any number of blocks, any files and  *)
(* edits, any number of turns and whatever the compressor makes of a page. *)
(***************************************************************************)
EXTENDS Drivers, PrcPageProofs

DriverTypes ==
    /\ program \in {"example", "prc", "read"}
    /\ data \in PageContent /\ edit \in PageContent
    /\ block \in Blocks /\ count \in Nat
    /\ announced \in [Blocks -> BOOLEAN]
    /\ cut \in [Blocks -> Content]

(* Which program can be where, and how each starts.                        *)
PlaceInv ==
    /\ pc \in {"generate", "edit", "free", "done"} \cup
           (IF program = "example"
            THEN {"compare", "update", "delete", "compare_new", "free_new"}
            ELSE {"repeat"})
    /\ pc = "generate" => edit = data /\ cut = Zero /\ \A p \in Pages : status[p] = "raw"
    /\ program # "example" => matches /\ (pc \in {"generate", "edit"} => count = 0)

(* latency_prc.c makes no deltas, and what a program has freed is gone.    *)
ListsInv ==
    /\ program # "example" => \A p \in Pages : deltas[p] = <<>>
    /\ pc = "free" => deltas[newPage] = <<>>
    /\ pc = "done" => \A p \in Pages : deltas[p] = <<>>

(* Where the page differs from the copy without what its own delta loses,  *)
(* the client was told.                                                    *)
Excused(S) == \A b \in S : announced[b] \/ PageReads(page)[b] = AsKept(b)

ExampleInv ==
    program = "example" =>
        /\ pc \in {"compare", "edit", "delete"} => Excused(Blocks)
        /\ pc = "update" => Excused(Blocks \ {block})
        /\ pc \in {"edit", "delete"} /\ ~matches =>
              \E b \in Blocks : announced[b] \/ cut[b] # {}
        /\ pc = "compare_new" =>
              \A b \in Blocks :
                 announced[b] \/ PageReads(newPage)[b] = AsKept(b) \/ Stale(b)
        /\ DeletionVerdict

LatencyInv ==
    program # "example" =>
        /\ pc \in {"edit", "repeat"} => PageReads(page) = data
        /\ program = "prc" /\ pc = "repeat" /\ count > 0 =>
              PageReads(newPage) = [data EXCEPT ![block] = edit[0]]

(* What holds of the engine, and what the programs rely on.                *)
EngineInv == MemoryInv /\ PageInv
DriverInv == DriverTypes /\ PlaceInv /\ ListsInv /\ ExampleInv /\ LatencyInv
DriversInv == EngineInv /\ DriverInv

-----------------------------------------------------------------------------
(* What the constants and the invariant say *)

(* The two pages are different, and all there are.                         *)
LEMMA DriverConstants ==
  /\ page \in Pages /\ newPage \in Pages /\ page # newPage
  /\ \A p \in Pages : p = page \/ p = newPage
  /\ 0 \in Blocks /\ GenThres \in Nat /\ EditLimit \in Nat /\ DelStart \in Blocks
BY DriversAssumption, ConstantTypes

(* A buffer of AmpleThres bytes has room for every stream.                 *)
LEMMA AmpleIsEnough ==
  ASSUME NEW s, NEW S
  PROVE  /\ AmpleThres >= PageHeader
         /\ PageHeader + StreamSize(s, S) <= AmpleThres
<1> DEFINE sizes == {LiteralSize, CopySize}
           c == Max(sizes)
<1>1. LiteralSize \in Nat /\ CopySize \in Nat /\ NumBlocks \in Nat
  BY ConstantTypes
<1>2. c \in Nat /\ LiteralSize <= c /\ CopySize <= c
  <2>1. \E x \in sizes : \A y \in sizes : x >= y
    BY <1>1
  <2>2. c \in sizes /\ \A y \in sizes : c >= y
    BY <2>1 DEF Max
  <2> QED BY <1>1, <2>2
<1>3. AmpleThres >= PageHeader + NumBlocks * c
  BY DriversAssumption
<1> HIDE DEF c
<1>4. StreamSize(s, S) \in 0..(NumBlocks * c)
  BY <1>2, StreamBounded
<1>5. AmpleThres \in Int
  BY DriversAssumption
<1> DEFINE d == NumBlocks * c
<1>6. d \in Nat
  BY <1>1, <1>2
<1> HIDE DEF d
<1>7. StreamSize(s, S) \in 0..d /\ AmpleThres >= PageHeader + d
  BY <1>3, <1>4 DEF d
<1> QED BY <1>5, <1>6, <1>7, ConstantTypes

(* The facts about the engine that the steps below use.                    *)
LEMMA EngineFacts ==
  ASSUME EngineInv
  PROVE  /\ TypeOK /\ StoreInv /\ MemoryInv /\ PageTypes /\ SizeInv
         /\ \A p \in Pages : p \notin Live => deltas[p] = <<>>
         /\ status \in [Pages -> {"raw", "live", "moved", "torn"}]
BY InvariantsType DEF EngineInv, PageInv, StoreInv, MemoryInv

-----------------------------------------------------------------------------
(* What each call does to the engine's state and to what pages read as *)

(* zapi_generate_page into a buffer without a page touches no list, and    *)
(* the page it makes reads as what it was made from.                       *)
LEMMA GenerateDoes ==
  ASSUME EngineInv, NEW q \in Pages, NEW src \in PageContent,
         NEW enc \in Attempts(src, 0), NEW thres \in Nat, Generate(q, src, enc, thres)
  PROVE  /\ EngineInv' /\ deltas' = deltas
         /\ Fits(enc, 0, thres) /\ thres >= PageHeader => PageReads(q)' = src
         /\ CompressCode(enc, thres) > 0 => PageReads(q)' = src
<1>1. /\ TypeOK /\ StoreInv /\ MemoryInv /\ PageTypes /\ SizeInv
      /\ status \in [Pages -> {"raw", "live", "moved", "torn"}]
      /\ deltas \in [Pages -> Seq(DeltaNodes)]
  BY EngineFacts DEF PageTypes
<1>2. Compress(q, enc, thres) /\ pool' = pool /\ Writable(q)
  BY DEF Generate
<1>3. q \notin Live /\ deltas[q] = <<>>
  BY <1>2, EngineFacts DEF Writable, Live
<1>4. MemoryInv'
  BY <1>1, <1>2, CompressKeeps
<1>5. PageTypes' /\ SizeInv'
  BY <1>1, <1>2, CountedCompress
<1>6. deltas' = deltas
  <2> DEFINE none == <<>>
  <2>1. deltas' = deltas \/ deltas' = [deltas EXCEPT ![q] = none]
    BY <1>2 DEF Compress
  <2>2. deltas[q] = none
    BY <1>3
  <2> HIDE DEF none
  <2> QED BY <1>1, <2>1, <2>2
<1>7. ASSUME Fits(enc, 0, thres), thres >= PageHeader
      PROVE  PageReads(q)' = src
  <2>1. enc \in Encodings(src, 0)
    BY <1>7, FitsEncodes
  <2>2. Decoded(enc) = src
    BY <2>1, WholeDecodes
  <2>3. stream' = [stream EXCEPT ![q] = enc]
    BY <1>2, <1>7, ConstantTypes DEF Compress
  <2>4. stream'[q] = enc /\ deltas'[q] = <<>>
    BY <1>1, <1>3, <1>6, <2>3 DEF PageTypes
  <2>5. ApplyDeltas(<<>>, Blocks, src) = src
    BY NoDeltasRead
  <2> QED BY <2>2, <2>4, <2>5 DEF PageReads, Base
<1>8. ASSUME CompressCode(enc, thres) > 0
      PROVE  PageReads(q)' = src
  <2>1. Fits(enc, 0, thres)
    BY <1>8 DEF CompressCode
  <2>2. thres >= PageHeader
    <3> DEFINE c == LiteralSize + CopySize
               size == StreamSize(enc, DOMAIN enc)
    <3>1. PageHeader + 0 + size <= thres
      BY <2>1 DEF Fits
    <3>2. c \in Nat /\ LiteralSize <= c /\ CopySize <= c /\ NumBlocks * c \in Nat
      BY ConstantTypes
    <3> HIDE DEF c
    <3>3. size \in 0..(NumBlocks * c)
      BY <3>2, StreamBounded
    <3> HIDE DEF size
    <3> QED BY <3>1, <3>2, <3>3, ConstantTypes
  <2> QED BY <1>7, <2>1, <2>2
<1> QED BY <1>4, <1>5, <1>6, <1>7, <1>8 DEF EngineInv, PageInv

(* An update that answers 0 makes of the block what its delta makes of the *)
(* base, any other answer changes nothing.                                 *)
LEMMA UpdateDoes ==
  ASSUME EngineInv, NEW p \in Pages, NEW b \in Blocks, NEW v \in Content, NEW lim \in Nat,
         UpdateDelta(p, b, v, lim, TRUE) \/ UpdateScratch(p, b, v, lim)
  PROVE  /\ EngineInv'
         /\ \/ /\ ret'.code = 0
               /\ PageReads(p)' = [PageReads(p) EXCEPT ![b] =
                                      InPlace(Base(p)[b], XOR(v, Base(p)[b]))]
            \/ ret'.code # 0 /\ PageReads(p)' = PageReads(p)
<1> DEFINE made == InPlace(Base(p)[b], XOR(v, Base(p)[b]))
<1>1. /\ TypeOK /\ StoreInv /\ MemoryInv /\ PageTypes /\ SizeInv
  BY EngineFacts
<1>2. p \in Live /\ status' = status /\ stream' = stream
  BY DEF UpdateDelta, UpdateScratch, Live
<1>3. MemoryInv'
  <2>1. CASE UNCHANGED <<deltas, pool>>
    BY <1>1, <1>2, <2>1, StutterKeeps
  <2>2. CASE UpdateDeltaList(p, b, XOR(v, Base(p)[b]))
    BY <1>1, <1>2, <2>2, UpdateDeltaListKeeps
  <2> QED BY <2>1, <2>2 DEF UpdateDelta, UpdateScratch
<1>4. PageTypes' /\ SizeInv'
  <2>1. CASE UpdateDelta(p, b, v, lim, TRUE)
    BY <1>1, <2>1, CountedDelta
  <2>2. CASE UpdateScratch(p, b, v, lim)
    BY <1>1, <2>2, CountedStutter DEF UpdateScratch
  <2> QED BY <2>1, <2>2
<1>5. \/ ret'.code = 0 /\ UpdateDeltaList(p, b, XOR(v, Base(p)[b]))
      \/ ret'.code # 0 /\ deltas' = deltas
  <2> DEFINE flips == XOR(v, Base(p)[b])
             d == DeltaSize(p, b, v, lim)
             code == IF d > 0 THEN 0 ELSE 1
  <2>1. CASE UpdateDelta(p, b, v, lim, TRUE)
    <3>1. /\ IF d > 0 THEN UpdateDeltaList(p, b, flips) ELSE deltas' = deltas
          /\ ret' = Answer("update", p, p, b, 0, code, v, DecompressInto(p, b + 1))
      BY <2>1 DEF UpdateDelta
    <3> HIDE DEF d, flips
    <3>2. ret'.code = code
      BY <3>1 DEF Answer
    <3> QED BY <3>1, <3>2 DEF flips
  <2>2. CASE UpdateScratch(p, b, v, lim)
    <3>1. ret'.code = 3 /\ deltas' = deltas
      BY <2>2 DEF UpdateScratch, Answer
    <3> QED BY <3>1
  <2> QED BY <2>1, <2>2
<1>6. ContentBar[p] = PageReads(p) /\ ContentBar'[p] = PageReads(p)'
  <2>1. p \in Live'
    BY <1>2 DEF Live
  <2> QED BY <1>2, <2>1 DEF ContentBar, Seen, Live
<1>7. CASE ret'.code = 0 /\ UpdateDeltaList(p, b, XOR(v, Base(p)[b]))
  <2>1. ContentBar' = [ContentBar EXCEPT ![p] = [ContentBar[p] EXCEPT ![b] = made]]
    BY <1>1, <1>2, <1>7, NewNodeReads
  <2>2. ContentBar = [q \in Pages |-> ContentBar[q]]
    BY DEF ContentBar
  <2> HIDE DEF made
  <2>3. ContentBar'[p] = [ContentBar[p] EXCEPT ![b] = made]
    BY <2>1, <2>2
  <2>4. PageReads(p)' = [PageReads(p) EXCEPT ![b] = made]
    BY <1>6, <2>3
  <2> QED BY <1>3, <1>4, <1>7, <2>4 DEF made, EngineInv, PageInv
<1>8. CASE ret'.code # 0 /\ deltas' = deltas
  <2>1. PageReads(p)' = PageReads(p)
    BY <1>2, <1>8 DEF PageReads, Base
  <2> QED BY <1>3, <1>4, <1>8, <2>1 DEF EngineInv, PageInv
<1> QED BY <1>5, <1>7, <1>8

(* A read of the whole page, which the drivers compare.                    *)
LEMMA ReadDoes ==
  ASSUME EngineInv, NEW p \in Pages, Decompress(p, NumBlocks)
  PROVE  EngineInv' /\ UNCHANGED <<status, stream, deltas, pool>> /\ ret'.out = PageReads(p)
<1>1. UNCHANGED <<status, stream, t_size, deltas, pool>>
  BY DEF Decompress
<1>2. EngineInv'
  BY <1>1, EngineFacts, StutterKeeps, CountedStutter DEF EngineInv, PageInv
<1>3. Base(p) \in PageContent
  BY EngineFacts, BaseType
<1>4. DecompressInto(p, NumBlocks) = Base(p)
  <2>1. \A b \in Blocks : b < NumBlocks
    BY ConstantTypes
  <2> QED BY <1>3, <2>1 DEF DecompressInto, PageContent
<1>5. ret'.out = ApplyDeltas(deltas[p], Blocks, DecompressInto(p, NumBlocks))
  BY DEF Decompress, Answer
<1> QED BY <1>1, <1>2, <1>4, <1>5 DEF PageReads

(* A recompression into a buffer that is large enough always makes a page. *)
(* If no delta goes over to it, it reads as what was compressed, provided  *)
(* the blocks before are those of the stream it stands behind.             *)
LEMMA RecompressDoes ==
  ASSUME EngineInv, NEW p \in Pages, NEW q \in Pages, p # q, NEW first \in Blocks,
         NEW src \in PageContent, NEW enc \in Encodings(src, first),
         Recompress(p, q, first, enc, AmpleThres)
  PROVE  /\ PageTypes' /\ SizeInv'
         /\ status' = [status EXCEPT ![p] = "moved", ![q] = "live"]
         /\ stream' = [stream EXCEPT ![q] = Stitch(stream[p], enc, first)]
         /\ deltas' = [deltas EXCEPT ![p] = <<>>, ![q] = Kept(p, first)]
         /\ pool' = pool \ (SlotsOf(deltas[p]) \ SlotsOf(Kept(p, first)))
         /\ Kept(p, first) = <<>> /\ (\A c \in Blocks : c < first => src[c] = Base(p)[c])
               => PageReads(q)' = src
<1> DEFINE s1 == Stitch(stream[p], enc, first)
           head == HeadSize(p, first)
           K == Kept(p, first)
           none == <<>>
<1>1. /\ TypeOK /\ SizeInv /\ PageTypes /\ stream[p] \in Streams
      /\ deltas \in [Pages -> Seq(DeltaNodes)]
  BY EngineFacts DEF PageTypes
<1>2. s1 \in Streams /\ StreamSize(s1, Blocks) = head + StreamSize(enc, DOMAIN enc)
  BY <1>1, Stitched DEF HeadSize
<1>3. enc # Refused
  <2>1. DOMAIN enc = first..(NumBlocks - 1) /\ first \in first..(NumBlocks - 1)
    BY EncodingFacts, ConstantTypes
  <2>2. DOMAIN Refused = {}
    BY DEF Refused
  <2> QED BY <2>1, <2>2
<1>4. Fits(enc, head, AmpleThres)
  <2>1. PageHeader + StreamSize(s1, Blocks) <= AmpleThres
    BY AmpleIsEnough
  <2>2. PageHeader \in Int /\ head \in Int /\ StreamSize(enc, DOMAIN enc) \in Int
    BY StreamSizeType, ConstantTypes DEF HeadSize
  <2> HIDE DEF head, s1
  <2> QED BY <1>2, <1>3, <2>1, <2>2 DEF Fits
<1>5. /\ status' = [status EXCEPT ![p] = "moved", ![q] = "live"]
      /\ stream' = [stream EXCEPT ![q] = s1]
      /\ deltas' = [deltas EXCEPT ![p] = none, ![q] = K]
      /\ pool' = pool \ (SlotsOf(deltas[p]) \ SlotsOf(K))
  BY <1>4 DEF Recompress, MoveDeltas, Stitch
<1>6. PageTypes' /\ SizeInv'
  <2>1. enc \in Attempts(src, first)
    BY DEF Attempts
  <2> QED BY <1>1, <2>1, CountedRecompress
<1>7. ASSUME K = none, \A c \in Blocks : c < first => src[c] = Base(p)[c]
      PROVE  PageReads(q)' = src
  <2>1. Decoded(s1) = src
    BY <1>1, <1>7, StitchedDecodes DEF Base
  <2>2. stream'[q] = s1 /\ deltas'[q] = none
    <3> HIDE DEF s1, none, K
    <3> QED BY <1>1, <1>5, <1>7 DEF PageTypes
  <2>3. ApplyDeltas(none, Blocks, src) = src
    BY NoDeltasRead
  <2> HIDE DEF s1, none
  <2> QED BY <2>1, <2>2, <2>3 DEF PageReads, Base
<1> QED BY <1>5, <1>6, <1>7

(* What partial_recompression writes decodes, from `first' on, to the data *)
(* it compressed, or else to what the old stream holds for a block before  *)
(* `first' that was given as equal.                                        *)
LEMMA TailDecodes ==
  ASSUME NEW s \in Streams, NEW src \in PageContent, NEW first \in Blocks,
         NEW enc \in Encodings(src, first)
  PROVE  LET made == Decoded(Stitch(s, enc, first))
         IN  \A b \in Blocks : ~(b < first) =>
                \/ made[b] = src[b]
                \/ \E j \in Before(first) : src[j] = src[b] /\ made[b] = made[j]
<1> DEFINE s1 == Stitch(s, enc, first)
           d == Decoded(s1)
           Good(b) == \/ d[b] = src[b]
                      \/ \E j \in Before(first) : src[j] = src[b] /\ d[b] = d[j]
           Bad == {b \in Blocks : ~(b < first) /\ ~Good(b)}
<1>1. s1 \in Streams /\ first \in Nat /\ first < NumBlocks
  BY Stitched, ConstantTypes
<1>2. \A b \in Blocks : ~(b < first) => s1[b] = enc[b]
  BY DEF Stitch
<1>3. \A b \in Blocks : d[b] = BlockFrom(s1, d, b)
  BY <1>1, DecodedFacts
<1>4. /\ \A b \in Blocks : b \in Nat /\ (~(b < first) => b \in first..(NumBlocks - 1))
      /\ \A b \in Blocks : b < first => b \in Before(first)
  BY <1>1, ConstantTypes DEF Before
<1>5. ASSUME NEW b \in Blocks, ~(b < first)
      PROVE  /\ enc[b].from < b /\ (enc[b].from = NoCopy \/ enc[b].from \in Blocks)
             /\ IF enc[b].from = NoCopy THEN enc[b].val = src[b]
                ELSE src[enc[b].from] = src[b]
  <2>1. b \in first..(NumBlocks - 1)
    BY <1>4, <1>5
  <2>2. /\ enc \in [first..(NumBlocks - 1) -> EncodingType]
        /\ enc[b].from < b
        /\ IF enc[b].from = NoCopy THEN enc[b].val = src[b] ELSE src[enc[b].from] = src[b]
    BY <2>1, EncodingFacts
  <2>3. enc[b] \in EncodingType
    BY <2>1, <2>2
  <2> QED BY <2>2, <2>3 DEF EncodingType
<1> HIDE DEF s1, d
<1>6. Bad = {}
  <2> SUFFICES ASSUME Bad # {} PROVE FALSE
    OBVIOUS
  <2>1. Bad \in SUBSET Nat
    BY <1>4
  <2>2. PICK b \in Bad : \A j \in Bad : b <= j
    <3> HIDE DEF Bad
    <3> QED BY <2>1, LeastNatural
  <2>3. b \in Blocks /\ b \in Nat /\ ~(b < first) /\ ~Good(b)
    BY <1>4, <2>2
  <2> DEFINE j == enc[b].from
  <2>4. d[b] = IF j = NoCopy THEN enc[b].val ELSE d[j]
    BY <1>2, <1>3, <2>3 DEF BlockFrom
  <2>5. /\ j < b /\ (j = NoCopy \/ j \in Blocks)
        /\ IF j = NoCopy THEN enc[b].val = src[b] ELSE src[j] = src[b]
    BY <1>5, <2>3
  <2> HIDE DEF j
  <2>6. j # NoCopy
    BY <2>3, <2>4, <2>5
  <2>7. j \in Blocks /\ j \in Nat /\ d[b] = d[j] /\ src[j] = src[b]
    BY <1>4, <2>4, <2>5, <2>6
  <2>8. CASE j < first
    BY <1>4, <2>3, <2>7, <2>8
  <2>9. CASE ~(j < first)
    <3>1. j \notin Bad
      BY <2>2, <2>3, <2>5, <2>7
    <3>2. Good(j)
      BY <2>7, <2>9, <3>1
    <3> QED BY <2>3, <2>7, <3>2
  <2> QED BY <2>8, <2>9
<1>7. \A b \in Blocks : ~(b < first) => Good(b)
  <2> HIDE DEF Good
  <2> QED BY <1>6
<1> QED BY <1>7 DEF s1, d

(* A block of the page that a deletion makes is as it was compressed, or a *)
(* copy of a block before `first' as its stream has it, without the delta  *)
(* with which that block was given to the compressor.                      *)
StaleCopy(q, b, v, first) ==
    \E j \in Before(first) :
        /\ b >= first /\ Hits(deltas[q], j) # {}
        /\ PageReads(q)[j] = v /\ PageReads(q)[b] = Base(q)[j]

(* The blocks before `first' keep their deltas, the ones behind have none. *)
LEMMA DeleteDoes ==
  ASSUME EngineInv, NEW p \in Pages, NEW q \in Pages, NEW first \in Blocks, NEW n,
         NEW enc \in Encodings(DeletedPage(p, first, n), first),
         Delete(p, q, first, n, enc, AmpleThres)
  PROVE  /\ EngineInv'
         /\ \A b \in Blocks : \A v : v = DeletedPage(p, first, n)[b] =>
                PageReads(q)'[b] = v \/ StaleCopy(q, b, v, first)'
<1> DEFINE src == DeletedPage(p, first, n)
           K == Kept(p, first)
           none == <<>>
           s1 == Stitch(stream[p], enc, first)
           d == Decoded(s1)
<1>1. /\ TypeOK /\ StoreInv /\ MemoryInv /\ PageTypes
      /\ deltas \in [Pages -> Seq(DeltaNodes)]
      /\ stream \in [Pages -> Streams]
  BY EngineFacts DEF PageTypes
<1>2. /\ p \in Live /\ Writable(q) /\ p # q
      /\ Recompress(p, q, first, enc, AmpleThres)
  BY DEF Delete, Live, Writable
<1>3. src \in PageContent
  BY <1>1, CompressedPages
<1>4. /\ \A b \in Blocks : b < first => src[b] = PageReads(p)[b]
      /\ \A j : j \in Before(first) <=> j \in Blocks /\ j < first
      /\ \A b \in Blocks : b < first \/ b >= first
  BY ConstantTypes DEF DeletedPage, Before
<1>5. enc \in Encodings(src, first)
  OBVIOUS
<1> HIDE DEF src
<1>6. /\ PageTypes' /\ SizeInv'
      /\ stream' = [stream EXCEPT ![q] = s1]
      /\ deltas' = [deltas EXCEPT ![p] = none, ![q] = K]
  BY <1>2, <1>3, <1>5, RecompressDoes
<1>7. EngineInv'
  <2>1. MemoryInv'
    BY <1>1, <1>2, RecompressKeeps
  <2> QED BY <1>6, <2>1 DEF EngineInv, PageInv
<1>8. /\ deltas[p] \in Seq(DeltaNodes) /\ Distinct(deltas[p])
      /\ \A c \in Blocks : PageReads(p)[c] = BlockOf(deltas[p], c, Base(p)[c])
  BY <1>1, PageReadsBlock
<1>9. first \in Nat
  BY ConstantTypes
<1>10. /\ K \in Seq(DeltaNodes) /\ Distinct(K)
       /\ \A c \in Blocks : \A x : BlockOf(K, c, x) = IF c < first THEN BlockOf(deltas[p], c, x)
                                                       ELSE x
  BY <1>8, <1>9, KeptReads
<1>11. s1 \in Streams /\ \A c \in Blocks : c < first => d[c] = Base(p)[c]
  <2>1. stream[p] \in Streams
    BY <1>1
  <2> QED BY <1>3, <1>5, <2>1, Stitched, StitchedDecodes DEF Base
<1>12. \A b \in Blocks : ~(b < first) =>
          \/ d[b] = src[b]
          \/ \E j \in Before(first) : src[j] = src[b] /\ d[b] = d[j]
  <2>1. stream[p] \in Streams
    BY <1>1
  <2> QED BY <1>3, <1>5, <2>1, TailDecodes
<1>13. d \in PageContent
  BY <1>11, DecodedFacts
<1> HIDE DEF s1, d, K, none
<1>14. stream'[q] = s1 /\ deltas'[q] = K
  BY <1>1, <1>2, <1>6
<1>15. Base(q)' = d /\ PageReads(q)' = ApplyDeltas(K, Blocks, d)
  BY <1>14 DEF PageReads, Base, d
<1>16. \A c \in Blocks : PageReads(q)'[c] = BlockOf(K, c, d[c])
  BY <1>10, <1>13, <1>15, ReadOfBlock
<1>17. \A c \in Blocks : PageReads(q)'[c] = IF c < first THEN src[c] ELSE d[c]
  <2> SUFFICES ASSUME NEW c \in Blocks
               PROVE  PageReads(q)'[c] = IF c < first THEN src[c] ELSE d[c]
    OBVIOUS
  <2>1. CASE c < first
    BY <1>4, <1>8, <1>10, <1>11, <1>16, <2>1
  <2>2. CASE ~(c < first)
    BY <1>10, <1>16, <2>2
  <2> QED BY <2>1, <2>2
<1>18. ASSUME NEW b \in Blocks, NEW v, v = src[b]
       PROVE  PageReads(q)'[b] = v \/ StaleCopy(q, b, v, first)'
  <2>1. CASE b < first \/ d[b] = src[b]
    BY <1>17, <1>18, <2>1
  <2>2. ASSUME ~(b < first), d[b] # src[b]
        PROVE  StaleCopy(q, b, v, first)'
    <3>1. PICK j \in Before(first) : src[j] = src[b] /\ d[b] = d[j]
      BY <1>12, <2>2
    <3>2. j \in Blocks /\ j < first /\ b >= first
      BY <1>4, <2>2, <3>1
    <3>3. PageReads(q)'[j] = v /\ PageReads(q)'[b] = Base(q)'[j]
      BY <1>15, <1>17, <1>18, <2>2, <3>1, <3>2
    <3>4. Hits(deltas'[q], j) # {}
      <4>1. ASSUME Hits(K, j) = {} PROVE FALSE
        <5>1. PageReads(q)'[j] = d[j]
          BY <1>16, <3>2, <4>1 DEF BlockOf
        <5> QED BY <1>18, <2>2, <3>1, <3>3, <5>1
      <4> QED BY <1>14, <4>1
    <3> QED BY <3>1, <3>2, <3>3, <3>4 DEF StaleCopy
  <2> QED BY <2>1, <2>2
<1> QED BY <1>7, <1>18 DEF src

-----------------------------------------------------------------------------
(* The steps of both programs *)

(* A program starts with two buffers that hold no page.                    *)
LEMMA InitHolds == DriversInit => DriversInv
<1> SUFFICES ASSUME DriversInit PROVE DriversInv
  OBVIOUS
<1>1. EngineInv
  BY InitOwned, InitCounted DEF DriversInit, EngineInv
<1>2. DriverTypes
  <2>1. Sources \subseteq PageContent
    BY PrcPageAssumption
  <2>2. Zero \in [Blocks -> Content]
    BY DEF Zero, Content
  <2> QED BY <2>1, <2>2, DriverConstants DEF DriversInit, DriverTypes
<1>3. \A p \in Pages : status[p] = "raw" /\ deltas[p] = <<>>
  BY DEF DriversInit, Init
<1>4. PlaceInv /\ ListsInv
  BY <1>3 DEF DriversInit, PlaceInv, ListsInv
<1>5. ExampleInv /\ LatencyInv
  BY DEF DriversInit, ExampleInv, LatencyInv, DeletionVerdict
<1> QED BY <1>1, <1>2, <1>4, <1>5 DEF DriversInv, DriverInv

(* The page of example.c is there, and is the copy, or the program ends.   *)
LEMMA GenerateExampleStep ==
  ASSUME DriversInv, GenerateExample
  PROVE  DriversInv'
<1>1. /\ EngineInv /\ DriverTypes /\ PlaceInv
      /\ pc = "generate" /\ program = "example" /\ edit = data /\ cut = Zero
      /\ UNCHANGED <<program, data, edit, block, count, announced, cut, matches>>
  BY DEF DriversInv, DriverInv, GenerateExample, At, PlaceInv
<1>2. \A p \in Pages : deltas[p] = <<>>
  BY <1>1, EngineFacts DEF PlaceInv, Live
<1>3. PICK enc \in Attempts(data, 0) :
         /\ Generate(page, data, enc, GenThres)
         /\ pc' = IF CompressCode(enc, GenThres) > 0 THEN "compare" ELSE "done"
  BY DEF GenerateExample, Go
<1>4. /\ EngineInv' /\ deltas' = deltas
      /\ CompressCode(enc, GenThres) > 0 => PageReads(page)' = data
  BY <1>1, <1>3, DriverConstants, GenerateDoes DEF DriverTypes
<1>5. DriverTypes' /\ PlaceInv'
  BY <1>1, <1>3 DEF DriverTypes, PlaceInv
<1>6. ListsInv'
  BY <1>1, <1>2, <1>3, <1>4 DEF ListsInv
<1>7. \A b \in Blocks : AsKept(b)' = data[b]
  BY <1>1 DEF AsKept, XOR, Zero
<1>8. ExampleInv' /\ LatencyInv'
  BY <1>1, <1>3, <1>4, <1>7 DEF ExampleInv, LatencyInv, Excused, DeletionVerdict
<1> QED BY <1>4, <1>5, <1>6, <1>8 DEF DriversInv, DriverInv

(* That of latency_prc.c always is.                                        *)
LEMMA GenerateLatencyStep ==
  ASSUME DriversInv, GenerateLatency
  PROVE  DriversInv'
<1>1. /\ EngineInv /\ DriverTypes /\ PlaceInv /\ ListsInv
      /\ pc = "generate" /\ program \in {"prc", "read"} /\ pc' = "edit"
      /\ UNCHANGED <<program, data, edit, block, count, announced, cut, matches>>
  BY DEF DriversInv, DriverInv, GenerateLatency, At, Go
<1>2. PICK enc \in Encodings(data, 0) : Generate(page, data, enc, AmpleThres)
  BY DEF GenerateLatency
<1>3. Fits(enc, 0, AmpleThres) /\ AmpleThres >= PageHeader
  <2>1. /\ enc # Refused
    <3>1. DOMAIN enc = Blocks /\ 0 \in Blocks
      BY <1>1, <1>2, WholeEncoding, DriverConstants DEF DriverTypes
    <3>2. DOMAIN Refused = {}
      BY DEF Refused
    <3> QED BY <3>1, <3>2
  <2>2. /\ AmpleThres >= PageHeader
        /\ PageHeader + StreamSize(enc, DOMAIN enc) <= AmpleThres
    BY AmpleIsEnough
  <2>3. StreamSize(enc, DOMAIN enc) \in Int
    BY StreamSizeType
  <2> QED BY <2>1, <2>2, <2>3, ConstantTypes DEF Fits
<1>4. enc \in Attempts(data, 0) /\ AmpleThres \in Nat
  BY DriversAssumption DEF Attempts
<1>5. EngineInv' /\ deltas' = deltas /\ PageReads(page)' = data
  BY <1>1, <1>2, <1>3, <1>4, DriverConstants, GenerateDoes DEF DriverTypes
<1>6. DriverTypes' /\ PlaceInv' /\ ListsInv'
  BY <1>1, <1>5 DEF DriverTypes, PlaceInv, ListsInv
<1>7. ExampleInv' /\ LatencyInv'
  BY <1>1, <1>5 DEF ExampleInv, LatencyInv
<1> QED BY <1>5, <1>6, <1>7 DEF DriversInv, DriverInv

(* At the end the other page's list is empty, and this one's is freed.     *)
LEMMA FreePageStep ==
  ASSUME DriversInv, FreePage
  PROVE  DriversInv'
<1>1. /\ EngineInv /\ DriverTypes /\ PlaceInv /\ ListsInv
      /\ pc = "free" /\ pc' = "done" /\ Free(page)
      /\ UNCHANGED <<program, data, edit, block, count, announced, cut, matches>>
  BY DEF DriversInv, DriverInv, FreePage, Go
<1>2. EngineInv'
  BY <1>1, DriverConstants, EngineFacts, FreeKeeps, CountedFree DEF EngineInv, PageInv
<1>3. \A p \in Pages : deltas'[p] = <<>>
  <2> DEFINE none == <<>>
  <2>1. deltas' = [deltas EXCEPT ![page] = none] /\ deltas[newPage] = none
    BY <1>1 DEF Free, ListsInv
  <2>2. deltas \in [Pages -> Seq(DeltaNodes)]
    BY <1>1, EngineFacts DEF PageTypes
  <2> HIDE DEF none
  <2>3. \A p \in Pages : deltas'[p] = none
    BY <2>1, <2>2, DriverConstants
  <2> QED BY <2>3 DEF none
<1>4. DriverTypes' /\ PlaceInv' /\ ListsInv'
  BY <1>1, <1>3 DEF DriverTypes, PlaceInv, ListsInv
<1>5. ExampleInv' /\ LatencyInv'
  BY <1>1 DEF ExampleInv, LatencyInv, DeletionVerdict
<1> QED BY <1>2, <1>4, <1>5 DEF DriversInv, DriverInv

-----------------------------------------------------------------------------
(* The steps of example.c *)

(* The copy is edited first, so that the block may differ from the page.   *)
LEMMA EditExampleStep ==
  ASSUME DriversInv, EditExample
  PROVE  DriversInv'
<1>1. /\ EngineInv /\ DriverTypes /\ PlaceInv /\ ListsInv /\ ExampleInv
      /\ pc = "edit" /\ program = "example" /\ pc' = "update"
      /\ UNCHANGED <<status, stream, t_size, deltas, pool, ret>>
      /\ UNCHANGED <<program, data, count, announced, cut, matches>>
  BY DEF DriversInv, DriverInv, EditExample, At, Go, vars
<1>2. PICK b \in Blocks, v \in Content : edit' = [edit EXCEPT ![b] = v] /\ block' = b
  BY DEF EditExample, RandomEdit
<1>3. EngineInv'
  BY <1>1, EngineFacts, StutterKeeps, CountedStutter DEF EngineInv, PageInv
<1>4. PageReads(page)' = PageReads(page)
  BY <1>1 DEF PageReads, Base
<1>5. edit' \in PageContent /\ \A c \in Blocks : c # b => edit'[c] = edit[c]
  BY <1>1, <1>2 DEF DriverTypes, PageContent
<1>6. DriverTypes' /\ PlaceInv' /\ ListsInv'
  BY <1>1, <1>2, <1>5 DEF DriverTypes, PlaceInv, ListsInv
<1>7. Excused(Blocks \ {block})'
  <2>1. \A c \in Blocks : c # b => AsKept(c)' = AsKept(c)
    BY <1>1, <1>5 DEF AsKept
  <2> QED BY <1>1, <1>2, <1>4, <2>1 DEF ExampleInv, Excused
<1>8. ExampleInv' /\ LatencyInv'
  BY <1>1, <1>7 DEF ExampleInv, LatencyInv, DeletionVerdict
<1> QED BY <1>3, <1>6, <1>8 DEF DriversInv, DriverInv

(* An update either puts the edit into the page, as far as its delta is    *)
(* decoded, or is announced.                                               *)
LEMMA UpdateExampleStep ==
  ASSUME DriversInv, UpdateExample
  PROVE  DriversInv'
<1> DEFINE v == edit[block]
           x == Base(page)[block]
           lost == CutOff(XOR(v, x))
           made == InPlace(x, XOR(v, x))
<1>1. /\ EngineInv /\ DriverTypes /\ PlaceInv /\ ListsInv /\ ExampleInv
      /\ pc = "update" /\ program = "example" /\ pc' = "compare"
      /\ announced' = [announced EXCEPT ![block] = Announces(ret'.code)]
      /\ cut' = [cut EXCEPT ![block] = IF ret'.code = 0 THEN lost ELSE {}]
      /\ UNCHANGED <<program, data, edit, block, count, matches>>
  BY DEF DriversInv, DriverInv, UpdateExample, At, Go
<1>2. /\ v \in Content /\ x \in Content /\ PageReads(page) \in PageContent
      /\ block \in Blocks
  BY <1>1, EngineFacts, DriverConstants, PageReadsBlock DEF DriverTypes, PageContent
<1>3. lost \in Content /\ made = XOR(v, lost)
  <2>1. XOR(v, x) \in Content
    BY <1>2, XORType
  <2>2. lost = XOR(v, x) \ Reached[XOR(v, x)]
    BY DEF CutOff
  <2>3. made = (XOR(x, XOR(v, x)) \cap Reached[XOR(v, x)]) \cup (x \ Reached[XOR(v, x)])
    BY DEF InPlace, DecodePacked
  <2> HIDE DEF v, x, lost, made
  <2> QED BY <2>1, <2>2, <2>3 DEF XOR, Content
<1>4. /\ EngineInv'
      /\ \/ ret'.code = 0 /\ PageReads(page)' = [PageReads(page) EXCEPT ![block] = made]
         \/ ret'.code # 0 /\ PageReads(page)' = PageReads(page)
  <2>1. UpdateDelta(page, block, v, EditLimit, TRUE) \/ UpdateScratch(page, block, v, EditLimit)
    BY DEF UpdateExample
  <2> HIDE DEF v
  <2> QED BY <1>1, <1>2, <2>1, DriverConstants, UpdateDoes
<1> HIDE DEF lost, made
<1>5. Announces(ret'.code) \in BOOLEAN /\ (Announces(ret'.code) <=> ret'.code # 0)
  BY DEF Announces
<1>6. /\ announced' \in [Blocks -> BOOLEAN]
      /\ announced'[block] <=> ret'.code # 0
      /\ \A b \in Blocks \ {block} : announced'[b] = announced[b]
  BY <1>1, <1>5 DEF DriverTypes
<1>7. /\ cut' \in [Blocks -> Content]
      /\ ret'.code = 0 => cut'[block] = lost
      /\ \A b \in Blocks \ {block} : cut'[b] = cut[b]
  BY <1>1, <1>2, <1>3 DEF DriverTypes, Content
<1>8. DriverTypes' /\ PlaceInv' /\ ListsInv'
  BY <1>1, <1>6, <1>7 DEF DriverTypes, PlaceInv, ListsInv
<1>9. Excused(Blocks)'
  <2>1. ASSUME NEW b \in Blocks, b # block
        PROVE  announced'[b] \/ (PageReads(page)')[b] = AsKept(b)'
    <3>1. (PageReads(page)')[b] = PageReads(page)[b]
      BY <1>2, <1>4, <2>1 DEF PageContent
    <3>2. announced[b] \/ PageReads(page)[b] = AsKept(b)
      BY <1>1, <2>1 DEF ExampleInv, Excused
    <3>3. AsKept(b)' = AsKept(b) /\ announced'[b] = announced[b]
      BY <1>1, <1>6, <1>7, <2>1 DEF AsKept
    <3> QED BY <3>1, <3>2, <3>3
  <2>2. announced'[block] \/ (PageReads(page)')[block] = AsKept(block)'
    <3>1. CASE ret'.code # 0
      BY <1>6, <3>1
    <3>2. CASE ret'.code = 0
      <4>1. (PageReads(page)')[block] = made
        BY <1>2, <1>4, <3>2 DEF PageContent
      <4>2. AsKept(block)' = XOR(v, lost)
        BY <1>1, <1>7, <3>2 DEF AsKept
      <4> QED BY <1>3, <4>1, <4>2
    <3> QED BY <3>1, <3>2
  <2>3. \A b \in Blocks : announced'[b] \/ (PageReads(page)')[b] = AsKept(b)'
    <3> SUFFICES ASSUME NEW b \in Blocks
                 PROVE  announced'[b] \/ (PageReads(page)')[b] = AsKept(b)'
      OBVIOUS
    <3>1. CASE b = block
      <4>1. AsKept(b)' = AsKept(block)'
        BY <1>1, <3>1 DEF AsKept
      <4> QED BY <2>2, <3>1, <4>1
    <3>2. CASE b # block
      BY <2>1, <3>2
    <3> QED BY <3>1, <3>2
  <2> QED BY <2>3 DEF Excused
<1>10. ExampleInv' /\ LatencyInv'
  BY <1>1, <1>9 DEF ExampleInv, LatencyInv, DeletionVerdict
<1> QED BY <1>4, <1>8, <1>10 DEF DriversInv, DriverInv

(* A block whose delta is decoded to its end is kept as it is.             *)
LEMMA NothingCut == \A b : cut[b] = {} => AsKept(b) = edit[b]
BY DEF AsKept, XOR

(* A comparison that fails has met a block that differs.                   *)
LEMMA CompareExampleStep ==
  ASSUME DriversInv, CompareExample
  PROVE  DriversInv'
<1>1. /\ EngineInv /\ DriverTypes /\ PlaceInv /\ ListsInv /\ ExampleInv
      /\ pc = "compare" /\ program = "example" /\ pc' \in {"edit", "delete"}
      /\ Decompress(page, NumBlocks) /\ matches' = (ret'.out = edit)
      /\ count' = count + 1
      /\ UNCHANGED <<program, data, edit, block, announced, cut>>
  BY DEF DriversInv, DriverInv, CompareExample, ComparePage, Counted, At, Go
<1>2. /\ EngineInv' /\ UNCHANGED <<status, stream, deltas, pool>>
      /\ ret'.out = PageReads(page)
  BY <1>1, DriverConstants, ReadDoes
<1>3. PageReads(page)' = PageReads(page) /\ PageReads(page) \in PageContent
  BY <1>1, <1>2, EngineFacts, DriverConstants, PageReadsBlock DEF PageReads, Base
<1>4. DriverTypes' /\ PlaceInv' /\ ListsInv'
  BY <1>1, <1>2 DEF DriverTypes, PlaceInv, ListsInv
<1>5. Excused(Blocks)'
  BY <1>1, <1>3 DEF ExampleInv, Excused, AsKept
<1>6. ASSUME ~matches' PROVE \E b \in Blocks : announced[b] \/ cut[b] # {}
  <2>1. PageReads(page) # edit
    BY <1>1, <1>2, <1>6
  <2>2. PICK b \in Blocks : PageReads(page)[b] # edit[b]
    BY <1>1, <1>3, <2>1 DEF DriverTypes, PageContent
  <2>3. announced[b] \/ PageReads(page)[b] = AsKept(b)
    BY <1>1 DEF ExampleInv, Excused
  <2> QED BY <2>2, <2>3, NothingCut
<1>7. ExampleInv' /\ LatencyInv'
  BY <1>1, <1>5, <1>6 DEF ExampleInv, LatencyInv, DeletionVerdict
<1> QED BY <1>2, <1>4, <1>7 DEF DriversInv, DriverInv

(* The new page is as the page was with the deleted blocks cleared, up to  *)
(* the copies of a block that has a delta.                                 *)
LEMMA DeleteExampleStep ==
  ASSUME DriversInv, DeleteExample
  PROVE  DriversInv'
<1> DEFINE src == DeletedPage(page, DelStart, DelTotal)
<1>1. /\ EngineInv /\ DriverTypes /\ PlaceInv /\ ListsInv /\ ExampleInv
      /\ pc = "delete" /\ program = "example" /\ pc' = "compare_new"
      /\ edit' = Cleared(edit) /\ cut' = Cleared(cut)
      /\ announced' = [b \in Blocks |-> announced[b] /\ ~IsDeleted(b)]
      /\ UNCHANGED <<program, data, block, count, matches>>
  BY DEF DriversInv, DriverInv, DeleteExample, At, Go
<1>2. PICK enc \in Encodings(src, DelStart) :
         Delete(page, newPage, DelStart, DelTotal, enc, AmpleThres)
  BY DEF DeleteExample
<1>3. /\ EngineInv'
      /\ \A b \in Blocks : \A v : v = src[b] =>
             PageReads(newPage)'[b] = v \/ StaleCopy(newPage, b, v, DelStart)'
  BY <1>1, <1>2, DriverConstants, DeleteDoes
<1>4. \A b \in Blocks : src[b] = IF IsDeleted(b) THEN {} ELSE PageReads(page)[b]
  BY DEF DeletedPage, IsDeleted
<1>5. \A b \in Blocks :
         /\ edit'[b] = IF IsDeleted(b) THEN {} ELSE edit[b]
         /\ cut'[b] = IF IsDeleted(b) THEN {} ELSE cut[b]
         /\ announced'[b] <=> announced[b] /\ ~IsDeleted(b)
  BY <1>1 DEF Cleared
<1> HIDE DEF src
<1>6. edit' \in PageContent /\ cut' \in [Blocks -> Content] /\ announced' \in [Blocks -> BOOLEAN]
  <2>1. \A b \in Blocks : edit'[b] \in Content /\ cut'[b] \in Content
    BY <1>1, <1>5 DEF DriverTypes, PageContent, Content
  <2>2. announced' \in [Blocks -> BOOLEAN]
    BY <1>1
  <2> QED BY <1>1, <2>1, <2>2 DEF Cleared, PageContent
<1>7. DriverTypes' /\ PlaceInv' /\ ListsInv'
  BY <1>1, <1>6 DEF DriverTypes, PlaceInv, ListsInv
<1>8. ASSUME NEW b \in Blocks
      PROVE  announced'[b] \/ src[b] = AsKept(b)'
  <2>1. CASE IsDeleted(b)
    BY <1>4, <1>5, <2>1 DEF AsKept, XOR
  <2>2. CASE ~IsDeleted(b)
    <3>1. announced[b] \/ PageReads(page)[b] = AsKept(b)
      BY <1>1 DEF ExampleInv, Excused
    <3>2. AsKept(b)' = AsKept(b)
      BY <1>5, <2>2 DEF AsKept
    <3> QED BY <1>4, <1>5, <2>2, <3>1, <3>2
  <2> QED BY <2>1, <2>2
<1>9. \A b \in Blocks : \A v : StaleCopy(newPage, b, v, DelStart)' /\ v = AsKept(b)' => Stale(b)'
  BY DEF StaleCopy, Stale
<1>10. \A b \in Blocks : \/ announced'[b] \/ (PageReads(newPage)')[b] = AsKept(b)'
                         \/ Stale(b)'
  BY <1>3, <1>8, <1>9
<1>11. ExampleInv' /\ LatencyInv'
  BY <1>1, <1>10 DEF ExampleInv, LatencyInv, DeletionVerdict
<1> QED BY <1>3, <1>7, <1>11 DEF DriversInv, DriverInv

(* The verdict on the new page.                                            *)
LEMMA CompareNewStep ==
  ASSUME DriversInv, CompareNew
  PROVE  DriversInv'
<1>1. /\ EngineInv /\ DriverTypes /\ PlaceInv /\ ListsInv /\ ExampleInv
      /\ pc = "compare_new" /\ program = "example" /\ pc' = "free_new"
      /\ Decompress(newPage, NumBlocks) /\ matches' = (ret'.out = edit)
      /\ UNCHANGED <<program, data, edit, block, count, announced, cut>>
  BY DEF DriversInv, DriverInv, CompareNew, ComparePage, At, Go
<1>2. /\ EngineInv' /\ UNCHANGED <<status, stream, deltas, pool>>
      /\ ret'.out = PageReads(newPage)
  BY <1>1, DriverConstants, ReadDoes
<1>3. DriverTypes' /\ PlaceInv' /\ ListsInv'
  BY <1>1, <1>2 DEF DriverTypes, PlaceInv, ListsInv
<1>4. PageReads(newPage)' = PageReads(newPage) /\ PageReads(newPage) \in PageContent
  BY <1>1, <1>2, EngineFacts, DriverConstants, PageReadsBlock DEF PageReads, Base
<1>5. ASSUME NEW b \in Blocks
      PROVE  announced[b] \/ PageReads(newPage)[b] = AsKept(b) \/ Stale(b)
  BY <1>1 DEF ExampleInv
<1>6. \A b \in Blocks : AsKept(b)' = AsKept(b) /\ Stale(b)' = Stale(b)
  BY <1>1, <1>2, <1>4 DEF AsKept, Stale, Base
<1>7. ASSUME ~matches' PROVE \E b \in Blocks : announced[b] \/ cut[b] # {} \/ Stale(b)
  <2>1. PageReads(newPage) # edit
    BY <1>1, <1>2, <1>7
  <2>2. PICK b \in Blocks : PageReads(newPage)[b] # edit[b]
    BY <1>1, <1>4, <2>1 DEF DriverTypes, PageContent
  <2> QED BY <1>5, <2>2, NothingCut
<1>8. DeletionVerdict'
  BY <1>1, <1>4, <1>5, <1>6, <1>7 DEF DeletionVerdict
<1>9. ExampleInv' /\ LatencyInv'
  BY <1>1, <1>8 DEF ExampleInv, LatencyInv
<1> QED BY <1>2, <1>3, <1>9 DEF DriversInv, DriverInv

(* The new page is freed with its list.                                    *)
LEMMA FreeNewStep ==
  ASSUME DriversInv, FreeNew
  PROVE  DriversInv'
<1>1. /\ EngineInv /\ DriverTypes /\ PlaceInv /\ ListsInv
      /\ pc = "free_new" /\ program = "example" /\ pc' = "free" /\ Free(newPage)
      /\ UNCHANGED <<program, data, edit, block, count, announced, cut, matches>>
  BY DEF DriversInv, DriverInv, FreeNew, At, Go
<1>2. EngineInv'
  BY <1>1, DriverConstants, EngineFacts, FreeKeeps, CountedFree DEF EngineInv, PageInv
<1>3. deltas'[newPage] = <<>>
  <2> DEFINE none == <<>>
  <2>1. deltas' = [deltas EXCEPT ![newPage] = none]
    BY <1>1 DEF Free
  <2>2. deltas \in [Pages -> Seq(DeltaNodes)]
    BY <1>1, EngineFacts DEF PageTypes
  <2> HIDE DEF none
  <2>3. deltas'[newPage] = none
    BY <2>1, <2>2, DriverConstants
  <2> QED BY <2>3 DEF none
<1>4. DriverTypes' /\ PlaceInv' /\ ListsInv'
  BY <1>1, <1>3 DEF DriverTypes, PlaceInv, ListsInv
<1>5. ExampleInv' /\ LatencyInv'
  BY <1>1 DEF ExampleInv, LatencyInv, DeletionVerdict
<1> QED BY <1>2, <1>4, <1>5 DEF DriversInv, DriverInv

-----------------------------------------------------------------------------
(* The steps of latency_prc.c *)

(* The edit is made once, before the turns.                                *)
LEMMA EditLatencyStep ==
  ASSUME DriversInv, EditLatency
  PROVE  DriversInv'
<1>1. /\ EngineInv /\ DriverTypes /\ PlaceInv /\ ListsInv /\ LatencyInv
      /\ pc = "edit" /\ program \in {"prc", "read"} /\ pc' = "repeat"
      /\ UNCHANGED <<status, stream, t_size, deltas, pool, ret>>
      /\ UNCHANGED <<program, data, count, announced, cut, matches>>
  BY DEF DriversInv, DriverInv, EditLatency, At, Go, vars
<1>2. PICK b \in Blocks, v \in Content : edit' = [edit EXCEPT ![b] = v] /\ block' = b
  BY DEF EditLatency, RandomEdit
<1>3. EngineInv'
  BY <1>1, EngineFacts, StutterKeeps, CountedStutter DEF EngineInv, PageInv
<1>4. PageReads(page)' = PageReads(page)
  BY <1>1 DEF PageReads, Base
<1>5. edit' \in PageContent
  BY <1>1, <1>2 DEF DriverTypes, PageContent
<1>6. DriverTypes' /\ PlaceInv' /\ ListsInv'
  BY <1>1, <1>2, <1>5 DEF DriverTypes, PlaceInv, ListsInv
<1>7. count = 0
  BY <1>1 DEF PlaceInv
<1>8. ExampleInv' /\ LatencyInv'
  BY <1>1, <1>4, <1>7 DEF ExampleInv, LatencyInv
<1> QED BY <1>3, <1>6, <1>8 DEF DriversInv, DriverInv

(* Nothing is kept of a list without nodes.                                *)
LEMMA NothingKept ==
  ASSUME NEW p, NEW first, deltas[p] = <<>>
  PROVE  Kept(p, first) = <<>>
<1> DEFINE F == {}
<1>1. deltas[p] \in Seq(Nodes(F)) /\ Len(deltas[p]) = 0
  <2>1. \A T : <<>> \in Seq(T) /\ Len(<<>>) = 0
    OBVIOUS
  <2> HIDE DEF F
  <2> QED BY <2>1
<1> HIDE DEF F
<1>2. \E after : KeepSteps(after, deltas[p], first) /\ Kept(p, first) = after[Len(deltas[p])]
  BY <1>1, KeptLoop, ZenonT(60)
<1>3. PICK after : KeepSteps(after, deltas[p], first) /\ Kept(p, first) = after[Len(deltas[p])]
  BY <1>2
<1>4. after[0] = <<>>
  BY <1>3 DEF KeepSteps
<1> QED BY <1>1, <1>3, <1>4

(* Each turn compresses the same page, although its buffer counts as moved *)
(* after the first, over the page of the turn before.                      *)
LEMMA UpdateAgainStep ==
  ASSUME DriversInv, UpdateAgain
  PROVE  DriversInv'
<1>1. /\ EngineInv /\ DriverTypes /\ PlaceInv /\ ListsInv /\ LatencyInv
      /\ pc = "repeat" /\ program = "prc" /\ count' = count + 1
      /\ UNCHANGED <<program, pc, data, edit, block, announced, cut, matches>>
  BY DEF DriversInv, DriverInv, UpdateAgain, At, Counted
<1>2. /\ TypeOK /\ StoreInv /\ MemoryInv
      /\ deltas \in [Pages -> Seq(DeltaNodes)]
      /\ status \in [Pages -> {"raw", "live", "moved", "torn"}]
      /\ \A p \in Pages : deltas[p] = <<>>
  BY <1>1, EngineFacts DEF ListsInv, PageTypes
<1> DEFINE src == UpdatedTail(page, block, NewValue)
           none == <<>>
<1>3. PICK enc \in Encodings(src, block) : Recompress(page, newPage, block, enc, AmpleThres)
  BY DEF UpdateAgain
<1>4. block \in Blocks /\ NewValue \in Content
  BY <1>1, DriverConstants DEF DriverTypes, NewValue, PageContent
<1>5. /\ src \in PageContent
      /\ \A c \in Blocks : src[c] = IF c < block THEN Base(page)[c]
                                    ELSE IF c = block THEN NewValue ELSE PageReads(page)[c]
  BY <1>2, <1>4, DriverConstants, UpdatedBlocks
<1>6. PageReads(page) = data /\ Base(page) = data
  <2>1. Base(page) \in PageContent
    BY <1>2, DriverConstants, BaseType
  <2>2. PageReads(page) = Base(page)
    BY <1>2, <2>1, DriverConstants, NoDeltasRead DEF PageReads
  <2> QED BY <1>1, <2>2 DEF LatencyInv
<1>7. Kept(page, block) = none
  BY <1>2, DriverConstants, NothingKept
<1> HIDE DEF src, none
<1>8. src = [data EXCEPT ![block] = edit[0]]
  <2> DEFINE new == [data EXCEPT ![block] = edit[0]]
  <2>1. data \in PageContent /\ edit[0] \in Content /\ NewValue = edit[0]
    BY <1>1, <1>4 DEF DriverTypes, NewValue
  <2>2. new \in PageContent
    BY <1>4, <2>1 DEF PageContent
  <2>3. \A c \in Blocks : new[c] = IF c = block THEN edit[0] ELSE data[c]
    BY <2>1 DEF PageContent
  <2>4. \A c \in Blocks : src[c] = new[c]
    <3> HIDE DEF new
    <3> QED BY <1>4, <1>5, <1>6, <2>1, <2>3, ConstantTypes
  <2> HIDE DEF new
  <2>5. src = new
    BY <1>5, <2>2, <2>4 DEF PageContent
  <2> QED BY <2>5 DEF new
<1>9. /\ PageTypes' /\ SizeInv'
      /\ status' = [status EXCEPT ![page] = "moved", ![newPage] = "live"]
      /\ stream' = [stream EXCEPT ![newPage] = Stitch(stream[page], enc, block)]
      /\ deltas' = [deltas EXCEPT ![page] = none, ![newPage] = none]
      /\ pool' = pool \ (SlotsOf(deltas[page]) \ SlotsOf(none))
      /\ PageReads(newPage)' = src
  <2>1. \A c \in Blocks : c < block => src[c] = Base(page)[c]
    BY <1>5
  <2> QED BY <1>1, <1>3, <1>4, <1>5, <1>7, <2>1, DriverConstants, RecompressDoes DEF none
<1>10. deltas' = deltas /\ pool' = pool
  <2>1. deltas[page] = none /\ deltas[newPage] = none
    BY <1>2, DriverConstants DEF none
  <2>2. deltas' = deltas
    BY <1>2, <1>9, <2>1
  <2>3. SlotsOf(deltas[page]) = {}
    BY <2>1, NoSlots DEF none
  <2> QED BY <1>9, <2>2, <2>3
<1>11. MemoryInv'
  <2>1. status' \in [Pages -> {"raw", "live", "moved", "torn"}]
    BY <1>2, <1>9
  <2> QED BY <1>2, <1>10, <2>1, SameListsKeep
<1>12. EngineInv'
  BY <1>9, <1>11 DEF EngineInv, PageInv
<1>13. PageReads(page)' = data
  <2>1. stream'[page] = stream[page]
    <3>1. stream \in [Pages -> Streams]
      BY <1>1, EngineFacts DEF PageTypes
    <3> QED BY <1>9, <3>1, DriverConstants
  <2> QED BY <1>6, <1>10, <2>1 DEF PageReads, Base
<1>14. DriverTypes' /\ PlaceInv' /\ ListsInv'
  BY <1>1, <1>10 DEF DriverTypes, PlaceInv, ListsInv
<1>15. ExampleInv' /\ LatencyInv'
  BY <1>1, <1>8, <1>9, <1>13 DEF ExampleInv, LatencyInv
<1> QED BY <1>12, <1>14, <1>15 DEF DriversInv, DriverInv

(* Reading changes nothing.                                                *)
LEMMA ReadAgainStep ==
  ASSUME DriversInv, ReadAgain
  PROVE  DriversInv'
<1>1. /\ EngineInv /\ DriverTypes /\ PlaceInv /\ ListsInv /\ LatencyInv
      /\ pc = "repeat" /\ program = "read" /\ Decompress(page, NumBlocks)
      /\ count' = count + 1
      /\ UNCHANGED <<program, pc, data, edit, block, announced, cut, matches>>
  BY DEF DriversInv, DriverInv, ReadAgain, At, Counted
<1>2. EngineInv' /\ UNCHANGED <<status, stream, deltas, pool>>
  BY <1>1, DriverConstants, ReadDoes
<1>3. PageReads(page)' = PageReads(page)
  BY <1>2 DEF PageReads, Base
<1>4. DriverTypes' /\ PlaceInv' /\ ListsInv'
  BY <1>1, <1>2 DEF DriverTypes, PlaceInv, ListsInv
<1>5. ExampleInv' /\ LatencyInv'
  BY <1>1, <1>3 DEF ExampleInv, LatencyInv
<1> QED BY <1>2, <1>4, <1>5 DEF DriversInv, DriverInv

(* The last new page is dropped with no list to lose.                      *)
LEMMA DropNewStep ==
  ASSUME DriversInv, DropNew
  PROVE  DriversInv'
<1> DEFINE none == <<>>
           zero == 0
<1>1. /\ EngineInv /\ DriverTypes /\ PlaceInv /\ ListsInv /\ LatencyInv
      /\ pc = "repeat" /\ program \in {"prc", "read"} /\ pc' = "free"
      /\ UNCHANGED <<pool, program, data, edit, block, count, announced, cut, matches>>
      /\ status' = [status EXCEPT ![newPage] = "raw"]
      /\ stream' = [stream EXCEPT ![newPage] = Empty]
      /\ t_size' = [t_size EXCEPT ![newPage] = zero]
      /\ deltas' = [deltas EXCEPT ![newPage] = none]
  BY DEF DriversInv, DriverInv, DropNew, At, Go
<1>2. /\ TypeOK /\ MemoryInv /\ SizeInv
      /\ stream \in [Pages -> Streams] /\ t_size \in [Pages -> Shorts]
      /\ deltas \in [Pages -> Seq(DeltaNodes)]
      /\ status \in [Pages -> {"raw", "live", "moved", "torn"}]
      /\ \A p \in Pages : deltas[p] = none
  BY <1>1, EngineFacts DEF ListsInv, PageTypes
<1>3. zero \in Shorts
  <2>1. zero \in Int /\ Int16(zero) = zero
    BY DEF Int16
  <2> QED BY <2>1, Int16Facts
<1>4. \A p \in Pages : deltas[p] = <<>>
  BY <1>2
<1> HIDE DEF none, zero
<1>5. deltas' = deltas
  BY <1>1, <1>2, DriverConstants
<1>6. MemoryInv'
  <2>1. status' \in [Pages -> {"raw", "live", "moved", "torn"}]
    BY <1>1, <1>2
  <2> QED BY <1>1, <1>2, <1>4, <1>5, <2>1, SameListsKeep
<1>7. PageTypes' /\ SizeInv'
  <2>1. PageTypes'
    BY <1>1, <1>2, <1>3, <1>5, EmptyType DEF PageTypes
  <2>2. /\ status'[newPage] = "raw"
        /\ \A r \in Pages \ {newPage} : /\ stream'[r] = stream[r] /\ t_size'[r] = t_size[r]
                                        /\ deltas'[r] = deltas[r] /\ status'[r] = status[r]
    BY <1>1, <1>2, <1>5, DriverConstants
  <2>3. newPage \notin Live'
    BY <2>2 DEF Live
  <2> QED BY <1>2, <2>1, <2>2, <2>3, CountedPages DEF Live
<1>8. DriverTypes' /\ PlaceInv' /\ ListsInv'
  BY <1>1, <1>4, <1>5, DriverConstants DEF DriverTypes, PlaceInv, ListsInv
<1>9. ExampleInv' /\ LatencyInv'
  BY <1>1 DEF ExampleInv, LatencyInv
<1> QED BY <1>6, <1>7, <1>8, <1>9 DEF DriversInv, DriverInv, EngineInv, PageInv

-----------------------------------------------------------------------------
(* What the programs show *)

(* The engine's invariants and the drivers' hold in every reachable state, *)
(* although latency_prc.c goes on compressing a page that has moved and    *)
(* drops its last one without zapi_free_page.                              *)
THEOREM DriversInvariant == DriversSpec => []DriversInv
<1>1. DriversInit => DriversInv
  BY InitHolds
<1>2. DriversInv /\ [DriversNext]_allVars => DriversInv'
  <2> SUFFICES ASSUME DriversInv, [DriversNext]_allVars PROVE DriversInv'
    OBVIOUS
  <2>1. CASE UNCHANGED allVars
    <3>1. /\ UNCHANGED <<status, stream, t_size, deltas, pool>>
          /\ UNCHANGED <<program, pc, data, edit, block, count, announced, cut, matches>>
          /\ EngineInv /\ DriverInv
      BY <2>1 DEF allVars, vars, driver, DriversInv
    <3>2. EngineInv'
      BY <3>1, EngineFacts, StutterKeeps, CountedStutter DEF EngineInv, PageInv
    <3>3. PageReads(page)' = PageReads(page) /\ PageReads(newPage)' = PageReads(newPage)
      BY <3>1 DEF PageReads, Base
    <3>4. DriverTypes' /\ PlaceInv' /\ ListsInv'
      BY <3>1 DEF DriverInv, DriverTypes, PlaceInv, ListsInv
    <3>5. \A b \in Blocks : AsKept(b)' = AsKept(b) /\ Stale(b)' = Stale(b)
      BY <3>1, <3>3 DEF AsKept, Stale, Base
    <3>6. ExampleInv' /\ LatencyInv'
      BY <3>1, <3>3, <3>5 DEF DriverInv, ExampleInv, LatencyInv, Excused, DeletionVerdict
    <3> QED BY <3>2, <3>4, <3>6 DEF DriversInv, DriverInv
  <2>2. CASE Step
    BY <2>2, GenerateExampleStep, EditExampleStep, UpdateExampleStep, CompareExampleStep,
       DeleteExampleStep, CompareNewStep, FreeNewStep, GenerateLatencyStep, EditLatencyStep,
       UpdateAgainStep, ReadAgainStep, DropNewStep, FreePageStep DEF Step
  <2> QED BY <2>1, <2>2 DEF DriversNext, Done
<1> QED BY <1>1, <1>2, PTL DEF DriversSpec

(* Whatever example.c finds different between its page and the copy, it    *)
(* was told of, or its own last delta of the block is not decoded to just  *)
(* there: for any number of edits, any files, any limit and whatever the   *)
(* decoder gets to of a delta.                                             *)
THEOREM FailuresAreAnnounced == DriversSpec => []FailureAnnounced
<1>1. DriversInv => FailureAnnounced
  BY DEF DriversInv, DriverInv, PlaceInv, ExampleInv, Excused, FailureAnnounced, At
<1> QED BY <1>1, DriversInvariant, PTL

(* The page after the deletion is wrong only where an update was announced *)
(* as failed, in the cells a delta lost, or as a copy of a block before    *)
(* the deletion without that block's delta.                                *)
THEOREM VerdictIsExplained == DriversSpec => []DeletionVerdict
<1>1. DriversInv => DeletionVerdict
  BY DEF DriversInv, DriverInv, PlaceInv, ExampleInv, DeletionVerdict
<1> QED BY <1>1, DriversInvariant, PTL

(* When a program ends, every delta node has been given back.              *)
THEOREM NothingIsLeft == DriversSpec => []NothingLeft
<1>1. DriversInv => NothingLeft
  <2> SUFFICES ASSUME DriversInv, pc = "done" PROVE pool = {}
    BY DEF NothingLeft
  <2>1. \A p \in Pages : SlotsOf(deltas[p]) = {}
    BY NoSlots DEF DriversInv, DriverInv, ListsInv
  <2>2. pool = UNION {SlotsOf(deltas[p]) : p \in Pages}
    BY DEF DriversInv, EngineInv, MemoryInv
  <2> QED BY <2>1, <2>2
<1> QED BY <1>1, DriversInvariant, PTL

(* Every turn of the latency test does what the first did.                 *)
THEOREM TurnsAreAlike == DriversSpec => []SameWorkEveryTime
<1>1. DriversInv => SameWorkEveryTime
  BY DriverConstants
     DEF DriversInv, DriverInv, ListsInv, LatencyInv, SameWorkEveryTime, At
<1> QED BY <1>1, DriversInvariant, PTL

=============================================================================
