--------------------------- MODULE Lz4StreamProofs ---------------------------
(***************************************************************************)
(* Proofs about Lz4Stream, for any pages, budgets, hash functions, table   *)
(* sizes and windows: the compressor stays in its budget, the words that   *)
(* its copies write too much included; matches lie in the window; and the  *)
(* hash table is never ahead of the position that is looked up.            *)
(***************************************************************************)
EXTENDS Lz4Stream, Iteration, TLAPS

PageInv ==
    /\ page \in Seq(Seq(Nat)) /\ page # <<>>
    /\ \A b \in DOMAIN page : Len(page[b]) = BlockSz
    /\ budget \in Nat /\ weights \in [1..5 -> Nat]

Phases == {"idle", "block", "search", "match", "last", "refused"}

(* The fields of the encoder; its sequences may be anything.               *)
EncoderType(e) ==
    e \in [pc : Phases, blk : Nat, ip : Nat, step : Nat, nb : Nat, anchor : Nat,
           match : Int, head : Nat, op : Nat, reach : Nat, sqs : {e.sqs}]

TypeInv ==
    /\ EncoderType(enc)
    /\ table \in [0..(HashSize - 1) -> Nat]
    /\ cctx \in [dictSize : Nat, currentOffset : Nat]
    /\ ends \in Seq(Nat)

(* Which block it is about, and that compression is over when a page is    *)
(* decompressed.                                                           *)
BlockInv ==
    /\ Len(ends) = enc.blk
    /\ enc.blk <= NumBlocks
    /\ enc.pc \in {"block", "search", "match", "last"} => enc.blk < NumBlocks
    /\ dec.pc \in {"run", "end"} => enc.pc = "idle" /\ enc.blk = NumBlocks
    /\ cctx.dictSize <= Source

(* No index of the table is above n.                                       *)
TableUpTo(n) == \A h \in 0..(HashSize - 1) : table[h] <= n

AtBlock == enc.pc = "block" => TableUpTo(cctx.currentOffset)

AtSearch ==
    enc.pc = "search" =>
        /\ BlockSz > MFLimit
        /\ enc.anchor \in Source..MatchLimit
        /\ enc.ip > Source /\ enc.ip >= enc.anchor /\ enc.ip <= MFLimitPlusOne
        /\ enc.step >= 1 /\ enc.nb >= SkipUnit
        /\ TableUpTo(Index(enc.ip) - 1)

AtMatch ==
    enc.pc = "match" =>
        /\ BlockSz > MFLimit
        /\ enc.anchor \in Source..enc.ip /\ enc.ip < MFLimitPlusOne
        /\ enc.ip - enc.match \in 1..DistanceMax
        /\ enc.match >= LowLimit
        /\ enc.op + 2 <= budget
        /\ TableUpTo(Index(enc.ip + MatchLength(enc.ip, enc.match)) - 1)

AtLast ==
    enc.pc = "last" =>
        /\ enc.anchor \in Source..IEnd
        /\ TableUpTo(Index(IEnd))

BudgetInv ==
    /\ enc.op <= budget \/ enc.op <= enc.head
    /\ enc.reach <= budget \/ enc.reach <= enc.head

IInv == PageInv /\ TypeInv /\ BlockInv /\ AtBlock /\ AtSearch /\ AtMatch /\ AtLast /\ BudgetInv

-----------------------------------------------------------------------------
(* Least and greatest elements *)

(* The smaller and the larger of two integers.                             *)
LEMMA OfTwo ==
  ASSUME NEW a \in Int, NEW b \in Int
  PROVE  /\ Min({a, b}) \in {a, b} /\ Min({a, b}) <= a /\ Min({a, b}) <= b
         /\ Max({a, b}) \in {a, b} /\ Max({a, b}) >= a /\ Max({a, b}) >= b
<1>1. /\ \E x \in {a, b} : \A y \in {a, b} : x <= y
      /\ \E x \in {a, b} : \A y \in {a, b} : x >= y
  OBVIOUS
<1>2. Min({a, b}) \in {a, b} /\ \A y \in {a, b} : Min({a, b}) <= y
  BY <1>1 DEF Min
<1>3. Max({a, b}) \in {a, b} /\ \A y \in {a, b} : Max({a, b}) >= y
  BY <1>1 DEF Max
<1> QED BY <1>2, <1>3

(* The least of some naturals.                                             *)
LEMMA MinOfNaturals ==
  ASSUME NEW S \in SUBSET Nat, S # {}
  PROVE  Min(S) \in S /\ \A m \in S : Min(S) <= m
BY LeastNatural DEF Min

(* Naturals with a bound have a greatest one.                              *)
LEMMA MaxOfBounded ==
  ASSUME NEW n \in Nat, NEW S \in SUBSET (0..n), S # {}
  PROVE  Max(S) \in S
<1> DEFINE T == {m \in Nat : n - m \in S}
<1>1. T \in SUBSET Nat
  OBVIOUS
<1>2. \A y \in S : n - y \in T
  <2> TAKE y \in S
  <2>1. y \in Int /\ n - y \in Nat /\ n - (n - y) = y
    OBVIOUS
  <2> QED BY <2>1
<1>3. T # {}
  BY <1>2
<1>4. PICK t \in T : \A u \in T : t <= u
  <2> HIDE DEF T
  <2> QED BY <1>1, <1>3, LeastNatural
<1>5. \A y \in S : n - t >= y
  <2> TAKE y \in S
  <2>1. t <= n - y /\ y \in Int /\ t \in Nat
    BY <1>2, <1>4
  <2> QED BY <2>1
<1>6. n - t \in S
  OBVIOUS
<1> QED BY <1>5, <1>6 DEF Max

-----------------------------------------------------------------------------
(* What is written for a length *)

(* read_variable_length's bytes, as the divisions of the checks count them.*)
LEMMA ExtraBounds ==
  ASSUME NEW n \in Nat
  PROVE  /\ Extra(n) \in Nat
         /\ Extra(n) = (n + 240) \div 255
         /\ Extra(n) <= n \div 255 + 1
         /\ n = 0 => Extra(n) = 0
BY DEF Extra

(* A wild copy writes the bytes asked for, and at most eight more.         *)
LEMMA WildCopyBounds ==
  ASSUME NEW n \in Nat
  PROVE  /\ WildCopy(n) \in Nat
         /\ n <= WildCopy(n)
         /\ n > 0 => WildCopy(n) <= n + 7
         /\ n = 0 => WildCopy(n) = 8
BY DEF WildCopy

(* The check before literals are copied leaves room for the copy and for   *)
(* the offset of the match that follows.                                   *)
LEMMA LiteralsAreChecked ==
  ASSUME NEW n \in Nat, enc.op \in Nat, budget \in Nat, LiteralsFit(n)
  PROVE  /\ enc.op + LiteralSize(n) \in Nat
         /\ enc.op + LiteralSize(n) + 2 <= budget
         /\ enc.op + 1 + Extra(n) + WildCopy(n) \in Nat
         /\ enc.op + 1 + Extra(n) + WildCopy(n) <= budget
<1>1. /\ Extra(n) \in Nat /\ WildCopy(n) \in Nat
      /\ Extra(n) <= n \div 255 + 1 /\ n <= WildCopy(n)
      /\ Extra(n) + WildCopy(n) <= n + n \div 255 + 8
  <2>1. /\ Extra(n) \in Nat /\ Extra(n) <= n \div 255 + 1
        /\ n = 0 => Extra(n) = 0
    BY ExtraBounds
  <2>2. /\ WildCopy(n) \in Nat /\ n <= WildCopy(n)
        /\ n > 0 => WildCopy(n) <= n + 7
        /\ n = 0 => WildCopy(n) = 8
    BY WildCopyBounds
  <2> QED BY <2>1, <2>2
<1>2. enc.op + 1 + n + 8 + n \div 255 <= budget
  BY DEF LiteralsFit, LastLiterals
<1> QED BY <1>1, <1>2 DEF LiteralSize

(* LZ4_write32 writes less than what the check before a match allows.      *)
LEMMA MatchIsChecked ==
  ASSUME NEW len \in Nat, len >= MinMatch, enc.op \in Nat, budget \in Nat, MatchFits(len)
  PROVE  /\ enc.op + MatchSize(len) \in Nat
         /\ enc.op + MatchSize(len) + 3 <= budget
         /\ enc.op + 2 + WrittenForLength(len - MinMatch) \in Nat
         /\ enc.op + 2 + WrittenForLength(len - MinMatch) <= budget
<1> DEFINE code == len - MinMatch
<1>1. code \in Nat
  BY DEF MinMatch
<1>2. enc.op + 8 + (code + 240) \div 255 <= budget
  BY <1>1 DEF MatchFits, LastLiterals
<1> HIDE DEF code
<1>3. /\ WrittenForLength(code) \in Nat
      /\ WrittenForLength(code) <= 6 + (code + 240) \div 255
  BY <1>1 DEF WrittenForLength
<1>4. Extra(code) \in Nat /\ Extra(code) = (code + 240) \div 255
  BY <1>1, ExtraBounds, SMTT(30)
<1>5. MatchSize(len) = 2 + Extra(code)
  BY DEF MatchSize, code
<1> QED BY <1>2, <1>3, <1>4, <1>5 DEF code

(* The check before the last literals counts exactly what is written.      *)
LEMMA LastIsChecked ==
  ASSUME NEW n \in Nat, enc.op \in Nat, budget \in Nat, LastFit(n)
  PROVE  enc.op + LiteralSize(n) \in Nat /\ enc.op + LiteralSize(n) <= budget
<1>1. Extra(n) \in Nat /\ Extra(n) = (n + 240) \div 255
  BY ExtraBounds
<1> QED BY <1>1 DEF LastFit, LiteralSize

-----------------------------------------------------------------------------
(* The page and the hash table *)

(* Multiplication is monotone.                                             *)
LEMMA TimesMonotone ==
  ASSUME NEW b \in Nat, NEW n \in Nat, NEW q \in Nat, n <= q
  PROVE  b * n <= b * q
<1>1. PICK d \in Nat : q = n + d
  <2>1. q - n \in Nat /\ q = n + (q - n)
    OBVIOUS
  <2> QED BY <2>1
<1>2. b * q = b * n + b * d /\ b * d \in Nat /\ b * n \in Nat
  BY <1>1
<1> QED BY <1>2

(* A quotient is below every bound on its dividend.                        *)
LEMMA DivInRange ==
  ASSUME NEW p \in Nat, NEW b \in Nat \ {0}, NEW n \in Nat, p < b * n
  PROVE  p \div b \in 0..(n - 1) /\ p % b \in 0..(b - 1)
<1>1. p \div b \in Nat /\ p % b \in 0..(b - 1)
  OBVIOUS
<1>2. ASSUME p \div b >= n PROVE FALSE
  <2>1. b * (p \div b) <= p
    OBVIOUS
  <2>2. b * n <= b * (p \div b)
    BY <1>1, <1>2, TimesMonotone
  <2>3. b * n \in Nat /\ b * (p \div b) \in Nat
    BY <1>1
  <2> QED BY <2>1, <2>2, <2>3
<1> QED BY <1>1, <1>2

(* The sizes are naturals.                                                 *)
LEMMA SizesAreNaturals ==
  ASSUME PageInv
  PROVE  /\ BlockSz \in Nat /\ NumBlocks \in Nat \ {0} /\ PageBytes \in Nat
         /\ PageBytes = BlockSz * NumBlocks
<1>1. page \in Seq(Seq(Nat)) /\ Len(page) # 0 /\ Len(page) \in Nat
  BY DEF PageInv
<1>2. page[1] \in Seq(Nat)
  BY <1>1
<1>3. BlockSz \in Nat /\ NumBlocks \in Nat \ {0}
  BY <1>1, <1>2 DEF BlockSz, NumBlocks
<1> QED BY <1>3 DEF PageBytes

(* The bytes of a page are numbers.                                        *)
LEMMA BytesOfPage ==
  ASSUME PageInv, NEW p \in Nat, p < PageBytes
  PROVE  Byte(p) \in Nat
<1>1. BlockSz \in Nat /\ NumBlocks \in Nat \ {0} /\ PageBytes = BlockSz * NumBlocks
  BY SizesAreNaturals
<1>2. BlockSz \in Nat \ {0}
  BY <1>1
<1>3. p \div BlockSz \in 0..(NumBlocks - 1) /\ p % BlockSz \in 0..(BlockSz - 1)
  BY <1>1, <1>2, DivInRange
<1> DEFINE b == p \div BlockSz + 1
           i == (p % BlockSz) + 1
<1>4. b \in 1..NumBlocks /\ i \in 1..BlockSz
  BY <1>1, <1>3
<1> HIDE DEF b, i
<1>5. b \in DOMAIN page
  BY <1>4 DEF NumBlocks, PageInv
<1>6. page[b] \in Seq(Nat) /\ Len(page[b]) = BlockSz
  BY <1>5 DEF PageInv
<1>7. page[b][i] \in Nat
  BY <1>4, <1>6
<1> QED BY <1>7 DEF Byte, b, i

(* The five bytes of a position in the page fall into a bucket.            *)
LEMMA HashInTable ==
  ASSUME PageInv, NEW p \in Nat, p + 5 <= PageBytes
  PROVE  HashPosition(p) \in 0..(HashSize - 1)
<1>1. PageBytes \in Nat
  BY SizesAreNaturals
<1>2. /\ Byte(p) \in Nat /\ Byte(p + 1) \in Nat /\ Byte(p + 2) \in Nat
      /\ Byte(p + 3) \in Nat /\ Byte(p + 4) \in Nat
  <2>1. /\ p < PageBytes /\ p + 1 < PageBytes /\ p + 2 < PageBytes
        /\ p + 3 < PageBytes /\ p + 4 < PageBytes
    BY <1>1
  <2> QED BY <2>1, BytesOfPage
<1>3. /\ weights[1] \in Nat /\ weights[2] \in Nat /\ weights[3] \in Nat
      /\ weights[4] \in Nat /\ weights[5] \in Nat
  BY DEF PageInv
<1>4. ASSUME NEW x \in Nat, NEW y \in Nat PROVE x * y \in Nat
  OBVIOUS
<1> DEFINE sum == weights[1] * Byte(p) + weights[2] * Byte(p + 1) + weights[3] * Byte(p + 2)
                    + weights[4] * Byte(p + 3) + weights[5] * Byte(p + 4)
<1>5. sum \in Nat
  <2>1. /\ weights[1] * Byte(p) \in Nat /\ weights[2] * Byte(p + 1) \in Nat
        /\ weights[3] * Byte(p + 2) \in Nat /\ weights[4] * Byte(p + 3) \in Nat
        /\ weights[5] * Byte(p + 4) \in Nat
    BY <1>2, <1>3, <1>4
  <2> QED BY <2>1
<1> HIDE DEF sum
<1>6. HashSize \in Nat \ {0}
  BY Lz4Assumption
<1>7. sum % HashSize \in 0..(HashSize - 1)
  BY <1>5, <1>6
<1> QED BY <1>7 DEF HashPosition, sum

(* Where the block being compressed lies.                                  *)
LEMMA BlockPlace ==
  ASSUME PageInv, TypeInv, BlockInv
  PROVE  /\ BlockSz \in Nat /\ NumBlocks \in Nat \ {0} /\ PageBytes \in Nat
         /\ enc.blk \in Nat /\ Source \in Nat
         /\ IEnd = Source + BlockSz /\ MFLimitPlusOne = IEnd - 11 /\ MatchLimit = IEnd - 5
         /\ LowLimit = Source - cctx.dictSize /\ LowLimit \in Nat
         /\ enc.blk < NumBlocks => IEnd <= PageBytes
<1>1. BlockSz \in Nat /\ NumBlocks \in Nat \ {0} /\ PageBytes \in Nat /\ PageBytes = BlockSz * NumBlocks
  BY SizesAreNaturals
<1>2. enc.blk \in Nat /\ cctx.dictSize \in Nat
  BY DEF TypeInv, EncoderType
<1>3. Source \in Nat /\ Source = BlockSz * enc.blk
  BY <1>1, <1>2 DEF Source
<1>4. /\ IEnd = Source + BlockSz /\ MFLimitPlusOne = IEnd - 11 /\ MatchLimit = IEnd - 5
  BY <1>1, <1>3 DEF IEnd, MFLimitPlusOne, MatchLimit, MFLimit, LastLiterals
<1>5. LowLimit = Source - cctx.dictSize /\ LowLimit \in Nat
  BY <1>2, <1>3 DEF LowLimit, BlockInv
<1>6. ASSUME enc.blk < NumBlocks PROVE IEnd <= PageBytes
  <2>1. BlockSz * (enc.blk + 1) <= BlockSz * NumBlocks
    BY <1>1, <1>2, <1>6, TimesMonotone
  <2>2. BlockSz * (enc.blk + 1) = BlockSz * enc.blk + BlockSz
    BY <1>1, <1>2
  <2> QED BY <1>1, <1>3, <1>4, <2>1, <2>2
<1> QED BY <1>1, <1>2, <1>3, <1>4, <1>5, <1>6

(* A position of the block has an index, and the other way round.          *)
LEMMA Indexes ==
  ASSUME PageInv, TypeInv, BlockInv, NEW p \in Nat, NEW index \in Int
  PROVE  /\ Index(p) = cctx.currentOffset + (p - Source) /\ Index(p) \in Int
         /\ p >= Source => Index(p) \in Nat
         /\ Position(index) = Source + (index - cctx.currentOffset) /\ Position(index) \in Int
         /\ cctx.currentOffset \in Nat /\ cctx.dictSize \in Nat
<1>1. Source \in Nat
  BY BlockPlace
<1>2. cctx.currentOffset \in Nat /\ cctx.dictSize \in Nat
  BY DEF TypeInv
<1> QED BY <1>1, <1>2 DEF Index, Position, StartIndex

(* A candidate that is taken is before its position, in the window and not *)
(* before the dictionary.                                                  *)
LEMMA UsableMatch ==
  ASSUME PageInv, TypeInv, BlockInv, NEW p \in Nat, p >= Source,
         NEW index \in Nat, index <= Index(p) - 1, Usable(index, p)
  PROVE  /\ Position(index) \in Nat
         /\ Position(index) >= LowLimit
         /\ p - Position(index) \in 1..DistanceMax
         /\ \A i \in 0..3 : Byte(Position(index) + i) = Byte(p + i)
<1>1. /\ Source \in Nat /\ LowLimit = Source - cctx.dictSize /\ LowLimit \in Nat
  BY BlockPlace
<1>2. /\ Index(p) = cctx.currentOffset + (p - Source)
      /\ Position(index) = Source + (index - cctx.currentOffset)
      /\ cctx.currentOffset \in Nat /\ cctx.dictSize \in Nat
  BY Indexes
<1>3. Window \in Nat /\ Window > 15
  BY Lz4Assumption
<1>4. /\ DictSmall => index >= PrefixIdxLimit
      /\ index + DistanceMax >= Index(p)
      /\ Bytes(Position(index), 4) = Bytes(p, 4)
  BY DEF Usable, MinMatch
<1>5. /\ DictSmall <=> (cctx.dictSize < Window /\ cctx.dictSize < cctx.currentOffset)
      /\ PrefixIdxLimit = cctx.currentOffset - cctx.dictSize
  BY DEF DictSmall, PrefixIdxLimit, StartIndex
<1>6. DistanceMax = Window - 1
  BY DEF DistanceMax
<1>7. Position(index) >= LowLimit
  BY <1>1, <1>2, <1>3, <1>4, <1>5, <1>6
<1>8. p - Position(index) \in 1..DistanceMax /\ Position(index) \in Nat
  BY <1>1, <1>2, <1>3, <1>4, <1>6, <1>7
<1>9. ASSUME NEW i \in 0..3 PROVE Byte(Position(index) + i) = Byte(p + i)
  <2> DEFINE q == Position(index)
  <2>1. q \in Int /\ p \in Int
    BY <1>8
  <2> HIDE DEF q
  <2>2. i + 1 \in 1..4 /\ q + (i + 1) - 1 = q + i /\ p + (i + 1) - 1 = p + i
    BY <2>1
  <2>3. Bytes(q, 4)[i + 1] = Byte(q + i) /\ Bytes(p, 4)[i + 1] = Byte(p + i)
    BY <2>2 DEF Bytes
  <2> QED BY <1>4, <2>3 DEF q
<1> QED BY <1>7, <1>8, <1>9

(* The search for the start of a match goes back over equal bytes only, at *)
(* most to the anchor and to the start of the dictionary.                  *)
LEMMA CatchUpFacts ==
  ASSUME NEW p \in Int, NEW m \in Int, p - enc.anchor \in Nat, m - LowLimit \in Nat
  PROVE  /\ CatchUp(p, m) \in Nat
         /\ CatchUp(p, m) <= p - enc.anchor /\ CatchUp(p, m) <= m - LowLimit
         /\ \A c \in Nat : c < CatchUp(p, m) => Byte(p - c - 1) = Byte(m - c - 1)
<1> DEFINE most == Min({p - enc.anchor, m - LowLimit})
           S == {c \in 0..most : c = most \/ Byte(p - c - 1) # Byte(m - c - 1)}
<1>1. most \in Nat /\ most <= p - enc.anchor /\ most <= m - LowLimit
  <2>1. \A a, b \in Nat : Min({a, b}) \in Nat /\ Min({a, b}) <= a /\ Min({a, b}) <= b
    <3> TAKE a, b \in Nat
    <3>1. a \in Int /\ b \in Int
      OBVIOUS
    <3>2. Min({a, b}) \in {a, b} /\ Min({a, b}) <= a /\ Min({a, b}) <= b
      BY <3>1, OfTwo
    <3> QED BY <3>2
  <2> QED BY <2>1
<1> HIDE DEF most
<1>2. S \in SUBSET Nat /\ most \in S
  BY <1>1
<1>3. Min(S) \in S /\ \A c \in S : Min(S) <= c
  <2> HIDE DEF S
  <2> QED BY <1>2, MinOfNaturals
<1>4. CatchUp(p, m) = Min(S)
  BY DEF CatchUp, most
<1>5. Min(S) \in Nat /\ Min(S) <= most
  BY <1>1, <1>3
<1>6. ASSUME NEW c \in Nat, c < Min(S) PROVE Byte(p - c - 1) = Byte(m - c - 1)
  <2>1. c \notin S /\ c \in 0..most /\ c # most
    <3> HIDE DEF S
    <3> QED BY <1>1, <1>3, <1>5, <1>6
  <2> QED BY <2>1
<1> HIDE DEF S
<1> QED BY <1>1, <1>4, <1>5, <1>6

(* A match goes on as long as the bytes are equal, at most to MatchLimit.  *)
LEMMA MatchLengthFacts ==
  ASSUME NEW p \in Int, NEW m \in Int, MatchLimit \in Int, MatchLimit - p >= MinMatch
  PROVE  /\ MatchLength(p, m) \in Nat /\ MatchLength(p, m) >= MinMatch
         /\ MatchLength(p, m) <= MatchLimit - p
         /\ \/ MatchLength(p, m) = MatchLimit - p
            \/ Byte(p + MatchLength(p, m)) # Byte(m + MatchLength(p, m))
         /\ \A j \in Nat : MinMatch <= j /\ j < MatchLength(p, m) => Byte(p + j) = Byte(m + j)
<1> DEFINE S == {n \in MinMatch..(MatchLimit - p) : n = MatchLimit - p \/ Byte(p + n) # Byte(m + n)}
<1>1. S \in SUBSET Nat /\ MatchLimit - p \in S
  BY DEF MinMatch
<1>2. Min(S) \in S /\ \A n \in S : Min(S) <= n
  <2> HIDE DEF S
  <2> QED BY <1>1, MinOfNaturals
<1>3. MatchLength(p, m) = Min(S)
  BY DEF MatchLength
<1>4. /\ Min(S) \in Nat /\ Min(S) >= MinMatch /\ Min(S) <= MatchLimit - p
      /\ Min(S) = MatchLimit - p \/ Byte(p + Min(S)) # Byte(m + Min(S))
  BY <1>2 DEF MinMatch
<1>5. ASSUME NEW j \in Nat, MinMatch <= j, j < Min(S) PROVE Byte(p + j) = Byte(m + j)
  <2>1. j \notin S
    <3> HIDE DEF S
    <3> QED BY <1>2, <1>4, <1>5
  <2>2. j \in MinMatch..(MatchLimit - p)
    <3> HIDE DEF S
    <3> QED BY <1>4, <1>5 DEF MinMatch
  <2> QED BY <2>1, <2>2
<1> HIDE DEF S
<1> QED BY <1>3, <1>4, <1>5

(* A match that was found at p, and begins earlier by what CatchUp says,   *)
(* ends behind p.                                                          *)
LEMMA MatchPassesProbe ==
  ASSUME NEW p \in Int, NEW m \in Int, NEW back \in Nat,
         MatchLimit \in Int, MatchLimit - p >= MinMatch,
         \A c \in Nat : c < back => Byte(p - c - 1) = Byte(m - c - 1),
         \A i \in 0..3 : Byte(m + i) = Byte(p + i)
  PROVE  (p - back) + MatchLength(p - back, m - back) > p
<1> DEFINE len == MatchLength(p - back, m - back)
<1>1. /\ len \in Nat
      /\ \/ len = MatchLimit - (p - back)
         \/ Byte((p - back) + len) # Byte((m - back) + len)
  <2>1. p - back \in Int /\ m - back \in Int /\ MatchLimit - (p - back) >= MinMatch
    BY DEF MinMatch
  <2> QED BY <2>1, MatchLengthFacts
<1> HIDE DEF len
<1>2. ASSUME len < back PROVE Byte((p - back) + len) = Byte((m - back) + len)
  <2> DEFINE c == back - len - 1
  <2>1. c \in Nat /\ c < back /\ p - c - 1 = (p - back) + len /\ m - c - 1 = (m - back) + len
    BY <1>1, <1>2
  <2> HIDE DEF c
  <2>2. Byte(p - c - 1) = Byte(m - c - 1)
    BY <2>1
  <2> QED BY <2>1, <2>2
<1>3. ASSUME len >= back, len < back + 4 PROVE Byte((p - back) + len) = Byte((m - back) + len)
  <2> DEFINE i == len - back
  <2>1. i \in 0..3 /\ p + i = (p - back) + len /\ m + i = (m - back) + len
    BY <1>1, <1>3
  <2> HIDE DEF i
  <2>2. Byte(m + i) = Byte(p + i)
    BY <2>1
  <2> QED BY <2>1, <2>2
<1>4. len >= back + 4 \/ len = MatchLimit - (p - back)
  BY <1>1, <1>2, <1>3
<1>5. (p - back) + len > p
  BY <1>1, <1>4 DEF MinMatch
<1> QED BY <1>5 DEF len

(* What an insertion makes of the table.                                   *)
LEMMA PutFacts ==
  ASSUME NEW t \in [0..(HashSize - 1) -> Nat], NEW p \in Nat, NEW n \in Int,
         HashPosition(p) \in 0..(HashSize - 1), Index(p) \in Nat, Index(p) <= n,
         \A h \in 0..(HashSize - 1) : t[h] <= n
  PROVE  /\ Put(t, p) \in [0..(HashSize - 1) -> Nat]
         /\ \A h \in 0..(HashSize - 1) : Put(t, p)[h] <= n
BY DEF Put

-----------------------------------------------------------------------------
(* Every step keeps the invariant *)

(* Nothing moves as long as the page and the block stay the same.          *)
LEMMA SamePlace ==
  ASSUME page' = page, enc'.blk = enc.blk, cctx' = cctx
  PROVE  /\ BlockSz' = BlockSz /\ NumBlocks' = NumBlocks /\ Source' = Source
         /\ IEnd' = IEnd /\ MFLimitPlusOne' = MFLimitPlusOne /\ MatchLimit' = MatchLimit
         /\ LowLimit' = LowLimit
         /\ \A p : Index(p)' = Index(p)
         /\ \A p, m : MatchLength(p, m)' = MatchLength(p, m)
BY DEF BlockSz, NumBlocks, Source, IEnd, MFLimitPlusOne, MatchLimit, LowLimit, Index,
       StartIndex, MatchLength, Byte

(* A step of the compressor within a block leaves the page and the places  *)
(* of the blocks alone.                                                    *)
LEMMA WithinBlock ==
  ASSUME PageInv, BlockInv, enc.pc \in {"block", "search", "match", "last"},
         UNCHANGED <<page, budget, weights, ends, cctx, dec>>, enc'.blk = enc.blk
  PROVE  PageInv' /\ BlockInv'
<1>1. /\ BlockSz' = BlockSz /\ NumBlocks' = NumBlocks /\ Source' = Source
  BY SamePlace
<1>2. PageInv'
  BY <1>1 DEF PageInv
<1>3. BlockInv'
  BY <1>1 DEF BlockInv
<1> QED BY <1>2, <1>3

(* Where the search starts again.                                          *)
LEMMA SearchFromFacts ==
  ASSUME NEW e, EncoderType(e), NEW p \in Nat, NEW f, f = SearchFrom(e, p)
  PROVE  /\ EncoderType(f) /\ f.pc = "search" /\ f.ip = p /\ f.nb = 64 /\ f.step = 1
         /\ f.blk = e.blk /\ f.anchor = e.anchor
         /\ f.op = e.op /\ f.reach = e.reach /\ f.head = e.head /\ f.sqs = e.sqs
<1>1. EncoderType(f)
  BY DEF EncoderType, Phases, SearchFrom, SkipUnit
<1>2. /\ f.pc = "search" /\ f.ip = p /\ f.nb = 64 /\ f.step = 1
      /\ f.blk = e.blk /\ f.anchor = e.anchor
      /\ f.op = e.op /\ f.reach = e.reach /\ f.head = e.head /\ f.sqs = e.sqs
  BY DEF EncoderType, SearchFrom, SkipUnit
<1> QED BY <1>1, <1>2

(* The invariant holds initially.                                          *)
LEMMA InitInv ==
  ASSUME Init PROVE IInv
<1>1. PageInv
  BY Lz4Assumption DEF Init, PageInv, BlockSz
<1>2. /\ enc = Encoder("idle", 0, 0) /\ ends = <<>> /\ dec = Decoder("idle")
      /\ cctx = [dictSize |-> 0, currentOffset |-> 0] /\ table = Empty
  BY DEF Init
<1>3. HashSize \in Nat \ {0}
  BY Lz4Assumption
<1>4. TypeInv
  BY <1>2, <1>3 DEF TypeInv, EncoderType, Encoder, Phases, Empty
<1>5. NumBlocks \in Nat /\ BlockSz \in Nat
  BY <1>1, SizesAreNaturals
<1>6. Source = 0
  BY <1>2, <1>5 DEF Source, Encoder
<1>7. BlockInv
  BY <1>2, <1>5, <1>6 DEF BlockInv, Encoder, Decoder
<1>8. AtBlock /\ AtSearch /\ AtMatch /\ AtLast /\ BudgetInv
  BY <1>2 DEF AtBlock, AtSearch, AtMatch, AtLast, BudgetInv, Encoder
<1> QED BY <1>1, <1>4, <1>7, <1>8 DEF IInv

(* Generating a page keeps it: a new stream, an empty table.               *)
LEMMA GenerateKeeps ==
  ASSUME IInv, Generate PROVE IInv'
<1>1. PageInv /\ TypeInv /\ BlockInv
  BY DEF IInv
<1>2. /\ enc.pc = "idle" /\ ends = <<>> /\ ends' = ends /\ dec' = dec /\ enc' = Encoder("block", 0, 0)
      /\ page' = page /\ budget' = budget /\ weights' = weights
      /\ cctx' = [dictSize |-> 0, currentOffset |-> 0] /\ table' = Empty
  BY DEF Generate, InitStream
<1>3. HashSize \in Nat \ {0}
  BY Lz4Assumption
<1>4. PageInv' /\ BlockSz' = BlockSz /\ NumBlocks' = NumBlocks
  BY <1>1, <1>2 DEF PageInv, BlockSz, NumBlocks
<1>5. TypeInv'
  BY <1>1, <1>2, <1>3 DEF TypeInv, EncoderType, Encoder, Phases, Empty
<1>6. NumBlocks \in Nat \ {0} /\ BlockSz \in Nat
  BY <1>1, SizesAreNaturals
<1>7. Source' = 0
  BY <1>2, <1>4, <1>6 DEF Source, Encoder
<1>8. dec.pc \notin {"run", "end"}
  BY <1>1, <1>2, <1>6 DEF BlockInv
<1>9. BlockInv'
  BY <1>2, <1>4, <1>6, <1>7, <1>8 DEF BlockInv, Encoder
<1>10. AtBlock'
  BY <1>2, <1>3 DEF AtBlock, TableUpTo, Empty
<1>11. AtSearch' /\ AtMatch' /\ AtLast'
  BY <1>2 DEF AtSearch, AtMatch, AtLast, Encoder
<1>12. BudgetInv'
  BY <1>2 DEF BudgetInv, Encoder
<1> QED BY <1>4, <1>5, <1>9, <1>10, <1>11, <1>12 DEF IInv

(* Entering the next block keeps it: the first position goes into the      *)
(* table.                                                                  *)
LEMMA BeginBlockKeeps ==
  ASSUME IInv, BeginBlock PROVE IInv'
<1>1. PageInv /\ TypeInv /\ BlockInv /\ AtBlock /\ BudgetInv /\ EncoderType(enc)
  BY DEF IInv, TypeInv
<1>2. /\ enc.pc = "block" /\ enc.blk < NumBlocks
      /\ UNCHANGED <<page, budget, weights, ends, cctx, dec>>
  BY <1>1 DEF BeginBlock, BlockInv
<1>3. /\ BlockSz \in Nat /\ Source \in Nat /\ IEnd = Source + BlockSz /\ PageBytes \in Nat
      /\ MFLimitPlusOne = IEnd - 11 /\ MatchLimit = IEnd - 5 /\ IEnd <= PageBytes
  BY <1>1, <1>2, BlockPlace
<1>4. /\ TableUpTo(cctx.currentOffset) /\ cctx.currentOffset \in Nat
      /\ table \in [0..(HashSize - 1) -> Nat]
  BY <1>1, <1>2 DEF AtBlock, TypeInv
<1>5. \A p \in Nat : Index(p) = cctx.currentOffset + (p - Source)
  BY <1>1, Indexes
<1> DEFINE e == [enc EXCEPT !.anchor = Source, !.sqs = <<>>]
<1>6. CASE BlockSz < MFLimit + 1
  <2>1. enc' = [e EXCEPT !.pc = "last"] /\ table' = table
    BY <1>6 DEF BeginBlock
  <2>2. /\ EncoderType(enc') /\ enc'.blk = enc.blk /\ enc'.pc = "last" /\ enc'.anchor = Source
        /\ enc'.op = enc.op /\ enc'.reach = enc.reach /\ enc'.head = enc.head
    BY <1>1, <1>3, <2>1 DEF EncoderType, Phases
  <2>3. Source' = Source /\ IEnd' = IEnd /\ Index(IEnd)' = Index(IEnd)
    BY <1>2, <2>2, SamePlace
  <2>4. PageInv' /\ BlockInv'
    BY <1>1, <1>2, <2>2, WithinBlock
  <2>5. TypeInv'
    BY <1>1, <1>2, <2>1, <2>2 DEF TypeInv
  <2>6. Index(IEnd) = cctx.currentOffset + BlockSz
    BY <1>3, <1>4, <1>5
  <2>7. AtLast'
    BY <1>2, <1>3, <1>4, <2>1, <2>2, <2>3, <2>6, SMTT(30) DEF AtLast, TableUpTo
  <2>8. AtBlock' /\ AtSearch' /\ AtMatch'
    BY <2>2 DEF AtBlock, AtSearch, AtMatch
  <2>9. BudgetInv'
    BY <1>1, <1>2, <2>2 DEF BudgetInv
  <2> QED BY <2>4, <2>5, <2>7, <2>8, <2>9 DEF IInv
<1>7. CASE ~(BlockSz < MFLimit + 1)
  <2>1. enc' = SearchFrom(e, Source + 1) /\ table' = Put(table, Source)
    BY <1>7 DEF BeginBlock
  <2>2. /\ EncoderType(enc') /\ enc'.blk = enc.blk /\ enc'.pc = "search" /\ enc'.anchor = Source
        /\ enc'.ip = Source + 1 /\ enc'.nb = 64 /\ enc'.step = 1
        /\ enc'.op = enc.op /\ enc'.reach = enc.reach /\ enc'.head = enc.head
    <3>1. /\ EncoderType(e) /\ e.blk = enc.blk /\ e.anchor = Source
          /\ e.op = enc.op /\ e.reach = enc.reach /\ e.head = enc.head
      <4>1. EncoderType(e)
        BY <1>1, <1>3 DEF EncoderType
      <4>2. /\ e.blk = enc.blk /\ e.anchor = Source
            /\ e.op = enc.op /\ e.reach = enc.reach /\ e.head = enc.head
        BY <1>1, <1>3 DEF EncoderType
      <4> QED BY <4>1, <4>2
    <3>2. Source + 1 \in Nat
      BY <1>3
    <3> HIDE DEF e
    <3> DEFINE p == Source + 1
    <3>3. p \in Nat /\ enc' = SearchFrom(e, p) /\ EncoderType(e)
      BY <2>1, <3>1, <3>2
    <3> HIDE DEF p
    <3>4. /\ EncoderType(enc') /\ enc'.pc = "search" /\ enc'.ip = p /\ enc'.nb = 64
          /\ enc'.step = 1 /\ enc'.blk = e.blk /\ enc'.anchor = e.anchor
          /\ enc'.op = e.op /\ enc'.reach = e.reach /\ enc'.head = e.head
      BY <3>3, SearchFromFacts, SMTT(30)
    <3> QED BY <3>1, <3>4 DEF p
  <2>3. /\ BlockSz' = BlockSz /\ Source' = Source /\ IEnd' = IEnd /\ MatchLimit' = MatchLimit
        /\ MFLimitPlusOne' = MFLimitPlusOne /\ \A p : Index(p)' = Index(p)
    BY <1>2, <2>2, SamePlace
  <2>4. PageInv' /\ BlockInv'
    BY <1>1, <1>2, <2>2, WithinBlock
  <2>5. BlockSz > 12
    BY <1>3, <1>7 DEF MFLimit
  <2>6. HashPosition(Source) \in 0..(HashSize - 1)
    BY <1>1, <1>3, <2>5, HashInTable
  <2>7. Index(Source) = cctx.currentOffset /\ Index(Source + 1) - 1 = cctx.currentOffset
    BY <1>3, <1>4, <1>5
  <2>8. /\ table' \in [0..(HashSize - 1) -> Nat]
        /\ \A h \in 0..(HashSize - 1) : table'[h] <= cctx.currentOffset
    <3>1. Index(Source) \in Nat /\ Index(Source) <= cctx.currentOffset /\ cctx.currentOffset \in Int
      BY <1>4, <2>7
    <3>2. \A h \in 0..(HashSize - 1) : table[h] <= cctx.currentOffset
      BY <1>4 DEF TableUpTo
    <3> QED BY <1>3, <1>4, <2>1, <2>6, <3>1, <3>2, PutFacts
  <2>9. TypeInv'
    BY <1>1, <1>2, <2>2, <2>8 DEF TypeInv
  <2>10. AtSearch'
    <3>1. /\ Source \in Source..MatchLimit /\ Source + 1 > Source /\ Source + 1 >= Source
          /\ Source + 1 <= MFLimitPlusOne
      BY <1>3, <2>5
    <3>2. TableUpTo(Index(enc.ip) - 1)'
      BY <2>2, <2>3, <2>7, <2>8 DEF TableUpTo
    <3> QED BY <2>2, <2>3, <2>5, <3>1, <3>2 DEF AtSearch, MFLimit, SkipUnit
  <2>11. AtBlock' /\ AtLast' /\ AtMatch'
    BY <2>2 DEF AtBlock, AtLast, AtMatch
  <2>12. BudgetInv'
    BY <1>1, <1>2, <2>2 DEF BudgetInv
  <2> QED BY <2>4, <2>9, <2>10, <2>11, <2>12 DEF IInv
<1> QED BY <1>6, <1>7

(* What is known within a block that long matches are looked for in.       *)
LEMMA LongBlock ==
  ASSUME PageInv, TypeInv, BlockInv, enc.pc \in {"block", "search", "match", "last"}
  PROVE  /\ enc.blk < NumBlocks /\ BlockSz \in Nat /\ Source \in Nat /\ IEnd = Source + BlockSz
         /\ PageBytes \in Nat /\ IEnd <= PageBytes
         /\ MFLimitPlusOne = IEnd - 11 /\ MatchLimit = IEnd - 5
         /\ LowLimit = Source - cctx.dictSize /\ LowLimit \in Nat
         /\ cctx.currentOffset \in Nat /\ cctx.dictSize \in Nat
         /\ \A p \in Nat : Index(p) = cctx.currentOffset + (p - Source)
<1>1. enc.blk < NumBlocks
  BY DEF BlockInv
<1>2. \A p \in Nat : Index(p) = cctx.currentOffset + (p - Source)
  BY Indexes
<1>3. cctx.currentOffset \in Nat /\ cctx.dictSize \in Nat
  BY DEF TypeInv
<1> QED BY <1>1, <1>2, <1>3, BlockPlace

(* The table after an insertion of a position of the block that five bytes *)
(* follow.                                                                 *)
LEMMA PutInBlock ==
  ASSUME PageInv, TypeInv, BlockInv, enc.pc \in {"block", "search", "match", "last"},
         NEW t \in [0..(HashSize - 1) -> Nat], NEW p \in Nat, p >= Source, p + 5 <= IEnd,
         NEW n \in Int, Index(p) <= n, \A h \in 0..(HashSize - 1) : t[h] <= n
  PROVE  /\ Put(t, p) \in [0..(HashSize - 1) -> Nat]
         /\ \A h \in 0..(HashSize - 1) : Put(t, p)[h] <= n
<1>1. /\ Source \in Nat /\ IEnd <= PageBytes /\ PageBytes \in Nat /\ IEnd = Source + BlockSz
      /\ BlockSz \in Nat /\ cctx.currentOffset \in Nat
      /\ \A q \in Nat : Index(q) = cctx.currentOffset + (q - Source)
  BY LongBlock
<1>2. Index(p) \in Nat
  BY <1>1, SMTT(30)
<1>3. p + 5 <= PageBytes
  BY <1>1
<1>4. HashPosition(p) \in 0..(HashSize - 1)
  BY <1>3, HashInTable
<1> QED BY <1>2, <1>4, PutFacts

(* Literals are written within the budget, or the page is refused.         *)
LEMMA EncodeLiteralsFacts ==
  ASSUME EncoderType(enc), BudgetInv, budget \in Nat, budget' = budget,
         NEW q \in Nat, NEW m \in Int, q - enc.anchor \in Nat, EncodeLiterals(q, m)
  PROVE  /\ EncoderType(enc') /\ enc'.blk = enc.blk /\ enc'.sqs = enc.sqs /\ BudgetInv'
         /\ \/ enc'.pc = "refused"
            \/ /\ enc'.pc = "match" /\ enc'.ip = q /\ enc'.match = m
               /\ enc'.anchor = enc.anchor /\ enc'.op + 2 <= budget
               /\ enc'.op = enc.op + LiteralSize(q - enc.anchor)
<1> DEFINE n == q - enc.anchor
           end == enc.op + 1 + Extra(n) + WildCopy(n)
<1>0. enc.op \in Nat /\ enc.reach \in Nat /\ enc.head \in Nat /\ n \in Nat
  BY DEF EncoderType
<1>1. CASE LiteralsFit(n)
  <2>1. /\ enc.op + LiteralSize(n) \in Nat /\ enc.op + LiteralSize(n) + 2 <= budget
        /\ end \in Nat /\ end <= budget
    BY <1>0, <1>1, LiteralsAreChecked
  <2>2. enc' = [enc EXCEPT !.pc = "match", !.ip = q, !.match = m,
                           !.op = enc.op + LiteralSize(n), !.reach = Max({enc.reach, end})]
    BY <1>1 DEF EncodeLiterals
  <2> DEFINE op == enc.op + LiteralSize(n)
             reach == Max({enc.reach, end})
  <2>3. reach \in {enc.reach, end}
    <3> HIDE DEF end
    <3>1. enc.reach \in Int /\ end \in Int
      BY <1>0, <2>1
    <3> QED BY <3>1, OfTwo
  <2>4. op \in Nat /\ reach \in Nat
    BY <1>0, <2>1, <2>3
  <2> HIDE DEF op, reach
  <2>5. enc' = [enc EXCEPT !.pc = "match", !.ip = q, !.match = m, !.op = op, !.reach = reach]
    BY <2>2 DEF op, reach
  <2>6. EncoderType(enc')
    BY <2>4, <2>5 DEF EncoderType, Phases
  <2>7. /\ enc'.pc = "match" /\ enc'.ip = q /\ enc'.match = m /\ enc'.anchor = enc.anchor
        /\ enc'.blk = enc.blk /\ enc'.sqs = enc.sqs
        /\ enc'.head = enc.head /\ enc'.op = op /\ enc'.reach = reach
    BY <2>5 DEF EncoderType
  <2>8. op + 2 <= budget
    BY <2>1 DEF op
  <2>9. reach <= budget \/ reach <= enc.head
    <3>1. CASE reach = enc.reach
      BY <3>1 DEF BudgetInv
    <3>2. CASE reach = end
      BY <2>1, <3>2
    <3> QED BY <2>3, <3>1, <3>2 DEF reach
  <2>10. op <= budget
    BY <2>4, <2>8
  <2>11. BudgetInv'
    BY <2>7, <2>9, <2>10 DEF BudgetInv
  <2> QED BY <2>6, <2>7, <2>8, <2>11 DEF op
<1>2. CASE ~LiteralsFit(n)
  <2>1. enc' = [enc EXCEPT !.pc = "refused"]
    BY <1>2 DEF EncodeLiterals
  <2>2. EncoderType(enc')
    BY <2>1 DEF EncoderType, Phases
  <2>3. /\ enc'.pc = "refused" /\ enc'.blk = enc.blk /\ enc'.sqs = enc.sqs
        /\ enc'.op = enc.op /\ enc'.reach = enc.reach /\ enc'.head = enc.head
    BY <2>1 DEF EncoderType
  <2> QED BY <2>2, <2>3 DEF BudgetInv
<1> QED BY <1>1, <1>2

(* A candidate that is taken, and where its match begins.                  *)
LEMMA CandidateFacts ==
  ASSUME IInv, enc.pc = "search", enc.ip < MFLimitPlusOne,
         NEW p, p = enc.ip, NEW index, index = table[HashPosition(p)], Usable(index, p),
         NEW m, m = Position(index), NEW back, back = CatchUp(p, m)
  PROVE  /\ p \in Nat /\ m \in Nat /\ m >= LowLimit /\ p - m \in 1..DistanceMax
         /\ \A i \in 0..3 : Byte(m + i) = Byte(p + i)
         /\ back \in Nat /\ back <= p - enc.anchor /\ back <= m - LowLimit
         /\ \A c \in Nat : c < back => Byte(p - c - 1) = Byte(m - c - 1)
         /\ p - back \in Nat /\ m - back \in Int /\ (p - back) - enc.anchor \in Nat
<1>1. PageInv /\ TypeInv /\ BlockInv /\ AtSearch /\ EncoderType(enc)
  BY DEF IInv, TypeInv
<1>2. /\ BlockSz \in Nat /\ Source \in Nat /\ IEnd = Source + BlockSz /\ PageBytes \in Nat
      /\ MFLimitPlusOne = IEnd - 11 /\ MatchLimit = IEnd - 5 /\ IEnd <= PageBytes /\ LowLimit \in Nat
  BY <1>1, LongBlock
<1>3. /\ enc.anchor \in Source..MatchLimit /\ p > Source /\ p >= enc.anchor
      /\ \A h \in 0..(HashSize - 1) : table[h] <= Index(p) - 1
  BY <1>1 DEF AtSearch, TableUpTo
<1>4. p \in Nat /\ enc.anchor \in Nat /\ table \in [0..(HashSize - 1) -> Nat]
  BY <1>1 DEF EncoderType, TypeInv
<1>5. index \in Nat /\ index <= Index(p) - 1
  <2>1. p + 5 <= PageBytes
    BY <1>2, <1>4
  <2>2. HashPosition(p) \in 0..(HashSize - 1)
    BY <1>1, <1>4, <2>1, HashInTable
  <2> QED BY <1>3, <1>4, <2>2
<1>6. /\ m \in Nat /\ m >= LowLimit /\ p - m \in 1..DistanceMax
      /\ \A i \in 0..3 : Byte(m + i) = Byte(p + i)
  <2>1. p >= Source
    BY <1>2, <1>3, <1>4
  <2> QED BY <1>1, <1>4, <1>5, <2>1, UsableMatch, SMTT(30)
<1>7. /\ back \in Nat /\ back <= p - enc.anchor /\ back <= m - LowLimit
      /\ \A c \in Nat : c < back => Byte(p - c - 1) = Byte(m - c - 1)
  <2>1. p \in Int /\ p - enc.anchor \in Nat
    BY <1>3, <1>4
  <2>2. m \in Int /\ m - LowLimit \in Nat
    BY <1>2, <1>6
  <2> QED BY <2>1, <2>2, CatchUpFacts
<1>8. p - back \in Nat /\ m - back \in Int /\ (p - back) - enc.anchor \in Nat
  <2>1. m \in Nat /\ p \in Nat /\ enc.anchor \in Nat /\ back \in Nat /\ back <= p - enc.anchor
    BY <1>4, <1>6, <1>7
  <2> QED BY <2>1
<1> QED BY <1>4, <1>6, <1>7, <1>8

(* A probe keeps it, with a match, without one, or at the end of the       *)
(* search.                                                                 *)
LEMMA ProbeKeeps ==
  ASSUME IInv, Probe PROVE IInv'
<1> DEFINE p == enc.ip
           index == table[HashPosition(p)]
           m == Position(index)
           back == CatchUp(p, m)
<1>1. PageInv /\ TypeInv /\ BlockInv /\ AtSearch /\ BudgetInv /\ EncoderType(enc)
  BY DEF IInv, TypeInv
<1>2. enc.pc = "search" /\ UNCHANGED <<page, budget, weights, ends, cctx, dec>>
  BY DEF Probe
<1>3. /\ BlockSz \in Nat /\ Source \in Nat /\ IEnd = Source + BlockSz /\ PageBytes \in Nat
      /\ MFLimitPlusOne = IEnd - 11 /\ MatchLimit = IEnd - 5 /\ IEnd <= PageBytes
      /\ LowLimit = Source - cctx.dictSize /\ LowLimit \in Nat
      /\ cctx.currentOffset \in Nat /\ cctx.dictSize \in Nat
      /\ \A q \in Nat : Index(q) = cctx.currentOffset + (q - Source)
  BY <1>1, <1>2, LongBlock
<1>4. /\ BlockSz > MFLimit /\ enc.anchor \in Source..MatchLimit
      /\ enc.ip > Source /\ enc.ip >= enc.anchor /\ enc.ip <= MFLimitPlusOne
      /\ enc.step >= 1 /\ enc.nb >= 64
      /\ \A h \in 0..(HashSize - 1) : table[h] <= Index(enc.ip) - 1
  BY <1>1, <1>2 DEF AtSearch, SkipUnit, TableUpTo
<1>5. p \in Nat /\ enc.step \in Nat /\ enc.nb \in Nat /\ enc.anchor \in Nat /\ enc.blk \in Nat
  BY <1>1 DEF EncoderType
<1>6. table \in [0..(HashSize - 1) -> Nat] /\ budget \in Nat
  BY <1>1 DEF TypeInv, PageInv
<1>7. CASE p + enc.step > MFLimitPlusOne
  <2>1. enc' = [enc EXCEPT !.pc = "last"] /\ table' = table
    BY <1>7 DEF Probe
  <2>2. /\ EncoderType(enc') /\ enc'.blk = enc.blk /\ enc'.pc = "last" /\ enc'.anchor = enc.anchor
        /\ enc'.op = enc.op /\ enc'.reach = enc.reach /\ enc'.head = enc.head
    BY <1>1, <2>1 DEF EncoderType, Phases
  <2>3. Source' = Source /\ IEnd' = IEnd /\ Index(IEnd)' = Index(IEnd)
    BY <1>2, <2>2, SamePlace
  <2>4. PageInv' /\ BlockInv'
    BY <1>1, <1>2, <2>2, WithinBlock
  <2>5. TypeInv'
    BY <1>1, <1>2, <2>1, <2>2 DEF TypeInv
  <2>6. /\ enc.anchor \in Source..IEnd
        /\ Index(IEnd) \in Nat /\ Index(p) \in Nat /\ Index(p) - 1 <= Index(IEnd)
    BY <1>3, <1>4, <1>5
  <2>7. AtLast'
    BY <1>4, <1>6, <2>1, <2>2, <2>3, <2>6 DEF AtLast, TableUpTo
  <2>8. AtBlock' /\ AtSearch' /\ AtMatch'
    BY <2>2 DEF AtBlock, AtSearch, AtMatch
  <2>9. BudgetInv'
    BY <1>1, <1>2, <2>2 DEF BudgetInv
  <2> QED BY <2>4, <2>5, <2>7, <2>8, <2>9 DEF IInv
<1>8. CASE ~(p + enc.step > MFLimitPlusOne)
  <2>1. /\ table' = Put(table, p)
        /\ IF Usable(index, p) THEN EncodeLiterals(p - back, m - back)
           ELSE enc' = [enc EXCEPT !.ip = p + enc.step, !.step = enc.nb \div 64, !.nb = enc.nb + 1]
    BY <1>8 DEF Probe, SkipUnit
  <2>2. p < MFLimitPlusOne /\ p + enc.step <= MFLimitPlusOne /\ p + 5 <= IEnd
    BY <1>3, <1>4, <1>5, <1>8
  <2>3. Index(p) \in Nat
    BY <1>3, <1>4, <1>5
  <2>4. /\ table' \in [0..(HashSize - 1) -> Nat]
        /\ \A h \in 0..(HashSize - 1) : table'[h] <= Index(p)
    <3>1. \A h \in 0..(HashSize - 1) : table[h] <= Index(p)
      BY <1>4, <1>6, <2>3
    <3>2. /\ enc.pc \in {"block", "search", "match", "last"} /\ p >= Source
          /\ Index(p) \in Int /\ Index(p) <= Index(p)
      BY <1>2, <1>3, <1>4, <1>5, <2>3
    <3> HIDE DEF p
    <3> QED BY <1>1, <1>5, <1>6, <2>1, <2>2, <3>1, <3>2, PutInBlock
  <2>5. CASE Usable(index, p)
    <3>1. /\ m \in Nat /\ m >= LowLimit /\ p - m \in 1..DistanceMax
          /\ \A i \in 0..3 : Byte(m + i) = Byte(p + i)
          /\ back \in Nat /\ back <= p - enc.anchor /\ back <= m - LowLimit
          /\ \A c \in Nat : c < back => Byte(p - c - 1) = Byte(m - c - 1)
          /\ p - back \in Nat /\ m - back \in Int /\ (p - back) - enc.anchor \in Nat
      BY <1>2, <2>2, <2>5, CandidateFacts
    <3>2. /\ m \in Nat /\ m >= LowLimit /\ p - m \in 1..DistanceMax
          /\ \A i \in 0..3 : Byte(m + i) = Byte(p + i)
      BY <3>1
    <3> HIDE DEF index, m
    <3>3. /\ back \in Nat /\ back <= p - enc.anchor /\ back <= m - LowLimit
          /\ \A c \in Nat : c < back => Byte(p - c - 1) = Byte(m - c - 1)
      BY <3>1
    <3> HIDE DEF back
    <3>4. p - back \in Nat /\ m - back \in Int /\ (p - back) - enc.anchor \in Nat
      BY <3>1
    <3>5. EncodeLiterals(p - back, m - back)
      BY <2>1, <2>5 DEF m, index, back
    <3>6. /\ EncoderType(enc') /\ enc'.blk = enc.blk /\ BudgetInv'
          /\ \/ enc'.pc = "refused"
             \/ /\ enc'.pc = "match" /\ enc'.ip = p - back /\ enc'.match = m - back
                /\ enc'.anchor = enc.anchor /\ enc'.op + 2 <= budget
      <4>1. budget' = budget
        BY <1>2
      <4> HIDE DEF p
      <4> QED BY <1>1, <1>6, <3>4, <3>5, <4>1, EncodeLiteralsFacts
    <3>7. PageInv' /\ BlockInv'
      BY <1>1, <1>2, <3>6, WithinBlock
    <3>8. TypeInv'
      BY <1>1, <1>2, <2>4, <3>6 DEF TypeInv
    <3>9. AtMatch'
      <4>1. SUFFICES ASSUME enc'.pc = "match" PROVE AtMatch'
        BY DEF AtMatch
      <4>2. /\ BlockSz' = BlockSz /\ Source' = Source /\ MFLimitPlusOne' = MFLimitPlusOne
            /\ LowLimit' = LowLimit
            /\ \A r : Index(r)' = Index(r)
            /\ \A r, t : MatchLength(r, t)' = MatchLength(r, t)
        BY <1>2, <3>6, SamePlace
      <4>3. /\ enc'.ip = p - back /\ enc'.match = m - back /\ enc'.anchor = enc.anchor
            /\ enc'.op + 2 <= budget
        BY <3>6, <4>1
      <4> DEFINE len == MatchLength(p - back, m - back)
      <4>4. len \in Nat /\ (p - back) + len > p
        <5>1. MatchLimit \in Int /\ MatchLimit - p >= MinMatch /\ MatchLimit - (p - back) >= MinMatch
              /\ p \in Int /\ m \in Int /\ p - back \in Int /\ m - back \in Int
          BY <1>3, <1>5, <2>2, <3>2, <3>3 DEF MinMatch
        <5>2. len \in Nat
          BY <5>1, MatchLengthFacts
        <5> QED BY <3>2, <3>3, <5>1, <5>2, MatchPassesProbe
      <4> HIDE DEF len
      <4>5. Index(p) <= Index((p - back) + len) - 1 /\ Index((p - back) + len) \in Int
        BY <1>3, <1>5, <3>4, <4>4
      <4>6. \A h \in 0..(HashSize - 1) : table'[h] <= Index((p - back) + len) - 1
        BY <2>3, <2>4, <4>5
      <4>7. /\ enc.anchor \in Source..(p - back) /\ p - back < MFLimitPlusOne
            /\ (p - back) - (m - back) \in 1..DistanceMax
            /\ m - back >= LowLimit
        BY <1>3, <1>4, <1>5, <2>2, <3>2, <3>3
      <4>8. TableUpTo(Index(enc.ip + MatchLength(enc.ip, enc.match)) - 1)'
        BY <4>2, <4>3, <4>6 DEF TableUpTo, len
      <4>9. /\ BlockSz' > MFLimit /\ enc'.anchor \in (Source..enc.ip)'
            /\ (enc.ip < MFLimitPlusOne)' /\ (enc.ip - enc.match \in 1..DistanceMax)'
            /\ (enc.match >= LowLimit)' /\ (enc.op + 2 <= budget)'
        BY <1>2, <1>4, <4>2, <4>3, <4>7 DEF DistanceMax
      <4> QED BY <4>8, <4>9 DEF AtMatch
    <3>10. AtBlock' /\ AtSearch' /\ AtLast'
      BY <3>6 DEF AtBlock, AtSearch, AtLast
    <3> QED BY <3>6, <3>7, <3>8, <3>9, <3>10 DEF IInv
  <2>6. CASE ~Usable(index, p)
    <3>1. enc' = [enc EXCEPT !.ip = p + enc.step, !.step = enc.nb \div 64, !.nb = enc.nb + 1]
      BY <2>1, <2>6
    <3>2. enc.nb \div 64 \in Nat /\ enc.nb \div 64 >= 1 /\ p + enc.step \in Nat /\ enc.nb + 1 \in Nat
      BY <1>4, <1>5
    <3>3. EncoderType(enc')
      BY <1>1, <3>1, <3>2 DEF EncoderType
    <3>4. /\ enc'.blk = enc.blk /\ enc'.pc = "search" /\ enc'.anchor = enc.anchor
          /\ enc'.ip = p + enc.step /\ enc'.step = enc.nb \div 64 /\ enc'.nb = enc.nb + 1
          /\ enc'.op = enc.op /\ enc'.reach = enc.reach /\ enc'.head = enc.head
      BY <1>1, <1>2, <3>1 DEF EncoderType
    <3>5. /\ BlockSz' = BlockSz /\ Source' = Source /\ MatchLimit' = MatchLimit
          /\ MFLimitPlusOne' = MFLimitPlusOne /\ \A q : Index(q)' = Index(q)
      BY <1>2, <3>4, SamePlace
    <3>6. PageInv' /\ BlockInv'
      BY <1>1, <1>2, <3>4, WithinBlock
    <3>7. TypeInv'
      BY <1>1, <1>2, <2>4, <3>3 DEF TypeInv
    <3>8. AtSearch'
      <4>1. Index(p) <= Index(p + enc.step) - 1 /\ Index(p + enc.step) \in Int
        BY <1>3, <1>4, <1>5, <3>2
      <4>2. TableUpTo(Index(enc.ip) - 1)'
        BY <2>3, <2>4, <3>4, <3>5, <4>1 DEF TableUpTo
      <4>3. /\ p + enc.step > Source /\ p + enc.step >= enc.anchor /\ enc.nb + 1 >= 64
        BY <1>3, <1>4, <1>5
      <4> QED BY <1>4, <2>2, <3>2, <3>4, <3>5, <4>2, <4>3 DEF AtSearch, SkipUnit
    <3>9. AtBlock' /\ AtLast' /\ AtMatch'
      BY <3>4 DEF AtBlock, AtLast, AtMatch
    <3>10. BudgetInv'
      BY <1>1, <1>2, <3>4 DEF BudgetInv
    <3> QED BY <3>6, <3>7, <3>8, <3>9, <3>10 DEF IInv
  <2> QED BY <2>5, <2>6
<1> QED BY <1>7, <1>8

(* The encoder behind a match of this length, which ends at position q.    *)
BehindMatch(len, q, sq) ==
    [[enc EXCEPT !.reach = Max({@, enc.op + 2 + WrittenForLength(len - MinMatch),
                                enc.op + MatchSize(len)})]
        EXCEPT !.sqs = Append(@, sq), !.op = @ + MatchSize(len), !.anchor = q]

(* A match that fits is written within the budget.                         *)
LEMMA EncodeMatchFacts ==
  ASSUME EncoderType(enc), budget \in Nat, NEW len \in Nat, len >= MinMatch, MatchFits(len),
         NEW q \in Nat, NEW sq, BudgetInv, NEW e, e = BehindMatch(len, q, sq)
  PROVE  /\ EncoderType(e) /\ e.pc = enc.pc /\ e.blk = enc.blk /\ e.anchor = q /\ e.op + 3 <= budget
         /\ e.head = enc.head /\ (e.reach <= budget \/ e.reach <= e.head)
         /\ e.op = enc.op + MatchSize(len) /\ e.sqs = Append(enc.sqs, sq)
<1>1. enc.op \in Nat /\ enc.reach \in Nat /\ enc.head \in Nat
  BY DEF EncoderType
<1> DEFINE word == enc.op + 2 + WrittenForLength(len - MinMatch)
           end == enc.op + MatchSize(len)
           reach == Max({enc.reach, word, end})
<1>2. word \in Nat /\ end \in Nat /\ word <= budget /\ end + 3 <= budget
  BY <1>1, MatchIsChecked
<1> HIDE DEF word
<1>3. reach \in {enc.reach, word, end}
  <2> DEFINE S == {enc.reach, word, end}
  <2>1. PICK n \in Nat : enc.reach <= n /\ word <= n /\ end <= n
    <3>1. /\ enc.reach + word + end \in Nat /\ enc.reach <= enc.reach + word + end
          /\ word <= enc.reach + word + end /\ end <= enc.reach + word + end
      BY <1>1, <1>2
    <3> QED BY <3>1
  <2>2. S \in SUBSET (0..n) /\ S # {}
    BY <1>1, <1>2, <2>1
  <2>3. Max(S) \in S
    <3> HIDE DEF S
    <3> QED BY <2>1, <2>2, MaxOfBounded
  <2> QED BY <2>3
<1>4. reach \in Nat
  BY <1>1, <1>2, <1>3
<1> DEFINE w == [enc EXCEPT !.reach = reach]
           sqs == Append(enc.sqs, sq)
<1>5. EncoderType(w)
  BY <1>4 DEF EncoderType
<1>6. /\ w.pc = enc.pc /\ w.blk = enc.blk /\ w.head = enc.head /\ w.op = enc.op
      /\ w.reach = reach /\ w.sqs = enc.sqs
  BY DEF EncoderType
<1>7. e = [w EXCEPT !.sqs = Append(w.sqs, sq), !.op = w.op + MatchSize(len), !.anchor = q]
  BY DEF BehindMatch, word
<1> HIDE DEF w, reach
<1>8. e = [w EXCEPT !.sqs = sqs, !.op = end, !.anchor = q]
  BY <1>6, <1>7
<1> HIDE DEF sqs, end
<1>9. EncoderType(e)
  BY <1>2, <1>5, <1>8, ZenonT(60) DEF EncoderType
<1>10. /\ e.pc = w.pc /\ e.blk = w.blk /\ e.anchor = q /\ e.op = end /\ e.head = w.head /\ e.reach = w.reach
       /\ e.sqs = sqs
  BY <1>5, <1>8 DEF EncoderType
<1>11. reach <= budget \/ reach <= enc.head
  <2>1. CASE reach = enc.reach
    BY <2>1 DEF BudgetInv
  <2>2. CASE reach # enc.reach
    <3>1. end <= budget
      BY <1>2
    <3> QED BY <1>2, <1>3, <2>2, <3>1
  <2> QED BY <2>1, <2>2
<1> QED BY <1>2, <1>6, <1>9, <1>10, <1>11 DEF end, sqs

(* What the test of the next position makes of the encoder and the table.  *)
LEMMA NextPositionFacts ==
  ASSUME PageInv, TypeInv, BlockInv, enc.pc = "match",
         NEW e, EncoderType(e), e.pc = "match", NEW p \in Nat, p - 2 >= Source, p <= MatchLimit,
         TableUpTo(Index(p) - 1), TestNextPosition(e, p)
  PROVE  /\ EncoderType(enc') /\ table' \in [0..(HashSize - 1) -> Nat]
         /\ enc'.blk = e.blk /\ enc'.anchor = e.anchor /\ enc'.head = e.head /\ enc'.reach = e.reach
         /\ enc'.sqs = e.sqs
         /\ \A h \in 0..(HashSize - 1) : table'[h] <= Index(p)
         /\ \/ enc'.pc = "last" /\ enc'.op = e.op
            \/ /\ enc'.pc = "search" /\ enc'.ip = p + 1 /\ enc'.nb = 64 /\ enc'.step = 1
               /\ enc'.op = e.op /\ p < MFLimitPlusOne
            \/ /\ enc'.pc = "match" /\ enc'.ip = p /\ enc'.op = e.op + 1 /\ p < MFLimitPlusOne
               /\ p - enc'.match \in 1..DistanceMax /\ enc'.match >= LowLimit
               /\ \A i \in 0..3 : Byte(enc'.match + i) = Byte(p + i)
<1>1. /\ BlockSz \in Nat /\ Source \in Nat /\ IEnd = Source + BlockSz
      /\ MFLimitPlusOne = IEnd - 11 /\ MatchLimit = IEnd - 5
      /\ cctx.currentOffset \in Nat /\ LowLimit \in Nat
      /\ \A q \in Nat : Index(q) = cctx.currentOffset + (q - Source)
  BY LongBlock
<1>2. table \in [0..(HashSize - 1) -> Nat]
  BY DEF TypeInv
<1>3. \A h \in 0..(HashSize - 1) : table[h] <= Index(p) - 1
  BY DEF TableUpTo
<1>4. /\ p - 2 \in Nat /\ Index(p) \in Nat /\ Index(p - 2) <= Index(p) - 1 /\ Index(p) - 1 \in Int
  BY <1>1
<1>5. e.op \in Nat
  BY DEF EncoderType
<1>6. CASE p >= MFLimitPlusOne
  <2>1. enc' = [e EXCEPT !.pc = "last"] /\ table' = table
    BY <1>6 DEF TestNextPosition
  <2>2. EncoderType(enc')
    BY <2>1 DEF EncoderType, Phases
  <2>3. /\ enc'.pc = "last" /\ enc'.blk = e.blk /\ enc'.anchor = e.anchor /\ enc'.head = e.head
        /\ enc'.reach = e.reach /\ enc'.op = e.op /\ enc'.sqs = e.sqs
    BY <2>1 DEF EncoderType
  <2>4. \A h \in 0..(HashSize - 1) : table'[h] <= Index(p)
    BY <1>2, <1>3, <1>4, <2>1
  <2> QED BY <1>2, <2>1, <2>2, <2>3, <2>4
<1>7. CASE ~(p >= MFLimitPlusOne)
  <2> DEFINE filled == Put(table, p - 2)
             index == filled[HashPosition(p)]
  <2>1. /\ table' = Put(filled, p)
        /\ enc' = IF Usable(index, p)
                  THEN [e EXCEPT !.ip = p, !.match = Position(index), !.op = @ + 1]
                  ELSE SearchFrom(e, p + 1)
    BY <1>7 DEF TestNextPosition
  <2>2. p < MFLimitPlusOne /\ p >= Source /\ p + 5 <= IEnd /\ (p - 2) + 5 <= IEnd
    BY <1>1, <1>4, <1>7
  <2>3. enc.pc \in {"block", "search", "match", "last"}
    OBVIOUS
  <2>4. /\ filled \in [0..(HashSize - 1) -> Nat]
        /\ \A h \in 0..(HashSize - 1) : filled[h] <= Index(p) - 1
    BY <1>2, <1>3, <1>4, <2>2, <2>3, PutInBlock
  <2> HIDE DEF filled
  <2>5. /\ table' \in [0..(HashSize - 1) -> Nat]
        /\ \A h \in 0..(HashSize - 1) : table'[h] <= Index(p)
    <3>1. Index(p) \in Int /\ Index(p) <= Index(p)
      BY <1>4
    <3>2. \A h \in 0..(HashSize - 1) : filled[h] <= Index(p)
      BY <1>4, <2>4
    <3> QED BY <2>1, <2>2, <2>3, <2>4, <3>1, <3>2, PutInBlock
  <2>6. index \in Nat /\ index <= Index(p) - 1
    <3>1. p + 5 <= PageBytes
      <4>1. IEnd <= PageBytes /\ PageBytes \in Nat
        BY <2>3, LongBlock
      <4> QED BY <1>1, <2>2, <4>1
    <3>2. HashPosition(p) \in 0..(HashSize - 1)
      BY <3>1, HashInTable
    <3> QED BY <2>4, <3>2
  <2> HIDE DEF index
  <2>7. CASE Usable(index, p)
    <3> DEFINE m == Position(index)
    <3>1. /\ m \in Nat /\ m >= LowLimit /\ p - m \in 1..DistanceMax
          /\ \A i \in 0..3 : Byte(m + i) = Byte(p + i)
      BY <2>2, <2>6, <2>7, UsableMatch
    <3> HIDE DEF m
    <3>2. enc' = [e EXCEPT !.ip = p, !.match = m, !.op = e.op + 1]
      BY <2>1, <2>7 DEF m
    <3>3. e.op + 1 \in Nat /\ m \in Int
      BY <1>5, <3>1
    <3>4. EncoderType(enc')
      BY <3>2, <3>3 DEF EncoderType
    <3>5. /\ enc'.pc = e.pc /\ enc'.blk = e.blk /\ enc'.anchor = e.anchor /\ enc'.head = e.head
          /\ enc'.reach = e.reach /\ enc'.ip = p /\ enc'.match = m /\ enc'.op = e.op + 1
          /\ enc'.sqs = e.sqs
      BY <3>2 DEF EncoderType
    <3> QED BY <2>2, <2>5, <3>1, <3>4, <3>5
  <2>8. CASE ~Usable(index, p)
    <3>1. enc' = SearchFrom(e, p + 1) /\ p + 1 \in Nat
      BY <2>1, <2>8
    <3>2. /\ EncoderType(enc') /\ enc'.pc = "search" /\ enc'.ip = p + 1 /\ enc'.nb = 64 /\ enc'.step = 1
          /\ enc'.blk = e.blk /\ enc'.anchor = e.anchor
          /\ enc'.op = e.op /\ enc'.reach = e.reach /\ enc'.head = e.head /\ enc'.sqs = e.sqs
      BY <3>1, SearchFromFacts, SMTT(30)
    <3> QED BY <2>2, <2>5, <3>2
  <2> QED BY <2>7, <2>8
<1> QED BY <1>6, <1>7

(* Writing literals and a match keeps it, as does the test right behind    *)
(* it.                                                                     *)
LEMMA EncodeMatchKeeps ==
  ASSUME IInv, EncodeMatch PROVE IInv'
<1> DEFINE len == MatchLength(enc.ip, enc.match)
           lits == Bytes(enc.anchor, enc.ip - enc.anchor)
           p == enc.ip + len
           sq == Sequence(lits, enc.ip - enc.match, len)
           e == BehindMatch(len, p, sq)
<1>1. PageInv /\ TypeInv /\ BlockInv /\ AtMatch /\ BudgetInv /\ EncoderType(enc)
  BY DEF IInv, TypeInv
<1>2. enc.pc = "match" /\ UNCHANGED <<page, budget, weights, ends, cctx, dec>>
  BY DEF EncodeMatch, Refuse
<1>3. /\ BlockSz \in Nat /\ Source \in Nat /\ IEnd = Source + BlockSz /\ PageBytes \in Nat
      /\ MFLimitPlusOne = IEnd - 11 /\ MatchLimit = IEnd - 5 /\ IEnd <= PageBytes
      /\ LowLimit = Source - cctx.dictSize /\ LowLimit \in Nat
      /\ cctx.currentOffset \in Nat /\ cctx.dictSize \in Nat
      /\ \A q \in Nat : Index(q) = cctx.currentOffset + (q - Source)
  BY <1>1, <1>2, LongBlock
<1>4. /\ BlockSz > MFLimit /\ enc.anchor \in Source..enc.ip /\ enc.ip < MFLimitPlusOne
      /\ enc.op + 2 <= budget /\ TableUpTo(Index(p) - 1)
  BY <1>1, <1>2 DEF AtMatch
<1>5. /\ enc.ip \in Nat /\ enc.match \in Int /\ enc.op \in Nat /\ enc.reach \in Nat
      /\ enc.head \in Nat /\ budget \in Nat /\ enc.anchor \in Nat
  BY <1>1 DEF EncoderType, PageInv
<1>6. len \in Nat /\ len >= MinMatch /\ len >= 4 /\ len <= MatchLimit - enc.ip
  <2>1. MatchLimit \in Int /\ MatchLimit - enc.ip >= MinMatch /\ enc.ip \in Int
    BY <1>3, <1>4, <1>5 DEF MinMatch
  <2>2. len \in Nat /\ len >= MinMatch /\ len <= MatchLimit - enc.ip
    BY <1>5, <2>1, MatchLengthFacts
  <2> QED BY <2>2 DEF MinMatch
<1>7. CASE ~MatchFits(len)
  <2>1. /\ enc' = [enc EXCEPT !.pc = "refused", !.reach = Max({@, enc.op + 2})]
        /\ table' = table
    BY <1>7 DEF EncodeMatch, Refuse
  <2> DEFINE reach == Max({enc.reach, enc.op + 2})
  <2>2. reach \in {enc.reach, enc.op + 2}
    <3>1. enc.reach \in Int /\ enc.op + 2 \in Int
      BY <1>5
    <3> QED BY <3>1, OfTwo
  <2>3. reach \in Nat
    BY <1>5, <2>2
  <2>4. enc' = [enc EXCEPT !.pc = "refused", !.reach = reach]
    BY <2>1
  <2> HIDE DEF reach
  <2>5. EncoderType(enc')
    BY <1>1, <2>3, <2>4 DEF EncoderType, Phases
  <2>6. /\ enc'.pc = "refused" /\ enc'.blk = enc.blk
        /\ enc'.op = enc.op /\ enc'.reach = reach /\ enc'.head = enc.head
    BY <1>1, <2>4 DEF EncoderType
  <2>7. PageInv' /\ BlockInv'
    BY <1>1, <1>2, <2>6, WithinBlock
  <2>8. TypeInv'
    BY <1>1, <1>2, <2>1, <2>5 DEF TypeInv
  <2>9. AtBlock' /\ AtSearch' /\ AtMatch' /\ AtLast'
    BY <2>6 DEF AtBlock, AtSearch, AtMatch, AtLast
  <2>10. BudgetInv'
    BY <1>1, <1>2, <1>4, <2>2, <2>6 DEF BudgetInv
  <2> QED BY <2>7, <2>8, <2>9, <2>10 DEF IInv
<1>8. CASE MatchFits(len)
  <2>1. TestNextPosition(e, p)
    BY <1>8 DEF EncodeMatch, BehindMatch
  <2>2. p \in Nat /\ p - 2 >= Source /\ p <= MatchLimit /\ p > Source
    BY <1>3, <1>4, <1>5, <1>6
  <2>3. /\ EncoderType(e) /\ e.pc = enc.pc /\ e.blk = enc.blk /\ e.anchor = p /\ e.op + 3 <= budget
        /\ e.head = enc.head /\ (e.reach <= budget \/ e.reach <= e.head)
    <3> HIDE DEF len, p, sq
    <3> QED BY <1>1, <1>5, <1>6, <1>8, <2>2, EncodeMatchFacts
  <2> HIDE DEF e
  <2>4. /\ EncoderType(enc') /\ table' \in [0..(HashSize - 1) -> Nat]
        /\ enc'.blk = e.blk /\ enc'.anchor = e.anchor /\ enc'.head = e.head /\ enc'.reach = e.reach
        /\ \A h \in 0..(HashSize - 1) : table'[h] <= Index(p)
        /\ \/ enc'.pc = "last" /\ enc'.op = e.op
           \/ /\ enc'.pc = "search" /\ enc'.ip = p + 1 /\ enc'.nb = 64 /\ enc'.step = 1
              /\ enc'.op = e.op /\ p < MFLimitPlusOne
           \/ /\ enc'.pc = "match" /\ enc'.ip = p /\ enc'.op = e.op + 1 /\ p < MFLimitPlusOne
              /\ p - enc'.match \in 1..DistanceMax /\ enc'.match >= LowLimit
    <3>1. e.pc = "match"
      BY <1>2, <2>3
    <3> HIDE DEF p
    <3> QED BY <1>1, <1>2, <1>4, <2>1, <2>2, <2>3, <3>1, NextPositionFacts
  <2>5. enc'.blk = enc.blk /\ enc'.anchor = p /\ e.op \in Nat
    BY <2>3, <2>4 DEF EncoderType
  <2>6. /\ BlockSz' = BlockSz /\ Source' = Source /\ IEnd' = IEnd
        /\ MFLimitPlusOne' = MFLimitPlusOne /\ MatchLimit' = MatchLimit /\ LowLimit' = LowLimit
        /\ \A r : Index(r)' = Index(r)
        /\ \A r, t : MatchLength(r, t)' = MatchLength(r, t)
    BY <1>2, <2>5, SamePlace
  <2>7. PageInv' /\ BlockInv'
    BY <1>1, <1>2, <2>5, WithinBlock
  <2>8. TypeInv'
    BY <1>1, <1>2, <2>4 DEF TypeInv
  <2> HIDE DEF p
  <2>9. Index(p) = cctx.currentOffset + (p - Source)
    BY <1>3, <2>2
  <2>10. AtSearch'
    <3>1. SUFFICES ASSUME enc'.pc = "search" PROVE AtSearch'
      BY DEF AtSearch
    <3>2. enc'.ip = p + 1 /\ enc'.nb = 64 /\ enc'.step = 1 /\ p < MFLimitPlusOne
      BY <2>4, <3>1
    <3>3. Index(p + 1) - 1 = Index(p)
      BY <1>3, <2>2, <2>9
    <3>4. TableUpTo(Index(enc.ip) - 1)'
      BY <2>4, <2>6, <3>2, <3>3 DEF TableUpTo
    <3>5. /\ p \in Source..MatchLimit /\ p + 1 > Source /\ p + 1 >= p /\ p + 1 <= MFLimitPlusOne
      BY <1>3, <2>2, <3>2
    <3> QED BY <1>4, <2>5, <2>6, <3>2, <3>4, <3>5 DEF AtSearch, SkipUnit
  <2>11. AtMatch'
    <3>1. SUFFICES ASSUME enc'.pc = "match" PROVE AtMatch'
      BY DEF AtMatch
    <3>2. /\ enc'.ip = p /\ enc'.op = e.op + 1 /\ p < MFLimitPlusOne
          /\ p - enc'.match \in 1..DistanceMax /\ enc'.match >= LowLimit
      BY <2>4, <3>1
    <3> DEFINE n == MatchLength(p, enc'.match)
    <3>3. n \in Nat /\ n >= 4
      <4>1. enc'.match \in Int
        BY <2>4 DEF EncoderType
      <4>2. MatchLimit \in Int /\ MatchLimit - p >= MinMatch /\ p \in Int
        BY <1>3, <2>2, <3>2 DEF MinMatch
      <4> QED BY <4>1, <4>2, MatchLengthFacts DEF MinMatch
    <3>4. MatchLength(enc.ip, enc.match)' = n
      <4>1. \A r, t : MatchLength(r, t)' = MatchLength(r, t)
        BY <2>6
      <4> QED BY <1>2, <2>5, <2>6, <3>2 DEF MatchLength, Byte, BlockSz, MatchLimit
    <3> HIDE DEF n
    <3>5. Index(p) <= Index(p + n) - 1 /\ Index(p + n) \in Int /\ Index(p) \in Int
      BY <1>3, <2>2, <2>9, <3>3
    <3>6. \A h \in 0..(HashSize - 1) : table'[h] <= Index(p + n) - 1
      BY <2>4, <3>5
    <3>7. TableUpTo(Index(enc.ip + MatchLength(enc.ip, enc.match)) - 1)'
      BY <2>6, <3>2, <3>4, <3>6 DEF TableUpTo
    <3>8. p \in Source..p /\ enc'.op + 2 <= budget
      BY <1>3, <1>5, <2>2, <2>3, <2>5, <3>2
    <3>9. /\ BlockSz' > MFLimit /\ enc'.anchor \in (Source..enc.ip)'
          /\ (enc.ip < MFLimitPlusOne)' /\ (enc.ip - enc.match \in 1..DistanceMax)'
          /\ (enc.match >= LowLimit)' /\ (enc.op + 2 <= budget)'
      BY <1>2, <1>4, <2>5, <2>6, <3>2, <3>8 DEF DistanceMax
    <3> QED BY <3>7, <3>9 DEF AtMatch
  <2>12. AtLast'
    <3>1. /\ p \in Source..IEnd /\ Index(p) <= Index(IEnd) /\ Index(p) \in Int /\ Index(IEnd) \in Int
      BY <1>3, <2>2, <2>9
    <3>2. \A h \in 0..(HashSize - 1) : table'[h] <= Index(IEnd)
      BY <2>4, <3>1
    <3>3. Index(IEnd)' = Index(IEnd)
      BY <1>2, <2>5, SamePlace
    <3> QED BY <2>5, <2>6, <3>1, <3>2, <3>3 DEF AtLast, TableUpTo
  <2>13. AtBlock'
    BY <2>4 DEF AtBlock
  <2>14. BudgetInv'
    <3>1. e.op + 1 <= budget /\ e.op <= budget
      BY <1>5, <2>3, <2>5
    <3>2. enc'.op <= budget
      BY <2>4, <3>1
    <3> QED BY <1>2, <2>3, <2>4, <3>2 DEF BudgetInv
  <2> QED BY <2>7, <2>8, <2>10, <2>11, <2>12, <2>13, <2>14 DEF IInv
<1> QED BY <1>7, <1>8

(* The last literals of a block keep it: they fit, or the page is refused. *)
LEMMA EncodeLastLiteralsKeeps ==
  ASSUME IInv, EncodeLastLiterals PROVE IInv'
<1> DEFINE n == IEnd - enc.anchor
           end == enc.op + LiteralSize(n)
           more == enc.blk + 1 < NumBlocks
<1>1. PageInv /\ TypeInv /\ BlockInv /\ AtLast /\ BudgetInv /\ EncoderType(enc)
  BY DEF IInv, TypeInv
<1>2. enc.pc = "last" /\ UNCHANGED <<page, budget, weights>>
  BY DEF EncodeLastLiterals, Refuse
<1>3. /\ enc.blk < NumBlocks /\ BlockSz \in Nat /\ Source \in Nat /\ IEnd = Source + BlockSz
      /\ LowLimit \in Nat /\ cctx.currentOffset \in Nat /\ cctx.dictSize \in Nat
      /\ \A q \in Nat : Index(q) = cctx.currentOffset + (q - Source)
  BY <1>1, <1>2, LongBlock
<1>4. enc.anchor \in Source..IEnd /\ TableUpTo(Index(IEnd))
  BY <1>1, <1>2 DEF AtLast
<1>5. /\ enc.op \in Nat /\ enc.reach \in Nat /\ enc.head \in Nat /\ enc.blk \in Nat
      /\ budget \in Nat /\ n \in Nat /\ NumBlocks \in Nat
  <2>1. /\ enc.op \in Nat /\ enc.reach \in Nat /\ enc.head \in Nat /\ enc.blk \in Nat
        /\ budget \in Nat
    BY <1>1 DEF EncoderType, PageInv
  <2>2. NumBlocks \in Nat
    BY <1>1, SizesAreNaturals
  <2>3. n \in Nat
    BY <1>3, <1>4
  <2> QED BY <2>1, <2>2, <2>3
<1>6. BlockSz' = BlockSz /\ NumBlocks' = NumBlocks
  BY <1>2 DEF BlockSz, NumBlocks
<1>7. CASE ~LastFit(n)
  <2>1. /\ enc' = [enc EXCEPT !.pc = "refused", !.reach = Max({@, enc.op})]
        /\ UNCHANGED <<ends, table, cctx, dec>>
    BY <1>7 DEF EncodeLastLiterals, Refuse
  <2> DEFINE reach == Max({enc.reach, enc.op})
  <2>2. reach \in {enc.reach, enc.op}
    <3>1. enc.reach \in Int /\ enc.op \in Int
      BY <1>5
    <3> QED BY <3>1, OfTwo
  <2>3. reach \in Nat
    BY <1>5, <2>2
  <2>4. enc' = [enc EXCEPT !.pc = "refused", !.reach = reach]
    BY <2>1
  <2> HIDE DEF reach
  <2>5. EncoderType(enc')
    BY <1>1, <2>3, <2>4 DEF EncoderType, Phases
  <2>6. /\ enc'.pc = "refused" /\ enc'.blk = enc.blk
        /\ enc'.op = enc.op /\ enc'.reach = reach /\ enc'.head = enc.head
    BY <1>1, <2>4 DEF EncoderType
  <2>7. PageInv' /\ BlockInv'
    BY <1>1, <1>2, <2>1, <2>6, WithinBlock
  <2>8. TypeInv'
    BY <1>1, <1>2, <2>1, <2>5 DEF TypeInv
  <2>9. AtBlock' /\ AtSearch' /\ AtMatch' /\ AtLast'
    BY <2>6 DEF AtBlock, AtSearch, AtMatch, AtLast
  <2>10. BudgetInv'
    BY <1>1, <1>2, <2>2, <2>6 DEF BudgetInv
  <2> QED BY <2>7, <2>8, <2>9, <2>10 DEF IInv
<1>8. CASE LastFit(n)
  <2>1. /\ ends' = Append(ends, end)
        /\ enc' = [enc EXCEPT !.pc = IF more THEN "block" ELSE "idle", !.blk = @ + 1,
                              !.op = @ + LiteralSize(n), !.reach = Max({@, end})]
        /\ cctx' = [dictSize |-> cctx.dictSize + BlockSz, currentOffset |-> cctx.currentOffset + BlockSz]
        /\ dec' = IF more THEN dec ELSE Decoder("run")
        /\ table' = table
    BY <1>8 DEF EncodeLastLiterals
  <2>2. end \in Nat /\ end <= budget
    BY <1>5, <1>8, LastIsChecked
  <2> DEFINE reach == Max({enc.reach, end})
             pc == IF more THEN "block" ELSE "idle"
  <2>3. reach \in {enc.reach, end}
    <3> HIDE DEF end
    <3>1. enc.reach \in Int /\ end \in Int
      BY <1>5, <2>2
    <3> QED BY <3>1, OfTwo
  <2>4. reach \in Nat
    <3> HIDE DEF reach, end
    <3> QED BY <1>5, <2>2, <2>3
  <2>5. pc \in Phases /\ enc.blk + 1 \in Nat
    BY <1>5 DEF Phases
  <2>6. enc' = [enc EXCEPT !.pc = pc, !.blk = enc.blk + 1, !.op = end, !.reach = reach]
    BY <2>1
  <2> HIDE DEF reach, pc, end
  <2>7. EncoderType(enc')
    BY <1>1, <2>2, <2>4, <2>5, <2>6 DEF EncoderType
  <2>8. /\ enc'.pc = pc /\ enc'.blk = enc.blk + 1 /\ enc'.op = end /\ enc'.reach = reach
        /\ enc'.head = enc.head
    BY <1>1, <2>6 DEF EncoderType
  <2>9. PageInv'
    BY <1>1, <1>2, <1>6 DEF PageInv
  <2>10. TypeInv'
    <3>1. ends \in Seq(Nat) /\ table \in [0..(HashSize - 1) -> Nat]
      BY <1>1 DEF TypeInv
    <3>2. ends' \in Seq(Nat)
      BY <2>1, <2>2, <3>1
    <3>3. cctx' \in [dictSize : Nat, currentOffset : Nat]
      <4>1. cctx.dictSize + BlockSz \in Nat /\ cctx.currentOffset + BlockSz \in Nat
        BY <1>3
      <4> QED BY <2>1, <4>1
    <3> QED BY <2>1, <2>7, <3>1, <3>2, <3>3 DEF TypeInv
  <2>11. Source' = Source + BlockSz
    <3>1. (enc.blk + 1) * BlockSz = enc.blk * BlockSz + BlockSz
      BY <1>3, <1>5
    <3> QED BY <1>6, <2>8, <3>1 DEF Source
  <2>12. cctx'.dictSize = cctx.dictSize + BlockSz /\ cctx'.currentOffset = cctx.currentOffset + BlockSz
    BY <2>1
  <2>13. BlockInv'
    <3>1. Len(ends') = enc'.blk
      <4>1. ends \in Seq(Nat) /\ Len(ends) = enc.blk
        BY <1>1 DEF TypeInv, BlockInv
      <4> QED BY <2>1, <2>8, <4>1
    <3>2. /\ enc'.blk <= NumBlocks
          /\ enc'.pc \in {"block", "search", "match", "last"} => enc'.blk < NumBlocks
      BY <1>3, <1>5, <2>8 DEF pc
    <3>3. dec'.pc \in {"run", "end"} => enc'.pc = "idle" /\ enc'.blk = NumBlocks
      <4>1. CASE more
        <5>1. dec' = dec
          BY <2>1, <4>1
        <5> QED BY <1>1, <1>2, <5>1 DEF BlockInv
      <4>2. CASE ~more
        BY <1>3, <1>5, <2>8, <4>2 DEF pc
      <4> QED BY <4>1, <4>2
    <3>4. cctx'.dictSize <= Source'
      BY <1>1, <1>3, <2>11, <2>12 DEF BlockInv
    <3> QED BY <1>6, <3>1, <3>2, <3>3, <3>4 DEF BlockInv
  <2>14. AtBlock'
    <3>1. Index(IEnd) = cctx'.currentOffset
      BY <1>3, <2>12
    <3> QED BY <1>4, <2>1, <3>1 DEF AtBlock, TableUpTo
  <2>15. AtSearch' /\ AtMatch' /\ AtLast'
    BY <2>8 DEF AtSearch, AtMatch, AtLast, pc
  <2>16. BudgetInv'
    BY <1>1, <1>2, <2>2, <2>3, <2>8 DEF BudgetInv
  <2> QED BY <2>9, <2>10, <2>13, <2>14, <2>15, <2>16 DEF IInv
<1> QED BY <1>7, <1>8

(* The table and the dictionary that a recompression starts with.          *)
LEMMA LoadDictFacts ==
  ASSUME NEW n \in Nat, LoadDict(n)
  PROVE  /\ cctx' \in [dictSize : Nat, currentOffset : Nat]
         /\ cctx'.dictSize <= n /\ cctx'.currentOffset = Window
         /\ table' \in [0..(HashSize - 1) -> Nat]
         /\ \A h \in 0..(HashSize - 1) : table'[h] <= Window
<1> DEFINE size == IF n < HashUnit THEN 0 ELSE Min({n, Window})
           hashed == {p \in (n - size)..(n - HashUnit) : (p - (n - size)) % 3 = 0}
           In(h) == {0} \cup {p + Window - n : p \in {q \in hashed : HashPosition(q) = h}}
<1>1. /\ cctx' = [dictSize |-> size, currentOffset |-> Window]
      /\ table' = [h \in DOMAIN Empty |-> Max(In(h))]
  BY DEF LoadDict
<1>2. Window \in Nat
  BY Lz4Assumption
<1>3. size \in Nat /\ size <= n /\ size <= Window
  <2>1. n \in Int /\ Window \in Int
    BY <1>2
  <2>2. Min({n, Window}) \in {n, Window} /\ Min({n, Window}) <= n /\ Min({n, Window}) <= Window
    BY <2>1, OfTwo
  <2> QED BY <1>2, <2>2
<1> HIDE DEF size
<1>4. ASSUME NEW h \in 0..(HashSize - 1) PROVE Max(In(h)) \in 0..Window
  <2>1. \A p \in hashed : p + Window - n \in 0..Window
    <3> TAKE p \in hashed
    <3>1. p \in Int /\ p >= n - size /\ p <= n - 8
      BY <1>3 DEF HashUnit
    <3> QED BY <1>2, <1>3, <3>1
  <2> HIDE DEF hashed
  <2>2. In(h) \in SUBSET (0..Window) /\ In(h) # {}
    BY <1>2, <2>1
  <2>3. Max(In(h)) \in In(h)
    <3> HIDE DEF In
    <3> QED BY <1>2, <2>2, MaxOfBounded
  <2> QED BY <2>2, <2>3
<1> HIDE DEF In
<1>5. DOMAIN Empty = 0..(HashSize - 1)
  BY DEF Empty
<1>6. \A h \in 0..(HashSize - 1) : table'[h] \in 0..Window
  BY <1>1, <1>4, <1>5
<1>7. table' \in [0..(HashSize - 1) -> Nat]
  BY <1>1, <1>2, <1>4, <1>5
<1> QED BY <1>1, <1>2, <1>3, <1>6, <1>7

(* A recompression keeps it: a dictionary, a new budget, the kept head.    *)
LEMMA RecompressKeeps ==
  ASSUME IInv, NEW b \in 0..(NumBlocks - 1), NEW v \in {w \in Values : Len(w) = BlockSz},
         NEW thres \in Budgets, Recompress(b, v, thres)
  PROVE  IInv'
<1> DEFINE h == IF b = 0 THEN 0 ELSE ends[b]
<1>1. PageInv /\ TypeInv /\ BlockInv
  BY DEF IInv
<1>2. /\ dec.pc = "end" /\ page' = [page EXCEPT ![b + 1] = v] /\ ends' = SubSeq(ends, 1, b)
      /\ enc' = Encoder("block", b, h) /\ LoadDict(b * BlockSz) /\ dec' = Decoder("idle")
      /\ budget' = thres /\ weights' = weights
  BY DEF Recompress
<1>3. BlockSz \in Nat /\ NumBlocks \in Nat \ {0}
  BY <1>1, SizesAreNaturals
<1>4. b \in Nat /\ b < NumBlocks /\ b * BlockSz \in Nat
  BY <1>3
<1>5. ends \in Seq(Nat) /\ Len(ends) = NumBlocks
  BY <1>1, <1>2 DEF TypeInv, BlockInv
<1>6. h \in Nat
  BY <1>4, <1>5
<1> HIDE DEF h
<1>7. v \in Seq(Nat) /\ Len(v) = BlockSz
  BY Lz4Assumption
<1>8. PageInv' /\ BlockSz' = BlockSz /\ NumBlocks' = NumBlocks
  <2>a. budget' \in Nat
    BY <1>2, Lz4Assumption
  <2>1. /\ page \in Seq(Seq(Nat)) /\ page # <<>> /\ Len(page) = NumBlocks
        /\ \A i \in DOMAIN page : Len(page[i]) = BlockSz
    BY <1>1 DEF PageInv, NumBlocks
  <2>2. page' \in Seq(Seq(Nat)) /\ Len(page') = NumBlocks /\ DOMAIN page' = DOMAIN page
    BY <1>2, <1>4, <1>7, <2>1
  <2>3. \A i \in DOMAIN page : Len(page'[i]) = BlockSz
    BY <1>2, <1>4, <1>7, <2>1
  <2>4. 1 \in DOMAIN page /\ page' # <<>>
    BY <1>3, <2>1, <2>2
  <2>5. BlockSz' = BlockSz
    BY <2>3, <2>4 DEF BlockSz
  <2> QED BY <1>1, <1>2, <2>a, <2>2, <2>3, <2>4, <2>5 DEF PageInv, NumBlocks
<1>9. /\ cctx' \in [dictSize : Nat, currentOffset : Nat]
      /\ cctx'.dictSize <= b * BlockSz /\ cctx'.currentOffset = Window
      /\ table' \in [0..(HashSize - 1) -> Nat]
      /\ \A k \in 0..(HashSize - 1) : table'[k] <= Window
  BY <1>2, <1>4, LoadDictFacts
<1>10. /\ enc'.pc = "block" /\ enc'.blk = b /\ enc'.op = h /\ enc'.reach = h /\ enc'.head = h
  BY <1>2 DEF Encoder
<1>11. EncoderType(enc')
  BY <1>2, <1>4, <1>6 DEF EncoderType, Encoder, Phases
<1>12. ends' \in Seq(Nat) /\ Len(ends') = b
  BY <1>2, <1>4, <1>5, SMTT(30)
<1>13. TypeInv'
  BY <1>9, <1>11, <1>12 DEF TypeInv
<1>14. BlockInv'
  <2>1. Source' = b * BlockSz
    BY <1>8, <1>10 DEF Source
  <2> QED BY <1>2, <1>3, <1>4, <1>8, <1>9, <1>10, <1>12, <2>1 DEF BlockInv, Decoder
<1>15. AtBlock'
  BY <1>9 DEF AtBlock, TableUpTo
<1>16. AtSearch' /\ AtMatch' /\ AtLast'
  BY <1>10 DEF AtSearch, AtMatch, AtLast
<1>17. BudgetInv'
  BY <1>6, <1>10 DEF BudgetInv
<1> QED BY <1>8, <1>13, <1>14, <1>15, <1>16, <1>17 DEF IInv

(* Steps that change nothing but the decoder, which has begun.             *)
LEMMA DecoderKeeps ==
  ASSUME IInv, UNCHANGED <<page, budget, weights, ends, enc, table, cctx>>,
         dec' = dec \/ dec.pc = "run"
  PROVE  IInv'
<1>1. PageInv /\ TypeInv /\ BlockInv /\ AtBlock /\ AtSearch /\ AtMatch /\ AtLast /\ BudgetInv
  BY DEF IInv
<1>2. /\ BlockSz' = BlockSz /\ NumBlocks' = NumBlocks /\ Source' = Source
      /\ IEnd' = IEnd /\ MFLimitPlusOne' = MFLimitPlusOne /\ MatchLimit' = MatchLimit
      /\ LowLimit' = LowLimit
  BY SamePlace
<1>3. PageInv'
  BY <1>1, <1>2 DEF PageInv
<1>4. TypeInv' /\ BudgetInv'
  BY <1>1 DEF TypeInv, BudgetInv
<1>5. BlockInv'
  BY <1>1, <1>2 DEF BlockInv
<1>6. AtBlock'
  BY <1>1 DEF AtBlock, TableUpTo
<1>7. AtSearch'
  BY <1>1, <1>2 DEF AtSearch, TableUpTo, Index, StartIndex
<1>8. AtMatch'
  BY <1>1, <1>2 DEF AtMatch, TableUpTo, Index, StartIndex, MatchLength, Byte
<1>9. AtLast'
  BY <1>1, <1>2 DEF AtLast, TableUpTo, Index, StartIndex
<1> QED BY <1>3, <1>4, <1>5, <1>6, <1>7, <1>8, <1>9 DEF IInv

(* Every step keeps the invariant.                                         *)
LEMMA NextKeeps ==
  ASSUME IInv, [Next]_vars PROVE IInv'
<1>1. CASE Generate
  BY <1>1, GenerateKeeps
<1>2. CASE \E b \in 0..(NumBlocks - 1) :
               \E v \in {w \in Values : Len(w) = BlockSz}, thres \in Budgets :
                  Recompress(b, v, thres)
  BY <1>2, RecompressKeeps
<1>3. CASE BeginBlock
  BY <1>3, BeginBlockKeeps
<1>4. CASE Probe
  BY <1>4, ProbeKeeps
<1>5. CASE EncodeMatch
  BY <1>5, EncodeMatchKeeps
<1>6. CASE EncodeLastLiterals
  BY <1>6, EncodeLastLiteralsKeeps
<1>7. CASE DecodeSequence
  BY <1>7, DecoderKeeps DEF DecodeSequence
<1>8. CASE UNCHANGED vars
  BY <1>8, DecoderKeeps DEF vars
<1> QED BY <1>1, <1>2, <1>3, <1>4, <1>5, <1>6, <1>7, <1>8 DEF Next

(* The strengthened invariant holds in every reachable state.              *)
THEOREM Inductive == Spec => []IInv
<1>1. Init => IInv
  BY InitInv
<1>2. IInv /\ [Next]_vars => IInv'
  BY NextKeeps
<1> QED BY <1>1, <1>2, PTL DEF Spec

-----------------------------------------------------------------------------
(* The compressor never writes behind the larger of its budget and the     *)
(* head of the page, the words that its copies write too much included     *)
(* (the checks of lz4.c's limitedOutput against what it then writes).      *)
THEOREM BudgetKept == Spec => []StaysInBudget
<1>1. IInv => StaysInBudget
  <2> SUFFICES ASSUME IInv PROVE StaysInBudget
    OBVIOUS
  <2>1. budget \in Nat /\ enc.head \in Nat /\ enc.reach \in Nat
    BY DEF IInv, PageInv, TypeInv, EncoderType
  <2>2. budget \in Int /\ enc.head \in Int
    BY <2>1
  <2>3. /\ Max({budget, enc.head}) \in {budget, enc.head}
        /\ Max({budget, enc.head}) >= budget /\ Max({budget, enc.head}) >= enc.head
    BY <2>2, OfTwo
  <2>4. enc.reach <= budget \/ enc.reach <= enc.head
    BY DEF IInv, BudgetInv
  <2> QED BY <2>1, <2>3, <2>4 DEF StaysInBudget
<1> QED BY <1>1, Inductive, PTL

(* A match starts behind its position, in the window and not before the    *)
(* dictionary, whatever the table, the window and the page (the asserts of *)
(* lz4.c on the offset and on lowLimit).                                   *)
THEOREM MatchesKept == Spec => []MatchInWindow
<1>1. IInv => MatchInWindow
  <2> SUFFICES ASSUME IInv, enc.pc = "match" PROVE MatchInWindow
    BY DEF MatchInWindow
  <2>1. enc.ip - enc.match \in 1..DistanceMax /\ enc.match >= LowLimit
    BY DEF IInv, AtMatch
  <2>2. LowLimit \in Nat
    BY BlockPlace DEF IInv
  <2>3. 0 \in Int /\ LowLimit \in Int
    BY <2>2
  <2>4. Max({0, LowLimit}) \in {0, LowLimit}
    BY <2>3, OfTwo
  <2>5. enc.match \in Int
    BY DEF IInv, TypeInv, EncoderType
  <2> QED BY <2>1, <2>2, <2>4, <2>5 DEF MatchInWindow
<1> QED BY <1>1, Inductive, PTL

(* No bucket of the hash table is ahead of the position that is looked up  *)
(* next, also when it was filled from a dictionary (assert(matchIndex <    *)
(* current) in lz4.c).                                                     *)
THEOREM TableKept == Spec => []TableIsBehind
<1>1. IInv => TableIsBehind
  <2> SUFFICES ASSUME IInv, enc.pc = "search" PROVE TableIsBehind
    BY DEF TableIsBehind
  <2>1. table \in [0..(HashSize - 1) -> Nat] /\ TableUpTo(Index(enc.ip) - 1)
    BY DEF IInv, TypeInv, AtSearch
  <2>2. Index(enc.ip) \in Int
    BY Indexes DEF IInv, TypeInv, EncoderType
  <2> QED BY <2>1, <2>2 DEF TableIsBehind, TableUpTo
<1> QED BY <1>1, Inductive, PTL
=============================================================================
