------------------------- MODULE Lz4RoundTripProofs -------------------------
(***************************************************************************)
(* The round trip of Lz4Stream, for any pages, hash functions, table       *)
(* sizes, windows and budgets: whatever the compressor made of a page, and *)
(* of its tail behind a dictionary, decodes to the page; the decoder finds *)
(* the end of every block although no size is stored, exactly if a block   *)
(* has at most the bytes the caller hard-codes; and its copies stay within *)
(* the block.  The idea is that the sequences of a block tile it.          *)
(***************************************************************************)
EXTENDS Lz4StreamProofs, SequenceTheorems

SequenceSet == [lits : Seq(Nat), off : Int, len : Nat]

(* Where block b ends in the page, and where it begins in the stream.      *)
BlockEnd(b) == (b + 1) * BlockSz
StreamStart(b) == IF b = 0 THEN 0 ELSE ends[b]

(* The n bytes from p on are those from m on.                              *)
EqualRun(p, m, n) == \A j \in Nat : j < n => Byte(p + j) = Byte(m + j)

(* A sequence that stands for the bytes from p to q of block b, and takes  *)
(* the stream from s to t.                                                 *)
MatchPiece(sq, b, p, q, s, t) ==
    LET cpy == p + Len(sq.lits)
    IN  /\ sq.lits = Bytes(p, Len(sq.lits))
        /\ sq.len >= 4 /\ cpy <= BlockEnd(b) - 12
        /\ q = cpy + sq.len /\ q <= BlockEnd(b) - 5
        /\ sq.off \in 1..cpy /\ sq.off <= DistanceMax
        /\ EqualRun(cpy, cpy - sq.off, sq.len)
        /\ t = s + LiteralSize(Len(sq.lits)) + MatchSize(sq.len)

(* The literals that end a block.                                          *)
LastPiece(sq, b, p, s, t) ==
    /\ sq.lits = Bytes(p, Len(sq.lits)) /\ sq.off = 0 /\ sq.len = 0
    /\ p + Len(sq.lits) = BlockEnd(b)
    /\ t = s + LiteralSize(Len(sq.lits))

(* The sequences of block b so far, from s to t in the stream and up to q  *)
(* in the page: number i is about what begins at pos[i], and is at at[i].  *)
Open(sqs, b, s, q, t, pos, at) ==
    /\ pos \in [1..(Len(sqs) + 1) -> Nat] /\ at \in [1..(Len(sqs) + 1) -> Nat]
    /\ pos[1] = b * BlockSz /\ at[1] = s
    /\ pos[Len(sqs) + 1] = q /\ at[Len(sqs) + 1] = t
    /\ \A i \in 1..Len(sqs) : MatchPiece(sqs[i], b, pos[i], pos[i + 1], at[i], at[i + 1])
    /\ \A i \in 1..(Len(sqs) + 1) : at[i] <= t

(* All sequences of block b, from s to e in the stream.                    *)
Closed(sqs, b, s, e, pos, at) ==
    /\ Len(sqs) >= 1
    /\ pos \in [1..Len(sqs) -> Nat] /\ at \in [1..Len(sqs) -> Nat]
    /\ pos[1] = b * BlockSz /\ at[1] = s
    /\ \A i \in 1..(Len(sqs) - 1) : MatchPiece(sqs[i], b, pos[i], pos[i + 1], at[i], at[i + 1])
    /\ LastPiece(sqs[Len(sqs)], b, pos[Len(sqs)], at[Len(sqs)], e)
    /\ \A i \in 1..Len(sqs) : at[i] < e

ClosedBlock(b) == \E pos, at : Closed(stream[b + 1], b, StreamStart(b), ends[b + 1], pos, at)

DecoderType(d) ==
    d \in [pc : {"idle", "run", "end", "lost"}, blk : Nat, seq : Nat, read : Nat,
           reach : Nat, dst : Seq(Nat)]

(* What the stream and the decoder consist of.                             *)
StreamType ==
    /\ stream \in Seq(Seq(SequenceSet)) /\ Len(stream) = enc.blk
    /\ enc.sqs \in Seq(SequenceSet)
    /\ DecoderType(dec)

(* The blocks in the stream are tiled by their sequences, and so is the    *)
(* one being compressed up to the anchor.                                  *)
StreamInv == \A b \in 0..(enc.blk - 1) : ClosedBlock(b)

EncoderInv ==
    /\ enc.pc = "block" => enc.op = StreamStart(enc.blk)
    /\ enc.pc \in {"search", "last"} =>
           \E pos, at : Open(enc.sqs, enc.blk, StreamStart(enc.blk), enc.anchor, enc.op, pos, at)
    /\ enc.pc = "match" =>
           /\ \E pos, at : Open(enc.sqs, enc.blk, StreamStart(enc.blk), enc.anchor,
                                enc.op - LiteralSize(enc.ip - enc.anchor), pos, at)
           /\ EqualRun(enc.ip, enc.match, 4)

(* The decoder has produced the page up to the sequence it is at.          *)
DecoderAt(pos, at) ==
    /\ Closed(Block, dec.blk, StreamStart(dec.blk), ends[dec.blk + 1], pos, at)
    /\ dec.seq \in 1..Len(Block)
    /\ Len(dec.dst) = pos[dec.seq] /\ dec.read = at[dec.seq]

DecoderInv ==
    /\ dec.pc = "run" =>
           /\ dec.blk < NumBlocks
           /\ dec.dst = Bytes(0, Len(dec.dst))
           /\ \E pos, at : DecoderAt(pos, at)
    /\ dec.pc = "end" => dec.dst = Bytes(0, PageBytes)

(* What the end of a block and the copies depend on.                       *)
CapacityInv == CapacityDecides /\ DecoderStaysInBlock

RInv == StreamType /\ StreamInv /\ EncoderInv /\ DecoderInv /\ CapacityInv

-----------------------------------------------------------------------------
(* Remainders *)

(* Remainder and quotient.                                                 *)
LEMMA DivMod ==
  ASSUME NEW p \in Nat, NEW b \in Nat \ {0}
  PROVE  /\ p \div b \in Nat /\ p % b \in 0..(b - 1)
         /\ p % b = p - b * (p \div b)
<1>1. p \div b \in Nat /\ p % b \in 0..(b - 1)
  OBVIOUS
<1>2. p % b = p - b * (p \div b)
  OBVIOUS
<1> QED BY <1>1, <1>2

(* One period further the remainder is the same.                           *)
LEMMA ModPeriod ==
  ASSUME NEW p \in Nat, NEW b \in Nat \ {0}, p >= b
  PROVE  p % b = (p - b) % b
<1> DEFINE x == p \div b
           y == (p - b) \div b
           r == p % b
           u == (p - b) % b
<1>1. p - b \in Nat
  OBVIOUS
<1>2. x \in Nat /\ r \in 0..(b - 1) /\ r = p - b * x
  BY DivMod
<1>3. y \in Nat /\ u \in 0..(b - 1) /\ u = (p - b) - b * y
  BY <1>1, DivMod
<1> HIDE DEF x, y, r, u
<1>4. x = y + 1
  <2>1. ASSUME x <= y PROVE FALSE
    <3>1. b * x <= b * y
      BY <1>2, <1>3, <2>1, TimesMonotone
    <3>2. b * x \in Nat /\ b * y \in Nat
      BY <1>2, <1>3
    <3> QED BY <1>2, <1>3, <3>1, <3>2
  <2>2. ASSUME x >= y + 2 PROVE FALSE
    <3>1. b * (y + 2) <= b * x
      BY <1>2, <1>3, <2>2, TimesMonotone
    <3>2. b * (y + 2) = b * y + b + b
      BY <1>3
    <3>3. b * x \in Nat /\ b * y \in Nat
      BY <1>2, <1>3
    <3> QED BY <1>2, <1>3, <3>1, <3>2, <3>3
  <2> QED BY <1>2, <1>3, <2>1, <2>2
<1>5. b * x = b * y + b
  BY <1>3, <1>4
<1>6. b * x \in Nat /\ b * y \in Nat
  BY <1>2, <1>3
<1>7. r = u
  BY <1>2, <1>3, <1>5, <1>6
<1> QED BY <1>7 DEF r, u

-----------------------------------------------------------------------------
(* Bytes *)

(* A run that repeats the bytes off before it is periodic.                 *)
LEMMA Periodic ==
  ASSUME NEW c \in Nat, NEW off \in 1..c, NEW len \in Nat, EqualRun(c, c - off, len)
  PROVE  \A j \in Nat : j < len => Byte(c + j) = Byte(c - off + (j % off))
<1> DEFINE Bad == {j \in Nat : j < len /\ Byte(c + j) # Byte(c - off + (j % off))}
<1>1. SUFFICES ASSUME Bad # {} PROVE FALSE
  OBVIOUS
<1>2. PICK j \in Bad : \A i \in Bad : j <= i
  <2>1. Bad \in SUBSET Nat
    OBVIOUS
  <2> HIDE DEF Bad
  <2> QED BY <1>1, <2>1, LeastNatural
<1>3. j \in Nat /\ j < len /\ Byte(c + j) # Byte(c - off + (j % off))
  OBVIOUS
<1>4. Byte(c + j) = Byte(c - off + j)
  BY <1>3 DEF EqualRun
<1>5. off \in Nat \ {0}
  OBVIOUS
<1>6. CASE j < off
  <2>1. j % off = j
    BY <1>3, <1>5, <1>6
  <2> QED BY <1>3, <1>4, <2>1
<1>7. CASE j >= off
  <2> DEFINE i == j - off
  <2>1. i \in Nat /\ i < j /\ i < len /\ c - off + j = c + i
    BY <1>3, <1>5, <1>7
  <2>2. i \notin Bad
    <3> HIDE DEF Bad
    <3> QED BY <1>2, <1>3, <2>1
  <2>3. Byte(c + i) = Byte(c - off + (i % off))
    BY <2>1, <2>2
  <2>4. j % off = i % off
    BY <1>3, <1>5, <1>7, ModPeriod
  <2> HIDE DEF i
  <2> QED BY <1>3, <1>4, <2>1, <2>3, <2>4
<1> QED BY <1>3, <1>5, <1>6, <1>7

(* Bytes of the page.                                                      *)
LEMMA BytesFacts ==
  ASSUME PageInv, NEW p \in Nat, NEW n \in Nat, p + n <= PageBytes
  PROVE  /\ Bytes(p, n) \in Seq(Nat) /\ Len(Bytes(p, n)) = n
         /\ \A i \in 1..n : Bytes(p, n)[i] = Byte(p + i - 1)
<1>1. ASSUME NEW i \in 1..n PROVE Byte(p + i - 1) \in Nat
  <2>1. PageBytes \in Nat
    BY SizesAreNaturals
  <2>2. p + i - 1 \in Nat /\ p + i - 1 < PageBytes
    BY <2>1
  <2> QED BY <2>2, BytesOfPage
<1>2. Bytes(p, n) = [i \in 1..n |-> Byte(p + i - 1)]
  BY DEF Bytes
<1> QED BY <1>1, <1>2

(* Bytes that follow one another.                                          *)
LEMMA BytesConcat ==
  ASSUME PageInv, NEW p \in Nat, NEW n \in Nat, p + n <= PageBytes
  PROVE  Bytes(0, p) \o Bytes(p, n) = Bytes(0, p + n)
<1>0. PageBytes \in Nat /\ 0 + p <= PageBytes /\ 0 + (p + n) <= PageBytes /\ p + n \in Nat
  BY SizesAreNaturals
<1> DEFINE a == Bytes(0, p)
           d == Bytes(p, n)
           e == Bytes(0, p + n)
<1>1. a \in Seq(Nat) /\ Len(a) = p /\ \A i \in 1..p : a[i] = Byte(0 + i - 1)
  BY <1>0, BytesFacts
<1>2. d \in Seq(Nat) /\ Len(d) = n /\ \A i \in 1..n : d[i] = Byte(p + i - 1)
  BY <1>0, BytesFacts
<1>3. e \in Seq(Nat) /\ Len(e) = p + n /\ \A i \in 1..(p + n) : e[i] = Byte(0 + i - 1)
  BY <1>0, BytesFacts
<1> HIDE DEF a, d, e
<1>4. /\ a \o d \in Seq(Nat) /\ Len(a \o d) = p + n
      /\ \A i \in 1..(p + n) : (a \o d)[i] = IF i <= p THEN a[i] ELSE d[i - p]
  <2>1. /\ a \o d \in Seq(Nat) /\ Len(a \o d) = Len(a) + Len(d)
        /\ \A i \in 1..(Len(a) + Len(d)) : (a \o d)[i] = IF i <= Len(a) THEN a[i] ELSE d[i - Len(a)]
    BY <1>1, <1>2, ConcatProperties
  <2> QED BY <1>1, <1>2, <2>1
<1>5. ASSUME NEW i \in 1..(p + n) PROVE (a \o d)[i] = e[i]
  <2>1. CASE i <= p
    <3>1. i \in 1..p /\ 0 + i - 1 \in Nat
      BY <2>1
    <3>2. (a \o d)[i] = IF i <= p THEN a[i] ELSE d[i - p]
      BY <1>4
    <3>3. (a \o d)[i] = a[i]
      BY <2>1, <3>2
    <3> QED BY <1>1, <1>3, <3>1, <3>3
  <2>2. CASE ~(i <= p)
    <3> DEFINE k == i - p
    <3>1. k \in 1..n /\ p + k - 1 = 0 + i - 1
      BY <2>2
    <3>2. (a \o d)[i] = d[k]
      <4>1. (a \o d)[i] = IF i <= p THEN a[i] ELSE d[i - p]
        BY <1>4
      <4> QED BY <2>2, <4>1
    <3> HIDE DEF k
    <3>3. d[k] = Byte(p + k - 1) /\ e[i] = Byte(0 + i - 1)
      BY <1>2, <1>3, <3>1
    <3> QED BY <3>1, <3>2, <3>3
  <2> QED BY <2>1, <2>2
<1>6. a \o d = e
  <2>1. Len(a \o d) = Len(e) /\ \A i \in 1..Len(a \o d) : (a \o d)[i] = e[i]
    BY <1>3, <1>4, <1>5
  <2> QED BY <1>3, <1>4, <2>1, SeqEqual
<1> QED BY <1>6 DEF a, d, e

(* Copying a match byte by byte behind the page so far goes on with it.    *)
LEMMA CopyFacts ==
  ASSUME PageInv, NEW c \in Nat, NEW off \in 1..c, NEW len \in Nat, c + len <= PageBytes,
         EqualRun(c, c - off, len)
  PROVE  CopyMatch(Bytes(0, c), off, len) = Bytes(0, c + len)
<1>0. PageBytes \in Nat /\ 0 + c <= PageBytes
  BY SizesAreNaturals
<1> DEFINE a == Bytes(0, c)
           d == [i \in 1..len |-> a[c - off + ((i - 1) % off) + 1]]
<1>1. Len(a) = c /\ \A i \in 1..c : a[i] = Byte(0 + i - 1)
  BY <1>0, BytesFacts
<1> HIDE DEF a
<1>2. ASSUME NEW i \in 1..len PROVE a[c - off + ((i - 1) % off) + 1] = Byte(c + i - 1)
  <2> DEFINE j == i - 1
             k == c - off + (j % off)
  <2>1. j \in Nat /\ j < len /\ off \in Nat \ {0}
    OBVIOUS
  <2>2. j % off \in 0..(off - 1)
    BY <2>1
  <2>3. k \in Nat /\ k < c
    BY <2>2
  <2>4. Byte(c + j) = Byte(k)
    <3>1. \A n \in Nat : n < len => Byte(c + n) = Byte(c - off + (n % off))
      BY Periodic
    <3> QED BY <2>1, <3>1
  <2>5. c + j = c + i - 1
    OBVIOUS
  <2> HIDE DEF k
  <2>6. a[k + 1] = Byte(k)
    <3>1. k + 1 \in 1..c /\ 0 + (k + 1) - 1 = k
      BY <2>3
    <3> QED BY <1>1, <3>1
  <2> QED BY <2>4, <2>5, <2>6 DEF k
<1>3. d = Bytes(c, len)
  BY <1>2 DEF Bytes
<1>4. CopyMatch(a, off, len) = a \o d
  BY <1>1 DEF CopyMatch
<1>5. a \o Bytes(c, len) = Bytes(0, c + len)
  BY BytesConcat DEF a
<1> QED BY <1>3, <1>4, <1>5 DEF a

-----------------------------------------------------------------------------
(* Tilings *)

(* A piece depends on the page up to where it ends.                        *)
LEMMA SamePiece ==
  ASSUME NEW sq, NEW b, NEW p, NEW q, NEW s, NEW t, BlockSz' = BlockSz,
         \A x \in Nat : x < BlockEnd(b) => Byte(x)' = Byte(x),
         PageInv, b \in Nat, p \in Nat, q \in Nat, sq \in SequenceSet,
         MatchPiece(sq, b, p, q, s, t)
  PROVE  MatchPiece(sq, b, p, q, s, t)'
<1> DEFINE n == Len(sq.lits)
           c == p + n
           len == sq.len
           off == sq.off
           e == BlockEnd(b)
<1>1. /\ sq.lits = Bytes(p, n)
      /\ len >= 4 /\ c <= e - 12 /\ q = c + len /\ q <= e - 5
      /\ off \in 1..c /\ off <= DistanceMax
      /\ EqualRun(c, c - off, len)
      /\ t = s + LiteralSize(n) + MatchSize(len)
  BY DEF MatchPiece
<1>2. len \in Nat /\ off \in Int /\ n \in Nat
  BY DEF SequenceSet
<1>3. e \in Nat
  <2>1. BlockSz \in Nat
    BY SizesAreNaturals
  <2> QED BY <2>1 DEF BlockEnd
<1>4. BlockEnd(b)' = e
  BY DEF BlockEnd
<1>5. \A x \in Nat : x < e => Byte(x)' = Byte(x)
  OBVIOUS
<1> HIDE DEF n, len, off, e
<1>6. c \in Nat
  BY <1>2
<1>7. Bytes(p, n)' = Bytes(p, n)
  <2>1. \A i \in 1..n : Byte(p + i - 1)' = Byte(p + i - 1)
    <3> TAKE i \in 1..n
    <3>1. p + i - 1 \in Nat /\ p + i - 1 < e
      BY <1>1, <1>2, <1>3
    <3> QED BY <1>5, <3>1
  <2> QED BY <2>1 DEF Bytes
<1> HIDE DEF c
<1>8. EqualRun(c, c - off, len)'
  <2>1. \A j \in Nat : j < len => Byte(c + j)' = Byte(c - off + j)'
    <3> TAKE j \in Nat
    <3> HAVE j < len
    <3>1. c + j \in Nat /\ c + j < e /\ c - off + j \in Nat /\ c - off + j < e
      BY <1>1, <1>2, <1>3, <1>6
    <3>2. Byte(c + j) = Byte(c - off + j)
      BY <1>1 DEF EqualRun
    <3> QED BY <1>5, <3>1, <3>2
  <2> QED BY <2>1 DEF EqualRun
<1> QED BY <1>1, <1>4, <1>7, <1>8 DEF MatchPiece, c, n, len, off, DistanceMax

(* The same of the literals that end a block.                              *)
LEMMA SameLast ==
  ASSUME NEW sq, NEW b, NEW p, NEW s, NEW t, BlockSz' = BlockSz,
         \A x \in Nat : x < BlockEnd(b) => Byte(x)' = Byte(x),
         PageInv, b \in Nat, p \in Nat, sq \in SequenceSet,
         LastPiece(sq, b, p, s, t)
  PROVE  LastPiece(sq, b, p, s, t)'
<1> DEFINE n == Len(sq.lits)
<1>1. /\ sq.lits = Bytes(p, n) /\ sq.off = 0 /\ sq.len = 0
      /\ p + n = BlockEnd(b) /\ t = s + LiteralSize(n)
  BY DEF LastPiece
<1>2. n \in Nat
  BY DEF SequenceSet
<1>3. BlockEnd(b)' = BlockEnd(b)
  BY DEF BlockEnd
<1> HIDE DEF n
<1>4. Bytes(p, n)' = Bytes(p, n)
  <2>1. \A i \in 1..n : Byte(p + i - 1)' = Byte(p + i - 1)
    <3> TAKE i \in 1..n
    <3>1. p + i - 1 \in Nat /\ p + i - 1 < BlockEnd(b)
      BY <1>1, <1>2
    <3> QED BY <3>1
  <2> QED BY <2>1 DEF Bytes
<1> QED BY <1>1, <1>3, <1>4 DEF LastPiece, n

(* A block that is in the stream stays tiled as long as the page does not  *)
(* change up to its end.                                                   *)
LEMMA SameClosed ==
  ASSUME NEW b \in Nat, NEW sqs \in Seq(SequenceSet), NEW s, NEW e, NEW pos, NEW at,
         BlockSz' = BlockSz, PageInv,
         \A x \in Nat : x < BlockEnd(b) => Byte(x)' = Byte(x),
         Closed(sqs, b, s, e, pos, at)
  PROVE  Closed(sqs, b, s, e, pos, at)'
<1>1. /\ Len(sqs) >= 1
      /\ pos \in [1..Len(sqs) -> Nat] /\ at \in [1..Len(sqs) -> Nat]
      /\ pos[1] = b * BlockSz /\ at[1] = s
      /\ \A i \in 1..(Len(sqs) - 1) : MatchPiece(sqs[i], b, pos[i], pos[i + 1], at[i], at[i + 1])
      /\ LastPiece(sqs[Len(sqs)], b, pos[Len(sqs)], at[Len(sqs)], e)
      /\ \A i \in 1..Len(sqs) : at[i] < e
  BY DEF Closed
<1> DEFINE n == Len(sqs)
<1>2. n \in Nat /\ \A i \in 1..n : sqs[i] \in SequenceSet
  OBVIOUS
<1> HIDE DEF n
<1>3. \A i \in 1..(n - 1) : MatchPiece(sqs[i], b, pos[i], pos[i + 1], at[i], at[i + 1])'
  <2> TAKE i \in 1..(n - 1)
  <2>1. i \in 1..n /\ i + 1 \in 1..n
    BY <1>2
  <2>2. pos[i] \in Nat /\ pos[i + 1] \in Nat /\ sqs[i] \in SequenceSet
    BY <1>1, <1>2, <2>1 DEF n
  <2>3. MatchPiece(sqs[i], b, pos[i], pos[i + 1], at[i], at[i + 1])
    BY <1>1 DEF n
  <2> QED BY <2>2, <2>3, SamePiece
<1>4. LastPiece(sqs[n], b, pos[n], at[n], e)'
  <2>1. n \in 1..n
    BY <1>1, <1>2 DEF n
  <2>2. pos[n] \in Nat /\ sqs[n] \in SequenceSet
    BY <1>1, <1>2, <2>1 DEF n
  <2>3. LastPiece(sqs[n], b, pos[n], at[n], e)
    BY <1>1 DEF n
  <2> QED BY <2>2, <2>3, SameLast
<1> QED BY <1>1, <1>3, <1>4 DEF Closed, n

(* As long as the page is the same nothing changes about its bytes.        *)
LEMMA SamePage ==
  ASSUME page' = page
  PROVE  /\ BlockSz' = BlockSz /\ NumBlocks' = NumBlocks /\ PageBytes' = PageBytes
         /\ \A x : Byte(x)' = Byte(x)
         /\ \A p, n : Bytes(p, n)' = Bytes(p, n)
         /\ \A p, m, n : EqualRun(p, m, n)' = EqualRun(p, m, n)
         /\ \A sqs, b, s, q, t, pos, at : Open(sqs, b, s, q, t, pos, at)' = Open(sqs, b, s, q, t, pos, at)
         /\ \A sqs, b, s, e, pos, at : Closed(sqs, b, s, e, pos, at)' = Closed(sqs, b, s, e, pos, at)
<1>1. /\ BlockSz' = BlockSz /\ NumBlocks' = NumBlocks /\ PageBytes' = PageBytes
  BY DEF BlockSz, NumBlocks, PageBytes
<1>2. \A x : Byte(x)' = Byte(x)
  BY <1>1 DEF Byte
<1>3. \A p, n : Bytes(p, n)' = Bytes(p, n)
  BY <1>2 DEF Bytes
<1>4. \A p, m, n : EqualRun(p, m, n)' = EqualRun(p, m, n)
  BY <1>2 DEF EqualRun
<1>5. \A b : BlockEnd(b)' = BlockEnd(b)
  BY <1>1 DEF BlockEnd
<1>6. \A sq, b, p, q, s, t : MatchPiece(sq, b, p, q, s, t)' = MatchPiece(sq, b, p, q, s, t)
  BY <1>3, <1>4, <1>5 DEF MatchPiece, DistanceMax
<1>7. \A sq, b, p, s, t : LastPiece(sq, b, p, s, t)' = LastPiece(sq, b, p, s, t)
  BY <1>3, <1>5 DEF LastPiece
<1>8. \A sqs, b, s, q, t, pos, at : Open(sqs, b, s, q, t, pos, at)' = Open(sqs, b, s, q, t, pos, at)
  BY <1>1, <1>6 DEF Open
<1>9. \A sqs, b, s, e, pos, at : Closed(sqs, b, s, e, pos, at)' = Closed(sqs, b, s, e, pos, at)
  BY <1>1, <1>6, <1>7 DEF Closed
<1> QED BY <1>1, <1>2, <1>3, <1>4, <1>8, <1>9

(* A block without sequences.                                              *)
LEMMA OpenStart ==
  ASSUME NEW b \in Nat, NEW s \in Nat, PageInv
  PROVE  \E pos, at : Open(<<>>, b, s, b * BlockSz, s, pos, at)
<1>1. b * BlockSz \in Nat
  <2>1. BlockSz \in Nat
    BY SizesAreNaturals
  <2> QED BY <2>1
<1> DEFINE pos == [i \in 1..1 |-> b * BlockSz]
           at == [i \in 1..1 |-> s]
<1>2. Len(<<>>) = 0
  OBVIOUS
<1>3. Open(<<>>, b, s, b * BlockSz, s, pos, at)
  BY <1>1, <1>2 DEF Open
<1> QED BY <1>3

(* One more sequence.                                                      *)
LEMMA OpenAppend ==
  ASSUME NEW sqs \in Seq(SequenceSet), NEW sq \in SequenceSet, NEW b \in Nat, NEW s \in Nat,
         NEW q \in Nat, NEW t \in Nat, NEW pos, NEW at, Open(sqs, b, s, q, t, pos, at),
         NEW r \in Nat, NEW u \in Nat, t <= u, MatchPiece(sq, b, q, r, t, u)
  PROVE  \E p, a : Open(Append(sqs, sq), b, s, r, u, p, a)
<1> DEFINE n == Len(sqs)
           x == Append(sqs, sq)
           p == [i \in 1..(n + 2) |-> IF i <= n + 1 THEN pos[i] ELSE r]
           a == [i \in 1..(n + 2) |-> IF i <= n + 1 THEN at[i] ELSE u]
<1>1. n \in Nat /\ Len(x) = n + 1 /\ x[n + 1] = sq /\ \A i \in 1..n : x[i] = sqs[i]
  BY AppendProperties
<1>2. /\ pos \in [1..(n + 1) -> Nat] /\ at \in [1..(n + 1) -> Nat]
      /\ pos[1] = b * BlockSz /\ at[1] = s /\ pos[n + 1] = q /\ at[n + 1] = t
      /\ \A i \in 1..n : MatchPiece(sqs[i], b, pos[i], pos[i + 1], at[i], at[i + 1])
      /\ \A i \in 1..(n + 1) : at[i] <= t
  BY DEF Open
<1> HIDE DEF n, x
<1>3. /\ p \in [1..((n + 1) + 1) -> Nat] /\ a \in [1..((n + 1) + 1) -> Nat]
      /\ p[1] = b * BlockSz /\ a[1] = s /\ p[(n + 1) + 1] = r /\ a[(n + 1) + 1] = u
  BY <1>1, <1>2, SMTT(30)
<1>4. ASSUME NEW i \in 1..(n + 1) PROVE MatchPiece(x[i], b, p[i], p[i + 1], a[i], a[i + 1])
  <2>1. CASE i \in 1..n
    <3>1. /\ p[i] = pos[i] /\ p[i + 1] = pos[i + 1] /\ a[i] = at[i] /\ a[i + 1] = at[i + 1]
          /\ x[i] = sqs[i]
      BY <1>1, <2>1
    <3>2. MatchPiece(sqs[i], b, pos[i], pos[i + 1], at[i], at[i + 1])
      BY <1>2, <2>1
    <3> HIDE DEF p, a
    <3> QED BY <3>1, <3>2
  <2>2. CASE i = n + 1
    <3>1. p[i] = q /\ p[i + 1] = r /\ a[i] = t /\ a[i + 1] = u /\ x[i] = sq
      BY <1>1, <1>2, <2>2
    <3> HIDE DEF p, a
    <3> QED BY <3>1
  <2> QED BY <1>1, <2>1, <2>2
<1>5. \A i \in 1..((n + 1) + 1) : a[i] <= u
  BY <1>1, <1>2, SMTT(30)
<1> HIDE DEF p, a
<1>6. Open(x, b, s, r, u, p, a)
  BY <1>1, <1>3, <1>4, <1>5 DEF Open
<1> QED BY <1>6 DEF x

(* The last literals.                                                      *)
LEMMA OpenClose ==
  ASSUME NEW sqs \in Seq(SequenceSet), NEW sq \in SequenceSet, NEW b \in Nat, NEW s \in Nat,
         NEW q \in Nat, NEW t \in Nat, NEW pos, NEW at, Open(sqs, b, s, q, t, pos, at),
         NEW e \in Nat, t < e, LastPiece(sq, b, q, t, e)
  PROVE  Closed(Append(sqs, sq), b, s, e, pos, at)
<1> DEFINE n == Len(sqs)
           x == Append(sqs, sq)
<1>1. n \in Nat /\ Len(x) = n + 1 /\ x[n + 1] = sq /\ \A i \in 1..n : x[i] = sqs[i]
  BY AppendProperties
<1>2. /\ pos \in [1..(n + 1) -> Nat] /\ at \in [1..(n + 1) -> Nat]
      /\ pos[1] = b * BlockSz /\ at[1] = s /\ pos[n + 1] = q /\ at[n + 1] = t
      /\ \A i \in 1..n : MatchPiece(sqs[i], b, pos[i], pos[i + 1], at[i], at[i + 1])
      /\ \A i \in 1..(n + 1) : at[i] <= t
  BY DEF Open
<1> HIDE DEF n, x
<1>3. \A i \in 1..(n + 1) : at[i] < e
  BY <1>1, <1>2, SMTT(30)
<1>4. \A i \in 1..((n + 1) - 1) : MatchPiece(x[i], b, pos[i], pos[i + 1], at[i], at[i + 1])
  BY <1>1, <1>2
<1>5. LastPiece(x[n + 1], b, pos[n + 1], at[n + 1], e)
  BY <1>1, <1>2
<1>6. Closed(x, b, s, e, pos, at)
  BY <1>1, <1>2, <1>3, <1>4, <1>5, SMTT(30) DEF Closed
<1> QED BY <1>6 DEF x

-----------------------------------------------------------------------------
(* The compressor *)

(* While the compressor works on a block, nothing else changes.            *)
LEMMA StreamSame ==
  ASSUME RInv, UNCHANGED <<page, stream, ends, dec>>,
         enc'.blk = enc.blk, enc'.sqs \in Seq(SequenceSet)
  PROVE  /\ StreamType' /\ StreamInv' /\ DecoderInv' /\ CapacityInv'
         /\ \A b : StreamStart(b)' = StreamStart(b)
<1>1. /\ BlockSz' = BlockSz /\ NumBlocks' = NumBlocks /\ PageBytes' = PageBytes
      /\ \A p, n : Bytes(p, n)' = Bytes(p, n)
      /\ \A sqs, b, s, e, pos, at : Closed(sqs, b, s, e, pos, at)' = Closed(sqs, b, s, e, pos, at)
  BY SamePage
<1>2. \A b : StreamStart(b)' = StreamStart(b)
  BY DEF StreamStart
<1>3. \A b : ClosedBlock(b)' = ClosedBlock(b)
  BY <1>1, <1>2 DEF ClosedBlock
<1>4. StreamInv'
  BY <1>3 DEF RInv, StreamInv
<1>5. StreamType'
  BY DEF RInv, StreamType, DecoderType
<1>6. CapacityInv'
  BY <1>1 DEF RInv, CapacityInv, CapacityDecides, DecoderStaysInBlock
<1>7. Block' = Block
  BY DEF Block
<1>8. \A pos, at : DecoderAt(pos, at)' = DecoderAt(pos, at)
  BY <1>1, <1>2, <1>7 DEF DecoderAt
<1>9. DecoderInv'
  BY <1>1, <1>8 DEF RInv, DecoderInv
<1> QED BY <1>2, <1>4, <1>5, <1>6, <1>9

(* What the tiling of the block being compressed becomes in a step, as     *)
(* long as the page stays.                                                 *)
LEMMA StillOpen ==
  ASSUME RInv, UNCHANGED <<page, stream, ends, dec>>,
         enc'.blk = enc.blk, enc'.sqs \in Seq(SequenceSet),
         enc'.pc \in {"search", "last", "match", "refused"},
         NEW t, enc'.pc \in {"search", "last"} => enc'.op = t,
         enc'.pc = "match" => /\ enc'.op - LiteralSize(enc'.ip - enc'.anchor) = t
                              /\ EqualRun(enc'.ip, enc'.match, 4),
         enc'.pc = "refused" \/ \E pos, at : Open(enc'.sqs, enc.blk, StreamStart(enc.blk),
                                                  enc'.anchor, t, pos, at)
  PROVE  RInv'
<1>1. /\ StreamType' /\ StreamInv' /\ DecoderInv' /\ CapacityInv'
      /\ \A b : StreamStart(b)' = StreamStart(b)
  BY StreamSame
<1>2. /\ \A p, m, n : EqualRun(p, m, n)' = EqualRun(p, m, n)
      /\ \A sqs, b, s, q, u, pos, at : Open(sqs, b, s, q, u, pos, at)' = Open(sqs, b, s, q, u, pos, at)
  BY SamePage
<1>3. enc'.pc # "block"
  OBVIOUS
<1>4. ASSUME enc'.pc \in {"search", "last"}
      PROVE  \E pos, at : Open(enc.sqs, enc.blk, StreamStart(enc.blk), enc.anchor, enc.op, pos, at)'
  BY <1>1, <1>2, <1>4
<1>5. ASSUME enc'.pc = "match"
      PROVE  /\ \E pos, at : Open(enc.sqs, enc.blk, StreamStart(enc.blk), enc.anchor,
                                  enc.op - LiteralSize(enc.ip - enc.anchor), pos, at)'
             /\ EqualRun(enc.ip, enc.match, 4)'
  <2>1. LiteralSize(enc.ip - enc.anchor)' = LiteralSize(enc'.ip - enc'.anchor)
    BY DEF LiteralSize, Extra
  <2> QED BY <1>1, <1>2, <1>5, <2>1
<1>6. EncoderInv'
  BY <1>3, <1>4, <1>5 DEF EncoderInv
<1> QED BY <1>1, <1>6 DEF RInv

(* A block that is entered has no sequences, which tile nothing.           *)
LEMMA BeginBlockTiles ==
  ASSUME IInv, RInv, BeginBlock PROVE RInv'
<1>1. PageInv /\ TypeInv /\ BlockInv /\ EncoderType(enc)
  BY DEF IInv, TypeInv
<1>2. enc.pc = "block" /\ UNCHANGED <<page, stream, ends, dec>>
  BY DEF BeginBlock
<1>3. Source \in Nat /\ enc.blk \in Nat /\ Source = enc.blk * BlockSz
  BY <1>1, BlockPlace DEF Source
<1>4. enc.op = StreamStart(enc.blk) /\ enc.op \in Nat
  BY <1>1, <1>2 DEF RInv, EncoderInv, EncoderType
<1> DEFINE e == [enc EXCEPT !.anchor = Source, !.sqs = <<>>]
<1>5. EncoderType(e) /\ e.blk = enc.blk /\ e.anchor = Source /\ e.op = enc.op /\ e.sqs = <<>>
  BY <1>1, <1>3 DEF EncoderType
<1>6. /\ enc'.pc \in {"last", "search"} /\ enc'.blk = enc.blk /\ enc'.anchor = Source
      /\ enc'.op = enc.op /\ enc'.sqs = <<>>
  <2>1. CASE enc' = [e EXCEPT !.pc = "last"]
    <3> HIDE DEF e
    <3> QED BY <1>5, <2>1 DEF EncoderType
  <2>2. CASE enc' = SearchFrom(e, Source + 1)
    <3> HIDE DEF e
    <3>1. Source + 1 \in Nat
      BY <1>3
    <3> QED BY <1>5, <2>2, <3>1, SearchFromFacts
  <2> QED BY <2>1, <2>2 DEF BeginBlock
<1>7. \E pos, at : Open(<<>>, enc.blk, StreamStart(enc.blk), Source, enc.op, pos, at)
  BY <1>1, <1>3, <1>4, OpenStart
<1>8. <<>> \in Seq(SequenceSet)
  OBVIOUS
<1> QED BY <1>2, <1>6, <1>7, <1>8, StillOpen

(* A match of four bytes, caught up backwards, begins with four equal ones.*)
LEMMA CaughtUp ==
  ASSUME NEW p \in Nat, NEW m \in Nat, NEW back \in Nat,
         \A i \in 0..3 : Byte(m + i) = Byte(p + i),
         \A c \in Nat : c < back => Byte(p - c - 1) = Byte(m - c - 1)
  PROVE  EqualRun(p - back, m - back, 4)
<1>1. ASSUME NEW j \in Nat, j < 4 PROVE Byte((p - back) + j) = Byte((m - back) + j)
  <2>1. CASE j < back
    <3> DEFINE c == back - j - 1
    <3>1. c \in Nat /\ c < back /\ p - c - 1 = (p - back) + j /\ m - c - 1 = (m - back) + j
      BY <2>1
    <3> HIDE DEF c
    <3>2. Byte(p - c - 1) = Byte(m - c - 1)
      BY <3>1
    <3> QED BY <3>1, <3>2
  <2>2. CASE ~(j < back)
    <3> DEFINE i == j - back
    <3>1. i \in 0..3 /\ p + i = (p - back) + j /\ m + i = (m - back) + j
      BY <1>1, <2>2
    <3> HIDE DEF i
    <3>2. Byte(m + i) = Byte(p + i)
      BY <3>1
    <3> QED BY <3>1, <3>2
  <2> QED BY <2>1, <2>2
<1> QED BY <1>1 DEF EqualRun

(* The bytes for literals.                                                 *)
LEMMA LiteralSizeBounds ==
  ASSUME NEW n \in Nat PROVE LiteralSize(n) \in Nat /\ LiteralSize(n) >= 1 + n
<1>1. Extra(n) \in Nat
  BY ExtraBounds
<1> QED BY <1>1 DEF LiteralSize

(* A probe writes nothing; the match it finds has four equal bytes.        *)
LEMMA ProbeTiles ==
  ASSUME IInv, RInv, Probe PROVE RInv'
<1> DEFINE p == enc.ip
           index == table[HashPosition(p)]
           m == Position(index)
           back == CatchUp(p, m)
<1>1. PageInv /\ TypeInv /\ BlockInv /\ BudgetInv /\ AtSearch /\ EncoderType(enc)
  BY DEF IInv, TypeInv
<1>2. enc.pc = "search" /\ UNCHANGED <<page, budget, stream, ends, dec>>
  BY DEF Probe
<1>3. /\ enc.sqs \in Seq(SequenceSet)
      /\ \E pos, at : Open(enc.sqs, enc.blk, StreamStart(enc.blk), enc.anchor, enc.op, pos, at)
  BY <1>2 DEF RInv, StreamType, EncoderInv, DecoderType
<1>4. p \in Nat /\ enc.op \in Nat /\ enc.step \in Nat /\ enc.step >= 1 /\ MFLimitPlusOne \in Int
  <2>1. MFLimitPlusOne \in Int
    BY <1>1, <1>2, LongBlock
  <2> QED BY <1>1, <1>2, <2>1 DEF EncoderType, AtSearch
<1>5. CASE p + enc.step > MFLimitPlusOne
  <2>1. enc' = [enc EXCEPT !.pc = "last"]
    BY <1>5 DEF Probe
  <2>2. /\ enc'.blk = enc.blk /\ enc'.pc = "last" /\ enc'.anchor = enc.anchor
        /\ enc'.op = enc.op /\ enc'.sqs = enc.sqs
    BY <1>1, <2>1 DEF EncoderType
  <2> QED BY <1>2, <1>3, <2>2, StillOpen
<1>6. CASE ~(p + enc.step > MFLimitPlusOne) /\ ~Usable(index, p)
  <2>1. enc' = [enc EXCEPT !.ip = p + enc.step, !.step = enc.nb \div SkipUnit, !.nb = @ + 1]
    BY <1>6 DEF Probe
  <2>2. /\ enc'.blk = enc.blk /\ enc'.pc = "search" /\ enc'.anchor = enc.anchor
        /\ enc'.op = enc.op /\ enc'.sqs = enc.sqs
    BY <1>1, <1>2, <2>1 DEF EncoderType
  <2> QED BY <1>2, <1>3, <2>2, StillOpen
<1>7. CASE ~(p + enc.step > MFLimitPlusOne) /\ Usable(index, p)
  <2>1. EncodeLiterals(p - back, m - back)
    BY <1>7 DEF Probe
  <2>2. enc.ip < MFLimitPlusOne
    BY <1>4, <1>7
  <2>3. /\ p \in Nat /\ m \in Nat
        /\ \A i \in 0..3 : Byte(m + i) = Byte(p + i)
        /\ back \in Nat
        /\ \A c \in Nat : c < back => Byte(p - c - 1) = Byte(m - c - 1)
        /\ p - back \in Nat /\ m - back \in Int /\ (p - back) - enc.anchor \in Nat
    BY <1>2, <1>7, <2>2, CandidateFacts
  <2> HIDE DEF p, m, back
  <2>4. EqualRun(p - back, m - back, 4)
    BY <2>3, CaughtUp
  <2>5. /\ enc'.blk = enc.blk /\ enc'.sqs = enc.sqs
        /\ \/ enc'.pc = "refused"
           \/ /\ enc'.pc = "match" /\ enc'.ip = p - back /\ enc'.match = m - back
              /\ enc'.anchor = enc.anchor
              /\ enc'.op = enc.op + LiteralSize((p - back) - enc.anchor)
    <3>1. budget \in Nat /\ budget' = budget
      BY <1>1, <1>2 DEF PageInv
    <3> QED BY <1>1, <2>1, <2>3, <3>1, EncodeLiteralsFacts
  <2>6. CASE enc'.pc = "refused"
    BY <1>2, <1>3, <2>5, <2>6, StillOpen
  <2>7. CASE enc'.pc # "refused"
    <3>1. LiteralSize((p - back) - enc.anchor) \in Nat
      BY <2>3, LiteralSizeBounds
    <3>2. enc'.op - LiteralSize(enc'.ip - enc'.anchor) = enc.op
      BY <1>4, <2>5, <2>7, <3>1
    <3>3. EqualRun(enc'.ip, enc'.match, 4)
      BY <2>4, <2>5, <2>7
    <3>4. enc'.pc = "match" /\ enc'.blk = enc.blk /\ enc'.sqs = enc.sqs /\ enc'.anchor = enc.anchor
      BY <2>5, <2>7
    <3> QED BY <1>2, <1>3, <3>2, <3>3, <3>4, StillOpen
  <2> QED BY <2>6, <2>7
<1> QED BY <1>5, <1>6, <1>7

(* Where a block begins in the stream, while it is compressed.             *)
LEMMA StartIsNatural ==
  ASSUME IInv, NEW b \in Nat, b <= enc.blk PROVE StreamStart(b) \in Nat
<1>1. ends \in Seq(Nat) /\ Len(ends) = enc.blk /\ enc.blk \in Nat
  BY DEF IInv, TypeInv, BlockInv, EncoderType
<1> QED BY <1>1 DEF StreamStart

(* The sequence of the match that was found, as a piece of the block.      *)
LEMMA MatchIsPiece ==
  ASSUME IInv, RInv, enc.pc = "match",
         NEW len, len = MatchLength(enc.ip, enc.match),
         NEW sq, sq = Sequence(Bytes(enc.anchor, enc.ip - enc.anchor), enc.ip - enc.match, len),
         NEW t, t = enc.op - LiteralSize(enc.ip - enc.anchor), t \in Nat
  PROVE  /\ sq \in SequenceSet
         /\ len \in Nat /\ len >= 4 /\ enc.ip + len \in Nat /\ enc.op + MatchSize(len) \in Nat
         /\ t <= enc.op + MatchSize(len)
         /\ MatchPiece(sq, enc.blk, enc.anchor, enc.ip + len, t, enc.op + MatchSize(len))
<1> DEFINE n == enc.ip - enc.anchor
           off == enc.ip - enc.match
           lits == Bytes(enc.anchor, n)
<1>1. PageInv /\ TypeInv /\ BlockInv /\ AtMatch /\ EncoderType(enc)
  BY DEF IInv, TypeInv
<1>2. /\ BlockSz \in Nat /\ Source \in Nat /\ IEnd = Source + BlockSz /\ PageBytes \in Nat
      /\ MFLimitPlusOne = IEnd - 11 /\ MatchLimit = IEnd - 5 /\ IEnd <= PageBytes /\ LowLimit \in Nat
  BY <1>1, LongBlock
<1>3. /\ enc.anchor \in Source..enc.ip /\ enc.ip < MFLimitPlusOne
      /\ off \in 1..DistanceMax /\ enc.match >= LowLimit
  BY <1>1 DEF AtMatch
<1>4. enc.ip \in Nat /\ enc.match \in Int /\ enc.op \in Nat /\ enc.anchor \in Nat /\ enc.blk \in Nat
  BY <1>1 DEF EncoderType
<1>5. /\ len \in Nat /\ len >= 4 /\ len <= MatchLimit - enc.ip
      /\ \A j \in Nat : 4 <= j /\ j < len => Byte(enc.ip + j) = Byte(enc.match + j)
  <2>1. MatchLimit \in Int /\ MatchLimit - enc.ip >= MinMatch /\ enc.ip \in Int
    BY <1>2, <1>3, <1>4 DEF MinMatch
  <2>2. /\ len \in Nat /\ len >= MinMatch /\ len <= MatchLimit - enc.ip
        /\ \A j \in Nat : MinMatch <= j /\ j < len => Byte(enc.ip + j) = Byte(enc.match + j)
    BY <1>4, <2>1, MatchLengthFacts
  <2> QED BY <2>2 DEF MinMatch
<1>6. EqualRun(enc.ip, enc.match, len)
  <2>1. EqualRun(enc.ip, enc.match, 4)
    BY DEF RInv, EncoderInv
  <2> QED BY <1>5, <2>1 DEF EqualRun
<1>7. n \in Nat /\ enc.anchor + n = enc.ip /\ enc.ip <= PageBytes
  BY <1>2, <1>3, <1>4
<1>8. lits \in Seq(Nat) /\ Len(lits) = n
  <2> HIDE DEF n
  <2>1. enc.anchor + n <= PageBytes
    BY <1>7
  <2> QED BY <1>1, <1>4, <1>7, <2>1, BytesFacts
<1>9. sq.lits = lits /\ sq.off = off /\ sq.len = len
  BY DEF Sequence
<1>10. sq \in SequenceSet
  <2>1. off \in Int
    BY <1>4
  <2> HIDE DEF lits, off
  <2>2. sq = [lits |-> lits, off |-> off, len |-> len]
    BY DEF Sequence, lits, off
  <2> QED BY <1>5, <1>8, <2>1, <2>2 DEF SequenceSet
<1>11. BlockEnd(enc.blk) = IEnd
  <2>1. (enc.blk + 1) * BlockSz = enc.blk * BlockSz + BlockSz
    BY <1>2, <1>4
  <2> QED BY <1>2, <2>1 DEF BlockEnd, Source
<1>12. LiteralSize(n) \in Nat /\ MatchSize(len) \in Nat
  <2>1. Extra(len - MinMatch) \in Nat
    <3>1. len - MinMatch \in Nat
      BY <1>5 DEF MinMatch
    <3> QED BY <3>1, ExtraBounds
  <2>2. LiteralSize(n) \in Nat
    <3> HIDE DEF n
    <3> QED BY <1>7, LiteralSizeBounds
  <2> QED BY <2>1, <2>2 DEF MatchSize
<1>13. /\ enc.op + MatchSize(len) \in Nat /\ t <= enc.op + MatchSize(len)
       /\ enc.op + MatchSize(len) = t + LiteralSize(n) + MatchSize(len)
  <2> HIDE DEF n
  <2>1. t = enc.op - LiteralSize(n)
    BY DEF n
  <2> QED BY <1>4, <1>12, <2>1
<1>14. /\ enc.ip <= BlockEnd(enc.blk) - 12 /\ enc.ip + len <= BlockEnd(enc.blk) - 5
       /\ off \in 1..enc.ip /\ off <= DistanceMax /\ enc.ip - off = enc.match
  <2>1. enc.ip <= IEnd - 12 /\ enc.ip + len <= IEnd - 5
    BY <1>2, <1>3, <1>4, <1>5
  <2>2. off \in 1..enc.ip /\ enc.ip - off = enc.match
    BY <1>2, <1>3, <1>4
  <2> HIDE DEF off
  <2>3. off <= DistanceMax
    BY <1>3
  <2> QED BY <1>11, <2>1, <2>2, <2>3
<1> HIDE DEF n, off, lits
<1>15. MatchPiece(sq, enc.blk, enc.anchor, enc.ip + len, t, enc.op + MatchSize(len))
  <2>1. Len(sq.lits) = n /\ enc.anchor + Len(sq.lits) = enc.ip
    BY <1>7, <1>8, <1>9
  <2>2. sq.lits = Bytes(enc.anchor, Len(sq.lits))
    BY <1>9, <2>1 DEF lits
  <2>3. EqualRun(enc.ip, enc.ip - sq.off, sq.len)
    BY <1>6, <1>9, <1>14
  <2> QED BY <1>5, <1>9, <1>13, <1>14, <2>1, <2>2, <2>3 DEF MatchPiece
<1>16. enc.ip + len \in Nat
  BY <1>4, <1>5
<1> QED BY <1>5, <1>10, <1>13, <1>15, <1>16

(* A match continues the tiling of its block.                              *)
LEMMA EncodeMatchTiles ==
  ASSUME IInv, RInv, EncodeMatch PROVE RInv'
<1> DEFINE len == MatchLength(enc.ip, enc.match)
           p == enc.ip + len
           sq == Sequence(Bytes(enc.anchor, enc.ip - enc.anchor), enc.ip - enc.match, len)
           e == BehindMatch(len, p, sq)
           t == enc.op - LiteralSize(enc.ip - enc.anchor)
<1>1. PageInv /\ TypeInv /\ BlockInv /\ AtMatch /\ BudgetInv /\ EncoderType(enc)
  BY DEF IInv, TypeInv
<1>2. enc.pc = "match" /\ UNCHANGED <<page, stream, ends, dec>>
  BY DEF EncodeMatch, Refuse
<1>3. enc.sqs \in Seq(SequenceSet) /\ enc.blk \in Nat
  BY <1>1 DEF RInv, StreamType, EncoderType, DecoderType
<1>4. CASE ~MatchFits(len)
  <2>1. enc' = [enc EXCEPT !.pc = "refused", !.reach = Max({@, enc.op + 2})]
    BY <1>4 DEF EncodeMatch, Refuse
  <2>2. enc'.pc = "refused" /\ enc'.blk = enc.blk /\ enc'.sqs = enc.sqs
    BY <1>1, <2>1 DEF EncoderType
  <2> QED BY <1>2, <1>3, <2>2, StillOpen
<1>5. CASE MatchFits(len)
  <2>1. TestNextPosition(e, p)
    BY <1>5 DEF EncodeMatch, BehindMatch
  <2>2. PICK pos, at : Open(enc.sqs, enc.blk, StreamStart(enc.blk), enc.anchor, t, pos, at)
    BY <1>2 DEF RInv, EncoderInv
  <2>3. t \in Nat
    <3>1. /\ at \in [1..(Len(enc.sqs) + 1) -> Nat] /\ at[Len(enc.sqs) + 1] = t
          /\ Len(enc.sqs) + 1 \in 1..(Len(enc.sqs) + 1)
      BY <1>3, <2>2 DEF Open
    <3> HIDE DEF t
    <3> QED BY <3>1
  <2> HIDE DEF t
  <2>4. /\ sq \in SequenceSet
        /\ len \in Nat /\ len >= 4 /\ p \in Nat /\ enc.op + MatchSize(len) \in Nat
        /\ t <= enc.op + MatchSize(len)
        /\ MatchPiece(sq, enc.blk, enc.anchor, p, t, enc.op + MatchSize(len))
    BY <1>2, <2>3, MatchIsPiece DEF t
  <2>5. /\ EncoderType(e) /\ e.pc = enc.pc /\ e.blk = enc.blk /\ e.anchor = p
        /\ e.op = enc.op + MatchSize(len) /\ e.sqs = Append(enc.sqs, sq)
    <3>1. budget \in Nat /\ len >= MinMatch
      BY <1>1, <2>4 DEF PageInv, MinMatch
    <3> HIDE DEF len, p, sq
    <3> QED BY <1>1, <1>5, <2>4, <3>1, EncodeMatchFacts
  <2> HIDE DEF e, sq
  <2>6. \E po, a : Open(e.sqs, enc.blk, StreamStart(enc.blk), p, e.op, po, a)
    <3>1. StreamStart(enc.blk) \in Nat /\ enc.anchor \in Nat
      BY <1>1, <1>3, StartIsNatural DEF EncoderType
    <3> HIDE DEF p, len
    <3>2. \E po, a : Open(Append(enc.sqs, sq), enc.blk, StreamStart(enc.blk), p,
                          enc.op + MatchSize(len), po, a)
      BY <1>3, <2>2, <2>3, <2>4, <3>1, OpenAppend
    <3> QED BY <2>5, <3>2
  <2>7. e.sqs \in Seq(SequenceSet)
    BY <1>3, <2>4, <2>5
  <2>8. /\ enc'.blk = enc.blk /\ enc'.anchor = p /\ enc'.sqs = e.sqs
        /\ \/ enc'.pc \in {"last", "search"} /\ enc'.op = e.op
           \/ /\ enc'.pc = "match" /\ enc'.ip = p /\ enc'.op = e.op + 1
              /\ \A i \in 0..3 : Byte(enc'.match + i) = Byte(p + i)
    <3>1. e.pc = "match"
      BY <1>2, <2>5
    <3>2. TableUpTo(Index(p) - 1) /\ enc.ip >= Source /\ enc.ip < MFLimitPlusOne /\ enc.ip \in Nat
      <4>1. /\ enc.anchor \in Source..enc.ip /\ enc.ip < MFLimitPlusOne /\ Source \in Nat
            /\ TableUpTo(Index(p) - 1)
        BY <1>1, <1>2, LongBlock DEF AtMatch
      <4>2. enc.anchor \in Nat /\ enc.ip \in Nat
        BY <1>1 DEF EncoderType
      <4> QED BY <4>1, <4>2
    <3>3. p - 2 >= Source /\ p <= MatchLimit
      <4>1. /\ Source \in Nat /\ MFLimitPlusOne = IEnd - 11 /\ MatchLimit = IEnd - 5 /\ IEnd \in Nat
        BY <1>1, <1>2, LongBlock
      <4>2. MatchLimit \in Int /\ MatchLimit - enc.ip >= MinMatch /\ enc.ip \in Int /\ enc.match \in Int
        BY <1>1, <3>2, <4>1 DEF MinMatch, EncoderType
      <4>3. len <= MatchLimit - enc.ip
        BY <4>2, MatchLengthFacts
      <4> HIDE DEF len
      <4> QED BY <2>4, <3>2, <4>1, <4>3
    <3> HIDE DEF p
    <3> QED BY <1>1, <1>2, <2>1, <2>4, <2>5, <3>1, <3>2, <3>3, NextPositionFacts
  <2> HIDE DEF p
  <2>9. e.op \in Nat
    BY <2>4, <2>5
  <2>10. CASE enc'.pc \in {"last", "search"}
    BY <1>2, <2>6, <2>7, <2>8, <2>10, StillOpen
  <2>11. CASE ~(enc'.pc \in {"last", "search"})
    <3>1. /\ enc'.pc = "match" /\ enc'.ip = p /\ enc'.op = e.op + 1
          /\ \A i \in 0..3 : Byte(enc'.match + i) = Byte(p + i)
      BY <2>8, <2>11
    <3>2. LiteralSize(enc'.ip - enc'.anchor) = 1
      <4>1. enc'.ip - enc'.anchor = 0
        BY <2>4, <2>8, <3>1
      <4>2. LiteralSize(0) = 1
        BY DEF LiteralSize, Extra
      <4> QED BY <4>1, <4>2
    <3>3. enc'.op - LiteralSize(enc'.ip - enc'.anchor) = e.op
      BY <2>9, <3>1, <3>2
    <3>4. EqualRun(enc'.ip, enc'.match, 4)
      BY <3>1 DEF EqualRun
    <3> QED BY <1>2, <2>6, <2>7, <2>8, <3>1, <3>3, <3>4, StillOpen
  <2> QED BY <2>10, <2>11
<1> QED BY <1>4, <1>5

(* One more block in the stream.                                           *)
LEMMA StreamGrows ==
  ASSUME IInv, RInv, page' = page, NEW sqs \in Seq(SequenceSet), NEW e \in Nat, NEW pos, NEW at,
         Closed(sqs, enc.blk, StreamStart(enc.blk), e, pos, at),
         stream' = Append(stream, sqs), ends' = Append(ends, e),
         enc'.blk = enc.blk + 1, enc'.sqs = enc.sqs, enc'.op = e, enc'.pc \in {"block", "idle"}
  PROVE  /\ stream' \in Seq(Seq(SequenceSet)) /\ Len(stream') = enc'.blk
         /\ StreamInv' /\ EncoderInv'
<1>1. /\ stream \in Seq(Seq(SequenceSet)) /\ Len(stream) = enc.blk
      /\ ends \in Seq(Nat) /\ Len(ends) = enc.blk /\ enc.blk \in Nat
  BY DEF IInv, TypeInv, BlockInv, EncoderType, RInv, StreamType, DecoderType
<1>2. stream' \in Seq(Seq(SequenceSet)) /\ Len(stream') = enc'.blk
  BY <1>1
<1>3. /\ stream'[enc.blk + 1] = sqs /\ ends'[enc.blk + 1] = e
      /\ \A b \in 1..enc.blk : stream'[b] = stream[b] /\ ends'[b] = ends[b]
  BY <1>1
<1>4. \A b \in 0..enc.blk : StreamStart(b)' = StreamStart(b)
  BY <1>1, <1>3 DEF StreamStart
<1>5. /\ \A q, b, s, f, po, a : Closed(q, b, s, f, po, a)' = Closed(q, b, s, f, po, a)
  BY SamePage
<1>6. ASSUME NEW b \in 0..(enc.blk - 1) PROVE ClosedBlock(b)'
  <2>1. PICK po, a : Closed(stream[b + 1], b, StreamStart(b), ends[b + 1], po, a)
    BY DEF RInv, StreamInv, ClosedBlock
  <2>2. /\ stream'[b + 1] = stream[b + 1] /\ ends'[b + 1] = ends[b + 1]
        /\ StreamStart(b)' = StreamStart(b)
    BY <1>1, <1>3, <1>4, SMTT(30)
  <2>3. Closed(stream[b + 1], b, StreamStart(b), ends[b + 1], po, a)'
    BY <1>5, <2>1, <2>2
  <2> QED BY <2>3 DEF ClosedBlock
<1>7. ASSUME NEW b, b = enc.blk PROVE ClosedBlock(b)'
  <2>1. StreamStart(b)' = StreamStart(b)
    BY <1>1, <1>4, <1>7
  <2> QED BY <1>3, <1>5, <1>7, <2>1 DEF ClosedBlock
<1>8. StreamInv'
  <2>1. SUFFICES ASSUME NEW b \in 0..enc.blk PROVE ClosedBlock(b)'
    BY <1>1 DEF StreamInv
  <2>2. CASE b = enc.blk
    BY <1>7, <2>2
  <2>3. CASE b # enc.blk
    <3>1. b \in 0..(enc.blk - 1)
      BY <1>1, <2>3
    <3> QED BY <1>6, <3>1
  <2> QED BY <2>2, <2>3
<1>9. EncoderInv'
  <2>1. StreamStart(enc.blk)' = e
    BY <1>1, <1>3 DEF StreamStart
  <2> QED BY <2>1 DEF EncoderInv
<1> QED BY <1>2, <1>8, <1>9

(* The literals that end a block, as a piece of it.                        *)
LEMMA LastIsPiece ==
  ASSUME IInv, enc.pc = "last", NEW n, n = IEnd - enc.anchor,
         NEW sq, sq = LiteralRun(Bytes(enc.anchor, n))
  PROVE  /\ sq \in SequenceSet /\ n \in Nat
         /\ enc.op \in Nat /\ enc.op + LiteralSize(n) \in Nat /\ enc.op < enc.op + LiteralSize(n)
         /\ LastPiece(sq, enc.blk, enc.anchor, enc.op, enc.op + LiteralSize(n))
<1>1. PageInv /\ TypeInv /\ BlockInv /\ AtLast /\ EncoderType(enc)
  BY DEF IInv, TypeInv
<1>2. enc.blk < NumBlocks
  BY <1>1 DEF BlockInv
<1>3. /\ BlockSz \in Nat /\ Source \in Nat /\ IEnd = Source + BlockSz /\ PageBytes \in Nat
      /\ IEnd <= PageBytes
  BY <1>1, <1>2, BlockPlace
<1>4. enc.op \in Nat /\ enc.anchor \in Nat /\ enc.blk \in Nat
  BY <1>1 DEF EncoderType
<1>5. enc.anchor \in Source..IEnd
  BY <1>1 DEF AtLast
<1>6. n \in Nat /\ enc.anchor + n = IEnd
  BY <1>3, <1>4, <1>5
<1> DEFINE lits == Bytes(enc.anchor, n)
<1>7. lits \in Seq(Nat) /\ Len(lits) = n
  <2>1. enc.anchor + n <= PageBytes
    BY <1>3, <1>6
  <2> QED BY <1>1, <1>4, <1>6, <2>1, BytesFacts
<1> HIDE DEF lits
<1>8. sq = [lits |-> lits, off |-> 0, len |-> 0]
  BY DEF LiteralRun, Sequence, lits
<1>9. sq \in SequenceSet /\ sq.lits = lits /\ sq.off = 0 /\ sq.len = 0
  BY <1>7, <1>8 DEF SequenceSet
<1>10. BlockEnd(enc.blk) = IEnd
  <2>1. (enc.blk + 1) * BlockSz = enc.blk * BlockSz + BlockSz
    BY <1>3, <1>4
  <2> QED BY <1>3, <2>1 DEF BlockEnd, Source
<1>11. LastPiece(sq, enc.blk, enc.anchor, enc.op, enc.op + LiteralSize(n))
  BY <1>6, <1>7, <1>9, <1>10 DEF LastPiece, lits
<1>12. LiteralSize(n) \in Nat /\ LiteralSize(n) >= 1 + n
  BY <1>6, LiteralSizeBounds
<1> QED BY <1>4, <1>6, <1>9, <1>11, <1>12

(* The decoder starts with the first block.                                *)
LEMMA DecoderStarts ==
  ASSUME PageInv, stream \in Seq(Seq(SequenceSet)), Len(stream) = enc.blk, StreamInv,
         enc.blk \in Nat, enc.blk >= 1,
         dec = Decoder("run")
  PROVE  DecoderInv /\ CapacityInv
<1>1. dec.pc = "run" /\ dec.blk = 0 /\ dec.seq = 1 /\ dec.read = 0 /\ dec.reach = 0 /\ dec.dst = <<>>
  BY DEF Decoder, DecoderType
<1>2. BlockSz \in Nat /\ NumBlocks \in Nat \ {0}
  BY SizesAreNaturals
<1>3. <<>> = Bytes(0, 0)
  BY DEF Bytes
<1>4. ClosedBlock(0)
  BY DEF StreamInv
<1>5. PICK pos, at : Closed(stream[1], 0, 0, ends[1], pos, at)
  BY <1>4 DEF ClosedBlock, StreamStart
<1>6. Len(stream[1]) >= 1 /\ pos[1] = 0 /\ at[1] = 0
  BY <1>2, <1>5 DEF Closed
<1>7. Block = stream[1] /\ StreamStart(dec.blk) = 0
  BY <1>1 DEF Block, StreamStart
<1>8. Len(stream[1]) \in Nat
  <2>1. stream[1] \in Seq(SequenceSet)
    OBVIOUS
  <2> QED BY <2>1
<1>9. DecoderAt(pos, at)
  BY <1>1, <1>5, <1>6, <1>7, <1>8 DEF DecoderAt
<1>10. DecoderInv
  BY <1>1, <1>2, <1>3, <1>9 DEF DecoderInv
<1>11. CapacityInv
  BY <1>1, <1>2 DEF CapacityInv, CapacityDecides, DecoderStaysInBlock
<1> QED BY <1>10, <1>11

(* The last literals complete the tiling of a block, and of the stream.    *)
LEMMA EncodeLastLiteralsTiles ==
  ASSUME IInv, IInv', RInv, EncodeLastLiterals PROVE RInv'
<1> DEFINE n == IEnd - enc.anchor
           sq == LiteralRun(Bytes(enc.anchor, n))
           sqs == Append(enc.sqs, sq)
           end == enc.op + LiteralSize(n)
           more == enc.blk + 1 < NumBlocks
<1>1. PageInv /\ TypeInv /\ BlockInv /\ EncoderType(enc)
  BY DEF IInv, TypeInv
<1>2. enc.pc = "last" /\ page' = page
  BY DEF EncodeLastLiterals, Refuse
<1>3. enc.sqs \in Seq(SequenceSet) /\ enc.blk \in Nat /\ enc.anchor \in Nat
  BY <1>1 DEF RInv, StreamType, EncoderType, DecoderType
<1>4. CASE ~LastFit(n)
  <2>1. /\ enc' = [enc EXCEPT !.pc = "refused", !.reach = Max({@, enc.op})]
        /\ UNCHANGED <<page, stream, ends, dec>>
    BY <1>2, <1>4 DEF EncodeLastLiterals, Refuse
  <2>2. enc'.pc = "refused" /\ enc'.blk = enc.blk /\ enc'.sqs = enc.sqs
    BY <1>1, <2>1 DEF EncoderType
  <2> QED BY <1>3, <2>1, <2>2, StillOpen
<1>5. CASE LastFit(n)
  <2>1. /\ stream' = Append(stream, sqs) /\ ends' = Append(ends, end)
        /\ enc' = [enc EXCEPT !.pc = IF more THEN "block" ELSE "idle", !.blk = @ + 1,
                              !.op = @ + LiteralSize(n), !.reach = Max({@, end})]
        /\ dec' = IF more THEN dec ELSE Decoder("run")
    BY <1>5 DEF EncodeLastLiterals
  <2>2. /\ enc'.blk = enc.blk + 1 /\ enc'.sqs = enc.sqs /\ enc'.op = end
        /\ enc'.pc \in {"block", "idle"}
    BY <1>1, <2>1 DEF EncoderType
  <2>3. /\ sq \in SequenceSet /\ n \in Nat
        /\ enc.op \in Nat /\ end \in Nat /\ enc.op < end
        /\ LastPiece(sq, enc.blk, enc.anchor, enc.op, end)
    BY <1>2, LastIsPiece
  <2> HIDE DEF sq, end, n
  <2>4. PICK pos, at : Open(enc.sqs, enc.blk, StreamStart(enc.blk), enc.anchor, enc.op, pos, at)
    BY <1>2 DEF RInv, EncoderInv
  <2>5. Closed(sqs, enc.blk, StreamStart(enc.blk), end, pos, at)
    <3>1. StreamStart(enc.blk) \in Nat
      BY <1>3, StartIsNatural
    <3> QED BY <1>3, <2>3, <2>4, <3>1, OpenClose
  <2>6. sqs \in Seq(SequenceSet)
    BY <1>3, <2>3
  <2> HIDE DEF sqs
  <2>7. /\ stream' \in Seq(Seq(SequenceSet)) /\ Len(stream') = enc'.blk
        /\ StreamInv' /\ EncoderInv'
    BY <1>2, <2>1, <2>2, <2>3, <2>5, <2>6, StreamGrows
  <2>8. CASE more
    <3>1. dec' = dec
      BY <2>1, <2>8
    <3>2. dec.pc \notin {"run", "end"}
      BY <1>1, <1>2 DEF BlockInv
    <3>3. DecoderInv'
      BY <3>1, <3>2 DEF DecoderInv
    <3>4. BlockSz' = BlockSz
      BY <1>2, SamePage
    <3>5. CapacityInv'
      BY <3>1, <3>4 DEF RInv, CapacityInv, CapacityDecides, DecoderStaysInBlock
    <3>6. StreamType'
      BY <1>3, <2>2, <2>7, <3>1 DEF RInv, StreamType, DecoderType
    <3> QED BY <2>7, <3>3, <3>5, <3>6 DEF RInv
  <2>9. CASE ~more
    <3>1. dec' = Decoder("run") /\ dec' = Decoder("run")'
      BY <2>1, <2>9 DEF Decoder, DecoderType
    <3>2. PageInv' /\ enc'.blk \in Nat /\ enc'.blk >= 1
      BY <1>3, <2>2 DEF IInv
    <3>3. (PageInv /\ stream \in Seq(Seq(SequenceSet)) /\ Len(stream) = enc.blk /\ StreamInv
             /\ enc.blk \in Nat /\ enc.blk >= 1 /\ dec = Decoder("run"))'
      BY <2>7, <3>1, <3>2 DEF SequenceSet
    <3>4. DecoderInv' /\ CapacityInv'
      BY <3>3, DecoderStarts, PTL
    <3>5. DecoderType(dec')
      BY <3>1 DEF Decoder, DecoderType
    <3>6. StreamType'
      BY <1>3, <2>2, <2>7, <3>5 DEF StreamType, DecoderType
    <3> QED BY <2>7, <3>4, <3>6 DEF RInv
  <2> QED BY <2>8, <2>9
<1> QED BY <1>4, <1>5

(* A new page has no stream yet.                                           *)
LEMMA GenerateTiles ==
  ASSUME IInv, RInv, Generate PROVE RInv'
<1>1. Len(ends) = enc.blk /\ ends = <<>> /\ UNCHANGED <<page, stream, ends, dec>>
  BY DEF Generate, IInv, BlockInv
<1>2. enc'.pc = "block" /\ enc'.blk = 0 /\ enc'.op = 0 /\ enc'.sqs = <<>>
  BY DEF Generate, Encoder
<1>3. enc'.blk = enc.blk /\ enc'.sqs \in Seq(SequenceSet)
  BY <1>1, <1>2
<1>4. StreamType' /\ StreamInv' /\ DecoderInv' /\ CapacityInv'
  BY <1>1, <1>3, StreamSame
<1>5. EncoderInv'
  BY <1>2 DEF EncoderInv, StreamStart
<1> QED BY <1>4, <1>5 DEF RInv

(* A new block leaves the bytes before it alone.                           *)
LEMMA BytesBefore ==
  ASSUME PageInv, NEW b \in 0..(NumBlocks - 1), NEW v, page' = [page EXCEPT ![b + 1] = v],
         BlockSz' = BlockSz, NEW x \in Nat, x < BlockSz * b
  PROVE  Byte(x)' = Byte(x)
<1>1. BlockSz \in Nat \ {0} /\ NumBlocks \in Nat /\ b \in Nat /\ b < NumBlocks
  BY SizesAreNaturals
<1> DEFINE q == x \div BlockSz
           r == x % BlockSz
<1>2. q \in 0..(b - 1)
  BY <1>1, DivInRange
<1>3. Byte(x) = page[q + 1][r + 1] /\ Byte(x)' = page'[q + 1][r + 1]
  BY DEF Byte
<1> HIDE DEF q, r
<1>4. page'[q + 1] = page[q + 1]
  <2>1. q + 1 # b + 1 /\ q + 1 \in 1..NumBlocks
    BY <1>1, <1>2
  <2>2. DOMAIN page = 1..NumBlocks
    BY DEF PageInv, NumBlocks
  <2> QED BY <2>1, <2>2
<1> QED BY <1>3, <1>4

(* A recompression keeps the tilings of the blocks before it.              *)
LEMMA RecompressTiles ==
  ASSUME IInv, IInv', RInv, NEW b \in 0..(NumBlocks - 1),
         NEW v \in {w \in Values : Len(w) = BlockSz}, NEW thres \in Budgets,
         Recompress(b, v, thres)
  PROVE  RInv'
<1>1. PageInv /\ TypeInv /\ BlockInv
  BY DEF IInv
<1>2. /\ dec.pc = "end" /\ page' = [page EXCEPT ![b + 1] = v]
      /\ stream' = SubSeq(stream, 1, b) /\ ends' = SubSeq(ends, 1, b)
      /\ enc' = Encoder("block", b, IF b = 0 THEN 0 ELSE ends[b]) /\ dec' = Decoder("idle")
  BY DEF Recompress
<1>3. BlockSz \in Nat /\ NumBlocks \in Nat \ {0} /\ b \in Nat /\ b < NumBlocks
  BY <1>1, SizesAreNaturals
<1>4. /\ stream \in Seq(Seq(SequenceSet)) /\ Len(stream) = NumBlocks
      /\ ends \in Seq(Nat) /\ Len(ends) = NumBlocks /\ enc.blk = NumBlocks
  BY <1>1, <1>2 DEF TypeInv, BlockInv, RInv, StreamType, DecoderType
<1>5. BlockSz' = BlockSz
  <2>1. page[1] \in Seq(Nat) /\ Len(page[1]) = BlockSz /\ 1 \in DOMAIN page
    BY <1>1, <1>3, SMTT(30) DEF PageInv, NumBlocks
  <2>2. Len(page'[1]) = BlockSz
    BY <1>2, <1>3, <2>1
  <2> QED BY <2>2 DEF BlockSz
<1>6. /\ stream' \in Seq(Seq(SequenceSet)) /\ Len(stream') = b
      /\ \A i \in 1..b : stream'[i] = stream[i] /\ ends'[i] = ends[i]
  <2> DEFINE S == Seq(SequenceSet)
  <2>1. stream \in Seq(S) /\ b <= Len(stream) /\ b <= Len(ends)
    BY <1>3, <1>4
  <2> HIDE DEF S
  <2>2. SubSeq(stream, 1, b) \in Seq(S) /\ Len(SubSeq(stream, 1, b)) = b
    BY <1>3, <2>1
  <2>3. /\ \A i \in 1..b : SubSeq(stream, 1, b)[i] = stream[i]
        /\ \A i \in 1..b : SubSeq(ends, 1, b)[i] = ends[i]
    BY <1>3, <1>4, <2>1
  <2> QED BY <1>2, <2>2, <2>3 DEF S
<1>7. /\ enc'.pc = "block" /\ enc'.blk = b /\ enc'.op = (IF b = 0 THEN 0 ELSE ends[b])
      /\ enc'.sqs = <<>>
  BY <1>2 DEF Encoder
<1>8. StreamType'
  <2>1. DecoderType(dec')
    BY <1>2 DEF Decoder, DecoderType
  <2> QED BY <1>6, <1>7, <2>1 DEF StreamType, DecoderType
<1>9. \A i \in 0..b : StreamStart(i)' = StreamStart(i)
  BY <1>3, <1>6 DEF StreamStart
<1>10. ASSUME NEW i \in 0..(b - 1) PROVE ClosedBlock(i)'
  <2>1. PICK pos, at : Closed(stream[i + 1], i, StreamStart(i), ends[i + 1], pos, at)
    <3>1. i \in 0..(enc.blk - 1)
      BY <1>3, <1>4
    <3> QED BY <3>1 DEF RInv, StreamInv, ClosedBlock
  <2>2. ASSUME NEW x \in Nat, x < BlockEnd(i) PROVE Byte(x)' = Byte(x)
    <3>1. BlockSz * (i + 1) <= BlockSz * b
      BY <1>3, TimesMonotone
    <3>2. BlockEnd(i) = BlockSz * (i + 1)
      BY <1>3 DEF BlockEnd
    <3>3. x < BlockSz * b
      <4>1. BlockSz * (i + 1) \in Nat /\ BlockSz * b \in Nat
        BY <1>3
      <4> QED BY <2>2, <3>1, <3>2, <4>1
    <3> QED BY <1>1, <1>2, <1>5, <3>3, BytesBefore
  <2>3. ASSUME NEW q, q = stream[i + 1], NEW s, s = StreamStart(i), NEW e, e = ends[i + 1]
        PROVE  Closed(q, i, s, e, pos, at)'
    <3>1. q \in Seq(SequenceSet) /\ i \in Nat
      BY <1>3, <1>4, <2>3
    <3>2. Closed(q, i, s, e, pos, at)
      BY <2>1, <2>3
    <3> QED BY <1>1, <1>5, <2>2, <3>1, <3>2, SameClosed
  <2>4. stream'[i + 1] = stream[i + 1] /\ ends'[i + 1] = ends[i + 1] /\ StreamStart(i)' = StreamStart(i)
    BY <1>3, <1>6, <1>9
  <2> QED BY <2>3, <2>4 DEF ClosedBlock
<1>11. StreamInv'
  BY <1>7, <1>10 DEF StreamInv
<1>12. EncoderInv'
  <2>1. StreamStart(enc.blk)' = StreamStart(b)
    <3>1. b # 0 => b \in 1..b
      BY <1>3
    <3>2. StreamStart(enc.blk)' = IF enc'.blk = 0 THEN 0 ELSE ends'[enc'.blk]
      BY DEF StreamStart
    <3> QED BY <1>6, <1>7, <3>1, <3>2 DEF StreamStart
  <2> QED BY <1>7, <2>1 DEF EncoderInv, StreamStart
<1>13. DecoderInv'
  BY <1>2 DEF DecoderInv, Decoder, DecoderType
<1>14. CapacityInv'
  BY <1>2, <1>3, <1>5 DEF CapacityInv, CapacityDecides, DecoderStaysInBlock, Decoder, DecoderType
<1> QED BY <1>8, <1>11, <1>12, <1>13, <1>14 DEF RInv

-----------------------------------------------------------------------------
(* The decoder *)

(* Where the block being decoded lies, and how far the caller lets it go.  *)
LEMMA OutputPlace ==
  ASSUME PageInv, dec.blk \in Nat, dec.blk < NumBlocks
  PROVE  /\ BlockEnd(dec.blk) \in Nat /\ BlockEnd(dec.blk) <= PageBytes /\ PageBytes \in Nat
         /\ BlockEnd(dec.blk) = (dec.blk + 1) * BlockSz
         /\ OEnd \in Nat /\ OEnd <= BlockEnd(dec.blk) /\ BlockSz \in Nat /\ Capacity \in Nat
         /\ BlockSz <= Capacity => OEnd = BlockEnd(dec.blk)
         /\ BlockSz > Capacity => OEnd < BlockEnd(dec.blk)
         /\ dec.blk + 1 = NumBlocks => BlockEnd(dec.blk) = PageBytes
<1> DEFINE s == dec.blk * BlockSz
           m == Min({BlockSz, Capacity})
<1>1. /\ BlockSz \in Nat /\ NumBlocks \in Nat \ {0} /\ PageBytes \in Nat
      /\ PageBytes = BlockSz * NumBlocks
  BY SizesAreNaturals
<1>2. Capacity \in Nat
  BY Lz4Assumption
<1>3. m \in {BlockSz, Capacity} /\ m <= BlockSz /\ m <= Capacity
  <2>1. BlockSz \in Int /\ Capacity \in Int
    BY <1>1, <1>2
  <2> QED BY <2>1, OfTwo
<1>4. s \in Nat /\ BlockEnd(dec.blk) = s + BlockSz /\ BlockEnd(dec.blk) = BlockSz * (dec.blk + 1)
  BY <1>1 DEF BlockEnd
<1>5. OEnd = s + m
  BY DEF OEnd
<1>6. BlockSz * (dec.blk + 1) <= PageBytes
  BY <1>1, TimesMonotone
<1>7. BlockEnd(dec.blk) = (dec.blk + 1) * BlockSz
  BY DEF BlockEnd
<1> HIDE DEF s, m
<1>8. dec.blk + 1 = NumBlocks => BlockEnd(dec.blk) = PageBytes
  BY <1>1, <1>4
<1> QED BY <1>1, <1>2, <1>3, <1>4, <1>5, <1>6, <1>7, <1>8

(* The sequence that is decoded next, and where it belongs.                *)
LEMMA CurrentFacts ==
  ASSUME IInv, RInv, dec.pc = "run", NEW pos, NEW at, DecoderAt(pos, at),
         NEW sq, sq = Current
  PROVE  /\ dec.blk \in Nat /\ dec.blk < NumBlocks /\ dec.seq \in Nat /\ Len(Block) \in Nat
         /\ dec.read \in Nat /\ dec.reach \in Nat /\ enc.blk = NumBlocks
         /\ Op \in Nat /\ dec.dst = Bytes(0, Op) /\ sq \in SequenceSet
         /\ dec.seq = Len(Block) => LastPiece(sq, dec.blk, Op, dec.read, ends[dec.blk + 1])
         /\ dec.seq # Len(Block) =>
              /\ dec.seq + 1 \in 1..Len(Block)
              /\ MatchPiece(sq, dec.blk, Op, pos[dec.seq + 1], dec.read, at[dec.seq + 1])
              /\ pos[dec.seq + 1] \in Nat /\ at[dec.seq + 1] \in Nat
              /\ at[dec.seq + 1] < ends[dec.blk + 1]
<1>1. /\ Closed(Block, dec.blk, StreamStart(dec.blk), ends[dec.blk + 1], pos, at)
      /\ dec.seq \in 1..Len(Block)
      /\ Len(dec.dst) = pos[dec.seq] /\ dec.read = at[dec.seq]
  BY DEF DecoderAt
<1>2. /\ dec.blk < NumBlocks /\ dec.dst = Bytes(0, Len(dec.dst))
      /\ dec.blk \in Nat /\ dec.seq \in Nat /\ dec.read \in Nat /\ dec.reach \in Nat
      /\ dec.dst \in Seq(Nat)
  BY DEF RInv, DecoderInv, StreamType, DecoderType
<1>3. enc.blk = NumBlocks /\ NumBlocks \in Nat
  BY SizesAreNaturals DEF IInv, BlockInv
<1>4. Block \in Seq(SequenceSet)
  <2>1. stream \in Seq(Seq(SequenceSet)) /\ Len(stream) = NumBlocks
    BY <1>3 DEF RInv, StreamType, DecoderType
  <2>2. dec.blk + 1 \in 1..NumBlocks
    BY <1>2, <1>3
  <2> QED BY <2>1, <2>2 DEF Block
<1>5. Len(Block) \in Nat /\ sq \in SequenceSet
  BY <1>1, <1>4 DEF Current
<1>6. Op = Len(dec.dst) /\ Op \in Nat
  BY <1>2 DEF Op
<1>7. CASE dec.seq = Len(Block)
  <2>1. LastPiece(Block[dec.seq], dec.blk, pos[dec.seq], at[dec.seq], ends[dec.blk + 1])
    BY <1>1, <1>7 DEF Closed
  <2> QED BY <1>1, <1>2, <1>3, <1>5, <1>6, <1>7, <2>1 DEF Current
<1>8. CASE dec.seq # Len(Block)
  <2>1. dec.seq \in 1..(Len(Block) - 1) /\ dec.seq + 1 \in 1..Len(Block)
    BY <1>1, <1>5, <1>8
  <2>2. /\ MatchPiece(Block[dec.seq], dec.blk, pos[dec.seq], pos[dec.seq + 1],
                      at[dec.seq], at[dec.seq + 1])
        /\ pos[dec.seq + 1] \in Nat /\ at[dec.seq + 1] \in Nat
        /\ at[dec.seq + 1] < ends[dec.blk + 1]
    BY <1>1, <2>1 DEF Closed
  <2> QED BY <1>1, <1>2, <1>3, <1>5, <1>6, <1>8, <2>1, <2>2 DEF Current
<1> QED BY <1>7, <1>8

(* The copies of a sequence that is no block's last stay within the block, *)
(* although they write whole words.                                        *)
LEMMA ReachFacts ==
  ASSUME NEW sq, NEW n \in Nat, n = Len(sq.lits), sq.len \in Nat, sq.len >= 4,
         Op \in Nat, OEnd \in Nat, NEW cpy, cpy = Op + n,
         ~EndsBlock(cpy), cpy + sq.len <= OEnd
  PROVE  /\ Max({LiteralsReach(n), MatchReach(sq, cpy)}) \in Nat
         /\ Max({LiteralsReach(n), MatchReach(sq, cpy)}) <= OEnd
<1> DEFINE a == LiteralsReach(n)
           d == MatchReach(sq, cpy)
           len == sq.len
<1>1. cpy <= OEnd - 8 /\ cpy \in Nat
  BY DEF EndsBlock, WildCopyLength
<1>2. a \in Nat /\ a <= OEnd
  <2>1. CASE Shortcut(n)
    BY <2>1 DEF LiteralsReach, Shortcut
  <2>2. CASE ~Shortcut(n)
    <3>1. a = Op + WildCopy(n)
      BY <2>2 DEF LiteralsReach
    <3>2. /\ WildCopy(n) \in Nat
          /\ n > 0 => WildCopy(n) <= n + 7
          /\ n = 0 => WildCopy(n) = 8
      BY WildCopyBounds
    <3> QED BY <1>1, <3>1, <3>2, SMTT(30)
  <2> QED BY <2>1, <2>2
<1>3. d \in Nat /\ d <= OEnd
  <2>1. CASE ShortMatch(sq)
    <3>1. d = cpy + 18 /\ Shortcut(n)
      BY <2>1 DEF MatchReach, ShortMatch
    <3>2. n <= 8 /\ Op <= OEnd - 26
      BY <3>1 DEF Shortcut
    <3> HIDE DEF d
    <3> QED BY <1>1, <3>1, <3>2, SMTT(30)
  <2>2. CASE ~ShortMatch(sq) /\ cpy + len > OEnd - MFLimit
    <3> DEFINE op == cpy + 8
               k == CopyLimit - op
               words == IF op < CopyLimit THEN op + WildCopy(k) ELSE op
    <3>1. d = Max({cpy + len, words})
      BY <2>2 DEF MatchReach, EndReach
    <3>2. CopyLimit = OEnd - 7 /\ CopyLimit \in Int /\ op \in Nat /\ op <= OEnd
      BY <1>1 DEF CopyLimit, WildCopyLength
    <3>3. words \in Nat /\ words <= OEnd
      <4>1. CASE op < CopyLimit
        <5>1. words = op + WildCopy(k)
          BY <4>1
        <5> HIDE DEF op, words
        <5>2. k \in Nat /\ k > 0 /\ k + op = OEnd - 7
          BY <1>1, <3>2, <4>1
        <5> HIDE DEF k
        <5> DEFINE w == WildCopy(k)
        <5>3. w \in Nat /\ w <= k + 7
          BY <5>2, WildCopyBounds
        <5>4. words = op + w
          BY <5>1
        <5> HIDE DEF w
        <5>5. op + w \in Nat /\ op + w <= OEnd
          BY <3>2, <5>2, <5>3, SMT
        <5> QED BY <5>4, <5>5
      <4>2. CASE ~(op < CopyLimit)
        BY <3>2, <4>2
      <4> QED BY <4>1, <4>2
    <3> HIDE DEF op, words
    <3>4. cpy + len \in Int /\ words \in Int
      BY <1>1, <3>3
    <3> HIDE DEF len, d
    <3>5. d \in {cpy + len, words}
      BY <3>1, <3>4, OfTwo
    <3> QED BY <1>1, <3>3, <3>5, SMTT(30) DEF len
  <2>3. CASE ~ShortMatch(sq) /\ ~(cpy + len > OEnd - MFLimit)
    <3>1. d = IF len <= 16 THEN cpy + 16 ELSE cpy + 16 + WildCopy(len - 16)
      BY <2>3 DEF MatchReach
    <3>2. cpy + len <= OEnd - 12
      BY <1>1, <2>3 DEF MFLimit
    <3>3. CASE len <= 16
      BY <1>1, <3>1, <3>2, <3>3, SMTT(30)
    <3>4. CASE ~(len <= 16)
      <4> DEFINE k == len - 16
      <4>1. k \in Nat /\ k > 0
        BY <3>4
      <4> HIDE DEF k
      <4>2. WildCopy(k) \in Nat /\ WildCopy(k) <= k + 7
        BY <4>1, WildCopyBounds
      <4>3. d = cpy + 16 + WildCopy(k)
        BY <3>1, <3>4 DEF k
      <4>4. k = len - 16 /\ len \in Nat
        BY DEF k
      <4> HIDE DEF len, d
      <4> QED BY <1>1, <3>2, <4>2, <4>3, <4>4, SMTT(30)
    <3> QED BY <3>3, <3>4
  <2> QED BY <2>1, <2>2, <2>3
<1> HIDE DEF a, d
<1>4. Max({a, d}) \in {a, d}
  <2>1. a \in Int /\ d \in Int
    BY <1>2, <1>3
  <2> QED BY <2>1, OfTwo
<1> QED BY <1>2, <1>3, <1>4 DEF a, d

(* While the decoder works, nothing else changes.                          *)
LEMMA DecoderOnly ==
  ASSUME IInv, RInv, dec.pc = "run", UNCHANGED <<page, stream, ends, enc>>, DecoderType(dec')
  PROVE  /\ StreamType' /\ StreamInv' /\ EncoderInv'
         /\ BlockSz' = BlockSz /\ NumBlocks' = NumBlocks /\ PageBytes' = PageBytes
         /\ \A p, n : Bytes(p, n)' = Bytes(p, n)
         /\ \A b : StreamStart(b)' = StreamStart(b)
         /\ \A sqs, b, s, e, pos, at : Closed(sqs, b, s, e, pos, at)' = Closed(sqs, b, s, e, pos, at)
<1>1. /\ BlockSz' = BlockSz /\ NumBlocks' = NumBlocks /\ PageBytes' = PageBytes
      /\ \A p, n : Bytes(p, n)' = Bytes(p, n)
      /\ \A sqs, b, s, e, pos, at : Closed(sqs, b, s, e, pos, at)' = Closed(sqs, b, s, e, pos, at)
  BY SamePage
<1>2. \A b : StreamStart(b)' = StreamStart(b)
  BY DEF StreamStart
<1>3. \A b : ClosedBlock(b)' = ClosedBlock(b)
  BY <1>1, <1>2 DEF ClosedBlock
<1>4. StreamInv'
  BY <1>3 DEF RInv, StreamInv
<1>5. StreamType'
  BY DEF RInv, StreamType, DecoderType
<1>6. enc.pc = "idle"
  BY DEF IInv, BlockInv
<1>7. EncoderInv'
  BY <1>6 DEF EncoderInv
<1> QED BY <1>1, <1>2, <1>4, <1>5, <1>7

(* A decoder that gives up, as it may on blocks beyond the capacity.       *)
LEMMA LoseTiles ==
  ASSUME IInv, RInv, dec.pc = "run", UNCHANGED <<page, stream, ends, enc>>,
         BlockSz > Capacity, Lose
  PROVE  RInv'
<1>1. DecoderType(dec)
  BY DEF RInv, StreamType, DecoderType
<1>2. dec' = [dec EXCEPT !.pc = "lost"]
  BY DEF Lose
<1>3. /\ DecoderType(dec') /\ dec'.pc = "lost" /\ dec'.blk = dec.blk /\ dec'.reach = dec.reach
  BY <1>1, <1>2 DEF DecoderType
<1>4. StreamType' /\ StreamInv' /\ EncoderInv' /\ BlockSz' = BlockSz
  BY <1>3, DecoderOnly
<1>5. DecoderInv'
  BY <1>3 DEF DecoderInv
<1>6. CapacityInv'
  BY <1>3, <1>4 DEF RInv, CapacityInv, CapacityDecides, DecoderStaysInBlock
<1> QED BY <1>4, <1>5, <1>6 DEF RInv

(* A match is copied.                                                      *)
LEMMA CopyTiles ==
  ASSUME IInv, RInv, dec.pc = "run", UNCHANGED <<page, stream, ends, enc>>,
         NEW pos, NEW at, DecoderAt(pos, at), NEW sq, sq = Current, dec.seq # Len(Block),
         NEW cpy, cpy = Op + Len(sq.lits), ~EndsBlock(cpy), cpy + sq.len <= OEnd,
         dec' = [dec EXCEPT !.seq = @ + 1, !.read = @ + SequenceSize(sq),
                     !.reach = Max({LiteralsReach(Len(sq.lits)), MatchReach(sq, cpy)}),
                     !.dst = CopyMatch(@ \o sq.lits, sq.off, sq.len)]
  PROVE  RInv'
<1> DEFINE n == Len(sq.lits)
           q == pos[dec.seq + 1]
           t == at[dec.seq + 1]
           reach == Max({LiteralsReach(n), MatchReach(sq, cpy)})
           dst == CopyMatch(dec.dst \o sq.lits, sq.off, sq.len)
           read == dec.read + SequenceSize(sq)
<1>1. PageInv /\ DecoderType(dec)
  BY DEF IInv, RInv, StreamType, DecoderType
<1>2. /\ dec.blk \in Nat /\ dec.blk < NumBlocks /\ dec.seq \in Nat /\ dec.read \in Nat
      /\ Op \in Nat /\ dec.dst = Bytes(0, Op) /\ sq \in SequenceSet
      /\ dec.seq + 1 \in 1..Len(Block)
      /\ MatchPiece(sq, dec.blk, Op, q, dec.read, t) /\ q \in Nat /\ t \in Nat
  BY CurrentFacts
<1>3. /\ sq.lits = Bytes(Op, n) /\ sq.len >= 4 /\ q = cpy + sq.len /\ q <= BlockEnd(dec.blk) - 5
      /\ sq.off \in 1..cpy /\ EqualRun(cpy, cpy - sq.off, sq.len)
      /\ t = dec.read + LiteralSize(n) + MatchSize(sq.len)
  BY <1>2 DEF MatchPiece
<1>4. n \in Nat /\ sq.len \in Nat /\ cpy \in Nat
  BY <1>2, SMTT(30) DEF SequenceSet
<1>5. /\ BlockEnd(dec.blk) \in Nat /\ BlockEnd(dec.blk) <= PageBytes /\ PageBytes \in Nat
      /\ OEnd \in Nat /\ OEnd <= BlockEnd(dec.blk) /\ BlockEnd(dec.blk) = (dec.blk + 1) * BlockSz
  BY <1>1, <1>2, OutputPlace
<1>6. dst = Bytes(0, q) /\ Len(dst) = q /\ dst \in Seq(Nat)
  <2>1. Op + n <= PageBytes /\ cpy + sq.len <= PageBytes /\ q <= PageBytes /\ 0 + q <= PageBytes
    <3>1. cpy = Op + n
      OBVIOUS
    <3>2. q <= PageBytes /\ q = cpy + sq.len /\ q \in Nat /\ PageBytes \in Nat /\ Op \in Nat
      <4> HIDE DEF q
      <4> QED BY <1>2, <1>3, <1>5
    <3> HIDE DEF q, n
    <3> QED BY <1>4, <3>1, <3>2, SMTT(30)
  <2>2. dec.dst \o sq.lits = Bytes(0, cpy)
    <3> HIDE DEF n
    <3>1. Bytes(0, Op) \o Bytes(Op, n) = Bytes(0, Op + n)
      BY <1>1, <1>2, <1>4, <2>1, BytesConcat
    <3>2. cpy = Op + n
      BY DEF n
    <3> QED BY <1>2, <1>3, <3>1, <3>2
  <2>3. CopyMatch(Bytes(0, cpy), sq.off, sq.len) = Bytes(0, cpy + sq.len)
    BY <1>1, <1>3, <1>4, <2>1, CopyFacts
  <2>4. dst = Bytes(0, q)
    BY <1>3, <2>2, <2>3
  <2> HIDE DEF dst, q
  <2>5. Bytes(0, q) \in Seq(Nat) /\ Len(Bytes(0, q)) = q
    BY <1>1, <1>2, <2>1, BytesFacts
  <2> QED BY <2>4, <2>5
<1>7. read = t
  <2>1. SequenceSize(sq) = LiteralSize(n) + MatchSize(sq.len)
    BY <1>3, <1>4 DEF SequenceSize
  <2>2. LiteralSize(n) \in Nat /\ MatchSize(sq.len) \in Nat
    <3>1. Extra(sq.len - MinMatch) \in Nat
      <4>1. sq.len - MinMatch \in Nat
        BY <1>3, <1>4 DEF MinMatch
      <4> QED BY <4>1, ExtraBounds
    <3>2. LiteralSize(n) \in Nat
      <4> HIDE DEF n
      <4> QED BY <1>4, LiteralSizeBounds
    <3> QED BY <3>1, <3>2 DEF MatchSize
  <2> HIDE DEF n, t
  <2> QED BY <1>2, <1>3, <2>1, <2>2
<1>8. reach \in Nat /\ reach <= OEnd
  <2> HIDE DEF n
  <2>1. n = Len(sq.lits) /\ cpy = Op + n
    BY DEF n
  <2> QED BY <1>2, <1>3, <1>4, <1>5, <2>1, ReachFacts
<1>9. dec' = [dec EXCEPT !.seq = dec.seq + 1, !.read = read, !.reach = reach, !.dst = dst]
  OBVIOUS
<1> HIDE DEF read, reach, dst, t, q
<1>10. DecoderType(dec')
  <2>1. read \in Nat /\ reach \in Nat /\ dst \in Seq(Nat) /\ dec.seq + 1 \in Nat
    BY <1>2, <1>6, <1>7, <1>8
  <2> QED BY <1>1, <1>9, <2>1 DEF DecoderType
<1>11. /\ dec'.pc = "run" /\ dec'.blk = dec.blk /\ dec'.seq = dec.seq + 1
       /\ dec'.read = t /\ dec'.reach = reach /\ dec'.dst = dst
  BY <1>1, <1>7, <1>9 DEF DecoderType
<1>12. /\ StreamType' /\ StreamInv' /\ EncoderInv'
       /\ BlockSz' = BlockSz /\ NumBlocks' = NumBlocks /\ PageBytes' = PageBytes
       /\ \A p, k : Bytes(p, k)' = Bytes(p, k)
       /\ \A b : StreamStart(b)' = StreamStart(b)
       /\ \A sqs, b, s, e, po, a : Closed(sqs, b, s, e, po, a)' = Closed(sqs, b, s, e, po, a)
  BY <1>10, DecoderOnly
<1>13. DecoderAt(pos, at)'
  <2>1. Block' = Block
    BY <1>11 DEF Block
  <2>2. Closed(Block, dec.blk, StreamStart(dec.blk), ends[dec.blk + 1], pos, at)
    BY DEF DecoderAt
  <2>3. StreamStart(dec.blk)' = StreamStart(dec.blk)
    BY <1>11 DEF StreamStart
  <2>4. Closed(Block, dec.blk, StreamStart(dec.blk), ends[dec.blk + 1], pos, at)'
    BY <1>11, <1>12, <2>1, <2>2, <2>3
  <2>5. dec'.seq \in 1..Len(Block') /\ Len(dec'.dst) = pos[dec'.seq] /\ dec'.read = at[dec'.seq]
    BY <1>2, <1>6, <1>11, <2>1 DEF q, t
  <2> QED BY <2>4, <2>5 DEF DecoderAt
<1>14. dec'.dst = Bytes(0, Len(dec.dst))'
  BY <1>6, <1>11, <1>12
<1>15. DecoderInv'
  BY <1>2, <1>11, <1>12, <1>13, <1>14 DEF DecoderInv
<1>16. CapacityInv'
  <2>1. dec'.reach <= (dec'.blk + 1) * BlockSz'
    BY <1>5, <1>8, <1>11, <1>12
  <2> QED BY <1>11, <1>12, <2>1 DEF RInv, CapacityInv, CapacityDecides, DecoderStaysInBlock
<1> QED BY <1>12, <1>15, <1>16 DEF RInv

(* The last literals of a block, which end where the caller lets it end.   *)
LEMMA FinishTiles ==
  ASSUME IInv, RInv, dec.pc = "run", UNCHANGED <<page, stream, ends, enc>>,
         NEW pos, NEW at, DecoderAt(pos, at), NEW sq, sq = Current, dec.seq = Len(Block),
         Op + Len(sq.lits) = OEnd, FinishBlock
  PROVE  RInv'
<1> DEFINE n == Len(sq.lits)
           end == BlockEnd(dec.blk)
           taken == dec.read + LiteralSize(n)
           dst == dec.dst \o sq.lits
           more == dec.blk + 1 < NumBlocks
           pc == IF more THEN "run" ELSE "end"
<1>1. PageInv /\ DecoderType(dec) /\ StreamInv
  BY DEF IInv, RInv, StreamType, DecoderType
<1>2. /\ dec.blk \in Nat /\ dec.blk < NumBlocks /\ dec.read \in Nat /\ enc.blk = NumBlocks
      /\ Op \in Nat /\ dec.dst = Bytes(0, Op) /\ sq \in SequenceSet
      /\ LastPiece(sq, dec.blk, Op, dec.read, ends[dec.blk + 1])
  BY CurrentFacts
<1>3. /\ sq.lits = Bytes(Op, n) /\ Op + n = end /\ ends[dec.blk + 1] = taken
  BY <1>2 DEF LastPiece
<1>4. n \in Nat /\ NumBlocks \in Nat
  BY <1>1, <1>2, SizesAreNaturals DEF SequenceSet
<1>5. /\ end \in Nat /\ end <= PageBytes /\ PageBytes \in Nat /\ BlockSz \in Nat /\ Capacity \in Nat
      /\ end = (dec.blk + 1) * BlockSz
      /\ BlockSz > Capacity => OEnd < end
      /\ dec.blk + 1 = NumBlocks => end = PageBytes
  BY <1>1, <1>2, OutputPlace
<1>6. BlockSz <= Capacity
  <2>1. OEnd = end
    BY <1>3
  <2> HIDE DEF end
  <2> QED BY <1>5, <2>1
<1>7. taken \in Nat
  <2>1. LiteralSize(n) \in Nat
    <3> HIDE DEF n
    <3> QED BY <1>4, LiteralSizeBounds
  <2> QED BY <1>2, <2>1
<1> HIDE DEF n, end
<1>8. dst = Bytes(0, end) /\ Len(dst) = end /\ dst \in Seq(Nat)
  <2>1. Op + n <= PageBytes /\ 0 + end <= PageBytes
    BY <1>3, <1>5
  <2>2. Bytes(0, Op) \o Bytes(Op, n) = Bytes(0, Op + n)
    BY <1>1, <1>2, <1>4, <2>1, BytesConcat
  <2>3. dst = Bytes(0, end)
    BY <1>2, <1>3, <2>2
  <2>4. Bytes(0, end) \in Seq(Nat) /\ Len(Bytes(0, end)) = end
    BY <1>1, <1>5, <2>1, BytesFacts
  <2> QED BY <2>3, <2>4
<1>9. dec' = [dec EXCEPT !.pc = pc, !.blk = dec.blk + 1, !.seq = 1, !.read = taken, !.dst = dst]
  BY <1>3 DEF FinishBlock, n
<1> HIDE DEF taken, dst
<1>10. pc \in {"run", "end"}
  OBVIOUS
<1> HIDE DEF pc
<1>11. DecoderType(dec')
  <2>1. dec.blk + 1 \in Nat /\ dst \in Seq(Nat) /\ pc \in {"idle", "run", "end", "lost"}
    BY <1>2, <1>8, <1>10
  <2> QED BY <1>1, <1>7, <1>9, <2>1 DEF DecoderType
<1>12. /\ dec'.pc = pc /\ dec'.blk = dec.blk + 1 /\ dec'.seq = 1 /\ dec'.read = taken
       /\ dec'.dst = dst /\ dec'.reach = dec.reach
  BY <1>1, <1>9 DEF DecoderType
<1>13. /\ StreamType' /\ StreamInv' /\ EncoderInv'
       /\ BlockSz' = BlockSz /\ NumBlocks' = NumBlocks /\ PageBytes' = PageBytes
       /\ \A p, k : Bytes(p, k)' = Bytes(p, k)
       /\ \A b : StreamStart(b)' = StreamStart(b)
       /\ \A sqs, b, s, e, po, a : Closed(sqs, b, s, e, po, a)' = Closed(sqs, b, s, e, po, a)
  BY <1>11, DecoderOnly
<1>14. dec'.pc = "end" => dec'.dst = Bytes(0, PageBytes)'
  <2> SUFFICES ASSUME dec'.pc = "end" PROVE dec'.dst = Bytes(0, PageBytes)'
    OBVIOUS
  <2>1. dec.blk + 1 = NumBlocks
    BY <1>2, <1>4, <1>12 DEF pc
  <2> QED BY <1>5, <1>8, <1>12, <1>13, <2>1
<1>15. dec'.pc = "run" => /\ dec'.blk < NumBlocks' /\ dec'.dst = Bytes(0, Len(dec.dst))'
                          /\ \E po, a : DecoderAt(po, a)'
  <2> SUFFICES ASSUME dec'.pc = "run"
               PROVE  /\ dec'.blk < NumBlocks' /\ dec'.dst = Bytes(0, Len(dec.dst))'
                      /\ \E po, a : DecoderAt(po, a)'
    OBVIOUS
  <2> DEFINE b == dec.blk + 1
  <2>1. b < NumBlocks /\ b \in 0..(enc.blk - 1)
    BY <1>2, <1>4, <1>12 DEF pc
  <2>2. PICK po, a : Closed(stream[b + 1], b, StreamStart(b), ends[b + 1], po, a)
    BY <1>1, <2>1 DEF StreamInv, ClosedBlock
  <2>3. Len(stream[b + 1]) >= 1 /\ po[1] = b * BlockSz /\ a[1] = StreamStart(b)
    BY <2>2 DEF Closed
  <2>4. Len(stream[b + 1]) \in Nat
    <3>1. stream \in Seq(Seq(SequenceSet)) /\ b + 1 \in 1..Len(stream)
      BY <1>2, <1>4, <2>1, SMTT(30) DEF RInv, StreamType, DecoderType
    <3>2. stream[b + 1] \in Seq(SequenceSet)
      BY <3>1
    <3> QED BY <3>2
  <2>5. StreamStart(b) = taken
    BY <1>2, <1>3 DEF StreamStart
  <2>6. /\ Block' = stream[b + 1] /\ dec'.blk = b /\ StreamStart(dec.blk)' = StreamStart(b)
        /\ ends' = ends
    BY <1>12 DEF Block, StreamStart
  <2>7. Closed(Block, dec.blk, StreamStart(dec.blk), ends[dec.blk + 1], po, a)'
    BY <1>13, <2>2, <2>6
  <2>8. 1 \in 1..Len(Block') /\ Len(dec'.dst) = po[1] /\ dec'.read = a[1]
    <3>1. 1 \in 1..Len(Block')
      BY <2>3, <2>4, <2>6
    <3> QED BY <1>5, <1>8, <1>12, <2>3, <2>5, <3>1
  <2>9. DecoderAt(po, a)'
    BY <1>12, <2>7, <2>8 DEF DecoderAt
  <2>10. dec'.dst = Bytes(0, Len(dec.dst))'
    BY <1>8, <1>12, <1>13
  <2> QED BY <1>12, <1>13, <2>1, <2>9, <2>10
<1>16. DecoderInv'
  BY <1>14, <1>15 DEF DecoderInv
<1>17. CapacityInv'
  <2>1. dec'.reach <= (dec'.blk + 1) * BlockSz'
    <3>1. dec.reach <= (dec.blk + 1) * BlockSz /\ dec.reach \in Nat
      BY <1>1 DEF RInv, CapacityInv, DecoderStaysInBlock, DecoderType
    <3>2. /\ (dec.blk + 1 + 1) * BlockSz = (dec.blk + 1) * BlockSz + BlockSz
          /\ (dec.blk + 1) * BlockSz \in Nat
      BY <1>2, <1>5
    <3>3. dec.reach <= (dec.blk + 1 + 1) * BlockSz
      BY <1>5, <3>1, <3>2
    <3> QED BY <1>12, <1>13, <3>3
  <2>2. dec'.pc # "lost"
    BY <1>10, <1>12
  <2> QED BY <1>6, <1>13, <2>1, <2>2 DEF CapacityInv, CapacityDecides, DecoderStaysInBlock
<1> QED BY <1>13, <1>16, <1>17 DEF RInv

(* A sequence that is decoded goes on with the page.                       *)
LEMMA DecodeSequenceTiles ==
  ASSUME IInv, RInv, DecodeSequence PROVE RInv'
<1> DEFINE sq == Current
           n == Len(sq.lits)
           cpy == Op + n
           end == cpy + sq.len
           e == BlockEnd(dec.blk)
<1>1. dec.pc = "run" /\ UNCHANGED <<page, stream, ends, enc>>
  BY DEF DecodeSequence
<1>2. PICK pos, at : DecoderAt(pos, at)
  BY <1>1 DEF RInv, DecoderInv
<1>3. /\ dec.blk \in Nat /\ dec.blk < NumBlocks /\ dec.read \in Nat /\ Op \in Nat /\ sq \in SequenceSet
      /\ dec.seq = Len(Block) => LastPiece(sq, dec.blk, Op, dec.read, ends[dec.blk + 1])
      /\ dec.seq # Len(Block) =>
           /\ MatchPiece(sq, dec.blk, Op, pos[dec.seq + 1], dec.read, at[dec.seq + 1])
           /\ at[dec.seq + 1] \in Nat /\ at[dec.seq + 1] < ends[dec.blk + 1]
  BY <1>1, <1>2, CurrentFacts
<1>4. /\ e \in Nat /\ OEnd \in Nat /\ OEnd <= e /\ BlockSz \in Nat /\ Capacity \in Nat
      /\ BlockSz <= Capacity => OEnd = e
      /\ BlockSz > Capacity => OEnd < e
  BY <1>3, OutputPlace DEF IInv
<1>5. n \in Nat /\ sq.len \in Nat /\ cpy \in Nat /\ end \in Nat
  BY <1>3, SMTT(30) DEF SequenceSet
<1>6. EndsBlock(cpy) <=> cpy > OEnd - 8
  BY DEF EndsBlock, WildCopyLength
<1>7. dec.seq = Len(Block) => cpy = e /\ sq.len = 0
  BY <1>3 DEF LastPiece
<1>8. dec.seq # Len(Block) =>
        /\ sq.len >= 4 /\ sq.off \in 1..cpy /\ cpy <= e - 12 /\ end <= e - 5
        /\ at[dec.seq + 1] = dec.read + LiteralSize(n) + MatchSize(sq.len)
  BY <1>3 DEF MatchPiece
<1>9. /\ EndsBlock(cpy) /\ cpy = OEnd => FinishBlock
      /\ EndsBlock(cpy) /\ cpy # OEnd => Lose
      /\ ~EndsBlock(cpy) /\ (sq.len = 0 \/ sq.off \notin 1..cpy \/ end > OEnd
                               \/ (end > OEnd - LastLiterals /\ ~ShortMatch(sq))) => Lose
      /\ ~EndsBlock(cpy) /\ ~(sq.len = 0 \/ sq.off \notin 1..cpy \/ end > OEnd
                                \/ (end > OEnd - LastLiterals /\ ~ShortMatch(sq))) =>
           dec' = [dec EXCEPT !.seq = @ + 1, !.read = @ + SequenceSize(sq),
                     !.reach = Max({LiteralsReach(Len(sq.lits)), MatchReach(sq, cpy)}),
                     !.dst = CopyMatch(@ \o sq.lits, sq.off, sq.len)]
  BY DEF DecodeSequence
<1>10. CASE dec.seq = Len(Block)
  <2>1. CASE cpy = OEnd
    <3>1. FinishBlock
      <4> HIDE DEF cpy, sq, end
      <4> QED BY <1>4, <1>5, <1>6, <1>9, <2>1
    <3> QED BY <1>1, <1>2, <1>10, <2>1, <3>1, FinishTiles
  <2>2. CASE cpy # OEnd
    <3>1. Lose /\ BlockSz > Capacity
      <4> HIDE DEF cpy, sq, end, e
      <4> QED BY <1>4, <1>5, <1>6, <1>7, <1>9, <1>10, <2>2
    <3> QED BY <1>1, <3>1, LoseTiles
  <2> QED BY <2>1, <2>2
<1>11. CASE dec.seq # Len(Block)
  <2>1. CASE EndsBlock(cpy)
    <3>1. BlockSz > Capacity
      <4> HIDE DEF cpy, sq, end, e
      <4> QED BY <1>4, <1>5, <1>6, <1>8, <1>11, <2>1
    <3>2. Lose
      <4>1. CASE cpy # OEnd
        BY <1>9, <2>1, <4>1
      <4>2. CASE cpy = OEnd
        <5>1. dec.read + LiteralSize(n) # ends[dec.blk + 1]
          <6>1. LiteralSize(n) \in Nat /\ MatchSize(sq.len) \in Nat
            <7>1. Extra(sq.len - MinMatch) \in Nat
              <8>1. sq.len - MinMatch \in Nat
                BY <1>5, <1>8, <1>11 DEF MinMatch
              <8> QED BY <8>1, ExtraBounds
            <7>2. LiteralSize(n) \in Nat
              <8> HIDE DEF n
              <8> QED BY <1>5, LiteralSizeBounds
            <7> QED BY <7>1, <7>2 DEF MatchSize
          <6> HIDE DEF n, sq
          <6> QED BY <1>3, <1>8, <1>11, <6>1
        <5>2. FinishBlock
          BY <1>9, <2>1, <4>2
        <5> QED BY <5>1, <5>2 DEF FinishBlock
      <4> QED BY <4>1, <4>2
    <3> QED BY <1>1, <3>1, <3>2, LoseTiles
  <2>2. CASE ~EndsBlock(cpy) /\ (sq.len = 0 \/ sq.off \notin 1..cpy \/ end > OEnd
                                   \/ (end > OEnd - LastLiterals /\ ~ShortMatch(sq)))
    <3>1. Lose
      BY <1>9, <2>2
    <3>2. BlockSz > Capacity
      <4> HIDE DEF cpy, sq, end, e
      <4> QED BY <1>4, <1>5, <1>8, <1>11, <2>2 DEF LastLiterals
    <3> QED BY <1>1, <3>1, <3>2, LoseTiles
  <2>3. CASE ~EndsBlock(cpy) /\ ~(sq.len = 0 \/ sq.off \notin 1..cpy \/ end > OEnd
                                    \/ (end > OEnd - LastLiterals /\ ~ShortMatch(sq)))
    <3>1. dec' = [dec EXCEPT !.seq = @ + 1, !.read = @ + SequenceSize(sq),
                    !.reach = Max({LiteralsReach(Len(sq.lits)), MatchReach(sq, cpy)}),
                    !.dst = CopyMatch(@ \o sq.lits, sq.off, sq.len)]
      BY <1>9, <2>3
    <3>2. ~EndsBlock(cpy) /\ cpy + sq.len <= OEnd /\ cpy = Op + Len(sq.lits)
      <4>1. ~(end > OEnd)
        BY <2>3
      <4>2. end <= OEnd
        <5> HIDE DEF end
        <5> QED BY <1>4, <1>5, <4>1
      <4> QED BY <2>3, <4>2
    <3> HIDE DEF cpy, end
    <3> QED BY <1>1, <1>2, <1>11, <3>1, <3>2, CopyTiles
  <2> QED BY <2>1, <2>2, <2>3
<1> QED BY <1>10, <1>11

(* Steps that change nothing the invariant is about.                       *)
LEMMA StutterTiles ==
  ASSUME RInv, UNCHANGED <<page, stream, ends, enc, dec>> PROVE RInv'
<1>1. enc'.blk = enc.blk /\ enc'.sqs \in Seq(SequenceSet)
  BY DEF RInv, StreamType, DecoderType
<1>2. /\ StreamType' /\ StreamInv' /\ DecoderInv' /\ CapacityInv'
      /\ \A b : StreamStart(b)' = StreamStart(b)
  BY <1>1, StreamSame
<1>3. /\ \A p, m, k : EqualRun(p, m, k)' = EqualRun(p, m, k)
      /\ \A sqs, b, s, q, t, pos, at : Open(sqs, b, s, q, t, pos, at)' = Open(sqs, b, s, q, t, pos, at)
  BY SamePage
<1>4. \A k : LiteralSize(k)' = LiteralSize(k)
  BY DEF LiteralSize, Extra
<1>5. EncoderInv'
  BY <1>2, <1>3, <1>4 DEF RInv, EncoderInv
<1> QED BY <1>2, <1>5 DEF RInv

(* The invariant holds initially.                                          *)
LEMMA RoundTripInit ==
  ASSUME Init PROVE RInv
<1>1. /\ enc.pc = "idle" /\ enc.blk = 0 /\ enc.sqs = <<>> /\ stream = <<>> /\ dec = Decoder("idle")
  BY DEF Init, Encoder
<1>2. StreamType
  BY <1>1 DEF StreamType, Decoder, DecoderType
<1>3. StreamInv /\ EncoderInv /\ DecoderInv
  BY <1>1 DEF StreamInv, EncoderInv, DecoderInv, Decoder, DecoderType
<1>4. CapacityInv
  <2>1. BlockSz \in Nat
    BY InitInv, SizesAreNaturals DEF IInv
  <2> QED BY <1>1, <2>1 DEF CapacityInv, CapacityDecides, DecoderStaysInBlock, Decoder, DecoderType
<1> QED BY <1>2, <1>3, <1>4 DEF RInv

(* Every step keeps the invariant.                                         *)
LEMMA RoundTripNext ==
  ASSUME IInv, IInv', RInv, [Next]_vars PROVE RInv'
<1>1. CASE Generate
  BY <1>1, GenerateTiles
<1>2. CASE \E b \in 0..(NumBlocks - 1) :
               \E v \in {w \in Values : Len(w) = BlockSz}, thres \in Budgets :
                  Recompress(b, v, thres)
  BY <1>2, RecompressTiles
<1>3. CASE BeginBlock
  BY <1>3, BeginBlockTiles
<1>4. CASE Probe
  BY <1>4, ProbeTiles
<1>5. CASE EncodeMatch
  BY <1>5, EncodeMatchTiles
<1>6. CASE EncodeLastLiterals
  BY <1>6, EncodeLastLiteralsTiles
<1>7. CASE DecodeSequence
  BY <1>7, DecodeSequenceTiles
<1>8. CASE UNCHANGED vars
  BY <1>8, StutterTiles DEF vars
<1> QED BY <1>1, <1>2, <1>3, <1>4, <1>5, <1>6, <1>7, <1>8 DEF Next

(* In every reachable state the finished blocks of the stream, and the     *)
(* block at hand, are tiled by their sequences, and what is decoded so far *)
(* is the page so far (the loops of LZ4_compress_generic and               *)
(* LZ4_decompress_generic).                                                *)
THEOREM Tiled == Spec => []RInv
<1>1. Init => RInv
  BY RoundTripInit
<1>2. IInv /\ IInv' /\ RInv /\ [Next]_vars => RInv'
  BY RoundTripNext
<1> QED BY <1>1, <1>2, Inductive, PTL DEF Spec

-----------------------------------------------------------------------------
(* Whatever a page's stream was made of, in one go or in parts behind      *)
(* dictionaries, decoding it to the end gives the page (zapi.c and         *)
(* zapi_prc.c rest on this for every page they keep).                      *)
THEOREM RoundTrip == Spec => []ReadsBack
<1>1. RInv => ReadsBack
  BY DEF RInv, DecoderInv, ReadsBack
<1> QED BY <1>1, Tiled, PTL

(* LZ4_decompress_safe_continue_unkown_size finds the end of every block   *)
(* if a block has at most the bytes the caller hard-codes, and of no block *)
(* otherwise.                                                              *)
THEOREM CapacityKept == Spec => []CapacityDecides
<1>1. RInv => CapacityDecides
  BY DEF RInv, CapacityInv
<1> QED BY <1>1, Tiled, PTL

(* The decoder's copies of whole words write nothing behind the block, for *)
(* any stream the compressor makes (LZ4_wildCopy8 and the shortcut).       *)
THEOREM DecoderKept == Spec => []DecoderStaysInBlock
<1>1. RInv => DecoderStaysInBlock
  BY DEF RInv, CapacityInv
<1> QED BY <1>1, Tiled, PTL

-----------------------------------------------------------------------------
(* Types *)

(* What the invariants say of the fields a search or a match has set.      *)
FreshFields ==
    /\ enc.pc \in {"search", "match"} => enc.ip <= PageBytes
    /\ enc.pc \in {"search", "match", "last"} =>
           /\ enc.anchor <= PageBytes
           /\ \A k \in DOMAIN enc.sqs : SequenceType(enc.sqs[k])
    /\ enc.pc = "search" => enc.step >= 1

(* And of those fields at any time: outside they are what they were.       *)
FieldsInv ==
    /\ edits \in 0..MaxEdits
    /\ enc.ip <= PageBytes /\ enc.anchor <= PageBytes /\ enc.step >= 1
    /\ \A k \in DOMAIN enc.sqs : SequenceType(enc.sqs[k])

(* A match's offset fits its bytes, and a block's last sequence has none.  *)
LEMMA PieceTypes ==
  ASSUME NEW sq \in SequenceSet, NEW b, NEW p \in Nat, NEW q, NEW s, NEW t,
         MatchPiece(sq, b, p, q, s, t) \/ LastPiece(sq, b, p, s, t)
  PROVE  SequenceType(sq)
<1>1. Len(sq.lits) \in Nat /\ sq.off \in Int /\ sq.len \in Nat /\ DistanceMax \in Nat
  <2>1. DistanceMax \in Nat
    BY Lz4Assumption DEF DistanceMax
  <2> QED BY <2>1 DEF SequenceSet
<1>2. CASE MatchPiece(sq, b, p, q, s, t)
  <2>1. sq.off \in 1..(p + Len(sq.lits)) /\ sq.off <= DistanceMax /\ sq.len >= 4
    BY <1>2 DEF MatchPiece
  <2> QED BY <1>1, <2>1 DEF SequenceType, MinMatch
<1>3. CASE LastPiece(sq, b, p, s, t)
  BY <1>1, <1>3 DEF LastPiece, SequenceType
<1> QED BY <1>2, <1>3

(* The sequences of an unfinished block.                                   *)
LEMMA OpenTypes ==
  ASSUME NEW sqs \in Seq(SequenceSet), NEW b, NEW s, NEW q, NEW t, NEW pos, NEW at,
         Open(sqs, b, s, q, t, pos, at)
  PROVE  \A k \in DOMAIN sqs : SequenceType(sqs[k])
<1> SUFFICES ASSUME NEW k \in DOMAIN sqs PROVE SequenceType(sqs[k])
  OBVIOUS
<1>1. k \in 1..Len(sqs) /\ sqs[k] \in SequenceSet
  OBVIOUS
<1>2. pos[k] \in Nat
  BY <1>1 DEF Open
<1>3. MatchPiece(sqs[k], b, pos[k], pos[k + 1], at[k], at[k + 1])
  BY <1>1 DEF Open
<1> QED BY <1>1, <1>2, <1>3, PieceTypes

(* The sequences of a finished block.                                      *)
LEMMA ClosedTypes ==
  ASSUME NEW sqs \in Seq(SequenceSet), NEW b, NEW s, NEW e, NEW pos, NEW at,
         Closed(sqs, b, s, e, pos, at)
  PROVE  \A k \in DOMAIN sqs : SequenceType(sqs[k])
<1> SUFFICES ASSUME NEW k \in DOMAIN sqs PROVE SequenceType(sqs[k])
  OBVIOUS
<1>1. k \in 1..Len(sqs) /\ sqs[k] \in SequenceSet
  OBVIOUS
<1>2. pos[k] \in Nat
  BY <1>1 DEF Closed
<1>3. CASE k = Len(sqs)
  <2>1. LastPiece(sqs[k], b, pos[k], at[k], e)
    BY <1>3 DEF Closed
  <2> QED BY <1>1, <1>2, <2>1, PieceTypes
<1>4. CASE k # Len(sqs)
  <2>1. k \in 1..(Len(sqs) - 1)
    BY <1>1, <1>4
  <2>2. MatchPiece(sqs[k], b, pos[k], pos[k + 1], at[k], at[k + 1])
    BY <2>1 DEF Closed
  <2> QED BY <1>1, <1>2, <2>2, PieceTypes
<1> QED BY <1>3, <1>4

(* The invariants bound what a search or a match has set.                  *)
LEMMA FreshIsBounded ==
  ASSUME IInv, RInv PROVE FreshFields
<1>1. PageInv /\ TypeInv /\ BlockInv /\ AtSearch /\ AtMatch /\ AtLast /\ EncoderType(enc)
  BY DEF IInv, TypeInv
<1>2. enc.ip \in Nat /\ enc.anchor \in Nat /\ enc.step \in Nat
  BY <1>1 DEF EncoderType
<1>3. ASSUME enc.pc \in {"search", "match", "last"}
      PROVE  /\ enc.pc # "last" => enc.ip <= PageBytes
             /\ enc.anchor <= PageBytes
             /\ \A k \in DOMAIN enc.sqs : SequenceType(enc.sqs[k])
  <2>1. /\ Source \in Nat /\ BlockSz \in Nat /\ IEnd = Source + BlockSz
        /\ PageBytes \in Nat /\ IEnd <= PageBytes
        /\ MFLimitPlusOne = IEnd - 11 /\ MatchLimit = IEnd - 5
    BY <1>1, <1>3, LongBlock
  <2>2. CASE enc.pc = "search"
    <3>1. enc.ip <= MFLimitPlusOne /\ enc.anchor <= enc.ip
      BY <1>1, <2>2 DEF AtSearch
    <3> QED BY <1>2, <2>1, <3>1, OpenTypes, <2>2 DEF RInv, EncoderInv, StreamType
  <2>3. CASE enc.pc = "match"
    <3>1. enc.ip < MFLimitPlusOne /\ enc.anchor \in Source..enc.ip
      BY <1>1, <2>3 DEF AtMatch
    <3> QED BY <1>2, <2>1, <3>1, OpenTypes, <2>3 DEF RInv, EncoderInv, StreamType
  <2>4. CASE enc.pc = "last"
    <3>1. enc.anchor \in Source..IEnd
      BY <1>1, <2>4 DEF AtLast
    <3> QED BY <1>2, <2>1, <3>1, OpenTypes, <2>4 DEF RInv, EncoderInv, StreamType
  <2> QED BY <1>3, <2>2, <2>3, <2>4
<1>4. enc.pc = "search" => enc.step >= 1
  BY <1>1 DEF AtSearch
<1> QED BY <1>3, <1>4 DEF FreshFields

(* A step of the compressor changes the fields only as far as it says.     *)
KeepsFields(e, f) ==
    /\ f.pc \notin {"search", "match"} => f.ip = e.ip
    /\ f.pc \notin {"search", "match", "last"} => f.anchor = e.anchor /\ f.sqs = e.sqs
    /\ f.pc # "search" => f.step = e.step

(* The start of a page or of its tail sets the fields anew.                *)
LEMMA StartKeepsFields ==
  ASSUME IInv, FieldsInv,
         Generate \/ \E b \in 0..(NumBlocks - 1) :
                        \E v \in {w \in Values : Len(w) = BlockSz}, thres \in Budgets :
                           Recompress(b, v, thres)
  PROVE  FieldsInv'
<1>1. /\ edits' \in 0..MaxEdits /\ PageBytes' = PageBytes
      /\ \E b, op : enc' = Encoder("block", b, op)
  <2>1. CASE Generate
    BY <2>1 DEF Generate, FieldsInv, PageBytes, BlockSz, NumBlocks
  <2>2. ASSUME NEW b \in 0..(NumBlocks - 1), NEW v \in {w \in Values : Len(w) = BlockSz},
               NEW thres \in Budgets, Recompress(b, v, thres)
        PROVE  /\ edits' \in 0..MaxEdits /\ PageBytes' = PageBytes
               /\ \E c, op : enc' = Encoder("block", c, op)
    <3>1. edits' \in 0..MaxEdits
      BY <2>2, Lz4Assumption DEF Recompress, FieldsInv
    <3>2. PageBytes' = PageBytes
      <4>1. page \in Seq(Seq(Nat)) /\ NumBlocks \in Nat \ {0} /\ NumBlocks = Len(page)
        BY SizesAreNaturals DEF IInv, PageInv, NumBlocks
      <4>2. page' = [page EXCEPT ![b + 1] = v] /\ Len(v) = Len(page[1])
        BY <2>2 DEF Recompress, BlockSz
      <4>3. Len(page') = Len(page) /\ Len(page'[1]) = Len(page[1])
        BY <4>1, <4>2
      <4> QED BY <4>3 DEF PageBytes, BlockSz, NumBlocks
    <3> QED BY <2>2, <3>1, <3>2 DEF Recompress
  <2> QED BY <2>1, <2>2
<1>2. enc'.ip = 0 /\ enc'.anchor = 0 /\ enc'.step = 1 /\ enc'.sqs = <<>>
  BY <1>1 DEF Encoder
<1>3. PageBytes \in Nat
  BY SizesAreNaturals DEF IInv
<1> QED BY <1>1, <1>2, <1>3 DEF FieldsInv

(* The fields behind the search for a match and its encoding.              *)
LEMMA SearchKeepsFields ==
  ASSUME IInv, BeginBlock \/ Probe PROVE KeepsFields(enc, enc')
<1>1. EncoderType(enc) /\ enc.pc \in Phases
  BY DEF IInv, TypeInv, EncoderType
<1>2. CASE BeginBlock
  <2>1. \/ enc' = [[enc EXCEPT !.anchor = Source, !.sqs = <<>>] EXCEPT !.pc = "last"]
        \/ enc' = SearchFrom([enc EXCEPT !.anchor = Source, !.sqs = <<>>], Source + 1)
    BY <1>2 DEF BeginBlock
  <2> QED BY <1>1, <2>1 DEF EncoderType, SearchFrom, KeepsFields
<1>3. CASE Probe
  <2>1. \/ enc' = [enc EXCEPT !.pc = "last"]
        \/ \E q, m : EncodeLiterals(q, m)
        \/ \E q, s : enc' = [enc EXCEPT !.ip = q, !.step = s, !.nb = @ + 1]
    BY <1>3 DEF Probe
  <2>2. CASE enc' = [enc EXCEPT !.pc = "last"]
    BY <1>1, <2>2 DEF EncoderType, KeepsFields
  <2>3. ASSUME NEW q, NEW m, EncodeLiterals(q, m) PROVE KeepsFields(enc, enc')
    <3>1. \/ \E op, r : enc' = [enc EXCEPT !.pc = "match", !.ip = q, !.match = m, !.op = op, !.reach = r]
          \/ enc' = [enc EXCEPT !.pc = "refused"]
      BY <2>3 DEF EncodeLiterals
    <3> QED BY <1>1, <3>1 DEF EncoderType, KeepsFields
  <2>4. ASSUME NEW q, NEW s, enc' = [enc EXCEPT !.ip = q, !.step = s, !.nb = @ + 1]
        PROVE  KeepsFields(enc, enc')
    <3>1. enc.pc = "search"
      BY <1>3 DEF Probe
    <3> QED BY <1>1, <2>4, <3>1 DEF EncoderType, KeepsFields
  <2> QED BY <2>1, <2>2, <2>3, <2>4
<1> QED BY <1>2, <1>3

(* The same for a match, and for the literals that end a block.            *)
LEMMA EncodingKeepsFields ==
  ASSUME IInv, EncodeMatch \/ EncodeLastLiterals PROVE KeepsFields(enc, enc')
<1>1. EncoderType(enc)
  BY DEF IInv, TypeInv
<1>2. ASSUME NEW r, enc' = [enc EXCEPT !.pc = "refused", !.reach = r] PROVE KeepsFields(enc, enc')
  BY <1>1, <1>2 DEF EncoderType, KeepsFields
<1>3. CASE EncodeMatch
  <2> DEFINE len == MatchLength(enc.ip, enc.match)
             sq == Sequence(Bytes(enc.anchor, enc.ip - enc.anchor), enc.ip - enc.match, len)
             e == BehindMatch(len, enc.ip + len, sq)
  <2>1. CASE ~MatchFits(len)
    <3>1. \E r : enc' = [enc EXCEPT !.pc = "refused", !.reach = r]
      BY <1>3, <2>1 DEF EncodeMatch, Refuse
    <3> QED BY <1>2, <3>1
  <2>2. CASE MatchFits(len)
    <3>1. enc.pc = "match" /\ TestNextPosition(e, enc.ip + len)
      BY <1>3, <2>2 DEF EncodeMatch, BehindMatch
    <3>2. /\ e.pc = enc.pc /\ e.ip = enc.ip /\ e.step = enc.step
          /\ \E s : e \in [pc : Phases, blk : Nat, ip : Nat, step : Nat, nb : Nat, anchor : {e.anchor},
                          match : Int, head : Nat, op : {e.op}, reach : {e.reach}, sqs : {s}]
      BY <1>1 DEF EncoderType, BehindMatch
    <3> DEFINE p == enc.ip + len
               index == Put(table, p - 2)[HashPosition(p)]
    <3>3. \/ enc' = [e EXCEPT !.pc = "last"]
          \/ enc' = [e EXCEPT !.ip = p, !.match = Position(index), !.op = e.op + 1]
          \/ enc' = SearchFrom(e, p + 1)
      <4> HIDE DEF e, len
      <4> QED BY <3>1 DEF TestNextPosition
    <3> HIDE DEF e, p, index
    <3>4. CASE enc' = [e EXCEPT !.pc = "last"]
      <4>1. enc'.pc = "last" /\ enc'.ip = e.ip /\ enc'.step = e.step
        BY <3>2, <3>4
      <4> QED BY <3>2, <4>1 DEF KeepsFields
    <3>5. ASSUME NEW q, NEW m, NEW op, enc' = [e EXCEPT !.ip = q, !.match = m, !.op = op]
          PROVE  KeepsFields(enc, enc')
      <4>1. enc'.pc = "match" /\ enc'.step = e.step
        BY <3>1, <3>2, <3>5
      <4> QED BY <3>2, <4>1 DEF KeepsFields
    <3>6. ASSUME NEW q, enc' = SearchFrom(e, q) PROVE KeepsFields(enc, enc')
      <4>1. enc'.pc = "search"
        BY <3>2, <3>6 DEF SearchFrom
      <4> QED BY <4>1 DEF KeepsFields
    <3> QED BY <3>3, <3>4, <3>5, <3>6
  <2> QED BY <2>1, <2>2
<1>4. CASE EncodeLastLiterals
  <2> DEFINE n == IEnd - enc.anchor
             pc == IF enc.blk + 1 < NumBlocks THEN "block" ELSE "idle"
  <2>1. CASE ~LastFit(n)
    <3>1. \E r : enc' = [enc EXCEPT !.pc = "refused", !.reach = r]
      BY <1>4, <2>1 DEF EncodeLastLiterals, Refuse
    <3> QED BY <1>2, <3>1
  <2>2. CASE LastFit(n)
    <3>1. enc' = [enc EXCEPT !.pc = pc, !.blk = @ + 1, !.op = @ + LiteralSize(n),
                             !.reach = Max({@, enc.op + LiteralSize(n)})]
      BY <1>4, <2>2 DEF EncodeLastLiterals
    <3>2. pc \in {"block", "idle"}
      OBVIOUS
    <3> HIDE DEF n, pc
    <3>3. /\ enc'.pc = pc /\ enc'.ip = enc.ip /\ enc'.step = enc.step /\ enc'.anchor = enc.anchor
          /\ enc'.sqs = enc.sqs
      BY <1>1, <3>1 DEF EncoderType
    <3> QED BY <3>3 DEF KeepsFields
  <2> QED BY <2>1, <2>2
<1> QED BY <1>3, <1>4

(* Every step keeps the fields in their bounds.                            *)
LEMMA FieldsNext ==
  ASSUME IInv, FieldsInv, FreshFields', [Next]_vars PROVE FieldsInv'
<1>1. CASE Generate \/ \E b \in 0..(NumBlocks - 1) :
                          \E v \in {w \in Values : Len(w) = BlockSz}, thres \in Budgets :
                             Recompress(b, v, thres)
  BY <1>1, StartKeepsFields
<1>2. CASE BeginBlock \/ Probe \/ EncodeMatch \/ EncodeLastLiterals \/ DecodeSequence \/ UNCHANGED vars
  <2>1. edits' = edits /\ page' = page
    BY <1>2 DEF BeginBlock, Probe, EncodeMatch, EncodeLastLiterals, DecodeSequence, vars
  <2>2. KeepsFields(enc, enc')
    <3>1. CASE DecodeSequence \/ UNCHANGED vars
      BY <3>1 DEF DecodeSequence, vars, KeepsFields
    <3> QED BY <1>2, <3>1, SearchKeepsFields, EncodingKeepsFields
  <2>3. PageBytes' = PageBytes
    BY <2>1 DEF PageBytes, BlockSz, NumBlocks
  <2>4. enc'.ip <= PageBytes' /\ enc'.anchor <= PageBytes' /\ enc'.step >= 1
    BY <2>2, <2>3 DEF KeepsFields, FieldsInv, FreshFields
  <2>5. \A k \in DOMAIN enc'.sqs : SequenceType(enc'.sqs[k])
    BY <2>2 DEF KeepsFields, FieldsInv, FreshFields
  <2> QED BY <2>1, <2>4, <2>5 DEF FieldsInv
<1> QED BY <1>1, <1>2 DEF Next

(* The fields are in their bounds initially.                               *)
LEMMA FieldsInit ==
  ASSUME Init PROVE FieldsInv
<1>1. edits = 0 /\ enc.ip = 0 /\ enc.anchor = 0 /\ enc.step = 1 /\ enc.sqs = <<>>
  BY DEF Init, Encoder
<1>2. PageBytes \in Nat
  BY InitInv, SizesAreNaturals DEF IInv
<1> QED BY <1>1, <1>2, Lz4Assumption DEF FieldsInv

(* The invariants make the types.                                          *)
LEMMA TypesFollow ==
  ASSUME IInv, RInv, FieldsInv PROVE TypeOK
<1>1. PageInv /\ TypeInv /\ EncoderType(enc)
  BY DEF IInv, TypeInv
<1>2. PageBytes \in Nat
  BY <1>1, SizesAreNaturals
<1>3. /\ enc.pc \in Phases /\ enc.ip \in Nat /\ enc.anchor \in Nat /\ enc.step \in Nat
  BY <1>1 DEF EncoderType
<1>4. /\ stream \in Seq(Seq(SequenceSet)) /\ Len(stream) = enc.blk /\ enc.sqs \in Seq(SequenceSet)
      /\ DecoderType(dec)
  BY DEF RInv, StreamType
<1>5. \A sqs \in Range(Append(stream, enc.sqs)) : \A sq \in Range(sqs) : SequenceType(sq)
  <2> DEFINE all == Append(stream, enc.sqs)
  <2>1. ASSUME NEW i \in DOMAIN all PROVE \A k \in DOMAIN all[i] : SequenceType(all[i][k])
    <3>1. CASE i = Len(stream) + 1
      <4>1. all[i] = enc.sqs
        BY <1>4, <3>1
      <4> HIDE DEF all
      <4> QED BY <4>1 DEF FieldsInv
    <3>2. CASE i # Len(stream) + 1
      <4>1. i \in 1..Len(stream) /\ all[i] = stream[i]
        BY <1>4, <3>2
      <4>2. PICK b \in 0..(enc.blk - 1) : b + 1 = i
        <5>1. i - 1 \in 0..(enc.blk - 1) /\ (i - 1) + 1 = i
          BY <1>4, <4>1
        <5> QED BY <5>1
      <4>3. ClosedBlock(b)
        BY <4>2 DEF RInv, StreamInv
      <4>4. PICK pos, at : Closed(stream[i], b, StreamStart(b), ends[i], pos, at)
        BY <4>2, <4>3 DEF ClosedBlock
      <4>5. stream[i] \in Seq(SequenceSet)
        BY <1>4, <4>1
      <4> HIDE DEF all
      <4> QED BY <4>1, <4>4, <4>5, ClosedTypes
    <3> QED BY <3>1, <3>2
  <2> HIDE DEF all
  <2>2. \A sqs \in Range(all) : \A sq \in Range(sqs) : SequenceType(sq)
    BY <2>1 DEF Range
  <2> QED BY <2>2 DEF all
<1>6. dec.pc \in {"idle", "run", "end", "lost"}
  BY <1>4 DEF DecoderType
<1>7. table \in [0..(HashSize - 1) -> Nat]
  BY <1>1 DEF TypeInv
<1>8. enc.ip \in 0..PageBytes /\ enc.anchor \in 0..PageBytes /\ enc.step \in Nat \ {0}
  BY <1>2, <1>3 DEF FieldsInv
<1> QED BY <1>3, <1>5, <1>6, <1>7, <1>8 DEF TypeOK, FieldsInv, Phases

(* Every offset fits its two bytes, and the search moves on with each      *)
(* step: the encoder and the stream have their types, also with a refused  *)
(* page and across recompressions (LZ4_compress_generic_validated).        *)
THEOREM TypeCorrect == Spec => []TypeOK
<1>1. IInv /\ RInv => FreshFields
  BY FreshIsBounded
<1>2. Init => FieldsInv
  BY FieldsInit
<1>3. IInv /\ FieldsInv /\ FreshFields' /\ [Next]_vars => FieldsInv'
  BY FieldsNext
<1>4. IInv /\ RInv /\ FieldsInv => TypeOK
  BY TypesFollow
<1> QED BY <1>1, <1>2, <1>3, <1>4, Inductive, Tiled, PTL DEF Spec
=============================================================================
