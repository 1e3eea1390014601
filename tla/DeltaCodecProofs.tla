-------------------------- MODULE DeltaCodecProofs --------------------------
(***************************************************************************)
(* Proofs about DeltaCodec: the types for blocks of any length; for blocks *)
(* of at most 256 bytes and every limit that what delta_packed writes      *)
(* tiles the block, that its answer is right to the byte, and that         *)
(* decode_packed brings the block back up to the first place where it can  *)
(* go astray. (codec_long shows that longer blocks are not encoded right.) *)
(***************************************************************************)
EXTENDS DeltaCodec, Iteration, SequenceTheorems

(* All that is used of the range of a byte.                                *)
LEMMA ByteFacts ==
  /\ 0 \in Bytes
  /\ \A b \in Bytes : b \in Nat
  /\ \A n \in Nat : n < MaxRun => n \in Bytes
  /\ MaxRun \in Nat
BY DEF Bytes, MaxByte, MaxRun

(* Every kind of token has a width.                                        *)
LEMMA WidthType == \A kind \in 0..3 : Width(kind) \in Nat
BY DEF Width

(* What the encoder makes of a kind, two bytes and two places is a token.  *)
LEMMA TokenIsToken ==
  ASSUME NEW kind \in 0..3, NEW len \in Bytes, NEW val \in Bytes,
         NEW at \in Nat, NEW bit \in Nat
  PROVE  Token(kind, len, val, at, bit) \in TokenType
BY DEF Token, TokenType

(* What pack_delta writes for a run: tokens from `at' to `at + length',    *)
(* side by side, all of the run's byte.                                    *)
IsRun(q, length, delta, at, bit) ==
    /\ q \in Seq(TokenType) /\ Len(q) >= 1
    /\ q[1].at = at /\ q[1].bit = bit
    /\ q[Len(q)].at + q[Len(q)].len = at + length
    /\ \A n \in 1..Len(q) :
          /\ q[n].val = delta
          /\ at <= q[n].at /\ q[n].at + q[n].len <= at + length
          /\ n # 1 => /\ q[n].at = q[n - 1].at + q[n - 1].len + 1
                      /\ q[n].bit = q[n - 1].bit + Width(q[n - 1].kind)

(* pack_delta writes the run it is given, as tokens side by side.          *)
LEMMA PackDeltaFacts ==
  ASSUME NEW length \in Bytes, NEW delta \in Bytes, NEW at \in Nat, NEW bit \in Nat,
         NEW q, q = PackDelta(length, delta, at, bit)
  PROVE  IsRun(q, length, delta, at, bit)
<1>0. length \in Nat /\ 0 \in Bytes
  BY ByteFacts
<1>1. CASE delta = 0 /\ length < 7
  <2> DEFINE tok(n) == Token(0, 0, 0, at + n - 1, bit + 2 * (n - 1))
  <2>1. q = [n \in 1..(length + 1) |-> tok(n)]
    BY <1>1 DEF PackDelta
  <2>2. \A n \in 1..(length + 1) : tok(n) \in TokenType
    <3> TAKE n \in 1..(length + 1)
    <3>1. at + n - 1 \in Nat /\ bit + 2 * (n - 1) \in Nat
      BY <1>0
    <3> QED BY <1>0, <3>1, TokenIsToken
  <2>3. q \in Seq(TokenType) /\ Len(q) = length + 1
    BY <1>0, <2>1, <2>2
  <2>4. \A n \in 1..(length + 1) :
          /\ q[n].at = at + n - 1 /\ q[n].len = 0 /\ q[n].val = 0
          /\ q[n].bit = bit + 2 * (n - 1) /\ q[n].kind = 0
    BY <2>1 DEF Token
  <2>5. Width(0) = 2
    BY DEF Width
  <2>6. \A n \in 1..(length + 1) : n # 1 => n - 1 \in 1..(length + 1)
    BY <1>0
  <2> HIDE DEF tok
  <2>7. ASSUME NEW n \in 1..Len(q)
        PROVE  /\ q[n].val = delta
               /\ at <= q[n].at /\ q[n].at + q[n].len <= at + length
    BY <1>0, <1>1, <2>3, <2>4, SMTT(30)
  <2>8. ASSUME NEW n \in 1..Len(q), n # 1
        PROVE  /\ q[n].at = q[n - 1].at + q[n - 1].len + 1
               /\ q[n].bit = q[n - 1].bit + Width(q[n - 1].kind)
    <3>1. n - 1 \in 1..(length + 1) /\ n \in 1..(length + 1)
      BY <2>3, <2>6, <2>8
    <3>2. /\ q[n].at = at + n - 1 /\ q[n].bit = bit + 2 * (n - 1)
          /\ q[n - 1].at = at + (n - 1) - 1 /\ q[n - 1].bit = bit + 2 * ((n - 1) - 1)
          /\ q[n - 1].len = 0 /\ q[n - 1].kind = 0
      BY <2>4, <3>1
    <3>3. Width(q[n - 1].kind) = 2
      BY <2>5, <3>2
    <3>4. n \in Int
      BY <1>0, <3>1
    <3>5. q[n].bit = q[n - 1].bit + 2 /\ q[n].at = q[n - 1].at + q[n - 1].len + 1
      BY <3>2, <3>4
    <3> QED BY <3>3, <3>5
  <2>9. q[1].at = at /\ q[1].bit = bit /\ q[Len(q)].at + q[Len(q)].len = at + length
    BY <1>0, <2>3, <2>4
  <2> QED BY <1>0, <2>3, <2>7, <2>8, <2>9 DEF IsRun
<1>2. CASE ~(delta = 0 /\ length < 7)
  <2> DEFINE kind == IF length = 0 THEN 1 ELSE IF length <= 15 THEN 2 ELSE 3
             tok == Token(kind, length, delta, at, bit)
  <2>1. q = <<tok>>
    BY <1>2 DEF PackDelta
  <2>2. tok \in TokenType /\ tok.at = at /\ tok.bit = bit /\ tok.len = length /\ tok.val = delta
    <3>1. kind \in 0..3
      OBVIOUS
    <3> HIDE DEF kind
    <3> QED BY <3>1, TokenIsToken DEF Token
  <2> HIDE DEF tok
  <2>3. q \in Seq(TokenType) /\ Len(q) = 1 /\ q[1] = tok
    BY <2>1, <2>2
  <2> QED BY <1>0, <2>2, <2>3 DEF IsRun
<1> QED BY <1>1, <1>2

(* Where the tokens end is a place in the block and in the stream.         *)
LEMMA EndsType ==
  ASSUME NEW toks \in Seq(TokenType)
  PROVE  Covered(toks) \in Nat /\ EndBit(toks) \in Nat
<1>1. CASE toks = <<>>
  BY <1>1 DEF Covered, EndBit
<1>2. CASE toks # <<>>
  <2>1. toks[Len(toks)] \in TokenType
    BY <1>2
  <2>2. /\ toks[Len(toks)].at \in Nat /\ toks[Len(toks)].bit \in Nat
        /\ toks[Len(toks)].len \in Bytes /\ toks[Len(toks)].kind \in 0..3
    BY <2>1 DEF TokenType
  <2>3. toks[Len(toks)].len \in Nat /\ Width(toks[Len(toks)].kind) \in Nat
    BY <2>2, ByteFacts, WidthType
  <2> QED BY <1>2, <2>2, <2>3, SMTT(30) DEF Covered, EndBit
<1> QED BY <1>1, <1>2

(* Packing the bytes that follow the tokens keeps them a tiling.           *)
LEMMA PackAfterFacts ==
  ASSUME NEW toks \in Seq(TokenType), Tiles(toks), BlockSize \in Nat,
         NEW length \in Bytes, NEW delta \in Bytes,
         Covered(toks) + length < BlockSize,
         \A j \in Covered(toks)..(Covered(toks) + length) : xor[j + 1] = delta,
         NEW t, t = PackAfter(toks, length, delta)
  PROVE  /\ t \in Seq(TokenType) /\ Tiles(t)
         /\ Covered(t) = Covered(toks) + length + 1
<1> DEFINE at == Covered(toks)
           bit == EndBit(toks)
           q == PackDelta(length, delta, at, bit)
           m == Len(toks)
<1>0. at \in Nat /\ bit \in Nat /\ length \in Nat /\ m \in Nat
  BY EndsType, ByteFacts
<1>a. /\ at = Covered(toks) /\ bit = EndBit(toks)
      /\ q = PackDelta(length, delta, at, bit) /\ m = Len(toks)
  OBVIOUS
<1>c. m = 0 => toks = <<>>
  OBVIOUS
<1> HIDE DEF at, bit, q, m
<1> DEFINE c == Len(q)
<1>b. IsRun(q, length, delta, at, bit)
  BY <1>0, <1>a, PackDeltaFacts
<1>1. /\ q \in Seq(TokenType) /\ c = Len(q) /\ c >= 1
      /\ q[1].at = at /\ q[1].bit = bit
      /\ q[c].at + q[c].len = at + length
      /\ \A n \in 1..c :
            /\ q[n].val = delta
            /\ at <= q[n].at /\ q[n].at + q[n].len <= at + length
            /\ n # 1 => /\ q[n].at = q[n - 1].at + q[n - 1].len + 1
                        /\ q[n].bit = q[n - 1].bit + Width(q[n - 1].kind)
  BY <1>b DEF IsRun
<1>2. c \in Nat /\ c >= 1 /\ \A n \in 1..c : q[n] \in TokenType
  BY <1>1
<1>3. \A n \in 1..c : q[n].at \in Nat /\ q[n].len \in Nat
  BY <1>2, ByteFacts DEF TokenType
<1>4. t = toks \o q
  BY <1>a DEF PackAfter
<1>5. /\ t \in Seq(TokenType) /\ Len(t) = m + c
      /\ \A n \in 1..m : t[n] = toks[n]
      /\ \A n \in 1..c : t[m + n] = q[n]
  BY <1>1, <1>4, <1>a, SMTT(30)
<1> HIDE DEF c
<1>6. Covered(t) = at + length + 1
  <2>1. t # <<>> /\ t[Len(t)] = q[c]
    BY <1>0, <1>2, <1>5
  <2> QED BY <1>1, <2>1 DEF Covered
<1>7. ASSUME NEW n \in DOMAIN t
      PROVE  /\ t[n].at = (IF n = 1 THEN 0 ELSE t[n - 1].at + t[n - 1].len + 1)
             /\ t[n].bit = (IF n = 1 THEN 0 ELSE t[n - 1].bit + Width(t[n - 1].kind))
             /\ \A j \in t[n].at..(t[n].at + t[n].len) :
                   j < BlockSize /\ xor[j + 1] = t[n].val
  <2>0. n \in 1..(m + c)
    BY <1>5
  <2>1. CASE n <= m
    <3>1. n \in DOMAIN toks /\ t[n] = toks[n]
      BY <1>0, <1>5, <1>a, <2>0, <2>1
    <3>2. n # 1 => t[n - 1] = toks[n - 1]
      <4>1. n # 1 => n - 1 \in 1..m
        BY <1>0, <1>2, <2>0, <2>1
      <4> QED BY <1>5, <4>1
    <3> QED BY <3>1, <3>2 DEF Tiles
  <2>2. CASE n > m
    <3>r. PICK r \in Int : r = n - m
      BY <1>0, <2>0, <1>2
    <3>1. r \in 1..c /\ t[n] = q[r]
      <4>1. r \in 1..c /\ n = m + r
        BY <1>0, <1>2, <2>0, <2>2, <3>r
      <4> QED BY <1>5, <4>1
    <3>2. \A j \in t[n].at..(t[n].at + t[n].len) :
             j < BlockSize /\ xor[j + 1] = t[n].val
      <4> TAKE j \in t[n].at..(t[n].at + t[n].len)
      <4>1. /\ t[n].at \in Nat /\ t[n].len \in Nat /\ t[n].val = delta
            /\ at <= t[n].at /\ t[n].at + t[n].len <= at + length
        BY <1>1, <1>3, <3>1
      <4>2. j \in at..(at + length)
        BY <1>0, <4>1
      <4>3. j \in Covered(toks)..(Covered(toks) + length) /\ j <= at + length
        BY <1>0, <1>a, <4>2
      <4>4. xor[j + 1] = delta
        BY <4>3
      <4>5. j < BlockSize
        BY <1>0, <1>a, <4>2
      <4> QED BY <4>1, <4>4, <4>5
    <3>3. CASE r = 1
      <4>0. n = m + 1
        BY <1>0, <1>2, <2>0, <3>r, <3>3
      <4>1. n = m + 1 /\ t[n].at = at /\ t[n].bit = bit
        BY <1>1, <3>1, <3>3, <4>0
      <4>2. CASE m = 0
        <5>1. toks = <<>>
          BY <4>2, <1>c
        <5>2. n = 1 /\ at = 0 /\ bit = 0
          BY <1>a, <4>1, <4>2, <5>1 DEF Covered, EndBit
        <5> QED BY <3>2, <4>1, <5>2
      <4>3. CASE m # 0
        <5>0. n # 1 /\ n - 1 = m /\ m \in 1..m
          BY <1>0, <4>1, <4>3
        <5>1. n # 1 /\ n - 1 = m /\ t[n - 1] = toks[m] /\ toks # <<>>
          BY <1>5, <1>a, <4>3, <5>0
        <5>2. at = toks[m].at + toks[m].len + 1 /\ bit = toks[m].bit + Width(toks[m].kind)
          BY <1>a, <5>1 DEF Covered, EndBit
        <5> QED BY <3>2, <4>1, <5>1, <5>2
      <4> QED BY <4>2, <4>3
    <3>4. CASE r # 1
      <4>1. r - 1 \in 1..c /\ n - 1 = m + (r - 1) /\ n # 1
        BY <1>0, <1>2, <2>0, <2>2, <3>r, <3>1, <3>4, SMTT(30)
      <4>2. t[n - 1] = q[r - 1]
        BY <1>5, <4>1
      <4>3. /\ q[r].at = q[r - 1].at + q[r - 1].len + 1
            /\ q[r].bit = q[r - 1].bit + Width(q[r - 1].kind)
        BY <1>1, <3>1, <3>4
      <4> QED BY <3>1, <3>2, <4>1, <4>2, <4>3
    <3> QED BY <3>3, <3>4
  <2> QED BY <1>0, <2>0, <2>1, <2>2
<1> QED BY <1>5, <1>6, <1>7, <1>a DEF Tiles

-----------------------------------------------------------------------------
(* delta_packed's loop.  A block of at most 256 bytes cannot fill a run    *)
(* before its last byte, so the loop never starts a run with a byte that   *)
(* is already packed: that is all the assumption is needed for.            *)
EncoderType ==
    /\ xor \in Inputs
    /\ pc \in {"encode", "decode", "returned"}
    /\ i \in 0..BlockSize /\ count \in Nat /\ last_d \in Bytes
    /\ tokens \in Seq(TokenType)

IInv == EncoderType /\ PrefixEncoded

ShortInputs == \A x \in Inputs : Len(x) <= MaxRun

(* A block has at least one byte.                                          *)
LEMMA InputFacts ==
  ASSUME xor \in Inputs
  PROVE  /\ BlockSize \in Nat /\ BlockSize >= 1
         /\ \A j \in 1..BlockSize : xor[j] \in Bytes
<1>1. xor \in Seq(Bytes) /\ xor # <<>>
  BY DeltaCodecAssumption
<1> QED BY <1>1 DEF BlockSize

(* Nothing is packed at the start.                                         *)
LEMMA InitIInv == Init => IInv
<1> SUFFICES ASSUME Init PROVE IInv
  OBVIOUS
<1>1. BlockSize \in Nat /\ BlockSize >= 1
  BY InputFacts DEF Init
<1>2. EncoderType
  BY <1>1, ByteFacts DEF Init, EncoderType
<1>3. Covered(tokens) = 0 /\ Tiles(tokens)
  BY DEF Init, Covered, Tiles
<1>4. pc = "encode" /\ i = 0 /\ count = 0
  BY DEF Init
<1>5. PrefixEncoded
  BY <1>1, <1>3, <1>4 DEF PrefixEncoded
<1> QED BY <1>2, <1>5 DEF IInv

(* The run that is packed: it reaches up to this byte, or with it.         *)
LEMMA FirstPacked ==
  ASSUME IInv, ShortInputs, pc = "encode", i < BlockSize,
         NEW delta, delta = xor[i + 1],
         NEW run, run = (IF delta = last_d THEN count + 1 ELSE count),
         NEW one, one = IF run > 0 THEN PackAfter(tokens, run - 1, last_d) ELSE tokens
  PROVE  /\ one \in Seq(TokenType) /\ Tiles(one)
         /\ Covered(one) = IF delta = last_d THEN i + 1 ELSE i
<1>1. /\ BlockSize \in Nat /\ i \in Nat /\ count \in Nat /\ last_d \in Bytes
      /\ tokens \in Seq(TokenType) /\ BlockSize <= MaxRun /\ MaxRun \in Nat
  BY InputFacts, ByteFacts DEF IInv, EncoderType, ShortInputs, BlockSize
<1>2. /\ Tiles(tokens) /\ Covered(tokens) + count = i
      /\ \A j \in (Covered(tokens) + 1)..i : xor[j] = last_d
  BY <1>1 DEF IInv, PrefixEncoded
<1>3. Covered(tokens) \in Nat
  BY <1>1, EndsType
<1>4. CASE run > 0
  <2> DEFINE length == run - 1
  <2>1. length \in Nat /\ length < MaxRun /\ Covered(tokens) + length < BlockSize
    BY <1>1, <1>2, <1>3, <1>4
  <2>2. length \in Bytes
    BY <2>1, ByteFacts
  <2>3. ASSUME NEW j \in Covered(tokens)..(Covered(tokens) + length)
        PROVE  xor[j + 1] = last_d
    <3>1. CASE j + 1 <= i
      <4>1. j + 1 \in (Covered(tokens) + 1)..i
        BY <1>1, <1>3, <2>1, <2>3, <3>1
      <4> QED BY <1>2, <4>1
    <3>2. CASE ~(j + 1 <= i)
      <4>1. delta = last_d /\ j = i
        BY <1>1, <1>2, <1>3, <2>1, <2>3, <3>2
      <4> QED BY <4>1
    <3> QED BY <3>1, <3>2
  <2>4. one = PackAfter(tokens, length, last_d)
    BY <1>4
  <2>5. Covered(tokens) + length + 1 = IF delta = last_d THEN i + 1 ELSE i
    BY <1>1, <1>2, <1>3
  <2> HIDE DEF length
  <2>6. /\ one \in Seq(TokenType) /\ Tiles(one)
        /\ Covered(one) = Covered(tokens) + length + 1
    BY <1>1, <1>2, <2>1, <2>2, <2>3, <2>4, PackAfterFacts
  <2> QED BY <2>5, <2>6
<1>5. CASE ~(run > 0)
  <2>1. one = tokens /\ count = 0 /\ delta # last_d
    BY <1>1, <1>5
  <2> QED BY <1>1, <1>2, <1>3, <2>1
<1> QED BY <1>4, <1>5

(* What is packed when the loop packs: everything read before this byte,   *)
(* and this byte too if it is the last.                                    *)
LEMMA AllPacked ==
  ASSUME IInv, ShortInputs, pc = "encode", i < BlockSize,
         NEW delta, delta = xor[i + 1],
         NEW run, run = (IF delta = last_d THEN count + 1 ELSE count),
         NEW one, one = IF run > 0 THEN PackAfter(tokens, run - 1, last_d) ELSE tokens,
         NEW two, two = IF i = BlockSize - 1 /\ delta # last_d
                        THEN PackAfter(one, 0, delta) ELSE one,
         delta # last_d \/ i = BlockSize - 1 \/ run = MaxRun
  PROVE  /\ two \in Seq(TokenType) /\ Tiles(two)
         /\ Covered(two) = IF i = BlockSize - 1 THEN BlockSize ELSE i
<1>1. /\ BlockSize \in Nat /\ i \in Nat /\ count \in Nat /\ BlockSize <= MaxRun
      /\ delta \in Bytes /\ tokens \in Seq(TokenType) /\ MaxRun \in Nat
  BY InputFacts, ByteFacts DEF IInv, EncoderType, ShortInputs, BlockSize
<1>2. /\ one \in Seq(TokenType) /\ Tiles(one)
      /\ Covered(one) = IF delta = last_d THEN i + 1 ELSE i
  BY FirstPacked
<1>3. CASE i = BlockSize - 1 /\ delta # last_d
  <2>1. two = PackAfter(one, 0, delta) /\ Covered(one) = i
    BY <1>2, <1>3
  <2>2. 0 \in Bytes /\ Covered(one) + 0 = i /\ i + 0 + 1 = BlockSize
    BY <1>1, <1>3, <2>1, ByteFacts
  <2>3. \A j \in Covered(one)..(Covered(one) + 0) : xor[j + 1] = delta
    BY <1>1, <2>1
  <2>4. two \in Seq(TokenType) /\ Tiles(two) /\ Covered(two) = Covered(one) + 0 + 1
    BY <1>1, <1>2, <2>1, <2>2, <2>3, PackAfterFacts
  <2> QED BY <1>3, <2>1, <2>2, <2>4
<1>4. CASE i = BlockSize - 1 /\ delta = last_d
  BY <1>1, <1>2, <1>4
<1>5. CASE i # BlockSize - 1
  <2>1. delta # last_d
    <3>1. Covered(tokens) + count = i /\ Covered(tokens) \in Nat
      BY <1>1, EndsType DEF IInv, PrefixEncoded
    <3> QED BY <1>1, <1>5, <3>1
  <2> QED BY <1>2, <1>5, <2>1
<1> QED BY <1>3, <1>4, <1>5

(* A round of delta_packed's loop keeps the tokens a tiling.               *)
LEMMA EncodeByteKeeps ==
  ASSUME IInv, ShortInputs, EncodeByte
  PROVE  IInv'
<1> DEFINE delta == xor[i + 1]
           run   == IF delta = last_d THEN count + 1 ELSE count
           final == i = BlockSize - 1
           one   == IF run > 0 THEN PackAfter(tokens, run - 1, last_d) ELSE tokens
           two   == IF final /\ delta # last_d THEN PackAfter(one, 0, delta) ELSE one
           emit  == delta # last_d \/ final \/ run = MaxRun
<1>1. pc = "encode" /\ i < BlockSize /\ xor' = xor /\ i' = i + 1
  BY DEF EncodeByte
<1>2. /\ BlockSize \in Nat /\ i \in Nat /\ count \in Nat /\ last_d \in Bytes
      /\ delta \in Bytes /\ tokens \in Seq(TokenType) /\ xor \in Inputs
  BY <1>1, InputFacts DEF IInv, EncoderType
<1>3. BlockSize' = BlockSize
  BY <1>1 DEF BlockSize
<1>4. /\ Tiles(tokens) /\ Covered(tokens) + count = i /\ Covered(tokens) \in Nat
      /\ \A j \in (Covered(tokens) + 1)..i : xor[j] = last_d
  BY <1>1, <1>2, EndsType DEF IInv, PrefixEncoded
<1>5. xor' \in Inputs /\ i' \in 0..BlockSize'
  BY <1>1, <1>2, <1>3
<1>6. CASE emit
  <2>1. /\ tokens' = two /\ count' = 1 /\ last_d' = delta
        /\ pc' \in {"encode", "returned"}
    BY <1>1, <1>6 DEF EncodeByte
  <2>2. /\ two \in Seq(TokenType) /\ Tiles(two)
        /\ Covered(two) = IF final THEN BlockSize ELSE i
    BY <1>1, <1>6, AllPacked
  <2> HIDE DEF two, one, emit, run
  <2>3. Tiles(tokens)'
    BY <1>1, <1>3, <2>1, <2>2 DEF Tiles
  <2>4. Covered(tokens)' = Covered(two)
    BY <2>1 DEF Covered
  <2>5. EncoderType'
    BY <1>2, <1>5, <2>1, <2>2 DEF EncoderType
  <2>6. ASSUME ~final, NEW j \in (Covered(two) + 1)..(i + 1)
        PROVE  xor[j] = delta
    BY <1>2, <2>2, <2>6
  <2>7. final => i + 1 = BlockSize /\ Covered(two) = BlockSize
    BY <1>2, <2>2
  <2>8. ~final => i + 1 # BlockSize /\ Covered(two) + 1 = i + 1
    BY <1>2, <2>2
  <2> HIDE DEF delta, final
  <2>9. PrefixEncoded'
    BY <1>1, <1>3, <2>1, <2>3, <2>4, <2>6, <2>7, <2>8 DEF PrefixEncoded
  <2> QED BY <2>5, <2>9 DEF IInv
<1>7. CASE ~emit
  <2>1. /\ tokens' = tokens /\ count' = count + 1 /\ last_d' = last_d /\ pc' = pc
        /\ delta = last_d /\ i # BlockSize - 1
    BY <1>7 DEF EncodeByte
  <2> HIDE DEF two, one, emit, run
  <2>2. Tiles(tokens)'
    BY <1>1, <1>3, <1>4, <2>1 DEF Tiles
  <2>3. Covered(tokens)' = Covered(tokens)
    BY <2>1 DEF Covered
  <2>4. EncoderType'
    BY <1>1, <1>2, <1>5, <2>1 DEF EncoderType
  <2>5. ASSUME NEW j \in (Covered(tokens) + 1)..(i + 1)
        PROVE  xor[j] = last_d
    <3>1. CASE j = i + 1
      BY <2>1, <3>1
    <3>2. CASE j # i + 1
      <4>1. j \in (Covered(tokens) + 1)..i
        BY <1>2, <1>4, <3>2
      <4> QED BY <1>4, <4>1
    <3> QED BY <3>1, <3>2
  <2>6. Covered(tokens) + (count + 1) = i + 1 /\ i + 1 # BlockSize
    BY <1>2, <1>4, <2>1
  <2>7. PrefixEncoded'
    BY <1>1, <1>3, <2>1, <2>2, <2>3, <2>5, <2>6 DEF PrefixEncoded
  <2> QED BY <2>4, <2>7 DEF IInv
<1> QED BY <1>6, <1>7

(* No other step touches the tokens.                                       *)
LEMMA RestKeeps ==
  ASSUME IInv, EncodeEnd \/ DecodeToken \/ DecodeEnd \/ Returned \/ UNCHANGED vars
  PROVE  IInv'
<1>1. UNCHANGED <<xor, encoder>>
  BY DEF EncodeEnd, DecodeToken, DecodeEnd, Returned, vars
<1>2. \/ pc' = pc
      \/ pc = "encode" /\ i = BlockSize /\ pc' \in {"decode", "returned"}
      \/ pc' = "returned"
  BY DEF EncodeEnd, DecodeToken, DecodeEnd, Returned, vars
<1>3. EncoderType'
  BY <1>1, <1>2 DEF IInv, EncoderType, BlockSize, encoder
<1>4. /\ Tiles(tokens)' = Tiles(tokens) /\ Covered(tokens)' = Covered(tokens)
      /\ BlockSize' = BlockSize
  BY <1>1 DEF Tiles, Covered, BlockSize, encoder
<1>5. PrefixEncoded'
  BY <1>1, <1>2, <1>4 DEF IInv, PrefixEncoded, encoder
<1> QED BY <1>3, <1>5 DEF IInv

(* delta_packed, for every block of at most 256 bytes and every limit: the *)
(* tokens written so far tile the bytes read, whichever branch of the loop *)
(* wrote them, and what is handed to decode_packed tiles the whole block.  *)
THEOREM EncodesThePrefix ==
  ASSUME ShortInputs
  PROVE  Spec => []PrefixEncoded
<1>1. Init => IInv
  BY InitIInv
<1>2. IInv /\ [Next]_vars => IInv'
  BY EncodeByteKeeps, RestKeeps DEF Next
<1>3. IInv => PrefixEncoded
  BY DEF IInv
<1> QED BY <1>1, <1>2, <1>3, PTL DEF Spec

-----------------------------------------------------------------------------
(* The token at the head of the stream *)

(* The larger of two numbers.                                              *)
LEMMA MaxOfTwo ==
  ASSUME NEW a \in Int, NEW b \in Int
  PROVE  /\ Max({a, b}) \in {a, b} /\ Max({a, b}) >= a /\ Max({a, b}) >= b
<1>1. \E x \in {a, b} : \A y \in {a, b} : x >= y
  <2>1. CASE a >= b
    BY <2>1
  <2>2. CASE ~(a >= b)
    BY <2>2
  <2> QED BY <2>1, <2>2
<1> QED BY <1>1 DEF Max

(* The powers of two that a token can be cut at.                           *)
LEMMA CutPowers ==
  ASSUME NEW c \in Int, 0 <= c, c <= 17
  PROVE  2^c \in Nat /\ 2^c > 0
<1> DEFINE Fine(n) == 2^n \in Nat /\ 2^n > 0
<1>1. /\ Fine(0) /\ Fine(1) /\ Fine(2) /\ Fine(3) /\ Fine(4) /\ Fine(5)
      /\ Fine(6) /\ Fine(7) /\ Fine(8) /\ Fine(9) /\ Fine(10) /\ Fine(11)
      /\ Fine(12) /\ Fine(13) /\ Fine(14) /\ Fine(15) /\ Fine(16) /\ Fine(17)
  OBVIOUS
<1>2. \/ c = 0 \/ c = 1 \/ c = 2 \/ c = 3 \/ c = 4 \/ c = 5 \/ c = 6 \/ c = 7 \/ c = 8
      \/ c = 9 \/ c = 10 \/ c = 11 \/ c = 12 \/ c = 13 \/ c = 14 \/ c = 15 \/ c = 16
      \/ c = 17
  OBVIOUS
<1> HIDE DEF Fine
<1>3. Fine(c)
  BY <1>1, <1>2, Zenon
<1> QED BY <1>3 DEF Fine

(* Rounding a number down makes it no larger, and the pair it stands for   *)
(* stays a pair of bytes, the first no larger.                             *)
LEMMA CutPair ==
  ASSUME NEW len \in Nat, NEW val \in Nat, len < 256, val < 256, NEW p \in Nat, p > 0
  PROVE  LET word == ((256 * len + val) \div p) * p
         IN  /\ word \div 256 \in Nat /\ word \div 256 <= len
             /\ word % 256 \in Nat /\ word % 256 < 256
             /\ p = 1 => word \div 256 = len /\ word % 256 = val
<1> DEFINE w == 256 * len + val
           q == w \div p
           word == q * p
<1>1. w \in Nat /\ w < 256 * (len + 1)
  OBVIOUS
<1>2. (w \div 256 = len /\ w % 256 = val)
  OBVIOUS
<1> HIDE DEF w
<1>3. q \in Nat /\ q * p <= w
  BY <1>1
<1>4. p = 1 => q = w
  BY <1>1
<1> HIDE DEF q
<1>5. word \in Nat /\ word <= w /\ (p = 1 => word = w)
  BY <1>1, <1>3, <1>4
<1> HIDE DEF word
<1>6. word \div 256 \in Nat /\ word \div 256 <= len /\ word % 256 \in Nat /\ word % 256 < 256
  BY <1>1, <1>5
<1> QED BY <1>2, <1>5, <1>6 DEF word, q, w

(* HeadToken is a token: what the length byte leaves of the one at the     *)
(* head, or a zero.                                                        *)
LEMMA HeadTokenFacts ==
  ASSUME tokens \in Seq(TokenType), k \in Nat, k >= 1, used \in Bytes, o_c \in Nat
  PROVE  /\ HeadToken \in TokenType
         /\ k > Len(tokens) \/ tokens[k].bit >= 8 * used =>
                HeadToken = Token(0, 0, 0, o_c, 8 * used)
         /\ k <= Len(tokens) /\ tokens[k].bit < 8 * used =>
                /\ HeadToken.kind = tokens[k].kind
                /\ HeadToken.len <= tokens[k].len
         /\ k <= Len(tokens) /\ tokens[k].bit + Width(tokens[k].kind) <= 8 * used =>
                HeadToken = tokens[k]
<1> DEFINE avail == 8 * used
<1>1. used \in Nat /\ avail \in Nat
  BY ByteFacts
<1>2. CASE k > Len(tokens) \/ tokens[k].bit >= avail
  <2>1. HeadToken = Token(0, 0, 0, o_c, avail)
    BY <1>2 DEF HeadToken
  <2>2. Token(0, 0, 0, o_c, avail) \in TokenType
    BY <1>1, ByteFacts, TokenIsToken
  <2>3. k <= Len(tokens) => tokens[k] \in TokenType
    OBVIOUS
  <2>4. k <= Len(tokens) => /\ tokens[k].bit \in Nat /\ Width(tokens[k].kind) \in Nat
                            /\ Width(tokens[k].kind) > 0
    <3>1. \A kind \in 0..3 : Width(kind) \in Nat /\ Width(kind) > 0
      BY DEF Width
    <3> QED BY <2>3, <3>1 DEF TokenType
  <2>5. ~(k <= Len(tokens) /\ tokens[k].bit + Width(tokens[k].kind) <= avail)
    BY <1>1, <1>2, <2>4
  <2>6. ~(k <= Len(tokens) /\ tokens[k].bit < avail)
    BY <1>1, <1>2, <2>4
  <2> HIDE DEF avail
  <2> QED BY <2>1, <2>2, <2>5, <2>6 DEF avail
<1>3. CASE ~(k > Len(tokens) \/ tokens[k].bit >= avail)
  <2> DEFINE t    == tokens[k]
             w    == Width(t.kind)
             cut  == Max({0, t.bit + w - avail})
             word == ((256 * t.len + t.val) \div 2^cut) * 2^cut
  <2>1. k \in 1..Len(tokens)
    BY <1>3
  <2>2. t \in TokenType
    BY <2>1
  <2>3. HeadToken = [t EXCEPT !.len = word \div 256, !.val = word % 256]
    BY <1>3 DEF HeadToken
  <2>4. /\ t.bit \in Nat /\ t.len \in Nat /\ t.val \in Nat /\ t.len < 256 /\ t.val < 256
        /\ w \in Nat /\ w <= 18
    <3>1. \A b \in Bytes : b < 256
      BY DEF Bytes, MaxByte
    <3>2. /\ t.bit \in Nat /\ t.len \in Bytes /\ t.val \in Bytes /\ t.kind \in 0..3
      BY <2>2 DEF TokenType
    <3>3. \A kind \in 0..3 : Width(kind) \in Nat /\ Width(kind) <= 18
      BY DEF Width
    <3> HIDE DEF t
    <3> QED BY <3>1, <3>2, <3>3, ByteFacts
  <2>5. t.bit < avail
    BY <1>1, <1>3, <2>1, <2>4
  <2> HIDE DEF t, w, avail
  <2>6. /\ cut \in Int /\ 0 <= cut /\ cut <= 17
        /\ t.bit + w <= avail => cut = 0
    <3>1. t.bit + w - avail \in Int
      BY <1>1, <2>4
    <3> DEFINE over == t.bit + w - avail
               none == 0
    <3>2. over \in Int /\ over <= 17 /\ (t.bit + w <= avail => over <= 0)
      BY <1>1, <2>4, <2>5, <3>1
    <3>3. cut = Max({none, over}) /\ none \in Int
      OBVIOUS
    <3> HIDE DEF cut, over, none
    <3>4. cut \in {none, over} /\ cut >= none /\ cut >= over
      BY <3>2, <3>3, MaxOfTwo
    <3> QED BY <3>2, <3>4 DEF none
  <2> HIDE DEF cut
  <2>7. 2^cut \in Nat /\ 2^cut > 0
    BY <2>6, CutPowers
  <2>8. cut = 0 => 2^cut = 1
    OBVIOUS
  <2>9. /\ word \div 256 \in Nat /\ word \div 256 <= t.len
        /\ word % 256 \in Nat /\ word % 256 < 256
        /\ cut = 0 => word \div 256 = t.len /\ word % 256 = t.val
    <3> DEFINE p == 2^cut
               l == t.len
               v == t.val
    <3>1. p \in Nat /\ p > 0 /\ l \in Nat /\ v \in Nat /\ l < 256 /\ v < 256
      BY <2>4, <2>7
    <3>2. (cut = 0 => p = 1) /\ word = ((256 * l + v) \div p) * p
      BY <2>8
    <3> HIDE DEF p, l, v, word
    <3>3. LET x == ((256 * l + v) \div p) * p
          IN  /\ x \div 256 \in Nat /\ x \div 256 <= l
              /\ x % 256 \in Nat /\ x % 256 < 256
              /\ p = 1 => x \div 256 = l /\ x % 256 = v
      BY <3>1, CutPair
    <3>4. /\ word \div 256 \in Nat /\ word \div 256 <= l
          /\ word % 256 \in Nat /\ word % 256 < 256
          /\ cut = 0 => word \div 256 = l /\ word % 256 = v
      BY <3>2, <3>3
    <3> QED BY <3>4 DEF l, v
  <2> HIDE DEF word
  <2>10. word \div 256 \in Bytes /\ word % 256 \in Bytes
    <3>1. word \div 256 < 256
      BY <2>4, <2>9
    <3>2. MaxRun = 256
      BY DEF MaxRun
    <3> QED BY <2>9, <3>1, <3>2, ByteFacts
  <2> DEFINE l == word \div 256
             v == word % 256
  <2>h. HeadToken = [t EXCEPT !.len = l, !.val = v]
    BY <2>3
  <2>l. l <= t.len /\ (cut = 0 => l = t.len /\ v = t.val)
    BY <2>9
  <2>b. l \in Bytes /\ v \in Bytes
    BY <2>10
  <2> HIDE DEF l, v
  <2>11. HeadToken \in TokenType /\ HeadToken.kind = t.kind /\ HeadToken.len <= t.len
    BY <2>2, <2>h, <2>l, <2>b DEF TokenType
  <2>12. cut = 0 => HeadToken = t
    BY <2>2, <2>h, <2>l DEF TokenType
  <2> QED BY <1>3, <2>6, <2>11, <2>12 DEF t, w, avail
<1> QED BY <1>2, <1>3

-----------------------------------------------------------------------------
(* Types, for blocks of any length *)

(* What the types rely on.                                                 *)
TInv == TypeOK /\ xor \in Inputs /\ k >= 1

(* pack_delta writes tokens.                                               *)
LEMMA PackAfterType ==
  ASSUME NEW toks \in Seq(TokenType), NEW length \in Bytes, NEW delta \in Bytes
  PROVE  PackAfter(toks, length, delta) \in Seq(TokenType)
<1> DEFINE at == Covered(toks)
           bit == EndBit(toks)
           q == PackDelta(length, delta, at, bit)
<1>1. at \in Nat /\ bit \in Nat
  BY EndsType
<1>2. q = PackDelta(length, delta, at, bit)
  OBVIOUS
<1>3. PackAfter(toks, length, delta) = toks \o q
  BY DEF PackAfter
<1> HIDE DEF at, bit, q
<1>4. q \in Seq(TokenType)
  BY <1>1, <1>2, PackDeltaFacts DEF IsRun
<1> QED BY <1>3, <1>4, ConcatProperties

(* A round of delta_packed's loop keeps the types.                         *)
LEMMA EncodeByteType ==
  ASSUME TInv, EncodeByte
  PROVE  TInv'
<1> DEFINE delta == xor[i + 1]
           run   == IF delta = last_d THEN count + 1 ELSE count
           final == i = BlockSize - 1
           one   == IF run > 0 THEN PackAfter(tokens, run - 1, last_d) ELSE tokens
           two   == IF final /\ delta # last_d THEN PackAfter(one, 0, delta) ELSE one
           emit  == delta # last_d \/ final \/ run = MaxRun
<1>1. /\ pc = "encode" /\ i < BlockSize /\ i' = i + 1
      /\ UNCHANGED <<xor, lim, size, used, decoder>>
  BY DEF EncodeByte
<1>2. /\ BlockSize \in Nat /\ i \in Nat /\ delta \in Bytes /\ last_d \in Bytes
      /\ count \in Nat /\ count <= MaxRun - 1 /\ MaxRun \in Nat /\ 1 <= MaxRun - 1
      /\ tokens \in Seq(TokenType)
  BY <1>1, InputFacts DEF TInv, TypeOK, MaxRun
<1>3. BlockSize' = BlockSize
  BY <1>1 DEF BlockSize
<1>4. i' \in 0..BlockSize'
  BY <1>1, <1>2, <1>3
<1>5. run \in Nat /\ run <= MaxRun
  BY <1>2
<1>6. one \in Seq(TokenType)
  <2>1. CASE run > 0
    <3> DEFINE length == run - 1
    <3>1. length \in Nat /\ length < MaxRun
      BY <1>2, <1>5, <2>1
    <3>2. length \in Bytes
      BY <3>1, ByteFacts
    <3>3. one = PackAfter(tokens, length, last_d)
      BY <2>1
    <3> HIDE DEF length, one
    <3> QED BY <1>2, <3>2, <3>3, PackAfterType
  <2>2. CASE ~(run > 0)
    BY <1>2, <2>2
  <2> QED BY <2>1, <2>2
<1>7. two \in Seq(TokenType) /\ EndBit(two) \in Nat
  <2> HIDE DEF one, run, delta
  <2>1. PackAfter(one, 0, delta) \in Seq(TokenType)
    BY <1>2, <1>6, ByteFacts, PackAfterType
  <2>2. two \in Seq(TokenType)
    BY <1>6, <2>1
  <2> HIDE DEF two
  <2> QED BY <2>2, EndsType
<1>8. /\ tokens' \in Seq(TokenType) /\ bits' \in Nat /\ last_d' \in Bytes
      /\ pc' \in {"encode", "decode", "returned"}
      /\ count' \in Nat /\ count' <= MaxRun - 1
  <2>1. CASE emit
    <3>1. /\ tokens' = two /\ bits' = EndBit(two) /\ count' = 1 /\ last_d' = delta
          /\ pc' \in {"encode", "returned"}
      BY <1>1, <2>1 DEF EncodeByte
    <3> HIDE DEF two, delta
    <3> QED BY <1>2, <1>7, <3>1
  <2>2. CASE ~emit
    <3>1. tokens' = tokens /\ bits' = bits /\ count' = run /\ last_d' = last_d /\ pc' = pc
      BY <2>2 DEF EncodeByte
    <3>2. run # MaxRun
      BY <2>2
    <3> HIDE DEF run, emit
    <3> QED BY <1>2, <1>5, <3>1, <3>2 DEF TInv, TypeOK
  <2> QED BY <2>1, <2>2
<1>9. count' \in 0..(MaxRun - 1)
  BY <1>2, <1>8
<1> HIDE DEF delta, run, final, one, two, emit
<1>10. TypeOK'
  BY <1>1, <1>4, <1>8, <1>9 DEF TInv, TypeOK, decoder
<1> QED BY <1>1, <1>10 DEF TInv, decoder

(* A round of decode_packed's loop keeps the types.                        *)
LEMMA DecodeTokenType ==
  ASSUME TInv, DecodeToken
  PROVE  TInv'
<1> DEFINE t == HeadToken
<1>1. /\ out' = [j \in DOMAIN out \cup Span(t) |-> IF j \in Span(t) THEN t.val ELSE out[j]]
      /\ o_c' = o_c + t.len + 1 /\ c_tmp' = Width(t.kind) /\ k' = k + 1
      /\ UNCHANGED <<xor, lim, pc, encoder, size, used>>
  BY DEF DecodeToken
<1>2. t \in TokenType
  BY HeadTokenFacts DEF TInv, TypeOK
<1> HIDE DEF t
<1>3. t.len \in Nat /\ t.val \in Bytes /\ t.kind \in 0..3
  BY <1>2, ByteFacts DEF TokenType
<1>4. o_c' \in Nat /\ k' \in Nat /\ k' >= 1
  BY <1>1, <1>3 DEF TInv, TypeOK
<1>5. c_tmp' \in {0, 2, 10, 14, 18}
  BY <1>1, <1>3 DEF Width
<1>6. \A j \in DOMAIN out' : out'[j] \in Bytes \cup {Old}
  BY <1>1, <1>3 DEF TInv, TypeOK
<1>7. BlockSize' = BlockSize
  BY <1>1 DEF BlockSize
<1>8. TypeOK'
  BY <1>1, <1>4, <1>5, <1>6, <1>7 DEF TInv, TypeOK, encoder
<1> QED BY <1>1, <1>4, <1>8 DEF TInv

(* They hold at the start.                                                 *)
LEMMA InitTInv == Init => TInv
<1> SUFFICES ASSUME Init PROVE TInv
  OBVIOUS
<1>1. BlockSize \in Nat /\ xor \in Seq(Bytes) /\ lim \in Limits
  BY InputFacts, DeltaCodecAssumption DEF Init
<1>2. /\ i = 0 /\ count = 0 /\ last_d = 0 /\ tokens = <<>> /\ bits = 0 /\ size = 0
      /\ used = 0 /\ k = 1 /\ o_c = 0 /\ c_tmp = 0 /\ pc = "encode"
  BY DEF Init
<1>3. i \in 0..BlockSize /\ count \in 0..(MaxRun - 1)
  BY <1>1, <1>2 DEF MaxRun
<1>4. \A j \in DOMAIN out : out[j] \in Bytes \cup {Old}
  BY DEF Init
<1>5. tokens \in Seq(TokenType)
  BY <1>2
<1>6. TypeOK
  BY <1>1, <1>2, <1>3, <1>4, <1>5, ByteFacts DEF TypeOK
<1> QED BY <1>2, <1>6 DEF TInv, Init

(* Every step keeps them.                                                  *)
LEMMA NextType ==
  ASSUME TInv, [Next]_vars
  PROVE  TInv'
<1>1. CASE EncodeByte
  BY <1>1, EncodeByteType
<1>2. CASE EncodeEnd
  <2>1. /\ UNCHANGED <<xor, lim, encoder, decoder>>
        /\ pc' \in {"decode", "returned"}
    BY <1>2 DEF EncodeEnd
  <2>2. used' \in Bytes /\ size' \in Int
    <3> DEFINE bytes == bits \div 8 + (IF bits % 8 # 0 THEN 1 ELSE 0)
    <3>1. bytes \in Nat
      BY DEF TInv, TypeOK
    <3>2. \/ used' = used /\ size' = size
          \/ used' = bytes % 256 /\ size' \in {bytes + 1, -1}
      BY <1>2 DEF EncodeEnd
    <3> HIDE DEF bytes
    <3>3. bytes % 256 \in Nat /\ bytes % 256 < 256 /\ bytes + 1 \in Int
      BY <3>1
    <3>4. bytes % 256 \in Bytes
      BY <3>3, ByteFacts DEF MaxRun
    <3> QED BY <3>2, <3>3, <3>4 DEF TInv, TypeOK
  <2>3. BlockSize' = BlockSize
    BY <2>1 DEF BlockSize
  <2>4. TypeOK'
    BY <2>1, <2>2, <2>3 DEF TInv, TypeOK, encoder, decoder
  <2> QED BY <2>1, <2>4 DEF TInv, decoder
<1>3. CASE DecodeToken
  BY <1>3, DecodeTokenType
<1>4. CASE DecodeEnd \/ Returned \/ UNCHANGED vars
  <2>1. /\ UNCHANGED <<xor, lim, encoder, size, used, decoder>>
        /\ pc' \in {pc, "returned"}
    BY <1>4 DEF DecodeEnd, Returned, vars
  <2>2. BlockSize' = BlockSize
    BY <2>1 DEF BlockSize
  <2>3. TypeOK'
    BY <2>1, <2>2 DEF TInv, TypeOK, encoder, decoder
  <2> QED BY <2>1, <2>3 DEF TInv, decoder
<1> QED BY <1>1, <1>2, <1>3, <1>4 DEF Next

(* Every variable keeps its type, for blocks of any length: no run         *)
(* outgrows the eight bits of its length, in memory or in the stream, and  *)
(* what a cut token decodes to are still bytes.                            *)
THEOREM TypeCorrect == Spec => []TypeOK
<1>1. Init => TInv
  BY InitTInv
<1>2. TInv /\ [Next]_vars => TInv'
  BY NextType
<1>3. TInv => TypeOK
  BY DEF TInv
<1> QED BY <1>1, <1>2, <1>3, PTL DEF Spec

-----------------------------------------------------------------------------
(* Decoding, of blocks of at most 256 bytes *)

(* Where the n-th token starts in the block; the last one ends the block.  *)
StartsAt(n) == IF n <= Len(tokens) THEN tokens[n].at ELSE BlockSize

(* Where decoding can go astray.                                           *)
Stops == EndMarks \cup Beyond

(* As long as no such token was read, the decoder is where the encoder was *)
(* with the token at the head, and knows its predecessor's width.          *)
InStep ==
    /\ k <= Len(tokens) + 1 /\ o_c = StartsAt(k)
    /\ \A n \in 1..(k - 1) : n \notin Stops
    /\ k > 1 => c_tmp = Width(tokens[k - 1].kind)
    /\ k = 1 => c_tmp = 0
    /\ \A j \in 0..(BlockSize - 1) : out[j] = IF j < o_c THEN xor[j + 1] ELSE Old

(* After one that the length byte does not reach there are only zeros.     *)
Astray ==
    /\ k > Len(tokens) \/ tokens[k].bit >= 8 * used
    /\ \E n \in 1..(k - 1) :
          /\ n \in Beyond /\ \A m \in 1..(n - 1) : m \notin Stops
          /\ tokens[n].at <= o_c /\ o_c <= BlockSize
          /\ \A j \in 0..(tokens[n].at - 1) : out[j] = xor[j + 1]

(* What the decoder relies on.                                             *)
DInv ==
    /\ TInv /\ IInv
    /\ pc = "encode" => /\ k = 1 /\ o_c = 0 /\ c_tmp = 0 /\ size = 0
                        /\ out = [j \in 0..(BlockSize - 1) |-> Old]
    /\ pc = "decode" => size > 0
    /\ pc # "encode" /\ size > 0 =>
          /\ Covered(tokens) = BlockSize
          /\ DOMAIN out = 0..(BlockSize - 1)
          /\ InStep \/ Astray
    /\ pc = "returned" /\ size > 0 => o_c >= BlockSize \/ IsEndMark(HeadToken)

(* The tokens of a block, side by side.                                    *)
LEMMA TokenFacts ==
  ASSUME TInv, IInv, Covered(tokens) = BlockSize
  PROVE  /\ BlockSize \in Nat /\ BlockSize >= 1 /\ Len(tokens) \in Nat /\ Len(tokens) >= 1
         /\ StartsAt(1) = 0 /\ StartsAt(Len(tokens) + 1) = BlockSize
         /\ \A n \in 1..Len(tokens) :
               /\ tokens[n] \in TokenType
               /\ tokens[n].at \in Nat /\ tokens[n].len \in Nat /\ tokens[n].bit \in Nat
               /\ tokens[n].kind \in 0..3 /\ Width(tokens[n].kind) \in Nat
               /\ StartsAt(n) = tokens[n].at
               /\ StartsAt(n + 1) = tokens[n].at + tokens[n].len + 1
               /\ tokens[n].at + tokens[n].len < BlockSize
               /\ n < Len(tokens) =>
                     tokens[n + 1].bit = tokens[n].bit + Width(tokens[n].kind)
               /\ \A j \in tokens[n].at..(tokens[n].at + tokens[n].len) :
                     xor[j + 1] = tokens[n].val
<1> DEFINE m == Len(tokens)
<1>1. BlockSize \in Nat /\ BlockSize >= 1 /\ tokens \in Seq(TokenType)
  BY InputFacts DEF TInv, TypeOK
<1>2. tokens # <<>>
  BY <1>1 DEF Covered
<1>3. m \in Nat /\ m >= 1 /\ DOMAIN tokens = 1..m /\ \A n \in 1..m : tokens[n] \in TokenType
  BY <1>1, <1>2, LenProperties, ElementOfSeq, EmptySeq
<1>4. BlockSize = tokens[m].at + tokens[m].len + 1
  BY <1>2 DEF Covered
<1>5. \A n \in 1..m :
         /\ tokens[n].at = (IF n = 1 THEN 0 ELSE tokens[n - 1].at + tokens[n - 1].len + 1)
         /\ tokens[n].bit = (IF n = 1 THEN 0 ELSE tokens[n - 1].bit + Width(tokens[n - 1].kind))
         /\ \A j \in tokens[n].at..(tokens[n].at + tokens[n].len) :
               j < BlockSize /\ xor[j + 1] = tokens[n].val
  BY <1>3 DEF IInv, PrefixEncoded, Tiles
<1> HIDE DEF m
<1>6. ASSUME NEW n \in 1..m
      PROVE  /\ tokens[n].at \in Nat /\ tokens[n].len \in Nat /\ tokens[n].bit \in Nat
             /\ tokens[n].kind \in 0..3 /\ Width(tokens[n].kind) \in Nat
  <2>1. tokens[n] \in TokenType
    BY <1>3
  <2>2. /\ tokens[n].at \in Nat /\ tokens[n].len \in Bytes /\ tokens[n].bit \in Nat
        /\ tokens[n].kind \in 0..3
    BY <2>1 DEF TokenType
  <2> QED BY <2>2, ByteFacts, WidthType
<1>7. \A n \in 1..m : n < m => n + 1 \in 1..m /\ n + 1 # 1 /\ (n + 1) - 1 = n
  BY <1>3
<1>8. \A n \in 1..m : n < m => /\ tokens[n + 1].at = tokens[n].at + tokens[n].len + 1
                               /\ tokens[n + 1].bit = tokens[n].bit + Width(tokens[n].kind)
  <2> TAKE n \in 1..m
  <2> HAVE n < m
  <2> DEFINE r == n + 1
  <2>1. r \in 1..m /\ r # 1 /\ r - 1 = n
    BY <1>7
  <2> HIDE DEF r
  <2>2. /\ tokens[r].at = tokens[n].at + tokens[n].len + 1
        /\ tokens[r].bit = tokens[n].bit + Width(tokens[n].kind)
    BY <1>5, <2>1
  <2> QED BY <2>2 DEF r
<1>9. \A n \in 1..m : tokens[n].at + tokens[n].len < BlockSize
  <2> TAKE n \in 1..m
  <2>1. tokens[n].at + tokens[n].len \in tokens[n].at..(tokens[n].at + tokens[n].len)
    BY <1>6
  <2> QED BY <1>5, <2>1
<1>10. StartsAt(m + 1) = BlockSize /\ \A n \in 1..m : StartsAt(n) = tokens[n].at
  BY <1>3 DEF StartsAt, m
<1>11. \A n \in 1..m : StartsAt(n + 1) = tokens[n].at + tokens[n].len + 1
  <2> TAKE n \in 1..m
  <2>1. CASE n = m
    BY <1>4, <1>10, <2>1
  <2>2. CASE n # m
    <3>1. n < m
      BY <1>3, <2>2
    <3>2. StartsAt(n + 1) = tokens[n + 1].at
      BY <1>7, <1>10, <3>1
    <3> QED BY <1>8, <3>1, <3>2
  <2> QED BY <2>1, <2>2
<1>12. 1 \in 1..m /\ tokens[1].at = 0
  BY <1>3, <1>5
<1> QED BY <1>1, <1>3, <1>5, <1>6, <1>8, <1>9, <1>10, <1>11, <1>12 DEF m

(* What the decoder does with the token at the head while it is in step:   *)
(* it is an end mark exactly at an end mark of the encoding.               *)
LEMMA HeadInStep ==
  ASSUME TInv, IInv, Covered(tokens) = BlockSize, InStep, o_c < BlockSize
  PROVE  /\ k \in 1..Len(tokens) /\ o_c = tokens[k].at
         /\ k \notin Beyond => HeadToken = tokens[k] /\ (IsEndMark(HeadToken) <=> k \in EndMarks)
<1>1. /\ Len(tokens) \in Nat /\ k \in Nat /\ k >= 1 /\ BlockSize \in Nat
      /\ k <= Len(tokens) + 1 /\ o_c = StartsAt(k) /\ StartsAt(Len(tokens) + 1) = BlockSize
      /\ DOMAIN tokens = 1..Len(tokens)
  BY TokenFacts, LenProperties DEF InStep, TInv, TypeOK
<1>2. k # Len(tokens) + 1
  BY <1>1
<1>3. k \in 1..Len(tokens)
  BY <1>1, <1>2
<1>4. o_c = tokens[k].at
  BY <1>1, <1>3, TokenFacts
<1>5. ASSUME k \notin Beyond
      PROVE  HeadToken = tokens[k] /\ (IsEndMark(HeadToken) <=> k \in EndMarks)
  <2>1. tokens[k].bit + Width(tokens[k].kind) <= 8 * used
    <3>1. ~(tokens[k].bit + Width(tokens[k].kind) > 8 * used)
      BY <1>1, <1>3, <1>5 DEF Beyond
    <3>2. /\ tokens[k].bit \in Nat /\ Width(tokens[k].kind) \in Nat /\ used \in Nat
      BY <1>3, TokenFacts, ByteFacts DEF TInv, TypeOK
    <3> QED BY <3>1, <3>2
  <2>2. HeadToken = tokens[k]
    <3>1. tokens \in Seq(TokenType) /\ used \in Bytes /\ o_c \in Nat /\ k <= Len(tokens)
      BY <1>3 DEF TInv, TypeOK
    <3> QED BY <1>1, <2>1, <3>1, HeadTokenFacts
  <2>3. IsEndMark(tokens[k]) <=> tokens[k].kind = 3 /\ c_tmp >= 14
    BY DEF IsEndMark
  <2>4. CASE k = 1
    BY <2>2, <2>3, <2>4 DEF InStep, EndMarks
  <2>5. CASE k # 1
    <3>1. k - 1 \in 1..Len(tokens) /\ k > 1
      BY <1>1, <1>3, <2>5
    <3>2. c_tmp = Width(tokens[k - 1].kind) /\ tokens[k - 1].kind \in 0..3
      BY <3>1, TokenFacts DEF InStep
    <3>3. \A kind \in 0..3 : Width(kind) >= 14 <=> kind >= 2
      BY DEF Width
    <3>4. k \in EndMarks <=> tokens[k].kind = 3 /\ tokens[k - 1].kind >= 2
      BY <1>1, <1>3, <2>5 DEF EndMarks
    <3> QED BY <2>2, <2>3, <3>2, <3>3, <3>4
  <2> QED BY <2>4, <2>5
<1> QED BY <1>3, <1>4, <1>5

(* A round of decode_packed's loop keeps that, and stays in the block.     *)
LEMMA DecodeTokenKeeps ==
  ASSUME DInv, DecodeToken, IInv', TInv'
  PROVE  DInv'
<1> DEFINE t == HeadToken
<1>1. /\ pc = "decode" /\ o_c < BlockSize /\ ~IsEndMark(t)
      /\ out' = [j \in DOMAIN out \cup Span(t) |-> IF j \in Span(t) THEN t.val ELSE out[j]]
      /\ o_c' = o_c + t.len + 1 /\ c_tmp' = Width(t.kind) /\ k' = k + 1
      /\ pc' = pc /\ xor' = xor /\ tokens' = tokens /\ size' = size /\ used' = used
  BY DEF DecodeToken, encoder
<1>2. /\ TInv /\ IInv /\ size > 0 /\ Covered(tokens) = BlockSize
      /\ DOMAIN out = 0..(BlockSize - 1) /\ (InStep \/ Astray)
  BY <1>1 DEF DInv
<1>3. /\ tokens \in Seq(TokenType) /\ k \in Nat /\ k >= 1 /\ used \in Bytes /\ used \in Nat
      /\ o_c \in Nat /\ BlockSize \in Nat /\ Len(tokens) \in Nat
  BY <1>2, TokenFacts, ByteFacts DEF TInv, TypeOK
<1>4. /\ BlockSize' = BlockSize /\ Covered(tokens)' = Covered(tokens)
      /\ EndMarks' = EndMarks /\ Beyond' = Beyond /\ Stops' = Stops
      /\ \A n : StartsAt(n)' = StartsAt(n)
  BY <1>1 DEF BlockSize, Covered, EndMarks, Beyond, Stops, StartsAt
<1>5. t \in TokenType /\ t.len \in Nat
  BY <1>3, HeadTokenFacts, ByteFacts DEF TokenType
<1>6. Span(t) = o_c..(o_c + t.len)
  BY DEF Span
<1>7. ASSUME o_c + t.len < BlockSize
      PROVE  /\ DOMAIN out' = 0..(BlockSize - 1)
             /\ \A j \in 0..(BlockSize - 1) :
                   out'[j] = IF o_c <= j /\ j <= o_c + t.len THEN t.val ELSE out[j]
  <2> HIDE DEF t
  <2>1. Span(t) \subseteq 0..(BlockSize - 1)
    BY <1>3, <1>5, <1>6, <1>7
  <2>2. DOMAIN out' = 0..(BlockSize - 1)
    BY <1>1, <1>2, <2>1
  <2>3. \A j \in 0..(BlockSize - 1) : j \in Span(t) <=> o_c <= j /\ j <= o_c + t.len
    BY <1>3, <1>5, <1>6
  <2> QED BY <1>1, <1>2, <2>2, <2>3
<1>8. CASE InStep
  <2>1. k \in 1..Len(tokens) /\ o_c = tokens[k].at
    BY <1>1, <1>2, <1>8, HeadInStep
  <2>2. /\ tokens[k].at \in Nat /\ tokens[k].len \in Nat /\ tokens[k].bit \in Nat
        /\ Width(tokens[k].kind) \in Nat /\ tokens[k].at + tokens[k].len < BlockSize
        /\ StartsAt(k + 1) = tokens[k].at + tokens[k].len + 1
        /\ k < Len(tokens) => tokens[k + 1].bit = tokens[k].bit + Width(tokens[k].kind)
        /\ \A j \in tokens[k].at..(tokens[k].at + tokens[k].len) : xor[j + 1] = tokens[k].val
    BY <1>2, <2>1, TokenFacts
  <2>3. CASE k \notin Beyond
    <3>1. t = tokens[k] /\ k \notin EndMarks
      BY <1>1, <1>2, <1>8, <2>3, HeadInStep
    <3> HIDE DEF t
    <3>2. /\ DOMAIN out' = 0..(BlockSize - 1)
          /\ \A j \in 0..(BlockSize - 1) :
                out'[j] = IF o_c <= j /\ j <= o_c + t.len THEN t.val ELSE out[j]
      BY <1>7, <2>1, <2>2, <3>1
    <3>3. \A j \in 0..(BlockSize - 1) : out'[j] = IF j < o_c' THEN xor[j + 1] ELSE Old
      <4> TAKE j \in 0..(BlockSize - 1)
      <4>1. CASE o_c <= j /\ j <= o_c + t.len
        <5>1. j \in tokens[k].at..(tokens[k].at + tokens[k].len) /\ j < o_c'
          BY <1>1, <1>3, <1>5, <2>1, <2>2, <3>1, <4>1, SMTT(30)
        <5> QED BY <2>2, <3>1, <3>2, <4>1, <5>1
      <4>2. CASE ~(o_c <= j /\ j <= o_c + t.len)
        <5>1. j < o_c' <=> j < o_c
          BY <1>1, <1>3, <1>5, <4>2
        <5>2. out'[j] = out[j]
          BY <3>2, <4>2
        <5> QED BY <1>8, <5>1, <5>2 DEF InStep
      <4> QED BY <4>1, <4>2
    <3>4. \A n \in 1..(k' - 1) : n \notin Stops
      <4>1. \A n \in 1..(k' - 1) : n = k \/ n \in 1..(k - 1)
        BY <1>1, <1>3
      <4> QED BY <1>8, <2>3, <3>1, <4>1 DEF InStep, Stops
    <3>5. /\ k' <= Len(tokens) + 1 /\ o_c' = StartsAt(k') /\ k' # 1
          /\ k' - 1 = k /\ c_tmp' = Width(tokens[k' - 1].kind)
      BY <1>1, <1>3, <2>1, <2>2, <3>1
    <3>6. InStep'
      BY <1>1, <1>4, <3>3, <3>4, <3>5 DEF InStep
    <3> QED BY <1>1, <1>2, <1>4, <3>2, <3>6 DEF DInv
  <2>4. CASE k \in Beyond
    <3>1. tokens[k].bit + Width(tokens[k].kind) > 8 * used
      BY <2>4 DEF Beyond
    <3>2. t.len <= tokens[k].len
      <4>1. CASE tokens[k].bit >= 8 * used
        <5>1. t = Token(0, 0, 0, o_c, 8 * used)
          BY <1>3, <4>1, HeadTokenFacts
        <5> QED BY <2>2, <5>1 DEF Token
      <4>2. CASE ~(tokens[k].bit >= 8 * used)
        BY <1>3, <2>1, <2>2, <4>2, HeadTokenFacts
      <4> QED BY <4>1, <4>2
    <3> HIDE DEF t
    <3>3. o_c + t.len < BlockSize
      BY <1>3, <1>5, <2>1, <2>2, <3>2
    <3>4. /\ DOMAIN out' = 0..(BlockSize - 1)
          /\ \A j \in 0..(BlockSize - 1) :
                out'[j] = IF o_c <= j /\ j <= o_c + t.len THEN t.val ELSE out[j]
      BY <1>7, <3>3
    <3>5. \A j \in 0..(tokens[k].at - 1) : out'[j] = xor[j + 1]
      <4> TAKE j \in 0..(tokens[k].at - 1)
      <4>1. j \in 0..(BlockSize - 1) /\ j < o_c
        BY <1>1, <1>3, <2>1, <2>2, SMTT(30)
      <4>2. out'[j] = out[j]
        BY <1>3, <3>4, <4>1
      <4> QED BY <1>8, <4>1, <4>2 DEF InStep
    <3>6. k' > Len(tokens) \/ tokens[k'].bit >= 8 * used
      <4>1. CASE k < Len(tokens)
        BY <1>1, <1>3, <2>2, <3>1, <4>1, SMTT(30)
      <4>2. CASE ~(k < Len(tokens))
        BY <1>1, <1>3, <4>2
      <4> QED BY <4>1, <4>2
    <3>7. k \in 1..(k' - 1) /\ \A m \in 1..(k - 1) : m \notin Stops
      BY <1>1, <1>3, <1>8 DEF InStep
    <3>8. tokens[k].at <= o_c' /\ o_c' <= BlockSize
      <4> DEFINE l == t.len
                 a == tokens[k].at
      <4>1. l \in Nat /\ a \in Nat /\ o_c = a /\ o_c' = o_c + l + 1 /\ o_c + l < BlockSize
        BY <1>1, <1>5, <2>1, <2>2, <3>3
      <4> HIDE DEF l, a
      <4>2. a <= o_c' /\ o_c' <= BlockSize
        BY <1>3, <4>1
      <4> QED BY <4>2 DEF a
    <3>9. Astray'
      BY <1>1, <1>4, <2>4, <3>5, <3>6, <3>7, <3>8, ZenonT(60) DEF Astray
    <3> QED BY <1>1, <1>2, <1>4, <3>4, <3>9 DEF DInv
  <2> QED BY <2>3, <2>4
<1>9. CASE Astray
  <2>1. PICK n \in 1..(k - 1) :
           /\ n \in Beyond /\ \A m \in 1..(n - 1) : m \notin Stops
           /\ tokens[n].at <= o_c /\ o_c <= BlockSize
           /\ \A j \in 0..(tokens[n].at - 1) : out[j] = xor[j + 1]
    BY <1>9 DEF Astray
  <2>2. k > Len(tokens) \/ tokens[k].bit >= 8 * used
    BY <1>9 DEF Astray
  <2>3. t = Token(0, 0, 0, o_c, 8 * used)
    BY <1>3, <2>2, HeadTokenFacts
  <2>4. t.len = 0
    BY <2>3 DEF Token
  <2> HIDE DEF t
  <2>5. /\ DOMAIN out' = 0..(BlockSize - 1)
        /\ \A j \in 0..(BlockSize - 1) :
              out'[j] = IF o_c <= j /\ j <= o_c + t.len THEN t.val ELSE out[j]
    <3>1. o_c + t.len = o_c
      BY <1>3, <2>4
    <3>2. o_c + t.len < BlockSize
      BY <1>1, <3>1
    <3> QED BY <1>7, <3>2
  <2>6. n \in 1..Len(tokens) /\ tokens[n].at \in Nat /\ n \in Nat
    <3>1. n \in DOMAIN tokens /\ DOMAIN tokens = 1..Len(tokens)
      BY <1>3, <2>1, LenProperties DEF Beyond
    <3> QED BY <1>2, <3>1, TokenFacts
  <2>7. \A j \in 0..(tokens[n].at - 1) : out'[j] = xor[j + 1]
    <3> TAKE j \in 0..(tokens[n].at - 1)
    <3>1. j \in 0..(BlockSize - 1) /\ j < o_c
      BY <1>3, <2>1, <2>6
    <3>2. out'[j] = out[j]
      BY <1>3, <2>5, <3>1
    <3> QED BY <2>1, <3>2
  <2>8. k' > Len(tokens) \/ tokens[k'].bit >= 8 * used
    <3>1. CASE k < Len(tokens)
      <4>1. k \in 1..Len(tokens)
        BY <1>3, <3>1
      <4>2. /\ tokens[k].bit \in Nat /\ Width(tokens[k].kind) \in Nat
            /\ tokens[k + 1].bit = tokens[k].bit + Width(tokens[k].kind)
        BY <1>2, <3>1, <4>1, TokenFacts
      <4>3. tokens[k].bit >= 8 * used
        BY <1>3, <2>2, <3>1
      <4> QED BY <1>1, <1>3, <4>2, <4>3
    <3>2. CASE ~(k < Len(tokens))
      BY <1>1, <1>3, <3>2
    <3> QED BY <3>1, <3>2
  <2>9. n \in 1..(k' - 1) /\ tokens[n].at <= o_c' /\ o_c' <= BlockSize
    BY <1>1, <1>3, <2>1, <2>4, <2>6
  <2>10. Astray'
    BY <1>1, <1>4, <2>1, <2>7, <2>8, <2>9, ZenonT(60) DEF Astray
  <2> QED BY <1>1, <1>2, <1>4, <2>5, <2>10 DEF DInv
<1> QED BY <1>2, <1>8, <1>9

(* So do the other steps.                                                  *)
LEMMA OtherStepsKeep ==
  ASSUME DInv, IInv', TInv', EncodeByte \/ EncodeEnd \/ DecodeEnd \/ Returned \/ UNCHANGED vars
  PROVE  DInv'
<1>1. TInv /\ IInv
  BY DEF DInv
<1>2. CASE EncodeByte
  <2>1. /\ pc = "encode" /\ pc' \in {"encode", "returned"}
        /\ UNCHANGED <<xor, size, k, o_c, c_tmp, out>>
    BY <1>2 DEF EncodeByte, decoder
  <2>2. BlockSize' = BlockSize
    BY <2>1 DEF BlockSize
  <2> QED BY <2>1, <2>2 DEF DInv
<1>3. CASE EncodeEnd
  <2>1. /\ pc = "encode" /\ i = BlockSize /\ pc' \in {"decode", "returned"}
        /\ UNCHANGED <<xor, tokens, k, o_c, c_tmp, out>>
    BY <1>3 DEF EncodeEnd, encoder, decoder
  <2>2. pc' = "decode" <=> size' > 0
    <3> DEFINE bytes == bits \div 8 + (IF bits % 8 # 0 THEN 1 ELSE 0)
    <3>1. bytes \in Nat
      BY <1>1 DEF TInv, TypeOK
    <3>2. \/ size' = size /\ pc' = "returned"
          \/ size' = bytes + 1 /\ pc' = "decode"
          \/ size' = -1 /\ pc' = "returned"
      BY <1>3 DEF EncodeEnd
    <3> HIDE DEF bytes
    <3> QED BY <2>1, <3>1, <3>2 DEF DInv
  <2>3. /\ BlockSize' = BlockSize /\ Covered(tokens)' = Covered(tokens)
        /\ StartsAt(1)' = StartsAt(1)
    BY <2>1 DEF BlockSize, Covered, StartsAt
  <2>4. Covered(tokens) = BlockSize
    BY <1>1, <2>1 DEF IInv, PrefixEncoded
  <2>5. StartsAt(1) = 0 /\ Len(tokens) \in Nat /\ BlockSize \in Nat
    BY <1>1, <2>4, TokenFacts
  <2>6. /\ k = 1 /\ o_c = 0 /\ c_tmp = 0 /\ out = [j \in 0..(BlockSize - 1) |-> Old]
    BY <2>1 DEF DInv
  <2>7. DOMAIN out = 0..(BlockSize - 1) /\ \A j \in 0..(BlockSize - 1) : out[j] = Old /\ ~(j < 0)
    BY <2>5, <2>6
  <2>8. InStep'
    <3>1. 1 <= Len(tokens) + 1 /\ 1..(1 - 1) = {} /\ ~(1 > 1)
      BY <2>5
    <3> QED BY <2>1, <2>3, <2>5, <2>6, <2>7, <3>1 DEF InStep
  <2> QED BY <2>1, <2>2, <2>3, <2>4, <2>7, <2>8 DEF DInv
<1>4. CASE DecodeEnd \/ Returned \/ UNCHANGED vars
  <2>1. UNCHANGED <<xor, tokens, size, used, k, o_c, c_tmp, out>>
    BY <1>4 DEF DecodeEnd, Returned, vars, encoder, decoder
  <2>2. \/ pc' = pc
        \/ pc = "decode" /\ pc' = "returned" /\ (o_c >= BlockSize \/ IsEndMark(HeadToken))
    BY <1>4 DEF DecodeEnd, Returned, vars
  <2>3. /\ BlockSize' = BlockSize /\ Covered(tokens)' = Covered(tokens)
        /\ InStep' = InStep /\ Astray' = Astray /\ HeadToken' = HeadToken
        /\ IsEndMark(HeadToken)' = IsEndMark(HeadToken)
    BY <2>1 DEF BlockSize, Covered, InStep, Astray, HeadToken, IsEndMark, StartsAt, Stops,
                EndMarks, Beyond
  <2> QED BY <2>1, <2>2, <2>3 DEF DInv
<1> QED BY <1>2, <1>3, <1>4

(* The least element of a set is the one below all others.                 *)
LEMMA MinIs ==
  ASSUME NEW S \in SUBSET Int, NEW m \in S, \A n \in S : m <= n
  PROVE  Min(S) = m
<1>1. Min(S) \in S /\ \A n \in S : Min(S) <= n
  BY DEF Min
<1>2. Min(S) <= m /\ m <= Min(S)
  BY <1>1
<1>3. Min(S) \in Int /\ m \in Int
  BY <1>1
<1> QED BY <1>2, <1>3

(* What the invariant says of a decoding that has ended.                   *)
LEMMA DecodedWell ==
  ASSUME DInv
  PROVE  DecodesUntilStopped
<1> SUFFICES ASSUME pc = "returned", size > 0
             PROVE  /\ DOMAIN out = 0..(BlockSize - 1)
                    /\ \A j \in 0..(DecodedTo - 1) : out[j] = xor[j + 1]
                    /\ EndMarks # {} /\ Beyond = {} =>
                          \A j \in DecodedTo..(BlockSize - 1) : out[j] = Old
  BY DEF DecodesUntilStopped
<1>1. /\ TInv /\ IInv /\ Covered(tokens) = BlockSize
      /\ DOMAIN out = 0..(BlockSize - 1) /\ (InStep \/ Astray)
      /\ o_c >= BlockSize \/ IsEndMark(HeadToken)
  BY DEF DInv
<1>2. /\ BlockSize \in Nat /\ Len(tokens) \in Nat /\ k \in Nat /\ k >= 1 /\ o_c \in Nat
      /\ DOMAIN tokens = 1..Len(tokens)
  BY <1>1, TokenFacts, LenProperties DEF TInv, TypeOK
<1>3. Stops \subseteq 1..Len(tokens)
  BY <1>2 DEF Stops, EndMarks, Beyond
<1>4. ASSUME NEW n \in Stops, \A m \in 1..(n - 1) : m \notin Stops
      PROVE  DecodedTo = tokens[n].at
  <2>1. n \in Int /\ n >= 1 /\ Stops \subseteq Int
    BY <1>2, <1>3
  <2>2. \A m \in Stops : n <= m
    BY <1>2, <1>3, <1>4, <2>1
  <2>3. Min(Stops) = n
    BY <2>1, <2>2, MinIs
  <2> QED BY <2>3 DEF DecodedTo, Stops
<1>5. CASE InStep /\ o_c < BlockSize
  <2>1. k \in 1..Len(tokens) /\ o_c = tokens[k].at /\ k \in Stops
    BY <1>1, <1>2, <1>5, HeadInStep DEF Stops
  <2>2. DecodedTo = o_c
    BY <1>4, <1>5, <2>1 DEF InStep
  <2>3. \A j \in 0..(o_c - 1) : j \in 0..(BlockSize - 1) /\ j < o_c
    BY <1>2, <1>5
  <2>4. \A j \in o_c..(BlockSize - 1) : j \in 0..(BlockSize - 1) /\ ~(j < o_c)
    BY <1>2, <1>5
  <2> QED BY <1>1, <1>5, <2>2, <2>3, <2>4 DEF InStep
<1>6. CASE InStep /\ ~(o_c < BlockSize)
  <2>1. k = Len(tokens) + 1
    <3>1. k <= Len(tokens) + 1 /\ o_c = StartsAt(k)
      BY <1>6 DEF InStep
    <3>2. k \notin 1..Len(tokens)
      <4> SUFFICES ASSUME k \in 1..Len(tokens) PROVE FALSE
        OBVIOUS
      <4>1. /\ o_c = tokens[k].at /\ tokens[k].at \in Nat /\ tokens[k].len \in Nat
            /\ tokens[k].at + tokens[k].len < BlockSize
        BY <1>1, <3>1, TokenFacts
      <4> QED BY <1>2, <1>6, <4>1
    <3> QED BY <1>2, <3>1, <3>2
  <2>2. Stops = {}
    <3>1. k - 1 = Len(tokens)
      BY <1>2, <2>1
    <3> QED BY <1>3, <1>6, <3>1 DEF InStep
  <2>3. DecodedTo = BlockSize /\ EndMarks = {}
    BY <2>2 DEF DecodedTo, Stops
  <2>4. \A j \in 0..(BlockSize - 1) : j < o_c
    BY <1>2, <1>6
  <2> QED BY <1>1, <1>6, <2>3, <2>4 DEF InStep
<1>7. CASE Astray
  <2>1. PICK n \in 1..(k - 1) :
           /\ n \in Beyond /\ \A m \in 1..(n - 1) : m \notin Stops
           /\ \A j \in 0..(tokens[n].at - 1) : out[j] = xor[j + 1]
    BY <1>7 DEF Astray
  <2>2. DecodedTo = tokens[n].at
    BY <1>4, <2>1 DEF Stops
  <2> QED BY <1>1, <2>1, <2>2
<1> QED BY <1>1, <1>5, <1>6, <1>7

(* decode_packed of what delta_packed wrote, for every block of at most    *)
(* 256 bytes: up to the first token that looks like an end mark or that    *)
(* the length byte does not reach, the block comes back to the byte; there *)
(* is nothing else that goes wrong, and nothing is written behind it.      *)
THEOREM DecodesThePrefix ==
  ASSUME ShortInputs
  PROVE  Spec => []DecodesUntilStopped
<1>1. Init => DInv
  <2> SUFFICES ASSUME Init PROVE DInv
    OBVIOUS
  <2>1. TInv /\ IInv
    BY InitIInv, InitTInv
  <2> QED BY <2>1 DEF Init, DInv
<1>2. DInv /\ [Next]_vars => DInv'
  <2> SUFFICES ASSUME DInv, [Next]_vars PROVE DInv'
    OBVIOUS
  <2>1. IInv /\ TInv
    BY DEF DInv
  <2>2. IInv' /\ TInv'
    BY <2>1, EncodeByteKeeps, RestKeeps, NextType DEF Next
  <2> QED BY <2>2, DecodeTokenKeeps, OtherStepsKeep DEF Next
<1>3. DInv => DecodesUntilStopped
  BY DecodedWell
<1> QED BY <1>1, <1>2, <1>3, PTL DEF Spec

(* Without end marks and with all of the stream in reach of the length     *)
(* byte, decoding a delta gives back the block it was made from.           *)
THEOREM RoundTripUnlessStopped ==
  ASSUME ShortInputs
  PROVE  Spec => [](EndMarks \cup Beyond = {} => RoundTrip)
<1>1. DecodesUntilStopped => (EndMarks \cup Beyond = {} => RoundTrip)
  BY DEF DecodesUntilStopped, RoundTrip, DecodedTo
<1> QED BY <1>1, DecodesThePrefix, PTL

-----------------------------------------------------------------------------
(* The size of the encoding *)

(* What the run that starts with byte j adds to the encoding.              *)
StartBits(j) == IF j \in RunStarts THEN RunBits(RunLength(j), xor[j]) ELSE 0

(* The bits of the runs that start within the first j bytes.               *)
RunSums == [j \in 0..BlockSize |-> SumUpTo(j, RunWidths)]

(* The least element of a set of naturals.                                 *)
LEMMA MinIsLeast ==
  ASSUME NEW S \in SUBSET Nat, S # {}
  PROVE  Min(S) \in S /\ \A n \in S : Min(S) <= n
<1>1. \E m \in S : \A n \in S : m <= n
  BY LeastNatural
<1> QED BY <1>1 DEF Min

(* A run is at least one byte long and needs at least two bits.            *)
LEMMA StartBitsType ==
  ASSUME xor \in Inputs, NEW j \in 1..BlockSize
  PROVE  StartBits(j) \in Nat
<1> DEFINE S == {n \in RunStarts : n > j} \cup {BlockSize + 1}
           l == RunLength(j)
<1>1. BlockSize \in Nat
  BY InputFacts
<1>2. S \in SUBSET Nat /\ S # {} /\ \A n \in S : n > j
  BY <1>1 DEF RunStarts
<1>3. l = Min(S) - j
  BY DEF RunLength
<1> HIDE DEF S, l
<1>4. l \in Nat
  <2>1. Min(S) \in S
    BY <1>2, MinIsLeast
  <2>2. Min(S) \in Nat /\ Min(S) > j
    BY <1>2, <2>1
  <2> QED BY <1>3, <2>2
<1>5. RunBits(l, xor[j]) \in Nat
  BY <1>4 DEF RunBits
<1> QED BY <1>5 DEF StartBits, l

(* The sums of the input.                                                  *)
LEMMA RunSumsFacts ==
  ASSUME xor \in Inputs
  PROVE  /\ RunSums \in [0..BlockSize -> Nat] /\ RunSums[0] = 0
         /\ RunSums[BlockSize] = InputBits
         /\ \A j \in 1..BlockSize : RunSums[j] = RunSums[j - 1] + StartBits(j)
<1> DEFINE n == BlockSize
           g == RunWidths
           f == RunSums
<1>1. n \in Nat
  BY InputFacts
<1>2. \A j \in 1..n : g[j] = StartBits(j) /\ StartBits(j) \in Nat
  <2>1. \A j \in 1..n : StartBits(j) \in Nat
    BY StartBitsType
  <2>2. \A j \in 1..n : g[j] = StartBits(j)
    BY DEF RunWidths, StartBits
  <2> QED BY <2>1, <2>2
<1> HIDE DEF g
<1>3. /\ \A j \in 0..n : SumUpTo(j, g) \in Int
      /\ \A j \in 1..n : SumUpTo(j, g) = SumUpTo(j - 1, g) + g[j]
      /\ SumUpTo(0, g) = 0
  <2>1. \A j \in 0..n : \A m \in 1..j : g[m] \in Int
    BY <1>1, <1>2
  <2>2. \A j \in 0..n : j \in Nat
    BY <1>1
  <2>3. 0 \in 0..n /\ \A j \in 1..n : j \in 0..n /\ j # 0
    BY <1>1
  <2> HIDE DEF n
  <2>4. \A j \in 0..n : /\ SumUpTo(j, g) \in Int
                        /\ j = 0 => SumUpTo(j, g) = 0
                        /\ j # 0 => SumUpTo(j, g) = SumUpTo(j - 1, g) + g[j]
    BY <2>1, <2>2, SumStep
  <2> QED BY <2>3, <2>4
<1>4. f = [j \in 0..n |-> SumUpTo(j, g)]
  BY DEF RunSums, g
<1>5. InputBits = SumUpTo(n, g)
  BY DEF InputBits, g
<1> HIDE DEF n, f
<1>6. /\ f[0] = 0 /\ f[n] = InputBits
      /\ \A j \in 1..n : f[j] = f[j - 1] + g[j]
      /\ \A j \in 0..n : f[j] \in Int
  <2>1. n \in 0..n /\ 0 \in 0..n /\ \A j \in 1..n : j \in 0..n /\ j - 1 \in 0..n
    BY <1>1
  <2> QED BY <1>3, <1>4, <1>5, <2>1
<1>7. \A j \in 0..n : f[j] \in Nat
  <2> DEFINE Bad == {j \in 0..n : f[j] \notin Nat}
  <2> SUFFICES ASSUME Bad # {} PROVE FALSE
    OBVIOUS
  <2>1. Bad \in SUBSET Nat
    BY <1>1
  <2>2. PICK j \in Bad : \A m \in Bad : j <= m
    <3> HIDE DEF Bad
    <3> QED BY <2>1, LeastNatural
  <2>3. j # 0
    BY <2>2, <1>6
  <2>4. j \in 1..n /\ j - 1 \in 0..n /\ j - 1 \notin Bad
    BY <1>1, <2>2, <2>3
  <2> QED BY <1>2, <1>6, <2>2, <2>4
<1>8. f \in [0..n -> Nat]
  BY <1>4, <1>7
<1> QED BY <1>2, <1>6, <1>8 DEF n, f

(* The sums grow.                                                          *)
LEMMA SumsGrow ==
  ASSUME xor \in Inputs, NEW j \in 0..BlockSize
  PROVE  RunSums[j] <= InputBits
<1> DEFINE n == BlockSize
           f == RunSums
<1>1. n \in Nat
  BY InputFacts
<1>2. f \in [0..n -> Nat] /\ f[n] = InputBits /\ \A m \in 1..n : f[m] = f[m - 1] + StartBits(m)
  BY RunSumsFacts
<1>3. \A m \in 1..n : StartBits(m) \in Nat
  BY StartBitsType
<1> HIDE DEF n, f
<1> DEFINE Bad == {m \in 0..n : j <= m /\ ~(f[j] <= f[m])}
<1>4. Bad = {}
  <2> SUFFICES ASSUME Bad # {} PROVE FALSE
    OBVIOUS
  <2>1. Bad \in SUBSET Nat
    BY <1>1
  <2>2. PICK m \in Bad : \A r \in Bad : m <= r
    <3> HIDE DEF Bad
    <3> QED BY <2>1, LeastNatural
  <2>3. j \in 0..n
    BY DEF n
  <2>4. m \in 0..n /\ j <= m /\ ~(f[j] <= f[m]) /\ f[j] \in Nat /\ f[m] \in Nat
    BY <1>2, <2>2, <2>3
  <2>5. m # j
    BY <2>4
  <2>6. m \in 1..n /\ m - 1 \in 0..n /\ j <= m - 1 /\ m - 1 \notin Bad
    BY <1>1, <2>2, <2>3, <2>4, <2>5
  <2>7. f[j] <= f[m - 1] /\ f[m - 1] \in Nat
    BY <1>2, <2>6
  <2> QED BY <1>2, <1>3, <2>4, <2>6, <2>7
<1>5. j <= n /\ n \in 0..n
  BY <1>1 DEF n
<1> QED BY <1>2, <1>4, <1>5 DEF f

(* A run adds its bits where it starts, and the bytes that follow in it    *)
(* add nothing.                                                            *)
LEMMA RunAdds ==
  ASSUME xor \in Inputs, NEW s \in RunStarts, NEW n \in Nat, n >= 1, NEW val,
         s + n <= BlockSize + 1, \A j \in s..(s + n - 1) : xor[j] = val,
         s + n = BlockSize + 1 \/ s + n \in RunStarts
  PROVE  RunSums[s + n - 1] = RunSums[s - 1] + RunBits(n, val)
<1> DEFINE f == RunSums
           S == {r \in RunStarts : r > s} \cup {BlockSize + 1}
<1>1. BlockSize \in Nat /\ s \in 1..BlockSize
  BY InputFacts DEF RunStarts
<1>2. /\ f \in [0..BlockSize -> Nat]
      /\ \A m \in 1..BlockSize : f[m] = f[m - 1] + StartBits(m)
  BY RunSumsFacts
<1>3. \A r \in (s + 1)..(s + n - 1) : r \in 1..BlockSize /\ r \notin RunStarts
  <2> TAKE r \in (s + 1)..(s + n - 1)
  <2>1. r \in s..(s + n - 1) /\ r - 1 \in s..(s + n - 1) /\ r # 1 /\ r \in 1..BlockSize
    BY <1>1
  <2>2. xor[r] = val /\ xor[r - 1] = val
    BY <2>1
  <2> QED BY <2>1, <2>2 DEF RunStarts
<1>4. RunLength(s) = n
  <2>1. S \in SUBSET Int /\ s + n \in S
    BY <1>1 DEF RunStarts
  <2>2. \A r \in S : s + n <= r
    <3> TAKE r \in S
    <3>1. CASE r = BlockSize + 1
      BY <3>1
    <3>2. CASE r # BlockSize + 1
      <4>1. r \in RunStarts /\ r > s /\ r \in Int
        BY <2>1, <3>2
      <4>2. r \notin (s + 1)..(s + n - 1)
        BY <1>3, <4>1
      <4> QED BY <1>1, <4>1, <4>2
    <3> QED BY <3>1, <3>2
  <2> DEFINE e == s + n
  <2>3. RunLength(s) = Min(S) - s
    BY DEF RunLength
  <2> HIDE DEF S, e
  <2>4. Min(S) = e
    <3>1. S \in SUBSET Int /\ e \in S /\ \A r \in S : e <= r
      BY <2>1, <2>2 DEF e
    <3> QED BY <3>1, MinIs
  <2> QED BY <1>1, <2>3, <2>4 DEF e
<1>5. xor[s] = val
  <2>1. s \in s..(s + n - 1)
    BY <1>1
  <2> QED BY <2>1
<1>6. f[s] = f[s - 1] + RunBits(n, val)
  BY <1>1, <1>2, <1>4, <1>5 DEF StartBits
<1>7. \A r \in s..(s + n - 1) : r \in 0..BlockSize
  BY <1>1
<1> HIDE DEF f, S
<1>8. \A r \in s..(s + n - 1) : f[r] = f[s]
  <2> DEFINE Bad == {r \in s..(s + n - 1) : f[r] # f[s]}
  <2> SUFFICES ASSUME Bad # {} PROVE FALSE
    OBVIOUS
  <2>1. Bad \in SUBSET Nat
    BY <1>1
  <2>2. PICK r \in Bad : \A m \in Bad : r <= m
    <3> HIDE DEF Bad
    <3> QED BY <2>1, LeastNatural
  <2>3. r \in (s + 1)..(s + n - 1) /\ r - 1 \in s..(s + n - 1) /\ r - 1 \notin Bad
    BY <1>1, <2>2
  <2>4. f[r - 1] = f[s]
    BY <2>3
  <2>5. f[r] = f[r - 1] + StartBits(r) /\ StartBits(r) = 0
    BY <1>2, <1>3, <2>3 DEF StartBits
  <2>6. f[s] \in Nat
    BY <1>1, <1>2
  <2> QED BY <2>2, <2>4, <2>5, <2>6
<1>9. s + n - 1 \in s..(s + n - 1)
  BY <1>1
<1>10. f[s + n - 1] = f[s]
  BY <1>8, <1>9
<1> QED BY <1>6, <1>10 DEF f

(* A run packed takes RunBits bits.                                        *)
LEMMA PackAfterBits ==
  ASSUME NEW toks \in Seq(TokenType), NEW length \in Bytes, NEW delta \in Bytes
  PROVE  EndBit(PackAfter(toks, length, delta)) = EndBit(toks) + RunBits(length + 1, delta)
<1> DEFINE at == Covered(toks)
           bit == EndBit(toks)
           q == PackDelta(length, delta, at, bit)
           t == PackAfter(toks, length, delta)
<1>0. at \in Nat /\ bit \in Nat /\ length \in Nat
  BY EndsType, ByteFacts
<1>1. t = toks \o q
  BY DEF PackAfter
<1>2. q \in Seq(TokenType) /\ Len(q) \in Nat /\ Len(q) >= 1
  <2>1. q = PackDelta(length, delta, at, bit)
    OBVIOUS
  <2> HIDE DEF at, bit, q
  <2>2. IsRun(q, length, delta, at, bit)
    BY <1>0, <2>1, PackDeltaFacts
  <2>3. q \in Seq(TokenType) /\ Len(q) >= 1
    BY <2>2 DEF IsRun
  <2> QED BY <2>3, LenProperties
<1>3. t # <<>> /\ t[Len(t)] = q[Len(q)]
  <2> HIDE DEF q, t
  <2>1. Len(t) = Len(toks) + Len(q) /\ Len(toks) \in Nat /\ t \in Seq(TokenType)
    BY <1>1, <1>2, ConcatProperties, LenProperties
  <2>2. t[Len(toks) + Len(q)] = q[Len(q)]
    BY <1>1, <1>2, <2>1, ConcatProperties
  <2>3. t # <<>>
    BY <1>2, <2>1
  <2> QED BY <2>1, <2>2, <2>3
<1>4. EndBit(t) = q[Len(q)].bit + Width(q[Len(q)].kind)
  <2> HIDE DEF q, t
  <2> QED BY <1>3 DEF EndBit
<1> HIDE DEF at, bit
<1>5. CASE delta = 0 /\ length < 7
  <2> DEFINE tok(n) == Token(0, 0, 0, at + n - 1, bit + 2 * (n - 1))
  <2>1. q = [n \in 1..(length + 1) |-> tok(n)]
    BY <1>5 DEF PackDelta
  <2> HIDE DEF tok
  <2>2. Len(q) = length + 1
    BY <1>0, <1>2, <2>1, LenProperties
  <2>3. q[Len(q)] = tok(length + 1)
    BY <1>0, <2>1, <2>2
  <2>4. q[Len(q)].bit = bit + 2 * ((length + 1) - 1) /\ q[Len(q)].kind = 0
    BY <2>3 DEF tok, Token
  <2>5. Width(0) = 2 /\ RunBits(length + 1, delta) = 2 * (length + 1)
    BY <1>0, <1>5 DEF Width, RunBits
  <2> HIDE DEF q, t
  <2> QED BY <1>0, <1>4, <2>4, <2>5 DEF t, bit
<1>6. CASE ~(delta = 0 /\ length < 7)
  <2> DEFINE kind == IF length = 0 THEN 1 ELSE IF length <= 15 THEN 2 ELSE 3
             tok == Token(kind, length, delta, at, bit)
  <2>1. q = <<tok>>
    BY <1>6 DEF PackDelta
  <2>2. q[Len(q)] = tok
    BY <2>1
  <2>3. tok.bit = bit /\ tok.kind = kind
    BY DEF Token
  <2> HIDE DEF tok, q, t
  <2>4. ~(delta = 0 /\ length + 1 <= 7)
    BY <1>0, <1>6
  <2>5. Width(kind) = IF length = 0 THEN 10 ELSE IF length <= 15 THEN 14 ELSE 18
    BY DEF Width
  <2>6. RunBits(length + 1, delta) = Width(kind)
    BY <1>0, <2>4, <2>5 DEF RunBits
  <2> QED BY <1>4, <2>2, <2>3, <2>6 DEF t, bit
<1> QED BY <1>5, <1>6


(* They are those of the input, which no step changes.                     *)
LEMMA SumsSame ==
  ASSUME xor' = xor
  PROVE  /\ InputBits' = InputBits /\ RunSums' = RunSums /\ RunStarts' = RunStarts
         /\ Changed' = Changed /\ BlockSize' = BlockSize
<1>1. BlockSize' = BlockSize
  BY DEF BlockSize
<1>2. RunStarts' = RunStarts
  BY <1>1 DEF RunStarts
<1>3. Changed' = Changed
  BY <1>1 DEF Changed
<1>4. \A j : RunLength(j)' = RunLength(j)
  <2> TAKE j
  <2> DEFINE S == {n \in RunStarts : n > j} \cup {BlockSize + 1}
  <2>1. S' = S
    BY <1>1, <1>2
  <2>2. RunLength(j) = Min(S) - j /\ RunLength(j)' = Min(S') - j
    BY DEF RunLength
  <2> HIDE DEF S
  <2> QED BY <2>1, <2>2
<1>5. RunWidths' = RunWidths
  BY <1>1, <1>2, <1>4 DEF RunWidths, RunBits
<1>6. RunSums' = RunSums
  BY <1>1, <1>5 DEF RunSums
<1>7. InputBits' = InputBits
  BY <1>1, <1>5 DEF InputBits
<1> QED BY <1>1, <1>2, <1>3, <1>6, <1>7


-----------------------------------------------------------------------------
(* The answer of delta_packed, for blocks of at most 256 bytes *)

(* What delta_packed has to answer.                                        *)
Answer ==
    LET fits == IF lim = 0 THEN InputBits % 8 = 0 ELSE InputBytes + 1 <= lim
    IN  IF ~fits THEN 0 ELSE IF ~Changed THEN -1 ELSE InputBytes + 1

(* What it relies on while it packs: the tokens take the bits of the runs  *)
(* they cover, and the next one starts where a run starts.                 *)
Packs ==
    /\ size = 0 /\ DumpFits(bits)
    /\ bits = EndBit(tokens) /\ EndBit(tokens) = RunSums[Covered(tokens)]
    /\ i < BlockSize => Covered(tokens) + 1 \in RunStarts

AInv ==
    /\ TInv /\ IInv
    /\ pc = "encode" => Packs
    /\ pc # "encode" => size = Answer

(* When the loop packs, a run ends before this byte or the block with it.  *)
LEMMA PackedFromStart ==
  ASSUME AInv, ShortInputs, pc = "encode", i < BlockSize,
         NEW delta, delta = xor[i + 1],
         NEW run, run = (IF delta = last_d THEN count + 1 ELSE count),
         delta # last_d \/ i = BlockSize - 1 \/ run = MaxRun
  PROVE  /\ delta = last_d => i = BlockSize - 1
         /\ delta # last_d => i + 1 \in RunStarts
<1>1. /\ BlockSize \in Nat /\ i \in Nat /\ count \in Nat /\ BlockSize <= MaxRun
      /\ MaxRun \in Nat /\ tokens \in Seq(TokenType)
  BY InputFacts, ByteFacts DEF AInv, IInv, EncoderType, ShortInputs, BlockSize
<1>2. /\ Covered(tokens) + count = i /\ Covered(tokens) \in Nat
      /\ \A j \in (Covered(tokens) + 1)..i : xor[j] = last_d
  BY <1>1, EndsType DEF AInv, IInv, PrefixEncoded
<1>3. delta = last_d => i = BlockSize - 1
  BY <1>1, <1>2
<1>4. ASSUME delta # last_d PROVE i + 1 \in RunStarts
  <2>1. CASE count = 0
    BY <1>1, <1>2, <2>1 DEF AInv, Packs
  <2>2. CASE count # 0
    <3>1. i \in (Covered(tokens) + 1)..i
      BY <1>1, <1>2, <2>2
    <3>2. xor[i] = last_d /\ xor[i] # xor[i + 1]
      BY <1>2, <1>4, <3>1
    <3>3. i + 1 \in 1..BlockSize /\ (i + 1) - 1 = i
      BY <1>1
    <3> QED BY <3>2, <3>3 DEF RunStarts
  <2> QED BY <2>1, <2>2
<1> QED BY <1>3, <1>4

(* The run that is packed adds what it takes.                              *)
LEMMA FirstPackedBits ==
  ASSUME AInv, ShortInputs, pc = "encode", i < BlockSize,
         NEW delta, delta = xor[i + 1],
         NEW run, run = (IF delta = last_d THEN count + 1 ELSE count),
         NEW one, one = IF run > 0 THEN PackAfter(tokens, run - 1, last_d) ELSE tokens,
         delta # last_d \/ i = BlockSize - 1 \/ run = MaxRun
  PROVE  EndBit(one) = RunSums[Covered(one)]
<1>1. /\ BlockSize \in Nat /\ i \in Nat /\ count \in Nat /\ last_d \in Bytes
      /\ tokens \in Seq(TokenType) /\ BlockSize <= MaxRun /\ MaxRun \in Nat
      /\ xor \in Inputs
  BY InputFacts, ByteFacts DEF AInv, IInv, EncoderType, ShortInputs, BlockSize
<1>2. /\ Covered(tokens) + count = i /\ Covered(tokens) \in Nat
      /\ \A j \in (Covered(tokens) + 1)..i : xor[j] = last_d
  BY <1>1, EndsType DEF AInv, IInv, PrefixEncoded
<1>3. EndBit(tokens) = RunSums[Covered(tokens)] /\ Covered(tokens) + 1 \in RunStarts
  BY <1>1 DEF AInv, Packs
<1>4. CASE run > 0
  <2> DEFINE length == run - 1
             s == Covered(tokens) + 1
             c == Covered(one)
  <2>1. length \in Nat /\ length < MaxRun /\ run \in Nat /\ run >= 1
    BY <1>1, <1>2, <1>4
  <2>2. length \in Bytes
    BY <2>1, ByteFacts
  <2>3. one = PackAfter(tokens, length, last_d)
    BY <1>4
  <2>4. c = IF delta = last_d THEN i + 1 ELSE i
    <3> HIDE DEF c
    <3>1. IInv
      BY DEF AInv
    <3> QED BY <3>1, FirstPacked, Zenon DEF c
  <2>5. c = s + run - 1 /\ s - 1 = Covered(tokens) /\ length + 1 = run
    BY <1>1, <1>2, <2>4
  <2>6. \A j \in s..(s + run - 1) : xor[j] = last_d
    <3> TAKE j \in s..(s + run - 1)
    <3>1. CASE j <= i
      BY <1>1, <1>2, <3>1
    <3>2. CASE ~(j <= i)
      BY <1>1, <1>2, <3>2
    <3> QED BY <3>1, <3>2
  <2>7. s + run = BlockSize + 1 \/ s + run \in RunStarts
    <3>1. /\ delta = last_d => i = BlockSize - 1
          /\ delta # last_d => i + 1 \in RunStarts
      BY PackedFromStart
    <3> QED BY <1>1, <1>2, <3>1
  <2>8. s + run <= BlockSize + 1
    BY <1>1, <1>2
  <2>9. EndBit(one) = EndBit(tokens) + RunBits(length + 1, last_d)
    <3> HIDE DEF length
    <3> QED BY <1>1, <2>2, <2>3, PackAfterBits
  <2>10. s \in RunStarts
    BY <1>3
  <2> HIDE DEF s, c, length
  <2>11. RunSums[s + run - 1] = RunSums[s - 1] + RunBits(run, last_d)
    BY <1>1, <2>1, <2>6, <2>7, <2>8, <2>10, RunAdds
  <2> QED BY <1>3, <2>5, <2>9, <2>11 DEF c
<1>5. CASE ~(run > 0)
  BY <1>3, <1>5
<1> QED BY <1>4, <1>5

(* So do both runs when a last byte of its own is packed with it.          *)
LEMMA AllPackedBits ==
  ASSUME AInv, ShortInputs, pc = "encode", i < BlockSize,
         NEW delta, delta = xor[i + 1],
         NEW run, run = (IF delta = last_d THEN count + 1 ELSE count),
         NEW one, one = IF run > 0 THEN PackAfter(tokens, run - 1, last_d) ELSE tokens,
         NEW two, two = IF i = BlockSize - 1 /\ delta # last_d
                        THEN PackAfter(one, 0, delta) ELSE one,
         delta # last_d \/ i = BlockSize - 1 \/ run = MaxRun
  PROVE  EndBit(two) = RunSums[Covered(two)]
<1>1. IInv
  BY DEF AInv
<1>2. BlockSize \in Nat /\ i \in Nat /\ delta \in Bytes /\ xor \in Inputs
  BY InputFacts DEF AInv, IInv, EncoderType
<1>3. /\ one \in Seq(TokenType) /\ EndBit(one) = RunSums[Covered(one)]
      /\ Covered(one) = IF delta = last_d THEN i + 1 ELSE i
  <2>1. /\ one \in Seq(TokenType)
        /\ Covered(one) = IF delta = last_d THEN i + 1 ELSE i
    BY <1>1, FirstPacked
  <2>2. EndBit(one) = RunSums[Covered(one)]
    BY FirstPackedBits
  <2> QED BY <2>1, <2>2
<1>4. Covered(two) = IF i = BlockSize - 1 THEN BlockSize ELSE i
  BY <1>1, AllPacked
<1>5. CASE i = BlockSize - 1 /\ delta # last_d
  <2> DEFINE none == 0
             s == i + 1
             n == 1
  <2>1. two = PackAfter(one, none, delta) /\ none \in Bytes
    BY <1>5, ByteFacts
  <2>2. none + 1 = n /\ n \in Nat /\ n >= 1 /\ s + n - 1 = BlockSize /\ s - 1 = i
        /\ s + n = BlockSize + 1 /\ s + n <= BlockSize + 1
        /\ \A j \in s..(s + n - 1) : xor[j] = delta
    BY <1>2, <1>5
  <2>3. s \in RunStarts
    BY <1>5, PackedFromStart
  <2>4. Covered(one) = i /\ Covered(two) = BlockSize
    BY <1>3, <1>4, <1>5
  <2> HIDE DEF none, s, n
  <2>5. EndBit(two) = EndBit(one) + RunBits(none + 1, delta)
    BY <1>2, <1>3, <2>1, PackAfterBits
  <2>6. RunSums[s + n - 1] = RunSums[s - 1] + RunBits(n, delta)
    BY <1>2, <2>2, <2>3, RunAdds
  <2> QED BY <1>3, <2>2, <2>4, <2>5, <2>6
<1>6. CASE ~(i = BlockSize - 1 /\ delta # last_d)
  BY <1>3, <1>6
<1> QED BY <1>5, <1>6


(* Nothing is answered yet when the loop packs; when it gives up, it is    *)
(* because what is packed so far is too long already.                      *)
LEMMA EncodeByteAnswers ==
  ASSUME AInv, ShortInputs, EncodeByte
  PROVE  /\ pc' = "encode" => Packs'
         /\ pc' # "encode" => (size = Answer)'
<1> DEFINE delta == xor[i + 1]
           run   == IF delta = last_d THEN count + 1 ELSE count
           final == i = BlockSize - 1
           one   == IF run > 0 THEN PackAfter(tokens, run - 1, last_d) ELSE tokens
           two   == IF final /\ delta # last_d THEN PackAfter(one, 0, delta) ELSE one
           emit  == delta # last_d \/ final \/ run = MaxRun
<1>1. /\ pc = "encode" /\ i < BlockSize /\ i' = i + 1
      /\ xor' = xor /\ lim' = lim /\ size' = size
  BY DEF EncodeByte
<1>2. /\ InputBits' = InputBits /\ RunSums' = RunSums /\ RunStarts' = RunStarts
      /\ Changed' = Changed /\ BlockSize' = BlockSize
  BY <1>1, SumsSame
<1>3. /\ BlockSize \in Nat /\ i \in Nat /\ xor \in Inputs /\ lim \in Nat
      /\ size = 0 /\ Packs /\ IInv
  BY <1>1, InputFacts, DeltaCodecAssumption DEF AInv, TInv, TypeOK, Packs
<1>4. CASE emit
  <2>1. /\ tokens' = two /\ bits' = EndBit(two)
        /\ pc' = IF DumpFits(EndBit(two)) THEN "encode" ELSE "returned"
    BY <1>1, <1>4 DEF EncodeByte
  <2>2. EndBit(two) = RunSums[Covered(two)]
    BY <1>1, <1>4, AllPackedBits
  <2>3. Covered(two) = IF final THEN BlockSize ELSE i
    BY <1>1, <1>3, <1>4, AllPacked
  <2>4. ~final => i + 1 \in RunStarts
    BY <1>1, <1>4, PackedFromStart
  <2>5. EndBit(two) \in Nat /\ EndBit(two) <= InputBits /\ InputBits \in Nat
    <3> DEFINE c == Covered(two)
    <3>1. c \in 0..BlockSize /\ BlockSize \in 0..BlockSize
      BY <1>1, <1>3, <2>3
    <3> HIDE DEF c, two
    <3>2. RunSums[c] <= InputBits
      BY <1>3, <3>1, SumsGrow
    <3>3. RunSums[c] \in Nat /\ InputBits \in Nat
      BY <1>3, <3>1, RunSumsFacts
    <3> QED BY <2>2, <3>2, <3>3 DEF c
  <2> DEFINE end == EndBit(two)
  <2>6. final \/ i + 1 < BlockSize
    BY <1>1, <1>3
  <2>f. final => ~(i + 1 < BlockSize)
    BY <1>1, <1>3
  <2> HIDE DEF two, one, emit, run, delta, final
  <2>7. EndBit(tokens)' = EndBit(two) /\ Covered(tokens)' = Covered(two)
    BY <2>1 DEF EndBit, Covered
  <2>8. DumpFits(bits)' = DumpFits(end)
    BY <1>1, <2>1 DEF DumpFits
  <2>9. ASSUME pc' = "encode" PROVE Packs'
    <3>1. DumpFits(end)
      BY <2>1, <2>9
    <3> HIDE DEF end
    <3>2. /\ (size = 0)' /\ DumpFits(bits)'
      BY <1>1, <1>3, <2>8, <3>1
    <3>3. /\ bits' = EndBit(tokens)' /\ EndBit(tokens)' = RunSums'[Covered(tokens)']
      BY <1>2, <2>1, <2>2, <2>7
    <3>4. i' < BlockSize' => Covered(tokens)' + 1 \in RunStarts'
      BY <1>1, <1>2, <2>3, <2>4, <2>6, <2>7, <2>f
    <3> QED BY <3>2, <3>3, <3>4 DEF Packs
  <2>10. ASSUME pc' # "encode" PROVE (size = Answer)'
    <3>1. ~DumpFits(end)
      BY <2>1, <2>10
    <3>2. end \in Nat /\ end <= InputBits /\ InputBits \in Nat
      BY <2>5
    <3> HIDE DEF end
    <3>3. lim # 0 /\ ~((InputBits + 7) \div 8 + 1 <= lim)
      BY <1>3, <3>1, <3>2 DEF DumpFits
    <3>4. Answer' = 0
      BY <1>1, <1>2, <3>3 DEF Answer, InputBytes
    <3> QED BY <1>1, <1>3, <3>4
  <2> QED BY <2>9, <2>10
<1>5. CASE ~emit
  <2>1. tokens' = tokens /\ bits' = bits /\ pc' = pc
    BY <1>5 DEF EncodeByte
  <2>2. EndBit(tokens)' = EndBit(tokens) /\ Covered(tokens)' = Covered(tokens)
    BY <2>1 DEF EndBit, Covered
  <2>3. DumpFits(bits)' = DumpFits(bits)
    BY <1>1, <2>1 DEF DumpFits
  <2>4. Packs'
    BY <1>1, <1>2, <1>3, <2>1, <2>2, <2>3 DEF Packs
  <2> QED BY <1>1, <2>1, <2>4
<1> QED BY <1>4, <1>5

(* The end of the loop gives the answer.                                   *)
LEMMA EncodeEndAnswers ==
  ASSUME AInv, EncodeEnd
  PROVE  (size = Answer)'
<1> DEFINE partial == bits % 8 # 0
           bytes   == bits \div 8 + (IF partial THEN 1 ELSE 0)
           fits    == ~partial \/ bits \div 8 + 2 <= lim
<1>1. /\ pc = "encode" /\ i = BlockSize /\ xor' = xor /\ lim' = lim
      /\ size' = IF fits THEN IF Changed THEN bytes + 1 ELSE -1 ELSE size
  BY DEF EncodeEnd
<1>2. InputBits' = InputBits /\ Changed' = Changed
  BY <1>1, SumsSame
<1>3. /\ xor \in Inputs /\ lim \in Nat /\ size = 0 /\ DumpFits(bits)
      /\ bits \in Nat /\ bits = RunSums[Covered(tokens)]
  BY <1>1, DeltaCodecAssumption DEF AInv, TInv, TypeOK, Packs
<1>4. bits = InputBits
  <2>1. Covered(tokens) = BlockSize
    BY <1>1 DEF AInv, IInv, PrefixEncoded
  <2> QED BY <1>3, <2>1, RunSumsFacts
<1>5. Answer' = Answer
  BY <1>1, <1>2 DEF Answer, InputBytes
<1>6. bytes = (bits + 7) \div 8
  <2>1. CASE partial
    <3>1. (bits + 7) \div 8 = bits \div 8 + 1
      BY <1>3, <2>1
    <3> QED BY <2>1, <3>1
  <2>2. CASE ~partial
    <3>1. (bits + 7) \div 8 = bits \div 8
      BY <1>3, <2>2
    <3> QED BY <1>3, <2>2, <3>1
  <2> QED BY <2>1, <2>2
<1>7. lim = 0 \/ bits \div 8 <= lim - 1
  BY <1>3 DEF DumpFits
<1>8. fits = IF lim = 0 THEN bits % 8 = 0 ELSE (bits + 7) \div 8 + 1 <= lim
  <2>1. CASE lim = 0
    BY <1>3, <2>1
  <2>2. CASE lim # 0
    BY <1>3, <1>7, <2>2
  <2> QED BY <2>1, <2>2
<1> HIDE DEF fits, bytes
<1>9. Answer = IF ~fits THEN 0 ELSE IF ~Changed THEN -1 ELSE bytes + 1
  BY <1>4, <1>6, <1>8 DEF Answer, InputBytes
<1> QED BY <1>1, <1>3, <1>5, <1>9

(* After that it stands.                                                   *)
LEMMA RestAnswers ==
  ASSUME AInv, DecodeToken \/ DecodeEnd \/ Returned \/ UNCHANGED vars
  PROVE  /\ pc' = "encode" => Packs'
         /\ pc' # "encode" => (size = Answer)'
<1>1. UNCHANGED <<xor, lim, encoder, size>>
  BY DEF DecodeToken, DecodeEnd, Returned, vars
<1>2. /\ InputBits' = InputBits /\ RunSums' = RunSums /\ RunStarts' = RunStarts
      /\ Changed' = Changed /\ BlockSize' = BlockSize
  BY <1>1, SumsSame
<1>3. pc' = "encode" <=> pc = "encode"
  BY DEF DecodeToken, DecodeEnd, Returned, vars
<1>4. EndBit(tokens)' = EndBit(tokens) /\ Covered(tokens)' = Covered(tokens)
      /\ DumpFits(bits)' = DumpFits(bits) /\ Answer' = Answer
  BY <1>1, <1>2 DEF EndBit, Covered, DumpFits, Answer, InputBytes, encoder
<1>5. Packs' = Packs
  BY <1>1, <1>2, <1>4 DEF Packs, encoder
<1> QED BY <1>1, <1>3, <1>4, <1>5 DEF AInv

(* delta_packed answers what zapi_update_block takes it to answer, for     *)
(* every block of at most 256 bytes and every limit: 0 exactly when the    *)
(* encoding and its length byte are longer than the limit (with no limit,  *)
(* when its last byte is not full), whichever of the three checks notices, *)
(* -1 when nothing changed, else the length, to the byte.                  *)
THEOREM AnswerCorrect ==
  ASSUME ShortInputs
  PROVE  Spec => []AnswerIsExact
<1>1. Init => AInv
  <2> SUFFICES ASSUME Init PROVE AInv
    OBVIOUS
  <2>1. TInv /\ IInv
    BY InitTInv, InitIInv
  <2>2. /\ xor \in Inputs /\ lim \in Nat /\ size = 0 /\ bits = 0 /\ tokens = <<>>
        /\ pc = "encode"
    BY DeltaCodecAssumption DEF Init
  <2>3. BlockSize \in Nat /\ BlockSize >= 1 /\ RunSums[0] = 0
    BY <2>2, InputFacts, RunSumsFacts
  <2>4. EndBit(tokens) = 0 /\ Covered(tokens) = 0
    BY <2>2 DEF EndBit, Covered
  <2>5. 1 \in RunStarts
    BY <2>3 DEF RunStarts
  <2>6. DumpFits(bits)
    BY <2>2 DEF DumpFits
  <2>7. Covered(tokens) + 1 = 1
    BY <2>4
  <2>8. Packs
    BY <2>2, <2>3, <2>4, <2>5, <2>6, <2>7 DEF Packs
  <2> QED BY <2>1, <2>2, <2>8 DEF AInv
<1>2. AInv /\ [Next]_vars => AInv'
  <2> SUFFICES ASSUME AInv, [Next]_vars PROVE AInv'
    OBVIOUS
  <2>1. TInv'
    BY NextType DEF AInv
  <2>2. IInv'
    BY EncodeByteKeeps, RestKeeps DEF AInv, Next
  <2>3. /\ pc' = "encode" => Packs'
        /\ pc' # "encode" => (size = Answer)'
    <3>1. CASE EncodeByte
      BY <3>1, EncodeByteAnswers
    <3>2. CASE EncodeEnd
      <4>1. pc' # "encode"
        BY <3>2 DEF EncodeEnd
      <4> QED BY <3>2, <4>1, EncodeEndAnswers
    <3>3. CASE DecodeToken \/ DecodeEnd \/ Returned \/ UNCHANGED vars
      BY <3>3, RestAnswers
    <3> QED BY <3>1, <3>2, <3>3 DEF Next
  <2> QED BY <2>1, <2>2, <2>3 DEF AInv
<1>3. AInv => AnswerIsExact
  BY DEF AInv, AnswerIsExact, Answer
<1> QED BY <1>1, <1>2, <1>3, PTL DEF Spec
=============================================================================
