----------------------------- MODULE DeltaCodec -----------------------------
(***************************************************************************)
(* The delta code of src/src/zapi.c: delta_packed writes the XOR of two    *)
(* blocks as run-length tokens, decode_packed writes the block back.       *)
(*                                                                         *)
(* One behaviour is one encoding of a block of XOR bytes and, when it      *)
(* succeeds, one decoding of the result.  The stream is kept as its tokens *)
(* and not as bits: a token knows the bit it starts at (`bit'), which says *)
(* what is left of it when the length byte cuts the stream short, and the  *)
(* byte of the block it starts to describe (`at'), which nothing reads but *)
(* the properties.  The decoded block is kept as what is XORed into the    *)
(* original, or Old where the output buffer was not written.               *)
(***************************************************************************)
EXTENDS Integers, Sequences, FiniteSetsExt, PartialSums

CONSTANTS
    Inputs,   \* the XOR of the new and the old block, byte by byte
    Limits    \* max_output_size, the `delta_thres' of the caller

MaxByte == 255
Bytes == 0..MaxByte

ASSUME DeltaCodecAssumption ==
    /\ Inputs \subseteq Seq(Bytes) \ {<<>>}
    /\ Limits \subseteq Nat

MaxRun == 256   \* UCHAR_MAX + 1
Old == -1       \* a byte of the output that was not written

VARIABLES
    xor,      \* the input: b0[j] ^ b1[j] is xor[j + 1]
    lim,      \* max_output_size
    pc,       \* "encode", "decode" or "returned"
    i,        \* delta_packed: bytes read
    count,    \* delta_packed: length of the run not written yet
    last_d,   \* delta_packed: its byte
    tokens,   \* the tokens packed so far
    bits,     \* their width; bytes_used is bits \div 8
    size,     \* what delta_packed returned
    used,     \* the length byte
    k,        \* decode_packed: the token at the head of `buf'
    o_c,      \* decode_packed: bytes written
    c_tmp,    \* decode_packed: width of the token read last
    out       \* decode_packed: the output, from byte 0

encoder == <<i, count, last_d, tokens, bits>>
decoder == <<k, o_c, c_tmp, out>>
vars == <<xor, lim, pc, encoder, size, used, decoder>>

BlockSize == Len(xor)

-----------------------------------------------------------------------------
(* Tokens *)

Width(kind) == <<2, 10, 14, 18>>[kind + 1]

Token(kind, len, val, at, bit) ==
    [kind |-> kind, len |-> len, val |-> val, at |-> at, bit |-> bit]

(* Mutation: the length of the run is passed on, not one less.             *)
PackDeltaFull(length, delta, at, bit) ==
    IF delta = 0 /\ length < 7
    THEN [n \in 1..(length + 1) |-> Token(0, 0, 0, at + n - 1, bit + 2 * (n - 1))]
    ELSE <<Token(IF length = 0 THEN 1 ELSE IF length < 15 THEN 2 ELSE 3,
                 length + 1, delta, at, bit)>>

(* pack_delta of length + 1 times the byte delta: up to seven zeros take   *)
(* one token each, any other run is one token.                             *)
PackDelta(length, delta, at, bit) ==
    IF delta = 0 /\ length < 7
    THEN [n \in 1..(length + 1) |-> Token(0, 0, 0, at + n - 1, bit + 2 * (n - 1))]
    ELSE <<Token(IF length = 0 THEN 1 ELSE IF length <= 15 THEN 2 ELSE 3,
                 length, delta, at, bit)>>

(* Where the tokens end, in the block and in the stream.                   *)
Covered(toks) ==
    IF toks = <<>> THEN 0 ELSE toks[Len(toks)].at + toks[Len(toks)].len + 1
EndBit(toks) ==
    IF toks = <<>> THEN 0 ELSE toks[Len(toks)].bit + Width(toks[Len(toks)].kind)

PackAfter(toks, length, delta) ==
    toks \o PackDelta(length, delta, Covered(toks), EndBit(toks))

(* The dump of pack_delta: every whole byte goes out at once, or fails.    *)
(* The limit it gets is one less, compared as unsigned: 0 becomes no limit *)
(* at all.                                                                 *)
DumpFits(nbits) == lim = 0 \/ nbits \div 8 <= lim - 1

-----------------------------------------------------------------------------
(* delta_packed *)

Init ==
    /\ xor \in Inputs /\ lim \in Limits
    /\ pc = "encode"
    /\ i = 0 /\ count = 0 /\ last_d = 0
    /\ tokens = <<>> /\ bits = 0
    /\ size = 0 /\ used = 0
    /\ k = 1 /\ o_c = 0 /\ c_tmp = 0
    /\ out = [j \in 0..(BlockSize - 1) |-> Old]

(* Mutation: the byte that ended the run is not counted in the next one.   *)
EncodeByteForgets ==
    LET delta == xor[i + 1]
        run   == IF delta = last_d THEN count + 1 ELSE count
        final == i = BlockSize - 1
        one   == IF run > 0 THEN PackAfter(tokens, run - 1, last_d) ELSE tokens
        two   == IF final /\ delta # last_d THEN PackAfter(one, 0, delta) ELSE one
    IN  /\ pc = "encode" /\ i < BlockSize
        /\ IF delta # last_d \/ final \/ run = MaxRun
           THEN /\ tokens' = two /\ bits' = EndBit(two)
                /\ count' = 0 /\ last_d' = delta
                /\ pc' = IF DumpFits(EndBit(two)) THEN pc ELSE "returned"
           ELSE /\ count' = run
                /\ UNCHANGED <<last_d, tokens, bits, pc>>
        /\ i' = i + 1
        /\ UNCHANGED <<xor, lim, size, used, decoder>>

(* One round of the loop.  A run is packed when another byte follows it,   *)
(* when the input ends or when it cannot grow; a last byte of its own is   *)
(* packed with it.  The next run starts with this byte, even when the byte *)
(* was the last of a run of MaxRun.  Output that does not fit ends it.     *)
EncodeByte ==
    LET delta == xor[i + 1]
        run   == IF delta = last_d THEN count + 1 ELSE count
        final == i = BlockSize - 1
        one   == IF run > 0 THEN PackAfter(tokens, run - 1, last_d) ELSE tokens
        two   == IF final /\ delta # last_d THEN PackAfter(one, 0, delta) ELSE one
    IN  /\ pc = "encode" /\ i < BlockSize
        /\ IF delta # last_d \/ final \/ run = MaxRun
           THEN /\ tokens' = two /\ bits' = EndBit(two)
                /\ count' = 1 /\ last_d' = delta
                /\ pc' = IF DumpFits(EndBit(two)) THEN pc ELSE "returned"
           ELSE /\ count' = run
                /\ UNCHANGED <<last_d, tokens, bits, pc>>
        /\ i' = i + 1
        /\ UNCHANGED <<xor, lim, size, used, decoder>>

Changed == \E j \in 1..BlockSize : xor[j] # 0

(* Mutation: the bits left over are not given a byte.                      *)
EncodeEndDropsTail ==
    LET bytes == bits \div 8
    IN  /\ pc = "encode" /\ i = BlockSize
        /\ used' = bytes % 256
        /\ size' = IF Changed THEN bytes + 1 ELSE -1
        /\ pc' = IF Changed THEN "decode" ELSE "returned"
        /\ UNCHANGED <<xor, lim, encoder, decoder>>

(* The end: the bits left over take a byte more, padded with zeros (the    *)
(* end mark is put in bits that are not written out), and the number of    *)
(* bytes goes into the one length byte.                                    *)
EncodeEnd ==
    LET partial == bits % 8 # 0
        bytes   == bits \div 8 + (IF partial THEN 1 ELSE 0)
        fits    == ~partial \/ bits \div 8 + 2 <= lim
    IN  /\ pc = "encode" /\ i = BlockSize
        /\ IF fits
           THEN /\ used' = bytes % 256
                /\ size' = IF Changed THEN bytes + 1 ELSE -1
                /\ pc' = IF Changed THEN "decode" ELSE "returned"
           ELSE /\ pc' = "returned"
                /\ UNCHANGED <<size, used>>
        /\ UNCHANGED <<xor, lim, encoder, decoder>>

-----------------------------------------------------------------------------
(* decode_packed *)

(* The token at the head of the stream: behind the bytes the length byte   *)
(* announces there are only zeros, which may cut the last token short.     *)
HeadToken ==
    LET avail == 8 * used
    IN  IF k > Len(tokens) \/ tokens[k].bit >= avail
        THEN Token(0, 0, 0, o_c, avail)
        ELSE LET t    == tokens[k]
                 cut  == Max({0, t.bit + Width(t.kind) - avail})
                 word == ((256 * t.len + t.val) \div 2^cut) * 2^cut
             IN  [t EXCEPT !.len = word \div 256, !.val = word % 256]

(* A long token after one of 14 bits or more is taken for the end mark.    *)
IsEndMark(t) == t.kind = 3 /\ c_tmp >= 14

(* The bytes a token is written to.                                        *)
Span(t) == o_c..(o_c + t.len)

(* Mutation: the end mark is not looked for.                               *)
DecodeTokenAlways ==
    LET t == HeadToken
    IN  /\ pc = "decode" /\ o_c < BlockSize
        /\ out' = [j \in DOMAIN out \cup Span(t) |->
                      IF j \in Span(t) THEN t.val ELSE out[j]]
        /\ o_c' = o_c + t.len + 1
        /\ c_tmp' = Width(t.kind)
        /\ k' = k + 1
        /\ UNCHANGED <<xor, lim, pc, encoder, size, used>>

(* Mutation: a token of zero is not moved past.                            *)
DecodeTokenStuck ==
    LET t == HeadToken
    IN  /\ pc = "decode" /\ o_c < BlockSize /\ ~IsEndMark(t)
        /\ out' = [j \in DOMAIN out \cup Span(t) |->
                      IF j \in Span(t) THEN t.val ELSE out[j]]
        /\ o_c' = IF t.kind = 0 THEN o_c ELSE o_c + t.len + 1
        /\ c_tmp' = Width(t.kind)
        /\ k' = IF t.kind = 0 THEN k ELSE k + 1
        /\ UNCHANGED <<xor, lim, pc, encoder, size, used>>

(* One round of the loop; a run is written to its end, even if that is     *)
(* behind the block.                                                       *)
DecodeToken ==
    LET t == HeadToken
    IN  /\ pc = "decode" /\ o_c < BlockSize /\ ~IsEndMark(t)
        /\ out' = [j \in DOMAIN out \cup Span(t) |->
                      IF j \in Span(t) THEN t.val ELSE out[j]]
        /\ o_c' = o_c + t.len + 1
        /\ c_tmp' = Width(t.kind)
        /\ k' = k + 1
        /\ UNCHANGED <<xor, lim, pc, encoder, size, used>>

(* The block is complete, or the end mark is seen.                         *)
DecodeEnd ==
    /\ pc = "decode"
    /\ o_c >= BlockSize \/ IsEndMark(HeadToken)
    /\ pc' = "returned"
    /\ UNCHANGED <<xor, lim, encoder, size, used, decoder>>

Returned == pc = "returned" /\ UNCHANGED vars

Next == EncodeByte \/ EncodeEnd \/ DecodeToken \/ DecodeEnd \/ Returned

(* The functions are sequential code: they go on until they return.        *)
Spec == Init /\ [][Next]_vars /\ WF_vars(Next)

-----------------------------------------------------------------------------
(* Properties *)

TokenType == [kind : 0..3, len : Bytes, val : Bytes, at : Nat, bit : Nat]

(* Every variable has its type; in particular no run outgrows the eight    *)
(* bits of its length, so no token spills into the one before it.          *)
TypeOK ==
    /\ xor \in Seq(Bytes) /\ lim \in Limits
    /\ pc \in {"encode", "decode", "returned"}
    /\ i \in 0..BlockSize /\ count \in 0..(MaxRun - 1) /\ last_d \in Bytes
    /\ tokens \in Seq(TokenType) /\ bits \in Nat
    /\ size \in Int /\ used \in Bytes
    /\ k \in Nat /\ o_c \in Nat /\ c_tmp \in {0, 2, 10, 14, 18}
    /\ \A j \in DOMAIN out : out[j] \in Bytes \cup {Old}

(* The tokens lie side by side, in the block and in the stream, and each   *)
(* one says what the bytes of its run are.                                 *)
Tiles(toks) ==
    \A n \in DOMAIN toks :
        /\ toks[n].at = (IF n = 1 THEN 0 ELSE toks[n - 1].at + toks[n - 1].len + 1)
        /\ toks[n].bit =
              (IF n = 1 THEN 0 ELSE toks[n - 1].bit + Width(toks[n - 1].kind))
        /\ \A j \in toks[n].at..(toks[n].at + toks[n].len) :
              j < BlockSize /\ xor[j + 1] = toks[n].val

(* The loop invariant of delta_packed: the tokens tile what was packed,    *)
(* the pending run is the bytes read since, and what goes to the decoder   *)
(* tiles the whole block.                                                  *)
PrefixEncoded ==
    /\ Tiles(tokens)
    /\ pc = "decode" => Covered(tokens) = BlockSize
    /\ pc = "encode" =>
          IF i = BlockSize THEN Covered(tokens) = BlockSize
          ELSE /\ Covered(tokens) + count = i
               /\ \A j \in (Covered(tokens) + 1)..i : xor[j] = last_d

(* The size of the encoding, from the runs of the input alone.             *)
RunStarts == {j \in 1..BlockSize : j = 1 \/ xor[j - 1] # xor[j]}
RunLength(j) == Min({n \in RunStarts : n > j} \cup {BlockSize + 1}) - j
RunBits(n, val) ==
    IF val = 0 /\ n <= 7 THEN 2 * n
    ELSE IF n = 1 THEN 10 ELSE IF n <= 16 THEN 14 ELSE 18
RunWidths ==
    [j \in 1..BlockSize |->
        IF j \in RunStarts THEN RunBits(RunLength(j), xor[j]) ELSE 0]
InputBits == SumUpTo(BlockSize, RunWidths)
InputBytes == (InputBits + 7) \div 8

(* delta_packed's answer is the one ZapiPage takes it to give: 0 exactly   *)
(* when the encoding of the whole block, with its length byte, is longer   *)
(* than the caller allows, whichever of the three checks along the way     *)
(* notices; else -1 when no byte changed; else the length.  With a limit   *)
(* of 0 only the last check works, which is for a byte that is not full:   *)
(* an encoding of whole bytes goes through, however long it is.            *)
AnswerIsExact ==
    LET fits == IF lim = 0 THEN InputBits % 8 = 0 ELSE InputBytes + 1 <= lim
    IN  pc = "returned" =>
            size = IF ~fits THEN 0 ELSE IF ~Changed THEN -1 ELSE InputBytes + 1

(* Where decoding goes astray: at a long token behind one of 14 bits or    *)
(* more, and at a token the length byte does not reach.                    *)
EndMarks == {n \in DOMAIN tokens \ {1} : tokens[n].kind = 3 /\ tokens[n - 1].kind >= 2}
Beyond == {n \in DOMAIN tokens : tokens[n].bit + Width(tokens[n].kind) > 8 * used}
DecodedTo ==
    IF EndMarks \cup Beyond = {} THEN BlockSize ELSE tokens[Min(EndMarks \cup Beyond)].at

(* Up to the first such place the block comes back, to the byte; an end    *)
(* mark leaves the rest of the output as it was; and nothing behind the    *)
(* block is ever written.                                                  *)
DecodesUntilStopped ==
    pc = "returned" /\ size > 0 =>
        /\ DOMAIN out = 0..(BlockSize - 1)
        /\ \A j \in 0..(DecodedTo - 1) : out[j] = xor[j + 1]
        /\ EndMarks # {} /\ Beyond = {} =>
              \A j \in DecodedTo..(BlockSize - 1) : out[j] = Old

(* Decoding a delta onto the block it was made against gives the new block *)
(* (zapi.h:149-161, and what zapi_update_block relies on).                 *)
RoundTrip ==
    pc = "returned" /\ size > 0 =>
        \A j \in 0..(BlockSize - 1) : out[j] = xor[j + 1]

(* A block is decoded within a buffer of block_sz bytes (zapi.h:51).       *)
DecodeStaysInBlock == DOMAIN out = 0..(BlockSize - 1)

(* Both functions return, whatever the block and the limit.                *)
Terminates == <>(pc = "returned")
=============================================================================
