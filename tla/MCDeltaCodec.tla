---------------------------- MODULE MCDeltaCodec ----------------------------
(* Instances of DeltaCodec for TLC: blocks made of a few runs, with        *)
(* lengths on both sides of every bound in pack_delta and delta_packed.    *)
EXTENDS DeltaCodec, SequencesExt

Run(n, val) == [j \in 1..n |-> val]

RunLengths == {1, 2, 7, 8, 16, 17}
Values == {0, 1, 2}

OneRun == {Run(n, v) : n \in RunLengths \cup {255, 256}, v \in Values}
TwoRuns == {Run(n, v) \o Run(m, w) :
               n \in RunLengths, m \in RunLengths, v \in Values, w \in Values}
ThreeRuns == {Run(n, v) \o Run(m, w) \o Run(q, x) :
                 n \in {1, 8, 17}, m \in {1, 8, 17}, q \in {1, 17},
                 v \in {0, 1}, w \in Values, x \in {0, 1}}

(* Bytes that all differ from their neighbours take ten bits each.         *)
Alternating(n) == [j \in 1..n |-> 1 + (j % 2)]

ShortBlocks ==
    OneRun \cup TwoRuns \cup ThreeRuns
        \cup {Run(254, 0) \o <<1, 2>>, Alternating(203), Alternating(205)}

(* Blocks of more than 256 bytes whose first run is the longest possible.  *)
LongBlocks == {Run(257, 1), Run(257, 0) \o <<1>>}
=============================================================================
