----------------------------- MODULE MCLz4Stream -----------------------------
(* A small instance of Lz4Stream for TLC.                                   *)
EXTENDS Lz4Stream

(* Blocks of 24 bytes: equal bytes, a short period, no repetition, and a    *)
(* mix whose end repeats its start.                                         *)
Equal == [i \in 1..24 |-> 0]
Period == [i \in 1..24 |-> i % 3]
Plain == [i \in 1..24 |-> i + 2]
Mix == [i \in 1..24 |-> IF i <= 8 THEN i + 2 ELSE IF i <= 12 THEN 0 ELSE i - 10]
SmallValues == {Equal, Period, Plain, Mix}
SmallPages == {<<a, b, a>> : a, b \in SmallValues} \cup {<<Equal, Plain, Mix>>, <<Plain, Equal, Period>>}

(* Blocks too short for a match, and for a dictionary when one is kept.     *)
Tiny == {<<<<1, 1, 1, 1, 1, 1, 1>>, <<1, 1, 1, 1, 1, 1, 1>>>>,
         <<[i \in 1..12 |-> 1], [i \in 1..12 |-> 1], [i \in 1..12 |-> 2]>>}

(* Lengths that take one and two more bytes, and blocks above the capacity. *)
LongRun == [i \in 1..64 |-> 7]
LongPlain == [i \in 1..64 |-> i]
LongMix == [i \in 1..64 |-> IF i <= 40 THEN i ELSE 5]
LongPages == {<<LongRun, LongPlain>>, <<LongPlain, LongPlain>>, <<LongPlain, LongMix>>}
Oversize == {<<[i \in 1..280 |-> i]>>, <<[i \in 1..80 |-> 1], [i \in 1..80 |-> 2]>>,
             <<[i \in 1..80 |-> i]>>, <<[i \in 1..80 |-> IF i <= 40 THEN i ELSE 0]>>}

AllPages == SmallPages \cup Tiny \cup LongPages \cup Oversize
AllValues == SmallValues \cup {[i \in 1..12 |-> 1], LongMix, LongRun, <<1, 1, 1, 1, 1, 1, 1>>}

(* Two hash functions: one that tells most bytes apart, and one that does   *)
(* not look at the end.                                                     *)
Weights == {<<1, 3, 5, 2, 7>>, <<1, 0, 0, 0, 0>>}
=============================================================================
