----------------------------- MODULE MCZapiPage -----------------------------
(* Small instances of ZapiPage for TLC.                                    *)
EXTENDS ZapiPage, TLC

CONSTANTS p1, p2, c1

OnePage == {p1}
TwoPages == {p1, p2}
OneCell == {c1}

AnyPage == Permutations(TwoPages)

FullPage == [b \in Blocks |-> Cells]
MixedPage == [b \in Blocks |-> IF b = 0 THEN {c1} ELSE {}]
OneSource == {MixedPage}
FullBuffer == {FullPage}

(* Three or four bytes for a block with changes, two for one without.      *)
Lengths == [f \in Content |-> 2 + Cardinality(f)]
(* The code of a change ends with a byte.                                  *)
WholeBytes == {{c1}}
(* No run of the code is mistaken for an end mark.                         *)
Lossless == [f \in Content |-> Cells]
=============================================================================
