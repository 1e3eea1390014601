------------------------------ MODULE MCPrcPage ------------------------------
(* Small instances of PrcPage for TLC.                                      *)
EXTENDS PrcPage, TLC

CONSTANTS p1, p2, c1

TwoPages == {p1, p2}
OneCell == {c1}
AnyPage == Permutations(TwoPages)

(* The first block occurs again behind a zero block.                        *)
Striped == [b \in Blocks |-> IF b % 2 = 0 THEN {c1} ELSE {}]
OneSource == {Striped}

(* Three or four bytes for a block with changes, two for one without.       *)
Lengths == [f \in Content |-> 2 + Cardinality(f)]
(* The code of a change ends with a byte.                                   *)
WholeBytes == {{c1}}
(* No run of the code is mistaken for an end mark.                          *)
Lossless == [f \in Content |-> Cells]
=============================================================================
