------------------------------ MODULE MCDrivers ------------------------------
(* A small instance of Drivers for TLC.                                     *)
EXTENDS Drivers

CONSTANTS c1, c2

TwoPages == {page, newPage}
TwoCells == {c1, c2}

(* The first block is repeated, or all blocks differ.                       *)
Repeated == [b \in Blocks |-> {c1}]
Differing == [b \in Blocks |-> IF b = 0 THEN {c1} ELSE IF b = 1 THEN {} ELSE {c1, c2}]
TwoSources == {Repeated, Differing}

(* A change of both cells takes a byte more.                                *)
Lengths == [f \in Content |-> 2 + Cardinality(f)]

(* No code ends with a byte.                                                *)
NoneAligned == {}

(* A change of the second cell alone, a long run behind a long gap, is      *)
(* taken for the end mark.                                                  *)
EndMarked == [f \in Content |-> IF f = {c2} THEN {c1} ELSE Cells]
=============================================================================
