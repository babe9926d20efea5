----------------------------- MODULE MCFullLoad -----------------------------
(* FullLoad with the sets the model checker needs.                         *)
EXTENDS FullLoad, TLC

CONSTANTS r1, r2, r3

TwoRows   == {r1, r2}
ThreeRows == {r1, r2, r3}

RowSymmetry == Permutations(Rows)
=============================================================================
