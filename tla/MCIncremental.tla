--------------------------- MODULE MCIncremental ---------------------------
(* Incremental with three rows.                                            *)
EXTENDS Incremental, TLC

CONSTANTS r1, r2, r3

ThreeRows   == {r1, r2, r3}
RowSymmetry == Permutations(Rows)
=============================================================================
