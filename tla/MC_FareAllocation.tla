------------------------- MODULE MC_FareAllocation -------------------------
(* A small instance of FareAllocation.                                      *)
EXTENDS FareAllocation

CONSTANTS b1, b2, b3

ThreeRows == {b1, b2, b3}
ThreePoints == {0, 1, 3}
OneDetour == {1}

(* Rows are interchangeable.                                                *)
Symmetry == Permutations(Rows)
=============================================================================
