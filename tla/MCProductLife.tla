--------------------------- MODULE MCProductLife ---------------------------
(* ProductLife on a few ids.                                               *)
EXTENDS ProductLife, TLC

Symmetry == Permutations(Product) \cup Permutations(Variant)

\* Two numbers a month.
BlockOfTwo == [b \in BOOLEAN |-> 2]
=============================================================================
