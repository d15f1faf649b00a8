-------------------------- MODULE MCSaleCategories --------------------------
(* SaleCategories on a few ids.                                            *)
EXTENDS SaleCategories

Symmetry == Permutations(Category)
=============================================================================
