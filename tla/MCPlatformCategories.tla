------------------------ MODULE MCPlatformCategories ------------------------
(* PlatformCategories on a few sellers, platforms and categories.          *)
EXTENDS PlatformCategories, TLC

Symmetry ==
  Permutations(Owner) \cup Permutations(Seller \ Owner) \cup Permutations(Platform)
    \cup Permutations(Category) \cup Permutations(Session)
=============================================================================
