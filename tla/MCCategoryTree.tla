--------------------------- MODULE MCCategoryTree ---------------------------
(* CategoryTree on a small set of ids and sessions, with the helper that   *)
(* measures the depth of a category.                                       *)
EXTENDS CategoryTree, TLC

\* Ids and sessions are only compared for equality.
Symmetry == Permutations(Category) \cup Permutations(Session)

ChildrenOf(c) == Children(table, c)
StoredDepth(c) == table[c].depth
Helper == INSTANCE CategoryDepth WITH Children <- ChildrenOf, Depth <- StoredDepth

\* calculate_maximal_children_depth, which only subtracts stored depths,
\* finds the number of links on the longest way down from any category,
\* whatever requests put the tree into its shape.  (Its docstring counts
\* otherwise, see ExampleIsFour.)
ResultIsHeight ==
  ~stale => \A c \in Rows(table) : Helper!MaximalChildrenDepth(c) = Helper!Height(c)

\* The tree that the docstring of the helper draws: A -> B -> C and
\* B -> D -> E.
IsExample(A, B, C, D, E) ==
  /\ ChildrenOf(A) = {B} /\ ChildrenOf(B) = {C, D} /\ C # D
  /\ ChildrenOf(C) = {} /\ ChildrenOf(D) = {E} /\ ChildrenOf(E) = {}

\* "In the example above, `calculate_children_depth` of `A` will be 4", as
\* app/utils/category.py:17 says.  The code counts links, of which there are
\* three; four are the categories on that way, A included.
ExampleIsFour ==
  ~stale => \A A, B, C, D, E \in Rows(table) :
              IsExample(A, B, C, D, E) => Helper!MaximalChildrenDepth(A) = 4
=============================================================================
