--------------------------- MODULE CategoryDepth ---------------------------
(***************************************************************************)
(* calculate_maximal_children_depth of app/utils/category.py: a breadth-   *)
(* first walk down the children of a category that uses the stored depth   *)
(* of each one.                                                            *)
(***************************************************************************)
EXTENDS Integers, SequencesExt

CONSTANTS
  Children(_),  \* the relationship children, as a set
  Depth(_)      \* the column depth

\* Mutant of Deeper: the depth alone, without the subtraction.
DeeperAlone(maximal, root, current) == Max({maximal, Depth(current)})

\* maximal_depth after current_category was looked at.
Deeper(maximal, root, current) == Max({maximal, Depth(current) - Depth(root)})

RECURSIVE Walk(_, _, _)

\* The loop: remained_categories is taken from the left and extended on the
\* right.
Walk(remained, maximal, root) ==
  IF remained = <<>> THEN maximal
  ELSE Walk(Tail(remained) \o SetToSeq(Children(Head(remained))),
            Deeper(maximal, root, Head(remained)), root)

MaximalChildrenDepth(root) == Walk(<<root>>, 0, root)

RECURSIVE Height(_)

\* The number of links on the longest way down from c.
Height(c) ==
  IF Children(c) = {} THEN 0 ELSE 1 + Max({Height(d) : d \in Children(c)})
=============================================================================
