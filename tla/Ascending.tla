------------------------------- MODULE Ascending -------------------------------
(* Numbers in ascending order, as sorted() and ORDER BY id give them.      *)
EXTENDS Integers, FiniteSets

\* The elements of a finite set of numbers in ascending order.
Ascending(ids) ==
  CHOOSE s \in [1 .. Cardinality(ids) -> ids] :
    \A i, j \in 1 .. Cardinality(ids) : i < j => s[i] < s[j]
=============================================================================
