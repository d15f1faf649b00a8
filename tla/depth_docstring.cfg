SPECIFICATION Spec
CONSTANTS
  Category = {c1, c2, c3, c4, c5}
  Session = {s1}
  NoParent = NoParent
  NoRow = NoRow
SYMMETRY Symmetry
INVARIANT ExampleIsFour
\* The sequence of requests may end at any point, and a request may fail.
CHECK_DEADLOCK FALSE
