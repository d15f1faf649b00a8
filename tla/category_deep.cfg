SPECIFICATION Spec
CONSTANTS
  Category = {c1, c2, c3, c4, c5, c6}
  Session = {s1}
  NoParent = NoParent
  NoRow = NoRow
SYMMETRY Symmetry
INVARIANTS
  MovesAsDrawn
  ReadersAgree
  ResultIsHeight
 
\* The sequence of requests may end at any point, and a request may fail.
CHECK_DEADLOCK FALSE
