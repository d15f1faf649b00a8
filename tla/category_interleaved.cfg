SPECIFICATION Spec
CONSTANTS
  Category = {c1, c2, c3}
  Session = {s1, s2}
  NoParent = NoParent
  NoRow = NoRow
SYMMETRY Symmetry
INVARIANTS
  TreeConsistent
  RequestsSound
PROPERTY
  ImplementsForest
\* After a commit over another one no further request is followed.
CHECK_DEADLOCK FALSE
