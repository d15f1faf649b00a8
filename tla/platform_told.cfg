SPECIFICATION Spec
CONSTANTS
  Seller = {s, o}
  Owner = {o}
  Platform = {p}
  Category = {c}
  Session = {r1, r2}
  All = All
  MaxFailures = 1
  MaxLost = 1
SYMMETRY Symmetry
INVARIANTS NoneForgotten
CHECK_DEADLOCK FALSE
