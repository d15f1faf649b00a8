SPECIFICATION Spec
CONSTANTS
  Category = {c1, c2, c3}
  NoParent = NoParent
  Unnumbered = Unnumbered
  Switches = {TRUE, FALSE}
  MaxCrashes = 1
SYMMETRY Symmetry
INVARIANTS RowsNumbered PathsFollowParents
PROPERTIES SwitchingOpensNoGap ImplementsOrder
CHECK_DEADLOCK FALSE
