SPECIFICATION Spec
CONSTANTS
  Product = {p1, p2}
  Variant = {v1, v2, v3}
  Attribute = {a}
  Requested = {"pending_approval", "active"}
  Bundles = {FALSE}
  Block <- BlockOfTwo
  MaxMonth = 1
  MaxBatch = 2
SYMMETRY Symmetry
INVARIANTS SkusFollowVariants NothingDangles NumbersDistinct
PROPERTIES MovedTakeAttributes ReleaseLasts
CHECK_DEADLOCK FALSE
