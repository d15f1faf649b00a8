SPECIFICATION ImportsSpec
CONSTANTS
  Category = {1, 2, 3, 4}
  Root = Root
  MaxPath = 4
  MaxClones = 2
  MaxWrites = 6
  Policy = {1, 2}
  Provider = {p1}
  ShippingType = {bulky, light}
  All = All
  MaxRows = 8
  MaxChanges = 2
  Code = {x, y, z}
  NoParent = NoParent
  MaxBulks = 2
  BulkData <- BulkRequests
  don = don  cha = cha  con1 = con1  con2 = con2
  Line = {don, cha, con1, con2}
  KindOf <- Kinds  TagOf <- Tags
  Request = {r1, r2}
  MaxRetries = 2
  MaxLines = 2
  UnitId = {1, 2}
  Seller = {0, 1, 2}
  OwnUnitsOnly = {2}
  SellsByItself = {1}
  UnitCode = {c1, c2}
  UnitName = {n1, n2}
  Session = {w1, w2}
  MaxOptions = 3
  MaxDeeds = 4
  Missing = Missing
  Worker = {w1, w2}
  BrandCode = {c}
  Nothing = Nothing
  PageSize = 1
  MaxBrandWrites = 4
SYMMETRY Symmetry
INVARIANTS
  PathsFollowMasters PoliciesAsAsked BulkFollowsParents RetriesSound
  OptionsFollowUnits BrandsCounted
PROPERTIES ClonesAreWhole
CHECK_DEADLOCK FALSE
