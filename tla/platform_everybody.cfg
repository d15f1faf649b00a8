SPECIFICATION FairSpec
CONSTANTS
  Seller = {s, o}
  Owner = {o}
  Platform = {p}
  Category = {c}
  Session = {r}
  All = All
  MaxFailures = 1
  MaxLost = 0
PROPERTIES EverybodyTold
CHECK_DEADLOCK FALSE
