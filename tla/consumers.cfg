SPECIFICATION ConsumersSpec
CONSTANTS
  Message = {m1, m2}
  Consumer = {a, b}
  NoMessage = NoMessage
  Debug = {b}
  MaxFailures = 2
  Sku = {k1}
  Brand = {b1, b2}
  Session = {s1, s2}
  None = None
  MaxRevision = 3
  MaxName = 1
  MaxFaults = 1
INVARIANTS GoneIsLogged FailureCostsOne RowsOrPending
PROPERTIES Drained Converges
CHECK_DEADLOCK FALSE
