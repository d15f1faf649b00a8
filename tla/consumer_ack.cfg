SPECIFICATION ConsumerSpec
CONSTANTS
  Message = {m1}
  Consumer = {a}
  NoMessage = NoMessage
  Debug = {}
  MaxFailures = 0
INVARIANT AckAfterSuccess
CHECK_DEADLOCK FALSE
