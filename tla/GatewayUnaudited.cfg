CONSTANTS
  Connection = {c1}
  Query = {}
  Packet = {}
  Depth = 1
  MaxExchanges = 1
  Faults = FALSE
  None = None
SPECIFICATION Spec
INVARIANTS
  CarriedIsRecorded
CHECK_DEADLOCK FALSE
