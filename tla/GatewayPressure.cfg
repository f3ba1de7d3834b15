CONSTANTS
  Connection = {c1}
  Query = {q1}
  Packet = {p1}
  Depth = 1
  MaxExchanges = 1
  Faults = TRUE
  None = None
SPECIFICATION FairSpec
INVARIANTS
  Inductive
  EndedIsRecordedOnce
  SessionBeforeContents
  OneAccount
  RefusedCarriedNothing
  GreetedIsTold
PROPERTIES
  NobodyIsHeldForEver
