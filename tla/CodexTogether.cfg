CONSTANTS
  Process = {p1, p2}
  Session = {s1}
  Own = Own
  None = None
  Garbled = Garbled
  Interrupts = FALSE
  Recall = FALSE
SPECIFICATION FairSpec
PROPERTIES
  ReachesCodexOrReturns
