CONSTANTS
  Process = {p1}
  Session = {s1, s2}
  Own = Own
  None = None
  Garbled = Garbled
  Interrupts = TRUE
  Recall = TRUE
SPECIFICATION Spec
INVARIANTS
  KillsDoNotWedge
PROPERTIES
  ImplementsEdits
  OpensOnItsSession
  HandedBackAsFound
