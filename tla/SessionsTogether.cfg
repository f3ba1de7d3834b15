CONSTANTS
  Invocation = {p1, p2}
  Id = {s1, s2}
  Image = {a}
  MaxTime = 0
  IdleLimit = 1
  DrawsRepeat = FALSE
  Interrupts = TRUE
  Interference = TRUE
  Absent = Absent
  Torn = Torn
  Garbled = Garbled
SPECIFICATION Spec
SYMMETRY Interchangeable
INVARIANTS
  Inductive
  MachineHasIdentity
  HostKeyHasRecord
PROPERTIES
  RecordOutlivesTheRest
