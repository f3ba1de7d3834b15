CONSTANTS
  Invocation = {p1, p2}
  Id = {s1}
  Image = {a}
  MaxTime = 1
  IdleLimit = 1
  DrawsRepeat = FALSE
  Interrupts = FALSE
  Interference = TRUE
  Absent = Absent
  Torn = Torn
  Garbled = Garbled
SPECIFICATION Spec
PROPERTIES
  RunningIsNeverReclaimed
