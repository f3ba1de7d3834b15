CONSTANTS
  Invocation = {p1, p2}
  Id = {s1}
  Image = {a, b}
  MaxTime = 1
  IdleLimit = 1
  DrawsRepeat = FALSE
  Interrupts = FALSE
  Interference = FALSE
  Absent = Absent
  Torn = Torn
  Garbled = Garbled
SPECIFICATION FairSpec
INVARIANTS
  UnreadableOnlyMidStore
PROPERTIES
  OpensOrRefuses
