CONSTANTS
  Invocation = {p1, p2}
  Session = {s1, s2}
  Foreign = {f1}
  Builder = Builder
  Absent = Absent
  None = None
  Host <- SmallHost
  HostReserve <- SmallReserve
  Floor <- DiskFloors
  FreeDisk = {0, 1, 2}
  MaxWord = 15
  ForeignSize <- ForeignSizes
SPECIFICATION Spec
SYMMETRY Interchangeable
INVARIANTS
  Inductive
  BuilderAsReserved
PROPERTIES
  FreshStartFits
