CONSTANTS
  Process = {p1, p2}
  gateway = gateway
  audit = audit
  Crate = {gateway, audit}
  Guest = {gateway}
  v0 = v0
  v1 = v1
  v2 = v2
  Version = {v0, v1, v2}
  Contents <- SmallContents
  Absent = Absent
  None = None
  Ignored = Ignored
  MaxEdits = 2
SPECIFICATION Spec
SYMMETRY Interchangeable
INVARIANTS
  BuiltAsStaged
  StagedAsFound
PROPERTIES
  SettledNeverChanges
