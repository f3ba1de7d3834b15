CONSTANTS
  Absent = Absent
  Torn = Torn
  MaxRecords = 2
  Asked = {1, 2}
  Authority = {a1, a2}
SPECIFICATION Spec
INVARIANTS
  NothingUnseen
  SessionTrustsGateway
  RecordedHasAuthority
  AcknowledgedIsALine
  PrintedAsRecorded
PROPERTIES
  AuthorityStays
  FollowedIsShown
