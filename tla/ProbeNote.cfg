CONSTANTS
  Manifests <- MCManifests
  Length <- MCLength
  Negative = {"v9"}
  Garbled = Garbled
  MaxWord = 2000
  MaxU32 = 1000
  MaxDescSize = 1000
  MaxRecordCount = 20
  MaxStringLen = 9
  MaxSetNameLen = 4
  SectionSlack = 100
SPECIFICATION Spec
CHECK_DEADLOCK FALSE
INVARIANTS
  RoundTrip
  WrittenIsAccepted
