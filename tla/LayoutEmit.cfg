CONSTANTS
  Gens <- MCGens
  Absent = Absent
  Torn = Torn
  Edited = Edited
  FlushMayFail = FALSE
SPECIFICATION Spec
INVARIANTS
  TypeOK
  OutputsAreWhole
PROPERTIES
  OkMeansCurrent
  VerifyAcceptsEmit
  ReplacedOnlyIfChanged
  KeepsPromise
