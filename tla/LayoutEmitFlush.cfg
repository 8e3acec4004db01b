CONSTANTS
  Gens <- MCGens
  Absent = Absent
  Torn = Torn
  Edited = Edited
  FlushMayFail = TRUE
SPECIFICATION Spec
INVARIANT OutputsAreWhole
