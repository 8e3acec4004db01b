CONSTANTS
  Owners = {a, b}
  Blocks = {p, q, s}
  Values = {v, w}
  Moved = Moved
  Nowhere = Nowhere
  None = None
  MaxCount = 2
SPECIFICATION MCSpec
SYMMETRY Perms
CHECK_DEADLOCK FALSE
INVARIANTS
  TypeOK
  StepsAreLegal
  EverythingOwnedOnce
  WritesWhatItSpells
  OnlyWideDecimalsOverrun
PROPERTIES
  KeepsPromise
