CONSTANTS
  Manifests = {m1, m2}
  Headers = {k1, k2}
  Commands = {c1, c2}
  Tools = {t1}
  None = None
  Torn = Torn
  Edited = Edited
  Names <- GivenNames
  EditDuringBuild = FALSE
  Tampering = TRUE
  MaxEdits = 3
  MaxStops = 2
SPECIFICATION Spec
SYMMETRY Perms
INVARIANTS
  TypeOK
  BuiltIsFresh
  NoMismatchAtRest
  VerifyFindsDrift
PROPERTIES
  NoOpRebuildWritesNothing
