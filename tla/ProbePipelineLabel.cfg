CONSTANTS
  Manifests = {m1, m2}
  Headers = {k1}
  Commands = {c1}
  Tools = {t1}
  None = None
  Torn = Torn
  Edited = Edited
  Names <- SameNames
  EditDuringBuild = TRUE
  Tampering = FALSE
  MaxEdits = 1
  MaxStops = 0
SPECIFICATION Spec
SYMMETRY Perms
INVARIANTS
  ConstantsMatchHash
