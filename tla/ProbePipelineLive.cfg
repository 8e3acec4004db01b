CONSTANTS
  Manifests = {m1, m2}
  Headers = {k1, k2}
  Commands = {c1}
  Tools = {t1}
  None = None
  Torn = Torn
  Edited = Edited
  Names <- EnumNames
  EditDuringBuild = TRUE
  Tampering = FALSE
  MaxEdits = 2
  MaxStops = 1
SPECIFICATION MCFairSpec
INVARIANTS
  QuietBuildIsLabelled
PROPERTIES
  Converges
