SPECIFICATION HostSpec
CONSTANTS
  None = None
  Files <- MCFiles
  Designators <- MCDesignators
  SafeNames = {"s", "t"}
  Units <- MCUnits
  Allow <- MCAllow
  Deny <- MCDeny
  Versions = {"v1", "v2"}
  MaxStops = 2
  MaxChores = 2
CHECK_DEADLOCK FALSE
INVARIANTS
  MeansWhatItSays
  ForbiddenIsRefused
  OrderIsNoCause
  BoundaryIsKept
  EveryHeaderIsJudged
  HookedOnce
PROPERTIES
  NeverReplaced
