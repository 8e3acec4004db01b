SPECIFICATION Spec
CONSTANTS
  None = None
  Fatal = Fatal
  MaxChain = 4
  MaxWord = 255
  MCCompilers = {"gcc2", "gcc4", "clang4", "gcc5"}
  Sources <- MCSources
  Object <- Compile
CHECK_DEADLOCK FALSE
INVARIANTS
  NestingIsKept
  GeometryIsTheCompilers
  EnumeratorsAreTheCompilers
  SupportedIsAnswered
