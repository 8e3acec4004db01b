SPECIFICATION Spec
CONSTANTS
  None = None
  Fatal = Fatal
  MaxChain = 4
  MaxWord = 255
  MCCompilers = {"gcc14", "clang18"}
  Sources <- MCSources
  Object <- Compile
CHECK_DEADLOCK FALSE
INVARIANTS
  SupportedIsAnswered
