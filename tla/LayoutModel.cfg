CONSTANTS
  Inputs <- MCInputs
  Words <- MCWords
  Numbers <- MCNumbers
SPECIFICATION Spec
CHECK_DEADLOCK FALSE
INVARIANTS
  TypeOK
  OutcomeIsOrderFree
  NoInternalError
  HeadersMeanRequests
