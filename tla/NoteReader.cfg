CONSTANTS
  Files <- MCFiles
  Size <- MCSize
  ElfHeaders <- MCElfHeaders
  SectionHeaders <- MCSectionHeaders
  NoteHeaders <- MCNoteHeaders
  DescHeaders <- MCDescHeaders
  RecordHeaders <- MCRecordHeaders
  Names <- MCNames
  Zeros <- MCZeros
  Garbled = Garbled
  MaxWord = 511
  MaxU32 = 255
  MaxDescSize = 100
  MaxRecordCount = 2
  MaxStringLen = 5
  MaxSetNameLen = 4
  SectionSlack = 40
SPECIFICATION FairSpec
CHECK_DEADLOCK FALSE
INVARIANTS
  TypeOK
  ReadsInBounds
  RecordsBacked
PROPERTIES
  Ends
