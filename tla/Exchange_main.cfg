SPECIFICATION Spec
CONSTANTS
  Codes <- MCCodes
  Kinds <- MCKinds
  Names <- MCNames
  MaxSize = 3
  ChunkSize = 2
  MaxLines = 3
  MaxCalls = 2
INVARIANTS
  TypeOK
  Framed
  AnswersCompleteHeads
  LibraryAnswersOnce
PROPERTIES
  SendingKeepsHeader
  FileTyped
  RefusalArrives
