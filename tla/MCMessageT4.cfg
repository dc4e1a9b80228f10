SPECIFICATION SlurpSpec
CONSTANTS
  NULL = NULL
  Width = 5
  Messages <- MCMessages
  Sizes <- MCSizes
  Texts <- MCTexts
  Files <- MCFiles
  Buffers <- MCBuffers
INVARIANTS
  AnswersReturn
CHECK_DEADLOCK FALSE
