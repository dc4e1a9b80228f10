SPECIFICATION SlurpSpec
CONSTANTS
  NULL = NULL
  Width = 5
  Messages <- MCMessages
  Sizes <- MCSizes
  Texts <- MCTexts
  Files <- MCFiles
  Buffers <- MCBuffers
INVARIANTS
  CursorInside
  WholeOrRefused
  SlackSuffices
  RoundTrip
  AnswersParse
  AllConsumed
  WholeFile
\* A text is written or read once and parsed once.
CHECK_DEADLOCK FALSE
