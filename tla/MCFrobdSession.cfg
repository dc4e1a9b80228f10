SPECIFICATION Spec
CONSTANTS
  NULL = NULL
  slot0 = slot0
  slot1 = slot1
  OutFd = "fd7"
  Timeout = "deadline"
  VisitLimit = 100
  BufSize = 4
  Traffic <- Mixed
  MaxSends = 2
  Patient = FALSE
  Split = TRUE
  MaxSignals = 0
  MaxAgain = 0
INVARIANTS
  FrobdTypeOK
  LoanChain
  SelectOnlyOpen
  AckBeforeReply
  ReplyFits
PROPERTIES
  BufferStable
  Runtime
\* select(2) may wait for ever, and the process may end.
CHECK_DEADLOCK FALSE
