SPECIFICATION Spec
CONSTANTS
  NULL = NULL
  slot0 = slot0
  slot1 = slot1
  OutFd = "fd7"
  Timeout = "none"
  VisitLimit = 100
  BufSize = 16
  Traffic <- OneGood
  MaxSends = 1
  Patient = TRUE
  Split = TRUE
  MaxSignals = 1
  MaxAgain = 0
INVARIANTS
  GoodLrcAcked
CHECK_DEADLOCK FALSE
