SPECIFICATION Spec
CONSTANTS
  NULL = NULL
  slot0 = slot0
  slot1 = slot1
  OutFd = "fd7"
  Timeout = "none"
  VisitLimit = 100
  BufSize = 16
  Traffic <- OneGood
  MaxSends = 1
  Patient = TRUE
  Split = FALSE
  MaxSignals = 0
  MaxAgain = 0
INVARIANTS
  SleepsOnlyIdle
CHECK_DEADLOCK FALSE
