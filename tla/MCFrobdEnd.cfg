SPECIFICATION Spec
CONSTANTS
  NULL = NULL
  slot0 = slot0
  slot1 = slot1
  OutFd = "fd7"
  Timeout = "deadline"
  VisitLimit = 100
  BufSize = 16
  Traffic <- Harmless
  MaxSends = 2
  Patient = FALSE
  Split = FALSE
  MaxSignals = 1
  MaxAgain = 1
INVARIANTS
  FrontendOutlivesWire
PROPERTIES
  FirstFrameAnswered
  DeadlineEndsProgram
\* sus_runall returns when the last task has ended.
CHECK_DEADLOCK FALSE
