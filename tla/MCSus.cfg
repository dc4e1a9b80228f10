SPECIFICATION SusSpec
CONSTANTS
  loop = loop
  a = a
  b = b
  c = c
  s0 = s0
  s1 = s1
  Task <- MCTask
  IoLoop = loop
  Slot = {s0, s1}
  Lender <- MCLender
  Borrower <- MCBorrower
  Pointer = {p, q}
  NULL = NULL
  Size = {0, 1}
  Fd = {7}
  VisitLimit = 2
INVARIANTS
  TypeOK
  HandoverSafe
  OpenWhileLent
  ContractHolds
  WatchedHaveWaiters
PROPERTIES
  HandoverSpec
CHECK_DEADLOCK FALSE
