SPECIFICATION Spec
CONSTANTS
  Settings <- Shared
  Payment = TRUE
  Capacity = 6
  Requests <- Anything
  Polite <- Considerate
  Cuts = {}
INVARIANTS
  OnlyInputsRead
CHECK_DEADLOCK FALSE
