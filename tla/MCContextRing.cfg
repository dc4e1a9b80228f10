SPECIFICATION Spec
CONSTANTS
  Order <- MCOrder
  NULL = NULL
INVARIANTS
  TypeOK
  RingIntact
  BoundedBypass
PROPERTIES
  RunQueueSpec
\* sus_runall returns when the last task has ended.
CHECK_DEADLOCK FALSE
