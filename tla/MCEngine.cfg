SPECIFICATION Spec
CONSTANTS
  Settings <- Kinds
  Payment = TRUE
  Capacity = 6
  Requests <- Anything
  Polite <- Considerate
  Cuts = {3, 4}
INVARIANTS
  EngineTypeOK
  PoliteSafe
  OutputWatched
  WaitsGuarded
  AnswersExact
PROPERTIES
  RequestsAnswered
  HangUpEnds
\* The program ends.
CHECK_DEADLOCK FALSE
