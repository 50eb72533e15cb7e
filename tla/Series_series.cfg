SPECIFICATION Spec
CONSTANTS
  Dataset <- Data
  Place <- Places
  NearestOf <- Nearest
  AngleAt <- Angles
  Request <- Calls
  MaxCalls = 3
INVARIANTS
  MadeAsAsked
  AnsweredWhenAvailable
CHECK_DEADLOCK FALSE
