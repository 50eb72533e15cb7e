SPECIFICATION FairSpec
CONSTANTS
  Manager = {m1, m2, m3}
  Query = {q1}
  MaxChanges = 2
  DistinctSeconds = TRUE
INVARIANTS
  TypeOK
  OldManagersFreed
  ErrorIsTrue
  StoppedAtEnd
PROPERTIES
  EnginePromised
  SettingsFollowFile
CHECK_DEADLOCK FALSE
