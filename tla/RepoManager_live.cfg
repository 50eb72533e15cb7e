SPECIFICATION FairSpec
CONSTANTS
  t1 = t1
  t2 = t2
  t3 = t3
  TaskId = {t1}
  Producer <- TwoProducers
  Path = {1, 2, 3}
  DirectoryOf <- TwoDirectories
  NumberToKeep <- KeepOnes
  MaxAge <- NoMaxAges
  MaxThreadCount = 0
  HasOldManager = FALSE
  SameConfig = {}
  OldModels <- NothingOlds
  OriginsOf <- OneOriginEach
  Mutable = {}
  MayShutDown = TRUE
  MaxChanges = 1
  MaxTime = 1
PROPERTIES
  NewestEventuallyLoaded
  InitialWaitEnds
  ShutdownCompletes
CHECK_DEADLOCK FALSE
