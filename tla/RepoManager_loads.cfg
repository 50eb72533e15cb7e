SPECIFICATION Spec
CONSTANTS
  t1 = t1
  t2 = t2
  t3 = t3
  TaskId = {t1, t2, t3}
  Producer <- OneProducer
  Path = {1, 2, 3}
  DirectoryOf <- OneDirectory
  NumberToKeep <- KeepTwo
  MaxAge <- NoMaxAge
  MaxThreadCount = 1
  HasOldManager = TRUE
  SameConfig = {"p"}
  OldModels <- OneOldModel
  OriginsOf <- OneOriginEach
  Mutable = {}
  MayShutDown = TRUE
  MaxChanges = 2
  MaxTime = 1
SYMMETRY Symmetry
INVARIANTS
  TypeOK
  ThreadCountExact
  NewestLoaded
CHECK_DEADLOCK FALSE
