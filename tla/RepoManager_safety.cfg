SPECIFICATION Spec
CONSTANTS
  t1 = t1
  t2 = t2
  t3 = t3
  TaskId = {t1, t2}
  Producer <- OneProducer
  Path = {1, 2}
  DirectoryOf <- OneDirectory
  NumberToKeep <- KeepOne
  MaxAge <- ShortMaxAge
  MaxThreadCount = 1
  HasOldManager = TRUE
  SameConfig = {"p"}
  OldModels <- OneOldModel
  OriginsOf <- MixedOrigins
  Mutable = {1, 2}
  MayShutDown = FALSE
  MaxChanges = 2
  MaxTime = 2
SYMMETRY Symmetry
INVARIANTS
  KeepBound
  StatusCovers
  RemovedUnlessRaced
  InOnePlace
PROPERTIES
  NewestNeverRegresses
  StorePromise
CHECK_DEADLOCK FALSE
