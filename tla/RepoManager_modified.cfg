SPECIFICATION FairSpec
CONSTANTS
  t1 = t1
  t2 = t2
  t3 = t3
  TaskId = {t1, t2, t3}
  Producer <- OneProducer
  Path = {1}
  DirectoryOf <- OneDirectory
  NumberToKeep <- KeepOne
  MaxAge <- NoMaxAge
  MaxThreadCount = 1
  HasOldManager = FALSE
  SameConfig = {}
  OldModels <- NothingOld
  OriginsOf <- MaybeCorrupt
  Mutable = {1}
  MayShutDown = FALSE
  MaxChanges = 2
  MaxTime = 2
PROPERTY
  ModifiedIsReloaded
