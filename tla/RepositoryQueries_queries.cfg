SPECIFICATION Spec
CONSTANTS
  Name <- Names
  Config <- Configs
  ByName <- AlphabeticOrder
  InFileOrder <- SettingsOrder
  Lists <- SearchLists
  FileOf <- Files
  About <- Contents
  LevelTypes <- WantedLevels
  Period <- Periods
  Options <- MetaOptions
  Lower <- LowerCase
  MaxTime = 2
INVARIANTS
  OneGrid
PROPERTIES
  NewestAnswered
  PeriodAnswered
  MetadataAgrees
  FollowUpsAgree
