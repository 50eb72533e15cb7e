SPECIFICATION ValueSpec
CONSTANTS
  Spacing = 3
  Offset <- Offsets
  Radius = {4, 7}
  Point <- Square5
  Valid <- UpToTwo
  Weather <- Weathers
INVARIANTS
  NearestIsValid
  ClosestFromGridPoint
  NumberTellsSymbol
  SymbolsDocumented
  CompassNearest
CHECK_DEADLOCK FALSE
