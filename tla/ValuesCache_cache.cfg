SPECIFICATION FairSpec
CONSTANTS
  Call = {c1, c2}
  FutureId = {f1, f2, f3}
  MaxVersion = 2
  MaxEntries = 1
INVARIANTS
  AnswersOwnDataUnlessTorn
  OwnerWaits
PROPERTY
  CallsEnd
