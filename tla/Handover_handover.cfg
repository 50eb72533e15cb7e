SPECIFICATION Spec
CONSTANTS
  Path = {1, 2}
  OriginOf <- Origins
  Group <- Groups
  Manager = {1, 2}
  TaskId = {t1, t2}
  MaxChanges = 1
SYMMETRY TaskIds
INVARIANTS
  FreshUnlessReused
  ReusedAsConfigured
CHECK_DEADLOCK FALSE
