SPECIFICATION Spec
CONSTANTS
  Model = {m1, m2}
  InfoId = {i1, i2, i3}
  User = {u1, u2}
  MaxInfos = 2
SYMMETRY Symmetry
INVARIANTS
  Exclusive
  ReadsLiveData
  StartsAtFirst
  PoolBounded
