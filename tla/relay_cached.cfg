SPECIFICATION Spec
CONSTANTS
  Client = {c1, c2}
  Key = {"/a", "/b"}
  Methods = {"GET"}
  Lengths = {2,3}
  BufferLimit = 2
  Configs <- CachingOnAndOff
  Leaves = FALSE
  Fails = FALSE
  KeepsAlive = FALSE
  MaxReloads = 2
  MaxTime = 2
INVARIANTS TypeOK CachedComplete AnsweredInFull SizeCoversContent NothingSurvivesDisabling
PROPERTIES StoredWithinLimit
SYMMETRY ClientSymmetry
