SPECIFICATION Spec
CONSTANTS
  Client = {c1}
  Key = {"/a"}
  Methods = {"GET"}
  Lengths = {2}
  BufferLimit = 3
  Configs <- CachingOn
  Leaves = TRUE
  Fails = FALSE
  KeepsAlive = FALSE
  MaxReloads = 0
  MaxTime = 0
INVARIANTS CachedComplete
