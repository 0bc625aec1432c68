SPECIFICATION FairSpec
CONSTANTS
  Client = {c1, c2}
  Key = {"/a"}
  Methods = {"GET"}
  Lengths = {1, 2}
  BufferLimit = 1
  Configs <- EveryReplyTask
  Leaves = TRUE
  Fails = TRUE
  KeepsAlive = FALSE
  MaxReloads = 0
  MaxTime = 0
PROPERTIES Delivered
