SPECIFICATION Spec
CONSTANTS
  a = a
  b = b
  c = c
  w1 = w1
  w2 = w2
  Keys <- ThreeKeys
  Wanters = {w1, w2}
  Vol <- VolOfAll
  enable = TRUE
  CacheMaxAmount = 1
  CacheMaxVolume = 2
  CacheMaxItemSize = 1
  amountc = 0
  volumec = 1
  MaxObjectSize = 2
  Drive = FALSE
  DBFails = FALSE
  Incs <- DownUp
  SetIncs = {1}
  LateWants = {"db"}
  CloseWanted = FALSE
  MaxRC = 2
VIEW WithoutReply
SYMMETRY Perms
INVARIANTS Coherent Accounting NoLostWakeup
PROPERTY Transparent
CHECK_DEADLOCK FALSE
