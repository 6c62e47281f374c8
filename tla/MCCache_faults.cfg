SPECIFICATION Spec
CONSTANTS
  a = a
  b = b
  c = c
  w1 = w1
  w2 = w2
  Keys <- TwoKeys
  Wanters = {w1, w2}
  Vol <- VolOfTwo
  enable = TRUE
  CacheMaxAmount = 3
  CacheMaxVolume = 3
  CacheMaxItemSize = 2
  amountc = 1
  volumec = 2
  MaxObjectSize = 2
  Drive = TRUE
  DBFails = TRUE
  Incs <- DownUp
  SetIncs = {1, 2}
  LateWants = {"db", "cache"}
  CloseWanted = TRUE
  MaxRC = 2
VIEW WithoutReply
SYMMETRY Perms
INVARIANT Coherent
CHECK_DEADLOCK FALSE
