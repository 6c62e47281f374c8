SPECIFICATION Spec
CONSTANTS
  r1 = r1
  r2 = r2
  reg = reg
  y = y
  node1 = node1
  node2 = node2
  node3 = node3
  z = z
  f1 = f1
  f2 = f2
  Fillers = {f1, f2}
  Keys <- Hashes
  Roots <- RootsOf
  Reg = reg
  Worlds <- SmallWorlds
  Trees <- Nodes
  limit = 1
  MaxG = 3
  Closing = TRUE
  LateCounted <- Counted
INVARIANTS
  FullIsWhole
  SkipsWhole
  HoldsEnd
PROPERTIES
  FillingEnds
CHECK_DEADLOCK FALSE
