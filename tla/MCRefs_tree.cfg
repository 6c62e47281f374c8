SPECIFICATION Spec
CONSTANTS
  h1 = h1
  h2 = h2
  Blank = Blank
  Elements <- Hashes
  Degrees <- TwoThree
  Batches <- Batch
  Ranges <- Parts
  Flags <- SomeFlags
  MaxLen = 9
  MaxCalls = 4
INVARIANTS
  HoldsList
  WellFormed
  HashActual
  IndexAgrees
  ReadsList
  RebuildSaves
