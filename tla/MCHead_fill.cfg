SPECIFICATION Spec
CONSTANTS
  c1 = c1
  c2 = c2
  r = r
  a = a
  Conns = {c1, c2}
  Gets <- GetsOf
  KeyOf <- KeyOfGet
  Registry = "r"
  Seqs = {1, 2}
  Needs <- NeedsOf
  Timers = TRUE
  Verdicts = {TRUE, FALSE}
  Errors = {"invalid", "timeout", "other"}
  MaxPush = 2
  MaxEvents = 1
  Cap = 1
INVARIANTS
  EachKeyKept
  AsksOn
  PendingNewer
CHECK_DEADLOCK FALSE
PROPERTIES
  
  DeleteEnds
