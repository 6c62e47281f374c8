SPECIFICATION Spec
CONSTANTS
  A = A
  B = B
  f = f
  g = g
  Nodes = {A, B}
  Feeds = {f, g}
  Shared = {f, g}
  Calls <- CallsOf
  Callback = {"accept", "reject", "share"}
  Public = {B}
  MaxCalls = 3
  MaxTimeouts = 1
INVARIANTS
  Agree
  NoRootMissed
  IdleIsFree
  ListIsTrue
CHECK_DEADLOCK FALSE
