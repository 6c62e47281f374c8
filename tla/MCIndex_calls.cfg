SPECIFICATION Spec
CONSTANTS
  p = p
  q = q
  u1 = u1
  u2 = u2
  Feeds <- OneFeed
  Nonces = {1, 2}
  Own = {1}
  Offers <- Forked
  Users = {u1, u2}
  Calls = {"AddHead", "DelHead", "DelRoot", "DelFeed", "old"}
  MaxSeq = 1
  MaxTime = 2
  MaxRC = 2
SYMMETRY Perms
INVARIANTS HeadsAgree Kept
CHECK_DEADLOCK FALSE
