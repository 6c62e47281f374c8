SPECIFICATION Spec
CONSTANTS
  p = p
  q = q
  u1 = u1
  u2 = u2
  Feeds <- TwoFeeds
  Nonces = {1, 2}
  Own = {1}
  Offers <- TheirsAndQ
  Users = {u1}
  Calls = {"DelFeed", "crash"}
  MaxSeq = 1
  MaxTime = 2
  MaxRC = 2
INVARIANTS FeedsList LoadAgrees ActiveNewest
CHECK_DEADLOCK FALSE
