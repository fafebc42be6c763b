SPECIFICATION Spec
CONSTANTS
  Route = {r1, r2}
  Worker = {w1, w2}
  Threshold = 2
  FeedSizes = {1, 3}
  MaxFeeds = 3
INVARIANTS
  KeysFromOwnBlock
  NothingUsedTwice
PROPERTIES
  SecureBlocksDeliver
CHECK_DEADLOCK FALSE
