\* Three calls of two methods, answered in any order; three watchers, each run
\* up to twice in a flush; four keys in any order.
SPECIFICATION ScriptsSpec
CONSTANTS
  Method = {m1, m2}
  MaxCalls = 3
  Watcher = {a, b, c}
  MaxRuns = 2
  Parts = {"a", "b"}
  Keys <- MCKeys
  MaxKeys = 4
INVARIANTS
  OwnOrLater
  GivenOnce
  LastHearsItself
  ParentsFirst
  NothingLost
  TextsAreFound
PROPERTY
  DrawsInOrder
\* The page may stop calling, and no key may be left to read.
CHECK_DEADLOCK FALSE
