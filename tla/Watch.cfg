CONSTANTS
  Writers = {w1, w2}
  Watchers = {v1, v2}
  Lookups = {"code", "id"}
  Cap = 1
  MaxCommits = 3
SPECIFICATION FairSpec
CHECK_DEADLOCK FALSE
INVARIANTS NoSendOnClosed NewestIsSent
PROPERTIES BroadcastsEnd WatchersLeave
