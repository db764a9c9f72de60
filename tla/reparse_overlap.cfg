\* Two handlers in flight at once, /reparse cancel among them.
SPECIFICATION FairSpec
CONSTANTS
  Admins = {a1, a2}
  WithCancel = TRUE
  Batches = 2
  MaxRequests = 2
  MaxCrashes = 2
  MaxRedisFaults = 1
CHECK_DEADLOCK FALSE
INVARIANTS OrphanedOnlyByRedis RunsAsAsked
PROPERTIES NoRequestLost QueuedIsServed RunEnds FinishIsHonest
