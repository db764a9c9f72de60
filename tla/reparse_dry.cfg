\* Two confirmations race; nothing fails and nobody cancels.
SPECIFICATION Spec
CONSTANTS
  Admins = {a1, a2}
  WithCancel = FALSE
  Batches = 1
  MaxRequests = 2
  MaxCrashes = 0
  MaxRedisFaults = 0
CHECK_DEADLOCK FALSE
INVARIANTS DryRunWritesNothing
