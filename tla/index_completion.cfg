\* An admin raises the target of a job that is about to complete.
SPECIFICATION Spec
CONSTANTS
  Channels = {c1}
  MaxMsg = 2
  FileIds = {1, 2}
  SourceChannels = {}
  BatchSize = 2
  MaxConsecutiveErrors = 2
  MaxFaults = 0
INVARIANTS CompletedReachesTarget
