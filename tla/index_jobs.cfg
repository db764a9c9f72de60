\* One channel with a batch that ends inside the target.
SPECIFICATION FairSpec
CONSTANTS
  Channels = {c1}
  MaxMsg = 3
  FileIds = {1, 3}
  SourceChannels = {}
  BatchSize = 2
  MaxConsecutiveErrors = 2
  MaxFaults = 1
INVARIANTS TypeOK CheckpointCovered CheckpointWithinTarget
PROPERTIES NeverRescans CompletionEarned RunningSettles ImplementsLedger
