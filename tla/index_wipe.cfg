\* /clear_index and a new /index while a batch is in flight.
SPECIFICATION Spec
CONSTANTS
  Channels = {c1}
  MaxMsg = 2
  FileIds = {1, 2}
  SourceChannels = {}
  BatchSize = 2
  MaxConsecutiveErrors = 2
  MaxFaults = 0
INVARIANTS ReindexFromScratch
