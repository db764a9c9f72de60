\* Two handlers race over one verification link and the clocks of two users.
SPECIFICATION Spec
CONSTANTS
  Users = {u1, u2}
  Handlers = {h1, h2}
  Tokens = {t1}
  NoToken = none
  TokenTTL = 1
  Durations = {1, 2}
  Horizon = 1
  MaxGrants = 2
  MaxFaults = 1
CHECK_DEADLOCK FALSE
INVARIANTS TypeOK TokenHonoured BurntIsPaid NoFreeFile
PROPERTIES CutBackOnlyByOverlap
