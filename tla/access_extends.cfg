\* A premium grant and another one overlap on one clock.
SPECIFICATION Spec
CONSTANTS
  Users = {u1}
  Handlers = {h1, h2}
  Tokens = {t1}
  NoToken = none
  TokenTTL = 1
  Durations = {1, 3}
  Horizon = 1
  MaxGrants = 2
  MaxFaults = 0
CHECK_DEADLOCK FALSE
PROPERTIES GrantExtends
