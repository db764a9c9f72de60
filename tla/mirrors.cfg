\* Two handlers, two or three commands and one fault for each of the copies.
SPECIFICATION Spec
CONSTANTS
  People = {u1, u2}
  BanTasks = {b1, b2}
  MaxBanOps = 3
  MaxBanFaults = 1
  Keys = {api, base, gate}
  Api = api
  Base = base
  Gate = gate
  Values = {v1}
  On = on
  Off = off
  Unset = unset
  Empty = empty
  CfgTasks = {c1, c2}
  MaxCfgOps = 2
  MaxCfgFaults = 1
  Words = {w1, w2}
  Cap = 1
  GrpTasks = {g1, g2}
  MaxGrpOps = 2
  MaxGrpFaults = 1
CHECK_DEADLOCK FALSE
INVARIANTS TypeOK MirrorAgreesUnlessRaced BannedStayOut StaleOnlyByOverlap CapExceededOnlyByOverlap ActiveMeansMember
PROPERTIES CopiesConverge GroupGetsRecorded
