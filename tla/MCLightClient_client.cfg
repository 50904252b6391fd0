SPECIFICATION Spec
CONSTANTS
  v1 = v1
  v2 = v2
  ValidatorSets = {v1, v2}
  Headers <- MCHeaders
  Signed <- MCSigned
  Overlap <- MCOverlap
  TrustingPeriod = 4
  MaxClockDrift = 2
  TimeSteps = {2, 3}
  MaxClients = 1
  MaxHeight = 3
  MaxMessages = 3
INVARIANTS HeightsRecorded LowestIsOldest
PROPERTIES ConflictFreezes FrozenIsFinal
CHECK_DEADLOCK FALSE
