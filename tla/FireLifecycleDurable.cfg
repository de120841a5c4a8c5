\* Two fires in one cell, both engines; handlers that race, or a Redis command that fails.
SPECIFICATION TroubleSpec
CONSTANTS
  g1 = g1
  g2 = g2
  e1 = e1
  e2 = e2
  e3 = e3
  NoGrid = NoGrid
  Grids <- OneGrid
  Neighbors <- SelfOnly
  Events <- Two
  StageMin <- MCStageMin
  Threshold = 3
  MaxDepth = 2
  TTL = 1
  MaxInFlight = 2
  MaxTime = 1
  MaxFaults = 1
SYMMETRY SymTwo
INVARIANTS
  TypeOK
  RegistrationDurable
PROPERTIES
  AckSeesOwnFire
  TransitionsChain
CHECK_DEADLOCK FALSE
