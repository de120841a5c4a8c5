\* Two fires one after the other in one cell, under fair scheduling.
SPECIFICATION FairSpec
CONSTANTS
  g1 = g1
  g2 = g2
  e1 = e1
  e2 = e2
  e3 = e3
  NoGrid = NoGrid
  Grids <- OneGrid
  Neighbors <- SelfOnly
  Events <- Two
  StageMin <- MCStageMin
  Threshold = 3
  MaxDepth = 2
  TTL = 1
  MaxInFlight = 1
  MaxTime = 1
  MaxFaults = 0
PROPERTIES
  StageEventuallyTold
  ExpiredReclaimed
CHECK_DEADLOCK FALSE
