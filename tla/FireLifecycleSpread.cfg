\* Three fires in two cells that are full with one fire, handlers and clock only.
SPECIFICATION RegistrationSpec
CONSTANTS
  g1 = g1
  g2 = g2
  e1 = e1
  e2 = e2
  e3 = e3
  NoGrid = NoGrid
  Grids <- TwoGrids
  Neighbors <- EachOther
  Events <- Three
  StageMin <- MCStageMin
  Threshold = 1
  MaxDepth = 2
  TTL = 1
  MaxInFlight = 2
  MaxTime = 0
  MaxFaults = 1
INVARIANTS
  OvershootBounded
  StatsBracketed
PROPERTIES
  IgniteTerminates
CHECK_DEADLOCK FALSE
