\* Chat, fire feed, dispatch and encoding, one at a time.
SPECIFICATION MessagesSpec
CONSTANTS
  a = a
  b = b
  x = x
  y = y
  e1 = e1
  e2 = e2
  e3 = e3
  Clients = {a, b}
  MaxKept = 1
  HistorySize = 1
  MaxMessages = 2
  MaxRequests = 4
  MaxFailures = 1
  Cells <- MCCells
  Fires <- MCFires
  CellOf <- MCCellOf
  Igniting = {e1}
  Demo = {e3}
  MaxEvents = 2
  Unlimited = {"heartbeat", "fire"}
  Silent = {"fire"}
  Limited = {"fire:ignite"}
  Burst = 2
  MaxRejections = 1
  MaxPackets = 5
  MaxRefills = 1
  MaxDrops = 1
  Messages <- MCTransferred
  MaxAttachments = 2
  MaxJSONDepth = 4
  MaxTransfers = 2
SYMMETRY Symmetry
INVARIANTS
  ShowsNewest
  ShownOnce
  PresenceSettles
  LastAddedShown
  ListsHonest
  RateBounded
  Reassembled
  HandlersGetArguments
CHECK_DEADLOCK FALSE
