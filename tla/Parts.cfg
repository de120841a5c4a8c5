\* Rooms, session, acknowledgements, feedback and shutdown, one at a time.
SPECIFICATION PartsSpec
CONSTANTS
  s1 = s1
  s2 = s2
  s3 = s3
  r1 = r1
  r2 = r2
  r3 = r3
  a = a
  b = b
  c = c
  Sids <- MCSids
  Rooms <- MCRooms
  Requests <- MCRequests
  SidOf <- MCSidOf
  IdOf <- MCIdOf
  Timed <- MCTimed
  HttpRequests <- MCHttp
  MaxSends = 3
  RateLimit = 1
  Window = 2
  MaxFaults = 1
INVARIANTS
  MutuallyInverse
  NoEmptyEntries
  NoSleepOverWork
  NoneForgotten
  NothingLeaks
  AnsweredOnce
  EnginesEndFirst
PROPERTIES
  ImplementsMembership
  ImplementsChannel
  Delivered
  EventuallyDropped
  EventuallyCalled
  KeyExpires
  SignalExits
CHECK_DEADLOCK FALSE
