\* One session.
SPECIFICATION FairSpec
CONSTANTS
  s1 = s1
  s2 = s2
  u1 = u1
  c1 = c1
  chat = chat
  none = none
  Sids <- OneSid
  UserOf <- OneUser
  Cells <- OneCell
  ChatRoom <- chat
  NoSid <- none
  MaxViolations = 1
  MaxEvents = 3
INVARIANTS
  TypeOK
  SocketsRegistered
  OnlyStraysLeaveTraces
PROPERTIES
  EventuallyForgotten
CHECK_DEADLOCK FALSE
