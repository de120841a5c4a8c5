\* A user reconnects after the first session has been disconnected.
SPECIFICATION LivelySpec
CONSTANTS
  s1 = s1
  s2 = s2
  u1 = u1
  c1 = c1
  chat = chat
  none = none
  Sids <- TwoSids
  UserOf <- SameUser
  Cells <- OneCell
  ChatRoom <- chat
  NoSid <- none
  MaxViolations = 1
  MaxEvents = 1
PROPERTY
  RoomsRestored
CHECK_DEADLOCK FALSE
