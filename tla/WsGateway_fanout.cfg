\* Two clients join and leave two topics while events are published and the
\* connection to Redis is lost and made again, and a SUBSCRIBE may raise.
SPECIFICATION LiveSpec
CONSTANTS
  Conns = {c1, c2}
  Chans = {a, b}
  MaxAsks = 3
  MaxEvents = 1
  NoOne = NoOne
CHECK_DEADLOCK FALSE
INVARIANTS
  WsTypeOK
  IndexesAgree
  AckedIsBacked
PROPERTIES
  EventsReach
