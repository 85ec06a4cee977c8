SPECIFICATION Spec
CONSTANTS
  Conns = {c1, c2}
  Chans = {a, b}
  MaxAsks = 3
  MaxEvents = 1
  NoOne = NoOne
CHECK_DEADLOCK FALSE
INVARIANT
  EveryAckIsBacked
