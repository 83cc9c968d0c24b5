SPECIFICATION FairSpec
CONSTANTS
  MaxChanges = 3
  MaxRequests = 2
  MaxPings = 2
INVARIANTS TypeOK HandshakeFirst
PROPERTIES HandshakeAnswered SessionEnds
CHECK_DEADLOCK FALSE
