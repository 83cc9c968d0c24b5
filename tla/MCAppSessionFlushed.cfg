SPECIFICATION Spec
CONSTANTS
  MaxChanges = 1
  MaxRequests = 1
  MaxPings = 1
INVARIANT Flushed
CHECK_DEADLOCK FALSE
