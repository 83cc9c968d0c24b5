SPECIFICATION FairSpec
CONSTANTS
  Kind <- MCKind
  MaxLost = 2
  MaxInFlight = 5
INVARIANTS TypeOK DescriptionIntact StoredInOrder
PROPERTY Completes
CHECK_DEADLOCK FALSE
