SPECIFICATION Spec
CONSTANTS
  n1 = n1
  n2 = n2
  a1 = a1
  a2 = a2
  robot = robot
  Apps = {a1, a2}
  Nodes = {n1}
  Uuids = {robot}
  Uuid <- MCUuid
  Simulated = {}
  NoApp = NoApp
  NoNode = NoNode
  MaxAsks = 2
  MaxPosted = 3
SYMMETRY MCApps
INVARIANTS OwnerHolds
CHECK_DEADLOCK FALSE
