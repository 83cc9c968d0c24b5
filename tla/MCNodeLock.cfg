SPECIFICATION Spec
CONSTANTS
  n1 = n1
  n2 = n2
  a1 = a1
  a2 = a2
  robot = robot
  Apps = {a1, a2}
  Nodes = {n1, n2}
  Uuids = {robot}
  Uuid <- MCUuid
  Simulated = {n2}
  NoApp = NoApp
  NoNode = NoNode
  MaxAsks = 1
  MaxPosted = 3
SYMMETRY MCApps
INVARIANTS TypeOK OwnerHolds ClientsAgree
CHECK_DEADLOCK FALSE
