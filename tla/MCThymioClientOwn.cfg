SPECIFICATION Spec
CONSTANTS
  n1 = n1
  n2 = n2
  g1 = g1
  g2 = g2
  r1 = r1
  r2 = r2
  Nodes = {n1, n2}
  Groups = {g1, g2}
  NoGroup = NoGroup
  RequestIds = {r1, r2}
  MaxRequests = 2
  MaxChanges = 2
  MaxPosted = 4
SYMMETRY MCSymmetry
INVARIANTS GroupVariablesAreShared
CHECK_DEADLOCK FALSE
