SPECIFICATION Spec
CONSTANTS
  i1 = i1
  i2 = i2
  g1 = g1
  c1 = c1
  c2 = c2
  SignIns <- TwoSignIns
  Accounts <- OneAccount
  Requests <- TwoRequests
  Again = 2
  Rotations = 2
SYMMETRY Symmetry
CHECK_DEADLOCK FALSE
INVARIANT UndatedIsMature
