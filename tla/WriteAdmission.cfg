CONSTANTS
  a = a
  b = b
  t1 = t1
  t2 = t2
  t3 = t3
  t4 = t4
  Accounts <- MCAccounts
  Everyone = everyone
  Tokens <- MCTokens
  Minute = 2
  Day = 3
  PerMinute = 2
  PerDay = 3
  GlobalPerDay = 4
  WriteSizes = {1, 2}
  Eligible <- MCEligible
  MaxLag = 1
  MaxTime = 4
SPECIFICATION Spec
SYMMETRY Symmetry
INVARIANTS TypeOK OnlyAdmittedCounted InWindowKept WindowLimit BurstBound RemainingIsSafe
CHECK_DEADLOCK FALSE
PROPERTY PolicyRefined
