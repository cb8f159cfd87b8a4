SPECIFICATION Spec
CONSTANTS
  x = x
  y = y
  w1 = w1
  w2 = w2
  m1 = m1
  r1 = r1
  origin = origin
  Names <- OneName
  Jobs <- TwoWritesAndMove
  Writers <- TwoWriters
  Movers <- OneMover
  Readers <- OneReader
  Origin = origin
  MayLapse = FALSE
  MayFail = FALSE
SYMMETRY Symmetry
CHECK_DEADLOCK FALSE
INVARIANT
  NotFoundMeansAbsent
