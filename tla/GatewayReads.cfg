SPECIFICATION Spec
CONSTANTS
  x = x
  y = y
  w1 = w1
  w2 = w2
  m1 = m1
  r1 = r1
  origin = origin
  Names <- TwoNames
  Jobs <- WriteAndMove
  Writers <- OneWriter
  Movers <- OneMover
  Readers <- OneReader
  Origin = origin
  MayLapse = TRUE
  MayFail = TRUE
SYMMETRY Symmetry
CHECK_DEADLOCK FALSE
INVARIANT
  NoValueStrays
PROPERTY
  ReadExactBetweenBlocks
ACTION_CONSTRAINT BothMoved
