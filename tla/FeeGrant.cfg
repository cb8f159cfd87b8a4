CONSTANTS
  a = a
  b = b
  c1 = c1
  c2 = c2
  c3 = c3
  Accounts <- MCAccounts
  Calls <- MCCalls
  PerDay = 1
  Day = 1
  MayTimeOut = TRUE
  MayStop = TRUE
  MaxRepeats <- OneRepeated
  MaxTime = 2
SPECIFICATION OverlappingSpec
INVARIANTS TypeOK OneHolder NoRefusalStrands OncePerAnsweredPayment BudgetHeld
PROPERTIES PaidIsForever ReservationEnds
CHECK_DEADLOCK FALSE
ACTION_CONSTRAINTS InOrder Bounded
