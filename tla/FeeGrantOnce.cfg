CONSTANTS
  a = a
  b = b
  c1 = c1
  c2 = c2
  c3 = c3
  Accounts <- MCAccounts
  Calls <- MCCalls
  PerDay = 2
  Day = 2
  MayTimeOut = TRUE
  MayStop = FALSE
  MaxRepeats <- NoneRepeated
  MaxTime = 1
SPECIFICATION Spec
INVARIANT OnceEver
CHECK_DEADLOCK FALSE
