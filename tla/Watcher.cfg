SPECIFICATION FairSpec
CONSTANTS
  a = a
  k = k
  s = s
  t = t
  Accounts <- TwoAccounts
  Known <- OneKnown
  From <- Mails
  PerSender = 1
  AllPerDay = 2
  KeepDays = 2
  MaxDay = 2
  Page = 1
  MaxEvents = 6
  MaxStops = 1
INVARIANTS TypeOK DailyLimits CountMatchesInbox SavedMeansTold CheckedDaysReported DigestComplete OutsideOnly
PROPERTIES WritersReported
CHECK_DEADLOCK FALSE
ACTION_CONSTRAINTS MailsApart Bounded
