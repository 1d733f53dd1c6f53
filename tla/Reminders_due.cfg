SPECIFICATION FairSpec
CONSTANTS
  r1 = r1
  r2 = r2
  NULL = NULL
  Server = {s1, s2}
  Proc = {p1, p2}
  Reminder <- TwoReminders
  Muted <- SecondMuted
  Ops <- CommonOps
  MaxActive = 1
  BatchSize = 1
  MaxCalls = 3
  MaxFaults = 1
INVARIANT TypeOK AnnouncedOnce
PROPERTY DueIsShown
CHECK_DEADLOCK FALSE
