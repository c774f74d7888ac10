SPECIFICATION FairSpec
CONSTANTS
  Tasks = {t1}
  Handlers = {h1, h2}
  Workers = {w1}
  t1 = t1
  h1 = h1
  h2 = h2
  w1 = w1
  Horizon = 2
  MaxReminders = 2
  MaxRequests = 3
  MaxCrashes = 1
INVARIANTS
  TypeOK
  WaitingMatchesRows
  RemindersAreWaiting
  PushedOnce
PROPERTY
  WaitingIsHandled
CHECK_DEADLOCK FALSE
