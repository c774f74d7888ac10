SPECIFICATION Spec
CONSTANTS
  Announcements = {a1}
  Instances = {i1}
  a1 = a1
  i1 = i1
  MaxRetry = 1
  MaxEdits = 0
  MaxFaults = 1
INVARIANT
  NeverPushedTwice
CHECK_DEADLOCK FALSE
