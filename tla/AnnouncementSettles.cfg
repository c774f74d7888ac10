SPECIFICATION FairSpec
CONSTANTS
  Announcements = {a1}
  Instances = {i1}
  a1 = a1
  i1 = i1
  MaxRetry = 2
  MaxEdits = 1
  MaxFaults = 2
PROPERTY
  PushSettles
CHECK_DEADLOCK FALSE
