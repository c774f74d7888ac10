SPECIFICATION Spec
CONSTANTS
  Announcements = {a1}
  Instances = {i1, i2}
  a1 = a1
  i1 = i1
  i2 = i2
  MaxRetry = 1
  MaxEdits = 0
  MaxFaults = 2
SYMMETRY InstanceSymmetry
INVARIANTS
  TypeOK
  NoSilentLoss
  QuietHoursRespected
  SentWasPushed
  DuplicatesExplained
CHECK_DEADLOCK FALSE
