SPECIFICATION Spec
CONSTANTS
  Children = {k1}
  Instances = {i1, i2}
  Handlers = {h1, h2}
  Calendar <- ThreeDays
  Amounts = {1}
  Settings <- TwoSettings
  Terms <- OnePlan
  None = None
  StartBalance = 1
  MaxRequests = 2
  MaxFaults = 1
  k1 = k1
  i1 = i1
  i2 = i2
  h1 = h1
  h2 = h2
SYMMETRY Symmetry
INVARIANTS
  TypeOK
  AllowanceOnce
  DailyJobsDone
  SavingsKept
  NoOverdraft
  HistoryKept
CONSTRAINT Meaningful
CHECK_DEADLOCK FALSE
