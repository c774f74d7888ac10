SPECIFICATION Spec
CONSTANTS
  Children = {k1}
  Instances = {i1}
  Handlers = {h1}
  Calendar <- ThreeDays
  Amounts = {1}
  Settings <- TwoSettings
  Terms <- OnePlan
  None = None
  StartBalance = 1
  MaxRequests = 1
  MaxFaults = 0
  k1 = k1
  i1 = i1
  h1 = h1
SYMMETRY Symmetry
INVARIANT PrincipalPaidBack
CHECK_DEADLOCK FALSE
