SPECIFICATION Spec
CONSTANTS
  Users = {u1}
  Handlers = {h1}
  Deleters = {d1}
  u1 = u1
  h1 = h1
  d1 = d1
  Grace = 1
  Ttl = 2
  Horizon = 3
  MaxRequests = 2
  MaxFaults = 0
PROPERTY OnlyScheduledRowsDeleted
CHECK_DEADLOCK FALSE
