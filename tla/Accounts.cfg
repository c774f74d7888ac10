SPECIFICATION FairSpec
CONSTANTS
  Users = {u1, u2}
  Handlers = {h1, h2}
  Deleters = {d1}
  u1 = u1
  u2 = u2
  h1 = h1
  h2 = h2
  d1 = d1
  Grace = 1
  Ttl = 2
  Horizon = 3
  MaxRequests = 3
  MaxFaults = 1
INVARIANTS
  TypeOK
  TokensIndexed
  TokensGoFirst
PROPERTIES
  DeletedWhenDue
  ExpiredIsPurged
CHECK_DEADLOCK FALSE
