SPECIFICATION Spec
CONSTANTS
  Users = {u1, u2, u3}
  Handlers = {h1, h2}
  u1 = u1
  u2 = u2
  u3 = u3
  h1 = h1
  h2 = h2
  MaxRows = 3
  MaxAsked = 2
  MaxPurges = 0
INVARIANT GroupHasOwner
SYMMETRY Symmetry
CHECK_DEADLOCK FALSE
