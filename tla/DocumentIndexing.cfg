SPECIFICATION Spec
CONSTANTS
  p = p
  q = q
  n1 = n1
  n2 = n2
  w1 = w1
  w2 = w2
  t1 = t1
  Off = Off
  Upload = Upload
  NoEvent = NoEvent
  NoToken = NoToken
  Identities = {p, q}
  Reindexes = {n1, n2}
  Workers = {w1, w2}
  Tokens = {t1}
  MaxAttempts = 2
  MaxMessages = 1
  MaxFaults = 1
SYMMETRY Symmetry
INVARIANTS
  IndexFollowsBinding
  ExecutionsWithinBudget
PROPERTIES
  DocumentSpec
CHECK_DEADLOCK FALSE
