SPECIFICATION Spec
CONSTANTS
  p = p
  q = q
  n1 = n1
  w1 = w1
  t1 = t1
  Off = Off
  Upload = Upload
  NoEvent = NoEvent
  NoToken = NoToken
  Identities = {p, q}
  Reindexes = {n1}
  Workers = {w1}
  Tokens = {t1}
  MaxAttempts = 1
  MaxMessages = 1
  MaxFaults = 0
PROPERTIES
  ActivatesBoundIdentity
CHECK_DEADLOCK FALSE
