SPECIFICATION FairSpec
CONSTANTS
  p = p
  q = q
  n1 = n1
  w1 = w1
  t1 = t1
  t2 = t2
  Off = Off
  Upload = Upload
  NoEvent = NoEvent
  NoToken = NoToken
  Identities = {p, q}
  Reindexes = {n1}
  Workers = {w1}
  Tokens = {t1, t2}
  MaxAttempts = 2
  MaxMessages = 1
  MaxFaults = 1
PROPERTIES
  UploadSettles
  IndexConverges
CHECK_DEADLOCK FALSE
