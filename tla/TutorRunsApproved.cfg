SPECIFICATION FairSpec
CONSTANTS
  r1 = r1
  c1 = c1
  NoCall = NoCall
  Runs = {r1}
  Calls = {c1}
  ExpireOnCommit = FALSE
  RequestRestored = FALSE
  MaxCrashes = 0
  MaxWorkflows = 0
PROPERTY
  ApprovedCallSettles
CHECK_DEADLOCK FALSE
