SPECIFICATION FairSpec
CONSTANTS
  r1 = r1
  r2 = r2
  c1 = c1
  NoCall = NoCall
  Runs = {r1, r2}
  Calls = {c1}
  ExpireOnCommit = FALSE
  RequestRestored = FALSE
  MaxCrashes = 1
  MaxWorkflows = 0
PROPERTIES
  RunSettles
  ArchivedForgotten
CHECK_DEADLOCK FALSE
