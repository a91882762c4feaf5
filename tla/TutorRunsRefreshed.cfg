SPECIFICATION Spec
CONSTANTS
  r1 = r1
  c1 = c1
  c2 = c2
  NoCall = NoCall
  Runs = {r1}
  Calls = {c1, c2}
  ExpireOnCommit = TRUE
  RequestRestored = TRUE
  MaxCrashes = 1
  MaxWorkflows = 0
SYMMETRY Symmetry
INVARIANTS
  AtMostOnceExecution
  ExecutedOnlyIfApproved
CHECK_DEADLOCK FALSE
