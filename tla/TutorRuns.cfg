SPECIFICATION Spec
CONSTANTS
  r1 = r1
  r2 = r2
  c1 = c1
  c2 = c2
  NoCall = NoCall
  Runs = {r1, r2}
  Calls = {c1, c2}
  ExpireOnCommit = FALSE
  RequestRestored = TRUE
  MaxCrashes = 1
  MaxWorkflows = 1
SYMMETRY Symmetry
INVARIANTS
  OneActiveRun
  ApprovalRunCoherence
  NoSuccessAfterCancel
  SuccessRecorded
PROPERTIES
  LeaseSpec
CHECK_DEADLOCK FALSE
