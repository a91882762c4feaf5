SPECIFICATION PlanSpec
CONSTANTS
  Callers = {c1, c2}
  MaxPlans = 2
  MaxTasks = 2
  MaxAdjustments = 1
INVARIANT OpenSessionFinishable
CHECK_DEADLOCK FALSE
