CONSTANTS
  MaxTasks = 2
  MaxRuns = 1
  MaxGates = 0
  MaxOpen = 1
  MaxAttempts = 2
  UserKinds = {"code"}
  Plans <- MCPlans
  Policies <- AutoOnly
  InOrder = TRUE
SPECIFICATION Spec
PROPERTY
  DeleteSparesRunning
CHECK_DEADLOCK FALSE
