CONSTANTS
  MaxTasks = 2
  MaxRuns = 2
  MaxGates = 2
  MaxOpen = 2
  MaxAttempts = 2
  UserKinds = {"code", "validate"}
  Plans <- MCPlans
  Policies <- GatedOrDirect
  InOrder = FALSE
SPECIFICATION AutoSteeredSpec
INVARIANTS
  LifecycleInv
  BranchIsInherited
CHECK_DEADLOCK FALSE
