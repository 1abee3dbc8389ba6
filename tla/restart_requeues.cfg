CONSTANTS
  w1 = w1
  w2 = w2
  NoWorker = NoWorker
  NoModel = NoModel
  Workers = {w1, w2}
  MaxConns = 2
  Machine <- MCMachine
  NeedOf <- MCNeed
  PoolOf <- MCPool
  PriorityOf <- MCPriority
  MaxTasks = 1
  MaxRuns = 2
  MaxGates = 0
  MaxOpen = 2
  MaxAttempts = 2
  UserKinds = {"other"}
  Plans <- MCPlans
  Policies <- AutoOnly
  InOrder = FALSE
SPECIFICATION RestartingSpec
PROPERTIES
  InFlightEnds
CHECK_DEADLOCK FALSE
