CONSTANTS
  w1 = w1
  w2 = w2
  NoWorker = NoWorker
  NoModel = NoModel
  Workers = {w1, w2}
  MaxConns = 2
  Machine <- MCMachine
  NeedOf <- MCNeed
  PoolOf <- MCPool
  PriorityOf <- MCPriority
  MaxTasks = 2
  MaxRuns = 4
  MaxGates = 0
  MaxOpen = 2
  MaxAttempts = 2
  UserKinds = {"other", "validate"}
  Plans <- QuietPlans
  Policies <- AutoOnly
  InOrder = FALSE
SPECIFICATION PairSpec
INVARIANTS
  InFlightIsWatched
  ExecutionIsBounded
PROPERTIES
  QueuedIsSettled
CHECK_DEADLOCK FALSE
