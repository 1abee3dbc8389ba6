CONSTANTS
  w1 = w1
  w2 = w2
  NoWorker = NoWorker
  NoModel = NoModel
  Workers = {w1, w2}
  MaxConns = 2
  Machine <- MCMachine
  NeedOf <- MCNeed
  PoolOf <- MCPool
  PriorityOf <- MCPriority
  MaxTasks = 1
  MaxRuns = 2
  MaxGates = 1
  MaxOpen = 2
  MaxAttempts = 2
  UserKinds = {"code"}
  Plans <- MCPlans
  Policies <- GatedOnly
  InOrder = FALSE
SPECIFICATION EngineSpec
SYMMETRY Either
INVARIANTS
  EngineInv
CHECK_DEADLOCK FALSE
