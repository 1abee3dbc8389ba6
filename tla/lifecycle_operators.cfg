CONSTANTS
  MaxTasks = 3
  MaxRuns = 5
  MaxGates = 2
  MaxOpen = 2
  MaxAttempts = 2
  UserKinds = {"plan", "code", "validate"}
  Plans <- MCPlans
  Policies <- GatedOrAuto
  InOrder = TRUE
SPECIFICATION OperatorsSpec
INVARIANTS
  AwaitingIsDecidable
  RetriesAreBounded
PROPERTIES
  SuccessReleases
  ReleasedByParent
CHECK_DEADLOCK FALSE
