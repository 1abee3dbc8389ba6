CONSTANTS
  t1 = t1
  w1 = w1
  w2 = w2
  c1 = c1
  c2 = c2
  f1 = f1
  f2 = f2
  small = small
  mid = mid
  big = big
  plain = plain
  coder = coder
  casual = casual
  hard = hard
  Models = {small, mid, big, plain, coder}
  NoModel = NoModel
  Capable = {mid, big, plain, coder}
  SizeOf <- MCSize
  Specialist = {coder}
  KnownPools = {casual, hard}
  Turn = {t1}
  Worker = {w1, w2}
  Conn = {c1, c2}
  None = None
  Form = {f1, f2}
  PoolOf <- MCPool
  Has <- MCHas
  Configs <- MCConfigs
  SearchBudget = 1
  MaxChunks = 2
  MaxIterations = 2
  MaxCalls = 2
  Capacity = 1
SPECIFICATION MCSpec
INVARIANTS
  ChatTypeOK
  AnswersAreWhole
  ResultsMatchCalls
  RecommendedFits
  LastIsShown
PROPERTIES
  ToolsAreThoughtful
  TurnsEnd
CHECK_DEADLOCK FALSE
