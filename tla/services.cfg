CONSTANTS
  j1 = j1
  j2 = j2
  c1 = c1
  c2 = c2
  Job = {j1, j2}
  Conn = {c1, c2}
  None = None
  Budget = 1
  MaxBatch = 2
  MinDim = 16
  MaxDim = 32
  TargetPixels = 360
  RawSides = {21}
  RawBatches = {1}
  Uploads <- MCUploads
  r1 = r1
  r2 = r2
  v1 = v1
  v2 = v2
  Call = {r1, r2}
  Socket = {c1, c2}
  Worker = {v1, v2}
  NoWorker = NoWorker
SPECIFICATION ServicesSpec
INVARIANTS
  ImageInv
  DoneIsWhole
  DriversServe
  GenInv
PROPERTIES
  EndsOnce
  JobsEnd
  KeepsPromise
CHECK_DEADLOCK FALSE
