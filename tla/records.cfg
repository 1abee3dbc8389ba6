CONSTANTS
  w1 = w1
  w2 = w2
  w3 = w3
  m1 = m1
  m2 = m2
  NoModel = NoModel
  Names <- MCNames
  Machines <- MCMachines
  Needs <- MCNeeds
  Tiers = {50, 200}
  Default = 100
  p1 = p1
  p2 = p2
  p3 = p3
  x1 = x1
  Patch = {p1, p2, p3}
  Parent <- MCParent
  Foreign = {x1}
  Main = main
  Gone = Gone
  MaxLines = 6
  e1 = e1
  e2 = e2
  b1 = b1
  b2 = b2
  l1 = l1
  Entry = {e1, e2}
  Bullet = {b1, b2}
  Text = {"Go", "go", "c"}
  Norm <- MCNorm
  Loop = {l1}
  NoOne = NoOne
  s1 = s1
  q1 = q1
  q2 = q2
  q3 = q3
  k1 = k1
  k2 = k2
  item = item
  items = items
  Site = {s1}
  Recipe = {q1, q2, q3}
  Learning = {k1, k2}
  Pattern = {item, items}
  Length <- MCLength
  Matches <- MCMatches
  Url = {"u", "v"}
  Reverb = s1
  ItemPages = item
  NoPattern = NoPattern
  y1 = y1
  y2 = y2
  z1 = z1
  z2 = z2
  a1 = a1
  a2 = a2
  Key = {y1, y2}
  Value = {z1, z2}
  Unset = Unset
  Request = {a1, a2}
  u1 = u1
  u2 = u2
  u3 = u3
  User = {u1, u2, u3}
  Visitor = {a1, a2}
  Nobody = Nobody
SPECIFICATION RecordsSpec
INVARIANTS
  RecordsTypeOK
  RoutingIsRight
  CleaningIsSound
  LibraryInv
  CacheIsTable
  NobodyLockedOut
PROPERTIES
  PushesKeepCommits
  ImportsOnlyAdd
  ResumeIsTrue
  RecipesServe
CHECK_DEADLOCK FALSE
