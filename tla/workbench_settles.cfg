CONSTANTS
  j1 = j1
  j2 = j2
  c1 = c1
  c2 = c2
  w1 = w1
  w2 = w2
  b1 = b1
  b2 = b2
  Job = {j1}
  App = {a1}
  Bullet = {b1, b2}
  Worker = {w1}
  Conn = {c1, c2}
  Kinds = {"import", "improve", "cover_letter", "tag_bullets"}
  Modes = {"merge"}
  BatchSize = 1
  MaxVersion = 2
  None = None
SPECIFICATION SingleSpec
PROPERTIES
  SettlesForGood
CHECK_DEADLOCK FALSE
