SPECIFICATION FairSpec
CONSTANTS
  i1 = i1
  i2 = i2
  c1 = c1
  c2 = c2
  u1 = u1
  k1 = k1
  x = x
  p1 = p1
  t1 = t1
  Ids = {i1, i2}
  ClientIds = {c1, c2}
  Users = {u1}
  Keys = {k1}
  Contents = {x}
  Requests = {p1}
  Timers = {t1}
  NoClient = NoClient
  NoKey = NoKey
  NoRow = NoRow
  NoContent = NoContent
  BatchLimit = 1
  LostSaves = FALSE
PROPERTIES
  ExpiredIsRemoved
CHECK_DEADLOCK FALSE
