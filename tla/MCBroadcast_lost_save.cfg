SPECIFICATION Spec
CONSTANTS
  i1 = i1
  c1 = c1
  u1 = u1
  k1 = k1
  x = x
  p1 = p1
  p2 = p2
  Ids = {i1}
  ClientIds = {c1}
  Users = {u1}
  Keys = {k1}
  Contents = {x}
  Requests = {p1, p2}
  Timers = {}
  NoClient = NoClient
  NoKey = NoKey
  NoRow = NoRow
  NoContent = NoContent
  BatchLimit = 1
  LostSaves = TRUE
INVARIANTS
  PublishedIsComplete
CHECK_DEADLOCK FALSE
