SPECIFICATION Spec
CONSTANTS
  i1 = i1
  c1 = c1
  u1 = u1
  u2 = u2
  k1 = k1
  k2 = k2
  x = x
  y = y
  p1 = p1
  p2 = p2
  p3 = p3
  Ids = {i1}
  ClientIds = {c1}
  Users = {u1, u2}
  Keys = {k1, k2}
  Contents = {x, y}
  t1 = t1
  Requests = {p1, p2, p3}
  Timers = {t1}
  NoClient = NoClient
  NoKey = NoKey
  NoRow = NoRow
  NoContent = NoContent
  BatchLimit = 1
  LostSaves = FALSE
SYMMETRY Symmetry
INVARIANTS
  TypeOK
  PublishedIsComplete
  AnswersHold
PROPERTIES
  ImplementsDelivery
CHECK_DEADLOCK FALSE
