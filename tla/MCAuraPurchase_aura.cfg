SPECIFICATION Spec
CONSTANTS
  u1 = u1
  u2 = u2
  t1 = t1
  t2 = t2
  q1 = q1
  e1 = e1
  j1 = j1
  Tokens = {t1, t2}
  Users = {u1, u2}
  Claims <- MCClaims
  Sales <- MCSales
  Tradable = {t1}
  Requests = {q1}
  Pollers = {e1}
  Jobs = {j1}
  BatchSize = 1
  NoToken = NoToken
INVARIANTS
  TypeOK
  AccessRestsOnConfirmation
  ConfirmedWasOwned
PROPERTIES
  ImplementsAuraGraph
  EventSettles
  ReconciliationSettles
CHECK_DEADLOCK FALSE
