SPECIFICATION Spec
CONSTANTS
  s1 = s1
  s2 = s2
  p1 = p1
  p2 = p2
  a1 = a1
  a2 = a2
  Streams = {s1, s2}
  Pollers = {p1, p2}
  Subjects = {a1, a2}
  StartLedger = 1
  BatchSize = 2
  PageSize = 2
  Retention = 2
  Targets = {1}
  MaxLedger = 2
  MaxRewinds = 1
SYMMETRY Symmetry
INVARIANTS
  TypeOK
  CheckpointsCoverEvents
CHECK_DEADLOCK FALSE
