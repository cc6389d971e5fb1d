SPECIFICATION Spec
CONSTANTS
  s1 = s1
  p1 = p1
  a1 = a1
  Streams = {s1}
  Pollers = {p1}
  Subjects = {a1}
  StartLedger = 1
  BatchSize = 2
  PageSize = 2
  Retention = 2
  Targets = {0}
  MaxLedger = 2
  MaxRewinds = 1
INVARIANTS
  RewindIsReplayed
CHECK_DEADLOCK FALSE
