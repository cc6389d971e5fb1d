SPECIFICATION FairSpec
CONSTANTS
  s1 = s1
  s2 = s2
  p1 = p1
  a1 = a1
  Streams = {s1, s2}
  Pollers = {p1}
  Subjects = {a1}
  StartLedger = 1
  BatchSize = 2
  PageSize = 2
  Retention = 2
  Targets = {0, 1}
  MaxLedger = 3
  MaxRewinds = 0
PROPERTIES
  EventIsRecorded
CHECK_DEADLOCK FALSE
