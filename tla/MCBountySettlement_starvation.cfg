SPECIFICATION FairSpec
CONSTANTS
  b1 = b1
  b2 = b2
  w1 = w1
  Bounties = {b1, b2}
  Workers = {w1}
  Mirrors = {}
  NoBounty = NoBounty
  ResponseWindow = 1
  LockWindows = {1}
  CommitDelay = 0
  MaxTime = 1
PROPERTIES
  ClaimableIsResolved
CHECK_DEADLOCK FALSE
