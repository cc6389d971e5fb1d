SPECIFICATION FairSpec
CONSTANTS
  b1 = b1
  w1 = w1
  Bounties = {b1}
  Workers = {w1}
  Mirrors = {}
  NoBounty = NoBounty
  ResponseWindow = 2
  LockWindows = {1, 2}
  CommitDelay = 1
  MaxTime = 3
PROPERTIES
  ClaimableIsResolved
  PaymentIsEventuallyRecorded
CHECK_DEADLOCK FALSE
