SPECIFICATION Spec
CONSTANTS
  b1 = b1
  w1 = w1
  w2 = w2
  m1 = m1
  m2 = m2
  Bounties = {b1}
  Workers = {w1, w2}
  Mirrors = {m1, m2}
  NoBounty = NoBounty
  ResponseWindow = 1
  LockWindows = {1, 2}
  CommitDelay = 1
  MaxTime = 2
SYMMETRY Symmetry
INVARIANTS
  TypeOK
  PaidOnlyForTimelyReply
  DatabaseNotAheadOfContract
  FundingMatchesStatus
  ClaimableIsRecoverable
  EarningMatchesBounty
PROPERTIES
  ClaimedIsFinal
  ImplementsLifecycle
CHECK_DEADLOCK FALSE
