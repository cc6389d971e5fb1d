SPECIFICATION ServicesSpec
CONSTANTS
  \* Sessions
  Sessions = {s1}
  RefreshTokens = {k1, k2, k3}
  LoginIds = {l1}
  SessionRequests = {p1, p2}
  SessionLifetime = 1
  ProofLifetime = 1
  MaxSessionTime = 2
  \* Accounts
  Wallets = {"w1", "w2"}
  Usernames = {"n1", "n2"}
  Avatars = {o1, o2}
  AccountRequests = {p1, p2}
  NoAvatar = NoAvatar
  NoUsername = "none"
  Orders <- MCOrders
  \* Activity
  Heartbeats = {p1, p2}
  MinInterval = 2
  MaxCredit = 3
  DayLength = 4
  MaxActivityTime = 6
  \* Listings
  Rows = {1, 2, 3}
  SortKeys = {0, 1}
  Limits = {1, 2}
  \* Ranking
  RankedUsers = {u1, u2}
  Rankers = {p1, p2}
  RankingBatchSize = 1
  ChangingGroups = {"followers", "bounties"}
  FirstDay = 2
  LastDay = 3
  MaxMetricChanges = 1
  \* Reconciliation
  Reconcilers = {p1, p2}
  LastBountyId = 2
  RegisteredBatchSize = 1
  MaxAdvances = 1
INVARIANTS
  ServicesTypeOK
  RefreshTokensFormAChain
  NamedAvatarIsStored
  StoredAvatarIsNeeded
  CreditIsElapsedTime
  NothingSkipped
  NothingRepeated
PROPERTIES
  SessionsOnlyMoveForward
  RankingConverges
  RegisteredIsMirrored
\* Every bounded component may run out of work.
CHECK_DEADLOCK FALSE
