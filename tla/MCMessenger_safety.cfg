SPECIFICATION Spec
CONSTANTS
  u1 = u1
  u2 = u2
  u3 = u3
  k1 = k1
  k2 = k2
  x = x
  b1 = b1
  p1 = p1
  p2 = p2
  Users = {u1, u2, u3}
  Conversations = {{u1, u2}, {u1, u3}}
  ClientIds = {k1}
  Contents = {x}
  ContractBounties = {b1}
  NoBounty = NoBounty
  NoMessage = NoMessage
  Senders = {u1, u2}
  Requests = {p1, p2}
  MaxSequence = 2
  MaxTime = 1
SYMMETRY Symmetry
INVARIANTS
  TypeOK
  MessagesAreNumbered
  UnreadAgrees
  TimeFollowsSequence
  AnswersHold
PROPERTIES
  ImplementsLog
CHECK_DEADLOCK FALSE
