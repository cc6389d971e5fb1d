------------------------------- MODULE Activity -------------------------------
(***************************************************************************)
(* The heartbeats of one user of beSeen-api.  A heartbeat takes its time   *)
(* before its transaction begins, so that heartbeats may commit in another *)
(* order than that of their times, and the driver repeats the transaction  *)
(* with that same time when another heartbeat has written the user.        *)
(*                                                                         *)
(* Abstracted: time passes in units of which a day, the shortest and the   *)
(* longest credited interval are multiples.                                *)
(***************************************************************************)
EXTENDS Integers, FiniteSetsExt

CONSTANTS
  Heartbeats,       \* requests that run at the same time
  MinInterval,      \* USER_ACTIVITY_HEARTBEAT_MIN_INTERVAL_SECONDS
  MaxCredit,        \* USER_ACTIVITY_HEARTBEAT_MAX_CREDIT_SECONDS
  DayLength,
  MaxActivityTime   \* bound: the last moment

ASSUME ActivityAssumption ==
  /\ MinInterval \in Nat \ {0} /\ DayLength \in Nat \ {0}
  /\ MaxCredit \in Nat /\ MaxActivityTime \in Nat

VARIABLES
  lastHeartbeatAt,  \* User.lastActivityHeartbeatAt, or Never
  lastActiveAt,     \* User.lastActiveAt, or Never
  activeSeconds,    \* UserActivityDay documents: seconds by day
  firstHeartbeatAt, \* when the first heartbeat was recorded, or Never
  activityTime,
  heartbeat         \* local state of a request

activityVars ==
  <<lastHeartbeatAt, lastActiveAt, activeSeconds, firstHeartbeatAt, activityTime, heartbeat>>

Never == -1
Times == 0..MaxActivityTime
UtcDay(time) == time \div DayLength
Days == 0..UtcDay(MaxActivityTime)

\* read: the transaction is to read the user; commit: it has read that the last
\* heartbeat was at previous.
HeartbeatIdle == [pc |-> "idle"]

ActivityTypeOK ==
  /\ lastHeartbeatAt \in Times \union {Never}
  /\ lastActiveAt \in Times \union {Never}
  /\ activeSeconds \in [Days -> Nat]
  /\ firstHeartbeatAt \in Times \union {Never}
  /\ activityTime \in Times
  /\ heartbeat \in [Heartbeats -> {HeartbeatIdle}
       \union [pc : {"read"}, now : Times]
       \union [pc : {"commit"}, now : Times, previous : Times \union {Never}]]

ActivityInit ==
  /\ lastHeartbeatAt = Never
  /\ lastActiveAt = Never
  /\ activeSeconds = [d \in Days |-> 0]
  /\ firstHeartbeatAt = Never
  /\ activityTime = 0
  /\ heartbeat = [p \in Heartbeats |-> HeartbeatIdle]

-----------------------------------------------------------------------------
PassActivityTime ==
  /\ activityTime < MaxActivityTime
  /\ activityTime' = activityTime + 1
  /\ UNCHANGED <<lastHeartbeatAt, lastActiveAt, activeSeconds, firstHeartbeatAt, heartbeat>>

StartHeartbeat(p) ==
  /\ heartbeat[p] = HeartbeatIdle
  /\ heartbeat' = [heartbeat EXCEPT ![p] = [pc |-> "read", now |-> activityTime]]
  /\ UNCHANGED <<lastHeartbeatAt, lastActiveAt, activeSeconds, firstHeartbeatAt, activityTime>>

ReadUser(p) ==
  /\ heartbeat[p].pc = "read"
  /\ heartbeat' = [heartbeat EXCEPT ![p] =
       [pc |-> "commit", now |-> heartbeat[p].now, previous |-> lastHeartbeatAt]]
  /\ UNCHANGED <<lastHeartbeatAt, lastActiveAt, activeSeconds, firstHeartbeatAt, activityTime>>

Elapsed(r) == IF r.previous = Never THEN 0 ELSE Max({0, r.now - r.previous})

Credited(r) == IF Elapsed(r) \in MinInterval..MaxCredit THEN Elapsed(r) ELSE 0

\* Mutant: the heartbeat goes with lastActiveAt.
AlwaysAdvance(r) == TRUE

AdvancesHeartbeat(r) == r.previous = Never \/ Elapsed(r) >= MinInterval

\* A transaction that has read the user begins again.
RepeatOthers(p) ==
  [q \in Heartbeats |->
    IF q = p THEN HeartbeatIdle
    ELSE IF heartbeat[q].pc = "commit" THEN [pc |-> "read", now |-> heartbeat[q].now]
    ELSE heartbeat[q]]

\* Both documents are written by one transaction.
CommitHeartbeat(p) ==
  LET r == heartbeat[p] IN
  /\ r.pc = "commit"
  /\ lastActiveAt' = r.now
  /\ lastHeartbeatAt' = IF AdvancesHeartbeat(r) THEN r.now ELSE lastHeartbeatAt
  /\ activeSeconds' = [activeSeconds EXCEPT ![UtcDay(r.now)] = @ + Credited(r)]
  /\ firstHeartbeatAt' = IF firstHeartbeatAt = Never THEN r.now ELSE firstHeartbeatAt
  /\ heartbeat' = RepeatOthers(p)
  /\ UNCHANGED activityTime

\* The user is gone, a call throws, or the process stops.
EndHeartbeat(p) ==
  /\ heartbeat[p] # HeartbeatIdle
  /\ heartbeat' = [heartbeat EXCEPT ![p] = HeartbeatIdle]
  /\ UNCHANGED <<lastHeartbeatAt, lastActiveAt, activeSeconds, firstHeartbeatAt, activityTime>>

ActivityNext ==
  \/ PassActivityTime
  \/ \E p \in Heartbeats :
       StartHeartbeat(p) \/ ReadUser(p) \/ CommitHeartbeat(p) \/ EndHeartbeat(p)

ActivitySpec == ActivityInit /\ [][ActivityNext]_activityVars

-----------------------------------------------------------------------------
(* Properties *)

SecondsUpTo(d) == MapThenSumSet(LAMBDA e : activeSeconds[e], 0..d)

\* No moment is credited twice: up to the end of any day no more seconds are
\* credited than have passed since the first heartbeat, and none for the time
\* after the last one, in whatever order heartbeats commit.  A day may only be
\* credited with what is left of an interval that began the day before.
CreditIsElapsedTime ==
  /\ \A d \in Days : SecondsUpTo(d) > 0 =>
       SecondsUpTo(d) <= Min({lastHeartbeatAt, (d + 1) * DayLength - 1}) - firstHeartbeatAt
  /\ \A d \in Days : activeSeconds[d] < DayLength + MaxCredit
=============================================================================
