------------------------------- MODULE Ranking --------------------------------
(***************************************************************************)
(* The discovery ranking of beSeen-api: every process recalculates the     *)
(* scores of all users again and again.  A run reads the users, lets five  *)
(* collectors read their collections at the same time, and writes the      *)
(* scores in batches, while users appear, leave and act.                   *)
(*                                                                         *)
(* Abstracted: what a collector finds of a user is a level of its group of *)
(* metrics; the logarithms and half-lives by which it counts only matter   *)
(* in that they stay between none of the group's weight and all of it.     *)
(***************************************************************************)
EXTENDS Integers, FiniteSetsExt

CONSTANTS
  RankedUsers,
  Rankers,            \* API processes
  RankingBatchSize,   \* DISCOVER_RANKING_BATCH_SIZE
  ChangingGroups,     \* bound: the groups whose metrics change
  FirstDay, LastDay,  \* bound: days after the registration of the users
  MaxMetricChanges    \* bound: changes of users and of their metrics

Groups == {"followers", "bounties", "chats", "broadcasts", "activity", "profile"}

ASSUME RankingAssumption ==
  /\ RankingBatchSize \in Nat \ {0}
  /\ ChangingGroups \subseteq Groups
  /\ FirstDay \in Nat /\ LastDay \in Nat /\ FirstDay <= LastDay
  /\ MaxMetricChanges \in Nat

VARIABLES
  metric,          \* [user -> [group -> level]]
  ranked,          \* users that are active and not deleted
  score,           \* User.discoverScore
  rankingDay,
  metricChanges,
  ranker           \* local state of a process

rankingVars == <<metric, ranked, score, rankingDay, metricChanges, ranker>>

Levels == {0, 1}
RankingDays == FirstDay..LastDay

-----------------------------------------------------------------------------
(* calculateDiscoverScore, in hundredths, as roundScore leaves them *)

\* "profile": the avatar and lastActiveAt, read together with the user.
Weight ==
  [followers |-> 2500 + 1000 + 700, bounties |-> 600 + 900, chats |-> 1050 + 450,
   broadcasts |-> 700 + 400, activity |-> 500 + 300, profile |-> 200 + 200]

NewUserBoost(ageDays) ==
  IF ageDays < 3 THEN 500 ELSE IF ageDays < 7 THEN 300 ELSE IF ageDays < 14 THEN 100 ELSE 0

AccountAge(ageDays) == IF ageDays >= 30 THEN 500 ELSE (500 * ageDays) \div 30

MaxScore == 10000

Points(levels) == [g \in Groups |-> levels[g] * Weight[g]]

Sum(levels, ageDays) ==
  MapThenSumSet(LAMBDA g : Points(levels)[g], Groups)
    + AccountAge(ageDays) + NewUserBoost(ageDays)

\* Mutant: the sum of the weights and the boost is not capped.
UncappedScore(levels, ageDays) == Sum(levels, ageDays)

DiscoverScore(levels, ageDays) == Min({MaxScore, Sum(levels, ageDays)})

-----------------------------------------------------------------------------
(* State *)

RankerIdle == [pc |-> "idle"]
RankerFailed == [pc |-> "failed"]

\* day: calculatedAt; users: those whose scores are still to be written;
\* level: the groups of metrics as far as they were read.
Unread == -1
RankerStates ==
  {RankerIdle, RankerFailed}
    \union [pc : {"run"}, day : RankingDays, users : SUBSET RankedUsers,
            level : [RankedUsers -> [Groups -> Levels \union {Unread}]]]

\* A score up to 100 makes a cursor that decodeDiscoverCursor accepts.
RankingTypeOK ==
  /\ metric \in [RankedUsers -> [Groups -> Levels]]
  /\ ranked \subseteq RankedUsers
  /\ score \in [RankedUsers -> 0..MaxScore]
  /\ rankingDay \in RankingDays
  /\ metricChanges \in 0..MaxMetricChanges
  /\ ranker \in [Rankers -> RankerStates]

\* The default of the score is 0.
RankingInit ==
  /\ \E level \in Levels : metric = [u \in RankedUsers |-> [g \in Groups |-> level]]
  /\ ranked = RankedUsers
  /\ score = [u \in RankedUsers |-> 0]
  /\ rankingDay = FirstDay
  /\ metricChanges = 0
  /\ ranker = [p \in Rankers |-> RankerIdle]

RankerBecomes(p, r) == ranker' = [ranker EXCEPT ![p] = r]

-----------------------------------------------------------------------------
(* The days and the users *)

PassDay ==
  /\ rankingDay < LastDay
  /\ rankingDay' = rankingDay + 1
  /\ UNCHANGED <<metric, ranked, score, metricChanges, ranker>>

CountChange ==
  /\ metricChanges < MaxMetricChanges
  /\ metricChanges' = metricChanges + 1

\* The user or somebody else does something, or it becomes too long ago.
ChangeMetric(u, g) ==
  /\ CountChange
  /\ \E level \in Levels \ {metric[u][g]} :
       metric' = [metric EXCEPT ![u] = [metric[u] EXCEPT ![g] = level]]
  /\ UNCHANGED <<ranked, score, rankingDay, ranker>>

\* A user is suspended or deleted, or comes back.
ChangeRanked(u) ==
  /\ CountChange
  /\ ranked' = IF u \in ranked THEN ranked \ {u} ELSE ranked \union {u}
  /\ UNCHANGED <<metric, score, rankingDay, ranker>>

-----------------------------------------------------------------------------
(* recalculateDiscoverRankings *)

\* The users and their profiles are read, and the time is taken.  Groups that
\* do not change may as well be read now.
ReadUsers(p) ==
  /\ ranker[p] = RankerIdle
  /\ RankerBecomes(p,
       [pc |-> "run", day |-> rankingDay, users |-> ranked,
        level |-> [u \in RankedUsers |-> [g \in Groups |->
          IF g = "profile" \/ g \notin ChangingGroups THEN metric[u][g] ELSE Unread]]])
  /\ UNCHANGED <<metric, ranked, score, rankingDay, metricChanges>>

\* Promise.all: the collectors answer in any order.
CollectMetrics(p, g) ==
  LET r == ranker[p] IN
  /\ r.pc = "run"
  /\ \A u \in RankedUsers : r.level[u][g] = Unread
  /\ RankerBecomes(p, [r EXCEPT !.level =
       [u \in RankedUsers |-> [r.level[u] EXCEPT ![g] = metric[u][g]]]])
  /\ UNCHANGED <<metric, ranked, score, rankingDay, metricChanges>>

\* Mutant: no batch follows the first one.
NoneLeft(users, batch) == {}

Left(users, batch) == users \ batch

\* The scores are calculated, and bulkWrite writes one batch; users that are
\* not active any more stay as they are.
WriteBatch(p) ==
  LET r == ranker[p] IN
  /\ r.pc = "run"
  /\ \A u \in RankedUsers, g \in Groups : r.level[u][g] # Unread
  /\ \E batch \in SUBSET r.users :
       /\ Cardinality(batch) = Min({RankingBatchSize, Cardinality(r.users)})
       /\ score' = [u \in RankedUsers |->
            IF u \in batch \intersect ranked THEN DiscoverScore(r.level[u], r.day) ELSE score[u]]
       /\ RankerBecomes(p,
            IF Left(r.users, batch) = {} THEN RankerIdle
            ELSE [r EXCEPT !.users = Left(r.users, batch)])
  /\ UNCHANGED <<metric, ranked, rankingDay, metricChanges>>

\* A query or a batch fails, or the process stops; what was written remains.
FailRanking(p) ==
  /\ ranker[p] \notin {RankerIdle, RankerFailed}
  /\ RankerBecomes(p, RankerFailed)
  /\ UNCHANGED <<metric, ranked, score, rankingDay, metricChanges>>

\* rankingRunning is reset in any case, and the timer goes on.
RecoverRanking(p) ==
  /\ ranker[p] = RankerFailed
  /\ RankerBecomes(p, RankerIdle)
  /\ UNCHANGED <<metric, ranked, score, rankingDay, metricChanges>>

RankerNext(p) ==
  \/ ReadUsers(p)
  \/ \E g \in ChangingGroups : CollectMetrics(p, g)
  \/ WriteBatch(p)
  \/ RecoverRanking(p)

RankingNext ==
  \/ PassDay
  \/ \E u \in RankedUsers : ChangeRanked(u)
  \/ \E u \in RankedUsers, g \in ChangingGroups : ChangeMetric(u, g)
  \/ \E p \in Rankers : RankerNext(p) \/ FailRanking(p)

RankingSpec == RankingInit /\ [][RankingNext]_rankingVars

-----------------------------------------------------------------------------
(* Properties *)

\* The timer starts runs again and again, each run comes to its end, and
\* from some moment on the runs of one process do not fail.
RankerIsFair(p) ==
  /\ WF_rankingVars(RankerNext(p))
  /\ <>[](ranker[p] # RankerFailed)

\* If one process keeps running: once users and metrics rest, every active
\* user gets the score of those metrics at that time, and keeps it, whatever
\* older run of another process was still to write, failed halfway or was
\* made of metrics that were read before and after a change.
RankingConverges ==
  (\E p \in Rankers : RankerIsFair(p)) =>
    <>[](\A u \in ranked : score[u] = DiscoverScore(metric[u], rankingDay))
=============================================================================
