---------------------------- MODULE ServicesProofs ----------------------------
(***************************************************************************)
(* Theorems about the components that Services puts together, for any      *)
(* values of their constants: the lists, the activity of a user, the types *)
(* of the ranking and of the reconciliation, and the composition, which    *)
(* also takes over what SessionsProofs and AccountsProofs say.             *)
(*                                                                         *)
(* Induction comes as a lemma about sets: of the counterexamples among     *)
(* the subsets of a finite set, one is the smallest.  It carries the       *)
(* recursion equation of MapThenSumSet, with which the sums of the         *)
(* activity and of the ranking are treated.                                *)
(***************************************************************************)
EXTENDS Services, SessionsProofs, AccountsProofs, FiniteSetTheorems, TLAPS

-----------------------------------------------------------------------------
(* Induction *)

\* Induction over the subsets of a finite set: a smallest counterexample.
LEMMA SmallestSubset ==
  ASSUME NEW S, IsFiniteSet(S), NEW bad \in SUBSET SUBSET S, bad # {}
  PROVE  \E T \in bad : \A U \in SUBSET T : U \in bad => U = T
<1>1. FiniteSubsetsOf(S) = SUBSET S
  BY FS_FiniteSubsetsOfFinite
<1>2. IsWellFoundedOn(StrictSubsetOrdering(S), SUBSET S)
  BY <1>1, FS_StrictSubsetOrderingWellFounded
<1>3. \E T \in bad : \A U \in bad : ~(<<U, T>> \in StrictSubsetOrdering(S))
  <2> HIDE DEF StrictSubsetOrdering
  <2> QED BY <1>2, WFMin
<1> QED BY <1>3 DEF StrictSubsetOrdering

-----------------------------------------------------------------------------
(* Sums *)

\* MapThenSumSet is a recursive function of the subsets of a set; SumRule is
\* its recursion equation.
Some(s) == CHOOSE x \in s : TRUE
SumRule(f, v, S) ==
  f = [s \in SUBSET S |-> IF s = {} THEN 0 ELSE v[Some(s)] + f[s \ {Some(s)}]]
SumFn(v, S) == CHOOSE f : SumRule(f, v, S)
SumOver(v, S) == MapThenSumSet(LAMBDA x : v[x], S)

LEMMA SumIsFold == ASSUME NEW v, NEW S PROVE SumOver(v, S) = SumFn(v, S)[S]
BY DEF SumOver, SumFn, SumRule, Some, MapThenSumSet, MapThenFoldSet

LEMMA SomeElement == ASSUME NEW s, s # {} PROVE Some(s) \in s
BY DEF Some

\* Induction over the subsets of a finite set, one element after the other.
LEMMA SetInduction ==
  ASSUME NEW S, IsFiniteSet(S), NEW good, {} \in good,
         \A T \in SUBSET S : T # {} /\ T \ {Some(T)} \in good => T \in good
  PROVE  S \in good
<1> SUFFICES ASSUME S \notin good PROVE FALSE
  OBVIOUS
<1> DEFINE bad == (SUBSET S) \ good
<1>1. PICK T \in bad : \A U \in SUBSET T : U \in bad => U = T
  <2>1. bad \in SUBSET SUBSET S /\ bad # {}
    OBVIOUS
  <2> HIDE DEF bad
  <2> QED BY <2>1, SmallestSubset
<1>2. T \in SUBSET S /\ T \notin good /\ T # {}
  OBVIOUS
<1>3. T \ {Some(T)} \in SUBSET T /\ T \ {Some(T)} # T
  BY <1>2, SomeElement
<1>4. T \ {Some(T)} \in good
  BY <1>1, <1>2, <1>3
<1> QED BY <1>2, <1>4

LEMMA RuleAt ==
  ASSUME NEW f, NEW v, NEW S, SumRule(f, v, S), NEW s \in SUBSET S
  PROVE  f[s] = IF s = {} THEN 0 ELSE v[Some(s)] + f[s \ {Some(s)}]
<1>1. f = [t \in SUBSET S |-> IF t = {} THEN 0 ELSE v[Some(t)] + f[t \ {Some(t)}]]
  BY DEF SumRule
<1> DEFINE g == [t \in SUBSET S |-> IF t = {} THEN 0 ELSE v[Some(t)] + f[t \ {Some(t)}]]
<1>2. g[s] = IF s = {} THEN 0 ELSE v[Some(s)] + f[s \ {Some(s)}]
  OBVIOUS
<1>3. f[s] = g[s]
  BY <1>1
<1> QED BY <1>2, <1>3

LEMMA SumUnique ==
  ASSUME NEW S, IsFiniteSet(S), NEW T \in SUBSET S, NEW v, NEW f, NEW g,
         SumRule(f, v, S), SumRule(g, v, T)
  PROVE  f[T] = g[T]
<1> DEFINE good == {s \in SUBSET T : f[s] = g[s]}
<1>1. {} \in good
  BY RuleAt
<1>2. ASSUME NEW s \in SUBSET T, s # {}, s \ {Some(s)} \in good PROVE s \in good
  BY <1>2, RuleAt
<1>3. T \in good
  <2>1. IsFiniteSet(T)
    BY FS_Subset
  <2> HIDE DEF good
  <2> QED BY <1>1, <1>2, <2>1, SetInduction
<1> QED BY <1>3

LEMMA SumExists ==
  ASSUME NEW S, IsFiniteSet(S), NEW v
  PROVE  SumRule(SumFn(v, S), v, S)
<1> DEFINE bad == {T \in SUBSET S : ~(\E f : SumRule(f, v, T))}
<1>0. SUFFICES bad = {}
  BY DEF SumFn
<1> SUFFICES ASSUME bad # {} PROVE FALSE
  OBVIOUS
<1>2. PICK T \in bad : \A U \in SUBSET T : U \in bad => U = T
  <2>1. bad \in SUBSET SUBSET S
    OBVIOUS
  <2> HIDE DEF bad
  <2> QED BY <2>1, SmallestSubset
<1>3. \A U \in SUBSET T : U # T => SumRule(SumFn(v, U), v, U)
  BY <1>2 DEF SumFn
<1> DEFINE at(s) == IF s = {} THEN 0 ELSE v[Some(s)] + SumFn(v, s \ {Some(s)})[s \ {Some(s)}]
           f == [s \in SUBSET T |-> at(s)]
<1>4. ASSUME NEW s \in SUBSET T, s # {}
      PROVE  SumFn(v, s \ {Some(s)})[s \ {Some(s)}] = at(s \ {Some(s)})
  <2> DEFINE u == s \ {Some(s)}
  <2>1. u \in SUBSET T /\ u # T
    BY <1>4, SomeElement
  <2>2. CASE u = {}
    BY <1>3, <2>1, <2>2, RuleAt
  <2>3. CASE u # {}
    <3> DEFINE w == u \ {Some(u)}
    <3>1. w \in SUBSET u /\ w \in SUBSET T /\ w # T
      BY <2>1, <2>3, SomeElement
    <3>2. SumRule(SumFn(v, u), v, u) /\ SumRule(SumFn(v, w), v, w)
      BY <1>3, <2>1, <3>1
    <3>3. IsFiniteSet(u)
      BY <2>1, FS_Subset
    <3>4. SumFn(v, u)[w] = SumFn(v, w)[w]
      <4> HIDE DEF w, u
      <4> QED BY <3>1, <3>2, <3>3, SumUnique
    <3>5. SumFn(v, u)[u] = v[Some(u)] + SumFn(v, u)[w]
      <4> HIDE DEF u
      <4> QED BY <2>3, <3>2, RuleAt
    <3> QED BY <2>3, <3>4, <3>5
  <2> QED BY <2>2, <2>3
<1>5. SumRule(f, v, T)
  <2>1. ASSUME NEW s \in SUBSET T
        PROVE  at(s) = IF s = {} THEN 0 ELSE v[Some(s)] + f[s \ {Some(s)}]
    <3>1. CASE s = {}
      BY <3>1
    <3>2. CASE s # {}
      <4>1. s \ {Some(s)} \in SUBSET T
        OBVIOUS
      <4>2. f[s \ {Some(s)}] = at(s \ {Some(s)})
        BY <4>1
      <4> QED BY <1>4, <3>2, <4>2
    <3> QED BY <3>1, <3>2
  <2> QED BY <2>1 DEF SumRule
<1> QED BY <1>2, <1>5

LEMMA SumEquation ==
  ASSUME NEW S, IsFiniteSet(S), NEW v
  PROVE  /\ S = {} => SumOver(v, S) = 0
         /\ S # {} => SumOver(v, S) = v[Some(S)] + SumOver(v, S \ {Some(S)})
<1>1. SumRule(SumFn(v, S), v, S)
  BY SumExists
<1>2. CASE S = {}
  BY <1>1, <1>2, RuleAt, SumIsFold
<1>3. CASE S # {}
  <2> DEFINE U == S \ {Some(S)}
  <2>1. IsFiniteSet(U) /\ U \in SUBSET S
    BY FS_Subset
  <2>2. SumFn(v, S)[U] = SumFn(v, U)[U]
    <3> HIDE DEF U
    <3> QED BY <1>1, <2>1, SumExists, SumUnique
  <2>3. SumFn(v, S)[S] = v[Some(S)] + SumFn(v, S)[U]
    BY <1>1, <1>3, RuleAt
  <2> QED BY <1>3, <2>2, <2>3, SumIsFold
<1> QED BY <1>2, <1>3

LEMMA SumType ==
  ASSUME NEW S, IsFiniteSet(S), NEW v, \A x \in S : v[x] \in Nat
  PROVE  SumOver(v, S) \in Nat
<1> DEFINE good == {T \in SUBSET S : SumOver(v, T) \in Nat}
<1>1. {} \in good
  BY SumEquation, FS_EmptySet
<1>2. ASSUME NEW T \in SUBSET S, T # {}, T \ {Some(T)} \in good PROVE T \in good
  <2>1. SumOver(v, T) = v[Some(T)] + SumOver(v, T \ {Some(T)})
    BY <1>2, SumEquation, FS_Subset
  <2>2. v[Some(T)] \in Nat
    BY <1>2, SomeElement
  <2> QED BY <1>2, <2>1, <2>2
<1>3. S \in good
  <2> HIDE DEF good
  <2> QED BY <1>1, <1>2, SetInduction
<1> QED BY <1>3

LEMMA SumOfNothing ==
  ASSUME NEW S, IsFiniteSet(S), NEW v, \A x \in S : v[x] = 0
  PROVE  SumOver(v, S) = 0
<1> DEFINE good == {T \in SUBSET S : SumOver(v, T) = 0}
<1>1. {} \in good
  BY SumEquation, FS_EmptySet
<1>2. ASSUME NEW T \in SUBSET S, T # {}, T \ {Some(T)} \in good PROVE T \in good
  <2>1. SumOver(v, T) = v[Some(T)] + SumOver(v, T \ {Some(T)})
    BY <1>2, SumEquation, FS_Subset
  <2>2. v[Some(T)] = 0
    BY <1>2, SomeElement
  <2> QED BY <1>2, <2>1, <2>2
<1>3. S \in good
  <2> HIDE DEF good
  <2> QED BY <1>1, <1>2, SetInduction
<1> QED BY <1>3

\* w is v, but for d, where it is k more.
Raised(v, w, S, d, k) == \A x \in S : w[x] = IF x = d THEN v[x] + k ELSE v[x]

\* What is added to one element shows in the sums it is part of.
LEMMA SumUpdate ==
  ASSUME NEW S, IsFiniteSet(S), NEW v, NEW w, NEW d, NEW k \in Nat,
         \A x \in S : v[x] \in Nat,
         Raised(v, w, S, d, k)
  PROVE  SumOver(w, S) = SumOver(v, S) + IF d \in S THEN k ELSE 0
<1> DEFINE good == {T \in SUBSET S :
                      SumOver(w, T) = SumOver(v, T) + IF d \in T THEN k ELSE 0}
<1>1. {} \in good
  BY SumEquation, FS_EmptySet
<1>2. ASSUME NEW T \in SUBSET S, T # {}, T \ {Some(T)} \in good PROVE T \in good
  <2> PICK x, U : x = Some(T) /\ U = T \ {Some(T)}
    OBVIOUS
  <2>1. x \in T /\ x \in S /\ v[x] \in Nat
    BY <1>2, SomeElement
  <2>2. /\ SumOver(w, T) = w[x] + SumOver(w, U)
        /\ SumOver(v, T) = v[x] + SumOver(v, U)
    BY <1>2, SumEquation, FS_Subset
  <2>3. SumOver(v, U) \in Nat
    BY FS_Subset, SumType
  <2>4. SumOver(w, U) = SumOver(v, U) + IF d \in U THEN k ELSE 0
    BY <1>2
  <2>5. w[x] = IF x = d THEN v[x] + k ELSE v[x]
    BY <2>1 DEF Raised
  <2>6. d \in T <=> d = x \/ d \in U
    BY <2>1
  <2>7. x \notin U
    OBVIOUS
  <2>8. SumOver(w, T) = SumOver(v, T) + IF d \in T THEN k ELSE 0
    BY <2>1, <2>2, <2>3, <2>4, <2>5, <2>6, <2>7
  <2> QED BY <2>8
<1>3. S \in good
  <2> HIDE DEF good
  <2> QED BY <1>1, <1>2, SetInduction
<1> QED BY <1>3

-----------------------------------------------------------------------------
(* Activity *)

LEMMA MinOfTwo ==
  ASSUME NEW a \in Int, NEW b \in Int
  PROVE  Min({a, b}) = IF a <= b THEN a ELSE b
<1> PICK m : m = IF a <= b THEN a ELSE b
  OBVIOUS
<1>1. m \in {a, b} /\ \A y \in {a, b} : m <= y
  OBVIOUS
<1>2. \A x \in {a, b} : (\A y \in {a, b} : x <= y) => x = m
  OBVIOUS
<1> QED BY <1>1, <1>2 DEF Min

LEMMA MaxOfTwo ==
  ASSUME NEW a \in Int, NEW b \in Int
  PROVE  Max({a, b}) = IF a >= b THEN a ELSE b
<1> PICK m : m = IF a >= b THEN a ELSE b
  OBVIOUS
<1>1. m \in {a, b} /\ \A y \in {a, b} : m >= y
  OBVIOUS
<1>2. \A x \in {a, b} : (\A y \in {a, b} : x >= y) => x = m
  OBVIOUS
<1> QED BY <1>1, <1>2 DEF Max

\* Heartbeats are recorded in the order of their times, whatever the order in
\* which they commit, and a transaction that commits has read the last one.
HeartbeatsInOrder ==
  /\ firstHeartbeatAt = Never <=> lastHeartbeatAt = Never
  /\ firstHeartbeatAt <= lastHeartbeatAt
  /\ \A p \in Heartbeats : heartbeat[p].pc = "commit" => heartbeat[p].previous = lastHeartbeatAt

\* A day's credit ends with the last heartbeat, or with the day, and begins at
\* most one interval before the day.
DaysInv ==
  \A d \in Days : activeSeconds[d] > 0 =>
    /\ d * DayLength <= lastHeartbeatAt
    /\ activeSeconds[d] <=
         MaxCredit + Min({lastHeartbeatAt, (d + 1) * DayLength - 1}) - d * DayLength

\* What all the days up to d have been credited with has passed.
SumsInv ==
  \A d \in Days : SecondsUpTo(d) > 0 =>
    SecondsUpTo(d) <= Min({lastHeartbeatAt, (d + 1) * DayLength - 1}) - firstHeartbeatAt

ActivityIInv == ActivityTypeOK /\ HeartbeatsInOrder /\ DaysInv /\ SumsInv

LEMMA DayOf ==
  ASSUME NEW t \in Times
  PROVE  /\ UtcDay(t) \in Days
         /\ UtcDay(t) * DayLength <= t
         /\ t <= (UtcDay(t) + 1) * DayLength - 1
<1>1. t \in Nat /\ MaxActivityTime \in Nat /\ t <= MaxActivityTime /\ DayLength \in Nat \ {0}
  BY ActivityAssumption DEF Times
<1>2. ASSUME NEW a \in Nat
      PROVE  /\ a \div DayLength \in Nat
             /\ (a \div DayLength) * DayLength <= a
             /\ a <= (a \div DayLength) * DayLength + DayLength - 1
  BY <1>1
<1>3. t \div DayLength <= MaxActivityTime \div DayLength
  BY <1>1
<1>4. (UtcDay(t) + 1) * DayLength = UtcDay(t) * DayLength + DayLength
  BY <1>1, <1>2 DEF UtcDay
<1> QED BY <1>1, <1>2, <1>3, <1>4 DEF UtcDay, Days

LEMMA DayBounds ==
  ASSUME NEW d \in Days
  PROVE  /\ d \in Nat
         /\ d * DayLength \in Nat
         /\ (d + 1) * DayLength - 1 = d * DayLength + DayLength - 1
         /\ DayLength \in Nat \ {0}
         /\ \A e \in Days : e <= d => (e + 1) * DayLength <= (d + 1) * DayLength
         /\ 0..d \subseteq Days /\ IsFiniteSet(0..d)
<1>0. MaxActivityTime \in Times
  BY ActivityAssumption DEF Times
<1>1. DayLength \in Nat \ {0} /\ \A e \in Days : e \in Nat
  BY ActivityAssumption DEF Days
<1>2. ASSUME NEW e \in Days, e <= d PROVE (e + 1) * DayLength <= (d + 1) * DayLength
  BY <1>1, <1>2
<1>3. UtcDay(MaxActivityTime) \in Nat
  BY <1>0, <1>1, DayOf
<1>4. 0..d \subseteq Days /\ IsFiniteSet(0..d)
  BY <1>3, FS_Interval DEF Days
<1> QED BY <1>1, <1>2, <1>4

LEMMA SecondsUpToType ==
  ASSUME ActivityTypeOK, NEW d \in Days
  PROVE  SecondsUpTo(d) \in Nat /\ SecondsUpTo(d) = SumOver(activeSeconds, 0..d)
<1>1. SecondsUpTo(d) = SumOver(activeSeconds, 0..d)
  BY DEF SecondsUpTo, SumOver
<1>2. IsFiniteSet(0..d) /\ 0..d \subseteq Days
  BY DayBounds
<1>3. \A e \in 0..d : activeSeconds[e] \in Nat
  BY <1>2 DEF ActivityTypeOK
<1> QED BY <1>1, <1>2, <1>3, SumType

LEMMA InitActivityIInv == ActivityInit => ActivityIInv
<1> SUFFICES ASSUME ActivityInit PROVE ActivityIInv
  OBVIOUS
<1>1. ActivityTypeOK
  BY ActivityAssumption DEF ActivityInit, ActivityTypeOK, Times, HeartbeatIdle
<1>2. HeartbeatsInOrder /\ DaysInv
  BY DEF ActivityInit, HeartbeatsInOrder, DaysInv, HeartbeatIdle, Never
<1>3. ASSUME NEW d \in Days PROVE SecondsUpTo(d) = 0
  <2>1. IsFiniteSet(0..d) /\ 0..d \subseteq Days
    BY DayBounds
  <2>2. \A e \in 0..d : activeSeconds[e] = 0
    BY <2>1 DEF ActivityInit
  <2>3. SumOver(activeSeconds, 0..d) = 0
    BY <2>1, <2>2, SumOfNothing
  <2> QED BY <1>1, <2>3, SecondsUpToType
<1>4. SumsInv
  BY <1>3 DEF SumsInv
<1> QED BY <1>1, <1>2, <1>4 DEF ActivityIInv

\* Nothing but a commit touches what is recorded.
LEMMA UnrecordedStep ==
  ASSUME ActivityIInv, ActivityTypeOK',
         UNCHANGED <<lastHeartbeatAt, activeSeconds, firstHeartbeatAt>>,
         \A p \in Heartbeats : heartbeat'[p].pc = "commit" =>
           heartbeat'[p].previous = lastHeartbeatAt
  PROVE  ActivityIInv'
<1>1. \A d \in Days : SecondsUpTo(d)' = SecondsUpTo(d)
  BY DEF SecondsUpTo, MapThenSumSet, MapThenFoldSet
<1>2. HeartbeatsInOrder' /\ DaysInv'
  BY DEF ActivityIInv, HeartbeatsInOrder, DaysInv
<1> QED BY <1>1, <1>2 DEF ActivityIInv, SumsInv

LEMMA RequestsStep ==
  ASSUME ActivityIInv, NEW p \in Heartbeats, StartHeartbeat(p) \/ ReadUser(p) \/ EndHeartbeat(p)
  PROVE  ActivityIInv'
<1>1. ActivityTypeOK'
  BY DEF ActivityIInv, ActivityTypeOK, StartHeartbeat, ReadUser, EndHeartbeat, HeartbeatIdle
<1>2. ASSUME NEW q \in Heartbeats, heartbeat'[q].pc = "commit"
      PROVE  heartbeat'[q].previous = lastHeartbeatAt
  <2>1. CASE q # p
    BY <1>2, <2>1 DEF ActivityIInv, ActivityTypeOK, HeartbeatsInOrder, StartHeartbeat, ReadUser,
                      EndHeartbeat
  <2>2. CASE q = p
    BY <1>2, <2>2 DEF ActivityIInv, ActivityTypeOK, StartHeartbeat, ReadUser, EndHeartbeat,
                      HeartbeatIdle
  <2> QED BY <2>1, <2>2
<1> QED BY <1>1, <1>2, UnrecordedStep DEF StartHeartbeat, ReadUser, EndHeartbeat

LEMMA CommitHeartbeatStep ==
  ASSUME ActivityIInv, NEW p \in Heartbeats, CommitHeartbeat(p)
  PROVE  ActivityIInv'
<1> DEFINE r == heartbeat[p]
           now == heartbeat[p].now
           today == UtcDay(now)
           credit == Credited(r)
<1>1. /\ now \in Times /\ now \in Nat
      /\ r.previous = lastHeartbeatAt
      /\ lastHeartbeatAt \in Times \union {Never} /\ lastHeartbeatAt \in Int
      /\ firstHeartbeatAt \in Times \union {Never} /\ firstHeartbeatAt \in Int
      /\ activeSeconds \in [Days -> Nat]
  <2>1. r \in [pc : {"commit"}, now : Times, previous : Times \union {Never}]
    BY DEF CommitHeartbeat, ActivityIInv, ActivityTypeOK, HeartbeatIdle
  <2> QED BY <2>1 DEF CommitHeartbeat, ActivityIInv, ActivityTypeOK, HeartbeatsInOrder, Times,
                      Never
<1>2. today \in Days /\ today * DayLength <= now /\ now <= (today + 1) * DayLength - 1
  BY <1>1, DayOf
<1>3. Elapsed(r) = IF lastHeartbeatAt = Never \/ now <= lastHeartbeatAt THEN 0
                   ELSE now - lastHeartbeatAt
  BY <1>1, MaxOfTwo DEF Elapsed
\* What the commit does, as far as the invariant is concerned: nothing is
\* credited, or the time since the last heartbeat.
<1>4. /\ credit \in Nat
      /\ credit > 0 => /\ lastHeartbeatAt # Never /\ credit = now - lastHeartbeatAt
                       /\ credit <= MaxCredit /\ lastHeartbeatAt' = now
  <2>1. MinInterval \in Nat \ {0} /\ MaxCredit \in Nat
    BY ActivityAssumption
  <2>2. lastHeartbeatAt' = IF AdvancesHeartbeat(r) THEN now ELSE lastHeartbeatAt
    BY DEF CommitHeartbeat
  <2> HIDE DEF r
  <2> QED BY <1>1, <1>3, <2>1, <2>2 DEF Credited, AdvancesHeartbeat
<1>5. /\ lastHeartbeatAt' \in Times
      /\ lastHeartbeatAt <= lastHeartbeatAt'
      /\ lastHeartbeatAt' = lastHeartbeatAt \/ lastHeartbeatAt' = now
      /\ lastHeartbeatAt = Never => lastHeartbeatAt' = now
  <2>1. MinInterval \in Nat \ {0}
    BY ActivityAssumption
  <2>2. lastHeartbeatAt' = IF AdvancesHeartbeat(r) THEN now ELSE lastHeartbeatAt
    BY DEF CommitHeartbeat
  <2>3. Never = -1
    BY DEF Never
  <2> HIDE DEF r
  <2> QED BY <1>1, <1>3, <2>1, <2>2, <2>3 DEF AdvancesHeartbeat, Times
<1>6. firstHeartbeatAt' = IF firstHeartbeatAt = Never THEN now ELSE firstHeartbeatAt
  BY DEF CommitHeartbeat
<1>7. \A d \in Days : activeSeconds'[d] = IF d = today THEN activeSeconds[d] + credit
                                          ELSE activeSeconds[d]
  BY <1>1, <1>2 DEF CommitHeartbeat
<1>8. ActivityTypeOK'
  <2>1. activeSeconds' \in [Days -> Nat]
    BY <1>1, <1>2, <1>4 DEF CommitHeartbeat
  <2>2. heartbeat' \in [Heartbeats -> {HeartbeatIdle}
         \union [pc : {"read"}, now : Times]
         \union [pc : {"commit"}, now : Times, previous : Times \union {Never}]]
    BY DEF CommitHeartbeat, RepeatOthers, ActivityIInv, ActivityTypeOK, HeartbeatIdle
  <2>3. lastActiveAt' \in Times \union {Never} /\ activityTime' \in Times
    BY <1>1 DEF CommitHeartbeat, ActivityIInv, ActivityTypeOK
  <2> QED BY <1>1, <1>5, <1>6, <2>1, <2>2, <2>3 DEF ActivityTypeOK
<1>9. HeartbeatsInOrder'
  <2>1. \A q \in Heartbeats : heartbeat'[q].pc # "commit"
    BY DEF CommitHeartbeat, RepeatOthers, HeartbeatIdle
  <2>2. /\ firstHeartbeatAt = Never <=> lastHeartbeatAt = Never
        /\ firstHeartbeatAt <= lastHeartbeatAt
    BY DEF ActivityIInv, HeartbeatsInOrder
  <2>3. /\ firstHeartbeatAt' = Never <=> lastHeartbeatAt' = Never
        /\ firstHeartbeatAt' <= lastHeartbeatAt'
    BY <1>1, <1>5, <1>6, <2>2 DEF Times, Never
  <2> QED BY <2>1, <2>3 DEF HeartbeatsInOrder
<1>10. \A d \in Days : Min({lastHeartbeatAt, (d + 1) * DayLength - 1})
                         <= Min({lastHeartbeatAt', (d + 1) * DayLength - 1})
  <2> SUFFICES ASSUME NEW d \in Days, NEW a, a = (d + 1) * DayLength - 1
               PROVE  Min({lastHeartbeatAt, a}) <= Min({lastHeartbeatAt', a})
    OBVIOUS
  <2>0. a \in Int
    BY DayBounds
  <2>1. lastHeartbeatAt' \in Int
    BY <1>5 DEF Times
  <2>2. /\ Min({lastHeartbeatAt, a}) = IF lastHeartbeatAt <= a THEN lastHeartbeatAt ELSE a
        /\ Min({lastHeartbeatAt', a}) = IF lastHeartbeatAt' <= a THEN lastHeartbeatAt' ELSE a
    BY <1>1, <2>0, <2>1, MinOfTwo
  <2> QED BY <1>1, <1>5, <2>0, <2>1, <2>2
<1>11. DaysInv'
  <2> SUFFICES ASSUME NEW d \in Days, activeSeconds'[d] > 0
               PROVE  /\ d * DayLength <= lastHeartbeatAt'
                      /\ activeSeconds'[d] <= MaxCredit
                           + Min({lastHeartbeatAt', (d + 1) * DayLength - 1}) - d * DayLength
    BY DEF DaysInv
  <2> PICK from, end : from = d * DayLength /\ end = (d + 1) * DayLength - 1
    OBVIOUS
  <2>1. from \in Nat /\ end \in Nat /\ MaxCredit \in Nat /\ activeSeconds[d] \in Nat
    BY <1>1, DayBounds, ActivityAssumption
  <2>2. activeSeconds[d] > 0 =>
          /\ from <= lastHeartbeatAt
          /\ activeSeconds[d] <= MaxCredit + Min({lastHeartbeatAt, end}) - from
    BY DEF ActivityIInv, DaysInv
  <2>3. CASE d # today \/ credit = 0
    <3>1. activeSeconds'[d] = activeSeconds[d]
      BY <1>7, <2>1, <2>3
    <3>2. Min({lastHeartbeatAt, end}) \in Int /\ Min({lastHeartbeatAt', end}) \in Int
          /\ Min({lastHeartbeatAt, end}) <= Min({lastHeartbeatAt', end})
          /\ lastHeartbeatAt' \in Int
      BY <1>1, <1>5, <1>10, <2>1, MinOfTwo DEF Times
    <3> QED BY <1>1, <1>5, <2>1, <2>2, <3>1, <3>2
  <2>4. CASE d = today /\ credit > 0
    <3>1. /\ activeSeconds'[d] = activeSeconds[d] + credit
          /\ from <= now /\ now <= end /\ lastHeartbeatAt' = now
          /\ credit = now - lastHeartbeatAt /\ credit <= MaxCredit
      BY <1>2, <1>4, <1>7, <2>4
    <3>2. Min({lastHeartbeatAt', end}) = now
      BY <1>1, <2>1, <3>1, MinOfTwo
    <3>3. Min({lastHeartbeatAt, end}) <= lastHeartbeatAt
          /\ Min({lastHeartbeatAt, end}) \in Int
      BY <1>1, <2>1, MinOfTwo
    <3> QED BY <1>1, <1>4, <2>1, <2>2, <3>1, <3>2, <3>3
  <2> QED BY <1>4, <2>3, <2>4
<1>12. SumsInv'
  <2> SUFFICES ASSUME NEW d \in Days, SecondsUpTo(d)' > 0
               PROVE  SecondsUpTo(d)' <=
                        Min({lastHeartbeatAt', (d + 1) * DayLength - 1}) - firstHeartbeatAt'
    BY DEF SumsInv
  <2> PICK end, sum : end = (d + 1) * DayLength - 1 /\ sum = SecondsUpTo(d)
    OBVIOUS
  <2>1. end \in Int /\ sum \in Nat /\ IsFiniteSet(0..d) /\ 0..d \subseteq Days
    BY DayBounds, SecondsUpToType DEF ActivityIInv
  <2>2. SecondsUpTo(d)' = sum + IF today \in 0..d THEN credit ELSE 0
    <3>1. sum = SumOver(activeSeconds, 0..d)
      BY SecondsUpToType DEF ActivityIInv
    <3>2. SecondsUpTo(d)' = SumOver(activeSeconds', 0..d)
      BY DEF SecondsUpTo, SumOver, MapThenSumSet, MapThenFoldSet
    <3>3. Raised(activeSeconds, activeSeconds', 0..d, today, credit)
          /\ \A e \in 0..d : activeSeconds[e] \in Nat
      BY <1>1, <1>7, <2>1 DEF Raised
    <3>4. SumOver(activeSeconds', 0..d)
            = SumOver(activeSeconds, 0..d) + IF today \in 0..d THEN credit ELSE 0
      <4> HIDE DEF today, credit
      <4> QED BY <1>4, <2>1, <3>3, SumUpdate
    <3> QED BY <3>1, <3>2, <3>4
  <2>3. sum > 0 => sum <= Min({lastHeartbeatAt, end}) - firstHeartbeatAt
    BY DEF ActivityIInv, SumsInv
  <2>4. firstHeartbeatAt <= lastHeartbeatAt
        /\ (firstHeartbeatAt = Never <=> lastHeartbeatAt = Never)
    BY DEF ActivityIInv, HeartbeatsInOrder
  <2>5. CASE today \in 0..d /\ credit > 0
    <3>1. now <= end
      <4>1. today <= d
        BY <2>5
      <4>2. (today + 1) * DayLength <= (d + 1) * DayLength
        BY <1>2, <4>1, DayBounds
      <4>3. (today + 1) * DayLength - 1 \in Int /\ (today + 1) * DayLength \in Int
            /\ (d + 1) * DayLength \in Int
        BY <1>2, DayBounds, ActivityAssumption DEF Days
      <4> QED BY <1>1, <1>2, <4>2, <4>3
    <3>2. /\ lastHeartbeatAt' = now /\ credit = now - lastHeartbeatAt
          /\ firstHeartbeatAt' = firstHeartbeatAt
      BY <1>4, <1>6, <2>4, <2>5
    <3>3. Min({lastHeartbeatAt', end}) = now
      BY <1>1, <2>1, <3>1, <3>2, MinOfTwo
    <3>4. Min({lastHeartbeatAt, end}) <= lastHeartbeatAt
          /\ Min({lastHeartbeatAt, end}) \in Int
      BY <1>1, <2>1, MinOfTwo
    <3> QED BY <1>1, <2>1, <2>2, <2>3, <2>4, <2>5, <3>2, <3>3, <3>4
  <2>6. CASE today \notin 0..d \/ credit = 0
    <3>1. SecondsUpTo(d)' = sum
      BY <2>1, <2>2, <2>6
    <3>2. /\ Min({lastHeartbeatAt, end}) <= Min({lastHeartbeatAt', end})
          /\ Min({lastHeartbeatAt, end}) \in Int /\ Min({lastHeartbeatAt', end}) \in Int
          /\ Min({lastHeartbeatAt, end}) <= lastHeartbeatAt
      <4>1. lastHeartbeatAt' \in Int
        BY <1>5 DEF Times
      <4>2. /\ Min({lastHeartbeatAt, end}) = IF lastHeartbeatAt <= end THEN lastHeartbeatAt
                                             ELSE end
            /\ Min({lastHeartbeatAt', end}) = IF lastHeartbeatAt' <= end THEN lastHeartbeatAt'
                                              ELSE end
        BY <1>1, <2>1, <4>1, MinOfTwo
      <4> QED BY <1>1, <1>5, <2>1, <4>1, <4>2
    <3>3. firstHeartbeatAt # Never
      BY <1>1, <2>1, <2>3, <2>4, <3>1, <3>2 DEF Never
    <3>4. firstHeartbeatAt' = firstHeartbeatAt
      BY <1>6, <3>3
    <3> QED BY <1>1, <2>1, <2>3, <3>1, <3>2, <3>4
  <2> QED BY <1>4, <2>5, <2>6
<1> QED BY <1>8, <1>9, <1>11, <1>12 DEF ActivityIInv

LEMMA StepActivityIInv == ActivityIInv /\ [ActivityNext]_activityVars => ActivityIInv'
<1> SUFFICES ASSUME ActivityIInv, [ActivityNext]_activityVars PROVE ActivityIInv'
  OBVIOUS
<1>1. CASE UNCHANGED activityVars
  BY <1>1, UnrecordedStep DEF activityVars, ActivityIInv, ActivityTypeOK, HeartbeatsInOrder
<1>2. CASE PassActivityTime
  <2>1. ActivityTypeOK'
    BY <1>2, ActivityAssumption DEF PassActivityTime, ActivityIInv, ActivityTypeOK, Times
  <2> QED BY <1>2, <2>1, UnrecordedStep DEF PassActivityTime, ActivityIInv, HeartbeatsInOrder
<1>3. ASSUME NEW p \in Heartbeats, StartHeartbeat(p) \/ ReadUser(p) \/ EndHeartbeat(p)
      PROVE  ActivityIInv'
  BY <1>3, RequestsStep
<1>4. ASSUME NEW p \in Heartbeats, CommitHeartbeat(p) PROVE ActivityIInv'
  BY <1>4, CommitHeartbeatStep
<1> QED BY <1>1, <1>2, <1>3, <1>4 DEF ActivityNext

\* Heartbeats are recorded in the order of their times, and what is credited
\* of a day ends with the last of them.
THEOREM ActivityInvariant == ActivitySpec => []ActivityIInv
<1> QED BY InitActivityIInv, StepActivityIInv, PTL DEF ActivitySpec

\* recordUserActivity credits no moment twice, for any number of overlapping
\* heartbeats, any days and any shortest and longest interval.
THEOREM CreditsAreElapsedTime == ActivitySpec => []CreditIsElapsedTime
<1>1. ActivityIInv => CreditIsElapsedTime
  <2> SUFFICES ASSUME ActivityIInv, NEW d \in Days PROVE activeSeconds[d] < DayLength + MaxCredit
    BY DEF ActivityIInv, SumsInv, CreditIsElapsedTime
  <2>1. activeSeconds[d] \in Nat /\ lastHeartbeatAt \in Int /\ MaxCredit \in Nat
    BY ActivityAssumption DEF ActivityIInv, ActivityTypeOK, Times, Never
  <2> PICK from, end : from = d * DayLength /\ end = (d + 1) * DayLength - 1
    OBVIOUS
  <2>2. from \in Nat /\ end = from + DayLength - 1 /\ DayLength \in Nat \ {0}
    BY DayBounds
  <2>3. Min({lastHeartbeatAt, end}) <= end /\ Min({lastHeartbeatAt, end}) \in Int
    BY <2>1, <2>2, MinOfTwo
  <2>4. activeSeconds[d] > 0 =>
          activeSeconds[d] <= MaxCredit + Min({lastHeartbeatAt, end}) - from
    BY DEF ActivityIInv, DaysInv
  <2> QED BY <2>1, <2>2, <2>3, <2>4
<1> QED BY <1>1, ActivityInvariant, PTL

-----------------------------------------------------------------------------
(* Listings *)

\* Row q with key kq is before row r with key kr in list l.
Precedes(l, kq, q, kr, r) ==
  IF l = "recipients" THEN q < r ELSE kq > kr \/ (kq = kr /\ q > r)

\* A query with cursor c matches row r with key k, if the row is in the list.
Beyond(l, c, k, r) ==
  \/ c = FirstPage
  \/ l = "recipients" /\ r > c.id
  \/ l = "discover" /\ (k < c.key \/ (k = c.key /\ r < c.id))
  \/ /\ l = "conversations" /\ c.key # NoMessage
     /\ k = NoMessage \/ k < c.key \/ (k = c.key /\ r < c.id)
  \/ l = "conversations" /\ c.key = NoMessage /\ k = NoMessage /\ r < c.id
  \/ l \notin KeyedLists \union {"recipients"} /\ r < c.id

IsBeyond(r) == Beyond(list, walk.cursor, key[r], r)

\* While the client reads, it has seen what it has passed.
WalkInv ==
  walk.pc = "reading" =>
    /\ \A r \in steady : seen[r] = (IF IsBeyond(r) THEN 0 ELSE 1)
    /\ list # "discover" => \A r \in Rows : IsBeyond(r) => seen[r] = 0

ListingsIInv == ListingsTypeOK /\ WalkInv /\ NothingSkipped /\ NothingRepeated

-----------------------------------------------------------------------------
(* Cursors and the order of the rows *)

LEMMA KeysAreNumbers ==
  ASSUME NEW l \in Lists
  PROVE  /\ KeysOf(l) \subseteq Int
         /\ \A k \in KeysOf(l) : k >= NoMessage
         /\ KeysOf(l) \subseteq SortKeys \union {NoMessage, NoKey}
         /\ l \notin KeyedLists => KeysOf(l) = {NoKey}
BY ListingAssumption DEF KeysOf, NoMessage, NoKey, KeyedLists

LEMMA CursorsAreNumbers ==
  ASSUME NEW c \in Cursors
  PROVE  c.key \in Int /\ c.key >= NoMessage /\ c.id \in Int
<1>1. \A k \in SortKeys \union {NoMessage, NoKey} : k \in Int /\ k >= NoMessage
  BY ListingAssumption DEF NoMessage, NoKey
<1>2. CASE c = FirstPage
  BY <1>2 DEF FirstPage, NoMessage, NoKey
<1>3. CASE c \in [key : SortKeys \union {NoMessage, NoKey}, id : Rows]
  <2>1. c.key \in SortKeys \union {NoMessage, NoKey} /\ c.id \in Rows
    BY <1>3
  <2>2. c.key \in Int /\ c.key >= NoMessage
    BY <1>1, <2>1
  <2>3. Rows \subseteq Int
    BY ListingAssumption
  <2> QED
    BY <2>1, <2>2, <2>3
<1> QED
  BY <1>2, <1>3 DEF Cursors

\* The cursor of a page matches what sorts after its last row.
LEMMA CursorMatchesTheRest ==
  ASSUME NEW l \in Lists, NEW q \in Rows, NEW r \in Rows,
         NEW kq \in KeysOf(l), NEW kr \in KeysOf(l)
  PROVE  Beyond(l, [key |-> kq, id |-> q], kr, r) <=> Precedes(l, kq, q, kr, r)
<1>1. /\ kq \in Int /\ kr \in Int /\ kq >= NoMessage /\ kr >= NoMessage
      /\ l \notin KeyedLists => kq = kr
  BY KeysAreNumbers
<1>2. q \in Nat /\ r \in Nat /\ [key |-> kq, id |-> q] # FirstPage
  BY ListingAssumption DEF FirstPage
<1> QED
  BY <1>1, <1>2 DEF Beyond, Precedes, KeyedLists, NoMessage

\* What sorts after a row that a cursor matches is matched too.
LEMMA MatchedIsClosed ==
  ASSUME NEW l \in Lists, NEW q \in Rows, NEW r \in Rows, NEW c \in Cursors,
         NEW kq \in KeysOf(l), NEW kr \in KeysOf(l),
         Beyond(l, c, kq, q), Precedes(l, kq, q, kr, r)
  PROVE  Beyond(l, c, kr, r)
<1>1. /\ kq \in Int /\ kr \in Int /\ kq >= NoMessage /\ kr >= NoMessage
      /\ l \notin KeyedLists => kq = kr
  BY KeysAreNumbers
<1>2. q \in Nat /\ r \in Nat /\ c.key \in Int /\ c.key >= NoMessage /\ c.id \in Int
  BY ListingAssumption, CursorsAreNumbers
<1> QED
  BY <1>1, <1>2 DEF Beyond, Precedes, KeyedLists, NoMessage

\* A conversation that moves up does not come below a cursor.
LEMMA MovedUpIsNotMatched ==
  ASSUME NEW r \in Rows, NEW c \in Cursors, NEW k \in SortKeys,
         NEW kr \in KeysOf("conversations"), k > kr,
         Beyond("conversations", c, k, r)
  PROVE  Beyond("conversations", c, kr, r)
<1>1. kr \in Int /\ kr >= NoMessage /\ k \in Nat
  BY KeysAreNumbers, ListingAssumption DEF Lists, KeyedLists
<1>2. r \in Nat /\ c.key \in Int /\ c.key >= NoMessage /\ c.id \in Int
  BY ListingAssumption, CursorsAreNumbers
<1> QED
  BY <1>1, <1>2 DEF Beyond, KeyedLists, NoMessage

\* Each of the queries of a page reads the rows beyond the cursor.
LEMMA QueryReadsBeyond ==
  ASSUME ListingsTypeOK,
         \/ GetMessageHistory \/ GetEarningTransactions \/ GetSentFeed \/ GetReceivedFeed
         \/ GetBroadcastDrafts \/ GetBroadcastDraftRecipients \/ DiscoverUsers \/ GetConversations
  PROVE  walk.pc = "reading" /\ ReadPage({r \in listed : IsBeyond(r)})
<1> USE DEF IsReading
<1>1. CASE GetMessageHistory \/ GetEarningTransactions \/ GetSentFeed \/ GetReceivedFeed
           \/ GetBroadcastDrafts
  <2>1. list \notin KeyedLists \union {"recipients"} /\ ReadPage(BelowCursor)
    BY <1>1 DEF GetMessageHistory, GetEarningTransactions, GetSentFeed, GetReceivedFeed,
               GetBroadcastDrafts, KeyedLists
  <2>2. BelowCursor = {r \in listed : IsBeyond(r)}
    BY <2>1 DEF BelowCursor, IsBeyond, Beyond, KeyedLists
  <2> QED
    BY <1>1, <2>1, <2>2
    DEF GetMessageHistory, GetEarningTransactions, GetSentFeed, GetReceivedFeed, GetBroadcastDrafts
<1>2. CASE GetBroadcastDraftRecipients
  <2>1. {r \in listed : walk.cursor = FirstPage \/ r > walk.cursor.id} = {r \in listed : IsBeyond(r)}
    BY <1>2 DEF GetBroadcastDraftRecipients, IsBeyond, Beyond, KeyedLists
  <2> QED
    BY <1>2, <2>1 DEF GetBroadcastDraftRecipients
<1>3. CASE DiscoverUsers
  <2>1. UsersAfter(walk.cursor) = {r \in listed : IsBeyond(r)}
    BY <1>3 DEF DiscoverUsers, UsersAfter, IsBeyond, Beyond, KeyedLists
  <2> QED
    BY <1>3, <2>1 DEF DiscoverUsers
<1>4. CASE GetConversations
  <2>1. ConversationsAfter(walk.cursor) = {r \in listed : IsBeyond(r)}
    BY <1>4 DEF GetConversations, ConversationsAfter, IsBeyond, Beyond, KeyedLists
  <2> QED
    BY <1>4, <2>1 DEF GetConversations
<1> QED
  BY <1>1, <1>2, <1>3, <1>4

-----------------------------------------------------------------------------
(* Pages *)

LEMMA RowsAreOrdered ==
  ASSUME ListingsTypeOK, NEW p \in Rows, NEW q \in Rows, NEW r \in Rows
  PROVE  /\ p = q \/ SortsBefore(p, q) \/ SortsBefore(q, p)
         /\ ~(SortsBefore(p, q) /\ SortsBefore(q, p)) /\ ~SortsBefore(p, p)
         /\ SortsBefore(p, q) /\ SortsBefore(q, r) => SortsBefore(p, r)
<1>1. key[p] \in Int /\ key[q] \in Int /\ key[r] \in Int
  BY KeysAreNumbers DEF ListingsTypeOK
<1> QED
  BY <1>1, ListingAssumption DEF SortsBefore

\* A page has the first rows of what it is taken from.
LEMMA PageComesFirst ==
  ASSUME ListingsTypeOK, NEW rest \in SUBSET Rows, NEW limit \in Limits,
         NEW q \in FirstRows(rest, limit), NEW r \in rest, r \notin FirstRows(rest, limit)
  PROVE  SortsBefore(q, r)
<1> DEFINE Before(x) == {y \in rest : SortsBefore(y, x)}
<1>1. SUFFICES ASSUME SortsBefore(r, q)  PROVE FALSE
  BY RowsAreOrdered DEF FirstRows
<1>2. Before(r) \subseteq Before(q)
  BY <1>1, RowsAreOrdered DEF FirstRows
<1>3. IsFiniteSet(Before(q)) /\ IsFiniteSet(Before(r))
  <2>1. Before(q) \subseteq Rows /\ Before(r) \subseteq Rows
    OBVIOUS
  <2> QED
    BY <2>1, ListingAssumption, FS_Subset
<1>4. Cardinality(Before(r)) <= Cardinality(Before(q))
  BY <1>2, <1>3, FS_Subset
<1>5. Cardinality(Before(r)) \in Nat /\ Cardinality(Before(q)) \in Nat /\ limit \in Nat
  BY <1>3, ListingAssumption, FS_CardinalityType
<1>6. Cardinality(Before(q)) < limit /\ ~(Cardinality(Before(r)) < limit)
  BY DEF FirstRows
<1> QED
  BY <1>4, <1>5, <1>6

\* A page without a next page has all the rows that are left.
LEMMA LastPageHasAll ==
  ASSUME ListingsTypeOK, NEW rest \in SUBSET Rows, NEW limit \in Limits,
         ~(Cardinality(rest) > limit), NEW r \in rest
  PROVE  r \in FirstRows(rest, limit)
<1> DEFINE before == {q \in rest : SortsBefore(q, r)}
<1>1. before \subseteq rest \ {r}
  BY RowsAreOrdered
<1>2. IsFiniteSet(rest)
  BY ListingAssumption, FS_Subset
<1>3. IsFiniteSet(rest \ {r}) /\ Cardinality(rest \ {r}) = Cardinality(rest) - 1
  BY <1>2, FS_RemoveElement
<1>4. IsFiniteSet(before) /\ Cardinality(before) <= Cardinality(rest \ {r})
  BY <1>1, <1>3, FS_Subset
<1>5. Cardinality(before) \in Nat /\ Cardinality(rest) \in Nat /\ limit \in Nat
  BY <1>2, <1>4, ListingAssumption, FS_CardinalityType
<1>6. Cardinality(before) < limit
  BY <1>3, <1>4, <1>5
<1> QED
  BY <1>6 DEF FirstRows

\* A page was not seen before, and its cursor passes exactly its rows.
LEMMA PageStep ==
  ASSUME ListingsIInv, walk.pc = "reading", ReadPage({r \in listed : IsBeyond(r)})
  PROVE  ListingsIInv'
<1> USE DEF ListingsIInv
<1> DEFINE rest == {r \in listed : IsBeyond(r)}
<1>1. PICK limit \in Limits :
        LET page == FirstRows(rest, limit) IN
        /\ seen' = [r \in Rows |->
             IF r \notin page THEN seen[r] ELSE IF seen[r] = 0 THEN 1 ELSE 2]
        /\ IF Cardinality(rest) > limit
           THEN \E last \in page :
                  /\ \A r \in page : r = last \/ SortsBefore(r, last)
                  /\ walk' = [pc |-> "reading", cursor |-> [key |-> key[last], id |-> last]]
           ELSE walk' = [walk EXCEPT !.pc = "done"]
        /\ UNCHANGED <<list, key, listed, steady>>
  BY DEF ReadPage
<1> DEFINE page == FirstRows(rest, limit)
<1>2. /\ rest \in SUBSET Rows /\ page \subseteq rest
      /\ \A r \in Rows : r \in rest <=> (r \in listed /\ IsBeyond(r))
      /\ steady \subseteq listed /\ listed \subseteq Rows
  BY DEF ListingsTypeOK, FirstRows
<1>3. UNCHANGED <<list, key, listed, steady>>
  BY <1>1
<1>4. \A r \in Rows : seen[r] \in 0..2
                      /\ seen'[r] = IF r \notin page THEN seen[r] ELSE IF seen[r] = 0 THEN 1 ELSE 2
  BY <1>1 DEF ListingsTypeOK
<1>5. seen' \in [Rows -> 0..2]
  BY <1>1, <1>4
<1>6. ASSUME list # "discover", NEW r \in Rows  PROVE seen'[r] < 2
  <2>1. r \in page => seen[r] = 0
    BY <1>2, <1>6 DEF WalkInv
  <2>2. seen[r] < 2
    BY <1>6 DEF NothingRepeated
  <2> QED
    BY <1>4, <2>1, <2>2
<1>7. CASE Cardinality(rest) > limit
  <2>1. PICK last \in page :
          /\ \A r \in page : r = last \/ SortsBefore(r, last)
          /\ walk' = [pc |-> "reading", cursor |-> [key |-> key[last], id |-> last]]
    BY <1>1, <1>7
  <2> HIDE DEF rest, page
  <2>2. last \in Rows /\ last \in rest
    BY <1>2, <2>1
  <2>3. ASSUME NEW r \in Rows
        PROVE  IsBeyond(r)' <=> SortsBefore(last, r)
    <3>1. Beyond(list, [key |-> key[last], id |-> last], key[r], r)
            <=> Precedes(list, key[last], last, key[r], r)
      BY <2>2, CursorMatchesTheRest DEF ListingsTypeOK
    <3> QED
      BY <1>3, <2>1, <3>1 DEF IsBeyond, SortsBefore, Precedes
  <2>4. ASSUME NEW r \in page  PROVE ~IsBeyond(r)'
    BY <1>2, <2>1, <2>2, <2>3, RowsAreOrdered
  <2>5. ASSUME NEW r \in rest, r \notin page  PROVE IsBeyond(r)'
    BY <1>2, <2>1, <2>3, <2>5, PageComesFirst DEF page
  <2>6. ASSUME NEW r \in Rows, IsBeyond(r)'  PROVE IsBeyond(r)
    <3>1. SortsBefore(last, r) /\ IsBeyond(last)
      BY <1>2, <2>2, <2>3, <2>6
    <3>2. walk.cursor \in Cursors
      BY DEF ListingsTypeOK
    <3> QED
      BY <2>2, <3>1, <3>2, MatchedIsClosed DEF ListingsTypeOK, IsBeyond, SortsBefore, Precedes
  <2>7. ASSUME NEW r \in steady  PROVE seen'[r] = (IF IsBeyond(r)' THEN 0 ELSE 1)
    <3>1. r \in Rows /\ seen[r] = (IF IsBeyond(r) THEN 0 ELSE 1) /\ (r \in rest <=> IsBeyond(r))
      BY <1>2 DEF WalkInv
    <3>2. CASE r \in page
      BY <1>2, <1>4, <2>4, <3>1, <3>2
    <3>3. CASE r \notin page
      BY <1>4, <2>5, <2>6, <3>1, <3>3
    <3> QED
      BY <3>2, <3>3
  <2>8. ASSUME list # "discover", NEW r \in Rows, IsBeyond(r)'  PROVE seen'[r] = 0
    BY <1>4, <2>4, <2>6, <2>8 DEF WalkInv
  <2>9. WalkInv'
    BY <1>3, <2>7, <2>8 DEF WalkInv
  <2>10. walk' \in [pc : {"reading", "done"}, cursor : Cursors] /\ walk'.pc = "reading"
    <3>1. key[last] \in SortKeys \union {NoMessage, NoKey}
      BY <2>2, KeysAreNumbers DEF ListingsTypeOK
    <3> QED
      BY <2>1, <2>2, <3>1 DEF Cursors
  <2> QED
    BY <1>3, <1>5, <1>6, <2>9, <2>10 DEF ListingsTypeOK, NothingSkipped, NothingRepeated
<1>8. CASE ~(Cardinality(rest) > limit)
  <2>1. walk' = [walk EXCEPT !.pc = "done"]
    BY <1>1, <1>8
  <2>2. \A r \in rest : r \in page
    BY <1>2, <1>8, LastPageHasAll
  <2> HIDE DEF rest, page
  <2>3. walk' \in [pc : {"reading", "done"}, cursor : Cursors] /\ walk'.pc = "done"
    BY <2>1 DEF ListingsTypeOK
  <2>4. ASSUME NEW r \in steady  PROVE seen'[r] = 1
    <3>1. r \in Rows /\ seen[r] = (IF IsBeyond(r) THEN 0 ELSE 1) /\ (r \in rest <=> IsBeyond(r))
      BY <1>2 DEF WalkInv
    <3> QED
      BY <1>2, <1>4, <2>2, <3>1
  <2> QED
    BY <1>3, <1>5, <1>6, <2>3, <2>4 DEF ListingsTypeOK, WalkInv, NothingSkipped, NothingRepeated
<1> QED
  BY <1>7, <1>8

-----------------------------------------------------------------------------
(* Rows that appear, move and vanish *)

\* Rows that appear or vanish change nothing of what the client passed.
LEMMA RowStep ==
  ASSUME ListingsIInv, NEW r \in Rows, AppendMessage(r) \/ AppearRow(r) \/ VanishRow(r)
  PROVE  ListingsIInv'
<1>1. /\ UNCHANGED <<list, key, walk, seen>>
      /\ steady' \subseteq steady /\ steady' \subseteq listed' /\ listed' \subseteq Rows
  BY DEF ListingsIInv, ListingsTypeOK, AppendMessage, AppearRow, VanishRow
<1> QED
  BY <1>1 DEF ListingsIInv, ListingsTypeOK, WalkInv, IsBeyond, NothingSkipped, NothingRepeated

LEMMA MoveStep ==
  ASSUME ListingsIInv, NEW r \in Rows, NEW k \in SortKeys, MoveConversation(r, k) \/ MoveUser(r, k)
  PROVE  ListingsIInv'
<1> USE DEF ListingsIInv
<1>1. /\ UNCHANGED <<list, listed, walk, seen>>
      /\ steady' = steady \ {r}
      /\ key' = [key EXCEPT ![r] = k]
      /\ list \in KeyedLists
  BY DEF MoveConversation, MoveUser, KeyedLists
<1>2. key' \in [Rows -> KeysOf(list)] /\ \A q \in Rows : q # r => key'[q] = key[q]
  BY <1>1 DEF ListingsTypeOK, KeysOf, KeyedLists
<1>3. ListingsTypeOK'
  BY <1>1, <1>2 DEF ListingsTypeOK
<1>4. \A q \in steady' : q \in steady /\ q \in Rows /\ q # r
  BY <1>1 DEF ListingsTypeOK
<1>5. \A q \in Rows : q # r => (IsBeyond(q)' <=> IsBeyond(q))
  BY <1>1, <1>2 DEF IsBeyond
<1>6. ASSUME list # "discover", IsBeyond(r)'  PROVE IsBeyond(r)
  <2>1. list = "conversations" /\ k > key[r] /\ key'[r] = k
    BY <1>1, <1>6 DEF MoveConversation, MoveUser, ListingsTypeOK
  <2>2. key[r] \in KeysOf("conversations") /\ walk.cursor \in Cursors
    BY <2>1 DEF ListingsTypeOK
  <2> QED
    BY <1>1, <1>6, <2>1, <2>2, MovedUpIsNotMatched DEF IsBeyond
<1>7. WalkInv'
  BY <1>1, <1>4, <1>5, <1>6 DEF WalkInv
<1> QED
  BY <1>1, <1>3, <1>4, <1>7 DEF NothingSkipped, NothingRepeated

-----------------------------------------------------------------------------
(* The theorems *)

LEMMA ListingsInitIInv == ListingsInit => ListingsIInv
<1> SUFFICES ASSUME ListingsInit  PROVE ListingsIInv
  OBVIOUS
<1>1. ListingsTypeOK
  BY DEF ListingsInit, ListingsTypeOK, Cursors
<1>2. \A r \in Rows : IsBeyond(r) /\ seen[r] = 0
  BY DEF ListingsInit, IsBeyond, Beyond
<1> QED
  BY <1>1, <1>2 DEF ListingsIInv, ListingsTypeOK, ListingsInit, WalkInv, NothingSkipped, NothingRepeated

LEMMA ListingsStepIInv == ListingsIInv /\ [ListingsNext]_listingVars => ListingsIInv'
<1> SUFFICES ASSUME ListingsIInv, [ListingsNext]_listingVars  PROVE ListingsIInv'
  OBVIOUS
<1>1. CASE \E r \in Rows : AppendMessage(r) \/ AppearRow(r) \/ VanishRow(r)
  BY <1>1, RowStep
<1>2. CASE \E r \in Rows, k \in SortKeys : MoveConversation(r, k) \/ MoveUser(r, k)
  BY <1>2, MoveStep
<1>3. CASE \/ GetMessageHistory \/ GetEarningTransactions \/ GetSentFeed \/ GetReceivedFeed
           \/ GetBroadcastDrafts \/ GetBroadcastDraftRecipients \/ DiscoverUsers \/ GetConversations
  BY <1>3, QueryReadsBeyond, PageStep DEF ListingsIInv
<1>4. CASE UNCHANGED listingVars
  BY <1>4 DEF listingVars, ListingsIInv, ListingsTypeOK, WalkInv, IsBeyond, NothingSkipped, NothingRepeated
<1> QED
  BY <1>1, <1>2, <1>3, <1>4 DEF ListingsNext

\* In every reachable state the cursor that the client holds separates what
\* it has seen from what the next query matches.
THEOREM ListingsInvariant == ListingsSpec => []ListingsIInv
<1> QED
  BY ListingsInitIInv, ListingsStepIInv, PTL DEF ListingsSpec

\* A client that follows the cursors of any list to the end sees each row
\* once that stayed in its place, with pages of any sizes.
THEOREM ListsAreComplete == ListingsSpec => []NothingSkipped
<1>1. ListingsIInv => NothingSkipped
  BY DEF ListingsIInv
<1> QED
  BY <1>1, ListingsInvariant, PTL

\* No list but that of the users to discover shows a row on two pages.
THEOREM ListsDoNotRepeat == ListingsSpec => []NothingRepeated
<1>1. ListingsIInv => NothingRepeated
  BY DEF ListingsIInv
<1> QED
  BY <1>1, ListingsInvariant, PTL

-----------------------------------------------------------------------------
(* Ranking *)

LEMMA GroupsAreFinite == IsFiniteSet(Groups)
<1>1. Groups = {} \union {"followers"} \union {"bounties"} \union {"chats"}
                  \union {"broadcasts"} \union {"activity"} \union {"profile"}
  BY DEF Groups
<1>2. \A S, x : IsFiniteSet(S) => IsFiniteSet(S \union {x})
  BY FS_AddElement
<1> QED BY <1>1, <1>2, FS_EmptySet

LEMMA PointsType ==
  ASSUME NEW levels \in [Groups -> Levels], NEW g \in Groups
  PROVE  Points(levels)[g] \in Nat /\ Points(levels)[g] = IF levels[g] = 0 THEN 0 ELSE Weight[g]
<1>1. Weight[g] \in Nat
  BY DEF Weight, Groups
<1>2. Points(levels)[g] = levels[g] * Weight[g]
  BY DEF Points
<1>3. CASE levels[g] = 0
  BY <1>1, <1>2, <1>3
<1>4. CASE levels[g] = 1
  BY <1>1, <1>2, <1>4
<1> QED BY <1>3, <1>4 DEF Levels

LEMMA AgeBonus ==
  ASSUME NEW ageDays \in Nat
  PROVE  AccountAge(ageDays) \in Nat /\ NewUserBoost(ageDays) \in Nat
<1>1. AccountAge(ageDays) \in Nat
  <2>1. (500 * ageDays) \div 30 \in Nat
    OBVIOUS
  <2> QED BY <2>1 DEF AccountAge
<1>2. NewUserBoost(ageDays) \in Nat
  BY DEF NewUserBoost
<1> QED BY <1>1, <1>2

LEMMA SumOfPoints ==
  ASSUME NEW levels \in [Groups -> Levels], NEW ageDays \in Nat
  PROVE  /\ SumOver(Points(levels), Groups) \in Nat
         /\ Sum(levels, ageDays) =
              SumOver(Points(levels), Groups) + AccountAge(ageDays) + NewUserBoost(ageDays)
         /\ Sum(levels, ageDays) \in Nat
<1>1. SumOver(Points(levels), Groups) \in Nat
  <2>1. \A g \in Groups : Points(levels)[g] \in Nat
    BY PointsType
  <2> QED BY <2>1, GroupsAreFinite, SumType
<1>2. Sum(levels, ageDays) =
        SumOver(Points(levels), Groups) + AccountAge(ageDays) + NewUserBoost(ageDays)
  BY DEF Sum, SumOver
<1> QED BY <1>1, <1>2, AgeBonus

LEMMA ScoreType ==
  ASSUME NEW levels \in [Groups -> Levels], NEW ageDays \in Nat
  PROVE  DiscoverScore(levels, ageDays) \in 0..MaxScore
<1> PICK s \in Nat : s = Sum(levels, ageDays)
  BY SumOfPoints
<1> PICK m : m = IF MaxScore <= s THEN MaxScore ELSE s
  OBVIOUS
<1>1. DiscoverScore(levels, ageDays) = m
  BY MinOfTwo DEF DiscoverScore, MaxScore
<1>2. m \in 0..MaxScore
  <2>1. MaxScore \in Nat
    BY DEF MaxScore
  <2>2. CASE MaxScore <= s
    BY <2>1, <2>2
  <2>3. CASE ~(MaxScore <= s)
    BY <2>1, <2>3
  <2> QED BY <2>2, <2>3
<1> QED BY <1>1, <1>2

RunStates ==
  [pc : {"run"}, day : RankingDays, users : SUBSET RankedUsers,
   level : [RankedUsers -> [Groups -> Levels \union {Unread}]]]

LEMMA RankerRuns ==
  ASSUME RankingTypeOK, NEW p \in Rankers, ranker[p].pc = "run"
  PROVE  ranker[p] \in RunStates
BY DEF RankingTypeOK, RankerStates, RankerIdle, RankerFailed, RunStates

LEMMA RankerStep ==
  ASSUME RankingTypeOK, NEW p \in Rankers, NEW r \in RankerStates, RankerBecomes(p, r),
         UNCHANGED <<metric, ranked, rankingDay, metricChanges>>,
         score' \in [RankedUsers -> 0..MaxScore]
  PROVE  RankingTypeOK'
BY DEF RankingTypeOK, RankerBecomes, RankingDays, RankerStates

LEMMA RankerNextStep ==
  ASSUME RankingTypeOK, NEW p \in Rankers, RankerNext(p) \/ FailRanking(p)
  PROVE  RankingTypeOK'
<1>1. score \in [RankedUsers -> 0..MaxScore]
  BY DEF RankingTypeOK
<1>2. RankerIdle \in RankerStates /\ RankerFailed \in RankerStates /\ RunStates \subseteq RankerStates
  BY DEF RankerStates, RunStates
<1>3. CASE ReadUsers(p)
  <2> DEFINE level == [u \in RankedUsers |-> [g \in Groups |->
          IF g = "profile" \/ g \notin ChangingGroups THEN metric[u][g] ELSE Unread]]
             r == [pc |-> "run", day |-> rankingDay, users |-> ranked, level |-> level]
  <2>1. level \in [RankedUsers -> [Groups -> Levels \union {Unread}]]
    BY DEF RankingTypeOK
  <2>2. r \in RunStates
    <3> HIDE DEF level
    <3> QED BY <2>1 DEF RunStates, RankingTypeOK
  <2>3. RankerBecomes(p, r) /\ UNCHANGED <<metric, ranked, score, rankingDay, metricChanges>>
    BY <1>3 DEF ReadUsers
  <2> HIDE DEF r
  <2> QED BY <1>1, <1>2, <2>2, <2>3, RankerStep
<1>4. ASSUME NEW g \in ChangingGroups, CollectMetrics(p, g)  PROVE RankingTypeOK'
  <2> DEFINE level == [u \in RankedUsers |-> [ranker[p].level[u] EXCEPT ![g] = metric[u][g]]]
             r == [ranker[p] EXCEPT !.level = level]
  <2>1. ranker[p] \in RunStates /\ g \in Groups
    BY <1>4, RankerRuns, RankingAssumption DEF CollectMetrics
  <2>2. level \in [RankedUsers -> [Groups -> Levels \union {Unread}]]
    <3>1. ASSUME NEW u \in RankedUsers
          PROVE  [ranker[p].level[u] EXCEPT ![g] = metric[u][g]] \in [Groups -> Levels \union {Unread}]
      BY <2>1 DEF RunStates, RankingTypeOK
    <3> QED BY <3>1
  <2>3. r \in RunStates
    <3> HIDE DEF level
    <3> QED BY <2>1, <2>2 DEF RunStates
  <2>4. RankerBecomes(p, r) /\ UNCHANGED <<metric, ranked, score, rankingDay, metricChanges>>
    BY <1>4 DEF CollectMetrics
  <2> HIDE DEF r
  <2> QED BY <1>1, <1>2, <2>3, <2>4, RankerStep
<1>5. CASE WriteBatch(p)
  <2> DEFINE r == ranker[p]
  <2>1. r \in RunStates
    BY <1>5, RankerRuns DEF WriteBatch
  <2>2. PICK batch \in SUBSET r.users :
          /\ score' = [u \in RankedUsers |->
               IF u \in batch \intersect ranked THEN DiscoverScore(r.level[u], r.day) ELSE score[u]]
          /\ RankerBecomes(p,
               IF Left(r.users, batch) = {} THEN RankerIdle
               ELSE [r EXCEPT !.users = Left(r.users, batch)])
    BY <1>5 DEF WriteBatch
  <2>3. ASSUME NEW u \in RankedUsers  PROVE DiscoverScore(r.level[u], r.day) \in 0..MaxScore
    <3>1. r.level[u] \in [Groups -> Levels \union {Unread}]
      BY <2>1 DEF RunStates
    <3>2. \A g \in Groups : r.level[u][g] # Unread
      BY <1>5 DEF WriteBatch
    <3>3. r.level[u] \in [Groups -> Levels]
      BY <3>1, <3>2
    <3>4. r.day \in Nat
      BY <2>1, RankingAssumption DEF RunStates, RankingDays
    <3> QED BY <3>3, <3>4, ScoreType
  <2>4. score' \in [RankedUsers -> 0..MaxScore]
    <3>1. \A u \in RankedUsers : score[u] \in 0..MaxScore
      BY <1>1
    <3> HIDE DEF r
    <3> QED BY <2>2, <2>3, <3>1
  <2>5. Left(r.users, batch) \in SUBSET RankedUsers
    BY <2>1, <2>2 DEF Left, RunStates
  <2>6. [r EXCEPT !.users = Left(r.users, batch)] \in RunStates
    BY <2>1, <2>5 DEF RunStates
  <2>7. UNCHANGED <<metric, ranked, rankingDay, metricChanges>>
    BY <1>5 DEF WriteBatch
  <2> HIDE DEF r
  <2> QED BY <1>2, <2>2, <2>4, <2>6, <2>7, RankerStep
<1>6. CASE FailRanking(p)
  BY <1>1, <1>2, <1>6, RankerStep DEF FailRanking
<1>7. CASE RecoverRanking(p)
  BY <1>1, <1>2, <1>7, RankerStep DEF RecoverRanking
<1> QED BY <1>3, <1>4, <1>5, <1>6, <1>7 DEF RankerNext

LEMMA RankingStepType == RankingTypeOK /\ [RankingNext]_rankingVars => RankingTypeOK'
<1> SUFFICES ASSUME RankingTypeOK, [RankingNext]_rankingVars  PROVE RankingTypeOK'
  OBVIOUS
<1>1. CASE PassDay
  BY <1>1, RankingAssumption DEF PassDay, RankingTypeOK, RankingDays, RankerStates
<1>2. ASSUME NEW u \in RankedUsers, ChangeRanked(u)  PROVE RankingTypeOK'
  BY <1>2, RankingAssumption DEF ChangeRanked, CountChange, RankingTypeOK, RankingDays, RankerStates
<1>3. ASSUME NEW u \in RankedUsers, NEW g \in ChangingGroups, ChangeMetric(u, g)  PROVE RankingTypeOK'
  <2>1. PICK level \in Levels :
          metric' = [metric EXCEPT ![u] = [metric[u] EXCEPT ![g] = level]]
    BY <1>3 DEF ChangeMetric
  <2>2. [metric[u] EXCEPT ![g] = level] \in [Groups -> Levels]
    BY DEF RankingTypeOK
  <2>3. metric' \in [RankedUsers -> [Groups -> Levels]]
    BY <2>1, <2>2 DEF RankingTypeOK
  <2> QED
    BY <1>3, <2>3, RankingAssumption DEF ChangeMetric, CountChange, RankingTypeOK, RankingDays, RankerStates
<1>4. ASSUME NEW p \in Rankers, RankerNext(p) \/ FailRanking(p)  PROVE RankingTypeOK'
  BY <1>4, RankerNextStep
<1>5. CASE UNCHANGED rankingVars
  BY <1>5 DEF rankingVars, RankingTypeOK, RankingDays, RankerStates
<1> QED BY <1>1, <1>2, <1>3, <1>4, <1>5 DEF RankingNext

LEMMA RankingInitType == RankingInit => RankingTypeOK
BY RankingAssumption DEF RankingInit, RankingTypeOK, RankingDays, RankerStates, MaxScore

\* No score that the ranking stores is above 100, whatever weights and boosts
\* come together: every one makes a cursor that decodeDiscoverCursor accepts.
THEOREM ScoresAreInRange == RankingSpec => []RankingTypeOK
<1> QED BY RankingInitType, RankingStepType, PTL DEF RankingSpec

-----------------------------------------------------------------------------
(* Reconciliation *)

RegisteredIds == {b \in BountyIds : registered[b] # "none"}

\* Each registration has a place of its own.
PlacesInv ==
  /\ \A b \in BountyIds : registeredAt[b] <= Cardinality(RegisteredIds)
  /\ \A b, c \in RegisteredIds : registeredAt[b] = registeredAt[c] => b = c

\* What a process goes on with, it has found on the contract, for good.
IsSound(r) ==
  /\ r.pc \in {"todo", "mirror"} => r.todo \subseteq RegisteredIds
  /\ r.pc = "mirror" =>
       \A b \in r.todo : (\A c \in r.todo : ~Older(c, b)) => b <= lockedUpTo
  /\ r.pc \in {"walk", "next"} => r.upTo <= lockedUpTo
  /\ r.pc \in {"exists", "upsert", "advance"} => r.upTo < lockedUpTo

ReconciliationIInv ==
  /\ ReconciliationTypeOK
  /\ PlacesInv
  /\ \A p \in Reconcilers : IsSound(reconciler[p])
LEMMA RegisteredIdsAreFinite ==
  IsFiniteSet(RegisteredIds) /\ Cardinality(RegisteredIds) \in Nat
<1>1. IsFiniteSet(BountyIds)
  BY ReconciliationAssumption, FS_Interval DEF BountyIds
<1>2. RegisteredIds \subseteq BountyIds
  BY DEF RegisteredIds
<1> QED BY <1>1, <1>2, FS_Subset, FS_CardinalityType

LEMMA ReconcilerShapes ==
  ASSUME NEW r \in ReconcilerStates
  PROVE  /\ r.pc \in {"todo", "mirror"} => r \in [pc : {"todo", "mirror"}, todo : SUBSET BountyIds]
         /\ r.pc \in {"walk", "next", "exists", "upsert", "advance"} =>
              r \in [pc : {"walk", "next", "exists", "upsert", "advance"}, from : Nat, upTo : Nat]
BY DEF ReconcilerStates, ReconcilerIdle, ReconcilerFailed

LEMMA RestIsSound == IsSound(ReconcilerIdle) /\ IsSound(ReconcilerFailed) /\ IsSound([pc |-> "pointer"])
BY DEF IsSound, ReconcilerIdle, ReconcilerFailed

\* A step of one process that registers nothing.
LEMMA OneReconcilerStep ==
  ASSUME ReconciliationIInv, NEW p \in Reconcilers, NEW r \in ReconcilerStates, IsSound(r),
         ReconcilerBecomes(p, r) \/ UNCHANGED reconciler,
         UNCHANGED <<lockedUpTo, registeredAt>>,
         registered' \in [BountyIds -> Registrations], RegisteredIds' = RegisteredIds,
         mirrored' \subseteq 1..lockedUpTo, pointer' \in 0..lockedUpTo
  PROVE  ReconciliationIInv'
<1>1. \A x : IsSound(x) => IsSound(x)'
  BY DEF IsSound, Older
<1>2. \A q \in Reconcilers : reconciler'[q] \in {reconciler[q], r}
  BY DEF ReconciliationIInv, ReconciliationTypeOK, ReconcilerBecomes
<1>3. \A q \in Reconcilers : IsSound(reconciler'[q])
  BY <1>2 DEF ReconciliationIInv
<1>4. \A q \in Reconcilers : IsSound(reconciler[q])'
  BY <1>1, <1>3 DEF IsSound
<1>5. PlacesInv'
  BY DEF ReconciliationIInv, PlacesInv
<1>6. reconciler' \in [Reconcilers -> ReconcilerStates]
  BY DEF ReconciliationIInv, ReconciliationTypeOK, ReconcilerBecomes
<1>7. ReconciliationTypeOK'
  BY <1>6 DEF ReconciliationIInv, ReconciliationTypeOK, BountyIds, Registrations, ReconcilerStates
<1> QED BY <1>4, <1>5, <1>7 DEF ReconciliationIInv

\* A process that only changes its own state.
LEMMA LocalReconcilerStep ==
  ASSUME ReconciliationIInv, NEW p \in Reconcilers, NEW r \in ReconcilerStates, IsSound(r),
         ReconcilerBecomes(p, r),
         UNCHANGED <<lockedUpTo, registered, registeredAt, mirrored, pointer>>
  PROVE  ReconciliationIInv'
<1>1. RegisteredIds' = RegisteredIds
  BY DEF RegisteredIds
<1> QED BY <1>1, OneReconcilerStep DEF ReconciliationIInv, ReconciliationTypeOK

LEMMA UpsertStep ==
  ASSUME ReconciliationIInv, NEW b \in BountyIds, b <= lockedUpTo, Upsert(b)
  PROVE  /\ registered' \in [BountyIds -> Registrations]
         /\ RegisteredIds' = RegisteredIds
         /\ mirrored' \subseteq 1..lockedUpTo
<1>1. registered \in [BountyIds -> Registrations] /\ mirrored \subseteq 1..lockedUpTo
  BY DEF ReconciliationIInv, ReconciliationTypeOK
<1>2. registered' = [registered EXCEPT ![b] = IF registered[b] = "differs" THEN "failed" ELSE registered[b]]
  BY DEF Upsert
<1>3. registered' \in [BountyIds -> Registrations]
  BY <1>1, <1>2 DEF Registrations
<1>4. \A c \in BountyIds : registered'[c] # "none" <=> registered[c] # "none"
  BY <1>1, <1>2
<1>5. RegisteredIds' = RegisteredIds
  BY <1>4 DEF RegisteredIds
<1>6. b \in 1..lockedUpTo
  BY ReconciliationAssumption DEF BountyIds, ReconciliationIInv, ReconciliationTypeOK
<1> QED BY <1>1, <1>3, <1>5, <1>6 DEF Upsert

LEMMA LockStep ==
  ASSUME ReconciliationIInv, LockNextBounty
  PROVE  ReconciliationIInv'
<1>1. /\ lockedUpTo \in Nat /\ lockedUpTo' = lockedUpTo + 1 /\ lockedUpTo' \in 0..LastBountyId
      /\ UNCHANGED <<registered, registeredAt, mirrored, pointer, reconciler>>
  BY ReconciliationAssumption DEF LockNextBounty, ReconciliationIInv, ReconciliationTypeOK
<1>2. ReconciliationTypeOK'
  BY <1>1 DEF ReconciliationIInv, ReconciliationTypeOK, BountyIds, Registrations, ReconcilerStates
<1>3. ASSUME NEW p \in Reconcilers  PROVE IsSound(reconciler[p])'
  <2> PICK r : r = reconciler[p]
    OBVIOUS
  <2>1. r \in ReconcilerStates /\ IsSound(r)
    BY DEF ReconciliationIInv, ReconciliationTypeOK
  <2>2. /\ r.pc \in {"todo", "mirror"} => r.todo \subseteq BountyIds
        /\ r.pc \in {"walk", "next", "exists", "upsert", "advance"} => r.upTo \in Nat
    BY <2>1, ReconcilerShapes
  <2>3. \A b \in BountyIds : b <= lockedUpTo => b <= lockedUpTo'
    BY <1>1 DEF BountyIds
  <2>4. IsSound(reconciler[p])'
    BY <1>1, <2>1, <2>2, <2>3 DEF IsSound, Older, RegisteredIds
  <2> QED BY <2>4
<1>4. PlacesInv'
  BY <1>1 DEF ReconciliationIInv, PlacesInv, RegisteredIds
<1> QED BY <1>2, <1>3, <1>4 DEF ReconciliationIInv

LEMMA RegisterStep ==
  ASSUME ReconciliationIInv, NEW b \in BountyIds, RegisterBountyId(b)
  PROVE  ReconciliationIInv'
<1>1. PICK place : place = 1 + Cardinality(RegisteredIds)
  OBVIOUS
<1>2. /\ registered[b] = "none"
      /\ \E r \in {"agrees", "differs"} : registered' = [registered EXCEPT ![b] = r]
      /\ registeredAt' = [registeredAt EXCEPT ![b] = place]
      /\ UNCHANGED <<lockedUpTo, mirrored, pointer, reconciler>>
  BY <1>1 DEF RegisterBountyId, RegisteredIds
<1>3. registered \in [BountyIds -> Registrations] /\ registeredAt \in [BountyIds -> Nat]
  BY DEF ReconciliationIInv, ReconciliationTypeOK
<1>4. b \notin RegisteredIds /\ RegisteredIds' = RegisteredIds \union {b}
  BY <1>2, <1>3 DEF RegisteredIds
<1>5. Cardinality(RegisteredIds) \in Nat /\ Cardinality(RegisteredIds') = place
  <2>1. Cardinality(RegisteredIds \union {b}) = Cardinality(RegisteredIds) + 1
    BY <1>4, RegisteredIdsAreFinite, FS_AddElement
  <2> QED BY <1>1, <1>4, <2>1, RegisteredIdsAreFinite
<1>6. ReconciliationTypeOK'
  <2>1. registered' \in [BountyIds -> Registrations]
    BY <1>2, <1>3 DEF Registrations
  <2>2. registeredAt' \in [BountyIds -> Nat]
    BY <1>1, <1>2, <1>3, <1>5
  <2> QED
    BY <1>2, <2>1, <2>2 DEF ReconciliationIInv, ReconciliationTypeOK, BountyIds, Registrations, ReconcilerStates
<1>7. /\ \A c \in BountyIds : registeredAt[c] \in Nat /\ registeredAt[c] < place
      /\ registeredAt'[b] = place
      /\ \A c \in BountyIds : c # b => registeredAt'[c] = registeredAt[c]
  BY <1>1, <1>2, <1>3, <1>5 DEF ReconciliationIInv, PlacesInv
<1>8. PlacesInv'
  <2>1. ASSUME NEW c \in BountyIds  PROVE registeredAt'[c] <= Cardinality(RegisteredIds')
    BY <1>1, <1>5, <1>7
  <2>2. ASSUME NEW c \in RegisteredIds', NEW d \in RegisteredIds', registeredAt'[c] = registeredAt'[d]
        PROVE  c = d
    <3>1. c \in BountyIds /\ d \in BountyIds /\ c \in RegisteredIds \union {b} /\ d \in RegisteredIds \union {b}
      BY <1>4 DEF RegisteredIds
    <3>2. CASE c = b \/ d = b
      BY <1>1, <1>5, <1>7, <2>2, <3>1, <3>2
    <3>3. CASE c # b /\ d # b
      BY <1>7, <2>2, <3>1, <3>3 DEF ReconciliationIInv, PlacesInv
    <3> QED BY <3>2, <3>3
  <2> QED BY <2>1, <2>2 DEF PlacesInv
<1>9. ASSUME NEW p \in Reconcilers  PROVE IsSound(reconciler[p])'
  <2> PICK r : r = reconciler[p]
    OBVIOUS
  <2>1. IsSound(r)
    BY DEF ReconciliationIInv
  <2>2. ASSUME r.pc \in {"todo", "mirror"}
        PROVE  /\ r.todo \subseteq RegisteredIds'
               /\ \A c, d \in r.todo : Older(c, d)' <=> Older(c, d)
    <3>1. r.todo \subseteq RegisteredIds /\ RegisteredIds \subseteq BountyIds
      BY <2>1, <2>2 DEF IsSound, RegisteredIds
    <3>2. \A c \in r.todo : registeredAt'[c] = registeredAt[c]
      BY <1>4, <1>7, <3>1
    <3> QED BY <1>4, <3>1, <3>2 DEF Older
  <2>3. IsSound(reconciler[p])'
    BY <1>2, <2>1, <2>2 DEF IsSound
  <2> QED BY <2>3
<1> QED BY <1>6, <1>8, <1>9 DEF ReconciliationIInv

LEMMA ObserveStep ==
  ASSUME ReconciliationIInv, NEW b \in BountyIds, ObserveLock(b)
  PROVE  ReconciliationIInv'
<1>1. /\ registered' \in [BountyIds -> Registrations]
      /\ RegisteredIds' = RegisteredIds
      /\ mirrored' \subseteq 1..lockedUpTo
  BY UpsertStep DEF ObserveLock
<1>2. UNCHANGED <<lockedUpTo, registeredAt, pointer, reconciler>>
  BY DEF ObserveLock
<1>3. pointer' \in 0..lockedUpTo
  BY <1>2 DEF ReconciliationIInv, ReconciliationTypeOK
<1>4. CASE \E p \in Reconcilers : TRUE
  <2> PICK p \in Reconcilers : TRUE
    BY <1>4
  <2>1. ReconcilerIdle \in ReconcilerStates /\ IsSound(ReconcilerIdle)
    BY RestIsSound DEF ReconcilerStates
  <2> QED BY <1>1, <1>2, <1>3, <2>1, OneReconcilerStep
<1>5. CASE ~\E p \in Reconcilers : TRUE
  BY <1>1, <1>2, <1>3, <1>5
  DEF ReconciliationIInv, ReconciliationTypeOK, BountyIds, Registrations, ReconcilerStates, PlacesInv
<1> QED BY <1>4, <1>5

LEMMA RegistrationsStep ==
  ASSUME ReconciliationIInv, NEW p \in Reconcilers,
         SelectRegistrations(p) \/ LookUpRegistration(p) \/ MirrorRegistration(p) \/ EndRegistrations(p)
  PROVE  ReconciliationIInv'
<1>1. reconciler[p] \in ReconcilerStates /\ IsSound(reconciler[p])
  BY DEF ReconciliationIInv, ReconciliationTypeOK
<1>2. ASSUME NEW todo \in SUBSET BountyIds, todo \subseteq RegisteredIds
      PROVE  [pc |-> "todo", todo |-> todo] \in ReconcilerStates /\ IsSound([pc |-> "todo", todo |-> todo])
  BY <1>2 DEF ReconcilerStates, IsSound
<1>3. reconciler[p].pc \in {"todo", "mirror"} =>
        reconciler[p].todo \in SUBSET BountyIds /\ reconciler[p].todo \subseteq RegisteredIds
  BY <1>1, ReconcilerShapes DEF IsSound
<1>4. CASE SelectRegistrations(p)
  <2>1. FirstBatch(Unmirrored) \in SUBSET BountyIds /\ FirstBatch(Unmirrored) \subseteq RegisteredIds
    BY DEF FirstBatch, Unmirrored, IsLive, RegisteredIds
  <2> QED BY <1>2, <1>4, <2>1, LocalReconcilerStep DEF SelectRegistrations
<1>5. CASE LookUpRegistration(p)
  <2> PICK todo : todo = reconciler[p].todo
    OBVIOUS
  <2>1. PICK b \in BountyIds :
          /\ IsNext(b, p)
          /\ ReconcilerBecomes(p,
               IF b <= lockedUpTo THEN [pc |-> "mirror", todo |-> todo]
               ELSE [pc |-> "todo", todo |-> todo \ {b}])
    BY <1>5 DEF LookUpRegistration
  <2>2. UNCHANGED <<lockedUpTo, registered, registeredAt, mirrored, pointer>>
    BY <1>5 DEF LookUpRegistration
  <2>3. todo \in SUBSET BountyIds /\ todo \subseteq RegisteredIds
    BY <1>3, <1>5 DEF LookUpRegistration
  <2>4. CASE b <= lockedUpTo
    <3>1. [pc |-> "mirror", todo |-> todo] \in ReconcilerStates
      BY <2>3 DEF ReconcilerStates
    <3>2. ASSUME NEW c \in todo, \A d \in todo : ~Older(d, c)  PROVE c <= lockedUpTo
      <4>1. b \in todo /\ ~Older(c, b) /\ ~Older(b, c)
        BY <2>1, <3>2 DEF IsNext
      <4>2. registeredAt[b] \in Nat /\ registeredAt[c] \in Nat
        BY <2>3 DEF ReconciliationIInv, ReconciliationTypeOK
      <4>3. b = c
        BY <2>3, <4>1, <4>2 DEF Older, ReconciliationIInv, PlacesInv
      <4> QED BY <2>4, <4>3
    <3>3. IsSound([pc |-> "mirror", todo |-> todo])
      BY <2>3, <3>2 DEF IsSound
    <3> QED BY <2>1, <2>2, <2>4, <3>1, <3>3, LocalReconcilerStep
  <2>5. CASE ~(b <= lockedUpTo)
    <3>1. todo \ {b} \in SUBSET BountyIds /\ todo \ {b} \subseteq RegisteredIds
      BY <2>3
    <3> QED BY <1>2, <2>1, <2>2, <2>5, <3>1, LocalReconcilerStep
  <2> QED BY <2>4, <2>5
<1>6. CASE MirrorRegistration(p)
  <2> PICK todo : todo = reconciler[p].todo
    OBVIOUS
  <2>1. PICK b \in BountyIds :
          IsNext(b, p) /\ Upsert(b) /\ ReconcilerBecomes(p, [pc |-> "todo", todo |-> todo \ {b}])
    BY <1>6 DEF MirrorRegistration
  <2>2. b <= lockedUpTo
    BY <1>1, <1>6, <2>1 DEF MirrorRegistration, IsNext, IsSound
  <2>3. /\ registered' \in [BountyIds -> Registrations]
        /\ RegisteredIds' = RegisteredIds
        /\ mirrored' \subseteq 1..lockedUpTo
    BY <2>1, <2>2, UpsertStep
  <2>4. todo \ {b} \in SUBSET BountyIds /\ todo \ {b} \subseteq RegisteredIds
    BY <1>3, <1>6 DEF MirrorRegistration
  <2>5. UNCHANGED <<lockedUpTo, registeredAt, pointer>> /\ pointer' \in 0..lockedUpTo
    BY <1>6 DEF MirrorRegistration, ReconciliationIInv, ReconciliationTypeOK
  <2> QED BY <1>2, <2>1, <2>3, <2>4, <2>5, OneReconcilerStep
<1>7. CASE EndRegistrations(p)
  <2>1. [pc |-> "pointer"] \in ReconcilerStates
    BY DEF ReconcilerStates
  <2> QED BY <1>7, <2>1, RestIsSound, LocalReconcilerStep DEF EndRegistrations
<1> QED BY <1>4, <1>5, <1>6, <1>7

WalkStates == [pc : {"walk", "next", "exists", "upsert", "advance"}, from : Nat, upTo : Nat]

LEMMA WalkStep ==
  ASSUME ReconciliationIInv, NEW p \in Reconcilers,
         \/ ReadPointer(p) \/ WalkOverMirrored(p) \/ LookUpNextId(p)
         \/ CheckRegistered(p) \/ MirrorNextId(p) \/ SavePointer(p)
  PROVE  ReconciliationIInv'
<1> PICK r : r = reconciler[p]
  OBVIOUS
<1>1. r \in ReconcilerStates /\ IsSound(r)
  BY DEF ReconciliationIInv, ReconciliationTypeOK
<1>2. r.pc \in {"walk", "next", "exists", "upsert", "advance"} => r \in WalkStates
  BY <1>1, ReconcilerShapes DEF WalkStates
<1>3. WalkStates \subseteq ReconcilerStates /\ ReconcilerIdle \in ReconcilerStates
  BY DEF WalkStates, ReconcilerStates
<1>4. /\ lockedUpTo \in Nat /\ lockedUpTo <= LastBountyId /\ LastBountyId \in Nat
      /\ pointer \in 0..lockedUpTo /\ mirrored \subseteq 1..lockedUpTo
      /\ registered \in [BountyIds -> Registrations]
  BY ReconciliationAssumption DEF ReconciliationIInv, ReconciliationTypeOK
<1>5. UNCHANGED registered => RegisteredIds' = RegisteredIds
  BY DEF RegisteredIds
<1>6. CASE ReadPointer(p)
  <2> PICK s : s = [pc |-> "walk", from |-> pointer, upTo |-> pointer]
    OBVIOUS
  <2>1. s \in WalkStates /\ IsSound(s)
    BY <1>4 DEF WalkStates, IsSound
  <2> QED BY <1>3, <1>6, <2>1, LocalReconcilerStep DEF ReadPointer
<1>7. CASE WalkOverMirrored(p)
  <2>1. r.pc = "walk" /\ r \in WalkStates /\ r.upTo \in Nat /\ r.from \in Nat /\ r.upTo <= lockedUpTo
    BY <1>1, <1>2, <1>7 DEF WalkOverMirrored, IsSound, WalkStates
  <2>2. UNCHANGED <<lockedUpTo, registered, registeredAt, mirrored>>
    BY <1>7 DEF WalkOverMirrored
  <2>3. CASE /\ r.upTo + 1 \in mirrored
             /\ ReconcilerBecomes(p, [r EXCEPT !.upTo = r.upTo + 1])
             /\ UNCHANGED pointer
    <3> PICK s : s = [r EXCEPT !.upTo = r.upTo + 1]
      OBVIOUS
    <3>1. r.upTo + 1 <= lockedUpTo
      BY <1>4, <2>3
    <3>2. s \in WalkStates /\ s.pc = "walk" /\ s.upTo = r.upTo + 1
      BY <2>1 DEF WalkStates
    <3>3. IsSound(s)
      BY <3>1, <3>2 DEF IsSound
    <3> QED BY <1>3, <2>2, <2>3, <3>2, <3>3, LocalReconcilerStep
  <2>4. CASE /\ pointer' = IF r.upTo # r.from THEN r.upTo ELSE pointer
             /\ ReconcilerBecomes(p, [r EXCEPT !.pc = "next"])
    <3> PICK s : s = [r EXCEPT !.pc = "next"]
      OBVIOUS
    <3>1. s \in WalkStates /\ s.pc = "next" /\ s.upTo = r.upTo
      BY <2>1 DEF WalkStates
    <3>2. IsSound(s)
      BY <2>1, <3>1 DEF IsSound
    <3>3. pointer' \in 0..lockedUpTo
      BY <1>4, <2>1, <2>4
    <3> QED BY <1>3, <1>4, <1>5, <2>2, <2>4, <3>1, <3>2, <3>3, OneReconcilerStep
  <2> QED BY <1>7, <2>3, <2>4 DEF WalkOverMirrored
<1>8. CASE LookUpNextId(p)
  <2>1. r.pc = "next" /\ r \in WalkStates /\ r.upTo \in Nat
    BY <1>2, <1>8 DEF LookUpNextId, WalkStates
  <2> PICK s : s = [r EXCEPT !.pc = "exists"]
    OBVIOUS
  <2>2. s \in WalkStates /\ s.pc = "exists" /\ s.upTo = r.upTo
    BY <2>1 DEF WalkStates
  <2>3. r.upTo + 1 <= lockedUpTo => IsSound(s)
    BY <1>4, <2>1, <2>2 DEF IsSound
  <2>4. CASE r.upTo + 1 <= lockedUpTo
    BY <1>3, <1>8, <2>2, <2>3, <2>4, LocalReconcilerStep DEF LookUpNextId
  <2>5. CASE ~(r.upTo + 1 <= lockedUpTo)
    BY <1>3, <1>8, <2>5, RestIsSound, LocalReconcilerStep DEF LookUpNextId
  <2> QED BY <2>4, <2>5
<1>9. CASE CheckRegistered(p)
  <2>1. r.pc = "exists" /\ r \in WalkStates /\ r.upTo < lockedUpTo
    BY <1>1, <1>2, <1>9 DEF CheckRegistered, IsSound
  <2> PICK s : s = [r EXCEPT !.pc = IF IsLive(r.upTo + 1) THEN "upsert" ELSE "advance"]
    OBVIOUS
  <2>2. s \in WalkStates /\ s.pc \in {"upsert", "advance"} /\ s.upTo = r.upTo
    BY <2>1 DEF WalkStates
  <2>3. IsSound(s)
    BY <2>1, <2>2 DEF IsSound
  <2> QED BY <1>3, <1>9, <2>2, <2>3, LocalReconcilerStep DEF CheckRegistered
<1>10. CASE MirrorNextId(p)
  <2>1. r.pc = "upsert" /\ r \in WalkStates /\ r.upTo \in Nat /\ r.upTo < lockedUpTo
    BY <1>1, <1>2, <1>10 DEF MirrorNextId, IsSound, WalkStates
  <2> PICK s : s = [r EXCEPT !.pc = "advance"]
    OBVIOUS
  <2>2. s \in WalkStates /\ s.pc = "advance" /\ s.upTo = r.upTo
    BY <2>1 DEF WalkStates
  <2>3. IsSound(s)
    BY <2>1, <2>2 DEF IsSound
  <2>4. r.upTo + 1 \in BountyIds /\ r.upTo + 1 <= lockedUpTo
    BY <1>4, <2>1 DEF BountyIds
  <2>5. /\ registered' \in [BountyIds -> Registrations]
        /\ RegisteredIds' = RegisteredIds
        /\ mirrored' \subseteq 1..lockedUpTo
    BY <1>10, <2>4, UpsertStep DEF MirrorNextId
  <2>6. UNCHANGED <<lockedUpTo, registeredAt, pointer>> /\ ReconcilerBecomes(p, s)
    BY <1>10 DEF MirrorNextId
  <2> QED BY <1>3, <1>4, <2>2, <2>3, <2>5, <2>6, OneReconcilerStep
<1>11. CASE SavePointer(p)
  <2>1. r.pc = "advance" /\ r.upTo \in Nat /\ r.upTo < lockedUpTo
    BY <1>1, <1>2, <1>11 DEF SavePointer, IsSound, WalkStates
  <2>2. pointer' \in 0..lockedUpTo
    BY <1>4, <1>11, <2>1 DEF SavePointer
  <2>3. /\ UNCHANGED <<lockedUpTo, registered, registeredAt, mirrored>>
        /\ ReconcilerBecomes(p, ReconcilerIdle)
    BY <1>11 DEF SavePointer
  <2> QED BY <1>3, <1>4, <1>5, <2>2, <2>3, RestIsSound, OneReconcilerStep
<1> QED BY <1>6, <1>7, <1>8, <1>9, <1>10, <1>11

LEMMA EndedStep ==
  ASSUME ReconciliationIInv, NEW p \in Reconcilers, FailReconciliation(p) \/ RecoverReconciliation(p)
  PROVE  ReconciliationIInv'
<1>1. ReconcilerIdle \in ReconcilerStates /\ ReconcilerFailed \in ReconcilerStates
  BY DEF ReconcilerStates
<1> QED BY <1>1, RestIsSound, LocalReconcilerStep DEF FailReconciliation, RecoverReconciliation

LEMMA ReconciliationInitIInv == ReconciliationInit => ReconciliationIInv
<1> SUFFICES ASSUME ReconciliationInit  PROVE ReconciliationIInv
  OBVIOUS
<1>1. ReconciliationTypeOK
  BY ReconciliationAssumption
  DEF ReconciliationInit, ReconciliationTypeOK, ReconcilerStates, Registrations, BountyIds
<1>2. PlacesInv
  <2>1. RegisteredIds = {} /\ Cardinality(RegisteredIds) \in Nat
    BY RegisteredIdsAreFinite DEF ReconciliationInit, RegisteredIds
  <2>2. \A b \in BountyIds : registeredAt[b] = 0
    BY DEF ReconciliationInit
  <2> QED BY <2>1, <2>2 DEF PlacesInv
<1> QED BY <1>1, <1>2, RestIsSound DEF ReconciliationInit, ReconciliationIInv

LEMMA ReconciliationStepIInv ==
  ReconciliationIInv /\ [ReconciliationNext]_reconciliationVars => ReconciliationIInv'
<1> SUFFICES ASSUME ReconciliationIInv, [ReconciliationNext]_reconciliationVars
             PROVE  ReconciliationIInv'
  OBVIOUS
<1>1. CASE LockNextBounty
  BY <1>1, LockStep
<1>2. ASSUME NEW b \in BountyIds, RegisterBountyId(b) \/ ObserveLock(b)  PROVE ReconciliationIInv'
  BY <1>2, RegisterStep, ObserveStep
<1>3. ASSUME NEW p \in Reconcilers, ReconcilerNext(p) \/ FailReconciliation(p)
      PROVE  ReconciliationIInv'
  BY <1>3, RegistrationsStep, WalkStep, EndedStep DEF ReconcilerNext
<1>4. CASE UNCHANGED reconciliationVars
  BY <1>4
  DEF reconciliationVars, ReconciliationIInv, ReconciliationTypeOK, ReconcilerStates, Registrations,
      BountyIds, PlacesInv, RegisteredIds, IsSound, Older
<1> QED BY <1>1, <1>2, <1>3, <1>4 DEF ReconciliationNext

\* What a process goes on with, the contract has, whatever the processes do
\* to each other's pointer.
THEOREM ReconciliationInvariant == ReconciliationSpec => []ReconciliationIInv
<1> QED BY ReconciliationInitIInv, ReconciliationStepIInv, PTL DEF ReconciliationSpec

\* Neither job mirrors a bounty that the contract does not have, and the
\* pointer never passes the last id that was given out.
THEOREM ReconciliationTypeCorrectness == ReconciliationSpec => []ReconciliationTypeOK
<1>1. ReconciliationIInv => ReconciliationTypeOK
  BY DEF ReconciliationIInv
<1> QED BY <1>1, ReconciliationInvariant, PTL

-----------------------------------------------------------------------------
(* The composition *)

\* A step of the composition is a step of one component, and changes nothing
\* of the others.
LEMMA ComponentSteps ==
  ASSUME [ServicesNext]_servicesVars
  PROVE  /\ [SessionsNext]_sessionVars
         /\ [AccountsNext]_accountVars
         /\ [ActivityNext]_activityVars
         /\ [ListingsNext]_listingVars
         /\ [RankingNext]_rankingVars
         /\ [ReconciliationNext]_reconciliationVars
BY DEF ServicesNext, servicesVars, SessionsWork, AccountsWork, ActivityWorks, ListingsWork,
       RankingWorks, ReconciliationWorks

\* The composition keeps to the specification of each component, so that
\* whatever is proved of a component alone holds of the composition.
THEOREM ServicesImplementComponents ==
  ServicesSpec =>
    /\ SessionsSpec
    /\ AccountsSpec
    /\ ActivitySpec
    /\ ListingsSpec
    /\ RankingSpec
    /\ ReconciliationSpec
<1>1. ServicesInit =>
        /\ SessionsInit /\ AccountsInit /\ ActivityInit
        /\ ListingsInit /\ RankingInit /\ ReconciliationInit
  BY DEF ServicesInit
<1>2. [ServicesNext]_servicesVars =>
        /\ [SessionsNext]_sessionVars
        /\ [AccountsNext]_accountVars
        /\ [ActivityNext]_activityVars
        /\ [ListingsNext]_listingVars
        /\ [RankingNext]_rankingVars
        /\ [ReconciliationNext]_reconciliationVars
  BY ComponentSteps
<1> QED
  BY <1>1, <1>2, PTL
  DEF ServicesSpec, SessionsSpec, AccountsSpec, ActivitySpec, ListingsSpec, RankingSpec,
      ReconciliationSpec

\* The types of all components: no score that makes no cursor, no mirror of a
\* bounty that the contract does not have, no token, avatar or heartbeat of a
\* kind that the code does not provide for.
THEOREM ServicesTypeCorrectness == ServicesSpec => []ServicesTypeOK
<1>1. AccountsIInv => AccountsTypeOK
  BY DEF AccountsIInv
<1>2. ActivityIInv => ActivityTypeOK
  BY DEF ActivityIInv
<1>3. ListingsIInv => ListingsTypeOK
  BY DEF ListingsIInv
<1> QED
  BY <1>1, <1>2, <1>3, ServicesImplementComponents, SessionsTypeCorrectness, AccountsInvariant,
     ActivityInvariant, ListingsInvariant, ScoresAreInRange, ReconciliationTypeCorrectness, PTL
  DEF ServicesTypeOK

\* What is proved of the components one by one holds while they are at work
\* next to each other.
THEOREM ServicesAreSafe ==
  ServicesSpec =>
    /\ [](/\ RefreshTokensFormAChain
          /\ NamedAvatarIsStored
          /\ StoredAvatarIsNeeded
          /\ CreditIsElapsedTime
          /\ NothingSkipped
          /\ NothingRepeated)
    /\ SessionsOnlyMoveForward
BY ServicesImplementComponents, TokensFormAChain, SessionsMoveForward, AvatarsStayStored,
   AvatarsAreNeeded, CreditsAreElapsedTime, ListsAreComplete, ListsDoNotRepeat, PTL

=============================================================================
