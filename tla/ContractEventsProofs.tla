------------------------ MODULE ContractEventsProofs ------------------------
(***************************************************************************)
(* No checkpoint of the event synchronization passes an event that still   *)
(* has to be handled, for any number of streams, pollers and rewinds.      *)
(*                                                                         *)
(* A checkpoint is written from what a poller computed several awaits ago, *)
(* so the invariant says of every poller what it may rely on: what it has  *)
(* loaded is covered, and what it is about to save is covered up to the    *)
(* events that it still has to handle.  Coverage never shrinks, so that a  *)
(* late save is as good as a timely one.                                   *)
(***************************************************************************)
EXTENDS ContractEvents, TLAPS

\* Up to this ledger only these events are still to be handled.
CoveredBut(ledger, todo) ==
  \A e \in emitted :
    e[1] <= ledger /\ Known(e) => e \in recorded \/ e[1] < oldest \/ e \in todo

\* What a poller with this local state relies on.
PollerOK(r) ==
  /\ \A s \in Streams : Covered(r.loaded[s])
  /\ r.pc = "request" => r.start < r.end /\ Covered(r.start - 1)
  /\ r.todo \subseteq emitted
  /\ r.pc = "handle" => CoveredBut(r.target, r.todo)
  /\ r.pc = "save" => Covered(r.target)

PollerType(r) ==
  /\ r \in PollerRecord
  /\ r.loaded \in [Streams -> Unread..latest]
  /\ r.end <= latest + 1
  /\ r.target \in Null..latest

IInv ==
  /\ TypeOK
  /\ latest >= StartLedger - 1
  /\ \A e \in emitted : StartLedger <= e[1] /\ e[1] <= latest
  /\ \A p \in Pollers : PollerOK(poller[p])
  /\ CheckpointsCoverEvents

USE ConstantsAssumption

LEMMA OldestType == ASSUME latest \in Nat PROVE oldest \in Nat
BY DEF oldest, Larger

LEMMA InitIInv == Init => IInv
<1> SUFFICES ASSUME Init PROVE IInv
  OBVIOUS
<1>1. TypeOK
  BY DEF Init, TypeOK, Events, Idle, PollerRecord, RewindRecord, Null, Unread
<1>2. \A p \in Pollers : PollerOK(poller[p])
  BY DEF Init, PollerOK, Covered, Idle
<1>3. CheckpointsCoverEvents
  BY DEF Init, CheckpointsCoverEvents, Covered
<1> QED
  BY <1>1, <1>2, <1>3 DEF IInv, Init

-----------------------------------------------------------------------------
(* Coverage never shrinks *)

\* What every step does to the ledger, the users and the records.
Grows ==
  /\ latest' \in Nat /\ latest <= latest'
  /\ emitted \subseteq emitted'
  /\ \A e \in emitted' : e \in emitted \/ (e[1] = latest' /\ latest < latest')
  /\ emitted' \in SUBSET Events
  /\ registeredAt' \in [Subjects -> Null..latest']
  /\ \A a \in Subjects : registeredAt'[a] # registeredAt[a] => registeredAt'[a] = latest
  /\ recorded \subseteq recorded' /\ recorded' \subseteq emitted'

LEMMA KnownKept ==
  ASSUME IInv, Grows, NEW e \in emitted, Known(e)' PROVE Known(e)
<1>1. e \in Events /\ e[2] \in Subjects /\ e[1] \in Nat /\ e[1] <= latest
  BY DEF IInv, TypeOK, Events
<1>2. registeredAt'[e[2]] < e[1] /\ registeredAt'[e[2]] # Null
  BY DEF Known, IsRegistered
<1>3. registeredAt'[e[2]] = registeredAt[e[2]]
  BY <1>1, <1>2 DEF Grows, IInv, TypeOK
<1> QED
  BY <1>2, <1>3 DEF Known, IsRegistered

LEMMA LargerMonotone ==
  \A l, k \in Nat : l <= k =>
    /\ Larger(0, l - Retention + 1) \in Nat
    /\ Larger(0, l - Retention + 1) <= Larger(0, k - Retention + 1)
BY DEF Larger

LEMMA OldestKept == ASSUME IInv, Grows PROVE oldest <= oldest' /\ oldest \in Nat /\ oldest' \in Nat
<1>1. latest \in Nat /\ latest' \in Nat /\ latest <= latest'
  BY DEF IInv, TypeOK, Grows
<1>2. oldest = Larger(0, latest - Retention + 1) /\ oldest' = Larger(0, latest' - Retention + 1)
  BY DEF oldest
<1> QED
  BY <1>1, <1>2, LargerMonotone

LEMMA CoveredButKept ==
  ASSUME IInv, Grows, NEW ledger \in Int, ledger <= latest, NEW todo, CoveredBut(ledger, todo)
  PROVE  CoveredBut(ledger, todo)'
<1> SUFFICES ASSUME NEW e \in emitted', e[1] <= ledger, Known(e)'
             PROVE  e \in recorded' \/ e[1] < oldest' \/ e \in todo
  BY DEF CoveredBut
<1>1. e \in Events /\ e[1] \in Nat
  BY DEF Grows, Events
<1>2. e \in emitted
  BY <1>1 DEF Grows, IInv, TypeOK
<1>3. Known(e)
  BY <1>2, KnownKept
<1>4. e \in recorded \/ e[1] < oldest \/ e \in todo
  BY <1>2, <1>3 DEF CoveredBut
<1> QED
  BY <1>1, <1>4, OldestKept DEF Grows

LEMMA CoveredIsCoveredBut == ASSUME NEW ledger PROVE Covered(ledger) <=> CoveredBut(ledger, {})
BY DEF Covered, CoveredBut

LEMMA CoveredKept ==
  ASSUME IInv, Grows, NEW ledger \in Int, ledger <= latest, Covered(ledger)
  PROVE  Covered(ledger)'
<1>1. CoveredBut(ledger, {})'
  BY CoveredButKept, CoveredIsCoveredBut
<1> QED
  BY <1>1 DEF Covered, CoveredBut

\* A poller that does not move keeps what it relies on.
LEMMA PollerKept ==
  ASSUME IInv, Grows, NEW r, PollerType(r), PollerOK(r)
  PROVE  PollerType(r)' /\ PollerOK(r)'
<1>1. latest \in Nat /\ latest' \in Nat /\ latest <= latest'
  BY DEF IInv, TypeOK, Grows
<1>2. PollerType(r)'
  BY <1>1 DEF PollerType, PollerRecord, Unread, Null
<1>3. \A s \in Streams : Covered(r.loaded[s])'
  <2> SUFFICES ASSUME NEW s \in Streams PROVE Covered(r.loaded[s])'
    OBVIOUS
  <2>1. r.loaded[s] \in Int /\ r.loaded[s] <= latest /\ Covered(r.loaded[s])
    BY <1>1 DEF PollerType, PollerOK, Unread
  <2> QED
    BY <2>1, CoveredKept
<1>4. r.pc = "request" => r.start < r.end /\ Covered(r.start - 1)'
  <2> SUFFICES ASSUME r.pc = "request" PROVE r.start < r.end /\ Covered(r.start - 1)'
    OBVIOUS
  <2>1. r.start - 1 \in Int /\ r.start - 1 <= latest /\ r.start < r.end /\ Covered(r.start - 1)
    BY <1>1 DEF PollerType, PollerRecord, PollerOK
  <2> QED
    BY <2>1, CoveredKept
<1>5. r.target \in Int /\ r.target <= latest
  BY <1>1 DEF PollerType, Null
<1>6. r.pc = "handle" => CoveredBut(r.target, r.todo)'
  BY <1>5, CoveredButKept DEF PollerOK
<1>7. r.pc = "save" => Covered(r.target)'
  BY <1>5, CoveredKept DEF PollerOK
<1>8. r.todo \subseteq emitted'
  BY DEF PollerOK, Grows
<1> QED
  BY <1>2, <1>3, <1>4, <1>6, <1>7, <1>8 DEF PollerOK

LEMMA IdleOK == ASSUME IInv PROVE PollerType(Idle) /\ PollerOK(Idle)
<1>1. PollerType(Idle)
  BY DEF IInv, TypeOK, PollerType, PollerRecord, Idle, Null, Unread
<1>2. \A s \in Streams : Covered(Idle.loaded[s])
  BY DEF IInv, TypeOK, Covered, Idle, Null, Unread, Events
<1> QED
  BY <1>1, <1>2 DEF PollerOK, Idle

-----------------------------------------------------------------------------
(* Steps that leave the checkpoints to somebody else *)

CheckpointsOK ==
  /\ checkpoint \in [Streams -> Null..latest]
  /\ \A s \in Streams : Covered(checkpoint[s])

LEMMA CheckpointsKept ==
  ASSUME IInv, Grows, UNCHANGED checkpoint PROVE CheckpointsOK'
<1>1. latest \in Nat /\ latest' \in Nat /\ latest <= latest'
  BY DEF IInv, TypeOK, Grows
<1>2. checkpoint' \in [Streams -> Null..latest']
  BY <1>1 DEF IInv, TypeOK, Null
<1>3. ASSUME NEW s \in Streams PROVE Covered(checkpoint[s])'
  <2>1. PICK ledger : ledger = checkpoint[s]
    OBVIOUS
  <2>2. ledger \in Int /\ ledger <= latest /\ Covered(ledger) /\ checkpoint'[s] = ledger
    BY <1>1, <2>1 DEF IInv, TypeOK, Null, CheckpointsCoverEvents
  <2>3. Covered(ledger)'
    BY <2>2, CoveredKept
  <2> QED
    BY <2>2, <2>3 DEF Covered
<1> QED
  BY <1>2, <1>3 DEF CheckpointsOK

\* The pollers that do not move; the one that does arrives at r.
LEMMA StepOK ==
  ASSUME IInv, Grows, CheckpointsOK',
         NEW p \in Pollers, NEW r, PollerType(r)', PollerOK(r)',
         poller' = [poller EXCEPT ![p] = r],
         rewind' \in RewindRecord, rewind'.finishedAt \in Null..latest'
  PROVE  IInv'
<1>1. ASSUME NEW q \in Pollers PROVE (PollerType(poller[q]) /\ PollerOK(poller[q]))'
  <2>1. PICK old : old = poller[q]
    OBVIOUS
  <2>2. PollerType(old) /\ PollerOK(old)
    BY <2>1 DEF IInv, TypeOK, PollerType
  <2>3. PollerType(old)' /\ PollerOK(old)'
    BY <2>2, PollerKept
  <2>4. PICK new : new = poller'[q]
    OBVIOUS
  <2>5. new = r \/ new = old
    BY <2>1, <2>4 DEF IInv, TypeOK
  <2>6. PollerType(new)' /\ PollerOK(new)'
    BY <2>3, <2>5
  <2> QED
    BY <2>4, <2>6 DEF PollerType, PollerOK, Covered, CoveredBut
<1>2. poller' \in [Pollers -> PollerRecord]
  BY <1>1 DEF IInv, TypeOK, PollerType
<1>3. TypeOK'
  BY <1>1, <1>2 DEF TypeOK, PollerType, CheckpointsOK, Grows
<1>4. \A e \in emitted' : StartLedger <= e[1] /\ e[1] <= latest'
  BY DEF IInv, TypeOK, Grows, Events
<1>5. latest' >= StartLedger - 1
  BY DEF IInv, TypeOK, Grows
<1> QED
  BY <1>1, <1>3, <1>4, <1>5 DEF IInv, CheckpointsOK, CheckpointsCoverEvents

\* The same if no poller moves.
LEMMA WorldStep ==
  ASSUME IInv, Grows, CheckpointsOK', UNCHANGED poller,
         rewind' \in RewindRecord, rewind'.finishedAt \in Null..latest'
  PROVE  IInv'
<1>1. ASSUME NEW q \in Pollers PROVE (PollerType(poller[q]) /\ PollerOK(poller[q]))'
  <2>1. PICK old : old = poller[q]
    OBVIOUS
  <2>2. PollerType(old) /\ PollerOK(old)
    BY <2>1 DEF IInv, TypeOK, PollerType
  <2>3. PollerType(old)' /\ PollerOK(old)'
    BY <2>2, PollerKept
  <2> QED
    BY <2>1, <2>3 DEF PollerType, PollerOK, Covered, CoveredBut
<1>2. TypeOK'
  BY <1>1 DEF IInv, TypeOK, PollerType, CheckpointsOK, Grows
<1>3. \A e \in emitted' : StartLedger <= e[1] /\ e[1] <= latest'
  BY DEF IInv, TypeOK, Grows, Events
<1>4. latest' >= StartLedger - 1
  BY DEF IInv, TypeOK, Grows
<1> QED
  BY <1>1, <1>2, <1>3, <1>4 DEF IInv, CheckpointsOK, CheckpointsCoverEvents

LEMMA NothingGrows ==
  ASSUME IInv, UNCHANGED <<chainVars, registeredAt, recorded>> PROVE Grows
BY DEF IInv, TypeOK, Grows, chainVars

LEMMA RewindKept ==
  ASSUME IInv, Grows, UNCHANGED rewind
  PROVE  rewind' \in RewindRecord /\ rewind'.finishedAt \in Null..latest'
BY DEF IInv, TypeOK, Grows, Null

LEMMA CloseLedgerStep == ASSUME IInv, CloseLedger PROVE IInv'
<1>1. Grows
  BY DEF CloseLedger, IInv, TypeOK, Grows, Events, Null
<1> QED
  BY <1>1, CheckpointsKept, RewindKept, WorldStep DEF CloseLedger

LEMMA RegisterSubjectStep ==
  ASSUME IInv, NEW a \in Subjects, RegisterSubject(a) PROVE IInv'
<1>1. Grows
  BY DEF RegisterSubject, IInv, TypeOK, Grows, Null, chainVars
<1> QED
  BY <1>1, CheckpointsKept, RewindKept, WorldStep DEF RegisterSubject

-----------------------------------------------------------------------------
(* The poller *)

LEMMA PollerNow ==
  ASSUME IInv, NEW p \in Pollers PROVE PollerType(poller[p]) /\ PollerOK(poller[p])
BY DEF IInv, TypeOK, PollerType

\* A step that changes nothing but what the poller knows.
LEMMA ThinkingStep ==
  ASSUME IInv, NEW p \in Pollers, NEW r, PollerType(r), PollerOK(r),
         poller' = [poller EXCEPT ![p] = r],
         UNCHANGED <<chainVars, registeredAt, checkpoint, recorded, rewind>>
  PROVE  IInv'
<1>1. Grows
  BY NothingGrows
<1>2. PollerType(r)' /\ PollerOK(r)'
  BY <1>1, PollerKept
<1> QED
  BY <1>1, <1>2, CheckpointsKept, RewindKept, StepOK

LEMMA PollerStopsStep ==
  ASSUME IInv, NEW p \in Pollers, PollerStops(p) PROVE IInv'
BY IdleOK, ThinkingStep DEF PollerStops

LEMMA LoadCheckpointStep ==
  ASSUME IInv, NEW p \in Pollers, NEW s \in Streams, LoadCheckpoint(p, s) PROVE IInv'
<1> DEFINE loaded == [poller[p].loaded EXCEPT ![s] = checkpoint[s]]
           r == [poller[p] EXCEPT
                   !.loaded = loaded,
                   !.pc = IF \A t \in Streams : loaded[t] # Unread THEN "health" ELSE "load"]
<1>1. PollerType(poller[p]) /\ PollerOK(poller[p]) /\ poller[p].pc = "load"
  BY PollerNow DEF LoadCheckpoint
<1>2. poller' = [poller EXCEPT ![p] = r]
  BY DEF LoadCheckpoint, IInv, TypeOK
<1>3. loaded \in [Streams -> Unread..latest]
  BY <1>1 DEF PollerType, IInv, TypeOK, Null, Unread
<1>4. PollerType(r)
  <2>1. loaded \in [Streams -> Int]
    BY <1>3 DEF IInv, TypeOK, Unread
  <2>2. PICK pc \in {"load", "health"} : r = [poller[p] EXCEPT !.loaded = loaded, !.pc = pc]
    OBVIOUS
  <2> HIDE DEF r, loaded
  <2> QED
    BY <1>1, <1>3, <2>1, <2>2 DEF PollerType, PollerRecord
<1>5. \A t \in Streams : Covered(loaded[t])
  BY <1>1 DEF PollerOK, PollerType, IInv, CheckpointsCoverEvents
<1>6. r.loaded = loaded /\ r.pc \notin {"request", "handle", "save"} /\ r.todo = poller[p].todo
  BY <1>1 DEF PollerType, PollerRecord
<1>7. PollerOK(r)
  BY <1>1, <1>5, <1>6 DEF PollerOK
<1> HIDE DEF r
<1> QED
  BY <1>2, <1>4, <1>7, ThinkingStep DEF LoadCheckpoint

LEMMA ReadHealthStep ==
  ASSUME IInv, NEW p \in Pollers, ReadHealth(p) PROVE IInv'
<1>1. PICK shared \in Null..latest : IsSharedCheckpoint(p, shared) /\ ReadRange(p, shared)
  BY DEF ReadHealth
<1> DEFINE requested == IF shared = Null THEN StartLedger ELSE shared + 1
           start == Larger(requested, oldest)
<1>2. PollerType(poller[p]) /\ PollerOK(poller[p])
  BY PollerNow
<1>3. latest \in Nat /\ oldest \in Nat /\ oldest <= latest /\ requested \in Nat /\ Covered(shared)
  BY <1>1, <1>2 DEF IInv, TypeOK, oldest, Larger, IsSharedCheckpoint, PollerOK, Null
<1>4. start \in Nat /\ requested <= start /\ (start = requested \/ start = oldest)
  BY <1>3 DEF Larger
<1>5. CASE requested <= latest
  <2> DEFINE r == [poller[p] EXCEPT !.pc = "request", !.start = start, !.end = RangeEnd(start)]
  <2>1. poller' = [poller EXCEPT ![p] = r]
    BY <1>1, <1>3, <1>5 DEF ReadRange
  <2>2. RangeEnd(start) \in Nat /\ start < RangeEnd(start) /\ RangeEnd(start) <= latest + 1
    BY <1>3, <1>4, <1>5 DEF RangeEnd, Smaller
  <2>3. PollerType(r)
    BY <1>2, <1>4, <2>2 DEF PollerType, PollerRecord
  <2>4. Covered(start - 1)
    <3> SUFFICES ASSUME NEW e \in emitted, e[1] <= start - 1, Known(e)
                 PROVE  e \in recorded \/ e[1] < oldest
      BY DEF Covered
    <3>1. e[1] \in Nat
      BY DEF IInv, TypeOK, Events
    <3>2. CASE start = oldest
      BY <1>3, <3>1, <3>2
    <3>3. CASE start = requested /\ shared # Null
      BY <1>1, <1>3, <3>1, <3>3 DEF Covered, Null
    <3>4. CASE start = requested /\ shared = Null
      <4>1. e[1] >= StartLedger
        BY DEF IInv
      <4> QED
        BY <1>4, <3>1, <3>4, <4>1
    <3> QED
      BY <1>4, <3>2, <3>3, <3>4
  <2>5. r.loaded = poller[p].loaded /\ r.pc = "request" /\ r.todo = poller[p].todo
          /\ r.start = start /\ r.end = RangeEnd(start)
    BY <1>2 DEF PollerType, PollerRecord
  <2>6. PollerOK(r)
    BY <1>2, <2>2, <2>4, <2>5 DEF PollerOK
  <2> HIDE DEF r
  <2> QED
    BY <2>1, <2>3, <2>6, ThinkingStep DEF ReadHealth
<1>6. CASE requested > latest /\ shared # Null
  <2> DEFINE r == [poller[p] EXCEPT !.pc = "save", !.target = shared, !.unsaved = Streams]
  <2>1. poller' = [poller EXCEPT ![p] = r]
    BY <1>1, <1>3, <1>6 DEF ReadRange
  <2>2. PollerType(r)
    <3>1. shared \in Null..latest /\ shared \in Int
      BY <1>1, <1>3 DEF Null
    <3> QED
      BY <1>2, <1>3, <3>1 DEF PollerType, PollerRecord
  <2>3. r.loaded = poller[p].loaded /\ r.pc = "save" /\ r.todo = poller[p].todo
          /\ r.target = shared
    BY <1>2 DEF PollerType, PollerRecord
  <2>4. PollerOK(r)
    BY <1>2, <1>3, <2>3 DEF PollerOK
  <2> HIDE DEF r
  <2> QED
    BY <2>1, <2>2, <2>4, ThinkingStep DEF ReadHealth
<1>7. CASE requested > latest /\ shared = Null
  BY <1>1, <1>3, <1>7, IdleOK, ThinkingStep DEF ReadHealth, ReadRange
<1> QED
  BY <1>3, <1>5, <1>6, <1>7

\* The events of the range are the ones that are left.
LEMMA ReceivedOK ==
  ASSUME IInv, NEW p \in Pollers, poller[p].pc = "request"
  PROVE  PollerType(Received(p)) /\ PollerOK(Received(p))
<1> DEFINE r == Received(p)
<1>1. PollerType(poller[p]) /\ PollerOK(poller[p])
  BY PollerNow
<1>2. latest \in Nat /\ poller[p].start \in Nat /\ poller[p].end \in Nat
        /\ poller[p].start < poller[p].end /\ poller[p].end <= latest + 1
  BY <1>1 DEF IInv, TypeOK, PollerType, PollerRecord, PollerOK
<1>3. Matching(p) \subseteq emitted /\ Matching(p) \in SUBSET Events
  BY DEF Matching, IInv, TypeOK
<1>4. PollerType(r)
  <2>1. poller[p].end - 1 \in Int /\ poller[p].end - 1 \in Null..latest
    BY <1>2 DEF Null
  <2>2. PICK target : target = poller[p].end - 1
    OBVIOUS
  <2>3. PICK pc : pc = IF Matching(p) = {} THEN "save" ELSE "handle"
    OBVIOUS
  <2>4. PICK todo : todo = Matching(p)
    OBVIOUS
  <2>5. PICK old : old = poller[p]
    OBVIOUS
  <2>6. r = [old EXCEPT !.pc = pc, !.todo = todo, !.target = target,
                        !.unsaved = Streams, !.start = 0, !.end = 0]
    BY <2>2, <2>3, <2>4, <2>5 DEF Received
  <2> HIDE DEF r
  <2>7. r \in PollerRecord /\ r.loaded = old.loaded /\ r.target = target /\ r.end = 0
    <3>1. old \in PollerRecord
      BY <1>1, <2>5 DEF PollerType
    <3>2. target \in Int /\ todo \in SUBSET Events /\ pc \in {"save", "handle"}
      BY <1>3, <2>1, <2>2, <2>3, <2>4
    <3> QED
      BY <2>6, <3>1, <3>2 DEF PollerRecord
  <2> QED
    BY <1>1, <1>2, <2>1, <2>2, <2>5, <2>7 DEF PollerType
<1>5. CoveredBut(poller[p].end - 1, Matching(p))
  <2> SUFFICES ASSUME NEW e \in emitted, e[1] <= poller[p].end - 1, Known(e)
               PROVE  e \in recorded \/ e[1] < oldest \/ e \in Matching(p)
    BY DEF CoveredBut
  <2>1. e[1] \in Nat
    BY DEF IInv, TypeOK, Events
  <2>2. CASE e[1] < poller[p].start
    BY <1>1, <1>2, <2>1, <2>2 DEF PollerOK, Covered
  <2>3. CASE ~(e[1] < poller[p].start)
    BY <1>2, <2>1, <2>3 DEF Matching
  <2> QED
    BY <2>2, <2>3
<1>6. /\ r.loaded = poller[p].loaded
      /\ r.pc = IF Matching(p) = {} THEN "save" ELSE "handle"
      /\ r.todo = Matching(p)
      /\ r.target = poller[p].end - 1
  BY <1>1 DEF Received, PollerType, PollerRecord
<1>7. r.pc = "save" => Covered(r.target)
  BY <1>5, <1>6, CoveredIsCoveredBut
<1> HIDE DEF r
<1>8. PollerOK(r)
  BY <1>1, <1>3, <1>5, <1>6, <1>7 DEF PollerOK
<1> QED
  BY <1>4, <1>8 DEF r

LEMMA RequestEventsStep ==
  ASSUME IInv, NEW p \in Pollers, RequestEvents(p) PROVE IInv'
<1> DEFINE ledgers == poller[p].end - poller[p].start
           half == poller[p].start + (ledgers + 1) \div 2
<1>1. poller[p].pc = "request"
  BY DEF RequestEvents
<1>2. CASE poller' = [poller EXCEPT ![p] = Received(p)]
  BY <1>1, <1>2, ReceivedOK, ThinkingStep DEF RequestEvents
<1>3. CASE poller' = [poller EXCEPT ![p] = Idle]
  BY <1>3, IdleOK, ThinkingStep DEF RequestEvents
<1>4. CASE ledgers > 1 /\ poller' = [poller EXCEPT ![p].end = half]
  <2>1. PollerType(poller[p]) /\ PollerOK(poller[p])
    BY PollerNow
  <2>2. latest \in Nat /\ poller[p].start \in Nat /\ poller[p].end \in Nat
          /\ poller[p].end <= latest + 1
    BY <2>1 DEF IInv, TypeOK, PollerType, PollerRecord
  <2>3. half \in Nat /\ poller[p].start < half /\ half <= latest + 1
    <3>1. ledgers \in Nat /\ ledgers > 1
      BY <1>4, <2>2
    <3>2. \A n \in Nat : n > 1 => (n + 1) \div 2 \in Nat /\ 0 < (n + 1) \div 2 /\ (n + 1) \div 2 <= n
      OBVIOUS
    <3>3. PICK n \in Nat : n = (ledgers + 1) \div 2 /\ 0 < n /\ n <= ledgers
      BY <3>1, <3>2
    <3> QED
      BY <2>2, <3>3
  <2> HIDE DEF half
  <2> DEFINE r == [poller[p] EXCEPT !.end = half]
  <2>4. PollerType(r)
    BY <2>1, <2>3 DEF PollerType, PollerRecord
  <2>5. r.pc = "request" /\ r.loaded = poller[p].loaded /\ r.todo = poller[p].todo
          /\ r.start = poller[p].start /\ r.end = half
    BY <1>1, <2>1 DEF PollerType, PollerRecord
  <2>6. PollerOK(r)
    BY <1>1, <2>1, <2>3, <2>5 DEF PollerOK
  <2>7. poller' = [poller EXCEPT ![p] = r]
    BY <1>4
  <2> HIDE DEF r
  <2> QED
    BY <2>4, <2>6, <2>7, ThinkingStep DEF RequestEvents
<1> QED
  BY <1>2, <1>3, <1>4 DEF RequestEvents

\* An event is recorded before it leaves what is left, unless it is nobody's.
LEMMA HandleEventStep ==
  ASSUME IInv, NEW p \in Pollers, HandleEvent(p) PROVE IInv'
<1>1. PICK e \in poller[p].todo :
        /\ recorded' = IF IsRegistered(e) THEN recorded \union {e} ELSE recorded
        /\ poller' = [poller EXCEPT
             ![p].todo = @ \ {e},
             ![p].pc = IF poller[p].todo = {e} THEN "save" ELSE "handle"]
  BY DEF HandleEvent
<1>2. PollerType(poller[p]) /\ PollerOK(poller[p]) /\ poller[p].pc = "handle"
  BY PollerNow DEF HandleEvent
<1>3. e \in emitted /\ poller[p].todo \subseteq emitted
  BY <1>2 DEF PollerOK
<1>4. Grows
  BY <1>1, <1>3 DEF HandleEvent, IInv, TypeOK, Grows, chainVars
<1>5. PICK old : old = poller[p]
  OBVIOUS
<1> DEFINE pc == IF old.todo = {e} THEN "save" ELSE "handle"
           r == [old EXCEPT !.todo = @ \ {e}, !.pc = pc]
<1>6. poller' = [poller EXCEPT ![p] = r]
  BY <1>1, <1>5 DEF IInv, TypeOK
<1>7. PollerType(old)' /\ PollerOK(old)'
  BY <1>2, <1>4, <1>5, PollerKept
<1>8. /\ old \in PollerRecord
      /\ r.loaded = old.loaded /\ r.target = old.target /\ r.start = old.start /\ r.end = old.end
      /\ r.todo = old.todo \ {e} /\ r.pc = pc
  BY <1>2, <1>5 DEF PollerType, PollerRecord
<1>9. PollerType(r)'
  <2>1. r \in PollerRecord
    BY <1>8 DEF PollerRecord
  <2> HIDE DEF r
  <2> QED
    BY <1>7, <1>8, <2>1 DEF PollerType
<1>10. CoveredBut(old.target, old.todo \ {e})'
  <2>1. CoveredBut(old.target, old.todo)'
    BY <1>2, <1>5, <1>7 DEF PollerOK
  <2>2. Known(e)' => e \in recorded'
    BY <1>1, <1>3 DEF Known, IsRegistered, HandleEvent
  <2> QED
    BY <2>1, <2>2 DEF CoveredBut
<1>11. r.pc = "save" => Covered(r.target)'
  <2>1. CoveredBut(old.target, {})' => Covered(old.target)'
    BY DEF CoveredBut, Covered
  <2>2. r.pc = "save" => old.todo \ {e} = {}
    BY <1>8
  <2> HIDE DEF r
  <2> QED
    BY <1>8, <1>10, <2>1, <2>2
<1> HIDE DEF r
<1>12. PollerOK(r)'
  BY <1>3, <1>4, <1>5, <1>7, <1>8, <1>10, <1>11 DEF PollerOK, Grows
<1> QED
  BY <1>4, <1>6, <1>9, <1>12, CheckpointsKept, RewindKept, StepOK DEF HandleEvent

-----------------------------------------------------------------------------
(* Writing checkpoints *)

\* A checkpoint may be set to anything that is covered.
LEMMA CheckpointWrite ==
  ASSUME IInv, Grows, NEW s \in Streams, NEW ledger \in Null..latest, Covered(ledger),
         checkpoint' = [checkpoint EXCEPT ![s] = ledger]
  PROVE  CheckpointsOK'
<1>1. latest \in Nat /\ latest' \in Nat /\ latest <= latest'
  BY DEF IInv, TypeOK, Grows
<1>2. checkpoint' \in [Streams -> Null..latest']
  BY <1>1 DEF IInv, TypeOK, Null
<1>3. ASSUME NEW t \in Streams PROVE Covered(checkpoint[t])'
  <2>1. PICK l : l = checkpoint'[t]
    OBVIOUS
  <2>2. l \in Int /\ l <= latest /\ Covered(l)
    BY <1>1, <2>1 DEF IInv, TypeOK, Null, CheckpointsCoverEvents
  <2>3. Covered(l)'
    BY <2>2, CoveredKept
  <2> QED
    BY <2>1, <2>3 DEF Covered
<1> QED
  BY <1>2, <1>3 DEF CheckpointsOK

LEMMA SaveCheckpointStep ==
  ASSUME IInv, NEW p \in Pollers, NEW s \in Streams, SaveCheckpoint(p, s) PROVE IInv'
<1>1. Grows
  BY NothingGrows DEF SaveCheckpoint
<1>2. PollerType(poller[p]) /\ PollerOK(poller[p]) /\ poller[p].pc = "save"
  BY PollerNow DEF SaveCheckpoint
<1>3. CheckpointsOK'
  <2>1. poller[p].target \in Null..latest /\ Covered(poller[p].target)
    BY <1>2 DEF PollerType, PollerOK
  <2>2. CASE UNCHANGED checkpoint
    BY <1>1, <2>2, CheckpointsKept
  <2>3. CASE checkpoint' = [checkpoint EXCEPT ![s] = poller[p].target]
    BY <1>1, <2>1, <2>3, CheckpointWrite
  <2> QED
    BY <2>2, <2>3 DEF SaveCheckpoint
<1>4. CASE poller' = [poller EXCEPT ![p] = Idle]
  <2>1. PollerType(Idle)' /\ PollerOK(Idle)'
    BY <1>1, IdleOK, PollerKept
  <2> QED
    BY <1>1, <1>3, <1>4, <2>1, RewindKept, StepOK DEF SaveCheckpoint
<1>5. CASE poller' = [poller EXCEPT ![p] =
                        [@ EXCEPT !.unsaved = poller[p].unsaved \ {s}]]
  <2> DEFINE r == [poller[p] EXCEPT !.unsaved = poller[p].unsaved \ {s}]
  <2>1. PollerType(r) /\ PollerOK(r)
    BY <1>2 DEF PollerType, PollerRecord, PollerOK
  <2>2. poller' = [poller EXCEPT ![p] = r]
    BY <1>5
  <2> HIDE DEF r
  <2>3. PICK new : new = r
    OBVIOUS
  <2>4. PollerType(new)' /\ PollerOK(new)'
    BY <1>1, <2>1, <2>3, PollerKept
  <2> QED
    BY <1>1, <1>3, <2>2, <2>3, <2>4, RewindKept, StepOK DEF SaveCheckpoint
<1> QED
  BY <1>4, <1>5 DEF SaveCheckpoint

LEMMA RewindStep == ASSUME IInv, RewindNext PROVE IInv'
<1>1. Grows
  BY NothingGrows DEF RewindNext, StartRewind, RewindCheckpoint, RewindStops
<1>2. ASSUME NEW target \in Targets, StartRewind(target) PROVE IInv'
  <2>1. rewind' \in RewindRecord /\ rewind'.finishedAt \in Null..latest'
    BY <1>2 DEF StartRewind, IInv, TypeOK, RewindRecord, Null, chainVars
  <2> QED
    BY <1>1, <1>2, <2>1, CheckpointsKept, WorldStep DEF StartRewind
<1>3. ASSUME NEW s \in Streams, RewindCheckpoint(s) PROVE IInv'
  <2>1. rewind' \in RewindRecord /\ rewind'.finishedAt \in Null..latest'
    <3>1. latest \in Nat /\ latest' = latest /\ rewind \in RewindRecord
      BY <1>3 DEF RewindCheckpoint, IInv, TypeOK, chainVars
    <3>2. PICK finishedAt : finishedAt = IF rewind.todo = {s} THEN latest ELSE Null
      OBVIOUS
    <3>3. rewind' = [rewind EXCEPT !.todo = rewind.todo \ {s}, !.finishedAt = finishedAt]
      BY <1>3, <3>2 DEF RewindCheckpoint
    <3>4. finishedAt \in Null..latest /\ finishedAt \in Int
      BY <3>1, <3>2 DEF Null
    <3> QED
      BY <3>1, <3>3, <3>4 DEF RewindRecord
  <2>2. PICK ledger : ledger = Smaller(checkpoint[s], rewind.target)
    OBVIOUS
  <2>3. latest \in Nat /\ rewind.target \in Nat /\ checkpoint[s] \in Null..latest
    BY DEF IInv, TypeOK, RewindRecord
  <2>4. ledger \in Null..latest /\ ledger <= checkpoint[s]
    BY <2>2, <2>3 DEF Smaller, Null
  <2>5. Covered(ledger)
    <3> SUFFICES ASSUME NEW e \in emitted, e[1] <= ledger, Known(e)
                 PROVE  e \in recorded \/ e[1] < oldest
      BY DEF Covered
    <3>1. e[1] \in Nat /\ e[1] <= checkpoint[s]
      BY <2>3, <2>4 DEF IInv, TypeOK, Events, Null
    <3> QED
      BY <3>1 DEF IInv, CheckpointsCoverEvents, Covered
  <2>6. CheckpointsOK'
    BY <1>1, <1>3, <2>2, <2>4, <2>5, CheckpointWrite DEF RewindCheckpoint
  <2> QED
    BY <1>1, <1>3, <2>1, <2>6, WorldStep DEF RewindCheckpoint
<1>4. ASSUME RewindStops PROVE IInv'
  <2>1. rewind' \in RewindRecord /\ rewind'.finishedAt \in Null..latest'
    BY <1>4 DEF RewindStops, IInv, TypeOK, RewindRecord, Null, chainVars
  <2> QED
    BY <1>1, <1>4, <2>1, CheckpointsKept, WorldStep DEF RewindStops
<1> QED
  BY <1>2, <1>3, <1>4 DEF RewindNext

-----------------------------------------------------------------------------
LEMMA StutterStep == ASSUME IInv, UNCHANGED vars PROVE IInv'
BY NothingGrows, CheckpointsKept, RewindKept, WorldStep DEF vars, chainVars

LEMMA NextIInv == IInv /\ [Next]_vars => IInv'
<1> SUFFICES ASSUME IInv, [Next]_vars PROVE IInv'
  OBVIOUS
<1>1. CASE CloseLedger
  BY <1>1, CloseLedgerStep
<1>2. ASSUME NEW a \in Subjects, RegisterSubject(a) PROVE IInv'
  BY <1>2, RegisterSubjectStep
<1>3. ASSUME NEW p \in Pollers, PollerStep(p) PROVE IInv'
  BY <1>3, LoadCheckpointStep, SaveCheckpointStep, ReadHealthStep, RequestEventsStep,
     HandleEventStep DEF PollerStep
<1>4. ASSUME NEW p \in Pollers, PollerStops(p) PROVE IInv'
  BY <1>4, PollerStopsStep
<1>5. CASE RewindNext
  BY <1>5, RewindStep
<1>6. CASE UNCHANGED vars
  BY <1>6, StutterStep
<1> QED
  BY <1>1, <1>2, <1>3, <1>4, <1>5, <1>6 DEF Next

\* What each poller relies on at each of its calls is an invariant of
\* syncContractEvents with any number of processes and of rewinds.
THEOREM InductiveInvariant == Spec => []IInv
BY InitIInv, NextIInv, PTL DEF Spec

\* Every variable keeps its type, and no checkpoint, range or batch names a
\* ledger that is not closed (fetchContractEvents, lines 29-42).
THEOREM TypeCorrectness == Spec => []TypeOK
<1>1. IInv => TypeOK
  BY DEF IInv
<1> QED
  BY <1>1, InductiveInvariant, PTL

\* No checkpoint passes an event that still has to be handled, however the
\* saves of several processes and the rewind script are interleaved.
THEOREM CheckpointsAreSafe == Spec => []CheckpointsCoverEvents
<1>1. IInv => CheckpointsCoverEvents
  BY DEF IInv
<1> QED
  BY <1>1, InductiveInvariant, PTL
=============================================================================
