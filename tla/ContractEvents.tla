--------------------------- MODULE ContractEvents ---------------------------
(***************************************************************************)
(* How beSeen-api follows the events of its contract: every process polls  *)
(* a range of ledgers behind the saved checkpoints, handles the events in  *)
(* it and moves the checkpoints.  Nothing is in a transaction: each action *)
(* is one database or RPC call of one poller or of the rewind script.      *)
(*                                                                         *)
(* Abstracted: an event is its ledger and its subject (a wallet, or a      *)
(* registered bounty or token); each of the four handlers leaves one       *)
(* document for an event whose subject is registered and skips the others. *)
(***************************************************************************)
EXTENDS Integers, FiniteSets

CONSTANTS
  Streams,     \* SYNC_STATE_IDS
  Pollers,     \* processes that run syncContractEvents
  Subjects,    \* what events are about
  StartLedger, \* config.startLedger
  BatchSize,   \* config.eventLedgerBatchSize
  PageSize,    \* CONTRACT_EVENT_PAGE_SIZE
  Retention,   \* ledgers that the RPC node keeps
  MaxLedger,   \* bound of the ledger sequence
  Targets,     \* ledgers the rewind script is called with
  MaxRewinds   \* bound: runs of the rewind script

ASSUME ConstantsAssumption ==
  /\ Streams # {}
  /\ StartLedger \in Nat \ {0}
  /\ BatchSize \in Nat \ {0}
  /\ PageSize \in Nat \ {0}
  /\ Retention \in Nat \ {0}
  /\ MaxLedger \in Nat
  /\ Targets \subseteq Nat
  /\ MaxRewinds \in Nat

VARIABLES
  latest,       \* the last closed ledger
  emitted,      \* events of the contract: <<ledger, subject>>
  registeredAt, \* the last ledger closed when the subject was registered
  checkpoint,   \* lastProcessedLedger of each ContractSyncState
  recorded,     \* events that left a document
  poller,       \* local state of syncContractEvents
  rewind        \* the last run of the rewind script

vars == <<latest, emitted, registeredAt, checkpoint, recorded, poller, rewind>>
chainVars == <<latest, emitted>>

\* null, below every ledger: the smallest of some checkpoints is null if one
\* of them is, as getSharedCheckpoint has it.
Null == -1
Unread == -2

-----------------------------------------------------------------------------
(* State *)

Events == Nat \X Subjects
IsRegistered(e) == registeredAt[e[2]] # Null

\* The subject was there before the event: a handler will not skip it.
Known(e) == IsRegistered(e) /\ registeredAt[e[2]] < e[1]

PollerRecord ==
  [pc : {"load", "health", "request", "handle", "save"}, loaded : [Streams -> Int],
   start : Nat, end : Nat, todo : SUBSET Events, target : Int, unsaved : SUBSET Streams]

\* Between two runs; a run begins with the first checkpoint that it reads.
Idle ==
  [pc |-> "load", loaded |-> [s \in Streams |-> Unread], start |-> 0, end |-> 0,
   todo |-> {}, target |-> Null, unsaved |-> {}]

RewindRecord == [runs : Nat, target : Nat, todo : SUBSET Streams, finishedAt : Int]

\* Checkpoints and what a poller holds never name a ledger that is not closed.
TypeOK ==
  /\ latest \in Nat
  /\ emitted \in SUBSET Events
  /\ registeredAt \in [Subjects -> Null..latest]
  /\ checkpoint \in [Streams -> Null..latest]
  /\ recorded \subseteq emitted
  /\ poller \in [Pollers -> PollerRecord]
  /\ \A p \in Pollers :
       /\ poller[p].loaded \in [Streams -> Unread..latest]
       /\ poller[p].end <= latest + 1
       /\ poller[p].target \in Null..latest
  /\ rewind \in RewindRecord
  /\ rewind.finishedAt \in Null..latest

Init ==
  /\ latest = StartLedger - 1
  /\ emitted = {}
  /\ registeredAt = [a \in Subjects |-> Null]
  /\ checkpoint = [s \in Streams |-> Null]
  /\ recorded = {}
  /\ poller = [p \in Pollers |-> Idle]
  /\ rewind = [runs |-> 0, target |-> 0, todo |-> {}, finishedAt |-> Null]

-----------------------------------------------------------------------------
(* The ledger, its RPC node and the users *)

Larger(m, n) == IF m < n THEN n ELSE m
Smaller(m, n) == IF m < n THEN m ELSE n

\* The first ledger that the RPC node still has.
oldest == Larger(0, latest - Retention + 1)

CloseLedger ==
  /\ latest < MaxLedger
  /\ latest' = latest + 1
  /\ \E subjects \in SUBSET Subjects : emitted' = emitted \union ({latest + 1} \X subjects)
  /\ UNCHANGED <<registeredAt, checkpoint, recorded, poller, rewind>>

RegisterSubject(a) ==
  /\ registeredAt[a] = Null
  /\ registeredAt' = [registeredAt EXCEPT ![a] = latest]
  /\ UNCHANGED <<chainVars, checkpoint, recorded, poller, rewind>>

-----------------------------------------------------------------------------
(* syncContractEvents and fetchContractEvents *)

\* One of the findByIdAndUpdate calls, which run at the same time.
LoadCheckpoint(p, s) ==
  /\ poller[p].pc = "load"
  /\ poller[p].loaded[s] = Unread
  /\ LET loaded == [poller[p].loaded EXCEPT ![s] = checkpoint[s]] IN
     poller' = [poller EXCEPT
       ![p].loaded = loaded,
       ![p].pc = IF \A t \in Streams : loaded[t] # Unread THEN "health" ELSE "load"]
  /\ UNCHANGED <<chainVars, registeredAt, checkpoint, recorded, rewind>>

IsSharedCheckpoint(p, ledger) ==
  /\ \E s \in Streams : ledger = poller[p].loaded[s]
  /\ \A s \in Streams : ledger <= poller[p].loaded[s]

\* Mutant: the range is not cut at the last closed ledger.
UncutRangeEnd(start) == start + BatchSize

\* The end of the range is exclusive.
RangeEnd(start) == Smaller(start + BatchSize, latest + 1)

\* Without a new ledger the shared checkpoint itself is saved.
ReadRange(p, shared) ==
  LET requested == IF shared = Null THEN StartLedger ELSE shared + 1
      start == Larger(requested, oldest)
  IN
  \/ /\ requested <= latest
     /\ poller' = [poller EXCEPT ![p] =
                     [@ EXCEPT !.pc = "request", !.start = start, !.end = RangeEnd(start)]]
  \/ /\ requested > latest /\ shared # Null
     /\ poller' = [poller EXCEPT ![p] =
                     [@ EXCEPT !.pc = "save", !.target = shared, !.unsaved = Streams]]
  \/ /\ requested > latest /\ shared = Null
     /\ poller' = [poller EXCEPT ![p] = Idle]

\* getHealth
ReadHealth(p) ==
  /\ poller[p].pc = "health"
  /\ \E shared \in Null..latest : IsSharedCheckpoint(p, shared) /\ ReadRange(p, shared)
  /\ UNCHANGED <<chainVars, registeredAt, checkpoint, recorded, rewind>>

\* What getEvents finds in the range.
Matching(p) == {e \in emitted : poller[p].start <= e[1] /\ e[1] < poller[p].end}

\* Mutant: the exclusive end of the range is taken for its last ledger.
ReceivedThroughEnd(p) ==
  [poller[p] EXCEPT !.pc = IF Matching(p) = {} THEN "save" ELSE "handle",
                    !.todo = Matching(p), !.target = poller[p].end,
                    !.unsaved = Streams, !.start = 0, !.end = 0]

\* The answer is complete; the batch ends with the last ledger of the range.
Received(p) ==
  [poller[p] EXCEPT !.pc = IF Matching(p) = {} THEN "save" ELSE "handle",
                    !.todo = Matching(p), !.target = poller[p].end - 1,
                    !.unsaved = Streams, !.start = 0, !.end = 0]

\* Mutant: a full page is an error at once.
RequestEventsWithoutHalving(p) ==
  /\ poller[p].pc = "request"
  /\ poller' = [poller EXCEPT ![p] =
       IF oldest <= poller[p].start /\ Cardinality(Matching(p)) < PageSize
       THEN Received(p) ELSE Idle]
  /\ UNCHANGED <<chainVars, registeredAt, checkpoint, recorded, rewind>>

\* A full page may hide events: the range is halved until the page is not
\* full.  A range that the node has begun to forget is an error, and so is a
\* single full ledger.
RequestEvents(p) ==
  LET ledgers == poller[p].end - poller[p].start
      available == oldest <= poller[p].start
      full == Cardinality(Matching(p)) >= PageSize
  IN
  /\ poller[p].pc = "request"
  /\ \/ /\ available /\ ~full
        /\ poller' = [poller EXCEPT ![p] = Received(p)]
     \/ /\ available /\ full /\ ledgers > 1
        /\ poller' = [poller EXCEPT ![p].end = poller[p].start + (ledgers + 1) \div 2]
     \/ /\ ~available \/ (full /\ ledgers <= 1)
        /\ poller' = [poller EXCEPT ![p] = Idle]
  /\ UNCHANGED <<chainVars, registeredAt, checkpoint, recorded, rewind>>

\* The handlers run in the order of the ledgers.
HandleEvent(p) ==
  /\ poller[p].pc = "handle"
  /\ \E e \in poller[p].todo :
       /\ \A f \in poller[p].todo : e[1] <= f[1]
       /\ recorded' = IF IsRegistered(e) THEN recorded \union {e} ELSE recorded
       /\ poller' = [poller EXCEPT
            ![p].todo = @ \ {e},
            ![p].pc = IF poller[p].todo = {e} THEN "save" ELSE "handle"]
  /\ UNCHANGED <<chainVars, registeredAt, checkpoint, rewind>>

\* save() writes a path only if its value differs from the one it loaded.
SaveCheckpoint(p, s) ==
  /\ poller[p].pc = "save"
  /\ s \in poller[p].unsaved
  /\ checkpoint' = IF poller[p].loaded[s] = poller[p].target THEN checkpoint
                   ELSE [checkpoint EXCEPT ![s] = poller[p].target]
  /\ poller' = [poller EXCEPT ![p] =
       IF poller[p].unsaved = {s} THEN Idle
       ELSE [@ EXCEPT !.unsaved = poller[p].unsaved \ {s}]]
  /\ UNCHANGED <<chainVars, registeredAt, recorded, rewind>>

\* A call throws or the process stops, also when some of the saves are done;
\* the next run begins from the start.
PollerStops(p) ==
  /\ poller[p] # Idle
  /\ poller' = [poller EXCEPT ![p] = Idle]
  /\ UNCHANGED <<chainVars, registeredAt, checkpoint, recorded, rewind>>

-----------------------------------------------------------------------------
(* rewindContractEventSync *)

StartRewind(target) ==
  /\ rewind.todo = {}
  /\ rewind.runs < MaxRewinds
  /\ rewind' = [runs |-> rewind.runs + 1, target |-> target, todo |-> Streams,
                finishedAt |-> Null]
  /\ UNCHANGED <<chainVars, registeredAt, checkpoint, recorded, poller>>

\* updateMany goes from document to document; $min leaves null alone.
RewindCheckpoint(s) ==
  /\ s \in rewind.todo
  /\ checkpoint' = [checkpoint EXCEPT ![s] = Smaller(@, rewind.target)]
  /\ rewind' = [rewind EXCEPT !.todo = @ \ {s},
                              !.finishedAt = IF rewind.todo = {s} THEN latest ELSE Null]
  /\ UNCHANGED <<chainVars, registeredAt, recorded, poller>>

RewindStops ==
  /\ rewind.todo # {}
  /\ rewind' = [rewind EXCEPT !.todo = {}]
  /\ UNCHANGED <<chainVars, registeredAt, checkpoint, recorded, poller>>

-----------------------------------------------------------------------------
PollerStep(p) ==
  \/ \E s \in Streams : LoadCheckpoint(p, s) \/ SaveCheckpoint(p, s)
  \/ ReadHealth(p) \/ RequestEvents(p) \/ HandleEvent(p)

RewindNext ==
  \/ \E target \in Targets : StartRewind(target)
  \/ \E s \in Streams : RewindCheckpoint(s)
  \/ RewindStops

Next ==
  \/ CloseLedger
  \/ \E a \in Subjects : RegisterSubject(a)
  \/ \E p \in Pollers : PollerStep(p) \/ PollerStops(p)
  \/ RewindNext

Spec == Init /\ [][Next]_vars

\* How much of the present phase of a poll is left.
Left(p) ==
  CASE poller[p].pc = "load" -> Cardinality({s \in Streams : poller[p].loaded[s] = Unread})
    [] poller[p].pc = "health" -> 1
    [] poller[p].pc = "request" -> poller[p].end - poller[p].start
    [] poller[p].pc = "handle" -> Cardinality(poller[p].todo)
    [] poller[p].pc = "save" -> Cardinality(poller[p].unsaved)

MaxLeft == Larger(Cardinality(Streams), Larger(BatchSize, PageSize))

\* The timer repeats the poll forever; errors and crashes do not hit every
\* attempt at the same call of it.
Fairness ==
  \A p \in Pollers, pc \in {"load", "health", "request", "handle", "save"}, n \in 1..MaxLeft :
    SF_vars(PollerStep(p) /\ poller[p].pc = pc /\ Left(p) = n)

FairSpec == Spec /\ Fairness

-----------------------------------------------------------------------------
(* Properties *)

\* What was emitted up to this ledger is on record, except for what nobody
\* was registered for and what the node has forgotten.
Covered(ledger) ==
  \A e \in emitted :
    e[1] <= ledger /\ Known(e) => e \in recorded \/ e[1] < oldest

\* No checkpoint of any stream ever passes an event that still has to be
\* handled, whatever pages were full, whichever saves of which process failed
\* or came late, and however often the script rewound them.
CheckpointsCoverEvents == \A s \in Streams : Covered(checkpoint[s])

\* Every event of a registered subject is eventually on record, or lost only
\* because no poll succeeded while the node still had it.
EventIsRecorded ==
  \A e \in (StartLedger..MaxLedger) \X Subjects :
    (e \in emitted /\ Known(e)) ~> (e \in recorded \/ e[1] < oldest)

\* What the last rewind announced: events behind its target, of subjects that
\* were registered by then.
Announced(e) ==
  /\ rewind.target < e[1] /\ e[1] <= rewind.finishedAt
  /\ IsRegistered(e) /\ registeredAt[e[2]] < rewind.finishedAt

\* "The poller will replay from the next ledger": after a rewind some
\* checkpoint stays behind every event it announced until a poll has handled
\* the event.
RewindIsReplayed ==
  \A e \in emitted : Announced(e) =>
    \/ e \in recorded
    \/ e[1] < oldest
    \/ \E s \in Streams : checkpoint[s] < e[1]
=============================================================================
