---------------------------- MODULE Reconciliation ----------------------------
(***************************************************************************)
(* The two jobs of beSeen-api that mirror bounties which their lock events *)
(* did not: one looks up the oldest registrations without a mirror, the    *)
(* other walks over the contract's ids, which are given out one after the  *)
(* other, and keeps how far it has come.  Several API processes run them.  *)
(*                                                                         *)
(* Abstracted: upsertContractBounty is one step, and so is a mirror; what  *)
(* their own steps do to each other is in BountySettlement.                *)
(***************************************************************************)
EXTENDS Integers, FiniteSets

CONSTANTS
  Reconcilers,          \* API processes
  LastBountyId,         \* bound: bounties that get locked
  RegisteredBatchSize,  \* REGISTERED_RECONCILIATION_BATCH_SIZE
  MaxAdvances           \* MAX_ALREADY_OBSERVED_ADVANCES

ASSUME ReconciliationAssumption ==
  LastBountyId \in Nat /\ RegisteredBatchSize \in Nat \ {0} /\ MaxAdvances \in Nat

VARIABLES
  lockedUpTo,      \* the contract has the bounties 1..lockedUpTo
  registered,      \* registration of a bounty id: MessageBounty
  registeredAt,    \* its createdAt, as the place among all registrations
  mirrored,        \* ids of ContractBounty documents
  pointer,         \* ContractSyncState.lastReconciledBountyId
  reconciler       \* local state of a process

reconciliationVars ==
  <<lockedUpTo, registered, registeredAt, mirrored, pointer, reconciler>>

BountyIds == 1..LastBountyId

\* none, agrees or differs: with the participants and the amount of the lock;
\* failed: its settlement, or its comparison with the lock, has failed.
Registrations == {"none", "agrees", "differs", "failed"}
IsLive(b) == registered[b] \in {"agrees", "differs"}

ReconcilerIdle == [pc |-> "idle"]
ReconcilerFailed == [pc |-> "failed"]

\* todo: registrations that the first job still looks up; upTo: how far the
\* second one has come, saved or not; next: it looks the next id up;
\* exists, upsert, advance: it found it on the contract.
ReconcilerStates ==
  {ReconcilerIdle, ReconcilerFailed}
    \union [pc : {"todo", "mirror"}, todo : SUBSET BountyIds]
    \union [pc : {"pointer"}]
    \union [pc : {"walk", "next", "exists", "upsert", "advance"}, from : Nat, upTo : Nat]

ReconciliationTypeOK ==
  /\ lockedUpTo \in 0..LastBountyId
  /\ registered \in [BountyIds -> Registrations]
  /\ registeredAt \in [BountyIds -> Nat]
  /\ mirrored \subseteq 1..lockedUpTo
  /\ pointer \in 0..lockedUpTo
  /\ reconciler \in [Reconcilers -> ReconcilerStates]

ReconciliationInit ==
  /\ lockedUpTo = 0
  /\ registered = [b \in BountyIds |-> "none"]
  /\ registeredAt = [b \in BountyIds |-> 0]
  /\ mirrored = {}
  /\ pointer = 0
  /\ reconciler = [p \in Reconcilers |-> ReconcilerIdle]

ReconcilerBecomes(p, r) == reconciler' = [reconciler EXCEPT ![p] = r]

-----------------------------------------------------------------------------
(* The contract, the registrations and the other writers *)

LockNextBounty ==
  /\ lockedUpTo < LastBountyId
  /\ lockedUpTo' = lockedUpTo + 1
  /\ UNCHANGED <<registered, registeredAt, mirrored, pointer, reconciler>>

\* sendMessage stores the id that the client names, locked or not.
RegisterBountyId(b) ==
  /\ registered[b] = "none"
  /\ \E r \in {"agrees", "differs"} : registered' = [registered EXCEPT ![b] = r]
  /\ registeredAt' =
       [registeredAt EXCEPT ![b] = 1 + Cardinality({c \in BountyIds : registered[c] # "none"})]
  /\ UNCHANGED <<lockedUpTo, mirrored, pointer, reconciler>>

\* upsertContractBounty: a registration that differs fails; the mirror is
\* stored once.
Upsert(b) ==
  /\ registered' = [registered EXCEPT ![b] = IF @ = "differs" THEN "failed" ELSE @]
  /\ mirrored' = IF registered[b] = "agrees" THEN mirrored \union {b} ELSE mirrored

\* handleBountyLockEvent; events may be missed.
ObserveLock(b) ==
  /\ b <= lockedUpTo
  /\ IsLive(b)
  /\ Upsert(b)
  /\ UNCHANGED <<lockedUpTo, registeredAt, pointer, reconciler>>

-----------------------------------------------------------------------------
(* reconcileRegisteredContractBounties *)

Older(c, b) == registeredAt[c] < registeredAt[b]

\* Mutant: the registrations that have a mirror are not left out.
Live == {b \in BountyIds : IsLive(b)}

Unmirrored == {b \in BountyIds : IsLive(b) /\ b \notin mirrored}

\* As many of the oldest as one batch takes.
FirstBatch(ids) ==
  {b \in ids : Cardinality({c \in ids : Older(c, b)}) < RegisteredBatchSize}

SelectRegistrations(p) ==
  /\ reconciler[p] = ReconcilerIdle
  /\ ReconcilerBecomes(p, [pc |-> "todo", todo |-> FirstBatch(Unmirrored)])
  /\ UNCHANGED <<lockedUpTo, registered, registeredAt, mirrored, pointer>>

\* The registration whose turn it is.
IsNext(b, p) ==
  b \in reconciler[p].todo /\ \A c \in reconciler[p].todo : ~Older(c, b)

\* get_bounty: an id that the contract does not have is passed over.
LookUpRegistration(p) ==
  /\ reconciler[p].pc = "todo"
  /\ \E b \in BountyIds :
       /\ IsNext(b, p)
       /\ ReconcilerBecomes(p,
            IF b <= lockedUpTo THEN [pc |-> "mirror", todo |-> reconciler[p].todo]
            ELSE [pc |-> "todo", todo |-> reconciler[p].todo \ {b}])
  /\ UNCHANGED <<lockedUpTo, registered, registeredAt, mirrored, pointer>>

MirrorRegistration(p) ==
  /\ reconciler[p].pc = "mirror"
  /\ \E b \in BountyIds :
       /\ IsNext(b, p)
       /\ Upsert(b)
       /\ ReconcilerBecomes(p, [pc |-> "todo", todo |-> reconciler[p].todo \ {b}])
  /\ UNCHANGED <<lockedUpTo, registeredAt, pointer>>

\* The second job follows in the same run.
EndRegistrations(p) ==
  /\ reconciler[p].pc = "todo"
  /\ reconciler[p].todo = {}
  /\ ReconcilerBecomes(p, [pc |-> "pointer"])
  /\ UNCHANGED <<lockedUpTo, registered, registeredAt, mirrored, pointer>>

-----------------------------------------------------------------------------
(* reconcileNextContractBounty *)

ReadPointer(p) ==
  /\ reconciler[p].pc = "pointer"
  /\ ReconcilerBecomes(p, [pc |-> "walk", from |-> pointer, upTo |-> pointer])
  /\ UNCHANGED <<lockedUpTo, registered, registeredAt, mirrored, pointer>>

\* The ids that are mirrored already are passed over, so many in one run; how
\* far that goes is saved if it went anywhere.
WalkOverMirrored(p) ==
  LET r == reconciler[p]
      goesOn == r.upTo - r.from < MaxAdvances /\ r.upTo + 1 \in mirrored
  IN
  /\ r.pc = "walk"
  /\ \/ /\ goesOn
        /\ ReconcilerBecomes(p, [r EXCEPT !.upTo = r.upTo + 1])
        /\ UNCHANGED pointer
     \/ /\ ~goesOn
        /\ pointer' = IF r.upTo # r.from THEN r.upTo ELSE pointer
        /\ ReconcilerBecomes(p, [r EXCEPT !.pc = "next"])
  /\ UNCHANGED <<lockedUpTo, registered, registeredAt, mirrored>>

LookUpNextId(p) ==
  LET r == reconciler[p] IN
  /\ r.pc = "next"
  /\ ReconcilerBecomes(p,
       IF r.upTo + 1 <= lockedUpTo THEN [r EXCEPT !.pc = "exists"] ELSE ReconcilerIdle)
  /\ UNCHANGED <<lockedUpTo, registered, registeredAt, mirrored, pointer>>

CheckRegistered(p) ==
  LET r == reconciler[p] IN
  /\ r.pc = "exists"
  /\ ReconcilerBecomes(p,
       [r EXCEPT !.pc = IF IsLive(r.upTo + 1) THEN "upsert" ELSE "advance"])
  /\ UNCHANGED <<lockedUpTo, registered, registeredAt, mirrored, pointer>>

MirrorNextId(p) ==
  LET r == reconciler[p] IN
  /\ r.pc = "upsert"
  /\ Upsert(r.upTo + 1)
  /\ ReconcilerBecomes(p, [r EXCEPT !.pc = "advance"])
  /\ UNCHANGED <<lockedUpTo, registeredAt, pointer>>

\* Whatever another process has saved meanwhile.
SavePointer(p) ==
  LET r == reconciler[p] IN
  /\ r.pc = "advance"
  /\ pointer' = r.upTo + 1
  /\ ReconcilerBecomes(p, ReconcilerIdle)
  /\ UNCHANGED <<lockedUpTo, registered, registeredAt, mirrored>>

\* A call throws, which ends both jobs of the run, or the process stops.
FailReconciliation(p) ==
  /\ reconciler[p] \notin {ReconcilerIdle, ReconcilerFailed}
  /\ ReconcilerBecomes(p, ReconcilerFailed)
  /\ UNCHANGED <<lockedUpTo, registered, registeredAt, mirrored, pointer>>

\* reconciliationRunning is reset in any case.
RecoverReconciliation(p) ==
  /\ reconciler[p] = ReconcilerFailed
  /\ ReconcilerBecomes(p, ReconcilerIdle)
  /\ UNCHANGED <<lockedUpTo, registered, registeredAt, mirrored, pointer>>

ReconcilerNext(p) ==
  \/ SelectRegistrations(p)
  \/ LookUpRegistration(p)
  \/ MirrorRegistration(p)
  \/ EndRegistrations(p)
  \/ ReadPointer(p)
  \/ WalkOverMirrored(p)
  \/ LookUpNextId(p)
  \/ CheckRegistered(p)
  \/ MirrorNextId(p)
  \/ SavePointer(p)
  \/ RecoverReconciliation(p)

ReconciliationNext ==
  \/ LockNextBounty
  \/ \E b \in BountyIds : RegisterBountyId(b) \/ ObserveLock(b)
  \/ \E p \in Reconcilers : ReconcilerNext(p) \/ FailReconciliation(p)

ReconciliationSpec == ReconciliationInit /\ [][ReconciliationNext]_reconciliationVars

-----------------------------------------------------------------------------
(* Properties *)

\* The timer starts the job again and again, each run comes to its end, and
\* from some moment on the runs of one process do not fail.
ReconcilerIsFair(p) ==
  /\ WF_reconciliationVars(ReconcilerNext(p))
  /\ <>[](reconciler[p] # ReconcilerFailed)

\* Live registrations that the contract has no bounty for.
UnlockedRegistrations == {b \in BountyIds : IsLive(b) /\ b > lockedUpTo}

\* Without its lock event, whichever job comes to it first, and whatever the
\* other processes do to the pointer: a bounty that is registered and locked
\* is mirrored, or its registration fails, if one process keeps running.  A
\* whole batch of registrations without a lock must not stand in the way.
RegisteredIsMirrored ==
  (\E p \in Reconcilers : ReconcilerIsFair(p)) => \A b \in BountyIds :
    (b <= lockedUpTo /\ IsLive(b) /\ Cardinality(UnlockedRegistrations) < RegisteredBatchSize)
      ~> (b \in mirrored \/ ~IsLive(b) \/ Cardinality(UnlockedRegistrations) >= RegisteredBatchSize)
=============================================================================
