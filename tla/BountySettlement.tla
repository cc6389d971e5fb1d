-------------------------- MODULE BountySettlement --------------------------
(***************************************************************************)
(* The life of a message bounty in beSeen-api: it is registered with its   *)
(* message, becomes claimable with the first timely reply, and a leased    *)
(* worker settles it on the BeSeen contract.  Several API processes may    *)
(* run the worker; each action is one database or RPC round trip of a      *)
(* handler, so that steps of different handlers interleave between awaits. *)
(*                                                                         *)
(* Abstracted: a lease is "held" until LeaseRunsOut turns it to "lapsed"   *)
(* (at any moment, so also while its owner still works); wallets and       *)
(* amounts are reduced to whether the lock agrees with the registration.   *)
(***************************************************************************)
EXTENDS Integers, FiniteSets

CONSTANTS
  Bounties,       \* contract bounty ids
  Workers,        \* processes that run processNextReplySettlement
  Mirrors,        \* handlers that run upsertContractBounty
  NoBounty,       \* "works on nothing"
  ResponseWindow, \* durationSeconds of a message bounty
  LockWindows,    \* time from lock_bounty to the on-chain deadline
  CommitDelay,    \* bound: a message commits at most this long after createdAt
  MaxTime         \* bound of the clock

ASSUME NoBountyAssumption == NoBounty \notin Bounties
ASSUME TimeAssumption ==
  /\ ResponseWindow \in Nat \ {0}
  /\ LockWindows \subseteq Nat \ {0}
  /\ CommitDelay \in Nat
  /\ MaxTime \in Nat

VARIABLES
  now,      \* Date.now() of the API and the ledger close time
  terms,    \* does the lock agree with the registered wallets and amount?
  chain,    \* the contract's own record of a bounty
  inflight, \* settle_replies transactions accepted by RPC, not yet in a ledger
  bounty,   \* MessageBounty documents
  mirror,   \* ContractBounty.status, or "absent"
  earned,   \* bounties with a bounty_reply EarningTransaction
  worker,   \* local state of processNextReplySettlement
  upsert    \* local state of upsertContractBounty and its callers

vars == <<now, terms, chain, inflight, bounty, mirror, earned, worker, upsert>>

chainVars == <<chain, inflight>>
databaseVars == <<bounty, mirror, earned>>

Null == -1

-----------------------------------------------------------------------------
(* State *)

Statuses == {"offered", "claimable", "claimed", "expired"}
ChainStatuses == {"locked", "settled", "refunded"}

\* Program counters: each is the next round trip of the worker.
WritePCs == {"confirmMirror", "confirmBounty", "recordRefund", "fail", "retry"}
WorkerPCs == {"idle", "read", "submit", "poll", "refresh"} \union WritePCs
UpsertPCs == {"idle", "readChain", "check", "reject", "write", "save"}

BountyDocument ==
  [status : Statuses \union {"none"},
   fundingStatus : {"none", "contract_locked", "contract_settled", "contract_refunded"},
   settlementStatus : {"none", "pending", "processing", "confirmed", "failed"},
   lease : {"null", "held", "lapsed"},
   expiresAt : Int,
   claimableAt : Int]

Unregistered ==
  [status |-> "none", fundingStatus |-> "none", settlementStatus |-> "none",
   lease |-> "null", expiresAt |-> Null, claimableAt |-> Null]

IdleWorker == [pc |-> "idle", bounty |-> NoBounty, recovering |-> FALSE]

IdleUpsert ==
  [pc |-> "idle", bounty |-> NoBounty, status |-> "locked", via |-> "event"]

ContractRecord == [status : ChainStatuses \union {"absent"}, deadline : Int]

WorkerRecord ==
  [pc : WorkerPCs, bounty : Bounties \union {NoBounty}, recovering : BOOLEAN]

UpsertRecord ==
  [pc : UpsertPCs, bounty : Bounties \union {NoBounty}, status : ChainStatuses,
   via : {"event", "reconciliation"}]

TypeOK ==
  /\ now \in Nat
  /\ terms \in [Bounties -> {"agree", "differ"}]
  /\ chain \in [Bounties -> ContractRecord]
  /\ inflight \subseteq Bounties
  /\ bounty \in [Bounties -> BountyDocument]
  /\ mirror \in [Bounties -> ChainStatuses \union {"absent"}]
  /\ earned \subseteq Bounties
  /\ worker \in [Workers -> WorkerRecord]
  /\ upsert \in [Mirrors -> UpsertRecord]

Init ==
  /\ now = 0
  /\ terms \in [Bounties -> {"agree", "differ"}]
  /\ chain = [b \in Bounties |-> [status |-> "absent", deadline |-> Null]]
  /\ inflight = {}
  /\ bounty = [b \in Bounties |-> Unregistered]
  /\ mirror = [b \in Bounties |-> "absent"]
  /\ earned = {}
  /\ worker = [w \in Workers |-> IdleWorker]
  /\ upsert = [m \in Mirrors |-> IdleUpsert]

-----------------------------------------------------------------------------
(* Time and the contract *)

Tick ==
  /\ now < MaxTime
  /\ now' = now + 1
  /\ UNCHANGED <<terms, chainVars, databaseVars, worker, upsert>>

\* The sponsor's wallet calls lock_bounty.
LockBounty(b) ==
  /\ chain[b].status = "absent"
  /\ \E window \in LockWindows :
       /\ now + window <= MaxTime
       /\ chain' = [chain EXCEPT ![b] = [status |-> "locked",
                                         deadline |-> now + window]]
  /\ UNCHANGED <<now, terms, inflight, databaseVars, worker, upsert>>

\* A submitted settle_replies transaction is applied by a ledger.
LandSettlement(b) ==
  /\ b \in inflight
  /\ chain[b].status = "locked"
  /\ chain' = [chain EXCEPT ![b].status = "settled"]
  /\ inflight' = inflight \ {b}
  /\ UNCHANGED <<now, terms, databaseVars, worker, upsert>>

\* A submitted transaction fails in its ledger or outlives its time bounds.
DropSettlement(b) ==
  /\ b \in inflight
  /\ inflight' = inflight \ {b}
  /\ UNCHANGED <<now, terms, chain, databaseVars, worker, upsert>>

\* The sponsor's wallet calls claim_expired_bounty.
RefundBounty(b) ==
  /\ chain[b].status = "locked"
  /\ chain[b].deadline <= now
  /\ chain' = [chain EXCEPT ![b].status = "refunded"]
  /\ UNCHANGED <<now, terms, inflight, databaseVars, worker, upsert>>

-----------------------------------------------------------------------------
(* The messenger: sending, replying, expiring *)

\* createdAt is read before the transaction commits.
CommitTimes == {t \in 0..now : t + CommitDelay >= now}

\* sendMessage with bounty terms; the contract is not consulted about the lock.
RegisterBounty(b) ==
  /\ bounty[b].status = "none"
  /\ \E createdAt \in CommitTimes :
       /\ createdAt + ResponseWindow <= MaxTime
       /\ bounty' = [bounty EXCEPT ![b] =
            [status |-> "offered", fundingStatus |-> "contract_locked",
             settlementStatus |-> "pending", lease |-> "null",
             expiresAt |-> createdAt + ResponseWindow, claimableAt |-> Null]]
  /\ UNCHANGED <<now, terms, chainVars, mirror, earned, worker, upsert>>

\* Mutant: an expiry that forgets to look at the status.
ExpireAnyStatus(b, time) ==
  /\ bounty[b].status # "none"
  /\ bounty[b].expiresAt <= time
  /\ bounty' = [bounty EXCEPT ![b].status = "expired",
                              ![b].settlementStatus = "failed"]

ExpireOffer(b, time) ==
  /\ bounty[b].status = "offered"
  /\ bounty[b].fundingStatus = "contract_locked"
  /\ bounty[b].expiresAt <= time
  /\ bounty' = [bounty EXCEPT ![b].status = "expired",
                              ![b].settlementStatus = "failed"]

\* The beneficiary replies to the message that carries the bounty.
ReplyToBounty(b) ==
  /\ bounty[b].status = "offered"
  /\ \E repliedAt \in CommitTimes :
       /\ repliedAt + ResponseWindow >= bounty[b].expiresAt \* not before createdAt
       /\ \/ /\ bounty[b].expiresAt > repliedAt
             /\ bounty' = [bounty EXCEPT ![b].status = "claimable",
                                         ![b].claimableAt = repliedAt]
          \/ ExpireOffer(b, repliedAt)
  /\ UNCHANGED <<now, terms, chainVars, mirror, earned, worker, upsert>>

\* Reading the message history expires the offers it shows.
ExpireOfferedBounty(b) ==
  /\ ExpireOffer(b, now)
  /\ UNCHANGED <<now, terms, chainVars, mirror, earned, worker, upsert>>

-----------------------------------------------------------------------------
(* The settlement worker *)

Step(w, pc) == worker' = [worker EXCEPT ![w].pc = pc]
Recover(w) == worker' = [worker EXCEPT ![w].pc = "refresh", ![w].recovering = TRUE]
Stop(w) == worker' = [worker EXCEPT ![w] = IdleWorker]

\* Mutant: the update is addressed by _id only.
WriteUnconditionally(b, document) == bounty' = [bounty EXCEPT ![b] = document]

\* updateOne guarded by settlementStatus: 'processing', not by the lease owner.
WriteIfProcessing(b, document) ==
  bounty' = IF bounty[b].settlementStatus = "processing"
            THEN [bounty EXCEPT ![b] = document]
            ELSE bounty

\* Mutant: the contract's word for the status instead of the enum's.
ConfirmedWithContractStatus(b) ==
  [bounty[b] EXCEPT !.status = "claimed", !.fundingStatus = "settled",
                    !.settlementStatus = "confirmed", !.lease = "null"]

\* Mutant: the funding status is left alone.
ConfirmedKeepsFunding(b) ==
  [bounty[b] EXCEPT !.status = "claimed", !.settlementStatus = "confirmed",
                    !.lease = "null"]

Confirmed(b) ==
  [bounty[b] EXCEPT !.status = "claimed", !.fundingStatus = "contract_settled",
                    !.settlementStatus = "confirmed", !.lease = "null"]

LeaseRunsOut(b) ==
  /\ bounty[b].lease = "held"
  /\ bounty' = [bounty EXCEPT ![b].lease = "lapsed"]
  /\ UNCHANGED <<now, terms, chainVars, mirror, earned, worker, upsert>>

\* Mutant: only queued bounties are taken, so a crash keeps one forever.
SettleableWhenQueued(b) ==
  /\ bounty[b].status = "claimable"
  /\ bounty[b].fundingStatus = "contract_locked"
  /\ bounty[b].settlementStatus = "pending"

Settleable(b) ==
  /\ bounty[b].status = "claimable"
  /\ bounty[b].fundingStatus = "contract_locked"
  /\ \/ bounty[b].settlementStatus = "pending"
     \/ /\ bounty[b].settlementStatus = "processing"
        /\ bounty[b].lease = "lapsed"

\* Mutant: the lease is taken without an expiry.
TakeLeaseWithoutExpiry(w, b) ==
  /\ worker[w].pc = "idle"
  /\ Settleable(b)
  /\ bounty' = [bounty EXCEPT ![b].settlementStatus = "processing"]
  /\ worker' = [worker EXCEPT ![w] = [pc |-> "read", bounty |-> b,
                                      recovering |-> FALSE]]
  /\ UNCHANGED <<now, terms, chainVars, mirror, earned, upsert>>

TakeLease(w, b) ==
  /\ worker[w].pc = "idle"
  /\ Settleable(b)
  /\ bounty' = [bounty EXCEPT ![b].settlementStatus = "processing",
                              ![b].lease = "held"]
  /\ worker' = [worker EXCEPT ![w] = [pc |-> "read", bounty |-> b,
                                      recovering |-> FALSE]]
  /\ UNCHANGED <<now, terms, chainVars, mirror, earned, upsert>>

\* Mutant: a reply in the deadline's own second still counts.
RepliedByDeadline(b) == bounty[b].claimableAt <= chain[b].deadline

RepliedBeforeDeadline(b) == bounty[b].claimableAt < chain[b].deadline

\* get_bounty and the comparisons that follow it, up to the next await.
ReadContractBounty(w) ==
  LET b == worker[w].bounty IN
  /\ worker[w].pc = "read"
  /\ \/ chain[b].status = "absent" /\ Step(w, "retry")
     \/ chain[b].status # "absent" /\ terms[b] = "differ" /\ Step(w, "fail")
     \/ chain[b].status = "settled" /\ terms[b] = "agree" /\ Step(w, "confirmMirror")
     \/ chain[b].status = "refunded" /\ terms[b] = "agree" /\ Step(w, "recordRefund")
     \/ /\ chain[b].status = "locked" /\ terms[b] = "agree"
        /\ ~RepliedBeforeDeadline(b)
        /\ Step(w, "fail")
     \/ /\ chain[b].status = "locked" /\ terms[b] = "agree"
        /\ RepliedBeforeDeadline(b)
        /\ Step(w, "submit")
  /\ UNCHANGED <<now, terms, chainVars, databaseVars, upsert>>

\* Building, simulating or sending the transaction throws, or get_bounty does.
CallFails(w) ==
  /\ worker[w].pc \in {"read", "submit"}
  /\ Recover(w)
  /\ UNCHANGED <<now, terms, chainVars, databaseVars, upsert>>

\* sendTransaction answers PENDING or DUPLICATE.
SubmitSettlement(w) ==
  /\ worker[w].pc = "submit"
  /\ inflight' = inflight \union {worker[w].bounty}
  /\ Step(w, "poll")
  /\ UNCHANGED <<now, terms, chain, databaseVars, upsert>>

\* Mutant: the final status of the transaction is not looked at.
PollAssumesSuccess(w) ==
  /\ worker[w].pc = "poll"
  /\ Step(w, "confirmMirror")
  /\ UNCHANGED <<now, terms, chainVars, databaseVars, upsert>>

\* pollTransaction reports SUCCESS ...
PollSucceeds(w) ==
  /\ worker[w].pc = "poll"
  /\ chain[worker[w].bounty].status = "settled"
  /\ Step(w, "confirmMirror")
  /\ UNCHANGED <<now, terms, chainVars, databaseVars, upsert>>

\* ... or FAILED, NOT_FOUND or nothing: the transaction may land all the same.
PollFails(w) ==
  /\ worker[w].pc = "poll"
  /\ Recover(w)
  /\ UNCHANGED <<now, terms, chainVars, databaseVars, upsert>>

\* The catch block reads the bounty again; a failed read counts as "unknown".
RefreshContractBounty(w) ==
  LET b == worker[w].bounty IN
  /\ worker[w].pc = "refresh"
  /\ \/ chain[b].status = "settled" /\ Step(w, "confirmMirror")
     \/ /\ chain[b].status \in {"locked", "refunded"}
        /\ chain[b].deadline <= now
        /\ Step(w, "fail")
     \/ /\ chain[b].status = "absent" \/ (chain[b].status = "locked" /\ chain[b].deadline > now)
        /\ Step(w, "retry")
  /\ UNCHANGED <<now, terms, chainVars, databaseVars, upsert>>

RefreshFails(w) ==
  /\ worker[w].pc = "refresh"
  /\ Step(w, "retry")
  /\ UNCHANGED <<now, terms, chainVars, databaseVars, upsert>>

MarkForRetry(w) ==
  LET b == worker[w].bounty IN
  /\ worker[w].pc = "retry"
  /\ WriteIfProcessing(b, [bounty[b] EXCEPT !.settlementStatus = "pending",
                                            !.lease = "null"])
  /\ Stop(w)
  /\ UNCHANGED <<now, terms, chainVars, mirror, earned, upsert>>

MarkFailed(w) ==
  LET b == worker[w].bounty IN
  /\ worker[w].pc = "fail"
  /\ WriteIfProcessing(b, [bounty[b] EXCEPT !.status = "expired",
                                            !.settlementStatus = "failed",
                                            !.lease = "null"])
  /\ Stop(w)
  /\ UNCHANGED <<now, terms, chainVars, mirror, earned, upsert>>

MarkRefunded(w) ==
  LET b == worker[w].bounty IN
  /\ worker[w].pc = "recordRefund"
  /\ WriteIfProcessing(b, [bounty[b] EXCEPT !.status = "expired",
                                            !.fundingStatus = "contract_refunded",
                                            !.settlementStatus = "failed",
                                            !.lease = "null"])
  /\ Stop(w)
  /\ UNCHANGED <<now, terms, chainVars, mirror, earned, upsert>>

\* markConfirmed is two updates without a transaction.
MarkMirrorSettled(w) ==
  LET b == worker[w].bounty IN
  /\ worker[w].pc = "confirmMirror"
  /\ mirror' = [mirror EXCEPT ![b] = IF @ = "absent" THEN @ ELSE "settled"]
  /\ Step(w, "confirmBounty")
  /\ UNCHANGED <<now, terms, chainVars, bounty, earned, upsert>>

MarkConfirmed(w) ==
  LET b == worker[w].bounty IN
  /\ worker[w].pc = "confirmBounty"
  /\ WriteIfProcessing(b, Confirmed(b))
  /\ Stop(w)
  /\ UNCHANGED <<now, terms, chainVars, mirror, earned, upsert>>

\* A database update throws: inside try the catch block runs, inside the catch
\* block the run ends and the document stays as it is.
WriteFails(w) ==
  /\ worker[w].pc \in WritePCs
  /\ \/ ~worker[w].recovering /\ Recover(w)
     \/ worker[w].recovering /\ Stop(w)
  /\ UNCHANGED <<now, terms, chainVars, databaseVars, upsert>>

WorkerCrash(w) ==
  /\ worker[w].pc # "idle"
  /\ Stop(w)
  /\ UNCHANGED <<now, terms, chainVars, databaseVars, upsert>>

-----------------------------------------------------------------------------
(* Events and reconciliation *)

\* Mutant: the event respects a bounty the worker has given up.
RecordBountyEarningUnlessExpired(b) ==
  /\ chain[b].status = "settled"
  /\ bounty[b].status # "none"
  /\ terms[b] = "agree"
  /\ earned' = earned \union {b}
  /\ mirror' = [mirror EXCEPT ![b] = IF @ = "absent" THEN @ ELSE "settled"]
  /\ bounty' = IF bounty[b].status = "expired" THEN bounty
               ELSE [bounty EXCEPT ![b] = Confirmed(b)]
  /\ UNCHANGED <<now, terms, chainVars, worker, upsert>>

\* A pay_bnty event, delivered any number of times, is one transaction.
RecordBountyEarning(b) ==
  /\ chain[b].status = "settled"
  /\ bounty[b].status # "none"
  /\ terms[b] = "agree"
  /\ earned' = earned \union {b}
  /\ mirror' = [mirror EXCEPT ![b] = IF @ = "absent" THEN @ ELSE "settled"]
  /\ bounty' = [bounty EXCEPT ![b] = Confirmed(b)]
  /\ UNCHANGED <<now, terms, chainVars, worker, upsert>>

Registered(b) ==
  /\ bounty[b].fundingStatus = "contract_locked"
  /\ bounty[b].settlementStatus # "failed"

\* A lock_bnty event; an event that does not decode is replaced by get_bounty.
HandleBountyLockEvent(m, b) ==
  /\ upsert[m].pc = "idle"
  /\ chain[b].status # "absent"
  /\ Registered(b)
  /\ \E status \in {"locked", chain[b].status} :
       upsert' = [upsert EXCEPT ![m] =
         [pc |-> "check", bounty |-> b, status |-> status, via |-> "event"]]
  /\ UNCHANGED <<now, terms, chainVars, databaseVars, worker>>

\* A reconciliation run selects a registered bounty without a mirror ...
SelectUnmirrored(m, b) ==
  /\ upsert[m].pc = "idle"
  /\ Registered(b)
  /\ mirror[b] = "absent"
  /\ upsert' = [upsert EXCEPT ![m] =
       [pc |-> "readChain", bounty |-> b, status |-> "locked", via |-> "reconciliation"]]
  /\ UNCHANGED <<now, terms, chainVars, databaseVars, worker>>

\* ... and reads it from the contract.
ReconcileBounty(m) ==
  LET b == upsert[m].bounty IN
  /\ upsert[m].pc = "readChain"
  /\ \/ /\ chain[b].status = "absent"
        /\ upsert' = [upsert EXCEPT ![m] = IdleUpsert]
     \/ /\ chain[b].status # "absent"
        /\ upsert' = [upsert EXCEPT ![m].pc = "check", ![m].status = chain[b].status]
  /\ UNCHANGED <<now, terms, chainVars, databaseVars, worker>>

\* upsertContractBounty reads the registration again.
CheckRegistration(m) ==
  LET b == upsert[m].bounty IN
  /\ upsert[m].pc = "check"
  /\ \/ ~Registered(b) /\ upsert' = [upsert EXCEPT ![m] = IdleUpsert]
     \/ /\ Registered(b) /\ terms[b] = "differ"
        /\ upsert' = [upsert EXCEPT ![m].pc = "reject"]
     \/ /\ Registered(b) /\ terms[b] = "agree"
        /\ upsert' = [upsert EXCEPT ![m].pc = "write"]
  /\ UNCHANGED <<now, terms, chainVars, databaseVars, worker>>

\* The rejection is guarded by fundingStatus only.
RejectRegistration(m) ==
  LET b == upsert[m].bounty IN
  /\ upsert[m].pc = "reject"
  /\ bounty' = IF bounty[b].fundingStatus = "contract_locked"
               THEN [bounty EXCEPT ![b].status = "expired",
                                   ![b].settlementStatus = "failed",
                                   ![b].lease = "null"]
               ELSE bounty
  /\ upsert' = [upsert EXCEPT ![m] = IdleUpsert]
  /\ UNCHANGED <<now, terms, chainVars, mirror, earned, worker>>

\* $setOnInsert, then a comparison with the document the upsert returned.
WriteMirror(m) ==
  LET b == upsert[m].bounty IN
  /\ upsert[m].pc = "write"
  /\ mirror' = [mirror EXCEPT ![b] = IF @ = "absent" THEN upsert[m].status ELSE @]
  /\ IF mirror'[b] # upsert[m].status /\ upsert[m].via = "reconciliation"
     THEN upsert' = [upsert EXCEPT ![m].pc = "save"]
     ELSE upsert' = [upsert EXCEPT ![m] = IdleUpsert]
  /\ UNCHANGED <<now, terms, chainVars, bounty, earned, worker>>

\* stored.save() writes the status that was observed before.
SaveMirror(m) ==
  LET b == upsert[m].bounty IN
  /\ upsert[m].pc = "save"
  /\ mirror' = [mirror EXCEPT ![b] = upsert[m].status]
  /\ upsert' = [upsert EXCEPT ![m] = IdleUpsert]
  /\ UNCHANGED <<now, terms, chainVars, bounty, earned, worker>>

\* The process stops, or a call of the handler throws.
MirrorStops(m) ==
  /\ upsert[m].pc # "idle"
  /\ upsert' = [upsert EXCEPT ![m] = IdleUpsert]
  /\ UNCHANGED <<now, terms, chainVars, databaseVars, worker>>

-----------------------------------------------------------------------------
ContractNext ==
  \E b \in Bounties : LockBounty(b) \/ LandSettlement(b) \/ DropSettlement(b) \/ RefundBounty(b)

MessengerNext ==
  \E b \in Bounties : RegisterBounty(b) \/ ReplyToBounty(b) \/ ExpireOfferedBounty(b)

WorkerNext(w) ==
  \/ \E b \in Bounties : TakeLease(w, b)
  \/ ReadContractBounty(w) \/ CallFails(w)
  \/ SubmitSettlement(w) \/ PollSucceeds(w) \/ PollFails(w)
  \/ RefreshContractBounty(w) \/ RefreshFails(w)
  \/ MarkForRetry(w) \/ MarkFailed(w) \/ MarkRefunded(w)
  \/ MarkMirrorSettled(w) \/ MarkConfirmed(w)
  \/ WriteFails(w) \/ WorkerCrash(w)

MirrorNext(m) ==
  \/ \E b \in Bounties : HandleBountyLockEvent(m, b) \/ SelectUnmirrored(m, b)
  \/ ReconcileBounty(m) \/ CheckRegistration(m) \/ RejectRegistration(m)
  \/ WriteMirror(m) \/ SaveMirror(m) \/ MirrorStops(m)

Next ==
  \/ Tick
  \/ ContractNext
  \/ MessengerNext
  \/ \E b \in Bounties : LeaseRunsOut(b) \/ RecordBountyEarning(b)
  \/ \E w \in Workers : WorkerNext(w)
  \/ \E m \in Mirrors : MirrorNext(m)

Spec == Init /\ [][Next]_vars

-----------------------------------------------------------------------------
(* Fairness.  The clock and the contract's ledgers go on; the timers restart *)
(* every handler after each run.  A step that is enabled again and again     *)
(* (because the run is repeated after a crash or an RPC error) is eventually *)
(* taken: faults do not hit every single attempt.  Nothing is assumed about  *)
(* users, about faults, or about which bounty a worker picks.                *)

Fairness ==
  /\ WF_vars(Tick)
  /\ \A b \in Bounties :
       /\ WF_vars(LeaseRunsOut(b))
       /\ WF_vars(LandSettlement(b) \/ DropSettlement(b))
       /\ WF_vars(RecordBountyEarning(b))
  /\ \A w \in Workers :
       /\ SF_vars(\E b \in Bounties : TakeLease(w, b))
       /\ SF_vars(ReadContractBounty(w))
       /\ SF_vars(SubmitSettlement(w))
       /\ SF_vars(PollSucceeds(w) \/ PollFails(w))
       /\ SF_vars(RefreshContractBounty(w))
       /\ SF_vars(MarkForRetry(w))
       /\ SF_vars(MarkFailed(w))
       /\ SF_vars(MarkRefunded(w))
       /\ SF_vars(MarkMirrorSettled(w))
       /\ SF_vars(MarkConfirmed(w))

FairSpec == Spec /\ Fairness

-----------------------------------------------------------------------------
(* Safety *)

TimelyReply(b) ==
  /\ terms[b] = "agree"
  /\ bounty[b].claimableAt # Null
  /\ bounty[b].claimableAt < bounty[b].expiresAt
  /\ bounty[b].claimableAt < chain[b].deadline

\* Escrowed money reaches the beneficiary only for a reply that came before
\* the message's own expiry and before the on-chain deadline, to a lock that
\* agrees with the registration: whatever stale workers and late transactions
\* do (processNextReplySettlement 122-161, resolveReplyBounty).
PaidOnlyForTimelyReply ==
  \A b \in Bounties : chain[b].status = "settled" => TimelyReply(b)

\* The database is never ahead of the contract: "claimed" and the mirrored
\* settlement imply that the contract paid, "contract_refunded" that it
\* returned the deposit (markConfirmed, recordBountyEarning, lines 139-154).
DatabaseNotAheadOfContract ==
  \A b \in Bounties :
    /\ bounty[b].status = "claimed" => chain[b].status = "settled"
    /\ bounty[b].fundingStatus = "contract_refunded" => chain[b].status = "refunded"
    /\ mirror[b] \in {"settled", "refunded"} => chain[b].status = mirror[b]

\* The lifecycle rule that MessageBounty checks on validate(), which none of
\* the updateOne calls of the settlement and the event handlers runs.
FundingMatchesStatus ==
  \A b \in Bounties :
    \/ bounty[b].status = "none"
    \/ bounty[b].status = "claimed" /\ bounty[b].fundingStatus = "contract_settled"
    \/ /\ bounty[b].status = "expired"
       /\ bounty[b].fundingStatus \in {"contract_locked", "contract_refunded"}
    \/ /\ bounty[b].status \in {"offered", "claimable"}
       /\ bounty[b].fundingStatus = "contract_locked"

\* A claimable bounty is never stranded: it is queued, or processing under a
\* lease that can lapse, so that some worker can take it (lines 80-99).
ClaimableIsRecoverable ==
  \A b \in Bounties :
    bounty[b].status = "claimable" =>
      \/ bounty[b].settlementStatus = "pending"
      \/ bounty[b].settlementStatus = "processing" /\ bounty[b].lease # "null"

\* A beneficiary's earning is never on record for a bounty that the messenger
\* shows as anything but claimed (recordBountyEarning is one transaction).
EarningMatchesBounty ==
  \A b \in earned : bounty[b].status = "claimed"

\* No handler takes a claimed bounty back, however late it writes.
ClaimedIsFinal ==
  [][\A b \in Bounties :
       bounty[b].status = "claimed" => bounty'[b] = bounty[b]]_bounty

\* The bounty implements the promise of BountyLifecycle.
Lifecycle == INSTANCE BountyLifecycle WITH
  status <- [b \in Bounties |-> bounty[b].status],
  replied <- {b \in Bounties : bounty[b].claimableAt # Null},
  escrow <- [b \in Bounties |->
               CASE chain[b].status = "absent" -> "none"
                 [] chain[b].status = "locked" -> "locked"
                 [] chain[b].status = "settled" -> "paid"
                 [] chain[b].status = "refunded" -> "returned"]

ImplementsLifecycle == Lifecycle!Spec

-----------------------------------------------------------------------------
(* Liveness *)

\* A bounty whose reply arrived and whose deposit is locked is eventually
\* settled or given up, through crashes, lost answers and failed updates.
ClaimableIsResolved ==
  \A b \in Bounties :
    (bounty[b].status = "claimable" /\ chain[b].status # "absent")
      ~> bounty[b].status \in {"claimed", "expired"}

\* A payment on the contract is eventually shown to the beneficiary and on
\* record as an earning, also when the worker gave the bounty up before the
\* transaction landed.
PaymentIsEventuallyRecorded ==
  \A b \in Bounties :
    chain[b].status = "settled" ~> (bounty[b].status = "claimed" /\ b \in earned)
=============================================================================
