# Verification of the beSeen API

TLA+ specifications of the parts of `src/` in which several handlers, timers,
processes and the BeSeen contract work on the same data, checked by TLC on small
instances and, where a section "Proved" says so, proved by TLAPS for every
value of the constants.

## 1. The system

The API is an Express server over MongoDB. It may run as several processes;
each of them also runs a set of timers. Beside MongoDB it talks to the BeSeen
contract on Stellar (through a Soroban RPC node), to an object store (avatars) and
to a wallet verifier. All state that matters is in MongoDB or on the contract;
a process keeps none between requests, except "this timer is already running".
A handler is a sequence of database and RPC calls with an `await` at each. Some
handlers put their calls in a MongoDB transaction, most of the background work
does not: between two calls anything may happen, and the process may die.

| component | state | operations | interacts with |
| --- | --- | --- | --- |
| message bounty and settlement | `MessageBounty`, `ContractBounty`, `EarningTransaction` (bounty_reply) | register with a message, become claimable by a reply, expire, lease, settle, confirm, fail, retry, mirror the contract | messenger (transaction of a message), contract (RPC), event synchronization (`pay_bnty`, `lock_bnty`) |
| encrypted broadcasts | `Broadcast`, `BroadcastRecipient` | create a draft, upload keys, finalize, cancel, expire, clean up, feeds | social graph (the audience is read once) |
| contract event synchronization | `ContractSyncState` (four checkpoints), earnings, Aura tokens, mirrors | read a range of ledgers, handle events, save checkpoints, rewind script | RPC node with limited retention, the two components above |
| sequence reconciliation | `ContractSyncState.lastReconciledBountyId` | look up the oldest registrations without a mirror, then the next bounty id of the contract | the mirror of bounties |
| Aura purchases | `AuraToken`, `AuraFollow`, `Conversation` | register, confirm by request, event or minute reconciliation, fail | contract, event synchronization |
| messenger | `Conversation`, `Message`, `MessageBounty` | send (idempotent by clientMessageId), mark read, history, summary | bounty registration and replies |
| login sessions, registration | `AuthSession`, `AuthProof`, `User`, `UserKey` | login, refresh (rotation), logout, register | object store (avatar), wallet verifier |
| profile and avatar | `User.avatar*`, objects | update, replace the avatar | object store |
| user activity | `User`, `UserActivityDay` | heartbeat credit | |
| discovery ranking | scores on `User` | periodic recalculation, paging | social graph, activity |
| paged lists | none of their own: cursors held by clients | history, conversations, discovery, earnings, sent and received broadcasts, drafts, recipients | all of the above |
| codecs, HTTP | none | conversion, validation, routing | |

What is hard in each, with the line where it bites, is the list `hazards` in
`PROJECT.json`. In short: leases that run out under a working owner and
transactions whose outcome is unknown (settlement); publication in the middle of
uploads, cancellations and cleanups without a transaction (broadcasts);
checkpoints saved in parts and moved by several processes (events); confirmations
that race (Aura); counters and sequence numbers under concurrent transactions
(messenger); rotation of tokens by concurrent requests (sessions);
compensation of object uploads (registration, avatar); heartbeats that commit in
another order than that of their times (activity); pages of lists whose rows move
meanwhile (queries); runs of several processes that overwrite each other's scores
or pointer (ranking, sequence reconciliation).

What makes each correct:

* settlement: escrow pays only for a timely reply; the database is never ahead
  of the contract; a claimed bounty stays claimed; nothing claimable is stranded;
  a payment is eventually shown.
* broadcasts: a published broadcast has exactly the recipients and keys its
  signature covers; no answer given to a client is taken back; expired drafts go.
* event synchronization: an event at or below the checkpoint was handled; a
  handled event leaves one record; a rewind replays.
* Aura: follows and conversations are exactly those of confirmed purchases, a
  confirmed registration names somebody who owned the token, and a registration of
  a purchase is eventually confirmed or failed by the event alone and by the
  reconciliation alone.
* messenger: sequence numbers without gaps or duplicates, one message per
  clientMessageId, unread counters that agree with the messages.
* sessions: one successor of every refresh token; none after a logout.
* accounts: what an account names is stored, what is stored is named.
* activity: no moment is credited twice. Lists: nothing is skipped, nothing is
  shown twice. Ranking and sequence reconciliation: whatever other processes do, the
  scores and the mirrors end up right.

## 2. Modules

| module | what it is | code |
| --- | --- | --- |
| `BountyLifecycle` | abstract: what a bounty promises to sponsor and beneficiary | the README's lifecycle, `MessageBounty` statuses |
| `BountySettlement` | the bounty, its workers, events and reconciliations, the contract | `utils/contract/`, `utils/messenger/resolveReplyBounty.ts`, `expire*`, `utils/earning/recordBountyEarning.ts` |
| `MCBountySettlement` | instance for TLC | |
| `BountySettlementProofs` | theorems about `BountySettlement` | |
| `BroadcastDelivery` | abstract: a broadcast is sealed for all its readers at once, or withdrawn | what `getBroadcastFeed.ts` shows |
| `Broadcast` | drafts, audience, keys, publication, cancellation, cleanup | `utils/broadcast/` |
| `MCBroadcast` | instance for TLC | |
| `BroadcastProofs` | theorems about `Broadcast` | |
| `ContractEvents` | pollers, checkpoints, the RPC node's memory, the rewind script | `utils/contract/event/`, `scripts/rewindContractEventSync.ts` |
| `MCContractEvents` | instance for TLC | |
| `ContractEventsProofs` | theorems about `ContractEvents` | |
| `ConversationLog` | abstract: one growing log and two cursors that move forward | README, "Message delivery is idempotent" |
| `Messenger` | the transactions of `sendMessage` and `markConversationRead` | `utils/messenger/` |
| `MCMessenger` | instance for TLC | |
| `MessengerProofs` | theorems about `Messenger` | |
| `AuraGraph` | abstract: access is opened by the confirmation of a pending claim, once and for good | README, "Aura" |
| `AuraPurchase` | registrations and the three paths that confirm them | `utils/aura/`, `syncAuraPurchaseEvents.ts`, `reconcileRegisteredAuraPurchases.ts` |
| `MCAuraPurchase` | instance for TLC | |
| `AuraPurchaseProofs` | theorems about `AuraPurchase` | |
| `Sessions` | login proofs, sessions, rotation of refresh tokens, logout | `utils/auth/`, `middleware/authenticate.ts` |
| `SessionsProofs` | theorems about `Sessions` | |
| `Accounts` | registration, profile updates and the avatars in the object store | `registerUser.ts`, `updateCurrentUser.ts`, `avatarStorage.ts` |
| `AccountsProofs` | theorems about `Accounts` | |
| `Activity` | overlapping heartbeats of a user | `recordUserActivity.ts` |
| `Listings` | a client that walks through any of the eight paged lists | `get*.ts`, `discoverUsers.ts`, the cursors |
| `Ranking` | recalculation of the discovery scores by several processes | `utils/discover/` |
| `Reconciliation` | the two jobs that mirror bounties whose events were missed | `reconcileRegisteredContractBounties.ts`, `reconcileNextContractBounty.ts` |
| `Services` | the last six components side by side | |
| `ServicesProofs` | theorems about `Activity`, `Listings`, `Ranking`, `Reconciliation` and the composition | |
| `MCServices` | instance for TLC | |

`PROJECT.json`, `map`, gives the source lines of every definition.

### BountySettlement

`bounty[b]` is the `MessageBounty` document, reduced to the fields that control
the handlers: `status`, `fundingStatus`, `settlementStatus`, the lease, `expiresAt`
and `claimableAt`. `mirror[b]` is the status of the `ContractBounty` document,
`earned` the bounties with a `bounty_reply` earning. `chain` is the contract's
record and `inflight` the settlement transactions that RPC accepted and no ledger
has applied; both are modelled from the calls the API makes. `worker[w]` is the
local state of one run of `processNextReplySettlement`: a program counter that
names its next round trip, the bounty it leased and whether it is already in
the catch block. `upsert[m]` is the same for `upsertContractBounty` and its two
callers.

Each action is one database or RPC round trip with the code up to the next one.
The writes keep the filters of the code: `markForRetry`, `markFailed` and
`markConfirmed` ask for `settlementStatus: 'processing'` but not for the lease
owner, the rejection of a registration asks for `fundingStatus` only, the
settlement event asks for nothing. Every call may fail (`CallFails`,
`PollFails`, `RefreshFails`, `WriteFails`, `MirrorStops`) and the process may stop
anywhere (`WorkerCrash`). A transaction that polling gave up may still land
(`LandSettlement`) or never (`DropSettlement`).

The repository's README draws the lifecycle without a way from `claimable` to
`expired` and from `expired` to `claimed`; the code has both (`markFailed` expires
a claimable bounty that the contract refunded, also while a transaction that polling
gave up may still land, and the settlement event then makes it claimed), and
`BountyLifecycle` follows the code.

The reply and the registration are single actions because the code runs them in
one MongoDB transaction (`sendMessage`); the time they write was read before the
transaction committed, at most `CommitDelay` earlier.

Abstracted: wallets, token and amount are one bit per bounty (`terms`): does
the lock on the contract agree with the registration? The lease is `held` until
`LeaseRunsOut`, which may happen at any time, so also under an owner that works.
A `claimableAt` that is missing does not occur: every path that makes a bounty
claimable sets it.

### Broadcast

`doc[id]` is the `Broadcast` document, `rows[id]` its `BroadcastRecipient`
documents as a function from users to their wrapped key (`NoKey`: the row is
there without one; `NoRow`: no row). `process[p]` is what one request or one
cleanup run knows: which call is next, the ids at hand, the batch of keys or the
keys it read. `accepted`, `announced` and `withdrawn` are not state of the code:
they remember what clients were told, so that `AnswersHold` can compare it with
what the database says later.

No handler uses a transaction, so each database call is an action of its own, a
`bulkWrite` one action per row, an `insertMany` may stop after any subset.
A digest is the keys it was computed from; a signature is valid for exactly
one digest and content. Requests that end at their first read change nothing and
are not modelled.

### ContractEvents

`checkpoint[s]` is `lastProcessedLedger` of the four `ContractSyncState`
documents, `poller[p]` the local state of one run of `syncContractEvents` (which
call is next, the checkpoints it loaded, its range, the events it still has to
handle, the checkpoint it will save), `rewind` the last run of the rewind script.
`latest` and `emitted` are the ledger, `oldest` what the RPC node still has.

A database or RPC call is one action, four checkpoints are four reads and four
writes. `Null` is -1, below every ledger: the smallest of several checkpoints is
null if one of them is, which is what `getSharedCheckpoint` computes. A save that
fails while others succeed is `PollerStops` between two saves, because the saves
run in any order. Mongoose's `save()` writes nothing if the value has not
changed, so `SaveCheckpoint` leaves the stored checkpoint alone when the new one
equals the one that was loaded. `RewindCheckpoint` is `$min`.

Abstracted: an event is its ledger and its subject, and each of the four
handlers leaves one record of an event whose subject is registered; the order of
events within a ledger is left open.

### Messenger

`conversation[c]` and `messages` are the documents; a conversation is a pair of
users. `request[p]` is one request with its open transaction. A MongoDB
transaction is modelled by what the code relies on: its reads are those of one
moment (`ReadForSend`, `ReadForMarking`), a write that meets a document written
or being written by somebody else since then aborts it and the driver begins it
again (`WriteConflict`, `Restart`), an insert under a unique index fails with a
conflict or with a duplicate key (`Insert`), and all its writes appear at its
commit. A request that is refused, crashes or meets an error that is not
repeated is `RequestEnds`, at any step.

`delivered` and `refused` are not state of the code: they remember what clients
were told.  `refused` remembers one answer at a time, any one: the property is
about each of them alone.

Abstracted: the checks before the signature change nothing, so they are
`RequestEnds`; what a reply does to a bounty is `BountySettlement`.

### AuraPurchase

`token[t]` is the `AuraToken` document, `follow` and `conversations` the
`AuraFollow` and `Conversation` documents it opens, `aura[t]` the contract's own
record, which changes when the token is bought or traded. `process` holds the
requests, the pollers and the jobs: the observation of the contract with which each
of them calls `confirmAuraPurchase`, and where it is in that transaction. A
confirmation reads in one action and commits in another; when a document that it is
to write was written meanwhile the driver begins it again (`Overtaken`). Calls that
fail and processes that stop end a confirmation anywhere.

A wallet is its user, and a hash is that of the purchase or not. The buyer that
every caller passes on is the owner the contract names, so a registration whose
token was sold before it was confirmed fails. A confirmed registration that a
later observation does not match fails too, and keeps the access it has opened: the
code removes no follow. The final answer of a request is left out.

### Sessions

`session[s]` is an `AuthSession` document (the hash of its refresh token,
`revokedAt`, `lastUsedAt`, `expiresAt`), `proof[i]` the `AuthProof` of a login.
`tokens` is not state of the code: it remembers for which session a token was
generated, whether its answer reached the client, and what it was exchanged for.
Refreshing is three calls (`FindSession`, `CheckUser`, `Rotate`), a logout two, and
`Rotate` keeps the filter of `findOneAndUpdate`: the id, the hash, not revoked, not
expired at the time the request began. TTL indexes remove documents at any time
after their expiry. The repository's README calls the rotation transactional; it is
this one guarded update.

### Accounts

`user[w]` is the `User` document of a wallet with its username and avatar, `stored`
the objects of the object store. `accountRequest[p]` is one registration or
update: look the username up, put the avatar, write the document, delete an
object. The two stores share no transaction. `trace` is not state of the code: it
names the objects for which an exception was made, `lost` (the write was applied
and reported as failed), `left` (a put or delete failed, or the process stopped) and
`replaced` (an update replaced an avatar that it had not read).

### Activity

A heartbeat takes its time, then runs a transaction that reads the user
(`ReadUser`) and writes user and day (`CommitHeartbeat`); a commit takes every
other open transaction back to its read (`RepeatOthers`), with the time it took
first. Time is in units that the day and both interval limits are multiples of.

### Listings

`list` is one of the eight lists, `listed` and `key` what its query would match
and sort by, `walk` the cursor that the client holds, `seen` how often each row was
on a page. A page is one query: `FirstRows` of what the cursor condition
matches, and a cursor that names the last of them if one row more was found.
Meanwhile rows appear (with any id, because ids say little about the order of
commits), vanish (drafts, users), and move (a conversation up, a user up or down).
A row counts as seen once it was on a page as the query returned it: that
`getConversations` then leaves out conversations with inactive participants, after
the limit and without touching the cursor, is not part of the model.

### Ranking

A run of `ranker[p]` reads the users and the time (`ReadUsers`), collects groups
of metrics in any order (`CollectMetrics`), and writes scores in batches
(`WriteBatch`) while metrics and users change and other runs do the same. A metric
is none or all of the weight of its group; weights, boost and account age are those
of `constant/discover.ts`, in hundredths.

### Reconciliation

`lockedUpTo` is the contract's last bounty id, `registered` the registrations in
`MessageBounty`, `mirrored` the `ContractBounty` documents, `pointer` the saved
`lastReconciledBountyId`. `registeredAt` is the `createdAt` of a registration, as
its place among all of them: `Older` is the `$sort` of the aggregation, `FirstBatch`
its `$limit`, `IsNext` the order of the loop over its answer. One run
(`reconciler[p]`) does both jobs one after the other, call by call; an error ends
both. Lock events may be handled or missed
(`ObserveLock`). The upsert is one step, its own steps are in `BountySettlement`.

## 3. What the runs check

| run | question | result |
| --- | --- | --- |
| `settlement_safety` | two workers, two mirror handlers, late transactions and lost leases around one bounty: is the escrow paid only for timely replies, is the database ever ahead of the contract, do the documents stay consistent, does the whole implement `BountyLifecycle`? | holds |
| `settlement_liveness` | is everything claimable resolved, is every payment shown? | holds for one bounty |
| `settlement_starvation` | the same with two bounties | violated, finding |
| `broadcast_safety` | three racing requests and the cleanup around one broadcast: complete when published, answers stand, implements `BroadcastDelivery` | holds |
| `broadcast_liveness` | are expired and canceled drafts removed, also when a batch does not hold all of them? | holds |
| `broadcast_lost_save` | is a published broadcast complete also if a failed save was applied? | violated, finding |
| `events_safety` | can a checkpoint pass an event that still has to be handled? | never |
| `events_liveness` | is every event of a registered subject recorded while the node has it? | yes |
| `events_rewind` | is what a rewind announced replayed? | violated, finding |
| `messenger_safety` | do colliding transactions keep numbers, counters, times and answers right, do they implement `ConversationLog`? | holds |
| `aura` | a request, a poller and a job confirm two registrations of one pair on a contract where tokens are bought late and traded: is access exactly that of confirmed purchases, were they owned, does it implement `AuraGraph`, does the event alone and the job alone settle what is pending? | holds |
| `services` | sessions, accounts, activity, lists, ranking and reconciliation, one of them at work in each behaviour: the properties of each | holds |

Every property of a passing run has a mutant in `PROJECT.json`: an operator that
changes one definition the way a plausible mistake in the code would (a guard
dropped, an end taken for inclusive, a wrong index) and with which TLC finds
the property violated. The mutants stand in the modules, before the definition
they would replace, marked `Mutant:`.

### Findings

* `settlement_starvation`: `processNextReplySettlement` takes any one bounty that
  is due, in no order, and a bounty whose lock is not on the contract goes back
  to `pending` at once. It can be taken again and again while a bounty that
  could be settled waits until the contract refunds it.
* `broadcast_lost_save`: if `draft.save()` fails after the server has applied it
  (a lost answer), the catch block deletes the recipients of a draft that
  exists and that a concurrent retry may already be filling. Keys can be accepted
  and a broadcast published whose recipients are gone. The other runs of
  broadcasts are made for the case that a failed save wrote nothing
  (`LostSaves = FALSE`); what holds without is proved (section 6).
* `events_rewind`: a poll that is under way while `rewindContractEventSync` runs
  saves the checkpoint it had computed, over the lower one the script has just
  written; the ledgers that the script says will be replayed are not.

## 4. Bounds, and why they are enough

* Settlement. Bounties share nothing but the worker that picks one, so one
  bounty shows what handlers do to each other and two how they compete. Two
  workers give an owner and the one that takes over an expired lease; a third
  could only repeat the second's part. `MaxTime` 2 with windows of 1 and 2 puts
  the reply before, at and behind both deadlines.
* Broadcasts. Different broadcasts only meet at the unique index over creator and
  client id. The safety run has one client id and three requests of each kind; the
  liveness run two client ids, so that two drafts wait for a cleanup whose batch takes
  one and the other has to be found by a later run. Two users, keys and contents are
  the fewest for which a wrong key, a missing one and a wrong content differ. The
  theorems cover any number.
* Events. Two checkpoints show every difference that the smallest of them can
  hide, two pollers every late save, pages of two events a full page over one
  ledger and over two, a memory of two ledgers what the node forgets. The
  liveness run has a single subject, so that no single ledger fills a page: a
  ledger that does stops the synchronization for good, which is the code's
  decision and is a hazard in the list.
* Messenger. Two requests collide at every step; two conversations of one sender
  let a `clientMessageId` meet itself where the conversation is not a common
  lock; one bounty id is wanted by all. The number of messages is bounded by two
  per conversation and one per sender, so the counters stay small in the run.
* Aura. Two tokens of one pair compete for one follow and for a batch of one; the
  first is also claimed for the reverse pair with another transaction, and is
  traded. One process of each kind: they meet in the database, where a second of
  the same kind would do what another path does already.
* Services. The six components write no field in common (but
  `updatedAt`, which nothing reads), so `focus` picks one per
  behaviour; the interleavings of two say nothing that each alone does not. Accounts,
  activity and the ranking do write the same `User` documents: a conflict over one
  restarts a heartbeat's transaction, as a second heartbeat does in `Activity`, and
  the other writes set their own fields whatever the rest of the document says.
  Sessions: one session (no step reads two), three tokens for two rotations, two
  requests, lifetimes of one and moments up to two, so that a slow request meets
  expiry, removal and a session that was used later.
  Accounts: two wallets, names, avatars and requests, the fewest with a name
  that is taken and an avatar that is replaced while it was read, and four orders
  that meet in pairs. Activity: two requests, intervals credited from 2 to 3 in days
  of 4, over two days. Lists: three rows, equal and different keys, pages of one and
  two: a cursor with rows before, at and behind it. Ranking: two users in batches
  of one, two runs, one change at any moment; days 2 and 3, at which the boost and
  the age of an account together pass the cap. Reconciliation: two ids and two
  processes, a batch of one, a walk of one id per run. The safety of all six
  is proved without these bounds.
* Symmetry is used in the safety runs only, over sets whose members no definition
  and no other constant tells apart. `CHECK_DEADLOCK FALSE` stands in every
  configuration because clocks, ledgers and sequence numbers are bounded: the
  model stops where the system would go on.

## 5. Fairness

* Settlement: weak fairness for the clock, for a lease to run out, for a
  submitted transaction to land or be dropped and for the event of a payment to be
  handled; strong fairness for each call of a worker, because the timer repeats
  the run after a failure (`contractBountySyncScheduler.ts:70-88`) and errors do not
  hit every attempt. Nothing is assumed about which bounty a worker picks.
* Broadcasts: strong fairness for each call of the cleanup, which its scheduler
  repeats (`broadcastDraftCleanupScheduler.ts`). Nothing about requests.
* Events: strong fairness for each call of a poller at each amount of work left:
  errors and crashes do not hit every attempt at the same call.
* Aura: fairness is the antecedent of each property, so that one path can be shown
  to suffice without the others: strong fairness of the handling of the events and
  of the confirmations they make (`PollingIsFair`; a failed poll repeats, because
  its checkpoint is not saved), or of the steps of the job (`ReconciliationIsFair`).
  Twenty-five registrations that never were purchases can fill the batch of the job
  for good; that a batch is not full of them is a condition of
  `ReconciliationSettles`, and so it is of `RegisteredIsMirrored`.
* Ranking and reconciliation: some one process takes its steps (weak fairness: the
  timer starts a run whenever none is under way, and a run always has a next step)
  and from some moment on does not fail. Nothing about the other processes, which
  may stop in the middle of a run and write much later.
* Nowhere: that users reply, retry or come back, that faults occur or do not.

## 6. What is proved

The proofs are about the same modules that TLC checks, for every value of the
constants; `PROJECT.json`, `theorems`, lists them. Each has the same shape: the
properties are not inductive, because what a handler is going to write depends on
what it read some calls ago, so the invariant adds, for every program counter, what
its holder may still rely on; one lemma per action shows that it is kept.

* `BountySettlementProofs`: type correctness, `PaidOnlyForTimelyReply`,
  `DatabaseNotAheadOfContract`, `FundingMatchesStatus`, `ClaimableIsRecoverable`,
  `EarningMatchesBounty`, `ClaimedIsFinal` and the refinement of `BountyLifecycle`.
  The invariant `DocumentInv /\ PaymentInv /\ WorkerInv /\ UpsertInv` says that a
  payment, made or submitted, is for a timely reply, and that what a worker or a
  handler holds is a status the contract has or had. Assumed: `NoBounty` is no bounty, and the clock's constants are numbers.
* `BroadcastProofs`, assuming a finite set of users: `PublishedIsComplete`,
  `AnswersHold`, the refinement of `BroadcastDelivery`, and that a publication is final
  (`PublicationIsFinal`), if a failed save wrote nothing. The key is that a document only moves forward and that a key
  stored in a live broadcast stays, so that a complete set of keys which a
  finalization has read can no longer change before it publishes (`ProcessInv`,
  `CreationsApart`). For the refinement, one lemma per action shows that it seals the
  broadcast with the keys of exactly its readers, withdraws it, or is not seen.
  Whatever a failed save wrote, by a second invariant (`LostSaveIInv`): type
  correctness; announced publications and cancellations stand (`DecisionsStand`); and a
  published broadcast was complete when it was signed and has no key that its signature
  does not cover (`ReadersAreSigned`). Between two steps the rows of a document that
  exists then only lose recipients or fill missing keys (`Advances`), and a set of keys
  without a missing one can only shrink.
* `ContractEventsProofs`: type correctness and `CheckpointsCoverEvents`. Coverage
  never shrinks (`CoveredButKept`: events are only emitted behind the last ledger, a
  subject registered later does not make an older event due), so a checkpoint
  computed long ago is still safe to save.
* `MessengerProofs`: type correctness, `MessagesAreNumbered`, `UnreadAgrees`,
  `TimeFollowsSequence`, `AnswersHold` and the refinement of `ConversationLog`.
  What a transaction has read is still true as long as it is not `stale`
  (`RequestOK`), and two open transactions never hold the same conversation, key or
  bounty (`Apart`). A client that was refused stays refused because another message
  has its key or its bounty for good (`Taken`). Assumed: a conversation has two
  users; nothing bounds the messages.

* `AuraPurchaseProofs`: type correctness, `AccessRestsOnConfirmation`,
  `ConfirmedWasOwned` and the refinement of `AuraGraph`. What a confirmation holds is
  an owner the token had at some moment, and a commit is only possible if the token
  is still what the transaction read. Assumed: claims and sales are of the declared
  users, the process sets are disjoint.
* `SessionsProofs`: type correctness, `RefreshTokensFormAChain`,
  `SessionsOnlyMoveForward`. Tokens have one origin (`TokenInv`), and a request whose
  token is still that of the session began after the last rotation (`RequestInv`).
  Assumed: a new token equals no earlier one.
* `AccountsProofs`: `NamedAvatarIsStored` and `StoredAvatarIsNeeded`. An avatar goes
  one way: generated once, to be named by one request (`ToNameInv`), read only by
  requests of the account that names it (`HasReadInv`), to be deleted only when
  nobody names it or its save was reported as failed (`ToDeleteInv`). Assumed: an
  object key is used once.
* `ServicesProofs`, in five parts.
  Lists: `NothingSkipped` and `NothingRepeated`. Each cursor matches exactly the rows
  that sort after the last row of its page (`CursorMatchesTheRest`), a page has the
  first of what its cursor matched (`PageComesFirst`, with cardinalities of finite
  sets), and moving up never moves a row behind a cursor (`MovedUpIsNotMatched`).
  Assumed: finitely many rows.
  Activity: `CreditIsElapsedTime`. A transaction that commits has read the last
  heartbeat, so that heartbeats are recorded in the order of their times whatever the
  order of their commits (`HeartbeatsInOrder`). The bound on the sum up to each day
  (`SumsInv`) is inductive because a commit raises a single day, that of the new
  heartbeat: the sums before it stay, and the sum up to it grows by what has elapsed
  since the last heartbeat. The bound on a single day needs its own invariant
  (`DaysInv`).
  Ranking: `RankingTypeOK`, that is, no score above 100, for any number of users,
  processes and batches.
  Reconciliation: `ReconciliationTypeOK`: no bounty is mirrored that the contract does
  not have, and the pointer stays within the ids that were given out, although
  processes overwrite each other's pointer. What a process goes on with was found on
  the contract (`IsSound`); that the registration it goes on with is the one it
  looked up needs that no two registrations have the same place (`PlacesInv`).
  Composition: `Services` implements the specification of each of its components
  (`ServicesImplementComponents`), so that everything proved of one, here and in
  `SessionsProofs` and `AccountsProofs`, holds of the composition
  (`ServicesTypeCorrectness`, `ServicesAreSafe`).

The sums of `Activity` and `Ranking` are `MapThenSumSet` of the community modules, a
recursive function over the subsets of a set. Theorems about it need induction, which
the library states with an operator as parameter, out of reach here. `SmallestSubset`
gives it as a statement about sets instead, taken from the library's
`FS_StrictSubsetOrderingWellFounded`: among the subsets of a finite set that
are counterexamples, one is minimal. From it follow that the recursion has one
solution (`SumUnique`, `SumExists`), its equation (`SumEquation`), and what the proofs
use: `SumType`, `SumUpdate`.

What the theorems rest on, besides the constants' assumptions: the theorems of
`BroadcastProofs` that say so take `LostSaves = FALSE`, as `broadcast_safety` does: no
save is applied that was reported as failed. `broadcast_lost_save` shows that
`PublishedIsComplete` does not hold without. Those that do not say so hold for both.

Every invariant and every action property of a passing run is a theorem, and so is
each of the four refinements. Only model-checked: liveness (`ClaimableIsResolved`,
`PaymentIsEventuallyRecorded`, `ExpiredIsRemoved`, `EventIsRecorded`, `EventSettles`,
`ReconciliationSettles`, `RankingConverges`, `RegisteredIsMirrored`), which is out of
TLAPS' reach, and the findings, which are counterexamples.

## 7. What is not modelled, and what comes next

External code (the contract, the RPC node, MongoDB's transactions, the object
store, the ledger's clock) is modelled from what `src/` asks of it and is marked
`external` in the map.

Not modelled:

* the HTTP surface: routing, validation, rate limits, the OpenAPI text,
  configuration and logging keep no state that outlives a request;
* wallet verification and image processing, which refuse a request or let it pass;
* the conversions of amounts, prices and contract values: functions of big
  integers and text, without state, which the unit tests reach;
* what the aggregations behind the discovery metrics compute: `Ranking` only needs
  that a metric stays between none and all of its weight. That `calculateDiscoverScore`
  is monotone in its metrics is not claimed: it rests on the logarithms and half-lives
  that this leaves out.

Planned, in this order:

1. what the abstract specifications promise by themselves (that a bounty is paid at
   most once, that access stays open) as theorems about them, which the
   refinements carry over to the code's models;
2. the conversions of amounts as operators against reference definitions.
