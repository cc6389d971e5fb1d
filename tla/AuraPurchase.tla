----------------------------- MODULE AuraPurchase -----------------------------
(***************************************************************************)
(* Aura purchases of beSeen-api: a buyer registers a token that was bought *)
(* on the contract, and three paths confirm it, possibly at the same time  *)
(* and in several processes: the request that registered it, the event of  *)
(* the purchase, and a job that asks the contract about pending tokens.    *)
(*                                                                         *)
(* Abstracted: a wallet is its user; a transaction hash is that of the     *)
(* purchase or not.  A confirmation is a MongoDB transaction: it reads in  *)
(* one action and commits in another, and the driver takes it back to its  *)
(* first read when a document that it writes was written in between.       *)
(***************************************************************************)
EXTENDS Integers, FiniteSets

CONSTANTS
  Tokens,     \* contract token ids
  Users,
  Claims,     \* bound: [buyer, subject, hash] that requests claim for a token
  Sales,      \* bound: <<buyer, subject>> of purchases of a token
  Tradable,   \* bound: tokens whose owner changes
  Requests,   \* requests that run registerAuraPurchase at the same time
  Pollers,    \* processes that handle purchase events
  Jobs,       \* processes that run reconcileRegisteredAuraPurchases
  BatchSize,  \* AURA_RECONCILIATION_BATCH_SIZE
  NoToken

ASSUME AuraAssumption ==
  /\ Claims \in [Tokens -> SUBSET [buyer : Users, subject : Users, hash : {"purchase", "other"}]]
  /\ Sales \in [Tokens -> SUBSET (Users \X Users)]
  /\ NoToken \notin Tokens
  /\ Requests \intersect Pollers = {} /\ Requests \intersect Jobs = {}
  /\ Pollers \intersect Jobs = {}
  /\ IsFiniteSet(Tokens)
  /\ BatchSize \in Nat \ {0}

VARIABLES
  aura,          \* the contract's own record of a token
  token,         \* AuraToken documents
  follow,        \* AuraFollow documents: the first token of a pair, or NoToken
  conversations, \* pairs of users with a Conversation document
  handled,       \* tokens whose purchase event some poller is done with
  process        \* local state of a request, a poller or a job

vars == <<aura, token, follow, conversations, handled, process>>
database == <<token, follow, conversations>>

Processes == Requests \union Pollers \union Jobs
Pairs == Users \X Users

-----------------------------------------------------------------------------
(* State *)

\* owners: everybody who has owned the token so far.
NotBought == [bought |-> FALSE]
Bought == [bought : {TRUE}, buyer : Users, subject : Users, owner : Users, owners : SUBSET Users]

\* wasConfirmed: confirmedAt is set; place: in the order of createdAt.
Statuses == {"pending", "confirmed", "failed"}
Unregistered == [status |-> "none"]
AuraToken ==
  [status : Statuses, buyer : Users, subject : Users, hash : {"purchase", "other"},
   wasConfirmed : BOOLEAN, place : Nat]

\* lookup: get_aura is called next; confirm: a transaction is to read the
\* token; commit: it has written what it decided.  The answer of a request is
\* read at its end, from the token as it is then.
Idle == [pc |-> "idle"]
Registered == [pc : {"lookup"}, token : Tokens]
Reconciling == [pc : {"lookup"}, todo : SUBSET Tokens]

\* A purchase as it was observed: every caller passes one user as its buyer and
\* its owner, the event the buyer and get_aura the owner.  todo is the rest of
\* a job's batch.
Observed ==
  [pc : {"confirm", "commit"}, token : Tokens, owner : Users, subject : Users,
   source : {"event", "reconciliation"}, todo : SUBSET Tokens]

TypeOK ==
  /\ aura \in [Tokens -> {NotBought} \union Bought]
  /\ token \in [Tokens -> {Unregistered} \union AuraToken]
  /\ follow \in [Pairs -> Tokens \union {NoToken}]
  /\ conversations \in SUBSET (SUBSET Users)
  /\ handled \in SUBSET Tokens
  /\ process \in [Processes -> {Idle} \union Registered \union Reconciling \union Observed]
  /\ \A p \in Requests : process[p] \in {Idle} \union Registered \union Observed
  /\ \A p \in Pollers : process[p] \in {Idle} \union Observed
  /\ \A p \in Jobs : process[p] \in {Idle} \union Reconciling \union Observed

Init ==
  /\ aura = [t \in Tokens |-> NotBought]
  /\ token = [t \in Tokens |-> Unregistered]
  /\ follow = [pair \in Pairs |-> NoToken]
  /\ conversations = {}
  /\ handled = {}
  /\ process = [p \in Processes |-> Idle]

IsRegistered(t) == token[t] # Unregistered
IsPending(t) == token[t].status = "pending"

-----------------------------------------------------------------------------
(* The contract *)

BuyAura(t, buyer, subject) ==
  /\ <<buyer, subject>> \in Sales[t]
  /\ aura[t] = NotBought
  /\ aura' = [aura EXCEPT ![t] =
       [bought |-> TRUE, buyer |-> buyer, subject |-> subject, owner |-> buyer,
        owners |-> {buyer}]]
  /\ UNCHANGED <<database, handled, process>>

TransferAura(t, to) ==
  /\ t \in Tradable
  /\ aura[t] # NotBought
  /\ aura[t].owner # to
  /\ aura' = [aura EXCEPT ![t] =
       [aura[t] EXCEPT !.owner = to, !.owners = aura[t].owners \union {to}]]
  /\ UNCHANGED <<database, handled, process>>

-----------------------------------------------------------------------------
(* confirmAuraPurchase, on all three paths *)

Become(p, r) == process' = [process EXCEPT ![p] = r]

Confirmation(t, owner, subject, source, todo) ==
  [pc |-> "confirm", token |-> t, owner |-> owner, subject |-> subject,
   source |-> source, todo |-> todo]

\* Mutant: the contract is asked again after each confirmation.
AskAgain(p) ==
  IF p \in Jobs THEN [pc |-> "lookup", todo |-> process[p].todo]
  ELSE [pc |-> "lookup", token |-> process[p].token]

\* When the confirmation returns the job goes on with its batch; a request
\* answers, and an event is done.
AfterConfirmation(p) ==
  IF p \in Jobs /\ process[p].todo # {} THEN [pc |-> "lookup", todo |-> process[p].todo]
  ELSE Idle

Done(p) == handled' = IF p \in Pollers THEN handled \union {process[p].token} ELSE handled

\* Mutant: an observation is compared with the registered buyer only.
MatchesBuyer(r) ==
  /\ token[r.token].buyer = r.owner
  /\ r.source = "event" => token[r.token].hash = "purchase"

\* Neither eventTransactionMismatch nor stateMismatch.
Matches(r) ==
  /\ token[r.token].buyer = r.owner
  /\ token[r.token].subject = r.subject
  /\ r.source = "event" => token[r.token].hash = "purchase"

IsOpen(t) == IsRegistered(t) /\ token[t].status # "failed"

\* The transaction reads the token; a missing or failed one is left alone.
ReadToken(p) ==
  LET r == process[p] IN
  /\ r.pc = "confirm"
  /\ IF IsOpen(r.token)
     THEN Become(p, [r EXCEPT !.pc = "commit"]) /\ UNCHANGED handled
     ELSE Become(p, AfterConfirmation(p)) /\ Done(p)
  /\ UNCHANGED <<aura, database>>

PairOf(t) == <<token[t].buyer, token[t].subject>>
Participants(t) == {token[t].buyer, token[t].subject}

\* Mutant: what others have written since is not noticed.
Unnoticed(r, t) == r

\* A transaction that has read what a commit for token t now writes begins
\* again.
Overtaken(r, t) ==
  IF r.pc = "commit" /\ (r.token = t \/ Participants(r.token) = Participants(t))
  THEN [r EXCEPT !.pc = "confirm"] ELSE r

\* AuraFollow.updateOne and ensureConversation, both upserts.
OpenAccess(t) ==
  /\ follow' = [follow EXCEPT ![PairOf(t)] =
       IF follow[PairOf(t)] = NoToken THEN t ELSE follow[PairOf(t)]]
  /\ conversations' = conversations \union {Participants(t)}

\* Mutant: access is opened before the observation is compared.
WriteAccessFirst(r) ==
  /\ OpenAccess(r.token)
  /\ token' = [token EXCEPT ![r.token] =
       [token[r.token] EXCEPT !.status = IF Matches(r) THEN "confirmed" ELSE "failed",
                              !.wasConfirmed = token[r.token].wasConfirmed \/ Matches(r)]]

\* A mismatch also fails a registration that was confirmed before, and takes
\* no access away.
WriteToken(r) ==
  \/ /\ Matches(r)
     /\ OpenAccess(r.token)
     /\ token' = [token EXCEPT ![r.token] =
          [token[r.token] EXCEPT !.status = "confirmed", !.wasConfirmed = TRUE]]
  \/ /\ ~Matches(r)
     /\ token' = [token EXCEPT ![r.token] = [token[r.token] EXCEPT !.status = "failed"]]
     /\ UNCHANGED <<follow, conversations>>

Continue(p, next) ==
  process' = [q \in Processes |->
    IF q = p THEN next ELSE Overtaken(process[q], process[p].token)]

\* The process learns that its transaction is in, or gets an error although
\* it is.
CommitToken(p) ==
  LET r == process[p] IN
  /\ r.pc = "commit"
  /\ WriteToken(r)
  /\ \/ Continue(p, AfterConfirmation(p)) /\ Done(p)
     \/ Continue(p, Idle) /\ UNCHANGED handled
  /\ UNCHANGED aura

\* A call throws, or the process stops.  The request swallows the error and
\* answers with what it finds; the handler and the job end with it.
Stop(p) ==
  /\ process[p] # Idle
  /\ Become(p, Idle)
  /\ UNCHANGED <<aura, database, handled>>

-----------------------------------------------------------------------------
(* registerAuraPurchase *)

SameClaim(t, claim) == PairOf(t) = <<claim.buyer, claim.subject>> /\ token[t].hash = claim.hash

\* The transaction of registerPending; the unique index over the token ids
\* puts two of them in an order.  A refused registration changes nothing.
RegisterPending(p, t, claim) ==
  /\ process[p] = Idle
  /\ claim.buyer # claim.subject
  /\ \/ /\ ~IsRegistered(t)
        /\ token' = [token EXCEPT ![t] =
             [status |-> "pending", buyer |-> claim.buyer, subject |-> claim.subject,
              hash |-> claim.hash, wasConfirmed |-> FALSE,
              place |-> Cardinality({u \in Tokens : IsRegistered(u)})]]
     \/ /\ IsRegistered(t) /\ SameClaim(t, claim)
        /\ UNCHANGED token
  /\ Become(p, [pc |-> "lookup", token |-> t])
  /\ UNCHANGED <<aura, follow, conversations, handled>>

\* get_aura: who owns the token now.
LookUp(p) ==
  LET t == process[p].token IN
  /\ process[p].pc = "lookup"
  /\ \/ /\ aura[t] # NotBought
        /\ Become(p, Confirmation(t, aura[t].owner, aura[t].subject,
                                  "reconciliation", {}))
     \/ /\ aura[t] = NotBought
        /\ Become(p, Idle)
  /\ UNCHANGED <<aura, database, handled>>

-----------------------------------------------------------------------------
(* handleAuraPurchaseEvent *)

AwaitsEvent(t) ==
  /\ token[t].status \in {"pending", "confirmed"}
  /\ token[t].hash = "purchase"

\* Mutant: the handler does not wait for the confirmation.
HandleWithoutWaiting(p, t) ==
  LET a == aura[t] IN
  /\ process[p] = Idle
  /\ a # NotBought
  /\ IF AwaitsEvent(t) THEN Become(p, Confirmation(t, a.buyer, a.subject, "event", {}))
     ELSE UNCHANGED process
  /\ handled' = handled \union {t}
  /\ UNCHANGED <<aura, database>>

\* The event comes with the poll, and again whenever checkpoints go back.
HandlePurchaseEvent(p, t) ==
  LET a == aura[t] IN
  /\ process[p] = Idle
  /\ a # NotBought
  /\ IF AwaitsEvent(t)
     THEN /\ Become(p, Confirmation(t, a.buyer, a.subject, "event", {}))
          /\ UNCHANGED handled
     ELSE /\ handled' = handled \union {t}
          /\ UNCHANGED process
  /\ UNCHANGED <<aura, database>>

-----------------------------------------------------------------------------
(* reconcileRegisteredAuraPurchases *)

\* Mutant: the batch is taken from all registrations.
OldestRegistered ==
  {t \in Tokens : IsPending(t) /\
     Cardinality({u \in Tokens : IsRegistered(u) /\ token[u].place < token[t].place}) < BatchSize}

OldestPending ==
  {t \in Tokens : IsPending(t) /\
     Cardinality({u \in Tokens : IsPending(u) /\ token[u].place < token[t].place}) < BatchSize}

ListPending(p) ==
  /\ process[p] = Idle
  /\ OldestPending # {}
  /\ Become(p, [pc |-> "lookup", todo |-> OldestPending])
  /\ UNCHANGED <<aura, database, handled>>

\* get_aura of the next token of the batch; what is not on the contract is
\* passed over.
LookUpNext(p) ==
  /\ process[p].pc = "lookup"
  /\ \E t \in process[p].todo :
       LET rest == process[p].todo \ {t} IN
       /\ \A u \in process[p].todo : token[t].place <= token[u].place
       /\ \/ /\ aura[t] # NotBought
             /\ Become(p, Confirmation(t, aura[t].owner, aura[t].subject,
                                       "reconciliation", rest))
          \/ /\ aura[t] = NotBought
             /\ Become(p, IF rest = {} THEN Idle ELSE [pc |-> "lookup", todo |-> rest])
  /\ UNCHANGED <<aura, database, handled>>

-----------------------------------------------------------------------------
ConfirmationStep(p) == ReadToken(p) \/ CommitToken(p)

RequestStep(p) == LookUp(p) \/ ConfirmationStep(p)
JobStep(p) == ListPending(p) \/ LookUpNext(p) \/ ConfirmationStep(p)

Next ==
  \/ \E t \in Tokens, buyer, subject \in Users : BuyAura(t, buyer, subject)
  \/ \E t \in Tokens, u \in Users : TransferAura(t, u)
  \/ \E p \in Requests :
       \/ \E t \in Tokens : \E claim \in Claims[t] : RegisterPending(p, t, claim)
       \/ RequestStep(p)
  \/ \E p \in Pollers :
       \/ \E t \in Tokens : HandlePurchaseEvent(p, t)
       \/ ConfirmationStep(p)
  \/ \E p \in Jobs : JobStep(p)
  \/ \E p \in Processes : Stop(p)

Spec == Init /\ [][Next]_vars

\* The timers poll the events that are not done, and run the job, forever.
\* Errors and crashes do not hit every attempt at the same call, and a
\* transaction is not overtaken every time.
ConfirmationIsFair(p) ==
  \A t \in Tokens :
    /\ SF_vars(ReadToken(p) /\ process[p].token = t)
    /\ SF_vars(CommitToken(p) /\ process[p].token = t)

PollingIsFair ==
  \A p \in Pollers :
    /\ \A t \in Tokens : SF_vars(HandlePurchaseEvent(p, t) /\ t \notin handled)
    /\ ConfirmationIsFair(p)

ReconciliationIsFair ==
  \A p \in Jobs :
    /\ SF_vars(ListPending(p))
    /\ \A n \in 1..BatchSize : SF_vars(LookUpNext(p) /\ Cardinality(process[p].todo) = n)
    /\ ConfirmationIsFair(p)

-----------------------------------------------------------------------------
(* Properties *)

WasConfirmed(t) == IsRegistered(t) /\ token[t].wasConfirmed

\* Follows and conversations are exactly those of the purchases that some
\* path has confirmed, whichever of them ran at the same time, stopped
\* halfway, was repeated or found the work done: a follow without a
\* conversation would be counted and could not be used, a conversation
\* without a follow would be open to nobody.
AccessRestsOnConfirmation ==
  /\ \A pair \in Pairs : follow[pair] # NoToken =>
       WasConfirmed(follow[pair]) /\ PairOf(follow[pair]) = pair
  /\ \A t \in Tokens : WasConfirmed(t) =>
       follow[PairOf(t)] # NoToken /\ Participants(t) \in conversations
  /\ \A c \in conversations : \E t \in Tokens : WasConfirmed(t) /\ Participants(t) = c

\* "Only matching authenticated buyer, subject, token ID, and on-chain
\* ownership" open access: a confirmed registration names somebody who has
\* owned that token for that subject, however old the observation is that
\* confirmed it.
ConfirmedWasOwned ==
  \A t \in Tokens : WasConfirmed(t) =>
    /\ aura[t] # NotBought
    /\ token[t].buyer \in aura[t].owners
    /\ token[t].subject = aura[t].subject

Graph == INSTANCE AuraGraph WITH
  claim <- [t \in Tokens |->
    IF IsRegistered(t) THEN [state |-> token[t].status, buyer |-> token[t].buyer,
                             subject |-> token[t].subject]
    ELSE [state |-> "none"]],
  following <- {pair \in Pairs : follow[pair] # NoToken},
  talking <- conversations

\* A confirmation opens the follow and the conversation in one step and at
\* most once, and a failed registration is never taken up again.
ImplementsAuraGraph == Graph!Spec

\* "A matching buy_aura event confirms it": a pending registration of the
\* right transaction is settled by the event if that is still to come, and
\* needs no request and no job to be fair for it.
EventSettles ==
  PollingIsFair => \A t \in Tokens :
    (IsPending(t) /\ token[t].hash = "purchase" /\ aura[t] # NotBought /\ t \notin handled)
      ~> ~IsPending(t)

\* "get_aura reconciliation recovers missed or event-before-API cases": a
\* pending registration of a token that is on the contract is settled by the
\* job alone, unless a whole batch of registrations without a purchase stands
\* in its way.
Unbought == {u \in Tokens : IsPending(u) /\ aura[u] = NotBought}
ReconciliationSettles ==
  ReconciliationIsFair => \A t \in Tokens :
    (IsPending(t) /\ aura[t] # NotBought /\ Cardinality(Unbought) < BatchSize)
      ~> ~(IsPending(t) /\ Cardinality(Unbought) < BatchSize)
=============================================================================
