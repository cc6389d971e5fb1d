----------------------- MODULE BountySettlementProofs -----------------------
(***************************************************************************)
(* Proofs about BountySettlement for any number of bounties, workers and   *)
(* event handlers, any response window and any time.  The safety           *)
(* properties are not inductive: what a worker will write depends on what  *)
(* it read some steps ago, so the invariant below says for every program   *)
(* counter what its holder may rely on.                                    *)
(***************************************************************************)
EXTENDS BountySettlement, TLAPS

\* What holds of a MessageBounty document by itself.
DocumentOK(d) ==
  /\ d.status = "none" =>
       /\ d.fundingStatus = "none" /\ d.settlementStatus = "none"
  /\ d.status \in {"none", "offered"} => d.claimableAt = Null
  /\ d.status \in {"offered", "claimable"} => d.fundingStatus = "contract_locked"
  /\ d.status = "offered" => d.settlementStatus = "pending"
  /\ d.status = "claimable" =>
       /\ d.claimableAt # Null
       /\ \/ d.settlementStatus = "pending"
          \/ d.settlementStatus = "processing" /\ d.lease # "null"
  /\ d.status = "claimed" => /\ d.fundingStatus = "contract_settled"
                             /\ d.settlementStatus = "confirmed"
  /\ d.status = "expired" => /\ d.fundingStatus \in {"contract_locked", "contract_refunded"}
                             /\ d.settlementStatus = "failed"
  /\ d.lease # "null" => d.settlementStatus = "processing"
  /\ d.claimableAt # Null => d.claimableAt < d.expiresAt

DocumentInv == \A b \in Bounties : DocumentOK(bounty[b])

\* A payment, pending or made, is for a timely reply.
PaymentInv ==
  \A b \in Bounties :
    (chain[b].status = "settled" \/ b \in inflight) =>
      chain[b].status # "absent" /\ TimelyReply(b)

\* What a worker has read still justifies what it is about to do.
WorkerInv ==
  \A w \in Workers :
    worker[w].pc # "idle" =>
      /\ worker[w].bounty \in Bounties
      /\ bounty[worker[w].bounty].claimableAt # Null
      /\ worker[w].pc \in {"submit", "poll"} =>
           chain[worker[w].bounty].status # "absent" /\ TimelyReply(worker[w].bounty)
      /\ worker[w].pc \in {"confirmMirror", "confirmBounty"} =>
           chain[worker[w].bounty].status = "settled"
      /\ worker[w].pc = "recordRefund" => chain[worker[w].bounty].status = "refunded"

\* A handler holds a status that the contract has or had, and rejects only a
\* registration that exists.
UpsertInv ==
  \A m \in Mirrors :
    upsert[m].pc # "idle" =>
      /\ upsert[m].bounty \in Bounties
      /\ bounty[upsert[m].bounty].status # "none"
      /\ upsert[m].status \in {"locked", chain[upsert[m].bounty].status}
      /\ upsert[m].pc \notin {"idle", "readChain"} =>
           chain[upsert[m].bounty].status # "absent"

IInv ==
  /\ TypeOK
  /\ DocumentInv
  /\ PaymentInv
  /\ DatabaseNotAheadOfContract
  /\ EarningMatchesBounty
  /\ WorkerInv
  /\ UpsertInv

\* The invariant of the proof gives the checked safety properties.
LEMMA IInvImplies ==
  ASSUME IInv
  PROVE  /\ PaidOnlyForTimelyReply
         /\ FundingMatchesStatus
         /\ ClaimableIsRecoverable
<1>1. PaidOnlyForTimelyReply
  BY DEF IInv, PaymentInv, PaidOnlyForTimelyReply
<1>2. FundingMatchesStatus
  BY DEF IInv, TypeOK, BountyDocument, Statuses, DocumentInv, DocumentOK, FundingMatchesStatus
<1>3. ClaimableIsRecoverable
  BY DEF IInv, DocumentInv, DocumentOK, ClaimableIsRecoverable
<1> QED
  BY <1>1, <1>2, <1>3

LEMMA InitIInv == Init => IInv
<1> SUFFICES ASSUME Init PROVE IInv
  OBVIOUS
<1> USE DEF Init, Null
<1>1. TypeOK
  BY DEF TypeOK, ContractRecord, ChainStatuses, BountyDocument, Statuses, Unregistered,
         WorkerRecord, WorkerPCs, IdleWorker, UpsertRecord, UpsertPCs, IdleUpsert
<1>2. DocumentInv
  BY DEF DocumentInv, DocumentOK, Unregistered
<1>3. PaymentInv /\ DatabaseNotAheadOfContract /\ EarningMatchesBounty
  BY DEF PaymentInv, DatabaseNotAheadOfContract, EarningMatchesBounty, Unregistered
<1>4. WorkerInv /\ UpsertInv
  BY DEF WorkerInv, UpsertInv, IdleWorker, IdleUpsert
<1> QED
  BY <1>1, <1>2, <1>3, <1>4 DEF IInv

-----------------------------------------------------------------------------
(* Steps that change no shared state: only what one handler knows. *)

LEMMA WorkerOnlyStep ==
  ASSUME IInv, NEW w \in Workers, NEW r \in WorkerRecord,
         UNCHANGED <<now, terms, chainVars, databaseVars, upsert>>,
         worker' = [worker EXCEPT ![w] = r],
         r.pc # "idle" =>
           /\ r.bounty = worker[w].bounty
           /\ worker[w].pc # "idle"
           /\ r.pc \in {"submit", "poll"} =>
                chain[r.bounty].status # "absent" /\ TimelyReply(r.bounty)
           /\ r.pc \in {"confirmMirror", "confirmBounty"} =>
                chain[r.bounty].status = "settled"
           /\ r.pc = "recordRefund" => chain[r.bounty].status = "refunded"
  PROVE  IInv'
<1> USE DEF IInv, chainVars, databaseVars
<1>1. TypeOK'
  BY DEF TypeOK
<1>2. DocumentInv' /\ PaymentInv' /\ DatabaseNotAheadOfContract' /\ EarningMatchesBounty'
  BY DEF DocumentInv, PaymentInv, TimelyReply, DatabaseNotAheadOfContract, EarningMatchesBounty
<1>3. WorkerInv'
  BY DEF TypeOK, WorkerInv, TimelyReply
<1>4. UpsertInv'
  BY DEF UpsertInv
<1> QED
  BY <1>1, <1>2, <1>3, <1>4

LEMMA UpsertOnlyStep ==
  ASSUME IInv, NEW m \in Mirrors, NEW r \in UpsertRecord,
         UNCHANGED <<now, terms, chainVars, databaseVars, worker>>,
         upsert' = [upsert EXCEPT ![m] = r],
         r.pc # "idle" =>
           /\ r.bounty \in Bounties
           /\ bounty[r.bounty].status # "none"
           /\ r.status \in {"locked", chain[r.bounty].status}
           /\ r.pc \notin {"idle", "readChain"} => chain[r.bounty].status # "absent"
  PROVE  IInv'
<1> USE DEF IInv, chainVars, databaseVars
<1>1. TypeOK'
  BY DEF TypeOK
<1>2. DocumentInv' /\ PaymentInv' /\ DatabaseNotAheadOfContract' /\ EarningMatchesBounty'
  BY DEF DocumentInv, PaymentInv, TimelyReply, DatabaseNotAheadOfContract, EarningMatchesBounty
<1>3. WorkerInv'
  BY DEF WorkerInv, TimelyReply
<1>4. UpsertInv'
  BY DEF TypeOK, UpsertInv
<1> QED
  BY <1>1, <1>2, <1>3, <1>4
-----------------------------------------------------------------------------
(* Steps that write the document of one bounty.                            *)

\* Any write keeps the invariant if the document it leaves is sound by
\* itself and its status and funding are covered by the contract, and if it
\* does not touch the reply time of a bounty that was replied to.
LEMMA DocumentWrite ==
  ASSUME IInv, NEW b \in Bounties, NEW d \in BountyDocument,
         bounty' = [bounty EXCEPT ![b] = d],
         UNCHANGED <<now, terms, chainVars>>,
         mirror' \in [Bounties -> ChainStatuses \union {"absent"}],
         worker' \in [Workers -> WorkerRecord],
         upsert' \in [Mirrors -> UpsertRecord],
         DocumentOK(d), d.status # "none",
         bounty[b].claimableAt # Null =>
           d.claimableAt = bounty[b].claimableAt /\ d.expiresAt = bounty[b].expiresAt,
         d.status = "claimed" => chain[b].status = "settled",
         d.fundingStatus = "contract_refunded" => chain[b].status = "refunded",
         earned' \subseteq earned \union {b},
         b \in earned' => d.status = "claimed",
         \A c \in Bounties : mirror'[c] # mirror[c] =>
           mirror'[c] = "settled" /\ chain[c].status = "settled",
         \A v \in Workers :
           \/ worker'[v] = worker[v] \/ worker'[v].pc = "idle"
           \/ worker'[v].pc = "read" /\ worker'[v].bounty = b /\ d.claimableAt # Null,
         \A m \in Mirrors : upsert'[m] = upsert[m] \/ upsert'[m].pc = "idle"
  PROVE  IInv'
<1> USE DEF IInv, chainVars, databaseVars
<1>1. bounty \in [Bounties -> BountyDocument]
  BY DEF TypeOK
<1>2. /\ bounty'[b] = d
      /\ \A c \in Bounties : c # b => bounty'[c] = bounty[c]
  BY <1>1
<1>3. TypeOK'
  BY <1>1 DEF TypeOK
<1>4. DocumentInv'
  BY <1>2 DEF DocumentInv
<1>5. \A c \in Bounties : bounty[c].claimableAt # Null =>
        /\ bounty'[c].claimableAt # Null
        /\ TimelyReply(c) => TimelyReply(c)'
  BY <1>2 DEF TimelyReply
<1>6. PaymentInv'
  BY <1>5 DEF PaymentInv, TimelyReply
<1>7. DatabaseNotAheadOfContract'
  BY <1>2 DEF DatabaseNotAheadOfContract
<1>8. EarningMatchesBounty'
  <2>1. \A c \in earned' : c = b \/ c \in earned
    OBVIOUS
  <2>2. \A c \in earned : c \in Bounties
    BY DEF TypeOK
  <2> QED
    BY <1>2, <2>1, <2>2 DEF EarningMatchesBounty
<1>9. WorkerInv'
  <2> SUFFICES ASSUME NEW v \in Workers, worker'[v].pc # "idle",
                      NEW c, c = worker'[v].bounty
               PROVE  /\ c \in Bounties
                      /\ bounty'[c].claimableAt # Null
                      /\ worker'[v].pc \in {"submit", "poll"} =>
                           chain'[c].status # "absent" /\ TimelyReply(c)'
                      /\ worker'[v].pc \in {"confirmMirror", "confirmBounty"} =>
                           chain'[c].status = "settled"
                      /\ worker'[v].pc = "recordRefund" => chain'[c].status = "refunded"
    BY DEF WorkerInv, TimelyReply
  <2>1. CASE worker'[v] = worker[v]
    BY <2>1, <1>5 DEF WorkerInv
  <2>2. CASE worker'[v].pc = "read" /\ worker'[v].bounty = b /\ d.claimableAt # Null
    BY <2>2, <1>2
  <2> QED
    BY <2>1, <2>2
<1>10. UpsertInv'
  BY <1>2 DEF UpsertInv
<1> QED
  BY <1>3, <1>4, <1>6, <1>7, <1>8, <1>9, <1>10
-----------------------------------------------------------------------------
(* The clock and the contract *)

LEMMA TickStep == IInv /\ Tick => IInv'
<1> SUFFICES ASSUME IInv, Tick PROVE IInv'
  OBVIOUS
<1> USE DEF IInv, Tick, chainVars, databaseVars
<1>1. TypeOK'
  BY DEF TypeOK
<1>2. DocumentInv' /\ PaymentInv' /\ DatabaseNotAheadOfContract' /\ EarningMatchesBounty'
  BY DEF DocumentInv, PaymentInv, TimelyReply, DatabaseNotAheadOfContract, EarningMatchesBounty
<1>3. WorkerInv' /\ UpsertInv'
  BY DEF WorkerInv, TimelyReply, UpsertInv
<1> QED
  BY <1>1, <1>2, <1>3

\* A step of the contract on one bounty: a deadline never moves once there is
\* a lock, a final status stays, and money is paid only when it was on its way.
LEMMA ContractStep ==
  ASSUME IInv, NEW b \in Bounties, NEW r \in ContractRecord,
         chain' = [chain EXCEPT ![b] = r],
         inflight' \subseteq inflight,
         UNCHANGED <<now, terms, databaseVars, worker, upsert>>,
         r.status # "absent",
         chain[b].status # "absent" =>
           chain[b].status = "locked" /\ r.deadline = chain[b].deadline,
         r.status = "settled" => b \in inflight
  PROVE  IInv'
<1> USE DEF IInv, databaseVars
<1>1. chain \in [Bounties -> ContractRecord]
  BY DEF TypeOK
<1>2. /\ chain'[b] = r
      /\ \A c \in Bounties : c # b => chain'[c] = chain[c]
  BY <1>1
<1>3. \A c \in Bounties : chain[c].status # "absent" =>
        /\ chain'[c].status # "absent"
        /\ chain'[c].deadline = chain[c].deadline
        /\ chain[c].status # "locked" => chain'[c] = chain[c]
  BY <1>2
<1>4. \A c \in Bounties :
        chain[c].status # "absent" /\ TimelyReply(c) => TimelyReply(c)'
  BY <1>3 DEF TimelyReply
<1>5. TypeOK'
  BY <1>1 DEF TypeOK
<1>6. DocumentInv' /\ EarningMatchesBounty'
  BY DEF DocumentInv, EarningMatchesBounty
<1>7. DatabaseNotAheadOfContract'
  BY <1>3 DEF DatabaseNotAheadOfContract
<1>8. PaymentInv'
  BY <1>2, <1>3, <1>4 DEF PaymentInv
<1>9. WorkerInv'
  <2> SUFFICES ASSUME NEW v \in Workers, worker[v].pc # "idle",
                      NEW c, c = worker[v].bounty
               PROVE  /\ c \in Bounties
                      /\ bounty[c].claimableAt # Null
                      /\ worker[v].pc \in {"submit", "poll"} =>
                           chain'[c].status # "absent" /\ TimelyReply(c)'
                      /\ worker[v].pc \in {"confirmMirror", "confirmBounty"} =>
                           chain'[c].status = "settled"
                      /\ worker[v].pc = "recordRefund" => chain'[c].status = "refunded"
    BY DEF WorkerInv, TimelyReply
  <2>1. c \in Bounties
    BY DEF WorkerInv
  <2> QED
    BY <2>1, <1>3, <1>4 DEF WorkerInv
<1>10. UpsertInv'
  <2> SUFFICES ASSUME NEW m \in Mirrors, upsert[m].pc # "idle",
                      NEW c, c = upsert[m].bounty
               PROVE  /\ c \in Bounties
                      /\ bounty[c].status # "none"
                      /\ upsert[m].status \in {"locked", chain'[c].status}
                      /\ upsert[m].pc \notin {"idle", "readChain"} =>
                           chain'[c].status # "absent"
    BY DEF UpsertInv
  <2>1. c \in Bounties /\ upsert[m].status \in ChainStatuses
    BY DEF UpsertInv, TypeOK, UpsertRecord
  <2> QED
    BY <2>1, <1>3 DEF UpsertInv, ChainStatuses
<1> QED
  BY <1>5, <1>6, <1>7, <1>8, <1>9, <1>10

LEMMA ContractNextStep == IInv /\ ContractNext => IInv'
<1> SUFFICES ASSUME IInv, NEW b \in Bounties,
                    LockBounty(b) \/ LandSettlement(b) \/ DropSettlement(b) \/ RefundBounty(b)
             PROVE  IInv'
  BY DEF ContractNext
<1>0. /\ chain \in [Bounties -> ContractRecord]
      /\ chain[b] \in ContractRecord
      /\ now \in Nat
  BY DEF IInv, TypeOK
<1>1. CASE LockBounty(b)
  <2>1. PICK window \in LockWindows :
          chain' = [chain EXCEPT ![b] = [status |-> "locked", deadline |-> now + window]]
    BY <1>1 DEF LockBounty
  <2> DEFINE r == [status |-> "locked", deadline |-> now + window]
  <2>2. r \in ContractRecord
    BY <1>0, TimeAssumption DEF ContractRecord, ChainStatuses
  <2> HIDE DEF r
  <2>3. r.status = "locked"
    BY DEF r
  <2> QED
    BY <1>1, <2>1, <2>2, <2>3, ContractStep DEF LockBounty, r
<1>2. CASE LandSettlement(b)
  <2> DEFINE r == [chain[b] EXCEPT !.status = "settled"]
  <2>1. r \in ContractRecord /\ r.status = "settled" /\ r.deadline = chain[b].deadline
    BY <1>0 DEF ContractRecord, ChainStatuses
  <2>2. chain' = [chain EXCEPT ![b] = r]
    BY <1>2 DEF LandSettlement
  <2> HIDE DEF r
  <2> QED
    BY <1>2, <2>1, <2>2, ContractStep DEF LandSettlement
<1>3. CASE DropSettlement(b)
  <2> USE <1>3 DEF IInv, DropSettlement, databaseVars
  <2>1. TypeOK'
    BY DEF TypeOK
  <2>2. DocumentInv' /\ PaymentInv' /\ DatabaseNotAheadOfContract' /\ EarningMatchesBounty'
    BY DEF DocumentInv, PaymentInv, TimelyReply, DatabaseNotAheadOfContract,
           EarningMatchesBounty
  <2>3. WorkerInv' /\ UpsertInv'
    BY DEF WorkerInv, TimelyReply, UpsertInv
  <2> QED
    BY <2>1, <2>2, <2>3
<1>4. CASE RefundBounty(b)
  <2> DEFINE r == [chain[b] EXCEPT !.status = "refunded"]
  <2>1. r \in ContractRecord /\ r.status = "refunded" /\ r.deadline = chain[b].deadline
    BY <1>0 DEF ContractRecord, ChainStatuses
  <2>2. chain' = [chain EXCEPT ![b] = r]
    BY <1>4 DEF RefundBounty
  <2> HIDE DEF r
  <2> QED
    BY <1>4, <2>1, <2>2, ContractStep DEF RefundBounty
<1> QED
  BY <1>1, <1>2, <1>3, <1>4
-----------------------------------------------------------------------------
(* The messenger *)

\* DocumentWrite for a handler that writes the document and nothing else.
LEMMA LoneDocumentWrite ==
  ASSUME IInv, NEW b \in Bounties, NEW d \in BountyDocument,
         bounty' = [bounty EXCEPT ![b] = d],
         UNCHANGED <<now, terms, chainVars, mirror, earned>>,
         worker' \in [Workers -> WorkerRecord],
         upsert' \in [Mirrors -> UpsertRecord],
         DocumentOK(d), d.status # "none",
         bounty[b].claimableAt # Null =>
           d.claimableAt = bounty[b].claimableAt /\ d.expiresAt = bounty[b].expiresAt,
         d.status = "claimed" => chain[b].status = "settled",
         d.fundingStatus = "contract_refunded" => chain[b].status = "refunded",
         bounty[b].status = "claimed" => d.status = "claimed",
         \A v \in Workers :
           \/ worker'[v] = worker[v] \/ worker'[v].pc = "idle"
           \/ worker'[v].pc = "read" /\ worker'[v].bounty = b /\ d.claimableAt # Null,
         \A m \in Mirrors : upsert'[m] = upsert[m] \/ upsert'[m].pc = "idle"
  PROVE  IInv'
<1>1. mirror \in [Bounties -> ChainStatuses \union {"absent"}]
  BY DEF IInv, TypeOK
<1>2. b \in earned' => d.status = "claimed"
  BY DEF IInv, EarningMatchesBounty
<1> QED
  BY <1>1, <1>2, DocumentWrite

LEMMA ExpireOfferStep ==
  ASSUME IInv, NEW b \in Bounties, NEW time, ExpireOffer(b, time),
         UNCHANGED <<now, terms, chainVars, mirror, earned, worker, upsert>>
  PROVE  IInv'
<1> DEFINE d == [bounty[b] EXCEPT !.status = "expired", !.settlementStatus = "failed"]
<1>1. bounty[b] \in BountyDocument /\ DocumentOK(bounty[b])
  BY DEF IInv, TypeOK, DocumentInv
<1>2. d \in BountyDocument
  BY <1>1 DEF BountyDocument, Statuses
<1>3. bounty' = [bounty EXCEPT ![b] = d]
  <2>1. bounty \in [Bounties -> BountyDocument]
    BY DEF IInv, TypeOK
  <2> QED
    BY <1>1, <1>2, <2>1 DEF ExpireOffer, BountyDocument
<1>4. DocumentOK(d)
  BY <1>1 DEF DocumentOK, ExpireOffer, BountyDocument, Statuses
<1>5. /\ d.status = "expired" /\ d.fundingStatus = "contract_locked"
      /\ d.claimableAt = bounty[b].claimableAt /\ d.expiresAt = bounty[b].expiresAt
      /\ bounty[b].status = "offered"
  BY <1>1 DEF ExpireOffer, BountyDocument
<1>6. worker \in [Workers -> WorkerRecord] /\ upsert \in [Mirrors -> UpsertRecord]
  BY DEF IInv, TypeOK
<1> HIDE DEF d
<1> QED
  BY <1>2, <1>3, <1>4, <1>5, <1>6, LoneDocumentWrite

LEMMA MessengerNextStep == IInv /\ MessengerNext => IInv'
<1> SUFFICES ASSUME IInv, NEW b \in Bounties,
                    RegisterBounty(b) \/ ReplyToBounty(b) \/ ExpireOfferedBounty(b)
             PROVE  IInv'
  BY DEF MessengerNext
<1>0. /\ bounty[b] \in BountyDocument /\ DocumentOK(bounty[b])
      /\ bounty \in [Bounties -> BountyDocument]
      /\ worker \in [Workers -> WorkerRecord] /\ upsert \in [Mirrors -> UpsertRecord]
      /\ now \in Nat /\ ResponseWindow \in Nat
  BY TimeAssumption DEF IInv, TypeOK, DocumentInv
<1>1. CASE RegisterBounty(b)
  <2>1. PICK createdAt \in CommitTimes :
          bounty' = [bounty EXCEPT ![b] =
            [status |-> "offered", fundingStatus |-> "contract_locked",
             settlementStatus |-> "pending", lease |-> "null",
             expiresAt |-> createdAt + ResponseWindow, claimableAt |-> Null]]
    BY <1>1 DEF RegisterBounty
  <2> DEFINE d == [status |-> "offered", fundingStatus |-> "contract_locked",
                   settlementStatus |-> "pending", lease |-> "null",
                   expiresAt |-> createdAt + ResponseWindow, claimableAt |-> Null]
  <2>2. d \in BountyDocument
    BY <1>0 DEF BountyDocument, Statuses, CommitTimes, Null
  <2>3. DocumentOK(d) /\ d.status = "offered" /\ d.fundingStatus = "contract_locked"
    BY DEF DocumentOK
  <2>4. bounty[b].status = "none" /\ bounty[b].claimableAt = Null
    BY <1>0, <1>1 DEF RegisterBounty, DocumentOK
  <2>5. bounty' = [bounty EXCEPT ![b] = d]
    BY <2>1
  <2> HIDE DEF d
  <2> QED
    BY <1>0, <1>1, <2>2, <2>3, <2>4, <2>5, LoneDocumentWrite DEF RegisterBounty
<1>2. CASE ReplyToBounty(b)
  <2>1. PICK repliedAt \in CommitTimes :
          \/ /\ bounty[b].expiresAt > repliedAt
             /\ bounty' = [bounty EXCEPT ![b].status = "claimable",
                                         ![b].claimableAt = repliedAt]
          \/ ExpireOffer(b, repliedAt)
    BY <1>2 DEF ReplyToBounty
  <2>2. CASE ExpireOffer(b, repliedAt)
    BY <1>2, <2>2, ExpireOfferStep DEF ReplyToBounty
  <2>3. CASE /\ bounty[b].expiresAt > repliedAt
             /\ bounty' = [bounty EXCEPT ![b].status = "claimable",
                                         ![b].claimableAt = repliedAt]
    <3> DEFINE d == [bounty[b] EXCEPT !.status = "claimable", !.claimableAt = repliedAt]
    <3>0. repliedAt \in Int /\ repliedAt >= 0 /\ bounty[b].status = "offered"
      BY <1>2 DEF CommitTimes, ReplyToBounty
    <3>1. d \in BountyDocument
      BY <1>0, <3>0 DEF BountyDocument, Statuses
    <3>2. bounty' = [bounty EXCEPT ![b] = d]
      BY <1>0, <2>3, <3>1 DEF BountyDocument
    <3>3. DocumentOK(d) /\ d.status = "claimable" /\ d.fundingStatus = "contract_locked"
      BY <1>0, <2>3, <3>0 DEF DocumentOK, BountyDocument, Statuses, Null
    <3>4. bounty[b].claimableAt = Null
      BY <1>0, <3>0 DEF DocumentOK
    <3> HIDE DEF d
    <3> QED
      BY <1>0, <1>2, <3>0, <3>1, <3>2, <3>3, <3>4, LoneDocumentWrite DEF ReplyToBounty
  <2> QED
    BY <2>1, <2>2, <2>3
<1>3. CASE ExpireOfferedBounty(b)
  BY <1>3, ExpireOfferStep DEF ExpireOfferedBounty
<1> QED
  BY <1>1, <1>2, <1>3
-----------------------------------------------------------------------------
(* The settlement worker *)

\* A worker whose update is guarded by settlementStatus: either the document
\* is the one it leaves behind, or nothing is written; then it is idle.
LEMMA GuardedWrite ==
  ASSUME IInv, NEW w \in Workers, worker[w].pc # "idle",
         NEW b, b = worker[w].bounty,
         NEW d \in BountyDocument,
         WriteIfProcessing(b, d), Stop(w),
         UNCHANGED <<now, terms, chainVars, mirror, earned, upsert>>,
         bounty[b].settlementStatus = "processing" =>
           /\ DocumentOK(d) /\ d.status # "none"
           /\ d.claimableAt = bounty[b].claimableAt /\ d.expiresAt = bounty[b].expiresAt
           /\ d.status = "claimed" => chain[b].status = "settled"
           /\ d.fundingStatus = "contract_refunded" => chain[b].status = "refunded"
           /\ bounty[b].status # "claimed"
  PROVE  IInv'
<1>0. /\ b \in Bounties
      /\ worker \in [Workers -> WorkerRecord] /\ upsert \in [Mirrors -> UpsertRecord]
  BY DEF IInv, WorkerInv, TypeOK
<1>1. IdleWorker \in WorkerRecord /\ IdleWorker.pc = "idle"
  BY DEF IdleWorker, WorkerRecord, WorkerPCs
<1>2. CASE bounty[b].settlementStatus = "processing"
  <2>1. bounty' = [bounty EXCEPT ![b] = d]
    BY <1>2 DEF WriteIfProcessing
  <2>2. /\ worker' \in [Workers -> WorkerRecord]
        /\ \A v \in Workers : worker'[v] = worker[v] \/ worker'[v].pc = "idle"
    BY <1>0, <1>1 DEF Stop
  <2> QED
    BY <1>0, <1>2, <2>1, <2>2, LoneDocumentWrite
<1>3. CASE bounty[b].settlementStatus # "processing"
  BY <1>1, <1>3, WorkerOnlyStep DEF WriteIfProcessing, Stop, databaseVars
<1> QED
  BY <1>2, <1>3

\* What the worker's actions may rely on.
LEMMA WorkerKnows ==
  ASSUME IInv, NEW w \in Workers, worker[w].pc # "idle", NEW b, b = worker[w].bounty
  PROVE  /\ b \in Bounties
         /\ bounty \in [Bounties -> BountyDocument]
         /\ bounty[b] \in BountyDocument /\ DocumentOK(bounty[b])
         /\ bounty[b].claimableAt # Null
         /\ bounty[b].status \notin {"none", "offered"}
         /\ chain[b] \in ContractRecord
         /\ worker \in [Workers -> WorkerRecord] /\ worker[w] \in WorkerRecord
         /\ upsert \in [Mirrors -> UpsertRecord]
<1>1. b \in Bounties /\ bounty[b].claimableAt # Null
  BY DEF IInv, WorkerInv
<1>2. /\ bounty \in [Bounties -> BountyDocument]
      /\ bounty[b] \in BountyDocument /\ DocumentOK(bounty[b])
      /\ chain[b] \in ContractRecord
      /\ worker \in [Workers -> WorkerRecord] /\ worker[w] \in WorkerRecord
      /\ upsert \in [Mirrors -> UpsertRecord]
  BY <1>1 DEF IInv, TypeOK, DocumentInv
<1> QED
  BY <1>1, <1>2 DEF DocumentOK

LEMMA WritesStep ==
  ASSUME IInv, NEW w \in Workers,
         MarkForRetry(w) \/ MarkFailed(w) \/ MarkRefunded(w) \/ MarkConfirmed(w)
  PROVE  IInv'
<1> DEFINE c == worker[w].bounty
<1>0. PICK b : b = c
  OBVIOUS
<1>1. worker[w].pc # "idle"
  BY DEF MarkForRetry, MarkFailed, MarkRefunded, MarkConfirmed
<1>2. /\ b \in Bounties /\ bounty[b] \in BountyDocument /\ DocumentOK(bounty[b])
      /\ bounty[b].status \notin {"none", "offered"}
      /\ bounty[b].claimableAt # Null
  BY <1>0, <1>1, WorkerKnows
<1>3. bounty[b].fundingStatus # "contract_refunded" \/ chain[b].status = "refunded"
  BY <1>2 DEF IInv, DatabaseNotAheadOfContract
<1>4. bounty[b].settlementStatus = "processing" =>
        bounty[b].status = "claimable" /\ bounty[b].fundingStatus = "contract_locked"
  BY <1>2 DEF DocumentOK, BountyDocument, Statuses
<1>5. CASE MarkForRetry(w)
  <2> DEFINE d == [bounty[b] EXCEPT !.settlementStatus = "pending", !.lease = "null"]
  <2>1. d \in BountyDocument
    BY <1>2 DEF BountyDocument
  <2>2. bounty[b].settlementStatus = "processing" =>
          /\ DocumentOK(d) /\ d.status = "claimable" /\ d.fundingStatus = "contract_locked"
          /\ d.claimableAt = bounty[b].claimableAt /\ d.expiresAt = bounty[b].expiresAt
    BY <1>2, <1>4 DEF DocumentOK, BountyDocument
  <2>3. WriteIfProcessing(b, d)
    BY <1>0, <1>5 DEF MarkForRetry
  <2> HIDE DEF d
  <2> QED
    BY <1>0, <1>1, <1>4, <1>5, <2>1, <2>2, <2>3, GuardedWrite DEF MarkForRetry
<1>6. CASE MarkFailed(w)
  <2> DEFINE d == [bounty[b] EXCEPT !.status = "expired", !.settlementStatus = "failed",
                                    !.lease = "null"]
  <2>1. d \in BountyDocument
    BY <1>2 DEF BountyDocument, Statuses
  <2>2. bounty[b].settlementStatus = "processing" =>
          /\ DocumentOK(d) /\ d.status = "expired" /\ d.fundingStatus = "contract_locked"
          /\ d.claimableAt = bounty[b].claimableAt /\ d.expiresAt = bounty[b].expiresAt
    BY <1>2, <1>4 DEF DocumentOK, BountyDocument
  <2>3. WriteIfProcessing(b, d)
    BY <1>0, <1>6 DEF MarkFailed
  <2> HIDE DEF d
  <2> QED
    BY <1>0, <1>1, <1>4, <1>6, <2>1, <2>2, <2>3, GuardedWrite DEF MarkFailed
<1>7. CASE MarkRefunded(w)
  <2> DEFINE d == [bounty[b] EXCEPT !.status = "expired",
                                    !.fundingStatus = "contract_refunded",
                                    !.settlementStatus = "failed", !.lease = "null"]
  <2>0. chain[b].status = "refunded"
    BY <1>0, <1>7 DEF IInv, WorkerInv, MarkRefunded
  <2>1. d \in BountyDocument
    BY <1>2 DEF BountyDocument, Statuses
  <2>2. bounty[b].settlementStatus = "processing" =>
          /\ DocumentOK(d) /\ d.status = "expired"
          /\ d.claimableAt = bounty[b].claimableAt /\ d.expiresAt = bounty[b].expiresAt
    BY <1>2, <1>4 DEF DocumentOK, BountyDocument
  <2>3. WriteIfProcessing(b, d)
    BY <1>0, <1>7 DEF MarkRefunded
  <2> HIDE DEF d
  <2> QED
    BY <1>0, <1>1, <1>4, <1>7, <2>0, <2>1, <2>2, <2>3, GuardedWrite DEF MarkRefunded
<1>8. CASE MarkConfirmed(w)
  <2> DEFINE d == Confirmed(b)
  <2>0. chain[b].status = "settled"
    BY <1>0, <1>8 DEF IInv, WorkerInv, MarkConfirmed
  <2>1. d \in BountyDocument
    BY <1>2 DEF BountyDocument, Statuses, Confirmed
  <2>2. bounty[b].settlementStatus = "processing" =>
          /\ DocumentOK(d) /\ d.status = "claimed" /\ d.fundingStatus = "contract_settled"
          /\ d.claimableAt = bounty[b].claimableAt /\ d.expiresAt = bounty[b].expiresAt
    BY <1>2, <1>4 DEF DocumentOK, BountyDocument, Confirmed
  <2>3. WriteIfProcessing(b, d)
    BY <1>0, <1>8 DEF MarkConfirmed
  <2> HIDE DEF d
  <2> QED
    BY <1>0, <1>1, <1>4, <1>8, <2>0, <2>1, <2>2, <2>3, GuardedWrite DEF MarkConfirmed
<1> QED
  BY <1>5, <1>6, <1>7, <1>8
LEMMA TakeLeaseStep ==
  ASSUME IInv, NEW w \in Workers, NEW b \in Bounties, TakeLease(w, b)
  PROVE  IInv'
<1> DEFINE d == [bounty[b] EXCEPT !.settlementStatus = "processing", !.lease = "held"]
<1> DEFINE r == [pc |-> "read", bounty |-> b, recovering |-> FALSE]
<1>0. /\ bounty[b] \in BountyDocument /\ DocumentOK(bounty[b])
      /\ bounty \in [Bounties -> BountyDocument]
      /\ worker \in [Workers -> WorkerRecord] /\ upsert \in [Mirrors -> UpsertRecord]
  BY DEF IInv, TypeOK, DocumentInv
<1>1. d \in BountyDocument
  BY <1>0 DEF BountyDocument
<1>2. bounty' = [bounty EXCEPT ![b] = d]
  BY <1>0, <1>1 DEF TakeLease, BountyDocument
<1>3. /\ DocumentOK(d) /\ d.status = "claimable" /\ d.fundingStatus = "contract_locked"
      /\ d.claimableAt = bounty[b].claimableAt /\ d.expiresAt = bounty[b].expiresAt
      /\ d.claimableAt # Null /\ bounty[b].status = "claimable"
  BY <1>0 DEF DocumentOK, BountyDocument, TakeLease, Settleable
<1>4. r \in WorkerRecord /\ r.pc = "read" /\ r.bounty = b
  BY DEF WorkerRecord, WorkerPCs
<1>5. worker' = [worker EXCEPT ![w] = r]
  BY DEF TakeLease
<1> HIDE DEF d, r
<1>6. /\ worker' \in [Workers -> WorkerRecord]
      /\ \A v \in Workers :
           worker'[v] = worker[v] \/ (worker'[v].pc = "read" /\ worker'[v].bounty = b)
  BY <1>0, <1>4, <1>5
<1> QED
  BY <1>0, <1>1, <1>2, <1>3, <1>6, LoneDocumentWrite DEF TakeLease

\* The steps of a worker that change only what it knows.
LEMMA ThinkingStep ==
  ASSUME IInv, NEW w \in Workers,
         \/ ReadContractBounty(w) \/ CallFails(w)
         \/ PollSucceeds(w) \/ PollFails(w)
         \/ RefreshContractBounty(w) \/ RefreshFails(w)
         \/ WriteFails(w) \/ WorkerCrash(w)
  PROVE  IInv'
<1> DEFINE c == worker[w].bounty
<1>0. PICK b : b = c
  OBVIOUS
<1>1. worker[w].pc # "idle"
  BY DEF ReadContractBounty, CallFails, PollSucceeds, PollFails, RefreshContractBounty,
         RefreshFails, WriteFails, WorkerCrash, WritePCs
<1>2. /\ b \in Bounties /\ bounty[b] \in BountyDocument /\ DocumentOK(bounty[b])
      /\ bounty[b].claimableAt # Null
      /\ chain[b] \in ContractRecord
      /\ worker \in [Workers -> WorkerRecord] /\ worker[w] \in WorkerRecord
  BY <1>0, <1>1, WorkerKnows
<1>3. UNCHANGED <<now, terms, chainVars, databaseVars, upsert>>
  BY DEF ReadContractBounty, CallFails, PollSucceeds, PollFails, RefreshContractBounty,
         RefreshFails, WriteFails, WorkerCrash
<1>4. ASSUME NEW pc \in WorkerPCs, NEW recovering \in BOOLEAN,
             worker' = [worker EXCEPT ![w] = [worker[w] EXCEPT !.pc = pc,
                                                               !.recovering = recovering]],
             pc \in {"submit", "poll"} => chain[b].status # "absent" /\ TimelyReply(b),
             pc \in {"confirmMirror", "confirmBounty"} => chain[b].status = "settled",
             pc = "recordRefund" => chain[b].status = "refunded"
      PROVE  IInv'
  <2> DEFINE r == [worker[w] EXCEPT !.pc = pc, !.recovering = recovering]
  <2>1. r \in WorkerRecord /\ r.pc = pc /\ r.bounty = b
    BY <1>0, <1>2 DEF WorkerRecord
  <2>2. worker' = [worker EXCEPT ![w] = r]
    BY <1>4
  <2> HIDE DEF r
  <2> QED
    <3>1. r.pc # "idle" =>
            /\ r.bounty = worker[w].bounty
            /\ worker[w].pc # "idle"
            /\ r.pc \in {"submit", "poll"} =>
                 chain[r.bounty].status # "absent" /\ TimelyReply(r.bounty)
            /\ r.pc \in {"confirmMirror", "confirmBounty"} =>
                 chain[r.bounty].status = "settled"
            /\ r.pc = "recordRefund" => chain[r.bounty].status = "refunded"
      BY <1>0, <1>1, <1>4, <2>1
    <3> QED
      BY <1>3, <2>1, <2>2, <3>1, WorkerOnlyStep
<1>5. ASSUME NEW pc \in WorkerPCs, Step(w, pc)
      PROVE  /\ worker[w].recovering \in BOOLEAN
             /\ worker' = [worker EXCEPT ![w] = [worker[w] EXCEPT !.pc = pc,
                              !.recovering = worker[w].recovering]]
  BY <1>2, <1>5 DEF Step, WorkerRecord
<1>6. ASSUME Recover(w)
      PROVE  worker' = [worker EXCEPT ![w] = [worker[w] EXCEPT !.pc = "refresh",
                                                               !.recovering = TRUE]]
  BY <1>2, <1>6 DEF Recover, WorkerRecord
<1>7. ASSUME Recover(w) PROVE IInv'
  <2>1. "refresh" \in WorkerPCs /\ TRUE \in BOOLEAN
    BY DEF WorkerPCs
  <2> QED
    BY <1>4, <1>6, <1>7, <2>1
<1>8. ASSUME Stop(w) PROVE IInv'
  <2>1. IdleWorker \in WorkerRecord /\ IdleWorker.pc = "idle"
    BY DEF IdleWorker, WorkerRecord, WorkerPCs
  <2> QED
    BY <1>3, <1>8, <2>1, WorkerOnlyStep DEF Stop
<1>9. ASSUME Step(w, "retry") \/ Step(w, "fail") PROVE IInv'
  <2>1. "retry" \in WorkerPCs /\ "fail" \in WorkerPCs
    BY DEF WorkerPCs, WritePCs
  <2> QED
    BY <1>4, <1>5, <1>9, <2>1
<1>10. ASSUME Step(w, "confirmMirror"), chain[b].status = "settled" PROVE IInv'
  <2>1. "confirmMirror" \in WorkerPCs
    BY DEF WorkerPCs, WritePCs
  <2> QED
    BY <1>4, <1>5, <1>10, <2>1
<1>11. CASE ReadContractBounty(w)
  <2>1. ASSUME Step(w, "recordRefund"), chain[b].status = "refunded" PROVE IInv'
    <3>1. "recordRefund" \in WorkerPCs
      BY DEF WorkerPCs, WritePCs
    <3> QED
      BY <1>4, <1>5, <2>1, <3>1
  <2>2. ASSUME Step(w, "submit"), chain[b].status = "locked", terms[b] = "agree",
               RepliedBeforeDeadline(b)
        PROVE  IInv'
    <3>1. "submit" \in WorkerPCs
      BY DEF WorkerPCs
    <3>2. TimelyReply(b)
      BY <1>2, <2>2 DEF TimelyReply, RepliedBeforeDeadline, DocumentOK
    <3> QED
      BY <1>4, <1>5, <2>2, <3>1, <3>2
  <2> QED
    BY <1>0, <1>9, <1>10, <1>11, <2>1, <2>2 DEF ReadContractBounty
<1>12. CASE RefreshContractBounty(w)
  BY <1>0, <1>9, <1>10, <1>12 DEF RefreshContractBounty
<1>13. CASE PollSucceeds(w)
  BY <1>0, <1>10, <1>13 DEF PollSucceeds
<1>14. CASE CallFails(w) \/ PollFails(w) \/ RefreshFails(w) \/ WriteFails(w) \/ WorkerCrash(w)
  BY <1>7, <1>8, <1>9, <1>14 DEF CallFails, PollFails, RefreshFails, WriteFails, WorkerCrash
<1> QED
  BY <1>11, <1>12, <1>13, <1>14
LEMMA SubmitSettlementStep ==
  ASSUME IInv, NEW w \in Workers, SubmitSettlement(w)
  PROVE  IInv'
<1> DEFINE c == worker[w].bounty
<1>0. PICK b : b = c
  OBVIOUS
<1>1. /\ b \in Bounties /\ worker \in [Workers -> WorkerRecord]
      /\ worker[w] \in WorkerRecord
  BY <1>0, WorkerKnows DEF SubmitSettlement
<1>2. chain[b].status # "absent" /\ TimelyReply(b)
  BY <1>0 DEF IInv, WorkerInv, SubmitSettlement
<1>3. inflight' = inflight \union {b}
  BY <1>0 DEF SubmitSettlement
<1>4. /\ worker' \in [Workers -> WorkerRecord]
      /\ worker'[w].pc = "poll" /\ worker'[w].bounty = b
      /\ \A v \in Workers : v # w => worker'[v] = worker[v]
  BY <1>0, <1>1 DEF SubmitSettlement, Step, WorkerRecord, WorkerPCs
<1> USE DEF IInv, databaseVars, SubmitSettlement
<1>5. TypeOK'
  BY <1>1, <1>3, <1>4 DEF TypeOK
<1>6. DocumentInv' /\ DatabaseNotAheadOfContract' /\ EarningMatchesBounty' /\ UpsertInv'
  BY DEF DocumentInv, DatabaseNotAheadOfContract, EarningMatchesBounty, UpsertInv
<1>7. PaymentInv'
  BY <1>2, <1>3 DEF PaymentInv, TimelyReply
<1>8. WorkerInv'
  <2> SUFFICES ASSUME NEW v \in Workers, worker'[v].pc # "idle",
                      NEW d, d = worker'[v].bounty
               PROVE  /\ d \in Bounties
                      /\ bounty[d].claimableAt # Null
                      /\ worker'[v].pc \in {"submit", "poll"} =>
                           chain[d].status # "absent" /\ TimelyReply(d)
                      /\ worker'[v].pc \in {"confirmMirror", "confirmBounty"} =>
                           chain[d].status = "settled"
                      /\ worker'[v].pc = "recordRefund" => chain[d].status = "refunded"
    BY DEF WorkerInv, TimelyReply
  <2>1. CASE v = w
    BY <1>1, <1>2, <1>4, <2>1 DEF TimelyReply
  <2>2. CASE v # w
    BY <1>4, <2>2 DEF WorkerInv
  <2> QED
    BY <2>1, <2>2
<1> QED
  BY <1>5, <1>6, <1>7, <1>8

\* A step of the worker on the mirrored status only.
LEMMA MarkMirrorSettledStep ==
  ASSUME IInv, NEW w \in Workers, MarkMirrorSettled(w)
  PROVE  IInv'
<1> DEFINE c == worker[w].bounty
<1>0. PICK b : b = c
  OBVIOUS
<1>1. /\ b \in Bounties /\ worker \in [Workers -> WorkerRecord]
      /\ worker[w] \in WorkerRecord
  BY <1>0, WorkerKnows DEF MarkMirrorSettled
<1>2. chain[b].status = "settled" /\ bounty[b].claimableAt # Null
  BY <1>0 DEF IInv, WorkerInv, MarkMirrorSettled
<1>3. mirror' = [mirror EXCEPT ![b] = IF @ = "absent" THEN @ ELSE "settled"]
  BY <1>0 DEF MarkMirrorSettled
<1>4. /\ worker' \in [Workers -> WorkerRecord]
      /\ worker'[w].pc = "confirmBounty" /\ worker'[w].bounty = b
      /\ \A v \in Workers : v # w => worker'[v] = worker[v]
  BY <1>0, <1>1 DEF MarkMirrorSettled, Step, WorkerRecord, WorkerPCs, WritePCs
<1> USE DEF IInv, chainVars, MarkMirrorSettled
<1>5. TypeOK'
  BY <1>1, <1>3, <1>4 DEF TypeOK, ChainStatuses
<1>6. DocumentInv' /\ PaymentInv' /\ EarningMatchesBounty' /\ UpsertInv'
  BY DEF DocumentInv, PaymentInv, TimelyReply, EarningMatchesBounty, UpsertInv
<1>7. DatabaseNotAheadOfContract'
  <2>1. \A d \in Bounties : mirror'[d] = mirror[d] \/ (d = b /\ mirror'[d] = "settled")
    BY <1>3 DEF TypeOK
  <2> QED
    BY <1>2, <2>1 DEF DatabaseNotAheadOfContract
<1>8. WorkerInv'
  <2> SUFFICES ASSUME NEW v \in Workers, worker'[v].pc # "idle",
                      NEW d, d = worker'[v].bounty
               PROVE  /\ d \in Bounties
                      /\ bounty[d].claimableAt # Null
                      /\ worker'[v].pc \in {"submit", "poll"} =>
                           chain[d].status # "absent" /\ TimelyReply(d)
                      /\ worker'[v].pc \in {"confirmMirror", "confirmBounty"} =>
                           chain[d].status = "settled"
                      /\ worker'[v].pc = "recordRefund" => chain[d].status = "refunded"
    BY DEF WorkerInv, TimelyReply
  <2>1. CASE v = w
    BY <1>1, <1>2, <1>4, <2>1
  <2>2. CASE v # w
    BY <1>4, <2>2 DEF WorkerInv
  <2> QED
    BY <2>1, <2>2
<1> QED
  BY <1>5, <1>6, <1>7, <1>8

LEMMA WorkerNextStep ==
  ASSUME IInv, NEW w \in Workers, WorkerNext(w)
  PROVE  IInv'
<1>1. CASE \E b \in Bounties : TakeLease(w, b)
  BY <1>1, TakeLeaseStep
<1>2. CASE MarkForRetry(w) \/ MarkFailed(w) \/ MarkRefunded(w) \/ MarkConfirmed(w)
  BY <1>2, WritesStep
<1>3. CASE SubmitSettlement(w)
  BY <1>3, SubmitSettlementStep
<1>4. CASE MarkMirrorSettled(w)
  BY <1>4, MarkMirrorSettledStep
<1>5. CASE \/ ReadContractBounty(w) \/ CallFails(w)
           \/ PollSucceeds(w) \/ PollFails(w)
           \/ RefreshContractBounty(w) \/ RefreshFails(w)
           \/ WriteFails(w) \/ WorkerCrash(w)
  BY <1>5, ThinkingStep
<1> QED
  BY <1>1, <1>2, <1>3, <1>4, <1>5 DEF WorkerNext

LEMMA LeaseRunsOutStep ==
  ASSUME IInv, NEW b \in Bounties, LeaseRunsOut(b)
  PROVE  IInv'
<1> DEFINE d == [bounty[b] EXCEPT !.lease = "lapsed"]
<1>0. /\ bounty[b] \in BountyDocument /\ DocumentOK(bounty[b])
      /\ bounty \in [Bounties -> BountyDocument]
      /\ worker \in [Workers -> WorkerRecord] /\ upsert \in [Mirrors -> UpsertRecord]
      /\ bounty[b].status = "claimed" => chain[b].status = "settled"
      /\ bounty[b].fundingStatus = "contract_refunded" => chain[b].status = "refunded"
  BY DEF IInv, TypeOK, DocumentInv, DatabaseNotAheadOfContract
<1>1. d \in BountyDocument
  BY <1>0 DEF BountyDocument
<1>2. bounty' = [bounty EXCEPT ![b] = d]
  BY <1>0, <1>1 DEF LeaseRunsOut, BountyDocument
<1>3. /\ DocumentOK(d) /\ d.status = bounty[b].status /\ d.status # "none"
      /\ d.fundingStatus = bounty[b].fundingStatus
      /\ d.claimableAt = bounty[b].claimableAt /\ d.expiresAt = bounty[b].expiresAt
  BY <1>0 DEF DocumentOK, BountyDocument, LeaseRunsOut
<1> HIDE DEF d
<1> QED
  BY <1>0, <1>1, <1>2, <1>3, LoneDocumentWrite DEF LeaseRunsOut
-----------------------------------------------------------------------------
(* Events and reconciliation *)

LEMMA RecordBountyEarningStep ==
  ASSUME IInv, NEW b \in Bounties, RecordBountyEarning(b)
  PROVE  IInv'
<1> DEFINE d == Confirmed(b)
<1>0. /\ bounty[b] \in BountyDocument /\ DocumentOK(bounty[b])
      /\ bounty \in [Bounties -> BountyDocument]
      /\ mirror \in [Bounties -> ChainStatuses \union {"absent"}]
      /\ worker \in [Workers -> WorkerRecord] /\ upsert \in [Mirrors -> UpsertRecord]
  BY DEF IInv, TypeOK, DocumentInv
<1>1. d \in BountyDocument
  BY <1>0 DEF BountyDocument, Statuses, Confirmed
<1>2. bounty' = [bounty EXCEPT ![b] = d]
  BY DEF RecordBountyEarning
<1>3. bounty[b].claimableAt # Null /\ chain[b].status = "settled"
  BY DEF IInv, PaymentInv, TimelyReply, RecordBountyEarning
<1>4. /\ DocumentOK(d) /\ d.status = "claimed" /\ d.fundingStatus = "contract_settled"
      /\ d.claimableAt = bounty[b].claimableAt /\ d.expiresAt = bounty[b].expiresAt
  BY <1>0, <1>3 DEF DocumentOK, BountyDocument, Confirmed
<1>5. /\ mirror' \in [Bounties -> ChainStatuses \union {"absent"}]
      /\ \A c \in Bounties : mirror'[c] # mirror[c] =>
           mirror'[c] = "settled" /\ chain[c].status = "settled"
  BY <1>0, <1>3 DEF RecordBountyEarning, ChainStatuses
<1> HIDE DEF d
<1> QED
  BY <1>0, <1>1, <1>2, <1>3, <1>4, <1>5, DocumentWrite DEF RecordBountyEarning

\* A handler writes the status it has read to the mirror, or nothing.
LEMMA MirrorWrite ==
  ASSUME IInv, NEW m \in Mirrors, upsert[m].pc \notin {"idle", "readChain"},
         NEW b, b = upsert[m].bounty,
         UNCHANGED <<now, terms, chainVars, bounty, earned, worker>>,
         mirror' \in [Bounties -> ChainStatuses \union {"absent"}],
         \A c \in Bounties :
           mirror'[c] = mirror[c] \/ (c = b /\ mirror'[c] = upsert[m].status),
         upsert' \in [Mirrors -> UpsertRecord],
         \A n \in Mirrors :
           \/ upsert'[n] = upsert[n] \/ upsert'[n].pc = "idle"
           \/ n = m /\ upsert'[n] = [upsert[m] EXCEPT !.pc = "save"]
  PROVE  IInv'
<1>0. /\ b \in Bounties /\ bounty[b].status # "none"
      /\ upsert[m] \in UpsertRecord
      /\ upsert[m].status \in {"locked", chain[b].status}
      /\ chain[b].status # "absent"
  BY DEF IInv, TypeOK, UpsertInv
<1> USE DEF IInv, chainVars
<1>1. TypeOK'
  BY DEF TypeOK
<1>2. DocumentInv' /\ PaymentInv' /\ EarningMatchesBounty' /\ WorkerInv'
  BY DEF DocumentInv, PaymentInv, TimelyReply, EarningMatchesBounty, WorkerInv
<1>3. DatabaseNotAheadOfContract'
  BY <1>0 DEF DatabaseNotAheadOfContract
<1>4. UpsertInv'
  <2> SUFFICES ASSUME NEW n \in Mirrors, upsert'[n].pc # "idle"
               PROVE  /\ upsert'[n].bounty \in Bounties
                      /\ bounty[upsert'[n].bounty].status # "none"
                      /\ upsert'[n].status \in {"locked", chain[upsert'[n].bounty].status}
                      /\ upsert'[n].pc \notin {"idle", "readChain"} =>
                           chain[upsert'[n].bounty].status # "absent"
    BY DEF UpsertInv
  <2>1. CASE upsert'[n] = upsert[n]
    BY <2>1 DEF UpsertInv
  <2>2. CASE upsert'[n] = [upsert[m] EXCEPT !.pc = "save"]
    BY <1>0, <2>2 DEF UpsertRecord
  <2> QED
    BY <2>1, <2>2
<1> QED
  BY <1>1, <1>2, <1>3, <1>4

LEMMA MirrorNextStep ==
  ASSUME IInv, NEW m \in Mirrors, MirrorNext(m)
  PROVE  IInv'
<1> DEFINE c == upsert[m].bounty
<1>a. PICK b : b = c
  OBVIOUS
<1>0. /\ upsert \in [Mirrors -> UpsertRecord] /\ upsert[m] \in UpsertRecord
      /\ bounty \in [Bounties -> BountyDocument]
      /\ worker \in [Workers -> WorkerRecord]
      /\ mirror \in [Bounties -> ChainStatuses \union {"absent"}]
      /\ chain \in [Bounties -> ContractRecord]
  BY DEF IInv, TypeOK
<1>b. upsert[m].pc # "idle" =>
        /\ b \in Bounties /\ bounty[b].status # "none"
        /\ bounty[b] \in BountyDocument /\ DocumentOK(bounty[b])
        /\ chain[b] \in ContractRecord
        /\ upsert[m].status \in {"locked", chain[b].status}
        /\ upsert[m].pc # "readChain" => chain[b].status # "absent"
  BY <1>0, <1>a DEF IInv, UpsertInv, DocumentInv
<1>c. IdleUpsert \in UpsertRecord /\ IdleUpsert.pc = "idle"
  BY DEF IdleUpsert, UpsertRecord, UpsertPCs, ChainStatuses
<1>d. ASSUME UNCHANGED <<now, terms, chainVars, databaseVars, worker>>,
             upsert' = [upsert EXCEPT ![m] = IdleUpsert]
      PROVE  IInv'
  BY <1>c, <1>d, UpsertOnlyStep
<1>e. ASSUME UNCHANGED <<now, terms, chainVars, databaseVars, worker>>,
             NEW pc \in {"check", "reject", "write"}, NEW status \in ChainStatuses,
             upsert' = [upsert EXCEPT ![m] = [upsert[m] EXCEPT !.pc = pc, !.status = status]],
             upsert[m].pc # "idle", status \in {"locked", chain[b].status},
             chain[b].status # "absent"
      PROVE  IInv'
  <2> DEFINE r == [upsert[m] EXCEPT !.pc = pc, !.status = status]
  <2>1. r \in UpsertRecord /\ r.bounty = b /\ r.status = status
    BY <1>0, <1>a, <1>e DEF UpsertRecord, UpsertPCs
  <2>2. upsert' = [upsert EXCEPT ![m] = r]
    BY <1>e
  <2> HIDE DEF r
  <2> QED
    BY <1>b, <1>e, <2>1, <2>2, UpsertOnlyStep
<1>1. ASSUME NEW e \in Bounties, HandleBountyLockEvent(m, e) PROVE IInv'
  <2>1. PICK status \in {"locked", chain[e].status} :
          upsert' = [upsert EXCEPT ![m] =
            [pc |-> "check", bounty |-> e, status |-> status, via |-> "event"]]
    BY <1>1 DEF HandleBountyLockEvent
  <2> DEFINE r == [pc |-> "check", bounty |-> e, status |-> status, via |-> "event"]
  <2>2. r \in UpsertRecord
    BY <1>0, <1>1 DEF UpsertRecord, UpsertPCs, ContractRecord, ChainStatuses,
                      HandleBountyLockEvent
  <2>3. bounty[e].status # "none"
    BY <1>1 DEF HandleBountyLockEvent, Registered, IInv, DocumentInv, DocumentOK
  <2> QED
    BY <1>1, <2>1, <2>2, <2>3, UpsertOnlyStep DEF HandleBountyLockEvent
<1>2. ASSUME NEW e \in Bounties, SelectUnmirrored(m, e) PROVE IInv'
  <2> DEFINE r == [pc |-> "readChain", bounty |-> e, status |-> "locked",
                   via |-> "reconciliation"]
  <2>1. r \in UpsertRecord
    BY DEF UpsertRecord, UpsertPCs, ChainStatuses
  <2>2. bounty[e].status # "none"
    BY <1>2 DEF SelectUnmirrored, Registered, IInv, DocumentInv, DocumentOK
  <2> QED
    BY <1>2, <2>1, <2>2, UpsertOnlyStep DEF SelectUnmirrored
<1>3. CASE ReconcileBounty(m)
  <2>1. CASE chain[b].status = "absent"
    BY <1>a, <1>3, <1>d, <2>1 DEF ReconcileBounty
  <2>2. CASE chain[b].status # "absent"
    <3>1. upsert' = [upsert EXCEPT ![m] = [upsert[m] EXCEPT !.pc = "check",
                                                           !.status = chain[b].status]]
      BY <1>0, <1>a, <1>3, <2>2 DEF ReconcileBounty, UpsertRecord
    <3>2. chain[b].status \in ChainStatuses /\ upsert[m].pc # "idle"
      BY <1>b, <1>3, <2>2 DEF ReconcileBounty, ContractRecord
    <3> QED
      BY <1>3, <1>e, <2>2, <3>1, <3>2 DEF ReconcileBounty
  <2> QED
    BY <2>1, <2>2
<1>4. CASE CheckRegistration(m)
  <2>1. ASSUME NEW pc \in {"reject", "write"}, upsert' = [upsert EXCEPT ![m].pc = pc]
        PROVE  IInv'
    <3>1. upsert' = [upsert EXCEPT ![m] = [upsert[m] EXCEPT !.pc = pc,
                                                           !.status = upsert[m].status]]
      BY <1>0, <2>1 DEF UpsertRecord
    <3>2. upsert[m].status \in ChainStatuses
      BY <1>0 DEF UpsertRecord
    <3> QED
      BY <1>b, <1>4, <1>e, <2>1, <3>1, <3>2 DEF CheckRegistration
  <2> QED
    BY <1>4, <1>d, <2>1 DEF CheckRegistration
<1>5. CASE RejectRegistration(m)
  <2>0. /\ upsert[m].pc = "reject" /\ upsert' = [upsert EXCEPT ![m] = IdleUpsert]
        /\ UNCHANGED <<now, terms, chainVars, mirror, earned, worker>>
    BY <1>5 DEF RejectRegistration
  <2>1. CASE bounty[b].fundingStatus = "contract_locked"
    <3> DEFINE d == [bounty[b] EXCEPT !.status = "expired", !.settlementStatus = "failed",
                                      !.lease = "null"]
    <3>1. d \in BountyDocument
      BY <1>b, <2>0 DEF BountyDocument, Statuses
    <3>2. bounty' = [bounty EXCEPT ![b] = d]
      BY <1>0, <1>a, <1>b, <1>5, <2>0, <2>1, <3>1 DEF RejectRegistration, BountyDocument
    <3>3. /\ DocumentOK(d) /\ d.status = "expired" /\ d.fundingStatus = "contract_locked"
          /\ d.claimableAt = bounty[b].claimableAt /\ d.expiresAt = bounty[b].expiresAt
          /\ bounty[b].status # "claimed"
      BY <1>b, <2>0, <2>1 DEF DocumentOK, BountyDocument
    <3>4. /\ upsert' \in [Mirrors -> UpsertRecord]
          /\ \A n \in Mirrors : upsert'[n] = upsert[n] \/ upsert'[n].pc = "idle"
      BY <1>0, <1>c, <2>0
    <3> HIDE DEF d
    <3> QED
      BY <1>0, <1>b, <2>0, <3>1, <3>2, <3>3, <3>4, LoneDocumentWrite
  <2>2. CASE bounty[b].fundingStatus # "contract_locked"
    <3>1. bounty' = bounty
      BY <1>a, <1>5, <2>2 DEF RejectRegistration
    <3> QED
      BY <1>d, <2>0, <3>1 DEF databaseVars
  <2> QED
    BY <2>1, <2>2
<1>6. CASE WriteMirror(m) \/ SaveMirror(m)
  <2>1. upsert[m].pc \notin {"idle", "readChain"}
    BY <1>6 DEF WriteMirror, SaveMirror
  <2>2. UNCHANGED <<now, terms, chainVars, bounty, earned, worker>>
    BY <1>6 DEF WriteMirror, SaveMirror
  <2>3. /\ mirror' \in [Bounties -> ChainStatuses \union {"absent"}]
        /\ \A e \in Bounties :
             mirror'[e] = mirror[e] \/ (e = b /\ mirror'[e] = upsert[m].status)
    BY <1>0, <1>a, <1>b, <1>6, <2>1 DEF WriteMirror, SaveMirror, UpsertRecord
  <2>4. \/ upsert' = [upsert EXCEPT ![m] = IdleUpsert]
        \/ upsert' = [upsert EXCEPT ![m] = [upsert[m] EXCEPT !.pc = "save"]]
    BY <1>0, <1>6 DEF WriteMirror, SaveMirror, UpsertRecord
  <2>5. [upsert[m] EXCEPT !.pc = "save"] \in UpsertRecord
    BY <1>0 DEF UpsertRecord, UpsertPCs
  <2>6. /\ upsert' \in [Mirrors -> UpsertRecord]
        /\ \A n \in Mirrors :
             \/ upsert'[n] = upsert[n] \/ upsert'[n].pc = "idle"
             \/ n = m /\ upsert'[n] = [upsert[m] EXCEPT !.pc = "save"]
    BY <1>0, <1>c, <2>4, <2>5
  <2> QED
    BY <1>a, <2>1, <2>2, <2>3, <2>6, MirrorWrite
<1>7. CASE MirrorStops(m)
  BY <1>7, <1>d DEF MirrorStops
<1> QED
  BY <1>1, <1>2, <1>3, <1>4, <1>5, <1>6, <1>7 DEF MirrorNext
-----------------------------------------------------------------------------
(* The theorems *)

LEMMA NextIInv == IInv /\ [Next]_vars => IInv'
<1> SUFFICES ASSUME IInv, [Next]_vars PROVE IInv'
  OBVIOUS
<1>1. CASE Tick
  BY <1>1, TickStep
<1>2. CASE ContractNext
  BY <1>2, ContractNextStep
<1>3. CASE MessengerNext
  BY <1>3, MessengerNextStep
<1>4. CASE \E b \in Bounties : LeaseRunsOut(b) \/ RecordBountyEarning(b)
  BY <1>4, LeaseRunsOutStep, RecordBountyEarningStep
<1>5. CASE \E w \in Workers : WorkerNext(w)
  BY <1>5, WorkerNextStep
<1>6. CASE \E m \in Mirrors : MirrorNext(m)
  BY <1>6, MirrorNextStep
<1>7. CASE UNCHANGED vars
  <2> USE <1>7 DEF vars, IInv
  <2>1. TypeOK' /\ DocumentInv' /\ PaymentInv'
    BY DEF TypeOK, DocumentInv, PaymentInv, TimelyReply
  <2>2. DatabaseNotAheadOfContract' /\ EarningMatchesBounty'
    BY DEF DatabaseNotAheadOfContract, EarningMatchesBounty
  <2>3. WorkerInv' /\ UpsertInv'
    BY DEF WorkerInv, TimelyReply, UpsertInv
  <2> QED
    BY <2>1, <2>2, <2>3
<1> QED
  BY <1>1, <1>2, <1>3, <1>4, <1>5, <1>6, <1>7 DEF Next

THEOREM InductiveInvariant == Spec => []IInv
<1> QED
  BY InitIInv, NextIInv, PTL DEF Spec

\* The documents, the contract and every handler's local state stay in their
\* types, however the handlers interleave.
THEOREM TypeCorrectness == Spec => []TypeOK
<1>1. IInv => TypeOK
  BY DEF IInv
<1> QED
  BY <1>1, InductiveInvariant, PTL

\* Stale workers, lost answers and late transactions never make the contract
\* pay for a reply that came too late or for a lock that does not agree with
\* its registration.
THEOREM TimelyPayment == Spec => []PaidOnlyForTimelyReply
<1>1. IInv => PaidOnlyForTimelyReply
  BY IInvImplies
<1> QED
  BY <1>1, InductiveInvariant, PTL

\* What the database says of a deposit, the contract has done.
THEOREM ContractLeads == Spec => []DatabaseNotAheadOfContract
<1>1. IInv => DatabaseNotAheadOfContract
  BY DEF IInv
<1> QED
  BY <1>1, InductiveInvariant, PTL

\* The updateOne calls keep the rule that the schema checks on validate() only.
THEOREM DocumentsStayConsistent == Spec => []FundingMatchesStatus
<1>1. IInv => FundingMatchesStatus
  BY IInvImplies DEF IInv
<1> QED
  BY <1>1, InductiveInvariant, PTL

\* markForRetry, markFailed and a crash leave no claimable bounty where
\* processNextReplySettlement cannot take it.
THEOREM ClaimableStaysRecoverable == Spec => []ClaimableIsRecoverable
<1>1. IInv => ClaimableIsRecoverable
  BY IInvImplies DEF IInv
<1> QED
  BY <1>1, InductiveInvariant, PTL

\* recordBountyEarning shows no earning of a bounty that is not claimed.
THEOREM EarningsAgree == Spec => []EarningMatchesBounty
<1>1. IInv => EarningMatchesBounty
  BY IInvImplies DEF IInv
<1> QED
  BY <1>1, InductiveInvariant, PTL

LEMMA ClaimedStays ==
  ASSUME IInv, Next, NEW b \in Bounties, bounty[b].status = "claimed"
  PROVE  bounty'[b] = bounty[b]
<1>0. /\ bounty \in [Bounties -> BountyDocument]
      /\ bounty[b] \in BountyDocument /\ DocumentOK(bounty[b])
  BY DEF IInv, TypeOK, DocumentInv
<1>1. /\ bounty[b].fundingStatus = "contract_settled"
      /\ bounty[b].settlementStatus = "confirmed" /\ bounty[b].lease = "null"
  BY <1>0 DEF DocumentOK, BountyDocument
<1>2. Confirmed(b) = bounty[b]
  BY <1>0, <1>1 DEF Confirmed, BountyDocument
<1>3. CASE Tick \/ ContractNext
  BY <1>3 DEF Tick, ContractNext, LockBounty, LandSettlement, DropSettlement, RefundBounty,
              databaseVars
<1>4. CASE MessengerNext
  BY <1>0, <1>4 DEF MessengerNext, RegisterBounty, ReplyToBounty, ExpireOfferedBounty,
                    ExpireOffer
<1>5. CASE \E c \in Bounties : LeaseRunsOut(c) \/ RecordBountyEarning(c)
  BY <1>0, <1>1, <1>2, <1>5 DEF LeaseRunsOut, RecordBountyEarning
<1>6. ASSUME NEW w \in Workers, WorkerNext(w) PROVE bounty'[b] = bounty[b]
  <2>1. CASE \E c \in Bounties : TakeLease(w, c)
    BY <1>0, <1>1, <2>1 DEF TakeLease, Settleable
  <2>2. CASE MarkForRetry(w) \/ MarkFailed(w) \/ MarkRefunded(w) \/ MarkConfirmed(w)
    BY <1>0, <1>1, <2>2 DEF MarkForRetry, MarkFailed, MarkRefunded, MarkConfirmed,
                            WriteIfProcessing
  <2>3. CASE ~(\E c \in Bounties : TakeLease(w, c))
             /\ ~(MarkForRetry(w) \/ MarkFailed(w) \/ MarkRefunded(w) \/ MarkConfirmed(w))
    BY <1>6, <2>3 DEF WorkerNext, ReadContractBounty, CallFails, SubmitSettlement,
         PollSucceeds, PollFails, RefreshContractBounty, RefreshFails, MarkMirrorSettled,
         WriteFails, WorkerCrash, databaseVars
  <2> QED
    BY <2>1, <2>2, <2>3
<1>7. ASSUME NEW m \in Mirrors, MirrorNext(m) PROVE bounty'[b] = bounty[b]
  <2>1. CASE RejectRegistration(m)
    BY <1>0, <1>1, <2>1 DEF RejectRegistration
  <2>2. CASE ~RejectRegistration(m)
    BY <1>7, <2>2 DEF MirrorNext, HandleBountyLockEvent, SelectUnmirrored, ReconcileBounty,
         CheckRegistration, WriteMirror, SaveMirror, MirrorStops, databaseVars
  <2> QED
    BY <2>1, <2>2
<1> QED
  BY <1>3, <1>4, <1>5, <1>6, <1>7 DEF Next

\* No handler takes a claimed bounty back, however late it writes.
THEOREM ClaimIsFinal == Spec => ClaimedIsFinal
<1>1. IInv /\ [Next]_vars =>
        [\A b \in Bounties : bounty[b].status = "claimed" => bounty'[b] = bounty[b]]_bounty
  BY ClaimedStays DEF vars
<1> QED
  BY <1>1, InductiveInvariant, PTL DEF Spec, ClaimedIsFinal
-----------------------------------------------------------------------------
(* The bounty implements BountyLifecycle: each step is a step of it or a     *)
(* stutter.                                                                  *)

\* A write that leaves the replies and the shown status alone is a stutter.
LEMMA MappedStutter ==
  ASSUME TypeOK, NEW b \in Bounties, NEW d,
         \/ bounty' = [bounty EXCEPT ![b] = d]
         \/ bounty' = bounty /\ d = bounty[b],
         chain' = chain,
         d.status = bounty[b].status, d.claimableAt = bounty[b].claimableAt
  PROVE  UNCHANGED Lifecycle!vars
<1>0. /\ bounty'[b] = d
      /\ \A c \in Bounties : c # b => bounty'[c] = bounty[c]
  BY DEF TypeOK
<1>1. [c \in Bounties |-> bounty'[c].status] = [c \in Bounties |-> bounty[c].status]
  BY <1>0
<1>2. {c \in Bounties : bounty'[c].claimableAt # Null} =
        {c \in Bounties : bounty[c].claimableAt # Null}
  BY <1>0
<1> QED
  BY <1>1, <1>2 DEF Lifecycle!vars

\* A write of "expired" over an offer or a claimable bounty gives it up.
LEMMA MappedGiveUp ==
  ASSUME TypeOK, NEW b \in Bounties, NEW d,
         bounty' = [bounty EXCEPT ![b] = d],
         chain' = chain,
         bounty[b].status \in {"offered", "claimable"},
         d.status = "expired", d.claimableAt = bounty[b].claimableAt
  PROVE  Lifecycle!GiveUp(b)
<1>0. /\ bounty'[b] = d
      /\ \A c \in Bounties : c # b => bounty'[c] = bounty[c]
  BY DEF TypeOK
<1>1. [c \in Bounties |-> bounty'[c].status] =
        [[c \in Bounties |-> bounty[c].status] EXCEPT ![b] = "expired"]
  <2>1. \A c \in Bounties :
          bounty'[c].status = IF c = b THEN "expired" ELSE bounty[c].status
    BY <1>0
  <2> QED
    BY <2>1, Zenon
<1>2. {c \in Bounties : bounty'[c].claimableAt # Null} =
        {c \in Bounties : bounty[c].claimableAt # Null}
  BY <1>0
<1> QED
  BY <1>1, <1>2 DEF Lifecycle!GiveUp

\* A write of "claimed" after the payment claims the bounty.
LEMMA MappedClaim ==
  ASSUME TypeOK, NEW b \in Bounties, NEW d,
         bounty' = [bounty EXCEPT ![b] = d],
         chain' = chain, chain[b].status = "settled",
         bounty[b].status \in {"claimable", "expired"},
         d.status = "claimed", d.claimableAt = bounty[b].claimableAt
  PROVE  Lifecycle!Claim(b)
<1>0. /\ bounty'[b] = d
      /\ \A c \in Bounties : c # b => bounty'[c] = bounty[c]
  BY DEF TypeOK
<1>1. [c \in Bounties |-> bounty'[c].status] =
        [[c \in Bounties |-> bounty[c].status] EXCEPT ![b] = "claimed"]
  <2>1. \A c \in Bounties :
          bounty'[c].status = IF c = b THEN "claimed" ELSE bounty[c].status
    BY <1>0
  <2> QED
    BY <2>1, Zenon
<1>2. {c \in Bounties : bounty'[c].claimableAt # Null} =
        {c \in Bounties : bounty[c].claimableAt # Null}
  BY <1>0
<1> QED
  BY <1>1, <1>2 DEF Lifecycle!Claim
\* A step of the contract on one lock.
LEMMA MappedContract ==
  ASSUME IInv, ContractNext
  PROVE  Lifecycle!Next \/ UNCHANGED Lifecycle!vars
<1>0. chain \in [Bounties -> ContractRecord]
  BY DEF IInv, TypeOK
<1> DEFINE Escrow(state) == CASE state = "absent" -> "none"
                              [] state = "locked" -> "locked"
                              [] state = "settled" -> "paid"
                              [] state = "refunded" -> "returned"
<1> DEFINE escrow == [c \in Bounties |-> Escrow(chain[c].status)]
<1> PICK b \in Bounties :
      LockBounty(b) \/ LandSettlement(b) \/ DropSettlement(b) \/ RefundBounty(b)
  BY DEF ContractNext
<1>1. bounty' = bounty
  BY DEF LockBounty, LandSettlement, DropSettlement, RefundBounty, databaseVars
<1>2. CASE DropSettlement(b)
  BY <1>1, <1>2 DEF DropSettlement, Lifecycle!vars
<1>3. ASSUME NEW state, state \in ChainStatuses, chain'[b].status = state,
             \A c \in Bounties : c # b => chain'[c] = chain[c]
      PROVE  escrow' = [escrow EXCEPT ![b] = Escrow(state)]
  <2> HIDE DEF Escrow
  <2>1. \A c \in Bounties :
          Escrow(chain'[c].status) = IF c = b THEN Escrow(state) ELSE Escrow(chain[c].status)
    BY <1>3
  <2> QED
    BY <2>1, Zenon
<1>4. CASE LockBounty(b)
  <2>1. chain'[b].status = "locked" /\ \A c \in Bounties : c # b => chain'[c] = chain[c]
    BY <1>0, <1>4 DEF LockBounty
  <2>2. escrow' = [escrow EXCEPT ![b] = Escrow("locked")] /\ Escrow("locked") = "locked"
    BY <1>3, <2>1 DEF ChainStatuses
  <2>3. escrow[b] = "none"
    BY <1>4 DEF LockBounty
  <2>4. Lifecycle!Deposit(b)
    BY <1>1, <2>2, <2>3 DEF Lifecycle!Deposit
  <2> QED
    BY <2>4 DEF Lifecycle!Next
<1>5. CASE LandSettlement(b)
  <2>1. chain'[b].status = "settled" /\ \A c \in Bounties : c # b => chain'[c] = chain[c]
    BY <1>0, <1>5 DEF LandSettlement, ContractRecord
  <2>2. escrow' = [escrow EXCEPT ![b] = Escrow("settled")] /\ Escrow("settled") = "paid"
    BY <1>3, <2>1 DEF ChainStatuses
  <2>3. escrow[b] = "locked"
    BY <1>5 DEF LandSettlement
  <2>4. b \in {c \in Bounties : bounty[c].claimableAt # Null}
    BY <1>5 DEF IInv, PaymentInv, TimelyReply, LandSettlement
  <2>5. Lifecycle!Pay(b)
    BY <1>1, <2>2, <2>3, <2>4 DEF Lifecycle!Pay
  <2> QED
    BY <2>5 DEF Lifecycle!Next
<1>6. CASE RefundBounty(b)
  <2>1. chain'[b].status = "refunded" /\ \A c \in Bounties : c # b => chain'[c] = chain[c]
    BY <1>0, <1>6 DEF RefundBounty, ContractRecord
  <2>2. escrow' = [escrow EXCEPT ![b] = Escrow("refunded")] /\ Escrow("refunded") = "returned"
    BY <1>3, <2>1 DEF ChainStatuses
  <2>3. escrow[b] = "locked"
    BY <1>6 DEF RefundBounty
  <2>4. Lifecycle!Return(b)
    BY <1>1, <2>2, <2>3 DEF Lifecycle!Return
  <2> QED
    BY <2>4 DEF Lifecycle!Next
<1> QED
  BY <1>2, <1>4, <1>5, <1>6

LEMMA MappedMessenger ==
  ASSUME IInv, MessengerNext
  PROVE  Lifecycle!Next \/ UNCHANGED Lifecycle!vars
<1> PICK b \in Bounties : RegisterBounty(b) \/ ReplyToBounty(b) \/ ExpireOfferedBounty(b)
  BY DEF MessengerNext
<1>0. /\ TypeOK /\ bounty \in [Bounties -> BountyDocument]
      /\ bounty[b] \in BountyDocument /\ DocumentOK(bounty[b])
      /\ chain' = chain /\ now \in Nat
  BY DEF IInv, TypeOK, DocumentInv, RegisterBounty, ReplyToBounty, ExpireOfferedBounty,
         chainVars
<1> DEFINE status == [c \in Bounties |-> bounty[c].status]
<1> DEFINE replied == {c \in Bounties : bounty[c].claimableAt # Null}
<1>1. ASSUME NEW time, ExpireOffer(b, time) PROVE Lifecycle!Next
  <2> DEFINE d == [bounty[b] EXCEPT !.status = "expired", !.settlementStatus = "failed"]
  <2>1. bounty' = [bounty EXCEPT ![b] = d]
    BY <1>0, <1>1 DEF ExpireOffer, BountyDocument
  <2>2. d.status = "expired" /\ d.claimableAt = bounty[b].claimableAt
        /\ bounty[b].status = "offered"
    BY <1>0, <1>1 DEF ExpireOffer, BountyDocument
  <2> HIDE DEF d
  <2>3. Lifecycle!GiveUp(b)
    BY <1>0, <2>1, <2>2, MappedGiveUp
  <2> QED
    BY <2>3 DEF Lifecycle!Next
<1>2. CASE RegisterBounty(b)
  <2>0. bounty[b].status = "none" /\ bounty[b].claimableAt = Null
    BY <1>0, <1>2 DEF RegisterBounty, DocumentOK
  <2>1. /\ bounty'[b].status = "offered" /\ bounty'[b].claimableAt = Null
        /\ \A c \in Bounties : c # b => bounty'[c] = bounty[c]
    BY <1>0, <1>2 DEF RegisterBounty
  <2>2. \A c \in Bounties : bounty'[c].status = IF c = b THEN "offered" ELSE bounty[c].status
    BY <2>1
  <2>3. status' = [status EXCEPT ![b] = "offered"]
    BY <2>2, Zenon
  <2>4. replied' = replied
    BY <2>0, <2>1
  <2>5. Lifecycle!Offer(b)
    BY <1>0, <2>0, <2>3, <2>4 DEF Lifecycle!Offer
  <2> QED
    BY <2>5 DEF Lifecycle!Next
<1>3. CASE ReplyToBounty(b)
  <2>1. PICK repliedAt \in CommitTimes :
          \/ /\ bounty[b].expiresAt > repliedAt
             /\ bounty' = [bounty EXCEPT ![b].status = "claimable",
                                         ![b].claimableAt = repliedAt]
          \/ ExpireOffer(b, repliedAt)
    BY <1>3 DEF ReplyToBounty
  <2>2. CASE bounty' = [bounty EXCEPT ![b].status = "claimable",
                                      ![b].claimableAt = repliedAt]
    <3>0. repliedAt # Null /\ bounty[b].status = "offered"
      BY <1>0, <1>3 DEF CommitTimes, Null, ReplyToBounty
    <3>1. /\ bounty'[b].status = "claimable" /\ bounty'[b].claimableAt = repliedAt
          /\ \A c \in Bounties : c # b => bounty'[c] = bounty[c]
      BY <1>0, <2>2 DEF BountyDocument
    <3>2. \A c \in Bounties :
            bounty'[c].status = IF c = b THEN "claimable" ELSE bounty[c].status
      BY <3>1
    <3>3. status' = [status EXCEPT ![b] = "claimable"]
      BY <3>2, Zenon
    <3>4. replied' = replied \union {b}
      BY <3>0, <3>1
    <3>5. Lifecycle!Reply(b)
      BY <1>0, <3>0, <3>3, <3>4 DEF Lifecycle!Reply
    <3> QED
      BY <3>5 DEF Lifecycle!Next
  <2> QED
    BY <1>1, <2>1, <2>2
<1>4. CASE ExpireOfferedBounty(b)
  BY <1>1, <1>4 DEF ExpireOfferedBounty
<1> QED
  BY <1>2, <1>3, <1>4
\* Everything a worker does is a stutter, a claim or giving up.
LEMMA MappedWorker ==
  ASSUME IInv, NEW w \in Workers, WorkerNext(w)
  PROVE  Lifecycle!Next \/ UNCHANGED Lifecycle!vars
<1>1. ASSUME NEW b \in Bounties, TakeLease(w, b)
      PROVE  UNCHANGED Lifecycle!vars
  <2> DEFINE d == [bounty[b] EXCEPT !.settlementStatus = "processing", !.lease = "held"]
  <2>0. /\ TypeOK /\ bounty \in [Bounties -> BountyDocument]
        /\ bounty[b] \in BountyDocument
    BY DEF IInv, TypeOK
  <2>1. bounty' = [bounty EXCEPT ![b] = d] /\ chain' = chain
    BY <1>1, <2>0 DEF TakeLease, BountyDocument, chainVars
  <2>2. d.status = bounty[b].status /\ d.claimableAt = bounty[b].claimableAt
    BY <2>0 DEF BountyDocument
  <2> HIDE DEF d
  <2> QED
    BY <2>0, <2>1, <2>2, MappedStutter
<1>2. CASE MarkForRetry(w) \/ MarkFailed(w) \/ MarkRefunded(w) \/ MarkConfirmed(w)
  <2> DEFINE k == worker[w].bounty
  <2> PICK b : b = k
    OBVIOUS
  <2>0. worker[w].pc # "idle" /\ TypeOK /\ chain' = chain
    BY <1>2 DEF IInv, MarkForRetry, MarkFailed, MarkRefunded, MarkConfirmed, chainVars
  <2>1. b \in Bounties /\ bounty[b] \in BountyDocument /\ DocumentOK(bounty[b])
    BY <2>0, WorkerKnows
  <2>2. CASE bounty[b].settlementStatus # "processing"
    BY <1>2, <2>0, <2>2 DEF MarkForRetry, MarkFailed, MarkRefunded, MarkConfirmed,
                            WriteIfProcessing, Lifecycle!vars
  <2>3. CASE bounty[b].settlementStatus = "processing"
    <3>0. bounty[b].status = "claimable"
      BY <2>1, <2>3, WorkerKnows, <2>0 DEF DocumentOK, BountyDocument, Statuses
    <3>1. CASE MarkForRetry(w)
      <4> DEFINE d == [bounty[b] EXCEPT !.settlementStatus = "pending", !.lease = "null"]
      <4>1. bounty' = [bounty EXCEPT ![b] = d]
        BY <2>3, <3>1 DEF MarkForRetry, WriteIfProcessing
      <4>2. d.status = bounty[b].status /\ d.claimableAt = bounty[b].claimableAt
        BY <2>1 DEF BountyDocument
      <4> HIDE DEF d
      <4> QED
        BY <2>0, <2>1, <4>1, <4>2, MappedStutter
    <3>2. CASE MarkFailed(w)
      <4> DEFINE d == [bounty[b] EXCEPT !.status = "expired", !.settlementStatus = "failed",
                                        !.lease = "null"]
      <4>1. bounty' = [bounty EXCEPT ![b] = d]
        BY <2>3, <3>2 DEF MarkFailed, WriteIfProcessing
      <4>2. d.status = "expired" /\ d.claimableAt = bounty[b].claimableAt
        BY <2>1 DEF BountyDocument
      <4> HIDE DEF d
      <4>3. Lifecycle!GiveUp(b)
        BY <2>0, <2>1, <3>0, <4>1, <4>2, MappedGiveUp
      <4> QED
        BY <2>1, <4>3 DEF Lifecycle!Next
    <3>3. CASE MarkRefunded(w)
      <4> DEFINE d == [bounty[b] EXCEPT !.status = "expired",
                                        !.fundingStatus = "contract_refunded",
                                        !.settlementStatus = "failed", !.lease = "null"]
      <4>1. bounty' = [bounty EXCEPT ![b] = d]
        BY <2>3, <3>3 DEF MarkRefunded, WriteIfProcessing
      <4>2. d.status = "expired" /\ d.claimableAt = bounty[b].claimableAt
        BY <2>1 DEF BountyDocument
      <4> HIDE DEF d
      <4>3. Lifecycle!GiveUp(b)
        BY <2>0, <2>1, <3>0, <4>1, <4>2, MappedGiveUp
      <4> QED
        BY <2>1, <4>3 DEF Lifecycle!Next
    <3>4. CASE MarkConfirmed(w)
      <4> DEFINE d == Confirmed(b)
      <4>0. chain[b].status = "settled"
        BY <3>4 DEF IInv, WorkerInv, MarkConfirmed
      <4>1. bounty' = [bounty EXCEPT ![b] = d]
        BY <2>3, <3>4 DEF MarkConfirmed, WriteIfProcessing
      <4>2. d.status = "claimed" /\ d.claimableAt = bounty[b].claimableAt
        BY <2>1 DEF BountyDocument, Confirmed
      <4> HIDE DEF d
      <4>3. Lifecycle!Claim(b)
        BY <2>0, <2>1, <3>0, <4>0, <4>1, <4>2, MappedClaim
      <4> QED
        BY <2>1, <4>3 DEF Lifecycle!Next
    <3> QED
      BY <1>2, <3>1, <3>2, <3>3, <3>4
  <2> QED
    BY <2>2, <2>3
<1>3. CASE \/ SubmitSettlement(w) \/ MarkMirrorSettled(w)
           \/ ReadContractBounty(w) \/ CallFails(w)
           \/ PollSucceeds(w) \/ PollFails(w)
           \/ RefreshContractBounty(w) \/ RefreshFails(w)
           \/ WriteFails(w) \/ WorkerCrash(w)
  <2>1. bounty' = bounty /\ chain' = chain
    BY <1>3 DEF SubmitSettlement, MarkMirrorSettled, ReadContractBounty, CallFails,
         PollSucceeds, PollFails, RefreshContractBounty, RefreshFails, WriteFails,
         WorkerCrash, chainVars, databaseVars
  <2> QED
    BY <2>1 DEF Lifecycle!vars
<1> QED
  BY <1>1, <1>2, <1>3 DEF WorkerNext

LEMMA MappedRest ==
  ASSUME IInv,
         \/ \E b \in Bounties : LeaseRunsOut(b) \/ RecordBountyEarning(b)
         \/ \E m \in Mirrors : MirrorNext(m)
  PROVE  Lifecycle!Next \/ UNCHANGED Lifecycle!vars
<1>0. /\ TypeOK /\ bounty \in [Bounties -> BountyDocument]
      /\ \A b \in Bounties : bounty[b] \in BountyDocument /\ DocumentOK(bounty[b])
  BY DEF IInv, TypeOK, DocumentInv
<1>1. ASSUME NEW b \in Bounties, LeaseRunsOut(b) PROVE UNCHANGED Lifecycle!vars
  <2> DEFINE d == [bounty[b] EXCEPT !.lease = "lapsed"]
  <2>1. bounty' = [bounty EXCEPT ![b] = d] /\ chain' = chain
    BY <1>0, <1>1 DEF LeaseRunsOut, BountyDocument, chainVars
  <2>2. d.status = bounty[b].status /\ d.claimableAt = bounty[b].claimableAt
    BY <1>0 DEF BountyDocument
  <2> HIDE DEF d
  <2> QED
    BY <1>0, <2>1, <2>2, MappedStutter
<1>2. ASSUME NEW b \in Bounties, RecordBountyEarning(b)
      PROVE  Lifecycle!Next \/ UNCHANGED Lifecycle!vars
  <2> DEFINE d == Confirmed(b)
  <2>1. bounty' = [bounty EXCEPT ![b] = d] /\ chain' = chain /\ chain[b].status = "settled"
    BY <1>2 DEF RecordBountyEarning, chainVars
  <2>2. d.status = "claimed" /\ d.claimableAt = bounty[b].claimableAt
    BY <1>0 DEF BountyDocument, Confirmed
  <2>3. bounty[b].status \in {"claimable", "expired", "claimed"}
    <3>1. bounty[b].claimableAt # Null
      BY <2>1 DEF IInv, PaymentInv, TimelyReply
    <3> QED
      BY <1>0, <3>1 DEF DocumentOK, BountyDocument, Statuses
  <2> HIDE DEF d
  <2>4. CASE bounty[b].status = "claimed"
    BY <1>0, <2>1, <2>2, <2>4, MappedStutter
  <2>5. CASE bounty[b].status # "claimed"
    <3>1. Lifecycle!Claim(b)
      BY <1>0, <2>1, <2>2, <2>3, <2>5, MappedClaim
    <3> QED
      BY <3>1 DEF Lifecycle!Next
  <2> QED
    BY <2>4, <2>5
<1>3. ASSUME NEW m \in Mirrors, MirrorNext(m)
      PROVE  Lifecycle!Next \/ UNCHANGED Lifecycle!vars
  <2>1. CASE ~RejectRegistration(m)
    <3>1. bounty' = bounty /\ chain' = chain
      BY <1>3, <2>1 DEF MirrorNext, HandleBountyLockEvent, SelectUnmirrored,
           ReconcileBounty, CheckRegistration, WriteMirror, SaveMirror, MirrorStops,
           databaseVars, chainVars
    <3> QED
      BY <3>1 DEF Lifecycle!vars
  <2>2. CASE RejectRegistration(m)
    <3> DEFINE k == upsert[m].bounty
    <3> PICK b : b = k
      OBVIOUS
    <3>1. b \in Bounties /\ bounty[b].status # "none" /\ chain' = chain
      BY <2>2 DEF IInv, UpsertInv, RejectRegistration, chainVars
    <3>2. CASE bounty[b].fundingStatus # "contract_locked"
      BY <2>2, <3>1, <3>2 DEF RejectRegistration, Lifecycle!vars
    <3>3. CASE bounty[b].fundingStatus = "contract_locked"
      <4> DEFINE d == [bounty[b] EXCEPT !.status = "expired", !.settlementStatus = "failed",
                                        !.lease = "null"]
      <4>1. bounty' = [bounty EXCEPT ![b] = d]
        BY <1>0, <2>2, <3>1, <3>3 DEF RejectRegistration, BountyDocument
      <4>2. d.status = "expired" /\ d.claimableAt = bounty[b].claimableAt
        BY <1>0, <3>1 DEF BountyDocument
      <4>3. bounty[b].status \in {"offered", "claimable", "expired"}
        BY <1>0, <3>1, <3>3 DEF DocumentOK, BountyDocument, Statuses
      <4> HIDE DEF d
      <4>4. CASE bounty[b].status = "expired"
        BY <1>0, <3>1, <4>1, <4>2, <4>4, MappedStutter
      <4>5. CASE bounty[b].status # "expired"
        <5>1. Lifecycle!GiveUp(b)
          BY <1>0, <3>1, <4>1, <4>2, <4>3, <4>5, MappedGiveUp
        <5> QED
          BY <3>1, <5>1 DEF Lifecycle!Next
      <4> QED
        BY <4>4, <4>5
    <3> QED
      BY <3>2, <3>3
  <2> QED
    BY <2>1, <2>2
<1> QED
  BY <1>1, <1>2, <1>3

\* The settlement machinery implements what BountyLifecycle promises to the
\* sponsor and the beneficiary.
THEOREM Refinement == Spec => ImplementsLifecycle
<1>1. Init => Lifecycle!Init
  <2> SUFFICES ASSUME Init PROVE Lifecycle!Init
    OBVIOUS
  <2> QED
    BY DEF Init, Lifecycle!Init, Unregistered
<1>2. IInv /\ [Next]_vars => [Lifecycle!Next]_(Lifecycle!vars)
  <2> SUFFICES ASSUME IInv, [Next]_vars
               PROVE  Lifecycle!Next \/ UNCHANGED Lifecycle!vars
    OBVIOUS
  <2>1. CASE Tick
    BY <2>1 DEF Tick, chainVars, databaseVars, Lifecycle!vars
  <2>2. CASE UNCHANGED vars
    BY <2>2 DEF vars, Lifecycle!vars
  <2>3. CASE \E w \in Workers : WorkerNext(w)
    BY <2>3, MappedWorker
  <2> QED
    BY <2>1, <2>2, <2>3, MappedContract, MappedMessenger, MappedRest DEF Next
<1> QED
  BY <1>1, <1>2, InductiveInvariant, PTL DEF Spec, ImplementsLifecycle, Lifecycle!Spec
=============================================================================
