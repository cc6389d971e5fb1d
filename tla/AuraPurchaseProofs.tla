-------------------------- MODULE AuraPurchaseProofs --------------------------
(***************************************************************************)
(* What TLAPS proves about AuraPurchase, for any number of tokens, users,  *)
(* requests, pollers and jobs.                                             *)
(*                                                                         *)
(* The properties are not inductive: a confirmation writes what follows    *)
(* from an observation that may be old.  RecordOK adds that an observed    *)
(* owner has owned the token, and that a token which a transaction is      *)
(* about to write has not failed since.                                    *)
(***************************************************************************)
EXTENDS AuraPurchase, FiniteSetTheorems, TLAPS

ObservationOK(r) ==
  /\ r \in Observed
  /\ aura[r.token] # NotBought
  /\ r.owner \in aura[r.token].owners
  /\ r.subject = aura[r.token].subject
  /\ r.pc = "commit" => IsOpen(r.token)

RecordOK(p, r) ==
  \/ r = Idle
  \/ p \in Requests /\ r \in Registered
  \/ p \in Jobs /\ r \in Reconciling
  \/ ObservationOK(r)

ProcessesOK ==
  /\ process \in [Processes -> {Idle} \union Registered \union Reconciling \union Observed]
  /\ \A p \in Processes : RecordOK(p, process[p])

ContractOK ==
  /\ aura \in [Tokens -> {NotBought} \union Bought]
  /\ \A t \in Tokens : aura[t] # NotBought =>
       aura[t].owner \in aura[t].owners /\ aura[t].buyer \in aura[t].owners

TokensOK ==
  /\ token \in [Tokens -> {Unregistered} \union AuraToken]
  /\ \A t \in Tokens : IsRegistered(t) =>
       /\ token[t].buyer # token[t].subject
       /\ token[t].status = "confirmed" => token[t].wasConfirmed
       /\ token[t].status = "pending" => ~token[t].wasConfirmed

AccessOK ==
  /\ follow \in [Pairs -> Tokens \union {NoToken}]
  /\ conversations \in SUBSET (SUBSET Users)
  /\ handled \in SUBSET Tokens
  /\ AccessRestsOnConfirmation

IInv == ContractOK /\ TokensOK /\ ProcessesOK /\ AccessOK /\ ConfirmedWasOwned

\* Records of different kinds differ.
LEMMA Kinds ==
  /\ \A r \in Observed : r # Idle /\ r.pc \in {"confirm", "commit"}
  /\ \A r \in Registered : r.pc = "lookup" /\ r.token \in Tokens
  /\ \A r \in Reconciling : r.pc = "lookup" /\ r.todo \in SUBSET Tokens
  /\ Idle.pc = "idle"
  /\ \A a \in Bought : a # NotBought
  /\ \A d \in AuraToken : d # Unregistered
  /\ Unregistered.status = "none"
<1>1. \A r \in Observed : r # Idle /\ r.pc \in {"confirm", "commit"}
  BY DEF Observed, Idle
<1>2. \A r \in Registered : r.pc = "lookup" /\ r.token \in Tokens
  BY DEF Registered
<1>3. \A r \in Reconciling : r.pc = "lookup" /\ r.todo \in SUBSET Tokens
  BY DEF Reconciling
<1>4. Idle.pc = "idle" /\ Unregistered.status = "none"
  BY DEF Idle, Unregistered
<1>5. \A a \in Bought : a # NotBought
  <2> SUFFICES ASSUME NEW a \in Bought PROVE a # NotBought
    OBVIOUS
  <2>1. a.bought = TRUE
    BY DEF Bought
  <2>2. NotBought.bought = FALSE
    BY DEF NotBought
  <2> QED BY <2>1, <2>2
<1>6. \A d \in AuraToken : d # Unregistered
  BY DEF AuraToken, Unregistered, Statuses
<1> QED BY <1>1, <1>2, <1>3, <1>4, <1>5, <1>6

\* The type invariant follows from the inductive one.
LEMMA InvariantImpliesTypes == IInv => TypeOK
<1> SUFFICES ASSUME IInv PROVE TypeOK
  OBVIOUS
<1>1. \A p \in Requests : process[p] \in {Idle} \union Registered \union Observed
  BY AuraAssumption DEF IInv, ProcessesOK, RecordOK, ObservationOK, Processes
<1>2. \A p \in Pollers : process[p] \in {Idle} \union Observed
  BY AuraAssumption DEF IInv, ProcessesOK, RecordOK, ObservationOK, Processes
<1>3. \A p \in Jobs : process[p] \in {Idle} \union Reconciling \union Observed
  BY AuraAssumption DEF IInv, ProcessesOK, RecordOK, ObservationOK, Processes
<1> QED BY <1>1, <1>2, <1>3 DEF IInv, ContractOK, TokensOK, ProcessesOK, AccessOK, TypeOK

LEMMA InitialInvariant == Init => IInv
<1> SUFFICES ASSUME Init PROVE IInv
  OBVIOUS
<1>1. \A t \in Tokens : ~IsRegistered(t) /\ ~WasConfirmed(t)
  BY DEF Init, IsRegistered, WasConfirmed
<1>2. ContractOK
  BY DEF Init, ContractOK
<1>3. TokensOK
  BY <1>1 DEF Init, TokensOK
<1>4. ProcessesOK
  BY DEF Init, ProcessesOK, RecordOK
<1>5. AccessOK
  BY <1>1 DEF Init, AccessOK, AccessRestsOnConfirmation, Pairs
<1>6. ConfirmedWasOwned
  BY <1>1 DEF ConfirmedWasOwned
<1> QED BY <1>2, <1>3, <1>4, <1>5, <1>6 DEF IInv

-----------------------------------------------------------------------------
(* Steps that only change the state of one process *)

LEMMA ProcessAdvances ==
  ASSUME IInv, NEW p \in Processes, NEW r, Become(p, r), UNCHANGED <<aura, database>>,
         r \in {Idle} \union Registered \union Reconciling \union Observed,
         RecordOK(p, r), handled' \in SUBSET Tokens
  PROVE IInv'
<1>1. process' \in [Processes -> {Idle} \union Registered \union Reconciling \union Observed]
  BY DEF IInv, ProcessesOK, Become
<1>2. \A q \in Processes : RecordOK(q, process'[q])
  BY DEF IInv, ProcessesOK, Become
<1>3. \A q \in Processes : RecordOK(q, process[q])'
  BY <1>2 DEF RecordOK, ObservationOK, IsOpen, IsRegistered, database
<1>4. ProcessesOK'
  BY <1>1, <1>3 DEF ProcessesOK
<1>5. ContractOK' /\ TokensOK'
  BY DEF IInv, ContractOK, TokensOK, IsRegistered, database
<1>6. AccessOK'
  BY DEF IInv, AccessOK, AccessRestsOnConfirmation, WasConfirmed, IsRegistered, PairOf,
         Participants, database
<1>7. ConfirmedWasOwned'
  BY DEF IInv, ConfirmedWasOwned, WasConfirmed, IsRegistered, database
<1> QED BY <1>4, <1>5, <1>6, <1>7 DEF IInv

LEMMA StopPreserves == ASSUME IInv, NEW p \in Processes, Stop(p) PROVE IInv'
BY ProcessAdvances DEF Stop, RecordOK, IInv, AccessOK

\* What get_aura or an event shows of a token that is on the contract.
LEMMA ObservationHolds ==
  ASSUME IInv, NEW t \in Tokens, aura[t] # NotBought,
         NEW owner \in {aura[t].owner, aura[t].buyer},
         NEW source \in {"event", "reconciliation"}, NEW todo \in SUBSET Tokens
  PROVE ObservationOK(Confirmation(t, owner, aura[t].subject, source, todo))
<1>1. aura[t] \in Bought
  BY DEF IInv, ContractOK
<1>2. owner \in Users /\ aura[t].subject \in Users /\ owner \in aura[t].owners
  BY <1>1 DEF IInv, ContractOK, Bought
<1> DEFINE r == Confirmation(t, owner, aura[t].subject, source, todo)
<1>3. r \in Observed
  BY <1>2 DEF Confirmation, Observed
<1>4. r.token = t /\ r.owner = owner /\ r.subject = aura[t].subject /\ r.pc = "confirm"
  BY DEF Confirmation
<1> HIDE DEF r
<1> QED BY <1>2, <1>3, <1>4 DEF ObservationOK, r

LEMMA LookUpPreserves == ASSUME IInv, NEW p \in Requests, LookUp(p) PROVE IInv'
<1> DEFINE t == process[p].token
<1>1. process[p] \in Registered /\ p \in Processes
  BY Kinds, AuraAssumption DEF LookUp, IInv, ProcessesOK, RecordOK, ObservationOK, Processes
<1>2. t \in Tokens
  BY <1>1, Kinds
<1>3. CASE aura[t] # NotBought
  <2> DEFINE r == Confirmation(t, aura[t].owner, aura[t].subject, "reconciliation", {})
  <2>1. ObservationOK(r)
    BY <1>2, <1>3, ObservationHolds
  <2>2. Become(p, r)
    BY <1>3 DEF LookUp
  <2> HIDE DEF r
  <2> QED BY <1>1, <2>1, <2>2, ProcessAdvances DEF LookUp, RecordOK, ObservationOK, IInv, AccessOK
<1>4. CASE aura[t] = NotBought
  BY <1>1, <1>4, ProcessAdvances DEF LookUp, RecordOK, IInv, AccessOK
<1> QED BY <1>3, <1>4

LEMMA EventPreserves ==
  ASSUME IInv, NEW p \in Pollers, NEW t \in Tokens, HandlePurchaseEvent(p, t) PROVE IInv'
<1>1. p \in Processes
  BY DEF Processes
<1>2. CASE AwaitsEvent(t)
  <2> DEFINE r == Confirmation(t, aura[t].buyer, aura[t].subject, "event", {})
  <2>1. ObservationOK(r)
    BY ObservationHolds DEF HandlePurchaseEvent
  <2>2. Become(p, r)
    BY <1>2 DEF HandlePurchaseEvent
  <2> HIDE DEF r
  <2> QED BY <1>1, <1>2, <2>1, <2>2, ProcessAdvances
            DEF HandlePurchaseEvent, RecordOK, ObservationOK, IInv, AccessOK
<1>3. CASE ~AwaitsEvent(t)
  <2>1. handled' \in SUBSET Tokens
    BY <1>3 DEF HandlePurchaseEvent, IInv, AccessOK
  <2>2. Become(p, process[p])
    BY <1>1, <1>3 DEF HandlePurchaseEvent, Become, IInv, ProcessesOK
  <2> QED BY <1>1, <2>1, <2>2, ProcessAdvances DEF HandlePurchaseEvent, IInv, ProcessesOK
<1> QED BY <1>2, <1>3

LEMMA ListPreserves == ASSUME IInv, NEW p \in Jobs, ListPending(p) PROVE IInv'
<1> DEFINE r == [pc |-> "lookup", todo |-> OldestPending]
<1>1. r \in Reconciling
  BY DEF Reconciling, OldestPending
<1>2. Become(p, r) /\ p \in Processes
  BY DEF ListPending, Processes
<1> HIDE DEF r
<1> QED BY <1>1, <1>2, ProcessAdvances DEF ListPending, RecordOK, IInv, AccessOK

LEMMA LookUpNextPreserves == ASSUME IInv, NEW p \in Jobs, LookUpNext(p) PROVE IInv'
<1>1. process[p] \in Reconciling /\ p \in Processes
  BY Kinds, AuraAssumption DEF LookUpNext, IInv, ProcessesOK, RecordOK, ObservationOK, Processes
<1>2. PICK t \in process[p].todo :
        \/ /\ aura[t] # NotBought
           /\ Become(p, Confirmation(t, aura[t].owner, aura[t].subject, "reconciliation",
                                     process[p].todo \ {t}))
        \/ /\ aura[t] = NotBought
           /\ Become(p, IF process[p].todo \ {t} = {} THEN Idle
                        ELSE [pc |-> "lookup", todo |-> process[p].todo \ {t}])
  BY DEF LookUpNext
<1> DEFINE rest == process[p].todo \ {t}
<1>3. t \in Tokens /\ rest \in SUBSET Tokens
  BY <1>1, Kinds
<1> HIDE DEF rest
<1>4. CASE aura[t] # NotBought
  <2> DEFINE r == Confirmation(t, aura[t].owner, aura[t].subject, "reconciliation", rest)
  <2>1. ObservationOK(r)
    BY <1>3, <1>4, ObservationHolds
  <2>2. Become(p, r)
    BY <1>2, <1>4 DEF rest
  <2> HIDE DEF r
  <2> QED BY <1>1, <2>1, <2>2, ProcessAdvances
            DEF LookUpNext, RecordOK, ObservationOK, IInv, AccessOK
<1>5. CASE aura[t] = NotBought
  <2>1. PICK r : r = IF rest = {} THEN Idle ELSE [pc |-> "lookup", todo |-> rest]
    OBVIOUS
  <2>2. r = Idle \/ r \in Reconciling
    BY <1>3, <2>1 DEF Reconciling
  <2>3. Become(p, r)
    BY <1>2, <1>5, <2>1 DEF rest
  <2> QED BY <1>1, <2>2, <2>3, ProcessAdvances DEF LookUpNext, RecordOK, IInv, AccessOK
<1> QED BY <1>4, <1>5

\* Where a process goes on after its confirmation.
LEMMA GoesOn ==
  ASSUME IInv, NEW p \in Processes, process[p] \in Observed
  PROVE AfterConfirmation(p) = Idle \/ (p \in Jobs /\ AfterConfirmation(p) \in Reconciling)
<1>1. process[p].todo \in SUBSET Tokens
  BY DEF Observed
<1>2. [pc |-> "lookup", todo |-> process[p].todo] \in Reconciling
  BY <1>1 DEF Reconciling
<1> DEFINE more == p \in Jobs /\ process[p].todo # {}
           r == [pc |-> "lookup", todo |-> process[p].todo]
<1>3. AfterConfirmation(p) = IF more THEN r ELSE Idle
  BY DEF AfterConfirmation
<1>4. r \in Reconciling /\ (more => p \in Jobs)
  BY <1>2
<1> HIDE DEF more, r
<1> QED BY <1>3, <1>4

LEMMA ReadPreserves == ASSUME IInv, NEW p \in Processes, ReadToken(p) PROVE IInv'
<1> DEFINE r == process[p]
<1>1. ObservationOK(r) /\ r \in Observed /\ r.pc = "confirm"
  BY Kinds DEF ReadToken, IInv, ProcessesOK, RecordOK, ObservationOK
<1>2. r.token \in Tokens
  BY <1>1 DEF Observed
<1>3. CASE IsOpen(r.token)
  <2>1. PICK s : s = [r EXCEPT !.pc = "commit"]
    OBVIOUS
  <2>2. s \in Observed /\ s.token = r.token /\ s.owner = r.owner /\ s.subject = r.subject
    BY <1>1, <2>1 DEF Observed
  <2>3. ObservationOK(s)
    BY <1>1, <1>3, <2>2 DEF ObservationOK
  <2>4. Become(p, s)
    BY <1>3, <2>1 DEF ReadToken
  <2> QED BY <1>3, <2>3, <2>4, ProcessAdvances DEF ReadToken, RecordOK, ObservationOK, IInv, AccessOK
<1>4. CASE ~IsOpen(r.token)
  <2>1. PICK s : s = AfterConfirmation(p)
    OBVIOUS
  <2>2. s = Idle \/ (p \in Jobs /\ s \in Reconciling)
    BY <1>1, <2>1, GoesOn
  <2>3. Become(p, s) /\ handled' \in SUBSET Tokens
    BY <1>2, <1>4, <2>1 DEF ReadToken, Done, IInv, AccessOK
  <2> QED BY <2>2, <2>3, ProcessAdvances DEF ReadToken, RecordOK
<1> QED BY <1>3, <1>4

-----------------------------------------------------------------------------
(* Steps of the contract and of a registration *)

\* Nothing that was observed of the contract is undone by it.
LEMMA ContractGrows ==
  ASSUME IInv, ContractOK', UNCHANGED <<database, handled, process>>,
         \A t \in Tokens : aura[t] # NotBought =>
           /\ aura'[t] # NotBought
           /\ aura'[t].subject = aura[t].subject
           /\ aura[t].owners \subseteq aura'[t].owners
  PROVE IInv'
<1>1. TokensOK'
  BY DEF IInv, TokensOK, IsRegistered, database
<1>2. \A r \in Observed : ObservationOK(r) => ObservationOK(r)'
  <2> SUFFICES ASSUME NEW r \in Observed, ObservationOK(r) PROVE ObservationOK(r)'
    OBVIOUS
  <2>1. r.token \in Tokens
    BY DEF Observed
  <2> QED BY <2>1 DEF ObservationOK, IsOpen, IsRegistered, database
<1>3. ProcessesOK'
  BY <1>2 DEF IInv, ProcessesOK, RecordOK, ObservationOK
<1>4. AccessOK'
  BY DEF IInv, AccessOK, AccessRestsOnConfirmation, WasConfirmed, IsRegistered, PairOf,
         Participants, database
<1>5. ConfirmedWasOwned'
  BY DEF IInv, ConfirmedWasOwned, WasConfirmed, IsRegistered, database
<1> QED BY <1>1, <1>3, <1>4, <1>5 DEF IInv

LEMMA BuyPreserves ==
  ASSUME IInv, NEW t \in Tokens, NEW b \in Users, NEW s \in Users, BuyAura(t, b, s)
  PROVE IInv'
<1> DEFINE a == [bought |-> TRUE, buyer |-> b, subject |-> s, owner |-> b, owners |-> {b}]
<1>1. a \in Bought /\ a.owner \in a.owners /\ a.buyer \in a.owners
  BY DEF Bought
<1>2. aura[t] = NotBought /\ aura' = [aura EXCEPT ![t] = a]
  BY DEF BuyAura
<1> HIDE DEF a
<1>3. ContractOK'
  BY <1>1, <1>2 DEF IInv, ContractOK
<1>4. \A u \in Tokens : aura[u] # NotBought => aura'[u] = aura[u]
  BY <1>2 DEF IInv, ContractOK
<1> QED BY <1>3, <1>4, ContractGrows DEF BuyAura

LEMMA TransferPreserves ==
  ASSUME IInv, NEW t \in Tokens, NEW u \in Users, TransferAura(t, u) PROVE IInv'
<1>1. PICK a : a = [aura[t] EXCEPT !.owner = u, !.owners = aura[t].owners \union {u}]
  OBVIOUS
<1>2. aura[t] \in Bought
  BY DEF TransferAura, IInv, ContractOK
<1>3. /\ a \in Bought /\ a.owner \in a.owners /\ a.buyer \in a.owners
      /\ a.subject = aura[t].subject /\ aura[t].owners \subseteq a.owners
  BY <1>1, <1>2 DEF Bought, TransferAura, IInv, ContractOK
<1>4. aura' = [aura EXCEPT ![t] = a]
  BY <1>1 DEF TransferAura
<1>5. ContractOK'
  BY <1>3, <1>4 DEF IInv, ContractOK
<1>6. \A v \in Tokens : aura[v] # NotBought =>
        /\ aura'[v] # NotBought
        /\ aura'[v].subject = aura[v].subject
        /\ aura[v].owners \subseteq aura'[v].owners
  BY <1>3, <1>4, Kinds DEF IInv, ContractOK
<1> QED BY <1>5, <1>6, ContractGrows DEF TransferAura

LEMMA RegisterPreserves ==
  ASSUME IInv, NEW p \in Requests, NEW t \in Tokens, NEW claim \in Claims[t],
         RegisterPending(p, t, claim)
  PROVE IInv'
<1>1. p \in Processes /\ [pc |-> "lookup", token |-> t] \in Registered
  BY DEF Processes, Registered
<1>2. CASE IsRegistered(t)
  <2>1. UNCHANGED <<aura, database>> /\ handled' \in SUBSET Tokens
    BY <1>2 DEF RegisterPending, database, IInv, AccessOK
  <2>2. PICK s : s = [pc |-> "lookup", token |-> t]
    OBVIOUS
  <2> QED BY <1>1, <2>1, <2>2, ProcessAdvances DEF RegisterPending, RecordOK
<1>3. CASE ~IsRegistered(t)
  <2> DEFINE d == [status |-> "pending", buyer |-> claim.buyer, subject |-> claim.subject,
                   hash |-> claim.hash, wasConfirmed |-> FALSE,
                   place |-> Cardinality({u \in Tokens : IsRegistered(u)})]
  <2>1. claim \in [buyer : Users, subject : Users, hash : {"purchase", "other"}]
    BY AuraAssumption
  <2>2. Cardinality({u \in Tokens : IsRegistered(u)}) \in Nat
    BY AuraAssumption, FS_Subset, FS_CardinalityType
  <2>3. d \in AuraToken /\ d.status = "pending" /\ d.wasConfirmed = FALSE /\ d.buyer # d.subject
    BY <2>1, <2>2 DEF AuraToken, Statuses, RegisterPending
  <2>4. token' = [token EXCEPT ![t] = d]
    BY <1>3 DEF RegisterPending
  <2> HIDE DEF d
  <2>5. \A u \in Tokens : u # t => token'[u] = token[u]
    BY <2>4 DEF IInv, TokensOK
  <2>6. token'[t] = d /\ token[t] = Unregistered /\ d # Unregistered
    BY <1>3, <2>3, <2>4, Kinds DEF IInv, TokensOK, IsRegistered
  <2>7. TokensOK'
    BY <2>3, <2>4, <2>5, <2>6 DEF IInv, TokensOK, IsRegistered
  <2>8. \A u \in Tokens :
          \/ token'[u] = token[u]
          \/ ~WasConfirmed(u) /\ ~IsOpen(u) /\ token'[u].wasConfirmed = FALSE
    BY <2>3, <2>5, <2>6 DEF WasConfirmed, IsOpen, IsRegistered
  <2>9. ProcessesOK'
    <3>1. process' = [process EXCEPT ![p] = [pc |-> "lookup", token |-> t]]
      BY DEF RegisterPending, Become
    <3>2. \A x \in Observed : ObservationOK(x) => ObservationOK(x)'
      <4> SUFFICES ASSUME NEW x \in Observed, ObservationOK(x) PROVE ObservationOK(x)'
        OBVIOUS
      <4>1. x.token \in Tokens
        BY DEF Observed
      <4>2. aura' = aura
        BY DEF RegisterPending
      <4>3. x.pc = "commit" => IsOpen(x.token)'
        BY <2>8, <4>1 DEF ObservationOK, IsOpen, IsRegistered
      <4> QED BY <4>2, <4>3 DEF ObservationOK
    <3>3. ASSUME NEW q \in Processes PROVE RecordOK(q, process[q])'
      <4>1. CASE q = p
        BY <1>1, <3>1, <4>1 DEF IInv, ProcessesOK, RecordOK
      <4>2. CASE q # p
        <5>1. PICK x : x = process[q]
          OBVIOUS
        <5>2. process'[q] = x /\ RecordOK(q, x)
          BY <3>1, <4>2, <5>1 DEF IInv, ProcessesOK
        <5>3. ObservationOK(x) => ObservationOK(x)'
          BY <3>2 DEF ObservationOK
        <5>4. ObservationOK(x)' => ObservationOK(process[q])'
          BY <5>2 DEF ObservationOK
        <5> QED BY <5>2, <5>3, <5>4 DEF RecordOK
      <4> QED BY <4>1, <4>2
    <3> QED BY <1>1, <3>1, <3>3 DEF IInv, ProcessesOK
  <2>10. AccessOK'
    <3>1. UNCHANGED <<follow, conversations, handled>>
      BY DEF RegisterPending
    <3>2. \A pair \in Pairs : follow[pair] # NoToken => follow[pair] \in Tokens
      BY DEF IInv, AccessOK
    <3>3. AccessRestsOnConfirmation'
      BY <2>8, <3>1, <3>2 DEF IInv, AccessOK, AccessRestsOnConfirmation, WasConfirmed,
         IsRegistered, PairOf, Participants
    <3> QED BY <3>1, <3>3 DEF IInv, AccessOK
  <2>11. ContractOK' /\ ConfirmedWasOwned'
    BY <2>8 DEF IInv, ContractOK, ConfirmedWasOwned, RegisterPending, WasConfirmed, IsRegistered
  <2> QED BY <2>7, <2>9, <2>10, <2>11 DEF IInv
<1> QED BY <1>2, <1>3

-----------------------------------------------------------------------------
(* The commit of a confirmation *)

\* What a commit finds and does: t is the token, d its document, e the one that
\* it writes.
LEMMA CommitEffect ==
  ASSUME IInv, NEW p \in Processes, CommitToken(p)
  PROVE \E t \in Tokens, d \in AuraToken, e \in AuraToken :
    /\ process[p].token = t /\ token[t] = d /\ d.status # "failed"
    /\ aura[t] # NotBought
    /\ token' = [token EXCEPT ![t] = e]
    /\ e.buyer = d.buyer /\ e.subject = d.subject
    /\ \/ /\ e.status = "confirmed" /\ e.wasConfirmed = TRUE
          /\ OpenAccess(t)
          /\ d.buyer \in aura[t].owners /\ d.subject = aura[t].subject
       \/ /\ e.status = "failed" /\ e.wasConfirmed = d.wasConfirmed
          /\ UNCHANGED <<follow, conversations>>
<1> DEFINE r == process[p]
           t == r.token
<1>1. ObservationOK(r) /\ r \in Observed /\ r.pc = "commit"
  BY Kinds DEF CommitToken, IInv, ProcessesOK, RecordOK, ObservationOK
<1>2. t \in Tokens /\ IsOpen(t)
  BY <1>1 DEF ObservationOK, Observed
<1>3. token[t] \in AuraToken /\ token[t].status # "failed"
  BY <1>2 DEF IsOpen, IsRegistered, IInv, TokensOK
<1>4. WriteToken(r)
  BY DEF CommitToken
<1>5. CASE Matches(r)
  <2>1. PICK e : e = [token[t] EXCEPT !.status = "confirmed", !.wasConfirmed = TRUE]
    OBVIOUS
  <2>2. token' = [token EXCEPT ![t] = e] /\ OpenAccess(t)
    BY <1>4, <1>5, <2>1 DEF WriteToken
  <2>3. e \in AuraToken /\ e.buyer = token[t].buyer /\ e.subject = token[t].subject
        /\ e.status = "confirmed" /\ e.wasConfirmed = TRUE
    BY <1>3, <2>1 DEF AuraToken, Statuses
  <2>4. token[t].buyer \in aura[t].owners /\ token[t].subject = aura[t].subject
    BY <1>1, <1>5 DEF Matches, ObservationOK
  <2> QED BY <1>1, <1>2, <1>3, <2>2, <2>3, <2>4 DEF ObservationOK
<1>6. CASE ~Matches(r)
  <2>1. PICK e : e = [token[t] EXCEPT !.status = "failed"]
    OBVIOUS
  <2>2. token' = [token EXCEPT ![t] = e] /\ UNCHANGED <<follow, conversations>>
    BY <1>4, <1>6, <2>1 DEF WriteToken
  <2>3. e \in AuraToken /\ e.buyer = token[t].buyer /\ e.subject = token[t].subject
        /\ e.status = "failed" /\ e.wasConfirmed = token[t].wasConfirmed
    BY <1>3, <2>1 DEF AuraToken, Statuses
  <2> QED BY <1>1, <1>2, <1>3, <2>2, <2>3 DEF ObservationOK
<1> QED BY <1>5, <1>6

LEMMA CommitPreserves == ASSUME IInv, NEW p \in Processes, CommitToken(p) PROVE IInv'
<1>1. PICK t \in Tokens, d \in AuraToken, e \in AuraToken :
    /\ process[p].token = t /\ token[t] = d /\ d.status # "failed"
    /\ aura[t] # NotBought
    /\ token' = [token EXCEPT ![t] = e]
    /\ e.buyer = d.buyer /\ e.subject = d.subject
    /\ \/ /\ e.status = "confirmed" /\ e.wasConfirmed = TRUE
          /\ OpenAccess(t)
          /\ d.buyer \in aura[t].owners /\ d.subject = aura[t].subject
       \/ /\ e.status = "failed" /\ e.wasConfirmed = d.wasConfirmed
          /\ UNCHANGED <<follow, conversations>>
  BY CommitEffect
<1>2. /\ token'[t] = e /\ e # Unregistered /\ d # Unregistered
      /\ \A u \in Tokens : u # t => token'[u] = token[u]
      /\ aura' = aura
  BY <1>1, Kinds DEF IInv, TokensOK, CommitToken
<1>3. TokensOK'
  BY <1>1, <1>2 DEF IInv, TokensOK, IsRegistered
<1>4. ContractOK'
  BY <1>2 DEF IInv, ContractOK
<1>5. \A u \in Tokens :
        /\ IsRegistered(u) => PairOf(u)' = PairOf(u) /\ Participants(u)' = Participants(u)
        /\ WasConfirmed(u) => WasConfirmed(u)'
        /\ u # t => (WasConfirmed(u)' <=> WasConfirmed(u)) /\ (IsOpen(u) => IsOpen(u)')
  BY <1>1, <1>2, <1>3 DEF IInv, TokensOK, PairOf, Participants, WasConfirmed, IsRegistered, IsOpen
<1>6. PairOf(t) \in Pairs /\ Participants(t) \in SUBSET Users
  BY <1>1 DEF PairOf, Participants, Pairs, AuraToken
<1>7. AccessOK'
  <2>1. handled' \in SUBSET Tokens
    BY <1>1 DEF CommitToken, Done, IInv, AccessOK
  <2>2. CASE e.status = "confirmed"
    <3>1. OpenAccess(t) /\ WasConfirmed(t)' /\ IsRegistered(t)
      BY <1>1, <1>2, <2>2 DEF WasConfirmed, IsRegistered
    <3>2. follow' \in [Pairs -> Tokens \union {NoToken}] /\ conversations' \in SUBSET (SUBSET Users)
      BY <1>6, <3>1 DEF OpenAccess, IInv, AccessOK
    <3>3. \A pair \in Pairs : follow'[pair] # NoToken =>
            \/ follow'[pair] = follow[pair] /\ follow[pair] \in Tokens
            \/ pair = PairOf(t) /\ follow'[pair] = t
      BY <1>6, <3>1 DEF OpenAccess, IInv, AccessOK
    <3>4. \A pair \in Pairs : follow'[pair] # NoToken =>
            WasConfirmed(follow[pair])' /\ PairOf(follow[pair])' = pair
      <4> SUFFICES ASSUME NEW pair \in Pairs, follow'[pair] # NoToken
                   PROVE WasConfirmed(follow[pair])' /\ PairOf(follow[pair])' = pair
        OBVIOUS
      <4>1. PICK u \in Tokens : u = follow'[pair]
        BY <3>3
      <4>2. WasConfirmed(u)' /\ PairOf(u)' = pair
        <5>1. CASE u = follow[pair]
          <6>1. follow[pair] # NoToken
            BY <4>1, <5>1
          <6> QED BY <1>5, <5>1, <6>1 DEF IInv, AccessOK, AccessRestsOnConfirmation, WasConfirmed
        <5>2. CASE u # follow[pair]
          BY <1>5, <3>1, <3>3, <4>1, <5>2
        <5> QED BY <5>1, <5>2
      <4> QED BY <4>1, <4>2 DEF WasConfirmed, IsRegistered, PairOf
    <3>5. follow'[PairOf(t)] # NoToken
          /\ \A pair \in Pairs : follow[pair] # NoToken => follow'[pair] # NoToken
      BY <1>6, <3>1, AuraAssumption DEF OpenAccess, IInv, AccessOK
    <3>6. \A u \in Tokens : WasConfirmed(u)' =>
            follow'[PairOf(u)'] # NoToken /\ Participants(u)' \in conversations'
      <4> SUFFICES ASSUME NEW u \in Tokens, WasConfirmed(u)'
                   PROVE follow'[PairOf(u)'] # NoToken /\ Participants(u)' \in conversations'
        OBVIOUS
      <4>1. CASE u = t
        BY <1>5, <3>1, <3>5, <4>1 DEF OpenAccess
      <4>2. CASE u # t
        <5>1. WasConfirmed(u) /\ IsRegistered(u) /\ PairOf(u) \in Pairs
          BY <1>5, <4>2 DEF WasConfirmed, IsRegistered, PairOf, Pairs, IInv, TokensOK, AuraToken
        <5>2. follow[PairOf(u)] # NoToken /\ Participants(u) \in conversations
          BY <5>1 DEF IInv, AccessOK, AccessRestsOnConfirmation
        <5> QED BY <1>5, <3>1, <3>5, <5>1, <5>2 DEF OpenAccess
      <4> QED BY <4>1, <4>2
    <3>7. \A c \in conversations' :
            \E u \in Tokens : WasConfirmed(u)' /\ Participants(u)' = c
      <4> SUFFICES ASSUME NEW c \in conversations'
                   PROVE \E u \in Tokens : WasConfirmed(u)' /\ Participants(u)' = c
        OBVIOUS
      <4>1. CASE c = Participants(t)
        BY <1>5, <3>1, <4>1
      <4>2. CASE c \in conversations
        <5>1. PICK u \in Tokens : WasConfirmed(u) /\ Participants(u) = c
          BY <4>2 DEF IInv, AccessOK, AccessRestsOnConfirmation
        <5> QED BY <1>5, <5>1 DEF WasConfirmed
      <4> QED BY <3>1, <4>1, <4>2 DEF OpenAccess
    <3> QED BY <2>1, <3>2, <3>4, <3>6, <3>7 DEF AccessOK, AccessRestsOnConfirmation
  <2>3. CASE e.status # "confirmed"
    <3>1. UNCHANGED <<follow, conversations>> /\ e.wasConfirmed = d.wasConfirmed
      BY <1>1, <2>3
    <3>2. \A u \in Tokens : WasConfirmed(u)' <=> WasConfirmed(u)
      BY <1>1, <1>2, <1>5, <3>1 DEF WasConfirmed, IsRegistered
    <3>3. \A u \in Tokens : WasConfirmed(u) =>
            PairOf(u)' = PairOf(u) /\ Participants(u)' = Participants(u)
      BY <1>5 DEF WasConfirmed
    <3>4. \A pair \in Pairs : follow[pair] # NoToken => follow[pair] \in Tokens
      BY DEF IInv, AccessOK
    <3>5. AccessRestsOnConfirmation'
      BY <3>1, <3>2, <3>3, <3>4 DEF IInv, AccessOK, AccessRestsOnConfirmation
    <3> QED BY <2>1, <3>1, <3>5 DEF IInv, AccessOK
  <2> QED BY <2>2, <2>3
<1>8. ConfirmedWasOwned'
  <2> SUFFICES ASSUME NEW u \in Tokens, WasConfirmed(u)'
               PROVE aura[u] # NotBought /\ token'[u].buyer \in aura[u].owners
                       /\ token'[u].subject = aura[u].subject
    BY <1>2 DEF ConfirmedWasOwned
  <2>1. CASE u # t
    BY <1>2, <1>5, <2>1 DEF IInv, ConfirmedWasOwned
  <2>2. CASE u = t /\ e.status = "confirmed"
    BY <1>1, <1>2, <2>2
  <2>3. CASE u = t /\ e.status # "confirmed"
    <3>1. WasConfirmed(t)
      BY <1>1, <1>2, <2>3 DEF WasConfirmed, IsRegistered
    <3> QED BY <1>1, <1>2, <2>3, <3>1 DEF IInv, ConfirmedWasOwned
  <2> QED BY <2>1, <2>2, <2>3
<1>9. ProcessesOK'
  <2>1. process[p] \in Observed
    BY Kinds DEF CommitToken, IInv, ProcessesOK, RecordOK, ObservationOK
  <2>2. PICK next : /\ next = AfterConfirmation(p) \/ next = Idle
                    /\ Continue(p, next)
    BY DEF CommitToken
  <2>3. next = Idle \/ (p \in Jobs /\ next \in Reconciling)
    BY <2>1, <2>2, GoesOn
  <2>4. process' = [q \in Processes |-> IF q = p THEN next ELSE Overtaken(process[q], t)]
    BY <1>1, <2>2 DEF Continue
  <2>5. ASSUME NEW q \in Processes, q # p
        PROVE /\ RecordOK(q, process[q])'
              /\ process'[q] \in {Idle} \union Registered \union Reconciling \union Observed
    <3>1. process'[q] = Overtaken(process[q], t)
      BY <2>4, <2>5
    <3>2. CASE ObservationOK(process[q])
      <4>1. PICK x : x = process[q]
        OBVIOUS
      <4>2. PICK y : y = [x EXCEPT !.pc = "confirm"]
        OBVIOUS
      <4>3. x \in Observed /\ x.token \in Tokens
        BY <3>2, <4>1 DEF ObservationOK, Observed
      <4>4. y \in Observed /\ y.token = x.token /\ y.owner = x.owner /\ y.subject = x.subject
              /\ y.pc = "confirm"
        BY <4>2, <4>3 DEF Observed
      <4>5. process'[q] = y \/ (process'[q] = x /\ (x.pc = "commit" => x.token # t))
        BY <3>1, <4>1, <4>2 DEF Overtaken
      <4>6. CASE process'[q] = y
        <5>1. ObservationOK(y)'
          BY <1>2, <3>2, <4>1, <4>4 DEF ObservationOK
        <5> QED BY <4>4, <4>6, <5>1 DEF RecordOK, ObservationOK
      <4>7. CASE process'[q] = x /\ (x.pc = "commit" => x.token # t)
        <5>1. x.pc = "commit" => IsOpen(x.token)'
          BY <1>5, <3>2, <4>1, <4>3, <4>7 DEF ObservationOK
        <5>2. ObservationOK(x)'
          BY <1>2, <3>2, <4>1, <4>3, <5>1 DEF ObservationOK
        <5> QED BY <4>3, <4>7, <5>2 DEF RecordOK, ObservationOK
      <4> QED BY <4>5, <4>6, <4>7
    <3>3. CASE ~ObservationOK(process[q])
      <4>1. \/ process[q] = Idle
            \/ q \in Requests /\ process[q] \in Registered
            \/ q \in Jobs /\ process[q] \in Reconciling
        BY <3>3 DEF IInv, ProcessesOK, RecordOK
      <4>2. process[q].pc # "commit"
        BY <4>1, Kinds
      <4>3. process'[q] = process[q]
        BY <3>1, <4>2 DEF Overtaken
      <4> QED BY <4>1, <4>3 DEF RecordOK
    <3> QED BY <3>2, <3>3
  <2>6. process'[p] = next
    BY <2>4
  <2>7. ASSUME NEW q \in Processes PROVE RecordOK(q, process[q])'
    <3>1. CASE q = p
      BY <2>3, <2>6, <3>1 DEF RecordOK
    <3> QED BY <2>5, <3>1
  <2>8. process' \in [Processes -> {Idle} \union Registered \union Reconciling \union Observed]
    BY <2>3, <2>4, <2>5, <2>6
  <2> QED BY <2>7, <2>8 DEF ProcessesOK
<1> QED BY <1>3, <1>4, <1>7, <1>8, <1>9 DEF IInv

LEMMA NextPreserves == IInv /\ [Next]_vars => IInv'
<1> SUFFICES ASSUME IInv, [Next]_vars PROVE IInv'
  OBVIOUS
<1>1. CASE UNCHANGED vars
  BY <1>1 DEF vars, database, IInv, ContractOK, TokensOK, ProcessesOK, RecordOK, ObservationOK,
              AccessOK, AccessRestsOnConfirmation, ConfirmedWasOwned, WasConfirmed, IsOpen,
              IsRegistered, PairOf, Participants
<1>2. ASSUME NEW t \in Tokens, NEW b \in Users, NEW s \in Users, BuyAura(t, b, s)
      PROVE IInv'
  BY <1>2, BuyPreserves
<1>3. ASSUME NEW t \in Tokens, NEW u \in Users, TransferAura(t, u) PROVE IInv'
  BY <1>3, TransferPreserves
<1>4. ASSUME NEW p \in Processes, ReadToken(p) \/ CommitToken(p) \/ Stop(p) PROVE IInv'
  BY <1>4, ReadPreserves, CommitPreserves, StopPreserves
<1>5. ASSUME NEW p \in Requests, NEW t \in Tokens, NEW claim \in Claims[t],
             RegisterPending(p, t, claim)
      PROVE IInv'
  BY <1>5, RegisterPreserves
<1>6. ASSUME NEW p \in Requests, LookUp(p) PROVE IInv'
  BY <1>6, LookUpPreserves
<1>7. ASSUME NEW p \in Pollers, NEW t \in Tokens, HandlePurchaseEvent(p, t) PROVE IInv'
  BY <1>7, EventPreserves
<1>8. ASSUME NEW p \in Jobs, ListPending(p) \/ LookUpNext(p) PROVE IInv'
  BY <1>8, ListPreserves, LookUpNextPreserves
<1> QED BY <1>1, <1>2, <1>3, <1>4, <1>5, <1>6, <1>7, <1>8
        DEF Next, RequestStep, JobStep, ConfirmationStep, Processes

-----------------------------------------------------------------------------
(* Theorems *)

\* What each request, poller and job relies on at each of its calls is an
\* invariant of every execution.
THEOREM InductiveInvariant == Spec => []IInv
<1>1. Init => IInv
  BY InitialInvariant
<1>2. IInv /\ [Next]_vars => IInv'
  BY NextPreserves
<1> QED BY <1>1, <1>2, PTL DEF Spec

\* Every variable keeps its type.
THEOREM TypeCorrectness == Spec => []TypeOK
<1>1. IInv => TypeOK
  BY InvariantImpliesTypes
<1> QED BY <1>1, InductiveInvariant, PTL

\* Follows and conversations are exactly those of the confirmed purchases.
THEOREM AccessIsExact == Spec => []AccessRestsOnConfirmation
<1>1. IInv => AccessRestsOnConfirmation
  BY DEF IInv, AccessOK
<1> QED BY <1>1, InductiveInvariant, PTL

\* A confirmed registration names somebody who has owned the token.
THEOREM ConfirmationsWereOwned == Spec => []ConfirmedWasOwned
<1>1. IInv => ConfirmedWasOwned
  BY DEF IInv
<1> QED BY <1>1, InductiveInvariant, PTL

-----------------------------------------------------------------------------
(* Refinement *)

\* What the graph of the abstract module is here.
ClaimOf(t) ==
  IF IsRegistered(t) THEN [state |-> token[t].status, buyer |-> token[t].buyer,
                           subject |-> token[t].subject]
  ELSE [state |-> "none"]
Claimed == [t \in Tokens |-> ClaimOf(t)]
Followed == {pair \in Pairs : follow[pair] # NoToken}

LEMMA GraphIs ==
  Graph!Init <=> /\ Claimed = [t \in Tokens |-> [state |-> "none"]]
                 /\ Followed = {}
                 /\ conversations = {}
BY DEF Graph!Init, Graph!Unclaimed, Claimed, ClaimOf, Followed

LEMMA GraphUnchanged ==
  Claimed' = Claimed /\ Followed' = Followed /\ conversations' = conversations
    => UNCHANGED Graph!vars
BY DEF Graph!vars, Claimed, ClaimOf, Followed

LEMMA InitRefines == Init => Graph!Init
<1> SUFFICES ASSUME Init PROVE Graph!Init
  OBVIOUS
<1>1. \A t \in Tokens : ClaimOf(t) = [state |-> "none"]
  BY DEF Init, ClaimOf, IsRegistered
<1>2. Followed = {}
  BY DEF Init, Followed
<1> QED BY <1>1, <1>2, GraphIs DEF Claimed, Init

\* A step that leaves the documents alone changes nothing in the graph.
LEMMA Stutters == UNCHANGED database => UNCHANGED Graph!vars
<1> SUFFICES ASSUME UNCHANGED database PROVE UNCHANGED Graph!vars
  OBVIOUS
<1> QED BY DEF Graph!vars, database, IsRegistered

\* The actions of the abstract module, in the terms of this one.
LEMMA GraphActions ==
  ASSUME NEW t \in Tokens, NEW b \in Users, NEW s \in Users
  PROVE
  /\ /\ Claimed[t] = [state |-> "none"] /\ b # s
     /\ Claimed' = [Claimed EXCEPT ![t] = [state |-> "pending", buyer |-> b, subject |-> s]]
     /\ UNCHANGED <<Followed, conversations>>
     => Graph!Register(t, b, s)
  /\ /\ Claimed[t] = [state |-> "pending", buyer |-> b, subject |-> s]
     /\ Claimed' = [Claimed EXCEPT ![t] = [state |-> "confirmed", buyer |-> b, subject |-> s]]
     /\ Followed' = Followed \union {<<b, s>>}
     /\ conversations' = conversations \union {{b, s}}
     => Graph!Confirm(t, b, s)
  /\ /\ Claimed[t] \in {[state |-> "pending", buyer |-> b, subject |-> s],
                         [state |-> "confirmed", buyer |-> b, subject |-> s]}
     /\ Claimed' = [Claimed EXCEPT ![t] = [state |-> "failed", buyer |-> b, subject |-> s]]
     /\ UNCHANGED <<Followed, conversations>>
     => Graph!Reject(t, b, s)
BY DEF Graph!Register, Graph!Confirm, Graph!Reject, Graph!Claim, Graph!Unclaimed, Claimed,
       ClaimOf, Followed

\* How a write of one token shows in the graph.
LEMMA ClaimChanges ==
  ASSUME IInv, NEW t \in Tokens, NEW e \in AuraToken, token' = [token EXCEPT ![t] = e]
  PROVE Claimed' = [Claimed EXCEPT ![t] =
          [state |-> e.status, buyer |-> e.buyer, subject |-> e.subject]]
<1>1. token'[t] = e /\ e # Unregistered /\ \A u \in Tokens : u # t => token'[u] = token[u]
  BY Kinds DEF IInv, TokensOK
<1>2. ClaimOf(t)' = [state |-> e.status, buyer |-> e.buyer, subject |-> e.subject]
  BY <1>1 DEF ClaimOf, IsRegistered
<1>3. \A u \in Tokens : u # t => ClaimOf(u)' = ClaimOf(u)
  BY <1>1 DEF ClaimOf, IsRegistered
<1>4. Claimed' = [u \in Tokens |-> ClaimOf(u)']
  BY DEF Claimed
<1> HIDE DEF ClaimOf
<1> QED BY <1>2, <1>3, <1>4 DEF Claimed

LEMMA RegisterRefines ==
  ASSUME IInv, NEW p \in Requests, NEW t \in Tokens, NEW claim \in Claims[t],
         RegisterPending(p, t, claim)
  PROVE Graph!Next \/ UNCHANGED Graph!vars
<1>1. CASE IsRegistered(t)
  BY <1>1, Stutters DEF RegisterPending, database
<1>2. CASE ~IsRegistered(t)
  <2> DEFINE d == [status |-> "pending", buyer |-> claim.buyer, subject |-> claim.subject,
                   hash |-> claim.hash, wasConfirmed |-> FALSE,
                   place |-> Cardinality({u \in Tokens : IsRegistered(u)})]
  <2>1. claim \in [buyer : Users, subject : Users, hash : {"purchase", "other"}]
    BY AuraAssumption
  <2>2. Cardinality({u \in Tokens : IsRegistered(u)}) \in Nat
    BY AuraAssumption, FS_Subset, FS_CardinalityType
  <2>3. d \in AuraToken /\ d.status = "pending" /\ d.buyer = claim.buyer /\ d.subject = claim.subject
    BY <2>1, <2>2 DEF AuraToken, Statuses
  <2>4. token' = [token EXCEPT ![t] = d] /\ claim.buyer # claim.subject
    BY <1>2 DEF RegisterPending
  <2> HIDE DEF d
  <2>5. Claimed' = [Claimed EXCEPT ![t] =
          [state |-> "pending", buyer |-> claim.buyer, subject |-> claim.subject]]
    BY <2>3, <2>4, ClaimChanges
  <2>6. Claimed[t] = [state |-> "none"]
    BY <1>2 DEF Claimed, ClaimOf
  <2>7. UNCHANGED <<Followed, conversations>>
    BY DEF RegisterPending, Followed
  <2>8. Graph!Register(t, claim.buyer, claim.subject)
    BY <2>1, <2>4, <2>5, <2>6, <2>7, GraphActions
  <2> QED BY <2>1, <2>8 DEF Graph!Next
<1> QED BY <1>1, <1>2

LEMMA CommitRefines ==
  ASSUME IInv, NEW p \in Processes, CommitToken(p)
  PROVE Graph!Next \/ UNCHANGED Graph!vars
<1>1. PICK t \in Tokens, d \in AuraToken, e \in AuraToken :
    /\ process[p].token = t /\ token[t] = d /\ d.status # "failed"
    /\ aura[t] # NotBought
    /\ token' = [token EXCEPT ![t] = e]
    /\ e.buyer = d.buyer /\ e.subject = d.subject
    /\ \/ /\ e.status = "confirmed" /\ e.wasConfirmed = TRUE
          /\ OpenAccess(t)
          /\ d.buyer \in aura[t].owners /\ d.subject = aura[t].subject
       \/ /\ e.status = "failed" /\ e.wasConfirmed = d.wasConfirmed
          /\ UNCHANGED <<follow, conversations>>
  BY CommitEffect
<1>2. IsRegistered(t) /\ d.buyer \in Users /\ d.subject \in Users
      /\ d.status \in {"pending", "confirmed"}
  BY <1>1, Kinds DEF IsRegistered, AuraToken, Statuses
<1>3. Claimed[t] = [state |-> d.status, buyer |-> d.buyer, subject |-> d.subject]
  BY <1>1, <1>2 DEF Claimed, ClaimOf
<1>4. Claimed' = [Claimed EXCEPT ![t] =
        [state |-> e.status, buyer |-> d.buyer, subject |-> d.subject]]
  <2>1. token' = [token EXCEPT ![t] = e] /\ e.buyer = d.buyer /\ e.subject = d.subject
    BY <1>1
  <2>2. Claimed' = [Claimed EXCEPT ![t] =
          [state |-> e.status, buyer |-> e.buyer, subject |-> e.subject]]
    BY <2>1, ClaimChanges
  <2> QED BY <2>1, <2>2
<1>5. CASE e.status = "confirmed"
  <2>1. OpenAccess(t)
    BY <1>1, <1>5
  <2>2. PairOf(t) = <<d.buyer, d.subject>> /\ Participants(t) = {d.buyer, d.subject}
        /\ PairOf(t) \in Pairs
    BY <1>1, <1>2 DEF PairOf, Participants, Pairs
  <2>3. CASE d.status = "pending"
    <3>1. conversations' = conversations \union {{d.buyer, d.subject}}
      BY <2>1, <2>2 DEF OpenAccess
    <3>2. Followed' = Followed \union {<<d.buyer, d.subject>>}
      <4>1. \A pair \in Pairs : follow'[pair] # NoToken <=>
              follow[pair] # NoToken \/ pair = PairOf(t)
        BY <2>1, <2>2, AuraAssumption DEF OpenAccess, IInv, AccessOK
      <4> QED BY <2>2, <4>1 DEF Followed
    <3>3. Graph!Confirm(t, d.buyer, d.subject)
      BY <1>2, <1>3, <1>4, <1>5, <2>3, <3>1, <3>2, GraphActions
    <3> QED BY <1>2, <3>3 DEF Graph!Next
  <2>4. CASE d.status = "confirmed"
    <3>1. WasConfirmed(t)
      BY <1>1, <1>2, <2>4 DEF WasConfirmed, IInv, TokensOK
    <3>2. follow[PairOf(t)] # NoToken /\ Participants(t) \in conversations
      BY <3>1 DEF IInv, AccessOK, AccessRestsOnConfirmation
    <3>3. conversations' = conversations /\ follow' = follow
      BY <2>1, <2>2, <3>2 DEF OpenAccess, IInv, AccessOK
    <3>4. Claimed' = Claimed
      BY <1>3, <1>4, <1>5, <2>4 DEF Claimed
    <3>5. Followed' = Followed
      BY <3>3 DEF Followed
    <3> QED BY <3>3, <3>4, <3>5, GraphUnchanged
  <2> QED BY <1>2, <2>3, <2>4
<1>6. CASE e.status # "confirmed"
  <2>1. e.status = "failed" /\ UNCHANGED <<follow, conversations>>
    BY <1>1, <1>6
  <2>2. UNCHANGED <<Followed, conversations>>
    BY <2>1 DEF Followed
  <2>3. Graph!Reject(t, d.buyer, d.subject)
    BY <1>2, <1>3, <1>4, <2>1, <2>2, GraphActions
  <2> QED BY <1>2, <2>3 DEF Graph!Next
<1> QED BY <1>5, <1>6

\* AuraPurchase implements AuraGraph.
THEOREM Refinement == Spec => ImplementsAuraGraph
<1>1. Init => Graph!Init
  BY InitRefines
<1>2. IInv /\ [Next]_vars => [Graph!Next]_Graph!vars
  <2> SUFFICES ASSUME IInv, [Next]_vars PROVE Graph!Next \/ UNCHANGED Graph!vars
    OBVIOUS
  <2>1. CASE UNCHANGED database
    BY <2>1, Stutters
  <2>2. ASSUME NEW p \in Processes, CommitToken(p) PROVE Graph!Next \/ UNCHANGED Graph!vars
    BY <2>2, CommitRefines
  <2>3. ASSUME NEW p \in Requests, NEW t \in Tokens, NEW claim \in Claims[t],
               RegisterPending(p, t, claim)
        PROVE Graph!Next \/ UNCHANGED Graph!vars
    BY <2>3, RegisterRefines
  <2> QED BY <2>1, <2>2, <2>3
          DEF Next, RequestStep, JobStep, ConfirmationStep, Processes, BuyAura, TransferAura,
              LookUp, ReadToken, HandlePurchaseEvent, ListPending, LookUpNext, Stop, vars, database
<1> QED BY <1>1, <1>2, InductiveInvariant, PTL DEF Spec, ImplementsAuraGraph, Graph!Spec
=============================================================================
