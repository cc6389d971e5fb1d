--------------------------- MODULE BountyLifecycle ---------------------------
(***************************************************************************)
(* What a message bounty promises to its sponsor and its beneficiary,      *)
(* without the settlement worker, the leases or the contract event stream. *)
(* The sponsor's deposit leaves escrow towards the beneficiary only after  *)
(* a reply, it is either paid or returned and never both, and the bounty   *)
(* is shown as claimed only once the deposit was paid.                     *)
(***************************************************************************)
CONSTANT Bounties

VARIABLES
  status,   \* what the API shows: none, offered, claimable, claimed, expired
  replied,  \* the bounties whose message received a valid reply
  escrow    \* the deposit: none, locked, paid or returned

vars == <<status, replied, escrow>>

Init ==
  /\ status = [b \in Bounties |-> "none"]
  /\ replied = {}
  /\ escrow = [b \in Bounties |-> "none"]

\* The sponsor deposits; independent of when the message reaches the API.
Deposit(b) ==
  /\ escrow[b] = "none"
  /\ escrow' = [escrow EXCEPT ![b] = "locked"]
  /\ UNCHANGED <<status, replied>>

Offer(b) ==
  /\ status[b] = "none"
  /\ status' = [status EXCEPT ![b] = "offered"]
  /\ UNCHANGED <<replied, escrow>>

Reply(b) ==
  /\ status[b] = "offered"
  /\ status' = [status EXCEPT ![b] = "claimable"]
  /\ replied' = replied \union {b}
  /\ UNCHANGED escrow

GiveUp(b) ==
  /\ status[b] \in {"offered", "claimable"}
  /\ status' = [status EXCEPT ![b] = "expired"]
  /\ UNCHANGED <<replied, escrow>>

Pay(b) ==
  /\ escrow[b] = "locked"
  /\ b \in replied
  /\ escrow' = [escrow EXCEPT ![b] = "paid"]
  /\ UNCHANGED <<status, replied>>

Return(b) ==
  /\ escrow[b] = "locked"
  /\ escrow' = [escrow EXCEPT ![b] = "returned"]
  /\ UNCHANGED <<status, replied>>

\* An offer that was given up while its payment was still under way is
\* claimed as well when the payment turns out to have happened.
Claim(b) ==
  /\ status[b] \in {"claimable", "expired"}
  /\ escrow[b] = "paid"
  /\ status' = [status EXCEPT ![b] = "claimed"]
  /\ UNCHANGED <<replied, escrow>>

Next ==
  \E b \in Bounties :
    \/ Deposit(b) \/ Offer(b) \/ Reply(b) \/ GiveUp(b)
    \/ Pay(b) \/ Return(b) \/ Claim(b)

Spec == Init /\ [][Next]_vars
=============================================================================
