------------------------------ MODULE AuraGraph ------------------------------
(***************************************************************************)
(* What the social graph of beSeen-api promises about Aura purchases: a    *)
(* user claims a token for a pair of users, and only the confirmation of a *)
(* pending claim makes the buyer follow the subject and opens their        *)
(* conversation, both at once and for good.  A claim is judged once: a     *)
(* confirmed one may still be rejected later, a rejected one stays so.     *)
(***************************************************************************)
CONSTANTS Tokens, Users

VARIABLES
  claim,      \* token -> its state, with the buyer and the subject it is for
  following,  \* <<follower, subject>>
  talking     \* {one user, the other}

vars == <<claim, following, talking>>

Unclaimed == [state |-> "none"]
Claim(state, b, s) == [state |-> state, buyer |-> b, subject |-> s]

Init ==
  /\ claim = [t \in Tokens |-> Unclaimed]
  /\ following = {}
  /\ talking = {}

Register(t, b, s) ==
  /\ claim[t] = Unclaimed
  /\ b # s
  /\ claim' = [claim EXCEPT ![t] = Claim("pending", b, s)]
  /\ UNCHANGED <<following, talking>>

Confirm(t, b, s) ==
  /\ claim[t] = Claim("pending", b, s)
  /\ claim' = [claim EXCEPT ![t] = Claim("confirmed", b, s)]
  /\ following' = following \union {<<b, s>>}
  /\ talking' = talking \union {{b, s}}

Reject(t, b, s) ==
  /\ claim[t] \in {Claim("pending", b, s), Claim("confirmed", b, s)}
  /\ claim' = [claim EXCEPT ![t] = Claim("failed", b, s)]
  /\ UNCHANGED <<following, talking>>

Next ==
  \E t \in Tokens, b, s \in Users : Register(t, b, s) \/ Confirm(t, b, s) \/ Reject(t, b, s)

Spec == Init /\ [][Next]_vars
=============================================================================
