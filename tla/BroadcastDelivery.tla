-------------------------- MODULE BroadcastDelivery --------------------------
(***************************************************************************)
(* What an encrypted broadcast promises to its creator and its readers: it *)
(* is sealed in one step, together with the wrapped key of every reader it *)
(* will ever have, or withdrawn; both are for good.                        *)
(***************************************************************************)
CONSTANTS Ids, Users, Keys, Contents

VARIABLES
  sealed,    \* what readers can open: broadcasts with their content
  withdrawn, \* drafts that were canceled
  feed       \* for every user the broadcasts in the feed, with the wrapped key

vars == <<sealed, withdrawn, feed>>

Init ==
  /\ sealed = {}
  /\ withdrawn = {}
  /\ feed = [u \in Users |-> {}]

Untouched(id) == id \notin withdrawn /\ \A s \in sealed : s[1] # id

\* All readers receive the broadcast at once, each with one key.
Seal(id) ==
  /\ Untouched(id)
  /\ \E content \in Contents, readers \in SUBSET Users :
       \E key \in [readers -> Keys] :
         /\ sealed' = sealed \union {<<id, content>>}
         /\ feed' = [u \in Users |-> IF u \in readers THEN feed[u] \union {<<id, key[u]>>}
                                     ELSE feed[u]]
  /\ UNCHANGED withdrawn

Withdraw(ids) ==
  /\ ids # {}
  /\ \A id \in ids : Untouched(id)
  /\ withdrawn' = withdrawn \union ids
  /\ UNCHANGED <<sealed, feed>>

Next == (\E id \in Ids : Seal(id)) \/ (\E ids \in SUBSET Ids : Withdraw(ids))

Spec == Init /\ [][Next]_vars
=============================================================================
