------------------------------- MODULE Services -------------------------------
(***************************************************************************)
(* The components of beSeen-api that write no field in common: sessions,   *)
(* accounts with their avatars, activity, lists, the ranking and the       *)
(* reconciliation of bounties.  Accounts, activity and the ranking write   *)
(* the same User documents, each its own fields; a conflict over the       *)
(* document restarts a heartbeat's transaction, as a second heartbeat      *)
(* does.  A behaviour is therefore checked with one of them at work: the   *)
(* interleavings of two say nothing that the two alone do not.             *)
(***************************************************************************)
EXTENDS Sessions, Accounts, Activity, Listings, Ranking, Reconciliation

VARIABLE focus   \* the component at work

servicesVars ==
  <<focus, sessionVars, accountVars, activityVars, listingVars, rankingVars, reconciliationVars>>

\* The lists and the ranking have several initial states, which only matter
\* when they are at work.
ServicesInit ==
  /\ focus \in {"sessions", "accounts", "activity", "listings", "ranking", "reconciliation"}
  /\ SessionsInit
  /\ AccountsInit
  /\ ActivityInit
  /\ ListingsInit
  /\ RankingInit
  /\ ReconciliationInit
  /\ focus # "listings" => list = "history" /\ listed = {}
  /\ focus # "ranking" => \A u \in RankedUsers, g \in Groups : metric[u][g] = 0

SessionsWork ==
  /\ focus = "sessions"
  /\ SessionsNext
  /\ UNCHANGED <<accountVars, activityVars, listingVars, rankingVars, reconciliationVars>>

AccountsWork ==
  /\ focus = "accounts"
  /\ AccountsNext
  /\ UNCHANGED <<sessionVars, activityVars, listingVars, rankingVars, reconciliationVars>>

ActivityWorks ==
  /\ focus = "activity"
  /\ ActivityNext
  /\ UNCHANGED <<sessionVars, accountVars, listingVars, rankingVars, reconciliationVars>>

ListingsWork ==
  /\ focus = "listings"
  /\ ListingsNext
  /\ UNCHANGED <<sessionVars, accountVars, activityVars, rankingVars, reconciliationVars>>

RankingWorks ==
  /\ focus = "ranking"
  /\ RankingNext
  /\ UNCHANGED <<sessionVars, accountVars, activityVars, listingVars, reconciliationVars>>

ReconciliationWorks ==
  /\ focus = "reconciliation"
  /\ ReconciliationNext
  /\ UNCHANGED <<sessionVars, accountVars, activityVars, listingVars, rankingVars>>

ServicesNext ==
  /\ \/ SessionsWork
     \/ AccountsWork
     \/ ActivityWorks
     \/ ListingsWork
     \/ RankingWorks
     \/ ReconciliationWorks
  /\ UNCHANGED focus

ServicesSpec == ServicesInit /\ [][ServicesNext]_servicesVars

\* The type invariants of the six components.  The one of the ranking says
\* that no score exceeds 100: decodeDiscoverCursor would refuse the cursor of
\* the page that ends with such a user, and the list could not be continued.
ServicesTypeOK ==
  /\ SessionsTypeOK
  /\ AccountsTypeOK
  /\ ActivityTypeOK
  /\ ListingsTypeOK
  /\ RankingTypeOK
  /\ ReconciliationTypeOK
=============================================================================
