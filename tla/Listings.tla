------------------------------- MODULE Listings -------------------------------
(***************************************************************************)
(* The lists that beSeen-api answers page by page: the messages of a       *)
(* conversation, the conversations of a user, the users to discover, the   *)
(* earnings, the broadcasts sent and received, the drafts and the          *)
(* recipients of a draft.  A client follows the cursors from the first     *)
(* page to the last while rows appear, move and vanish.                    *)
(*                                                                         *)
(* Abstracted: the query of a page is one step, and what else a page shows *)
(* of its rows is left out.  Requests that are refused are left out; they  *)
(* change nothing.                                                         *)
(***************************************************************************)
EXTENDS Integers, FiniteSets

CONSTANTS
  Rows,       \* ids: numbers, as ObjectIds and sequence numbers are ordered
  SortKeys,   \* times of the last message, or scores
  Limits      \* page sizes that the client may ask for

ASSUME ListingAssumption ==
  /\ Rows \subseteq Nat /\ IsFiniteSet(Rows)
  /\ SortKeys \subseteq Nat
  /\ Limits \subseteq Nat \ {0}

VARIABLES
  list,     \* which list the client walks through
  key,      \* lastMessageAt of a conversation, discoverScore of a user
  listed,   \* rows that the query matches without a cursor
  walk,     \* where the client is
  seen,     \* how often a row was on a page: 0, 1 or, for more, 2
  steady    \* rows that were there from the start and have not changed

listingVars == <<list, key, listed, walk, seen, steady>>

KeyedLists == {"conversations", "discover"}
GrowingLists == {"earnings", "sent", "received"}
Lists == KeyedLists \union GrowingLists \union {"history", "drafts", "recipients"}

NoMessage == -1   \* null; sorted below every time
NoKey == 0        \* of the lists that are sorted by id alone

KeysOf(l) ==
  IF l = "conversations" THEN SortKeys \union {NoMessage}
  ELSE IF l = "discover" THEN SortKeys
  ELSE {NoKey}

FirstPage == [key |-> NoKey, id |-> -1]

\* The cursors keep the time or the score, and the id, as they are: the time
\* has milliseconds, as the database has, and the score has two decimals.
Cursors == {FirstPage} \union [key : SortKeys \union {NoMessage, NoKey}, id : Rows]

ListingsTypeOK ==
  /\ list \in Lists
  /\ key \in [Rows -> KeysOf(list)]
  /\ listed \subseteq Rows
  /\ walk \in [pc : {"reading", "done"}, cursor : Cursors]
  /\ seen \in [Rows -> 0..2]
  /\ steady \subseteq listed

ListingsInit ==
  /\ list \in Lists
  /\ key \in [Rows -> KeysOf(list)]
  /\ listed \in SUBSET Rows
  /\ walk = [pc |-> "reading", cursor |-> FirstPage]
  /\ seen = [r \in Rows |-> 0]
  /\ steady = listed

-----------------------------------------------------------------------------
(* What happens to the rows meanwhile *)

\* Message sequences are given out one after the other.
AppendMessage(r) ==
  /\ list = "history"
  /\ r \notin listed /\ \A q \in listed : q < r
  /\ listed' = listed \union {r}
  /\ UNCHANGED <<list, key, walk, seen, steady>>

\* A conversation, a user, a draft or an earning is stored, a draft is
\* published: with any id, which says little of the order in which rows appear.
AppearRow(r) ==
  /\ list \notin {"history", "recipients"}
  /\ r \notin listed
  /\ listed' = listed \union {r}
  /\ UNCHANGED <<list, key, walk, seen, steady>>

\* A draft is published or expires, a user is suspended or deleted.  Nobody
\* deletes an earning, a message or a follow.
VanishRow(r) ==
  /\ list \in {"drafts", "discover"}
  /\ r \in listed
  /\ listed' = listed \ {r}
  /\ steady' = steady \ {r}
  /\ UNCHANGED <<list, key, walk, seen>>

\* A message moves its conversation up; see TimeFollowsSequence of Messenger.
MoveConversation(r, k) ==
  /\ list = "conversations"
  /\ k > key[r]
  /\ key' = [key EXCEPT ![r] = k]
  /\ steady' = steady \ {r}
  /\ UNCHANGED <<list, listed, walk, seen>>

\* The ranking moves a user up or down.
MoveUser(r, k) ==
  /\ list = "discover"
  /\ k # key[r]
  /\ key' = [key EXCEPT ![r] = k]
  /\ steady' = steady \ {r}
  /\ UNCHANGED <<list, listed, walk, seen>>

-----------------------------------------------------------------------------
(* The pages *)

\* sort({ key: -1, _id: -1 }), and sort({ recipient: 1 }).
SortsBefore(q, r) ==
  IF list = "recipients" THEN q < r
  ELSE \/ key[q] > key[r]
       \/ key[q] = key[r] /\ q > r

FirstRows(rows, limit) ==
  {r \in rows : Cardinality({q \in rows : SortsBefore(q, r)}) < limit}

\* One row more than the limit is fetched: there are more rows than the
\* page has if that row exists.  The cursor is that of the page's last row.
ReadPage(rest) ==
  \E limit \in Limits :
    LET page == FirstRows(rest, limit)
        hasMore == Cardinality(rest) > limit
    IN
    /\ seen' = [r \in Rows |->
         IF r \notin page THEN seen[r] ELSE IF seen[r] = 0 THEN 1 ELSE 2]
    /\ IF hasMore
       THEN \E last \in page :
              /\ \A r \in page : r = last \/ SortsBefore(r, last)
              /\ walk' = [pc |-> "reading", cursor |-> [key |-> key[last], id |-> last]]
       ELSE walk' = [walk EXCEPT !.pc = "done"]
    /\ UNCHANGED <<list, key, listed, steady>>

IsReading(l) == list = l /\ walk.pc = "reading"
BelowCursor == {r \in listed : walk.cursor = FirstPage \/ r < walk.cursor.id}

GetMessageHistory == IsReading("history") /\ ReadPage(BelowCursor)

GetEarningTransactions == IsReading("earnings") /\ ReadPage(BelowCursor)

GetSentFeed == IsReading("sent") /\ ReadPage(BelowCursor)

\* The broadcasts that are not published are left out before the limit.
GetReceivedFeed == IsReading("received") /\ ReadPage(BelowCursor)

GetBroadcastDrafts == IsReading("drafts") /\ ReadPage(BelowCursor)

GetBroadcastDraftRecipients ==
  /\ IsReading("recipients")
  /\ ReadPage({r \in listed : walk.cursor = FirstPage \/ r > walk.cursor.id})

\* Mutant: the cursor's score is not compared together with the id.
UsersOfLowerScore(c) == {r \in listed : c = FirstPage \/ key[r] < c.key}

UsersAfter(c) ==
  {r \in listed :
     \/ c = FirstPage
     \/ key[r] < c.key
     \/ key[r] = c.key /\ r < c.id}

DiscoverUsers == IsReading("discover") /\ ReadPage(UsersAfter(walk.cursor))

\* Mutant: the row of the cursor is matched again.
ConversationsFrom(c) ==
  {r \in listed :
     \/ c = FirstPage
     \/ key[r] <= c.key}

\* $lt on a time does not match null.
ConversationsAfter(c) ==
  {r \in listed :
     \/ c = FirstPage
     \/ /\ c.key # NoMessage
        /\ \/ key[r] # NoMessage /\ key[r] < c.key
           \/ key[r] = c.key /\ r < c.id
           \/ key[r] = NoMessage
     \/ /\ c.key = NoMessage
        /\ key[r] = NoMessage /\ r < c.id}

GetConversations == IsReading("conversations") /\ ReadPage(ConversationsAfter(walk.cursor))

ListingsNext ==
  \/ \E r \in Rows :
       \/ AppendMessage(r)
       \/ AppearRow(r)
       \/ VanishRow(r)
       \/ \E k \in SortKeys : MoveConversation(r, k)
       \/ \E k \in SortKeys : MoveUser(r, k)
  \/ GetMessageHistory
  \/ GetEarningTransactions
  \/ GetSentFeed
  \/ GetReceivedFeed
  \/ GetBroadcastDrafts
  \/ GetBroadcastDraftRecipients
  \/ DiscoverUsers
  \/ GetConversations

ListingsSpec == ListingsInit /\ [][ListingsNext]_listingVars

-----------------------------------------------------------------------------
(* Properties *)

\* A client that has followed the cursors to the end has seen every row once
\* that was in the list from the start and did not move, whatever happened to
\* the rows around it, with pages of any size.
NothingSkipped == walk.pc = "done" => \A r \in steady : seen[r] = 1

\* No page repeats a row of an earlier page, even if the row moved or the
\* rows around it did.  The users to discover are left out: one whose score
\* falls moves to a later page.
NothingRepeated == list # "discover" => \A r \in Rows : seen[r] < 2
=============================================================================
