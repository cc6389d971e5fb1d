------------------------------ MODULE Messenger ------------------------------
(***************************************************************************)
(* Sending messages and marking them read: sendMessage and                 *)
(* markConversationRead of beSeen-api.                                     *)
(*                                                                         *)
(* Each runs in a MongoDB transaction, which reads a snapshot, writes one  *)
(* document after the other, fails when it meets a document that somebody  *)
(* else has written since, and is then repeated by the driver.  An action  *)
(* is the reading part of a transaction, one of its writes, or its commit. *)
(*                                                                         *)
(* The bounty of a message is only its contract id here; what becomes of   *)
(* it is in BountySettlement.                                              *)
(***************************************************************************)
EXTENDS Integers, FiniteSets

CONSTANTS
  Users,
  Conversations,  \* pairs of users that share a confirmed Aura
  ClientIds,      \* clientMessageIds
  Contents,       \* the rest of an envelope
  ContractBounties,
  NoBounty,
  NoMessage,      \* lastMessage of an empty conversation
  Senders,        \* bound: users that send messages
  Requests,       \* requests that run at the same time
  MaxSequence,    \* bound: messages of a conversation
  MaxTime         \* bound of the clock

ASSUME MessengerAssumption ==
  /\ \A c \in Conversations : c \subseteq Users /\ \E u, v \in c : u # v /\ c = {u, v}
  /\ NoBounty \notin ContractBounties
  /\ MaxSequence \in Nat /\ MaxTime \in Nat
  /\ NoMessage \notin [sender : Users, client : ClientIds, at : Nat]

VARIABLES
  now,
  conversation,  \* Conversation documents
  messages,      \* Message documents
  request,       \* local state of a request, with its open transaction
  delivered,     \* messages that a client was told are stored
  refused        \* messages that a client was told are in conflict

vars == <<now, conversation, messages, request, delivered, refused>>
database == <<conversation, messages>>
answers == <<delivered, refused>>

-----------------------------------------------------------------------------
(* State *)

Body == [client : ClientIds, content : Contents, bounty : ContractBounties \union {NoBounty}]
Last == [sender : Users, client : ClientIds, at : Nat]

ConversationDocument ==
  [next : Nat \ {0}, read : [Users -> Nat], unread : [Users -> Nat],
   last : Last \union {NoMessage}]

MessageDocument ==
  [conversation : Conversations, sequence : Nat \ {0}, sender : Users, body : Body, at : Nat]

\* Mutant: the first message has number zero.
EmptyFromZero ==
  [next |-> 0, read |-> [u \in Users |-> 0], unread |-> [u \in Users |-> 0],
   last |-> NoMessage]

Empty ==
  [next |-> 1, read |-> [u \in Users |-> 0], unread |-> [u \in Users |-> 0],
   last |-> NoMessage]

\* begin: the transaction starts, or starts again; write: it has read its
\* snapshot; insert, insertBounty, commit: it has written the conversation;
\* recover: it was aborted by a duplicate key.
Sending == {"beginSend", "writeSend", "insert", "insertBounty", "commitSend", "recover"}
Marking == {"beginRead", "writeRead", "commitRead"}

\* stale: the conversation was written since the snapshot; time is that of the
\* snapshot, then createdAt; count is the unread messages of the snapshot.
Idle == [pc |-> "idle"]
SendRequest ==
  [pc : Sending, user : Users, conversation : Conversations, body : Body,
   stale : BOOLEAN, time : Nat]
MarkRequest ==
  [pc : Marking, user : Users, conversation : Conversations, through : Nat,
   stale : BOOLEAN, count : Nat]

TypeOK ==
  /\ now \in Nat
  /\ conversation \in [Conversations -> ConversationDocument]
  /\ messages \in SUBSET MessageDocument
  /\ \A p \in Requests : request[p] \in {Idle} \union SendRequest \union MarkRequest
  /\ delivered \in SUBSET (Conversations \X Users \X Body)
  /\ refused \in SUBSET (Conversations \X Users \X Body)

Init ==
  /\ now = 0
  /\ conversation = [c \in Conversations |-> Empty]
  /\ messages = {}
  /\ request = [p \in Requests |-> Idle]
  /\ delivered = {}
  /\ refused = {}

Tick ==
  /\ now < MaxTime
  /\ now' = now + 1
  /\ UNCHANGED <<database, request, answers>>

-----------------------------------------------------------------------------
(* Transactions *)

WritesConversation == {"insert", "insertBounty", "commitSend", "commitRead"}

\* Somebody has written the conversation since p read it, or is about to.
WriteConflict(p) ==
  \/ request[p].stale
  \/ \E q \in Requests \ {p} :
       request[q].pc \in WritesConversation
         /\ request[q].conversation = request[p].conversation

Become(p, r) == request' = [request EXCEPT ![p] = r]

\* The transaction of p ends with its writes; it is too late for the others
\* that have read the conversation.
Commit(p) ==
  request' = [q \in Requests |->
    IF q = p THEN Idle
    ELSE IF request[q].pc \in {"writeSend", "writeRead"}
              /\ request[q].conversation = request[p].conversation
    THEN [request[q] EXCEPT !.stale = TRUE]
    ELSE request[q]]

\* The driver repeats the transaction from its first read.
Restart(p) ==
  LET r == request[p] IN
  Become(p, IF r.pc \in Sending THEN [r EXCEPT !.pc = "beginSend", !.stale = FALSE, !.time = 0]
            ELSE [r EXCEPT !.pc = "beginRead", !.stale = FALSE, !.count = 0])

\* A request that is refused, a crash, or an error that is not repeated; an
\* open transaction is rolled back.
RequestEnds(p) ==
  /\ request[p].pc # "idle"
  /\ Become(p, Idle)
  /\ UNCHANGED <<now, database, answers>>

-----------------------------------------------------------------------------
(* sendMessage *)

Triple(r) == <<r.conversation, r.user, r.body>>
Stored(m) == <<m.conversation, m.sender, m.body>>
WithKey(u, client) == {m \in messages : m.sender = u /\ m.body.client = client}

\* A refusal is only remembered to compare it with what is stored later, and
\* one at a time is enough for that.
Remember(t) == refused' \in {refused, {t}}

\* Mutant: any message with this clientMessageId answers the request.
AnswerWithAnyEnvelope(p, r, m) ==
  /\ delivered' = delivered \union {Triple(r)}
  /\ UNCHANGED refused
  /\ Become(p, Idle)

\* idempotentResult: the stored message answers the request if it is the same.
Answer(p, r, m) ==
  /\ IF Stored(m) = Triple(r)
     THEN delivered' = delivered \union {Triple(r)} /\ UNCHANGED refused
     ELSE Remember(Triple(r)) /\ UNCHANGED delivered
  /\ Become(p, Idle)

\* All reads of the transaction see the state of its first one.
ReadForSend(p, r) ==
  LET existing == WithKey(r.user, r.body.client) IN
  /\ \/ \E m \in existing : Answer(p, r, m)
     \/ /\ existing = {}
        /\ Become(p, [r EXCEPT !.pc = "writeSend", !.time = now])
        /\ UNCHANGED answers
  /\ UNCHANGED <<now, database>>

ReceiveSend(p, c, u, body) ==
  /\ request[p].pc = "idle"
  /\ u \in c \intersect Senders
  /\ ReadForSend(p, [pc |-> "beginSend", user |-> u, conversation |-> c, body |-> body,
                     stale |-> FALSE, time |-> 0])

RepeatSend(p) == request[p].pc = "beginSend" /\ ReadForSend(p, request[p])

\* Mutant: the time of the message was taken before the transaction began.
IncrementSequenceAtEarlierTime(p) ==
  LET r == request[p] IN
  /\ r.pc = "writeSend"
  /\ conversation[r.conversation].next <= MaxSequence
  /\ IF WriteConflict(p) THEN Restart(p)
     ELSE \E at \in 0..now : Become(p, [r EXCEPT !.pc = "insert", !.time = at])
  /\ UNCHANGED <<now, database, answers>>

\* Conversation.findOneAndUpdate, after the time of the message was taken.
IncrementSequence(p) ==
  LET r == request[p] IN
  /\ r.pc = "writeSend"
  /\ conversation[r.conversation].next <= MaxSequence
  /\ IF WriteConflict(p) THEN Restart(p)
     ELSE \E at \in r.time..now : Become(p, [r EXCEPT !.pc = "insert", !.time = at])
  /\ UNCHANGED <<now, database, answers>>

\* One insert under a unique index: a document of an open transaction is a
\* write conflict, a document committed since the snapshot a write conflict or
\* a duplicate key.
Insert(p, open, committed, next) ==
  \/ (open \/ committed) /\ Restart(p)
  \/ committed /\ Become(p, [request[p] EXCEPT !.pc = "recover"])
  \/ ~open /\ ~committed /\ Become(p, [request[p] EXCEPT !.pc = next])

\* Mutant: the unique index has the conversation, too.
CreateMessageByConversation(p) ==
  LET r == request[p] IN
  /\ r.pc = "insert"
  /\ Insert(p, FALSE,
       \E m \in WithKey(r.user, r.body.client) : m.conversation = r.conversation,
       IF r.body.bounty = NoBounty THEN "commitSend" ELSE "insertBounty")
  /\ UNCHANGED <<now, database, answers>>

\* Message.create, unique by sender and clientMessageId.
CreateMessage(p) ==
  LET r == request[p] IN
  /\ r.pc = "insert"
  /\ Insert(p,
       \E q \in Requests \ {p} :
         /\ request[q].pc \in {"insertBounty", "commitSend"}
         /\ request[q].user = r.user /\ request[q].body.client = r.body.client,
       WithKey(r.user, r.body.client) # {},
       IF r.body.bounty = NoBounty THEN "commitSend" ELSE "insertBounty")
  /\ UNCHANGED <<now, database, answers>>

\* MessageBounty.create, unique by contractBountyId.
CreateBounty(p) ==
  LET r == request[p] IN
  /\ r.pc = "insertBounty"
  /\ Insert(p,
       \E q \in Requests \ {p} :
         request[q].pc = "commitSend" /\ request[q].body.bounty = r.body.bounty,
       \E m \in messages : m.body.bounty = r.body.bounty,
       "commitSend")
  /\ UNCHANGED <<now, database, answers>>

Recipient(c, u) == CHOOSE v \in c : v # u

\* The $inc and $set of the update of the conversation.
AfterSend(document, recipient, last) ==
  [next |-> document.next + 1, read |-> document.read,
   unread |-> [document.unread EXCEPT ![recipient] = @ + 1], last |-> last]

\* The answer may be lost, which only means that a promise less was made.
CommitSend(p) ==
  LET r == request[p]
      document == conversation[r.conversation]
  IN
  /\ r.pc = "commitSend"
  /\ conversation' = [conversation EXCEPT ![r.conversation] =
       AfterSend(document, Recipient(r.conversation, r.user),
                 [sender |-> r.user, client |-> r.body.client, at |-> r.time])]
  /\ messages' = messages \union
       {[conversation |-> r.conversation, sequence |-> document.next,
         sender |-> r.user, body |-> r.body, at |-> r.time]}
  /\ Commit(p)
  /\ delivered' = delivered \union {Triple(r)}
  /\ UNCHANGED <<now, refused>>

\* After a duplicate key the message is looked for outside of a transaction.
Recover(p) ==
  LET r == request[p]
      existing == WithKey(r.user, r.body.client)
  IN
  /\ r.pc = "recover"
  /\ \/ \E m \in existing : Answer(p, r, m)
     \/ /\ existing = {}
        /\ Remember(Triple(r))
        /\ Become(p, Idle)
        /\ UNCHANGED delivered
  /\ UNCHANGED <<now, database>>

-----------------------------------------------------------------------------
(* markConversationRead *)

Unread(c, u, read) ==
  {m \in messages : m.conversation = c /\ m.sender # u /\ m.sequence > read}

\* Mutant: a cursor may be moved back.
MayMarkAnywhere(r, document) == r.through < document.next

\* The sequence exists and was not read before.
MayMark(r, document) == r.through < document.next /\ document.read[r.user] < r.through

ReadForMarking(p, r) ==
  LET document == conversation[r.conversation] IN
  /\ IF MayMark(r, document)
     THEN Become(p, [r EXCEPT !.pc = "writeRead",
                              !.count = Cardinality(Unread(r.conversation, r.user, r.through))])
     ELSE Become(p, Idle)
  /\ UNCHANGED <<now, database, answers>>

ReceiveMarkRead(p, c, u, through) ==
  /\ request[p].pc = "idle"
  /\ u \in c
  /\ ReadForMarking(p, [pc |-> "beginRead", user |-> u, conversation |-> c,
                        through |-> through, stale |-> FALSE, count |-> 0])

RepeatMarkRead(p) == request[p].pc = "beginRead" /\ ReadForMarking(p, request[p])

\* Mutant: the count was read outside of the transaction.
WriteReadStateAnyway(p) ==
  /\ request[p].pc = "writeRead"
  /\ ~\E q \in Requests \ {p} :
       /\ request[q].pc \in WritesConversation
       /\ request[q].conversation = request[p].conversation
  /\ Become(p, [request[p] EXCEPT !.pc = "commitRead"])
  /\ UNCHANGED <<now, database, answers>>

WriteReadState(p) ==
  /\ request[p].pc = "writeRead"
  /\ IF WriteConflict(p) THEN Restart(p)
     ELSE Become(p, [request[p] EXCEPT !.pc = "commitRead"])
  /\ UNCHANGED <<now, database, answers>>

\* The $set of the update of the conversation.
AfterMarking(document, r) ==
  [next |-> document.next, read |-> [document.read EXCEPT ![r.user] = r.through],
   unread |-> [document.unread EXCEPT ![r.user] = r.count], last |-> document.last]

CommitRead(p) ==
  LET r == request[p] IN
  /\ r.pc = "commitRead"
  /\ conversation' = [conversation EXCEPT ![r.conversation] =
       AfterMarking(conversation[r.conversation], r)]
  /\ Commit(p)
  /\ UNCHANGED <<now, messages, answers>>

-----------------------------------------------------------------------------
SendNext(p) ==
  \/ \E c \in Conversations, u \in Users, body \in Body : ReceiveSend(p, c, u, body)
  \/ RepeatSend(p) \/ IncrementSequence(p) \/ CreateMessage(p) \/ CreateBounty(p)
  \/ CommitSend(p) \/ Recover(p)

MarkNext(p) ==
  \/ \E c \in Conversations, u \in Users, n \in 1..MaxSequence : ReceiveMarkRead(p, c, u, n)
  \/ RepeatMarkRead(p) \/ WriteReadState(p) \/ CommitRead(p)

Next ==
  \/ Tick
  \/ \E p \in Requests : SendNext(p) \/ MarkNext(p) \/ RequestEnds(p)

Spec == Init /\ [][Next]_vars

-----------------------------------------------------------------------------
(* Properties *)

MessagesOf(c) == {m \in messages : m.conversation = c}

\* The messages of a conversation are numbered without a gap or a duplicate,
\* and a clientMessageId of a sender and a contract bounty stand in one
\* message, however the transactions of the requests collide.
MessagesAreNumbered ==
  /\ \A c \in Conversations :
       {m.sequence : m \in MessagesOf(c)} = 1..(conversation[c].next - 1)
  /\ \A m, n \in messages :
       \/ m = n
       \/ /\ m.conversation = n.conversation => m.sequence # n.sequence
          /\ m.sender = n.sender => m.body.client # n.body.client
          /\ m.body.bounty = n.body.bounty => m.body.bounty = NoBounty

\* The unread counter, which sends increment and marking recomputes from a
\* count, agrees with the messages behind the cursor.
UnreadAgrees ==
  \A c \in Conversations : \A u \in c :
    /\ conversation[c].read[u] < conversation[c].next
    /\ conversation[c].unread[u] = Cardinality(Unread(c, u, conversation[c].read[u]))

\* createdAt never goes back along the numbers, although it is taken before
\* the number is, and the conversation shows its last message.
TimeFollowsSequence ==
  /\ \A m, n \in messages :
       m.conversation = n.conversation /\ m.sequence < n.sequence => m.at <= n.at
  /\ \A m \in messages :
       m.sequence + 1 = conversation[m.conversation].next =>
         conversation[m.conversation].last =
           [sender |-> m.sender, client |-> m.body.client, at |-> m.at]

\* A client that was told its message is stored finds it with the same
\* envelope; one that was told there is a conflict will never find it.
AnswersHold ==
  /\ \A t \in delivered : \E m \in messages : Stored(m) = t
  /\ \A t \in refused : \A m \in messages : Stored(m) # t

\* Both handlers look like single steps on a log.
Log == INSTANCE ConversationLog WITH
  Bodies <- Body,
  log <- {[conversation |-> m.conversation, position |-> m.sequence,
            sender |-> m.sender, body |-> m.body] : m \in messages},
  read <- [c \in Conversations |-> conversation[c].read]

ImplementsLog == Log!Spec
=============================================================================
