--------------------------- MODULE MessengerProofs ---------------------------
(***************************************************************************)
(* What TLAPS proves about Messenger, for any number of users,             *)
(* conversations and requests, and without the bounds on messages.         *)
(*                                                                         *)
(* The properties are not inductive: what a transaction writes depends on  *)
(* what it read.  RequestOK adds what a transaction may still rely on, if  *)
(* nobody has written its conversation since, and Apart what two open      *)
(* transactions cannot both have written.                                  *)
(***************************************************************************)
EXTENDS Messenger, FiniteSetTheorems, TLAPS

HoldsKey == {"insertBounty", "commitSend"}

\* Another message has the key or the contract bounty that t asks for.
Taken(t) ==
  \E m \in messages :
    /\ Stored(m) # t
    /\ \/ m.sender = t[2] /\ m.body.client = t[3].client
       \/ m.body.bounty = t[3].bounty /\ m.body.bounty # NoBounty

SendOK(r) ==
  /\ r \in SendRequest
  /\ r.user \in r.conversation
  /\ r.pc # "writeSend" => ~r.stale
  /\ r.pc \in {"writeSend", "insert", "insertBounty", "commitSend"} /\ ~r.stale =>
       /\ r.time <= now
       /\ \A m \in messages : m.conversation = r.conversation => m.at <= r.time
  /\ r.pc \in HoldsKey =>
       \A m \in messages : ~(m.sender = r.user /\ m.body.client = r.body.client)
  /\ r.pc = "commitSend" /\ r.body.bounty # NoBounty =>
       \A m \in messages : m.body.bounty # r.body.bounty
  /\ r.pc = "insertBounty" => r.body.bounty # NoBounty
  /\ r.pc = "recover" =>
       \E m \in messages :
         \/ m.sender = r.user /\ m.body.client = r.body.client
         \/ m.body.bounty = r.body.bounty /\ m.body.bounty # NoBounty

MarkOK(r) ==
  /\ r \in MarkRequest
  /\ r.user \in r.conversation
  /\ r.pc # "writeRead" => ~r.stale
  /\ r.pc \in {"writeRead", "commitRead"} /\ ~r.stale =>
       /\ MayMark(r, conversation[r.conversation])
       /\ r.count = Cardinality(Unread(r.conversation, r.user, r.through))

RequestOK(r) == r = Idle \/ SendOK(r) \/ MarkOK(r)

Apart(q, r) ==
  /\ q.pc \in WritesConversation /\ r.pc \in WritesConversation =>
       q.conversation # r.conversation
  /\ q.pc \in HoldsKey /\ r.pc \in HoldsKey =>
       ~(q.user = r.user /\ q.body.client = r.body.client)
  /\ q.pc = "commitSend" /\ r.pc = "commitSend" /\ r.body.bounty # NoBounty =>
       q.body.bounty # r.body.bounty

RequestInv ==
  /\ request \in [Requests -> {Idle} \union SendRequest \union MarkRequest]
  /\ \A p \in Requests : RequestOK(request[p])
  /\ \A p, q \in Requests : p # q => Apart(request[p], request[q])

AnswerInv ==
  /\ delivered \in SUBSET (Conversations \X Users \X Body)
  /\ refused \in SUBSET (Conversations \X Users \X Body)
  /\ \A t \in delivered : \E m \in messages : Stored(m) = t
  /\ \A t \in refused : Taken(t)

Entry(m) ==
  [conversation |-> m.conversation, position |-> m.sequence,
   sender |-> m.sender, body |-> m.body]
Entries == {Entry(m) : m \in messages}
EntriesOf(c) == {e \in Entries : e.conversation = c}

DocumentInv ==
  /\ now \in Nat
  /\ conversation \in [Conversations -> ConversationDocument]
  /\ messages \in SUBSET MessageDocument
  /\ IsFiniteSet(messages)
  /\ \A c \in Conversations :
       IsFiniteSet(EntriesOf(c)) /\ Cardinality(EntriesOf(c)) = conversation[c].next - 1
  /\ \A m \in messages : m.at <= now
  /\ MessagesAreNumbered
  /\ UnreadAgrees
  /\ TimeFollowsSequence

IInv == DocumentInv /\ RequestInv /\ AnswerInv

-----------------------------------------------------------------------------
\* A step of one request that writes nothing keeps the invariant if what the
\* request then relies on is right.
LEMMA LocalStep ==
  ASSUME IInv, NEW p \in Requests, NEW r,
         r \in {Idle} \union SendRequest \union MarkRequest,
         RequestOK(r),
         \A q \in Requests : q # p => Apart(r, request[q]) /\ Apart(request[q], r),
         request' = [request EXCEPT ![p] = r],
         UNCHANGED <<now, database>>,
         AnswerInv'
  PROVE  IInv'
<1>1. DocumentInv'
  BY DEF IInv, DocumentInv, database, MessagesAreNumbered, UnreadAgrees,
     TimeFollowsSequence, Unread, MessagesOf, EntriesOf, Entries
<1>2. \A x : RequestOK(x) => RequestOK(x)'
  BY DEF RequestOK, SendOK, MarkOK, MayMark, Unread, database
<1>3. \A q \in Requests : RequestOK(request'[q])
  BY DEF IInv, RequestInv
<1>4. \A q \in Requests : RequestOK(request[q])'
  BY <1>2, <1>3
<1>5. request' \in [Requests -> {Idle} \union SendRequest \union MarkRequest]
  BY DEF IInv, RequestInv
<1>6. ASSUME NEW q \in Requests, NEW s \in Requests, q # s
      PROVE  Apart(request'[q], request'[s])
  BY <1>6 DEF IInv, RequestInv
<1>7. \A q, s \in Requests : q # s => Apart(request[q], request[s])'
  BY <1>6 DEF Apart
<1> QED
  BY <1>1, <1>4, <1>5, <1>7 DEF IInv, RequestInv

\* A request that has written nothing yet excludes nobody.
LEMMA QuietStep ==
  ASSUME IInv, NEW p \in Requests, NEW r,
         r \in {Idle} \union SendRequest \union MarkRequest,
         RequestOK(r), r.pc \notin WritesConversation,
         request' = [request EXCEPT ![p] = r],
         UNCHANGED <<now, database>>,
         AnswerInv'
  PROVE  IInv'
<1>1. \A q \in Requests : Apart(r, request[q]) /\ Apart(request[q], r)
  BY DEF Apart, WritesConversation, HoldsKey
<1> QED
  BY <1>1, LocalStep

LEMMA AnswersUnchanged ==
  ASSUME IInv, UNCHANGED <<database, answers>>
  PROVE  AnswerInv'
  BY DEF IInv, AnswerInv, Taken, Stored, database, answers

LEMMA RequestEndsKeeps ==
  ASSUME IInv, NEW p \in Requests, RequestEnds(p)
  PROVE  IInv'
<1>1. AnswerInv'
  BY AnswersUnchanged DEF RequestEnds
<1>2. Idle.pc \notin WritesConversation
  BY DEF Idle, WritesConversation
<1> QED
  BY <1>1, <1>2, QuietStep DEF RequestEnds, Become, RequestOK

LEMMA RestartKeeps ==
  ASSUME IInv, NEW p \in Requests, request[p] # Idle, Restart(p),
         UNCHANGED <<now, database, answers>>
  PROVE  IInv'
<1>1. AnswerInv'
  BY AnswersUnchanged
<1>2. RequestOK(request[p])
  BY DEF IInv, RequestInv
<1>3. CASE SendOK(request[p])
  <2> DEFINE r == [request[p] EXCEPT !.pc = "beginSend", !.stale = FALSE, !.time = 0]
  <2>1. request' = [request EXCEPT ![p] = r]
    BY <1>3 DEF Restart, Become, SendOK, SendRequest, Sending
  <2>2. r \in SendRequest /\ RequestOK(r) /\ r.pc \notin WritesConversation
    BY <1>3 DEF RequestOK, SendOK, SendRequest, Sending, HoldsKey, WritesConversation
  <2> HIDE DEF r
  <2> QED
    BY <1>1, <2>1, <2>2, QuietStep
<1>4. CASE MarkOK(request[p])
  <2> DEFINE r == [request[p] EXCEPT !.pc = "beginRead", !.stale = FALSE, !.count = 0]
  <2>1. request' = [request EXCEPT ![p] = r]
    BY <1>4 DEF Restart, Become, MarkOK, MarkRequest, Marking, Sending
  <2>2. r \in MarkRequest /\ RequestOK(r) /\ r.pc \notin WritesConversation
    BY <1>4 DEF RequestOK, MarkOK, MarkRequest, Marking, WritesConversation
  <2> HIDE DEF r
  <2> QED
    BY <1>1, <2>1, <2>2, QuietStep
<1> QED
  BY <1>2, <1>3, <1>4 DEF RequestOK

-----------------------------------------------------------------------------
\* A message with the key of a request tells what its client is told.
LEMMA AnswerKeeps ==
  ASSUME IInv, NEW p \in Requests, NEW r \in SendRequest,
         NEW m \in WithKey(r.user, r.body.client),
         Answer(p, r, m), UNCHANGED <<now, database>>
  PROVE  IInv'
<1>1. Triple(r) \in Conversations \X Users \X Body
  BY DEF Triple, SendRequest
<1>2. ASSUME Stored(m) # Triple(r)  PROVE  Taken(Triple(r))
  BY <1>2 DEF Taken, WithKey, Triple
<1>3. /\ delivered' \in SUBSET (Conversations \X Users \X Body)
      /\ refused' \in SUBSET (Conversations \X Users \X Body)
  BY <1>1 DEF IInv, AnswerInv, Answer, Remember
<1>4. \A t \in delivered' : \E n \in messages : Stored(n) = t
  BY DEF IInv, AnswerInv, Answer, WithKey
<1>5. \A t \in refused' : Taken(t)
  BY <1>2 DEF IInv, AnswerInv, Answer, Remember
<1>6. AnswerInv'
  BY <1>3, <1>4, <1>5 DEF AnswerInv, Taken, Stored, database
<1>7. Idle.pc \notin WritesConversation
  BY DEF Idle, WritesConversation
<1> QED
  BY <1>6, <1>7, QuietStep DEF Answer, Become, RequestOK

LEMMA ReadForSendKeeps ==
  ASSUME IInv, NEW p \in Requests, NEW r \in SendRequest,
         r.user \in r.conversation, ~r.stale, ReadForSend(p, r)
  PROVE  IInv'
<1>1. CASE \E m \in WithKey(r.user, r.body.client) : Answer(p, r, m)
  BY <1>1, AnswerKeeps DEF ReadForSend
<1>2. CASE /\ Become(p, [r EXCEPT !.pc = "writeSend", !.time = now])
           /\ UNCHANGED answers
  <2> DEFINE s == [r EXCEPT !.pc = "writeSend", !.time = now]
  <2>1. AnswerInv'
    BY <1>2, AnswersUnchanged DEF ReadForSend
  <2>2. s \in SendRequest /\ s.pc = "writeSend" /\ s.time = now /\ s.user = r.user
          /\ s.conversation = r.conversation
    BY DEF SendRequest, Sending, IInv, DocumentInv
  <2>3. request' = [request EXCEPT ![p] = s] /\ UNCHANGED <<now, database>>
    BY <1>2 DEF Become, ReadForSend
  <2> HIDE DEF s
  <2>4. SendOK(s)
    BY <2>2 DEF SendOK, HoldsKey, IInv, DocumentInv
  <2>5. s.pc \notin WritesConversation
    BY <2>2 DEF WritesConversation
  <2> QED
    BY <2>1, <2>2, <2>3, <2>4, <2>5, QuietStep DEF RequestOK
<1> QED
  BY <1>1, <1>2 DEF ReadForSend

LEMMA ReceiveSendKeeps ==
  ASSUME IInv, NEW p \in Requests, NEW c \in Conversations, NEW u \in Users,
         NEW body \in Body, ReceiveSend(p, c, u, body)
  PROVE  IInv'
<1> DEFINE r == [pc |-> "beginSend", user |-> u, conversation |-> c, body |-> body,
                 stale |-> FALSE, time |-> 0]
<1>1. r \in SendRequest /\ r.user \in r.conversation /\ ~r.stale
  BY DEF SendRequest, Sending, ReceiveSend
<1>2. ReadForSend(p, r)
  BY DEF ReceiveSend
<1> HIDE DEF r
<1> QED
  BY <1>1, <1>2, ReadForSendKeeps

\* The program counter of an open request tells its kind.
LEMMA SendByPc ==
  ASSUME IInv, NEW p \in Requests, request[p].pc \in Sending
  PROVE  SendOK(request[p])
  BY DEF IInv, RequestInv, RequestOK, MarkOK, MarkRequest, Marking, Sending, Idle

LEMMA MarkByPc ==
  ASSUME IInv, NEW p \in Requests, request[p].pc \in Marking
  PROVE  MarkOK(request[p])
  BY DEF IInv, RequestInv, RequestOK, SendOK, SendRequest, Marking, Sending, Idle

LEMMA RepeatSendKeeps ==
  ASSUME IInv, NEW p \in Requests, RepeatSend(p)
  PROVE  IInv'
<1>1. SendOK(request[p])
  BY SendByPc DEF RepeatSend, Sending
<1> QED
  BY <1>1, ReadForSendKeeps DEF RepeatSend, SendOK

LEMMA IncrementSequenceKeeps ==
  ASSUME IInv, NEW p \in Requests, IncrementSequence(p)
  PROVE  IInv'
<1>1. SendOK(request[p]) /\ request[p].pc = "writeSend"
  BY SendByPc DEF IncrementSequence, Sending
<1>2. CASE WriteConflict(p)
  <2>1. request[p] # Idle
    BY <1>1 DEF Idle
  <2> QED
    BY <1>2, <2>1, RestartKeeps DEF IncrementSequence
<1>3. CASE ~WriteConflict(p)
  <2>1. PICK at \in request[p].time..now :
          Become(p, [request[p] EXCEPT !.pc = "insert", !.time = at])
    BY <1>3 DEF IncrementSequence
  <2> DEFINE r == [request[p] EXCEPT !.pc = "insert", !.time = at]
  <2>2. request' = [request EXCEPT ![p] = r] /\ UNCHANGED <<now, database, answers>>
    BY <2>1 DEF Become, IncrementSequence
  <2>3. /\ r \in SendRequest /\ r.pc = "insert" /\ r.time = at /\ r.stale = request[p].stale
        /\ r.user = request[p].user /\ r.conversation = request[p].conversation
    <3>1. request[p] \in SendRequest /\ request[p].time \in Nat /\ now \in Nat
      BY <1>1 DEF SendOK, SendRequest, IInv, DocumentInv
    <3>2. at \in Nat
      BY <3>1
    <3> QED
      BY <3>1, <3>2 DEF SendRequest, Sending
  <2> HIDE DEF r
  <2>4. SendOK(r)
    <3>1. ~request[p].stale
      BY <1>3 DEF WriteConflict
    <3>2. \A m \in messages : m.conversation = r.conversation => m.at <= request[p].time
      BY <1>1, <2>3, <3>1 DEF SendOK
    <3>3. \A m \in messages : m.at \in Nat
      BY DEF IInv, DocumentInv, MessageDocument
    <3>4. request[p].time \in Nat /\ now \in Nat
      BY <1>1 DEF SendOK, SendRequest, IInv, DocumentInv
    <3>5. \A m \in messages : m.conversation = r.conversation => m.at <= at
      BY <3>2, <3>3, <3>4
    <3> QED
      BY <1>1, <2>3, <3>1, <3>4, <3>5 DEF SendOK, HoldsKey
  <2>5. \A q \in Requests : q # p => Apart(r, request[q]) /\ Apart(request[q], r)
    BY <1>3, <2>3, <1>1 DEF WriteConflict, Apart, HoldsKey
  <2>6. AnswerInv'
    BY <2>2, AnswersUnchanged
  <2> QED
    BY <2>2, <2>3, <2>4, <2>5, <2>6, LocalStep DEF RequestOK
<1> QED
  BY <1>2, <1>3

-----------------------------------------------------------------------------
\* What a lost race for a unique index leaves: the request begins again, or
\* looks for the message that won.
LEMMA CollisionKeeps ==
  ASSUME IInv, NEW p \in Requests, SendOK(request[p]),
         UNCHANGED <<now, database, answers>>,
         \/ Restart(p)
         \/ /\ Become(p, [request[p] EXCEPT !.pc = "recover"])
            /\ ~request[p].stale
            /\ \E m \in messages :
                 \/ m.sender = request[p].user /\ m.body.client = request[p].body.client
                 \/ m.body.bounty = request[p].body.bounty /\ m.body.bounty # NoBounty
  PROVE  IInv'
<1>1. request[p] # Idle
  BY DEF SendOK, SendRequest, Sending, Idle
<1>2. CASE Restart(p)
  BY <1>1, <1>2, RestartKeeps
<1>3. CASE ~Restart(p)
  <2> DEFINE r == [request[p] EXCEPT !.pc = "recover"]
  <2>1. request' = [request EXCEPT ![p] = r]
    BY <1>3 DEF Become
  <2>2. /\ r \in SendRequest /\ r.pc = "recover" /\ r.stale = request[p].stale
        /\ r.user = request[p].user /\ r.conversation = request[p].conversation
        /\ r.body = request[p].body
    BY DEF SendOK, SendRequest, Sending
  <2> HIDE DEF r
  <2>3. SendOK(r) /\ r.pc \notin WritesConversation
    BY <1>3, <2>2 DEF SendOK, HoldsKey, WritesConversation
  <2>4. AnswerInv'
    BY AnswersUnchanged
  <2> QED
    BY <2>1, <2>2, <2>3, <2>4, QuietStep DEF RequestOK
<1> QED
  BY <1>2, <1>3

LEMMA CreateMessageKeeps ==
  ASSUME IInv, NEW p \in Requests, CreateMessage(p)
  PROVE  IInv'
<1>1. SendOK(request[p]) /\ request[p].pc = "insert" /\ ~request[p].stale
  BY SendByPc DEF CreateMessage, Sending, SendOK
<1> DEFINE open == \E q \in Requests \ {p} :
                     /\ request[q].pc \in HoldsKey
                     /\ request[q].user = request[p].user
                     /\ request[q].body.client = request[p].body.client
           committed == WithKey(request[p].user, request[p].body.client) # {}
           next == IF request[p].body.bounty = NoBounty THEN "commitSend" ELSE "insertBounty"
           r == [request[p] EXCEPT !.pc = next]
<1>2. Insert(p, open, committed, next) /\ UNCHANGED <<now, database, answers>>
  BY DEF CreateMessage, HoldsKey
<1>3. CASE Restart(p)
  BY <1>1, <1>2, <1>3, CollisionKeeps
<1>4. CASE committed /\ Become(p, [request[p] EXCEPT !.pc = "recover"])
  <2>1. \E m \in messages :
          m.sender = request[p].user /\ m.body.client = request[p].body.client
    BY <1>4 DEF WithKey
  <2> QED
    BY <1>1, <1>2, <1>4, <2>1, CollisionKeeps
<1>5. CASE ~open /\ ~committed /\ Become(p, r)
  <2>1. /\ r \in SendRequest /\ r.pc = next /\ r.stale = request[p].stale
        /\ r.user = request[p].user /\ r.conversation = request[p].conversation
        /\ r.body = request[p].body /\ r.time = request[p].time
    BY <1>1 DEF SendOK, SendRequest, Sending
  <2>2. request' = [request EXCEPT ![p] = r]
    BY <1>5 DEF Become
  <2>3. /\ next \in HoldsKey
        /\ next = "commitSend" <=> request[p].body.bounty = NoBounty
    BY DEF HoldsKey
  <2>4. \A m \in messages :
          ~(m.sender = request[p].user /\ m.body.client = request[p].body.client)
    BY <1>5 DEF WithKey
  <2>5. ASSUME NEW q \in Requests, q # p
        PROVE  /\ request[q].pc \in WritesConversation =>
                    request[q].conversation # request[p].conversation
               /\ request[q].pc \in HoldsKey =>
                    ~(request[q].user = request[p].user
                        /\ request[q].body.client = request[p].body.client)
    BY <1>1, <1>5, <2>5 DEF IInv, RequestInv, Apart, WritesConversation
  <2> HIDE DEF r, next, open, committed
  <2>6. SendOK(r)
    BY <1>1, <2>1, <2>3, <2>4 DEF SendOK, HoldsKey
  <2>7. \A q \in Requests : q # p => Apart(r, request[q]) /\ Apart(request[q], r)
    <3> SUFFICES ASSUME NEW q \in Requests, q # p
                 PROVE  Apart(r, request[q]) /\ Apart(request[q], r)
      OBVIOUS
    <3>1. request[q].pc = "commitSend" /\ request[q].body.bounty # NoBounty
            /\ r.pc = "commitSend" => request[q].body.bounty # r.body.bounty
      BY <2>1, <2>3
    <3> QED
      BY <2>1, <2>3, <2>5, <3>1 DEF Apart
  <2>8. AnswerInv'
    BY <1>2, AnswersUnchanged
  <2> QED
    BY <1>2, <2>1, <2>2, <2>6, <2>7, <2>8, LocalStep DEF RequestOK
<1> QED
  BY <1>2, <1>3, <1>4, <1>5 DEF Insert

LEMMA CreateBountyKeeps ==
  ASSUME IInv, NEW p \in Requests, CreateBounty(p)
  PROVE  IInv'
<1>1. SendOK(request[p]) /\ request[p].pc = "insertBounty" /\ ~request[p].stale
  BY SendByPc DEF CreateBounty, Sending, SendOK
<1> DEFINE open == \E q \in Requests \ {p} :
                     /\ request[q].pc = "commitSend"
                     /\ request[q].body.bounty = request[p].body.bounty
           committed == \E m \in messages : m.body.bounty = request[p].body.bounty
           r == [request[p] EXCEPT !.pc = "commitSend"]
<1>2. Insert(p, open, committed, "commitSend") /\ UNCHANGED <<now, database, answers>>
  BY DEF CreateBounty
<1>3. CASE Restart(p)
  BY <1>1, <1>2, <1>3, CollisionKeeps
<1>4. CASE committed /\ Become(p, [request[p] EXCEPT !.pc = "recover"])
  <2>1. request[p].body.bounty # NoBounty
    BY <1>1 DEF SendOK
  <2> QED
    BY <1>1, <1>2, <1>4, <2>1, CollisionKeeps
<1>5. CASE ~open /\ ~committed /\ Become(p, r)
  <2>1. /\ r \in SendRequest /\ r.pc = "commitSend" /\ r.stale = request[p].stale
        /\ r.user = request[p].user /\ r.conversation = request[p].conversation
        /\ r.body = request[p].body /\ r.time = request[p].time
    BY <1>1 DEF SendOK, SendRequest, Sending
  <2>2. request' = [request EXCEPT ![p] = r]
    BY <1>5 DEF Become
  <2>3. \A m \in messages : m.body.bounty # request[p].body.bounty
    BY <1>5
  <2>4. \A q \in Requests : q # p =>
          /\ Apart(request[p], request[q]) /\ Apart(request[q], request[p])
          /\ request[q].pc = "commitSend" =>
               request[q].body.bounty # request[p].body.bounty
    BY <1>5 DEF IInv, RequestInv
  <2> HIDE DEF r, open, committed
  <2>5. SendOK(r)
    BY <1>1, <2>1, <2>3 DEF SendOK, HoldsKey
  <2>6. \A q \in Requests : q # p => Apart(r, request[q]) /\ Apart(request[q], r)
    BY <1>1, <2>1, <2>4 DEF Apart, HoldsKey, WritesConversation
  <2>7. AnswerInv'
    BY <1>2, AnswersUnchanged
  <2> QED
    BY <1>2, <2>1, <2>2, <2>5, <2>6, <2>7, LocalStep DEF RequestOK
<1> QED
  BY <1>2, <1>3, <1>4, <1>5 DEF Insert

LEMMA RecoverKeeps ==
  ASSUME IInv, NEW p \in Requests, Recover(p)
  PROVE  IInv'
<1>1. SendOK(request[p]) /\ request[p].pc = "recover"
  BY SendByPc DEF Recover, Sending
<1> DEFINE r == request[p]
           existing == WithKey(r.user, r.body.client)
<1>2. CASE \E m \in existing : Answer(p, r, m)
  BY <1>1, <1>2, AnswerKeeps DEF Recover, SendOK
<1>3. CASE /\ existing = {} /\ Remember(Triple(r))
           /\ Become(p, Idle) /\ UNCHANGED delivered
  <2>1. PICK m \in messages : m.body.bounty = r.body.bounty /\ m.body.bounty # NoBounty
    BY <1>1, <1>3 DEF SendOK, WithKey
  <2>2. Stored(m) # Triple(r)
    BY <1>3 DEF WithKey, Stored, Triple
  <2>3. Taken(Triple(r)) /\ Triple(r) \in Conversations \X Users \X Body
    BY <1>1, <2>1, <2>2 DEF Taken, Triple, SendOK, SendRequest
  <2>4. UNCHANGED <<now, database>>
    BY DEF Recover
  <2>5. /\ \A t \in refused' : Taken(t)
        /\ refused' \in SUBSET (Conversations \X Users \X Body)
    BY <1>3, <2>3 DEF IInv, AnswerInv, Remember
  <2>6. AnswerInv'
    BY <1>3, <2>4, <2>5 DEF IInv, AnswerInv, Taken, Stored, database
  <2>7. Idle.pc \notin WritesConversation
    BY DEF Idle, WritesConversation
  <2> QED
    BY <1>3, <2>4, <2>6, <2>7, QuietStep DEF Become, RequestOK
<1> QED
  BY <1>2, <1>3 DEF Recover

-----------------------------------------------------------------------------
LEMMA ReadForMarkingKeeps ==
  ASSUME IInv, NEW p \in Requests, NEW r \in MarkRequest,
         r.user \in r.conversation, ~r.stale, ReadForMarking(p, r)
  PROVE  IInv'
<1>1. AnswerInv' /\ UNCHANGED <<now, database>>
  BY AnswersUnchanged DEF ReadForMarking
<1>2. CASE ~MayMark(r, conversation[r.conversation])
  <2>1. request' = [request EXCEPT ![p] = Idle]
    BY <1>2 DEF ReadForMarking, Become
  <2> QED
    BY <1>1, <2>1, QuietStep DEF RequestOK, Idle, WritesConversation
<1>3. CASE MayMark(r, conversation[r.conversation])
  <2> DEFINE count == Cardinality(Unread(r.conversation, r.user, r.through))
             s == [r EXCEPT !.pc = "writeRead", !.count = count]
  <2>1. request' = [request EXCEPT ![p] = s]
    BY <1>3 DEF ReadForMarking, Become
  <2>2. count \in Nat
    <3>1. Unread(r.conversation, r.user, r.through) \subseteq messages /\ IsFiniteSet(messages)
      BY DEF Unread, IInv, DocumentInv
    <3> QED
      BY <3>1, FS_Subset, FS_CardinalityType
  <2>3. /\ s \in MarkRequest /\ s.pc = "writeRead" /\ s.count = count /\ ~s.stale
        /\ s.conversation = r.conversation /\ s.user = r.user /\ s.through = r.through
    BY <2>2 DEF MarkRequest, Marking
  <2> HIDE DEF s
  <2>4. MarkOK(s) /\ s.pc \notin WritesConversation
    BY <1>3, <2>3 DEF MarkOK, MayMark, WritesConversation
  <2> QED
    BY <1>1, <2>1, <2>3, <2>4, QuietStep DEF RequestOK
<1> QED
  BY <1>2, <1>3

LEMMA ReceiveMarkReadKeeps ==
  ASSUME IInv, NEW p \in Requests, NEW c \in Conversations, NEW u \in Users,
         NEW n \in Nat, ReceiveMarkRead(p, c, u, n)
  PROVE  IInv'
<1> DEFINE r == [pc |-> "beginRead", user |-> u, conversation |-> c,
                 through |-> n, stale |-> FALSE, count |-> 0]
<1>1. r \in MarkRequest /\ r.user \in r.conversation /\ ~r.stale
  BY DEF MarkRequest, Marking, ReceiveMarkRead
<1>2. ReadForMarking(p, r)
  BY DEF ReceiveMarkRead
<1> HIDE DEF r
<1> QED
  BY <1>1, <1>2, ReadForMarkingKeeps

LEMMA RepeatMarkReadKeeps ==
  ASSUME IInv, NEW p \in Requests, RepeatMarkRead(p)
  PROVE  IInv'
<1>1. MarkOK(request[p])
  BY MarkByPc DEF RepeatMarkRead, Marking
<1> QED
  BY <1>1, ReadForMarkingKeeps DEF RepeatMarkRead, MarkOK

LEMMA WriteReadStateKeeps ==
  ASSUME IInv, NEW p \in Requests, WriteReadState(p)
  PROVE  IInv'
<1>1. MarkOK(request[p]) /\ request[p].pc = "writeRead"
  BY MarkByPc DEF WriteReadState, Marking
<1>2. CASE WriteConflict(p)
  <2>1. request[p] # Idle
    BY <1>1 DEF Idle
  <2> QED
    BY <1>2, <2>1, RestartKeeps DEF WriteReadState
<1>3. CASE ~WriteConflict(p)
  <2> DEFINE r == [request[p] EXCEPT !.pc = "commitRead"]
  <2>1. request' = [request EXCEPT ![p] = r] /\ UNCHANGED <<now, database, answers>>
    BY <1>3 DEF Become, WriteReadState
  <2>2. /\ r \in MarkRequest /\ r.pc = "commitRead" /\ r.stale = request[p].stale
        /\ r.user = request[p].user /\ r.conversation = request[p].conversation
        /\ r.through = request[p].through /\ r.count = request[p].count
    BY <1>1 DEF MarkOK, MarkRequest, Marking
  <2> HIDE DEF r
  <2>3. MarkOK(r)
    BY <1>1, <1>3, <2>2 DEF MarkOK, WriteConflict, MayMark
  <2>4. \A q \in Requests : q # p => Apart(r, request[q]) /\ Apart(request[q], r)
    BY <1>3, <2>2, <1>1 DEF WriteConflict, Apart, HoldsKey
  <2>5. AnswerInv'
    BY <2>1, AnswersUnchanged
  <2> QED
    BY <2>1, <2>2, <2>3, <2>4, <2>5, LocalStep DEF RequestOK
<1> QED
  BY <1>2, <1>3

-----------------------------------------------------------------------------
\* A commit finds the other transactions of its conversation without writes,
\* and tells them that it was there.
LEMMA CommitRequests ==
  ASSUME IInv, NEW p \in Requests, request[p].pc \in WritesConversation, Commit(p)
  PROVE  /\ request' \in [Requests -> {Idle} \union SendRequest \union MarkRequest]
         /\ request'[p] = Idle
         /\ \A q, s \in Requests : q # s => Apart(request'[q], request'[s])
         /\ \A q \in Requests \ {p} : SendOK(request[q]) =>
              /\ request'[q] \in SendRequest
              /\ request'[q] = [request[q] EXCEPT !.stale = request'[q].stale]
              /\ request[q].pc # "writeSend" => ~request'[q].stale
              /\ request[q].stale => request'[q].stale
         /\ \A q \in Requests \ {p} : MarkOK(request[q]) =>
              /\ request'[q] \in MarkRequest
              /\ request'[q] = [request[q] EXCEPT !.stale = request'[q].stale]
              /\ request[q].pc # "writeRead" => ~request'[q].stale
              /\ request[q].stale => request'[q].stale
         /\ \A q \in Requests \ {p} :
              /\ request[q] # Idle
              /\ request[q].conversation = request[p].conversation
              => request[q].pc \notin WritesConversation
         /\ \A q \in Requests \ {p} :
              /\ request[q].pc \in {"writeSend", "writeRead"}
              /\ request[q].conversation = request[p].conversation
              => request'[q].stale
         /\ \A q \in Requests \ {p} : request[q] = Idle => request'[q] = Idle
<1>1. request \in [Requests -> {Idle} \union SendRequest \union MarkRequest]
  BY DEF IInv, RequestInv
<1>2. request'[p] = Idle
  BY DEF Commit
<1>3. ASSUME NEW q \in Requests \ {p}
      PROVE  \/ request'[q] = request[q]
             \/ /\ request[q].pc \in {"writeSend", "writeRead"}
                /\ request[q].conversation = request[p].conversation
                /\ request'[q] = [request[q] EXCEPT !.stale = TRUE]
  BY DEF Commit
<1>4. ASSUME NEW q \in Requests \ {p},
             request[q].pc \in {"writeSend", "writeRead"},
             request[q].conversation = request[p].conversation
      PROVE  request'[q] = [request[q] EXCEPT !.stale = TRUE]
  BY <1>4 DEF Commit
<1>5. ASSUME NEW q \in Requests \ {p}, request[q].pc \in {"writeSend", "writeRead"}
      PROVE  request[q] \in SendRequest \union MarkRequest
  BY <1>1, <1>5 DEF Idle
<1>6. ASSUME NEW q \in Requests \ {p}
      PROVE  /\ request'[q] \in {Idle} \union SendRequest \union MarkRequest
             /\ request'[q].pc = request[q].pc
             /\ request[q].pc \in WritesConversation => request'[q] = request[q]
  <2>1. CASE request'[q] = request[q]
    BY <1>1, <2>1
  <2>2. CASE request'[q] # request[q]
    <3>1. /\ request'[q] = [request[q] EXCEPT !.stale = TRUE]
          /\ request[q].pc \in {"writeSend", "writeRead"}
          /\ request[q] \in SendRequest \union MarkRequest
      BY <1>3, <1>5, <2>2
    <3> QED
      BY <3>1 DEF SendRequest, MarkRequest, Sending, Marking, WritesConversation
  <2> QED
    BY <2>1, <2>2
<1>7. request' \in [Requests -> {Idle} \union SendRequest \union MarkRequest]
  <2>1. \A q \in Requests : request'[q] \in {Idle} \union SendRequest \union MarkRequest
    BY <1>2, <1>6
  <2>2. request' = [q \in Requests |-> request'[q]]
    BY DEF Commit
  <2> QED
    BY <2>1, <2>2
<1>8. ASSUME NEW q \in Requests, NEW s \in Requests, q # s
      PROVE  Apart(request'[q], request'[s])
  <2>1. CASE q = p \/ s = p
    BY <1>2, <2>1 DEF Apart, Idle, WritesConversation, HoldsKey
  <2>2. CASE q # p /\ s # p
    <3>1. Apart(request[q], request[s])
      BY <1>8 DEF IInv, RequestInv
    <3> QED
      BY <1>6, <2>2, <3>1 DEF Apart, WritesConversation, HoldsKey
  <2> QED
    BY <2>1, <2>2
<1>9. ASSUME NEW q \in Requests \ {p}, SendOK(request[q])
      PROVE  /\ request'[q] \in SendRequest
             /\ request'[q] = [request[q] EXCEPT !.stale = request'[q].stale]
             /\ request[q].pc # "writeSend" => ~request'[q].stale
             /\ request[q].stale => request'[q].stale
  BY <1>3, <1>9 DEF SendOK, SendRequest, Sending
<1>10. ASSUME NEW q \in Requests \ {p}, MarkOK(request[q])
       PROVE  /\ request'[q] \in MarkRequest
              /\ request'[q] = [request[q] EXCEPT !.stale = request'[q].stale]
              /\ request[q].pc # "writeRead" => ~request'[q].stale
              /\ request[q].stale => request'[q].stale
  BY <1>3, <1>10 DEF MarkOK, MarkRequest, Marking
<1>11. ASSUME NEW q \in Requests \ {p},
              request[q].conversation = request[p].conversation
       PROVE  request[q].pc \notin WritesConversation
  <2>1. Apart(request[q], request[p])
    BY DEF IInv, RequestInv
  <2> QED
    BY <1>11, <2>1 DEF Apart
<1>12. ASSUME NEW q \in Requests \ {p},
              request[q].pc \in {"writeSend", "writeRead"},
              request[q].conversation = request[p].conversation
       PROVE  request'[q].stale
  <2>1. request'[q] = [request[q] EXCEPT !.stale = TRUE]
    BY <1>4, <1>12
  <2>2. request[q] \in SendRequest \union MarkRequest
    BY <1>5, <1>12
  <2> QED
    BY <2>1, <2>2 DEF SendRequest, MarkRequest
<1>13. ASSUME NEW q \in Requests \ {p}, request[q] = Idle
       PROVE  request'[q] = Idle
  BY <1>3, <1>13 DEF Idle
<1> QED
  BY <1>2, <1>7, <1>8, <1>9, <1>10, <1>11, <1>12, <1>13

\* The other user of a conversation.
LEMMA RecipientIsOther ==
  ASSUME NEW c \in Conversations, NEW u \in c
  PROVE  /\ Recipient(c, u) \in c /\ Recipient(c, u) # u /\ c \subseteq Users
         /\ \A w \in c : w = u \/ w = Recipient(c, u)
<1>1. \E v \in c : v # u
  BY MessengerAssumption
<1>2. Recipient(c, u) \in c /\ Recipient(c, u) # u
  BY <1>1 DEF Recipient
<1> QED
  BY <1>2, MessengerAssumption

\* What a commit of a message writes, and what its transaction still knows.
SendCommits(r, d, new) ==
  /\ SendOK(r) /\ r.pc = "commitSend"
  /\ d \in ConversationDocument
  /\ d.next = conversation[r.conversation].next + 1
  /\ d.read = conversation[r.conversation].read
  /\ d.unread[Recipient(r.conversation, r.user)] =
       conversation[r.conversation].unread[Recipient(r.conversation, r.user)] + 1
  /\ d.unread[r.user] = conversation[r.conversation].unread[r.user]
  /\ d.last = [sender |-> r.user, client |-> r.body.client, at |-> r.time]
  /\ new = [conversation |-> r.conversation, sequence |-> conversation[r.conversation].next,
            sender |-> r.user, body |-> r.body, at |-> r.time]
  /\ conversation' = [conversation EXCEPT ![r.conversation] = d]
  /\ messages' = messages \union {new}

LEMMA AfterSendIs ==
  ASSUME NEW document \in ConversationDocument, NEW v \in Users, NEW last \in Last
  PROVE  LET d == AfterSend(document, v, last) IN
         /\ d \in ConversationDocument
         /\ d.next = document.next + 1 /\ d.read = document.read /\ d.last = last
         /\ \A w \in Users :
              d.unread[w] = IF w = v THEN document.unread[w] + 1 ELSE document.unread[w]
  BY DEF AfterSend, ConversationDocument

LEMMA CommitSendWrites ==
  ASSUME IInv, NEW p \in Requests, CommitSend(p)
  PROVE  \E d, new : SendCommits(request[p], d, new)
<1> DEFINE r == request[p]
           v == Recipient(r.conversation, r.user)
           old == conversation[r.conversation]
           last == [sender |-> r.user, client |-> r.body.client, at |-> r.time]
           d == AfterSend(old, v, last)
           new == [conversation |-> r.conversation, sequence |-> old.next,
                   sender |-> r.user, body |-> r.body, at |-> r.time]
<1>1. SendOK(r) /\ r.pc = "commitSend"
  BY SendByPc DEF CommitSend, Sending
<1>2. /\ r.conversation \in Conversations /\ r.user \in r.conversation /\ r.user \in Users
      /\ r.body.client \in ClientIds /\ r.time \in Nat
  BY <1>1 DEF SendOK, SendRequest, Body
<1>3. v \in Users /\ v # r.user
  BY <1>2, RecipientIsOther
<1>4. old \in ConversationDocument
  BY <1>2 DEF IInv, DocumentInv
<1>5. conversation' = [conversation EXCEPT ![r.conversation] = d]
  BY DEF CommitSend
<1>6. messages' = messages \union {new}
  BY DEF CommitSend
<1>7. last \in Last
  BY <1>2 DEF Last
<1>8. /\ d \in ConversationDocument
      /\ d.next = old.next + 1 /\ d.read = old.read /\ d.last = last
      /\ d.unread[v] = old.unread[v] + 1 /\ d.unread[r.user] = old.unread[r.user]
  <2> HIDE DEF old, v, last
  <2> QED
    BY <1>2, <1>3, <1>4, <1>7, AfterSendIs
<1> HIDE DEF d
<1>9. SendCommits(r, d, new)
  BY <1>1, <1>5, <1>6, <1>8 DEF SendCommits
<1> QED
  BY <1>9

\* The message has the next number, which no other has.
LEMMA NewMessage ==
  ASSUME IInv, NEW r, NEW d, NEW new, SendCommits(r, d, new)
  PROVE  /\ r.conversation \in Conversations /\ r.user \in r.conversation
         /\ new \in MessageDocument /\ new \notin messages
         /\ \A m \in messages :
              /\ m.conversation = r.conversation =>
                   m.sequence < new.sequence /\ m.at <= new.at
              /\ m.sender = new.sender => m.body.client # new.body.client
              /\ m.body.bounty = new.body.bounty => m.body.bounty = NoBounty
         /\ new.at <= now
<1>1. /\ r \in SendRequest /\ r.user \in r.conversation /\ ~r.stale
      /\ r.conversation \in Conversations /\ r.user \in Users /\ r.time \in Nat
      /\ r.body \in Body
  BY DEF SendCommits, SendOK, SendRequest
<1>2. conversation[r.conversation].next \in Nat \ {0}
  BY <1>1 DEF IInv, DocumentInv, ConversationDocument
<1>3. new \in MessageDocument
  BY <1>1, <1>2 DEF SendCommits, MessageDocument
<1>4. /\ new.conversation = r.conversation /\ new.sender = r.user /\ new.body = r.body
      /\ new.at = r.time /\ new.sequence = conversation[r.conversation].next
  BY DEF SendCommits
<1>5. ASSUME NEW m \in messages, m.conversation = r.conversation
      PROVE  m.sequence < new.sequence /\ m.at <= new.at
  <2>1. m.sequence \in 1..(conversation[r.conversation].next - 1)
    BY <1>1, <1>5 DEF IInv, DocumentInv, MessagesAreNumbered, MessagesOf
  <2>2. m.at <= r.time
    BY <1>1, <1>5 DEF SendCommits, SendOK
  <2> QED
    BY <1>2, <1>4, <2>1, <2>2
<1>6. new \notin messages
  BY <1>2, <1>4, <1>5
<1>7. ASSUME NEW m \in messages
      PROVE  /\ m.sender = new.sender => m.body.client # new.body.client
             /\ m.body.bounty = new.body.bounty => m.body.bounty = NoBounty
  BY <1>4 DEF SendCommits, SendOK, HoldsKey
<1>8. new.at <= now
  BY <1>1, <1>4 DEF SendCommits, SendOK
<1> QED
  BY <1>1, <1>3, <1>5, <1>6, <1>7, <1>8

LEMMA SendNumbers ==
  ASSUME IInv, NEW r, NEW d, NEW new, SendCommits(r, d, new)
  PROVE  MessagesAreNumbered'
<1> USE NewMessage
<1>0. new \in MessageDocument
  OBVIOUS
<1>1. messages' = messages \union {new}
  BY DEF SendCommits
<1>2. ASSUME NEW c \in Conversations
      PROVE  {m.sequence : m \in MessagesOf(c)'} = 1..(conversation'[c].next - 1)
  <2>1. {m.sequence : m \in MessagesOf(c)} = 1..(conversation[c].next - 1)
    BY DEF IInv, DocumentInv, MessagesAreNumbered
  <2>2. CASE c = r.conversation
    <3>1. MessagesOf(c)' = MessagesOf(c) \union {new}
      BY <1>1, <2>2 DEF MessagesOf, SendCommits
    <3>2. {m.sequence : m \in MessagesOf(c)'}
            = {m.sequence : m \in MessagesOf(c)} \union {new.sequence}
      BY <3>1
    <3>3. new.sequence = conversation[c].next /\ conversation[c].next \in Nat \ {0}
      BY <2>2 DEF SendCommits, IInv, DocumentInv, ConversationDocument
    <3>4. conversation'[c].next = conversation[c].next + 1
      BY <2>2 DEF SendCommits, IInv, DocumentInv
    <3> QED
      BY <2>1, <3>2, <3>3, <3>4
  <2>3. CASE c # r.conversation
    <3>1. MessagesOf(c)' = MessagesOf(c)
      BY <1>1, <2>3 DEF MessagesOf, SendCommits
    <3>2. conversation'[c] = conversation[c]
      BY <2>3 DEF SendCommits, IInv, DocumentInv
    <3> QED
      BY <2>1, <3>1, <3>2
  <2> QED
    BY <2>2, <2>3
<1>3. ASSUME NEW m \in messages', NEW n \in messages'
      PROVE  \/ m = n
             \/ /\ m.conversation = n.conversation => m.sequence # n.sequence
                /\ m.sender = n.sender => m.body.client # n.body.client
                /\ m.body.bounty = n.body.bounty => m.body.bounty = NoBounty
  <2>1. CASE m \in messages /\ n \in messages
    BY <2>1 DEF IInv, DocumentInv, MessagesAreNumbered
  <2>2. new.conversation = r.conversation /\ new.sequence \in Nat
    BY <1>0 DEF SendCommits, MessageDocument
  <2>3. \A k \in messages : k.sequence \in Nat
    BY DEF IInv, DocumentInv, MessageDocument
  <2> QED
    BY <1>1, <2>1, <2>2, <2>3
<1> QED
  BY <1>2, <1>3 DEF MessagesAreNumbered

LEMMA SendTimes ==
  ASSUME IInv, NEW r, NEW d, NEW new, SendCommits(r, d, new)
  PROVE  TimeFollowsSequence'
<1> USE NewMessage
<1>0. new \in MessageDocument
  OBVIOUS
<1>1. messages' = messages \union {new}
  BY DEF SendCommits
<1>2. /\ new.conversation = r.conversation /\ new.sequence \in Nat /\ new.at \in Nat
      /\ new.sequence = conversation[r.conversation].next
  BY <1>0 DEF SendCommits, MessageDocument
<1>3. \A k \in messages : k.sequence \in Nat /\ k.at \in Nat /\ k.conversation \in Conversations
  BY DEF IInv, DocumentInv, MessageDocument
<1>4. ASSUME NEW m \in messages', NEW n \in messages',
             m.conversation = n.conversation, m.sequence < n.sequence
      PROVE  m.at <= n.at
  <2>1. CASE m \in messages /\ n \in messages
    BY <1>4, <2>1 DEF IInv, DocumentInv, TimeFollowsSequence
  <2>2. CASE m \in messages /\ n = new
    BY <1>2, <1>4, <2>2
  <2>3. CASE m = new
    <3>1. n \notin messages
      BY <1>2, <1>3, <1>4, <2>3
    <3> QED
      BY <1>1, <1>2, <2>3, <3>1
  <2> QED
    BY <1>1, <2>1, <2>2, <2>3
<1>5. ASSUME NEW m \in messages', m.sequence + 1 = conversation'[m.conversation].next
      PROVE  conversation'[m.conversation].last =
               [sender |-> m.sender, client |-> m.body.client, at |-> m.at]
  <2>1. CASE m = new
    BY <1>2, <2>1 DEF SendCommits, IInv, DocumentInv
  <2>2. CASE m \in messages /\ m.conversation = r.conversation
    <3>1. conversation'[m.conversation].next = new.sequence + 1
      BY <1>2, <2>2 DEF SendCommits, IInv, DocumentInv
    <3>2. m.sequence < new.sequence
      BY <2>2
    <3> QED
      BY <1>2, <1>3, <1>5, <2>2, <3>1, <3>2
  <2>3. CASE m \in messages /\ m.conversation # r.conversation
    <3>1. conversation'[m.conversation] = conversation[m.conversation]
      BY <1>3, <2>3 DEF SendCommits, IInv, DocumentInv
    <3> QED
      BY <1>5, <2>3, <3>1 DEF IInv, DocumentInv, TimeFollowsSequence
  <2> QED
    BY <1>1, <2>1, <2>2, <2>3
<1> QED
  BY <1>4, <1>5 DEF TimeFollowsSequence

LEMMA SendUnread ==
  ASSUME IInv, NEW r, NEW d, NEW new, SendCommits(r, d, new)
  PROVE  UnreadAgrees'
<1> USE NewMessage
<1>1. messages' = messages \union {new} /\ new \notin messages
        /\ r.conversation \in Conversations /\ r.user \in r.conversation
  BY DEF SendCommits
<1>2. new.conversation = r.conversation /\ new.sender = r.user
        /\ new.sequence = conversation[r.conversation].next
  BY DEF SendCommits
<1> SUFFICES ASSUME NEW c \in Conversations, NEW u \in c,
                    NEW read, read = conversation'[c].read[u]
             PROVE  /\ read < conversation'[c].next
                    /\ conversation'[c].unread[u] = Cardinality(Unread(c, u, read)')
  BY DEF UnreadAgrees, Unread
<1>9. read = conversation[c].read[u]
  BY <1>1 DEF SendCommits, IInv, DocumentInv
<1>3. read < conversation[c].next /\ conversation[c].unread[u] = Cardinality(Unread(c, u, read))
  BY <1>9 DEF IInv, DocumentInv, UnreadAgrees
<1>4. IsFiniteSet(Unread(c, u, read))
  <2>1. Unread(c, u, read) \subseteq messages /\ IsFiniteSet(messages)
    BY DEF Unread, IInv, DocumentInv
  <2> QED
    BY <2>1, FS_Subset
<1>5. CASE c # r.conversation
  <2>1. conversation'[c] = conversation[c]
    BY <1>5 DEF SendCommits, IInv, DocumentInv
  <2>2. Unread(c, u, read)' = Unread(c, u, read)
    BY <1>1, <1>2, <1>5 DEF Unread
  <2> QED
    BY <1>3, <2>1, <2>2
<1>6. CASE c = r.conversation
  <2>1. conversation'[c] = d /\ d.read = conversation[c].read
          /\ d.next = conversation[c].next + 1
    BY <1>6 DEF SendCommits, IInv, DocumentInv
  <2>2. conversation[c].next \in Nat /\ u \in Users /\ read \in Nat
    BY <1>9, MessengerAssumption DEF IInv, DocumentInv, ConversationDocument
  <2>3. read < conversation'[c].next
    BY <1>3, <2>1, <2>2
  <2>4. CASE u = r.user
    <3>1. Unread(c, u, read)' = Unread(c, u, read)
      BY <1>1, <1>2, <2>3, <2>4 DEF Unread
    <3>2. d.unread[u] = conversation[c].unread[u]
      BY <1>6, <2>4 DEF SendCommits
    <3> QED
      BY <1>3, <2>1, <2>3, <3>1, <3>2
  <2>5. CASE u # r.user
    <3>1. u = Recipient(c, r.user)
      BY <1>1, <1>6, <2>5, RecipientIsOther
    <3>2. Unread(c, u, read)' = Unread(c, u, read) \union {new}
      BY <1>1, <1>2, <1>3, <1>6, <2>3, <2>5 DEF Unread
    <3>3. new \notin Unread(c, u, read)
      BY <1>1 DEF Unread
    <3>4. Cardinality(Unread(c, u, read) \union {new}) = Cardinality(Unread(c, u, read)) + 1
      BY <1>4, <3>3, FS_AddElement
    <3>5. d.unread[u] = conversation[c].unread[u] + 1
      BY <1>6, <3>1 DEF SendCommits
    <3> QED
      BY <1>3, <2>1, <2>3, <3>2, <3>4, <3>5
  <2> QED
    BY <2>4, <2>5
<1> QED
  BY <1>5, <1>6

LEMMA SendEntries ==
  ASSUME IInv, NEW r, NEW d, NEW new, SendCommits(r, d, new), NEW c \in Conversations
  PROVE  /\ IsFiniteSet(EntriesOf(c)')
         /\ Cardinality(EntriesOf(c)') = conversation'[c].next - 1
<1> USE NewMessage
<1>1. messages' = messages \union {new} /\ r.conversation \in Conversations
  BY DEF SendCommits
<1>2. /\ new.conversation = r.conversation
      /\ \A m \in messages : m.conversation = r.conversation => m.sequence # new.sequence
  <2>1. \A m \in messages : m.sequence \in Nat
    BY DEF IInv, DocumentInv, MessageDocument
  <2>2. \A m \in messages : m.conversation = r.conversation => m.sequence < new.sequence
    OBVIOUS
  <2> QED
    BY <2>1, <2>2 DEF SendCommits
<1>3. Entries' = Entries \union {Entry(new)}
  BY <1>1 DEF Entries
<1>4. Entry(new).conversation = r.conversation /\ Entry(new) \notin Entries
  BY <1>2 DEF Entry, Entries
<1>5. IsFiniteSet(EntriesOf(c)) /\ Cardinality(EntriesOf(c)) = conversation[c].next - 1
  BY DEF IInv, DocumentInv
<1>6. conversation[c].next \in Nat
  BY DEF IInv, DocumentInv, ConversationDocument
<1>7. CASE c = r.conversation
  <2>1. EntriesOf(c)' = EntriesOf(c) \union {Entry(new)} /\ Entry(new) \notin EntriesOf(c)
    BY <1>3, <1>4, <1>7 DEF EntriesOf
  <2>2. /\ IsFiniteSet(EntriesOf(c) \union {Entry(new)})
        /\ Cardinality(EntriesOf(c) \union {Entry(new)}) = Cardinality(EntriesOf(c)) + 1
    BY <1>5, <2>1, FS_AddElement
  <2>3. conversation'[c].next = conversation[c].next + 1
    BY <1>7 DEF SendCommits, IInv, DocumentInv
  <2> QED
    BY <1>5, <1>6, <2>1, <2>2, <2>3
<1>8. CASE c # r.conversation
  <2>1. EntriesOf(c)' = EntriesOf(c)
    BY <1>3, <1>4, <1>8 DEF EntriesOf
  <2>2. conversation'[c] = conversation[c]
    BY <1>8 DEF SendCommits, IInv, DocumentInv
  <2> QED
    BY <1>5, <2>1, <2>2
<1> QED
  BY <1>7, <1>8

LEMMA SendDocuments ==
  ASSUME IInv, NEW r, NEW d, NEW new, SendCommits(r, d, new), now' = now
  PROVE  DocumentInv'
<1>1. new \in MessageDocument /\ new.at <= now /\ r.conversation \in Conversations
  BY NewMessage
<1>2. messages' = messages \union {new} /\ d \in ConversationDocument
        /\ conversation' = [conversation EXCEPT ![r.conversation] = d]
  BY DEF SendCommits
<1>3. /\ now \in Nat /\ messages \in SUBSET MessageDocument /\ IsFiniteSet(messages)
      /\ conversation \in [Conversations -> ConversationDocument]
      /\ \A m \in messages : m.at <= now
  BY DEF IInv, DocumentInv
<1>4. IsFiniteSet(messages')
  BY <1>2, <1>3, FS_AddElement
<1>5. conversation' \in [Conversations -> ConversationDocument]
  BY <1>1, <1>2, <1>3
<1> QED
  BY <1>1, <1>2, <1>3, <1>4, <1>5, SendNumbers, SendTimes, SendUnread, SendEntries
  DEF DocumentInv

LEMMA SendAnswers ==
  ASSUME IInv, NEW r, NEW d, NEW new, SendCommits(r, d, new),
         delivered' = delivered \union {Triple(r)}, refused' = refused
  PROVE  AnswerInv'
<1>1. messages' = messages \union {new} /\ Stored(new) = Triple(r)
  BY DEF SendCommits, Stored, Triple
<1>2. Triple(r) \in Conversations \X Users \X Body
  BY DEF Triple, SendCommits, SendOK, SendRequest
<1>3. \A t : Taken(t) => Taken(t)'
  BY <1>1 DEF Taken, Stored
<1>4. \A t \in delivered : \E m \in messages : Stored(m) = t
  BY DEF IInv, AnswerInv
<1>5. \A t \in delivered' : \E m \in messages' : Stored(m) = t
  BY <1>1, <1>4
<1>6. \A t \in refused' : Taken(t)'
  BY <1>3 DEF IInv, AnswerInv
<1> QED
  BY <1>2, <1>5, <1>6 DEF IInv, AnswerInv, Stored

LEMMA CommitSendKeeps ==
  ASSUME IInv, NEW p \in Requests, CommitSend(p)
  PROVE  IInv'
<1> DEFINE r == request[p]
<1>1. PICK d, new : SendCommits(r, d, new)
  BY CommitSendWrites
<1>2. DocumentInv' /\ AnswerInv'
  BY <1>1, SendDocuments, SendAnswers DEF CommitSend
<1>3. r.pc \in WritesConversation /\ Commit(p) /\ r.pc = "commitSend" /\ now' = now
  BY DEF CommitSend, WritesConversation
<1>4. ASSUME NEW q \in Requests \ {p}, NEW s, s = request'[q]
      PROVE  RequestOK(s)'
  <2>1. RequestOK(request[q])
    BY DEF IInv, RequestInv
  <2>2. CASE request[q] = Idle
    BY <1>3, <1>4, <2>2, CommitRequests DEF RequestOK
  <2>3. CASE SendOK(request[q])
    <3>1. /\ s \in SendRequest
          /\ s.pc = request[q].pc /\ s.user = request[q].user /\ s.time = request[q].time
          /\ s.conversation = request[q].conversation /\ s.body = request[q].body
          /\ request[q].pc # "writeSend" => ~s.stale
          /\ request[q].stale => s.stale
      <4>1. /\ s \in SendRequest /\ request[q] \in SendRequest
            /\ s = [request[q] EXCEPT !.stale = s.stale]
            /\ request[q].pc # "writeSend" => ~s.stale
            /\ request[q].stale => s.stale
        BY <1>3, <1>4, <2>3, CommitRequests DEF SendOK
      <4> QED
        BY <4>1 DEF SendRequest
    <3>2. request[q].pc \in {"writeSend", "insert", "insertBounty", "commitSend"} /\ ~s.stale
            => s.conversation # r.conversation
      BY <1>3, <2>3, <3>1, <1>4, CommitRequests DEF WritesConversation, SendOK, SendRequest, Idle
    <3>3. Apart(r, request[q])
      BY DEF IInv, RequestInv
    <3>4. messages' = messages \union {new} /\ new.conversation = r.conversation
            /\ new.sender = r.user /\ new.body = r.body
      BY <1>1 DEF SendCommits
    <3>5. SendOK(s)'
      <4>1. s.pc \in {"writeSend", "insert", "insertBounty", "commitSend"} /\ ~s.stale =>
              /\ s.time <= now
              /\ \A m \in messages' : m.conversation = s.conversation => m.at <= s.time
        BY <2>3, <3>1, <3>2, <3>4 DEF SendOK
      <4>2. s.pc \in HoldsKey =>
              \A m \in messages' : ~(m.sender = s.user /\ m.body.client = s.body.client)
        BY <1>3, <2>3, <3>1, <3>3, <3>4 DEF SendOK, Apart, HoldsKey
      <4>3. s.pc = "commitSend" /\ s.body.bounty # NoBounty =>
              \A m \in messages' : m.body.bounty # s.body.bounty
        BY <1>3, <2>3, <3>1, <3>3, <3>4 DEF SendOK, Apart
      <4> QED
        BY <1>3, <2>3, <3>1, <3>4, <4>1, <4>2, <4>3 DEF SendOK
    <3> QED
      BY <3>5 DEF RequestOK
  <2>4. CASE MarkOK(request[q])
    <3>1. /\ s \in MarkRequest
          /\ s.pc = request[q].pc /\ s.user = request[q].user /\ s.count = request[q].count
          /\ s.conversation = request[q].conversation /\ s.through = request[q].through
          /\ request[q].pc # "writeRead" => ~s.stale
          /\ request[q].stale => s.stale
      <4>1. /\ s \in MarkRequest /\ request[q] \in MarkRequest
            /\ s = [request[q] EXCEPT !.stale = s.stale]
            /\ request[q].pc # "writeRead" => ~s.stale
            /\ request[q].stale => s.stale
        BY <1>3, <1>4, <2>4, CommitRequests DEF MarkOK
      <4> QED
        BY <4>1 DEF MarkRequest
    <3>2. request[q].pc \in {"writeRead", "commitRead"} /\ ~s.stale
            => s.conversation # r.conversation
      BY <1>3, <2>4, <3>1, <1>4, CommitRequests DEF WritesConversation, MarkOK, MarkRequest, Idle
    <3>3. /\ messages' = messages \union {new} /\ new.conversation = r.conversation
          /\ conversation' = [conversation EXCEPT ![r.conversation] = d]
      BY <1>1 DEF SendCommits
    <3>4. conversation \in [Conversations -> ConversationDocument]
      BY DEF IInv, DocumentInv
    <3>5. MarkOK(s)'
      <4>1. ASSUME s.pc \in {"writeRead", "commitRead"}, ~s.stale
            PROVE  /\ MayMark(s, conversation'[s.conversation])
                   /\ s.count = Cardinality(Unread(s.conversation, s.user, s.through)')
        <5>1. s.conversation \in Conversations /\ s.conversation # r.conversation
          BY <3>1, <3>2, <4>1 DEF MarkRequest
        <5>2. conversation'[s.conversation] = conversation[s.conversation]
          BY <3>3, <3>4, <5>1
        <5>3. Unread(s.conversation, s.user, s.through)' = Unread(s.conversation, s.user, s.through)
          BY <3>3, <5>1 DEF Unread
        <5> QED
          BY <2>4, <3>1, <4>1, <5>2, <5>3 DEF MarkOK, MayMark
      <4> QED
        BY <2>4, <3>1, <4>1 DEF MarkOK, MayMark
    <3> QED
      BY <3>5 DEF RequestOK
  <2> QED
    BY <2>1, <2>2, <2>3, <2>4 DEF RequestOK
<1>5. RequestOK(request[p])'
  <2>1. request'[p] = Idle
    BY <1>3, CommitRequests
  <2> QED
    BY <2>1 DEF RequestOK
<1>6. RequestInv'
  <2>1. \A q \in Requests : RequestOK(request[q])'
    BY <1>4, <1>5
  <2>2. \A q, s \in Requests : q # s => Apart(request[q], request[s])'
    BY <1>3, CommitRequests DEF Apart
  <2> QED
    BY <1>3, <2>1, <2>2, CommitRequests DEF RequestInv
<1> QED
  BY <1>2, <1>6 DEF IInv

-----------------------------------------------------------------------------
\* What a commit of a read state writes, and what its transaction still knows.
MarkCommits(r, d) ==
  /\ MarkOK(r) /\ ~r.stale
  /\ MayMark(r, conversation[r.conversation])
  /\ r.count = Cardinality(Unread(r.conversation, r.user, r.through))
  /\ d \in ConversationDocument
  /\ d.next = conversation[r.conversation].next
  /\ d.last = conversation[r.conversation].last
  /\ d.read = [conversation[r.conversation].read EXCEPT ![r.user] = r.through]
  /\ d.unread = [conversation[r.conversation].unread EXCEPT ![r.user] = r.count]
  /\ conversation' = [conversation EXCEPT ![r.conversation] = d]
  /\ messages' = messages

LEMMA CommitReadWrites ==
  ASSUME IInv, NEW p \in Requests, CommitRead(p)
  PROVE  \E d : MarkCommits(request[p], d)
<1> DEFINE r == request[p]
           d == AfterMarking(conversation[r.conversation], r)
<1>1. MarkOK(r) /\ r.pc = "commitRead"
  BY MarkByPc DEF CommitRead, Marking
<1>2. /\ r.conversation \in Conversations /\ r.user \in Users
      /\ r.through \in Nat /\ r.count \in Nat
  BY <1>1 DEF MarkOK, MarkRequest
<1>3. conversation[r.conversation] \in ConversationDocument
  BY <1>2 DEF IInv, DocumentInv
<1>4. d \in ConversationDocument
  BY <1>2, <1>3 DEF ConversationDocument, AfterMarking
<1>5. conversation' = [conversation EXCEPT ![r.conversation] = d] /\ messages' = messages
  BY DEF CommitRead
<1>6. /\ d.next = conversation[r.conversation].next
      /\ d.last = conversation[r.conversation].last
      /\ d.read = [conversation[r.conversation].read EXCEPT ![r.user] = r.through]
      /\ d.unread = [conversation[r.conversation].unread EXCEPT ![r.user] = r.count]
  BY DEF AfterMarking
<1>7. MayMark(r, conversation[r.conversation]) /\ ~r.stale
        /\ r.count = Cardinality(Unread(r.conversation, r.user, r.through))
  BY <1>1 DEF MarkOK
<1> HIDE DEF d
<1>8. MarkCommits(r, d)
  BY <1>1, <1>4, <1>5, <1>6, <1>7 DEF MarkCommits
<1> QED
  BY <1>8

LEMMA MarkDocuments ==
  ASSUME IInv, NEW r, NEW d, MarkCommits(r, d), now' = now
  PROVE  DocumentInv'
<1>1. /\ r.conversation \in Conversations /\ r.user \in r.conversation /\ r.user \in Users
      /\ r.through \in Nat
  BY DEF MarkCommits, MarkOK, MarkRequest
<1>2. conversation \in [Conversations -> ConversationDocument]
  BY DEF IInv, DocumentInv
<1>3. /\ conversation' \in [Conversations -> ConversationDocument]
      /\ conversation'[r.conversation] = d
      /\ \A c \in Conversations : c # r.conversation => conversation'[c] = conversation[c]
  BY <1>1, <1>2 DEF MarkCommits
<1>4. \A c \in Conversations :
        conversation'[c].next = conversation[c].next /\ conversation'[c].last = conversation[c].last
  BY <1>3 DEF MarkCommits
<1>5. messages' = messages
  BY DEF MarkCommits
<1>6. \A c : EntriesOf(c)' = EntriesOf(c)
  BY <1>5 DEF EntriesOf, Entries
<1>7. MessagesAreNumbered'
  BY <1>4, <1>5 DEF IInv, DocumentInv, MessagesAreNumbered, MessagesOf
<1>8. TimeFollowsSequence'
  <2>1. \A m \in messages : m.conversation \in Conversations
    BY DEF IInv, DocumentInv, MessageDocument
  <2> QED
    BY <1>4, <1>5, <2>1 DEF IInv, DocumentInv, TimeFollowsSequence
<1>9. UnreadAgrees'
  <2> SUFFICES ASSUME NEW c \in Conversations, NEW u \in c,
                      NEW read, read = conversation'[c].read[u]
               PROVE  /\ read < conversation'[c].next
                      /\ conversation'[c].unread[u] = Cardinality(Unread(c, u, read))
    BY <1>5 DEF UnreadAgrees, Unread
  <2>1. u \in Users
    BY MessengerAssumption
  <2>2. /\ conversation[c].read[u] < conversation[c].next
        /\ conversation[c].unread[u] = Cardinality(Unread(c, u, conversation[c].read[u]))
    BY DEF IInv, DocumentInv, UnreadAgrees
  <2>3. conversation[c] \in ConversationDocument
    BY <1>2
  <2>4. CASE c = r.conversation /\ u = r.user
    <3>1. read = r.through /\ conversation'[c].unread[u] = r.count
      BY <1>3, <2>1, <2>3, <2>4 DEF MarkCommits, ConversationDocument
    <3>2. r.through < conversation[c].next
      BY <2>4 DEF MarkCommits, MayMark
    <3> QED
      BY <1>4, <2>4, <3>1, <3>2 DEF MarkCommits
  <2>5. CASE ~(c = r.conversation /\ u = r.user)
    <3>1. read = conversation[c].read[u] /\ conversation'[c].unread[u] = conversation[c].unread[u]
      BY <1>3, <2>1, <2>3, <2>5 DEF MarkCommits, ConversationDocument
    <3> QED
      BY <1>4, <2>2, <3>1
  <2> QED
    BY <2>4, <2>5
<1> QED
  BY <1>3, <1>4, <1>5, <1>6, <1>7, <1>8, <1>9 DEF IInv, DocumentInv

LEMMA CommitReadKeeps ==
  ASSUME IInv, NEW p \in Requests, CommitRead(p)
  PROVE  IInv'
<1> DEFINE r == request[p]
<1>1. PICK d : MarkCommits(r, d)
  BY CommitReadWrites
<1>2. r.pc \in WritesConversation /\ Commit(p) /\ UNCHANGED <<now, messages, answers>>
  BY DEF CommitRead, WritesConversation
<1>3. DocumentInv'
  BY <1>1, <1>2, MarkDocuments
<1>4. AnswerInv'
  BY <1>2 DEF IInv, AnswerInv, Taken, Stored, answers
<1>5. ASSUME NEW q \in Requests \ {p}, NEW s, s = request'[q]
      PROVE  RequestOK(s)'
  <2>1. RequestOK(request[q])
    BY DEF IInv, RequestInv
  <2>2. CASE request[q] = Idle
    BY <1>2, <1>5, <2>2, CommitRequests DEF RequestOK
  <2>3. CASE SendOK(request[q])
    <3>1. /\ s \in SendRequest /\ request[q] \in SendRequest
          /\ s = [request[q] EXCEPT !.stale = s.stale]
          /\ request[q].pc # "writeSend" => ~s.stale
          /\ request[q].stale => s.stale
      BY <1>2, <1>5, <2>3, CommitRequests DEF SendOK
    <3>2. /\ s.pc = request[q].pc /\ s.user = request[q].user /\ s.time = request[q].time
          /\ s.conversation = request[q].conversation /\ s.body = request[q].body
      BY <3>1 DEF SendRequest
    <3>3. SendOK(s)'
      BY <1>2, <2>3, <3>1, <3>2 DEF SendOK
    <3> QED
      BY <3>3 DEF RequestOK
  <2>4. CASE MarkOK(request[q])
    <3>1. /\ s \in MarkRequest /\ request[q] \in MarkRequest
          /\ s = [request[q] EXCEPT !.stale = s.stale]
          /\ request[q].pc # "writeRead" => ~s.stale
          /\ request[q].stale => s.stale
      BY <1>2, <1>5, <2>4, CommitRequests DEF MarkOK
    <3>2. /\ s.pc = request[q].pc /\ s.user = request[q].user /\ s.count = request[q].count
          /\ s.conversation = request[q].conversation /\ s.through = request[q].through
      BY <3>1 DEF MarkRequest
    <3>3. s.pc \in {"writeRead", "commitRead"} /\ ~s.stale => s.conversation # r.conversation
      BY <1>2, <1>5, <3>1, <3>2, CommitRequests DEF WritesConversation, MarkRequest, Idle
    <3>4. ASSUME s.pc \in {"writeRead", "commitRead"}, ~s.stale
          PROVE  conversation'[s.conversation] = conversation[s.conversation]
      BY <1>1, <3>1, <3>3, <3>4 DEF MarkCommits, MarkRequest, IInv, DocumentInv
    <3>5. \A c, u, n : Unread(c, u, n)' = Unread(c, u, n)
      BY <1>2 DEF Unread
    <3>6. MarkOK(s)'
      BY <1>2, <2>4, <3>1, <3>2, <3>4, <3>5 DEF MarkOK, MayMark
    <3> QED
      BY <3>6 DEF RequestOK
  <2> QED
    BY <2>1, <2>2, <2>3, <2>4 DEF RequestOK
<1>6. RequestOK(request[p])'
  <2>1. request'[p] = Idle
    BY <1>2, CommitRequests
  <2> QED
    BY <2>1 DEF RequestOK
<1>7. RequestInv'
  <2>1. \A q \in Requests : RequestOK(request[q])'
    BY <1>5, <1>6
  <2>2. \A q, s \in Requests : q # s => Apart(request[q], request[s])'
    BY <1>2, CommitRequests DEF Apart
  <2> QED
    BY <1>2, <2>1, <2>2, CommitRequests DEF RequestInv
<1> QED
  BY <1>3, <1>4, <1>7 DEF IInv

-----------------------------------------------------------------------------
LEMMA TickKeeps ==
  ASSUME IInv, Tick
  PROVE  IInv'
<1>1. /\ now' = now + 1 /\ now \in Nat
      /\ UNCHANGED <<conversation, messages, request, delivered, refused>>
  BY DEF Tick, IInv, DocumentInv, database, answers
<1>2. DocumentInv'
  <2>1. \A m \in messages : m.at \in Nat /\ m.at <= now
    BY DEF IInv, DocumentInv, MessageDocument
  <2>2. \A m \in messages : m.at <= now'
    BY <1>1, <2>1
  <2> QED
    BY <1>1, <2>2 DEF IInv, DocumentInv, MessagesAreNumbered, UnreadAgrees,
       TimeFollowsSequence, Unread, MessagesOf, EntriesOf, Entries
<1>3. AnswerInv'
  BY <1>1 DEF IInv, AnswerInv, Taken, Stored
<1>4. ASSUME NEW q \in Requests
      PROVE  RequestOK(request[q])'
  <2>1. RequestOK(request[q])
    BY DEF IInv, RequestInv
  <2>2. SendOK(request[q]) => SendOK(request[q])'
    <3>1. ASSUME SendOK(request[q])
          PROVE  request[q].time \in Nat
                   /\ (request[q].time <= now => request[q].time <= now')
      BY <1>1, <3>1 DEF SendOK, SendRequest
    <3> QED
      BY <1>1, <3>1 DEF SendOK
  <2>3. MarkOK(request[q]) => MarkOK(request[q])'
    BY <1>1 DEF MarkOK, MayMark, Unread
  <2>4. request[q] = Idle => (request[q] = Idle)'
    BY <1>1
  <2> QED
    BY <2>1, <2>2, <2>3, <2>4 DEF RequestOK
<1>5. RequestInv'
  BY <1>1, <1>4 DEF IInv, RequestInv, Apart
<1> QED
  BY <1>2, <1>3, <1>5 DEF IInv

LEMMA InitEstablishes ==
  ASSUME Init
  PROVE  IInv
<1>1. /\ now = 0 /\ messages = {} /\ conversation = [c \in Conversations |-> Empty]
      /\ request = [p \in Requests |-> Idle] /\ delivered = {} /\ refused = {}
  BY DEF Init
<1>2. IsFiniteSet({}) /\ Cardinality({}) = 0
  BY FS_EmptySet
<1>3. conversation \in [Conversations -> ConversationDocument]
  BY <1>1 DEF Empty, ConversationDocument
<1>4. \A c \in Conversations : EntriesOf(c) = {} /\ conversation[c].next = 1
  BY <1>1 DEF EntriesOf, Entries, Empty
<1>5. MessagesAreNumbered
  <2>1. \A c \in Conversations : {m.sequence : m \in MessagesOf(c)} = {}
    BY <1>1 DEF MessagesOf
  <2> QED
    BY <1>1, <1>4, <2>1 DEF MessagesAreNumbered
<1>6. UnreadAgrees
  <2> SUFFICES ASSUME NEW c \in Conversations, NEW u \in c
               PROVE  /\ conversation[c].read[u] < conversation[c].next
                      /\ conversation[c].unread[u] =
                           Cardinality(Unread(c, u, conversation[c].read[u]))
    BY DEF UnreadAgrees
  <2>1. u \in Users
    BY MessengerAssumption
  <2>2. Unread(c, u, conversation[c].read[u]) = {}
    BY <1>1 DEF Unread
  <2> QED
    BY <1>1, <1>2, <2>1, <2>2 DEF Empty
<1>7. TimeFollowsSequence
  BY <1>1 DEF TimeFollowsSequence
<1>8. DocumentInv
  BY <1>1, <1>2, <1>3, <1>4, <1>5, <1>6, <1>7 DEF DocumentInv
<1>9. RequestInv
  BY <1>1 DEF RequestInv, RequestOK, Apart, Idle, WritesConversation, HoldsKey
<1>10. AnswerInv
  BY <1>1 DEF AnswerInv
<1> QED
  BY <1>8, <1>9, <1>10 DEF IInv

LEMMA StutteringKeeps ==
  ASSUME IInv, UNCHANGED vars
  PROVE  IInv'
<1>1. UNCHANGED <<now, conversation, messages, request, delivered, refused>>
  BY DEF vars
<1>2. DocumentInv'
  BY <1>1 DEF IInv, DocumentInv, MessagesAreNumbered, UnreadAgrees, TimeFollowsSequence,
     Unread, MessagesOf, EntriesOf, Entries
<1>3. \A x : RequestOK(x) => RequestOK(x)'
  BY <1>1 DEF RequestOK, SendOK, MarkOK, MayMark, Unread
<1>4. RequestInv'
  BY <1>1, <1>3 DEF IInv, RequestInv, Apart
<1>5. AnswerInv'
  BY <1>1 DEF IInv, AnswerInv, Taken, Stored
<1> QED
  BY <1>2, <1>4, <1>5 DEF IInv

\* What a request relies on at each write of its transaction is an invariant of
\* sendMessage and markConversationRead.
THEOREM InductiveInvariant == Spec => []IInv
<1>1. Init => IInv
  BY InitEstablishes
<1>2. IInv /\ [Next]_vars => IInv'
  <2> SUFFICES ASSUME IInv, [Next]_vars  PROVE IInv'
    OBVIOUS
  <2>1. CASE Tick
    BY <2>1, TickKeeps
  <2>2. CASE UNCHANGED vars
    BY <2>2, StutteringKeeps
  <2>3. ASSUME NEW p \in Requests, SendNext(p)  PROVE IInv'
    BY <2>3, ReceiveSendKeeps, RepeatSendKeeps, IncrementSequenceKeeps, CreateMessageKeeps,
       CreateBountyKeeps, CommitSendKeeps, RecoverKeeps DEF SendNext
  <2>4. ASSUME NEW p \in Requests, MarkNext(p)  PROVE IInv'
    <3>1. 1..MaxSequence \subseteq Nat
      BY MessengerAssumption
    <3> QED
      BY <2>4, <3>1, ReceiveMarkReadKeeps, RepeatMarkReadKeeps, WriteReadStateKeeps,
         CommitReadKeeps DEF MarkNext
  <2>5. ASSUME NEW p \in Requests, RequestEnds(p)  PROVE IInv'
    BY <2>5, RequestEndsKeeps
  <2> QED
    BY <2>1, <2>2, <2>3, <2>4, <2>5 DEF Next
<1> QED
  BY <1>1, <1>2, PTL DEF Spec

\* Every variable keeps its type.
THEOREM TypeCorrectness == Spec => []TypeOK
<1>1. IInv => TypeOK
  BY DEF IInv, DocumentInv, RequestInv, AnswerInv, TypeOK
<1> QED
  BY <1>1, InductiveInvariant, PTL

\* Messages are numbered without a gap or a duplicate, and no idempotency key and
\* no contract bounty stands in two of them, by the transactions of sendMessage.
THEOREM NumberingHolds == Spec => []MessagesAreNumbered
<1>1. IInv => MessagesAreNumbered
  BY DEF IInv, DocumentInv
<1> QED
  BY <1>1, InductiveInvariant, PTL

\* The unread counters of sendMessage and markConversationRead agree with the
\* messages behind the cursors.
THEOREM CountersAgree == Spec => []UnreadAgrees
<1>1. IInv => UnreadAgrees
  BY DEF IInv, DocumentInv
<1> QED
  BY <1>1, InductiveInvariant, PTL

\* sendMessage takes the times of messages in the order of their numbers.
THEOREM TimesFollowNumbers == Spec => []TimeFollowsSequence
<1>1. IInv => TimeFollowsSequence
  BY DEF IInv, DocumentInv
<1> QED
  BY <1>1, InductiveInvariant, PTL

\* No answer of sendMessage about a message is ever wrong.
THEOREM AnswersStayTrue == Spec => []AnswersHold
<1>1. IInv => AnswersHold
  <2> SUFFICES ASSUME IInv  PROVE AnswersHold
    OBVIOUS
  <2>1. ASSUME NEW t \in refused, NEW n \in messages
        PROVE  Stored(n) # t
    <3>1. PICK m \in messages :
            /\ Stored(m) # t
            /\ \/ m.sender = t[2] /\ m.body.client = t[3].client
               \/ m.body.bounty = t[3].bounty /\ m.body.bounty # NoBounty
      BY DEF IInv, AnswerInv, Taken
    <3>2. Stored(n) = t => t[2] = n.sender /\ t[3] = n.body
      BY DEF Stored
    <3>3. \/ m = n
          \/ /\ m.sender = n.sender => m.body.client # n.body.client
             /\ m.body.bounty = n.body.bounty => m.body.bounty = NoBounty
      BY DEF IInv, DocumentInv, MessagesAreNumbered
    <3> QED
      BY <3>1, <3>2, <3>3
  <2> QED
    BY <2>1 DEF AnswersHold, IInv, AnswerInv
<1> QED
  BY <1>1, InductiveInvariant, PTL

-----------------------------------------------------------------------------
LEMMA LengthIs ==
  ASSUME NEW c
  PROVE  Log!Length(c) = Cardinality(EntriesOf(c))
<1>1. \A S : Log!Cardinality(S) = Cardinality(S)
  BY DEF Log!Cardinality, Cardinality
<1>2. Log!Length(c) = Log!Cardinality(EntriesOf(c))
  BY DEF Log!Length, EntriesOf, Entries, Entry
<1> QED
  BY <1>1, <1>2

LEMMA SendImplements ==
  ASSUME IInv, NEW p \in Requests, CommitSend(p)
  PROVE  Log!Next
<1> DEFINE r == request[p]
<1>1. PICK d, new : SendCommits(r, d, new)
  BY CommitSendWrites
<1>2. /\ r.conversation \in Conversations /\ r.user \in r.conversation /\ r.user \in Users
      /\ \A m \in messages : m.sender = r.user => m.body.client # r.body.client
      /\ r.body \in Body
  <2>1. r.conversation \in Conversations /\ r.user \in r.conversation
    BY <1>1, NewMessage
  <2>2. r.user \in Users /\ r.body \in Body /\ r.pc \in HoldsKey /\ SendOK(r)
    BY <1>1 DEF SendCommits, SendOK, SendRequest, HoldsKey
  <2> QED
    BY <2>1, <2>2 DEF SendOK
<1>3. messages' = messages \union {new}
        /\ new = [conversation |-> r.conversation,
                  sequence |-> conversation[r.conversation].next,
                  sender |-> r.user, body |-> r.body, at |-> r.time]
  BY <1>1 DEF SendCommits
<1>4. Log!Length(r.conversation) + 1 = conversation[r.conversation].next
  <2>1. Log!Length(r.conversation) = Cardinality(EntriesOf(r.conversation))
    BY LengthIs
  <2>2. Cardinality(EntriesOf(r.conversation)) = conversation[r.conversation].next - 1
    BY <1>2 DEF IInv, DocumentInv
  <2>3. conversation[r.conversation].next \in Nat
    BY <1>2 DEF IInv, DocumentInv, ConversationDocument
  <2> QED
    BY <2>1, <2>2, <2>3
<1>5. \A e \in Entries : e.sender = r.user => e.body.client # r.body.client
  BY <1>2 DEF Entries, Entry
<1>6. Entries' = Entries \union
        {[conversation |-> r.conversation, position |-> Log!Length(r.conversation) + 1,
          sender |-> r.user, body |-> r.body]}
  BY <1>3, <1>4 DEF Entries, Entry
<1>7. [c \in Conversations |-> conversation[c].read]'
        = [c \in Conversations |-> conversation[c].read]
  <2>1. \A c \in Conversations : conversation'[c].read = conversation[c].read
    BY <1>1, <1>2 DEF SendCommits, IInv, DocumentInv
  <2> QED
    BY <2>1
<1>8. PICK c \in Conversations, u \in Users : c = r.conversation /\ u = r.user /\ u \in c
  BY <1>2
<1>9. Log!Send(c, u)
  BY <1>2, <1>5, <1>6, <1>7, <1>8 DEF Log!Send, Entries, Entry
<1> QED
  BY <1>8, <1>9 DEF Log!Next

LEMMA MarkImplements ==
  ASSUME IInv, NEW p \in Requests, CommitRead(p)
  PROVE  Log!Next
<1> DEFINE r == request[p]
           log == [x \in Conversations |-> conversation[x].read]
<1>1. PICK d : MarkCommits(r, d)
  BY CommitReadWrites
<1>2. PICK c \in Conversations, u \in Users :
        c = r.conversation /\ u = r.user /\ u \in c /\ r.through \in Nat
  BY <1>1 DEF MarkCommits, MarkOK, MarkRequest
<1>3. conversation[c] \in ConversationDocument
  BY <1>2 DEF IInv, DocumentInv
<1>4. Log!Length(c) = conversation[c].next - 1
  <2>1. Log!Length(c) = Cardinality(EntriesOf(c))
    BY LengthIs
  <2> QED
    BY <1>2, <2>1 DEF IInv, DocumentInv
<1>5. r.through \in log[c][u] + 1..Log!Length(c)
  BY <1>1, <1>2, <1>3, <1>4 DEF MarkCommits, MayMark, ConversationDocument
<1>6. [x \in Conversations |-> conversation'[x].read] = [log EXCEPT ![c][u] = r.through]
  <2>1. \A x \in Conversations :
          conversation'[x].read =
            IF x = c THEN [conversation[c].read EXCEPT ![u] = r.through]
            ELSE conversation[x].read
    BY <1>1, <1>2 DEF MarkCommits, IInv, DocumentInv
  <2> QED
    BY <1>2, <2>1
<1>7. messages' = messages
  BY <1>1 DEF MarkCommits
<1>8. Log!MarkRead(c, u)
  BY <1>5, <1>6, <1>7 DEF Log!MarkRead
<1> QED
  BY <1>2, <1>8 DEF Log!Next

\* sendMessage and markConversationRead, cut into reads, writes and commits, look
\* like single steps on the log of a conversation.
THEOREM Refinement == Spec => ImplementsLog
<1>1. Init => Log!Init
  BY DEF Init, Log!Init, Empty
<1>2. IInv /\ [Next]_vars => [Log!Next]_(Log!vars)
  <2> SUFFICES ASSUME IInv, [Next]_vars  PROVE [Log!Next]_(Log!vars)
    OBVIOUS
  <2>1. ASSUME UNCHANGED database  PROVE UNCHANGED Log!vars
    BY <2>1 DEF Log!vars, database
  <2>2. CASE Tick
    BY <2>1, <2>2 DEF Tick
  <2>3. CASE UNCHANGED vars
    BY <2>1, <2>3 DEF vars, database
  <2>4. ASSUME NEW p \in Requests, SendNext(p)  PROVE [Log!Next]_(Log!vars)
    <3>1. CASE CommitSend(p)
      BY <3>1, SendImplements
    <3>2. CASE ~CommitSend(p)
      <4>1. UNCHANGED database
        BY <2>4, <3>2 DEF SendNext, ReceiveSend, RepeatSend, ReadForSend, IncrementSequence,
           CreateMessage, CreateBounty, Recover
      <4> QED
        BY <2>1, <4>1
    <3> QED
      BY <3>1, <3>2
  <2>5. ASSUME NEW p \in Requests, MarkNext(p)  PROVE [Log!Next]_(Log!vars)
    <3>1. CASE CommitRead(p)
      BY <3>1, MarkImplements
    <3>2. CASE ~CommitRead(p)
      <4>1. UNCHANGED database
        BY <2>5, <3>2 DEF MarkNext, ReceiveMarkRead, RepeatMarkRead, ReadForMarking,
           WriteReadState
      <4> QED
        BY <2>1, <4>1
    <3> QED
      BY <3>1, <3>2
  <2>6. ASSUME NEW p \in Requests, RequestEnds(p)  PROVE [Log!Next]_(Log!vars)
    BY <2>1, <2>6 DEF RequestEnds
  <2> QED
    BY <2>2, <2>3, <2>4, <2>5, <2>6 DEF Next
<1> QED
  BY <1>1, <1>2, InductiveInvariant, PTL DEF Spec, ImplementsLog, Log!Spec
=============================================================================
