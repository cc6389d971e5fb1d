------------------------------ MODULE Broadcast ------------------------------
(***************************************************************************)
(* The encrypted broadcasts of one creator in beSeen-api, from the draft   *)
(* with its audience snapshot over the upload of the wrapped keys to the   *)
(* publication, with cancellation, expiry and the cleanup timer.  No       *)
(* handler uses a transaction: each action is one database call, and the   *)
(* calls of different requests, processes and timers interleave.           *)
(*                                                                         *)
(* Abstracted: ciphertexts are model values; a signature is valid exactly  *)
(* for the digest it was made for, and a digest is the keys it was made    *)
(* of; the audience is any set of users (it is read once and never again). *)
(* Requests that only read, or that end at their first read, change        *)
(* nothing and are left out.                                               *)
(***************************************************************************)
EXTENDS Integers, FiniteSets

CONSTANTS
  Ids,        \* ObjectIds of broadcasts
  ClientIds,  \* clientBroadcastId
  Users,      \* possible recipients
  Keys,       \* encryptedBroadcastKey
  Contents,   \* the other signed fields of a finalization
  Requests,   \* requests that are under way
  Timers,     \* cleanup timers: one in each API process
  NoClient, NoKey, NoRow, NoContent,
  BatchLimit, \* batchLimit of the cleanup
  LostSaves   \* may draft.save() throw although the database applied it?

ASSUME ConstantsAssumption ==
  /\ NoClient \notin ClientIds
  /\ NoKey \notin Keys /\ NoRow \notin Keys /\ NoKey # NoRow
  /\ NoContent \notin Contents
  /\ BatchLimit \in Nat \ {0}
  /\ LostSaves \in BOOLEAN
  /\ IsFiniteSet(Users)
  /\ Requests \intersect Timers = {}

\* Whoever runs a handler.
Processes == Requests \union Timers

VARIABLES
  doc,       \* Broadcast documents
  rows,      \* BroadcastRecipient documents: encryptedBroadcastKey by user
  process,   \* what each request or cleanup run knows
  accepted,  \* answers of key uploads: <<broadcast, user, key>>
  announced, \* answers of finalizations: <<broadcast, content>>
  withdrawn  \* answers of cancellations

vars == <<doc, rows, process, accepted, announced, withdrawn>>
answers == <<accepted, announced, withdrawn>>

-----------------------------------------------------------------------------
(* State *)

Statuses == {"draft", "published", "canceled"}

\* The recipients of a broadcast: a user without a document has NoRow.
RecipientRows == [Users -> Keys \union {NoKey, NoRow}]
NoRows == [u \in Users |-> NoRow]
Recipients(keys) == {u \in Users : keys[u] # NoRow}

BroadcastDocument ==
  [status : Statuses \union {"absent", "deleted"}, client : ClientIds \union {NoClient},
   count : Nat, expired : BOOLEAN, content : Contents \union {NoContent},
   digest : RecipientRows]

Absent ==
  [status |-> "absent", client |-> NoClient, count |-> 0, expired |-> FALSE,
   content |-> NoContent, digest |-> NoRows]

CreatePCs == {"insert", "save", "rollback"}
PCs == CreatePCs \union
  {"idle", "readRows", "writeKeys", "readRecipients", "publish", "cancel", "recheck",
   "removeRows", "markExpired", "findCanceled", "deleteRows", "deleteDrafts"}

\* ids: the broadcasts at hand; keys: the batch of an upload, or what a
\* finalization read; todo: the recipients that the batch has still to write.
ProcessRecord ==
  [pc : PCs, client : ClientIds \union {NoClient}, ids : SUBSET Ids,
   audience : SUBSET Users, keys : RecipientRows, todo : SUBSET Users,
   matched : BOOLEAN, content : Contents \union {NoContent}]

Idle ==
  [pc |-> "idle", client |-> NoClient, ids |-> {}, audience |-> {}, keys |-> NoRows,
   todo |-> {}, matched |-> TRUE, content |-> NoContent]

TypeOK ==
  /\ doc \in [Ids -> BroadcastDocument]
  /\ rows \in [Ids -> RecipientRows]
  /\ process \in [Processes -> ProcessRecord]
  /\ accepted \subseteq Ids \X Users \X Keys
  /\ announced \subseteq Ids \X Contents
  /\ withdrawn \subseteq Ids

Init ==
  /\ doc = [id \in Ids |-> Absent]
  /\ rows = [id \in Ids |-> NoRows]
  /\ process = [p \in Processes |-> Idle]
  /\ accepted = {}
  /\ announced = {}
  /\ withdrawn = {}

Step(p, pc) == process' = [process EXCEPT ![p].pc = pc]
Begin(p, pc, ids) ==
  /\ process[p].pc = "idle"
  /\ process' = [process EXCEPT ![p] = [Idle EXCEPT !.pc = pc, !.ids = ids]]
Finish(p) == process' = [process EXCEPT ![p] = Idle]

IsOpen(id) == doc[id].status = "draft" /\ ~doc[id].expired
SetStatus(ids, status) ==
  doc' = [id \in Ids |-> IF id \in ids THEN [doc[id] EXCEPT !.status = status] ELSE doc[id]]
RemoveRows(ids) == rows' = [id \in Ids |-> IF id \in ids THEN NoRows ELSE rows[id]]

-----------------------------------------------------------------------------
(* createBroadcastDraft *)

\* An id that was never used: ObjectIds are not repeated.
Fresh(id) ==
  /\ doc[id].status = "absent"
  /\ rows[id] = NoRows
  /\ \A p \in Processes : id \notin process[p].ids

\* There is no draft to resume, and the audience is resolved.
CreateDraft(p, client) ==
  /\ process[p].pc = "idle"
  /\ \A id \in Ids : doc[id].client = client => ~IsOpen(id)
  /\ \E id \in Ids, audience \in SUBSET Users :
       /\ Fresh(id)
       /\ process' = [process EXCEPT ![p] = [Idle EXCEPT !.pc = "insert", !.client = client,
                                                         !.ids = {id}, !.audience = audience]]
  /\ UNCHANGED <<doc, rows, answers>>

\* insertMany has written the rows of these users.
InsertRows(p, users) ==
  rows' = [id \in Ids |->
             IF id \in process[p].ids
             THEN [u \in Users |-> IF u \in users THEN NoKey ELSE rows[id][u]]
             ELSE rows[id]]

InsertRecipients(p) ==
  /\ process[p].pc = "insert"
  /\ InsertRows(p, process[p].audience)
  /\ Step(p, "save")
  /\ UNCHANGED <<doc, answers>>

\* insertMany stops somewhere on its way.
InsertFails(p) ==
  /\ process[p].pc = "insert"
  /\ \E users \in SUBSET process[p].audience : InsertRows(p, users)
  /\ Step(p, "rollback")
  /\ UNCHANGED <<doc, answers>>

\* The unique index over creator and clientBroadcastId spans every status.
Unique(client) == \A id \in Ids : doc[id].client # client

\* Mutant: the snapshot is counted as if the creator were in it.
StoreDraftWithoutCreator(p) ==
  /\ Unique(process[p].client)
  /\ doc' = [id \in Ids |->
       IF id \in process[p].ids
       THEN [Absent EXCEPT !.status = "draft", !.client = process[p].client,
                           !.count = Cardinality(process[p].audience) - 1]
       ELSE doc[id]]

StoreDraft(p) ==
  /\ Unique(process[p].client)
  /\ doc' = [id \in Ids |->
       IF id \in process[p].ids
       THEN [Absent EXCEPT !.status = "draft", !.client = process[p].client,
                           !.count = Cardinality(process[p].audience)]
       ELSE doc[id]]

SaveDraft(p) ==
  /\ process[p].pc = "save"
  /\ StoreDraft(p)
  /\ Finish(p)
  /\ UNCHANGED <<rows, answers>>

\* A duplicate key, or an error of the driver; with LostSaves also one that
\* hides a write that was applied.
SaveFails(p) ==
  /\ process[p].pc = "save"
  /\ UNCHANGED doc \/ (LostSaves /\ StoreDraft(p))
  /\ Step(p, "rollback")
  /\ UNCHANGED <<rows, answers>>

RollbackDraft(p) ==
  /\ process[p].pc = "rollback"
  /\ RemoveRows(process[p].ids)
  /\ Finish(p)
  /\ UNCHANGED <<doc, answers>>

-----------------------------------------------------------------------------
(* uploadBroadcastRecipientKeys *)

\* A batch has one key for each of its recipients.
Batches == {keys \in [Users -> Keys \union {NoRow}] : keys # NoRows}

UploadKeys(p, id) ==
  /\ IsOpen(id)
  /\ process[p].pc = "idle"
  /\ \E batch \in Batches :
       process' = [process EXCEPT ![p] = [Idle EXCEPT !.pc = "readRows", !.ids = {id},
                                                      !.keys = batch]]
  /\ UNCHANGED <<doc, rows, answers>>

ReadRecipientRows(p) ==
  /\ process[p].pc = "readRows"
  /\ \E id \in process[p].ids :
       LET batch == process[p].keys IN
       IF \A u \in Recipients(batch) : rows[id][u] \in {NoKey, batch[u]}
       THEN process' = [process EXCEPT ![p].pc = "writeKeys", ![p].todo = Recipients(batch)]
       ELSE Finish(p)
  /\ UNCHANGED <<doc, rows, answers>>

\* Mutant: a row is written whatever key it has.
WritableAnyhow(id, u, key) == rows[id][u] # NoRow

\* The filter of an updateOne: the row is there and has no other key.
Writable(id, u, key) == rows[id][u] \in {NoKey, key}

\* One updateOne of the bulkWrite; the answer follows the last one and is
\* positive if matchedCount is the size of the batch.
WriteRecipientKey(p, u) ==
  /\ process[p].pc = "writeKeys"
  /\ u \in process[p].todo
  /\ \E id \in process[p].ids :
       LET batch == process[p].keys
           matched == process[p].matched /\ Writable(id, u, batch[u])
       IN
       /\ rows' = IF Writable(id, u, batch[u]) THEN [rows EXCEPT ![id][u] = batch[u]] ELSE rows
       /\ IF process[p].todo = {u}
          THEN /\ Finish(p)
               /\ accepted' = IF matched
                              THEN accepted \union
                                     {<<id, v, batch[v]>> : v \in Recipients(batch)}
                              ELSE accepted
          ELSE /\ process' = [process EXCEPT ![p].todo = @ \ {u}, ![p].matched = matched]
               /\ UNCHANGED accepted
  /\ UNCHANGED <<doc, announced, withdrawn>>

-----------------------------------------------------------------------------
(* finalizeBroadcast *)

FinalizeBroadcast(p, id, content) ==
  /\ process[p].pc = "idle"
  /\ IsOpen(id)
  /\ process' = [process EXCEPT ![p] = [Idle EXCEPT !.pc = "readRecipients", !.ids = {id},
                                                    !.content = content]]
  /\ UNCHANGED <<doc, rows, answers>>

\* All recipients of the snapshot are there, each with its key.
Complete(id) ==
  /\ Cardinality(Recipients(rows[id])) = doc[id].count
  /\ \A u \in Users : rows[id][u] # NoKey

\* A signature over another digest ends the request as well.
ReadRecipients(p) ==
  /\ process[p].pc = "readRecipients"
  /\ \E id \in process[p].ids :
       \/ /\ Complete(id)
          /\ process' = [process EXCEPT ![p].pc = "publish", ![p].keys = rows[id]]
       \/ Finish(p)
  /\ UNCHANGED <<doc, rows, answers>>

\* The filter of the update that publishes; expiresAt is not part of it.
Publishable(id) == doc[id].status = "draft"

\* Losing the race to an identical finalization is a success too.
Publish(p) ==
  /\ process[p].pc = "publish"
  /\ \E id \in process[p].ids :
       LET content == process[p].content IN
       \/ /\ Publishable(id)
          /\ doc' = [doc EXCEPT ![id].status = "published", ![id].content = content,
                                ![id].digest = process[p].keys]
          /\ announced' = announced \union {<<id, content>>}
       \/ /\ ~Publishable(id)
          /\ announced' = IF doc[id].status = "published" /\ doc[id].content = content
                             /\ doc[id].digest = process[p].keys
                          THEN announced \union {<<id, content>>} ELSE announced
          /\ UNCHANGED doc
  /\ Finish(p)
  /\ UNCHANGED <<rows, accepted, withdrawn>>

-----------------------------------------------------------------------------
(* cancelBroadcastDraft *)

CancelDraft(p, id) ==
  /\ \/ doc[id].status = "draft" /\ Begin(p, "cancel", {id})
     \/ doc[id].status = "canceled" /\ Begin(p, "removeRows", {id})
  /\ UNCHANGED <<doc, rows, answers>>

MarkCanceled(p) ==
  /\ process[p].pc = "cancel"
  /\ \E id \in process[p].ids :
       \/ /\ doc[id].status = "draft"
          /\ SetStatus({id}, "canceled")
          /\ Step(p, "removeRows")
       \/ /\ doc[id].status # "draft"
          /\ Step(p, "recheck")
          /\ UNCHANGED doc
  /\ UNCHANGED <<rows, answers>>

\* Mutant: losing the race is taken for somebody else's cancellation.
RecheckAssumesCanceled(p) ==
  /\ process[p].pc = "recheck"
  /\ Step(p, "removeRows")
  /\ UNCHANGED <<doc, rows, answers>>

\* The update matched nothing: published, deleted, or canceled by another.
RecheckCanceled(p) ==
  /\ process[p].pc = "recheck"
  /\ \E id \in process[p].ids :
       IF doc[id].status = "canceled" THEN Step(p, "removeRows") ELSE Finish(p)
  /\ UNCHANGED <<doc, rows, answers>>

RemoveCanceledRows(p) ==
  /\ process[p].pc = "removeRows"
  /\ RemoveRows(process[p].ids)
  /\ withdrawn' = withdrawn \union process[p].ids
  /\ Finish(p)
  /\ UNCHANGED <<doc, accepted, announced>>

-----------------------------------------------------------------------------
(* cleanupExpiredBroadcastDrafts *)

ExpireDraft(id) ==
  /\ IsOpen(id)
  /\ doc' = [doc EXCEPT ![id].expired = TRUE]
  /\ UNCHANGED <<rows, process, answers>>

\* Mutant: the cleanup starts only if one batch is enough for all of them.
BatchesThatFit(ids) == {IF Cardinality(ids) <= BatchLimit THEN ids ELSE {}}

\* As many of these as one batch takes.
BatchesOf(ids) ==
  {batch \in SUBSET ids :
     Cardinality(batch) = IF Cardinality(ids) < BatchLimit THEN Cardinality(ids)
                          ELSE BatchLimit}

FindExpiredDrafts(p) ==
  /\ \E batch \in BatchesOf({id \in Ids : doc[id].status = "draft" /\ doc[id].expired}) :
       Begin(p, IF batch = {} THEN "findCanceled" ELSE "markExpired", batch)
  /\ UNCHANGED <<doc, rows, answers>>

\* Mutant: the drafts that were found expired are deleted right away.
MarkExpiredAndKeepThem(p) ==
  /\ process[p].pc = "markExpired"
  /\ SetStatus({id \in process[p].ids : doc[id].status = "draft"}, "canceled")
  /\ Step(p, "deleteRows")
  /\ UNCHANGED <<rows, answers>>

MarkExpiredDrafts(p) ==
  /\ process[p].pc = "markExpired"
  /\ SetStatus({id \in process[p].ids : doc[id].status = "draft"}, "canceled")
  /\ process' = [process EXCEPT ![p].pc = "findCanceled", ![p].ids = {}]
  /\ UNCHANGED <<rows, answers>>

\* Mutant: only what the drafts of this run became is deleted.
FindNoOldCanceledDrafts(p) ==
  /\ process[p].pc = "findCanceled"
  /\ Finish(p)
  /\ UNCHANGED <<doc, rows, answers>>

FindCanceledDrafts(p) ==
  /\ process[p].pc = "findCanceled"
  /\ \E batch \in BatchesOf({id \in Ids : doc[id].status = "canceled"}) :
       IF batch = {} THEN Finish(p)
       ELSE process' = [process EXCEPT ![p].pc = "deleteRows", ![p].ids = batch]
  /\ UNCHANGED <<doc, rows, answers>>

DeleteRecipients(p) ==
  /\ process[p].pc = "deleteRows"
  /\ RemoveRows(process[p].ids)
  /\ Step(p, "deleteDrafts")
  /\ UNCHANGED <<doc, answers>>

DeleteDrafts(p) ==
  /\ process[p].pc = "deleteDrafts"
  /\ doc' = [id \in Ids |->
       IF id \in process[p].ids /\ doc[id].status = "canceled"
       THEN [Absent EXCEPT !.status = "deleted"] ELSE doc[id]]
  /\ Finish(p)
  /\ UNCHANGED <<rows, answers>>

\* A process stops or a call throws outside the catch block of the creation;
\* an insertMany that was under way may have written some rows.
Crash(p) ==
  /\ process[p].pc # "idle"
  /\ \/ UNCHANGED rows
     \/ process[p].pc = "insert" /\ \E users \in SUBSET process[p].audience : InsertRows(p, users)
  /\ Finish(p)
  /\ UNCHANGED <<doc, answers>>

-----------------------------------------------------------------------------
CreateNext(p) ==
  \/ \E client \in ClientIds : CreateDraft(p, client)
  \/ InsertRecipients(p) \/ InsertFails(p)
  \/ SaveDraft(p) \/ SaveFails(p) \/ RollbackDraft(p)

UploadNext(p) ==
  \/ \E id \in Ids : UploadKeys(p, id)
  \/ ReadRecipientRows(p)
  \/ \E u \in Users : WriteRecipientKey(p, u)

FinalizeNext(p) ==
  \/ \E id \in Ids, content \in Contents : FinalizeBroadcast(p, id, content)
  \/ ReadRecipients(p) \/ Publish(p)

CancelNext(p) ==
  \/ \E id \in Ids : CancelDraft(p, id)
  \/ MarkCanceled(p) \/ RecheckCanceled(p) \/ RemoveCanceledRows(p)

CleanupNext(p) ==
  \/ FindExpiredDrafts(p) \/ MarkExpiredDrafts(p) \/ FindCanceledDrafts(p)
  \/ DeleteRecipients(p) \/ DeleteDrafts(p)

Next ==
  \/ \E id \in Ids : ExpireDraft(id)
  \/ \E p \in Requests : CreateNext(p) \/ UploadNext(p) \/ FinalizeNext(p) \/ CancelNext(p)
  \/ \E p \in Timers : CleanupNext(p)
  \/ \E p \in Processes : Crash(p)

Spec == Init /\ [][Next]_vars

\* The timer repeats the cleanup forever, and not every run of it is cut off
\* at the same call.
Fairness ==
  \A p \in Timers :
    /\ SF_vars(FindExpiredDrafts(p))
    /\ SF_vars(MarkExpiredDrafts(p))
    /\ SF_vars(FindCanceledDrafts(p))
    /\ SF_vars(DeleteRecipients(p))
    /\ SF_vars(DeleteDrafts(p))

FairSpec == Spec /\ Fairness

-----------------------------------------------------------------------------
(* Properties *)

\* A published broadcast has exactly the recipients of its snapshot, each
\* with a wrapped key, and the stored keys are the ones its signature covers,
\* whatever uploads, cancellations and cleanups run beside the publication.
PublishedIsComplete ==
  \A id \in Ids : doc[id].status = "published" =>
    /\ Cardinality(Recipients(rows[id])) = doc[id].count
    /\ \A u \in Users : rows[id][u] # NoKey
    /\ rows[id] = doc[id].digest

\* What a client was told stays true: an accepted key is the stored one, an
\* announced publication stands with its content, and a canceled draft is
\* never published and leaves no recipients behind.
AnswersHold ==
  /\ \A a \in accepted : doc[a[1]].status \in {"draft", "published"} => rows[a[1]][a[2]] = a[3]
  /\ \A a \in announced : doc[a[1]].status = "published" /\ doc[a[1]].content = a[2]
  /\ \A id \in withdrawn : doc[id].status \in {"canceled", "deleted"} /\ rows[id] = NoRows

\* The feed of a user joins the recipient's rows that have a key with the
\* published broadcasts; it implements BroadcastDelivery.
Delivery == INSTANCE BroadcastDelivery WITH
  sealed <- {<<id, doc[id].content>> : id \in {i \in Ids : doc[i].status = "published"}},
  withdrawn <- {id \in Ids : doc[id].status \in {"canceled", "deleted"}},
  feed <- [u \in Users |->
             {<<id, rows[id][u]>> :
                id \in {i \in Ids : doc[i].status = "published"
                                      /\ rows[i][u] \notin {NoKey, NoRow}}}]

ImplementsDelivery == Delivery!Spec

\* A draft that expires or is canceled is eventually deleted with its
\* recipients unless it is published, also when every handler that touched it
\* died halfway.
ExpiredIsRemoved ==
  \A id \in Ids :
    (doc[id].status = "canceled" \/ (doc[id].status = "draft" /\ doc[id].expired))
      ~> \/ doc[id].status = "published"
         \/ doc[id].status = "deleted" /\ rows[id] = NoRows
=============================================================================
