--------------------------- MODULE BroadcastProofs ---------------------------
(***************************************************************************)
(* Proofs about Broadcast for any number of broadcasts, users, requests    *)
(* and cleanup timers.  IInv, the invariant if a failed draft.save() has   *)
(* written nothing, says what each handler may rely on at each await; it   *)
(* survives the steps of all others because a document only moves forward  *)
(* and a key that was stored in a live broadcast stays.  LostSaveIInv, in  *)
(* the last section, is what remains whatever a failed save has written:   *)
(* there a live broadcast may lose rows, but gains none.                   *)
(***************************************************************************)
EXTENDS Broadcast, FiniteSetTheorems, TLAPS

Live(id) == doc[id].status \in {"draft", "published"}
Settled(id) == doc[id].status \in {"canceled", "deleted"}

\* A broadcast that is published is complete and matches its signature.
PublishedOK(id) ==
  /\ Cardinality(Recipients(rows[id])) = doc[id].count
  /\ \A u \in Users : rows[id][u] # NoKey
  /\ rows[id] = doc[id].digest

\* What a handler may rely on between two of its calls.
ProcessOK(s) ==
  /\ s.pc = "idle" => s.ids = {}
  /\ s.pc \in {"readRows", "writeKeys", "readRecipients", "publish", "cancel", "recheck"} =>
       \A i, j \in s.ids : i = j
  /\ s.pc \in CreatePCs => \A id \in s.ids : doc[id].status = "absent"
  /\ s.pc \notin CreatePCs => \A id \in s.ids : doc[id].status # "absent"
  /\ s.pc \in {"removeRows", "deleteRows", "deleteDrafts"} => \A id \in s.ids : Settled(id)
  /\ s.pc \in {"readRows", "writeKeys"} => \A u \in Users : s.keys[u] # NoKey
  /\ s.pc = "writeKeys" => s.todo \subseteq Recipients(s.keys)
  /\ s.pc = "writeKeys" =>
       \A id \in s.ids, u \in Recipients(s.keys) \ s.todo :
         s.matched /\ Live(id) => rows[id][u] = s.keys[u]
  /\ s.pc \in {"readRecipients", "publish"} => s.content \in Contents
  /\ s.pc = "publish" =>
       /\ \A u \in Users : s.keys[u] # NoKey
       /\ \A id \in s.ids : Live(id) =>
            /\ Cardinality(Recipients(s.keys)) = doc[id].count
            /\ rows[id] = s.keys

ProcessInv == \A p \in Processes : ProcessOK(process[p])

\* Nobody else knows the id of a broadcast that is being created.
CreationsApart ==
  \A p, q \in Processes :
    p # q /\ process[p].pc \in CreatePCs => process[p].ids \intersect process[q].ids = {}

\* Keys are accepted for broadcasts that exist only.
AcceptedInv == \A a \in accepted : doc[a[1]].status # "absent"

IInv ==
  /\ TypeOK
  /\ PublishedIsComplete
  /\ AnswersHold
  /\ ProcessInv
  /\ CreationsApart
  /\ AcceptedInv

LEMMA IdleType == Idle \in ProcessRecord /\ Idle.pc = "idle" /\ Idle.ids = {}
BY DEF Idle, ProcessRecord, PCs, NoRows, RecipientRows

LEMMA InitIInv == Init => IInv
<1> SUFFICES ASSUME Init PROVE IInv
  OBVIOUS
<1> USE DEF Init
<1>1. Absent \in BroadcastDocument /\ NoRows \in RecipientRows
  BY DEF Absent, BroadcastDocument, NoRows, RecipientRows
<1>2. TypeOK
  BY <1>1, IdleType DEF TypeOK
<1>3. PublishedIsComplete /\ AnswersHold /\ AcceptedInv
  BY DEF PublishedIsComplete, AnswersHold, AcceptedInv, Absent
<1>4. ProcessInv /\ CreationsApart
  BY IdleType DEF ProcessInv, ProcessOK, CreationsApart, CreatePCs
<1> QED
  BY <1>2, <1>3, <1>4 DEF IInv

-----------------------------------------------------------------------------
(* How the shared state moves *)

\* In this step the rows of id only gain keys where there was none.
KeysKept(id) ==
  \A u \in Users :
    \/ rows'[id][u] = rows[id][u]
    \/ rows[id][u] = NoKey /\ rows'[id][u] \in Keys

\* In this step the document of id moves forward, or not at all.
Moves(id) ==
  \/ /\ doc[id].status = "absent"
     /\ doc'[id] = doc[id] \/ doc'[id].status = "draft"
  \/ /\ doc[id].status = "draft"
     /\ doc'[id].status \in {"draft", "published", "canceled"}
     /\ doc'[id].count = doc[id].count
     /\ KeysKept(id)
  \/ /\ doc[id].status = "published"
     /\ doc'[id] = doc[id]
     /\ KeysKept(id)
  \/ /\ Settled(id)
     /\ doc'[id].status \in {"canceled", "deleted"}
     /\ rows'[id] = NoRows \/ KeysKept(id)

\* A broadcast that is live after the step and existed before was live, and a
\* complete set of its keys is unchanged.
LEMMA LiveKept ==
  ASSUME TypeOK, TypeOK', NEW id \in Ids, Moves(id), doc[id].status # "absent",
         doc'[id].status \in {"draft", "published"}
  PROVE  /\ Live(id) /\ KeysKept(id) /\ doc'[id].count = doc[id].count
         /\ (\A u \in Users : rows[id][u] # NoKey) => rows'[id] = rows[id]
<1>1. Live(id) /\ KeysKept(id) /\ doc'[id].count = doc[id].count
  BY DEF Moves, Live, Settled
<1>2. rows[id] \in RecipientRows /\ rows'[id] \in RecipientRows
  BY DEF TypeOK
<1>3. ASSUME \A u \in Users : rows[id][u] # NoKey PROVE rows'[id] = rows[id]
  <2>1. \A u \in Users : rows'[id][u] = rows[id][u]
    BY <1>1, <1>3 DEF KeysKept
  <2> QED
    BY <1>2, <2>1 DEF RecipientRows
<1> QED
  BY <1>1, <1>3

\* What one handler relies on survives the steps of the others.
LEMMA ProcessKept ==
  ASSUME TypeOK, TypeOK', \A id \in Ids : Moves(id),
         NEW s \in ProcessRecord, ProcessOK(s),
         s.pc \in CreatePCs => \A id \in s.ids : doc'[id].status = "absent"
  PROVE  ProcessOK(s)'
<1>0. s.ids \subseteq Ids /\ s.todo \subseteq Users /\ s.keys \in RecipientRows
  BY DEF ProcessRecord
<1>1. \A id \in Ids : doc[id].status # "absent" => doc'[id].status # "absent"
  BY DEF Moves, Settled
<1>2. \A id \in Ids : Settled(id) => Settled(id)'
  BY DEF Moves, Settled
<1>3. s.pc \notin CreatePCs => \A id \in s.ids : doc'[id].status # "absent"
  BY <1>0, <1>1 DEF ProcessOK
<1>4. s.pc \in {"removeRows", "deleteRows", "deleteDrafts"} => \A id \in s.ids : Settled(id)'
  BY <1>0, <1>2 DEF ProcessOK
<1>5. ASSUME s.pc = "writeKeys", NEW id \in s.ids, NEW u \in Recipients(s.keys) \ s.todo,
             s.matched, doc'[id].status \in {"draft", "published"}
      PROVE  rows'[id][u] = s.keys[u]
  <2>0. u \in Users /\ id \in Ids
    BY <1>0 DEF Recipients
  <2>1. doc[id].status # "absent"
    BY <1>5 DEF ProcessOK, CreatePCs
  <2>2. Live(id) /\ KeysKept(id)
    BY <1>5, <2>0, <2>1, LiveKept
  <2>3. rows[id][u] = s.keys[u] /\ s.keys[u] # NoKey
    BY <1>5, <2>0, <2>2 DEF ProcessOK
  <2> QED
    BY <2>0, <2>2, <2>3 DEF KeysKept
<1>6. ASSUME s.pc = "publish", NEW id \in s.ids, doc'[id].status \in {"draft", "published"}
      PROVE  Cardinality(Recipients(s.keys)) = doc'[id].count /\ rows'[id] = s.keys
  <2>0. id \in Ids
    BY <1>0
  <2>1. doc[id].status # "absent"
    BY <1>6 DEF ProcessOK, CreatePCs
  <2>2. Live(id) /\ doc'[id].count = doc[id].count
        /\ ((\A u \in Users : rows[id][u] # NoKey) => rows'[id] = rows[id])
    BY <1>6, <2>0, <2>1, LiveKept
  <2>3. rows[id] = s.keys /\ Cardinality(Recipients(s.keys)) = doc[id].count
        /\ \A u \in Users : s.keys[u] # NoKey
    BY <1>6, <2>2 DEF ProcessOK
  <2> QED
    BY <2>2, <2>3
<1> QED
  BY <1>3, <1>4, <1>5, <1>6 DEF ProcessOK, Live, Recipients

-----------------------------------------------------------------------------
(* One step of the process p, which ends up with the record r *)

\* Only p moves, and only p can bring a document into being.
OnlyMoves(p, r) ==
  /\ \A q \in Processes : process'[q] = process[q] \/ (q = p /\ process'[q] = r)
  /\ r.pc \in CreatePCs => \A q \in Processes \ {p} : r.ids \intersect process[q].ids = {}
  /\ r.pc \notin CreatePCs => \A id \in r.ids : doc[id].status # "absent"
  /\ \A id \in Ids : doc[id].status = "absent" /\ doc'[id].status # "absent" =>
       /\ p \in Processes /\ id \in process[p].ids /\ process[p].pc \in CreatePCs
       /\ process'[p] = r

\* The answers given in this step are true after it.
NewAnswersHold ==
  /\ \A a \in accepted' \ accepted :
       /\ doc'[a[1]].status # "absent"
       /\ doc'[a[1]].status \in {"draft", "published"} => rows'[a[1]][a[2]] = a[3]
  /\ \A a \in announced' \ announced : doc'[a[1]].status = "published" /\ doc'[a[1]].content = a[2]
  /\ \A id \in withdrawn' \ withdrawn :
       doc'[id].status \in {"canceled", "deleted"} /\ rows'[id] = NoRows

LEMMA CreatorsKept ==
  ASSUME IInv, NEW p, NEW r, OnlyMoves(p, r), NEW q \in Processes,
         process[q].pc \in CreatePCs, process'[q] = process[q], process'[q] # r
  PROVE  \A id \in process[q].ids : doc'[id].status = "absent"
<1> SUFFICES ASSUME NEW id \in process[q].ids, doc'[id].status # "absent"
             PROVE  FALSE
  OBVIOUS
<1>0. process[q] \in ProcessRecord
  BY DEF IInv, TypeOK
<1>1. id \in Ids
  BY <1>0 DEF ProcessRecord
<1>2. doc[id].status = "absent"
  BY DEF IInv, ProcessInv, ProcessOK
<1>3. p \in Processes /\ id \in process[p].ids /\ process'[p] = r
  BY <1>1, <1>2 DEF OnlyMoves
<1>4. p # q
  BY <1>3
<1> QED
  BY <1>3, <1>4 DEF IInv, CreationsApart

LEMMA ProcessStep ==
  ASSUME IInv, TypeOK', \A id \in Ids : Moves(id), NEW p, NEW r, OnlyMoves(p, r), ProcessOK(r)'
  PROVE  ProcessInv' /\ CreationsApart'
<1>1. ASSUME NEW q \in Processes, NEW t, t = process'[q] PROVE ProcessOK(t)'
  <2>1. CASE t = r
    BY <2>1
  <2>2. CASE t # r
    <3>1. process'[q] = process[q] /\ t = process[q]
      BY <1>1, <2>2 DEF OnlyMoves
    <3>2. process[q] \in ProcessRecord /\ ProcessOK(process[q])
      BY DEF IInv, TypeOK, ProcessInv
    <3>3. process[q].pc \in CreatePCs => \A id \in process[q].ids : doc'[id].status = "absent"
      BY <1>1, <2>2, <3>1, CreatorsKept
    <3>4. t \in ProcessRecord /\ ProcessOK(t)
          /\ (t.pc \in CreatePCs => \A id \in t.ids : doc'[id].status = "absent")
      BY <3>1, <3>2, <3>3
    <3> QED
      BY <3>4, ProcessKept DEF IInv
  <2> QED
    BY <2>1, <2>2
<1>2. ASSUME NEW a \in Processes, NEW b \in Processes, a # b, process'[a].pc \in CreatePCs
      PROVE  process'[a].ids \intersect process'[b].ids = {}
  <2>1. CASE process'[a] = process[a] /\ process'[b] = process[b]
    BY <2>1, <1>2 DEF IInv, CreationsApart
  <2>2. CASE a = p /\ process'[a] = r /\ process'[b] = process[b]
    BY <2>2, <1>2 DEF OnlyMoves
  <2>3. CASE process'[a] = process[a] /\ b = p /\ process'[b] = r
    <3>1. \A id \in process[a].ids : doc[id].status = "absent"
      BY <1>2, <2>3 DEF IInv, ProcessInv, ProcessOK
    <3> QED
      BY <1>2, <2>3, <3>1 DEF OnlyMoves
  <2> QED
    BY <1>2, <2>1, <2>2, <2>3 DEF OnlyMoves
<1>3. ProcessInv'
  BY <1>1 DEF ProcessInv, ProcessOK
<1>4. CreationsApart'
  BY <1>2 DEF CreationsApart
<1> QED
  BY <1>3, <1>4

LEMMA PublishedStep ==
  ASSUME IInv, TypeOK', \A id \in Ids : Moves(id),
         \A id \in Ids : doc[id].status = "draft" /\ doc'[id].status = "published"
                            => PublishedOK(id)'
  PROVE  PublishedIsComplete'
<1> SUFFICES ASSUME NEW id \in Ids, doc'[id].status = "published"
             PROVE  PublishedOK(id)'
  BY DEF PublishedIsComplete, PublishedOK
<1>1. CASE doc[id].status = "draft"
  BY <1>1
<1>2. CASE doc[id].status # "draft"
  <2>1. doc[id].status = "published" /\ doc'[id] = doc[id]
    BY <1>2 DEF Moves, Settled
  <2>2. PublishedOK(id)
    BY <2>1 DEF IInv, PublishedIsComplete, PublishedOK
  <2>3. rows'[id] = rows[id]
    BY <2>1, <2>2, LiveKept DEF IInv, PublishedOK
  <2> QED
    BY <2>1, <2>2, <2>3 DEF PublishedOK, Recipients
<1> QED
  BY <1>1, <1>2

LEMMA AnswersStep ==
  ASSUME IInv, TypeOK', \A id \in Ids : Moves(id), NewAnswersHold
  PROVE  AnswersHold' /\ AcceptedInv'
<1>1. ASSUME NEW a \in accepted'
      PROVE  /\ doc'[a[1]].status # "absent"
             /\ doc'[a[1]].status \in {"draft", "published"} => rows'[a[1]][a[2]] = a[3]
  <2>1. CASE a \notin accepted
    BY <2>1 DEF NewAnswersHold
  <2>2. CASE a \in accepted
    <3>1. a[1] \in Ids /\ a[2] \in Users /\ a[3] \in Keys
      BY <2>2 DEF IInv, TypeOK
    <3>2. doc[a[1]].status # "absent"
      BY <2>2 DEF IInv, AcceptedInv
    <3>3. doc'[a[1]].status # "absent"
      BY <3>1, <3>2 DEF Moves, Settled
    <3>4. ASSUME doc'[a[1]].status \in {"draft", "published"}
          PROVE  rows'[a[1]][a[2]] = a[3]
      <4>1. Live(a[1]) /\ KeysKept(a[1])
        BY <3>1, <3>2, <3>4, LiveKept DEF IInv
      <4>2. rows[a[1]][a[2]] = a[3]
        BY <2>2, <4>1 DEF IInv, AnswersHold, Live
      <4> QED
        BY <3>1, <4>1, <4>2, ConstantsAssumption DEF KeysKept
    <3> QED
      BY <3>3, <3>4
  <2> QED
    BY <2>1, <2>2
<1>2. ASSUME NEW a \in announced'
      PROVE  doc'[a[1]].status = "published" /\ doc'[a[1]].content = a[2]
  <2>1. CASE a \notin announced
    BY <2>1 DEF NewAnswersHold
  <2>2. CASE a \in announced
    <3>1. a[1] \in Ids
      BY <2>2 DEF IInv, TypeOK
    <3>2. doc[a[1]].status = "published" /\ doc[a[1]].content = a[2]
      BY <2>2 DEF IInv, AnswersHold
    <3> QED
      BY <3>1, <3>2 DEF Moves, Settled
  <2> QED
    BY <2>1, <2>2
<1>3. ASSUME NEW id \in withdrawn'
      PROVE  doc'[id].status \in {"canceled", "deleted"} /\ rows'[id] = NoRows
  <2>1. CASE id \notin withdrawn
    BY <2>1 DEF NewAnswersHold
  <2>2. CASE id \in withdrawn
    <3>1. id \in Ids
      BY <2>2 DEF IInv, TypeOK
    <3>2. Settled(id) /\ rows[id] = NoRows
      BY <2>2 DEF IInv, AnswersHold, Settled
    <3>3. doc'[id].status \in {"canceled", "deleted"} /\ (rows'[id] = NoRows \/ KeysKept(id))
      BY <3>1, <3>2 DEF Moves, Settled
    <3>4. ASSUME KeysKept(id) PROVE rows'[id] = NoRows
      <4>1. \A u \in Users : rows'[id][u] = NoRow
        BY <3>2, <3>4, ConstantsAssumption DEF KeysKept, NoRows
      <4>2. rows'[id] \in RecipientRows
        BY <3>1 DEF TypeOK
      <4> QED
        BY <4>1, <4>2 DEF RecipientRows, NoRows
    <3> QED
      BY <3>3, <3>4
  <2> QED
    BY <2>1, <2>2
<1> QED
  BY <1>1, <1>2, <1>3 DEF AnswersHold, AcceptedInv

\* What a step of a handler has to show.
LEMMA GenericStep ==
  ASSUME IInv, TypeOK', \A id \in Ids : Moves(id), NEW p, NEW r, OnlyMoves(p, r),
         ProcessOK(r)', NewAnswersHold,
         \A id \in Ids : doc[id].status = "draft" /\ doc'[id].status = "published"
                            => PublishedOK(id)'
  PROVE  IInv'
<1>1. ProcessInv' /\ CreationsApart'
  BY ProcessStep
<1>2. PublishedIsComplete'
  BY PublishedStep
<1>3. AnswersHold' /\ AcceptedInv'
  BY AnswersStep
<1> QED
  BY <1>1, <1>2, <1>3 DEF IInv

LEMMA IdleOK == ASSUME NEW r, r = Idle PROVE r \in ProcessRecord /\ ProcessOK(r) /\ ProcessOK(r)'
BY IdleType DEF ProcessOK, CreatePCs

\* A step that only reads: the process p goes on with the record r.
LEMMA ReadStep ==
  ASSUME IInv, NEW p \in Processes, NEW r \in ProcessRecord,
         process' = [process EXCEPT ![p] = r], UNCHANGED <<doc, rows, answers>>, ProcessOK(r),
         r.pc \in CreatePCs => \A q \in Processes \ {p} : r.ids \intersect process[q].ids = {}
  PROVE  IInv'
<1> USE DEF answers
<1>1. TypeOK'
  BY DEF IInv, TypeOK
<1>2. \A id \in Ids : Moves(id)
  <2> TAKE id \in Ids
  <2>1. doc[id].status \in Statuses \union {"absent", "deleted"}
    BY DEF IInv, TypeOK, BroadcastDocument
  <2> QED
    BY <2>1 DEF Moves, KeysKept, Settled, Statuses
<1>3. ProcessOK(r)'
  BY DEF ProcessOK, Live, Settled
<1>4. OnlyMoves(p, r)
  <2>1. process \in [Processes -> ProcessRecord]
    BY DEF IInv, TypeOK
  <2> QED
    BY <2>1 DEF OnlyMoves, ProcessOK
<1>5. NewAnswersHold
  BY DEF NewAnswersHold
<1> QED
  BY <1>1, <1>2, <1>3, <1>4, <1>5, GenericStep

\* A creation that goes on keeps its ids to itself.
LEMMA CreatorAlone ==
  ASSUME IInv, NEW p \in Processes, process[p].pc \in CreatePCs
  PROVE  \A q \in Processes \ {p} : process[p].ids \intersect process[q].ids = {}
BY DEF IInv, CreationsApart

\* What TypeOK says of the process p.
LEMMA ProcessType ==
  ASSUME IInv, NEW p \in Processes
  PROVE  /\ process \in [Processes -> ProcessRecord]
         /\ process[p] \in ProcessRecord /\ ProcessOK(process[p])
         /\ process[p].pc \in PCs /\ process[p].ids \subseteq Ids
         /\ process[p].audience \subseteq Users /\ process[p].todo \subseteq Users
         /\ process[p].keys \in RecipientRows /\ process[p].matched \in BOOLEAN
         /\ process[p].content \in Contents \union {NoContent}
BY DEF IInv, TypeOK, ProcessInv, ProcessRecord

-----------------------------------------------------------------------------
(* Steps that only read *)

LEMMA FinishReading ==
  ASSUME IInv, NEW p \in Processes, Finish(p), UNCHANGED <<doc, rows, answers>>
  PROVE  IInv'
BY IdleOK, IdleType, ReadStep DEF Finish, CreatePCs

LEMMA CreateDraftStep ==
  ASSUME IInv, NEW p \in Processes, NEW client \in ClientIds, CreateDraft(p, client)
  PROVE  IInv'
<1> PICK id \in Ids, audience \in SUBSET Users :
      /\ Fresh(id)
      /\ process' = [process EXCEPT ![p] = [Idle EXCEPT !.pc = "insert", !.client = client,
                                                        !.ids = {id}, !.audience = audience]]
  BY DEF CreateDraft
<1> DEFINE r == [Idle EXCEPT !.pc = "insert", !.client = client, !.ids = {id},
                             !.audience = audience]
<1>1. r \in ProcessRecord /\ r.pc = "insert" /\ r.ids = {id}
  BY IdleType DEF Idle, ProcessRecord, PCs, CreatePCs, NoRows, RecipientRows
<1>2. UNCHANGED <<doc, rows, answers>> /\ process' = [process EXCEPT ![p] = r]
  BY DEF CreateDraft
<1> HIDE DEF r
<1>3. ProcessOK(r)
  BY <1>1 DEF ProcessOK, CreatePCs, Fresh
<1>4. \A q \in Processes \ {p} : r.ids \intersect process[q].ids = {}
  BY <1>1 DEF Fresh
<1> QED
  BY <1>1, <1>2, <1>3, <1>4, ReadStep

LEMMA UploadKeysStep ==
  ASSUME IInv, NEW p \in Processes, NEW id \in Ids, UploadKeys(p, id)
  PROVE  IInv'
<1> PICK batch \in Batches :
      process' = [process EXCEPT ![p] = [Idle EXCEPT !.pc = "readRows", !.ids = {id},
                                                     !.keys = batch]]
  BY DEF UploadKeys
<1> DEFINE r == [Idle EXCEPT !.pc = "readRows", !.ids = {id}, !.keys = batch]
<1>1. batch \in RecipientRows /\ \A u \in Users : batch[u] # NoKey
  BY ConstantsAssumption DEF Batches, RecipientRows
<1>2. r \in ProcessRecord /\ r.pc = "readRows" /\ r.ids = {id} /\ r.keys = batch
  BY <1>1, IdleType DEF Idle, ProcessRecord, PCs, CreatePCs
<1>3. UNCHANGED <<doc, rows, answers>> /\ process' = [process EXCEPT ![p] = r]
  BY DEF UploadKeys
<1> HIDE DEF r
<1>4. ProcessOK(r)
  BY <1>1, <1>2 DEF ProcessOK, CreatePCs, UploadKeys, IsOpen
<1> QED
  BY <1>2, <1>3, <1>4, ReadStep DEF CreatePCs

LEMMA ReadRecipientRowsStep ==
  ASSUME IInv, NEW p \in Processes, ReadRecipientRows(p)
  PROVE  IInv'
<1>1. UNCHANGED <<doc, rows, answers>> /\ process[p].pc = "readRows"
  BY DEF ReadRecipientRows
<1>2. CASE Finish(p)
  BY <1>1, <1>2, FinishReading
<1>3. CASE process' = [process EXCEPT ![p].pc = "writeKeys",
                                      ![p].todo = Recipients(process[p].keys)]
  <2> DEFINE r == [process[p] EXCEPT !.pc = "writeKeys", !.todo = Recipients(process[p].keys)]
  <2>1. r \in ProcessRecord /\ r.pc = "writeKeys" /\ r.ids = process[p].ids
        /\ r.keys = process[p].keys /\ r.todo = Recipients(r.keys)
    BY ProcessType DEF ProcessRecord, PCs, Recipients
  <2>2. process' = [process EXCEPT ![p] = r]
    BY <1>3, ProcessType
  <2> HIDE DEF r
  <2>3. ProcessOK(r)
    BY <1>1, <2>1, ProcessType DEF ProcessOK, CreatePCs
  <2> QED
    BY <1>1, <2>1, <2>2, <2>3, ReadStep DEF CreatePCs
<1> QED
  BY <1>2, <1>3 DEF ReadRecipientRows

LEMMA FinalizeBroadcastStep ==
  ASSUME IInv, NEW p \in Processes, NEW id \in Ids, NEW content \in Contents,
         FinalizeBroadcast(p, id, content)
  PROVE  IInv'
<1> DEFINE r == [Idle EXCEPT !.pc = "readRecipients", !.ids = {id}, !.content = content]
<1>1. r \in ProcessRecord /\ r.pc = "readRecipients" /\ r.ids = {id} /\ r.content = content
  BY IdleType DEF Idle, ProcessRecord, PCs, NoRows, RecipientRows
<1>2. UNCHANGED <<doc, rows, answers>> /\ process' = [process EXCEPT ![p] = r]
  BY DEF FinalizeBroadcast
<1> HIDE DEF r
<1>3. ProcessOK(r)
  BY <1>1 DEF ProcessOK, CreatePCs, FinalizeBroadcast, IsOpen
<1> QED
  BY <1>1, <1>2, <1>3, ReadStep DEF CreatePCs

LEMMA ReadRecipientsStep ==
  ASSUME IInv, NEW p \in Processes, ReadRecipients(p)
  PROVE  IInv'
<1> PICK id \in process[p].ids :
      \/ /\ Complete(id)
         /\ process' = [process EXCEPT ![p].pc = "publish", ![p].keys = rows[id]]
      \/ Finish(p)
  BY DEF ReadRecipients
<1>1. UNCHANGED <<doc, rows, answers>> /\ process[p].pc = "readRecipients"
  BY DEF ReadRecipients
<1>2. CASE Finish(p)
  BY <1>1, <1>2, FinishReading
<1>3. CASE /\ Complete(id)
           /\ process' = [process EXCEPT ![p].pc = "publish", ![p].keys = rows[id]]
  <2> DEFINE r == [process[p] EXCEPT !.pc = "publish", !.keys = rows[id]]
  <2>1. id \in Ids /\ rows[id] \in RecipientRows
    BY ProcessType DEF IInv, TypeOK
  <2>2. r \in ProcessRecord /\ r.pc = "publish" /\ r.ids = process[p].ids /\ r.keys = rows[id]
        /\ r.content = process[p].content
    BY <2>1, ProcessType DEF ProcessRecord, PCs
  <2>3. process' = [process EXCEPT ![p] = r]
    BY <1>3, ProcessType
  <2> HIDE DEF r
  <2>4. \A i \in r.ids : i = id /\ doc[i].status # "absent"
    BY <1>1, <2>2, ProcessType DEF ProcessOK, CreatePCs
  <2>5. ProcessOK(r)
    BY <1>1, <1>3, <2>2, <2>4, ProcessType DEF ProcessOK, CreatePCs, Complete
  <2> QED
    BY <1>1, <2>2, <2>3, <2>5, ReadStep DEF CreatePCs
<1> QED
  BY <1>2, <1>3

LEMMA CancelDraftStep ==
  ASSUME IInv, NEW p \in Processes, NEW id \in Ids, CancelDraft(p, id)
  PROVE  IInv'
<1> PICK pc \in {"cancel", "removeRows"} :
      /\ Begin(p, pc, {id})
      /\ doc[id].status = IF pc = "cancel" THEN "draft" ELSE "canceled"
  BY DEF CancelDraft
<1> DEFINE r == [Idle EXCEPT !.pc = pc, !.ids = {id}]
<1>1. r \in ProcessRecord /\ r.pc = pc /\ r.ids = {id}
  BY IdleType DEF Idle, ProcessRecord, PCs, NoRows, RecipientRows
<1>2. UNCHANGED <<doc, rows, answers>> /\ process' = [process EXCEPT ![p] = r]
  BY DEF CancelDraft, Begin
<1> HIDE DEF r
<1>3. ProcessOK(r)
  BY <1>1 DEF ProcessOK, CreatePCs, Settled
<1> QED
  BY <1>1, <1>2, <1>3, ReadStep DEF CreatePCs

LEMMA RecheckCanceledStep ==
  ASSUME IInv, NEW p \in Processes, RecheckCanceled(p)
  PROVE  IInv'
<1> PICK id \in process[p].ids :
      IF doc[id].status = "canceled" THEN Step(p, "removeRows") ELSE Finish(p)
  BY DEF RecheckCanceled
<1>1. UNCHANGED <<doc, rows, answers>> /\ process[p].pc = "recheck"
  BY DEF RecheckCanceled
<1>2. CASE Finish(p)
  BY <1>1, <1>2, FinishReading
<1>3. CASE doc[id].status = "canceled" /\ Step(p, "removeRows")
  <2> DEFINE r == [process[p] EXCEPT !.pc = "removeRows"]
  <2>1. r \in ProcessRecord /\ r.pc = "removeRows" /\ r.ids = process[p].ids
    BY ProcessType DEF ProcessRecord, PCs
  <2>2. process' = [process EXCEPT ![p] = r]
    BY <1>3, ProcessType DEF Step
  <2> HIDE DEF r
  <2>3. \A i \in r.ids : i = id
    BY <1>1, <2>1, ProcessType DEF ProcessOK
  <2>4. ProcessOK(r)
    BY <1>3, <2>1, <2>3 DEF ProcessOK, CreatePCs, Settled
  <2> QED
    BY <1>1, <2>1, <2>2, <2>4, ReadStep DEF CreatePCs
<1> QED
  BY <1>2, <1>3

LEMMA FindExpiredDraftsStep ==
  ASSUME IInv, NEW p \in Processes, FindExpiredDrafts(p)
  PROVE  IInv'
<1> PICK batch \in BatchesOf({id \in Ids : doc[id].status = "draft" /\ doc[id].expired}) :
      Begin(p, IF batch = {} THEN "findCanceled" ELSE "markExpired", batch)
  BY DEF FindExpiredDrafts
<1> DEFINE r == [Idle EXCEPT !.pc = IF batch = {} THEN "findCanceled" ELSE "markExpired",
                             !.ids = batch]
<1>0. batch \subseteq Ids /\ \A id \in batch : doc[id].status = "draft"
  BY DEF BatchesOf
<1>1. r \in ProcessRecord /\ r.pc \in {"findCanceled", "markExpired"} /\ r.ids = batch
  BY <1>0, IdleType DEF Idle, ProcessRecord, PCs, NoRows, RecipientRows
<1>2. UNCHANGED <<doc, rows, answers>> /\ process' = [process EXCEPT ![p] = r]
  BY DEF FindExpiredDrafts, Begin
<1> HIDE DEF r
<1>3. ProcessOK(r)
  BY <1>0, <1>1 DEF ProcessOK, CreatePCs
<1> QED
  BY <1>1, <1>2, <1>3, ReadStep DEF CreatePCs

LEMMA FindCanceledDraftsStep ==
  ASSUME IInv, NEW p \in Processes, FindCanceledDrafts(p)
  PROVE  IInv'
<1> PICK batch \in BatchesOf({id \in Ids : doc[id].status = "canceled"}) :
      IF batch = {} THEN Finish(p)
      ELSE process' = [process EXCEPT ![p].pc = "deleteRows", ![p].ids = batch]
  BY DEF FindCanceledDrafts
<1>1. UNCHANGED <<doc, rows, answers>> /\ batch \subseteq Ids
      /\ \A id \in batch : doc[id].status = "canceled"
  BY DEF FindCanceledDrafts, BatchesOf
<1>2. CASE Finish(p)
  BY <1>1, <1>2, FinishReading
<1>3. CASE process' = [process EXCEPT ![p].pc = "deleteRows", ![p].ids = batch]
  <2> DEFINE r == [process[p] EXCEPT !.pc = "deleteRows", !.ids = batch]
  <2>1. r \in ProcessRecord /\ r.pc = "deleteRows" /\ r.ids = batch
    BY <1>1, ProcessType DEF ProcessRecord, PCs
  <2>2. process' = [process EXCEPT ![p] = r]
    BY <1>3, ProcessType
  <2> HIDE DEF r
  <2>3. ProcessOK(r)
    BY <1>1, <2>1 DEF ProcessOK, CreatePCs, Settled
  <2> QED
    BY <1>1, <2>1, <2>2, <2>3, ReadStep DEF CreatePCs
<1> QED
  BY <1>2, <1>3

-----------------------------------------------------------------------------
(* Steps that write rows *)

\* A step of p that writes rows: of broadcasts that are absent or settled, or
\* keys where there was none.
LEMMA RowStep ==
  ASSUME IInv, NEW p \in Processes, NEW r \in ProcessRecord,
         process' = [process EXCEPT ![p] = r], UNCHANGED doc,
         rows' \in [Ids -> RecipientRows],
         \A id \in Ids : \/ doc[id].status = "absent"
                         \/ Settled(id) /\ rows'[id] = NoRows
                         \/ KeysKept(id),
         accepted' \subseteq Ids \X Users \X Keys, UNCHANGED announced,
         withdrawn' \subseteq Ids, NewAnswersHold, ProcessOK(r)',
         r.pc \in CreatePCs => \A q \in Processes \ {p} : r.ids \intersect process[q].ids = {}
  PROVE  IInv'
<1>1. TypeOK'
  BY DEF IInv, TypeOK
<1>2. \A id \in Ids : Moves(id)
  <2> TAKE id \in Ids
  <2>1. doc[id].status \in Statuses \union {"absent", "deleted"}
    BY DEF IInv, TypeOK, BroadcastDocument
  <2> QED
    BY <2>1 DEF Moves, Settled, Statuses
<1>3. OnlyMoves(p, r)
  <2>1. r.pc \notin CreatePCs => \A id \in r.ids : doc[id].status # "absent"
    BY DEF ProcessOK
  <2> QED
    BY <2>1, ProcessType DEF OnlyMoves
<1> QED
  BY <1>1, <1>2, <1>3, GenericStep

LEMMA InsertStep ==
  ASSUME IInv, NEW p \in Processes, NEW users, NEW r \in ProcessRecord, InsertRows(p, users),
         process[p].pc = "insert", process' = [process EXCEPT ![p] = r],
         UNCHANGED <<doc, answers>>, r = Idle \/ (r.pc \in CreatePCs /\ r.ids = process[p].ids)
  PROVE  IInv'
<1> USE DEF answers
<1>1. \A id \in process[p].ids : doc[id].status = "absent"
  BY ProcessType DEF ProcessOK, CreatePCs
<1>2. \A id \in Ids : doc[id].status = "absent" \/ KeysKept(id)
  BY <1>1 DEF InsertRows, KeysKept
<1>3. rows' \in [Ids -> RecipientRows]
  <2>1. \A id \in Ids : [u \in Users |-> IF u \in users THEN NoKey ELSE rows[id][u]]
                          \in RecipientRows
    BY DEF IInv, TypeOK, RecipientRows
  <2>2. rows \in [Ids -> RecipientRows]
    BY DEF IInv, TypeOK
  <2> QED
    BY <2>1, <2>2 DEF InsertRows
<1>4. ProcessOK(r)'
  BY <1>1, IdleOK DEF ProcessOK, CreatePCs
<1>5. r.pc \in CreatePCs => \A q \in Processes \ {p} : r.ids \intersect process[q].ids = {}
  BY CreatorAlone, IdleType DEF CreatePCs
<1>6. NewAnswersHold /\ accepted' \subseteq Ids \X Users \X Keys /\ withdrawn' \subseteq Ids
  BY DEF NewAnswersHold, IInv, TypeOK
<1> QED
  BY <1>2, <1>3, <1>4, <1>5, <1>6, RowStep

LEMMA GoesOn ==
  ASSUME IInv, NEW p \in Processes, NEW pc \in PCs, Step(p, pc)
  PROVE  \E r \in ProcessRecord : /\ process' = [process EXCEPT ![p] = r]
                                  /\ r.pc = pc /\ r.ids = process[p].ids
<1> DEFINE r == [process[p] EXCEPT !.pc = pc]
<1>1. r \in ProcessRecord /\ r.pc = pc /\ r.ids = process[p].ids
  BY ProcessType DEF ProcessRecord, PCs, CreatePCs
<1>2. process' = [process EXCEPT ![p] = r]
  BY ProcessType DEF Step
<1> QED
  BY <1>1, <1>2

LEMMA InsertRecipientsStep ==
  ASSUME IInv, NEW p \in Processes, InsertRecipients(p) \/ InsertFails(p)
  PROVE  IInv'
<1>1. process[p].pc = "insert" /\ UNCHANGED <<doc, answers>>
  BY DEF InsertRecipients, InsertFails
<1>2. PICK users : InsertRows(p, users)
  BY DEF InsertRecipients, InsertFails
<1>3. PICK pc \in {"save", "rollback"} : Step(p, pc)
  BY DEF InsertRecipients, InsertFails
<1>4. PICK r \in ProcessRecord : /\ process' = [process EXCEPT ![p] = r]
                                 /\ r.pc = pc /\ r.ids = process[p].ids
  BY <1>1, <1>3, GoesOn DEF PCs, CreatePCs
<1> QED
  BY <1>1, <1>2, <1>4, InsertStep DEF CreatePCs

LEMMA CrashStep ==
  ASSUME IInv, NEW p \in Processes, Crash(p)
  PROVE  IInv'
<1>1. process' = [process EXCEPT ![p] = Idle] /\ UNCHANGED <<doc, answers>>
  BY DEF Crash, Finish
<1>2. CASE UNCHANGED rows
  BY <1>1, <1>2, FinishReading DEF Finish
<1>3. CASE process[p].pc = "insert" /\ \E users \in SUBSET process[p].audience : InsertRows(p, users)
  BY <1>1, <1>3, IdleType, InsertStep
<1> QED
  BY <1>2, <1>3 DEF Crash

LEMMA RemoveRowsType ==
  ASSUME IInv, NEW ids, RemoveRows(ids)
  PROVE  /\ rows' \in [Ids -> RecipientRows]
         /\ \A id \in Ids : IF id \in ids THEN rows'[id] = NoRows ELSE KeysKept(id)
<1>1. NoRows \in RecipientRows /\ rows \in [Ids -> RecipientRows]
  BY DEF IInv, TypeOK, NoRows, RecipientRows
<1> QED
  BY <1>1 DEF RemoveRows, KeysKept

LEMMA RollbackDraftStep ==
  ASSUME IInv, NEW p \in Processes, RollbackDraft(p)
  PROVE  IInv'
<1> USE DEF answers
<1>1. process[p].pc \in CreatePCs /\ RemoveRows(process[p].ids)
      /\ process' = [process EXCEPT ![p] = Idle] /\ UNCHANGED <<doc, answers>>
  BY DEF RollbackDraft, CreatePCs, Finish
<1>2. \A id \in process[p].ids : doc[id].status = "absent"
  BY <1>1, ProcessType DEF ProcessOK
<1>3. rows' \in [Ids -> RecipientRows]
      /\ \A id \in Ids : IF id \in process[p].ids THEN rows'[id] = NoRows ELSE KeysKept(id)
  BY <1>1, RemoveRowsType
<1>4. NewAnswersHold /\ accepted' \subseteq Ids \X Users \X Keys /\ withdrawn' \subseteq Ids
  BY <1>1 DEF NewAnswersHold, IInv, TypeOK
<1> QED
  BY <1>1, <1>2, <1>3, <1>4, IdleOK, IdleType, RowStep DEF CreatePCs

LEMMA RemoveCanceledRowsStep ==
  ASSUME IInv, NEW p \in Processes, RemoveCanceledRows(p)
  PROVE  IInv'
<1>1. /\ process[p].pc = "removeRows" /\ RemoveRows(process[p].ids)
      /\ process' = [process EXCEPT ![p] = Idle] /\ UNCHANGED <<doc, accepted, announced>>
      /\ withdrawn' = withdrawn \union process[p].ids
  BY DEF RemoveCanceledRows, Finish
<1>2. process[p].ids \subseteq Ids /\ \A id \in process[p].ids : Settled(id)
  BY <1>1, ProcessType DEF ProcessOK
<1>3. rows' \in [Ids -> RecipientRows]
      /\ \A id \in Ids : IF id \in process[p].ids THEN rows'[id] = NoRows ELSE KeysKept(id)
  BY <1>1, RemoveRowsType
<1>4. NewAnswersHold
  BY <1>1, <1>2, <1>3 DEF NewAnswersHold, Settled
<1>5. accepted' \subseteq Ids \X Users \X Keys /\ withdrawn' \subseteq Ids
  BY <1>1, <1>2 DEF IInv, TypeOK
<1> QED
  BY <1>1, <1>2, <1>3, <1>4, <1>5, IdleOK, IdleType, RowStep DEF CreatePCs

LEMMA DeleteRecipientsStep ==
  ASSUME IInv, NEW p \in Processes, DeleteRecipients(p)
  PROVE  IInv'
<1> USE DEF answers
<1>1. process[p].pc = "deleteRows" /\ RemoveRows(process[p].ids) /\ UNCHANGED <<doc, answers>>
  BY DEF DeleteRecipients
<1>2. process[p].ids \subseteq Ids /\ \A id \in process[p].ids : Settled(id)
  BY <1>1, ProcessType DEF ProcessOK
<1>3. rows' \in [Ids -> RecipientRows]
      /\ \A id \in Ids : IF id \in process[p].ids THEN rows'[id] = NoRows ELSE KeysKept(id)
  BY <1>1, RemoveRowsType
<1>4. PICK r \in ProcessRecord : /\ process' = [process EXCEPT ![p] = r]
                                 /\ r.pc = "deleteDrafts" /\ r.ids = process[p].ids
  BY GoesOn DEF DeleteRecipients, PCs
<1>6. ProcessOK(r)'
  BY <1>1, <1>2, <1>4 DEF ProcessOK, CreatePCs, Settled
<1>7. NewAnswersHold /\ accepted' \subseteq Ids \X Users \X Keys /\ withdrawn' \subseteq Ids
  BY <1>1 DEF NewAnswersHold, IInv, TypeOK
<1> QED
  BY <1>1, <1>2, <1>3, <1>4, <1>6, <1>7, RowStep DEF CreatePCs

\* The part of the update that touches the row.
WriteKey(id, u, key) ==
  rows' = IF Writable(id, u, key) THEN [rows EXCEPT ![id][u] = key] ELSE rows

LEMMA WriteKeyKeeps ==
  ASSUME IInv, NEW id \in Ids, NEW u \in Users, NEW key \in Keys, WriteKey(id, u, key)
  PROVE  /\ rows' \in [Ids -> RecipientRows] /\ \A i \in Ids : KeysKept(i)
         /\ Writable(id, u, key) => rows'[id][u] = key
<1>1. rows \in [Ids -> RecipientRows]
  BY DEF IInv, TypeOK
<1>2. CASE Writable(id, u, key)
  <2>1. rows' = [rows EXCEPT ![id][u] = key]
    BY <1>2 DEF WriteKey
  <2>2. [rows[id] EXCEPT ![u] = key] \in RecipientRows
    BY <1>1 DEF RecipientRows
  <2>3. rows' \in [Ids -> RecipientRows]
    BY <1>1, <2>1, <2>2
  <2>4. rows'[id][u] = key /\ \A i \in Ids, v \in Users : <<i, v>> # <<id, u>> => rows'[i][v] = rows[i][v]
    BY <1>1, <2>1 DEF RecipientRows
  <2> QED
    BY <1>2, <2>3, <2>4 DEF KeysKept, Writable
<1>3. CASE ~Writable(id, u, key)
  BY <1>1, <1>3 DEF WriteKey, KeysKept
<1> QED
  BY <1>2, <1>3

LEMMA WriteRecipientKeyStep ==
  ASSUME IInv, NEW p \in Processes, NEW u \in Users, WriteRecipientKey(p, u)
  PROVE  IInv'
<1>1. /\ process[p].pc = "writeKeys" /\ u \in process[p].todo
      /\ UNCHANGED <<doc, announced, withdrawn>>
  BY DEF WriteRecipientKey
<1> PICK batch : batch = process[p].keys
  OBVIOUS
<1> PICK id \in process[p].ids :
      /\ WriteKey(id, u, batch[u])
      /\ IF process[p].todo = {u}
         THEN /\ Finish(p)
              /\ accepted' = IF process[p].matched /\ Writable(id, u, batch[u])
                             THEN accepted \union {<<id, v, batch[v]>> : v \in Recipients(batch)}
                             ELSE accepted
         ELSE /\ process' = [process EXCEPT ![p].todo = @ \ {u},
                               ![p].matched = process[p].matched /\ Writable(id, u, batch[u])]
              /\ UNCHANGED accepted
  BY DEF WriteRecipientKey, WriteKey
<1> PICK matched : matched = (process[p].matched /\ Writable(id, u, batch[u]))
  OBVIOUS
<1>2. id \in Ids /\ batch \in RecipientRows /\ rows \in [Ids -> RecipientRows]
      /\ \A v \in Users : batch[v] # NoKey
  BY <1>1, ProcessType DEF IInv, TypeOK, ProcessOK
<1>3. doc[id].status # "absent" /\ \A i \in process[p].ids : i = id
  BY <1>1, ProcessType DEF ProcessOK, CreatePCs
<1>4. batch[u] \in Keys
  BY <1>1, <1>2, ProcessType DEF ProcessOK, Recipients, RecipientRows
<1>5. /\ rows' \in [Ids -> RecipientRows] /\ \A i \in Ids : KeysKept(i)
      /\ Writable(id, u, batch[u]) => rows'[id][u] = batch[u]
  BY <1>2, <1>4, WriteKeyKeeps
<1>6. ASSUME matched, NEW v \in Recipients(batch), v \notin process[p].todo \/ v = u, Live(id)
      PROVE  rows'[id][v] = batch[v]
  <2>1. CASE v = u
    BY <1>5, <1>6, <2>1
  <2>2. CASE v # u
    <3>1. rows[id][v] = batch[v] /\ v \in Users
      BY <1>1, <1>6, <2>2, ProcessType DEF ProcessOK, Recipients
    <3> QED
      BY <1>2, <1>5, <3>1 DEF KeysKept
  <2> QED
    BY <2>1, <2>2
<1>7. CASE process[p].todo = {u}
  <2>1. process' = [process EXCEPT ![p] = Idle]
    BY <1>7 DEF Finish
  <2>2. \A a \in accepted' \ accepted :
          matched /\ a[1] = id /\ a[2] \in Recipients(batch) /\ a[3] = batch[a[2]]
    <3> TAKE a \in accepted' \ accepted
    <3>1. matched /\ a \in {<<id, v, batch[v]>> : v \in Recipients(batch)}
      BY <1>7
    <3>2. PICK v \in Recipients(batch) : a = <<id, v, batch[v]>>
      BY <3>1
    <3> QED
      BY <3>1, <3>2
  <2>3. \A a \in accepted' \ accepted : Live(id) => rows'[id][a[2]] = a[3]
    BY <1>6, <1>7, <2>2
  <2>4. NewAnswersHold
    BY <1>1, <1>3, <2>2, <2>3 DEF NewAnswersHold, Live
  <2>5. accepted' \subseteq Ids \X Users \X Keys
    <3>1. \A v \in Recipients(batch) : v \in Users /\ batch[v] \in Keys
      BY <1>2 DEF Recipients, RecipientRows
    <3> QED
      BY <1>2, <1>7, <3>1 DEF IInv, TypeOK
  <2>6. withdrawn' \subseteq Ids
    BY <1>1 DEF IInv, TypeOK
  <2> QED
    BY <1>1, <1>5, <2>1, <2>4, <2>5, <2>6, IdleOK, IdleType, RowStep DEF CreatePCs
<1>8. CASE process[p].todo # {u}
  <2> DEFINE s == [process[p] EXCEPT !.todo = @ \ {u}, !.matched = matched]
  <2>0. matched \in BOOLEAN
    BY DEF Writable
  <2>1. s \in ProcessRecord /\ s.pc = "writeKeys" /\ s.ids = process[p].ids /\ s.keys = batch
        /\ s.todo = process[p].todo \ {u} /\ s.matched = matched
    BY <1>1, <2>0, ProcessType DEF ProcessRecord
  <2>2. process' = [process EXCEPT ![p] = s]
    BY <1>8, ProcessType
  <2>3. PICK r : r = s
    OBVIOUS
  <2> HIDE DEF s
  <2>4. ProcessOK(r)'
    <3>1. \A i, j \in r.ids : i = j
      BY <1>3, <2>1, <2>3
    <3>2. \A v \in Users : r.keys[v] # NoKey
      BY <1>2, <2>1, <2>3
    <3>3. r.todo \subseteq Recipients(r.keys)
      BY <1>1, <2>1, <2>3, ProcessType DEF ProcessOK
    <3>4. \A i \in r.ids, v \in Recipients(r.keys) \ r.todo :
            r.matched /\ Live(i) => rows'[i][v] = r.keys[v]
      BY <1>3, <1>6, <2>1, <2>3
    <3> QED
      BY <1>1, <1>3, <2>1, <2>3, <3>1, <3>2, <3>3, <3>4
      DEF ProcessOK, CreatePCs, Live, Recipients
  <2>5. NewAnswersHold /\ accepted' \subseteq Ids \X Users \X Keys /\ withdrawn' \subseteq Ids
    BY <1>1, <1>8 DEF NewAnswersHold, IInv, TypeOK
  <2> QED
    BY <1>1, <1>5, <2>1, <2>2, <2>3, <2>4, <2>5, RowStep DEF CreatePCs
<1> QED
  BY <1>7, <1>8

-----------------------------------------------------------------------------
(* Steps that write documents *)

LEMMA DocStep ==
  ASSUME IInv, NEW p \in Processes, NEW r \in ProcessRecord,
         process' = [process EXCEPT ![p] = r], UNCHANGED <<rows, accepted, withdrawn>>,
         doc' \in [Ids -> BroadcastDocument], announced' \subseteq Ids \X Contents,
         \A id \in Ids : Moves(id), ProcessOK(r)', NewAnswersHold,
         r.pc \notin CreatePCs, \A id \in r.ids : doc[id].status # "absent",
         \A id \in Ids : doc[id].status = "absent" /\ doc'[id].status # "absent" =>
           id \in process[p].ids /\ process[p].pc \in CreatePCs,
         \A id \in Ids : doc[id].status = "draft" /\ doc'[id].status = "published"
                            => PublishedOK(id)'
  PROVE  IInv'
<1>1. TypeOK'
  BY DEF IInv, TypeOK
<1>2. OnlyMoves(p, r)
  BY ProcessType DEF OnlyMoves
<1> QED
  BY <1>1, <1>2, GenericStep

\* A document that keeps its status and count, or that did not change.
LEMMA Unmoved ==
  ASSUME IInv, NEW id \in Ids, doc'[id] = doc[id], rows'[id] = rows[id]
  PROVE  Moves(id)
<1>1. doc[id].status \in Statuses \union {"absent", "deleted"}
  BY DEF IInv, TypeOK, BroadcastDocument
<1> QED
  BY <1>1 DEF Moves, KeysKept, Settled, Statuses

LEMMA SaveDraftStep ==
  ASSUME IInv, NEW p \in Processes, SaveDraft(p)
  PROVE  IInv'
<1> USE DEF answers
<1>1. /\ process[p].pc \in CreatePCs /\ process' = [process EXCEPT ![p] = Idle]
      /\ UNCHANGED <<rows, answers>> /\ StoreDraft(p)
  BY DEF SaveDraft, Finish, CreatePCs
<1>2. \A id \in process[p].ids : doc[id].status = "absent"
  BY <1>1, ProcessType DEF ProcessOK
<1>3. PICK d : d = [Absent EXCEPT !.status = "draft", !.client = process[p].client,
                                  !.count = Cardinality(process[p].audience)]
  OBVIOUS
<1>4. Cardinality(process[p].audience) \in Nat
  BY ProcessType, FS_Subset, FS_CardinalityType, ConstantsAssumption
<1>5. d \in BroadcastDocument /\ d.status = "draft"
  <2>1. process[p].client \in ClientIds \union {NoClient}
    BY ProcessType DEF ProcessRecord
  <2> QED
    BY <1>3, <1>4, <2>1 DEF Absent, BroadcastDocument, Statuses, NoRows, RecipientRows
<1>6. doc' = [id \in Ids |-> IF id \in process[p].ids THEN d ELSE doc[id]]
  BY <1>1, <1>3 DEF StoreDraft
<1>7. doc' \in [Ids -> BroadcastDocument]
  BY <1>5, <1>6 DEF IInv, TypeOK
<1>8. \A id \in Ids : Moves(id)
  <2> TAKE id \in Ids
  <2>1. CASE id \in process[p].ids
    BY <1>2, <1>5, <1>6, <2>1 DEF Moves
  <2>2. CASE id \notin process[p].ids
    BY <1>1, <1>6, <2>2, Unmoved
  <2> QED
    BY <2>1, <2>2
<1>9. NewAnswersHold /\ announced' \subseteq Ids \X Contents
  BY <1>1 DEF NewAnswersHold, IInv, TypeOK
<1>10. \A id \in Ids : doc[id].status # doc'[id].status =>
         doc'[id].status = "draft" /\ id \in process[p].ids
  BY <1>5, <1>6
<1> QED
  BY <1>1, <1>7, <1>8, <1>9, <1>10, IdleOK, IdleType, DocStep DEF CreatePCs

LEMMA SaveFailsStep ==
  ASSUME LostSaves = FALSE, IInv, NEW p \in Processes, SaveFails(p)
  PROVE  IInv'
<1>1. process[p].pc = "save" /\ Step(p, "rollback") /\ UNCHANGED <<doc, rows, answers>>
  BY DEF SaveFails
<1>2. PICK r \in ProcessRecord : /\ process' = [process EXCEPT ![p] = r]
                                 /\ r.pc = "rollback" /\ r.ids = process[p].ids
  BY <1>1, GoesOn DEF PCs, CreatePCs
<1>3. ProcessOK(r)
  BY <1>1, <1>2, ProcessType DEF ProcessOK, CreatePCs
<1> QED
  BY <1>1, <1>2, <1>3, CreatorAlone, ReadStep DEF CreatePCs

LEMMA PublishStep ==
  ASSUME IInv, NEW p \in Processes, Publish(p)
  PROVE  IInv'
<1>1. /\ process[p].pc = "publish" /\ process' = [process EXCEPT ![p] = Idle]
      /\ UNCHANGED <<rows, accepted, withdrawn>>
  BY DEF Publish, Finish
<1> PICK content, keys : content = process[p].content /\ keys = process[p].keys
  OBVIOUS
<1>2. PICK id \in process[p].ids :
      \/ /\ doc[id].status = "draft"
         /\ doc' = [doc EXCEPT ![id].status = "published", ![id].content = content,
                               ![id].digest = keys]
         /\ announced' = announced \union {<<id, content>>}
      \/ /\ announced' = IF doc[id].status = "published" /\ doc[id].content = content
                            /\ doc[id].digest = keys
                         THEN announced \union {<<id, content>>} ELSE announced
         /\ UNCHANGED doc
  BY DEF Publish, Publishable
<1>3. id \in Ids /\ doc \in [Ids -> BroadcastDocument] /\ keys \in RecipientRows
      /\ content \in Contents \union {NoContent}
  BY ProcessType DEF IInv, TypeOK
<1>4. /\ content \in Contents /\ doc[id].status # "absent"
      /\ Live(id) => Cardinality(Recipients(keys)) = doc[id].count /\ rows[id] = keys
      /\ \A u \in Users : keys[u] # NoKey
  BY <1>1, ProcessType DEF ProcessOK, CreatePCs
<1>5. CASE /\ announced' = IF doc[id].status = "published" /\ doc[id].content = content
                              /\ doc[id].digest = keys
                           THEN announced \union {<<id, content>>} ELSE announced
           /\ UNCHANGED doc
  <2>1. \A id_1 \in Ids : Moves(id_1)
    BY <1>1, <1>5, Unmoved
  <2>2. announced' \subseteq Ids \X Contents
    BY <1>2, <1>3, <1>4 DEF IInv, TypeOK
  <2>3. NewAnswersHold
    BY <1>1, <1>2, <1>5 DEF NewAnswersHold
  <2> QED
    BY <1>1, <1>3, <1>5, <2>1, <2>2, <2>3, IdleOK, IdleType, DocStep DEF CreatePCs
<1>6. CASE /\ doc[id].status = "draft"
           /\ doc' = [doc EXCEPT ![id].status = "published", ![id].content = content,
                                 ![id].digest = keys]
           /\ announced' = announced \union {<<id, content>>}
  <2> DEFINE d == [doc[id] EXCEPT !.status = "published", !.content = content, !.digest = keys]
  <2>1. d \in BroadcastDocument /\ d.status = "published" /\ d.content = content
        /\ d.digest = keys /\ d.count = doc[id].count
    <3>1. doc[id] \in BroadcastDocument
      BY <1>3
    <3> QED
      BY <1>3, <1>4, <3>1 DEF BroadcastDocument, Statuses
  <2>2. doc' = [doc EXCEPT ![id] = d]
    BY <1>3, <1>6
  <2> HIDE DEF d
  <2>3. doc' \in [Ids -> BroadcastDocument] /\ doc'[id] = d
        /\ \A i \in Ids \ {id} : doc'[i] = doc[i]
    BY <1>3, <2>1, <2>2
  <2>4. \A i \in Ids : Moves(i)
    <3>1. Moves(id)
      BY <1>1, <1>6, <2>1, <2>3 DEF Moves, KeysKept
    <3>2. \A i \in Ids \ {id} : Moves(i)
      BY <1>1, <2>3, Unmoved
    <3> QED
      BY <3>1, <3>2
  <2>5. announced' \subseteq Ids \X Contents
    BY <1>3, <1>4, <1>6 DEF IInv, TypeOK
  <2>6. NewAnswersHold
    BY <1>1, <1>6, <2>1, <2>3 DEF NewAnswersHold
  <2>7. PublishedOK(id)'
    BY <1>1, <1>4, <1>6, <2>1, <2>3 DEF PublishedOK, Live, Recipients
  <2>8. \A i \in Ids : doc[i].status = "draft" /\ doc'[i].status = "published" => i = id
    BY <2>3
  <2>9. \A i \in Ids : doc[i].status = "draft" /\ doc'[i].status = "published" => PublishedOK(i)'
    BY <2>7, <2>8 DEF PublishedOK, Recipients
  <2>10. \A i \in Ids : doc[i].status = "absent" => doc'[i].status = "absent"
    BY <1>6, <2>3
  <2> QED
    BY <1>1, <2>3, <2>4, <2>5, <2>6, <2>9, <2>10, IdleOK, IdleType, DocStep DEF CreatePCs
<1> QED
  BY <1>2, <1>5, <1>6

\* A step of p that sets the status of existing documents to one that is
\* not published, and gives no answer.
LEMMA StatusStep ==
  ASSUME IInv, NEW p \in Processes, NEW r \in ProcessRecord,
         process' = [process EXCEPT ![p] = r], UNCHANGED <<rows, answers>>,
         NEW ids \in SUBSET Ids, NEW status \in {"canceled", "deleted"},
         \A id \in Ids \ ids : doc'[id] = doc[id],
         doc' \in [Ids -> BroadcastDocument],
         \A id \in ids : /\ doc'[id].status = status
                         /\ \/ doc[id].status = "draft" /\ status = "canceled"
                               /\ doc'[id].count = doc[id].count
                            \/ Settled(id),
         r.pc \notin CreatePCs, \A id \in r.ids : doc[id].status # "absent", ProcessOK(r)'
  PROVE  IInv'
<1> USE DEF answers
<1>1. \A id \in Ids : Moves(id)
  <2> TAKE id \in Ids
  <2>1. CASE id \in ids
    BY <2>1 DEF Moves, KeysKept
  <2>2. CASE id \notin ids
    BY <2>2, Unmoved
  <2> QED
    BY <2>1, <2>2
<1>2. NewAnswersHold /\ announced' \subseteq Ids \X Contents
  BY DEF NewAnswersHold, IInv, TypeOK
<1>3. \A id \in Ids : doc[id].status = "absent" => doc'[id].status = "absent"
  BY DEF Settled
<1>4. \A id \in Ids : doc[id].status = "draft" => doc'[id].status # "published"
  BY DEF Settled
<1> QED
  BY <1>1, <1>2, <1>3, <1>4, DocStep

LEMMA CancelingType ==
  ASSUME IInv, NEW ids \in SUBSET Ids, SetStatus(ids, "canceled")
  PROVE  /\ doc' \in [Ids -> BroadcastDocument]
         /\ \A id \in Ids \ ids : doc'[id] = doc[id]
         /\ \A id \in ids : doc'[id].status = "canceled" /\ doc'[id].count = doc[id].count
<1>1. \A id \in Ids : LET d == [doc[id] EXCEPT !.status = "canceled"] IN
        d \in BroadcastDocument /\ d.status = "canceled" /\ d.count = doc[id].count
  BY DEF IInv, TypeOK, BroadcastDocument, Statuses
<1> QED
  BY <1>1 DEF SetStatus, IInv, TypeOK

LEMMA MarkCanceledStep ==
  ASSUME IInv, NEW p \in Processes, MarkCanceled(p)
  PROVE  IInv'
<1>1. process[p].pc = "cancel" /\ UNCHANGED <<rows, answers>>
  BY DEF MarkCanceled
<1> PICK id \in process[p].ids :
      \/ /\ doc[id].status = "draft"
         /\ SetStatus({id}, "canceled")
         /\ Step(p, "removeRows")
      \/ /\ doc[id].status # "draft"
         /\ Step(p, "recheck")
         /\ UNCHANGED doc
  BY DEF MarkCanceled
<1>2. \A i \in process[p].ids : i = id /\ i \in Ids /\ doc[i].status # "absent"
  BY <1>1, ProcessType DEF ProcessOK, CreatePCs
<1>3. CASE doc[id].status = "draft" /\ SetStatus({id}, "canceled") /\ Step(p, "removeRows")
  <2>1. PICK r \in ProcessRecord : /\ process' = [process EXCEPT ![p] = r]
                                   /\ r.pc = "removeRows" /\ r.ids = process[p].ids
    BY <1>3, GoesOn DEF PCs
  <2>2. doc' \in [Ids -> BroadcastDocument] /\ doc'[id].status = "canceled"
        /\ doc'[id].count = doc[id].count /\ \A i \in Ids \ {id} : doc'[i] = doc[i]
    BY <1>2, <1>3, CancelingType
  <2>3. ProcessOK(r)'
    BY <1>2, <2>1, <2>2 DEF ProcessOK, CreatePCs, Settled
  <2> QED
    BY <1>1, <1>2, <1>3, <2>1, <2>2, <2>3, StatusStep DEF CreatePCs
<1>4. CASE Step(p, "recheck") /\ UNCHANGED doc
  <2>1. PICK r \in ProcessRecord : /\ process' = [process EXCEPT ![p] = r]
                                   /\ r.pc = "recheck" /\ r.ids = process[p].ids
    BY <1>4, GoesOn DEF PCs
  <2>2. ProcessOK(r)
    BY <1>2, <2>1 DEF ProcessOK, CreatePCs
  <2> QED
    BY <1>1, <1>4, <2>1, <2>2, ReadStep DEF CreatePCs
<1> QED
  BY <1>3, <1>4

LEMMA MarkExpiredDraftsStep ==
  ASSUME IInv, NEW p \in Processes, MarkExpiredDrafts(p)
  PROVE  IInv'
<1> DEFINE r == [process[p] EXCEPT !.pc = "findCanceled", !.ids = {}]
           ids == {id \in process[p].ids : doc[id].status = "draft"}
<1>1. SetStatus(ids, "canceled") /\ UNCHANGED <<rows, answers>>
  BY DEF MarkExpiredDrafts
<1>2. r \in ProcessRecord /\ r.pc = "findCanceled" /\ r.ids = {}
  BY ProcessType DEF ProcessRecord, PCs
<1>3. process' = [process EXCEPT ![p] = r]
  BY ProcessType DEF MarkExpiredDrafts
<1>4. ids \in SUBSET Ids /\ \A id \in ids : doc[id].status = "draft"
  BY ProcessType
<1>5. PICK s : s = r
  OBVIOUS
<1>6. PICK marked : marked = ids
  OBVIOUS
<1> HIDE DEF r, ids
<1>7. /\ doc' \in [Ids -> BroadcastDocument]
      /\ \A id \in Ids \ marked : doc'[id] = doc[id]
      /\ \A id \in marked : doc'[id].status = "canceled" /\ doc'[id].count = doc[id].count
  BY <1>1, <1>4, <1>6, CancelingType
<1>8. ProcessOK(s)'
  BY <1>2, <1>5 DEF ProcessOK, CreatePCs
<1> QED
  BY <1>1, <1>2, <1>3, <1>4, <1>5, <1>6, <1>7, <1>8, StatusStep DEF CreatePCs

LEMMA DeleteDraftsStep ==
  ASSUME IInv, NEW p \in Processes, DeleteDrafts(p)
  PROVE  IInv'
<1> PICK d, ids : /\ d = [Absent EXCEPT !.status = "deleted"]
                  /\ ids = {id \in process[p].ids : doc[id].status = "canceled"}
  OBVIOUS
<1>1. /\ doc' = [id \in Ids |-> IF id \in ids THEN d ELSE doc[id]]
      /\ UNCHANGED <<rows, answers>> /\ process' = [process EXCEPT ![p] = Idle]
  BY DEF DeleteDrafts, Finish
<1>2. d \in BroadcastDocument /\ d.status = "deleted"
  BY DEF Absent, BroadcastDocument, NoRows, RecipientRows
<1>3. ids \in SUBSET Ids /\ \A id \in ids : Settled(id)
  BY ProcessType DEF Settled
<1>4. /\ doc' \in [Ids -> BroadcastDocument]
      /\ \A id \in Ids \ ids : doc'[id] = doc[id]
      /\ \A id \in ids : doc'[id].status = "deleted"
  BY <1>1, <1>2, <1>3 DEF IInv, TypeOK
<1>5. PICK r : r = Idle
  OBVIOUS
<1>6. /\ r \in ProcessRecord /\ ProcessOK(r)' /\ r.pc \notin CreatePCs /\ r.ids = {}
      /\ process' = [process EXCEPT ![p] = r]
  BY <1>1, <1>5, IdleOK, IdleType DEF CreatePCs
<1> QED
  BY <1>1, <1>3, <1>4, <1>6, StatusStep

LEMMA ExpireDraftStep ==
  ASSUME IInv, NEW id \in Ids, ExpireDraft(id)
  PROVE  IInv'
<1> USE DEF answers
<1>1. doc \in [Ids -> BroadcastDocument] /\ UNCHANGED <<rows, process, answers>>
      /\ doc[id].status = "draft"
  BY DEF ExpireDraft, IInv, TypeOK, IsOpen
<1> DEFINE d == [doc[id] EXCEPT !.expired = TRUE]
<1>2. d \in BroadcastDocument /\ d.status = "draft" /\ d.count = doc[id].count
  BY <1>1 DEF BroadcastDocument
<1>3. doc' = [doc EXCEPT ![id] = d]
  BY <1>1 DEF ExpireDraft
<1> HIDE DEF d
<1>4. doc' \in [Ids -> BroadcastDocument] /\ doc'[id].status = "draft"
      /\ doc'[id].count = doc[id].count /\ \A i \in Ids \ {id} : doc'[i] = doc[i]
  BY <1>1, <1>2, <1>3
<1>5. TypeOK'
  BY <1>1, <1>4 DEF IInv, TypeOK
<1>6. \A i \in Ids : Moves(i)
  <2>1. Moves(id)
    BY <1>1, <1>4 DEF Moves, KeysKept
  <2>2. \A i \in Ids \ {id} : Moves(i)
    BY <1>1, <1>4, Unmoved
  <2> QED
    BY <2>1, <2>2
<1>7. NewAnswersHold
  BY <1>1 DEF NewAnswersHold
<1>8. PICK r : r = Idle
  OBVIOUS
<1>9. OnlyMoves(id, r) /\ ProcessOK(r)'
  BY <1>1, <1>4, <1>8, IdleOK, IdleType DEF OnlyMoves, CreatePCs
<1>10. \A i \in Ids : doc[i].status = "draft" => doc'[i].status # "published"
  BY <1>4
<1> QED
  BY <1>5, <1>6, <1>7, <1>9, <1>10, GenericStep

-----------------------------------------------------------------------------
(* The invariant and what follows from it *)

LEMMA CreateStep ==
  ASSUME LostSaves = FALSE, IInv, NEW p \in Processes, CreateNext(p)
  PROVE  IInv'
<1>1. CASE \E client \in ClientIds : CreateDraft(p, client)
  BY <1>1, CreateDraftStep
<1>2. CASE InsertRecipients(p) \/ InsertFails(p)
  BY <1>2, InsertRecipientsStep
<1>3. CASE SaveDraft(p)
  BY <1>3, SaveDraftStep
<1>4. CASE SaveFails(p)
  BY <1>4, SaveFailsStep
<1>5. CASE RollbackDraft(p)
  BY <1>5, RollbackDraftStep
<1> QED
  BY <1>1, <1>2, <1>3, <1>4, <1>5 DEF CreateNext

LEMMA UploadStep ==
  ASSUME IInv, NEW p \in Processes, UploadNext(p)
  PROVE  IInv'
BY UploadKeysStep, ReadRecipientRowsStep, WriteRecipientKeyStep DEF UploadNext

LEMMA FinalizeStep ==
  ASSUME IInv, NEW p \in Processes, FinalizeNext(p)
  PROVE  IInv'
BY FinalizeBroadcastStep, ReadRecipientsStep, PublishStep DEF FinalizeNext

LEMMA CancelStep ==
  ASSUME IInv, NEW p \in Processes, CancelNext(p)
  PROVE  IInv'
BY CancelDraftStep, MarkCanceledStep, RecheckCanceledStep, RemoveCanceledRowsStep DEF CancelNext

LEMMA CleanupStep ==
  ASSUME IInv, NEW p \in Processes, CleanupNext(p)
  PROVE  IInv'
BY FindExpiredDraftsStep, MarkExpiredDraftsStep, FindCanceledDraftsStep, DeleteRecipientsStep,
   DeleteDraftsStep DEF CleanupNext

LEMMA NextIInv == LostSaves = FALSE /\ IInv /\ [Next]_vars => IInv'
<1> SUFFICES ASSUME LostSaves = FALSE, IInv, [Next]_vars PROVE IInv'
  OBVIOUS
<1>1. CASE UNCHANGED vars
  BY <1>1 DEF vars, IInv, TypeOK, PublishedIsComplete, AnswersHold, ProcessInv, ProcessOK,
     CreationsApart, AcceptedInv, Live, Settled
<1>2. ASSUME NEW id \in Ids, ExpireDraft(id) PROVE IInv'
  BY <1>2, ExpireDraftStep
<1>3. ASSUME NEW p \in Requests,
             CreateNext(p) \/ UploadNext(p) \/ FinalizeNext(p) \/ CancelNext(p)
      PROVE  IInv'
  BY <1>3, CreateStep, UploadStep, FinalizeStep, CancelStep DEF Processes
<1>4. ASSUME NEW p \in Timers, CleanupNext(p) PROVE IInv'
  BY <1>4, CleanupStep DEF Processes
<1>5. ASSUME NEW p \in Processes, Crash(p) PROVE IInv'
  BY <1>5, CrashStep
<1> QED
  BY <1>1, <1>2, <1>3, <1>4, <1>5 DEF Next

\* The strengthening is an invariant as long as no save hides its success.
THEOREM InductiveInvariant == ASSUME LostSaves = FALSE PROVE Spec => []IInv
<1>1. Init => IInv
  BY InitIInv
<1>2. IInv /\ [Next]_vars => IInv'
  BY NextIInv
<1> QED
  BY <1>1, <1>2, PTL DEF Spec

\* finalizeBroadcast publishes only a complete snapshot, the one that was
\* signed, and nothing that uploads, cancellations or cleanups do afterwards
\* or meanwhile takes a recipient or a key away from it.
THEOREM PublicationIsComplete == ASSUME LostSaves = FALSE PROVE Spec => []PublishedIsComplete
<1>1. IInv => PublishedIsComplete
  BY DEF IInv
<1> QED
  BY <1>1, InductiveInvariant, PTL

\* The positive answers of uploadBroadcastRecipientKeys, finalizeBroadcast and
\* cancelBroadcastDraft stay true.
THEOREM AnswersStayTrue == ASSUME LostSaves = FALSE PROVE Spec => []AnswersHold
<1>1. IInv => AnswersHold
  BY DEF IInv
<1> QED
  BY <1>1, InductiveInvariant, PTL

-----------------------------------------------------------------------------
(* Refinement of BroadcastDelivery *)

Published(id) == doc[id].status = "published"

\* The variables of the abstract module.
Sealed == {<<id, doc[id].content>> : id \in {i \in Ids : doc[i].status = "published"}}
Withdrawn == {id \in Ids : doc[id].status \in {"canceled", "deleted"}}
Feed ==
  [u \in Users |->
     {<<id, rows[id][u]>> : id \in {i \in Ids : doc[i].status = "published"
                                                  /\ rows[i][u] \notin {NoKey, NoRow}}}]

\* Readers see the same of the broadcast before and after the step.
SameToReaders(id) ==
  /\ Published(id)' <=> Published(id)
  /\ Settled(id)' <=> Settled(id)
  /\ Published(id) => doc'[id].content = doc[id].content /\ doc'[id].digest = doc[id].digest

LEMMA DeliveryActions ==
  /\ \A id, content, readers, key :
       /\ content \in Contents /\ readers \in SUBSET Users /\ key \in [readers -> Keys]
       /\ id \notin Withdrawn /\ \A s \in Sealed : s[1] # id
       /\ Sealed' = Sealed \union {<<id, content>>}
       /\ Feed' = [u \in Users |-> IF u \in readers THEN Feed[u] \union {<<id, key[u]>>}
                                   ELSE Feed[u]]
       /\ Withdrawn' = Withdrawn
       => Delivery!Seal(id)
  /\ \A ids :
       /\ ids # {}
       /\ \A id \in ids : id \notin Withdrawn /\ \A s \in Sealed : s[1] # id
       /\ Withdrawn' = Withdrawn \union ids
       /\ Sealed' = Sealed /\ Feed' = Feed
       => Delivery!Withdraw(ids)
  /\ Sealed' = Sealed /\ Withdrawn' = Withdrawn /\ Feed' = Feed => UNCHANGED Delivery!vars
BY DEF Delivery!Seal, Delivery!Withdraw, Delivery!Untouched, Delivery!vars, Sealed, Withdrawn,
       Feed

\* The rows of a published broadcast are those of its signature, before and
\* after the step: what readers see is decided by the documents alone.
LEMMA SameRows ==
  ASSUME IInv, IInv', NEW id \in Ids, SameToReaders(id), Published(id)
  PROVE  rows'[id] = rows[id] /\ doc'[id].status = "published"
BY DEF IInv, PublishedIsComplete, SameToReaders, Published

LEMMA SameSealed ==
  ASSUME IInv, IInv', NEW ids \in SUBSET Ids, \A id \in ids : SameToReaders(id)
  PROVE  /\ {<<id, doc'[id].content>> : id \in {i \in ids : doc'[i].status = "published"}}
              = {<<id, doc[id].content>> : id \in {i \in ids : doc[i].status = "published"}}
         /\ \A u \in Users :
              {<<id, rows'[id][u]>> : id \in {i \in ids : doc'[i].status = "published"
                                                /\ rows'[i][u] \notin {NoKey, NoRow}}}
              = {<<id, rows[id][u]>> : id \in {i \in ids : doc[i].status = "published"
                                                /\ rows[i][u] \notin {NoKey, NoRow}}}
         /\ {id \in ids : doc'[id].status \in {"canceled", "deleted"}}
              = {id \in ids : doc[id].status \in {"canceled", "deleted"}}
<1>1. \A id \in ids :
        /\ doc'[id].status = "published" <=> doc[id].status = "published"
        /\ doc[id].status = "published" =>
             doc'[id].content = doc[id].content /\ rows'[id] = rows[id]
        /\ doc'[id].status \in {"canceled", "deleted"}
             <=> doc[id].status \in {"canceled", "deleted"}
  BY SameRows DEF SameToReaders, Published, Settled
<1> QED
  BY <1>1

LEMMA Unseen ==
  ASSUME IInv, IInv', \A id \in Ids : SameToReaders(id)
  PROVE  UNCHANGED Delivery!vars
BY SameSealed, DeliveryActions DEF Sealed, Withdrawn, Feed

LEMMA UnchangedUnseen ==
  ASSUME NEW id, doc'[id] = doc[id]
  PROVE  SameToReaders(id)
BY DEF SameToReaders, Published, Settled

\* A draft that is canceled by its creator or after it has expired.
LEMMA CancelingRefines ==
  ASSUME IInv, IInv', NEW ids \in SUBSET Ids, \A id \in ids : doc[id].status = "draft",
         SetStatus(ids, "canceled")
  PROVE  Delivery!Next \/ UNCHANGED Delivery!vars
<1>1. /\ \A id \in Ids \ ids : doc'[id] = doc[id]
      /\ \A id \in ids : doc'[id].status = "canceled"
  BY CancelingType
<1>2. CASE ids = {}
  BY <1>1, <1>2, Unseen, UnchangedUnseen
<1>3. CASE ids # {}
  <2>1. \A id \in Ids \ ids : SameToReaders(id)
    BY <1>1, UnchangedUnseen
  <2>2. \A id \in ids : id \notin Withdrawn /\ \A s \in Sealed : s[1] # id
    BY DEF Withdrawn, Sealed
  <2>3. Withdrawn' = Withdrawn \union ids
    BY <1>1, <2>1, SameSealed DEF Withdrawn
  <2>4. Sealed' = Sealed
    <3>1. Sealed = {<<id, doc[id].content>> : id \in {i \in Ids \ ids : doc[i].status = "published"}}
      BY DEF Sealed
    <3>2. Sealed' = {<<id, doc'[id].content>> :
                        id \in {i \in Ids \ ids : doc'[i].status = "published"}}
      BY <1>1 DEF Sealed
    <3> QED BY <2>1, <3>1, <3>2, SameSealed
  <2>5. Feed' = Feed
    <3>1. ASSUME NEW u \in Users PROVE Feed'[u] = Feed[u]
      <4>1. Feed[u] = {<<id, rows[id][u]>> :
                         id \in {i \in Ids \ ids : doc[i].status = "published"
                                                     /\ rows[i][u] \notin {NoKey, NoRow}}}
        BY DEF Feed
      <4>2. Feed'[u] = {<<id, rows'[id][u]>> :
                          id \in {i \in Ids \ ids : doc'[i].status = "published"
                                                      /\ rows'[i][u] \notin {NoKey, NoRow}}}
        BY <1>1 DEF Feed
      <4>3. Ids \ ids \in SUBSET Ids
        OBVIOUS
      <4> HIDE DEF Feed
      <4> QED BY <2>1, <4>1, <4>2, <4>3, SameSealed
    <3> QED BY <3>1 DEF Feed
  <2>6. Delivery!Withdraw(ids)
    BY <1>3, <2>2, <2>3, <2>4, <2>5, DeliveryActions
  <2> QED BY <2>6 DEF Delivery!Next
<1> QED BY <1>2, <1>3

LEMMA PublishRefines ==
  ASSUME IInv, IInv', NEW p \in Processes, Publish(p)
  PROVE  Delivery!Next \/ UNCHANGED Delivery!vars
<1>1. PICK id \in process[p].ids :
        \/ /\ Publishable(id)
           /\ doc' = [doc EXCEPT ![id].status = "published", ![id].content = process[p].content,
                                 ![id].digest = process[p].keys]
        \/ UNCHANGED doc
  BY DEF Publish
<1>2. CASE UNCHANGED doc
  BY <1>2, Unseen, UnchangedUnseen
<1>3. CASE /\ Publishable(id)
           /\ doc' = [doc EXCEPT ![id].status = "published", ![id].content = process[p].content,
                                 ![id].digest = process[p].keys]
  <2> DEFINE content == process[p].content
             readers == Recipients(rows'[id])
             key == [u \in readers |-> rows'[id][u]]
             others == Ids \ {id}
  <2>1. id \in Ids /\ content \in Contents /\ process[p].pc = "publish"
    BY ProcessType DEF Publish, ProcessOK
  <2>2. /\ doc'[id].status = "published" /\ doc'[id].content = content
        /\ \A i \in others : doc'[i] = doc[i]
    BY <1>3, <2>1 DEF IInv, TypeOK, BroadcastDocument
  <2>3. /\ rows'[id] \in RecipientRows
        /\ \A u \in Users : rows'[id][u] # NoKey
    BY <2>1, <2>2 DEF IInv, TypeOK, PublishedIsComplete
  <2>4. readers \in SUBSET Users /\ key \in [readers -> Keys]
    BY <2>3 DEF Recipients, RecipientRows
  <2>5. \A i \in others : SameToReaders(i)
    BY <2>2, UnchangedUnseen
  <2>6. id \notin Withdrawn /\ \A s \in Sealed : s[1] # id
    BY <1>3 DEF Withdrawn, Sealed, Publishable
  <2>7. Withdrawn' = Withdrawn
    <3>1. Withdrawn = {i \in others : doc[i].status \in {"canceled", "deleted"}}
      BY <1>3 DEF Withdrawn, Publishable
    <3>2. Withdrawn' = {i \in others : doc'[i].status \in {"canceled", "deleted"}}
      BY <2>2 DEF Withdrawn
    <3> QED BY <2>5, <3>1, <3>2, SameSealed
  <2>8. Sealed' = Sealed \union {<<id, content>>}
    <3>1. Sealed = {<<i, doc[i].content>> : i \in {j \in others : doc[j].status = "published"}}
      BY <1>3 DEF Sealed, Publishable
    <3>2. Sealed' = {<<i, doc'[i].content>> : i \in {j \in others : doc'[j].status = "published"}}
                      \union {<<id, content>>}
      BY <2>1, <2>2 DEF Sealed
    <3> QED BY <2>5, <3>1, <3>2, SameSealed
  <2>9. ASSUME NEW u \in Users
        PROVE  Feed'[u] = IF u \in readers THEN Feed[u] \union {<<id, key[u]>>} ELSE Feed[u]
    <3>1. Feed[u] = {<<i, rows[i][u]>> :
                       i \in {j \in others : doc[j].status = "published"
                                               /\ rows[j][u] \notin {NoKey, NoRow}}}
      BY <1>3 DEF Feed, Publishable
    <3>2. Feed'[u] = {<<i, rows'[i][u]>> :
                        i \in {j \in Ids : doc'[j].status = "published"
                                             /\ rows'[j][u] \notin {NoKey, NoRow}}}
      BY DEF Feed
    <3>3. u \in readers <=> rows'[id][u] \notin {NoKey, NoRow}
      BY <2>3 DEF Recipients
    <3>4. Feed'[u] = {<<i, rows'[i][u]>> :
                        i \in {j \in others : doc'[j].status = "published"
                                                /\ rows'[j][u] \notin {NoKey, NoRow}}}
                       \union (IF u \in readers THEN {<<id, key[u]>>} ELSE {})
      BY <2>1, <2>2, <3>2, <3>3
    <3> QED BY <2>5, <3>1, <3>4, SameSealed
  <2>10. Feed' = [u \in Users |-> IF u \in readers THEN Feed[u] \union {<<id, key[u]>>}
                                  ELSE Feed[u]]
    BY <2>9 DEF Feed
  <2>11. Delivery!Seal(id)
    <3> HIDE DEF content, readers, key
    <3> QED BY <2>1, <2>4, <2>6, <2>7, <2>8, <2>10, DeliveryActions
  <2> QED BY <2>1, <2>11 DEF Delivery!Next
<1> QED BY <1>1, <1>2, <1>3

LEMMA MarkCanceledRefines ==
  ASSUME IInv, IInv', NEW p \in Processes, MarkCanceled(p)
  PROVE  Delivery!Next \/ UNCHANGED Delivery!vars
<1>1. PICK id \in process[p].ids :
        (doc[id].status = "draft" /\ SetStatus({id}, "canceled")) \/ UNCHANGED doc
  BY DEF MarkCanceled
<1>2. id \in Ids
  BY ProcessType
<1> QED BY <1>1, <1>2, CancelingRefines, Unseen, UnchangedUnseen

LEMMA MarkExpiredDraftsRefines ==
  ASSUME IInv, IInv', NEW p \in Processes, MarkExpiredDrafts(p)
  PROVE  Delivery!Next \/ UNCHANGED Delivery!vars
<1>1. {id \in process[p].ids : doc[id].status = "draft"} \in SUBSET Ids
  BY ProcessType
<1> QED BY <1>1, CancelingRefines DEF MarkExpiredDrafts

\* The draft of a new broadcast is seen by nobody but its creator.
LEMMA StoreDraftUnseen ==
  ASSUME IInv, IInv', NEW p \in Processes, process[p].pc \in CreatePCs, StoreDraft(p)
  PROVE  UNCHANGED Delivery!vars
<1>1. \A id \in process[p].ids : doc[id].status = "absent"
  BY ProcessType DEF ProcessOK
<1>2. ASSUME NEW id \in Ids PROVE SameToReaders(id)
  <2>1. id \notin process[p].ids => doc'[id] = doc[id]
    BY DEF StoreDraft
  <2>2. id \in process[p].ids => doc'[id].status = "draft"
    BY DEF StoreDraft, Absent
  <2> QED BY <1>1, <2>1, <2>2, UnchangedUnseen DEF SameToReaders, Published, Settled
<1> QED BY <1>2, Unseen

LEMMA DeleteDraftsUnseen ==
  ASSUME IInv, IInv', NEW p \in Processes, DeleteDrafts(p)
  PROVE  UNCHANGED Delivery!vars
<1>1. ASSUME NEW id \in Ids PROVE SameToReaders(id)
  <2>1. \/ doc'[id] = doc[id]
        \/ doc[id].status = "canceled" /\ doc'[id].status = "deleted"
    BY DEF DeleteDrafts, Absent
  <2> QED BY <2>1, UnchangedUnseen DEF SameToReaders, Published, Settled
<1> QED BY <1>1, Unseen

LEMMA ExpireDraftUnseen ==
  ASSUME IInv, IInv', NEW id \in Ids, ExpireDraft(id)
  PROVE  UNCHANGED Delivery!vars
<1>1. \A i \in Ids \ {id} : doc'[i] = doc[i]
  BY DEF ExpireDraft, IInv, TypeOK
<1>2. doc[id].status = "draft" /\ doc'[id].status = "draft"
  BY DEF ExpireDraft, IInv, TypeOK, BroadcastDocument, IsOpen
<1> QED BY <1>1, <1>2, Unseen, UnchangedUnseen DEF SameToReaders, Published, Settled

\* Nobody else touches a document.
LEMMA DocumentWriters ==
  ASSUME Next
  PROVE  \/ UNCHANGED doc
         \/ \E id \in Ids : ExpireDraft(id)
         \/ \E p \in Processes :
              \/ process[p].pc \in CreatePCs /\ StoreDraft(p)
              \/ Publish(p) \/ MarkCanceled(p) \/ MarkExpiredDrafts(p) \/ DeleteDrafts(p)
<1>1. ASSUME NEW p \in Requests, CreateNext(p)
      PROVE  UNCHANGED doc \/ (process[p].pc \in CreatePCs /\ StoreDraft(p))
  BY <1>1 DEF CreateNext, CreateDraft, InsertRecipients, InsertFails, SaveDraft, SaveFails,
              RollbackDraft, CreatePCs
<1>2. ASSUME NEW p \in Requests, UploadNext(p) PROVE UNCHANGED doc
  BY <1>2 DEF UploadNext, UploadKeys, ReadRecipientRows, WriteRecipientKey
<1>3. ASSUME NEW p \in Requests, FinalizeNext(p) PROVE UNCHANGED doc \/ Publish(p)
  BY <1>3 DEF FinalizeNext, FinalizeBroadcast, ReadRecipients
<1>4. ASSUME NEW p \in Requests, CancelNext(p) PROVE UNCHANGED doc \/ MarkCanceled(p)
  BY <1>4 DEF CancelNext, CancelDraft, RecheckCanceled, RemoveCanceledRows
<1>5. ASSUME NEW p \in Timers, CleanupNext(p)
      PROVE  UNCHANGED doc \/ MarkExpiredDrafts(p) \/ DeleteDrafts(p)
  BY <1>5 DEF CleanupNext, FindExpiredDrafts, FindCanceledDrafts, DeleteRecipients
<1>6. ASSUME NEW p \in Processes, Crash(p) PROVE UNCHANGED doc
  BY <1>6 DEF Crash
<1> QED BY <1>1, <1>2, <1>3, <1>4, <1>5, <1>6 DEF Next, Processes

LEMMA InitRefines == Init => Delivery!Init
<1> SUFFICES ASSUME Init PROVE Delivery!Init
  OBVIOUS
<1>1. \A id \in Ids : doc[id].status = "absent"
  BY DEF Init, Absent
<1> QED BY <1>1 DEF Delivery!Init

\* Broadcast implements BroadcastDelivery: what readers see of it appears in
\* one step with a key for each of them and stays, and what is withdrawn is
\* never seen.
THEOREM Refinement == ASSUME LostSaves = FALSE PROVE Spec => ImplementsDelivery
<1>1. Init => Delivery!Init
  BY InitRefines
<1>2. IInv /\ IInv' /\ [Next]_vars => [Delivery!Next]_Delivery!vars
  <2> SUFFICES ASSUME IInv, IInv', [Next]_vars PROVE Delivery!Next \/ UNCHANGED Delivery!vars
    OBVIOUS
  <2>1. CASE UNCHANGED doc
    BY <2>1, Unseen, UnchangedUnseen
  <2>2. CASE \E id \in Ids : ExpireDraft(id)
    BY <2>2, ExpireDraftUnseen
  <2>3. ASSUME NEW p \in Processes,
               \/ process[p].pc \in CreatePCs /\ StoreDraft(p)
               \/ Publish(p) \/ MarkCanceled(p) \/ MarkExpiredDrafts(p) \/ DeleteDrafts(p)
        PROVE  Delivery!Next \/ UNCHANGED Delivery!vars
    BY <2>3, StoreDraftUnseen, PublishRefines, MarkCanceledRefines, MarkExpiredDraftsRefines,
       DeleteDraftsUnseen
  <2> QED BY <2>1, <2>2, <2>3, DocumentWriters DEF vars
<1> QED BY <1>1, <1>2, InductiveInvariant, PTL DEF Spec, ImplementsDelivery, Delivery!Spec

-----------------------------------------------------------------------------
(* What is published is final *)

\* Later changes "cannot rewrite the authorized readers of an existing
\* broadcast" (README): a published broadcast keeps its content, its readers
\* and the key of each of them, whatever creations, uploads, cancellations and
\* cleanups of whatever process follow.
PublishedIsFinal ==
  [][\A id \in Ids : Published(id) => doc'[id] = doc[id] /\ rows'[id] = rows[id]]_vars

LEMMA PublishedDocumentKept ==
  ASSUME IInv, [Next]_vars, NEW id \in Ids, Published(id)
  PROVE  doc'[id] = doc[id]
<1> USE DEF Published
<1>1. CASE UNCHANGED doc
  BY <1>1
<1>2. ASSUME NEW i \in Ids, ExpireDraft(i)  PROVE doc'[id] = doc[id]
  BY <1>2 DEF ExpireDraft, IsOpen, IInv, TypeOK
<1>3. ASSUME NEW p \in Processes, process[p].pc \in CreatePCs, StoreDraft(p)
      PROVE  doc'[id] = doc[id]
  <2>1. id \notin process[p].ids
    BY <1>3, ProcessType DEF ProcessOK
  <2> QED BY <1>3, <2>1 DEF StoreDraft
<1>4. ASSUME NEW p \in Processes, Publish(p)  PROVE doc'[id] = doc[id]
  BY <1>4 DEF Publish, Publishable, IInv, TypeOK
<1>5. ASSUME NEW p \in Processes, MarkCanceled(p)  PROVE doc'[id] = doc[id]
  BY <1>5 DEF MarkCanceled, SetStatus
<1>6. ASSUME NEW p \in Processes, MarkExpiredDrafts(p)  PROVE doc'[id] = doc[id]
  BY <1>6 DEF MarkExpiredDrafts, SetStatus
<1>7. ASSUME NEW p \in Processes, DeleteDrafts(p)  PROVE doc'[id] = doc[id]
  BY <1>7 DEF DeleteDrafts
<1> QED BY <1>1, <1>2, <1>3, <1>4, <1>5, <1>6, <1>7, DocumentWriters DEF vars

\* A published broadcast is never rewritten: the document is no draft any
\* more, and the rows are those of its signature before and after any step.
THEOREM PublicationIsFinal == ASSUME LostSaves = FALSE PROVE Spec => PublishedIsFinal
<1>1. ASSUME IInv, IInv', [Next]_vars, NEW id \in Ids, Published(id)
      PROVE  doc'[id] = doc[id] /\ rows'[id] = rows[id]
  <2>1. doc'[id] = doc[id]
    BY <1>1, PublishedDocumentKept
  <2> QED BY <1>1, <2>1 DEF IInv, PublishedIsComplete, Published
<1>2. IInv /\ IInv' /\ [Next]_vars =>
        [\A id \in Ids : Published(id) => doc'[id] = doc[id] /\ rows'[id] = rows[id]]_vars
  BY <1>1
<1> QED BY <1>2, InductiveInvariant, PTL DEF Spec, PublishedIsFinal

-----------------------------------------------------------------------------
(* Whatever a failed save has written *)

\* The digest of a publication is complete, and the rows are those it covers,
\* or missing.
Signed(id) ==
  /\ Cardinality(Recipients(doc[id].digest)) = doc[id].count
  /\ \A u \in Users : doc[id].digest[u] # NoKey
  /\ \A u \in Users : rows[id][u] \in {doc[id].digest[u], NoRow}

\* What finalizeBroadcast publishes had all its recipients and their keys when
\* it was signed, and nobody can read it with a key that was not signed.
OnlySignedReaders == \A id \in Ids : doc[id].status = "published" => Signed(id)

\* An announced publication stands with its content, and a draft that was
\* reported as canceled is never published and leaves no recipients behind.
DecisionsHold ==
  /\ \A a \in announced : doc[a[1]].status = "published" /\ doc[a[1]].content = a[2]
  /\ \A id \in withdrawn : doc[id].status \in {"canceled", "deleted"} /\ rows[id] = NoRows

\* Where the document of the broadcast at hand cannot exist yet.
InsertPCs == {"insert", "save"}

\* What a handler may rely on whatever a failed save has written.
HandlerOK(s) ==
  /\ s.pc \in InsertPCs => \A id \in s.ids : doc[id].status = "absent"
  /\ s.pc \in {"readRows", "writeKeys"} => \A u \in Users : s.keys[u] # NoKey
  /\ s.pc \in {"readRecipients", "publish", "cancel", "recheck"} =>
       /\ \A i, j \in s.ids : i = j
       /\ \A id \in s.ids : doc[id].status # "absent"
  /\ s.pc \in {"readRecipients", "publish"} => s.content \in Contents
  /\ s.pc = "publish" =>
       /\ \A u \in Users : s.keys[u] # NoKey
       /\ \A id \in s.ids :
            /\ Live(id) => Cardinality(Recipients(s.keys)) = doc[id].count
            /\ \A u \in Users : rows[id][u] \in {s.keys[u], NoRow}
  /\ s.pc = "removeRows" => \A id \in s.ids : Settled(id)

HandlerInv == \A p \in Processes : HandlerOK(process[p])

\* Nobody else holds the id that an insertion is for.
InsertionsApart ==
  \A p, q \in Processes :
    p # q /\ process[p].pc \in InsertPCs => process[p].ids \intersect process[q].ids = {}

LostSaveIInv ==
  /\ TypeOK
  /\ OnlySignedReaders
  /\ DecisionsHold
  /\ HandlerInv
  /\ InsertionsApart

LEMMA InitLostSaveIInv == Init => LostSaveIInv
<1> SUFFICES ASSUME Init PROVE LostSaveIInv
  OBVIOUS
<1>1. TypeOK
  BY InitIInv DEF IInv
<1>2. OnlySignedReaders /\ DecisionsHold
  BY DEF Init, Absent, OnlySignedReaders, DecisionsHold
<1>3. HandlerInv /\ InsertionsApart
  BY IdleType DEF Init, HandlerInv, HandlerOK, InsertionsApart, InsertPCs
<1> QED BY <1>1, <1>2, <1>3 DEF LostSaveIInv

\* In this step the rows of id lose recipients or fill missing keys.
Narrowed(id) ==
  \A u \in Users :
    rows'[id][u] = rows[id][u] \/ rows'[id][u] = NoRow \/ rows[id][u] = NoKey

\* Where the document of id and its rows go in one step of any handler; a
\* document comes into being by the save of the process p.
Advances(p, id) ==
  \/ /\ doc[id].status = "absent"
     /\ \/ doc'[id] = doc[id]
        \/ /\ doc'[id].status = "draft"
           /\ process[p].pc = "save" /\ process'[p].pc \notin InsertPCs
           /\ id \in process[p].ids
  \/ /\ doc[id].status = "draft"
     /\ doc'[id].status \in {"draft", "published", "canceled"}
     /\ doc'[id].count = doc[id].count
     /\ doc'[id].status = "published" =>
          /\ Cardinality(Recipients(doc'[id].digest)) = doc'[id].count
          /\ \A u \in Users : doc'[id].digest[u] # NoKey /\ rows'[id][u] \in {doc'[id].digest[u], NoRow}
     /\ Narrowed(id)
  \/ doc[id].status = "published" /\ doc'[id] = doc[id] /\ Narrowed(id)
  \/ /\ Settled(id)
     /\ doc'[id].status \in {"canceled", "deleted"}
     /\ Narrowed(id)

\* One step of the process p, which ends up with the record r: what it holds afterwards is new to the others or
\* is a broadcast that exists, and what it answered is true.
HandlerStep(p, r) ==
  /\ process' = [process EXCEPT ![p] = r]
  /\ HandlerOK(r)'
  /\ r.pc \in InsertPCs =>
       \A q \in Processes \ {p} : r.ids \intersect process[q].ids = {}
  /\ \A id \in r.ids : id \in process[p].ids \/ doc[id].status # "absent"
                                   \/ r.pc \in InsertPCs
  /\ \A id \in Ids : Advances(p, id)
  /\ \A a \in announced' \ announced : doc'[a[1]].status = "published" /\ doc'[a[1]].content = a[2]
  /\ \A id \in withdrawn' \ withdrawn :
       doc'[id].status \in {"canceled", "deleted"} /\ rows'[id] = NoRows

\* What another handler relies on survives such a step.
LEMMA OthersRely ==
  ASSUME LostSaveIInv, TypeOK', NEW p \in Processes, NEW r, HandlerStep(p, r),
         NEW q \in Processes, q # p, NEW s, s = process[q]
  PROVE  HandlerOK(s)'
<1>1. s \in ProcessRecord /\ HandlerOK(s) /\ s.ids \subseteq Ids
  BY DEF LostSaveIInv, TypeOK, HandlerInv, ProcessRecord
<1>2. \A id \in Ids : doc[id].status # "absent" => doc'[id].status # "absent"
  BY DEF HandlerStep, Advances, Settled
<1>3. \A id \in Ids : Settled(id) => doc'[id].status \in {"canceled", "deleted"}
  BY DEF HandlerStep, Advances, Settled
<1>4. s.pc \in InsertPCs => \A id \in s.ids : doc'[id].status = "absent"
  <2> SUFFICES ASSUME s.pc \in InsertPCs, NEW id \in s.ids PROVE doc'[id].status = "absent"
    OBVIOUS
  <2>1. doc[id].status = "absent" /\ id \notin process[p].ids /\ id \in Ids
    BY <1>1 DEF HandlerOK, LostSaveIInv, InsertionsApart
  <2> QED BY <2>1 DEF HandlerStep, Advances, Settled
<1>5. ASSUME s.pc = "publish", NEW id \in s.ids
      PROVE  /\ doc'[id].status \in {"draft", "published"} =>
                  Cardinality(Recipients(s.keys)) = doc'[id].count
             /\ \A u \in Users : rows'[id][u] \in {s.keys[u], NoRow}
  <2>1. /\ id \in Ids /\ doc[id].status # "absent"
        /\ Live(id) => Cardinality(Recipients(s.keys)) = doc[id].count
        /\ \A u \in Users : rows[id][u] \in {s.keys[u], NoRow} /\ s.keys[u] # NoKey
    BY <1>1, <1>5 DEF HandlerOK
  <2>2. Narrowed(id)
    BY <2>1 DEF HandlerStep, Advances
  <2>3. doc'[id].status \in {"draft", "published"} => Live(id) /\ doc'[id].count = doc[id].count
    BY <2>1 DEF HandlerStep, Advances, Live, Settled
  <2> QED BY <2>1, <2>2, <2>3, ConstantsAssumption DEF Narrowed
<1> QED
  BY <1>1, <1>2, <1>3, <1>4, <1>5 DEF HandlerOK, Live, Settled, Recipients

LEMMA HandlerStepKeeps ==
  ASSUME LostSaveIInv, TypeOK', NEW p \in Processes, NEW r, HandlerStep(p, r)
  PROVE  LostSaveIInv'
<1>0. /\ process \in [Processes -> ProcessRecord] /\ process' = [process EXCEPT ![p] = r]
      /\ process'[p] = r /\ \A q \in Processes \ {p} : process'[q] = process[q]
  BY DEF LostSaveIInv, TypeOK, HandlerStep
<1>1. HandlerInv'
  <2>1. ASSUME NEW q \in Processes, NEW s, s = process'[q] PROVE HandlerOK(s)'
    <3>1. CASE q = p
      BY <1>0, <2>1, <3>1 DEF HandlerStep
    <3>2. CASE q # p
      BY <1>0, <2>1, <3>2, OthersRely
    <3> QED BY <3>1, <3>2
  <2> QED BY <2>1 DEF HandlerInv
<1>2. InsertionsApart'
  <2>1. ASSUME NEW q \in Processes \ {p}, process[q].pc \in InsertPCs
        PROVE  process[q].ids \intersect r.ids = {}
    <3> SUFFICES ASSUME NEW id \in process[q].ids, id \in r.ids PROVE FALSE
      OBVIOUS
    <3>1. doc[id].status = "absent" /\ id \notin process[p].ids
      BY <2>1 DEF LostSaveIInv, HandlerInv, HandlerOK, InsertionsApart
    <3>2. r.pc \in InsertPCs
      BY <3>1 DEF HandlerStep
    <3> QED BY <3>2 DEF HandlerStep
  <2>2. ASSUME NEW q \in Processes \ {p}, r.pc \in InsertPCs
        PROVE  r.ids \intersect process[q].ids = {}
    BY <2>2 DEF HandlerStep
  <2>3. ASSUME NEW a \in Processes, NEW b \in Processes, a # b, process'[a].pc \in InsertPCs
        PROVE  process'[a].ids \intersect process'[b].ids = {}
    <3>1. CASE a = p
      BY <1>0, <2>2, <2>3, <3>1
    <3>2. CASE b = p
      BY <1>0, <2>1, <2>3, <3>2
    <3>3. CASE a # p /\ b # p
      BY <1>0, <2>3, <3>3 DEF LostSaveIInv, InsertionsApart
    <3> QED BY <3>1, <3>2, <3>3
  <2> QED BY <2>3 DEF InsertionsApart
<1>3. OnlySignedReaders'
  <2> SUFFICES ASSUME NEW id \in Ids, doc'[id].status = "published" PROVE Signed(id)'
    BY DEF OnlySignedReaders
  <2>1. CASE doc[id].status = "draft"
    BY <2>1 DEF HandlerStep, Advances, Signed, Settled, Recipients
  <2>2. CASE doc[id].status # "draft"
    <3>1. doc[id].status = "published" /\ doc'[id] = doc[id] /\ Narrowed(id)
      BY <2>2 DEF HandlerStep, Advances, Settled
    <3>2. Signed(id)
      BY <3>1 DEF LostSaveIInv, OnlySignedReaders
    <3> QED BY <3>1, <3>2, ConstantsAssumption DEF Signed, Narrowed, Recipients
  <2> QED BY <2>1, <2>2
<1>4. DecisionsHold'
  <2>1. ASSUME NEW a \in announced' PROVE doc'[a[1]].status = "published" /\ doc'[a[1]].content = a[2]
    <3>1. CASE a \in announced
      <4>1. a[1] \in Ids /\ doc[a[1]].status = "published" /\ doc[a[1]].content = a[2]
        BY <3>1 DEF LostSaveIInv, TypeOK, DecisionsHold
      <4> QED BY <4>1 DEF HandlerStep, Advances, Settled
    <3> QED BY <3>1 DEF HandlerStep
  <2>2. ASSUME NEW id \in withdrawn'
        PROVE  doc'[id].status \in {"canceled", "deleted"} /\ rows'[id] = NoRows
    <3>1. CASE id \in withdrawn
      <4>1. id \in Ids /\ Settled(id) /\ rows[id] = NoRows
        BY <3>1 DEF LostSaveIInv, TypeOK, DecisionsHold, Settled
      <4>2. doc'[id].status \in {"canceled", "deleted"} /\ Narrowed(id)
        BY <4>1 DEF HandlerStep, Advances, Settled
      <4>3. \A u \in Users : rows'[id][u] = NoRow
        BY <4>1, <4>2, ConstantsAssumption DEF Narrowed, NoRows
      <4>4. rows'[id] \in RecipientRows
        BY <4>1 DEF TypeOK
      <4> QED BY <4>2, <4>3, <4>4 DEF RecipientRows, NoRows
    <3> QED BY <3>1 DEF HandlerStep
  <2> QED BY <2>1, <2>2 DEF DecisionsHold
<1> QED BY <1>1, <1>2, <1>3, <1>4 DEF LostSaveIInv

\* A step that leaves documents, rows and answers alone.
LEMMA QuietStep ==
  ASSUME LostSaveIInv, UNCHANGED <<doc, rows, answers>>, NEW p \in Processes,
         NEW r \in ProcessRecord, process' = [process EXCEPT ![p] = r], HandlerOK(r),
         r.pc \notin InsertPCs,
         \A id \in r.ids : id \in process[p].ids \/ doc[id].status # "absent"
  PROVE  LostSaveIInv'
<1>1. doc' = doc /\ rows' = rows /\ announced' = announced /\ withdrawn' = withdrawn /\ accepted' = accepted
  BY DEF answers
<1>2. TypeOK'
  BY <1>1 DEF LostSaveIInv, TypeOK
<1>3. \A id \in Ids : Advances(p, id)
  <2>1. \A id \in Ids : doc[id].status \in {"absent", "draft", "published", "canceled", "deleted"}
    BY DEF LostSaveIInv, TypeOK, BroadcastDocument, Statuses
  <2> QED BY <1>1, <2>1 DEF Advances, Narrowed, Settled
<1>4. HandlerOK(r)'
  BY <1>1 DEF HandlerOK, Live, Settled
<1>5. HandlerStep(p, r)
  BY <1>1, <1>3, <1>4 DEF HandlerStep
<1> QED BY <1>2, <1>5, HandlerStepKeeps

LEMMA HandlerType ==
  ASSUME LostSaveIInv, NEW p \in Processes
  PROVE  /\ process \in [Processes -> ProcessRecord]
         /\ process[p] \in ProcessRecord /\ HandlerOK(process[p])
         /\ process[p].pc \in PCs /\ process[p].ids \subseteq Ids
         /\ process[p].audience \subseteq Users /\ process[p].todo \subseteq Users
         /\ process[p].keys \in RecipientRows
         /\ process[p].content \in Contents \union {NoContent}
BY DEF LostSaveIInv, TypeOK, HandlerInv, ProcessRecord

LEMMA IdleRelies == ASSUME NEW r, r = Idle PROVE r \in ProcessRecord /\ HandlerOK(r) /\ HandlerOK(r)'
BY IdleType DEF HandlerOK, InsertPCs

LEMMA Concludes ==
  ASSUME LostSaveIInv, NEW p \in Processes, Finish(p), UNCHANGED <<doc, rows, answers>>
  PROVE  LostSaveIInv'
<1>1. PICK r : r = Idle
  OBVIOUS
<1>2. process' = [process EXCEPT ![p] = r] /\ r.pc \notin InsertPCs /\ r.ids = {}
  BY <1>1, IdleType DEF Finish, InsertPCs
<1> QED BY <1>1, <1>2, IdleRelies, QuietStep

\* A step with which p goes on with the same broadcasts.
LEMMA Continues ==
  ASSUME LostSaveIInv, NEW p \in Processes, NEW pc \in PCs, Step(p, pc)
  PROVE  \E r \in ProcessRecord : /\ process' = [process EXCEPT ![p] = r]
                                  /\ r.pc = pc /\ r.ids = process[p].ids
<1> DEFINE r == [process[p] EXCEPT !.pc = pc]
<1>1. r \in ProcessRecord /\ r.pc = pc /\ r.ids = process[p].ids
  BY HandlerType DEF ProcessRecord, PCs, CreatePCs
<1>2. process' = [process EXCEPT ![p] = r]
  BY HandlerType DEF Step
<1> QED BY <1>1, <1>2

\* The steps of requests and timers that only read.
LEMMA ReadsKeep ==
  ASSUME LostSaveIInv, NEW p \in Processes,
         \/ \E client \in ClientIds : CreateDraft(p, client)
         \/ \E id \in Ids : UploadKeys(p, id)
         \/ ReadRecipientRows(p)
         \/ \E id \in Ids, content \in Contents : FinalizeBroadcast(p, id, content)
         \/ ReadRecipients(p)
         \/ \E id \in Ids : CancelDraft(p, id)
         \/ RecheckCanceled(p) \/ FindExpiredDrafts(p) \/ FindCanceledDrafts(p)
  PROVE  LostSaveIInv'
<1>1. ASSUME NEW client \in ClientIds, CreateDraft(p, client) PROVE LostSaveIInv'
  <2> PICK id \in Ids, audience \in SUBSET Users :
        /\ Fresh(id)
        /\ process' = [process EXCEPT ![p] = [Idle EXCEPT !.pc = "insert", !.client = client,
                                                          !.ids = {id}, !.audience = audience]]
    BY <1>1 DEF CreateDraft
  <2>1. PICK r : r = [Idle EXCEPT !.pc = "insert", !.client = client, !.ids = {id},
                                  !.audience = audience]
    OBVIOUS
  <2>2. r \in ProcessRecord /\ r.pc = "insert" /\ r.ids = {id}
    BY <2>1, IdleType DEF Idle, ProcessRecord, PCs, CreatePCs, NoRows, RecipientRows
  <2>3. /\ UNCHANGED <<doc, rows>> /\ UNCHANGED answers
        /\ process' = [process EXCEPT ![p] = r]
    BY <1>1, <2>1 DEF CreateDraft
  <2>4. HandlerOK(r)'
    BY <2>2, <2>3 DEF HandlerOK, Fresh
  <2>5. TypeOK'
    BY <2>2, <2>3 DEF LostSaveIInv, TypeOK, answers
  <2>6. \A i \in Ids : Advances(p, i)
    <3>1. \A i \in Ids : doc[i].status \in {"absent", "draft", "published", "canceled", "deleted"}
      BY DEF LostSaveIInv, TypeOK, BroadcastDocument, Statuses
    <3> QED BY <2>3, <3>1 DEF Advances, Narrowed, Settled
  <2>7. HandlerStep(p, r)
    BY <2>2, <2>3, <2>4, <2>6 DEF HandlerStep, Fresh, InsertPCs, answers
  <2> QED BY <2>5, <2>7, HandlerStepKeeps
<1>2. ASSUME NEW id \in Ids, UploadKeys(p, id) PROVE LostSaveIInv'
  <2> PICK batch \in Batches :
        process' = [process EXCEPT ![p] = [Idle EXCEPT !.pc = "readRows", !.ids = {id},
                                                       !.keys = batch]]
    BY <1>2 DEF UploadKeys
  <2>1. PICK r : /\ r = [Idle EXCEPT !.pc = "readRows", !.ids = {id}, !.keys = batch]
                 /\ process' = [process EXCEPT ![p] = r]
    OBVIOUS
  <2>2. batch \in RecipientRows /\ \A u \in Users : batch[u] # NoKey
    BY ConstantsAssumption DEF Batches, RecipientRows
  <2>3. r \in ProcessRecord /\ r.pc = "readRows" /\ r.ids = {id} /\ r.keys = batch
    BY <2>1, <2>2, IdleType DEF Idle, ProcessRecord, PCs, CreatePCs
  <2>4. UNCHANGED <<doc, rows, answers>> /\ doc[id].status # "absent"
    BY <1>2 DEF UploadKeys, IsOpen
  <2>5. HandlerOK(r)
    BY <2>2, <2>3 DEF HandlerOK, InsertPCs
  <2> QED BY <2>1, <2>3, <2>4, <2>5, QuietStep DEF InsertPCs
<1>3. CASE ReadRecipientRows(p)
  <2>1. UNCHANGED <<doc, rows, answers>> /\ process[p].pc = "readRows"
    BY <1>3 DEF ReadRecipientRows
  <2>2. CASE process' = [process EXCEPT ![p].pc = "writeKeys",
                                        ![p].todo = Recipients(process[p].keys)]
    <3>1. PICK r : r = [process[p] EXCEPT !.pc = "writeKeys", !.todo = Recipients(process[p].keys)]
      OBVIOUS
    <3>2. r \in ProcessRecord /\ r.pc = "writeKeys" /\ r.ids = process[p].ids
          /\ r.keys = process[p].keys
      BY <3>1, HandlerType DEF ProcessRecord, PCs, Recipients
    <3>3. process' = [process EXCEPT ![p] = r]
      BY <2>2, <3>1, HandlerType
    <3>4. HandlerOK(r)
      BY <2>1, <3>2, HandlerType DEF HandlerOK, InsertPCs
    <3> QED BY <2>1, <3>2, <3>3, <3>4, QuietStep DEF InsertPCs
  <2> QED BY <1>3, <2>1, <2>2, Concludes DEF ReadRecipientRows
<1>4. ASSUME NEW id \in Ids, NEW content \in Contents, FinalizeBroadcast(p, id, content)
      PROVE  LostSaveIInv'
  <2>1. PICK r : /\ r = [Idle EXCEPT !.pc = "readRecipients", !.ids = {id}, !.content = content]
                 /\ process' = [process EXCEPT ![p] = r]
    BY <1>4 DEF FinalizeBroadcast
  <2>2. r \in ProcessRecord /\ r.pc = "readRecipients" /\ r.ids = {id} /\ r.content = content
    BY <2>1, IdleType DEF Idle, ProcessRecord, PCs, NoRows, RecipientRows
  <2>3. UNCHANGED <<doc, rows, answers>> /\ doc[id].status # "absent"
    BY <1>4 DEF FinalizeBroadcast, IsOpen
  <2>4. HandlerOK(r)
    BY <2>2, <2>3 DEF HandlerOK, InsertPCs
  <2> QED BY <2>1, <2>2, <2>3, <2>4, QuietStep DEF InsertPCs
<1>5. CASE ReadRecipients(p)
  <2> PICK id \in process[p].ids :
        \/ /\ Complete(id)
           /\ process' = [process EXCEPT ![p].pc = "publish", ![p].keys = rows[id]]
        \/ Finish(p)
    BY <1>5 DEF ReadRecipients
  <2>1. UNCHANGED <<doc, rows, answers>> /\ process[p].pc = "readRecipients"
    BY <1>5 DEF ReadRecipients
  <2>2. CASE /\ Complete(id)
             /\ process' = [process EXCEPT ![p].pc = "publish", ![p].keys = rows[id]]
    <3>1. PICK r : r = [process[p] EXCEPT !.pc = "publish", !.keys = rows[id]]
      OBVIOUS
    <3>2. id \in Ids /\ rows[id] \in RecipientRows
      BY HandlerType DEF LostSaveIInv, TypeOK
    <3>3. r \in ProcessRecord /\ r.pc = "publish" /\ r.ids = process[p].ids /\ r.keys = rows[id]
          /\ r.content = process[p].content
      BY <3>1, <3>2, HandlerType DEF ProcessRecord, PCs
    <3>4. process' = [process EXCEPT ![p] = r]
      BY <2>2, <3>1, HandlerType
    <3>5. \A i \in r.ids : i = id /\ doc[i].status # "absent"
      BY <2>1, <3>3, HandlerType DEF HandlerOK
    <3>6. HandlerOK(r)
      BY <2>1, <2>2, <3>3, <3>5, HandlerType DEF HandlerOK, InsertPCs, Complete
    <3> QED BY <2>1, <3>3, <3>4, <3>6, QuietStep DEF InsertPCs
  <2> QED BY <2>1, <2>2, Concludes
<1>6. ASSUME NEW id \in Ids, CancelDraft(p, id) PROVE LostSaveIInv'
  <2> PICK pc \in {"cancel", "removeRows"} :
        /\ Begin(p, pc, {id})
        /\ doc[id].status = IF pc = "cancel" THEN "draft" ELSE "canceled"
    BY <1>6 DEF CancelDraft
  <2>1. PICK r : /\ r = [Idle EXCEPT !.pc = pc, !.ids = {id}]
                 /\ process' = [process EXCEPT ![p] = r]
    BY DEF Begin
  <2>2. r \in ProcessRecord /\ r.pc = pc /\ r.ids = {id}
    BY <2>1, IdleType DEF Idle, ProcessRecord, PCs, NoRows, RecipientRows
  <2>3. HandlerOK(r)
    BY <2>2 DEF HandlerOK, InsertPCs, Settled
  <2>4. UNCHANGED <<doc, rows, answers>>
    BY <1>6 DEF CancelDraft
  <2> QED BY <2>1, <2>2, <2>3, <2>4, QuietStep DEF InsertPCs
<1>7. CASE RecheckCanceled(p)
  <2> PICK id \in process[p].ids :
        IF doc[id].status = "canceled" THEN Step(p, "removeRows") ELSE Finish(p)
    BY <1>7 DEF RecheckCanceled
  <2>1. UNCHANGED <<doc, rows, answers>> /\ process[p].pc = "recheck"
    BY <1>7 DEF RecheckCanceled
  <2>2. CASE doc[id].status = "canceled" /\ Step(p, "removeRows")
    <3>1. PICK r \in ProcessRecord : /\ process' = [process EXCEPT ![p] = r]
                                     /\ r.pc = "removeRows" /\ r.ids = process[p].ids
      BY <2>2, Continues DEF PCs
    <3>2. \A i \in r.ids : i = id
      BY <2>1, <3>1, HandlerType DEF HandlerOK
    <3>3. HandlerOK(r)
      BY <2>2, <3>1, <3>2 DEF HandlerOK, InsertPCs, Settled
    <3> QED BY <2>1, <3>1, <3>3, QuietStep DEF InsertPCs
  <2> QED BY <2>1, <2>2, Concludes
<1>8. CASE FindExpiredDrafts(p)
  <2> PICK batch \in BatchesOf({id \in Ids : doc[id].status = "draft" /\ doc[id].expired}) :
        Begin(p, IF batch = {} THEN "findCanceled" ELSE "markExpired", batch)
    BY <1>8 DEF FindExpiredDrafts
  <2> PICK pc \in {"findCanceled", "markExpired"} : Begin(p, pc, batch)
    OBVIOUS
  <2>1. PICK r : r = [Idle EXCEPT !.pc = pc, !.ids = batch] /\ process' = [process EXCEPT ![p] = r]
    BY DEF Begin
  <2>2. batch \subseteq Ids /\ \A id \in batch : doc[id].status = "draft"
    BY DEF BatchesOf
  <2>3. r \in ProcessRecord /\ r.pc = pc /\ r.ids = batch
    BY <2>1, <2>2, IdleType DEF Idle, ProcessRecord, PCs, NoRows, RecipientRows
  <2>4. UNCHANGED <<doc, rows, answers>> /\ HandlerOK(r)
    BY <1>8, <2>3 DEF FindExpiredDrafts, HandlerOK, InsertPCs
  <2> QED BY <2>1, <2>2, <2>3, <2>4, QuietStep DEF InsertPCs
<1>9. CASE FindCanceledDrafts(p)
  <2> PICK batch \in BatchesOf({id \in Ids : doc[id].status = "canceled"}) :
        IF batch = {} THEN Finish(p)
        ELSE process' = [process EXCEPT ![p].pc = "deleteRows", ![p].ids = batch]
    BY <1>9 DEF FindCanceledDrafts
  <2>1. UNCHANGED <<doc, rows, answers>> /\ batch \subseteq Ids
        /\ \A id \in batch : doc[id].status = "canceled"
    BY <1>9 DEF FindCanceledDrafts, BatchesOf
  <2>2. CASE process' = [process EXCEPT ![p].pc = "deleteRows", ![p].ids = batch]
    <3>1. PICK r : r = [process[p] EXCEPT !.pc = "deleteRows", !.ids = batch]
      OBVIOUS
    <3>2. r \in ProcessRecord /\ r.pc = "deleteRows" /\ r.ids = batch
      BY <2>1, <3>1, HandlerType DEF ProcessRecord, PCs
    <3>3. process' = [process EXCEPT ![p] = r]
      BY <2>2, <3>1, HandlerType
    <3>4. HandlerOK(r)
      BY <3>2 DEF HandlerOK, InsertPCs
    <3> QED BY <2>1, <3>2, <3>3, <3>4, QuietStep DEF InsertPCs
  <2> QED BY <2>1, <2>2, Concludes
<1> QED BY <1>1, <1>2, <1>3, <1>4, <1>5, <1>6, <1>7, <1>8, <1>9

\* A step that writes rows of broadcasts that do not exist yet, or narrows them.
LEMMA RowsKeep ==
  ASSUME LostSaveIInv, NEW p \in Processes, NEW r \in ProcessRecord,
         process' = [process EXCEPT ![p] = r], UNCHANGED <<doc, announced>>,
         rows' \in [Ids -> RecipientRows],
         \A id \in Ids : doc[id].status = "absent" \/ Narrowed(id),
         accepted' \subseteq Ids \X Users \X Keys, withdrawn' \subseteq Ids,
         \A id \in withdrawn' \ withdrawn : Settled(id) /\ rows'[id] = NoRows,
         r.pc \in InsertPCs => process[p].pc \in InsertPCs,
         HandlerOK(r)', r.ids \subseteq process[p].ids
  PROVE  LostSaveIInv'
<1>1. TypeOK'
  BY DEF LostSaveIInv, TypeOK
<1>2. \A id \in Ids : Advances(p, id)
  <2>1. \A id \in Ids : doc[id].status \in {"absent", "draft", "published", "canceled", "deleted"}
    BY DEF LostSaveIInv, TypeOK, BroadcastDocument, Statuses
  <2> QED BY <2>1 DEF Advances, Settled
<1>3. r.pc \in InsertPCs => \A q \in Processes \ {p} : r.ids \intersect process[q].ids = {}
  BY DEF LostSaveIInv, InsertionsApart
<1>4. HandlerStep(p, r)
  BY <1>2, <1>3 DEF HandlerStep, Settled
<1> QED BY <1>1, <1>4, HandlerStepKeeps

LEMMA InsertedType ==
  ASSUME LostSaveIInv, NEW p \in Processes, NEW users, InsertRows(p, users),
         process[p].pc = "insert"
  PROVE  /\ rows' \in [Ids -> RecipientRows]
         /\ \A id \in Ids : doc[id].status = "absent" \/ Narrowed(id)
<1>1. \A id \in process[p].ids : doc[id].status = "absent"
  BY HandlerType DEF HandlerOK, InsertPCs
<1>2. \A id \in Ids : [u \in Users |-> IF u \in users THEN NoKey ELSE rows[id][u]] \in RecipientRows
  BY DEF LostSaveIInv, TypeOK, RecipientRows
<1> QED BY <1>1, <1>2 DEF InsertRows, Narrowed, LostSaveIInv, TypeOK

LEMMA RemovedType ==
  ASSUME LostSaveIInv, NEW ids, RemoveRows(ids)
  PROVE  /\ rows' \in [Ids -> RecipientRows]
         /\ \A id \in Ids : Narrowed(id) /\ (id \in ids => rows'[id] = NoRows)
<1>1. NoRows \in RecipientRows
  BY DEF NoRows, RecipientRows
<1> QED BY <1>1 DEF RemoveRows, Narrowed, NoRows, LostSaveIInv, TypeOK

LEMMA RowWritersKeep ==
  ASSUME LostSaveIInv, NEW p \in Processes,
         \/ InsertRecipients(p) \/ InsertFails(p) \/ RollbackDraft(p)
         \/ RemoveCanceledRows(p) \/ DeleteRecipients(p) \/ Crash(p)
  PROVE  LostSaveIInv'
<1> USE DEF answers
<1>0. accepted \subseteq Ids \X Users \X Keys /\ withdrawn \subseteq Ids
  BY DEF LostSaveIInv, TypeOK
<1>1. CASE InsertRecipients(p) \/ InsertFails(p)
  <2>1. process[p].pc = "insert" /\ UNCHANGED <<doc, answers>>
    BY <1>1 DEF InsertRecipients, InsertFails
  <2>2. PICK users : InsertRows(p, users)
    BY <1>1 DEF InsertRecipients, InsertFails
  <2>3. PICK pc \in {"save", "rollback"} : Step(p, pc)
    BY <1>1 DEF InsertRecipients, InsertFails
  <2>4. PICK r \in ProcessRecord : /\ process' = [process EXCEPT ![p] = r]
                                   /\ r.pc = pc /\ r.ids = process[p].ids
    BY <2>3, Continues DEF PCs, CreatePCs
  <2>5. HandlerOK(r)'
    BY <2>1, <2>4, HandlerType DEF HandlerOK, InsertPCs
  <2> QED BY <1>0, <2>1, <2>2, <2>4, <2>5, InsertedType, RowsKeep DEF InsertPCs
<1>2. CASE RollbackDraft(p)
  <2>1. PICK r : r = Idle
    OBVIOUS
  <2>2. r \in ProcessRecord /\ HandlerOK(r)' /\ r.pc \notin InsertPCs /\ r.ids = {}
    BY <2>1, IdleRelies, IdleType DEF InsertPCs
  <2>3. RemoveRows(process[p].ids) /\ process' = [process EXCEPT ![p] = r] /\ UNCHANGED <<doc, answers>>
    BY <1>2, <2>1 DEF RollbackDraft, Finish
  <2> QED BY <1>0, <2>2, <2>3, RemovedType, RowsKeep
<1>3. CASE RemoveCanceledRows(p)
  <2>1. PICK r : r = Idle
    OBVIOUS
  <2>2. r \in ProcessRecord /\ HandlerOK(r)' /\ r.pc \notin InsertPCs /\ r.ids = {}
    BY <2>1, IdleRelies, IdleType DEF InsertPCs
  <2>3. /\ process[p].pc = "removeRows" /\ RemoveRows(process[p].ids)
        /\ process' = [process EXCEPT ![p] = r] /\ UNCHANGED <<doc, accepted, announced>>
        /\ withdrawn' = withdrawn \union process[p].ids
    BY <1>3, <2>1 DEF RemoveCanceledRows, Finish
  <2>4. process[p].ids \subseteq Ids /\ \A id \in process[p].ids : Settled(id)
    BY <2>3, HandlerType DEF HandlerOK
  <2> QED BY <1>0, <2>2, <2>3, <2>4, RemovedType, RowsKeep
<1>4. CASE DeleteRecipients(p)
  <2>1. PICK r \in ProcessRecord : /\ process' = [process EXCEPT ![p] = r]
                                   /\ r.pc = "deleteDrafts" /\ r.ids = process[p].ids
    BY <1>4, Continues DEF DeleteRecipients, PCs
  <2>2. HandlerOK(r)'
    BY <2>1 DEF HandlerOK, InsertPCs
  <2>3. RemoveRows(process[p].ids) /\ UNCHANGED <<doc, answers>>
    BY <1>4 DEF DeleteRecipients
  <2> QED BY <1>0, <2>1, <2>2, <2>3, RemovedType, RowsKeep DEF InsertPCs
<1>5. CASE Crash(p)
  <2>1. PICK r : r = Idle
    OBVIOUS
  <2>2. r \in ProcessRecord /\ HandlerOK(r)' /\ r.pc \notin InsertPCs /\ r.ids = {}
    BY <2>1, IdleRelies, IdleType DEF InsertPCs
  <2>3. process' = [process EXCEPT ![p] = r] /\ UNCHANGED <<doc, answers>> /\ Finish(p)
    BY <1>5, <2>1 DEF Crash, Finish
  <2>4. CASE UNCHANGED rows
    BY <2>3, <2>4, Concludes
  <2>5. ASSUME process[p].pc = "insert", NEW users, InsertRows(p, users) PROVE LostSaveIInv'
    BY <1>0, <2>2, <2>3, <2>5, InsertedType, RowsKeep
  <2> QED BY <1>5, <2>4, <2>5 DEF Crash
<1> QED BY <1>1, <1>2, <1>3, <1>4, <1>5

\* One update of an upload: only a key that was missing is written.
LEMMA WriteRecipientKeyKeeps ==
  ASSUME LostSaveIInv, NEW p \in Processes, NEW u \in Users, WriteRecipientKey(p, u)
  PROVE  LostSaveIInv'
<1> PICK keys : keys = process[p].keys
  OBVIOUS
<1>1. /\ process[p].pc = "writeKeys" /\ UNCHANGED <<doc, announced, withdrawn>>
      /\ keys \in RecipientRows /\ \A v \in Users : keys[v] # NoKey
  BY HandlerType DEF WriteRecipientKey, HandlerOK
<1>2. PICK id \in process[p].ids :
        /\ rows' = IF Writable(id, u, keys[u]) THEN [rows EXCEPT ![id][u] = keys[u]] ELSE rows
        /\ IF process[p].todo = {u}
           THEN /\ Finish(p)
                /\ \/ UNCHANGED accepted
                   \/ accepted' = accepted \union {<<id, v, keys[v]>> : v \in Recipients(keys)}
           ELSE /\ \E m \in BOOLEAN :
                     process' = [process EXCEPT ![p].todo = @ \ {u}, ![p].matched = m]
                /\ UNCHANGED accepted
  <2>1. PICK id \in process[p].ids :
          LET matched == process[p].matched /\ Writable(id, u, keys[u]) IN
          /\ rows' = IF Writable(id, u, keys[u]) THEN [rows EXCEPT ![id][u] = keys[u]] ELSE rows
          /\ IF process[p].todo = {u}
             THEN /\ Finish(p)
                  /\ accepted' = IF matched
                                 THEN accepted \union {<<id, v, keys[v]>> : v \in Recipients(keys)}
                                 ELSE accepted
             ELSE /\ process' = [process EXCEPT ![p].todo = @ \ {u}, ![p].matched = matched]
                  /\ UNCHANGED accepted
    BY DEF WriteRecipientKey
  <2>2. (process[p].matched /\ Writable(id, u, keys[u])) \in BOOLEAN
    OBVIOUS
  <2> QED BY <2>1, <2>2
<1>3. id \in Ids /\ rows \in [Ids -> RecipientRows]
  BY HandlerType DEF LostSaveIInv, TypeOK
<1>4. rows' \in [Ids -> RecipientRows] /\ \A i \in Ids : Narrowed(i)
  <2>1. CASE ~Writable(id, u, keys[u])
    BY <1>2, <1>3, <2>1 DEF Narrowed
  <2>2. CASE Writable(id, u, keys[u])
    <3>1. rows' = [rows EXCEPT ![id][u] = keys[u]]
      BY <1>2, <2>2
    <3>2. [rows[id] EXCEPT ![u] = keys[u]] \in RecipientRows
      BY <1>1, <1>3 DEF RecipientRows
    <3>3. rows' \in [Ids -> RecipientRows]
      BY <1>3, <3>1, <3>2
    <3>4. /\ rows'[id][u] = keys[u]
          /\ \A i \in Ids, v \in Users : <<i, v>> # <<id, u>> => rows'[i][v] = rows[i][v]
      BY <1>3, <3>1 DEF RecipientRows
    <3> QED BY <2>2, <3>3, <3>4 DEF Writable, Narrowed
  <2> QED BY <2>1, <2>2
<1>5. accepted' \subseteq Ids \X Users \X Keys
  <2>1. \A v \in Recipients(keys) : v \in Users /\ keys[v] \in Keys
    BY <1>1 DEF Recipients, RecipientRows
  <2> QED BY <1>2, <1>3, <2>1 DEF LostSaveIInv, TypeOK
<1>6. PICK r \in ProcessRecord :
        /\ process' = [process EXCEPT ![p] = r] /\ r.ids \subseteq process[p].ids
        /\ r = Idle \/ (r.pc = "writeKeys" /\ r.keys = keys)
  <2>1. CASE Finish(p)
    BY <2>1, IdleType DEF Finish
  <2>2. ASSUME NEW m \in BOOLEAN,
               process' = [process EXCEPT ![p].todo = @ \ {u}, ![p].matched = m]
        PROVE  \E r \in ProcessRecord :
                 /\ process' = [process EXCEPT ![p] = r] /\ r.ids \subseteq process[p].ids
                 /\ r = Idle \/ (r.pc = "writeKeys" /\ r.keys = keys)
    <3> DEFINE r == [process[p] EXCEPT !.todo = @ \ {u}, !.matched = m]
    <3>1. r \in ProcessRecord /\ r.ids = process[p].ids /\ r.pc = "writeKeys" /\ r.keys = keys
      BY <1>1, HandlerType DEF ProcessRecord
    <3>2. process' = [process EXCEPT ![p] = r]
      BY <2>2, HandlerType
    <3> QED BY <3>1, <3>2
  <2> QED BY <1>2, <2>1, <2>2
<1>7. HandlerOK(r)' /\ r.pc \notin InsertPCs
  BY <1>1, <1>6, IdleType DEF HandlerOK, InsertPCs
<1>8. withdrawn' \subseteq Ids
  BY <1>1 DEF LostSaveIInv, TypeOK
<1> QED BY <1>1, <1>4, <1>5, <1>6, <1>7, <1>8, RowsKeep

\* A document that is left alone, beside rows that are left alone.
LEMMA Rests ==
  ASSUME LostSaveIInv, UNCHANGED rows, NEW p, NEW id \in Ids, doc'[id] = doc[id]
  PROVE  Advances(p, id)
<1>1. doc[id].status \in {"absent", "draft", "published", "canceled", "deleted"}
  BY DEF LostSaveIInv, TypeOK, BroadcastDocument, Statuses
<1> QED BY <1>1 DEF Advances, Narrowed, Settled

\* A step that writes documents.
LEMMA DocsKeep ==
  ASSUME LostSaveIInv, NEW p \in Processes, NEW r \in ProcessRecord,
         process' = [process EXCEPT ![p] = r], UNCHANGED <<rows, accepted, withdrawn>>,
         doc' \in [Ids -> BroadcastDocument], \A id \in Ids : Advances(p, id),
         announced' \subseteq Ids \X Contents,
         \A a \in announced' \ announced :
           doc'[a[1]].status = "published" /\ doc'[a[1]].content = a[2],
         r.pc \notin InsertPCs, HandlerOK(r)', r.ids \subseteq process[p].ids
  PROVE  LostSaveIInv'
<1>1. TypeOK'
  BY DEF LostSaveIInv, TypeOK
<1>2. HandlerStep(p, r)
  BY DEF HandlerStep
<1> QED BY <1>1, <1>2, HandlerStepKeeps

\* A save, also one that is reported as failed: the document is new, and the
\* rows that a rollback removes afterwards are those of no publication.
LEMMA SavesKeep ==
  ASSUME LostSaveIInv, NEW p \in Processes, SaveDraft(p) \/ SaveFails(p)
  PROVE  LostSaveIInv'
<1> USE DEF answers
<1>1. process[p].pc = "save" /\ UNCHANGED <<rows, answers>> /\ (UNCHANGED doc \/ StoreDraft(p))
  BY DEF SaveDraft, SaveFails
<1>2. PICK r \in ProcessRecord :
        process' = [process EXCEPT ![p] = r] /\ (r = Idle \/ (r.pc = "rollback" /\ r.ids = process[p].ids))
  <2>1. CASE SaveDraft(p)
    BY <2>1, IdleType DEF SaveDraft, Finish
  <2>2. CASE SaveFails(p)
    BY <2>2, Continues DEF SaveFails, PCs, CreatePCs
  <2> QED BY <2>1, <2>2
<1>3. r.pc \notin InsertPCs /\ HandlerOK(r)' /\ r.ids \subseteq process[p].ids
  BY <1>2, IdleType DEF HandlerOK, InsertPCs
<1>4. announced' \subseteq Ids \X Contents /\ doc \in [Ids -> BroadcastDocument]
  BY <1>1 DEF LostSaveIInv, TypeOK
<1>5. CASE UNCHANGED doc
  BY <1>1, <1>2, <1>3, <1>4, <1>5, Rests, DocsKeep
<1>6. CASE StoreDraft(p)
  <2>1. PICK d : d = [Absent EXCEPT !.status = "draft", !.client = process[p].client,
                                    !.count = Cardinality(process[p].audience)]
    OBVIOUS
  <2>2. doc' = [id \in Ids |-> IF id \in process[p].ids THEN d ELSE doc[id]]
    BY <1>6, <2>1 DEF StoreDraft
  <2>3. d.status = "draft" /\ d \in BroadcastDocument
    <3>1. Cardinality(process[p].audience) \in Nat
      BY HandlerType, ConstantsAssumption, FS_Subset, FS_CardinalityType
    <3>2. process[p].client \in ClientIds \union {NoClient}
      BY HandlerType DEF ProcessRecord
    <3> QED BY <2>1, <3>1, <3>2 DEF Absent, BroadcastDocument, Statuses, NoRows, RecipientRows
  <2>4. doc' \in [Ids -> BroadcastDocument]
    BY <1>4, <2>2, <2>3
  <2>5. \A id \in Ids : Advances(p, id)
    <3> TAKE id \in Ids
    <3>1. CASE id \in process[p].ids
      <4>1. doc[id].status = "absent"
        BY <1>1, <3>1, HandlerType DEF HandlerOK, InsertPCs
      <4>2. process'[p] = r
        BY <1>2, HandlerType
      <4> QED BY <1>1, <1>3, <2>2, <2>3, <3>1, <4>1, <4>2 DEF Advances
    <3>2. CASE id \notin process[p].ids
      BY <1>1, <2>2, <3>2, Rests
    <3> QED BY <3>1, <3>2
  <2> QED BY <1>1, <1>2, <1>3, <1>4, <2>4, <2>5, DocsKeep
<1> QED BY <1>1, <1>5, <1>6

LEMMA PublishKeeps ==
  ASSUME LostSaveIInv, NEW p \in Processes, Publish(p)
  PROVE  LostSaveIInv'
<1> PICK content, keys, r : content = process[p].content /\ keys = process[p].keys /\ r = Idle
  OBVIOUS
<1>1. /\ process[p].pc = "publish" /\ process' = [process EXCEPT ![p] = r]
      /\ UNCHANGED <<rows, accepted, withdrawn>>
      /\ r \in ProcessRecord /\ HandlerOK(r)' /\ r.pc \notin InsertPCs /\ r.ids = {}
  BY IdleRelies, IdleType DEF Publish, Finish, InsertPCs
<1>2. PICK id \in process[p].ids :
      \/ /\ doc[id].status = "draft"
         /\ doc' = [doc EXCEPT ![id].status = "published", ![id].content = content,
                               ![id].digest = keys]
         /\ announced' = announced \union {<<id, content>>}
      \/ /\ announced' = IF doc[id].status = "published" /\ doc[id].content = content
                            /\ doc[id].digest = keys
                         THEN announced \union {<<id, content>>} ELSE announced
         /\ UNCHANGED doc
  BY DEF Publish, Publishable
<1>3. id \in Ids /\ doc \in [Ids -> BroadcastDocument] /\ keys \in RecipientRows
  BY HandlerType DEF LostSaveIInv, TypeOK
<1>4. /\ content \in Contents
      /\ Live(id) => Cardinality(Recipients(keys)) = doc[id].count
      /\ \A u \in Users : keys[u] # NoKey /\ rows[id][u] \in {keys[u], NoRow}
  BY <1>1, HandlerType DEF HandlerOK
<1>5. announced' \subseteq Ids \X Contents
  BY <1>2, <1>3, <1>4 DEF LostSaveIInv, TypeOK
<1>6. CASE /\ announced' = IF doc[id].status = "published" /\ doc[id].content = content
                              /\ doc[id].digest = keys
                           THEN announced \union {<<id, content>>} ELSE announced
           /\ UNCHANGED doc
  <2>1. \A a \in announced' \ announced : doc'[a[1]].status = "published" /\ doc'[a[1]].content = a[2]
    BY <1>2, <1>3, <1>6
  <2> QED BY <1>1, <1>3, <1>5, <1>6, <2>1, Rests, DocsKeep
<1>7. CASE /\ doc[id].status = "draft"
           /\ doc' = [doc EXCEPT ![id].status = "published", ![id].content = content,
                                 ![id].digest = keys]
           /\ announced' = announced \union {<<id, content>>}
  <2>1. PICK d : d = [doc[id] EXCEPT !.status = "published", !.content = content, !.digest = keys]
    OBVIOUS
  <2>2. d \in BroadcastDocument /\ d.status = "published" /\ d.content = content
        /\ d.digest = keys /\ d.count = doc[id].count
    <3>1. doc[id] \in BroadcastDocument
      BY <1>3
    <3> QED BY <1>3, <1>4, <2>1, <3>1 DEF BroadcastDocument, Statuses
  <2>3. doc' \in [Ids -> BroadcastDocument] /\ doc'[id] = d /\ \A i \in Ids \ {id} : doc'[i] = doc[i]
    BY <1>3, <1>7, <2>1, <2>2
  <2>4. Advances(p, id)
    BY <1>1, <1>4, <1>7, <2>2, <2>3 DEF Advances, Narrowed, Live, Recipients
  <2>5. \A i \in Ids : Advances(p, i)
    BY <1>1, <2>3, <2>4, Rests
  <2>6. \A a \in announced' \ announced : doc'[a[1]].status = "published" /\ doc'[a[1]].content = a[2]
    BY <1>3, <1>7, <2>2, <2>3
  <2> QED BY <1>1, <1>5, <2>3, <2>5, <2>6, DocsKeep
<1> QED BY <1>2, <1>6, <1>7

LEMMA WithdrawnType ==
  ASSUME LostSaveIInv, UNCHANGED rows, NEW p, NEW ids \in SUBSET Ids,
         \A id \in ids : doc[id].status = "draft", SetStatus(ids, "canceled")
  PROVE  /\ doc' \in [Ids -> BroadcastDocument] /\ \A id \in Ids : Advances(p, id)
         /\ \A id \in ids : doc'[id].status = "canceled"
<1>1. \A id \in Ids : LET d == [doc[id] EXCEPT !.status = "canceled"] IN
        d \in BroadcastDocument /\ d.status = "canceled" /\ d.count = doc[id].count
  BY DEF LostSaveIInv, TypeOK, BroadcastDocument, Statuses
<1>2. doc' \in [Ids -> BroadcastDocument]
  BY <1>1 DEF SetStatus, LostSaveIInv, TypeOK
<1>3. \A id \in Ids \ ids : doc'[id] = doc[id]
  BY DEF SetStatus
<1>4. \A id \in ids : doc'[id].status = "canceled" /\ doc'[id].count = doc[id].count
  BY <1>1 DEF SetStatus
<1>5. \A id \in ids : Advances(p, id)
  BY <1>4 DEF Advances, Narrowed
<1> QED BY <1>2, <1>3, <1>4, <1>5, Rests

LEMMA WithdrawalsKeep ==
  ASSUME LostSaveIInv, NEW p \in Processes,
         MarkCanceled(p) \/ MarkExpiredDrafts(p) \/ DeleteDrafts(p)
  PROVE  LostSaveIInv'
<1> USE DEF answers
<1>0. UNCHANGED <<rows, answers>> /\ announced' \subseteq Ids \X Contents
      /\ doc \in [Ids -> BroadcastDocument]
  BY DEF MarkCanceled, MarkExpiredDrafts, DeleteDrafts, LostSaveIInv, TypeOK
<1>1. CASE MarkCanceled(p)
  <2> PICK id \in process[p].ids :
        \/ doc[id].status = "draft" /\ SetStatus({id}, "canceled") /\ Step(p, "removeRows")
        \/ Step(p, "recheck") /\ UNCHANGED doc
    BY <1>1 DEF MarkCanceled
  <2>1. process[p].pc = "cancel" /\ id \in Ids
        /\ \A i \in process[p].ids : i = id /\ doc[i].status # "absent"
    BY <1>1, HandlerType DEF MarkCanceled, HandlerOK
  <2>2. CASE doc[id].status = "draft" /\ SetStatus({id}, "canceled") /\ Step(p, "removeRows")
    <3>1. PICK r \in ProcessRecord : /\ process' = [process EXCEPT ![p] = r]
                                     /\ r.pc = "removeRows" /\ r.ids = process[p].ids
      BY <2>2, Continues DEF PCs
    <3>2. /\ doc' \in [Ids -> BroadcastDocument] /\ \A i \in Ids : Advances(p, i)
          /\ doc'[id].status = "canceled"
      BY <1>0, <2>1, <2>2, WithdrawnType
    <3>3. HandlerOK(r)'
      BY <2>1, <3>1, <3>2 DEF HandlerOK, InsertPCs, Settled
    <3> QED BY <1>0, <3>1, <3>2, <3>3, DocsKeep DEF InsertPCs
  <2>3. CASE Step(p, "recheck") /\ UNCHANGED doc
    <3>1. PICK r \in ProcessRecord : /\ process' = [process EXCEPT ![p] = r]
                                     /\ r.pc = "recheck" /\ r.ids = process[p].ids
      BY <2>3, Continues DEF PCs
    <3>2. HandlerOK(r)
      BY <2>1, <3>1 DEF HandlerOK, InsertPCs
    <3> QED BY <1>0, <2>3, <3>1, <3>2, QuietStep DEF InsertPCs
  <2> QED BY <2>2, <2>3
<1>2. CASE MarkExpiredDrafts(p)
  <2>1. PICK r, ids : /\ r = [process[p] EXCEPT !.pc = "findCanceled", !.ids = {}]
                      /\ ids = {id \in process[p].ids : doc[id].status = "draft"}
    OBVIOUS
  <2>2. r \in ProcessRecord /\ r.pc = "findCanceled" /\ r.ids = {}
    BY <2>1, HandlerType DEF ProcessRecord, PCs
  <2>3. process' = [process EXCEPT ![p] = r] /\ SetStatus(ids, "canceled")
    BY <1>2, <2>1, HandlerType DEF MarkExpiredDrafts
  <2>4. ids \in SUBSET Ids /\ \A id \in ids : doc[id].status = "draft"
    BY <2>1, HandlerType
  <2>5. doc' \in [Ids -> BroadcastDocument] /\ \A i \in Ids : Advances(p, i)
    BY <1>0, <2>3, <2>4, WithdrawnType
  <2>6. HandlerOK(r)'
    BY <2>2 DEF HandlerOK, InsertPCs
  <2> QED BY <1>0, <2>2, <2>3, <2>5, <2>6, DocsKeep DEF InsertPCs
<1>3. CASE DeleteDrafts(p)
  <2>1. PICK r, d : r = Idle /\ d = [Absent EXCEPT !.status = "deleted"]
    OBVIOUS
  <2>2. /\ doc' = [id \in Ids |-> IF id \in process[p].ids /\ doc[id].status = "canceled"
                                  THEN d ELSE doc[id]]
        /\ process' = [process EXCEPT ![p] = r]
    BY <1>3, <2>1 DEF DeleteDrafts, Finish
  <2>3. r \in ProcessRecord /\ HandlerOK(r)' /\ r.pc \notin InsertPCs /\ r.ids = {}
    BY <2>1, IdleRelies, IdleType DEF InsertPCs
  <2>4. d \in BroadcastDocument /\ d.status = "deleted"
    BY <2>1 DEF Absent, BroadcastDocument, NoRows, RecipientRows
  <2>5. doc' \in [Ids -> BroadcastDocument]
    BY <1>0, <2>2, <2>4
  <2>6. \A id \in Ids : Advances(p, id)
    <3> TAKE id \in Ids
    <3>1. CASE id \in process[p].ids /\ doc[id].status = "canceled"
      BY <1>0, <2>2, <2>4, <3>1 DEF Advances, Settled, Narrowed
    <3>2. CASE ~(id \in process[p].ids /\ doc[id].status = "canceled")
      BY <1>0, <2>2, <3>2, Rests
    <3> QED BY <3>1, <3>2
  <2> QED BY <1>0, <2>2, <2>3, <2>5, <2>6, DocsKeep
<1> QED BY <1>1, <1>2, <1>3

\* The passing of expiresAt.
LEMMA ExpireDraftKeeps ==
  ASSUME LostSaveIInv, NEW id \in Ids, ExpireDraft(id)
  PROVE  LostSaveIInv'
<1>1. doc \in [Ids -> BroadcastDocument] /\ UNCHANGED <<rows, process, accepted, announced, withdrawn>>
      /\ doc' = [doc EXCEPT ![id].expired = TRUE]
  BY DEF ExpireDraft, answers, LostSaveIInv, TypeOK
<1>2. doc' \in [Ids -> BroadcastDocument]
  <2>1. [doc[id] EXCEPT !.expired = TRUE] \in BroadcastDocument
    BY <1>1 DEF BroadcastDocument
  <2> QED BY <1>1, <2>1
<1>3. \A i \in Ids : /\ doc'[i].status = doc[i].status /\ doc'[i].count = doc[i].count
                     /\ doc'[i].content = doc[i].content /\ doc'[i].digest = doc[i].digest
  <2>1. doc[id] \in BroadcastDocument
    BY <1>1
  <2> QED BY <1>1, <2>1 DEF BroadcastDocument
<1>4. TypeOK'
  BY <1>1, <1>2 DEF LostSaveIInv, TypeOK
<1>5. OnlySignedReaders'
  BY <1>1, <1>3 DEF LostSaveIInv, OnlySignedReaders, Signed, Recipients
<1>6. DecisionsHold'
  BY <1>1, <1>3 DEF LostSaveIInv, TypeOK, DecisionsHold
<1>7. HandlerInv' /\ InsertionsApart'
  <2>1. ASSUME NEW q \in Processes PROVE HandlerOK(process[q])'
    <3>1. HandlerOK(process[q]) /\ process[q].ids \subseteq Ids
      BY HandlerType
    <3> QED BY <1>1, <1>3, <3>1 DEF HandlerOK, Live, Settled, Recipients
  <2> QED BY <1>1, <2>1 DEF LostSaveIInv, HandlerInv, InsertionsApart
<1> QED BY <1>4, <1>5, <1>6, <1>7 DEF LostSaveIInv

LEMMA NextLostSaveIInv == LostSaveIInv /\ [Next]_vars => LostSaveIInv'
<1> SUFFICES ASSUME LostSaveIInv, [Next]_vars PROVE LostSaveIInv'
  OBVIOUS
<1>1. CASE UNCHANGED vars
  BY <1>1 DEF vars, LostSaveIInv, TypeOK, OnlySignedReaders, Signed, DecisionsHold, HandlerInv,
     HandlerOK, InsertionsApart, Live, Settled
<1>2. ASSUME NEW id \in Ids, ExpireDraft(id) PROVE LostSaveIInv'
  BY <1>2, ExpireDraftKeeps
<1>3. ASSUME NEW p \in Processes, CreateNext(p) PROVE LostSaveIInv'
  BY <1>3, ReadsKeep, RowWritersKeep, SavesKeep DEF CreateNext
<1>4. ASSUME NEW p \in Processes, UploadNext(p) PROVE LostSaveIInv'
  BY <1>4, ReadsKeep, WriteRecipientKeyKeeps DEF UploadNext
<1>5. ASSUME NEW p \in Processes, FinalizeNext(p) PROVE LostSaveIInv'
  BY <1>5, ReadsKeep, PublishKeeps DEF FinalizeNext
<1>6. ASSUME NEW p \in Processes, CancelNext(p) PROVE LostSaveIInv'
  BY <1>6, ReadsKeep, RowWritersKeep, WithdrawalsKeep DEF CancelNext
<1>7. ASSUME NEW p \in Processes, CleanupNext(p) PROVE LostSaveIInv'
  BY <1>7, ReadsKeep, RowWritersKeep, WithdrawalsKeep DEF CleanupNext
<1>8. ASSUME NEW p \in Processes, Crash(p) PROVE LostSaveIInv'
  BY <1>8, RowWritersKeep
<1> QED BY <1>1, <1>2, <1>3, <1>4, <1>5, <1>6, <1>7, <1>8 DEF Next, Processes

LEMMA LostSaveInvariant == Spec => []LostSaveIInv
BY InitLostSaveIInv, NextLostSaveIInv, PTL DEF Spec

\* Every variable keeps its type (Broadcast!TypeOK), for any audience, any
\* number of requests and any number of API processes with a cleanup timer,
\* whatever a failed save has written.
THEOREM TypeCorrectness == Spec => []TypeOK
<1>1. LostSaveIInv => TypeOK
  BY DEF LostSaveIInv
<1> QED BY <1>1, LostSaveInvariant, PTL

\* A failed save that was applied can cost the readers of a broadcast their
\* rows, but it never adds a reader or replaces a key: what is published was
\* complete when it was signed, and every key it still has is a signed one.
THEOREM ReadersAreSigned == Spec => []OnlySignedReaders
<1>1. LostSaveIInv => OnlySignedReaders
  BY DEF LostSaveIInv
<1> QED BY <1>1, LostSaveInvariant, PTL

\* The answers of finalizeBroadcast and cancelBroadcastDraft stay true whatever
\* a failed save has written; of AnswersHold only the accepted keys need that
\* no save is applied that was reported as failed.
THEOREM DecisionsStand == Spec => []DecisionsHold
<1>1. LostSaveIInv => DecisionsHold
  BY DEF LostSaveIInv
<1> QED BY <1>1, LostSaveInvariant, PTL

=============================================================================
