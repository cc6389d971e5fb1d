--------------------------- MODULE ConversationLog ---------------------------
(***************************************************************************)
(* What the messenger promises to two users who talk to each other: one    *)
(* log of their messages that only grows at its end, in which a client     *)
(* message id of a sender occurs once, and a cursor for each of them that  *)
(* only moves forward.                                                     *)
(***************************************************************************)
EXTENDS Naturals, FiniteSets

CONSTANTS Conversations, Users, Bodies

VARIABLES
  log,  \* entries: conversation, position, sender and body
  read  \* the cursor of every user in every conversation

vars == <<log, read>>

Init ==
  /\ log = {}
  /\ read = [c \in Conversations |-> [u \in Users |-> 0]]

Length(c) == Cardinality({e \in log : e.conversation = c})

Send(c, u) ==
  /\ \E body \in Bodies :
       /\ \A e \in log : e.sender = u => e.body.client # body.client
       /\ log' = log \union
            {[conversation |-> c, position |-> Length(c) + 1, sender |-> u, body |-> body]}
  /\ UNCHANGED read

MarkRead(c, u) ==
  /\ \E n \in read[c][u] + 1..Length(c) : read' = [read EXCEPT ![c][u] = n]
  /\ UNCHANGED log

Next == \E c \in Conversations : \E u \in c : Send(c, u) \/ MarkRead(c, u)

Spec == Init /\ [][Next]_vars
=============================================================================
