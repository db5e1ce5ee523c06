------------------------------- MODULE Messages -------------------------------
(***************************************************************************)
(* Messages and announcements (api/internal/messaging/handler.go): a       *)
(* message and one row per recipient, inserted in the request's one        *)
(* transaction, and the recipients' marks.                                 *)
(*                                                                         *)
(* The handlers log a recipient that fails and go on with the next, but    *)
(* the failed INSERT has aborted the transaction.                          *)
(***************************************************************************)
CONSTANTS
  MessageIds,  \* messages, one request each
  Recipients   \* users a message may be for

VARIABLES
  sending,   \* [MessageIds -> Sendings], the state of its request
  wanted,    \* [MessageIds -> SUBSET Recipients], in the body or the class
  faulty,    \* [MessageIds -> SUBSET Recipients], listed twice or unknown
  toLink,    \* [MessageIds -> SUBSET Recipients], still to insert
  inbox,     \* [MessageIds -> SUBSET Recipients], committed recipient rows
  read       \* [MessageIds -> SUBSET Recipients], those with a read_at

messageVars == <<sending, wanted, faulty, toLink, inbox, read>>

Sendings == {"none", "linking", "aborted", "answered", "sent", "lost"}

MessageTypeOK ==
  /\ sending \in [MessageIds -> Sendings]
  /\ wanted \in [MessageIds -> SUBSET Recipients]
  /\ faulty \in [MessageIds -> SUBSET Recipients]
  /\ toLink \in [MessageIds -> SUBSET Recipients]
  /\ inbox \in [MessageIds -> SUBSET Recipients]
  /\ read \in [MessageIds -> SUBSET Recipients]

MessageInit ==
  /\ sending = [m \in MessageIds |-> "none"]
  /\ wanted = [m \in MessageIds |-> {}]
  /\ faulty = [m \in MessageIds |-> {}]
  /\ toLink = [m \in MessageIds |-> {}]
  /\ inbox = [m \in MessageIds |-> {}]
  /\ read = [m \in MessageIds |-> {}]

Compose(m, people, bad) ==
  /\ sending[m] = "none"
  /\ sending' = [sending EXCEPT ![m] = "linking"]
  /\ wanted' = [wanted EXCEPT ![m] = people]
  /\ faulty' = [faulty EXCEPT ![m] = bad]
  /\ toLink' = [toLink EXCEPT ![m] = people]
  /\ UNCHANGED <<inbox, read>>

(* The ids of the body are not looked at: any of them may fail.            *)
SendMessage(m, people, bad) == people # {} /\ Compose(m, people, bad)

(* The parents of the class, distinct and known; there may be none.        *)
SendAnnouncement(m, people) == Compose(m, people, {})

Link(m, u) ==
  /\ sending[m] = "linking" /\ u \in toLink[m] \ faulty[m]
  /\ toLink' = [toLink EXCEPT ![m] = @ \ {u}]
  /\ UNCHANGED <<sending, wanted, faulty, inbox, read>>

(* Variant for mutation testing: a failed INSERT costs one recipient only. *)
LinkFailsAlone(m, u) ==
  /\ sending[m] = "linking" /\ u \in toLink[m] \intersect faulty[m]
  /\ toLink' = [toLink EXCEPT ![m] = @ \ {u}]
  /\ UNCHANGED <<sending, wanted, faulty, inbox, read>>

LinkFails(m, u) ==
  /\ sending[m] = "linking" /\ u \in toLink[m] \intersect faulty[m]
  /\ sending' = [sending EXCEPT ![m] = "aborted"]
  /\ toLink' = [toLink EXCEPT ![m] = @ \ {u}]
  /\ UNCHANGED <<wanted, faulty, inbox, read>>

(* In the aborted transaction every other recipient fails as well.         *)
LinkRest(m, u) ==
  /\ sending[m] = "aborted" /\ u \in toLink[m]
  /\ toLink' = [toLink EXCEPT ![m] = @ \ {u}]
  /\ UNCHANGED <<sending, wanted, faulty, inbox, read>>

(* 201, then the commit of TenantContext: it stores the message with those *)
(* it has linked.                                                          *)
CommitMessage(m) ==
  /\ sending[m] = "linking" /\ toLink[m] = {}
  /\ sending' = [sending EXCEPT ![m] = "sent"]
  /\ inbox' = [inbox EXCEPT ![m] = wanted[m] \ faulty[m]]
  /\ UNCHANGED <<wanted, faulty, toLink, read>>

(* The same 201, and a commit that is a rollback or fails.                 *)
LoseMessage(m) ==
  /\ sending[m] \in {"linking", "aborted"} /\ toLink[m] = {}
  /\ sending' = [sending EXCEPT ![m] = "lost"]
  /\ UNCHANGED <<wanted, faulty, toLink, inbox, read>>

(* The UPDATE finds a row only for a committed recipient.                  *)
MarkRead(m, u) ==
  /\ u \in inbox[m]
  /\ read' = [read EXCEPT ![m] = @ \union {u}]
  /\ UNCHANGED <<sending, wanted, faulty, toLink, inbox>>

MessageNext ==
  \E m \in MessageIds :
    \/ \E people \in SUBSET Recipients :
         \/ \E bad \in SUBSET people : SendMessage(m, people, bad)
         \/ SendAnnouncement(m, people)
    \/ \E u \in Recipients :
         Link(m, u) \/ LinkFails(m, u) \/ LinkRest(m, u) \/ MarkRead(m, u)
    \/ CommitMessage(m)
    \/ LoseMessage(m)

MessageSpec == MessageInit /\ [][MessageNext]_messageVars

-----------------------------------------------------------------------------
(* Properties.                                                             *)

(* A message reaches everybody it is for or nobody: a recipient that fails *)
(* is logged and passed over, and takes the whole message with it          *)
(* (messaging/handler.go:234-243, 328-339).                                *)
DeliveredToAllOrNone ==
  \A m \in MessageIds : inbox[m] \in {{}, wanted[m]}

=============================================================================
