---------------------------- MODULE SharedState ----------------------------
(***************************************************************************)
(* What Gateway and Logic share: the MySQL table of messages, the Redis    *)
(* keys route:user:<id> and the RabbitMQ down queues, with the operations  *)
(* the code performs on them (logic/dao/messages.go, logic/models).        *)
(*                                                                         *)
(* A payload is one UploadPayload a gateway publishes.  A copy is the      *)
(* message one receiver gets of it, one row of the table: a single or AI   *)
(* chat has one copy, whose primary key is the payload's MsgID; a group    *)
(* chat has a copy per member, whose primary key is drawn when the worker  *)
(* handles the member, so that it names the delivery attempt too.          *)
(***************************************************************************)
EXTENDS Naturals, FiniteSets

CONSTANTS
  Users,          \* user ids of people
  Bot,            \* ReceiverID -1, the assistant
  Gateways,       \* gateway addresses
  None,           \* no gateway, no connection: redis.Nil, a missing map entry
  Payloads,       \* the upload messages of a behaviour
  Kind,           \* [Payloads -> Kinds]: ChatType, "garbage" if it does not parse
  Sender,         \* [Payloads -> Users]: SenderID
  Audience,       \* [Payloads -> SUBSET]: the receiver, or the group's members
  MaxFaults       \* bound: failures the environment injects in a behaviour

Kinds == {"single_chat", "group_chat", "ai_chat", "unknown", "garbage"}
Accounts == Users \cup {Bot}

ASSUME NoneAssumption == None \notin Gateways
ASSUME PayloadAssumption ==
  /\ Kind \in [Payloads -> Kinds]
  /\ Sender \in [Payloads -> Users]
  /\ Audience \in [Payloads -> SUBSET Accounts]
  /\ \A p \in Payloads :
       Kind[p] \in {"single_chat", "ai_chat"} => \E u \in Accounts : Audience[p] = {u}
ASSUME FaultAssumption == MaxFaults \in Nat

VARIABLES
  rows,     \* table messages: primary key -> what the code updates of the row
  route,    \* Redis route:user:<id>: the gateway an account is connected to
  downQ,    \* down queues: deliveries not acked yet
  faults    \* failures injected so far

sharedVars == <<rows, route, downQ, faults>>

-----------------------------------------------------------------------------
(* Primary keys: payload, receiver, delivery attempt (0 when the gateway    *)
(* assigned the id).                                                        *)
CopyIds == Payloads \X Accounts \X Nat
PayloadOf(id) == id[1]
Receiver(id) == id[2]

(* send_status of a row *)
Unsent == 0
SentUnconfirmed == 1
SentConfirmed == 2

Row == [read : BOOLEAN, status : {Unsent, SentUnconfirmed, SentConfirmed}]
NewMessages(isRead) == [read |-> isRead, status |-> Unsent]
Delivery == [id : CopyIds, gateway : Gateways]

SharedTypeOK ==
  /\ DOMAIN rows \subseteq CopyIds
  /\ rows \in [DOMAIN rows -> Row]
  /\ route \in [Accounts -> Gateways \cup {None}]
  /\ downQ \subseteq Delivery
  /\ faults \in 0..MaxFaults

SharedInit ==
  /\ rows = [id \in {} |-> NewMessages(FALSE)]
  /\ route = [u \in Accounts |-> None]
  /\ downQ = {}
  /\ faults = 0

-----------------------------------------------------------------------------
(* A failure of MySQL, Redis, RabbitMQ or a process. *)
Fault == faults < MaxFaults /\ faults' = faults + 1
NoFault == UNCHANGED faults

Stored == DOMAIN rows

InsertMessage(id, isRead) ==
  rows' = [i \in Stored \cup {id} |->
             IF i \in Stored THEN rows[i] ELSE NewMessages(isRead)]

(* Slip: unread is taken from send_status. *)
GetUnsentMessages(u) ==
  {id \in Stored : Receiver(id) = u /\ rows[id].status = Unsent}

GetUnreadMessages(u) == {id \in Stored : Receiver(id) = u /\ ~rows[id].read}

(* Both UPDATEs that confirm rows touch only those with is_read = false. *)
Confirm(ids) ==
  rows' = [id \in Stored |->
             IF id \in ids /\ ~rows[id].read
             THEN [read |-> TRUE, status |-> SentConfirmed] ELSE rows[id]]

MarkMessagesAsRead(u) == Confirm(GetUnreadMessages(u))
MarkMessageAsRead(id) == Confirm({id})

(* Slip: the UPDATE has no condition on send_status. *)
MarkDeliveredAlways(id) ==
  rows' = [i \in Stored |->
             IF i = id THEN [rows[i] EXCEPT !.status = SentUnconfirmed] ELSE rows[i]]

MarkSendTransportDelivered(id) ==
  rows' = [i \in Stored |->
             IF i = id /\ rows[i].status = Unsent
             THEN [rows[i] EXCEPT !.status = SentUnconfirmed] ELSE rows[i]]
=============================================================================
