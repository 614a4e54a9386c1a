--------------------------- MODULE UploadConsumer ---------------------------
(***************************************************************************)
(* The upload path: the queue logic.upload.queue (pkg/mq/rabbitmq.go) and  *)
(* the pool of Logic workers that consume it with manual acks              *)
(* (logic/service/upload_consumer.go).  A worker parses the payload,       *)
(* stores one row per receiver, looks the receiver's route up and, if      *)
(* there is one, publishes the copy to that gateway's down queue; at the   *)
(* end it acks.  An error of a single or AI chat is nacked with requeue,   *)
(* a member of a group whose step fails is skipped.                        *)
(*                                                                         *)
(* The gateways appear here as the environment: they change routes, take   *)
(* deliveries off the down queues and update rows.                         *)
(***************************************************************************)
EXTENDS SharedState

CONSTANT Workers      \* uploadWorkers, also the prefetch count of the channel

ASSUME WorkersAssumption == Workers \in Nat \ {0}

VARIABLES
  sent,     \* PublishUpload returned nil
  wire,     \* ... and the frame has not reached the broker yet
  lost,     \* ... and the connection broke before it did
  queue,    \* ready in logic.upload.queue
  dead,     \* in dead.letter.queue
  settled,  \* acked by Logic: the broker has forgotten it
  pc,       \* where the worker holding the payload stands, "idle" if none does
  left,     \* receivers that worker has still to handle
  cur,      \* the receiver it is handling
  addr,     \* the gateway it found for that receiver
  attempt,  \* deliveries of a group payload: each draws fresh copy ids
  pushed    \* copies ever published to a down queue

brokerVars == <<sent, wire, lost, queue, dead, settled>>
workerVars == <<pc, left, cur, addr, attempt>>
uploadVars == <<brokerVars, workerVars, pushed>>
allUploadVars == <<uploadVars, sharedVars>>

Steps == {"idle", "insert", "route", "publish", "ack"}
IsGroup(p) == Kind[p] = "group_chat"
Storable(p) == Kind[p] \in {"single_chat", "ai_chat", "group_chat"}
(* The loop over GetGroupMembers skips the sender. *)
Receivers(p) == IF IsGroup(p) THEN Audience[p] \ {Sender[p]} ELSE Audience[p]
CopyId(p, u) == <<p, u, IF IsGroup(p) THEN attempt[p] ELSE 0>>
Busy == {p \in Payloads : pc[p] # "idle"}

UploadTypeOK ==
  /\ sent \subseteq Payloads
  /\ wire \subseteq Payloads
  /\ lost \subseteq Payloads
  /\ queue \subseteq Payloads
  /\ dead \subseteq Payloads
  /\ settled \subseteq Payloads
  /\ pc \in [Payloads -> Steps]
  /\ left \in [Payloads -> SUBSET Accounts]
  /\ cur \in [Payloads -> Accounts]
  /\ addr \in [Payloads -> Gateways \cup {None}]
  /\ attempt \in [Payloads -> Nat]
  /\ pushed \subseteq CopyIds

UploadInit ==
  /\ sent = {} /\ wire = {} /\ lost = {}
  /\ queue = {} /\ dead = {} /\ settled = {}
  /\ pc = [p \in Payloads |-> "idle"]
  /\ left = [p \in Payloads |-> {}]
  /\ cur = [p \in Payloads |-> Bot]
  /\ addr = [p \in Payloads |-> None]
  /\ attempt = [p \in Payloads |-> 0]
  /\ pushed = {}

-----------------------------------------------------------------------------
(* The way into the queue.  PublishWithContext returns once the frame is    *)
(* written: the channel is not in confirm mode.                             *)
PublishUpload(p) ==
  /\ p \notin sent
  /\ sent' = sent \cup {p}
  /\ wire' = wire \cup {p}
  /\ UNCHANGED <<lost, queue, dead, settled, workerVars, pushed, sharedVars>>

BrokerAccept(p) ==
  /\ p \in wire
  /\ wire' = wire \ {p}
  /\ queue' = queue \cup {p}
  /\ UNCHANGED <<sent, lost, dead, settled, workerVars, pushed, sharedVars>>

ConnectionLost(p) ==
  /\ p \in wire
  /\ Fault
  /\ wire' = wire \ {p}
  /\ lost' = lost \cup {p}
  /\ UNCHANGED <<sent, queue, dead, settled, workerVars, pushed, rows, route, downQ>>

-----------------------------------------------------------------------------
(* handleUploadDelivery: what a worker does with the delivery it takes.     *)
Take(p) ==
  /\ p \in queue
  /\ Cardinality(Busy) < Workers
  /\ queue' = queue \ {p}

RejectGarbage(p) ==
  /\ Take(p)
  /\ Kind[p] = "garbage"
  /\ dead' = dead \cup {p}
  /\ UNCHANGED <<sent, wire, lost, settled, workerVars, pushed, sharedVars>>

AckUnknown(p) ==
  /\ Take(p)
  /\ Kind[p] = "unknown"
  /\ settled' = settled \cup {p}
  /\ UNCHANGED <<sent, wire, lost, dead, workerVars, pushed, sharedVars>>

StartHandling(p) ==
  /\ Take(p)
  /\ Storable(p)
  /\ left' = [left EXCEPT ![p] = Receivers(p)]
  /\ pc' = [pc EXCEPT ![p] = IF left'[p] = {} THEN "ack" ELSE "insert"]
  /\ attempt' = [attempt EXCEPT ![p] = IF IsGroup(p) THEN @ + 1 ELSE @]
  /\ UNCHANGED <<sent, wire, lost, dead, settled, cur, addr, pushed, sharedVars>>

(* GetGroupMembers fails: nacked with requeue. *)
MembersUnavailable(p) ==
  /\ p \in queue
  /\ IsGroup(p)
  /\ Fault
  /\ UNCHANGED <<uploadVars, rows, route, downQ>>

(* Slip: the nack does not ask for a requeue and the queue has no DLX. *)
DiscardOnNack(p) ==
  /\ UNCHANGED queue
  /\ pc' = [pc EXCEPT ![p] = "idle"]

Requeue(p) ==
  /\ queue' = queue \cup {p}
  /\ pc' = [pc EXCEPT ![p] = "idle"]

NextReceiver(p) ==
  /\ pc' = [pc EXCEPT ![p] = IF left'[p] = {} THEN "ack" ELSE "insert"]
  /\ UNCHANGED queue

(* Slip: a single chat's error is only logged, too. *)
LogAndGoOn(p) == NextReceiver(p)

(* An error ends a single or AI chat's attempt, and only skips a member.    *)
OnError(p) == IF IsGroup(p) THEN NextReceiver(p) ELSE Requeue(p)

-----------------------------------------------------------------------------
(* InsertMessage, then the Redis lookup, then PublishDown: one step each,   *)
(* since gateways and a crash come between them.                            *)
Insert(p, u) ==
  /\ pc[p] = "insert"
  /\ u \in left[p]
  /\ left' = [left EXCEPT ![p] = @ \ {u}]
  /\ cur' = [cur EXCEPT ![p] = u]

InsertCopy(p, u) ==
  /\ Insert(p, u)
  /\ CopyId(p, u) \notin Stored
  /\ InsertMessage(CopyId(p, u), Kind[p] = "ai_chat")
  /\ pc' = [pc EXCEPT ![p] = IF Kind[p] = "ai_chat" THEN "ack" ELSE "route"]
  /\ UNCHANGED <<brokerVars, addr, attempt, pushed, route, downQ, faults>>

(* Slip: a taken primary key counts as stored, to make redelivery converge. *)
DuplicateIsSuccess(p, u) ==
  /\ Insert(p, u)
  /\ CopyId(p, u) \in Stored
  /\ pc' = [pc EXCEPT ![p] = "route"]
  /\ UNCHANGED <<brokerVars, addr, attempt, pushed, sharedVars>>

(* Error 1062: the primary key is taken. *)
InsertRefused(p, u) ==
  /\ Insert(p, u)
  /\ CopyId(p, u) \in Stored
  /\ OnError(p)
  /\ UNCHANGED <<sent, wire, lost, dead, settled, addr, attempt, pushed, sharedVars>>

(* Slip: the error of the insert is not looked at. *)
InsertErrorIgnored(p, u) ==
  /\ Insert(p, u)
  /\ Fault
  /\ pc' = [pc EXCEPT ![p] = "route"]
  /\ UNCHANGED <<brokerVars, addr, attempt, pushed, rows, route, downQ>>

(* MySQL fails, with the row committed or not. *)
InsertFails(p, u) ==
  /\ Insert(p, u)
  /\ Fault
  /\ \/ UNCHANGED rows
     \/ InsertMessage(CopyId(p, u), Kind[p] = "ai_chat")
  /\ OnError(p)
  /\ UNCHANGED <<sent, wire, lost, dead, settled, addr, attempt, pushed, route, downQ>>

(* Slip: redis.Nil is not told from an address. *)
RouteNotChecked(p) ==
  /\ pc[p] = "route"
  /\ addr' = [addr EXCEPT ![p] = route[cur[p]]]
  /\ pc' = [pc EXCEPT ![p] = "publish"]
  /\ UNCHANGED <<brokerVars, left, cur, attempt, pushed, sharedVars>>

RouteFound(p) ==
  /\ pc[p] = "route"
  /\ route[cur[p]] # None
  /\ addr' = [addr EXCEPT ![p] = route[cur[p]]]
  /\ pc' = [pc EXCEPT ![p] = "publish"]
  /\ UNCHANGED <<brokerVars, left, cur, attempt, pushed, sharedVars>>

(* redis.Nil: offline, the row is all there is to do. *)
RouteNil(p) ==
  /\ pc[p] = "route"
  /\ route[cur[p]] = None
  /\ UNCHANGED <<left, cur, addr, attempt>>
  /\ NextReceiver(p)
  /\ UNCHANGED <<sent, wire, lost, dead, settled, pushed, sharedVars>>

RouteFails(p) ==
  /\ pc[p] = "route"
  /\ Fault
  /\ UNCHANGED <<left, cur, addr, attempt>>
  /\ OnError(p)
  /\ UNCHANGED <<sent, wire, lost, dead, settled, pushed, rows, route, downQ>>

PublishDown(p) ==
  /\ pc[p] = "publish"
  /\ downQ' = downQ \cup {[id |-> CopyId(p, cur[p]), gateway |-> addr[p]]}
  /\ pushed' = pushed \cup {CopyId(p, cur[p])}
  /\ UNCHANGED <<left, cur, addr, attempt>>
  /\ NextReceiver(p)
  /\ UNCHANGED <<sent, wire, lost, dead, settled, rows, route, faults>>

(* A failed publish is only logged; a frame the connection loses after it is
   written leaves the same state, but for `pushed`. *)
PublishFails(p) ==
  /\ pc[p] = "publish"
  /\ Fault
  /\ UNCHANGED <<left, cur, addr, attempt>>
  /\ NextReceiver(p)
  /\ UNCHANGED <<sent, wire, lost, dead, settled, pushed, rows, route, downQ>>

Ack(p) ==
  /\ pc[p] = "ack"
  /\ settled' = settled \cup {p}
  /\ pc' = [pc EXCEPT ![p] = "idle"]
  /\ UNCHANGED <<sent, wire, lost, queue, dead, left, cur, addr, attempt, pushed,
                 sharedVars>>

(* Slip: Consume with autoAck. *)
CrashWithAutoAck ==
  /\ Busy # {}
  /\ Fault
  /\ pc' = [p \in Payloads |-> "idle"]
  /\ UNCHANGED <<brokerVars, left, cur, addr, attempt, pushed, rows, route, downQ>>

(* Logic dies: the broker requeues every delivery that was not acked. *)
LogicCrash ==
  /\ Busy # {}
  /\ Fault
  /\ queue' = queue \cup Busy
  /\ pc' = [p \in Payloads |-> "idle"]
  /\ UNCHANGED <<sent, wire, lost, dead, settled, left, cur, addr, attempt, pushed,
                 rows, route, downQ>>

-----------------------------------------------------------------------------
WorkerStep(p) ==
  \/ RejectGarbage(p) \/ AckUnknown(p) \/ StartHandling(p)
  \/ \E u \in Accounts : InsertCopy(p, u) \/ InsertRefused(p, u)
  \/ RouteFound(p) \/ RouteNil(p) \/ PublishDown(p) \/ Ack(p)

WorkerFault(p) ==
  \/ MembersUnavailable(p)
  \/ \E u \in Accounts : InsertFails(p, u)
  \/ RouteFails(p) \/ PublishFails(p)

LogicStep ==
  \/ \E p \in Payloads :
       BrokerAccept(p) \/ ConnectionLost(p) \/ WorkerStep(p) \/ WorkerFault(p)
  \/ LogicCrash

(* The gateways, as seen from here. *)
GatewayRoutes == \E u \in Users, g \in Gateways \cup {None} :
  /\ route' = [route EXCEPT ![u] = g]
  /\ Fault \/ NoFault
  /\ UNCHANGED <<uploadVars, rows, downQ>>

GatewayAcks == \E d \in downQ :
  /\ downQ' = downQ \ {d}
  /\ UNCHANGED <<uploadVars, rows, route, faults>>

GatewayUpdates ==
  /\ \/ \E u \in Users : MarkMessagesAsRead(u)
     \/ \E id \in Stored : MarkMessageAsRead(id) \/ MarkSendTransportDelivered(id)
  /\ Fault \/ NoFault
  /\ UNCHANGED <<uploadVars, route, downQ>>

GatewayFault == Fault /\ UNCHANGED <<uploadVars, rows, route, downQ>>

UploadNext ==
  \/ LogicStep
  \/ \E p \in Payloads : PublishUpload(p)
  \/ GatewayRoutes \/ GatewayAcks \/ GatewayUpdates \/ GatewayFault

ConsumerInit == SharedInit /\ UploadInit

UploadSpec == ConsumerInit /\ [][UploadNext]_allUploadVars

(* Fairness: the broker takes frames and a worker runs on.  Faults owe      *)
(* nothing.                                                                 *)
UploadFairness == \A p \in Payloads :
  WF_allUploadVars(BrokerAccept(p)) /\ WF_allUploadVars(WorkerStep(p))

-----------------------------------------------------------------------------
(* Types of the upload path and of what it shares with the gateways.        *)
TypeOK == UploadTypeOK /\ SharedTypeOK

(* Every payload whose publish returned nil can be traced to exactly one    *)
(* place: in flight, lost with the connection, ready, dead-lettered, acked, *)
(* or in the hands of one worker (manual acks, upload_consumer.go:45-76).   *)
OnePlace ==
  /\ sent = wire \cup lost \cup queue \cup dead \cup settled \cup Busy
  /\ \A p \in Payloads :
       /\ p \in wire => p \notin lost \cup queue \cup dead \cup settled \cup Busy
       /\ p \in lost => p \notin queue \cup dead \cup settled \cup Busy
       /\ p \in queue => p \notin dead \cup settled \cup Busy
       /\ p \in dead => p \notin settled \cup Busy
       /\ p \in settled => p \notin Busy

(* An acked chat is stored: for every receiver of a single or AI chat, and  *)
(* for every member of a group unless a failure made the worker skip one.   *)
AckedIsStored == \A p \in settled : Storable(p) =>
  \A u \in Receivers(p) :
    CopyId(p, u) \in Stored \/ (IsGroup(p) /\ faults > 0)

(* No gateway is handed a message the database does not have: SyncUnread    *)
(* can always make up for a push that is lost (insert before publish).      *)
PushedIsStored == pushed \subseteq Stored

(* Redelivery never pushes a copy a second time: the insert it starts with  *)
(* is refused for ids the gateway assigned, and a group draws fresh ones.   *)
PushedOnce ==
  [][\A d \in downQ' : d \notin downQ => d.id \notin pushed]_allUploadVars

(* A single or AI chat the broker took is stored in the end, however the    *)
(* workers fail and crash, finitely often.                                  *)
EventuallyStored == \A p \in Payloads :
  Kind[p] \in {"single_chat", "ai_chat"} =>
    (p \in queue ~> \A u \in Receivers(p) : CopyId(p, u) \in Stored)

(* The upload path keeps the promises of MessageLedger, whatever is          *)
(* redelivered, requeued or lost: PublishUpload accepts, InsertMessage      *)
(* files, PublishDown offers and the ack closes.                            *)
Ledger == INSTANCE MessageLedger WITH
  Groups <- {p \in Payloads : IsGroup(p)},
  Addressees <- [p \in Payloads |-> IF Storable(p) THEN Receivers(p) ELSE {}],
  accepted <- sent, filed <- Stored, offered <- pushed, closed <- settled,
  mishaps <- faults
KeepsLedger == Ledger!LedgerSpec

(* What README.md:11 and :16 promise of the upload queue: a message leaves  *)
(* it acked or dead-lettered.                                               *)
QueueDrains == \A p \in Payloads : p \in queue ~> p \in settled \cup dead

(* upload_consumer.go:138: a group message is stored as one row per member. *)
OneCopyPerMember == \A p \in Payloads, u \in Accounts :
  Cardinality({id \in Stored : PayloadOf(id) = p /\ Receiver(id) = u}) <= 1
=============================================================================
