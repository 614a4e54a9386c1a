-------------------------- MODULE ImSystem_proofs --------------------------
(***************************************************************************)
(* Theorems about gateways and Logic together, for every set of users,     *)
(* gateways, connections and messages, every number of workers and faults. *)
(* The two components' lemmas are about one step each, so that they carry  *)
(* over: the gateways' steps are steps of the environment UploadConsumer   *)
(* assumes, and Logic's steps leave the sessions alone.                    *)
(***************************************************************************)
EXTENDS ImSystem, UploadConsumer_proofs, GatewaySession_proofs

(* An update of a row that is not there changes nothing. *)
LEMMA UpdateAsSeen ==
  ASSUME SharedTypeOK, NEW id, MarkMessageAsRead(id) \/ MarkSendTransportDelivered(id),
         Fault \/ NoFault, UNCHANGED <<uploadVars, route, downQ>>
  PROVE  UploadNext \/ UNCHANGED allUploadVars
<1>1. CASE id \in Stored
  BY <1>1 DEF UploadNext, GatewayUpdates
<1>2. CASE id \notin Stored
  <2>1. UNCHANGED rows
    BY <1>2 DEF SharedTypeOK, MarkMessageAsRead, MarkSendTransportDelivered, Confirm, Stored
  <2>2. CASE Fault
    BY <2>1, <2>2 DEF UploadNext, GatewayFault
  <2>3. CASE NoFault
    BY <2>1, <2>3 DEF NoFault, allUploadVars, sharedVars
  <2> QED BY <2>2, <2>3
<1> QED BY <1>1, <1>2

LEMMA RouteAsSeen ==
  ASSUME NEW u \in Users, NEW g \in Gateways \cup {None}, Fault \/ NoFault,
         route' = [route EXCEPT ![u] = g], UNCHANGED <<uploadVars, rows, downQ>>
  PROVE  UploadNext
BY DEF UploadNext, GatewayRoutes

LEMMA DequeueAsSeen ==
  ASSUME NEW d, downQ' = downQ \ {d}, UNCHANGED <<uploadVars, rows, route, faults>>
  PROVE  UploadNext \/ UNCHANGED allUploadVars
<1>1. CASE d \in downQ
  BY <1>1 DEF UploadNext, GatewayAcks
<1>2. CASE d \notin downQ
  BY <1>2 DEF allUploadVars, sharedVars
<1> QED BY <1>1, <1>2

LEMMA FaultAsSeen ==
  ASSUME Fault, UNCHANGED <<uploadVars, rows, route, downQ>>
  PROVE  UploadNext
BY DEF UploadNext, GatewayFault

(* What the gateways do is what UploadConsumer lets its environment do. *)
LEMMA GatewayAsSeen ==
  ASSUME SharedTypeOK, GatewayStep, UNCHANGED uploadVars
  PROVE  UploadNext \/ UNCHANGED allUploadVars
<1> DEFINE Seen == UploadNext \/ UNCHANGED allUploadVars
<1> HIDE DEF Seen
<1>0. ASSUME UNCHANGED sharedVars PROVE Seen
  BY <1>0 DEF Seen, allUploadVars
<1>1. ASSUME NEW c \in Conns,
             \/ Register(c) \/ FetchUnread(c) \/ SendUnread(c) \/ Ping(c)
             \/ CloseAfterRemove(c) \/ WritePump(c) \/ ClientLeaves(c)
      PROVE  Seen
  <2>1. UNCHANGED sharedVars
    BY <1>1 DEF Register, FetchUnread, SendUnread, Ping, CloseAfterRemove, WritePump,
       WriteFrame, WriteFails, PumpReturns, ClientLeaves
  <2> QED BY <1>0, <2>1
<1>2. ASSUME NEW c \in Conns, SetRoute(c) \/ Remove(c)
      PROVE  Seen
  <2>1. UserOf[c] \in Users /\ GatewayOf[c] \in Gateways
    BY ConnAssumption
  <2>2. UNCHANGED <<rows, downQ>>
    BY <1>2 DEF SetRoute, Remove
  <2>3. \/ \E g \in Gateways \cup {None} : route' = [route EXCEPT ![UserOf[c]] = g] /\ NoFault
        \/ UNCHANGED route /\ Fault
        \/ UNCHANGED <<route, faults>>
    BY <1>2, <2>1 DEF SetRoute, Remove
  <2>4. CASE UNCHANGED <<route, faults>>
    BY <1>0, <2>2, <2>4 DEF sharedVars
  <2> QED BY <2>1, <2>2, <2>3, <2>4, RouteAsSeen, FaultAsSeen DEF Seen
<1>3. ASSUME NEW c \in Conns, ReadMessages(c) \/ SyncFails(c)
      PROVE  Seen
  <2>1. UserOf[c] \in Users
    BY ConnAssumption
  <2>2. UNCHANGED <<route, downQ>> /\ (Fault \/ NoFault)
    BY <1>3 DEF ReadMessages, SyncFails, NoFault
  <2>3. CASE MarkMessagesAsRead(UserOf[c])
    BY <2>1, <2>2, <2>3 DEF Seen, UploadNext, GatewayUpdates
  <2>4. CASE UNCHANGED rows /\ Fault
    BY <2>2, <2>4, FaultAsSeen DEF Seen
  <2> QED BY <1>3, <2>3, <2>4 DEF ReadMessages, SyncFails
<1>4. ASSUME NEW c \in Conns, NEW id, AckMessage(c, id) \/ AckFails(c, id)
      PROVE  Seen
  <2>1. UNCHANGED <<route, downQ>> /\ (Fault \/ NoFault)
    BY <1>4 DEF AckMessage, AckFails, NoFault
  <2>2. CASE MarkMessageAsRead(id)
    BY <2>1, <2>2, UpdateAsSeen DEF Seen
  <2>3. CASE UNCHANGED rows /\ Fault
    BY <2>1, <2>3, FaultAsSeen DEF Seen
  <2> QED BY <1>4, <2>2, <2>3 DEF AckMessage, AckFails
<1>5. ASSUME NEW d \in downQ, PushLookup(d)
      PROVE  Seen
  <2>1. UNCHANGED <<rows, route, faults>> /\ (UNCHANGED downQ \/ downQ' = downQ \ {d})
    BY <1>5 DEF PushLookup
  <2>2. CASE UNCHANGED downQ
    BY <1>0, <2>1, <2>2 DEF sharedVars
  <2> QED BY <2>1, <2>2, DequeueAsSeen DEF Seen
<1>6. ASSUME NEW h \in pushing, PushSend(h)
      PROVE  Seen
  BY <1>0, <1>6 DEF PushSend
<1>10. ASSUME NEW s \in delivered, PushAck(s)
       PROVE  Seen
  <2>1. UNCHANGED <<rows, route, faults>> /\ downQ' = downQ \ {s.delivery}
    BY <1>10 DEF PushAck
  <2> QED BY <2>1, DequeueAsSeen DEF Seen
<1>7. ASSUME NEW s \in delivered, NotifyDelivered(s)
      PROVE  Seen
  <2>1. UNCHANGED <<route, downQ>>
    BY <1>7 DEF NotifyDelivered
  <2>2. CASE MarkSendTransportDelivered(s.delivery.id) /\ NoFault
    BY <2>1, <2>2, UpdateAsSeen DEF Seen
  <2>3. CASE UNCHANGED rows /\ Fault
    BY <2>1, <2>3, FaultAsSeen DEF Seen
  <2> QED BY <1>7, <2>2, <2>3 DEF NotifyDelivered
<1>8. ASSUME NEW u \in Users, RouteExpires(u)
      PROVE  Seen
  BY <1>8, RouteAsSeen DEF Seen, RouteExpires
<1>9. ASSUME NEW g \in Gateways, GatewayCrash(g)
      PROVE  Seen
  BY <1>9, FaultAsSeen DEF Seen, GatewayCrash
<1> QED
  BY <1>1, <1>2, <1>3, <1>4, <1>5, <1>6, <1>7, <1>8, <1>9, <1>10
     DEF Seen, GatewayStep, GatewayRun, HandlerStep, ReadPump, ReadPumpExit

LEMMA ImIsUpload ==
  ASSUME SharedTypeOK, [ImNext]_imVars
  PROVE  [UploadNext]_allUploadVars
<1>1. CASE LogicStep
  BY <1>1 DEF UploadNext
<1>2. CASE GatewayRun /\ UNCHANGED uploadVars
  BY <1>2, GatewayAsSeen DEF GatewayStep
<1>3. ASSUME NEW g \in Gateways, CrashWithChats(g)
      PROVE  [UploadNext]_allUploadVars
  BY <1>3, GatewayAsSeen DEF CrashWithChats, GatewayStep
<1>4. ASSUME NEW p \in Payloads, NEW c \in Conns, ReceiveChat(c, p)
      PROVE  UNCHANGED allUploadVars
  BY <1>4 DEF ReceiveChat, allUploadVars
<1>5. ASSUME NEW p \in Payloads, NextSeq(p) \/ ServerAck(p)
      PROVE  UNCHANGED allUploadVars
  BY <1>5 DEF NextSeq, ServerAck, allUploadVars
<1>6. ASSUME NEW p \in Payloads, PublishChat(p) \/ ChatFails(p)
      PROVE  UploadNext
  BY <1>6, FaultAsSeen DEF PublishChat, ChatFails, UploadNext
<1>7. CASE UNCHANGED imVars
  BY <1>7 DEF imVars, allUploadVars
<1> QED BY <1>1, <1>2, <1>3, <1>4, <1>5, <1>6, <1>7 DEF ImNext, ChatStep

(* The whole system behaves as the upload path does with an unconstrained   *)
(* environment in the gateways' place: whatever UploadConsumer's theorems   *)
(* say of the queue, the workers and the table holds of the composition.    *)
THEOREM ImImplementsUpload == ImSpec => UploadSpec
<1>1. ImInit => ConsumerInit /\ TypeInv
  BY TypeInvInit DEF ImInit, ConsumerInit
<1>2. TypeInv /\ [ImNext]_imVars => [UploadNext]_allUploadVars
  BY ImIsUpload DEF TypeInv, TypeOK
<1> QED BY <1>1, <1>2, TypeInvStep, PTL DEF ImSpec, UploadSpec

(* What the upload path promises, the composition promises: a message is in *)
(* one place, it is acked when it is stored, pushed after it is stored and  *)
(* pushed once, and the ledger is kept.                                     *)
COROLLARY ImKeepsUploadPromises ==
  ImSpec => /\ [](OnePlace /\ AckedIsStored /\ PushedIsStored)
            /\ PushedOnce
            /\ KeepsLedger
BY ImImplementsUpload, UploadOnePlace, UploadAckedIsStored, UploadPushedIsStored,
   UploadPushedOnce, UploadKeepsLedger, PTL

-----------------------------------------------------------------------------
(* Rows only rise: a confirmation never un-reads one, a late                *)
(* NotifyDelivered finds a status it may not lower.                         *)
Risen(id) ==
  /\ id \in Stored'
  /\ rows[id].read => rows'[id].read
  /\ rows[id].status <= rows'[id].status

LEMMA ConfirmRises ==
  ASSUME SharedTypeOK, NEW ids, Confirm(ids), NEW id \in Stored
  PROVE  Risen(id)
<1>1. rows[id] \in Row /\ id \in Stored'
  BY DEF SharedTypeOK, Confirm, Stored
<1>2. CASE rows'[id] = rows[id]
  BY <1>1, <1>2 DEF Risen, Row, Unsent, SentUnconfirmed, SentConfirmed
<1>3. CASE rows'[id] = [read |-> TRUE, status |-> SentConfirmed]
  BY <1>1, <1>3 DEF Risen, Row, Unsent, SentUnconfirmed, SentConfirmed
<1> QED BY <1>2, <1>3 DEF Confirm, Stored

LEMMA DeliveredRises ==
  ASSUME SharedTypeOK, NEW i, MarkSendTransportDelivered(i), NEW id \in Stored
  PROVE  Risen(id)
<1>1. rows[id] \in Row /\ id \in Stored'
  BY DEF SharedTypeOK, MarkSendTransportDelivered, Stored
<1>2. CASE rows'[id] = rows[id]
  BY <1>1, <1>2 DEF Risen, Row, Unsent, SentUnconfirmed, SentConfirmed
<1>3. CASE /\ rows'[id] = [rows[id] EXCEPT !.status = SentUnconfirmed]
           /\ rows[id].status = Unsent
  <2>1. rows'[id].read = rows[id].read /\ rows'[id].status = SentUnconfirmed
    BY <1>1, <1>3 DEF Row
  <2> QED BY <1>1, <1>3, <2>1 DEF Risen, Unsent, SentUnconfirmed
<1> QED BY <1>2, <1>3 DEF MarkSendTransportDelivered, Stored

LEMMA RowsRise ==
  ASSUME SharedTypeOK, [UploadNext]_allUploadVars, NEW id \in Stored
  PROVE  Risen(id)
<1>1. CASE GatewayUpdates
  BY <1>1, ConfirmRises, DeliveredRises
     DEF GatewayUpdates, MarkMessagesAsRead, MarkMessageAsRead
<1>2. CASE id \in Stored' /\ rows'[id] = rows[id]
  BY <1>2 DEF Risen, SharedTypeOK, Stored, Row, Unsent, SentUnconfirmed, SentConfirmed
<1>3. ASSUME NEW p \in Payloads, NEW u \in Accounts, InsertCopy(p, u) \/ InsertFails(p, u)
      PROVE  id \in Stored' /\ rows'[id] = rows[id]
  BY <1>3 DEF InsertCopy, InsertFails, InsertMessage, Stored
<1>4. ASSUME UNCHANGED rows PROVE id \in Stored' /\ rows'[id] = rows[id]
  BY <1>4 DEF Stored
<1> QED
  BY <1>1, <1>2, <1>3, <1>4 DEF UploadNext, LogicStep, WorkerStep, WorkerFault,
     PublishUpload, BrokerAccept, ConnectionLost, RejectGarbage, AckUnknown,
     MembersUnavailable, StartHandling, InsertRefused, RouteFound, RouteNil, RouteFails,
     PublishDown, PublishFails, Ack, LogicCrash, GatewayRoutes, GatewayAcks, GatewayFault,
     sharedVars, allUploadVars

(* A row that is read stays read and its status never falls, however        *)
(* NotifyDelivered, AckMessage and ReadMessages race.                       *)
THEOREM ImStatusNeverFalls == ImSpec => StatusNeverFalls
<1>1. TypeInv /\ [UploadNext]_allUploadVars => \A id \in Stored : Risen(id)
  BY RowsRise DEF TypeInv, TypeOK
<1>2. (\A id \in Stored : Risen(id))
        => [\A id \in Stored :
              /\ id \in Stored'
              /\ rows[id].read => rows'[id].read
              /\ rows[id].status <= rows'[id].status]_imVars
  BY DEF Risen
<1> QED
  BY <1>1, <1>2, ImImplementsUpload, TypeInvariant, PTL DEF UploadSpec, StatusNeverFalls

-----------------------------------------------------------------------------
(* The goroutines of the chat messages.  One that runs has come in on a     *)
(* connection and is of a kind Logic stores; one that got past its publish  *)
(* has handed the message over.                                             *)
ChatInv ==
  /\ chat \in [Payloads -> ChatSteps]
  /\ origin \in [Payloads -> Gateways \cup {None}]
  /\ serverAcked \subseteq Payloads
  /\ \A p \in Payloads :
       /\ chat[p] = "unsent" <=> origin[p] = None
       /\ chat[p] = "acking" \/ p \in serverAcked => p \in sent
       /\ p \in sent => chat[p] # "unsent" /\ Storable(p)
       /\ chat[p] # "unsent" => Storable(p)

LEMMA SentGrows ==
  ASSUME LogicStep \/ UNCHANGED uploadVars
  PROVE  UNCHANGED sent
BY DEF LogicStep, WorkerStep, WorkerFault, BrokerAccept, ConnectionLost, RejectGarbage,
   AckUnknown, MembersUnavailable, StartHandling, InsertCopy, InsertRefused, InsertFails,
   RouteFound, RouteNil, RouteFails, PublishDown, PublishFails, Ack, LogicCrash, uploadVars,
   brokerVars

LEMMA ChatInvStep ==
  ASSUME ChatInv, [ImNext]_imVars
  PROVE  ChatInv'
<1> USE NoneAssumption, ConnAssumption DEF ChatInv, ChatSteps
<1>1. CASE UNCHANGED chatVars /\ UNCHANGED sent
  BY <1>1 DEF chatVars
<1>2. ASSUME NEW g \in Gateways, CrashWithChats(g)
      PROVE  ChatInv'
  <2>1. UNCHANGED <<origin, serverAcked, sent>>
    BY <1>2, SentGrows DEF CrashWithChats
  <2>2. \A p \in Payloads :
          chat'[p] = chat[p] \/ (chat'[p] = "failed" /\ origin[p] # None)
    BY <1>2 DEF CrashWithChats
  <2>3. chat' \in [Payloads -> ChatSteps]
    BY <1>2 DEF CrashWithChats
  <2> QED BY <2>1, <2>2, <2>3
<1>3. ASSUME NEW p \in Payloads, NEW c \in Conns, ReceiveChat(c, p)
      PROVE  ChatInv'
  BY <1>3, SentGrows DEF ReceiveChat
<1>4. ASSUME NEW p \in Payloads, NextSeq(p) \/ ChatFails(p)
      PROVE  ChatInv'
  BY <1>4, SentGrows DEF NextSeq, ChatFails
<1>5. ASSUME NEW p \in Payloads, PublishChat(p)
      PROVE  ChatInv'
  BY <1>5 DEF PublishChat, PublishUpload
<1>6. ASSUME NEW p \in Payloads, ServerAck(p)
      PROVE  ChatInv'
  BY <1>6, SentGrows DEF ServerAck
<1>7. CASE LogicStep /\ UNCHANGED <<sessionVars, chatVars>>
  BY <1>1, <1>7, SentGrows
<1>8. CASE GatewayRun /\ UNCHANGED <<uploadVars, chatVars>>
  BY <1>1, <1>8, SentGrows
<1>9. CASE UNCHANGED imVars
  BY <1>1, <1>9, SentGrows DEF imVars
<1> QED BY <1>2, <1>3, <1>4, <1>5, <1>6, <1>7, <1>8, <1>9 DEF ImNext, ChatStep

LEMMA ChatInvariant == ImSpec => []ChatInv
<1>1. ImInit => ChatInv
  BY DEF ImInit, ChatInit, UploadInit, ChatInv, ChatSteps
<1> QED BY <1>1, ChatInvStep, PTL DEF ImSpec

(* A message whose server_ack was sent is with the broker or a worker, or   *)
(* acked and stored, unless the connection broke under it: the handler      *)
(* acknowledges after PublishUpload returned, and the upload path keeps     *)
(* what it was given.                                                       *)
THEOREM ImServerAckedIsKept == ImSpec => []ServerAckedIsKept
<1>1. ChatInv /\ OnePlace /\ AckedIsStored => ServerAckedIsKept
  BY DEF ChatInv, OnePlace, AckedIsStored, ServerAckedIsKept
<1> QED BY <1>1, ChatInvariant, ImKeepsUploadPromises, PTL

-----------------------------------------------------------------------------
(* Seen from the sessions, a step of the system is one of the gateways, a   *)
(* server_ack handed to some connection, or a step of others.               *)
AckSent == \E c \in Conns :
  /\ SendMessage(c, Control)
  /\ UNCHANGED <<clients, stage, dropped, pump, unsynced, got, pushing, delivered, sharedVars>>

LEMMA SessionView ==
  ASSUME SessionTypeOK, ChatInv, [ImNext]_imVars
  PROVE  GatewayStep \/ AckSent \/ UNCHANGED <<sessionVars, route>>
<1>1. ASSUME NEW p \in Payloads, ServerAck(p)
      PROVE  AckSent \/ UNCHANGED <<sessionVars, route>>
  <2> DEFINE c == clients[origin[p]][Sender[p]]
  <2>1. origin[p] \in Gateways /\ Sender[p] \in Accounts
    BY <1>1, ConnAssumption, PayloadAssumption DEF ServerAck, ChatInv, Accounts
  <2>2. c \in Conns \cup {None}
    BY <2>1 DEF SessionTypeOK
  <2>3. CASE c = None
    BY <1>1, <2>3 DEF ServerAck, sessionVars, sharedVars
  <2>4. CASE c # None
    BY <1>1, <2>2, <2>4 DEF ServerAck, AckSent
  <2> QED BY <2>3, <2>4
<1>2. ASSUME NEW p \in Payloads, NEW c \in Conns, ReceiveChat(c, p)
      PROVE  UNCHANGED <<sessionVars, route>>
  BY <1>2 DEF ReceiveChat, sharedVars
<1>3. ASSUME NEW p \in Payloads, NextSeq(p) \/ PublishChat(p) \/ ChatFails(p)
      PROVE  UNCHANGED <<sessionVars, route>>
  BY <1>3 DEF NextSeq, PublishChat, PublishUpload, ChatFails, sharedVars
<1>4. LogicStep => UNCHANGED route
  BY DEF LogicStep, WorkerStep, WorkerFault, BrokerAccept, ConnectionLost, RejectGarbage,
     AckUnknown, MembersUnavailable, StartHandling, InsertCopy, InsertRefused, InsertFails,
     RouteFound, RouteNil, RouteFails, PublishDown, PublishFails, Ack, LogicCrash, sharedVars
<1> QED
  BY <1>1, <1>2, <1>3, <1>4 DEF ImNext, ChatStep, CrashWithChats, GatewayStep, imVars, sharedVars

(* Only PublishDown fills a down queue. *)
LEMMA DownQueueGrows ==
  ASSUME [UploadNext]_allUploadVars
  PROVE  downQ' \subseteq downQ \/ \E p \in Payloads : PublishDown(p)
BY DEF UploadNext, LogicStep, WorkerStep, WorkerFault, PublishUpload, BrokerAccept,
   ConnectionLost, RejectGarbage, AckUnknown, MembersUnavailable, StartHandling,
   InsertCopy, InsertRefused, InsertFails, RouteFound, RouteNil, RouteFails,
   PublishFails, Ack, LogicCrash, GatewayRoutes, GatewayAcks, GatewayUpdates,
   GatewayFault, sharedVars, allUploadVars

(* What is on a down queue is stored. *)
LEMMA DeliveriesStored ==
  ASSUME TypeInv, PushInv, \A d \in downQ : d.id \in Stored, [UploadNext]_allUploadVars
  PROVE  \A d \in downQ' : d.id \in Stored'
<1>1. Stored \subseteq Stored'
  BY StoredGrows
<1>2. ASSUME NEW p \in Payloads, PublishDown(p)
      PROVE  \A d \in downQ' : d.id \in Stored
  BY <1>2 DEF PublishDown, PushInv, CurrentIsNew
<1> QED BY <1>1, <1>2, DownQueueGrows

(* The invariants of the sessions, in the composition. *)
ImSessionInv == SessionTypeOK /\ OneOpenConnection /\ AddressInv

LEMMA ImSessionStep ==
  ASSUME TypeInv, PushInv, ChatInv, ImSessionInv, [ImNext]_imVars
  PROVE  ImSessionInv'
<1>0. SharedTypeOK /\ SessionTypeOK /\ OneOpenConnection /\ AddressInv
  BY DEF TypeInv, TypeOK, ImSessionInv
<1>u. [UploadNext]_allUploadVars
  BY <1>0, ImIsUpload
<1>s. Stored \subseteq Stored'
  BY <1>u, StoredGrows
<1>d. \A d \in downQ' : d.id \in Stored'
  BY <1>0, <1>u, DeliveriesStored DEF AddressInv
<1>1. CASE GatewayStep
  <2>1. [SessionStep]_allSessionVars
    BY <1>1 DEF SessionStep
  <2> QED
    BY <1>0, <2>1, SessionTypeStep, OneOpenConnectionStep, AddressStep DEF ImSessionInv
<1>2. CASE AckSent
  <2>1. PICK c \in Conns : SendMessage(c, Control)
    BY <1>2 DEF AckSent
  <2>2. UNCHANGED <<clients, stage, dropped, pump, unsynced, got, pushing, delivered, sharedVars>>
    BY <1>2 DEF AckSent
  <2>3. ChanTypeOK' /\ closed' \subseteq Conns
    BY <1>0, <2>1, SendMessageType DEF SessionTypeOK, ChanTypeOK, Frames
  <2>4. SessionTypeOK'
    BY <1>0, <2>2, <2>3 DEF SessionTypeOK, ChanTypeOK
  <2>5. OneOpenConnection'
    BY <1>0, <2>1, <2>2, SendMessageCloses, SameEntries
  <2>6. ChanMine'
    BY <1>0, <2>1, <2>2, SendMessageMine DEF AddressInv, MyFrames, Stored, sharedVars
  <2>7. AddressInv'
    BY <1>0, <1>s, <1>d, <2>2, <2>6, SameHolders DEF AddressInv, SessionTypeOK
  <2> QED BY <2>4, <2>5, <2>7 DEF ImSessionInv
<1>3. CASE UNCHANGED <<sessionVars, route>>
  <2>1. SessionTypeOK' /\ OneOpenConnection'
    BY <1>0, <1>3, SameEntries DEF SessionTypeOK, sessionVars
  <2>2. ChanMine'
    BY <1>0, <1>s, <1>3, FramesGrow DEF AddressInv, ChanMine, sessionVars
  <2>3. AddressInv'
    BY <1>0, <1>s, <1>d, <1>3, <2>2, SameHolders DEF AddressInv, SessionTypeOK, sessionVars
  <2> QED BY <2>1, <2>3 DEF ImSessionInv
<1> QED BY <1>0, <1>1, <1>2, <1>3, SessionView

LEMMA ImSessionInvInit == ImInit => ImSessionInv
BY SessionTypeInit, OneOpenInit, AddressInit DEF ImInit, ImSessionInv

LEMMA ImPushInv == ImSpec => [](TypeInv /\ PushInv)
BY ImImplementsUpload, TypeInvariant, PushInvInit, PushInvStep, PTL
   DEF UploadSpec, ConsumerInit

LEMMA ImSessionInvariant == ImSpec => []ImSessionInv
BY ImSessionInvInit, ImPushInv, ChatInvariant, ImSessionStep, PTL DEF ImSpec

(* With Logic in the environment's place and chats of its own, a gateway    *)
(* still gives no client anything but stored copies addressed to it.        *)
THEOREM ImOnlyReceiver == ImSpec => []OnlyReceiver
<1>1. ImSessionInv => OnlyReceiver
  BY DEF ImSessionInv, AddressInv
<1> QED BY <1>1, ImSessionInvariant, PTL

-----------------------------------------------------------------------------
(* NoStranded.  Past SyncUnread, an open connection reaches every stored    *)
(* copy of its account: the copy is read, received, in the channel or still *)
(* in the handler's list, or a worker or a down queue has it on its way.    *)
Online(c) == stage[c] \in {"syncing", "marking", "reading"} /\ c \notin closed \cup dropped
Reaches(c, id) ==
  rows[id].read \/ id \in got[UserOf[c]] \/ InChannel(c, id) \/ id \in unsynced[c]
InFlight(id) ==
  /\ pc[PayloadOf(id)] \in {"route", "publish"}
  /\ id = CopyId(PayloadOf(id), cur[PayloadOf(id)])

Reached == faults = 0 => \A c \in Conns, id \in Stored :
  Online(c) /\ Receiver(id) = UserOf[c] => Reaches(c, id) \/ InFlight(id) \/ Waiting(id)

(* A worker may hold a connection that was replaced since: what it is about *)
(* to lose the handler of the new connection found unread.                  *)
StaleIsSynced == faults = 0 => \A c \in Conns, h \in pushing :
  Online(c) /\ Receiver(h.delivery.id) = UserOf[c] /\ h.conn # c
    => Reaches(c, h.delivery.id)

(* What was handed to a connection, and is about to be acked, the open      *)
(* connection reaches too.                                                  *)
HandedIsReached == faults = 0 => \A c \in Conns, s \in delivered :
  Online(c) /\ Receiver(s.delivery.id) = UserOf[c] => Reaches(c, s.delivery.id)
HandedStored == \A s \in delivered : s.delivery.id \in Stored

(* Routes, what workers read of them and deliveries name gateways the       *)
(* account connects to.                                                     *)
AtHome(u, g) == \E c \in Conns : UserOf[c] = u /\ GatewayOf[c] = g
RoutesAtHome == \A u \in Accounts : route[u] # None => AtHome(u, route[u])
FoundAtHome == \A p \in Payloads : pc[p] = "publish" => AtHome(cur[p], addr[p])
PushedAtHome == \A d \in downQ : AtHome(Receiver(d.id), d.gateway)
HomeInv == RoutesAtHome /\ FoundAtHome /\ PushedAtHome

(* The handler has sent all it fetched before it marks and reads. *)
SyncedInv == \A c \in Conns : stage[c] \in {"marking", "reading"} => unsynced[c] = {}

LEMMA GatewayRoutesAtHome ==
  ASSUME SharedTypeOK, RoutesAtHome, GatewayStep
  PROVE  RoutesAtHome'
<1> USE DEF RoutesAtHome, AtHome
<1>1. ASSUME UNCHANGED route PROVE RoutesAtHome'
  BY <1>1
<1>2. ASSUME NEW c \in Conns, SetRoute(c) PROVE RoutesAtHome'
  BY <1>2, ConnAssumption DEF SetRoute, SharedTypeOK
<1>3. ASSUME NEW c \in Conns, Remove(c) PROVE RoutesAtHome'
  BY <1>3 DEF Remove, SharedTypeOK
<1>4. ASSUME NEW u \in Users, RouteExpires(u) PROVE RoutesAtHome'
  BY <1>4 DEF RouteExpires, SharedTypeOK
<1>5. ASSUME NEW c \in Conns,
             \/ Register(c) \/ FetchUnread(c) \/ SendUnread(c) \/ ReadMessages(c)
             \/ SyncFails(c) \/ Ping(c) \/ CloseAfterRemove(c) \/ WritePump(c)
             \/ ClientLeaves(c)
      PROVE  UNCHANGED route
  BY <1>5 DEF Register, FetchUnread, SendUnread, ReadMessages, SyncFails, Ping,
     CloseAfterRemove, WritePump, WriteFrame, WriteFails, PumpReturns, ClientLeaves, sharedVars
<1>6. ASSUME NEW c, NEW id, AckMessage(c, id) \/ AckFails(c, id) PROVE UNCHANGED route
  BY <1>6 DEF AckMessage, AckFails
<1>7. ASSUME \/ \E d \in downQ : PushLookup(d)
             \/ \E h \in pushing : PushSend(h)
             \/ \E s \in delivered : PushAck(s) \/ NotifyDelivered(s)
             \/ \E g \in Gateways : GatewayCrash(g)
      PROVE  UNCHANGED route
  BY <1>7 DEF PushLookup, PushSend, PushAck, NotifyDelivered, GatewayCrash, sharedVars
<1> HIDE DEF RoutesAtHome
<1> QED
  BY <1>1, <1>2, <1>3, <1>4, <1>5, <1>6, <1>7
     DEF GatewayStep, GatewayRun, HandlerStep, ReadPump, ReadPumpExit

LEMMA HomeInvStep ==
  ASSUME TypeInv, SessionTypeOK, ChatInv, HomeInv, [ImNext]_imVars
  PROVE  HomeInv'
<1>0. SharedTypeOK /\ UploadTypeOK
  BY DEF TypeInv, TypeOK
<1>1. RoutesAtHome'
  <2>1. CASE GatewayStep
    BY <1>0, <2>1, GatewayRoutesAtHome DEF HomeInv
  <2>2. CASE UNCHANGED route
    BY <2>2 DEF HomeInv, RoutesAtHome, AtHome
  <2> QED BY <2>1, <2>2, SessionView DEF AckSent, sharedVars
<1>2. [UploadNext]_allUploadVars
  BY <1>0, ImIsUpload
<1>3. FoundAtHome'
  <2>1. ASSUME NEW p \in Payloads, RouteFound(p) PROVE FoundAtHome'
    <3>1. AtHome(cur[p], route[cur[p]])
      BY <1>0, <2>1 DEF RouteFound, HomeInv, RoutesAtHome, UploadTypeOK
    <3> QED BY <1>0, <2>1, <3>1 DEF RouteFound, HomeInv, FoundAtHome, AtHome, UploadTypeOK
  <2>2. CASE \A p \in Payloads : pc'[p] = "publish" =>
               pc[p] = "publish" /\ cur'[p] = cur[p] /\ addr'[p] = addr[p]
    BY <2>2 DEF HomeInv, FoundAtHome, AtHome
  <2>3. CASE UNCHANGED uploadVars
    BY <2>2, <2>3 DEF uploadVars, workerVars
  <2>4. ASSUME NEW p \in Payloads, PublishUpload(p) \/ BrokerAccept(p) \/ ConnectionLost(p)
                 \/ RejectGarbage(p) \/ AckUnknown(p)
        PROVE  FoundAtHome'
    BY <2>2, <2>4 DEF PublishUpload, BrokerAccept, ConnectionLost, RejectGarbage, AckUnknown,
       workerVars
  <2>5. ASSUME NEW p \in Payloads, NEW u \in Accounts, StartHandling(p) \/ InsertCopy(p, u)
                 \/ InsertRefused(p, u) \/ InsertFails(p, u)
        PROVE  FoundAtHome'
    BY <1>0, <2>2, <2>5 DEF StartHandling, InsertCopy, InsertRefused, InsertFails, Insert,
       OnError, Requeue, NextReceiver, UploadTypeOK
  <2>6. ASSUME NEW p \in Payloads, RouteNil(p) \/ RouteFails(p) \/ PublishDown(p)
                 \/ PublishFails(p) \/ Ack(p)
        PROVE  FoundAtHome'
    BY <1>0, <2>2, <2>6 DEF RouteNil, RouteFails, PublishDown, PublishFails, Ack,
       OnError, Requeue, NextReceiver, UploadTypeOK
  <2>7. CASE LogicCrash
    BY <2>2, <2>7 DEF LogicCrash
  <2>8. (\E p \in Payloads : MembersUnavailable(p)) \/ GatewayRoutes \/ GatewayAcks
          \/ GatewayUpdates \/ GatewayFault => UNCHANGED uploadVars
    BY DEF MembersUnavailable, GatewayRoutes, GatewayAcks, GatewayUpdates, GatewayFault
  <2>9. Accounts # {}
    BY DEF Accounts
  <2> QED
    BY <1>2, <2>1, <2>3, <2>4, <2>5, <2>6, <2>7, <2>8, <2>9
       DEF UploadNext, LogicStep, WorkerStep, WorkerFault, allUploadVars
<1>4. PushedAtHome'
  <2>1. ASSUME NEW p \in Payloads, PublishDown(p)
        PROVE  PushedAtHome'
    <3>1. Receiver(CopyId(p, cur[p])) = cur[p] /\ AtHome(cur[p], addr[p])
      BY <2>1 DEF PublishDown, HomeInv, FoundAtHome, Receiver, CopyId
    <3> QED BY <2>1, <3>1 DEF PublishDown, HomeInv, PushedAtHome, AtHome
  <2>2. CASE downQ' \subseteq downQ
    BY <2>2 DEF HomeInv, PushedAtHome, AtHome
  <2> QED BY <1>2, <2>1, <2>2, DownQueueGrows
<1> QED BY <1>1, <1>3, <1>4 DEF HomeInv

LEMMA SyncedInvStep ==
  ASSUME SessionTypeOK, ChatInv, SyncedInv, [ImNext]_imVars
  PROVE  SyncedInv'
<1> USE DEF SyncedInv
<1>1. CASE \A c \in Conns : unsynced'[c] = unsynced[c] /\
             (stage'[c] \in {"marking", "reading"} => stage[c] \in {"marking", "reading"})
  BY <1>1
<1>2. ASSUME NEW c \in Conns, FetchUnread(c) \/ SendUnread(c) PROVE SyncedInv'
  BY <1>2 DEF FetchUnread, SendUnread, SessionTypeOK
<1>3. ASSUME NEW c \in Conns, \/ Register(c) \/ SetRoute(c) \/ ReadMessages(c)
               \/ SyncFails(c) \/ Remove(c) \/ CloseAfterRemove(c)
      PROVE  SyncedInv'
  BY <1>1, <1>3 DEF Register, SetRoute, ReadMessages, SyncFails, Remove, CloseAfterRemove,
     SessionTypeOK
<1>4. ASSUME UNCHANGED <<stage, unsynced>> PROVE SyncedInv'
  BY <1>1, <1>4
<1>5. ASSUME NEW c \in Conns, Ping(c) \/ WritePump(c) \/ ClientLeaves(c)
      PROVE  UNCHANGED <<stage, unsynced>>
  BY <1>5 DEF Ping, WritePump, WriteFrame, WriteFails, PumpReturns, ClientLeaves
<1>6. ASSUME NEW c \in Conns, NEW id, AckMessage(c, id) \/ AckFails(c, id)
      PROVE  SyncedInv'
  BY <1>1, <1>6 DEF AckMessage, AckFails, SessionTypeOK
<1>7. ASSUME \/ \E d \in downQ : PushLookup(d)
             \/ \E h \in pushing : PushSend(h)
             \/ \E s \in delivered : PushAck(s) \/ NotifyDelivered(s)
             \/ \E u \in Users : RouteExpires(u)
             \/ AckSent \/ UNCHANGED sessionVars
      PROVE  UNCHANGED <<stage, unsynced>>
  BY <1>7 DEF PushLookup, PushSend, PushAck, NotifyDelivered, RouteExpires, AckSent, sessionVars
<1>8. ASSUME NEW g \in Gateways, GatewayCrash(g) PROVE SyncedInv'
  BY <1>1, <1>8 DEF GatewayCrash, SessionTypeOK
<1> HIDE DEF SyncedInv
<1> QED
  BY <1>2, <1>3, <1>4, <1>5, <1>6, <1>7, <1>8, SessionView
     DEF GatewayStep, GatewayRun, HandlerStep, ReadPump, ReadPumpExit

(* A channel that stays open keeps what it holds, and takes what it is sent. *)
LEMMA SendKeeps ==
  ASSUME SessionTypeOK, NEW d \in Conns, NEW frame, SendMessage(d, frame),
         NEW c \in Conns, c \notin closed'
  PROVE  /\ \A id : InChannel(c, id) => InChannel(c, id)'
         /\ d = c => InChannel(c, frame)'
<1>0. sendChan \in [Conns -> Seq(Frames)] /\ sendChan[c] \in Seq(Frames)
  BY DEF SessionTypeOK
<1>1. CASE UNCHANGED <<closed, sendChan>> /\ d \in closed
  BY <1>1 DEF InChannel
<1>2. CASE sendChan' = [sendChan EXCEPT ![d] = Append(@, frame)]
  <2>1. CASE d # c
    BY <1>0, <1>2, <2>1 DEF InChannel
  <2>2. CASE d = c
    <3>1. sendChan'[c] = Append(sendChan[c], frame)
      BY <1>0, <1>2, <2>2
    <3>2. /\ DOMAIN sendChan[c] = 1..Len(sendChan[c])
          /\ DOMAIN sendChan'[c] = 1..(Len(sendChan[c]) + 1)
          /\ Len(sendChan[c]) \in Nat
          /\ \A i \in 1..Len(sendChan[c]) : sendChan'[c][i] = sendChan[c][i]
          /\ sendChan'[c][Len(sendChan[c]) + 1] = frame
      BY <1>0, <3>1
    <3>3. \A id : InChannel(c, id) => InChannel(c, id)'
      BY <3>2 DEF InChannel
    <3>4. InChannel(c, frame)'
      BY <3>2 DEF InChannel
    <3> QED BY <3>3, <3>4
  <2> QED BY <2>1, <2>2
<1>3. CASE CloseAll({d})
  BY <1>3 DEF CloseAll, InChannel
<1> QED BY <1>1, <1>2, <1>3 DEF SendMessage

LEMMA CloseKeeps ==
  ASSUME NEW conns, CloseAll(conns), NEW c \in Conns, c \notin closed'
  PROVE  c \notin closed /\ \A id : InChannel(c, id) => InChannel(c, id)'
BY DEF CloseAll, InChannel

(* The frame a write pump takes off the channel arrives. *)
LEMMA WriteKeeps ==
  ASSUME SessionTypeOK, NEW c \in Conns, c \notin dropped, WriteFrame(c), NEW id \in CopyIds,
         InChannel(c, id)
  PROVE  id \in got'[UserOf[c]] \/ InChannel(c, id)'
<1>1. sendChan[c] \in Seq(Frames) /\ sendChan[c] # <<>> /\ id # Control
  BY ConnAssumption DEF WriteFrame, SessionTypeOK
<1>2. PICK i \in DOMAIN sendChan[c] : sendChan[c][i] = id
  BY DEF InChannel
<1>3. CASE i = 1
  <2>1. Head(sendChan[c]) = id
    BY <1>1, <1>2, <1>3
  <2>2. got' = [got EXCEPT ![UserOf[c]] = @ \cup ({Head(sendChan[c])} \ {Control})]
    BY DEF WriteFrame
  <2> QED BY <1>1, <2>1, <2>2, ConnAssumption DEF SessionTypeOK, Accounts
<1>4. CASE i # 1
  <2>1. sendChan'[c] = Tail(sendChan[c])
    BY DEF WriteFrame, SessionTypeOK
  <2>2. i - 1 \in DOMAIN Tail(sendChan[c]) /\ Tail(sendChan[c])[i - 1] = id
    BY <1>1, <1>2, <1>4
  <2> QED BY <2>1, <2>2 DEF InChannel
<1> QED BY <1>3, <1>4

(* What an open connection reaches it goes on reaching. *)
Keeps(c) == \A id \in Stored : Reaches(c, id) => Reaches(c, id)'

LEMMA KeepsIf ==
  ASSUME SharedTypeOK, \A id \in Stored : Risen(id), NEW c \in Conns,
         got[UserOf[c]] \subseteq got'[UserOf[c]],
         \A id \in Stored : InChannel(c, id) => InChannel(c, id)' \/ id \in got'[UserOf[c]],
         \A id \in Stored : id \in unsynced[c] => id \in unsynced'[c] \/ InChannel(c, id)'
  PROVE  Keeps(c)
<1> SUFFICES ASSUME NEW id \in Stored, Reaches(c, id) PROVE Reaches(c, id)'
  BY DEF Keeps
<1>1. CASE rows[id].read
  BY <1>1 DEF Risen, Reaches
<1> QED BY <1>1 DEF Reaches

LEMMA KeepsStep ==
  ASSUME SharedTypeOK, SessionTypeOK, ChatInv, [ImNext]_imVars, faults' = 0,
         NEW c \in Conns, Online(c)'
  PROVE  (Online(c) /\ Keeps(c)) \/ FetchUnread(c)
<1>r. \A id \in Stored : Risen(id)
  BY ImIsUpload, RowsRise
<1>o. stage'[c] \in {"syncing", "marking", "reading"} /\ c \notin closed' \cup dropped'
  BY DEF Online
<1>s. \A id \in Stored : id \in CopyIds
  BY DEF SharedTypeOK, Stored
<1>f. ~Fault
  <2>1. faults \in Nat
    BY FaultAssumption DEF SharedTypeOK
  <2> QED BY <2>1 DEF Fault
<1> DEFINE Calm == /\ stage[c] \in {"syncing", "marking", "reading"} /\ c \notin closed \cup dropped
                   /\ got[UserOf[c]] \subseteq got'[UserOf[c]] /\ unsynced'[c] = unsynced[c]
                   /\ \A id \in Stored :
                        InChannel(c, id) => InChannel(c, id)' \/ id \in got'[UserOf[c]]
<1> HIDE DEF Calm
<1>c. ASSUME Calm PROVE Online(c) /\ Keeps(c)
  BY <1>c, <1>r, KeepsIf DEF Calm, Online
<1>1. ASSUME NEW d \in Conns, Register(d) PROVE Calm
  BY <1>1, <1>o, CloseKeeps DEF Register, SessionTypeOK, Calm
<1>2. ASSUME NEW d \in Conns, SetRoute(d) \/ ReadMessages(d) \/ Remove(d) PROVE Calm
  BY <1>2, <1>o DEF SetRoute, ReadMessages, Remove, SessionTypeOK, InChannel, Calm
<1>3. ASSUME NEW d \in Conns, FetchUnread(d), d # c PROVE Calm
  BY <1>3, <1>o DEF FetchUnread, SessionTypeOK, InChannel, Calm
<1>4. ASSUME NEW d \in Conns, SendUnread(d) PROVE Online(c) /\ Keeps(c)
  <2>1. PICK id \in unsynced[d] :
          SendMessage(d, id) /\ unsynced' = [unsynced EXCEPT ![d] = @ \ {id}]
    BY <1>4 DEF SendUnread
  <2>2. /\ \A i : InChannel(c, i) => InChannel(c, i)'
        /\ d = c => InChannel(c, id)'
    BY <1>o, <2>1, SendKeeps
  <2>3. UNCHANGED <<dropped, got>> /\ closed \subseteq closed'
    BY <1>4, <2>1, SendMessageCloses DEF SendUnread
  <2>4. stage[c] \in {"syncing", "marking", "reading"}
    BY <1>4, <1>o DEF SendUnread, SessionTypeOK
  <2>5. \A i : i \in unsynced[c] => i \in unsynced'[c] \/ InChannel(c, i)'
    BY <2>1, <2>2 DEF SessionTypeOK
  <2>6. Keeps(c)
    BY <1>r, <2>2, <2>3, <2>5, KeepsIf
  <2> QED BY <1>o, <2>3, <2>4, <2>6 DEF Online
<1>5. ASSUME NEW d \in Conns, NEW frame, SendMessage(d, frame),
             UNCHANGED <<stage, dropped, unsynced, got>>
      PROVE  Calm
  <2>1. \A i : InChannel(c, i) => InChannel(c, i)'
    BY <1>5, <1>o, SendKeeps
  <2> QED BY <1>5, <1>o, <2>1, SendMessageCloses DEF Calm
<1>6. ASSUME NEW d \in Conns, NEW id \in got[UserOf[d]], AckMessage(d, id) PROVE Calm
  <2>1. id \in CopyIds
    BY ConnAssumption DEF SessionTypeOK, Accounts
  <2>2. Sender[PayloadOf(id)] \in Accounts
    BY <2>1, PayloadAssumption DEF PayloadOf, CopyIds, Accounts
  <2>3. clients[GatewayOf[d]][Sender[PayloadOf(id)]] \in Conns \cup {None}
    BY <2>2, ConnAssumption DEF SessionTypeOK
  <2>4. CASE UNCHANGED <<closed, sendChan>>
    BY <1>6, <1>o, <2>4 DEF AckMessage, Calm, InChannel
  <2> QED BY <1>5, <1>6, <2>3, <2>4 DEF AckMessage
<1>7. ASSUME NEW d \in Conns, CloseAfterRemove(d) PROVE Calm
  BY <1>7, <1>o, CloseKeeps DEF CloseAfterRemove, SessionTypeOK, Calm
<1>8. ASSUME NEW d \in Conns, WriteFrame(d) PROVE Calm
  <2>1. UNCHANGED <<stage, closed, dropped, unsynced>>
    BY <1>8 DEF WriteFrame
  <2>2. got[UserOf[c]] \subseteq got'[UserOf[c]]
    BY <1>8, ConnAssumption DEF WriteFrame, SessionTypeOK, Accounts
  <2>3. CASE d = c
    BY <1>8, <1>o, <1>s, <2>1, <2>2, <2>3, WriteKeeps DEF Calm
  <2>4. CASE d # c
    <3>1. sendChan'[c] = sendChan[c]
      BY <1>8, <2>4 DEF WriteFrame, SessionTypeOK
    <3> QED BY <1>o, <2>1, <2>2, <3>1 DEF Calm, InChannel
  <2> QED BY <2>3, <2>4
<1>9. ASSUME NEW d \in Conns, WriteFails(d) PROVE Calm
  BY <1>9, <1>o, CloseKeeps DEF WriteFails, Calm
<1>10. ASSUME UNCHANGED <<stage, closed, unsynced, sendChan, got>>, dropped \subseteq dropped'
       PROVE  Calm
  BY <1>10, <1>o DEF Calm, InChannel
<1>11. ASSUME NEW d \in Conns, PumpReturns(d) \/ ClientLeaves(d) PROVE Calm
  BY <1>10, <1>11 DEF PumpReturns, ClientLeaves
<1>12. ASSUME NEW h \in pushing, PushSend(h) PROVE Calm
  <2>1. h.conn \in Conns
    BY DEF SessionTypeOK, Held
  <2> QED BY <1>5, <1>12, <2>1 DEF PushSend
<1>13. CASE \/ \E d \in downQ : PushLookup(d)
            \/ \E s \in delivered : PushAck(s) \/ NotifyDelivered(s)
            \/ UNCHANGED sessionVars
  BY <1>c, <1>10, <1>13 DEF PushLookup, PushAck, NotifyDelivered, sessionVars
<1>14. CASE AckSent
  BY <1>c, <1>5, <1>14 DEF AckSent
<1>15. ASSUME NEW d \in Conns, Ping(d) PROVE Calm
  BY <1>5, <1>15 DEF Ping
<1>16. ASSUME \/ \E d \in Conns : SyncFails(d) \/ \E id \in got[UserOf[d]] : AckFails(d, id)
              \/ \E u \in Users : RouteExpires(u)
              \/ \E g \in Gateways : GatewayCrash(g)
       PROVE  FALSE
  BY <1>f, <1>16 DEF SyncFails, AckFails, RouteExpires, GatewayCrash
<1> QED
  BY <1>c, <1>1, <1>2, <1>3, <1>4, <1>6, <1>7, <1>8, <1>9, <1>11, <1>12, <1>13, <1>14,
     <1>15, <1>16, SessionView
     DEF GatewayStep, GatewayRun, HandlerStep, ReadPump, ReadPumpExit, WritePump

(* The handler of a new connection finds every copy that is stored by then. *)
LEMMA FetchReaches ==
  ASSUME SessionTypeOK, NEW c \in Conns, FetchUnread(c), NEW id \in Stored,
         Receiver(id) = UserOf[c]
  PROVE  Reaches(c, id)'
<1>1. unsynced'[c] = GetUnreadMessages(UserOf[c]) /\ UNCHANGED rows
  BY DEF FetchUnread, SessionTypeOK, sharedVars
<1> QED BY <1>1 DEF GetUnreadMessages, Reaches

(* A copy a worker has stored is looked up and published, since an open     *)
(* connection of its receiver has a route.                                  *)
LEMMA InFlightStep ==
  ASSUME TypeInv, OnePlace, OnlineIsRouted, [UploadNext]_allUploadVars, faults = 0, ~Fault,
         NEW c \in Conns, Online(c), NEW id \in CopyIds, Receiver(id) = UserOf[c],
         InFlight(id)
  PROVE  InFlight(id)' \/ Waiting(id)'
<1> DEFINE q == PayloadOf(id)
<1>0. /\ q \in Payloads /\ pc[q] \in {"route", "publish"} /\ id = CopyId(q, cur[q])
      /\ cur[q] = UserOf[c]
  BY DEF InFlight, CopyIds, PayloadOf, Receiver, CopyId
<1>1. route[cur[q]] # None
  BY <1>0, ConnAssumption, NoneAssumption DEF Online, OnlineIsRouted, Attached
<1> HIDE DEF q
<1>2. ASSUME pc'[q] \in {"route", "publish"}, cur'[q] = cur[q], attempt'[q] = attempt[q]
      PROVE  InFlight(id)'
  BY <1>0, <1>2 DEF InFlight, CopyId, q
<1>3. CASE UNCHANGED workerVars
  BY <1>0, <1>2, <1>3 DEF workerVars
<1>4. ASSUME pc'[q] = pc[q], cur'[q] = cur[q], attempt'[q] = attempt[q]
      PROVE  InFlight(id)'
  BY <1>0, <1>2, <1>4
<1>5. ASSUME NEW p \in Payloads, StartHandling(p) PROVE InFlight(id)'
  <2>1. p # q
    BY <1>0, <1>5 DEF StartHandling, Take, OnePlace, Busy
  <2> QED BY <1>0, <1>4, <1>5, <2>1 DEF StartHandling, TypeInv, TypeOK, UploadTypeOK
<1>6. ASSUME NEW p \in Payloads, NEW u \in Accounts, InsertCopy(p, u) \/ InsertRefused(p, u)
      PROVE  InFlight(id)'
  <2>1. p # q
    BY <1>0, <1>6 DEF InsertCopy, InsertRefused, Insert
  <2> QED
    BY <1>0, <1>4, <1>6, <2>1 DEF InsertCopy, InsertRefused, Insert, OnError, Requeue,
       NextReceiver, TypeInv, TypeOK, UploadTypeOK
<1>7. ASSUME NEW p \in Payloads, RouteFound(p) PROVE InFlight(id)'
  BY <1>0, <1>2, <1>7 DEF RouteFound, TypeInv, TypeOK, UploadTypeOK
<1>8. ASSUME NEW p \in Payloads, RouteNil(p) \/ Ack(p) PROVE InFlight(id)'
  <2>1. p # q
    BY <1>0, <1>1, <1>8 DEF RouteNil, Ack
  <2> QED
    BY <1>0, <1>4, <1>8, <2>1 DEF RouteNil, Ack, NextReceiver, TypeInv, TypeOK, UploadTypeOK
<1>9. ASSUME NEW p \in Payloads, PublishDown(p) PROVE InFlight(id)' \/ Waiting(id)'
  <2>1. CASE p = q
    <3>1. [id |-> id, gateway |-> addr[q]] \in downQ'
      BY <1>0, <1>9, <2>1 DEF PublishDown
    <3> QED BY <3>1 DEF Waiting
  <2>2. CASE p # q
    BY <1>0, <1>4, <1>9, <2>2 DEF PublishDown, NextReceiver, TypeInv, TypeOK, UploadTypeOK
  <2> QED BY <2>1, <2>2
<1>10. ASSUME NEW p \in Payloads, PublishUpload(p) \/ BrokerAccept(p) \/ RejectGarbage(p)
                \/ AckUnknown(p)
       PROVE  UNCHANGED workerVars
  BY <1>10 DEF PublishUpload, BrokerAccept, RejectGarbage, AckUnknown
<1>11. GatewayRoutes \/ GatewayAcks \/ GatewayUpdates \/ UNCHANGED allUploadVars
         => UNCHANGED workerVars
  BY DEF GatewayRoutes, GatewayAcks, GatewayUpdates, allUploadVars, uploadVars
<1>12. ASSUME NEW p \in Payloads, ConnectionLost(p) \/ WorkerFault(p) \/ LogicCrash \/ GatewayFault
       PROVE  FALSE
  BY <1>12 DEF ConnectionLost, WorkerFault, MembersUnavailable, InsertFails, RouteFails,
     PublishFails, LogicCrash, GatewayFault
<1> QED
  BY <1>0, <1>3, <1>5, <1>6, <1>7, <1>8, <1>9, <1>10, <1>11, <1>12
     DEF UploadNext, LogicStep, WorkerStep

(* A row that appears while nothing fails is a worker's, on its way. *)
LEMMA NewRowInFlight ==
  ASSUME TypeInv, [UploadNext]_allUploadVars, ~Fault, NEW id \in Stored', id \notin Stored
  PROVE  rows'[id].read \/ InFlight(id)'
<1>1. ASSUME NEW p \in Payloads, NEW u \in Accounts, InsertCopy(p, u)
      PROVE  rows'[id].read \/ InFlight(id)'
  <2>1. /\ id = CopyId(p, u) /\ rows'[id] = NewMessages(Kind[p] = "ai_chat")
    BY <1>1 DEF InsertCopy, InsertMessage, Stored
  <2>2. CASE Kind[p] = "ai_chat"
    <3>1. (Kind[p] = "ai_chat") = TRUE
      BY <2>2
    <3>2. rows'[id] = NewMessages(TRUE)
      BY <2>1, <3>1
    <3> QED BY <3>2 DEF NewMessages
  <2>3. CASE Kind[p] # "ai_chat"
    <3>1. pc'[p] = "route" /\ cur'[p] = u /\ attempt'[p] = attempt[p]
      BY <1>1, <2>3 DEF InsertCopy, Insert, TypeInv, TypeOK, UploadTypeOK
    <3>2. PayloadOf(id) = p /\ CopyId(p, u)' = CopyId(p, u)
      BY <2>1, <3>1 DEF PayloadOf, CopyId
    <3> QED BY <2>1, <3>1, <3>2 DEF InFlight, CopyId
  <2> QED BY <2>2, <2>3
<1>2. ASSUME UNCHANGED rows PROVE FALSE
  BY <1>2 DEF Stored
<1>3. ASSUME GatewayUpdates PROVE FALSE
  BY <1>3, UpdatesType DEF TypeInv, TypeOK, Stored
<1>4. ASSUME NEW p \in Payloads, NEW u \in Accounts, InsertFails(p, u) PROVE FALSE
  BY <1>4 DEF InsertFails
<1> QED
  BY <1>1, <1>2, <1>3, <1>4 DEF UploadNext, LogicStep, WorkerStep, WorkerFault,
     PublishUpload, BrokerAccept, ConnectionLost, RejectGarbage, AckUnknown,
     MembersUnavailable, StartHandling, InsertRefused, RouteFound, RouteNil, RouteFails,
     PublishDown, PublishFails, Ack, LogicCrash, GatewayRoutes, GatewayAcks, GatewayFault,
     sharedVars, allUploadVars

(* The entry a worker looks up for an open connection is that connection.   *)
LEMMA LookupFinds ==
  ASSUME OneGatewayPerUser, SharedTypeOK, SessionTypeOK, OneOpenConnection, HomeInv,
         NEW c \in Conns, Online(c), NEW d \in downQ, Receiver(d.id) = UserOf[c]
  PROVE  clients[d.gateway][Receiver(d.id)] = c
<1>1. d.gateway = GatewayOf[c]
  BY DEF HomeInv, PushedAtHome, AtHome, OneGatewayPerUser
<1>2. Entry(c) = c
  BY DEF Online, OneOpenConnection, Attached
<1> QED BY <1>1, <1>2 DEF Entry

(* A copy waits until it is acked, which is after it was sent to the        *)
(* connection that is open now, or, by a worker that held an older one,     *)
(* lost: then it was synchronised.                                          *)
LEMMA WaitingStep ==
  ASSUME OneGatewayPerUser, SharedTypeOK, SessionTypeOK, ChatInv, OneOpenConnection, HomeInv,
         HandedIsReached, [ImNext]_imVars, faults = 0,
         NEW c \in Conns, Online(c), Online(c)', Keeps(c),
         NEW id \in Stored, Receiver(id) = UserOf[c], Waiting(id)
  PROVE  Reaches(c, id)' \/ Waiting(id)'
<1>1. PICK d \in downQ : d.id = id
  BY DEF Waiting
<1>2. CASE d \in downQ'
  BY <1>1, <1>2 DEF Waiting
<1>3. ASSUME NEW e \in downQ, PushLookup(e) PROVE d \in downQ'
  <2>1. e = d => clients[e.gateway][Receiver(e.id)] = c
    BY <1>1, LookupFinds
  <2>2. e = d => clients[e.gateway][Receiver(e.id)] # None
    BY <2>1, ConnAssumption
  <2> QED BY <1>3, <2>2 DEF PushLookup
<1>4. ASSUME NEW s \in delivered, PushAck(s), s.delivery = d PROVE Reaches(c, id)'
  <2>1. Reaches(c, id)
    BY <1>1, <1>4 DEF HandedIsReached
  <2> QED BY <2>1 DEF Keeps
<1>5. ASSUME NEW s \in delivered, PushAck(s), s.delivery # d PROVE d \in downQ'
  BY <1>5 DEF PushAck
<1>6. ASSUME downQ \subseteq downQ' PROVE d \in downQ'
  BY <1>6
<1>7. ASSUME NEW e \in Conns,
             \/ Register(e) \/ HandlerStep(e) \/ SyncFails(e) \/ Ping(e)
             \/ ReadPumpExit(e) \/ WritePump(e) \/ ClientLeaves(e)
      PROVE  downQ \subseteq downQ'
  BY <1>7 DEF Register, HandlerStep, SetRoute, FetchUnread, SendUnread, ReadMessages,
     SyncFails, Ping, ReadPumpExit, Remove, CloseAfterRemove, WritePump, WriteFrame,
     WriteFails, PumpReturns, ClientLeaves, sharedVars
<1>8. ASSUME \/ \E e, i : AckMessage(e, i) \/ AckFails(e, i)
             \/ \E s \in delivered : NotifyDelivered(s)
             \/ \E h \in pushing : PushSend(h)
             \/ \E u \in Users : RouteExpires(u)
             \/ \E g \in Gateways : GatewayCrash(g)
             \/ LogicStep
      PROVE  downQ \subseteq downQ'
  BY <1>8 DEF AckMessage, AckFails, NotifyDelivered, PushSend, RouteExpires, GatewayCrash, LogicStep,
     WorkerStep, WorkerFault, BrokerAccept, ConnectionLost, RejectGarbage, AckUnknown,
     MembersUnavailable, StartHandling, InsertCopy, InsertRefused, InsertFails, RouteFound,
     RouteNil, RouteFails, PublishDown, PublishFails, Ack, LogicCrash, sharedVars
<1>9. ASSUME NEW p \in Payloads, NEW e \in Conns, ReceiveChat(e, p) \/ ChatStep(p) \/ ChatFails(p)
      PROVE  downQ \subseteq downQ'
  BY <1>9 DEF ReceiveChat, ChatStep, NextSeq, PublishChat, PublishUpload, ServerAck,
     ChatFails, sharedVars
<1>10. UNCHANGED imVars => downQ \subseteq downQ'
  BY DEF imVars, sharedVars
<1> QED
  BY <1>2, <1>3, <1>4, <1>5, <1>6, <1>7, <1>8, <1>9, <1>10
     DEF ImNext, GatewayRun, ReadPump, CrashWithChats

LEMMA ReachedStep ==
  ASSUME OneGatewayPerUser, TypeInv, OnePlace, ChatInv, ImSessionInv, OnlineIsRouted, HomeInv,
         HandedIsReached, Reached, [ImNext]_imVars
  PROVE  Reached'
<1> SUFFICES ASSUME faults' = 0, NEW c \in Conns, NEW id \in Stored', Online(c)',
                    Receiver(id) = UserOf[c]
             PROVE  Reaches(c, id)' \/ InFlight(id)' \/ Waiting(id)'
  BY DEF Reached
<1>0. /\ SharedTypeOK /\ SessionTypeOK /\ OneOpenConnection
      /\ [UploadNext]_allUploadVars
  BY ImIsUpload DEF TypeInv, TypeOK, ImSessionInv
<1>1. faults = 0 /\ ~Fault
  <2>1. faults <= faults' /\ faults \in Nat
    BY <1>0, FaultsGrow, FaultAssumption DEF SharedTypeOK
  <2> QED BY <2>1 DEF Fault
<1>2. CASE id \notin Stored
  BY <1>0, <1>1, <1>2, NewRowInFlight DEF Reaches
<1>3. CASE id \in Stored /\ FetchUnread(c)
  BY <1>0, <1>3, FetchReaches
<1>4. CASE id \in Stored /\ Online(c) /\ Keeps(c)
  <2>1. CASE Reaches(c, id)
    BY <1>4, <2>1 DEF Keeps
  <2>2. CASE InFlight(id)
    BY <1>0, <1>1, <1>4, <2>2, InFlightStep DEF SharedTypeOK, Stored
  <2>3. CASE Waiting(id)
    BY <1>0, <1>1, <1>4, <2>3, WaitingStep
  <2> QED BY <1>1, <1>4, <2>1, <2>2, <2>3 DEF Reached
<1> QED BY <1>0, <1>2, <1>3, <1>4, KeepsStep

LEMMA StaleStep ==
  ASSUME OneGatewayPerUser, TypeInv, ChatInv, ImSessionInv, HomeInv, StaleIsSynced,
         [ImNext]_imVars
  PROVE  StaleIsSynced'
<1> SUFFICES ASSUME faults' = 0, NEW c \in Conns, NEW h \in pushing', Online(c)',
                    Receiver(h.delivery.id) = UserOf[c], h.conn # c
             PROVE  Reaches(c, h.delivery.id)'
  BY DEF StaleIsSynced
<1>0. /\ SharedTypeOK /\ SessionTypeOK /\ OneOpenConnection /\ AddressInv
      /\ [UploadNext]_allUploadVars
  BY ImIsUpload DEF TypeInv, TypeOK, ImSessionInv
<1>1. faults = 0
  BY <1>0, FaultsGrow, FaultAssumption DEF SharedTypeOK
<1>2. \A k \in pushing : k.delivery.id \in Stored
  BY <1>0 DEF AddressInv, Mine
<1>3. CASE FetchUnread(c)
  BY <1>0, <1>2, <1>3, FetchReaches DEF FetchUnread
<1>4. CASE Online(c) /\ Keeps(c) /\ h \in pushing
  <2>1. Reaches(c, h.delivery.id)
    BY <1>1, <1>4 DEF StaleIsSynced
  <2> QED BY <1>2, <1>4, <2>1 DEF Keeps
<1>5. CASE Online(c) /\ h \notin pushing
  <2>1. PICK d \in downQ : PushLookup(d)
    <3>1. AckSent \/ UNCHANGED sessionVars => UNCHANGED pushing
      BY DEF AckSent, sessionVars
    <3>2. (\E g \in Gateways : GatewayCrash(g)) => pushing' \subseteq pushing
      BY DEF GatewayCrash
    <3>3. (\E k \in pushing : PushSend(k)) => pushing' \subseteq pushing
      BY DEF PushSend
    <3>4. ASSUME NEW e \in Conns,
                 \/ Register(e) \/ HandlerStep(e) \/ SyncFails(e) \/ ReadPump(e)
                 \/ WritePump(e) \/ ClientLeaves(e)
          PROVE  UNCHANGED pushing
      BY <3>4 DEF Register, HandlerStep, SetRoute, FetchUnread, SendUnread, ReadMessages,
         SyncFails, ReadPump, Ping, AckMessage, AckFails, ReadPumpExit, Remove,
         CloseAfterRemove, WritePump, WriteFrame, WriteFails, PumpReturns, ClientLeaves,
         sessionVars
    <3>5. (\E s \in delivered : PushAck(s) \/ NotifyDelivered(s)) \/ (\E u \in Users : RouteExpires(u))
            => UNCHANGED pushing
      BY DEF PushAck, NotifyDelivered, RouteExpires, sessionVars
    <3> QED
      BY <1>0, <1>5, <3>1, <3>2, <3>3, <3>4, <3>5, SessionView DEF GatewayStep, GatewayRun
  <2>2. h = [delivery |-> d, conn |-> clients[d.gateway][Receiver(d.id)]]
    BY <1>5, <2>1 DEF PushLookup
  <2>3. h.conn = c
    BY <1>0, <1>5, <2>2, LookupFinds
  <2> QED BY <2>3
<1> QED BY <1>0, <1>3, <1>4, <1>5, KeepsStep

(* A delivery comes to be handed over by PushSend. *)
LEMMA HandedView ==
  ASSUME SessionTypeOK, ChatInv, [ImNext]_imVars, NEW s \in delivered'
  PROVE  \/ \E r \in delivered : r.delivery = s.delivery
         \/ \E h \in pushing : PushSend(h) /\ h.delivery = s.delivery
<1> DEFINE View == \/ \E r \in delivered : r.delivery = s.delivery
                   \/ \E h \in pushing : PushSend(h) /\ h.delivery = s.delivery
<1> HIDE DEF View
<1>1. ASSUME delivered' \subseteq delivered PROVE View
  BY <1>1 DEF View
<1>2. ASSUME NEW r \in delivered, PushAck(r) PROVE View
  <2>1. [r EXCEPT !.acked = TRUE].delivery = r.delivery
    BY DEF SessionTypeOK, Handed
  <2> QED BY <1>2, <2>1 DEF PushAck, View
<1>3. ASSUME NEW h \in pushing, PushSend(h) PROVE View
  BY <1>3 DEF PushSend, View
<1>4. AckSent \/ UNCHANGED sessionVars => UNCHANGED delivered
  BY DEF AckSent, sessionVars
<1>5. ASSUME NEW e \in Conns,
             \/ Register(e) \/ HandlerStep(e) \/ SyncFails(e) \/ ReadPump(e)
             \/ WritePump(e) \/ ClientLeaves(e)
      PROVE  UNCHANGED delivered
  BY <1>5 DEF Register, HandlerStep, SetRoute, FetchUnread, SendUnread, ReadMessages,
     SyncFails, ReadPump, Ping, AckMessage, AckFails, ReadPumpExit, Remove,
     CloseAfterRemove, WritePump, WriteFrame, WriteFails, PumpReturns, ClientLeaves
<1>6. ASSUME \/ \E d \in downQ : PushLookup(d)
             \/ \E r \in delivered : NotifyDelivered(r)
             \/ \E u \in Users : RouteExpires(u)
             \/ \E g \in Gateways : GatewayCrash(g)
      PROVE  delivered' \subseteq delivered
  BY <1>6 DEF PushLookup, NotifyDelivered, RouteExpires, GatewayCrash, sessionVars
<1> QED
  BY <1>1, <1>2, <1>3, <1>4, <1>5, <1>6, SessionView DEF View, GatewayStep, GatewayRun

LEMMA HandedStep ==
  ASSUME TypeInv, ChatInv, ImSessionInv, StaleIsSynced, HandedIsReached, HandedStored,
         [ImNext]_imVars
  PROVE  HandedIsReached' /\ HandedStored'
<1>0. /\ SharedTypeOK /\ SessionTypeOK /\ AddressInv
      /\ [UploadNext]_allUploadVars
  BY ImIsUpload DEF TypeInv, TypeOK, ImSessionInv
<1>1. \A h \in pushing : h.delivery.id \in Stored
  BY <1>0 DEF AddressInv, Mine
<1>2. \A s \in delivered' : s.delivery.id \in Stored
  BY <1>0, <1>1, HandedView DEF HandedStored
<1>3. HandedStored'
  BY <1>0, <1>2, StoredGrows DEF HandedStored
<1>4. ASSUME faults' = 0, NEW c \in Conns, NEW s \in delivered', Online(c)',
             Receiver(s.delivery.id) = UserOf[c]
      PROVE  Reaches(c, s.delivery.id)'
  <2> DEFINE id == s.delivery.id
  <2>1. faults = 0 /\ id \in Stored
    BY <1>0, <1>2, <1>4, FaultsGrow, FaultAssumption DEF SharedTypeOK
  <2>2. CASE FetchUnread(c)
    BY <1>0, <1>4, <2>1, <2>2, FetchReaches
  <2>3. CASE Online(c) /\ Keeps(c)
    <3>1. ASSUME Reaches(c, id) PROVE Reaches(c, id)'
      BY <2>1, <2>3, <3>1 DEF Keeps
    <3>2. ASSUME NEW r \in delivered, r.delivery = s.delivery PROVE Reaches(c, id)
      BY <1>4, <2>1, <2>3, <3>2 DEF HandedIsReached
    <3>3. ASSUME NEW h \in pushing, PushSend(h), h.delivery = s.delivery, h.conn # c
          PROVE  Reaches(c, id)
      BY <1>4, <2>1, <2>3, <3>3 DEF StaleIsSynced
    <3>4. ASSUME NEW h \in pushing, PushSend(h), h.delivery = s.delivery, h.conn = c
          PROVE  Reaches(c, id)'
      <4>1. SendMessage(c, id) /\ c \notin closed'
        BY <1>4, <3>4 DEF PushSend, Online
      <4>2. InChannel(c, id)'
        BY <1>0, <4>1, SendKeeps
      <4> QED BY <4>2 DEF Reaches
    <3>5. \/ \E r \in delivered : r.delivery = s.delivery
          \/ \E h \in pushing : PushSend(h) /\ h.delivery = s.delivery
      BY <1>0, HandedView
    <3>6. Reaches(c, id)'
      <4> HIDE DEF id
      <4> QED BY <3>1, <3>2, <3>3, <3>4, <3>5
    <3> QED BY <3>6
  <2> QED BY <1>0, <1>4, <2>2, <2>3, KeepsStep
<1> QED BY <1>3, <1>4 DEF HandedIsReached

ReachInv ==
  /\ OnlineIsRouted /\ HomeInv /\ SyncedInv
  /\ StaleIsSynced /\ HandedIsReached /\ HandedStored
  /\ Reached

LEMMA ImRoutedStep ==
  ASSUME OneGatewayPerUser, TypeInv, ChatInv, ImSessionInv, OnlineIsRouted, [ImNext]_imVars
  PROVE  OnlineIsRouted'
<1>0. SharedTypeOK /\ SessionTypeOK /\ OneOpenConnection
  BY DEF TypeInv, TypeOK, ImSessionInv
<1>1. CASE GatewayStep
  BY <1>0, <1>1, OnlineIsRoutedStep DEF SessionStep
<1>2. faults' = 0 => faults = 0
  BY <1>0, ImIsUpload, FaultsGrow, FaultAssumption DEF SharedTypeOK
<1>3. CASE AckSent
  <2>1. UNCHANGED <<route, stage>> /\ closed \subseteq closed'
    BY <1>3, SendMessageCloses DEF AckSent, sharedVars
  <2> QED BY <1>2, <2>1, SameRoutes
<1>4. CASE UNCHANGED <<sessionVars, route>>
  BY <1>2, <1>4, SameRoutes DEF sessionVars
<1> QED BY <1>0, <1>1, <1>3, <1>4, SessionView

LEMMA ReachInvStep ==
  ASSUME OneGatewayPerUser, TypeInv, OnePlace, ChatInv, ImSessionInv, ReachInv, [ImNext]_imVars
  PROVE  ReachInv'
BY ImRoutedStep, HomeInvStep, SyncedInvStep, StaleStep, HandedStep, ReachedStep DEF ReachInv, ImSessionInv

(* If an account keeps to one gateway, then, while nothing fails, no copy   *)
(* Logic is done with is out of reach of its receiver's open connection:    *)
(* either the worker finds the route that was written before SyncUnread, or *)
(* SyncUnread finds the row that was written before the lookup.             *)
THEOREM ImNoStranded ==
  ASSUME OneGatewayPerUser
  PROVE  ImSpec => []NoStranded
<1>1. ImInit => ReachInv
  BY OnlineIsRoutedInit DEF ImInit, SharedInit, UploadInit, SessionInit, ReachInv, HomeInv,
     RoutesAtHome, FoundAtHome, PushedAtHome, SyncedInv, StaleIsSynced, HandedIsReached, HandedStored, Reached, Stored
<1>2. TypeInv /\ OnePlace /\ ChatInv /\ ImSessionInv /\ ReachInv /\ [ImNext]_imVars
        => ReachInv'
  BY ReachInvStep
<1>3. TypeInv /\ OnePlace /\ ReachInv => NoStranded
  <2> SUFFICES ASSUME TypeInv, OnePlace, ReachInv, NEW c \in Conns, NEW id \in Stored,
                      faults = 0, stage[c] = "reading", c \notin closed \cup dropped,
                      Receiver(id) = UserOf[c], PayloadOf(id) \in settled
               PROVE  rows[id].read \/ id \in got[UserOf[c]] \/ InChannel(c, id) \/ Waiting(id)
    BY DEF NoStranded
  <2>1. Reaches(c, id) \/ InFlight(id) \/ Waiting(id)
    BY DEF ReachInv, Reached, Online
  <2>2. ~InFlight(id)
    BY DEF OnePlace, Busy, InFlight, TypeInv, TypeOK, UploadTypeOK
  <2>3. id \notin unsynced[c]
    BY DEF ReachInv, SyncedInv
  <2> QED BY <2>1, <2>2, <2>3 DEF Reaches
<1> QED
  BY <1>1, <1>2, <1>3, ImPushInv, ImKeepsUploadPromises, ChatInvariant, ImSessionInvariant, PTL
     DEF ImSpec
=============================================================================
