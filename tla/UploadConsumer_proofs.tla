----------------------- MODULE UploadConsumer_proofs -----------------------
(***************************************************************************)
(* Theorems about the upload path, for every set of payloads, users and    *)
(* gateways, every number of workers and faults, and gateways that do      *)
(* whatever UploadNext lets them do.                                       *)
(***************************************************************************)
EXTENDS UploadConsumer, SharedState_proofs

LEMMA UpdatesType ==
  ASSUME SharedTypeOK, GatewayUpdates
  PROVE  /\ DOMAIN rows' \subseteq CopyIds
         /\ rows' \in [DOMAIN rows' -> Row]
         /\ DOMAIN rows' = DOMAIN rows
<1>1. CASE \E u \in Users : MarkMessagesAsRead(u)
  BY <1>1, ConfirmType DEF MarkMessagesAsRead
<1>2. CASE \E id \in Stored : MarkMessageAsRead(id)
  BY <1>2, ConfirmType DEF MarkMessageAsRead
<1>3. CASE \E id \in Stored : MarkSendTransportDelivered(id)
  BY <1>3, DeliveredType
<1> QED BY <1>1, <1>2, <1>3 DEF GatewayUpdates

LEMMA CopyIdType ==
  ASSUME UploadTypeOK, NEW p \in Payloads, NEW u \in Accounts
  PROVE  CopyId(p, u) \in CopyIds
BY DEF UploadTypeOK, CopyId, CopyIds

-----------------------------------------------------------------------------
(* TypeOK is not inductive alone: what PublishDown sends off is a delivery  *)
(* only because a worker that publishes has found a gateway.                *)
Addressed == \A p \in Payloads : pc[p] = "publish" => addr[p] \in Gateways
TypeInv == TypeOK /\ Addressed

LEMMA TypeInvInit == SharedInit /\ UploadInit => TypeInv
BY FaultAssumption DEF SharedInit, UploadInit, TypeInv, TypeOK, Addressed, UploadTypeOK, SharedTypeOK, Steps,
   Accounts, Row, NewMessages, CopyIds

LEMMA TypeInvStep ==
  ASSUME TypeInv, [UploadNext]_allUploadVars
  PROVE  TypeInv'
<1> USE DEF TypeInv, TypeOK, Addressed
<1>0. CASE UNCHANGED allUploadVars
  BY <1>0 DEF UploadTypeOK, SharedTypeOK, allUploadVars, uploadVars, brokerVars,
     workerVars, sharedVars
<1>1. ASSUME NEW p \in Payloads,
             PublishUpload(p) \/ BrokerAccept(p) \/ ConnectionLost(p)
               \/ RejectGarbage(p) \/ AckUnknown(p) \/ MembersUnavailable(p)
      PROVE  TypeInv'
  BY <1>1, FaultType DEF UploadTypeOK, SharedTypeOK, PublishUpload, BrokerAccept,
     ConnectionLost, RejectGarbage, AckUnknown, MembersUnavailable, Take,
     workerVars, sharedVars, uploadVars, brokerVars
<1>2. ASSUME NEW p \in Payloads, StartHandling(p)
      PROVE  TypeInv'
  <2>1. Receivers(p) \in SUBSET Accounts
    BY PayloadAssumption DEF Receivers
  <2> QED
    BY <1>2, <2>1 DEF UploadTypeOK, SharedTypeOK, StartHandling, Take, Steps, sharedVars
<1>3. ASSUME NEW p \in Payloads, NEW u \in Accounts, InsertCopy(p, u)
      PROVE  TypeInv'
  <2>1. CopyId(p, u) \in CopyIds
    BY CopyIdType
  <2>2. /\ DOMAIN rows' \subseteq CopyIds
        /\ rows' \in [DOMAIN rows' -> Row]
    BY <1>3, <2>1, InsertType DEF InsertCopy
  <2> QED
    BY <1>3, <2>2 DEF UploadTypeOK, SharedTypeOK, InsertCopy, Insert, Steps, brokerVars
<1>4. ASSUME NEW p \in Payloads, NEW u \in Accounts, InsertRefused(p, u)
      PROVE  TypeInv'
  BY <1>4 DEF UploadTypeOK, SharedTypeOK, InsertRefused, Insert, Steps, sharedVars,
     OnError, Requeue, NextReceiver
<1>5. ASSUME NEW p \in Payloads, NEW u \in Accounts, InsertFails(p, u)
      PROVE  TypeInv'
  <2>1. CopyId(p, u) \in CopyIds
    BY CopyIdType
  <2>2. /\ DOMAIN rows' \subseteq CopyIds
        /\ rows' \in [DOMAIN rows' -> Row]
    BY <1>5, <2>1, InsertType DEF InsertFails, SharedTypeOK
  <2> QED
    BY <1>5, <2>2, FaultType DEF UploadTypeOK, SharedTypeOK, InsertFails, Insert, Steps,
       OnError, Requeue, NextReceiver
<1>6. ASSUME NEW p \in Payloads,
             RouteFound(p) \/ RouteNil(p) \/ RouteFails(p) \/ PublishFails(p) \/ Ack(p)
      PROVE  TypeInv'
  BY <1>6, FaultType DEF UploadTypeOK, SharedTypeOK, RouteFound, RouteNil, RouteFails,
     PublishFails, Ack, Steps, brokerVars, sharedVars, OnError, Requeue, NextReceiver
<1>7. ASSUME NEW p \in Payloads, PublishDown(p)
      PROVE  TypeInv'
  BY <1>7, CopyIdType DEF UploadTypeOK, SharedTypeOK, PublishDown, Steps, NextReceiver,
     Delivery
<1>8. CASE LogicCrash
  BY <1>8, FaultType DEF UploadTypeOK, SharedTypeOK, LogicCrash, Steps, Busy
<1>9. CASE GatewayRoutes
  BY <1>9, FaultType DEF UploadTypeOK, SharedTypeOK, GatewayRoutes, uploadVars, brokerVars,
     workerVars, Accounts
<1>10. CASE GatewayAcks \/ GatewayFault
  BY <1>10, FaultType DEF UploadTypeOK, SharedTypeOK, GatewayAcks, GatewayFault,
     uploadVars, brokerVars, workerVars
<1>11. CASE GatewayUpdates
  BY <1>11, UpdatesType, FaultType DEF UploadTypeOK, SharedTypeOK, GatewayUpdates,
     uploadVars, brokerVars, workerVars
<1> QED
  BY <1>0, <1>1, <1>2, <1>3, <1>4, <1>5, <1>6, <1>7, <1>8, <1>9, <1>10, <1>11
     DEF UploadNext, LogicStep, WorkerStep, WorkerFault

LEMMA TypeInvariant == UploadSpec => []TypeInv
BY TypeInvInit, TypeInvStep, PTL DEF UploadSpec, ConsumerInit

(* Types: every step of Logic and of the gateways keeps the tables, queues  *)
(* and worker states well formed.                                           *)
THEOREM UploadTypeCorrect == UploadSpec => []TypeOK
BY TypeInvariant, PTL DEF TypeInv

-----------------------------------------------------------------------------
(* A payload is never in two places: the steps that move it take it out of  *)
(* the place it was in, and a worker keeps what it has not acked.           *)
THEOREM UploadOnePlace == UploadSpec => []OnePlace
<1>1. SharedInit /\ UploadInit => OnePlace
  BY DEF UploadInit, OnePlace, Busy
<1>2. TypeInv /\ OnePlace /\ [UploadNext]_allUploadVars => OnePlace'
  <2> SUFFICES ASSUME TypeInv, OnePlace, [UploadNext]_allUploadVars PROVE OnePlace'
    OBVIOUS
  <2> USE DEF OnePlace, Busy, TypeInv, TypeOK, UploadTypeOK, Steps
  <2>0. CASE UNCHANGED uploadVars
    BY <2>0 DEF uploadVars, brokerVars, workerVars
  <2>1. ASSUME NEW p \in Payloads,
               PublishUpload(p) \/ BrokerAccept(p) \/ ConnectionLost(p)
                 \/ RejectGarbage(p) \/ AckUnknown(p)
        PROVE  OnePlace'
    BY <2>1 DEF PublishUpload, BrokerAccept, ConnectionLost, RejectGarbage, AckUnknown,
       Take, workerVars
  <2>2. ASSUME NEW p \in Payloads, StartHandling(p)
        PROVE  OnePlace'
    BY <2>2 DEF StartHandling, Take
  <2>3. ASSUME NEW p \in Payloads, NEW u \in Accounts,
               InsertCopy(p, u) \/ InsertRefused(p, u) \/ InsertFails(p, u)
        PROVE  OnePlace'
    BY <2>3 DEF InsertCopy, InsertRefused, InsertFails, Insert, OnError, Requeue,
       NextReceiver, brokerVars
  <2>4. ASSUME NEW p \in Payloads,
               RouteFound(p) \/ RouteNil(p) \/ RouteFails(p) \/ PublishDown(p)
                 \/ PublishFails(p) \/ Ack(p)
        PROVE  OnePlace'
    BY <2>4 DEF RouteFound, RouteNil, RouteFails, PublishDown, PublishFails, Ack, OnError,
       Requeue, NextReceiver, brokerVars
  <2>5. CASE LogicCrash
    BY <2>5 DEF LogicCrash
  <2>6. (\E p \in Payloads : MembersUnavailable(p)) \/ GatewayRoutes \/ GatewayAcks
          \/ GatewayUpdates \/ GatewayFault => UNCHANGED uploadVars
    BY DEF MembersUnavailable, GatewayRoutes, GatewayAcks, GatewayUpdates, GatewayFault
  <2> QED
    BY <2>0, <2>1, <2>2, <2>3, <2>4, <2>5, <2>6
       DEF UploadNext, LogicStep, WorkerStep, WorkerFault, allUploadVars
<1> QED BY <1>1, <1>2, TypeInvariant, PTL DEF UploadSpec, ConsumerInit

-----------------------------------------------------------------------------
(* The copy a worker has stored and not pushed yet: its row is there, and   *)
(* no earlier delivery of the payload has pushed it, since that one's row   *)
(* would have had the insert refused.                                       *)
CurrentIsNew == \A p \in Payloads : pc[p] \in {"route", "publish"} =>
  CopyId(p, cur[p]) \in Stored \ pushed
PushInv == PushedIsStored /\ CurrentIsNew

LEMMA PushInvInit == SharedInit /\ UploadInit => PushInv
BY DEF SharedInit, UploadInit, PushInv, PushedIsStored, CurrentIsNew

LEMMA PushInvStep ==
  ASSUME TypeInv, PushInv, [UploadNext]_allUploadVars
  PROVE  PushInv'
<1> USE DEF TypeInv, TypeOK, UploadTypeOK, PushInv, PushedIsStored, CurrentIsNew, CopyId
<1>0. CASE UNCHANGED allUploadVars
  BY <1>0 DEF allUploadVars, uploadVars, brokerVars, workerVars, sharedVars, Stored
<1>1. ASSUME NEW p \in Payloads,
             PublishUpload(p) \/ BrokerAccept(p) \/ ConnectionLost(p)
               \/ RejectGarbage(p) \/ AckUnknown(p) \/ MembersUnavailable(p)
      PROVE  PushInv'
  BY <1>1 DEF PublishUpload, BrokerAccept, ConnectionLost, RejectGarbage, AckUnknown,
     MembersUnavailable, uploadVars, workerVars, sharedVars, Stored
<1>2. ASSUME NEW p \in Payloads, StartHandling(p)
      PROVE  PushInv'
  BY <1>2 DEF StartHandling, sharedVars, Stored
<1>3. ASSUME NEW p \in Payloads, NEW u \in Accounts, InsertCopy(p, u)
      PROVE  PushInv'
  <2>1. Stored' = Stored \cup {CopyId(p, u)}
    BY <1>3 DEF InsertCopy, InsertMessage, Stored
  <2>2. CopyId(p, u) \notin pushed
    BY <1>3 DEF InsertCopy
  <2> QED BY <1>3, <2>1, <2>2 DEF InsertCopy, Insert
<1>4. ASSUME NEW p \in Payloads, NEW u \in Accounts, InsertRefused(p, u)
      PROVE  PushInv'
  BY <1>4 DEF InsertRefused, Insert, OnError, Requeue, NextReceiver, sharedVars, Stored
<1>5. ASSUME NEW p \in Payloads, NEW u \in Accounts, InsertFails(p, u)
      PROVE  PushInv'
  <2>1. Stored \subseteq Stored'
    BY <1>5 DEF InsertFails, InsertMessage, Stored
  <2> QED
    BY <1>5, <2>1 DEF InsertFails, Insert, OnError, Requeue, NextReceiver
<1>6. ASSUME NEW p \in Payloads,
             RouteFound(p) \/ RouteNil(p) \/ RouteFails(p) \/ PublishFails(p) \/ Ack(p)
      PROVE  PushInv'
  BY <1>6 DEF RouteFound, RouteNil, RouteFails, PublishFails, Ack, OnError, Requeue,
     NextReceiver, sharedVars, Stored
<1>7. ASSUME NEW p \in Payloads, PublishDown(p)
      PROVE  PushInv'
  BY <1>7 DEF PublishDown, NextReceiver, Stored
<1>8. CASE LogicCrash
  BY <1>8 DEF LogicCrash, Stored
<1>9. CASE GatewayRoutes \/ GatewayAcks \/ GatewayFault
  BY <1>9 DEF GatewayRoutes, GatewayAcks, GatewayFault, uploadVars, workerVars, Stored
<1>10. CASE GatewayUpdates
  BY <1>10, UpdatesType DEF GatewayUpdates, uploadVars, workerVars, Stored
<1> QED
  BY <1>0, <1>1, <1>2, <1>3, <1>4, <1>5, <1>6, <1>7, <1>8, <1>9, <1>10
     DEF UploadNext, LogicStep, WorkerStep, WorkerFault

(* What is pushed is stored, so that SyncUnread finds it if the push is     *)
(* lost.                                                                    *)
THEOREM UploadPushedIsStored == UploadSpec => []PushedIsStored
<1>1. PushInv => PushedIsStored
  BY DEF PushInv
<1> QED BY <1>1, PushInvInit, PushInvStep, TypeInvariant, PTL DEF UploadSpec, ConsumerInit

(* No copy is pushed twice, however often its payload is redelivered.       *)
THEOREM UploadPushedOnce == UploadSpec => PushedOnce
<1>1. TypeInv /\ PushInv /\ [UploadNext]_allUploadVars
        => [\A d \in downQ' : d \notin downQ => d.id \notin pushed]_allUploadVars
  <2> SUFFICES ASSUME TypeInv, PushInv, UploadNext,
                      NEW d \in downQ', d \notin downQ
               PROVE  d.id \notin pushed
    OBVIOUS
  <2>1. PICK p \in Payloads : PublishDown(p)
    BY DEF UploadNext, LogicStep, WorkerStep, WorkerFault, PublishUpload, BrokerAccept,
       ConnectionLost, RejectGarbage, AckUnknown, MembersUnavailable, StartHandling,
       InsertCopy, InsertRefused, InsertFails, RouteFound, RouteNil, RouteFails,
       PublishFails, Ack, LogicCrash, GatewayRoutes, GatewayAcks, GatewayUpdates,
       GatewayFault, sharedVars
  <2>2. d.id = CopyId(p, cur[p])
    BY <2>1 DEF PublishDown
  <2> QED BY <2>1, <2>2 DEF PublishDown, PushInv, CurrentIsNew
<1> QED BY <1>1, PushInvInit, PushInvStep, TypeInvariant, PTL DEF UploadSpec, ConsumerInit, PushedOnce

-----------------------------------------------------------------------------
(* Of the receivers a worker is done with, every one has a row, but for the *)
(* group members it had to skip; and it acks when no receiver is left.      *)
HandledIsStored == \A p \in Busy :
  /\ Storable(p)
  /\ left[p] \subseteq Receivers(p)
  /\ pc[p] = "ack" => left[p] = {}
  /\ \A u \in Receivers(p) \ left[p] :
       CopyId(p, u) \in Stored \/ (IsGroup(p) /\ faults > 0)
AckInv == AckedIsStored /\ HandledIsStored

LEMMA FaultsGrow ==
  ASSUME faults \in 0..MaxFaults, [UploadNext]_allUploadVars
  PROVE  faults <= faults' /\ (faults > 0 => faults' > 0)
BY FaultAssumption DEF UploadNext, LogicStep, WorkerStep, WorkerFault, PublishUpload,
   BrokerAccept, ConnectionLost, RejectGarbage, AckUnknown, MembersUnavailable,
   StartHandling, InsertCopy, InsertRefused, InsertFails, RouteFound, RouteNil, RouteFails,
   PublishDown, PublishFails, Ack, LogicCrash, GatewayRoutes, GatewayAcks, GatewayUpdates,
   GatewayFault, Fault, NoFault, sharedVars, allUploadVars

LEMMA StoredGrows ==
  ASSUME TypeInv, [UploadNext]_allUploadVars
  PROVE  Stored \subseteq Stored'
<1>1. CASE GatewayUpdates
  BY <1>1, UpdatesType DEF TypeInv, TypeOK, Stored
<1>2. ASSUME NEW p \in Payloads, NEW u \in Accounts, InsertCopy(p, u) \/ InsertFails(p, u)
      PROVE  Stored \subseteq Stored'
  BY <1>2 DEF InsertCopy, InsertFails, InsertMessage, Stored
<1> QED
  BY <1>1, <1>2 DEF UploadNext, LogicStep, WorkerStep, WorkerFault, PublishUpload,
     BrokerAccept, ConnectionLost, RejectGarbage, AckUnknown, MembersUnavailable,
     StartHandling, InsertRefused, RouteFound, RouteNil, RouteFails, PublishDown,
     PublishFails, Ack, LogicCrash, GatewayRoutes, GatewayAcks, GatewayFault, sharedVars,
     allUploadVars, Stored

LEMMA AckInvStep ==
  ASSUME TypeInv, OnePlace, AckInv, [UploadNext]_allUploadVars
  PROVE  AckInv'
<1> USE DEF TypeInv, TypeOK, UploadTypeOK, AckInv, AckedIsStored, HandledIsStored, Busy,
        Storable, IsGroup, Receivers, CopyId
<1>a. Stored \subseteq Stored' /\ (faults > 0 => faults' > 0)
  BY StoredGrows, FaultsGrow DEF SharedTypeOK
<1>0. CASE UNCHANGED uploadVars
  BY <1>0, <1>a DEF uploadVars, brokerVars, workerVars
<1>1. ASSUME NEW p \in Payloads,
             PublishUpload(p) \/ BrokerAccept(p) \/ ConnectionLost(p) \/ RejectGarbage(p)
               \/ AckUnknown(p)
      PROVE  AckInv'
  BY <1>1, <1>a DEF PublishUpload, BrokerAccept, ConnectionLost, RejectGarbage, AckUnknown,
     workerVars
<1>2. ASSUME NEW p \in Payloads, StartHandling(p)
      PROVE  AckInv'
  <2>1. p \notin settled /\ pc[p] = "idle"
    BY <1>2 DEF StartHandling, Take, OnePlace, Steps
  <2> QED BY <1>2, <1>a, <2>1 DEF StartHandling
<1>3. ASSUME NEW p \in Payloads, NEW u \in Accounts, InsertCopy(p, u)
      PROVE  AckInv'
  <2>1. CopyId(p, u) \in Stored'
    BY <1>3 DEF InsertCopy, InsertMessage, Stored
  <2>2. Kind[p] = "ai_chat" => left'[p] = {}
    BY <1>3, PayloadAssumption DEF InsertCopy, Insert
  <2> QED BY <1>3, <1>a, <2>1, <2>2 DEF InsertCopy, Insert, brokerVars
<1>4. ASSUME NEW p \in Payloads, NEW u \in Accounts, InsertRefused(p, u)
      PROVE  AckInv'
  BY <1>4, <1>a DEF InsertRefused, Insert, OnError, Requeue, NextReceiver
<1>5. ASSUME NEW p \in Payloads, NEW u \in Accounts, InsertFails(p, u)
      PROVE  AckInv'
  <2>1. faults' > 0
    BY <1>5, FaultAssumption DEF InsertFails, Fault, SharedTypeOK
  <2> QED BY <1>5, <1>a, <2>1 DEF InsertFails, Insert, OnError, Requeue, NextReceiver
<1>6. ASSUME NEW p \in Payloads,
             RouteFound(p) \/ RouteNil(p) \/ RouteFails(p) \/ PublishDown(p)
               \/ PublishFails(p)
      PROVE  AckInv'
  BY <1>6, <1>a DEF RouteFound, RouteNil, RouteFails, PublishDown, PublishFails, OnError,
     Requeue, NextReceiver, brokerVars
<1>7. ASSUME NEW p \in Payloads, Ack(p)
      PROVE  AckInv'
  BY <1>7, <1>a DEF Ack
<1>8. CASE LogicCrash
  BY <1>8, <1>a DEF LogicCrash
<1>9. (\E p \in Payloads : MembersUnavailable(p)) \/ GatewayRoutes \/ GatewayAcks
        \/ GatewayUpdates \/ GatewayFault => UNCHANGED uploadVars
  BY DEF MembersUnavailable, GatewayRoutes, GatewayAcks, GatewayUpdates, GatewayFault
<1> QED
  BY <1>0, <1>1, <1>2, <1>3, <1>4, <1>5, <1>6, <1>7, <1>8, <1>9
     DEF UploadNext, LogicStep, WorkerStep, WorkerFault, allUploadVars

(* Logic acks a chat only when its copies are in the database, but for the  *)
(* group members a failure made it skip.                                    *)
THEOREM UploadAckedIsStored == UploadSpec => []AckedIsStored
<1>1. SharedInit /\ UploadInit => AckInv
  BY DEF UploadInit, AckInv, AckedIsStored, HandledIsStored, Busy
<1>2. AckInv => AckedIsStored
  BY DEF AckInv
<1> QED BY <1>1, <1>2, AckInvStep, TypeInvariant, UploadOnePlace, PTL DEF UploadSpec, ConsumerInit
-----------------------------------------------------------------------------
(* The step simulation.  A step of the upload path files or offers one      *)
(* copy, accepts or closes one message, or leaves the ledger alone.         *)
LEMMA OpenWhileBusy ==
  ASSUME OnePlace, NEW p \in Payloads, pc[p] # "idle"
  PROVE  p \in sent \ settled
BY DEF OnePlace, Busy

(* A row that is added is a copy of the message a worker has in hand. *)
LEMMA InsertFiles ==
  ASSUME TypeInv, OnePlace, HandledIsStored, NEW p \in Payloads, NEW u \in Accounts,
         Insert(p, u), InsertMessage(CopyId(p, u), Kind[p] = "ai_chat"),
         UNCHANGED <<sent, pushed, settled>>
  PROVE  Ledger!File(p)
<1>1. p \in sent \ settled
  BY OpenWhileBusy DEF Insert
<1>2. Storable(p) /\ u \in Receivers(p)
  BY DEF Insert, HandledIsStored, Busy
<1>3. Stored' = Stored \cup {CopyId(p, u)}
  BY DEF InsertMessage, Stored
<1>4. CopyId(p, u)[1] = p /\ CopyId(p, u)[2] = u
  BY DEF CopyId
<1> QED
  BY <1>1, <1>2, <1>3, <1>4 DEF Ledger!File, Ledger!MessageOf, Ledger!AddresseeOf

LEMMA LedgerStep ==
  ASSUME TypeInv, OnePlace, PushInv, AckInv, UploadNext
  PROVE  Ledger!LedgerNext
<1> DEFINE Same == UNCHANGED <<sent, Stored, pushed, settled>>
<1>0. faults <= faults'
  BY FaultsGrow DEF TypeInv, TypeOK, SharedTypeOK
<1>1. ASSUME NEW p \in Payloads, PublishUpload(p)
      PROVE  Ledger!Accept(p)
  BY <1>1 DEF PublishUpload, Ledger!Accept, sharedVars, Stored
<1>2. ASSUME NEW p \in Payloads, AckUnknown(p)
      PROVE  Ledger!Close(p)
  <2>1. p \in sent \ settled /\ ~Storable(p)
    BY <1>2 DEF AckUnknown, Take, OnePlace, Storable
  <2> QED BY <1>2, <2>1 DEF AckUnknown, Ledger!Close, sharedVars, Stored
<1>3. ASSUME NEW p \in Payloads, NEW u \in Accounts, InsertCopy(p, u)
      PROVE  Ledger!File(p)
  BY <1>3, InsertFiles DEF InsertCopy, AckInv, brokerVars
<1>4. ASSUME NEW p \in Payloads, NEW u \in Accounts, InsertFails(p, u)
      PROVE  Ledger!File(p) \/ Same
  <2>1. CASE UNCHANGED rows
    BY <1>4, <2>1 DEF InsertFails, Stored, OnError, Requeue, NextReceiver
  <2>2. CASE InsertMessage(CopyId(p, u), Kind[p] = "ai_chat")
    BY <1>4, <2>2, InsertFiles DEF InsertFails, AckInv
  <2> QED BY <1>4, <2>1, <2>2 DEF InsertFails
<1>5. ASSUME NEW p \in Payloads, PublishDown(p)
      PROVE  Ledger!Offer(p)
  <2>1. p \in sent \ settled
    BY <1>5, OpenWhileBusy DEF PublishDown
  <2>2. CopyId(p, cur[p]) \in Stored \ pushed /\ CopyId(p, cur[p])[1] = p
    BY <1>5 DEF PublishDown, PushInv, CurrentIsNew, CopyId
  <2> QED
    BY <1>5, <2>1, <2>2 DEF PublishDown, Ledger!Offer, Ledger!MessageOf, Stored
<1>6. ASSUME NEW p \in Payloads, Ack(p)
      PROVE  Ledger!Close(p)
  <2>1. p \in sent \ settled
    BY <1>6, OpenWhileBusy DEF Ack
  <2>2. p \in Busy /\ Storable(p) /\ left[p] = {}
    BY <1>6 DEF Ack, AckInv, HandledIsStored, Busy
  <2>3. \A u \in Receivers(p) : CopyId(p, u) \in Stored \/ (IsGroup(p) /\ faults > 0)
    BY <2>2 DEF AckInv, HandledIsStored
  <2>4. \A u : CopyId(p, u)[1] = p /\ CopyId(p, u)[2] = u
    BY DEF CopyId
  <2> QED
    BY <1>6, <2>1, <2>2, <2>3, <2>4
       DEF Ack, Ledger!Close, Ledger!MessageOf, Ledger!AddresseeOf, sharedVars, Stored
<1>7. ASSUME NEW p \in Payloads, NEW u \in Accounts,
             BrokerAccept(p) \/ ConnectionLost(p) \/ RejectGarbage(p) \/ StartHandling(p)
               \/ MembersUnavailable(p) \/ InsertRefused(p, u) \/ RouteFound(p)
               \/ RouteNil(p) \/ RouteFails(p) \/ PublishFails(p)
      PROVE  Same
  BY <1>7 DEF BrokerAccept, ConnectionLost, RejectGarbage, StartHandling,
     MembersUnavailable, InsertRefused, RouteFound, RouteNil, RouteFails, PublishFails,
     sharedVars, uploadVars, brokerVars, Stored
<1>8. CASE LogicCrash \/ GatewayRoutes \/ GatewayAcks \/ GatewayFault
  <2>1. Same
    BY <1>8 DEF LogicCrash, GatewayRoutes, GatewayAcks, GatewayFault, uploadVars,
       brokerVars, Stored
  <2> QED BY <1>0, <2>1 DEF Ledger!LedgerNext
<1>9. CASE GatewayUpdates
  <2>1. Same
    BY <1>9, UpdatesType DEF GatewayUpdates, uploadVars, brokerVars, Stored, TypeInv, TypeOK
  <2> QED BY <1>0, <2>1 DEF Ledger!LedgerNext
<1>10. ASSUME NEW p \in Payloads, BrokerAccept(p) \/ ConnectionLost(p) \/ WorkerStep(p)
                \/ WorkerFault(p) \/ PublishUpload(p)
       PROVE  Ledger!LedgerNext
  <2>1. Bot \in Accounts
    BY DEF Accounts
  <2> QED
    BY <1>0, <1>1, <1>2, <1>3, <1>4, <1>5, <1>6, <1>7, <1>10, <2>1
       DEF WorkerStep, WorkerFault, Ledger!LedgerNext
<1> QED BY <1>8, <1>9, <1>10 DEF UploadNext, LogicStep

(* The upload path implements the ledger: with redelivery, requeueing and   *)
(* crashes a copy is offered once, after it is filed, and a message is      *)
(* closed only when its addressees have their copies.                       *)
THEOREM UploadKeepsLedger == UploadSpec => KeepsLedger
<1>1. SharedInit /\ UploadInit => Ledger!LedgerInit
  BY FaultAssumption DEF SharedInit, UploadInit, Ledger!LedgerInit, Stored
<1>2. SharedInit /\ UploadInit => AckInv
  BY DEF UploadInit, AckInv, AckedIsStored, HandledIsStored, Busy
<1>3. TypeInv /\ OnePlace /\ PushInv /\ AckInv /\ [UploadNext]_allUploadVars
        => [Ledger!LedgerNext]_(Ledger!ledgerVars)
  <2> SUFFICES ASSUME TypeInv, OnePlace, PushInv, AckInv, [UploadNext]_allUploadVars
               PROVE  [Ledger!LedgerNext]_(Ledger!ledgerVars)
    OBVIOUS
  <2>1. CASE UploadNext
    BY <2>1, LedgerStep
  <2>2. CASE UNCHANGED allUploadVars
    BY <2>2 DEF allUploadVars, uploadVars, brokerVars, sharedVars, Ledger!ledgerVars, Stored
  <2> QED BY <2>1, <2>2
<1> QED
  BY <1>1, <1>2, <1>3, TypeInvariant, UploadOnePlace, PushInvInit, PushInvStep, AckInvStep,
     PTL DEF UploadSpec, ConsumerInit, KeepsLedger, Ledger!LedgerSpec
=============================================================================
