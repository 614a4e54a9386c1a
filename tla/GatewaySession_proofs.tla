----------------------- MODULE GatewaySession_proofs -----------------------
(***************************************************************************)
(* Theorems about a gateway's sessions, for every number of connections,   *)
(* users, gateways and faults, and a Logic that stores and pushes copies   *)
(* in any order.                                                           *)
(***************************************************************************)
EXTENDS GatewaySession, SharedState_proofs

(* SendChan stays a channel of frames within its capacity, whatever         *)
(* SendMessage does with the frame.                                         *)
ChanTypeOK ==
  /\ sendChan \in [Conns -> Seq(Frames)]
  /\ \A c \in Conns : Len(sendChan[c]) <= SendCap

LEMMA CloseAllType ==
  ASSUME ChanTypeOK, closed \subseteq Conns, NEW conns \in SUBSET Conns, CloseAll(conns)
  PROVE  ChanTypeOK' /\ closed' \subseteq Conns
<1>1. <<>> \in Seq(Frames) /\ Len(<<>>) = 0
  OBVIOUS
<1> QED BY <1>1, ConnAssumption DEF ChanTypeOK, CloseAll

LEMMA SendMessageType ==
  ASSUME ChanTypeOK, closed \subseteq Conns, NEW c \in Conns, NEW frame \in Frames,
         SendMessage(c, frame)
  PROVE  ChanTypeOK' /\ closed' \subseteq Conns
<1>1. CASE UNCHANGED <<closed, sendChan>>
  BY <1>1 DEF ChanTypeOK
<1>2. CASE /\ Len(sendChan[c]) < SendCap
           /\ sendChan' = [sendChan EXCEPT ![c] = Append(@, frame)]
           /\ UNCHANGED closed
  <2>1. Append(sendChan[c], frame) \in Seq(Frames)
    BY DEF ChanTypeOK
  <2>2. Len(Append(sendChan[c], frame)) = Len(sendChan[c]) + 1
    BY DEF ChanTypeOK
  <2>3. Len(sendChan[c]) \in Nat /\ SendCap \in Nat
    BY ConnAssumption DEF ChanTypeOK
  <2> QED BY <1>2, <2>1, <2>2, <2>3 DEF ChanTypeOK
<1>3. CASE CloseAll({c})
  BY <1>3, CloseAllType
<1> QED BY <1>1, <1>2, <1>3 DEF SendMessage

-----------------------------------------------------------------------------
SessionStep == GatewayStep \/ LogicStores \/ LogicPushes

LEMMA SessionTypeStep ==
  ASSUME SharedTypeOK, SessionTypeOK, [SessionStep]_allSessionVars
  PROVE  SharedTypeOK' /\ SessionTypeOK'
<1> USE DEF SharedTypeOK, SessionTypeOK, ChanTypeOK, Accounts
<1>t. ChanTypeOK /\ closed \subseteq Conns
  OBVIOUS
<1>0. CASE UNCHANGED allSessionVars
  BY <1>0 DEF allSessionVars, sessionVars, sharedVars
<1>1. ASSUME NEW c \in Conns, Register(c)
      PROVE  SharedTypeOK' /\ SessionTypeOK'
  <2>1. (IF Entry(c) = None THEN {} ELSE {Entry(c)}) \in SUBSET Conns
    BY ConnAssumption DEF Entry
  <2>2. ChanTypeOK' /\ closed' \subseteq Conns
    BY <1>1, <1>t, <2>1, CloseAllType DEF Register
  <2> QED BY <1>1, <2>2, ConnAssumption DEF Register, Stages, sharedVars
<1>2. ASSUME NEW c \in Conns, SetRoute(c)
      PROVE  SharedTypeOK' /\ SessionTypeOK'
  BY <1>2, FaultType, ConnAssumption DEF SetRoute, Stages
<1>9. ASSUME NEW c \in Conns, FetchUnread(c)
      PROVE  SharedTypeOK' /\ SessionTypeOK'
  <2>1. GetUnreadMessages(UserOf[c]) \in SUBSET CopyIds
    BY DEF GetUnreadMessages, Stored
  <2> QED BY <1>9, <2>1 DEF FetchUnread, Stages, sharedVars
<1>10. ASSUME NEW c \in Conns, ReadMessages(c) \/ SyncFails(c)
      PROVE  SharedTypeOK' /\ SessionTypeOK'
  <2>1. DOMAIN rows' \subseteq CopyIds /\ rows' \in [DOMAIN rows' -> Row]
    BY <1>10, ConfirmType DEF ReadMessages, SyncFails, MarkMessagesAsRead
  <2>2. faults' \in 0..MaxFaults
    BY <1>10, FaultType DEF ReadMessages, SyncFails
  <2>3. stage' \in [Conns -> Stages]
    BY <1>10 DEF ReadMessages, SyncFails, Stages
  <2> QED BY <1>10, <2>1, <2>2, <2>3 DEF ReadMessages, SyncFails
<1>3. ASSUME NEW c \in Conns, SendUnread(c)
      PROVE  SharedTypeOK' /\ SessionTypeOK'
  <2>1. PICK id \in unsynced[c] :
          SendMessage(c, id) /\ unsynced' = [unsynced EXCEPT ![c] = @ \ {id}]
    BY <1>3 DEF SendUnread
  <2>2. ChanTypeOK' /\ closed' \subseteq Conns
    BY <1>t, <2>1, SendMessageType DEF Frames
  <2> QED BY <1>3, <2>1, <2>2 DEF SendUnread, Stages, sharedVars
<1>4. ASSUME NEW c \in Conns, Ping(c)
      PROVE  SharedTypeOK' /\ SessionTypeOK'
  <2>1. ChanTypeOK' /\ closed' \subseteq Conns
    BY <1>4, <1>t, SendMessageType DEF Ping, Frames
  <2> QED BY <1>4, <2>1 DEF Ping, sharedVars
<1>5. ASSUME NEW c \in Conns, NEW id \in got[UserOf[c]], AckMessage(c, id)
      PROVE  SharedTypeOK' /\ SessionTypeOK'
  <2>1. DOMAIN rows' \subseteq CopyIds /\ rows' \in [DOMAIN rows' -> Row]
    BY <1>5, ConfirmType DEF AckMessage, MarkMessageAsRead
  <2>2. id \in CopyIds
    BY ConnAssumption
  <2>3. Sender[PayloadOf(id)] \in Accounts
    BY <2>2, PayloadAssumption DEF PayloadOf, CopyIds
  <2>4. clients[GatewayOf[c]][Sender[PayloadOf(id)]] \in Conns \cup {None}
    BY <2>3, ConnAssumption
  <2>5. ChanTypeOK' /\ closed' \subseteq Conns
    <3>1. CASE UNCHANGED <<closed, sendChan>>
      BY <3>1
    <3>2. CASE /\ clients[GatewayOf[c]][Sender[PayloadOf(id)]] \in Conns
               /\ SendMessage(clients[GatewayOf[c]][Sender[PayloadOf(id)]], Control)
      BY <3>2, <1>t, SendMessageType DEF Frames
    <3> QED BY <1>5, <2>4, <3>1, <3>2 DEF AckMessage
  <2> QED BY <1>5, <2>1, <2>5 DEF AckMessage
<1>6. ASSUME NEW c \in Conns, NEW id \in got[UserOf[c]], AckFails(c, id)
      PROVE  SharedTypeOK' /\ SessionTypeOK'
  <2>1. DOMAIN rows' \subseteq CopyIds /\ rows' \in [DOMAIN rows' -> Row]
    BY <1>6, ConfirmType DEF AckFails, MarkMessageAsRead
  <2>2. stage' \in [Conns -> Stages]
    BY <1>6 DEF AckFails, Stages
  <2> QED BY <1>6, <2>1, <2>2, FaultType DEF AckFails
<1>7. ASSUME NEW c \in Conns, Remove(c)
      PROVE  SharedTypeOK' /\ SessionTypeOK'
  <2>1. clients' \in [Gateways -> [Accounts -> Conns \cup {None}]]
    <3>1. GatewayOf[c] \in Gateways /\ UserOf[c] \in Accounts
      BY ConnAssumption
    <3>2. \/ clients' = clients
          \/ clients' = [clients EXCEPT ![GatewayOf[c]][UserOf[c]] = None]
      BY <1>7 DEF Remove
    <3>3. [clients[GatewayOf[c]] EXCEPT ![UserOf[c]] = None] \in [Accounts -> Conns \cup {None}]
      BY <3>1
    <3>4. [clients EXCEPT ![GatewayOf[c]][UserOf[c]] = None]
            \in [Gateways -> [Accounts -> Conns \cup {None}]]
      BY <3>1, <3>3
    <3> QED BY <3>2, <3>4
  <2>2. route' \in [Accounts -> Gateways \cup {None}]
    BY <1>7, ConnAssumption DEF Remove
  <2>3. stage' \in [Conns -> Stages]
    BY <1>7 DEF Remove, Stages
  <2>4. faults' \in 0..MaxFaults
    BY <1>7, FaultType DEF Remove, NoFault
  <2> QED BY <1>7, <2>1, <2>2, <2>3, <2>4 DEF Remove
<1>8. ASSUME NEW c \in Conns, CloseAfterRemove(c)
      PROVE  SharedTypeOK' /\ SessionTypeOK'
  <2>1. ChanTypeOK' /\ closed' \subseteq Conns
    BY <1>8, <1>t, CloseAllType DEF CloseAfterRemove
  <2> QED BY <1>8, <2>1 DEF CloseAfterRemove, Stages, sharedVars
<1>11. ASSUME NEW c \in Conns, WriteFrame(c)
      PROVE  SharedTypeOK' /\ SessionTypeOK'
  <2>1. sendChan[c] \in Seq(Frames) /\ sendChan[c] # <<>>
    BY <1>11 DEF WriteFrame
  <2>2. /\ Tail(sendChan[c]) \in Seq(Frames)
        /\ Len(Tail(sendChan[c])) <= SendCap
        /\ Head(sendChan[c]) \in Frames
    BY <2>1, ConnAssumption
  <2>3. {Head(sendChan[c])} \ {Control} \in SUBSET CopyIds
    BY <2>2 DEF Frames
  <2>4. ChanTypeOK'
    BY <1>11, <2>2 DEF WriteFrame
  <2>5. got' \in [Accounts -> SUBSET CopyIds]
    BY <1>11, <2>3, ConnAssumption DEF WriteFrame
  <2> QED BY <1>11, <2>4, <2>5 DEF WriteFrame, sharedVars
<1>12. ASSUME NEW c \in Conns, WriteFails(c)
      PROVE  SharedTypeOK' /\ SessionTypeOK'
  <2>1. ChanTypeOK' /\ closed' \subseteq Conns
    BY <1>12, <1>t, CloseAllType DEF WriteFails
  <2> QED BY <1>12, <2>1 DEF WriteFails, sharedVars
<1>13. ASSUME NEW c \in Conns, PumpReturns(c) \/ ClientLeaves(c)
      PROVE  SharedTypeOK' /\ SessionTypeOK'
  BY <1>13 DEF PumpReturns, ClientLeaves, sharedVars
<1>14. ASSUME NEW d \in downQ, PushLookup(d)
      PROVE  SharedTypeOK' /\ SessionTypeOK'
  <2>1. d \in Delivery /\ Receiver(d.id) \in Accounts
    BY DEF Delivery, CopyIds, Receiver
  <2>2. clients[d.gateway][Receiver(d.id)] \in Conns \cup {None}
    BY <2>1 DEF Delivery
  <2>3. pushing' \subseteq Held
    BY <1>14, <2>1, <2>2 DEF PushLookup, Held
  <2> QED BY <1>14, <2>3 DEF PushLookup
<1>15. ASSUME NEW h \in pushing, PushSend(h)
      PROVE  SharedTypeOK' /\ SessionTypeOK'
  <2>1. h.conn \in Conns /\ h.delivery.id \in CopyIds /\ h.delivery.gateway \in Gateways
    BY DEF Held, Delivery
  <2>2. ChanTypeOK' /\ closed' \subseteq Conns
    BY <1>15, <1>t, <2>1, SendMessageType DEF PushSend, Frames
  <2>3. delivered' \subseteq Handed /\ pushing' \subseteq Held
    <3>1. h.delivery \in Delivery
      BY DEF Held
    <3>2. [delivery |-> h.delivery, acked |-> FALSE] \in Handed
      BY <3>1 DEF Handed
    <3> QED BY <1>15, <3>2 DEF PushSend
  <2> QED BY <1>15, <2>2, <2>3 DEF PushSend, sharedVars
<1>21. ASSUME NEW s \in delivered, PushAck(s)
       PROVE  SharedTypeOK' /\ SessionTypeOK'
  <2>1. delivered' \subseteq Handed /\ downQ' \subseteq Delivery
    BY <1>21 DEF PushAck, Handed
  <2> QED BY <1>21, <2>1 DEF PushAck
<1>16. ASSUME NEW n \in delivered, NotifyDelivered(n)
      PROVE  SharedTypeOK' /\ SessionTypeOK'
  <2>1. DOMAIN rows' \subseteq CopyIds /\ rows' \in [DOMAIN rows' -> Row]
    BY <1>16, DeliveredType DEF NotifyDelivered
  <2> QED BY <1>16, <2>1, FaultType DEF NotifyDelivered
<1>17. ASSUME NEW u \in Users, RouteExpires(u)
      PROVE  SharedTypeOK' /\ SessionTypeOK'
  BY <1>17, FaultType DEF RouteExpires, sessionVars
<1>18. ASSUME NEW g \in Gateways, GatewayCrash(g)
      PROVE  SharedTypeOK' /\ SessionTypeOK'
  <2> DEFINE here == {c \in Conns : GatewayOf[c] = g /\ stage[c] # "new"}
  <2>1. ChanTypeOK' /\ closed' \subseteq Conns
    <3>1. CloseAll(here)
      BY <1>18 DEF GatewayCrash
    <3> QED BY <3>1, <1>t, CloseAllType
  <2>2. /\ stage' \in [Conns -> Stages]
        /\ pump' \in [Conns -> {"off", "running", "returned"}]
        /\ clients' \in [Gateways -> [Accounts -> Conns \cup {None}]]
    BY <1>18 DEF GatewayCrash, Stages
  <2> QED BY <1>18, <2>1, <2>2, FaultType DEF GatewayCrash
<1>19. CASE LogicStores
  <2>1. PICK p \in Payloads, u \in Users : InsertMessage(<<p, u, 0>>, FALSE)
    BY <1>19 DEF LogicStores
  <2>2. DOMAIN rows' \subseteq CopyIds /\ rows' \in [DOMAIN rows' -> Row]
    BY <2>1, InsertType DEF CopyIds
  <2> QED BY <1>19, <2>2 DEF LogicStores, sessionVars
<1>20. CASE LogicPushes
  BY <1>20 DEF LogicPushes, sessionVars, Stored, Delivery
<1> QED
  BY <1>0, <1>1, <1>2, <1>3, <1>4, <1>5, <1>6, <1>7, <1>8, <1>9, <1>10, <1>11, <1>12, <1>13,
     <1>14, <1>15, <1>16, <1>17, <1>18, <1>19, <1>20, <1>21
     DEF SessionStep, GatewayStep, GatewayRun, HandlerStep, ReadPump, ReadPumpExit, WritePump

LEMMA SessionTypeInit == SharedInit /\ SessionInit => SharedTypeOK /\ SessionTypeOK
<1> SUFFICES ASSUME SharedInit, SessionInit PROVE SharedTypeOK /\ SessionTypeOK
  OBVIOUS
<1>1. <<>> \in Seq(Frames) /\ Len(<<>>) = 0
  OBVIOUS
<1> QED
  BY <1>1, FaultAssumption, ConnAssumption DEF SharedInit, SessionInit, SharedTypeOK,
     SessionTypeOK, Stages, Row, NewMessages

(* Types: the map of connections, the channels and the deliveries in hand   *)
(* stay well formed, and no channel exceeds its capacity.                   *)
THEOREM SessionTypeCorrect == SessionSpec => [](SharedTypeOK /\ SessionTypeOK)
BY SessionTypeInit, SessionTypeStep, PTL DEF SessionSpec, GatewayInit, SessionStep

-----------------------------------------------------------------------------
(* Sending, whatever becomes of the frame, reopens no connection.           *)
LEMMA SendMessageCloses ==
  ASSUME NEW c, NEW frame, SendMessage(c, frame)
  PROVE  closed \subseteq closed'
BY DEF SendMessage, CloseAll

(* A step that leaves CliMap alone, reopens nothing and attaches nothing    *)
(* keeps the connections one per account and gateway.                       *)
LEMMA SameEntries ==
  ASSUME OneOpenConnection, UNCHANGED clients, closed \subseteq closed',
         \A c \in Conns : stage'[c] \in Attached => stage[c] \in Attached
  PROVE  OneOpenConnection'
BY DEF OneOpenConnection, Entry

LEMMA OneOpenConnectionStep ==
  ASSUME SessionTypeOK, OneOpenConnection, [SessionStep]_allSessionVars
  PROVE  OneOpenConnection'
<1> USE DEF SessionTypeOK
<1>0. CASE UNCHANGED <<clients, closed, stage>>
  BY <1>0, SameEntries
<1>1. ASSUME NEW c \in Conns, Register(c)
      PROVE  OneOpenConnection'
  <2> SUFFICES ASSUME NEW d \in Conns, stage'[d] \in Attached, d \notin closed'
               PROVE  Entry(d)' = d
    BY DEF OneOpenConnection
  <2>1. GatewayOf[c] \in Gateways /\ UserOf[c] \in Accounts
    BY ConnAssumption DEF Accounts
  <2>2. clients' = [clients EXCEPT ![GatewayOf[c]][UserOf[c]] = c]
    BY <1>1 DEF Register
  <2>3. CASE d = c
    BY <2>1, <2>2, <2>3 DEF Entry
  <2>4. CASE d # c
    <3>1. stage[d] \in Attached /\ d \notin closed
      BY <1>1, <2>4 DEF Register, CloseAll
    <3>2. Entry(d) = d
      BY <3>1 DEF OneOpenConnection
    <3>3. ~(GatewayOf[d] = GatewayOf[c] /\ UserOf[d] = UserOf[c])
      <4>1. SUFFICES ASSUME GatewayOf[d] = GatewayOf[c], UserOf[d] = UserOf[c] PROVE FALSE
        OBVIOUS
      <4>2. Entry(c) = d /\ d # None
        BY <4>1, <3>2, ConnAssumption DEF Entry
      <4> QED BY <1>1, <4>2 DEF Register, CloseAll
    <3>4. GatewayOf[d] \in Gateways /\ UserOf[d] \in Accounts
      BY ConnAssumption DEF Accounts
    <3> QED BY <2>1, <2>2, <3>2, <3>3, <3>4 DEF Entry
  <2> QED BY <2>3, <2>4
<1>2. ASSUME NEW c \in Conns, HandlerStep(c) \/ SyncFails(c)
      PROVE  OneOpenConnection'
  <2>1. UNCHANGED clients /\ closed \subseteq closed'
    BY <1>2, SendMessageCloses
       DEF HandlerStep, SetRoute, FetchUnread, SendUnread, ReadMessages, SyncFails, sharedVars
  <2>2. stage[c] \in Attached /\ \A d \in Conns \ {c} : stage'[d] = stage[d]
    BY <1>2 DEF HandlerStep, SetRoute, FetchUnread, SendUnread, ReadMessages, SyncFails, Attached
  <2> QED BY <2>1, <2>2, SameEntries
<1>3. ASSUME NEW c \in Conns, Remove(c)
      PROVE  OneOpenConnection'
  <2> SUFFICES ASSUME NEW d \in Conns, stage'[d] \in Attached, d \notin closed'
               PROVE  Entry(d)' = d
    BY DEF OneOpenConnection
  <2>1. d # c /\ stage[d] \in Attached /\ d \notin closed
    BY <1>3 DEF Remove, Attached
  <2>2. Entry(d) = d
    BY <2>1 DEF OneOpenConnection
  <2>3. CASE UNCHANGED clients
    BY <2>2, <2>3 DEF Entry
  <2>4. CASE /\ Entry(c) = c
             /\ clients' = [clients EXCEPT ![GatewayOf[c]][UserOf[c]] = None]
    <3>1. ~(GatewayOf[d] = GatewayOf[c] /\ UserOf[d] = UserOf[c])
      BY <2>1, <2>2, <2>4 DEF Entry
    <3>2. /\ GatewayOf[c] \in Gateways /\ UserOf[c] \in Accounts
          /\ GatewayOf[d] \in Gateways /\ UserOf[d] \in Accounts
      BY ConnAssumption DEF Accounts
    <3> QED BY <2>2, <2>4, <3>1, <3>2 DEF Entry
  <2> QED BY <1>3, <2>3, <2>4 DEF Remove
<1>4. ASSUME NEW c \in Conns, CloseAfterRemove(c)
      PROVE  OneOpenConnection'
  <2>1. UNCHANGED clients /\ closed \subseteq closed'
    BY <1>4 DEF CloseAfterRemove, CloseAll
  <2>2. stage'[c] \notin Attached /\ \A d \in Conns \ {c} : stage'[d] = stage[d]
    BY <1>4 DEF CloseAfterRemove, Attached
  <2> QED BY <2>1, <2>2, SameEntries
<1>5. ASSUME NEW c \in Conns, Ping(c) \/ WritePump(c) \/ ClientLeaves(c)
      PROVE  OneOpenConnection'
  <2>1. UNCHANGED <<clients, stage>> /\ closed \subseteq closed'
    BY <1>5, SendMessageCloses
       DEF Ping, WritePump, WriteFrame, WriteFails, PumpReturns, ClientLeaves, CloseAll
  <2> QED BY <2>1, SameEntries
<1>6. ASSUME NEW c \in Conns, NEW id \in got[UserOf[c]], AckMessage(c, id) \/ AckFails(c, id)
      PROVE  OneOpenConnection'
  <2>1. UNCHANGED clients /\ closed \subseteq closed'
    BY <1>6, SendMessageCloses DEF AckMessage, AckFails
  <2>2. stage[c] \in Attached /\ \A d \in Conns \ {c} : stage'[d] = stage[d]
    BY <1>6 DEF AckMessage, AckFails, Attached
  <2> QED BY <2>1, <2>2, SameEntries
<1>7. ASSUME NEW h \in pushing, PushSend(h)
      PROVE  OneOpenConnection'
  <2>1. UNCHANGED <<clients, stage>> /\ closed \subseteq closed'
    BY <1>7, SendMessageCloses DEF PushSend
  <2> QED BY <2>1, SameEntries
<1>8. ASSUME NEW g \in Gateways, GatewayCrash(g)
      PROVE  OneOpenConnection'
  <2> SUFFICES ASSUME NEW d \in Conns, stage'[d] \in Attached, d \notin closed'
               PROVE  Entry(d)' = d
    BY DEF OneOpenConnection
  <2>1. GatewayOf[d] # g /\ stage[d] \in Attached /\ d \notin closed
    BY <1>8 DEF GatewayCrash, CloseAll, Attached
  <2>2. Entry(d) = d
    BY <2>1 DEF OneOpenConnection
  <2>3. clients' = [clients EXCEPT ![g] = [u \in Accounts |-> None]]
    BY <1>8 DEF GatewayCrash
  <2> QED BY <2>1, <2>2, <2>3, ConnAssumption DEF Entry
<1>9. CASE \/ \E d \in downQ : PushLookup(d)
           \/ \E s \in delivered : PushAck(s) \/ NotifyDelivered(s)
           \/ \E u \in Users : RouteExpires(u)
           \/ LogicStores \/ LogicPushes \/ UNCHANGED allSessionVars
  <2>1. UNCHANGED <<clients, closed, stage>>
    BY <1>9 DEF PushLookup, PushAck, NotifyDelivered, RouteExpires, LogicStores, LogicPushes,
       sessionVars, allSessionVars
  <2> QED BY <1>0, <2>1
<1> QED
  BY <1>1, <1>2, <1>3, <1>4, <1>5, <1>6, <1>7, <1>8, <1>9
     DEF SessionStep, GatewayStep, GatewayRun, ReadPump, ReadPumpExit

LEMMA OneOpenInit == SessionInit => OneOpenConnection
BY DEF SessionInit, OneOpenConnection, Attached

(* A takeover leaves one open connection of the account on the gateway, and *)
(* it is the one CliMap returns: Register closes the entry it replaces and  *)
(* Remove gives up an entry that is not the caller's own.                   *)
THEOREM SessionOneOpenConnection == SessionSpec => []OneOpenConnection
BY OneOpenInit, SessionTypeCorrect, OneOpenConnectionStep, PTL DEF SessionSpec, GatewayInit, SessionStep

-----------------------------------------------------------------------------
(* OnlyReceiver is not inductive: what a client gets was in its channel,    *)
(* and before that in a worker's hand or in the handler's list of unread    *)
(* copies.  At each of these places a copy is stored and addressed to the   *)
(* account of the connection it is held for.                                *)
Mine(c) == {id \in Stored : Receiver(id) = UserOf[c]}
MyFrames(c) == Mine(c) \cup {Control}

EntriesOwned == \A g \in Gateways, u \in Accounts :
  clients[g][u] # None => UserOf[clients[g][u]] = u
ChanMine == \A c \in Conns : sendChan[c] \in Seq(MyFrames(c))
AddressInv ==
  /\ EntriesOwned
  /\ ChanMine
  /\ \A c \in Conns : unsynced[c] \subseteq Mine(c)
  /\ \A h \in pushing : h.delivery.id \in Mine(h.conn)
  /\ \A d \in downQ : d.id \in Stored
  /\ OnlyReceiver

LEMMA FramesGrow ==
  ASSUME Stored \subseteq Stored', NEW c \in Conns
  PROVE  Mine(c) \subseteq Mine(c)' /\ Seq(MyFrames(c)) \subseteq Seq(MyFrames(c)')
<1>1. Mine(c) \subseteq Mine(c)'
  BY DEF Mine
<1>2. MyFrames(c) \subseteq MyFrames(c)'
  BY <1>1 DEF MyFrames
<1>3. \A s \in Seq(MyFrames(c)) : s \in Seq(MyFrames(c)')
  BY <1>2
<1> QED BY <1>1, <1>3

LEMMA CloseAllMine ==
  ASSUME ChanMine, Stored \subseteq Stored', NEW conns, CloseAll(conns)
  PROVE  ChanMine'
<1> SUFFICES ASSUME NEW c \in Conns PROVE sendChan'[c] \in Seq(MyFrames(c)')
  BY DEF ChanMine, MyFrames, Mine
<1>1. <<>> \in Seq(MyFrames(c)')
  OBVIOUS
<1> QED BY <1>1, FramesGrow DEF CloseAll, ChanMine

LEMMA SendMessageMine ==
  ASSUME SessionTypeOK, ChanMine, UNCHANGED Stored, NEW c \in Conns,
         NEW frame \in MyFrames(c), SendMessage(c, frame)
  PROVE  ChanMine'
<1>1. CASE UNCHANGED sendChan
  BY <1>1 DEF ChanMine, MyFrames, Mine
<1>2. CASE sendChan' = [sendChan EXCEPT ![c] = Append(@, frame)]
  <2>1. sendChan \in [Conns -> Seq(Frames)]
    BY DEF SessionTypeOK
  <2>2. Append(sendChan[c], frame) \in Seq(MyFrames(c))
    BY DEF ChanMine
  <2> QED BY <1>2, <2>1, <2>2 DEF ChanMine, MyFrames, Mine
<1>3. CASE CloseAll({c})
  BY <1>3, CloseAllMine
<1> QED BY <1>1, <1>2, <1>3 DEF SendMessage

(* A step that only leaves the receivers' side alone and stores more. *)
LEMMA SameHolders ==
  ASSUME AddressInv, Stored \subseteq Stored',
         UNCHANGED <<clients, unsynced, pushing, got>>, pushing \subseteq Held
  PROVE  /\ EntriesOwned'
         /\ \A c \in Conns : unsynced'[c] \subseteq Mine(c)'
         /\ \A h \in pushing' : h.delivery.id \in Mine(h.conn)'
         /\ OnlyReceiver'
<1>1. \A c : Mine(c) \subseteq Mine(c)'
  BY DEF Mine
<1>2. EntriesOwned'
  BY DEF AddressInv, EntriesOwned
<1>3. OnlyReceiver'
  BY DEF AddressInv, OnlyReceiver
<1> QED BY <1>1, <1>2, <1>3 DEF AddressInv

LEMMA SessionStored ==
  ASSUME SharedTypeOK, SessionTypeOK, [SessionStep]_allSessionVars
  PROVE  /\ Stored \subseteq Stored'
         /\ Stored' = Stored \/ LogicStores
<1>1. ASSUME NEW c \in Conns, ReadMessages(c) \/ SyncFails(c)
      PROVE  Stored' = Stored
  BY <1>1, ConfirmType DEF ReadMessages, SyncFails, MarkMessagesAsRead, Stored
<1>2. ASSUME NEW c \in Conns, NEW id \in got[UserOf[c]], AckMessage(c, id) \/ AckFails(c, id)
      PROVE  Stored' = Stored
  BY <1>2, ConfirmType DEF AckMessage, AckFails, MarkMessageAsRead, Stored
<1>3. ASSUME NEW n \in delivered, NotifyDelivered(n)
      PROVE  Stored' = Stored
  BY <1>3, DeliveredType DEF NotifyDelivered, Stored
<1>4. CASE LogicStores
  BY <1>4 DEF LogicStores, InsertMessage, Stored
<1>5. ASSUME UNCHANGED rows
      PROVE  Stored' = Stored
  BY <1>5 DEF Stored
<1>6. ASSUME NEW c \in Conns,
             \/ Register(c) \/ SetRoute(c) \/ FetchUnread(c) \/ SendUnread(c) \/ Ping(c)
             \/ ReadPumpExit(c) \/ WritePump(c) \/ ClientLeaves(c)
      PROVE  UNCHANGED rows
  BY <1>6 DEF Register, SetRoute, FetchUnread, SendUnread, Ping, ReadPumpExit, Remove,
     CloseAfterRemove, WritePump, WriteFrame, WriteFails, PumpReturns, ClientLeaves, sharedVars
<1>7. ASSUME \/ \E d \in downQ : PushLookup(d)
             \/ \E h \in pushing : PushSend(h)
             \/ \E s \in delivered : PushAck(s)
             \/ \E u \in Users : RouteExpires(u)
             \/ \E g \in Gateways : GatewayCrash(g)
             \/ LogicPushes \/ UNCHANGED allSessionVars
      PROVE  UNCHANGED rows
  BY <1>7 DEF PushLookup, PushSend, PushAck, RouteExpires, GatewayCrash, LogicPushes, allSessionVars,
     sharedVars
<1> QED
  BY <1>1, <1>2, <1>3, <1>4, <1>5, <1>6, <1>7
     DEF SessionStep, GatewayStep, GatewayRun, HandlerStep, ReadPump

LEMMA AddressStep ==
  ASSUME SharedTypeOK, SessionTypeOK, AddressInv, [SessionStep]_allSessionVars
  PROVE  AddressInv'
<1> USE DEF SessionTypeOK
<1>s. Stored \subseteq Stored'
  BY SessionStored
<1>m. \A c : Mine(c) \subseteq Mine(c)'
  BY <1>s DEF Mine
<1>h. ASSUME UNCHANGED <<clients, unsynced, pushing, got>>
      PROVE  /\ EntriesOwned'
             /\ \A c \in Conns : unsynced'[c] \subseteq Mine(c)'
             /\ \A h \in pushing' : h.delivery.id \in Mine(h.conn)'
             /\ OnlyReceiver'
  BY <1>h, <1>s, SameHolders
<1>c. ASSUME UNCHANGED sendChan PROVE ChanMine'
  BY <1>c, <1>s, FramesGrow DEF AddressInv, ChanMine
<1>d. ASSUME downQ' \subseteq downQ PROVE \A d \in downQ' : d.id \in Stored'
  BY <1>d, <1>s DEF AddressInv
<1>k. \A c : Control \in MyFrames(c)
  BY DEF MyFrames
<1>1. ASSUME NEW c \in Conns, Register(c)
      PROVE  AddressInv'
  <2>1. ChanMine'
    BY <1>1, <1>s, CloseAllMine DEF Register, AddressInv
  <2>2. EntriesOwned'
    BY <1>1, ConnAssumption DEF Register, AddressInv, EntriesOwned, Accounts
  <2>3. OnlyReceiver'
    BY <1>1, <1>s DEF Register, AddressInv, OnlyReceiver
  <2>4. UNCHANGED <<unsynced, pushing, downQ>>
    BY <1>1 DEF Register, sharedVars
  <2> QED BY <1>m, <1>s, <2>1, <2>2, <2>3, <2>4 DEF AddressInv
<1>2. ASSUME NEW c \in Conns, SetRoute(c) \/ ReadMessages(c) \/ SyncFails(c)
      PROVE  AddressInv'
  <2>1. UNCHANGED <<clients, unsynced, pushing, got, sendChan, downQ>>
    BY <1>2 DEF SetRoute, ReadMessages, SyncFails
  <2> QED BY <1>h, <1>c, <1>d, <2>1 DEF AddressInv
<1>3. ASSUME NEW c \in Conns, FetchUnread(c)
      PROVE  AddressInv'
  <2>1. UNCHANGED <<clients, pushing, got, sendChan, rows, downQ>>
    BY <1>3 DEF FetchUnread, sharedVars
  <2>2. GetUnreadMessages(UserOf[c]) \subseteq Mine(c)
    BY DEF GetUnreadMessages, Mine
  <2>3. \A d \in Conns : unsynced'[d] \subseteq Mine(d)
    BY <1>3, <2>2 DEF FetchUnread, AddressInv
  <2>4. EntriesOwned' /\ OnlyReceiver' /\ ChanMine'
    BY <1>c, <1>s, <2>1 DEF AddressInv, EntriesOwned, OnlyReceiver
  <2> QED BY <1>m, <1>s, <2>1, <2>3, <2>4 DEF AddressInv
<1>4. ASSUME NEW c \in Conns, SendUnread(c)
      PROVE  AddressInv'
  <2>1. PICK id \in unsynced[c] :
          SendMessage(c, id) /\ unsynced' = [unsynced EXCEPT ![c] = @ \ {id}]
    BY <1>4 DEF SendUnread
  <2>2. UNCHANGED <<clients, pushing, got, rows, downQ>>
    BY <1>4 DEF SendUnread, sharedVars
  <2>3. ChanMine'
    <3>1. id \in MyFrames(c)
      BY <2>1 DEF AddressInv, MyFrames
    <3> QED BY <2>1, <2>2, <3>1, SendMessageMine DEF AddressInv, Stored
  <2>4. \A d \in Conns : unsynced'[d] \subseteq Mine(d)
    BY <2>1 DEF AddressInv
  <2>5. EntriesOwned' /\ OnlyReceiver'
    BY <1>s, <2>2 DEF AddressInv, EntriesOwned, OnlyReceiver
  <2> QED BY <1>m, <1>s, <2>2, <2>3, <2>4, <2>5 DEF AddressInv
<1>5. ASSUME NEW c \in Conns, Ping(c)
      PROVE  AddressInv'
  <2>1. UNCHANGED <<clients, unsynced, pushing, got, rows, downQ>>
    BY <1>5 DEF Ping, sharedVars
  <2>2. ChanMine'
    BY <1>5, <1>k, <2>1, SendMessageMine DEF Ping, AddressInv, Stored
  <2> QED BY <1>h, <1>d, <2>1, <2>2 DEF AddressInv
<1>6. ASSUME NEW c \in Conns, NEW id \in got[UserOf[c]], AckMessage(c, id)
      PROVE  AddressInv'
  <2>1. UNCHANGED <<clients, unsynced, pushing, got, downQ>> /\ UNCHANGED Stored
    BY <1>6, ConfirmType DEF AckMessage, MarkMessageAsRead, Stored
  <2>2. CASE UNCHANGED sendChan
    BY <1>h, <1>c, <1>d, <2>1, <2>2 DEF AddressInv
  <2>3. ASSUME NEW peer, peer # None, SendMessage(peer, Control),
               peer = clients[GatewayOf[c]][Sender[PayloadOf(id)]]
        PROVE  AddressInv'
    <3>1. id \in CopyIds
      BY ConnAssumption DEF Accounts
    <3>2. Sender[PayloadOf(id)] \in Accounts
      BY <3>1, PayloadAssumption DEF PayloadOf, CopyIds, Accounts
    <3>3. peer \in Conns
      BY <2>3, <3>2, ConnAssumption
    <3>4. ChanMine'
      BY <1>k, <2>1, <2>3, <3>3, SendMessageMine DEF AddressInv
    <3> QED BY <1>h, <1>d, <2>1, <3>4 DEF AddressInv
  <2> QED BY <1>6, <2>2, <2>3 DEF AckMessage
<1>7. ASSUME NEW c \in Conns, NEW id \in got[UserOf[c]], AckFails(c, id)
      PROVE  AddressInv'
  <2>1. UNCHANGED <<clients, unsynced, pushing, got, sendChan, downQ>>
    BY <1>7 DEF AckFails
  <2> QED BY <1>h, <1>c, <1>d, <2>1 DEF AddressInv
<1>8. ASSUME NEW c \in Conns, Remove(c)
      PROVE  AddressInv'
  <2>1. UNCHANGED <<unsynced, pushing, got, sendChan, downQ>>
    BY <1>8 DEF Remove
  <2>2. EntriesOwned'
    <3>1. \/ clients' = clients
          \/ clients' = [clients EXCEPT ![GatewayOf[c]][UserOf[c]] = None]
      BY <1>8 DEF Remove
    <3>2. \A g \in Gateways, u \in Accounts : clients'[g][u] \in {clients[g][u], None}
      <4> SUFFICES ASSUME NEW g \in Gateways, NEW u \in Accounts,
                          clients' = [clients EXCEPT ![GatewayOf[c]][UserOf[c]] = None]
                   PROVE  clients'[g][u] \in {clients[g][u], None}
        BY <3>1
      <4>1. clients[g] \in [Accounts -> Conns \cup {None}]
        OBVIOUS
      <4>2. CASE g # GatewayOf[c]
        BY <4>2
      <4>3. CASE g = GatewayOf[c]
        <5>1. clients'[g] = [clients[g] EXCEPT ![UserOf[c]] = None]
          BY <4>3
        <5> QED BY <4>1, <5>1
      <4> QED BY <4>2, <4>3
    <3> QED BY <3>2 DEF AddressInv, EntriesOwned
  <2>3. OnlyReceiver' /\ ChanMine'
    BY <1>c, <1>s, <2>1 DEF AddressInv, OnlyReceiver
  <2> QED BY <1>m, <1>s, <2>1, <2>2, <2>3 DEF AddressInv
<1>9. ASSUME NEW c \in Conns, CloseAfterRemove(c) \/ WriteFails(c)
      PROVE  AddressInv'
  <2>1. UNCHANGED <<clients, unsynced, pushing, got, downQ>>
    BY <1>9 DEF CloseAfterRemove, WriteFails, sharedVars
  <2>2. ChanMine'
    BY <1>9, <1>s, CloseAllMine DEF CloseAfterRemove, WriteFails, AddressInv
  <2> QED BY <1>h, <1>d, <2>1, <2>2 DEF AddressInv
<1>10. ASSUME NEW c \in Conns, WriteFrame(c)
       PROVE  AddressInv'
  <2>1. UNCHANGED <<clients, unsynced, pushing, rows, downQ>>
    BY <1>10 DEF WriteFrame, sharedVars
  <2>2. sendChan[c] \in Seq(MyFrames(c)) /\ sendChan[c] # <<>>
    BY <1>10 DEF WriteFrame, AddressInv, ChanMine
  <2>3. Head(sendChan[c]) \in MyFrames(c) /\ Tail(sendChan[c]) \in Seq(MyFrames(c))
    BY <2>2
  <2>4. ChanMine'
    BY <1>10, <2>1, <2>3 DEF WriteFrame, AddressInv, ChanMine, MyFrames, Mine, Stored
  <2>5. OnlyReceiver'
    <3>1. {Head(sendChan[c])} \ {Control} \subseteq Mine(c)
      BY <2>3 DEF MyFrames
    <3>2. \A u \in Accounts :
            got'[u] \subseteq got[u] \cup (IF u = UserOf[c] THEN Mine(c) ELSE {})
      BY <1>10, <3>1 DEF WriteFrame
    <3> QED BY <1>s, <3>2 DEF AddressInv, OnlyReceiver, Mine
  <2>6. EntriesOwned'
    BY <2>1 DEF AddressInv, EntriesOwned
  <2> QED BY <1>m, <1>s, <2>1, <2>4, <2>5, <2>6 DEF AddressInv
<1>11. ASSUME NEW c \in Conns, PumpReturns(c) \/ ClientLeaves(c)
       PROVE  AddressInv'
  <2>1. UNCHANGED <<clients, unsynced, pushing, got, sendChan, downQ>>
    BY <1>11 DEF PumpReturns, ClientLeaves, sharedVars
  <2> QED BY <1>h, <1>c, <1>d, <2>1 DEF AddressInv
<1>12. ASSUME NEW d \in downQ, PushLookup(d)
       PROVE  AddressInv'
  <2>1. UNCHANGED <<clients, unsynced, got, sendChan, rows>> /\ downQ' \subseteq downQ
    BY <1>12 DEF PushLookup
  <2>2. \A h \in pushing' : h.delivery.id \in Mine(h.conn)
    <3> SUFFICES ASSUME NEW h \in pushing', h \notin pushing
                 PROVE  h.delivery.id \in Mine(h.conn)
      BY DEF AddressInv
    <3>1. /\ h = [delivery |-> d, conn |-> clients[d.gateway][Receiver(d.id)]]
          /\ clients[d.gateway][Receiver(d.id)] # None
      BY <1>12 DEF PushLookup
    <3>2. d.gateway \in Gateways /\ Receiver(d.id) \in Accounts /\ d.id \in Stored
      BY DEF SharedTypeOK, Delivery, CopyIds, Receiver, AddressInv
    <3>3. UserOf[clients[d.gateway][Receiver(d.id)]] = Receiver(d.id)
      BY <3>1, <3>2 DEF AddressInv, EntriesOwned
    <3> QED BY <3>1, <3>2, <3>3 DEF Mine
  <2>3. EntriesOwned' /\ OnlyReceiver' /\ ChanMine'
    BY <1>c, <1>s, <2>1 DEF AddressInv, EntriesOwned, OnlyReceiver
  <2> QED BY <1>m, <1>d, <2>1, <2>2, <2>3 DEF AddressInv
<1>13. ASSUME NEW h \in pushing, PushSend(h)
       PROVE  AddressInv'
  <2>1. UNCHANGED <<clients, unsynced, got, rows, downQ>> /\ pushing' \subseteq pushing
    BY <1>13 DEF PushSend, sharedVars
  <2>2. ChanMine'
    <3>1. h.conn \in Conns /\ h.delivery.id \in MyFrames(h.conn)
      BY DEF Held, AddressInv, MyFrames
    <3> QED BY <1>13, <2>1, <3>1, SendMessageMine DEF PushSend, AddressInv, Stored
  <2>3. EntriesOwned' /\ OnlyReceiver'
    BY <1>s, <2>1 DEF AddressInv, EntriesOwned, OnlyReceiver
  <2> QED BY <1>m, <1>d, <2>1, <2>2, <2>3 DEF AddressInv
<1>14. ASSUME NEW s \in delivered, PushAck(s) \/ NotifyDelivered(s)
       PROVE  AddressInv'
  <2>1. UNCHANGED <<clients, unsynced, pushing, got, sendChan>> /\ downQ' \subseteq downQ
    BY <1>14 DEF PushAck, NotifyDelivered
  <2> QED BY <1>h, <1>c, <1>d, <2>1 DEF AddressInv
<1>15. ASSUME NEW g \in Gateways, GatewayCrash(g)
       PROVE  AddressInv'
  <2>1. /\ UNCHANGED <<unsynced, got, downQ>>
        /\ pushing' \subseteq pushing
        /\ clients' = [clients EXCEPT ![g] = [u \in Accounts |-> None]]
    BY <1>15 DEF GatewayCrash
  <2>2. ChanMine'
    BY <1>15, <1>s, CloseAllMine DEF GatewayCrash, AddressInv
  <2>3. EntriesOwned' /\ OnlyReceiver'
    BY <1>s, <2>1 DEF AddressInv, EntriesOwned, OnlyReceiver
  <2> QED BY <1>m, <1>d, <2>1, <2>2, <2>3 DEF AddressInv
<1>16. CASE LogicPushes
  <2>1. UNCHANGED <<clients, unsynced, pushing, got, sendChan, rows>>
    BY <1>16 DEF LogicPushes, sessionVars
  <2>2. \A d \in downQ' : d.id \in Stored'
    BY <1>16, <1>s DEF LogicPushes, AddressInv
  <2> QED BY <1>h, <1>c, <2>1, <2>2 DEF AddressInv
<1>17. CASE LogicStores \/ (\E u \in Users : RouteExpires(u)) \/ UNCHANGED allSessionVars
  <2>1. UNCHANGED <<clients, unsynced, pushing, got, sendChan, downQ>>
    BY <1>17 DEF LogicStores, RouteExpires, sessionVars, allSessionVars, sharedVars
  <2> QED BY <1>h, <1>c, <1>d, <2>1 DEF AddressInv
<1> QED
  BY <1>1, <1>2, <1>3, <1>4, <1>5, <1>6, <1>7, <1>8, <1>9, <1>10, <1>11, <1>12, <1>13, <1>14,
     <1>15, <1>16, <1>17
     DEF SessionStep, GatewayStep, GatewayRun, HandlerStep, ReadPump, ReadPumpExit, WritePump

LEMMA AddressInit == SharedInit /\ SessionInit => AddressInv
<1> SUFFICES ASSUME SharedInit, SessionInit PROVE AddressInv
  OBVIOUS
<1>1. EntriesOwned /\ OnlyReceiver
  BY DEF SessionInit, EntriesOwned, OnlyReceiver
<1>2. ChanMine
  BY DEF SessionInit, ChanMine
<1> QED BY <1>1, <1>2 DEF SharedInit, SessionInit, AddressInv

(* A client is only sent stored copies addressed to its account, for every  *)
(* interleaving of pushes, synchronisations, takeovers and crashes.         *)
THEOREM SessionOnlyReceiver == SessionSpec => []OnlyReceiver
<1>1. AddressInv => OnlyReceiver
  BY DEF AddressInv
<1> QED BY <1>1, AddressInit, SessionTypeCorrect, AddressStep, PTL DEF SessionSpec, GatewayInit, SessionStep

-----------------------------------------------------------------------------
(* The route of an account is written by whichever of its handlers comes    *)
(* last and deleted by whichever entry is removed.  It names the gateway of *)
(* the open connection if the account keeps to one gateway; that it does    *)
(* not hold with two is the finding of the run session_two_gateways.        *)
OneGatewayPerUser == \A c, d \in Conns : UserOf[c] = UserOf[d] => GatewayOf[c] = GatewayOf[d]
Routed == Attached \ {"registered"}

(* Once something has failed, something has. *)
LEMMA FaultSeen ==
  ASSUME faults \in 0..MaxFaults, Fault \/ NoFault, faults' = 0
  PROVE  NoFault /\ faults = 0
BY FaultAssumption DEF Fault, NoFault

LEMMA SessionFaults ==
  ASSUME [SessionStep]_allSessionVars
  PROVE  Fault \/ NoFault
BY DEF SessionStep, GatewayStep, GatewayRun, HandlerStep, ReadPump, ReadPumpExit, WritePump,
   Register, SetRoute, FetchUnread, SendUnread, ReadMessages, SyncFails, Ping, AckMessage,
   AckFails, Remove, CloseAfterRemove, WriteFrame, WriteFails, PumpReturns, ClientLeaves,
   PushLookup, PushSend, PushAck, NotifyDelivered, RouteExpires, GatewayCrash, LogicStores,
   LogicPushes, allSessionVars, sharedVars, NoFault

(* A step that leaves the routes alone, reopens nothing and takes nobody    *)
(* past SetRoute.                                                           *)
LEMMA SameRoutes ==
  ASSUME OnlineIsRouted, UNCHANGED route, closed \subseteq closed',
         \A c \in Conns : stage'[c] \in Routed => stage[c] \in Routed,
         faults' = 0 => faults = 0
  PROVE  OnlineIsRouted'
BY DEF OnlineIsRouted, Routed

LEMMA OnlineIsRoutedStep ==
  ASSUME OneGatewayPerUser, SharedTypeOK, SessionTypeOK, OneOpenConnection, OnlineIsRouted,
         [SessionStep]_allSessionVars
  PROVE  OnlineIsRouted'
<1>f. /\ faults' = 0 => faults = 0 /\ NoFault
      /\ Fault => faults' # 0
  BY SessionFaults, FaultSeen, FaultAssumption DEF SharedTypeOK, Fault
<1>1. ASSUME Fault PROVE OnlineIsRouted'
  BY <1>1, <1>f DEF OnlineIsRouted
<1>2. ASSUME NEW c \in Conns, SetRoute(c), NoFault
      PROVE  OnlineIsRouted'
  <2>1. route' = [route EXCEPT ![UserOf[c]] = GatewayOf[c]] \/ Fault
    BY <1>2 DEF SetRoute
  <2>2. CASE route' = [route EXCEPT ![UserOf[c]] = GatewayOf[c]]
    <3> SUFFICES ASSUME NEW d \in Conns, faults' = 0, stage'[d] \in Routed, d \notin closed'
                 PROVE  route'[UserOf[d]] = GatewayOf[d]
      BY DEF OnlineIsRouted, Routed
    <3>1. route \in [Accounts -> Gateways \cup {None}] /\ UserOf[d] \in Accounts
      BY ConnAssumption DEF SharedTypeOK, Accounts
    <3>2. CASE UserOf[d] = UserOf[c]
      BY <2>2, <3>1, <3>2 DEF OneGatewayPerUser
    <3>3. CASE UserOf[d] # UserOf[c]
      <4>1. d # c /\ stage[d] \in Routed /\ d \notin closed /\ faults = 0
        BY <1>2, <1>f, <3>3 DEF SetRoute, SessionTypeOK
      <4> QED BY <2>2, <3>1, <3>3, <4>1 DEF OnlineIsRouted, Routed
    <3> QED BY <3>2, <3>3
  <2> QED BY <1>1, <2>1, <2>2
<1>3. ASSUME NEW c \in Conns, Remove(c)
      PROVE  OnlineIsRouted'
  <2>1. /\ UNCHANGED closed
        /\ \A d \in Conns : stage'[d] \in Routed => stage[d] \in Routed /\ d # c
    BY <1>3 DEF Remove, Routed, Attached, SessionTypeOK
  <2>2. CASE UNCHANGED route
    BY <1>f, <2>1, <2>2, SameRoutes
  <2>3. CASE Entry(c) = c /\ route' = [route EXCEPT ![UserOf[c]] = None]
    <3> SUFFICES ASSUME NEW d \in Conns, faults' = 0, stage'[d] \in Routed, d \notin closed'
                 PROVE  route'[UserOf[d]] = GatewayOf[d]
      BY DEF OnlineIsRouted, Routed
    <3>1. stage[d] \in Routed /\ d \notin closed /\ faults = 0 /\ d # c
      BY <1>f, <2>1
    <3>2. Entry(d) = d
      BY <3>1 DEF OneOpenConnection, Routed
    <3>3. UserOf[d] # UserOf[c]
      BY <2>3, <3>1, <3>2 DEF Entry, OneGatewayPerUser
    <3>4. route[UserOf[d]] = GatewayOf[d]
      BY <3>1 DEF OnlineIsRouted, Routed
    <3> QED BY <2>3, <3>3, <3>4 DEF SharedTypeOK
  <2> QED BY <1>3, <2>2, <2>3 DEF Remove
<1>4. ASSUME NEW c \in Conns, \/ Register(c) \/ FetchUnread(c) \/ SendUnread(c) \/ ReadMessages(c)
                              \/ CloseAfterRemove(c)
      PROVE  OnlineIsRouted'
  <2>1. UNCHANGED route /\ closed \subseteq closed'
    BY <1>4, SendMessageCloses
       DEF Register, FetchUnread, SendUnread, ReadMessages, CloseAfterRemove, CloseAll, sharedVars
  <2>2. /\ stage'[c] \in Routed => stage[c] \in Routed
        /\ \A d \in Conns \ {c} : stage'[d] = stage[d]
    BY <1>4 DEF Register, FetchUnread, SendUnread, ReadMessages, CloseAfterRemove, Routed,
       Attached, SessionTypeOK
  <2> QED BY <1>f, <2>1, <2>2, SameRoutes
<1>5. ASSUME UNCHANGED <<route, stage>>, closed \subseteq closed' PROVE OnlineIsRouted'
  BY <1>5, <1>f, SameRoutes
<1>6. ASSUME NEW c \in Conns, Ping(c) \/ WritePump(c) \/ ClientLeaves(c)
      PROVE  OnlineIsRouted'
  BY <1>5, <1>6, SendMessageCloses DEF Ping, WritePump, WriteFrame, WriteFails, PumpReturns,
     ClientLeaves, CloseAll, sharedVars
<1>7. ASSUME NEW c \in Conns, NEW id \in got[UserOf[c]], AckMessage(c, id) \/ AckFails(c, id)
      PROVE  OnlineIsRouted'
  BY <1>1, <1>5, <1>7, SendMessageCloses DEF AckMessage, AckFails
<1>8. CASE \/ \E d \in downQ : PushLookup(d)
           \/ \E h \in pushing : PushSend(h)
           \/ \E s \in delivered : PushAck(s) \/ NotifyDelivered(s)
           \/ LogicStores \/ LogicPushes \/ UNCHANGED allSessionVars
  <2>1. UNCHANGED <<route, stage>> /\ closed \subseteq closed'
    BY <1>8, SendMessageCloses DEF PushLookup, PushSend, PushAck, NotifyDelivered, LogicStores,
       LogicPushes, allSessionVars, sessionVars, sharedVars
  <2> QED BY <1>5, <2>1
<1>9. ASSUME NEW c \in Conns, SyncFails(c) PROVE OnlineIsRouted'
  BY <1>1, <1>9 DEF SyncFails
<1>10. CASE (\E u \in Users : RouteExpires(u)) \/ (\E g \in Gateways : GatewayCrash(g))
  BY <1>1, <1>10 DEF RouteExpires, GatewayCrash
<1>11. ASSUME NEW c \in Conns, SetRoute(c) PROVE OnlineIsRouted'
  BY <1>1, <1>2, <1>11 DEF SetRoute
<1> QED
  BY <1>3, <1>4, <1>6, <1>7, <1>8, <1>9, <1>10, <1>11
     DEF SessionStep, GatewayStep, GatewayRun, HandlerStep, ReadPump, ReadPumpExit

LEMMA OnlineIsRoutedInit == SessionInit => OnlineIsRouted
BY DEF SessionInit, OnlineIsRouted, Attached

(* If an account keeps to one gateway, then, while nothing fails, pushes    *)
(* for an open connection are published to its gateway, whichever older     *)
(* connections of the account are still being torn down.                    *)
THEOREM SessionOnlineIsRouted ==
  ASSUME OneGatewayPerUser
  PROVE  SessionSpec => []OnlineIsRouted
<1>1. /\ SharedTypeOK /\ SessionTypeOK /\ OneOpenConnection /\ OnlineIsRouted
      /\ [SessionStep]_allSessionVars
      => OnlineIsRouted'
  BY OnlineIsRoutedStep
<1> QED
  BY <1>1, OnlineIsRoutedInit, SessionTypeCorrect, SessionOneOpenConnection, PTL
     DEF SessionSpec, GatewayInit, SessionStep
=============================================================================
