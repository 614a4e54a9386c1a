--------------------------- MODULE GatewaySession ---------------------------
(***************************************************************************)
(* A gateway's WebSocket side (gateway/ws): the map of connections CliMap, *)
(* the HTTP handler that registers a connection, writes its route and      *)
(* synchronises unread messages, the read and write pumps with the bounded *)
(* SendChan between them, and the workers that consume the gateway's down  *)
(* queue.  Logic's RPCs are their effect on the table of messages.         *)
(*                                                                         *)
(* A connection is used once: a client that comes back is another one.     *)
(* Logic appears as the environment, which stores and pushes copies.       *)
(***************************************************************************)
EXTENDS SharedState, Sequences

CONSTANTS
  Conns,          \* the WebSocket connections of a behaviour
  UserOf,         \* [Conns -> Users]
  GatewayOf,      \* [Conns -> Gateways]
  SendCap,        \* capacity of SendChan, 1024 in the code
  Control         \* a frame that carries no copy: pong, server_ack, read receipt

ASSUME ConnAssumption ==
  /\ None \notin Conns
  /\ UserOf \in [Conns -> Users]
  /\ GatewayOf \in [Conns -> Gateways]
  /\ SendCap \in Nat \ {0}
  /\ Control \notin CopyIds

VARIABLES
  clients,    \* CliMap of each gateway: account -> connection
  stage,      \* where the handler of a connection, then its ReadPump, stands
  closed,     \* connections whose Close has run
  dropped,    \* ... whose client went away or sent what ReadPump cannot read
  pump,       \* WritePump: not started, running, returned
  unsynced,   \* copies SyncUnread returned and the handler has still to send
  sendChan,   \* SendChan of an open connection
  got,        \* copies an account's client has received
  pushing,    \* down deliveries a worker holds, with the client it found
  delivered   \* down deliveries handed to a connection, to be acked and reported

sessionVars == <<clients, stage, closed, dropped, pump, unsynced, sendChan, got,
                 pushing, delivered>>
allSessionVars == <<sessionVars, sharedVars>>

Stages == {"new", "registered", "routed", "syncing", "marking", "reading",
           "stuck", "hung", "leaving", "gone"}
Attached == {"registered", "routed", "syncing", "marking", "reading", "stuck", "hung"}
Frames == CopyIds \cup {Control}
Held == [delivery : Delivery, conn : Conns]
Handed == [delivery : Delivery, acked : BOOLEAN]

Entry(c) == clients[GatewayOf[c]][UserOf[c]]

SessionTypeOK ==
  /\ clients \in [Gateways -> [Accounts -> Conns \cup {None}]]
  /\ stage \in [Conns -> Stages]
  /\ closed \subseteq Conns
  /\ dropped \subseteq Conns
  /\ pump \in [Conns -> {"off", "running", "returned"}]
  /\ unsynced \in [Conns -> SUBSET CopyIds]
  /\ sendChan \in [Conns -> Seq(Frames)]
  /\ \A c \in Conns : Len(sendChan[c]) <= SendCap
  /\ got \in [Accounts -> SUBSET CopyIds]
  /\ pushing \subseteq Held
  /\ delivered \subseteq Handed

SessionInit ==
  /\ clients = [g \in Gateways |-> [u \in Accounts |-> None]]
  /\ stage = [c \in Conns |-> "new"]
  /\ closed = {} /\ dropped = {}
  /\ pump = [c \in Conns |-> "off"]
  /\ unsynced = [c \in Conns |-> {}]
  /\ sendChan = [c \in Conns |-> <<>>]
  /\ got = [u \in Accounts |-> {}]
  /\ pushing = {} /\ delivered = {}

-----------------------------------------------------------------------------
(* Client.Close, once: the write pump returns, what SendChan holds is lost. *)
CloseAll(conns) ==
  /\ closed' = closed \cup conns
  /\ sendChan' = [c \in Conns |-> IF c \in conns THEN <<>> ELSE sendChan[c]]

(* Slip: SendMessage does not look at the room left. *)
SendUnbounded(c, frame) ==
  /\ sendChan' = [sendChan EXCEPT ![c] = Append(@, frame)]
  /\ UNCHANGED closed

(* Client.SendMessage: a full channel drops the frame and closes the        *)
(* connection, a closed connection drops it.                                *)
SendMessage(c, frame) ==
  \/ /\ c \in closed
     /\ UNCHANGED <<closed, sendChan>>
  \/ /\ c \notin closed
     /\ Len(sendChan[c]) < SendCap
     /\ sendChan' = [sendChan EXCEPT ![c] = Append(@, frame)]
     /\ UNCHANGED closed
  \/ /\ c \notin closed
     /\ Len(sendChan[c]) = SendCap
     /\ CloseAll({c})

-----------------------------------------------------------------------------
(* Handler.  Register kicks and closes the connection it replaces, under    *)
(* the lock of CliMap.                                                      *)
Register(c) ==
  /\ stage[c] = "new"
  /\ CloseAll(IF Entry(c) = None THEN {} ELSE {Entry(c)})
  /\ clients' = [clients EXCEPT ![GatewayOf[c]][UserOf[c]] = c]
  /\ stage' = [stage EXCEPT ![c] = "registered"]
  /\ UNCHANGED <<dropped, pump, unsynced, got, pushing, delivered, sharedVars>>

(* A route that cannot be written is only logged. *)
SetRoute(c) ==
  /\ stage[c] = "registered"
  /\ \/ route' = [route EXCEPT ![UserOf[c]] = GatewayOf[c]] /\ NoFault
     \/ UNCHANGED route /\ Fault
  /\ pump' = [pump EXCEPT ![c] = "running"]
  /\ stage' = [stage EXCEPT ![c] = "routed"]
  /\ UNCHANGED <<clients, closed, dropped, unsynced, sendChan, got, pushing,
                 delivered, rows, downQ>>

(* syncMessage: SyncUnread, one SendMessage per unread copy, ReadMessages.  *)
FetchUnread(c) ==
  /\ stage[c] = "routed"
  /\ unsynced' = [unsynced EXCEPT ![c] = GetUnreadMessages(UserOf[c])]
  /\ stage' = [stage EXCEPT ![c] = IF unsynced'[c] = {} THEN "reading" ELSE "syncing"]
  /\ UNCHANGED <<clients, closed, dropped, pump, sendChan, got, pushing, delivered,
                 sharedVars>>

SendUnread(c) ==
  /\ stage[c] = "syncing"
  /\ \E id \in unsynced[c] :
       /\ SendMessage(c, id)
       /\ unsynced' = [unsynced EXCEPT ![c] = @ \ {id}]
  /\ stage' = [stage EXCEPT ![c] = IF unsynced'[c] = {} THEN "marking" ELSE "syncing"]
  /\ UNCHANGED <<clients, dropped, pump, got, pushing, delivered, sharedVars>>

ReadMessages(c) ==
  /\ stage[c] = "marking"
  /\ MarkMessagesAsRead(UserOf[c])
  /\ stage' = [stage EXCEPT ![c] = "reading"]
  /\ UNCHANGED <<clients, closed, dropped, pump, unsynced, sendChan, got, pushing,
                 delivered, route, downQ, faults>>

(* One of the two RPCs fails, the second one perhaps after its update: the  *)
(* handler returns without starting ReadPump.  Or the RPC never returns,    *)
(* since its context has no end (see GeeRpc), and neither does the handler. *)
SyncFails(c) ==
  /\ Fault
  /\ \/ stage[c] = "routed" /\ UNCHANGED rows
     \/ stage[c] = "marking" /\ (UNCHANGED rows \/ MarkMessagesAsRead(UserOf[c]))
  /\ \E s \in {"stuck", "hung"} : stage' = [stage EXCEPT ![c] = s]
  /\ UNCHANGED <<clients, closed, dropped, pump, unsynced, sendChan, got, pushing,
                 delivered, route, downQ>>

-----------------------------------------------------------------------------
(* ReadPump.  A ping is answered; its EXPIRE leaves the route as it is, and *)
(* does not write one that is gone.                                         *)
Ping(c) ==
  /\ stage[c] = "reading"
  /\ c \notin dropped
  /\ SendMessage(c, Control)
  /\ UNCHANGED <<clients, stage, dropped, pump, unsynced, got, pushing, delivered,
                 sharedVars>>

(* handleAck: AckMessage, then a receipt to the sender if its connection is *)
(* on this gateway.                                                         *)
AckMessage(c, id) ==
  /\ stage[c] = "reading"
  /\ c \notin dropped
  /\ id \in got[UserOf[c]]
  /\ MarkMessageAsRead(id)
  /\ LET peer == clients[GatewayOf[c]][Sender[PayloadOf(id)]]
     IN IF peer = None THEN UNCHANGED <<closed, sendChan>> ELSE SendMessage(peer, Control)
  /\ UNCHANGED <<clients, stage, dropped, pump, unsynced, got, pushing, delivered,
                 route, downQ, faults>>

(* ReadPump logs the error and reads on, or waits for the call for good. *)
AckFails(c, id) ==
  /\ stage[c] = "reading"
  /\ c \notin dropped
  /\ id \in got[UserOf[c]]
  /\ Fault
  /\ UNCHANGED rows \/ MarkMessageAsRead(id)
  /\ \E s \in {"reading", "hung"} : stage' = [stage EXCEPT ![c] = s]
  /\ UNCHANGED <<clients, closed, dropped, pump, unsynced, sendChan, got, pushing,
                 delivered, route, downQ>>

(* Slip: Remove does not compare the entry with the connection. *)
RemoveWhoeverIsThere(c) ==
  /\ stage[c] = "reading"
  /\ c \in closed \cup dropped
  /\ stage' = [stage EXCEPT ![c] = "leaving"]
  /\ clients' = [clients EXCEPT ![GatewayOf[c]][UserOf[c]] = None]
  /\ route' = [route EXCEPT ![UserOf[c]] = None]
  /\ UNCHANGED <<closed, dropped, pump, unsynced, sendChan, got, pushing, delivered,
                 rows, downQ, faults>>

(* Slip: the comparison guards the entry only, the DEL always runs. *)
RemoveRouteAlways(c) ==
  /\ stage[c] = "reading"
  /\ c \in closed \cup dropped
  /\ stage' = [stage EXCEPT ![c] = "leaving"]
  /\ IF Entry(c) = c
     THEN clients' = [clients EXCEPT ![GatewayOf[c]][UserOf[c]] = None]
     ELSE UNCHANGED clients
  /\ route' = [route EXCEPT ![UserOf[c]] = None]
  /\ UNCHANGED <<closed, dropped, pump, unsynced, sendChan, got, pushing, delivered,
                 rows, downQ, faults>>

(* The deferred CliMap.Remove and Close.  Remove deletes the entry and the  *)
(* route only if the entry is this connection; DEL may fail unnoticed.      *)
Remove(c) ==
  /\ stage[c] = "reading"
  /\ c \in closed \cup dropped
  /\ stage' = [stage EXCEPT ![c] = "leaving"]
  /\ IF Entry(c) = c
     THEN /\ clients' = [clients EXCEPT ![GatewayOf[c]][UserOf[c]] = None]
          /\ \/ route' = [route EXCEPT ![UserOf[c]] = None] /\ NoFault
             \/ UNCHANGED route /\ Fault
     ELSE UNCHANGED <<clients, route, faults>>
  /\ UNCHANGED <<closed, dropped, pump, unsynced, sendChan, got, pushing, delivered,
                 rows, downQ>>

CloseAfterRemove(c) ==
  /\ stage[c] = "leaving"
  /\ CloseAll({c})
  /\ stage' = [stage EXCEPT ![c] = "gone"]
  /\ UNCHANGED <<clients, dropped, pump, unsynced, got, pushing, delivered, sharedVars>>

-----------------------------------------------------------------------------
(* WritePump.  A write succeeds once the socket took the frame, also if     *)
(* nobody is left to read it.                                               *)
WriteFrame(c) ==
  /\ pump[c] = "running"
  /\ c \notin closed
  /\ sendChan[c] # <<>>
  /\ sendChan' = [sendChan EXCEPT ![c] = Tail(@)]
  /\ \/ got' = [got EXCEPT ![UserOf[c]] = @ \cup ({Head(sendChan[c])} \ {Control})]
     \/ c \in dropped /\ UNCHANGED got
  /\ UNCHANGED <<clients, stage, closed, dropped, pump, unsynced, pushing, delivered,
                 sharedVars>>

WriteFails(c) ==
  /\ pump[c] = "running"
  /\ c \in dropped \ closed
  /\ sendChan[c] # <<>>
  /\ CloseAll({c})
  /\ pump' = [pump EXCEPT ![c] = "returned"]
  /\ UNCHANGED <<clients, stage, dropped, unsynced, got, pushing, delivered, sharedVars>>

(* Slip: the pump waits on SendChan alone, not on closed. *)
PumpWaitsForFrame(c) ==
  /\ pump[c] = "running"
  /\ c \in closed
  /\ sendChan[c] # <<>>
  /\ pump' = [pump EXCEPT ![c] = "returned"]
  /\ UNCHANGED <<clients, stage, closed, dropped, unsynced, sendChan, got, pushing,
                 delivered, sharedVars>>

PumpReturns(c) ==
  /\ pump[c] = "running"
  /\ c \in closed
  /\ pump' = [pump EXCEPT ![c] = "returned"]
  /\ UNCHANGED <<clients, stage, closed, dropped, unsynced, sendChan, got, pushing,
                 delivered, sharedVars>>

-----------------------------------------------------------------------------
(* handleMQDelivery.  The connection a worker found may be replaced or      *)
(* closed before SendMessage; the delivery is acked whatever came of it,    *)
(* and a goroutine reports it to Logic.                                     *)
PushLookup(d) ==
  /\ d \in downQ
  /\ \A h \in pushing : h.delivery # d
  /\ [delivery |-> d, acked |-> FALSE] \notin delivered
  /\ LET c == clients[d.gateway][Receiver(d.id)]
     IN IF c = None
        THEN downQ' = downQ \ {d} /\ UNCHANGED pushing
        ELSE pushing' = pushing \cup {[delivery |-> d, conn |-> c]} /\ UNCHANGED downQ
  /\ UNCHANGED <<clients, stage, closed, dropped, pump, unsynced, sendChan, got,
                 delivered, rows, route, faults>>

PushSend(h) ==
  /\ h \in pushing
  /\ SendMessage(h.conn, h.delivery.id)
  /\ pushing' = pushing \ {h}
  /\ delivered' = delivered \cup {[delivery |-> h.delivery, acked |-> FALSE]}
  /\ UNCHANGED <<clients, stage, dropped, pump, unsynced, got, sharedVars>>

PushAck(s) ==
  /\ s \in delivered /\ ~s.acked
  /\ delivered' = (delivered \ {s}) \cup {[s EXCEPT !.acked = TRUE]}
  /\ downQ' = downQ \ {s.delivery}
  /\ UNCHANGED <<clients, stage, closed, dropped, pump, unsynced, sendChan, got,
                 pushing, rows, route, faults>>

NotifyDelivered(s) ==
  /\ s \in delivered /\ s.acked
  /\ delivered' = delivered \ {s}
  /\ \/ MarkSendTransportDelivered(s.delivery.id) /\ NoFault
     \/ UNCHANGED rows /\ Fault
  /\ UNCHANGED <<clients, stage, closed, dropped, pump, unsynced, sendChan, got,
                 pushing, route, downQ>>

-----------------------------------------------------------------------------
(* Clients, time and failures. *)
ClientLeaves(c) ==
  /\ stage[c] \in Attached
  /\ c \notin closed \cup dropped
  /\ dropped' = dropped \cup {c}
  /\ UNCHANGED <<clients, stage, closed, pump, unsynced, sendChan, got, pushing,
                 delivered, sharedVars>>

(* The time to live of a route runs out, 24 hours after SetRoute or 30      *)
(* seconds after the last ping.                                             *)
RouteExpires(u) ==
  /\ route[u] # None
  /\ Fault
  /\ route' = [route EXCEPT ![u] = None]
  /\ UNCHANGED <<sessionVars, rows, downQ>>

(* The process dies with its connections; the broker requeues what was not  *)
(* acked, the routes stay.                                                  *)
GatewayCrash(g) ==
  LET here == {c \in Conns : GatewayOf[c] = g /\ stage[c] # "new"}
  IN /\ Fault
     /\ CloseAll(here)
     /\ clients' = [clients EXCEPT ![g] = [u \in Accounts |-> None]]
     /\ stage' = [c \in Conns |-> IF c \in here THEN "gone" ELSE stage[c]]
     /\ pump' = [c \in Conns |-> IF c \in here THEN "returned" ELSE pump[c]]
     /\ pushing' = {h \in pushing : h.delivery.gateway # g}
     /\ delivered' = {s \in delivered : s.delivery.gateway # g}
     /\ UNCHANGED <<dropped, unsynced, got, rows, route, downQ>>

-----------------------------------------------------------------------------
HandlerStep(c) == SetRoute(c) \/ FetchUnread(c) \/ SendUnread(c) \/ ReadMessages(c)
ReadPumpExit(c) == Remove(c) \/ CloseAfterRemove(c)
WritePump(c) == WriteFrame(c) \/ WriteFails(c) \/ PumpReturns(c)
ReadPump(c) ==
  \/ Ping(c) \/ ReadPumpExit(c)
  \/ \E id \in got[UserOf[c]] : AckMessage(c, id) \/ AckFails(c, id)

GatewayRun ==
  \/ \E c \in Conns : \/ Register(c) \/ HandlerStep(c) \/ SyncFails(c)
                       \/ ReadPump(c) \/ WritePump(c) \/ ClientLeaves(c)
  \/ \E d \in downQ : PushLookup(d)
  \/ \E h \in pushing : PushSend(h)
  \/ \E s \in delivered : PushAck(s) \/ NotifyDelivered(s)
  \/ \E u \in Users : RouteExpires(u)

GatewayStep == GatewayRun \/ \E g \in Gateways : GatewayCrash(g)

(* Logic, as seen from here. *)
LogicStores == \E p \in Payloads, u \in Users :
  /\ Kind[p] = "single_chat" /\ u \in Audience[p]
  /\ InsertMessage(<<p, u, 0>>, FALSE)
  /\ UNCHANGED <<sessionVars, route, downQ, faults>>

LogicPushes == \E id \in Stored, g \in Gateways :
  /\ downQ' = downQ \cup {[id |-> id, gateway |-> g]}
  /\ UNCHANGED <<sessionVars, rows, route, faults>>

(* Every step of the three goroutines changes the gateway's own state.     *)
SessionFairness == \A c \in Conns :
  /\ WF_sessionVars(HandlerStep(c) \/ ReadPumpExit(c))
  /\ WF_sessionVars(WritePump(c))

GatewayInit == SharedInit /\ SessionInit

SessionSpec ==
  /\ GatewayInit
  /\ [][GatewayStep \/ LogicStores \/ LogicPushes]_allSessionVars
  /\ SessionFairness

-----------------------------------------------------------------------------
(* Of a user's connections to one gateway at most one is open, and it is    *)
(* the one CliMap.Get returns: a takeover closes the old connection, and    *)
(* its late ReadPump exit does not take the new entry away (manager.go:21). *)
OneOpenConnection == \A c \in Conns :
  stage[c] \in Attached /\ c \notin closed => Entry(c) = c

(* A client is only ever sent stored copies addressed to its account,       *)
(* whoever replaced its connection while they were on their way.            *)
OnlyReceiver == \A u \in Accounts : \A id \in got[u] :
  id \in Stored /\ Receiver(id) = u

(* While nothing fails, an open connection whose handler has written its    *)
(* route keeps it: pushes are published to the gateway that holds it, even  *)
(* while an older connection of the same user is still being torn down.     *)
OnlineIsRouted == \A c \in Conns :
  /\ faults = 0
  /\ stage[c] \in Attached \ {"registered"}
  /\ c \notin closed
  => route[UserOf[c]] = GatewayOf[c]

(* upload_consumer.go:91-95: a receiver without a route is offline.         *)
UnroutedIsOffline == \A c \in Conns :
  /\ faults = 0
  /\ route[UserOf[c]] = None
  => stage[c] \notin Attached \ {"registered"} \/ c \in closed

(* The goroutines of a closed connection return: its WritePump, whatever    *)
(* happens, and the read side's, unless the handler gave up before starting *)
(* ReadPump or an RPC of theirs never returns.  (A connection is used once, *)
(* so that with those of a behaviour in the end all of them have.)          *)
Reaped(c) == pump[c] = "returned" /\ stage[c] \in {"gone", "stuck", "hung"}
ClosedIsReaped == <>[](\A c \in closed : Reaped(c))
=============================================================================
