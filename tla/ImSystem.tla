------------------------------ MODULE ImSystem ------------------------------
(***************************************************************************)
(* Gateways and Logic together: a client's chat message goes from its      *)
(* gateway's handler (gateway/ws/chat.go) over the upload queue to a Logic *)
(* worker, into the table of messages, and over a down queue or at the     *)
(* next login to its receivers.                                            *)
(*                                                                         *)
(* UploadConsumer and GatewaySession share the variables of SharedState;   *)
(* their environment steps are gone, since each is the other's             *)
(* environment.  This module adds the goroutines the gateway starts per    *)
(* chat message, which join the two at PublishUpload.                      *)
(***************************************************************************)
EXTENDS UploadConsumer, GatewaySession

VARIABLES
  chat,         \* where the goroutine of a message stands
  origin,       \* the gateway it came in on
  counter,      \* Redis counters seq:<conversation>:<participant>
  seq,          \* SeqID, 0 before it is drawn
  serverAcked   \* server_ack was handed to the sender's connection

chatVars == <<chat, origin, counter, seq, serverAcked>>
imVars == <<uploadVars, sessionVars, chatVars, sharedVars>>

ChatSteps == {"unsent", "numbering", "publishing", "acking", "done", "failed"}

(* The conversation of a message and, with its sender, the key of its       *)
(* counter.                                                                 *)
Conversation(p) ==
  CASE Kind[p] = "single_chat" -> <<"single", {Sender[p]} \cup Audience[p]>>
    [] Kind[p] = "group_chat" -> <<"group", Audience[p]>>
    [] OTHER -> <<"ai", {Sender[p]}>>
SeqKey(p) == <<Conversation(p), Sender[p]>>
SeqKeys == {SeqKey(p) : p \in Payloads}

ChatTypeOK ==
  /\ chat \in [Payloads -> ChatSteps]
  /\ origin \in [Payloads -> Gateways \cup {None}]
  /\ counter \in [SeqKeys -> Nat]
  /\ seq \in [Payloads -> Nat]
  /\ serverAcked \subseteq Payloads

ChatInit ==
  /\ chat = [p \in Payloads |-> "unsent"]
  /\ origin = [p \in Payloads |-> None]
  /\ counter = [k \in SeqKeys |-> 0]
  /\ seq = [p \in Payloads |-> 0]
  /\ serverAcked = {}

ImInit == SharedInit /\ UploadInit /\ SessionInit /\ ChatInit

-----------------------------------------------------------------------------
(* ReadPump starts a goroutine per chat message and reads on; a chat_type   *)
(* that is none of the three is only logged.                                *)
ReceiveChat(c, p) ==
  /\ stage[c] = "reading"
  /\ c \notin dropped
  /\ Storable(p)
  /\ UserOf[c] = Sender[p]
  /\ chat[p] = "unsent"
  /\ chat' = [chat EXCEPT ![p] = "numbering"]
  /\ origin' = [origin EXCEPT ![p] = GatewayOf[c]]
  /\ UNCHANGED <<counter, seq, serverAcked, uploadVars, sessionVars, sharedVars>>

(* GetNextSeqID: INCR. *)
NextSeq(p) ==
  /\ chat[p] = "numbering"
  /\ counter' = [counter EXCEPT ![SeqKey(p)] = @ + 1]
  /\ seq' = [seq EXCEPT ![p] = counter'[SeqKey(p)]]
  /\ chat' = [chat EXCEPT ![p] = "publishing"]
  /\ UNCHANGED <<origin, serverAcked, uploadVars, sessionVars, sharedVars>>

PublishChat(p) ==
  /\ chat[p] = "publishing"
  /\ PublishUpload(p)
  /\ chat' = [chat EXCEPT ![p] = "acking"]
  /\ UNCHANGED <<origin, counter, seq, serverAcked, sessionVars>>

(* Slip: the error is logged and the handler goes on to server_ack. *)
ChatFailureAcked(p) ==
  /\ chat[p] \in {"numbering", "publishing"}
  /\ Fault
  /\ chat' = [chat EXCEPT ![p] = "acking"]
  /\ UNCHANGED <<origin, counter, seq, serverAcked, uploadVars, sessionVars,
                 rows, route, downQ>>

(* Redis or the publish fails: logged, and no server_ack. *)
ChatFails(p) ==
  /\ chat[p] \in {"numbering", "publishing"}
  /\ Fault
  /\ chat' = [chat EXCEPT ![p] = "failed"]
  /\ UNCHANGED <<origin, counter, seq, serverAcked, uploadVars, sessionVars,
                 rows, route, downQ>>

(* The server_ack goes to the connection the sender has by now. *)
ServerAck(p) ==
  /\ chat[p] = "acking"
  /\ chat' = [chat EXCEPT ![p] = "done"]
  /\ LET c == clients[origin[p]][Sender[p]]
     IN IF c = None
        THEN UNCHANGED <<closed, sendChan, serverAcked>>
        ELSE SendMessage(c, Control) /\ serverAcked' = serverAcked \cup {p}
  /\ UNCHANGED <<origin, counter, seq, uploadVars, clients, stage, dropped, pump,
                 unsynced, got, pushing, delivered, sharedVars>>

ChatStep(p) == NextSeq(p) \/ PublishChat(p) \/ ServerAck(p)

(* A gateway takes the goroutines of its messages down with it. *)
CrashWithChats(g) ==
  /\ GatewayCrash(g)
  /\ chat' = [p \in Payloads |->
                IF origin[p] = g /\ chat[p] # "done" THEN "failed" ELSE chat[p]]
  /\ UNCHANGED <<origin, counter, seq, serverAcked, uploadVars>>

-----------------------------------------------------------------------------
ImNext ==
  \/ LogicStep /\ UNCHANGED <<sessionVars, chatVars>>
  \/ GatewayRun /\ UNCHANGED <<uploadVars, chatVars>>
  \/ \E g \in Gateways : CrashWithChats(g)
  \/ \E p \in Payloads :
       \/ \E c \in Conns : ReceiveChat(c, p)
       \/ ChatStep(p) \/ ChatFails(p)

ImSpec == ImInit /\ [][ImNext]_imVars /\ SessionFairness

-----------------------------------------------------------------------------
Waiting(id) == \E d \in downQ : d.id = id
InChannel(c, id) == \E i \in DOMAIN sendChan[c] : sendChan[c][i] = id

(* A receiver that is online misses nothing, however its login interleaves  *)
(* with the worker: once Logic has acked a message, it has been marked read *)
(* or received, or is on its way to the open connection.  It rests on the   *)
(* order route before SyncUnread in the handler (handler.go:70-83) and row  *)
(* before route lookup in the worker (upload_consumer.go:82-93).            *)
NoStranded == \A c \in Conns, id \in Stored :
  /\ faults = 0
  /\ stage[c] = "reading" /\ c \notin closed \cup dropped
  /\ Receiver(id) = UserOf[c]
  /\ PayloadOf(id) \in settled
  => rows[id].read \/ id \in got[UserOf[c]] \/ InChannel(c, id) \/ Waiting(id)

(* Updates of a row race (NotifyDelivered, AckMessage, ReadMessages): it    *)
(* stays read, and its send_status only rises.                              *)
StatusNeverFalls ==
  [][\A id \in Stored :
       /\ id \in Stored'
       /\ rows[id].read => rows'[id].read
       /\ rows[id].status <= rows'[id].status]_imVars

(* server_ack is sent only after a publish, and there is one way to lose    *)
(* what it acknowledged: a broker connection that breaks before the frame   *)
(* has arrived.  Else the message is on its way, with the broker or with a  *)
(* worker, or acked, and then stored (chat.go:88-97).                       *)
ServerAckedIsKept == \A p \in serverAcked \ lost :
  /\ p \in wire \cup queue \cup dead \cup Busy \cup settled
  /\ p \in settled /\ ~IsGroup(p) => \A u \in Receivers(p) : CopyId(p, u) \in Stored

(* README.md:185: server_ack says that the MQ has accepted the message.     *)
(* None that is acknowledged is lost on its way there.                      *)
ServerAckedIsAccepted == serverAcked \cap lost = {}

(* README.md:8 and handler.go:117: what is marked read has been sent to the *)
(* receiver.  It has arrived or is on its way on an open connection.        *)
ReadReachesReceiver == \A id \in Stored :
  rows[id].read /\ Receiver(id) \in Users =>
    \/ id \in got[Receiver(id)]
    \/ \E c \in Conns \ closed : UserOf[c] = Receiver(id) /\ InChannel(c, id)
=============================================================================
