----------------------------- MODULE AgentStream -----------------------------
(***************************************************************************)
(* A question to the assistant: the gateway's goroutine (handlerAIChat in  *)
(* gateway/ws/chat.go) opens an SSE stream to the agent and relays its     *)
(* lines to the user's connection; the agent's handler (chat_sse.go)       *)
(* prepares the session, runs the model and writes what a producer         *)
(* goroutine (engine.go) puts into a bounded channel, then stores the      *)
(* answer.  The rate limiter runs before the model (rate_limit.go).        *)
(*                                                                         *)
(* All questions are one user's.  The frames of an answer are numbered, so *)
(* that how far each goroutine has come is a number: made >= consumed >=   *)
(* scanned.  Their text is the model's and arbitrary: where the code       *)
(* depends on it (a line break, a line that reads like the end, a line too *)
(* long), every outcome is possible unless the question is a Plain one.    *)
(* The question's way to the upload queue is in ImSystem.                  *)
(***************************************************************************)
EXTENDS Integers, FiniteSets, Sequences

CONSTANTS
  Questions,    \* the user's questions
  Plain,        \* bound: those answered with one frame of plain text at most
  MaxFrames,    \* bound: frames of an answer
  OutCap,       \* capacity of outChan, 64 in the code
  Kept,         \* entries a session keeps, 20 in the code
  Limit,        \* questions the limiter lets through per Window, 5 in the code
  Window,       \* its length, a minute in the code
  MaxDelay,     \* bound: from the limiter's look at the clock to its script
  MaxTime,      \* bound: instants of a behaviour
  MaxFaults     \* bound: failures and crashes in a behaviour

ASSUME StreamAssumption ==
  /\ Plain \subseteq Questions
  /\ {MaxFrames, OutCap, Kept, Limit, Window} \subseteq Nat \ {0}
  /\ {MaxTime, MaxDelay, MaxFaults} \subseteq Nat

VARIABLES
  gw,         \* the gateway's goroutine of a question
  ag,         \* the agent's handler of it
  prod,       \* the producer goroutine
  made,       \* frames put into outChan
  consumed,   \* frames taken from it: fullText, and written to the stream
  done,       \* questions whose [DONE] is written
  scanned,    \* frames the gateway has read
  shown,      \* frames handed to the user's connection with all their text
  online,     \* the user is connected
  held,       \* questions whose goroutine holds the connection that is up
  session,    \* the Redis list of the user's session, the roles of its entries
  untrimmed,  \* pushes to it whose pipeline has not run its LTRIM
  answers,    \* rows of answers: question -> frames, -1 if there is none
  now, stamp,                    \* clock; the instant the limiter read for a question
  zset, expiry, accepted,        \* the limiter's key; when it let a question through
  faults

gatewayVars == <<gw, scanned, shown, online, held>>
sessionVars == <<session, untrimmed>>
agentVars == <<ag, consumed, done, sessionVars, answers>>
modelVars == <<prod, made>>
limitVars == <<now, stamp, zset, expiry, accepted>>
streamVars == <<gatewayVars, agentVars, modelVars, limitVars, faults>>

Roles == {"user", "assistant"}

(* The session is trimmed, up to pipelines that are under way or broke off, *)
(* and one more entry for each that go-redis sent again.                    *)
StreamTypeOK ==
  /\ gw \in [Questions -> {"unsent", "asking", "relaying", "ended", "misled",
                            "silent", "refused", "offline"}]
  /\ ag \in [Questions -> {"none", "appending", "streaming", "storing", "trimming",
                            "inserting", "finished", "dropped", "aborted"}]
  /\ prod \in [Questions -> {"off", "stamping", "checking", "running", "sending",
                              "closed"}]
  /\ made \in [Questions -> 0..MaxFrames]
  /\ consumed \in [Questions -> 0..MaxFrames]
  /\ scanned \in [Questions -> 0..MaxFrames]
  /\ shown \in [Questions -> SUBSET (1..MaxFrames)]
  /\ done \subseteq Questions /\ held \subseteq Questions /\ online \in BOOLEAN
  /\ session \in Seq(Roles) /\ untrimmed \subseteq Questions \X Roles
  /\ Len(session) <= Kept + Cardinality(untrimmed) + faults
  /\ answers \in [Questions -> -1..MaxFrames]
  /\ now \in 0..MaxTime /\ zset \subseteq 0..MaxTime /\ expiry \in Nat
  /\ accepted \in Seq(1..MaxTime) /\ stamp \in [Questions -> 0..MaxTime]
  /\ faults \in 0..MaxFaults

StreamInit ==
  /\ gw = [q \in Questions |-> "unsent"]
  /\ ag = [q \in Questions |-> "none"]
  /\ prod = [q \in Questions |-> "off"]
  /\ made = [q \in Questions |-> 0]
  /\ consumed = [q \in Questions |-> 0]
  /\ scanned = [q \in Questions |-> 0]
  /\ shown = [q \in Questions |-> {}]
  /\ done = {} /\ held = {} /\ online = TRUE
  /\ session = <<>> /\ untrimmed = {}
  /\ answers = [q \in Questions |-> -1]
  /\ now = 0 /\ stamp = [q \in Questions |-> 0]
  /\ zset = {} /\ expiry = 0 /\ accepted = <<>>
  /\ faults = 0

Fault == faults < MaxFaults /\ faults' = faults + 1
Move(var, q, from, to) == var[q] = from /\ var' = [var EXCEPT ![q] = to]
Inc(var, q) == var' = [var EXCEPT ![q] = @ + 1]

(* The gateway has closed the stream or is gone: the agent's request        *)
(* context is done.                                                         *)
GatewayGone(q) == gw[q] \notin {"unsent", "asking", "relaying"}
FaultOrGone(q) == Fault \/ (GatewayGone(q) /\ UNCHANGED faults)

-----------------------------------------------------------------------------
(* The gateway asks, after it has published and acknowledged the question.  *)
Ask(q) ==
  /\ online
  /\ Move(gw, q, "unsent", "asking")
  /\ UNCHANGED <<scanned, shown, online, held, agentVars, modelVars, limitVars, faults>>

AskFails(q) ==
  /\ Move(gw, q, "asking", "refused")
  /\ ag[q] = "aborted" \/ (ag[q] = "none" /\ faults > 0)
  /\ consumed[q] = 0
  /\ UNCHANGED <<scanned, shown, online, held, agentVars, modelVars, limitVars, faults>>

(* http.Get returns when the first line is flushed.  Then the connection is *)
(* looked up, once; without one the stream is closed.                       *)
Lookup(q) ==
  /\ Move(gw, q, "asking", IF online THEN "relaying" ELSE "offline")
  /\ consumed[q] > 0 \/ q \in done
  /\ held' = IF online THEN held \cup {q} ELSE held
  /\ UNCHANGED <<scanned, shown, online, agentVars, modelVars, limitVars, faults>>

(* A frame goes to the connection; one that was closed meanwhile drops it.  *)
(* Of a frame with line breaks only the lines that begin with "data: " are  *)
(* passed on, the first one for certain, so that it may not arrive whole.   *)
Relay(q) ==
  /\ gw[q] = "relaying"
  /\ scanned[q] < consumed[q]
  /\ Inc(scanned, q)
  /\ \E whole \in IF q \in Plain THEN {TRUE} ELSE BOOLEAN :
       shown' = [shown EXCEPT ![q] = IF q \in held /\ whole THEN @ \cup {scanned'[q]} ELSE @]
  /\ UNCHANGED <<gw, online, held, agentVars, modelVars, limitVars, faults>>

(* A line of the text reads "data: [DONE]": ai_end, and the stream is closed. *)
RelayMisled(q) ==
  /\ Move(gw, q, "relaying", "misled")
  /\ q \notin Plain /\ scanned[q] < consumed[q]
  /\ UNCHANGED <<scanned, shown, online, held, agentVars, modelVars, limitVars, faults>>

(* Slip: [DONE] is looked for ahead of the lines before it. *)
EndOutOfBand(q) ==
  /\ Move(gw, q, "relaying", "ended")
  /\ q \in done
  /\ UNCHANGED <<scanned, shown, online, held, agentVars, modelVars, limitVars, faults>>

RelayEnd(q) ==
  /\ Move(gw, q, "relaying", "ended")
  /\ scanned[q] = consumed[q]
  /\ q \in done
  /\ UNCHANGED <<scanned, shown, online, held, agentVars, modelVars, limitVars, faults>>

(* The stream ends without [DONE], or a line is longer than the scanner     *)
(* takes (64 KB): so does the loop, and nobody is told.                     *)
RelayCut(q) ==
  /\ Move(gw, q, "relaying", "silent")
  /\ \/ ag[q] = "aborted" /\ q \notin done
     \/ q \notin Plain /\ scanned[q] < consumed[q]
  /\ UNCHANGED <<scanned, shown, online, held, agentVars, modelVars, limitVars, faults>>

(* Streams break, one or with the gateway all of them.                      *)
StreamsBreak ==
  /\ Fault
  /\ \E broken \in SUBSET {q \in Questions : gw[q] \in {"asking", "relaying"}} :
       /\ broken # {}
       /\ gw' = [q \in Questions |-> IF q \in broken THEN "silent" ELSE gw[q]]
  /\ UNCHANGED <<scanned, shown, online, held, agentVars, modelVars, limitVars>>

(* The user's connection goes, which concerns the questions under way. *)
Disconnect ==
  /\ online /\ \E q \in Questions : gw[q] \in {"asking", "relaying"}
  /\ online' = FALSE
  /\ held' = {}
  /\ UNCHANGED <<gw, scanned, shown, agentVars, modelVars, limitVars, faults>>

-----------------------------------------------------------------------------
(* Session.Append is a pipeline, not a transaction: other commands may come *)
(* between its RPUSH and its LTRIM, and the connection may break there.     *)
SessionPush(q, role) ==
  /\ session' = Append(session, role)
  /\ untrimmed' = untrimmed \cup {<<q, role>>}

(* Slip: the list is not trimmed. *)
AppendOnly(q, role) ==
  /\ untrimmed' = untrimmed \ {<<q, role>>}
  /\ UNCHANGED session

SessionTrim(q, role) ==
  /\ session' = SubSeq(session, IF Len(session) > Kept THEN Len(session) - Kept + 1 ELSE 1,
                       Len(session))
  /\ untrimmed' = untrimmed \ {<<q, role>>}

(* PrepareAgentContext ... *)
Prepare(q) ==
  /\ gw[q] = "asking"
  /\ Move(ag, q, "none", "appending")
  /\ SessionPush(q, "user")
  /\ UNCHANGED <<consumed, done, answers, gatewayVars, modelVars, limitVars, faults>>

(* The connection breaks and go-redis sends the pipeline again. *)
PipelineAgain(q) ==
  /\ ag[q] \in {"appending", "trimming"}
  /\ Fault
  /\ session' = Append(session, IF ag[q] = "appending" THEN "user" ELSE "assistant")
  /\ UNCHANGED <<ag, consumed, done, untrimmed, answers, gatewayVars, modelVars, limitVars>>

(* ... then runner.Run and GetAssistantFromEvents: the producer starts. *)
Run(q) ==
  /\ Move(ag, q, "appending", "streaming")
  /\ SessionTrim(q, "user")
  /\ Move(prod, q, "off", "stamping")
  /\ UNCHANGED <<made, consumed, done, answers, gatewayVars, limitVars, faults>>

(* Preparing may fail before, in or after the append: an apology, [DONE].    *)
PrepareFails(q) ==
  /\ \/ gw[q] = "asking" /\ Move(ag, q, "none", "finished") /\ UNCHANGED sessionVars
     \/ Move(ag, q, "appending", "finished")
        /\ (UNCHANGED sessionVars \/ SessionTrim(q, "user"))
  /\ FaultOrGone(q)
  /\ done' = done \cup {q}
  /\ UNCHANGED <<consumed, answers, gatewayVars, modelVars, limitVars>>

-----------------------------------------------------------------------------
(* checkRateLimit reads the clock, and then runs one Lua script: entries    *)
(* that are expired by its clock go, the rest is counted.  Redis's own      *)
(* clock lets the key expire a window after the last question let through.  *)
TimePasses ==
  /\ now < MaxTime
  /\ \A q \in Questions : prod[q] = "checking" => now - stamp[q] < MaxDelay
  /\ now' = now + 1

Tick ==
  /\ \E q \in Questions : prod[q] \in {"stamping", "checking"}   \* else nobody looks
  /\ TimePasses
  /\ UNCHANGED <<stamp, zset, expiry, accepted, gatewayVars, agentVars, modelVars, faults>>

Stamp(q) ==
  /\ TimePasses
  /\ Move(prod, q, "stamping", "checking")
  /\ stamp' = [stamp EXCEPT ![q] = now']
  /\ UNCHANGED <<zset, expiry, accepted, made, gatewayVars, agentVars, faults>>

Recent(q) == IF expiry <= now THEN {} ELSE {t \in zset : t > stamp[q] - Window}

(* Slip: one more than the limit passes. *)
HasRoomOffByOne(q) == Cardinality(Recent(q)) <= Limit

HasRoom(q) == Cardinality(Recent(q)) < Limit

(* The Lua script, which Redis runs as one command. *)
Script(q) ==
  IF HasRoom(q)
  THEN zset' = Recent(q) \cup {stamp[q]} /\ expiry' = now + Window
  ELSE zset' = Recent(q) /\ UNCHANGED expiry

LetThrough(q) ==
  /\ Move(prod, q, "checking", "running")
  /\ HasRoom(q) /\ Script(q)
  /\ accepted' = Append(accepted, now)
  /\ stamp' = [stamp EXCEPT ![q] = 0]
  /\ UNCHANGED <<now, made, gatewayVars, agentVars, faults>>

(* Over the limit, or Redis fails, with the script run or not: an event     *)
(* with an error, which is logged, and no frames.                           *)
Reject(q) ==
  /\ Move(prod, q, "checking", "closed")
  /\ \/ ~HasRoom(q) /\ Script(q) /\ UNCHANGED faults
     \/ FaultOrGone(q) /\ (Script(q) \/ UNCHANGED <<zset, expiry>>)
  /\ stamp' = [stamp EXCEPT ![q] = 0]
  /\ UNCHANGED <<now, made, accepted, gatewayVars, agentVars>>

(* The model yields a frame, which goes into outChan; while that is full    *)
(* the producer waits, whatever becomes of the request.                     *)
Receive(q) ==
  /\ Move(prod, q, "running", "sending")
  /\ made[q] < (IF q \in Plain THEN 1 ELSE MaxFrames)
  /\ UNCHANGED <<made, gatewayVars, agentVars, limitVars, faults>>

Produce(q) ==
  /\ Move(prod, q, "sending", "running")
  /\ made[q] - consumed[q] < OutCap
  /\ Inc(made, q)
  /\ UNCHANGED <<gatewayVars, agentVars, limitVars, faults>>

(* The model's answer ends, breaks off, or stops with the request's         *)
(* context: the producer treats them alike.                                 *)
CloseOut(q) ==
  /\ Move(prod, q, "running", "closed")
  /\ UNCHANGED <<made, gatewayVars, agentVars, limitVars, faults>>

-----------------------------------------------------------------------------
(* ChatSSE's loop.  The write may still succeed when the client is gone.    *)
Consume(q) ==
  /\ ag[q] = "streaming"
  /\ consumed[q] < made[q]
  /\ Inc(consumed, q)
  /\ UNCHANGED <<ag, done, sessionVars, answers, gatewayVars, modelVars, limitVars, faults>>

(* It fails: the handler returns, and the answer is not stored. *)
WriteFails(q) ==
  /\ GatewayGone(q)
  /\ consumed[q] < made[q]
  /\ Move(ag, q, "streaming", "aborted")
  /\ UNCHANGED <<consumed, done, sessionVars, answers, gatewayVars, modelVars, limitVars,
                 faults>>

(* Slip: an empty channel is taken for a closed one. *)
FinishWhenEmpty(q) ==
  /\ Move(ag, q, "streaming", IF consumed[q] = 0 THEN "finished" ELSE "storing")
  /\ prod[q] \in {"running", "sending", "closed"} /\ consumed[q] = made[q]
  /\ done' = done \cup {q}
  /\ UNCHANGED <<consumed, sessionVars, answers, gatewayVars, modelVars, limitVars, faults>>

(* Slip: an answer of one frame counts as no text. *)
FinishShort(q) ==
  /\ Move(ag, q, "streaming", IF consumed[q] <= 1 THEN "finished" ELSE "storing")
  /\ prod[q] = "closed" /\ consumed[q] = made[q]
  /\ done' = done \cup {q}
  /\ UNCHANGED <<consumed, sessionVars, answers, gatewayVars, modelVars, limitVars, faults>>

(* The channel is closed and drained: [DONE], and a goroutine to store.     *)
Finish(q) ==
  /\ Move(ag, q, "streaming", IF consumed[q] = 0 THEN "finished" ELSE "storing")
  /\ prod[q] = "closed" /\ consumed[q] = made[q]
  /\ done' = done \cup {q}
  /\ UNCHANGED <<consumed, sessionVars, answers, gatewayVars, modelVars, limitVars, faults>>

(* Errors of both writes are logged only. *)
StoreSession(q) ==
  /\ \/ Move(ag, q, "storing", "trimming") /\ SessionPush(q, "assistant") /\ UNCHANGED faults
     \/ Move(ag, q, "storing", "inserting") /\ UNCHANGED sessionVars /\ Fault
  /\ UNCHANGED <<consumed, done, answers, gatewayVars, modelVars, limitVars>>

TrimAnswer(q) ==
  /\ Move(ag, q, "trimming", "inserting")
  /\ \/ SessionTrim(q, "assistant") /\ UNCHANGED faults
     \/ UNCHANGED sessionVars /\ Fault
  /\ UNCHANGED <<consumed, done, answers, gatewayVars, modelVars, limitVars>>

InsertAnswer(q) ==
  /\ \/ /\ Move(ag, q, "inserting", "finished")
        /\ answers' = [answers EXCEPT ![q] = consumed[q]]
        /\ UNCHANGED faults
     \/ Move(ag, q, "inserting", "dropped") /\ UNCHANGED answers /\ Fault
  /\ UNCHANGED <<consumed, done, sessionVars, gatewayVars, modelVars, limitVars>>

(* The agent dies with its goroutines; what it wrote last is lost or not.   *)
AgentCrash ==
  /\ Fault
  /\ ag' = [q \in Questions |->
              IF ag[q] \in {"none", "finished", "dropped"} THEN ag[q] ELSE "aborted"]
  /\ prod' = [q \in Questions |-> "off"]
  /\ stamp' = [q \in Questions |-> 0]
  /\ UNCHANGED <<made, consumed, done, sessionVars, answers, gatewayVars, now, zset,
                 expiry, accepted>>

-----------------------------------------------------------------------------
GatewayStep(q) ==
  AskFails(q) \/ Lookup(q) \/ Relay(q) \/ RelayMisled(q) \/ RelayEnd(q) \/ RelayCut(q)
HandlerStep(q) ==
  Prepare(q) \/ Run(q) \/ Consume(q) \/ WriteFails(q) \/ Finish(q)
  \/ StoreSession(q) \/ TrimAnswer(q) \/ InsertAnswer(q)
ProducerStep(q) ==
  Stamp(q) \/ LetThrough(q) \/ Reject(q) \/ Receive(q) \/ Produce(q)
  \/ CloseOut(q)

StreamNext ==
  \/ \E q \in Questions :
       \/ Ask(q) \/ GatewayStep(q) \/ HandlerStep(q) \/ ProducerStep(q)
       \/ PrepareFails(q) \/ PipelineAgain(q)
  \/ StreamsBreak \/ Disconnect \/ Tick \/ AgentCrash

(* The schedulers never stop while a goroutine can run.  That much is       *)
(* enough: none of them runs in circles.                                    *)
StreamFairness == WF_streamVars(
  \E q \in Questions : GatewayStep(q) \/ HandlerStep(q) \/ ProducerStep(q))

StreamSpec == StreamInit /\ [][StreamNext]_streamVars /\ StreamFairness

-----------------------------------------------------------------------------
(* A stored answer is all the model said: nothing is left in the channel    *)
(* when the handler takes it for closed (chat_sse.go:47-76).                *)
AnswerIsWhole == \A q \in Questions : answers[q] # -1 =>
  answers[q] = made[q] /\ prod[q] \in {"closed", "off"} /\ q \in done

(* A gateway that meets the agent's [DONE], and no line of the text that    *)
(* reads like it, has read the whole answer before it tells its user the    *)
(* end: nothing is left on its way in the channel or the stream             *)
(* (chat.go:206-223, chat_sse.go:47-66).                                    *)
EndIsLast == \A q \in Questions : gw[q] = "ended" =>
  q \in done /\ scanned[q] = consumed[q] /\ consumed[q] = made[q]

(* No window of the limiter's length, less the delay of its scripts, sees   *)
(* more than Limit questions, although a script may overtake one whose      *)
(* clock was read earlier, entries expire by the agent's reading of the     *)
(* clock and the key by Redis's at the script (rate_limit.go:38-59).        *)
RateLimited == \A t \in 0..MaxTime :
  Cardinality({i \in DOMAIN accepted :
                 t <= accepted[i] /\ accepted[i] < t + Window - MaxDelay}) <= Limit

(* The producer never waits forever on a full channel, unless the handler   *)
(* has given up or the clock's bound keeps the limiter from answering.      *)
ProducerFinishes == \A q \in Questions :
  prod[q] = "sending" ~> prod[q] # "sending" \/ ag[q] = "aborted"

(* A handler that has come to its end has stored an answer with text, even  *)
(* if its user is gone by then, the stream broke after the last frame, or   *)
(* the session could not be written; only its own INSERT may fail           *)
(* (chat_sse.go:56-76).                                                     *)
AnswerIsStored == \A q \in Questions :
  ag[q] = "finished" /\ consumed[q] > 0 => answers[q] # -1

(* chat.go:203-204: a user who is offline when the stream opens loses       *)
(* nothing, the answer is stored.  (The gateway closes the stream, and the  *)
(* agent's handler may give up over it.)                                    *)
OfflineIsStored == \A q \in Questions :
  gw[q] = "offline" /\ consumed[q] > 0 ~> answers[q] # -1 \/ faults > 0
=============================================================================
