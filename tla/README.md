# A formal model of go-im-system

TLA+ modules, TLC runs and TLAPS proofs about the repository: the message path
from a client's WebSocket frame on its gateway, over RabbitMQ and a Logic
worker, into MySQL, and over a second queue or the next login to the receiver;
the RPC library and service discovery the gateway calls Logic with; the agent's
answers, limiter and scheduled messages; and the ids all of them draw. File
names below are relative to `src/apps/`.

## 1. The system

| Part | Code | State it keeps | Operations | Modules |
|---|---|---|---|---|
| Table of messages | `logic/dao/messages.go`, `logic/models/messages.go`, `logic/service/chat_service.go` | rows with `is_read`, `send_status` | insert, select unread, three updates | `SharedState` |
| Upload queue, Logic's consumer | `pkg/mq/rabbitmq.go`, `logic/service/upload_consumer.go` | `logic.upload.queue`, dead letters, unacked deliveries, 50 workers | publish, deliver, handle, ack, nack, crash | `UploadConsumer` |
| Gateway sessions | `gateway/ws/handler.go`, `manager.go`, `client.go` | `CliMap`, `SendChan`, `closed`, Redis `route:user:<id>` | register, set route, synchronise, both pumps, remove, close | `GatewaySession` |
| Down consumer | `gateway/ws/mq_consumer.go` | `gateway.queue.<addr>`, deliveries in hand | look up, send, ack, notify | `GatewaySession` |
| Chat handlers | `gateway/ws/chat.go`, `reliability.go` | Redis counters `seq:<conv>:<user>` | number, publish, `server_ack` | `ImSystem` |
| geeRPC client, server, codecs | `pkg/geeRPC/client.go`, `server.go`, `codec/`, `xclient/xclient.go` (cache) | pending calls, sequence, `closing`, `shutdown`, cached client, handler goroutines | dial, send, receive, time out, terminate, serve, answer | `GeeRpc` |
| Discovery, ring, registry, broadcast | `pkg/geeRPC/xclient/`, `registry/` | server list, index, hash ring, last update, announcements | update, refresh, pick, broadcast, announce, expire | `ConsistentHash`, `Discovery` |
| Snowflake | `pkg/utils/snowflake.go` | last timestamp, sequence | generate, wait | `Snowflake` |
| Scheduled messages | `agent/task/`, `agent/dao/`, `agent/tools/schedule_message.go` | task status 0..3 | create, fetch, claim, send, complete, fail, tell | `ScheduledTask` |
| Agent stream, memory, rate limit | `agent/handler/`, `agent/engine/`, `agent/memory/`, `agent/middleware/rate_limit.go`, `gateway/ws/chat.go` | bounded channel, session list, window | ask, prepare, limit, produce, consume, relay, store | `AgentStream` |
| Accounts, routing, config, logging, generated code, load tests | the rest | none that two requests race on | | not modelled |

How they interact. A gateway publishes to the upload exchange (one fixed
routing key), Logic consumes it and publishes to the down exchange under the
gateway address it found in Redis; a gateway calls Logic over geeRPC for
`SyncUnread`, `ReadMessages`, `AckMessage` and `NotifyDelivered`. Gateways
write the routes, Logic reads them. Nobody holds a lock across two of these
systems, so between any two of the steps everything else may move.

What is hard about it, and what makes each part correct:

* *Upload path.* Manual acks, redelivery after errors and crashes, and an
  insert that is not idempotent. Correct means: a message is always in one
  place, acked implies stored, pushed implies stored, no copy pushed twice,
  every single chat stored in the end.
* *Sessions.* A second login takes over while the old connection's two pumps,
  the handler's synchronisation and the down workers still hold it. Correct
  means: one open connection per account and gateway, the one `CliMap` returns;
  the late teardown of the old one harms neither entry nor route; goroutines of
  a closed connection return, as long as their RPCs do; a client gets only its own messages.
* *RPC.* Response, write error, termination and cancelled context race for a
  pending call; a connection may break inside a frame. Correct means: a call is
  completed once, with its own reply, and returns as long as the server is in step
  with the stream; a request is answered once.
* *Discovery.* Lists are replaced under callers that have just refreshed.
  Correct means: an address is of the current list, turns are fair, keys move
  only when they must, a server is handed out after its end for no longer than the two
  timeouts and the delay of the registry's answer, and a broadcast reports the failure
  that happened, not the cancellation it caused.
* *Ids and scheduler.* Clocks step back, sequences wrap, scans overlap.
  Correct means: ids are unique and increase, a task's message is sent at most
  once, and its creator is told of a success only when there is one.
* *Agent.* Three goroutines in two processes hand an answer on, each of which may
  go away. Correct means: what is stored is whole, and it is stored when the handler
  comes to its end; the end is told last; a producer that is read from does not
  wait for good; no more questions per minute than allowed.
* *The whole.* Login races with delivery. Correct means: an online receiver
  misses nothing; an acknowledged message is kept, unless it never reached the broker; a
  row's status only rises.

`PROJECT.json` lists each hazard at the line where it bites, with the
properties that cover it.

## 2. Modules

```
SharedState          the table, routes, down queues, failures
 |- UploadConsumer   broker queue + Logic workers     (gateways = environment)
 |- GatewaySession   sessions + down consumer         (Logic = environment)
 '-- ImSystem        both, joined by the chat handlers
MessageLedger        what the upload path promises; UploadConsumer implements it

GeeRpc               client, connection cache, codecs, server loop
ConsistentHash       the ring, as operators
 '-- Discovery       lists, registry, three ways to pick, broadcast
Snowflake            ids
 '-- ScheduledTask   cron scans and senders, drawing ids
AgentStream          gateway relay, SSE handler, producer, limiter
```

`<Module>_proofs` has the theorems about a module, `MC<Module>` its instance; those
about `Snowflake` are in `ScheduledTask_proofs`, those about the ring in `Discovery_proofs`.

`UploadConsumer` and `GatewaySession` share the variables `rows`, `route`,
`downQ` and `faults`. Each one's environment actions (`Gateway...` in the first,
`LogicStores`/`LogicPushes` in the second) let those variables change; `ImSystem` drops
both environments and puts the other module in their place. The environment of
`UploadConsumer` is broader than the gateways (`ImImplementsUpload` proves it): it does
not assume how they order their steps. That of `GatewaySession` pushes in any order but
stores single chats only, which is enough for its runs and theorems; what is
claimed of gateways and Logic together is checked and proved in `ImSystem`.

State and code:

| Variable | Code |
|---|---|
| `rows` | table `messages`; the key of a copy is *(payload, receiver, attempt)* |
| `route` | Redis `route:user:<id>` |
| `downQ` | deliveries of all `gateway.queue.<addr>` not acked yet |
| `sent`, `wire`, `lost`, `queue`, `dead`, `settled` | a publish that returned nil; its frame in flight; lost; ready; in `dead.letter.queue`; acked |
| `pc`, `left`, `cur`, `addr`, `attempt` | the locals of the worker that holds a payload; `pc` is the next call it makes |
| `clients` | `GlobalCliMap.Clients` of every gateway |
| `stage` | how far `Handler`, then `ReadPump`, has come with a connection |
| `pump`, `closed`, `sendChan` | `WritePump`, `Client.closed`, `SendChan` |
| `unsynced` | what `SyncUnread` returned and the handler has still to send |
| `pushing`, `delivered` | a down worker between `Get` and `SendMessage`; between that and `Ack`, then the goroutine of `onTransportDelivered` |
| `chat`, `origin` (its gateway), `counter`, `seq`, `serverAcked` | the goroutine of a chat message and the Redis counter |
| `phase`, `on`, `seqOf`, `completions`, `reply` | the goroutine in `Client.Call`, its client, `Call.Seq`, sends to `Call.Done`, what it got |
| `cached`, `closing`, `shutdown`, `nextSeq`, `pending`, `rcv` | `XClient.clients`, and the fields and the receive goroutine of each `Client` |
| `link`, `up`, `down` | a TCP connection and the frames on it |
| `srv`, `swallowed`, `garbled`, `handler`, `answers` | `serveCodec`'s loop, requests read along with the Option, connections whose next byte is inside a frame, `handleRequest`, responses written |
| `servers`, `index`, `ring`, `lastUpdate`, `registry` | the fields of the discoveries and of `GeeRegistry` |
| `answer` | the registry's response on its way, inside `http.Get` of `Refresh` |
| `pc`, `picked`, `bpc`, `out`, `err`, `reply`, `want`, `gaveUp` | a caller before, in and after `Refresh`; the locals of `Broadcast` and its goroutines; its caller's context is done |
| `heard`, `source`, `listAt`, `turns` | history: announcements; where the list comes from, and of what instant it is; choices from it |
| `clock`, `last`, `sequence`, `waiting` | a machine's clock, the generator, a caller asleep in it |
| `status`, `due`, `batch`, `pc`, `mid`, `sent`, `notices` | table `scheduled_messages`, a scan's rows, `SendSchMessages`, the messages inserted |
| `gw`, `ag`, `prod` | `handlerAIChat`, `ChatSSE`, the producer of a question |
| `made`, `consumed`, `scanned`, `shown`, `held` | frames in `outChan` so far, read from it, read by the gateway, handed whole to the connection; questions whose connection is up |
| `zset`, `expiry`, `stamp` | the limiter's key, the clock it read |
| `session`, `untrimmed` | the session list; `RPUSH`es whose `LTRIM` is to come |
| `got`, `pushed`, `dropped` | what clients have received, what was ever published down, which clients are gone |

A step is what the code does between two points where another process or
goroutine can get in: one SQL statement, Redis command, publish, lock region or
channel operation. `InsertMessage`, the Redis lookup and `PublishDown` are
three steps; `CliMap.Register` with the close of the old connection is one,
because it holds the write lock and `Close` ends with the flag set. A mutex that is held over a
request, as in `Refresh`, is a guard of the others' steps.

Abstractions, and why they are safe:

* A message is a model value with a kind, a sender and an audience. A single or
  AI chat's row has the MsgID the gateway drew (`attempt` 0); a group member's
  row has an id drawn when the member is handled, hence the delivery attempt in its key.
  That ids are unique is what `Snowflake` shows.
* A publish returns before the broker has the frame (`wire`) and may be lost with
  the connection (`lost`): no channel is in confirm mode.
* Queues are sets: publishes go over five channels in turn and 50 workers take
  deliveries, so no order is guaranteed. A down queue is bound before its gateway
  serves clients (`gateway/main.go`), so a published push is kept.
* Pongs, `server_ack`s and receipts are one frame `Control`. The kick notice is put into
  a channel that the next statement closes, and is left out with it.
* `Close` is one step. A write in the instant between its two statements has the
  same effect as one just before it; what `SendChan` holds afterwards is lost either way.
* A write to the socket of a client that is gone may succeed (`WriteFrame`) or fail
  (`WriteFails`). A slow client whose write times out is one that left.
* A connection is used once; a client that reconnects is another connection.
* The eight down workers are not counted: each delivery is independent and
  the prefetch of 50 only delays.
* `GeeRpc` sends frames, not bytes; a connection that breaks leaves a prefix of
  them, the last one perhaps cut in its body. What a codec reports of a cut or
  missing frame is modelled for each: gob and JSON an error; protobuf nothing
  for a missing header (`protobuf.go:42`), nothing for a cut body (`:111`).
* The decoder of the Option may swallow requests that have arrived behind it
  (`server.go:87`), the last one in part, and then the server stands inside a frame
  (`garbled`). Gob and JSON give up, or JSON takes a body for a header; protobuf reads a
  length where there is none, and frames of other calls with it, answers what it takes for
  a header, and may be back in step afterwards, go on like that, or wait for bytes that
  never come. How many bytes that is is arbitrary; the false answers are one at a time.
* Values that cannot be encoded are left out (`ProtobufCodec.Write`, `GobCodec.Write`): the
  registered services use generated messages only.
* An RPC of the gateway takes effect or not, fails or not, or never returns: a handler then
  stays `hung`, which is an outcome of `SyncFails`, and one of `AckFails` for the read pump.
* A ring is a function from positions to servers, over every placement of
  virtual nodes of the instance, collisions included; a hash value is a number.
* In `ScheduledTask` a row's times are "due" or not; a failing statement may have
  been carried out. The statements name columns (`sch_msg_id`, `updated_time`)
  that the struct's tags call otherwise; the table is assumed to have them.
* In `AgentStream` frames are counted, not spelled. What the gateway makes of their text
  is any of the outcomes the code has: the frame arrives whole, or a line break in it costs
  the lines behind for want of a `data: ` prefix; a line reads `data: [DONE]` and ends the
  answer; a line is too long for the scanner. For a question in `Plain` the text is plain. The
  question's way to the upload queue is `ImSystem`'s.
* `Session.Append` is a pipeline: its `RPUSH` and `LTRIM` are two steps, other requests come in
  between, and go-redis may send it again when the connection broke. Its `EXPIRE` (24 hours)
  and the session's end by it are left out.
* The agents, the limiter and Redis share one clock, which only goes forward; every reading of
  it in `Stamp` is another instant (it has nanoseconds). Skew between agents and clocks that
  step back are outside `RateLimited`; they are modelled where ids depend on them (`Snowflake`).
* Processes have different node numbers, and a process that is
  restarted finds its clock past the last id it drew: the generator keeps
  nothing, so nothing else would make restarted ids unique. Both are assumptions on the
  deployment: `config.go:29` asks the first of gateway and Logic only, and agents that share
  a configuration file share their number.

Failures are steps that spend the budget `MaxFaults`: a failing SQL statement
(committed or not), Redis, a publish, an RPC (before or after its effect), an
expired route, the crash of Logic, a gateway or the agent, a lost broker or RPC
connection, an unreachable or restarted registry, an SSE stream that breaks. A model stream
that breaks off looks to the producer like one that ends (`engine.go:75-82`). Clients that leave, clocks and expired contexts spend nothing.

`MessageLedger` is the abstract specification: accept a message, file a copy
per addressee, offer a copy once and only when filed, close the message when
every addressee has a copy. It has no queue, worker or redelivery.
`UploadConsumer!KeepsLedger` is the refinement (`sent`, the rows, `pushed`,
`settled` and `faults` as the ledger's variables), checked by `upload` and proved.

## 3. Runs

`tlc -workers 2 -config <run>.cfg <module>`; the `MC` modules give the constants
their values.

| Run | Instance | Checks | Distinct states |
|---|---|---|---|
| `upload` | single, group of three, AI, unparsable and unknown body, 2 of them at a time, 2 failures | `TypeOK`, `OnePlace`, `AckedIsStored`, `PushedIsStored`, `PushedOnce`, `KeepsLedger`, `EventuallyStored` | 218 thousand |
| `upload_poison` | a single chat, 1 failure | `QueueDrains`: **violated** | some 100 |
| `session_two_gateways` | a connection on each of 2 gateways, no failure | `UnroutedIsOffline`: **violated** | 300 |
| `im` | a user who writes to himself, 2 connections of his on a gateway, 1 failure of anything | `SessionTypeOK`, `OneOpenConnection`, `OnlineIsRouted`, `NoStranded`, `OnlyReceiver`, `ServerAckedIsKept`, `StatusNeverFalls`, `ClosedIsReaped` | 832 thousand |
| `im_server_ack` | a message, a connection each, 1 failure | `ServerAckedIsAccepted`: **violated** | 1 thousand |
| `im_sync_loss` | as `im_server_ack`, no failure | `ReadReachesReceiver`: **violated** | 4.8 thousand |
| `rpc` | 2 calls, 2 connections, 3 codecs, an unknown method, a deadline, 1 break or close | `RpcTypeOK`, `CompletedOnce`, `OwnReply`, `AnsweredOnce`, `CallReturns` | 185 thousand |
| `rpc_spin` | protobuf only, 1 break | `ServeLoopEnds`: **violated** | 24 thousand |
| `discovery` | 3 servers, 5 keys, every placement of `MCPlacements`, both discoveries, all modes, 1 update, 1 failure | `DiscTypeOK`, `RoundRobinFair`, `BroadcastTruth`, `ErrorIsReal`, `PickIsListed`, `HashMonotone`, `FreshList`, `ErrorReleases` | 1.1 million |
| `agent` | 2 questions, answers of up to 2 frames of any text and of 1 plain frame, channel of 1, 1 question per window, 1 failure | `StreamTypeOK`, `AnswerIsWhole`, `EndIsLast`, `RateLimited`, `AnswerIsStored`, `ProducerFinishes` | 796 thousand |
| `agent_offline` | a question, no failure | `OfflineIsStored`: **violated** | 1.9 thousand |
| `scheduled` | 2 tasks, 3 scans on 2 machines, clocks of 2 milliseconds, sequence of 2, 1 failure | `TaskTypeOK`, `UniqueIds`, `IdsIncrease`, `SentAtMostOnce`, `SuccessIsTrue`, `ClaimedIsHandled` | 1.1 million |

What the questions are. `im`: what a message, a takeover, a late teardown, a synchronisation
and the receipts make of one row and one entry, in any order and with any one failure. `rpc`:
who wins when a response, a write error, `terminateCalls` and a context reach one call, and
what an Option that took more than its own bytes does to the rest. `discovery`: what a caller
gets between somebody else's `Update`, the registry's expiry, a slow answer and its own pick,
and which error a broadcast ends with. `agent`: what is left of an answer when the user, the
model's stream, the SSE stream or the agent goes away in the middle, and whether the limiter
holds although its script runs after its clock was read. `scheduled`: two processes and an
overrunning scan on the same rows, with ids drawn meanwhile.

Bounds. Two payloads of different kinds cover the interaction over workers; a
group with two receivers has one that fails and one that does not; two
failures are the least that can hit a message on its first and on its second
delivery. Two connections are a takeover. `SendCap = 1` makes the full
channel happen with one message (`im_sync_loss` has room for 3, so that overflow is not what
it shows). In `im` sender and receiver are one account, which makes every connection both, so
that two connections give every interleaving of writing, receiving and replacing; that an
account gets nothing addressed to another is broken there by a copy nobody stored, and proved for any number of
accounts. `MCNext` leaves out updates of rows and the sender's route, which no worker reads.
In `rpc` two connections are one that breaks and the one dialled after it, and
two calls share either. In `discovery` three servers are one that leaves, one
that stays and one that is new; timeouts of 2 and a clock of 3 let a list and an
announcement expire, separately, and an answer be under way for an instant; a behaviour with a
broadcast has no clock (`MaxCastTime = 0`), on which a broadcast does not depend. One caller
picks; that turns stay fair among several is proved. In `agent` a channel of one frame and an answer of
two make the producer wait; a session that keeps one entry is trimmed at once;
the window is 2 and a script may be late by 1, so that `RateLimited` speaks of
windows of 1: with `Limit = 1`, two questions at one instant would violate it. In `scheduled` a sequence of
two values wraps, two milliseconds let a clock step back and go on. No id is drawn there after a set-back clock
was waited out; `FlakeUnique` and `FlakeIncreases` cover that.
Deadlock is not checked: when every message is handled and every client gone
the system has come to rest.

Fairness. `UploadFairness`: the broker delivers a frame it is sent, and a worker
with something to do goes on (goroutines are scheduled, SQL and Redis calls
return). `SessionFairness`: the handler, the exit of a read pump and the
write pump of each connection go on; an RPC that never returns is a step of its own
(to `hung`), so that nothing is assumed of RPCs. `RpcFairness`: the goroutines of a call, of
`receive`, of the server's loop go on; a method returns or is timed out. A server out of step
with its stream owes nothing (`OutOfStep`).
`DiscFairness`: a cancelled call and `wg.Wait` return (a dial and a write, which the context
does not interrupt, end by `ConnectTimeout` and by TCP); a server and the registry may be silent
for good. `StreamFairness`: some relay, handler or producer that can go on does (none of them
runs in circles); the model yields its frames or breaks off. Nothing is owed by clients, logins, pings or failures.
`MaxFaults` makes failures finite, without which no message need ever be stored.

### What the violated runs show

1. `upload_poison`: `README.md:16` promises a dead letter fallback. A delivery
   whose first attempt stored the row and then failed can never succeed: the insert
   is refused, the nack requeues (`upload_consumer.go:58-62`, `:87`). No copy is
   pushed twice because of it, but the message circulates for good.
2. `session_two_gateways`: `CliMap.Remove` deletes the route without looking at
   which gateway it names (`manager.go:48-53`); the old gateway's late teardown
   makes a connected user "offline" (`upload_consumer.go:91-95`).
3. `im_sync_loss`: `ReadMessages` marks rows read whose frames are still in
   `SendChan` (`handler.go:115-120`). A client that leaves then never gets them,
   although `README.md:8` promises their synchronisation.
4. `im_server_ack`: `README.md:185` calls `server_ack` "accepted by the MQ". It is sent when the
   publish has returned (`chat.go:88-97`), and a publish returns when the frame is written to
   a socket (`rabbitmq.go:143`): the connection may break before the broker has it.
5. `agent_offline`: `chat.go:203-204` takes the answer of an offline user for stored. Returning closes
   the stream; the agent's next write may fail, and its handler then returns before it
   stores anything (`chat_sse.go:52-55`).
6. `rpc_spin`: `server.go:118` closes a connection it cannot read from. With the
   protobuf codec, which the gateway uses, `ReadHeader` reports no error
   (`protobuf.go:42`): the loop answers empty headers forever.

Also known not to hold of the modelled code, without a run of their own:

* `OneCopyPerMember`: a group message redelivered after a crash gives a member two rows.
* `send_status` 1 means written to the peer's WebSocket (`models/messages.go:11`): it is also
  set when `SendMessage` dropped the frame.
* `README.md:9` promises that no frame of an answer is lost: `Relay`, `RelayMisled` and `RelayCut` lose
  lines behind a line break, what follows a line that reads `data: [DONE]`, and the rest of a
  stream that breaks, without an `ai_end`.
* `engine.go:46-47` says that the buffer keeps the producer from waiting for good when the
  handler has returned: it does so for as many frames as the buffer holds (`Produce`, `WriteFails`).
* `scheduled_messages.go:33-35` calls insert and update one transaction: the insert is outside of it
  (`CompleteFails`), so a message stays whose task is told to have failed.

What the properties except, since the code does not give more: calls whose request went
with the Option, or whose connection's server is out of step with the stream (`CallReturns`); a cut body is
an empty reply (`OwnReply`); group members skipped because of a failure (`AckedIsStored`,
`KeepsLedger`); a task whose claim was followed by a failure stays claimed
(`ClaimedIsHandled`, which holds while nothing fails), and may be reported failed although its
message is there (`SuccessIsTrue` is about successes); an answer is not stored when its
handler gave up on the stream, died, or its `INSERT` failed (`AnswerIsStored`); a frame is not claimed to arrive
whole (`EndIsLast`); a producer whose handler gave up stays on a full channel
(`ProducerFinishes`); a handler that gave up or waits for an RPC for good tears nothing down
(`ClosedIsReaped`); hashing with the registry's discovery gives an empty address
(`PickIsListed`); an error is the cancellation when the caller itself gave up (`ErrorIsReal`);
routes and misses are judged only while nothing has failed (`OnlineIsRouted`, `NoStranded`).

## 4. Proofs

`tlapm <module>_proofs.tla` for `UploadConsumer`, `GatewaySession`, `ImSystem`,
`GeeRpc`, `Discovery`, `ScheduledTask` and `AgentStream` (`SharedState_proofs` holds the
lemmas on the table). They hold for every number of users, payloads, workers, gateways,
connections, calls, servers, machines, scans, questions and failures. They assume the
named `ASSUME`s on the constants, and two of them one thing more, which is stated
in the theorem: `OneGatewayPerUser`, that the connections of an account go to one gateway.
Without it a connected account may have no route, as `session_two_gateways` shows, and a
message for it is not pushed.

Every invariant and every action property that a passing run checks is also the
statement of a theorem here. The layout is the same everywhere: one lemma for each
conjunct of the inductive invariant (`...Step`), one step in it for each action, lemmas
that say what a step leaves alone (`...View`, `Same...`, `Elsewhere`), and a last step
that puts `Init`, step and consequence together.

### Upload path and sessions

* `UploadTypeCorrect`, `UploadOnePlace`: types need that the receivers left are
  accounts (`Addressed`); `OnePlace` is inductive over the types.
* `UploadPushedIsStored`, `UploadPushedOnce`: not inductive. The
  strengthening `CurrentIsNew` says that a worker about to look up a route or
  publish holds a copy that is stored and was never pushed. It holds because
  each attempt starts with an insert that a taken key refuses, and a group
  attempt has ids of its own.
* `UploadAckedIsStored`: `HandledIsStored` says that the receivers a worker has
  left behind are stored, failures of a group apart; `OnePlace` is what keeps an
  acked message from being handled again.
* `SessionTypeCorrect` includes that no channel exceeds its capacity.
* `SessionOneOpenConnection` is inductive over the types: `Register` closes the
  entry it replaces, and `Remove` gives up an entry that is not its own.
* `SessionOnlyReceiver`: `AddressInv` follows a copy from the down queue or the
  list of unread copies through a worker's hand and a channel to the client; at
  each place it is stored and its receiver is the account of the connection. The entries of
  `CliMap` belonging to their account is what carries it over a takeover.

* `SessionOnlineIsRouted`: a route is written only for an account whose connection goes
  to that gateway, and deleted only by a `Remove` that found its own entry, while an open
  connection past `SetRoute` is the entry. Here `OneGatewayPerUser` is needed.
* `UploadKeepsLedger`: the refinement. Publish, insert, push and ack are the
  ledger's steps, everything else changes nothing the ledger sees; it needs the
  three invariants above, since an offer must be of a filed copy that was not offered and
  a closed message has its copies.
### The whole message path

* `ImImplementsUpload`: `ImSpec => UploadSpec`. Steps of the gateway are steps of the
  environment `UploadConsumer` allows for, steps of the chat handlers publish or change
  nothing it sees (safety only: neither specification states fairness). So `ImKeepsUploadPromises`: whatever is
  proved of the upload path holds of the composition.
* `ImStatusNeverFalls`: each statement on the table raises `send_status` or leaves it,
  and none clears `is_read` (`SharedState_proofs`).
* `ImServerAckedIsKept`: `ChatInv` ties a chat goroutine's stage to what was published: the
  acknowledgement follows a publish that returned, and a published payload
  that was not lost is in the one place `OnePlace` gives it; acked means stored.
* `ImOnlyReceiver`: the session's invariant again, with Logic's steps in the place of
  the environment's: only stored copies are pushed.
* `ImNoStranded`: the race of login and delivery. `Reached` says that past `SyncUnread` every
  stored copy of a connection's account is read, received, in the channel, in the
  handler's list, with a worker that has yet to look the route up or to publish, or in
  a down queue. The row is stored before the route is looked up and the route written before
  `SyncUnread`, so one of the two finds the other. `OnlineIsRouted` and `HomeInv` (routes and
  deliveries name gateways the account connects to) bring the worker's find to the right
  gateway; `StaleIsSynced` covers a down worker that still holds a connection
  replaced since; `SyncedInv`, that the list is empty when the handler is done with it.

### RPC

`RpcInvariant`: `RpcInv` is inductive. It says what each place knows of a call:
a call that was numbered keeps connection and number (`Sent`), numbers of one
connection are distinct (`SeqInv`), a pending entry bears the call's own number and,
until `terminateCalls` has run, belongs to a call that waits and is not completed
(`PendingInv`), a request in the pipe is the only one of its call and nobody has handled it
(`UpInv`), a handler that runs has not answered (`HandlerInv`), and a response bears
the number of the call it answers, unless it is a stray one, to what was read as a header and is none,
which is an error (`DownInv`).

* `RpcTypeCorrect` needs `DownInv`: without it a reply could be no call's.
* `RpcCompletedOnce`: whatever completes a call also removes its entry, or ends the
  receive goroutine that could complete it again (`CompletionStep`).
* `RpcOwnReply`: entry and response have the same number on the same connection, so by
  `SeqInv` the same call.
* `RpcAnsweredOnce`: the timeout and the method both leave `running` when they answer.

### Discovery

* `HashConsistent`, `DiscHashMonotone`: a ring built from a list (`Add`) gives
  each position to the last server of the list that has it. A key's position is
  the smallest at or after it, else the smallest of all; when both rings give
  servers of both lists, each one's position is in the other ring, so
  both are the same. `ListInv` (the ring is that of the list) makes it a property of steps.
* `DiscPickIsListed` needs `ListInv` and that the index is a number; `DiscFreshList`
  needs `FreshInv`: a list from the registry, and an answer on its way, was fresh at the instant
  the registry gave it (`listAt`), and a registry's entry is never younger than the announcement. Between
  that instant and `lastUpdate` lies the request, which has no timeout: the bound grows with it.
* `DiscErrorIsReal`, `DiscBroadcastTruth`: `CastInv` relates error and reply to what
  the goroutines' calls returned; no call is cancelled before there is an error or the caller gave up.
* `DiscRoundRobinFair`: `TurnInv` gives the server of each turn by its position
  counted back from the index, modulo the length of the list, which has no server twice.
* `DiscTypeCorrect`: types of the discoveries, the registry and a broadcast's goroutines.

### Ids and scheduled messages

* `FlakeUnique`, `FlakeIncreases`: `MachineInv` says that a machine's ids increase
  and lie at or below `Ceiling`, the id of the last millisecond and sequence (all of the
  millisecond while a caller sleeps after a wrap, or after a restart), and that each
  packs a time, the machine's node and a sequence number in range. `Pack` keeps the
  order of times and the node (`PackOrder`, `PackNode`), so a new id lies above the
  ceiling and two machines never meet.
* `TaskUniqueIds`, `TaskIdsIncrease`: every step of the scheduler is a step of the
  generators or leaves them alone.
* `TaskSentAtMostOnce`, `TaskSuccessIsTrue`: `TaskInv` says that at most one goroutine
  works on a task, and what status and inserted messages are at each of its steps;
  only the claim starts one, and it takes the row out of `Pending` for good.

* `TaskClaimedIsHandled`: `HandledInv` says that, while nothing has failed, a claimed task has a
  goroutine: it comes to its last steps only when the row is marked; `TaskInv` gives at most one.

### Agent

* `StreamTypeCorrect`, with `PushInv`: each step that lets the session list grow also adds a pipeline under way or
  a failure, and an `LTRIM` brings it back to its bound, whoever pushed in between.
* `StreamAnswerIsWhole`, `StreamEndIsLast`: `FlowInv` holds of each question alone:
  scanned, consumed and made are in this order, and after `[DONE]` they no longer move and
  the last two are equal. A step of another question's goroutines changes none of it.
* `StreamAnswerIsStored`: a handler past `[DONE]` with text is storing until it has inserted, or is `dropped`.
* `StreamRateLimited` is not inductive. `ClockInv` says that the clock a question read is at
  most `MaxDelay` old and unlike any other's, and that the key expires no sooner than a window after
  the last question let through; `LoggedInv`, that of every window still open at least as many
  entries are in the key as questions were let through. A script looks back
  further than such a window begins (`RecentKeeps`), so what it removes does not count any more,
  whether it overtook another script or not.

### Only model-checked

Liveness: `EventuallyStored`, `ClosedIsReaped`, `CallReturns`, `ErrorReleases`,
`ProducerFinishes`. Fairness and ENABLED are out of the prover's reach.
The properties of the six runs that expect a violation are false and have no theorem.
`SessionSpec`, the gateway with its environment, is what the theorems of `GatewaySession_proofs`
and the run `session_two_gateways` are about; `im` checks the same properties in the composition.

## 5. Not modelled, and the plan

Not modelled: accounts and login, HTTP routing, configuration and logging
(sequential, no shared state), generated code, load tests, the Eino graph and
its tools (an external framework), `safe_agent.go` (wrappers of its calls). Of geeRPC
the HTTP CONNECT transport, registration by reflection and the interceptors.
`registry.Heartbeat`: it sends its address under `X-Geerpc-Server`, the
registry reads `X-Geerpc-Servers` and answers 500, which counts as success, so
that it changes nothing; it also ends at the first error (`registry.go:106`).
`ParseSnowflakeID` (no caller; it adds an epoch that `Generate` never
subtracted). Down messages that do not parse. The timing of pings against the
30 seconds of a route. Two Logic instances are covered as one pool with more
workers, except that a crash here takes all of them.

Next:

1. Two messages in `ImSystem`: order of sequence numbers, within a sender and
   across a conversation.
2. The mirror image of `ImImplementsUpload` for the gateway: that the composition
   implements `SessionSpec`, which needs Logic's pushes to be of stored copies as an
   invariant of the refinement rather than as a guard of the environment.
3. An abstract specification of an RPC (called, executed at most once, returned) that
   `GeeRpc` implements, as `MessageLedger` is for the upload path.
