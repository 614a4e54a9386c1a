------------------------------- MODULE GeeRpc -------------------------------
(***************************************************************************)
(* The RPC library between Gateway and Logic (pkg/geeRPC): XClient with    *)
(* its cached connection, Client with its map of pending calls and its     *)
(* receive goroutine, and the server's loop over the requests of a         *)
(* connection with a goroutine per request.                                *)
(*                                                                         *)
(* A connection is two pipes of frames.  When it breaks, each end still    *)
(* reads what had reached it: some of the frames, the last one perhaps     *)
(* truncated.  A connection is used once: redialling takes another one.    *)
(* The header of a frame is read or lost as a whole; a truncated frame     *)
(* here is one whose body is incomplete.                                   *)
(***************************************************************************)
EXTENDS Naturals, Sequences

CONSTANTS
  Calls,          \* the calls of a behaviour
  Conns,          \* connections to the one server
  None,           \* no connection, no call
  Codecs,         \* CodecType of the clients: "gob", "json", "protobuf"
  MaybeUnknown,   \* calls that may be of a method the server does not have
  WithDeadline,   \* calls whose context may be done (the gateway's never is)
  StraySeqs,      \* what a request body yields as Seq when read as a header
  MaxFaults       \* bound: connections that break or are closed, dials that fail

ASSUME RpcAssumption ==
  /\ None \notin Conns \cup Calls
  /\ {"none", "error", "cut"} \cap Calls = {}
  /\ Codecs \subseteq {"gob", "json", "protobuf"}
  /\ MaybeUnknown \subseteq Calls /\ WithDeadline \subseteq Calls
  /\ StraySeqs \subseteq Nat
  /\ MaxFaults \in Nat

VARIABLES
  codec,        \* the Option's CodecType
  unregistered, \* calls of a method the server does not have
  phase,        \* where the goroutine of a call stands
  on,           \* the client it found or made
  seqOf,        \* Call.Seq
  completions,  \* how often Call.Done was sent to; its buffer holds one
  reply,        \* the call whose reply it holds, or "none", "error", "cut"
  cached,       \* XClient.clients of the one address
  closing,      \* clients whose Close ran
  shutdown,     \* clients whose terminateCalls ran
  nextSeq,      \* Client.seq
  pending,      \* Client.pending
  rcv,          \* the receive goroutine
  link,         \* the connection itself
  up, down,     \* requests and responses on their way
  srv,          \* ServeConn
  swallowed,    \* requests the decoder of the Option, or a misread, took along
  garbled,      \* connections whose server reads from the middle of a frame
  handler,      \* handleRequest
  answers,      \* responses the server wrote for a call
  faults

setup == <<codec, unregistered>>
callVars == <<phase, on, seqOf>>
doneVars == <<completions, reply>>
clientVars == <<cached, closing, shutdown, nextSeq, pending, rcv>>
pipeVars == <<link, up, down>>
serverVars == <<srv, swallowed, garbled, handler, answers>>
rpcVars == <<setup, callVars, doneVars, clientVars, pipeVars, serverVars, faults>>

Requests == [call : Calls, seq : Nat, cut : BOOLEAN]
Responses == [of : Calls \cup {None}, seq : Nat, ok : BOOLEAN, cut : BOOLEAN]
Entries == [seq : Nat, call : Calls]

(* Slip: the first call gets the number that marks an invalid one. *)
FirstSeqZero == 0

FirstSeq == 1

RpcTypeOK ==
  /\ codec \in Codecs
  /\ unregistered \subseteq MaybeUnknown
  /\ phase \in [Calls -> {"idle", "dialed", "waiting", "returned"}]
  /\ on \in [Calls -> Conns \cup {None}]
  /\ seqOf \in [Calls -> Nat]
  /\ completions \in [Calls -> Nat]
  /\ reply \in [Calls -> Calls \cup {"none", "error", "cut"}]
  /\ cached \in Conns \cup {None}
  /\ closing \subseteq Conns /\ shutdown \subseteq Conns
  /\ nextSeq \in [Conns -> Nat \ {0}]
  /\ pending \in [Conns -> SUBSET Entries]
  /\ rcv \in [Conns -> {"off", "reading", "failing", "ended"}]
  /\ link \in [Conns -> {"none", "up", "down"}]
  /\ up \in [Conns -> Seq(Requests)]
  /\ down \in [Conns -> Seq(Responses)]
  /\ srv \in [Conns -> {"off", "option", "reading", "draining", "closed"}]
  /\ swallowed \subseteq Calls /\ garbled \subseteq Conns
  /\ handler \in [Calls -> {"none", "running", "answered", "late"}]
  /\ answers \in [Calls -> Nat]
  /\ faults \in 0..MaxFaults

RpcInit ==
  /\ codec \in Codecs
  /\ unregistered \in SUBSET MaybeUnknown
  /\ phase = [c \in Calls |-> "idle"]
  /\ on = [c \in Calls |-> None]
  /\ seqOf = [c \in Calls |-> 0]
  /\ completions = [c \in Calls |-> 0]
  /\ reply = [c \in Calls |-> "none"]
  /\ cached = None /\ closing = {} /\ shutdown = {}
  /\ nextSeq = [k \in Conns |-> FirstSeq]
  /\ pending = [k \in Conns |-> {}]
  /\ rcv = [k \in Conns |-> "off"]
  /\ link = [k \in Conns |-> "none"]
  /\ up = [k \in Conns |-> <<>>] /\ down = [k \in Conns |-> <<>>]
  /\ srv = [k \in Conns |-> "off"]
  /\ swallowed = {} /\ garbled = {}
  /\ handler = [c \in Calls |-> "none"]
  /\ answers = [c \in Calls |-> 0]
  /\ faults = 0

Fault == faults < MaxFaults /\ faults' = faults + 1

-----------------------------------------------------------------------------
(* XClient.dial, under its mutex: an available client is shared, any other  *)
(* is closed and replaced.                                                  *)
IsAvailable(k) == k \notin closing \cup shutdown

Broken(k) == [link EXCEPT ![k] = "down"]

(* Client.Close: responses not read yet are lost to this client. *)
Close(k) ==
  /\ closing' = closing \cup {k}
  /\ IF k \in closing THEN UNCHANGED <<link, down>>
     ELSE link' = Broken(k) /\ down' = [down EXCEPT ![k] = <<>>]

UseCached(c) ==
  /\ phase[c] = "idle"
  /\ cached # None /\ IsAvailable(cached)
  /\ on' = [on EXCEPT ![c] = cached]
  /\ phase' = [phase EXCEPT ![c] = "dialed"]
  /\ UNCHANGED <<setup, seqOf, doneVars, clientVars, pipeVars, serverVars,
                 faults>>

(* XDial, NewClient: the Option is the first thing on the connection.       *)
(* Unused connections are alike, so that any one of them will do.           *)
DialNew(c) == LET k == CHOOSE k \in Conns : link[k] = "none" IN
  /\ phase[c] = "idle"
  /\ \E l \in Conns : link[l] = "none"
  /\ \/ cached = None /\ UNCHANGED <<closing, down>> /\ link' = [link EXCEPT ![k] = "up"]
     \/ /\ cached # None /\ ~IsAvailable(cached)
        /\ closing' = closing \cup {cached}
        /\ down' = [down EXCEPT ![cached] = <<>>]
        /\ link' = [Broken(cached) EXCEPT ![k] = "up"]
  /\ cached' = k
  /\ rcv' = [rcv EXCEPT ![k] = "reading"]
  /\ srv' = [srv EXCEPT ![k] = "option"]
  /\ on' = [on EXCEPT ![c] = k]
  /\ phase' = [phase EXCEPT ![c] = "dialed"]
  /\ UNCHANGED <<setup, seqOf, doneVars, shutdown, nextSeq, pending, up,
                 swallowed, garbled, handler, answers, faults>>

(* The dial fails or takes longer than ConnectTimeout. *)
DialFails(c) ==
  /\ phase[c] = "idle"
  /\ Fault
  /\ \/ cached = None /\ UNCHANGED <<closing, link, down>>
     \/ cached # None /\ ~IsAvailable(cached) /\ Close(cached)
  /\ cached' = None
  /\ phase' = [phase EXCEPT ![c] = "returned"]
  /\ reply' = [reply EXCEPT ![c] = "error"]
  /\ UNCHANGED <<setup, on, seqOf, completions, shutdown, nextSeq, pending, rcv,
                 up, serverVars>>

(* XClient.Close. *)
CloseAll ==
  /\ cached # None
  /\ Fault
  /\ Close(cached)
  /\ cached' = None
  /\ UNCHANGED <<setup, callVars, doneVars, shutdown, nextSeq, pending, rcv, up,
                 serverVars>>

-----------------------------------------------------------------------------
(* Call.done: a second one would block with the client's mutex held.        *)
Complete(calls, what) ==
  /\ completions' = [c \in Calls |-> completions[c] + IF c \in calls THEN 1 ELSE 0]
  /\ reply' = [c \in Calls |-> IF c \in calls THEN what ELSE reply[c]]

(* Slip: the sequence number is not advanced. *)
RegisterSameSeq(c, k) ==
  /\ seqOf' = [seqOf EXCEPT ![c] = nextSeq[k]]
  /\ UNCHANGED nextSeq

RegisterCall(c, k) ==
  /\ seqOf' = [seqOf EXCEPT ![c] = nextSeq[k]]
  /\ nextSeq' = [nextSeq EXCEPT ![k] = @ + 1]

RemoveCall(entries, seq) == {e \in entries : e.seq # seq}

AddPending(c, k) == pending' =
  [pending EXCEPT ![k] =
     RemoveCall(@, nextSeq[k]) \cup {[seq |-> nextSeq[k], call |-> c]}]

(* Client.send, under the mutex that terminateCalls takes, too. *)
SendRefused(c) ==
  /\ phase[c] = "dialed"
  /\ ~IsAvailable(on[c])
  /\ Complete({c}, "error")
  /\ phase' = [phase EXCEPT ![c] = "waiting"]
  /\ UNCHANGED <<setup, on, seqOf, clientVars, pipeVars, serverVars, faults>>

Send(c) ==
  /\ phase[c] = "dialed"
  /\ IsAvailable(on[c])
  /\ phase' = [phase EXCEPT ![c] = "waiting"]
  /\ RegisterCall(c, on[c])

SendWritten(c) ==
  /\ Send(c)
  /\ link[on[c]] = "up"
  /\ AddPending(c, on[c])
  /\ up' = [up EXCEPT ![on[c]] =
              Append(@, [call |-> c, seq |-> nextSeq[on[c]], cut |-> FALSE])]
  /\ UNCHANGED <<setup, on, doneVars, cached, closing, shutdown, rcv, link,
                 down, serverVars, faults>>

(* Slip: the call is completed and stays pending. *)
SendFailsStillPending(c) ==
  /\ Send(c)
  /\ link[on[c]] = "down"
  /\ Complete({c}, "error")
  /\ AddPending(c, on[c])
  /\ UNCHANGED <<setup, on, cached, closing, shutdown, rcv, pipeVars,
                 serverVars, faults>>

(* The connection is gone and the receive goroutine has not noticed: Write  *)
(* fails and the call is completed, or its error is swallowed (a Flush of   *)
(* the gob and JSON codecs, data in the kernel's buffer).                   *)
SendFails(c) ==
  /\ Send(c)
  /\ link[on[c]] = "down"
  /\ \/ Complete({c}, "error") /\ UNCHANGED pending
     \/ AddPending(c, on[c]) /\ UNCHANGED doneVars
  /\ UNCHANGED <<setup, on, cached, closing, shutdown, rcv, pipeVars,
                 serverVars, faults>>

(* Client.Call: the answer, or the end of the context. *)
Return(c) ==
  /\ phase[c] = "waiting"
  /\ completions[c] > 0
  /\ phase' = [phase EXCEPT ![c] = "returned"]
  /\ UNCHANGED <<setup, on, seqOf, doneVars, clientVars, pipeVars, serverVars,
                 faults>>

Expire(c) ==
  /\ phase[c] = "waiting"
  /\ c \in WithDeadline
  /\ phase' = [phase EXCEPT ![c] = "returned"]
  /\ pending' = [pending EXCEPT ![on[c]] = RemoveCall(@, seqOf[c])]
  /\ UNCHANGED <<setup, on, seqOf, doneVars, cached, closing, shutdown, nextSeq,
                 rcv, pipeVars, serverVars, faults>>

-----------------------------------------------------------------------------
(* Client.receive.  Protobuf takes a body cut after its length for an empty *)
(* one.                                                                     *)
Outcomes(f) ==
  IF ~f.ok THEN {"error"}
  ELSE IF ~f.cut THEN {f.of}
  ELSE IF codec = "protobuf" THEN {"cut", "error"} ELSE {"error"}

(* A body nobody wants is decoded into nil, which JSON refuses. *)
CannotSkipBody(f, owner) == codec = "json" /\ (owner = {} \/ ~f.ok)

Receive(k) ==
  /\ rcv[k] = "reading"
  /\ down[k] # <<>>
  /\ LET f == Head(down[k])
         owner == {e.call : e \in {p \in pending[k] : p.seq = f.seq}}
     IN /\ \E what \in Outcomes(f) : Complete(owner, what)
        /\ pending' = [pending EXCEPT ![k] = RemoveCall(@, f.seq)]
        /\ rcv' = [rcv EXCEPT ![k] =
             IF f.cut \/ CannotSkipBody(f, owner) THEN "failing" ELSE @]
  /\ down' = [down EXCEPT ![k] = Tail(@)]
  /\ UNCHANGED <<setup, callVars, cached, closing, shutdown, nextSeq, link, up,
                 serverVars, faults>>

(* An error of ReadHeader, or of the ReadBody after an empty header. *)
ReceiveEnd(k) ==
  /\ rcv[k] = "reading"
  /\ down[k] = <<>>
  /\ link[k] = "down"
  /\ rcv' = [rcv EXCEPT ![k] = "failing"]
  /\ UNCHANGED <<setup, callVars, doneVars, cached, closing, shutdown, nextSeq,
                 pending, pipeVars, serverVars, faults>>

(* Slip: the pending calls are dropped, not completed. *)
TerminateSilently(k) ==
  /\ rcv[k] = "failing"
  /\ rcv' = [rcv EXCEPT ![k] = "ended"]
  /\ shutdown' = shutdown \cup {k}
  /\ UNCHANGED <<setup, callVars, doneVars, cached, closing, nextSeq, pending,
                 pipeVars, serverVars, faults>>

TerminateCalls(k) ==
  /\ rcv[k] = "failing"
  /\ rcv' = [rcv EXCEPT ![k] = "ended"]
  /\ shutdown' = shutdown \cup {k}
  /\ Complete({e.call : e \in pending[k]}, "error")
  /\ UNCHANGED <<setup, callVars, cached, closing, nextSeq, pending, pipeVars,
                 serverVars, faults>>

-----------------------------------------------------------------------------
(* ServeConn: the decoder of the Option buffers, and then drops, requests   *)
(* that had arrived behind it, the last one in whole or in part.            *)
Swallow(k, n) ==
  /\ up' = [up EXCEPT ![k] = SubSeq(@, n + 1, Len(@))]
  /\ swallowed' = swallowed \cup {up[k][i].call : i \in 1..n}

ReadOption(k) ==
  /\ srv[k] = "option"
  /\ srv' = [srv EXCEPT ![k] = "reading"]
  /\ \E n \in 0..Len(up[k]) :
       /\ Swallow(k, n)
       /\ UNCHANGED garbled \/ (n > 0 /\ garbled' = garbled \cup {k})
  /\ UNCHANGED <<setup, callVars, doneVars, clientVars, link, down, handler,
                 answers, faults>>

OptionLost(k) ==
  /\ srv[k] = "option"
  /\ link[k] = "down"
  /\ srv' = [srv EXCEPT ![k] = "closed"]
  /\ up' = [up EXCEPT ![k] = <<>>]
  /\ UNCHANGED <<setup, callVars, doneVars, clientVars, link, down, swallowed,
                 garbled, handler, answers, faults>>

(* readRequest.  A body that cannot be read leaves the arguments zero, and  *)
(* the method runs all the same.                                            *)
Respond(k, frames) ==
  down' = [down EXCEPT ![k] = IF link[k] = "up" THEN @ \o frames ELSE @]

Response(c, isOk) == [of |-> c, seq |-> seqOf[c], ok |-> isOk, cut |-> FALSE]
Stray(s) == [of |-> None, seq |-> s, ok |-> FALSE, cut |-> FALSE]

ReadRequest(k) ==
  /\ srv[k] = "reading" /\ k \notin garbled
  /\ up[k] # <<>>
  /\ Head(up[k]).call \notin unregistered
  /\ handler' = [handler EXCEPT ![Head(up[k]).call] = "running"]
  /\ up' = [up EXCEPT ![k] = Tail(@)]
  /\ UNCHANGED <<setup, callVars, doneVars, clientVars, link, down, srv,
                 swallowed, garbled, answers, faults>>

(* findService fails: an error response, and the body is left to be read as *)
(* the next header.  Gob cannot and gives the connection up; the others see *)
(* a header without method, which gets an error response of its own.        *)
RefuseRequest(k) ==
  /\ srv[k] = "reading" /\ k \notin garbled
  /\ up[k] # <<>>
  /\ LET c == Head(up[k]).call IN
       /\ c \in unregistered
       /\ \E s \in StraySeqs : Respond(k,
            IF codec = "gob" THEN <<Response(c, FALSE)>>
            ELSE <<Response(c, FALSE), Stray(s)>>)
       /\ answers' = [answers EXCEPT ![c] = @ + 1]
  /\ srv' = [srv EXCEPT ![k] = IF codec = "gob" THEN "draining" ELSE @]
  /\ up' = [up EXCEPT ![k] = Tail(@)]
  /\ UNCHANGED <<setup, callVars, doneVars, clientVars, link, swallowed,
                 garbled, handler, faults>>

(* In the middle of a frame.  Protobuf takes a length for what is none:     *)
(* what it reads up to there, frames of other calls included, is a header   *)
(* without method, and gets an error response (bound: one).  It may come    *)
(* out at the end of a frame again, or not; or the length is longer than    *)
(* all that will ever arrive.  JSON, too, can read a body as a header.      *)
Misread(k) ==
  /\ srv[k] = "reading" /\ k \in garbled
  /\ codec # "gob"
  /\ \E n \in 0..Len(up[k]) :
       /\ codec = "json" => n = 0
       /\ Swallow(k, n)
       /\ garbled' = garbled \ {k} \/ (n > 0 /\ UNCHANGED garbled)
  /\ \E s \in StraySeqs : Respond(k, <<Stray(s)>>)
  /\ UNCHANGED <<setup, callVars, doneVars, clientVars, link, srv, handler,
                 answers, faults>>

(* Gob and JSON meet what they cannot decode.                               *)
GiveUp(k) ==
  /\ srv[k] = "reading" /\ k \in garbled
  /\ codec # "protobuf"
  /\ srv' = [srv EXCEPT ![k] = "draining"]
  /\ UNCHANGED <<setup, callVars, doneVars, clientVars, pipeVars, swallowed,
                 garbled, handler, answers, faults>>

(* The end of the connection.  Protobuf's ReadHeader hides the error: the   *)
(* loop answers an empty header and reads again, which changes nothing.     *)
ReadEnd(k) ==
  /\ srv[k] = "reading"
  /\ up[k] = <<>> \/ k \in garbled
  /\ link[k] = "down"
  /\ codec # "protobuf"
  /\ srv' = [srv EXCEPT ![k] = "draining"]
  /\ UNCHANGED <<setup, callVars, doneVars, clientVars, pipeVars, swallowed,
                 garbled, handler, answers, faults>>

(* wg.Wait, cc.Close. *)
Drain(k) ==
  /\ srv[k] = "draining"
  /\ \A c \in Calls : on[c] = k => handler[c] # "running"
  /\ srv' = [srv EXCEPT ![k] = "closed"]
  /\ link' = Broken(k)
  /\ up' = [up EXCEPT ![k] = <<>>]
  /\ UNCHANGED <<setup, callVars, doneVars, clientVars, down, swallowed,
                 garbled, handler, answers, faults>>

(* handleRequest: the method returns and its goroutine answers ... *)
Answer(c) ==
  /\ handler[c] = "running"
  /\ handler' = [handler EXCEPT ![c] = "answered"]
  /\ answers' = [answers EXCEPT ![c] = @ + 1]
  /\ \E isOk \in BOOLEAN : Respond(on[c], <<Response(c, isOk)>>)
  /\ UNCHANGED <<setup, callVars, doneVars, clientVars, link, up, srv,
                 swallowed, garbled, faults>>

(* Slip: the method answers, too, when it returns after the timeout. *)
TimeoutAndAnswer(c) ==
  /\ handler[c] = "running"
  /\ answers' = [answers EXCEPT ![c] = @ + 1]
  /\ Respond(on[c], <<Response(c, FALSE)>>)
  /\ UNCHANGED <<setup, callVars, doneVars, clientVars, link, up, srv,
                 swallowed, garbled, handler, faults>>

(* ... or the timeout comes first and answers in its place: the method's    *)
(* goroutine will wait on `called` forever.                                 *)
HandleTimeout(c) ==
  /\ handler[c] = "running"
  /\ handler' = [handler EXCEPT ![c] = "late"]
  /\ answers' = [answers EXCEPT ![c] = @ + 1]
  /\ Respond(on[c], <<Response(c, FALSE)>>)
  /\ UNCHANGED <<setup, callVars, doneVars, clientVars, link, up, srv,
                 swallowed, garbled, faults>>

-----------------------------------------------------------------------------
(* What is left of a pipe when the connection breaks. *)
Remains(s) ==
  {SubSeq(s, 1, n) : n \in 0..Len(s)} \cup
  {Append(SubSeq(s, 1, n - 1), [s[n] EXCEPT !.cut = TRUE]) : n \in 1..Len(s)}

Lose(k) ==
  /\ link[k] = "up"
  /\ Fault
  /\ link' = Broken(k)
  /\ \E s \in Remains(up[k]) : up' = [up EXCEPT ![k] = s]
  /\ \E s \in Remains(down[k]) : down' = [down EXCEPT ![k] = s]
  /\ UNCHANGED <<setup, callVars, doneVars, clientVars, serverVars>>

CallStep(c) ==
  \/ UseCached(c) \/ DialNew(c)
  \/ SendRefused(c) \/ SendWritten(c) \/ SendFails(c) \/ Return(c)
ReceiveStep(k) == Receive(k) \/ ReceiveEnd(k) \/ TerminateCalls(k)
ServeStep(k) ==
  ReadOption(k) \/ OptionLost(k) \/ ReadRequest(k) \/ RefuseRequest(k) \/ ReadEnd(k)
  \/ Drain(k)
OutOfStep(k) == Misread(k) \/ GiveUp(k)

RpcNext ==
  \/ \E c \in Calls :
       \/ CallStep(c) \/ DialFails(c) \/ Expire(c)
       \/ Answer(c) \/ HandleTimeout(c)
  \/ \E k \in Conns : ReceiveStep(k) \/ ServeStep(k) \/ OutOfStep(k) \/ Lose(k)
  \/ CloseAll

(* Goroutines run on; a method returns or is timed out.  A server in the    *)
(* middle of a frame may wait for bytes that never come.                    *)
RpcFairness ==
  /\ \A c \in Calls : WF_rpcVars(CallStep(c)) /\ WF_rpcVars(Answer(c) \/ HandleTimeout(c))
  /\ \A k \in Conns : WF_rpcVars(ReceiveStep(k)) /\ WF_rpcVars(ServeStep(k))

RpcSpec == RpcInit /\ [][RpcNext]_rpcVars /\ RpcFairness

-----------------------------------------------------------------------------
(* Response, write error, shutdown and cancelled context race for a call    *)
(* (client.go:107-158, 273-280, 320): it is completed at most once, so that *)
(* done() never blocks with the mutex held.                                 *)
CompletedOnce == \A c \in Calls : completions[c] <= 1

(* Calls sharing a connection never get each other's reply, and a reply     *)
(* means that the server ran the method and answered.                       *)
OwnReply == \A c \in Calls : reply[c] \in Calls => reply[c] = c /\ answers[c] = 1

(* A request gets at most one response, although the timeout and the method *)
(* both may answer (server.go:264-272).                                     *)
AnsweredOnce == \A c \in Calls : answers[c] <= 1

(* A call returns, whatever breaks and whoever closes the client, even      *)
(* without a deadline, unless its request went with the Option or the       *)
(* server is out of step with the stream of its connection.                 *)
CallReturns == \A c \in Calls :
  phase[c] = "waiting" ~> phase[c] = "returned" \/ c \in swallowed \/ on[c] \in garbled

(* server.go:118: a connection that cannot be recovered is closed.          *)
ServeLoopEnds == \A k \in Conns : link[k] = "down" ~> srv[k] = "closed"
=============================================================================
