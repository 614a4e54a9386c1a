---------------------------- MODULE GeeRpc_proofs ----------------------------
(***************************************************************************)
(* Theorems about the RPC library, for every set of calls and connections, *)
(* every codec and every number of broken connections.                     *)
(***************************************************************************)
EXTENDS GeeRpc, TLAPS

(* A call whose request was numbered: from then on its connection and its   *)
(* number are fixed.                                                        *)
Sent(c) ==
  /\ phase[c] \in {"waiting", "returned"}
  /\ on[c] \in Conns
  /\ seqOf[c] \in Nat \ {0}
  /\ seqOf[c] < nextSeq[on[c]]

(* Calls before send, and what the receive goroutine's end means. *)
PhaseInv ==
  /\ \A c \in Calls : phase[c] \in {"dialed", "waiting"} => on[c] \in Conns
  /\ \A c \in Calls : phase[c] \in {"idle", "dialed"} => completions[c] = 0
  /\ \A c \in Calls : seqOf[c] # 0 => Sent(c)
  /\ \A k \in Conns : k \in shutdown <=> rcv[k] = "ended"
  /\ \A k \in Conns : link[k] = "none" => rcv[k] = "off"

(* Numbers of one client are distinct. *)
SeqInv == \A c, d \in Calls :
  Sent(c) /\ Sent(d) /\ on[c] = on[d] /\ seqOf[c] = seqOf[d] => c = d

(* A pending call was sent on this connection and, until terminateCalls has *)
(* run, waits and is not completed.                                         *)
PendingInv == \A k \in Conns : \A e \in pending[k] :
  /\ Sent(e.call) /\ on[e.call] = k /\ seqOf[e.call] = e.seq
  /\ rcv[k] # "ended" => phase[e.call] = "waiting" /\ completions[e.call] = 0

(* A request on its way is the only one of its call, which nobody has       *)
(* handled or answered yet.                                                 *)
UpInv == \A k \in Conns : \A i \in DOMAIN up[k] :
  LET c == up[k][i].call IN
  /\ Sent(c) /\ on[c] = k /\ up[k][i].seq = seqOf[c]
  /\ handler[c] = "none" /\ answers[c] = 0
  /\ \A j \in DOMAIN up[k] : up[k][j].call = c => j = i

(* The server's goroutines: a request that runs has no answer yet. *)
HandlerInv == \A c \in Calls :
  /\ handler[c] # "none" \/ answers[c] # 0 => Sent(c)
  /\ handler[c] = "running" => answers[c] = 0
  /\ answers[c] <= 1

(* A response bears the number of the call it answers; the stray one of a   *)
(* body read as a header is an error.                                       *)
DownInv == \A k \in Conns : \A i \in DOMAIN down[k] :
  LET f == down[k][i] IN
  /\ f.of = None => ~f.ok
  /\ f.of # None => Sent(f.of) /\ on[f.of] = k /\ f.seq = seqOf[f.of] /\ answers[f.of] = 1

RpcInv ==
  /\ RpcTypeOK /\ PhaseInv /\ SeqInv /\ PendingInv /\ UpInv /\ HandlerInv /\ DownInv
  /\ CompletedOnce /\ OwnReply

-----------------------------------------------------------------------------
(* Frames are taken off a pipe at its head, and at its end when it breaks.  *)
LEMMA TailFrames ==
  ASSUME NEW R, NEW s \in Seq(R), s # <<>>
  PROVE  /\ Head(s) \in R /\ 1 \in DOMAIN s /\ Head(s) = s[1]
         /\ Tail(s) \in Seq(R)
         /\ \A i \in DOMAIN Tail(s) :
              i \in Nat /\ i + 1 \in DOMAIN s /\ Tail(s)[i] = s[i + 1]
OBVIOUS

LEMMA ShortPipes ==
  ASSUME NEW R, NEW x \in R, NEW y \in R
  PROVE  <<x>> \in Seq(R) /\ <<x, y>> \in Seq(R)
OBVIOUS

LEMMA SuffixFrames ==
  ASSUME NEW R, NEW s \in Seq(R), NEW n \in 0..Len(s)
  PROVE  /\ SubSeq(s, n + 1, Len(s)) \in Seq(R)
         /\ \A i \in DOMAIN SubSeq(s, n + 1, Len(s)) :
              /\ i \in Nat /\ i + n \in DOMAIN s
              /\ SubSeq(s, n + 1, Len(s))[i] = s[i + n]
OBVIOUS

(* A frame that is cut keeps what its header says. *)
Header(f, g) == f = g \/ f = [g EXCEPT !.cut = TRUE]

LEMMA RemainsFrames ==
  ASSUME NEW R, NEW s \in Seq(R), \A f \in R : [f EXCEPT !.cut = TRUE] \in R,
         NEW t \in Remains(s)
  PROVE  /\ t \in Seq(R)
         /\ \A i \in DOMAIN t : i \in DOMAIN s /\ Header(t[i], s[i])
<1>1. ASSUME NEW n \in 0..Len(s), t = SubSeq(s, 1, n)
      PROVE  /\ t \in Seq(R)
             /\ \A i \in DOMAIN t : i \in DOMAIN s /\ Header(t[i], s[i])
  <2>1. t \in Seq(R) /\ \A i \in DOMAIN t : i \in DOMAIN s /\ t[i] = s[i]
    BY <1>1
  <2> QED BY <2>1 DEF Header
<1>2. ASSUME NEW n \in 1..Len(s),
             t = Append(SubSeq(s, 1, n - 1), [s[n] EXCEPT !.cut = TRUE])
      PROVE  /\ t \in Seq(R)
             /\ \A i \in DOMAIN t : i \in DOMAIN s /\ Header(t[i], s[i])
  <2> DEFINE last == [s[n] EXCEPT !.cut = TRUE]
             front == SubSeq(s, 1, n - 1)
  <2>1. s[n] \in R /\ n \in Nat /\ n \in DOMAIN s /\ Len(s) \in Nat /\ DOMAIN s = 1..Len(s)
    OBVIOUS
  <2>2. last \in R
    BY <2>1
  <2>3. front \in Seq(R) /\ Len(front) = n - 1 /\ \A i \in 1..(n - 1) : front[i] = s[i]
    BY <2>1
  <2>4. t = Append(front, last)
    BY <1>2
  <2> HIDE DEF front, last
  <2>5. /\ t \in Seq(R) /\ DOMAIN t = 1..n /\ t[n] = last
        /\ \A i \in 1..(n - 1) : t[i] = front[i]
    BY <2>1, <2>2, <2>3, <2>4
  <2>6. \A i \in DOMAIN t : i \in DOMAIN s /\ (i = n \/ i \in 1..(n - 1))
    BY <2>1, <2>5
  <2>7. Header(t[n], s[n])
    BY <2>5 DEF Header, last
  <2>8. \A i \in 1..(n - 1) : Header(t[i], s[i])
    BY <2>3, <2>5 DEF Header
  <2> QED BY <2>5, <2>6, <2>7, <2>8
<1> QED BY <1>1, <1>2 DEF Remains

LEMMA CutRequest ==
  ASSUME NEW f \in Requests, NEW g, Header(g, f)
  PROVE  g.call = f.call /\ g.seq = f.seq
BY DEF Requests, Header

LEMMA CutResponse ==
  ASSUME NEW f \in Responses, NEW g, Header(g, f)
  PROVE  g.of = f.of /\ g.seq = f.seq /\ g.ok = f.ok
BY DEF Responses, Header

LEMMA CutTypes ==
  /\ \A f \in Requests : [f EXCEPT !.cut = TRUE] \in Requests
  /\ \A f \in Responses : [f EXCEPT !.cut = TRUE] \in Responses
BY DEF Requests, Responses

-----------------------------------------------------------------------------
LEMMA CompleteType ==
  ASSUME completions \in [Calls -> Nat],
         reply \in [Calls -> Calls \cup {"none", "error", "cut"}],
         NEW calls, NEW what \in Calls \cup {"none", "error", "cut"}, Complete(calls, what)
  PROVE  /\ completions' \in [Calls -> Nat]
         /\ reply' \in [Calls -> Calls \cup {"none", "error", "cut"}]
BY DEF Complete

LEMMA AddPendingType ==
  ASSUME pending \in [Conns -> SUBSET Entries], NEW c \in Calls, NEW k \in Conns,
         nextSeq[k] \in Nat, AddPending(c, k)
  PROVE  pending' \in [Conns -> SUBSET Entries]
<1>1. [seq |-> nextSeq[k], call |-> c] \in Entries
  BY DEF Entries
<1>2. RemoveCall(pending[k], nextSeq[k]) \in SUBSET Entries
  BY DEF RemoveCall
<1> QED BY <1>1, <1>2 DEF AddPending

LEMMA RespondType ==
  ASSUME down \in [Conns -> Seq(Responses)], NEW k \in Conns, NEW frames \in Seq(Responses),
         Respond(k, frames)
  PROVE  down' \in [Conns -> Seq(Responses)]
<1>1. down[k] \o frames \in Seq(Responses)
  OBVIOUS
<1> QED BY <1>1 DEF Respond

LEMMA CloseType ==
  ASSUME RpcTypeOK, NEW k \in Conns, Close(k)
  PROVE  /\ closing' \subseteq Conns
         /\ link' \in [Conns -> {"none", "up", "down"}]
         /\ down' \in [Conns -> Seq(Responses)]
<1>1. <<>> \in Seq(Responses)
  OBVIOUS
<1> QED BY <1>1 DEF RpcTypeOK, Close, Broken

(* The calls and the client. *)
LEMMA CallTypeStep ==
  ASSUME RpcTypeOK, PhaseInv, NEW c \in Calls,
         CallStep(c) \/ DialFails(c) \/ Expire(c)
  PROVE  RpcTypeOK'
<1> USE DEF RpcTypeOK
<1>u. {"none", "error", "cut"} \subseteq Calls \cup {"none", "error", "cut"}
  OBVIOUS
<1>e. <<>> \in Seq(Responses)
  OBVIOUS
<1>1. CASE UseCached(c)
  BY <1>1 DEF UseCached, setup, doneVars, clientVars, pipeVars, serverVars
<1>2. CASE DialNew(c)
  <2> DEFINE k == CHOOSE k \in Conns : link[k] = "none"
  <2>1. k \in Conns
    BY <1>2 DEF DialNew
  <2> HIDE DEF k
  <2>2. /\ cached' = k /\ rcv' = [rcv EXCEPT ![k] = "reading"]
        /\ srv' = [srv EXCEPT ![k] = "option"]
        /\ on' = [on EXCEPT ![c] = k] /\ phase' = [phase EXCEPT ![c] = "dialed"]
        /\ UNCHANGED <<setup, seqOf, doneVars, shutdown, nextSeq, pending, up, swallowed, garbled,
                       handler, answers, faults>>
    BY <1>2 DEF DialNew, k
  <2>3. /\ closing' \subseteq Conns
        /\ link' \in [Conns -> {"none", "up", "down"}]
        /\ down' \in [Conns -> Seq(Responses)]
    <3>1. CASE UNCHANGED <<closing, down>> /\ link' = [link EXCEPT ![k] = "up"]
      BY <3>1
    <3>2. CASE /\ cached # None
               /\ closing' = closing \cup {cached}
               /\ down' = [down EXCEPT ![cached] = <<>>]
               /\ link' = [Broken(cached) EXCEPT ![k] = "up"]
      <4>1. Broken(cached) \in [Conns -> {"none", "up", "down"}]
        BY DEF Broken
      <4> QED BY <1>e, <3>2, <4>1
    <3> QED BY <1>2, <3>1, <3>2 DEF DialNew, k
  <2> QED BY <2>1, <2>2, <2>3 DEF setup, doneVars
<1>3. CASE DialFails(c)
  <2>1. /\ closing' \subseteq Conns
        /\ link' \in [Conns -> {"none", "up", "down"}]
        /\ down' \in [Conns -> Seq(Responses)]
    <3>1. CASE UNCHANGED <<closing, link, down>>
      BY <3>1
    <3>2. CASE cached # None /\ Close(cached)
      BY <3>2, CloseType
    <3> QED BY <1>3, <3>1, <3>2 DEF DialFails
  <2>2. faults' \in 0..MaxFaults
    BY <1>3, RpcAssumption DEF DialFails, Fault
  <2> QED BY <1>3, <2>1, <2>2 DEF DialFails, setup, serverVars
<1>4. CASE SendRefused(c)
  <2>1. /\ completions' \in [Calls -> Nat]
        /\ reply' \in [Calls -> Calls \cup {"none", "error", "cut"}]
    BY <1>4, CompleteType DEF SendRefused
  <2> QED BY <1>4, <2>1 DEF SendRefused, setup, clientVars, pipeVars, serverVars
<1>5. ASSUME Send(c)
      PROVE  /\ on[c] \in Conns /\ nextSeq[on[c]] \in Nat
             /\ phase' \in [Calls -> {"idle", "dialed", "waiting", "returned"}]
             /\ seqOf' \in [Calls -> Nat]
             /\ nextSeq' \in [Conns -> Nat \ {0}]
  <2>1. on[c] \in Conns /\ nextSeq[on[c]] \in Nat
    BY <1>5 DEF Send, PhaseInv
  <2>2. nextSeq[on[c]] + 1 \in Nat \ {0}
    BY <2>1
  <2> QED BY <1>5, <2>1, <2>2 DEF Send, RegisterCall
<1>6. CASE SendWritten(c)
  <2>1. [call |-> c, seq |-> nextSeq[on[c]], cut |-> FALSE] \in Requests
    BY <1>5, <1>6 DEF SendWritten, Requests
  <2>2. Append(up[on[c]], [call |-> c, seq |-> nextSeq[on[c]], cut |-> FALSE]) \in Seq(Requests)
    BY <1>5, <1>6, <2>1 DEF SendWritten
  <2>3. up' \in [Conns -> Seq(Requests)]
    BY <1>6, <2>2 DEF SendWritten
  <2>4. pending' \in [Conns -> SUBSET Entries]
    BY <1>5, <1>6, AddPendingType DEF SendWritten
  <2> QED BY <1>5, <1>6, <2>3, <2>4 DEF SendWritten, setup, doneVars, serverVars
<1>7. CASE SendFails(c)
  <2>1. pending' \in [Conns -> SUBSET Entries]
    BY <1>5, <1>7, AddPendingType DEF SendFails
  <2>2. /\ completions' \in [Calls -> Nat]
        /\ reply' \in [Calls -> Calls \cup {"none", "error", "cut"}]
    <3>1. CASE Complete({c}, "error")
      BY <3>1, CompleteType
    <3>2. CASE UNCHANGED doneVars
      BY <3>2 DEF doneVars
    <3> QED BY <1>7, <3>1, <3>2 DEF SendFails
  <2> QED BY <1>5, <1>7, <2>1, <2>2 DEF SendFails, setup, pipeVars, serverVars
<1>8. CASE Return(c)
  BY <1>8 DEF Return, setup, doneVars, clientVars, pipeVars, serverVars
<1>9. CASE Expire(c)
  <2>1. pending' \in [Conns -> SUBSET Entries]
    BY <1>9 DEF Expire, RemoveCall
  <2> QED BY <1>9, <2>1 DEF Expire, setup, doneVars, pipeVars, serverVars
<1> QED BY <1>1, <1>2, <1>3, <1>4, <1>6, <1>7, <1>8, <1>9 DEF CallStep

(* The receive goroutine, the server and the connections. *)
LEMMA ConnTypeStep ==
  ASSUME RpcTypeOK, DownInv, NEW k \in Conns, ReceiveStep(k) \/ ServeStep(k) \/ OutOfStep(k) \/ Lose(k)
  PROVE  RpcTypeOK'
<1> USE DEF RpcTypeOK
<1>e. <<>> \in Seq(Requests) /\ <<>> \in Seq(Responses)
  OBVIOUS
<1>1. CASE Receive(k)
  <2> DEFINE f == Head(down[k])
  <2>1. down[k] \in Seq(Responses) /\ down[k] # <<>>
    BY <1>1 DEF Receive
  <2>2. f \in Responses /\ Tail(down[k]) \in Seq(Responses)
    BY <2>1, TailFrames
  <2>3. PICK calls : \E what \in Outcomes(f) : Complete(calls, what)
    BY <1>1 DEF Receive
  <2>4. PICK what \in Outcomes(f) : Complete(calls, what)
    BY <2>3
  <2>5. \/ what \in {"error", "cut"}
        \/ what = f.of /\ f.ok
    BY <2>4 DEF Outcomes
  <2>6. what \in Calls \cup {"none", "error", "cut"}
    <3>1. f.of = None => ~f.ok
      BY <2>1, TailFrames DEF DownInv
    <3>2. f.of \in Calls \cup {None}
      BY <2>2 DEF Responses
    <3> QED BY <2>5, <3>1, <3>2
  <2>7. pending' \in [Conns -> SUBSET Entries]
    BY <1>1 DEF Receive, RemoveCall
  <2>8. rcv' \in [Conns -> {"off", "reading", "failing", "ended"}]
    BY <1>1 DEF Receive
  <2>9. down' \in [Conns -> Seq(Responses)]
    BY <1>1, <2>2 DEF Receive
  <2> QED
    BY <1>1, <2>4, <2>6, <2>7, <2>8, <2>9, CompleteType DEF Receive, setup, callVars, serverVars
<1>2. CASE ReceiveEnd(k)
  BY <1>2 DEF ReceiveEnd, setup, callVars, doneVars, pipeVars, serverVars
<1>3. CASE TerminateCalls(k)
  <2>1. /\ completions' \in [Calls -> Nat]
        /\ reply' \in [Calls -> Calls \cup {"none", "error", "cut"}]
    BY <1>3, CompleteType DEF TerminateCalls
  <2> QED BY <1>3, <2>1 DEF TerminateCalls, setup, callVars, pipeVars, serverVars
<1>s. ASSUME NEW n \in 0..Len(up[k]), Swallow(k, n)
      PROVE  swallowed' \subseteq Calls /\ up' \in [Conns -> Seq(Requests)]
  <2>1. up[k] \in Seq(Requests) /\ SubSeq(up[k], n + 1, Len(up[k])) \in Seq(Requests)
    BY SuffixFrames
  <2>2. \A i \in 1..n : up[k][i].call \in Calls
    <3>1. \A i \in 1..n : up[k][i] \in Requests
      BY <2>1
    <3> QED BY <3>1 DEF Requests
  <2>3. swallowed' \subseteq Calls
    BY <1>s, <2>2 DEF Swallow
  <2>4. up' \in [Conns -> Seq(Requests)]
    BY <1>s, <2>1 DEF Swallow
  <2> QED BY <2>3, <2>4
<1>4. CASE ReadOption(k)
  <2>1. swallowed' \subseteq Calls /\ up' \in [Conns -> Seq(Requests)]
    BY <1>4, <1>s DEF ReadOption
  <2>2. garbled' \subseteq Conns
    BY <1>4 DEF ReadOption
  <2> QED BY <1>4, <2>1, <2>2 DEF ReadOption, setup, callVars, doneVars, clientVars
<1>12. CASE Misread(k)
  <2>1. swallowed' \subseteq Calls /\ up' \in [Conns -> Seq(Requests)]
    BY <1>12, <1>s DEF Misread
  <2>2. garbled' \subseteq Conns
    BY <1>12 DEF Misread
  <2>3. down' \in [Conns -> Seq(Responses)]
    <3>1. PICK s \in StraySeqs : Respond(k, <<Stray(s)>>)
      BY <1>12 DEF Misread
    <3>2. Stray(s) \in Responses
      BY RpcAssumption DEF Stray, Responses
    <3>3. <<Stray(s)>> \in Seq(Responses)
      BY <3>2, ShortPipes
    <3> QED BY <3>1, <3>3, RespondType
  <2> QED BY <1>12, <2>1, <2>2, <2>3 DEF Misread, setup, callVars, doneVars, clientVars
<1>13. CASE GiveUp(k)
  BY <1>13 DEF GiveUp, setup, callVars, doneVars, clientVars, pipeVars
<1>5. CASE OptionLost(k)
  BY <1>5, <1>e DEF OptionLost, setup, callVars, doneVars, clientVars
<1>6. ASSUME up[k] # <<>>
      PROVE  Head(up[k]).call \in Calls /\ Tail(up[k]) \in Seq(Requests)
  <2>1. Head(up[k]) \in Requests /\ Tail(up[k]) \in Seq(Requests)
    BY <1>6, TailFrames
  <2> QED BY <2>1 DEF Requests
<1>7. CASE ReadRequest(k)
  BY <1>6, <1>7 DEF ReadRequest, setup, callVars, doneVars, clientVars
<1>8. CASE RefuseRequest(k)
  <2> DEFINE c == Head(up[k]).call
  <2>1. c \in Calls /\ Tail(up[k]) \in Seq(Requests)
    BY <1>6, <1>8 DEF RefuseRequest
  <2>2. PICK s \in StraySeqs : Respond(k,
            IF codec = "gob" THEN <<Response(c, FALSE)>>
            ELSE <<Response(c, FALSE), Stray(s)>>)
    BY <1>8 DEF RefuseRequest
  <2>3. Response(c, FALSE) \in Responses
    BY <2>1 DEF Response, Responses
  <2>4. Stray(s) \in Responses
    BY RpcAssumption DEF Stray, Responses
  <2>5. down' \in [Conns -> Seq(Responses)]
    <3>1. <<Response(c, FALSE)>> \in Seq(Responses)
      BY <2>3, ShortPipes
    <3>2. <<Response(c, FALSE), Stray(s)>> \in Seq(Responses)
      BY <2>3, <2>4, ShortPipes
    <3>3. CASE codec = "gob"
      BY <2>2, <3>1, <3>3, RespondType
    <3>4. CASE codec # "gob"
      BY <2>2, <3>2, <3>4, RespondType
    <3> QED BY <3>3, <3>4
  <2>6. answers' \in [Calls -> Nat] /\ up' \in [Conns -> Seq(Requests)]
        /\ srv' \in [Conns -> {"off", "option", "reading", "draining", "closed"}]
    BY <1>8, <2>1 DEF RefuseRequest
  <2> QED BY <1>8, <2>5, <2>6 DEF RefuseRequest, setup, callVars, doneVars, clientVars
<1>9. CASE ReadEnd(k)
  BY <1>9 DEF ReadEnd, setup, callVars, doneVars, clientVars, pipeVars
<1>10. CASE Drain(k)
  BY <1>10, <1>e DEF Drain, Broken, setup, callVars, doneVars, clientVars
<1>11. CASE Lose(k)
  <2>1. PICK s \in Remains(up[k]) : up' = [up EXCEPT ![k] = s]
    BY <1>11 DEF Lose
  <2>2. PICK t \in Remains(down[k]) : down' = [down EXCEPT ![k] = t]
    BY <1>11 DEF Lose
  <2>3. s \in Seq(Requests)
    BY CutTypes, RemainsFrames
  <2>4. t \in Seq(Responses)
    BY CutTypes, RemainsFrames
  <2>5. up' \in [Conns -> Seq(Requests)] /\ down' \in [Conns -> Seq(Responses)]
    BY <2>1, <2>2, <2>3, <2>4
  <2>6. faults' \in 0..MaxFaults
    BY <1>11, RpcAssumption DEF Lose, Fault
  <2> QED
    BY <1>11, <2>5, <2>6 DEF Lose, Broken, setup, callVars, doneVars, clientVars, serverVars
<1> QED
  BY <1>1, <1>2, <1>3, <1>4, <1>5, <1>7, <1>8, <1>9, <1>10, <1>11, <1>12, <1>13
     DEF ReceiveStep, ServeStep, OutOfStep

LEMMA RpcTypeStep ==
  ASSUME RpcTypeOK, PhaseInv, DownInv, HandlerInv, [RpcNext]_rpcVars
  PROVE  RpcTypeOK'
<1>1. CASE UNCHANGED rpcVars
  BY <1>1 DEF RpcTypeOK, rpcVars, setup, callVars, doneVars, clientVars, pipeVars, serverVars
<1>2. ASSUME NEW c \in Calls, Answer(c) \/ HandleTimeout(c)
      PROVE  RpcTypeOK'
  <2>1. PICK isOk \in BOOLEAN : Respond(on[c], <<Response(c, isOk)>>)
    BY <1>2 DEF Answer, HandleTimeout
  <2>2. <<Response(c, isOk)>> \in Seq(Responses)
    BY DEF Response, Responses, RpcTypeOK
  <2>3. on[c] \in Conns
    BY <1>2 DEF Answer, HandleTimeout, HandlerInv, Sent
  <2>4. down' \in [Conns -> Seq(Responses)]
    BY <2>1, <2>2, <2>3, RespondType DEF RpcTypeOK
  <2>5. answers' \in [Calls -> Nat]
    <3>1. answers' = [answers EXCEPT ![c] = @ + 1]
      BY <1>2 DEF Answer, HandleTimeout
    <3> QED BY <3>1 DEF RpcTypeOK
  <2>6. handler' \in [Calls -> {"none", "running", "answered", "late"}]
    <3>1. \E v \in {"answered", "late"} : handler' = [handler EXCEPT ![c] = v]
      BY <1>2 DEF Answer, HandleTimeout
    <3> QED BY <3>1 DEF RpcTypeOK
  <2> QED
    BY <1>2, <2>4, <2>5, <2>6 DEF RpcTypeOK, Answer, HandleTimeout, setup, callVars, doneVars, clientVars
<1>3. CASE CloseAll
  <2>1. /\ closing' \subseteq Conns
        /\ link' \in [Conns -> {"none", "up", "down"}]
        /\ down' \in [Conns -> Seq(Responses)]
    BY <1>3, CloseType DEF CloseAll, RpcTypeOK
  <2>2. faults' \in 0..MaxFaults
    BY <1>3, RpcAssumption DEF CloseAll, Fault, RpcTypeOK
  <2> QED BY <1>3, <2>1, <2>2 DEF RpcTypeOK, CloseAll, setup, callVars, doneVars, serverVars
<1> QED BY <1>1, <1>2, <1>3, CallTypeStep, ConnTypeStep DEF RpcNext

-----------------------------------------------------------------------------
(* What a step may do to the calls: one finds a connection, one is sent, or *)
(* one moves on.                                                            *)
Dialed(c) ==
  /\ phase[c] = "idle"
  /\ phase' = [phase EXCEPT ![c] = "dialed"]
  /\ \E k \in Conns : on' = [on EXCEPT ![c] = k]
  /\ UNCHANGED <<seqOf, nextSeq>>
MovedOn(c) ==
  /\ \/ phase[c] = "dialed" /\ phase' = [phase EXCEPT ![c] = "waiting"]
     \/ phase[c] \in {"idle", "waiting"} /\ phase' = [phase EXCEPT ![c] = "returned"]
  /\ UNCHANGED <<on, seqOf, nextSeq>>

LEMMA CallView ==
  ASSUME RpcTypeOK, [RpcNext]_rpcVars
  PROVE  \/ UNCHANGED <<callVars, nextSeq>>
         \/ \E c \in Calls : Dialed(c) \/ MovedOn(c) \/ (Send(c) /\ UNCHANGED on)
<1>1. ASSUME NEW c \in Calls, UseCached(c) PROVE Dialed(c)
  BY <1>1 DEF UseCached, Dialed, clientVars, RpcTypeOK
<1>2. ASSUME NEW c \in Calls, DialNew(c) PROVE Dialed(c)
  <2> DEFINE k == CHOOSE k \in Conns : link[k] = "none"
  <2>1. k \in Conns
    BY <1>2 DEF DialNew
  <2>2. on' = [on EXCEPT ![c] = k]
    BY <1>2 DEF DialNew
  <2> HIDE DEF k
  <2> QED BY <1>2, <2>1, <2>2 DEF DialNew, Dialed
<1>3. ASSUME NEW c \in Calls, DialFails(c) \/ SendRefused(c) \/ Return(c) \/ Expire(c)
      PROVE  MovedOn(c)
  BY <1>3 DEF DialFails, SendRefused, Return, Expire, MovedOn, clientVars
<1>4. ASSUME NEW c \in Calls, SendWritten(c) \/ SendFails(c)
      PROVE  Send(c) /\ UNCHANGED on
  BY <1>4 DEF SendWritten, SendFails
<1>5. ASSUME NEW c \in Calls, Answer(c) \/ HandleTimeout(c)
      PROVE  UNCHANGED <<callVars, nextSeq>>
  BY <1>5 DEF Answer, HandleTimeout, clientVars
<1>6. ASSUME NEW k \in Conns, ReceiveStep(k) \/ ServeStep(k) \/ OutOfStep(k) \/ Lose(k)
      PROVE  UNCHANGED <<callVars, nextSeq>>
  BY <1>6 DEF ReceiveStep, Receive, ReceiveEnd, TerminateCalls, ServeStep, OutOfStep, Misread, GiveUp, ReadOption,
     OptionLost, ReadRequest, RefuseRequest, ReadEnd, Drain, Lose, clientVars
<1>7. CloseAll \/ UNCHANGED rpcVars => UNCHANGED <<callVars, nextSeq>>
  BY DEF CloseAll, rpcVars, clientVars
<1> QED BY <1>1, <1>2, <1>3, <1>4, <1>5, <1>6, <1>7 DEF RpcNext, CallStep

LEMMA SendSends ==
  ASSUME RpcTypeOK, PhaseInv, NEW c \in Calls, Send(c), UNCHANGED on
  PROVE  /\ ~Sent(c) /\ Sent(c)' /\ on[c] \in Conns /\ seqOf'[c] = nextSeq[on[c]]
         /\ phase'[c] = "waiting"
         /\ \A d \in Calls \ {c} : phase'[d] = phase[d] /\ seqOf'[d] = seqOf[d]
         /\ nextSeq' = [nextSeq EXCEPT ![on[c]] = @ + 1]
<1>1. on[c] \in Conns
  BY DEF Send, PhaseInv
<1>2. nextSeq[on[c]] \in Nat \ {0} /\ nextSeq'[on[c]] = nextSeq[on[c]] + 1
  BY <1>1 DEF Send, RegisterCall, RpcTypeOK
<1>3. seqOf'[c] = nextSeq[on[c]] /\ phase'[c] = "waiting" /\ phase[c] = "dialed"
  BY DEF Send, RegisterCall, RpcTypeOK
<1>4. \A d \in Calls \ {c} : phase'[d] = phase[d] /\ seqOf'[d] = seqOf[d]
  BY DEF Send, RegisterCall, RpcTypeOK
<1> QED BY <1>1, <1>2, <1>3, <1>4 DEF Sent, Send, RegisterCall

(* What is sent stays sent, on its connection and under its number. *)
LEMMA SentStays ==
  ASSUME RpcTypeOK, PhaseInv, [RpcNext]_rpcVars, NEW c \in Calls, Sent(c)
  PROVE  Sent(c)' /\ on'[c] = on[c] /\ seqOf'[c] = seqOf[c]
<1>1. CASE UNCHANGED <<callVars, nextSeq>>
  BY <1>1 DEF Sent, callVars
<1>2. ASSUME NEW d \in Calls, Dialed(d) \/ MovedOn(d)
      PROVE  Sent(c)' /\ on'[c] = on[c] /\ seqOf'[c] = seqOf[c]
  BY <1>2 DEF Dialed, MovedOn, Sent, RpcTypeOK
<1>3. ASSUME NEW d \in Calls, Send(d), UNCHANGED on
      PROVE  Sent(c)' /\ on'[c] = on[c] /\ seqOf'[c] = seqOf[c]
  <2>1. /\ ~Sent(d) /\ nextSeq' = [nextSeq EXCEPT ![on[d]] = @ + 1] /\ on[d] \in Conns
        /\ phase'[c] = phase[c] /\ seqOf'[c] = seqOf[c]
    BY <1>3, SendSends
  <2>2. nextSeq[on[c]] \in Nat /\ seqOf[c] \in Nat
        /\ nextSeq'[on[c]] \in {nextSeq[on[c]], nextSeq[on[c]] + 1}
    BY <2>1 DEF RpcTypeOK, Sent
  <2>3. seqOf[c] < nextSeq'[on[c]]
    BY <2>2 DEF Sent
  <2> QED BY <1>3, <2>1, <2>3 DEF Sent
<1> QED BY <1>1, <1>2, <1>3, CallView

(* Only send makes a call sent. *)
LEMMA NewlySent ==
  ASSUME RpcTypeOK, PhaseInv, [RpcNext]_rpcVars, NEW c \in Calls, seqOf'[c] # 0, ~Sent(c)
  PROVE  Send(c) /\ UNCHANGED on
<1>0. seqOf[c] = 0
  BY DEF PhaseInv
<1>1. CASE UNCHANGED <<callVars, nextSeq>>
  BY <1>0, <1>1 DEF callVars
<1>2. ASSUME NEW d \in Calls, Dialed(d) \/ MovedOn(d) PROVE FALSE
  BY <1>0, <1>2 DEF Dialed, MovedOn
<1>3. ASSUME NEW d \in Calls, Send(d), UNCHANGED on, d # c PROVE FALSE
  BY <1>0, <1>3, SendSends
<1> QED BY <1>1, <1>2, <1>3, CallView

LEMMA SeqInvStep ==
  ASSUME RpcTypeOK, PhaseInv, SeqInv, [RpcNext]_rpcVars
  PROVE  SeqInv'
<1> SUFFICES ASSUME NEW c \in Calls, NEW d \in Calls, Sent(c)', Sent(d)', on'[c] = on'[d],
                    seqOf'[c] = seqOf'[d]
             PROVE  c = d
  BY DEF SeqInv
<1>0. seqOf'[c] # 0 /\ seqOf'[d] # 0
  BY DEF Sent
<1>1. CASE Sent(c) /\ Sent(d)
  BY <1>1, SentStays DEF SeqInv
<1>2. ASSUME NEW x \in Calls, NEW y \in Calls, Sent(x), ~Sent(y), seqOf'[y] # 0,
             on'[x] = on'[y], seqOf'[x] = seqOf'[y]
      PROVE  FALSE
  <2>1. Send(y) /\ UNCHANGED on
    BY <1>2, NewlySent
  <2>2. seqOf'[y] = nextSeq[on[y]]
    BY <2>1, SendSends
  <2>3. seqOf'[x] = seqOf[x] /\ on[x] = on[y]
    BY <1>2, <2>1, SentStays
  <2>4. seqOf[x] < nextSeq[on[x]] /\ seqOf[x] \in Nat
    BY <1>2 DEF Sent
  <2> QED BY <1>2, <2>2, <2>3, <2>4
<1>3. CASE ~Sent(c) /\ ~Sent(d)
  <2>1. Send(c) /\ Send(d) /\ UNCHANGED on
    BY <1>0, <1>3, NewlySent
  <2>2. phase'[c] = "waiting" /\ phase[c] = "dialed" /\ phase[d] = "dialed" /\ phase'[d] = "waiting"
    BY <2>1, SendSends DEF Send
  <2>3. d # c => phase'[d] = phase[d]
    BY <2>1, SendSends
  <2> QED BY <2>2, <2>3
<1> QED BY <1>0, <1>1, <1>2, <1>3

-----------------------------------------------------------------------------
(* The receive goroutine ends once, with its client shut down. *)
LEMMA ReceiverStep ==
  ASSUME RpcTypeOK, PhaseInv, [RpcNext]_rpcVars, NEW k \in Conns
  PROVE  /\ k \in shutdown' <=> rcv'[k] = "ended"
         /\ link'[k] = "none" => rcv'[k] = "off"
         /\ rcv[k] = "ended" => rcv'[k] = "ended"
<1> DEFINE Goal == /\ k \in shutdown' <=> rcv'[k] = "ended"
                   /\ link'[k] = "none" => rcv'[k] = "off"
                   /\ rcv[k] = "ended" => rcv'[k] = "ended"
<1>0. /\ k \in shutdown <=> rcv[k] = "ended"
      /\ link[k] = "none" => rcv[k] = "off"
  BY DEF PhaseInv
<1>1. ASSUME UNCHANGED <<shutdown, rcv>>, UNCHANGED link \/ \E j \in Conns : link' = Broken(j)
      PROVE  Goal
  BY <1>0, <1>1 DEF Broken, RpcTypeOK
<1>2. ASSUME NEW j \in Conns, Close(j)
      PROVE  UNCHANGED link \/ \E i \in Conns : link' = Broken(i)
  BY <1>2 DEF Close
<1>3. ASSUME NEW c \in Calls, DialNew(c) PROVE Goal
  <2> DEFINE j == CHOOSE j \in Conns : link[j] = "none"
  <2>1. j \in Conns /\ link[j] = "none" /\ rcv[j] = "off" /\ j \notin shutdown
    BY <1>3 DEF DialNew, PhaseInv
  <2>2. rcv' = [rcv EXCEPT ![j] = "reading"] /\ UNCHANGED shutdown
    BY <1>3 DEF DialNew
  <2>3. link'[j] = "up" /\ (k # j => (link'[k] = "none" => link[k] = "none"))
    <3>1. CASE link' = [link EXCEPT ![j] = "up"]
      BY <2>1, <3>1 DEF RpcTypeOK
    <3>2. CASE cached # None /\ link' = [Broken(cached) EXCEPT ![j] = "up"]
      BY <2>1, <3>2 DEF Broken, RpcTypeOK
    <3> QED BY <1>3, <3>1, <3>2 DEF DialNew
  <2> HIDE DEF j
  <2> QED BY <1>0, <2>1, <2>2, <2>3 DEF RpcTypeOK
<1>4. ASSUME NEW j \in Conns, Receive(j) PROVE Goal
  <2>1. \E v \in {"reading", "failing"} : rcv' = [rcv EXCEPT ![j] = v]
    BY <1>4 DEF Receive
  <2> QED BY <1>0, <1>4, <2>1 DEF Receive, RpcTypeOK
<1>5. ASSUME NEW j \in Conns, ReceiveEnd(j) \/ TerminateCalls(j) PROVE Goal
  BY <1>0, <1>5 DEF ReceiveEnd, TerminateCalls, pipeVars, RpcTypeOK
<1>6. ASSUME NEW c \in Calls, DialFails(c) PROVE Goal
  BY <1>1, <1>2, <1>6 DEF DialFails, RpcTypeOK
<1>7. CASE CloseAll
  BY <1>1, <1>2, <1>7 DEF CloseAll, RpcTypeOK
<1>8. ASSUME NEW c \in Calls, \/ UseCached(c) \/ SendRefused(c) \/ SendWritten(c) \/ SendFails(c)
                              \/ Return(c) \/ Expire(c) \/ Answer(c) \/ HandleTimeout(c)
      PROVE  Goal
  BY <1>1, <1>8 DEF UseCached, SendRefused, SendWritten, SendFails, Return, Expire, Answer,
     HandleTimeout, clientVars, pipeVars
<1>9. ASSUME NEW j \in Conns, ServeStep(j) \/ OutOfStep(j) \/ Lose(j) PROVE Goal
  BY <1>1, <1>9 DEF ServeStep, OutOfStep, Misread, GiveUp, ReadOption, OptionLost, ReadRequest, RefuseRequest, ReadEnd,
     Drain, Lose, clientVars, pipeVars
<1>10. CASE UNCHANGED rpcVars
  BY <1>1, <1>10 DEF rpcVars, clientVars, pipeVars
<1> QED
  BY <1>3, <1>4, <1>5, <1>6, <1>7, <1>8, <1>9, <1>10 DEF RpcNext, CallStep, ReceiveStep

(* Every Call.done is the first of its call, and leaves no entry behind     *)
(* that a live receive goroutine could complete again.                      *)
LEMMA CompletionStep ==
  ASSUME RpcTypeOK, PhaseInv, PendingInv, [RpcNext]_rpcVars, NEW c \in Calls
  PROVE  \/ completions'[c] = completions[c]
         \/ /\ completions[c] = 0 /\ completions'[c] = 1
            /\ phase'[c] \in {"waiting", "returned"}
            /\ \A k \in Conns : \A e \in pending'[k] : e.call = c => rcv'[k] = "ended"
<1> DEFINE Goal == \/ completions'[c] = completions[c]
                   \/ /\ completions[c] = 0 /\ completions'[c] = 1
                      /\ phase'[c] \in {"waiting", "returned"}
                      /\ \A k \in Conns : \A e \in pending'[k] : e.call = c => rcv'[k] = "ended"
<1>0. completions[c] \in Nat
  BY DEF RpcTypeOK
<1>1. ASSUME NEW calls, NEW what, Complete(calls, what)
      PROVE  completions'[c] = IF c \in calls THEN completions[c] + 1 ELSE completions[c]
  BY <1>0, <1>1 DEF Complete
<1>2. ASSUME NEW d \in Calls, phase[d] = "dialed", phase' = [phase EXCEPT ![d] = "waiting"],
             Complete({d}, "error"), UNCHANGED pending
      PROVE  Goal
  <2>1. CASE c # d
    BY <1>1, <1>2, <2>1
  <2>2. CASE c = d
    <3>1. completions[c] = 0 /\ ~Sent(c)
      BY <1>2, <2>2 DEF PhaseInv, Sent
    <3>2. completions'[c] = 1
      BY <1>1, <1>2, <2>2, <3>1
    <3>3. \A k \in Conns : \A e \in pending'[k] : e.call # c
      BY <1>2, <3>1 DEF PendingInv
    <3>4. phase'[c] = "waiting"
      BY <1>2, <2>2 DEF RpcTypeOK
    <3> QED BY <3>1, <3>2, <3>3, <3>4
  <2> QED BY <2>1, <2>2
<1>3. ASSUME NEW d \in Calls, SendRefused(d) PROVE Goal
  BY <1>2, <1>3 DEF SendRefused, clientVars
<1>4. ASSUME NEW d \in Calls, SendFails(d) PROVE Goal
  <2>1. CASE Complete({d}, "error") /\ UNCHANGED pending
    BY <1>2, <1>4, <2>1 DEF SendFails, Send
  <2>2. CASE UNCHANGED doneVars
    BY <2>2 DEF doneVars
  <2> QED BY <1>4, <2>1, <2>2 DEF SendFails
<1>5. ASSUME NEW k \in Conns, Receive(k) PROVE Goal
  <2> DEFINE f == Head(down[k])
             owner == {e.call : e \in {p \in pending[k] : p.seq = f.seq}}
  <2>1. PICK what \in Outcomes(f) : Complete(owner, what)
    BY <1>5 DEF Receive
  <2>2. pending' = [pending EXCEPT ![k] = RemoveCall(@, f.seq)] /\ UNCHANGED phase
    BY <1>5 DEF Receive, callVars
  <2>3. CASE c \notin owner
    BY <1>1, <2>1, <2>3
  <2>4. CASE c \in owner
    <3>1. PICK e \in pending[k] : e.seq = f.seq /\ e.call = c
      BY <2>4
    <3>2. /\ on[c] = k /\ seqOf[c] = f.seq /\ phase[c] = "waiting" /\ completions[c] = 0
      BY <1>5, <3>1 DEF PendingInv, Receive
    <3>3. completions'[c] = 1
      BY <1>1, <2>1, <2>4, <3>2
    <3> HIDE DEF f
    <3>4. ASSUME NEW j \in Conns, NEW d \in pending'[j], d.call = c PROVE FALSE
      <4>1. d \in pending[j] /\ (j = k => d.seq # f.seq)
        BY <2>2, <3>4 DEF RemoveCall, RpcTypeOK
      <4> QED BY <3>2, <3>4, <4>1 DEF PendingInv
    <3> QED BY <2>2, <3>2, <3>3, <3>4
  <2> QED BY <2>3, <2>4
<1>6. ASSUME NEW k \in Conns, TerminateCalls(k) PROVE Goal
  <2>1. CASE c \notin {e.call : e \in pending[k]}
    BY <1>1, <1>6, <2>1 DEF TerminateCalls
  <2>2. CASE c \in {e.call : e \in pending[k]}
    <3>1. on[c] = k /\ phase[c] = "waiting" /\ completions[c] = 0
      BY <1>6, <2>2 DEF PendingInv, TerminateCalls
    <3>2. completions'[c] = 1
      BY <1>1, <1>6, <2>2, <3>1 DEF TerminateCalls
    <3>3. rcv'[k] = "ended" /\ UNCHANGED <<pending, phase>>
      BY <1>6 DEF TerminateCalls, callVars, RpcTypeOK
    <3>4. \A j \in Conns : \A e \in pending[j] : e.call = c => j = k
      BY <3>1 DEF PendingInv
    <3> QED BY <3>1, <3>2, <3>3, <3>4
  <2> QED BY <2>1, <2>2
<1>7. ASSUME NEW d \in Calls, \/ UseCached(d) \/ DialNew(d) \/ DialFails(d) \/ SendWritten(d)
                              \/ Return(d) \/ Expire(d) \/ Answer(d) \/ HandleTimeout(d)
      PROVE  UNCHANGED completions
  BY <1>7 DEF UseCached, DialNew, DialFails, SendWritten, Return, Expire, Answer, HandleTimeout,
     doneVars
<1>8. ASSUME NEW k \in Conns, ReceiveEnd(k) \/ ServeStep(k) \/ OutOfStep(k) \/ Lose(k)
      PROVE  UNCHANGED completions
  BY <1>8 DEF ReceiveEnd, ServeStep, OutOfStep, Misread, GiveUp, ReadOption, OptionLost, ReadRequest, RefuseRequest, ReadEnd,
     Drain, Lose, doneVars
<1>9. CloseAll \/ UNCHANGED rpcVars => UNCHANGED completions
  BY DEF CloseAll, rpcVars, doneVars
<1> QED
  BY <1>3, <1>4, <1>5, <1>6, <1>7, <1>8, <1>9 DEF RpcNext, CallStep, ReceiveStep

LEMMA PhaseInvStep ==
  ASSUME RpcTypeOK, PhaseInv, PendingInv, [RpcNext]_rpcVars
  PROVE  PhaseInv'
<1>1. ASSUME NEW c \in Calls
      PROVE  /\ phase'[c] \in {"dialed", "waiting"} => on'[c] \in Conns
             /\ phase'[c] \in {"idle", "dialed"} => phase[c] \in {"idle", "dialed"}
  <2> DEFINE Goal == /\ phase'[c] \in {"dialed", "waiting"} => on'[c] \in Conns
                     /\ phase'[c] \in {"idle", "dialed"} => phase[c] \in {"idle", "dialed"}
  <2>0. phase[c] \in {"dialed", "waiting"} => on[c] \in Conns
    BY DEF PhaseInv
  <2>1. CASE UNCHANGED <<callVars, nextSeq>>
    BY <2>0, <2>1 DEF callVars
  <2>2. ASSUME NEW d \in Calls, Dialed(d) PROVE Goal
    BY <2>0, <2>2 DEF Dialed, RpcTypeOK
  <2>3. ASSUME NEW d \in Calls, MovedOn(d) PROVE Goal
    BY <2>0, <2>3 DEF MovedOn, RpcTypeOK
  <2>4. ASSUME NEW d \in Calls, Send(d), UNCHANGED on PROVE Goal
    BY <2>0, <2>4 DEF Send, RpcTypeOK
  <2> QED BY <2>1, <2>2, <2>3, <2>4, CallView
<1>2. ASSUME NEW c \in Calls, phase'[c] \in {"idle", "dialed"} PROVE completions'[c] = 0
  BY <1>1, <1>2, CompletionStep DEF PhaseInv
<1>3. ASSUME NEW c \in Calls, seqOf'[c] # 0 PROVE Sent(c)'
  BY <1>3, SentStays, NewlySent, SendSends
<1> QED BY <1>1, <1>2, <1>3, ReceiverStep DEF PhaseInv

-----------------------------------------------------------------------------
(* The map of pending calls grows by the call that is being sent only. *)
LEMMA PendingView ==
  ASSUME RpcTypeOK, PhaseInv, [RpcNext]_rpcVars, NEW k \in Conns, NEW e \in pending'[k]
  PROVE  \/ e \in pending[k]
         \/ /\ e.call \in Calls /\ Send(e.call) /\ UNCHANGED <<on, completions>>
            /\ k = on[e.call] /\ e.seq = nextSeq[k]
<1> DEFINE Goal == \/ e \in pending[k]
                   \/ /\ e.call \in Calls /\ Send(e.call) /\ UNCHANGED <<on, completions>>
                      /\ k = on[e.call] /\ e.seq = nextSeq[k]
<1>1. ASSUME NEW c \in Calls, Send(c), AddPending(c, on[c]), UNCHANGED <<on, completions>>
      PROVE  Goal
  <2>1. on[c] \in Conns
    BY <1>1 DEF Send, PhaseInv
  <2>2. e \in pending[k] \/ (k = on[c] /\ e = [seq |-> nextSeq[k], call |-> c])
    BY <1>1, <2>1 DEF AddPending, RemoveCall, RpcTypeOK
  <2> QED BY <1>1, <2>2
<1>2. ASSUME NEW c \in Calls, SendWritten(c) PROVE Goal
  BY <1>1, <1>2 DEF SendWritten, doneVars
<1>3. ASSUME NEW c \in Calls, SendFails(c) PROVE Goal
  BY <1>1, <1>3 DEF SendFails, doneVars
<1>4. ASSUME NEW c \in Calls, Expire(c) PROVE Goal
  BY <1>4 DEF Expire, RemoveCall, RpcTypeOK
<1>5. ASSUME NEW j \in Conns, Receive(j) PROVE Goal
  <2>1. \E seq : pending' = [pending EXCEPT ![j] = RemoveCall(@, seq)]
    BY <1>5 DEF Receive
  <2> QED BY <2>1 DEF RemoveCall, RpcTypeOK
<1>6. ASSUME NEW c \in Calls, \/ UseCached(c) \/ DialNew(c) \/ DialFails(c) \/ SendRefused(c)
                              \/ Return(c) \/ Answer(c) \/ HandleTimeout(c)
      PROVE  UNCHANGED pending
  BY <1>6 DEF UseCached, DialNew, DialFails, SendRefused, Return, Answer, HandleTimeout, clientVars
<1>7. ASSUME NEW j \in Conns, ReceiveEnd(j) \/ TerminateCalls(j) \/ ServeStep(j) \/ OutOfStep(j) \/ Lose(j)
      PROVE  UNCHANGED pending
  BY <1>7 DEF ReceiveEnd, TerminateCalls, ServeStep, OutOfStep, Misread, GiveUp, ReadOption, OptionLost, ReadRequest,
     RefuseRequest, ReadEnd, Drain, Lose, clientVars
<1>8. CloseAll \/ UNCHANGED rpcVars => UNCHANGED pending
  BY DEF CloseAll, rpcVars, clientVars
<1> QED
  BY <1>2, <1>3, <1>4, <1>5, <1>6, <1>7, <1>8 DEF RpcNext, CallStep, ReceiveStep

(* Client.Call gives a call up when it is completed, or takes it out of the *)
(* map.                                                                     *)
LEMMA StopsWaiting ==
  ASSUME RpcTypeOK, [RpcNext]_rpcVars, NEW c \in Calls, phase[c] = "waiting",
         phase'[c] # "waiting"
  PROVE  Return(c) \/ Expire(c)
<1>1. ASSUME NEW d \in Calls, UseCached(d) \/ DialNew(d) \/ DialFails(d) \/ SendRefused(d)
                              \/ SendWritten(d) \/ SendFails(d)
      PROVE  FALSE
  <2>1. phase[d] \in {"idle", "dialed"} /\ \E v : phase' = [phase EXCEPT ![d] = v]
    BY <1>1 DEF UseCached, DialNew, DialFails, SendRefused, SendWritten, SendFails, Send
  <2> QED BY <2>1 DEF RpcTypeOK
<1>2. ASSUME NEW d \in Calls, Return(d) \/ Expire(d) PROVE d = c
  <2>1. phase' = [phase EXCEPT ![d] = "returned"]
    BY <1>2 DEF Return, Expire
  <2> QED BY <2>1 DEF RpcTypeOK
<1>3. ASSUME NEW d \in Calls, Answer(d) \/ HandleTimeout(d) PROVE FALSE
  BY <1>3 DEF Answer, HandleTimeout, callVars
<1>4. ASSUME NEW j \in Conns, ReceiveStep(j) \/ ServeStep(j) \/ OutOfStep(j) \/ Lose(j) PROVE FALSE
  BY <1>4 DEF ReceiveStep, Receive, ReceiveEnd, TerminateCalls, ServeStep, OutOfStep, Misread, GiveUp, ReadOption, OptionLost,
     ReadRequest, RefuseRequest, ReadEnd, Drain, Lose, callVars
<1>5. ~(CloseAll \/ UNCHANGED rpcVars)
  BY DEF CloseAll, rpcVars, callVars
<1> QED BY <1>1, <1>2, <1>3, <1>4, <1>5 DEF RpcNext, CallStep

LEMMA PendingInvStep ==
  ASSUME RpcTypeOK, PhaseInv, PendingInv, [RpcNext]_rpcVars
  PROVE  PendingInv'
<1> SUFFICES ASSUME NEW k \in Conns, NEW e \in pending'[k]
             PROVE  /\ Sent(e.call)' /\ on'[e.call] = k /\ seqOf'[e.call] = e.seq
                    /\ rcv'[k] # "ended" =>
                         phase'[e.call] = "waiting" /\ completions'[e.call] = 0
  BY DEF PendingInv
<1>1. CASE e \in pending[k]
  <2>1. e.call \in Calls
    BY <1>1 DEF RpcTypeOK, Entries
  <2>2. Sent(e.call)' /\ on'[e.call] = k /\ seqOf'[e.call] = e.seq
    BY <1>1, <2>1, SentStays DEF PendingInv
  <2>3. ASSUME rcv'[k] # "ended"
        PROVE  phase'[e.call] = "waiting" /\ completions'[e.call] = 0
    <3>1. phase[e.call] = "waiting" /\ completions[e.call] = 0
          /\ on[e.call] = k /\ seqOf[e.call] = e.seq
      BY <1>1, <2>3, ReceiverStep DEF PendingInv
    <3>2. completions'[e.call] = 0
      BY <2>1, <2>3, <3>1, CompletionStep
    <3>3. ~Return(e.call)
      BY <3>1 DEF Return
    <3>4. ~Expire(e.call)
      BY <3>1 DEF Expire, RemoveCall, RpcTypeOK
    <3> QED BY <2>1, <3>1, <3>2, <3>3, <3>4, StopsWaiting
  <2> QED BY <2>2, <2>3
<1>2. CASE /\ e.call \in Calls /\ Send(e.call) /\ UNCHANGED <<on, completions>>
           /\ k = on[e.call] /\ e.seq = nextSeq[k]
  <2>1. completions[e.call] = 0
    BY <1>2 DEF PhaseInv, Send
  <2> QED BY <1>2, <2>1, SendSends
<1> QED BY <1>1, <1>2, PendingView

LEMMA CompletedOnceStep ==
  ASSUME RpcTypeOK, PhaseInv, PendingInv, CompletedOnce, [RpcNext]_rpcVars
  PROVE  CompletedOnce'
BY CompletionStep DEF CompletedOnce

-----------------------------------------------------------------------------
(* The request at the head of a pipe. *)
LEMMA HeadRequest ==
  ASSUME RpcTypeOK, UpInv, NEW k \in Conns, up[k] # <<>>
  PROVE  LET c == Head(up[k]).call IN
         /\ c \in Calls /\ Sent(c) /\ on[c] = k /\ handler[c] = "none" /\ answers[c] = 0
         /\ \A i \in DOMAIN up[k] : up[k][i].call = c => i = 1
<1> DEFINE c == Head(up[k]).call
<1>1. up[k] \in Seq(Requests)
  BY DEF RpcTypeOK
<1>2. Head(up[k]) \in Requests /\ 1 \in DOMAIN up[k] /\ Head(up[k]) = up[k][1]
  BY <1>1, TailFrames
<1>3. c \in Calls /\ c = up[k][1].call
  BY <1>2 DEF Requests
<1> QED BY <1>2, <1>3 DEF UpInv

(* The server's view of a call changes when its request is read, refused or *)
(* answered; no call that has its answer changes again.                     *)
LEMMA ServedStep ==
  ASSUME RpcTypeOK, UpInv, HandlerInv, [RpcNext]_rpcVars, NEW c \in Calls
  PROVE  \/ handler'[c] = handler[c] /\ answers'[c] = answers[c]
         \/ /\ Sent(c) /\ answers[c] = 0
            /\ \/ handler'[c] = "running" /\ answers'[c] = 0
               \/ handler'[c] # "running" /\ answers'[c] = 1
            /\ \/ handler[c] = "running"
               \/ up[on[c]] # <<>> /\ Head(up[on[c]]).call = c
                  /\ up' = [up EXCEPT ![on[c]] = Tail(@)]
<1> DEFINE Goal == \/ handler'[c] = handler[c] /\ answers'[c] = answers[c]
                   \/ /\ Sent(c) /\ answers[c] = 0
                      /\ \/ handler'[c] = "running" /\ answers'[c] = 0
                         \/ handler'[c] # "running" /\ answers'[c] = 1
                      /\ \/ handler[c] = "running"
                         \/ up[on[c]] # <<>> /\ Head(up[on[c]]).call = c
                            /\ up' = [up EXCEPT ![on[c]] = Tail(@)]
<1>1. ASSUME NEW k \in Conns, ReadRequest(k) PROVE Goal
  <2>1. CASE c = Head(up[k]).call
    <3>1. Sent(c) /\ on[c] = k /\ answers[c] = 0
      BY <1>1, <2>1, HeadRequest DEF ReadRequest
    <3>2. handler'[c] = "running" /\ UNCHANGED answers /\ up[k] # <<>>
          /\ up' = [up EXCEPT ![k] = Tail(@)]
      BY <1>1, <2>1 DEF ReadRequest, RpcTypeOK
    <3> QED BY <2>1, <3>1, <3>2
  <2>2. CASE c # Head(up[k]).call
    BY <1>1, <2>2 DEF ReadRequest, RpcTypeOK
  <2> QED BY <2>1, <2>2
<1>2. ASSUME NEW k \in Conns, RefuseRequest(k) PROVE Goal
  <2>0. /\ answers' = [answers EXCEPT ![Head(up[k]).call] = @ + 1] /\ UNCHANGED handler
        /\ up[k] # <<>> /\ up' = [up EXCEPT ![k] = Tail(@)]
    BY <1>2 DEF RefuseRequest
  <2>1. CASE c = Head(up[k]).call
    <3>1. Sent(c) /\ on[c] = k /\ answers[c] = 0 /\ handler[c] = "none"
      BY <2>0, <2>1, HeadRequest
    <3>2. answers'[c] = answers[c] + 1
      BY <2>0, <2>1 DEF RpcTypeOK
    <3>3. answers'[c] = 1
      BY <3>1, <3>2
    <3> QED BY <2>0, <2>1, <3>1, <3>3
  <2>2. CASE c # Head(up[k]).call
    BY <2>0, <2>2 DEF RpcTypeOK
  <2> QED BY <2>1, <2>2
<1>3. ASSUME NEW d \in Calls, Answer(d) \/ HandleTimeout(d) PROVE Goal
  <2>0. /\ handler[d] = "running" /\ answers' = [answers EXCEPT ![d] = @ + 1]
        /\ \E v \in {"answered", "late"} : handler' = [handler EXCEPT ![d] = v]
    BY <1>3 DEF Answer, HandleTimeout
  <2>1. CASE c = d
    <3>1. Sent(c) /\ answers[c] = 0
      BY <2>0, <2>1 DEF HandlerInv
    <3>2. answers'[c] = answers[c] + 1 /\ handler'[c] # "running"
      BY <2>0, <2>1 DEF RpcTypeOK
    <3>3. answers'[c] = 1
      BY <3>1, <3>2
    <3> QED BY <2>0, <2>1, <3>1, <3>2, <3>3
  <2>2. CASE c # d
    BY <2>0, <2>2 DEF RpcTypeOK
  <2> QED BY <2>1, <2>2
<1>4. ASSUME NEW d \in Calls, CallStep(d) \/ DialFails(d) \/ Expire(d)
      PROVE  UNCHANGED <<handler, answers>>
  BY <1>4 DEF CallStep, UseCached, DialNew, SendRefused, SendWritten, SendFails, Return, DialFails,
     Expire, serverVars
<1>5. ASSUME NEW k \in Conns, ReceiveStep(k) \/ ReadOption(k) \/ OptionLost(k) \/ ReadEnd(k)
                              \/ Drain(k) \/ OutOfStep(k) \/ Lose(k)
      PROVE  UNCHANGED <<handler, answers>>
  BY <1>5 DEF OutOfStep, Misread, GiveUp, ReceiveStep, Receive, ReceiveEnd, TerminateCalls, ReadOption, OptionLost, ReadEnd,
     Drain, Lose, serverVars
<1>6. CloseAll \/ UNCHANGED rpcVars => UNCHANGED <<handler, answers>>
  BY DEF CloseAll, rpcVars, serverVars
<1> QED BY <1>1, <1>2, <1>3, <1>4, <1>5, <1>6 DEF RpcNext, ServeStep

LEMMA HandlerInvStep ==
  ASSUME RpcTypeOK, PhaseInv, UpInv, HandlerInv, [RpcNext]_rpcVars
  PROVE  HandlerInv'
<1> SUFFICES ASSUME NEW c \in Calls
             PROVE  /\ handler'[c] # "none" \/ answers'[c] # 0 => Sent(c)'
                    /\ handler'[c] = "running" => answers'[c] = 0
                    /\ answers'[c] <= 1
  BY DEF HandlerInv
<1>1. /\ handler[c] # "none" \/ answers[c] # 0 => Sent(c)
      /\ handler[c] = "running" => answers[c] = 0
      /\ answers[c] <= 1
  BY DEF HandlerInv
<1>2. Sent(c) => Sent(c)'
  BY SentStays
<1> QED BY <1>1, <1>2, ServedStep

-----------------------------------------------------------------------------
(* What is in a pipe was in it before, in the same order, or is the request *)
(* that has just been written.                                              *)
Shifted(new, old, n) == \A i \in DOMAIN new :
  i \in Nat /\ i + n \in DOMAIN old
  /\ new[i].call = old[i + n].call /\ new[i].seq = old[i + n].seq

LEMMA UpView ==
  ASSUME RpcTypeOK, PhaseInv, [RpcNext]_rpcVars, NEW k \in Conns
  PROVE  \/ \E n \in Nat : Shifted(up'[k], up[k], n)
         \/ \E c \in Calls :
              /\ Send(c) /\ UNCHANGED <<on, handler, answers>> /\ k = on[c]
              /\ up'[k] = Append(up[k], [call |-> c, seq |-> nextSeq[k], cut |-> FALSE])
<1> DEFINE Goal == \/ \E n \in Nat : Shifted(up'[k], up[k], n)
                   \/ \E c \in Calls :
                        /\ Send(c) /\ UNCHANGED <<on, handler, answers>> /\ k = on[c]
                        /\ up'[k] = Append(up[k], [call |-> c, seq |-> nextSeq[k], cut |-> FALSE])
<1>0. up[k] \in Seq(Requests) /\ \A i \in DOMAIN up[k] : i \in Nat /\ i + 0 = i
  BY DEF RpcTypeOK
<1>1. ASSUME up'[k] = up[k] PROVE Goal
  <2>1. Shifted(up'[k], up[k], 0)
    BY <1>0, <1>1 DEF Shifted
  <2> QED BY <2>1
<1>2. ASSUME up'[k] = <<>> PROVE Goal
  <2>1. Shifted(up'[k], up[k], 0)
    BY <1>2 DEF Shifted
  <2> QED BY <2>1
<1>3. ASSUME NEW j \in Conns, up[j] # <<>>, up' = [up EXCEPT ![j] = Tail(@)] PROVE Goal
  <2>1. CASE j # k
    BY <1>1, <1>3, <2>1 DEF RpcTypeOK
  <2>2. CASE j = k
    <3>1. up'[k] = Tail(up[k])
      BY <1>3, <2>2 DEF RpcTypeOK
    <3>2. \A i \in DOMAIN Tail(up[k]) : i \in Nat /\ i + 1 \in DOMAIN up[k] /\ Tail(up[k])[i] = up[k][i + 1]
      BY <1>0, <1>3, <2>2, TailFrames
    <3>3. Shifted(up'[k], up[k], 1)
      BY <3>1, <3>2 DEF Shifted
    <3> QED BY <3>3
  <2> QED BY <2>1, <2>2
<1>4. ASSUME NEW j \in Conns, ReadOption(j) \/ Misread(j) PROVE Goal
  <2>1. PICK n \in 0..Len(up[j]) : up' = [up EXCEPT ![j] = SubSeq(@, n + 1, Len(@))]
    BY <1>4 DEF ReadOption, Misread, Swallow
  <2>2. CASE j # k
    BY <1>1, <2>1, <2>2 DEF RpcTypeOK
  <2>3. CASE j = k
    <3>1. up'[k] = SubSeq(up[k], n + 1, Len(up[k]))
      BY <2>1, <2>3 DEF RpcTypeOK
    <3>2. \A i \in DOMAIN SubSeq(up[k], n + 1, Len(up[k])) :
            /\ i \in Nat /\ i + n \in DOMAIN up[k]
            /\ SubSeq(up[k], n + 1, Len(up[k]))[i] = up[k][i + n]
      BY <1>0, <2>3, SuffixFrames
    <3>3. n \in Nat /\ Shifted(up'[k], up[k], n)
      BY <3>1, <3>2 DEF Shifted
    <3> QED BY <3>3
  <2> QED BY <2>2, <2>3
<1>5. ASSUME NEW j \in Conns, OptionLost(j) \/ Drain(j) PROVE Goal
  <2>1. up'[k] = up[k] \/ up'[k] = <<>>
    BY <1>5 DEF OptionLost, Drain, RpcTypeOK
  <2> QED BY <1>1, <1>2, <2>1
<1>6. ASSUME NEW j \in Conns, ReadRequest(j) \/ RefuseRequest(j) PROVE Goal
  BY <1>3, <1>6 DEF ReadRequest, RefuseRequest
<1>7. ASSUME NEW j \in Conns, Lose(j) PROVE Goal
  <2>1. PICK s \in Remains(up[j]) : up' = [up EXCEPT ![j] = s]
    BY <1>7 DEF Lose
  <2>2. CASE j # k
    BY <1>1, <2>1, <2>2 DEF RpcTypeOK
  <2>3. CASE j = k
    <3>1. up'[k] = s
      BY <2>1, <2>3 DEF RpcTypeOK
    <3>2. \A i \in DOMAIN s : i \in DOMAIN up[k] /\ Header(s[i], up[k][i])
      BY <1>0, <2>3, CutTypes, RemainsFrames
    <3>3. \A i \in DOMAIN up[k] : up[k][i] \in Requests
      BY <1>0
    <3>4. \A i \in DOMAIN s : s[i].call = up[k][i].call /\ s[i].seq = up[k][i].seq
      BY <3>2, <3>3, CutRequest
    <3>5. Shifted(up'[k], up[k], 0)
      BY <1>0, <3>1, <3>2, <3>4 DEF Shifted
    <3> QED BY <3>5
  <2> QED BY <2>2, <2>3
<1>8. ASSUME NEW c \in Calls, SendWritten(c) PROVE Goal
  <2>1. on[c] \in Conns
    BY <1>8 DEF SendWritten, Send, PhaseInv
  <2>2. CASE on[c] # k
    BY <1>1, <1>8, <2>1, <2>2 DEF SendWritten, RpcTypeOK
  <2>3. CASE on[c] = k
    <3>1. up'[k] = Append(up[k], [call |-> c, seq |-> nextSeq[k], cut |-> FALSE])
      BY <1>8, <2>1, <2>3 DEF SendWritten, RpcTypeOK
    <3> QED BY <1>8, <2>3, <3>1 DEF SendWritten, serverVars
  <2> QED BY <2>2, <2>3
<1>9. ASSUME NEW c \in Calls, \/ UseCached(c) \/ DialNew(c) \/ DialFails(c) \/ SendRefused(c)
                              \/ SendFails(c) \/ Return(c) \/ Expire(c) \/ Answer(c)
                              \/ HandleTimeout(c)
      PROVE  UNCHANGED up
  BY <1>9 DEF UseCached, DialNew, DialFails, SendRefused, SendFails, Return, Expire, Answer,
     HandleTimeout, pipeVars
<1>10. ASSUME NEW j \in Conns, ReceiveStep(j) \/ ReadEnd(j) \/ GiveUp(j) PROVE UNCHANGED up
  BY <1>10 DEF ReceiveStep, Receive, ReceiveEnd, TerminateCalls, ReadEnd, GiveUp, pipeVars
<1>11. CloseAll \/ UNCHANGED rpcVars => UNCHANGED up
  BY DEF CloseAll, rpcVars, pipeVars
<1> QED
  BY <1>1, <1>4, <1>5, <1>6, <1>7, <1>8, <1>9, <1>10, <1>11
     DEF RpcNext, CallStep, ServeStep, OutOfStep

LEMMA UpInvStep ==
  ASSUME RpcTypeOK, PhaseInv, UpInv, HandlerInv, [RpcNext]_rpcVars
  PROVE  UpInv'
<1> SUFFICES ASSUME NEW k \in Conns, NEW i \in DOMAIN up'[k], NEW c, c = up'[k][i].call
             PROVE  /\ Sent(c)' /\ on'[c] = k /\ up'[k][i].seq = seqOf'[c]
                    /\ handler'[c] = "none" /\ answers'[c] = 0
                    /\ \A j \in DOMAIN up'[k] : up'[k][j].call = c => j = i
  BY DEF UpInv
<1>0. up[k] \in Seq(Requests) /\ \A j \in DOMAIN up[k] : up[k][j] \in Requests
  BY DEF RpcTypeOK
<1>r. \A j \in DOMAIN up[k] : up[k][j].call \in Calls
  BY <1>0 DEF Requests
<1>1. ASSUME NEW n \in Nat, Shifted(up'[k], up[k], n)
      PROVE  /\ Sent(c)' /\ on'[c] = k /\ up'[k][i].seq = seqOf'[c]
             /\ handler'[c] = "none" /\ answers'[c] = 0
             /\ \A j \in DOMAIN up'[k] : up'[k][j].call = c => j = i
  <2>1. /\ i \in Nat /\ i + n \in DOMAIN up[k] /\ c = up[k][i + n].call
        /\ up'[k][i].seq = up[k][i + n].seq
    BY <1>1 DEF Shifted
  <2>2. /\ c \in Calls /\ Sent(c) /\ on[c] = k /\ up[k][i + n].seq = seqOf[c]
        /\ handler[c] = "none" /\ answers[c] = 0
        /\ \A j \in DOMAIN up[k] : up[k][j].call = c => j = i + n
    BY <1>r, <2>1 DEF UpInv
  <2>3. Sent(c)' /\ on'[c] = k /\ up'[k][i].seq = seqOf'[c]
    BY <2>1, <2>2, SentStays
  <2>4. ASSUME NEW j \in DOMAIN up'[k], up'[k][j].call = c PROVE j = i
    <3>1. j \in Nat /\ j + n \in DOMAIN up[k] /\ up[k][j + n].call = c
      BY <1>1, <2>4 DEF Shifted
    <3>2. j + n = i + n
      BY <2>2, <3>1
    <3> QED BY <2>1, <3>1, <3>2
  <2>5. ~(up[k] # <<>> /\ Head(up[k]).call = c /\ up' = [up EXCEPT ![k] = Tail(@)])
    <3> SUFFICES ASSUME up[k] # <<>>, Head(up[k]).call = c, up'[k] = Tail(up[k])
                 PROVE  FALSE
      BY DEF RpcTypeOK
    <3>1. i \in Nat /\ i + 1 \in DOMAIN up[k] /\ Tail(up[k])[i] = up[k][i + 1] /\ i # 0
      BY <1>0, TailFrames
    <3>2. i + 1 = 1
      BY <3>1, HeadRequest
    <3> QED BY <3>1, <3>2
  <2>6. handler'[c] = "none" /\ answers'[c] = 0
    BY <2>2, <2>5, ServedStep
  <2> QED BY <2>3, <2>4, <2>6
<1>2. ASSUME NEW d \in Calls, Send(d), UNCHANGED <<on, handler, answers>>, k = on[d],
             up'[k] = Append(up[k], [call |-> d, seq |-> nextSeq[k], cut |-> FALSE])
      PROVE  /\ Sent(c)' /\ on'[c] = k /\ up'[k][i].seq = seqOf'[c]
             /\ handler'[c] = "none" /\ answers'[c] = 0
             /\ \A j \in DOMAIN up'[k] : up'[k][j].call = c => j = i
  <2>1. ~Sent(d) /\ Sent(d)' /\ seqOf'[d] = nextSeq[k]
    BY <1>2, SendSends
  <2>2. handler[d] = "none" /\ answers[d] = 0
    BY <2>1 DEF HandlerInv
  <2>3. \A j \in DOMAIN up[k] : up[k][j].call # d
    BY <2>1 DEF UpInv
  <2> DEFINE r == [call |-> d, seq |-> nextSeq[k], cut |-> FALSE]
  <2>4. r.call = d /\ r.seq = nextSeq[k]
    OBVIOUS
  <2>5. up'[k] = Append(up[k], r)
    BY <1>2
  <2> HIDE DEF r
  <2>6. \A j \in DOMAIN up'[k] : \/ j \in DOMAIN up[k] /\ up'[k][j] = up[k][j]
                                 \/ j = Len(up[k]) + 1 /\ up'[k][j] = r
    BY <1>0, <2>5
  <2>7. CASE c = d
    <3>1. \A j \in DOMAIN up'[k] : up'[k][j].call = c => j = Len(up[k]) + 1 /\ up'[k][j] = r
      BY <2>3, <2>6, <2>7
    <3>2. i = Len(up[k]) + 1 /\ up'[k][i] = r
      BY <3>1
    <3> QED BY <1>2, <2>1, <2>2, <2>4, <2>7, <3>1, <3>2
  <2>8. CASE c # d
    <3>1. \A j \in DOMAIN up'[k] : up'[k][j].call = c => j \in DOMAIN up[k] /\ up'[k][j] = up[k][j]
      BY <2>4, <2>6, <2>8
    <3>2. i \in DOMAIN up[k] /\ up'[k][i] = up[k][i]
      BY <3>1
    <3>3. /\ c \in Calls /\ Sent(c) /\ on[c] = k /\ up[k][i].seq = seqOf[c]
          /\ handler[c] = "none" /\ answers[c] = 0
          /\ \A j \in DOMAIN up[k] : up[k][j].call = c => j = i
      BY <1>r, <3>2 DEF UpInv
    <3>4. Sent(c)' /\ on'[c] = k /\ seqOf'[c] = seqOf[c]
      BY <3>3, SentStays
    <3> QED BY <1>2, <3>1, <3>2, <3>3, <3>4
  <2> QED BY <2>7, <2>8
<1> QED BY <1>1, <1>2, UpView

(* A response in the pipe was there before, or is the server's answer to a  *)
(* call of this connection, or the stray one.                               *)
SameResponse(f, g) == f.of = g.of /\ f.seq = g.seq /\ f.ok = g.ok
NewResponse(f, k) ==
  \/ f.of = None /\ ~f.ok
  \/ /\ f.of \in Calls /\ Sent(f.of) /\ on[f.of] = k /\ f.seq = seqOf[f.of]
     /\ answers'[f.of] = 1

LEMMA DownView ==
  ASSUME RpcTypeOK, PhaseInv, UpInv, HandlerInv, [RpcNext]_rpcVars, NEW k \in Conns,
         NEW i \in DOMAIN down'[k]
  PROVE  \/ \E j \in DOMAIN down[k] : SameResponse(down'[k][i], down[k][j])
         \/ NewResponse(down'[k][i], k)
<1> DEFINE Goal == \/ \E j \in DOMAIN down[k] : SameResponse(down'[k][i], down[k][j])
                   \/ NewResponse(down'[k][i], k)
<1>0. down[k] \in Seq(Responses)
  BY DEF RpcTypeOK
<1>1. ASSUME down'[k] = down[k] PROVE Goal
  BY <1>1 DEF SameResponse
<1>2. ASSUME down'[k] = <<>> PROVE Goal
  BY <1>2
<1>3. ASSUME NEW j \in Conns, Close(j) PROVE Goal
  <2>1. down'[k] = down[k] \/ down'[k] = <<>>
    BY <1>3 DEF Close, RpcTypeOK
  <2> QED BY <1>1, <1>2, <2>1
<1>4. ASSUME NEW c \in Calls, DialNew(c) PROVE Goal
  <2>1. down'[k] = down[k] \/ down'[k] = <<>>
    <3>1. UNCHANGED down \/ (cached # None /\ down' = [down EXCEPT ![cached] = <<>>])
      BY <1>4 DEF DialNew
    <3> QED BY <3>1 DEF RpcTypeOK
  <2> QED BY <1>1, <1>2, <2>1
<1>5. ASSUME NEW c \in Calls, DialFails(c) PROVE Goal
  BY <1>1, <1>3, <1>5 DEF DialFails, RpcTypeOK
<1>6. CASE CloseAll
  BY <1>3, <1>6 DEF CloseAll, RpcTypeOK
<1>7. ASSUME NEW j \in Conns, Receive(j) PROVE Goal
  <2>1. CASE j # k
    BY <1>1, <1>7, <2>1 DEF Receive, RpcTypeOK
  <2>2. CASE j = k
    <3>1. down'[k] = Tail(down[k]) /\ down[k] # <<>>
      BY <1>7, <2>2 DEF Receive, RpcTypeOK
    <3>2. i + 1 \in DOMAIN down[k] /\ down'[k][i] = down[k][i + 1]
      BY <1>0, <3>1, TailFrames
    <3> QED BY <3>2 DEF SameResponse
  <2> QED BY <2>1, <2>2
<1>8. ASSUME NEW j \in Conns, Lose(j) PROVE Goal
  <2>1. PICK s \in Remains(down[j]) : down' = [down EXCEPT ![j] = s]
    BY <1>8 DEF Lose
  <2>2. CASE j # k
    BY <1>1, <2>1, <2>2 DEF RpcTypeOK
  <2>3. CASE j = k
    <3>1. down'[k] = s
      BY <2>1, <2>3 DEF RpcTypeOK
    <3>2. i \in DOMAIN down[k] /\ Header(down'[k][i], down[k][i])
      BY <1>0, <2>3, <3>1, CutTypes, RemainsFrames
    <3>3. down[k][i] \in Responses
      BY <1>0, <3>2
    <3>4. SameResponse(down'[k][i], down[k][i])
      BY <3>2, <3>3, CutResponse DEF SameResponse
    <3> QED BY <3>2, <3>4
  <2> QED BY <2>2, <2>3
<1>9. ASSUME NEW j \in Conns, NEW frames \in Seq(Responses), Respond(j, frames),
             \A m \in DOMAIN frames : NewResponse(frames[m], j)
      PROVE  Goal
  <2>1. CASE j # k \/ link[j] # "up"
    BY <1>1, <1>9, <2>1 DEF Respond, RpcTypeOK
  <2>2. CASE j = k /\ link[j] = "up"
    <3>1. down'[k] = down[k] \o frames
      BY <1>9, <2>2 DEF Respond, RpcTypeOK
    <3>2. \/ i \in DOMAIN down[k] /\ down'[k][i] = down[k][i]
          \/ \E m \in DOMAIN frames : down'[k][i] = frames[m]
      <4>1. Len(down[k]) \in Nat /\ Len(frames) \in Nat /\ i \in 1..(Len(down[k]) + Len(frames))
        BY <1>0, <3>1
      <4>2. CASE i <= Len(down[k])
        BY <1>0, <3>1, <4>1, <4>2
      <4>3. CASE i > Len(down[k])
        <5>1. i - Len(down[k]) \in DOMAIN frames
          BY <4>1, <4>3
        <5>2. down'[k][i] = frames[i - Len(down[k])]
          BY <1>0, <3>1, <4>1, <4>3
        <5> QED BY <5>1, <5>2
      <4> QED BY <4>1, <4>2, <4>3
    <3> QED BY <1>9, <2>2, <3>2 DEF SameResponse
  <2> QED BY <2>1, <2>2
<1>10. ASSUME NEW j \in Conns, RefuseRequest(j) PROVE Goal
  <2> DEFINE c == Head(up[j]).call
             own == Response(c, FALSE)
  <2>1. PICK s \in StraySeqs : Respond(j,
            IF codec = "gob" THEN <<own>>
            ELSE <<own, Stray(s)>>)
    BY <1>10 DEF RefuseRequest
  <2> DEFINE stray == Stray(s)
  <2>2. c \in Calls /\ Sent(c) /\ on[c] = j /\ answers[c] = 0
    BY <1>10, HeadRequest DEF RefuseRequest
  <2>3. answers'[c] = 1
    BY <1>10, <2>2 DEF RefuseRequest, RpcTypeOK
  <2>4. own \in Responses /\ NewResponse(own, j)
    BY <2>2, <2>3 DEF Response, Responses, NewResponse, RpcTypeOK
  <2>5. stray \in Responses /\ NewResponse(stray, j)
    BY RpcAssumption DEF Stray, Responses, NewResponse
  <2> HIDE DEF own, stray
  <2>6. <<own>> \in Seq(Responses) /\ <<own, stray>> \in Seq(Responses)
    BY <2>4, <2>5, ShortPipes
  <2>7. /\ \A m \in DOMAIN <<own>> : NewResponse(<<own>>[m], j)
        /\ \A m \in DOMAIN <<own, stray>> : NewResponse(<<own, stray>>[m], j)
    BY <2>4, <2>5
  <2>8. Respond(j, IF codec = "gob" THEN <<own>> ELSE <<own, stray>>)
    BY <2>1 DEF stray
  <2> QED BY <1>9, <2>6, <2>7, <2>8
<1>11. ASSUME NEW c \in Calls, Answer(c) \/ HandleTimeout(c) PROVE Goal
  <2>1. PICK isOk \in BOOLEAN : Respond(on[c], <<Response(c, isOk)>>)
    BY <1>11 DEF Answer, HandleTimeout
  <2>2. Sent(c) /\ answers[c] = 0
    BY <1>11 DEF Answer, HandleTimeout, HandlerInv
  <2>3. answers'[c] = 1
    BY <1>11, <2>2 DEF Answer, HandleTimeout, RpcTypeOK
  <2> DEFINE own == Response(c, isOk)
  <2>4. own \in Responses /\ NewResponse(own, on[c])
    BY <2>2, <2>3 DEF Response, Responses, NewResponse, RpcTypeOK
  <2> HIDE DEF own
  <2>5. on[c] \in Conns /\ Respond(on[c], <<own>>)
    BY <2>1, <2>2 DEF Sent, own
  <2>6. <<own>> \in Seq(Responses) /\ \A m \in DOMAIN <<own>> : NewResponse(<<own>>[m], on[c])
    BY <2>4, ShortPipes
  <2> QED BY <1>9, <2>5, <2>6
<1>15. ASSUME NEW j \in Conns, Misread(j) PROVE Goal
  <2>1. PICK s \in StraySeqs : Respond(j, <<Stray(s)>>)
    BY <1>15 DEF Misread
  <2> DEFINE stray == Stray(s)
  <2>2. stray \in Responses /\ NewResponse(stray, j)
    BY RpcAssumption DEF Stray, Responses, NewResponse
  <2>3. Respond(j, <<stray>>)
    BY <2>1
  <2> HIDE DEF stray
  <2>4. <<stray>> \in Seq(Responses) /\ \A m \in DOMAIN <<stray>> : NewResponse(<<stray>>[m], j)
    BY <2>2, ShortPipes
  <2> QED BY <1>9, <2>3, <2>4
<1>12. ASSUME NEW c \in Calls, \/ UseCached(c) \/ SendRefused(c) \/ SendWritten(c) \/ SendFails(c)
                               \/ Return(c) \/ Expire(c)
       PROVE  UNCHANGED down
  BY <1>12 DEF UseCached, SendRefused, SendWritten, SendFails, Return, Expire, pipeVars
<1>13. ASSUME NEW j \in Conns, \/ ReceiveEnd(j) \/ TerminateCalls(j) \/ ReadOption(j) \/ OptionLost(j)
                               \/ ReadRequest(j) \/ ReadEnd(j) \/ Drain(j) \/ GiveUp(j)
       PROVE  UNCHANGED down
  BY <1>13 DEF GiveUp, ReceiveEnd, TerminateCalls, ReadOption, OptionLost, ReadRequest, ReadEnd, Drain,
     pipeVars
<1>14. UNCHANGED rpcVars => UNCHANGED down
  BY DEF rpcVars, pipeVars
<1> QED
  BY <1>1, <1>4, <1>5, <1>6, <1>7, <1>8, <1>10, <1>11, <1>12, <1>13, <1>14, <1>15
     DEF RpcNext, CallStep, ReceiveStep, ServeStep, OutOfStep

(* The one answer of a call is never taken back. *)
LEMMA AnswerStays ==
  ASSUME RpcTypeOK, UpInv, HandlerInv, [RpcNext]_rpcVars, NEW c \in Calls, answers[c] = 1
  PROVE  answers'[c] = 1
BY ServedStep

LEMMA DownInvStep ==
  ASSUME RpcTypeOK, PhaseInv, UpInv, HandlerInv, DownInv, [RpcNext]_rpcVars
  PROVE  DownInv'
<1> SUFFICES ASSUME NEW k \in Conns, NEW i \in DOMAIN down'[k], NEW f, f = down'[k][i]
             PROVE  /\ f.of = None => ~f.ok
                    /\ f.of # None => /\ Sent(f.of)' /\ on'[f.of] = k /\ f.seq = seqOf'[f.of]
                                      /\ answers'[f.of] = 1
  BY DEF DownInv
<1>1. ASSUME NEW j \in DOMAIN down[k], SameResponse(f, down[k][j])
      PROVE  /\ f.of = None => ~f.ok
             /\ f.of # None => /\ Sent(f.of)' /\ on'[f.of] = k /\ f.seq = seqOf'[f.of]
                               /\ answers'[f.of] = 1
  <2>1. down[k][j] \in Responses
    BY DEF RpcTypeOK
  <2>2. f.of \in Calls \cup {None}
    BY <1>1, <2>1 DEF SameResponse, Responses
  <2>3. /\ f.of = None => ~f.ok
        /\ f.of # None => Sent(f.of) /\ on[f.of] = k /\ f.seq = seqOf[f.of] /\ answers[f.of] = 1
    BY <1>1 DEF SameResponse, DownInv
  <2> QED BY <2>2, <2>3, SentStays, AnswerStays
<1>2. ASSUME NewResponse(f, k)
      PROVE  /\ f.of = None => ~f.ok
             /\ f.of # None => /\ Sent(f.of)' /\ on'[f.of] = k /\ f.seq = seqOf'[f.of]
                               /\ answers'[f.of] = 1
  <2>1. CASE f.of = None /\ ~f.ok
    BY <2>1
  <2>2. CASE /\ f.of \in Calls /\ Sent(f.of) /\ on[f.of] = k /\ f.seq = seqOf[f.of]
             /\ answers'[f.of] = 1
    BY <2>2, SentStays, RpcAssumption
  <2> QED BY <1>2, <2>1, <2>2 DEF NewResponse
<1> QED BY <1>1, <1>2, DownView

(* A reply is taken from the response that bears the call's number: its own. *)
LEMMA OwnReplyStep ==
  ASSUME RpcInv, [RpcNext]_rpcVars
  PROVE  OwnReply'
<1> SUFFICES ASSUME NEW c \in Calls, reply'[c] \in Calls
             PROVE  reply'[c] = c /\ answers'[c] = 1
  BY DEF OwnReply
<1> USE DEF RpcInv
<1>0. ASSUME reply'[c] = reply[c] PROVE reply'[c] = c /\ answers'[c] = 1
  BY <1>0, AnswerStays DEF OwnReply
<1>s. "error" \notin Calls /\ "cut" \notin Calls
  BY RpcAssumption
<1>1. ASSUME NEW calls, Complete(calls, "error") PROVE reply'[c] = reply[c]
  BY <1>1, <1>s DEF Complete
<1>2. ASSUME NEW k \in Conns, Receive(k) PROVE reply'[c] = c /\ answers'[c] = 1
  <2> DEFINE f == Head(down[k])
             owner == {e.call : e \in {p \in pending[k] : p.seq = f.seq}}
  <2>1. PICK what \in Outcomes(f) : Complete(owner, what)
    BY <1>2 DEF Receive
  <2>2. CASE c \notin owner
    BY <1>0, <2>1, <2>2 DEF Complete
  <2>3. CASE c \in owner
    <3>1. reply'[c] = what
      BY <2>1, <2>3 DEF Complete
    <3>2. what = f.of /\ f.ok
      BY <1>s, <3>1 DEF Outcomes
    <3>3. 1 \in DOMAIN down[k] /\ f = down[k][1]
      BY <1>2, TailFrames DEF RpcTypeOK, Receive
    <3>4. Sent(f.of) /\ on[f.of] = k /\ f.seq = seqOf[f.of] /\ answers[f.of] = 1
      BY <3>2, <3>3 DEF DownInv
    <3>5. Sent(c) /\ on[c] = k /\ seqOf[c] = f.seq
      BY <2>3 DEF PendingInv
    <3>6. f.of \in Calls
      BY <3>1, <3>2
    <3>7. c = f.of
      BY <3>4, <3>5, <3>6 DEF SeqInv
    <3> QED BY <3>1, <3>2, <3>4, <3>7, AnswerStays
  <2> QED BY <2>2, <2>3
<1>3. ASSUME NEW k \in Conns, TerminateCalls(k) PROVE reply'[c] = reply[c]
  BY <1>1, <1>3 DEF TerminateCalls
<1>4. ASSUME NEW d \in Calls, SendRefused(d) \/ SendFails(d) PROVE reply'[c] = reply[c]
  BY <1>1, <1>4 DEF SendRefused, SendFails, doneVars
<1>5. ASSUME NEW d \in Calls, DialFails(d) PROVE reply'[c] = reply[c]
  BY <1>5, <1>s DEF DialFails, RpcTypeOK
<1>6. ASSUME NEW d \in Calls, \/ UseCached(d) \/ DialNew(d) \/ SendWritten(d) \/ Return(d) \/ Expire(d)
                              \/ Answer(d) \/ HandleTimeout(d)
      PROVE  UNCHANGED reply
  BY <1>6 DEF UseCached, DialNew, SendWritten, Return, Expire, Answer, HandleTimeout, doneVars
<1>7. ASSUME NEW k \in Conns, ReceiveEnd(k) \/ ServeStep(k) \/ OutOfStep(k) \/ Lose(k) PROVE UNCHANGED reply
  BY <1>7 DEF ReceiveEnd, ServeStep, OutOfStep, Misread, GiveUp, ReadOption, OptionLost, ReadRequest, RefuseRequest, ReadEnd,
     Drain, Lose, doneVars
<1>8. CloseAll \/ UNCHANGED rpcVars => UNCHANGED reply
  BY DEF CloseAll, rpcVars, doneVars
<1> QED
  BY <1>0, <1>2, <1>3, <1>4, <1>5, <1>6, <1>7, <1>8 DEF RpcNext, CallStep, ReceiveStep

-----------------------------------------------------------------------------
LEMMA RpcInvInit ==
  ASSUME RpcInit
  PROVE  RpcInv
<1>1. RpcTypeOK
  BY RpcAssumption DEF RpcInit, RpcTypeOK, FirstSeq
<1>2. \A c \in Calls : ~Sent(c)
  BY DEF RpcInit, Sent
<1>3. PhaseInv /\ SeqInv /\ PendingInv /\ UpInv
  BY <1>2 DEF RpcInit, PhaseInv, SeqInv, PendingInv, UpInv
<1>4. HandlerInv /\ DownInv /\ CompletedOnce
  BY DEF RpcInit, HandlerInv, DownInv, CompletedOnce
<1>5. OwnReply
  BY RpcAssumption DEF RpcInit, OwnReply
<1> QED BY <1>1, <1>3, <1>4, <1>5 DEF RpcInv

LEMMA RpcInvStep ==
  ASSUME RpcInv, [RpcNext]_rpcVars
  PROVE  RpcInv'
BY RpcTypeStep, PhaseInvStep, SeqInvStep, PendingInvStep, UpInvStep, HandlerInvStep, DownInvStep,
   CompletedOnceStep, OwnReplyStep DEF RpcInv

(* What holds of a connection's calls, map, pipes and goroutines together. *)
THEOREM RpcInvariant == RpcSpec => []RpcInv
<1>1. RpcInit => RpcInv
  BY RpcInvInit
<1>2. RpcInv /\ [RpcNext]_rpcVars => RpcInv'
  BY RpcInvStep
<1> QED BY <1>1, <1>2, PTL DEF RpcSpec

(* The variables of client, connection and server keep their types, also    *)
(* when frames are cut and bodies are read as headers.                      *)
THEOREM RpcTypeCorrect == RpcSpec => []RpcTypeOK
<1>1. RpcInv => RpcTypeOK
  BY DEF RpcInv
<1> QED BY <1>1, RpcInvariant, PTL

(* Response, write error, shutdown and a context that is done race for a    *)
(* call, and its Done channel, which holds one value, gets at most one      *)
(* (client.go:107-158, 273-280): done() never blocks with the mutex held.   *)
THEOREM RpcCompletedOnce == RpcSpec => []CompletedOnce
<1>1. RpcInv => CompletedOnce
  BY DEF RpcInv
<1> QED BY <1>1, RpcInvariant, PTL

(* Calls that share a connection never get each other's reply, and a reply  *)
(* means the server answered this call (client.go:107-113, 129-158).        *)
THEOREM RpcOwnReply == RpcSpec => []OwnReply
<1>1. RpcInv => OwnReply
  BY DEF RpcInv
<1> QED BY <1>1, RpcInvariant, PTL

(* The server writes at most one response for a request, whichever of the   *)
(* method and its timeout comes first (server.go:264-272).                  *)
THEOREM RpcAnsweredOnce == RpcSpec => []AnsweredOnce
<1>1. RpcInv => AnsweredOnce
  BY DEF RpcInv, HandlerInv, AnsweredOnce
<1> QED BY <1>1, RpcInvariant, PTL
=============================================================================
