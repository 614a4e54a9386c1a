------------------------- MODULE AgentStream_proofs -------------------------
(***************************************************************************)
(* Theorems about a question to the assistant, for every number of         *)
(* questions and frames, every channel and session length, and every limit *)
(* and window of the rate limiter.                                         *)
(***************************************************************************)
EXTENDS AgentStream, FiniteSetTheorems, TLAPS

(* The goroutines come in order, and start on nothing. *)
Staged(q) ==
  /\ ag[q] \in {"none", "appending"} => prod[q] = "off" /\ made[q] = 0
  /\ scanned[q] <= consumed[q] /\ consumed[q] <= made[q]
  /\ prod[q] = "sending" => made[q] < MaxFrames

(* After [DONE] nothing is produced or written any more. *)
Settled(q) ==
  /\ ag[q] \in {"storing", "trimming", "inserting"} => q \in done
  /\ q \in done => /\ ag[q] \notin {"none", "appending", "streaming"}
                   /\ prod[q] \in {"off", "closed"}
                   /\ consumed[q] = made[q]
  /\ answers[q] # -1 => q \in done /\ answers[q] = made[q]
  /\ ag[q] = "finished" /\ consumed[q] > 0 => answers[q] # -1

(* The gateway begins with the first frame and stops at [DONE]. *)
Handed(q) ==
  /\ gw[q] \in {"unsent", "asking"} => scanned[q] = 0
  /\ gw[q] = "ended" => q \in done /\ scanned[q] = consumed[q]

Flows(q) == Staged(q) /\ Settled(q) /\ Handed(q)
FlowInv == \A q \in Questions : Flows(q)

(* A pipeline pushes once. *)
PushInv ==
  /\ IsFiniteSet(untrimmed)
  /\ \A q \in Questions :
       /\ ag[q] = "none" => <<q, "user">> \notin untrimmed
       /\ ag[q] \in {"none", "appending", "streaming", "storing"} =>
            <<q, "assistant">> \notin untrimmed

SessionOK ==
  /\ session \in Seq(Roles) /\ untrimmed \subseteq Questions \X Roles
  /\ Len(session) <= Kept + Cardinality(untrimmed) + faults

(* A clock that was read is not far behind, and no two questions read the   *)
(* same instant.                                                            *)
ClockInv ==
  /\ \A q \in Questions : prod[q] = "checking" =>
       1 <= stamp[q] /\ stamp[q] <= now /\ now - stamp[q] <= MaxDelay /\ stamp[q] \notin zset
  /\ \A p, q \in Questions :
       prod[p] = "checking" /\ prod[q] = "checking" /\ stamp[p] = stamp[q] => p = q
  /\ \A z \in zset : z <= now
  /\ \A i \in DOMAIN accepted : accepted[i] <= now /\ accepted[i] + Window <= expiry

Since(t) == {i \in DOMAIN accepted : t <= accepted[i]}
Logged(t) == {z \in zset : t - MaxDelay <= z}

(* Every question let through in a window that is still open has left its   *)
(* entry in the key.                                                        *)
LoggedInv == \A t \in 0..MaxTime : now < t + Window - MaxDelay =>
  Cardinality(Since(t)) <= Cardinality(Logged(t))

-----------------------------------------------------------------------------
(* What a step does to the session and to the count of failures. *)
SessionKept == UNCHANGED sessionVars /\ faults' \in {faults, faults + 1}
Pushed(q, role) == SessionPush(q, role) /\ UNCHANGED faults
Trimmed(q, role) == SessionTrim(q, role) /\ faults' \in {faults, faults + 1}
SentAgain == /\ \E role \in Roles : session' = Append(session, role)
             /\ UNCHANGED untrimmed /\ faults' = faults + 1

LEMMA SessionView ==
  ASSUME [StreamNext]_streamVars
  PROVE  \/ SessionKept \/ SentAgain
         \/ \E q \in Questions, role \in Roles : Trimmed(q, role)
         \/ \E q \in Questions : /\ ag[q] = "none" /\ Prepare(q)
                                 /\ Pushed(q, "user")
         \/ \E q \in Questions : /\ ag[q] = "storing" /\ ag' = [ag EXCEPT ![q] = "trimming"]
                                 /\ Pushed(q, "assistant")
<1> USE DEF sessionVars, agentVars
<1>1. ASSUME NEW q \in Questions, Ask(q) \/ GatewayStep(q) PROVE SessionKept
  BY <1>1 DEF SessionKept, Ask, GatewayStep, AskFails, Lookup, Relay, RelayMisled, RelayEnd,
     RelayCut
<1>2. ASSUME NEW q \in Questions, ProducerStep(q) PROVE SessionKept
  BY <1>2 DEF SessionKept, ProducerStep, Stamp, LetThrough, Reject, Receive, Produce, CloseOut,
     FaultOrGone, Fault
<1>3. ASSUME NEW q \in Questions, Consume(q) \/ WriteFails(q) \/ Finish(q) \/ InsertAnswer(q)
      PROVE  SessionKept
  BY <1>3 DEF SessionKept, Consume, WriteFails, Finish, InsertAnswer, Fault
<1>4. ASSUME NEW q \in Questions, Prepare(q) PROVE ag[q] = "none" /\ Pushed(q, "user")
  BY <1>4 DEF Pushed, Prepare, Move
<1>5. ASSUME NEW q \in Questions, Run(q) PROVE Trimmed(q, "user")
  BY <1>5 DEF Trimmed, Run
<1>6. ASSUME NEW q \in Questions, StoreSession(q)
      PROVE  \/ SessionKept
             \/ /\ ag[q] = "storing" /\ ag' = [ag EXCEPT ![q] = "trimming"]
                /\ Pushed(q, "assistant")
  BY <1>6 DEF SessionKept, Pushed, StoreSession, Move, Fault
<1>7. ASSUME NEW q \in Questions, TrimAnswer(q) PROVE SessionKept \/ Trimmed(q, "assistant")
  BY <1>7 DEF SessionKept, Trimmed, TrimAnswer, Fault
<1>8. ASSUME NEW q \in Questions, PrepareFails(q) PROVE SessionKept \/ Trimmed(q, "user")
  BY <1>8 DEF SessionKept, Trimmed, PrepareFails, FaultOrGone, Fault
<1>9. ASSUME NEW q \in Questions, PipelineAgain(q) PROVE SentAgain
  BY <1>9 DEF SentAgain, PipelineAgain, Fault, Roles
<1>10. CASE StreamsBreak \/ Disconnect \/ Tick \/ AgentCrash \/ UNCHANGED streamVars
  BY <1>10 DEF SessionKept, StreamsBreak, Disconnect, Tick, AgentCrash, Fault, streamVars
<1>11. {"user", "assistant"} = Roles
  BY DEF Roles
<1> QED
  BY <1>1, <1>2, <1>3, <1>4, <1>5, <1>6, <1>7, <1>8, <1>9, <1>10, <1>11
  DEF StreamNext, HandlerStep

(* RPUSH adds an entry, LTRIM leaves at most Kept of them. *)
LEMMA SessionStep ==
  ASSUME StreamTypeOK, PushInv, [StreamNext]_streamVars
  PROVE  SessionOK'
<1>0. /\ session \in Seq(Roles) /\ untrimmed \subseteq Questions \X Roles
      /\ Len(session) <= Kept + Cardinality(untrimmed) + faults
      /\ Kept \in Nat \ {0} /\ faults \in Nat /\ Len(session) \in Nat
  BY StreamAssumption DEF StreamTypeOK
<1>f. IsFiniteSet(untrimmed) /\ Cardinality(untrimmed) \in Nat
  BY FS_CardinalityType DEF PushInv
<1>1. CASE SessionKept
  <2>1. UNCHANGED <<session, untrimmed>> /\ faults' \in {faults, faults + 1}
    BY <1>1 DEF SessionKept, sessionVars
  <2>2. Len(session) <= Kept + Cardinality(untrimmed) + faults'
    BY <1>0, <1>f, <2>1
  <2> QED BY <1>0, <2>1, <2>2 DEF SessionOK
<1>2. CASE SentAgain
  <2>1. PICK role \in Roles : session' = Append(session, role)
    BY <1>2 DEF SentAgain
  <2>2. session' \in Seq(Roles) /\ Len(session') = Len(session) + 1
    BY <1>0, <2>1
  <2>3. UNCHANGED untrimmed /\ faults' = faults + 1
    BY <1>2 DEF SentAgain
  <2>4. Len(session') <= Kept + Cardinality(untrimmed) + faults'
    BY <1>0, <1>f, <2>2, <2>3
  <2> QED BY <1>0, <2>2, <2>3, <2>4 DEF SessionOK
<1>3. ASSUME NEW q \in Questions, NEW role \in Roles, Trimmed(q, role) PROVE SessionOK'
  <2> DEFINE from == IF Len(session) > Kept THEN Len(session) - Kept + 1 ELSE 1
  <2>1. session' = SubSeq(session, from, Len(session))
    BY <1>3 DEF Trimmed, SessionTrim
  <2>2. from \in 1..(Len(session) + 1) /\ Len(session) - from + 1 <= Kept
    BY <1>0
  <2> HIDE DEF from
  <2>3. session' \in Seq(Roles) /\ Len(session') <= Kept
    BY <1>0, <2>1, <2>2
  <2>4. untrimmed' \subseteq untrimmed /\ faults' \in {faults, faults + 1}
    BY <1>3 DEF Trimmed, SessionTrim
  <2>5. Cardinality(untrimmed') \in Nat
    <3>1. untrimmed' \in SUBSET untrimmed
      BY <2>4
    <3>2. IsFiniteSet(untrimmed')
      BY <1>f, <3>1, FS_Subset
    <3> QED BY <3>2, FS_CardinalityType
  <2>6. Len(session') \in Nat
    BY <2>3
  <2>7. Len(session') <= Kept + Cardinality(untrimmed') + faults'
    BY <1>0, <2>3, <2>4, <2>5, <2>6
  <2> QED BY <1>0, <2>3, <2>4, <2>7 DEF SessionOK
<1>4. ASSUME NEW q \in Questions, NEW role \in Roles, Pushed(q, role),
             <<q, role>> \notin untrimmed
      PROVE  SessionOK'
  <2>1. /\ session' = Append(session, role) /\ untrimmed' = untrimmed \cup {<<q, role>>}
        /\ UNCHANGED faults
    BY <1>4 DEF Pushed, SessionPush
  <2>2. session' \in Seq(Roles) /\ Len(session') = Len(session) + 1
    BY <1>0, <2>1
  <2>3. Cardinality(untrimmed \cup {<<q, role>>}) = Cardinality(untrimmed) + 1
    BY <1>4, <1>f, FS_AddElement
  <2>4. Len(session') <= Kept + Cardinality(untrimmed') + faults'
    BY <1>0, <1>f, <2>1, <2>2, <2>3
  <2>5. untrimmed' \subseteq Questions \X Roles
    BY <1>0, <2>1
  <2> QED BY <2>2, <2>4, <2>5 DEF SessionOK
<1>5. "user" \in Roles /\ "assistant" \in Roles
  BY DEF Roles
<1> QED BY <1>1, <1>2, <1>3, <1>4, <1>5, SessionView DEF PushInv

(* A handler does not go back to a stage before its answer is stored.       *)
LEMMA AgBack ==
  ASSUME StreamTypeOK, [StreamNext]_streamVars, NEW q \in Questions
  PROVE  /\ ag'[q] = "none" => ag[q] = "none"
         /\ ag'[q] \in {"none", "appending", "streaming", "storing"} =>
              ag[q] \in {"none", "appending", "streaming", "storing"}
<1> USE DEF StreamTypeOK, Move, agentVars
<1>1. ASSUME NEW r \in Questions, Ask(r) \/ GatewayStep(r) \/ ProducerStep(r) \/ PipelineAgain(r)
      PROVE  UNCHANGED ag
  BY <1>1 DEF Ask, GatewayStep, AskFails, Lookup, Relay, RelayMisled, RelayEnd, RelayCut,
     ProducerStep, Stamp, LetThrough, Reject, Receive, Produce, CloseOut, PipelineAgain
<1>2. ASSUME NEW r \in Questions, Prepare(r) \/ Run(r) \/ PrepareFails(r) \/ Finish(r)
      PROVE  \E v \in {"appending", "streaming", "finished", "storing"} :
               /\ ag' = [ag EXCEPT ![r] = v]
               /\ ag[r] \in {"none", "appending", "streaming"}
  BY <1>2 DEF Prepare, Run, PrepareFails, Finish
<1>3. ASSUME NEW r \in Questions, WriteFails(r) \/ StoreSession(r) \/ TrimAnswer(r) \/ InsertAnswer(r)
      PROVE  \E v \in {"aborted", "trimming", "inserting", "finished", "dropped"} :
               ag' = [ag EXCEPT ![r] = v]
  BY <1>3 DEF WriteFails, StoreSession, TrimAnswer, InsertAnswer
<1>4. ASSUME NEW r \in Questions, Consume(r) PROVE UNCHANGED ag
  BY <1>4 DEF Consume
<1>5. CASE AgentCrash
  BY <1>5 DEF AgentCrash
<1>6. CASE StreamsBreak \/ Disconnect \/ Tick \/ UNCHANGED streamVars
  BY <1>6 DEF StreamsBreak, Disconnect, Tick, streamVars
<1>7. CASE \E r \in Questions :
            Prepare(r) \/ Run(r) \/ PrepareFails(r) \/ Finish(r)
  <2>1. PICK r \in Questions, v \in {"appending", "streaming", "finished", "storing"} :
          /\ ag' = [ag EXCEPT ![r] = v] /\ ag[r] \in {"none", "appending", "streaming"}
    BY <1>2, <1>7
  <2> QED BY <2>1
<1>8. CASE \E r \in Questions :
            WriteFails(r) \/ StoreSession(r) \/ TrimAnswer(r) \/ InsertAnswer(r)
  <2>1. PICK r \in Questions, v \in {"aborted", "trimming", "inserting", "finished", "dropped"} :
          ag' = [ag EXCEPT ![r] = v]
    BY <1>3, <1>8
  <2> QED BY <2>1
<1> QED
  BY <1>1, <1>4, <1>5, <1>6, <1>7, <1>8 DEF StreamNext, HandlerStep

(* A step of a question's handler pushes its own entries only.              *)
LEMMA PushStep ==
  ASSUME StreamTypeOK, PushInv, [StreamNext]_streamVars
  PROVE  PushInv'
<1>0. IsFiniteSet(untrimmed)
  BY DEF PushInv
<1>1. IsFiniteSet(untrimmed')
  <2>1. CASE UNCHANGED untrimmed
    BY <1>0, <2>1
  <2>2. ASSUME NEW e, untrimmed' = untrimmed \ {e} PROVE IsFiniteSet(untrimmed')
    <3>1. untrimmed' \in SUBSET untrimmed
      BY <2>2
    <3> QED BY <1>0, <3>1, FS_Subset
  <2>3. ASSUME NEW e, untrimmed' = untrimmed \cup {e} PROVE IsFiniteSet(untrimmed')
    BY <1>0, <2>3, FS_AddElement
  <2> QED
    BY <2>1, <2>2, <2>3, SessionView
    DEF SessionKept, SentAgain, Trimmed, Pushed, SessionTrim, SessionPush, sessionVars
<1>2. \A q \in Questions :
        /\ ag'[q] = "none" => ag[q] = "none"
        /\ ag'[q] \in {"none", "appending", "streaming", "storing"} =>
             ag[q] \in {"none", "appending", "streaming", "storing"}
  BY AgBack
<1>3. CASE untrimmed' \subseteq untrimmed
  BY <1>1, <1>2, <1>3 DEF PushInv
<1>4. ASSUME NEW q \in Questions, Prepare(q), Pushed(q, "user") PROVE PushInv'
  <2>1. ag'[q] = "appending" /\ untrimmed' = untrimmed \cup {<<q, "user">>}
    BY <1>4 DEF Prepare, Move, Pushed, SessionPush, StreamTypeOK
  <2> QED BY <1>1, <1>2, <2>1 DEF PushInv
<1>5. ASSUME NEW q \in Questions, ag' = [ag EXCEPT ![q] = "trimming"], Pushed(q, "assistant")
      PROVE  PushInv'
  <2>1. ag'[q] = "trimming" /\ untrimmed' = untrimmed \cup {<<q, "assistant">>}
    BY <1>5 DEF Pushed, SessionPush, StreamTypeOK
  <2> QED BY <1>1, <1>2, <2>1 DEF PushInv
<1> QED
  BY <1>3, <1>4, <1>5, SessionView
  DEF SessionKept, SentAgain, Trimmed, SessionTrim, sessionVars

LEMMA GatewayType ==
  ASSUME StreamTypeOK, NEW q \in Questions, Ask(q) \/ GatewayStep(q)
  PROVE  StreamTypeOK'
<1> USE DEF StreamTypeOK, sessionVars, agentVars, modelVars, limitVars
<1>1. CASE Ask(q)
  BY <1>1 DEF Ask, Move
<1>2. CASE AskFails(q)
  BY <1>2 DEF AskFails, Move
<1>3. CASE Lookup(q)
  BY <1>3 DEF Lookup, Move
<1>4. CASE Relay(q)
  <2>1. MaxFrames \in Nat
    BY StreamAssumption
  <2>2. scanned[q] \in Nat /\ consumed[q] <= MaxFrames /\ consumed[q] \in Nat
        /\ scanned[q] < consumed[q]
    BY <1>4 DEF Relay
  <2>3. scanned[q] + 1 \in 1..MaxFrames
    BY <2>1, <2>2
  <2>4. scanned' = [scanned EXCEPT ![q] = scanned[q] + 1]
    BY <1>4 DEF Relay, Inc
  <2>5. scanned' \in [Questions -> 0..MaxFrames] /\ scanned'[q] \in 1..MaxFrames
    BY <2>1, <2>3, <2>4
  <2>6. shown' \in [Questions -> SUBSET (1..MaxFrames)]
    BY <1>4, <2>5 DEF Relay
  <2> QED BY <1>4, <2>5, <2>6 DEF Relay
<1>5. CASE RelayEnd(q)
  BY <1>5 DEF RelayEnd, Move
<1>6. CASE RelayCut(q)
  BY <1>6 DEF RelayCut, Move
<1>7. CASE RelayMisled(q)
  BY <1>7 DEF RelayMisled, Move
<1> QED BY <1>1, <1>2, <1>3, <1>4, <1>5, <1>6, <1>7 DEF GatewayStep

LEMMA FaultType ==
  ASSUME faults \in 0..MaxFaults, Fault
  PROVE  faults' \in 0..MaxFaults
<1>1. MaxFaults \in Nat
  BY StreamAssumption
<1> QED BY <1>1 DEF Fault

LEMMA HandlerType ==
  ASSUME StreamTypeOK, SessionOK', NEW q \in Questions,
         HandlerStep(q) \/ PrepareFails(q) \/ PipelineAgain(q)
  PROVE  StreamTypeOK'
<1> USE DEF StreamTypeOK, SessionOK, gatewayVars, modelVars, limitVars
<1>1. CASE Prepare(q)
  BY <1>1 DEF Prepare, Move
<1>2. CASE PrepareFails(q)
  <2>1. faults' \in 0..MaxFaults
    BY <1>2, FaultType DEF PrepareFails, FaultOrGone
  <2>2. ag' = [ag EXCEPT ![q] = "finished"]
    BY <1>2 DEF PrepareFails, Move
  <2> QED BY <1>2, <2>1, <2>2 DEF PrepareFails
<1>3. CASE Run(q)
  BY <1>3 DEF Run, Move
<1>4. CASE Consume(q)
  <2>1. MaxFrames \in Nat
    BY StreamAssumption
  <2>2. consumed[q] + 1 \in 0..MaxFrames
    BY <1>4, <2>1 DEF Consume
  <2> QED BY <1>4, <2>2 DEF Consume, Inc, sessionVars
<1>5. CASE WriteFails(q)
  BY <1>5 DEF WriteFails, Move, sessionVars
<1>6. CASE Finish(q)
  BY <1>6 DEF Finish, Move, sessionVars
<1>7. CASE StoreSession(q)
  <2>1. faults' \in 0..MaxFaults
    BY <1>7, FaultType DEF StoreSession
  <2>2. \E v \in {"trimming", "inserting"} : ag' = [ag EXCEPT ![q] = v]
    BY <1>7 DEF StoreSession, Move
  <2> QED BY <1>7, <2>1, <2>2 DEF StoreSession
<1>8. CASE InsertAnswer(q)
  <2>1. consumed[q] \in -1..MaxFrames
    <3>1. consumed[q] \in 0..MaxFrames /\ MaxFrames \in Nat
      BY StreamAssumption
    <3> QED BY <3>1
  <2>2. answers' \in [Questions -> -1..MaxFrames]
    BY <1>8, <2>1 DEF InsertAnswer
  <2>3. faults' \in 0..MaxFaults
    BY <1>8, FaultType DEF InsertAnswer
  <2>4. \E v \in {"finished", "dropped"} : ag' = [ag EXCEPT ![q] = v]
    BY <1>8 DEF InsertAnswer, Move
  <2> QED BY <1>8, <2>2, <2>3, <2>4 DEF InsertAnswer, sessionVars
<1>9. CASE TrimAnswer(q)
  <2>1. faults' \in 0..MaxFaults
    BY <1>9, FaultType DEF TrimAnswer
  <2> QED BY <1>9, <2>1 DEF TrimAnswer, Move
<1>10. CASE PipelineAgain(q)
  BY <1>10, FaultType DEF PipelineAgain
<1> QED
  BY <1>1, <1>2, <1>3, <1>4, <1>5, <1>6, <1>7, <1>8, <1>9, <1>10 DEF HandlerStep

LEMMA ScriptType ==
  ASSUME StreamTypeOK, NEW q \in Questions, Script(q)
  PROVE  expiry' \in Nat /\ zset' \subseteq 0..MaxTime
<1>0. Window \in Nat /\ now \in Nat /\ expiry \in Nat /\ zset \subseteq 0..MaxTime
      /\ stamp[q] \in 0..MaxTime
  BY StreamAssumption DEF StreamTypeOK
<1>1. Recent(q) \subseteq zset
  BY DEF Recent
<1>2. CASE HasRoom(q)
  <2>1. expiry' = now + Window /\ zset' = Recent(q) \cup {stamp[q]}
    BY <1>2 DEF Script
  <2> HIDE DEF Recent
  <2>2. expiry' \in Nat
    BY <1>0, <2>1
  <2> QED BY <1>0, <1>1, <2>1, <2>2
<1>3. CASE ~HasRoom(q)
  BY <1>0, <1>1, <1>3 DEF Script
<1> QED BY <1>2, <1>3

LEMMA ProducerType ==
  ASSUME StreamTypeOK, SessionOK', FlowInv, ClockInv, NEW q \in Questions, ProducerStep(q)
  PROVE  StreamTypeOK'
<1> USE DEF StreamTypeOK, SessionOK, sessionVars, gatewayVars, agentVars
<1>0. MaxTime \in Nat /\ MaxFrames \in Nat /\ Window \in Nat
  BY StreamAssumption
<1>1. CASE Stamp(q)
  <2>1. now' \in 0..MaxTime
    BY <1>0, <1>1 DEF Stamp, TimePasses
  <2> QED BY <1>1, <2>1 DEF Stamp, Move
<1>2. CASE LetThrough(q)
  <2>1. now \in 1..MaxTime
    <3>1. 1 <= stamp[q] /\ stamp[q] <= now /\ stamp[q] \in Nat
      BY <1>2 DEF LetThrough, Move, ClockInv
    <3> QED BY <1>0, <3>1
  <2>2. accepted' \in Seq(1..MaxTime)
    BY <1>2, <2>1 DEF LetThrough
  <2>3. expiry' \in Nat /\ zset' \subseteq 0..MaxTime
    BY <1>2, ScriptType DEF LetThrough
  <2>4. stamp' \in [Questions -> 0..MaxTime]
    BY <1>0, <1>2 DEF LetThrough
  <2>5. prod' = [prod EXCEPT ![q] = "running"]
    BY <1>2 DEF LetThrough, Move
  <2> QED BY <1>2, <2>2, <2>3, <2>4, <2>5 DEF LetThrough
<1>3. CASE Reject(q)
  <2>1. expiry' \in Nat /\ zset' \subseteq 0..MaxTime
    BY <1>3, ScriptType DEF Reject
  <2>2. faults' \in 0..MaxFaults
    BY <1>3, FaultType DEF Reject, FaultOrGone
  <2>3. stamp' \in [Questions -> 0..MaxTime]
    BY <1>0, <1>3 DEF Reject
  <2>4. prod' = [prod EXCEPT ![q] = "closed"]
    BY <1>3 DEF Reject, Move
  <2> QED BY <1>3, <2>1, <2>2, <2>3, <2>4 DEF Reject
<1>4. CASE Produce(q)
  <2>1. made[q] + 1 \in 0..MaxFrames
    <3>1. made[q] \in Nat /\ made[q] < MaxFrames
      BY <1>4 DEF Produce, Move, FlowInv, Flows, Staged
    <3> QED BY <1>0, <3>1
  <2> QED BY <1>4, <2>1 DEF Produce, Inc, Move, limitVars
<1>5. CASE Receive(q)
  BY <1>5 DEF Receive, Move, limitVars
<1>6. CASE CloseOut(q)
  BY <1>6 DEF CloseOut, Move, limitVars
<1> QED BY <1>1, <1>2, <1>3, <1>4, <1>5, <1>6 DEF ProducerStep

LEMMA StreamTypeStep ==
  ASSUME StreamTypeOK, PushInv, FlowInv, ClockInv, [StreamNext]_streamVars
  PROVE  StreamTypeOK'
<1>0. MaxTime \in Nat
  BY StreamAssumption
<1>s. SessionOK'
  BY SessionStep
<1>1. CASE Disconnect
  BY <1>1 DEF Disconnect, StreamTypeOK, sessionVars, agentVars, modelVars, limitVars
<1>2. CASE Tick
  <2>1. now' \in 0..MaxTime
    BY <1>0, <1>2 DEF Tick, TimePasses, StreamTypeOK
  <2> QED BY <1>2, <2>1 DEF Tick, StreamTypeOK, gatewayVars, sessionVars, agentVars, modelVars
<1>3. CASE AgentCrash
  <2>1. faults' \in 0..MaxFaults
    BY <1>3, FaultType DEF AgentCrash, StreamTypeOK
  <2> QED BY <1>0, <1>s, <1>3, <2>1 DEF AgentCrash, StreamTypeOK, SessionOK, gatewayVars
<1>4. CASE UNCHANGED streamVars
  BY <1>4 DEF streamVars, StreamTypeOK, gatewayVars, sessionVars, agentVars, modelVars,
     limitVars
<1>5. CASE StreamsBreak
  <2>1. faults' \in 0..MaxFaults
    BY <1>5, FaultType DEF StreamsBreak, StreamTypeOK
  <2>2. PICK broken \in SUBSET Questions :
          gw' = [q \in Questions |-> IF q \in broken THEN "silent" ELSE gw[q]]
    BY <1>5 DEF StreamsBreak
  <2> QED
    BY <1>s, <1>5, <2>1, <2>2
    DEF StreamsBreak, StreamTypeOK, SessionOK, agentVars, modelVars, limitVars
<1> QED
  BY <1>s, <1>1, <1>2, <1>3, <1>4, <1>5, GatewayType, HandlerType, ProducerType DEF StreamNext

-----------------------------------------------------------------------------
(* A step of one question's goroutines leaves the others' alone; it may     *)
(* only take the connection from them.                                      *)
SameAt(q) ==
  /\ gw'[q] = gw[q] /\ scanned'[q] = scanned[q]
  /\ ag'[q] = ag[q] /\ consumed'[q] = consumed[q] /\ answers'[q] = answers[q]
  /\ prod'[q] = prod[q] /\ made'[q] = made[q]
  /\ q \in done' <=> q \in done

LEMMA FlowsOn ==
  ASSUME NEW q \in Questions, Flows(q), SameAt(q)
  PROVE  Flows(q)'
BY DEF Flows, Staged, Settled, Handed, SameAt

LEMMA Elsewhere ==
  ASSUME StreamTypeOK, NEW q \in Questions, NEW r \in Questions, q # r,
         \/ Ask(q) \/ GatewayStep(q) \/ HandlerStep(q) \/ ProducerStep(q) \/ PrepareFails(q)
         \/ PipelineAgain(q)
  PROVE  SameAt(r)
<1> USE DEF StreamTypeOK, SameAt, Move, Inc, gatewayVars, agentVars, modelVars
<1>1. CASE Ask(q) \/ AskFails(q) \/ Lookup(q) \/ RelayEnd(q) \/ RelayCut(q) \/ RelayMisled(q)
  BY <1>1 DEF Ask, AskFails, Lookup, RelayEnd, RelayCut, RelayMisled
<1>2. CASE Relay(q)
  BY <1>2 DEF Relay
<1>3. CASE Prepare(q) \/ PrepareFails(q) \/ Run(q) \/ PipelineAgain(q)
  BY <1>3 DEF Prepare, PrepareFails, Run, PipelineAgain
<1>4. CASE Consume(q) \/ WriteFails(q) \/ Finish(q)
  BY <1>4 DEF Consume, WriteFails, Finish
<1>5. CASE StoreSession(q) \/ TrimAnswer(q) \/ InsertAnswer(q)
  BY <1>5 DEF StoreSession, TrimAnswer, InsertAnswer
<1>6. CASE Stamp(q) \/ LetThrough(q) \/ Reject(q)
  BY <1>6 DEF Stamp, LetThrough, Reject
<1>7. CASE Receive(q) \/ Produce(q) \/ CloseOut(q)
  BY <1>7 DEF Receive, Produce, CloseOut
<1> QED
  BY <1>1, <1>2, <1>3, <1>4, <1>5, <1>6, <1>7 DEF GatewayStep, HandlerStep, ProducerStep

(* How far each goroutine has come is a number. *)
LEMMA Counts ==
  ASSUME StreamTypeOK, NEW q \in Questions
  PROVE  /\ scanned[q] \in Nat /\ consumed[q] \in Nat /\ made[q] \in Nat
         /\ answers[q] \in Int /\ MaxFrames \in Nat \ {0}
BY StreamAssumption DEF StreamTypeOK

LEMMA GatewayFlows ==
  ASSUME StreamTypeOK, NEW q \in Questions, Flows(q), Ask(q) \/ GatewayStep(q)
  PROVE  Flows(q)'
<1> USE DEF Flows, Staged, Settled, Handed, Move
<1>0. /\ UNCHANGED <<ag, consumed, done, answers, prod, made>>
  BY DEF Ask, GatewayStep, AskFails, Lookup, Relay, RelayMisled, RelayEnd, RelayCut, agentVars,
     modelVars
<1>1. CASE Ask(q) \/ AskFails(q) \/ RelayCut(q) \/ RelayMisled(q)
  BY <1>0, <1>1 DEF Ask, AskFails, RelayCut, RelayMisled, StreamTypeOK
<1>2. CASE Lookup(q)
  <2>1. gw[q] = "asking" /\ gw'[q] \in {"relaying", "offline"} /\ UNCHANGED scanned
    BY <1>2 DEF Lookup, StreamTypeOK
  <2> QED BY <1>0, <2>1
<1>3. CASE Relay(q)
  <2>1. /\ gw[q] = "relaying" /\ UNCHANGED gw /\ scanned[q] < consumed[q]
        /\ scanned'[q] = scanned[q] + 1
    BY <1>3 DEF Relay, Inc, StreamTypeOK
  <2>2. scanned[q] \in Nat /\ consumed[q] \in Nat
    BY Counts
  <2>3. scanned'[q] <= consumed[q]
    BY <2>1, <2>2
  <2> QED BY <1>0, <2>1, <2>3
<1>4. CASE RelayEnd(q)
  BY <1>0, <1>4 DEF RelayEnd, StreamTypeOK
<1> QED BY <1>1, <1>2, <1>3, <1>4 DEF GatewayStep

LEMMA HandlerFlows ==
  ASSUME StreamTypeOK, NEW q \in Questions, Flows(q),
         HandlerStep(q) \/ PrepareFails(q) \/ PipelineAgain(q)
  PROVE  Flows(q)'
<1> USE DEF Flows, Staged, Settled, Handed, Move
<1>0. UNCHANGED <<gw, scanned, made>>
  BY DEF HandlerStep, Prepare, Run, Consume, WriteFails, Finish, StoreSession, TrimAnswer,
     InsertAnswer, PrepareFails, PipelineAgain, gatewayVars, modelVars
<1>c. scanned[q] \in Nat /\ consumed[q] \in Nat /\ made[q] \in Nat
  BY Counts
<1>1. CASE Prepare(q)
  <2>1. /\ ag[q] = "none" /\ ag'[q] = "appending" /\ UNCHANGED <<consumed, done, answers, prod>>
    BY <1>1 DEF Prepare, StreamTypeOK, modelVars
  <2> QED BY <1>0, <2>1
<1>2. CASE PrepareFails(q)
  <2>1. /\ ag[q] \in {"none", "appending"} /\ ag'[q] = "finished" /\ q \in done'
        /\ UNCHANGED <<consumed, answers, prod>>
    BY <1>2 DEF PrepareFails, StreamTypeOK, modelVars
  <2>2. made[q] = 0 /\ consumed[q] = 0 /\ scanned[q] = 0 /\ prod[q] = "off"
    BY <1>c, <2>1
  <2>3. q \notin done
    BY <2>1
  <2> QED BY <1>0, <2>1, <2>2, <2>3
<1>3. CASE Run(q)
  <2>1. /\ ag[q] = "appending" /\ ag'[q] = "streaming" /\ prod'[q] = "stamping"
        /\ UNCHANGED <<consumed, done, answers>>
    BY <1>3 DEF Run, StreamTypeOK
  <2> QED BY <1>0, <2>1
<1>4. CASE Consume(q)
  <2>1. /\ ag[q] = "streaming" /\ consumed[q] < made[q] /\ consumed'[q] = consumed[q] + 1
        /\ UNCHANGED <<ag, done, answers, prod>>
    BY <1>4 DEF Consume, Inc, StreamTypeOK, modelVars
  <2>2. consumed'[q] <= made[q] /\ scanned[q] <= consumed'[q]
    BY <1>c, <2>1
  <2>3. q \notin done
    BY <2>1
  <2> QED BY <1>0, <2>1, <2>2, <2>3
<1>5. CASE WriteFails(q)
  <2>1. ag[q] = "streaming" /\ ag'[q] = "aborted" /\ UNCHANGED <<consumed, done, answers, prod>>
    BY <1>5 DEF WriteFails, StreamTypeOK, modelVars
  <2> QED BY <1>0, <2>1
<1>6. CASE Finish(q)
  <2>1. /\ ag[q] = "streaming" /\ prod[q] = "closed" /\ consumed[q] = made[q] /\ q \in done'
        /\ ag'[q] = IF consumed[q] = 0 THEN "finished" ELSE "storing"
        /\ UNCHANGED <<consumed, answers, prod>>
    BY <1>6 DEF Finish, StreamTypeOK, modelVars
  <2>2. q \notin done
    BY <2>1
  <2> QED BY <1>0, <1>c, <2>1, <2>2
<1>7. CASE StoreSession(q)
  <2>1. /\ ag[q] = "storing" /\ ag'[q] \in {"trimming", "inserting"}
        /\ UNCHANGED <<consumed, done, answers, prod>>
    BY <1>7 DEF StoreSession, StreamTypeOK, modelVars
  <2> QED BY <1>0, <2>1
<1>8. CASE TrimAnswer(q)
  <2>1. ag[q] = "trimming" /\ ag'[q] = "inserting" /\ UNCHANGED <<consumed, done, answers, prod>>
    BY <1>8 DEF TrimAnswer, StreamTypeOK, modelVars
  <2> QED BY <1>0, <2>1
<1>9. CASE InsertAnswer(q)
  <2>1. /\ ag[q] = "inserting" /\ UNCHANGED <<consumed, done, prod>>
        /\ \/ ag'[q] = "finished" /\ answers'[q] = consumed[q]
           \/ ag'[q] = "dropped" /\ UNCHANGED answers
    BY <1>9 DEF InsertAnswer, StreamTypeOK, modelVars
  <2>2. consumed[q] # -1
    BY <1>c
  <2> QED BY <1>0, <2>1, <2>2
<1>10. CASE PipelineAgain(q)
  <2>1. UNCHANGED <<ag, consumed, done, answers, prod>>
    BY <1>10 DEF PipelineAgain, modelVars
  <2> QED BY <1>0, <2>1
<1> QED
  BY <1>1, <1>2, <1>3, <1>4, <1>5, <1>6, <1>7, <1>8, <1>9, <1>10 DEF HandlerStep

LEMMA ProducerFlows ==
  ASSUME StreamTypeOK, NEW q \in Questions, Flows(q), ProducerStep(q)
  PROVE  Flows(q)'
<1> USE DEF Flows, Staged, Settled, Handed, Move
<1>0. UNCHANGED <<gw, scanned, ag, consumed, done, answers>>
  BY DEF ProducerStep, Stamp, LetThrough, Reject, Receive, Produce, CloseOut, gatewayVars,
     agentVars
<1>c. scanned[q] \in Nat /\ consumed[q] \in Nat /\ made[q] \in Nat /\ MaxFrames \in Nat \ {0}
  BY Counts
<1>1. CASE Stamp(q) \/ LetThrough(q)
  <2>1. /\ prod[q] \in {"stamping", "checking"} /\ prod'[q] \in {"checking", "running"}
        /\ UNCHANGED made
    BY <1>1 DEF Stamp, LetThrough, StreamTypeOK
  <2> QED BY <1>0, <2>1
<1>2. CASE Reject(q) \/ CloseOut(q)
  <2>1. prod[q] \in {"checking", "running"} /\ prod'[q] = "closed" /\ UNCHANGED made
    BY <1>2 DEF Reject, CloseOut, StreamTypeOK
  <2> QED BY <1>0, <2>1
<1>3. CASE Receive(q)
  <2>1. prod[q] = "running" /\ prod'[q] = "sending" /\ UNCHANGED made
    BY <1>3 DEF Receive, StreamTypeOK
  <2>2. made[q] < MaxFrames
    BY <1>3, <1>c DEF Receive
  <2> QED BY <1>0, <2>1, <2>2
<1>4. CASE Produce(q)
  <2>1. /\ prod[q] = "sending" /\ prod'[q] = "running" /\ made'[q] = made[q] + 1
    BY <1>4 DEF Produce, Inc, StreamTypeOK
  <2>2. consumed[q] <= made'[q]
    BY <1>c, <2>1
  <2>3. q \notin done /\ ag[q] \notin {"none", "appending"} /\ answers[q] = -1
    BY <2>1
  <2>4. ag[q] = "finished" /\ consumed[q] > 0 => answers[q] # -1
    OBVIOUS
  <2> QED BY <1>0, <2>1, <2>2, <2>3, <2>4
<1> QED BY <1>1, <1>2, <1>3, <1>4 DEF ProducerStep

LEMMA FlowStep ==
  ASSUME StreamTypeOK, FlowInv, [StreamNext]_streamVars
  PROVE  FlowInv'
<1> SUFFICES ASSUME NEW r \in Questions PROVE Flows(r)'
  BY DEF FlowInv
<1>0. Flows(r)
  BY DEF FlowInv
<1>1. ASSUME NEW q \in Questions,
             \/ Ask(q) \/ GatewayStep(q) \/ HandlerStep(q) \/ ProducerStep(q) \/ PrepareFails(q)
             \/ PipelineAgain(q)
      PROVE  Flows(r)'
  <2>1. CASE q = r
    BY <1>0, <1>1, <2>1, GatewayFlows, HandlerFlows, ProducerFlows
  <2>2. CASE q # r
    BY <1>0, <1>1, <2>2, Elsewhere, FlowsOn
  <2> QED BY <2>1, <2>2
<1>2. CASE Disconnect \/ Tick
  <2>1. SameAt(r)
    BY <1>2 DEF Disconnect, Tick, SameAt, gatewayVars, agentVars, modelVars
  <2> QED BY <1>0, <2>1, FlowsOn
<1>3. CASE AgentCrash
  <2>1. /\ UNCHANGED <<gw, scanned, made, consumed, done, answers>>
        /\ prod'[r] = "off"
        /\ ag'[r] = IF ag[r] \in {"none", "finished", "dropped"} THEN ag[r] ELSE "aborted"
    BY <1>3 DEF AgentCrash, gatewayVars
  <2> QED BY <1>0, <2>1 DEF Flows, Staged, Settled, Handed
<1>4. CASE UNCHANGED streamVars
  <2>1. SameAt(r)
    BY <1>4 DEF streamVars, SameAt, gatewayVars, agentVars, modelVars
  <2> QED BY <1>0, <2>1, FlowsOn
<1>5. CASE StreamsBreak
  <2>1. /\ UNCHANGED <<scanned, made, consumed, done, answers, prod, ag>>
        /\ gw'[r] = gw[r] \/ (gw[r] # "unsent" /\ gw'[r] = "silent")
    BY <1>5 DEF StreamsBreak, agentVars, modelVars
  <2> QED BY <1>0, <2>1 DEF Flows, Staged, Settled, Handed
<1> QED BY <1>1, <1>2, <1>3, <1>4, <1>5 DEF StreamNext

-----------------------------------------------------------------------------
(* The rate limiter.  Its clock is read under no lock, and the script may   *)
(* run after another one whose clock was read later.                        *)
LEMMA LimitConstants ==
  /\ Window \in Nat \ {0} /\ Limit \in Nat \ {0} /\ MaxDelay \in Nat /\ MaxTime \in Nat
BY StreamAssumption

LEMMA ClockTypes ==
  ASSUME StreamTypeOK
  PROVE  /\ now \in Nat /\ expiry \in Nat /\ zset \subseteq Nat
         /\ \A q \in Questions : stamp[q] \in Nat
         /\ \A i \in DOMAIN accepted : accepted[i] \in Nat
BY LimitConstants DEF StreamTypeOK

LEMMA LimitFinite ==
  ASSUME StreamTypeOK, NEW t
  PROVE  /\ IsFiniteSet(Since(t)) /\ Cardinality(Since(t)) \in Nat
         /\ IsFiniteSet(Logged(t)) /\ Cardinality(Logged(t)) \in Nat
<1>1. MaxTime \in Int /\ Len(accepted) \in Int /\ 0 \in Int /\ 1 \in Int
  BY LimitConstants DEF StreamTypeOK
<1>2. IsFiniteSet(0..MaxTime) /\ IsFiniteSet(1..Len(accepted))
  BY <1>1, FS_Interval
<1>3. Since(t) \in SUBSET (1..Len(accepted)) /\ Logged(t) \in SUBSET (0..MaxTime)
  <2>1. DOMAIN accepted = 1..Len(accepted) /\ zset \subseteq 0..MaxTime
    BY DEF StreamTypeOK
  <2> QED BY <2>1 DEF Since, Logged
<1>4. IsFiniteSet(Since(t)) /\ IsFiniteSet(Logged(t))
  BY <1>2, <1>3, FS_Subset
<1> QED BY <1>4, FS_CardinalityType

(* What a step may do to the limiter. *)
LEMMA LimitView ==
  ASSUME StreamTypeOK, [StreamNext]_streamVars
  PROVE  \/ UNCHANGED <<now, stamp, zset, expiry, accepted>>
            /\ \A q \in Questions : prod'[q] = "checking" => prod[q] = "checking"
         \/ Tick
         \/ \E q \in Questions : Stamp(q) \/ LetThrough(q) \/ Reject(q)
         \/ UNCHANGED <<now, zset, expiry, accepted>>
            /\ \A q \in Questions : prod'[q] = "off"
<1>1. ASSUME NEW q \in Questions,
             Ask(q) \/ GatewayStep(q) \/ PrepareFails(q) \/ PipelineAgain(q)
      PROVE  UNCHANGED <<now, stamp, zset, expiry, accepted, prod>>
  BY <1>1 DEF Ask, GatewayStep, AskFails, Lookup, Relay, RelayMisled, RelayEnd, RelayCut,
     PrepareFails, PipelineAgain, limitVars, modelVars
<1>2. ASSUME NEW q \in Questions, HandlerStep(q)
      PROVE  UNCHANGED <<now, stamp, zset, expiry, accepted>>
             /\ \A r \in Questions : prod'[r] = "checking" => prod[r] = "checking"
  <2>1. CASE Run(q)
    BY <2>1 DEF Run, Move, limitVars, StreamTypeOK
  <2>2. CASE \/ Prepare(q) \/ Consume(q) \/ WriteFails(q) \/ Finish(q) \/ StoreSession(q)
             \/ TrimAnswer(q) \/ InsertAnswer(q)
    BY <2>2 DEF Prepare, Consume, WriteFails, Finish, StoreSession, TrimAnswer, InsertAnswer,
       limitVars, modelVars
  <2> QED BY <1>2, <2>1, <2>2 DEF HandlerStep
<1>3. ASSUME NEW q \in Questions, Receive(q) \/ Produce(q) \/ CloseOut(q)
      PROVE  UNCHANGED <<now, stamp, zset, expiry, accepted>>
             /\ \A r \in Questions : prod'[r] = "checking" => prod[r] = "checking"
  BY <1>3 DEF Receive, Produce, CloseOut, Move, limitVars, StreamTypeOK
<1>4. CASE StreamsBreak \/ Disconnect \/ UNCHANGED streamVars
  BY <1>4 DEF StreamsBreak, Disconnect, streamVars, limitVars, modelVars
<1>5. CASE AgentCrash
  BY <1>5 DEF AgentCrash
<1> QED BY <1>1, <1>2, <1>3, <1>4, <1>5 DEF StreamNext, ProducerStep

LEMMA ClockStep ==
  ASSUME StreamTypeOK, ClockInv, [StreamNext]_streamVars
  PROVE  ClockInv'
<1>c. Window \in Nat /\ MaxDelay \in Nat /\ now \in Nat /\ expiry \in Nat /\ zset \subseteq Nat
      /\ \A q \in Questions : stamp[q] \in Nat
      /\ \A i \in DOMAIN accepted : accepted[i] \in Nat
  BY LimitConstants, ClockTypes
<1>1. CASE UNCHANGED <<now, stamp, zset, expiry, accepted>>
           /\ \A q \in Questions : prod'[q] = "checking" => prod[q] = "checking"
  BY <1>1 DEF ClockInv
<1>2. CASE UNCHANGED <<now, zset, expiry, accepted>> /\ \A q \in Questions : prod'[q] = "off"
  BY <1>2 DEF ClockInv
<1>3. ASSUME TimePasses
      PROVE  /\ now' = now + 1
             /\ \A q \in Questions : prod[q] = "checking" =>
                  stamp[q] <= now' /\ now' - stamp[q] <= MaxDelay
             /\ \A z \in zset : z < now' /\ z <= now'
             /\ \A i \in DOMAIN accepted : accepted[i] <= now'
  <2>1. now' = now + 1 /\ now < now'
    BY <1>c, <1>3 DEF TimePasses
  <2>2. ASSUME NEW q \in Questions, prod[q] = "checking"
        PROVE  stamp[q] <= now' /\ now' - stamp[q] <= MaxDelay
    <3>1. stamp[q] <= now /\ now - stamp[q] < MaxDelay
      BY <1>3, <2>2 DEF TimePasses, ClockInv
    <3> QED BY <1>c, <2>1, <3>1
  <2>3. ASSUME NEW z \in zset PROVE z < now' /\ z <= now'
    <3>1. z <= now /\ z \in Nat
      BY <1>c DEF ClockInv
    <3> QED BY <1>c, <2>1, <3>1
  <2>4. ASSUME NEW i \in DOMAIN accepted PROVE accepted[i] <= now'
    <3>1. accepted[i] <= now
      BY DEF ClockInv
    <3>2. accepted[i] \in Nat
      BY ClockTypes
    <3>3. now \in Nat
      BY ClockTypes
    <3> QED BY <2>1, <3>1, <3>2, <3>3
  <2> QED BY <2>1, <2>2, <2>3, <2>4
<1>4. CASE Tick
  <2>1. UNCHANGED <<stamp, zset, expiry, accepted, prod>> /\ TimePasses
    BY <1>4 DEF Tick, modelVars
  <2> QED BY <1>3, <2>1 DEF ClockInv
<1>5. ASSUME NEW q \in Questions, Stamp(q) PROVE ClockInv'
  <2>1. /\ TimePasses /\ prod[q] = "stamping" /\ prod'[q] = "checking" /\ stamp'[q] = now'
        /\ UNCHANGED <<zset, expiry, accepted>>
        /\ \A r \in Questions \ {q} : prod'[r] = prod[r] /\ stamp'[r] = stamp[r]
    BY <1>5 DEF Stamp, Move, StreamTypeOK
  <2>2. 1 <= now' /\ now' - now' <= MaxDelay /\ now' \notin zset /\ now' <= now'
    BY <1>3, <1>c, <2>1
  <2>3. \A r \in Questions : prod[r] = "checking" => stamp[r] # now'
    BY <1>3, <1>c, <2>1 DEF ClockInv
  <2>4. ASSUME NEW r \in Questions, prod'[r] = "checking"
        PROVE  /\ 1 <= stamp'[r] /\ stamp'[r] <= now' /\ now' - stamp'[r] <= MaxDelay
               /\ stamp'[r] \notin zset'
    BY <1>3, <2>1, <2>2, <2>4 DEF ClockInv
  <2>5. ASSUME NEW p \in Questions, NEW r \in Questions, prod'[p] = "checking",
               prod'[r] = "checking", stamp'[p] = stamp'[r]
        PROVE  p = r
    BY <2>1, <2>3, <2>5 DEF ClockInv
  <2> QED BY <1>3, <2>1, <2>4, <2>5 DEF ClockInv
<1>6. ASSUME NEW q \in Questions, LetThrough(q) PROVE ClockInv'
  <2>1. /\ prod[q] = "checking" /\ prod'[q] = "running" /\ UNCHANGED now
        /\ zset' = Recent(q) \cup {stamp[q]} /\ expiry' = now + Window
        /\ accepted' = Append(accepted, now)
        /\ \A r \in Questions \ {q} : prod'[r] = prod[r] /\ stamp'[r] = stamp[r]
    BY <1>6 DEF LetThrough, Script, Move, StreamTypeOK
  <2>2. Recent(q) \subseteq zset
    BY DEF Recent
  <2>3. ASSUME NEW r \in Questions, prod'[r] = "checking"
        PROVE  /\ 1 <= stamp'[r] /\ stamp'[r] <= now' /\ now' - stamp'[r] <= MaxDelay
               /\ stamp'[r] \notin zset'
    <3>1. r # q /\ prod[r] = "checking" /\ stamp'[r] = stamp[r]
      BY <2>1, <2>3
    <3>2. stamp[r] # stamp[q]
      BY <2>1, <3>1 DEF ClockInv
    <3> QED BY <2>1, <2>2, <3>1, <3>2 DEF ClockInv
  <2>4. ASSUME NEW p \in Questions, NEW r \in Questions, prod'[p] = "checking",
               prod'[r] = "checking", stamp'[p] = stamp'[r]
        PROVE  p = r
    BY <2>1, <2>4 DEF ClockInv
  <2>5. \A z \in zset' : z <= now'
    BY <2>1, <2>2 DEF ClockInv
  <2>6. ASSUME NEW i \in DOMAIN accepted'
        PROVE  accepted'[i] <= now' /\ accepted'[i] + Window <= expiry'
    <3>1. \/ i \in DOMAIN accepted /\ accepted'[i] = accepted[i]
          \/ accepted'[i] = now
      BY <2>1, <2>6 DEF StreamTypeOK
    <3>2. i \in DOMAIN accepted => accepted[i] <= now /\ accepted[i] \in Nat
      BY <1>c DEF ClockInv
    <3>3. accepted'[i] <= now /\ accepted'[i] \in Nat
      BY <1>c, <3>1, <3>2
    <3> QED BY <1>c, <2>1, <3>3
  <2> QED BY <2>3, <2>4, <2>5, <2>6 DEF ClockInv
<1>7. ASSUME NEW q \in Questions, Reject(q) PROVE ClockInv'
  <2>1. /\ prod[q] = "checking" /\ prod'[q] = "closed" /\ UNCHANGED <<now, accepted>>
        /\ zset' \subseteq zset \cup {stamp[q]}
        /\ expiry' = expiry \/ expiry' = now + Window
        /\ \A r \in Questions \ {q} : prod'[r] = prod[r] /\ stamp'[r] = stamp[r]
    BY <1>7 DEF Reject, Script, Move, Recent, StreamTypeOK
  <2>2. stamp[q] <= now
    BY <2>1 DEF ClockInv
  <2>3. ASSUME NEW r \in Questions, prod'[r] = "checking"
        PROVE  /\ 1 <= stamp'[r] /\ stamp'[r] <= now' /\ now' - stamp'[r] <= MaxDelay
               /\ stamp'[r] \notin zset'
    <3>1. r # q /\ prod[r] = "checking" /\ stamp'[r] = stamp[r]
      BY <2>1, <2>3
    <3>2. stamp[r] # stamp[q]
      BY <2>1, <3>1 DEF ClockInv
    <3> QED BY <2>1, <3>1, <3>2 DEF ClockInv
  <2>4. ASSUME NEW p \in Questions, NEW r \in Questions, prod'[p] = "checking",
               prod'[r] = "checking", stamp'[p] = stamp'[r]
        PROVE  p = r
    BY <2>1, <2>4 DEF ClockInv
  <2>5. \A z \in zset' : z <= now'
    BY <2>1, <2>2 DEF ClockInv
  <2>6. ASSUME NEW i \in DOMAIN accepted'
        PROVE  accepted'[i] <= now' /\ accepted'[i] + Window <= expiry'
    <3>1. accepted'[i] = accepted[i] /\ i \in DOMAIN accepted
      BY <2>1, <2>6
    <3>2. accepted[i] <= now /\ accepted[i] + Window <= expiry /\ accepted[i] \in Nat
      BY <1>c, <3>1 DEF ClockInv
    <3> QED BY <1>c, <2>1, <3>1, <3>2
  <2> QED BY <2>3, <2>4, <2>5, <2>6 DEF ClockInv
<1> QED BY <1>1, <1>2, <1>4, <1>5, <1>6, <1>7, LimitView

(* A script keeps the entries of every window that is open at its instant:  *)
(* it looks back further than any of them, and the key outlives them.       *)
LEMMA RecentKeeps ==
  ASSUME StreamTypeOK, ClockInv, NEW q \in Questions, prod[q] = "checking",
         NEW t \in 0..MaxTime, now < t + Window - MaxDelay
  PROVE  \/ Since(t) = {}
         \/ Logged(t) \subseteq Recent(q)
<1>c. Window \in Nat /\ MaxDelay \in Nat /\ now \in Nat /\ expiry \in Nat /\ zset \subseteq Nat
      /\ stamp[q] \in Nat /\ t \in Nat
      /\ \A i \in DOMAIN accepted : accepted[i] \in Nat
  BY LimitConstants, ClockTypes
<1>1. CASE expiry <= now
  <2>1. ASSUME NEW i \in DOMAIN accepted, t <= accepted[i] PROVE FALSE
    <3>1. accepted[i] + Window <= expiry /\ accepted[i] \in Nat
      BY <1>c DEF ClockInv
    <3> QED BY <1>1, <1>c, <2>1, <3>1
  <2> QED BY <2>1 DEF Since
<1>2. CASE ~(expiry <= now)
  <2>1. stamp[q] <= now
    BY DEF ClockInv
  <2>2. \A z \in zset : t - MaxDelay <= z => z > stamp[q] - Window
    BY <1>c, <2>1
  <2> QED BY <1>2, <2>2 DEF Recent, Logged
<1> QED BY <1>1, <1>2

(* A question that is let through enters the windows that hold its instant, *)
(* and them only.                                                           *)
LEMMA LetThroughSince ==
  ASSUME StreamTypeOK, ClockInv, NEW q \in Questions, LetThrough(q), NEW t \in 0..MaxTime
  PROVE  /\ \A i \in DOMAIN accepted : accepted'[i] = accepted[i]
         /\ DOMAIN accepted' = DOMAIN accepted \cup {Len(accepted) + 1}
         /\ accepted'[Len(accepted) + 1] = now
         /\ t <= now => /\ Since(t)' = Since(t) \cup {Len(accepted) + 1}
                        /\ Cardinality(Since(t)') = Cardinality(Since(t)) + 1
         /\ t > now => Since(t)' = {}
<1> DEFINE n == Len(accepted) + 1
<1>1. accepted' = Append(accepted, now)
  BY DEF LetThrough
<1>2. /\ \A i \in DOMAIN accepted : accepted'[i] = accepted[i]
      /\ DOMAIN accepted' = DOMAIN accepted \cup {n} /\ n \notin DOMAIN accepted
      /\ accepted'[n] = now
  BY <1>1 DEF StreamTypeOK
<1> HIDE DEF n
<1>3. t <= now => Since(t)' = Since(t) \cup {n}
  BY <1>2 DEF Since
<1>4. n \notin Since(t) /\ IsFiniteSet(Since(t))
  BY <1>2, LimitFinite DEF Since
<1>5. Cardinality(Since(t) \cup {n}) = Cardinality(Since(t)) + 1
  BY <1>4, FS_AddElement
<1>6. \A i \in DOMAIN accepted : accepted[i] <= now
  BY DEF ClockInv
<1>7. t > now => Since(t)' = {}
  <2>1. now \in Nat /\ t \in Nat /\ \A i \in DOMAIN accepted : accepted[i] \in Nat
    BY ClockTypes
  <2>2. \A i \in DOMAIN accepted' : accepted'[i] <= now /\ accepted'[i] \in Nat
    BY <1>2, <1>6, <2>1
  <2> QED BY <2>1, <2>2 DEF Since
<1> QED BY <1>2, <1>3, <1>5, <1>7 DEF n

LEMMA LoggedStep ==
  ASSUME StreamTypeOK, StreamTypeOK', ClockInv, LoggedInv, [StreamNext]_streamVars
  PROVE  LoggedInv'
<1> SUFFICES ASSUME NEW t \in 0..MaxTime, now' < t + Window - MaxDelay
             PROVE  Cardinality(Since(t)') <= Cardinality(Logged(t)')
  BY DEF LoggedInv
<1>c. Window \in Nat /\ MaxDelay \in Nat /\ now \in Nat /\ now' \in Nat /\ t \in Nat
  BY LimitConstants, ClockTypes DEF StreamTypeOK
<1>f. /\ Cardinality(Since(t)) \in Nat /\ Cardinality(Logged(t)) \in Nat
      /\ IsFiniteSet(Logged(t)) /\ IsFiniteSet(Logged(t)') /\ Cardinality(Logged(t)') \in Nat
  <2>1. /\ Cardinality(Since(t)) \in Nat /\ Cardinality(Logged(t)) \in Nat
        /\ IsFiniteSet(Logged(t))
    BY LimitFinite
  <2>2. MaxTime \in Int /\ 0 \in Int
    BY LimitConstants
  <2>3. IsFiniteSet(0..MaxTime)
    BY <2>2, FS_Interval
  <2>4. Logged(t)' \in SUBSET (0..MaxTime)
    BY DEF Logged, StreamTypeOK
  <2>5. IsFiniteSet(Logged(t)')
    BY <2>3, <2>4, FS_Subset
  <2>6. Cardinality(Logged(t)') \in Nat
    BY <2>5, FS_CardinalityType
  <2> QED BY <2>1, <2>5, <2>6
<1>1. ASSUME UNCHANGED <<zset, accepted>>, now <= now'
      PROVE  Cardinality(Since(t)') <= Cardinality(Logged(t)')
  <2>1. now < t + Window - MaxDelay
    BY <1>c, <1>1
  <2>2. Since(t)' = Since(t) /\ Logged(t)' = Logged(t)
    BY <1>1 DEF Since, Logged
  <2> QED BY <2>1, <2>2 DEF LoggedInv
<1>2. CASE Tick
  BY <1>1, <1>2, <1>c DEF Tick, TimePasses
<1>3. ASSUME NEW q \in Questions, Stamp(q)
      PROVE  Cardinality(Since(t)') <= Cardinality(Logged(t)')
  BY <1>1, <1>3, <1>c DEF Stamp, TimePasses
<1>4. ASSUME NEW q \in Questions, LetThrough(q)
      PROVE  Cardinality(Since(t)') <= Cardinality(Logged(t)')
  <2>0. /\ prod[q] = "checking" /\ now' = now /\ zset' = Recent(q) \cup {stamp[q]}
    BY <1>4 DEF LetThrough, Script, Move
  <2>1. now < t + Window - MaxDelay
    BY <2>0
  <2>2. CASE t > now
    <3>1. Since(t)' = {}
      BY <1>4, <2>2, LetThroughSince
    <3>2. Cardinality(Since(t)') = 0
      BY <3>1, FS_EmptySet
    <3> QED BY <1>f, <3>2
  <2>3. CASE t <= now
    <3>1. Cardinality(Since(t)') = Cardinality(Since(t)) + 1
      BY <1>4, <2>3, LetThroughSince
    <3>2. stamp[q] \in Logged(t)' /\ stamp[q] \notin Logged(t)
      <4>1. now - stamp[q] <= MaxDelay /\ stamp[q] \notin zset /\ stamp[q] \in Nat
        BY <2>0, ClockTypes DEF ClockInv
      <4>2. t - MaxDelay <= stamp[q]
        BY <1>c, <2>3, <4>1
      <4> QED BY <2>0, <4>1, <4>2 DEF Logged
    <3>3. CASE Since(t) = {}
      <4>1. Cardinality(Since(t)') = 1
        BY <3>1, <3>3, FS_EmptySet
      <4>2. Cardinality(Logged(t)') # 0
        BY <1>f, <3>2, FS_EmptySet
      <4> QED BY <1>f, <4>1, <4>2
    <3>4. CASE Logged(t) \subseteq Recent(q)
      <4>1. (Logged(t) \cup {stamp[q]}) \in SUBSET (Logged(t)')
        BY <2>0, <3>2, <3>4 DEF Logged
      <4>2. Cardinality(Logged(t) \cup {stamp[q]}) = Cardinality(Logged(t)) + 1
        BY <1>f, <3>2, FS_AddElement
      <4>3. Cardinality(Logged(t) \cup {stamp[q]}) <= Cardinality(Logged(t)')
        BY <1>f, <4>1, FS_Subset
      <4>4. Cardinality(Since(t)) <= Cardinality(Logged(t))
        BY <2>1 DEF LoggedInv
      <4> QED BY <1>f, <3>1, <4>2, <4>3, <4>4
    <3> QED BY <2>0, <2>1, <3>3, <3>4, RecentKeeps
  <2> QED BY <1>c, <2>2, <2>3
<1>5. ASSUME NEW q \in Questions, Reject(q)
      PROVE  Cardinality(Since(t)') <= Cardinality(Logged(t)')
  <2>0. /\ prod[q] = "checking" /\ UNCHANGED <<now, accepted>>
        /\ Recent(q) \subseteq zset' \/ zset' = zset
    BY <1>5 DEF Reject, Script, Move
  <2>1. Since(t)' = Since(t) /\ now < t + Window - MaxDelay
    BY <2>0 DEF Since
  <2>2. CASE Since(t) = {}
    BY <1>f, <2>1, <2>2, FS_EmptySet
  <2>3. CASE Logged(t) \subseteq Recent(q)
    <3>1. Logged(t) \in SUBSET (Logged(t)')
      BY <2>0, <2>3 DEF Logged
    <3>2. Cardinality(Logged(t)) <= Cardinality(Logged(t)')
      BY <1>f, <3>1, FS_Subset
    <3>3. Cardinality(Since(t)) <= Cardinality(Logged(t))
      BY <2>1 DEF LoggedInv
    <3> QED BY <1>f, <2>1, <3>2, <3>3
  <2> QED BY <2>0, <2>1, <2>2, <2>3, RecentKeeps
<1> QED BY <1>1, <1>2, <1>3, <1>4, <1>5, <1>c, LimitView

(* The questions let through in the window of the limiter's promise. *)
Within(t) == {i \in DOMAIN accepted : t <= accepted[i] /\ accepted[i] < t + Window - MaxDelay}

LEMMA RateStep ==
  ASSUME StreamTypeOK, ClockInv, LoggedInv, RateLimited, [StreamNext]_streamVars
  PROVE  RateLimited'
<1> SUFFICES ASSUME NEW t \in 0..MaxTime PROVE Cardinality(Within(t)') <= Limit
  BY DEF RateLimited, Within
<1>0. Cardinality(Within(t)) <= Limit
  BY DEF RateLimited, Within
<1>c. /\ Window \in Nat /\ MaxDelay \in Nat /\ Limit \in Nat \ {0} /\ now \in Nat /\ t \in Nat
      /\ \A i \in DOMAIN accepted : accepted[i] \in Nat
  BY LimitConstants, ClockTypes
<1>1. CASE UNCHANGED accepted
  BY <1>0, <1>1 DEF Within
<1>2. ASSUME NEW q \in Questions, LetThrough(q) PROVE Cardinality(Within(t)') <= Limit
  <2>0. prod[q] = "checking" /\ HasRoom(q)
    BY <1>2 DEF LetThrough, Move
  <2>1. /\ \A i \in DOMAIN accepted : accepted'[i] = accepted[i]
        /\ DOMAIN accepted' = DOMAIN accepted \cup {Len(accepted) + 1}
        /\ accepted'[Len(accepted) + 1] = now
    BY <1>2, LetThroughSince
  <2>2. CASE ~(t <= now /\ now < t + Window - MaxDelay)
    <3>1. Within(t)' = Within(t)
      <4>1. Len(accepted) + 1 \notin DOMAIN accepted
        BY DEF StreamTypeOK
      <4> QED BY <2>1, <2>2, <4>1 DEF Within
    <3> QED BY <1>0, <3>1
  <2>3. CASE t <= now /\ now < t + Window - MaxDelay
    <3>1. Within(t)' \subseteq Since(t)'
      BY DEF Within, Since
    <3>2. /\ Cardinality(Since(t)') = Cardinality(Since(t)) + 1
          /\ Since(t)' = Since(t) \cup {Len(accepted) + 1}
      BY <1>2, <2>3, LetThroughSince
    <3>3. /\ IsFiniteSet(Since(t)) /\ Cardinality(Since(t)) \in Nat
          /\ Cardinality(Logged(t)) \in Nat
      BY LimitFinite
    <3>4. IsFiniteSet(Since(t)')
      BY <3>2, <3>3, FS_AddElement
    <3>5. Cardinality(Within(t)') <= Cardinality(Since(t)') /\ Cardinality(Within(t)') \in Nat
      <4>1. Within(t)' \in SUBSET (Since(t)')
        BY <3>1
      <4>2. IsFiniteSet(Within(t)') /\ Cardinality(Within(t)') <= Cardinality(Since(t)')
        BY <3>4, <4>1, FS_Subset
      <4> QED BY <4>2, FS_CardinalityType
    <3>6. Cardinality(Since(t)) < Limit
      <4>1. CASE Since(t) = {}
        BY <1>c, <4>1, FS_EmptySet
      <4>2. CASE Logged(t) \subseteq Recent(q)
        <5>1. IsFiniteSet(Recent(q))
          <6>1. MaxTime \in Int /\ 0 \in Int
            BY LimitConstants
          <6>2. IsFiniteSet(0..MaxTime)
            BY <6>1, FS_Interval
          <6>3. Recent(q) \in SUBSET (0..MaxTime)
            BY DEF Recent, StreamTypeOK
          <6> QED BY <6>2, <6>3, FS_Subset
        <5>2. Cardinality(Logged(t)) <= Cardinality(Recent(q)) /\ Cardinality(Recent(q)) \in Nat
          <6>1. Logged(t) \in SUBSET Recent(q)
            BY <4>2
          <6> QED BY <5>1, <6>1, FS_Subset, FS_CardinalityType
        <5>3. Cardinality(Since(t)) <= Cardinality(Logged(t))
          BY <2>3 DEF LoggedInv
        <5>4. Cardinality(Recent(q)) < Limit
          BY <2>0 DEF HasRoom
        <5> QED BY <1>c, <3>3, <5>2, <5>3, <5>4
      <4> QED BY <2>0, <2>3, <4>1, <4>2, RecentKeeps
    <3> QED BY <1>c, <3>2, <3>3, <3>5, <3>6
  <2> QED BY <2>2, <2>3
<1>3. ASSUME NEW q \in Questions, Stamp(q) \/ Reject(q) PROVE UNCHANGED accepted
  BY <1>3 DEF Stamp, Reject
<1>4. Tick => UNCHANGED accepted
  BY DEF Tick
<1> QED BY <1>1, <1>2, <1>3, <1>4, LimitView

-----------------------------------------------------------------------------
StreamInv ==
  StreamTypeOK /\ PushInv /\ FlowInv /\ ClockInv /\ LoggedInv /\ RateLimited

LEMMA StreamInvInit ==
  ASSUME StreamInit
  PROVE  StreamInv
<1>c. /\ Window \in Nat \ {0} /\ Limit \in Nat \ {0} /\ MaxDelay \in Nat /\ MaxTime \in Nat
      /\ MaxFrames \in Nat \ {0} /\ Kept \in Nat /\ MaxFaults \in Nat
  BY StreamAssumption
<1>0. untrimmed = {} /\ IsFiniteSet(untrimmed) /\ Cardinality(untrimmed) = 0
  BY FS_EmptySet DEF StreamInit
<1>1. StreamTypeOK
  <2>1. Len(session) <= Kept + Cardinality(untrimmed) + faults
    BY <1>c, <1>0 DEF StreamInit
  <2> QED BY <1>c, <1>0, <2>1 DEF StreamInit, StreamTypeOK
<1>2. FlowInv
  BY <1>c DEF StreamInit, FlowInv, Flows, Staged, Settled, Handed
<1>3. ClockInv /\ PushInv
  BY <1>0 DEF StreamInit, ClockInv, PushInv
<1>4. \A t : Since(t) = {} /\ Within(t) = {} /\ Logged(t) = {}
  BY DEF StreamInit, Since, Within, Logged
<1>5. LoggedInv /\ RateLimited
  <2>1. \A t : Cardinality(Since(t)) <= Cardinality(Logged(t)) /\ Cardinality(Within(t)) <= Limit
    BY <1>c, <1>4, FS_EmptySet
  <2> QED BY <2>1 DEF LoggedInv, RateLimited, Within
<1> QED BY <1>1, <1>2, <1>3, <1>5 DEF StreamInv

LEMMA StreamInvStep ==
  ASSUME StreamInv, [StreamNext]_streamVars
  PROVE  StreamInv'
BY StreamTypeStep, PushStep, FlowStep, ClockStep, LoggedStep, RateStep DEF StreamInv

(* What holds of a question's goroutines and of the limiter's key. *)
THEOREM StreamInvariant == StreamSpec => []StreamInv
<1>1. StreamInit => StreamInv
  BY StreamInvInit
<1>2. StreamInv /\ [StreamNext]_streamVars => StreamInv'
  BY StreamInvStep
<1> QED BY <1>1, <1>2, PTL DEF StreamSpec

(* The variables keep their types: the session holds no more than Append    *)
(* leaves, but for pipelines between RPUSH and LTRIM, cut off there or sent *)
(* again, however the commands of several handlers mix (memory.go:41-46).   *)
THEOREM StreamTypeCorrect == StreamSpec => []StreamTypeOK
<1>1. StreamInv => StreamTypeOK
  BY DEF StreamInv
<1> QED BY <1>1, StreamInvariant, PTL

(* A stored answer is everything the model said, whoever crashed or left in *)
(* between (chat_sse.go:47-76).                                             *)
THEOREM StreamAnswerIsWhole == StreamSpec => []AnswerIsWhole
<1>1. StreamInv => AnswerIsWhole
  BY DEF StreamInv, FlowInv, Flows, Settled, AnswerIsWhole
<1> QED BY <1>1, StreamInvariant, PTL

(* A handler that came to its end has stored an answer with text            *)
(* (chat_sse.go:56-76).                                                     *)
THEOREM StreamAnswerIsStored == StreamSpec => []AnswerIsStored
<1>1. StreamInv => AnswerIsStored
  BY DEF StreamInv, FlowInv, Flows, Settled, AnswerIsStored
<1> QED BY <1>1, StreamInvariant, PTL

(* The gateway that meets the agent's [DONE] has read the whole answer      *)
(* (chat.go:206-223); what of it reached the user is another matter.        *)
THEOREM StreamEndIsLast == StreamSpec => []EndIsLast
<1>1. StreamInv => EndIsLast
  BY DEF StreamInv, FlowInv, Flows, Settled, Handed, EndIsLast
<1> QED BY <1>1, StreamInvariant, PTL

(* No window of the limiter's length, less the longest delay of a script,   *)
(* lets more than Limit questions through (rate_limit.go:38-59).            *)
THEOREM StreamRateLimited == StreamSpec => []RateLimited
<1>1. StreamInv => RateLimited
  BY DEF StreamInv
<1> QED BY <1>1, StreamInvariant, PTL
=============================================================================
