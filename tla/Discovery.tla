----------------------------- MODULE Discovery ------------------------------
(***************************************************************************)
(* Which server an RPC goes to (pkg/geeRPC/xclient and registry): the      *)
(* registry's table of servers that announce themselves, the two service   *)
(* discoveries in front of it, and XClient's calls and broadcasts.  What a *)
(* call to one server does is in GeeRpc.                                   *)
(*                                                                         *)
(* A behaviour has one discovery, kept by hand (MultiServersDiscovery) or  *)
(* fed by the registry (GeeRegistryDiscovery, which embeds the former).    *)
(* Each of their methods holds the mutex to its end and is one step, but   *)
(* for Refresh, which holds it over a request to the registry: what others *)
(* do without the mutex happens meanwhile.                                 *)
(***************************************************************************)
EXTENDS Integers, FiniteSets, SequencesExt, ConsistentHash

CONSTANTS
  Servers,      \* numbers from 1, in the order of the addresses
  Keys,         \* positions of routing keys on the ring
  Placements,   \* hash functions: server -> positions of its virtual nodes
  Callers,      \* goroutines that use the XClient
  RegTimeout,   \* the registry forgets a server after this time
  UpdTimeout,   \* a discovery's list is asked for again after this time
  Announcers,   \* bound: the servers that announce themselves
  FirstIndexes, \* bound: values of the random first index
  MaxUpdates,   \* bound: calls of Update
  MaxTurns,     \* bound: round-robin choices from one list
  MaxTime,      \* bound: instants of a behaviour with calls,
  MaxCastTime,  \* bound: and of one with a broadcast
  MaxFaults     \* bound: failed requests to the registry, its restarts

ASSUME DiscoveryAssumption ==
  /\ IsFiniteSet(Servers) /\ Servers \subseteq Nat \ {0} /\ Keys \subseteq Nat
  /\ Placements # {} /\ Placements \subseteq [Servers -> (SUBSET Nat) \ {{}}]
  /\ {RegTimeout, UpdTimeout} \subseteq Nat \ {0}
  /\ Announcers \subseteq Servers /\ FirstIndexes \subseteq Nat
  /\ {MaxUpdates, MaxTurns, MaxTime, MaxCastTime, MaxFaults} \subseteq Nat

NoKey == -1
Error == -1
Lists == SetToAllKPermutations(Servers)

VARIABLES
  kind, at,                   \* which discovery; its hash function
  casting,                    \* bound: a behaviour has calls or one broadcast
  servers, index, ring,       \* fields of MultiServersDiscovery
  lastUpdate,                 \* field of GeeRegistryDiscovery
  answer,                     \* the registry's, on its way, and of what instant
  registry,                   \* GeeRegistry.servers: server -> start
  now,
  pc, picked,                 \* a caller's progress; the last address it got
  targets, out, err, reply, want, bpc, gaveUp,   \* the broadcast; its caller's
                              \* own context is done
  heard, source, listAt, turns,   \* history: last announcements; where the list
                              \* is from; of what instant; round-robin choices
                              \* from it
  updates, faults

NoAnswer == [list |-> <<>>, at |-> 0]
listVars == <<servers, index, ring, lastUpdate, source, listAt, turns, updates>>
registryVars == <<registry, heard>>
callVars == <<pc, picked>>
castVars == <<targets, out, err, reply, want, bpc, gaveUp>>
fixed == <<kind, at, casting>>
discVars == <<fixed, listVars, answer, registryVars, now, callVars, castVars, faults>>

(* Inside http.Get of Refresh, with the mutex. *)
InRequest(c) == pc[c] \in {"asking", "answered"}

DiscTypeOK ==
  /\ kind \in {"manual", "registry"} /\ at \in Placements /\ casting \in BOOLEAN
  /\ servers \in Lists /\ index \in Nat /\ lastUpdate \in -UpdTimeout..now
  /\ answer \in [list : Lists, at : 0..now] /\ listAt \in 0..now
  /\ DOMAIN registry \subseteq Servers /\ now \in 0..MaxTime
  /\ \A s \in DOMAIN registry : registry[s] \in 0..now /\ heard[s] >= registry[s]
  /\ pc \in [Callers -> {"idle", "asking", "answered", "refreshed", "picked"}]
  /\ \A c, d \in Callers : InRequest(c) /\ InRequest(d) => c = d
  /\ picked \in [Callers -> Servers \cup {NoServer, Error}]
  /\ targets \subseteq Servers /\ want \in BOOLEAN
  /\ out \in [Servers -> {"none", "waiting", "ok", "failed", "canceled"}]
  /\ err \in Servers \cup {NoServer} /\ reply \in Servers \cup {NoServer}
  /\ bpc \in {"idle", "running", "returned"} /\ gaveUp \in BOOLEAN
  /\ updates \in 0..MaxUpdates /\ faults \in 0..MaxFaults

(* NewMultiServerDiscovery with any list, NewGeeRegistryDiscovery with none *)
(* and an update that is long due.                                          *)
DiscInit ==
  /\ \/ kind = "manual" /\ servers \in Lists /\ at \in Placements
     \/ kind = "registry" /\ servers = <<>> /\ at = CHOOSE f \in Placements : TRUE
  /\ ring = Add(at, servers)
  /\ casting \in BOOLEAN
  /\ index \in FirstIndexes
  /\ lastUpdate = -UpdTimeout
  /\ registry = <<>> /\ now = 0
  /\ pc = [c \in Callers |-> "idle"] /\ picked = [c \in Callers |-> NoServer]
  /\ targets = {} /\ out = [s \in Servers |-> "none"] /\ bpc = "idle"
  /\ err = NoServer /\ reply = NoServer /\ want = FALSE /\ gaveUp = FALSE
  /\ heard = [s \in Servers |-> -1] /\ source = "caller" /\ turns = <<>>
  /\ answer = NoAnswer /\ listAt = 0
  /\ updates = 0 /\ faults = 0

(* Bound: once a broadcast has its servers the list matters to nobody.      *)
ListInUse == bpc = "idle"
MutexFree == \A c \in Callers : ~InRequest(c)
Fault == faults < MaxFaults /\ faults' = faults + 1
NewList(list) ==
  servers' = list /\ turns' = IF list = servers THEN turns ELSE <<>>

-----------------------------------------------------------------------------
Tick ==
  /\ kind = "registry"       \* time matters to nothing else
  /\ now < MaxTime /\ (casting => now < MaxCastTime) /\ ListInUse
  /\ now' = now + 1
  /\ UNCHANGED <<fixed, listVars, answer, registryVars, callVars, castVars, faults>>

PutServer(s) == registry' =
  [t \in DOMAIN registry \cup {s} |-> IF t = s THEN now ELSE registry[t]]

(* A POST that names its server under X-Geerpc-Servers: putServer.          *)
(* (Heartbeat names it under another header, is answered 500 and takes that *)
(* for success: it changes nothing here.)                                   *)
Announce(s) ==
  /\ kind = "registry" /\ ListInUse
  /\ PutServer(s)
  /\ heard' = [heard EXCEPT ![s] = now]
  /\ UNCHANGED <<fixed, listVars, answer, now, callVars, castVars, faults>>

RegistryRestart ==
  /\ kind = "registry" /\ ListInUse
  /\ Fault
  /\ registry' = <<>>
  /\ UNCHANGED <<fixed, listVars, answer, heard, now, callVars, castVars>>

-----------------------------------------------------------------------------
(* Slip: the ring stays as it was. *)
UpdateListOnly(list) ==
  /\ ListInUse /\ MutexFree
  /\ updates < MaxUpdates /\ updates' = updates + 1
  /\ NewList(list)
  /\ source' = "caller"
  /\ UNCHANGED <<fixed, ring, lastUpdate, index, listAt, answer, registryVars, now,
                 callVars, castVars, faults>>

(* Slip: the time of the next update is noted for that of the last. *)
UpdateNotesDue(list) ==
  /\ ListInUse /\ MutexFree
  /\ updates < MaxUpdates /\ updates' = updates + 1
  /\ NewList(list)
  /\ source' = "caller"
  /\ lastUpdate' = now + UpdTimeout
  /\ ring' = IF kind = "manual" THEN Add(at, list) ELSE ring
  /\ UNCHANGED <<fixed, index, listAt, answer, registryVars, now, callVars, castVars,
                 faults>>

(* Update of either discovery: only the one kept by hand rebuilds its ring. *)
Update(list) ==
  /\ ListInUse /\ MutexFree
  /\ updates < MaxUpdates /\ updates' = updates + 1
  /\ NewList(list)
  /\ source' = "caller"
  /\ \/ kind = "manual" /\ ring' = Add(at, list) /\ UNCHANGED lastUpdate
     \/ kind = "registry" /\ lastUpdate' = now /\ UNCHANGED ring
  /\ UNCHANGED <<fixed, index, listAt, answer, registryVars, now, callVars, castVars,
                 faults>>

UpToDate == kind = "manual" \/ lastUpdate + UpdTimeout > now

(* The first half of Get and GetAll: Refresh, of a list that is not due. *)
Refresh(c) ==
  /\ pc[c] # "refreshed" /\ ListInUse /\ MutexFree
  /\ UpToDate
  /\ pc' = [pc EXCEPT ![c] = "refreshed"]
  /\ picked' = [picked EXCEPT ![c] = NoServer]
  /\ UNCHANGED <<fixed, listVars, answer, registryVars, now, castVars, faults>>

(* A list that is due is asked for, without any timeout.                    *)
AskRegistry(c) ==
  /\ pc[c] # "refreshed" /\ ListInUse /\ MutexFree
  /\ ~UpToDate
  /\ pc' = [pc EXCEPT ![c] = "asking"]
  /\ picked' = [picked EXCEPT ![c] = NoServer]
  /\ UNCHANGED <<fixed, listVars, answer, registryVars, now, castVars, faults>>

(* aliveServers: those that have expired are deleted. *)
AliveServers == {s \in DOMAIN registry : registry[s] + RegTimeout > now}

RegistryAnswers(c) ==
  /\ pc[c] = "asking"
  /\ \E list \in SetToSeqs(AliveServers) :       \* sort.Strings
       /\ \A i, j \in DOMAIN list : i < j => list[i] < list[j]
       /\ answer' = [list |-> list, at |-> now]
  /\ registry' = [s \in AliveServers |-> registry[s]]
  /\ pc' = [pc EXCEPT ![c] = "answered"]
  /\ UNCHANGED <<fixed, listVars, heard, now, picked, castVars, faults>>

(* The rest of Refresh, however old the answer is by now.                   *)
TakeAnswer(c) ==
  /\ pc[c] = "answered"
  /\ NewList(answer.list)
  /\ lastUpdate' = now
  /\ source' = "registry" /\ listAt' = answer.at
  /\ answer' = NoAnswer
  /\ pc' = [pc EXCEPT ![c] = "refreshed"]
  /\ UNCHANGED <<fixed, index, ring, updates, registryVars, now, picked, castVars,
                 faults>>

(* Slip: the error is logged and the old list serves. *)
RefreshErrorIgnored(c) ==
  /\ InRequest(c) /\ Fault
  /\ answer' = NoAnswer
  /\ pc' = [pc EXCEPT ![c] = "refreshed"]
  /\ UNCHANGED <<fixed, listVars, registryVars, now, picked, castVars>>

(* The request or its answer is lost: Get fails. *)
RefreshFails(c) ==
  /\ InRequest(c) /\ Fault
  /\ answer' = NoAnswer
  /\ pc' = [pc EXCEPT ![c] = "picked"]
  /\ picked' = [picked EXCEPT ![c] = Error]
  /\ UNCHANGED <<fixed, listVars, registryVars, now, castVars>>

-----------------------------------------------------------------------------
Picked(c, address) ==
  /\ pc[c] = "refreshed" /\ ~casting /\ MutexFree
  /\ pc' = [pc EXCEPT ![c] = "picked"]
  /\ picked' = [picked EXCEPT ![c] = address]
  /\ UNCHANGED <<fixed, servers, ring, lastUpdate, source, listAt, updates, answer,
                 registryVars, now, castVars, faults>>

(* XClient.Call up to the address: MultiServersDiscovery.Get. *)
PickNone(c) == servers = <<>> /\ Picked(c, Error) /\ UNCHANGED <<index, turns>>

PickRandom(c) ==
  \E i \in DOMAIN servers : Picked(c, servers[i]) /\ UNCHANGED <<index, turns>>

(* Slip: the index is read and not moved on. *)
PickSameAgain(c) ==
  /\ servers # <<>> /\ Len(turns) < MaxTurns
  /\ LET s == servers[(index % Len(servers)) + 1]
     IN Picked(c, s) /\ turns' = Append(turns, s)
  /\ UNCHANGED index

PickRoundRobin(c) ==
  /\ servers # <<>> /\ Len(turns) < MaxTurns
  /\ LET s == servers[(index % Len(servers)) + 1]
     IN Picked(c, s) /\ turns' = Append(turns, s)
  /\ index' = (index + 1) % Len(servers)

(* What a call's context may carry. *)
RoutingKeys == Keys \cup {NoKey}

PickByHash(c) ==
  /\ servers # <<>>
  /\ \E k \in RoutingKeys :
       Picked(c, IF k = NoKey THEN Error ELSE RingGet(ring, k))
  /\ UNCHANGED <<index, turns>>

-----------------------------------------------------------------------------
GetAll == Range(servers)

(* XClient.Broadcast: GetAll, then a goroutine per server. *)
StartBroadcast(c) ==
  /\ pc[c] = "refreshed" /\ casting /\ bpc = "idle" /\ MutexFree
  /\ pc' = [pc EXCEPT ![c] = "picked"]
  /\ picked' = [picked EXCEPT ![c] = NoServer]
  /\ targets' = GetAll
  /\ out' = [s \in Servers |-> IF s \in GetAll THEN "waiting" ELSE "none"]
  /\ want' \in BOOLEAN                \* reply may be nil
  /\ bpc' = "running"
  /\ UNCHANGED <<err, reply, gaveUp, fixed, listVars, answer, registryVars, now, faults>>

Returns(s, result) ==
  /\ out[s] = "waiting"
  /\ out' = [out EXCEPT ![s] = result]
  /\ UNCHANGED <<targets, want, bpc, gaveUp, fixed, listVars, answer, registryVars, now,
                 callVars, faults>>

(* The call succeeds, be it after the context was cancelled. *)
Answered(s) ==
  /\ Returns(s, "ok")
  /\ reply' = IF want /\ reply = NoServer THEN s ELSE reply
  /\ UNCHANGED err

(* Slip: the last error is reported. *)
NoteAnyError(s) == err' = s

(* The first error is kept, and cancels the others. *)
NoteError(s) == err' = IF err = NoServer THEN s ELSE err

(* The dial or the call fails by itself. *)
Failed(s) == Returns(s, "failed") /\ NoteError(s) /\ UNCHANGED reply

(* Slip: nobody cancels. *)
NotCanceled(s) == FALSE /\ UNCHANGED discVars

(* The context of the calls ends after an error, and with the caller's own. *)
Canceled(s) ==
  /\ err # NoServer \/ gaveUp
  /\ Returns(s, "canceled") /\ NoteError(s) /\ UNCHANGED reply

(* The deadline or the cancellation of the context Broadcast was given. *)
CallerGivesUp ==
  /\ bpc = "running" /\ ~gaveUp
  /\ gaveUp' = TRUE
  /\ UNCHANGED <<targets, out, err, reply, want, bpc, fixed, listVars, answer,
                 registryVars, now, callVars, faults>>

(* Slip: the first result ends the broadcast. *)
ReturnAtOnce ==
  /\ bpc = "running"
  /\ \E s \in targets : out[s] # "waiting"
  /\ bpc' = "returned"
  /\ UNCHANGED <<targets, out, err, reply, want, gaveUp, fixed, listVars, answer,
                 registryVars, now, callVars, faults>>

(* wg.Wait *)
BroadcastReturns ==
  /\ bpc = "running" /\ \A s \in targets : out[s] # "waiting"
  /\ bpc' = "returned"
  /\ UNCHANGED <<targets, out, err, reply, want, gaveUp, fixed, listVars, answer,
                 registryVars, now, callVars, faults>>

-----------------------------------------------------------------------------
CallStep(c) ==
  \/ Refresh(c) \/ AskRegistry(c) \/ RegistryAnswers(c) \/ TakeAnswer(c)
  \/ RefreshFails(c) \/ StartBroadcast(c)
  \/ PickNone(c) \/ PickRandom(c) \/ PickRoundRobin(c) \/ PickByHash(c)

DiscNext ==
  \/ Tick \/ RegistryRestart \/ CallerGivesUp \/ BroadcastReturns
  \/ \E c \in Callers : CallStep(c)
  \/ \E s \in Announcers : Announce(s)
  \/ \E s \in Servers : Answered(s) \/ Failed(s) \/ Canceled(s)
  \/ \E list \in Lists : Update(list)

(* A server may never answer; a cancelled call and wg.Wait go on. *)
DiscFairness == WF_discVars(BroadcastReturns) /\ \A s \in Servers : WF_discVars(Canceled(s))

DiscSpec == DiscInit /\ [][DiscNext]_discVars /\ DiscFairness

-----------------------------------------------------------------------------
(* Whatever replaced the list meanwhile, an address a caller gets is of the *)
(* list at that moment (discovery.go:62-98); the registry's discovery has   *)
(* no ring, and hashing gives an empty address there.                       *)
PickIsListed == [][\A c \in Callers :
  pc[c] = "refreshed" /\ pc'[c] = "picked" /\ bpc' = bpc /\ picked'[c] # Error =>
    \/ picked'[c] \in Range(servers)
    \/ kind = "registry" /\ picked'[c] = NoServer]_discVars

(* An update moves a key away from a server that stays only to a new one    *)
(* (consistent_hash.go:38-69), also where virtual nodes collide.            *)
HashMonotone == [][kind = "manual" /\ servers' # servers =>
  \A k \in Keys :
    LET before == RingGet(ring, k)
        after == RingGet(ring', k)
    IN SameOrder(servers, servers') /\ before \in Range(servers') /\ after \in Range(servers)
       => before = after]_discVars

(* Callers in turn get every server before one comes again, from whatever   *)
(* index the list was entered (discovery.go:84-87).                         *)
RoundRobinFair == \A i, j \in DOMAIN turns :
  i < j /\ j - i < Len(servers) => turns[i] # turns[j]

(* After Refresh the list has only servers the registry heard of within     *)
(* both timeouts and the time its answer was on its way, whatever           *)
(* restarted, failed or was announced meanwhile (registry.go:53-68,         *)
(* discovery_gee.go:47-72).                                                 *)
FreshList == [][\A c \in Callers :
  pc[c] # "refreshed" /\ pc'[c] = "refreshed" /\ source' = "registry" =>
    \A s \in Range(servers') :
      now - heard[s] <= (RegTimeout + UpdTimeout - 2) + (lastUpdate' - listAt')]_discVars

(* A broadcast that returns no error was answered by everyone, and a reply  *)
(* that was asked for is one of the answers (xclient.go:112-139).           *)
BroadcastTruth == bpc = "returned" =>
  /\ err = NoServer => \A s \in targets : out[s] = "ok"
  /\ err = NoServer /\ want /\ targets # {} => reply # NoServer
  /\ reply # NoServer => want /\ out[reply] = "ok"

(* The error a broadcast reports is a server's own, not the cancellation it *)
(* led to, unless the caller ended the calls (xclient.go:127-131).          *)
ErrorIsReal == err # NoServer => out[err] = "failed" \/ gaveUp

(* After the first error, or its caller's end, a broadcast ends, though     *)
(* other servers hang.                                                      *)
ErrorReleases == err # NoServer \/ gaveUp ~> bpc = "returned"
=============================================================================
