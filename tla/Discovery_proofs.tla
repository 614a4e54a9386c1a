-------------------------- MODULE Discovery_proofs --------------------------
(***************************************************************************)
(* Theorems about service discovery, for every set of servers, keys and    *)
(* callers and every hash function.                                        *)
(***************************************************************************)
EXTENDS Discovery, FiniteSetTheorems, WellFoundedInduction, TLAPS

LEMMA SmallestOfSet ==
  ASSUME NEW S, S \subseteq Nat, S # {}
  PROVE  Smallest(S) \in S /\ \A q \in S : Smallest(S) <= q
<1>1. PICK p \in S : \A q \in S : ~(<<q, p>> \in OpToRel(<, Nat))
  BY NatLessThanWellFounded, WFMin, Zenon
<1>2. \A q \in S : p <= q
  <2>1. OpToRel(<, Nat) = {ss \in Nat \X Nat : ss[1] < ss[2]}
    BY Zenon DEF OpToRel
  <2>2. ASSUME NEW q \in S
        PROVE  ~(<<q, p>> \in {ss \in Nat \X Nat : ss[1] < ss[2]})
    BY <1>1, <2>1, Zenon
  <2>3. ASSUME NEW q \in S
        PROVE  p <= q
    <3>1. <<q, p>> \in Nat \X Nat /\ <<q, p>>[1] = q /\ <<q, p>>[2] = p
      BY <2>3
    <3>2. ~(q < p)
      BY <2>2, <3>1
    <3> QED BY <3>2
  <2> QED BY <2>3
<1> QED BY <1>1, <1>2 DEF Smallest

-----------------------------------------------------------------------------
(* What Add and RingGet compute. *)
LEMMA OwnerIsLast ==
  ASSUME NEW at_ \in [Servers -> SUBSET Nat], NEW list \in Seq(Servers),
         NEW p \in Positions(at_, list)
  PROVE  \E i \in DOMAIN list :
           /\ Owner(at_, list, p) = list[i] /\ p \in at_[list[i]]
           /\ \A j \in DOMAIN list : p \in at_[list[j]] => j <= i
<1> DEFINE Has(i) == p \in at_[list[i]]
           Gaps == {n \in Nat : \E i \in DOMAIN list : Has(i) /\ n = Len(list) - i}
<1>1. DOMAIN list = 1..Len(list) /\ Len(list) \in Nat
  OBVIOUS
<1>2. PICK k \in DOMAIN list : Has(k)
  BY DEF Positions
<1>3. Gaps # {}
  <2>1. Len(list) - k \in Nat
    BY <1>1
  <2>2. Len(list) - k \in Gaps
    BY <1>2, <2>1
  <2> QED BY <2>2
<1> DEFINE g == Smallest(Gaps)
<1>4. g \in Gaps /\ \A n \in Gaps : g <= n
  BY <1>3, SmallestOfSet, Zenon
<1>5. PICK i \in DOMAIN list : Has(i) /\ g = Len(list) - i
  BY <1>4
<1>6. ASSUME NEW j \in DOMAIN list, Has(j)
      PROVE  j <= i
  <2>1. Len(list) - j \in Gaps
    BY <1>1, <1>6
  <2>2. g <= Len(list) - j
    BY <2>1, <1>4
  <2> HIDE DEF g
  <2> QED BY <1>1, <1>5, <2>2
<1> DEFINE Latest(m) == Has(m) /\ \A j \in DOMAIN list : Has(j) => j <= m
           c == CHOOSE m \in DOMAIN list : Latest(m)
<1>7. c \in DOMAIN list /\ Latest(c)
  <2>1. Latest(i)
    BY <1>5, <1>6
  <2> HIDE DEF Latest
  <2> QED BY <2>1
<1>8. Owner(at_, list, p) = list[c]
  BY DEF Owner
<1> QED BY <1>7, <1>8

(* p is met no later than q on the way clockwise from key. *)
Clockwise(key, p, q) ==
  \/ p >= key /\ (q >= key => p <= q)
  \/ p < key /\ q < key /\ p <= q

LEMMA RingGetFirst ==
  ASSUME NEW ring_, DOMAIN ring_ \subseteq Nat, DOMAIN ring_ # {}, NEW key \in Nat
  PROVE  \E p \in DOMAIN ring_ :
           /\ RingGet(ring_, key) = ring_[p]
           /\ \A q \in DOMAIN ring_ : Clockwise(key, p, q)
<1> DEFINE ahead == {p \in DOMAIN ring_ : p >= key}
           p == Smallest(IF ahead = {} THEN DOMAIN ring_ ELSE ahead)
<1>1. RingGet(ring_, key) = ring_[p]
  BY DEF RingGet
<1>2. CASE ahead = {}
  <2>1. p \in DOMAIN ring_ /\ \A q \in DOMAIN ring_ : p <= q
    BY <1>2, SmallestOfSet
  <2> HIDE DEF p
  <2> QED BY <1>1, <1>2, <2>1 DEF Clockwise
<1>3. CASE ahead # {}
  <2>0. ahead \subseteq Nat
    OBVIOUS
  <2>1. p \in ahead /\ \A q \in ahead : p <= q
    <3> HIDE DEF ahead
    <3> QED BY <1>3, <2>0, SmallestOfSet
  <2> HIDE DEF p
  <2> QED BY <1>1, <2>1 DEF Clockwise
<1> QED BY <1>2, <1>3

(* Consistent hashing: from one list to another a key leaves a server that  *)
(* stays only for a server that is new, for any hash function, colliding    *)
(* virtual nodes included.                                                  *)
THEOREM HashConsistent ==
  ASSUME NEW at_ \in [Servers -> SUBSET Nat], NEW key \in Nat,
         NEW old \in Seq(Servers), NEW new \in Seq(Servers)
  PROVE  OnlyNecessaryMoves(at_, old, new, key)
<1> DEFINE R == Add(at_, old)
           S == Add(at_, new)
           before == RingGet(R, key)
           after == RingGet(S, key)
<1> SUFFICES ASSUME SameOrder(old, new),
                    NEW m \in DOMAIN new, new[m] = before,
                    NEW j \in DOMAIN old, old[j] = after
             PROVE  before = after
  BY DEF OnlyNecessaryMoves
<1>1. DOMAIN R = Positions(at_, old) /\ DOMAIN S = Positions(at_, new)
  BY DEF Add
<1>2. DOMAIN R \subseteq Nat /\ DOMAIN S \subseteq Nat
  BY <1>1 DEF Positions
<1>3. before \in Servers /\ after \in Servers
  OBVIOUS
<1>4. DOMAIN R # {} /\ DOMAIN S # {}
  BY <1>3, DiscoveryAssumption DEF RingGet, NoServer
<1>5. PICK p \in DOMAIN R :
        before = R[p] /\ \A q \in DOMAIN R : Clockwise(key, p, q)
  <2> HIDE DEF R
  <2> QED BY <1>2, <1>4, RingGetFirst
<1>6. PICK r \in DOMAIN S :
        after = S[r] /\ \A q \in DOMAIN S : Clockwise(key, r, q)
  <2> HIDE DEF S
  <2> QED BY <1>2, <1>4, RingGetFirst
<1>7. before = Owner(at_, old, p) /\ after = Owner(at_, new, r)
  BY <1>1, <1>5, <1>6 DEF Add
<1>8. PICK i \in DOMAIN old : /\ before = old[i] /\ p \in at_[old[i]]
                              /\ \A k \in DOMAIN old : p \in at_[old[k]] => k <= i
  BY <1>1, <1>7, OwnerIsLast
<1>9. PICK n \in DOMAIN new : /\ after = new[n] /\ r \in at_[new[n]]
                              /\ \A k \in DOMAIN new : r \in at_[new[k]] => k <= n
  BY <1>1, <1>7, OwnerIsLast
<1>10. p \in DOMAIN S /\ r \in DOMAIN R
  BY <1>1, <1>8, <1>9 DEF Positions
<1>11. p = r
  BY <1>2, <1>5, <1>6, <1>10 DEF Clockwise
<1>12. m <= n /\ j <= i
  BY <1>8, <1>9, <1>11
<1>13. n <= m
  BY <1>8, <1>9, <1>12 DEF SameOrder
<1> QED BY <1>9, <1>12, <1>13
-----------------------------------------------------------------------------
(* On a ring with a virtual node a key falls to a server of the list. *)
LEMMA RingGetListed ==
  ASSUME NEW at_ \in [Servers -> (SUBSET Nat) \ {{}}], NEW list \in Seq(Servers),
         list # <<>>, NEW key \in Nat
  PROVE  RingGet(Add(at_, list), key) \in Range(list)
<1> DEFINE R == Add(at_, list)
<1>1. DOMAIN R = Positions(at_, list)
  BY DEF Add
<1>2. at_ \in [Servers -> SUBSET Nat]
  OBVIOUS
<1>3. DOMAIN R \subseteq Nat /\ DOMAIN R # {}
  <2>1. 1 \in DOMAIN list /\ list[1] \in Servers
    OBVIOUS
  <2>2. at_[list[1]] # {}
    BY <2>1
  <2> QED BY <1>1, <2>1, <2>2 DEF Positions
<1>4. PICK p \in DOMAIN R : RingGet(R, key) = R[p]
  <2> HIDE DEF R
  <2> QED BY <1>3, RingGetFirst
<1>5. R[p] = Owner(at_, list, p)
  BY <1>1 DEF Add
<1>6. PICK i \in DOMAIN list : Owner(at_, list, p) = list[i]
  BY <1>1, <1>2, OwnerIsLast
<1> QED BY <1>4, <1>5, <1>6 DEF Range

LEMMA ListsAreSequences ==
  ASSUME NEW S, S \subseteq Servers, NEW list \in SetToSeqs(S)
  PROVE  list \in Seq(Servers)
<1>1. Cardinality(S) \in Nat
  BY DiscoveryAssumption, FS_Subset, FS_CardinalityType
<1>2. list \in [1..Cardinality(S) -> Servers]
  BY DEF SetToSeqs
<1> HIDE DEF SetToSeqs
<1> QED BY <1>1, <1>2

LEMMA ListsTyped == \A list \in Lists : list \in Seq(Servers)
BY ListsAreSequences DEF Lists, SetToAllKPermutations

LEMMA NoListIsList == <<>> \in Lists
<1>1. <<>> \in [1..0 -> {}]
  OBVIOUS
<1>2. <<>> \in SetToSeqs({})
  BY <1>1, FS_EmptySet DEF SetToSeqs
<1> QED BY <1>2 DEF Lists, SetToAllKPermutations

(* What the registry answers with. *)
LEMMA AnswerView ==
  ASSUME DOMAIN registry \subseteq Servers, NEW c \in Callers, RegistryAnswers(c)
  PROVE  /\ answer'.list \in Lists /\ answer'.at = now
         /\ Range(answer'.list) \subseteq AliveServers
<1>1. PICK list \in SetToSeqs(AliveServers) : answer' = [list |-> list, at |-> now]
  BY DEF RegistryAnswers
<1>2. AliveServers \subseteq Servers
  BY DEF AliveServers
<1>3. list \in Lists
  BY <1>2 DEF Lists, SetToAllKPermutations
<1>4. Range(list) \subseteq AliveServers
  BY DEF SetToSeqs, Range
<1> QED BY <1>1, <1>3, <1>4

-----------------------------------------------------------------------------
(* The inductive invariant, in four parts. *)
PcValues == {"idle", "asking", "answered", "refreshed", "picked"}

ListInv ==
  /\ kind \in {"manual", "registry"} /\ at \in Placements
  /\ servers \in Seq(Servers) /\ index \in Nat
  /\ answer.list \in Lists
  /\ kind = "manual" => ring = Add(at, servers)
  /\ kind = "registry" => DOMAIN ring = {}

CallInv ==
  /\ pc \in [Callers -> PcValues]
  /\ picked = [c \in Callers |-> picked[c]]
  /\ \A c, d \in Callers : InRequest(c) /\ InRequest(d) => c = d
  /\ \A c \in Callers : InRequest(c) => kind = "registry"

(* The list of the registry was fresh when the registry sent it, and so is  *)
(* the answer that is on its way.                                           *)
FreshInv ==
  /\ listAt \in Int /\ listAt <= now /\ answer.at \in Int /\ answer.at <= now
  /\ \A s \in Range(answer.list) : answer.at < heard[s] + RegTimeout
  /\ now \in Nat /\ lastUpdate \in Int /\ lastUpdate <= now /\ heard \in [Servers -> Int]
  /\ DOMAIN registry \subseteq Servers
  /\ \A s \in DOMAIN registry : registry[s] \in Int /\ registry[s] <= heard[s]
  /\ source = "registry" =>
       /\ kind = "registry"
       /\ \A s \in Range(servers) : listAt < heard[s] + RegTimeout

(* What the goroutines of a broadcast have noted agrees with what their     *)
(* calls returned.                                                          *)
CastInv ==
  /\ out \in [Servers -> {"none", "waiting", "ok", "failed", "canceled"}]
  /\ targets \subseteq Servers /\ want \in BOOLEAN
  /\ err \in Servers \cup {NoServer} /\ reply \in Servers \cup {NoServer}
  /\ \A s \in Servers : s \in targets <=> out[s] # "none"
  /\ err # NoServer => out[err] = "failed" \/ gaveUp
  /\ err = NoServer => \A s \in Servers : out[s] \notin {"failed", "canceled"}
  /\ reply # NoServer => want /\ out[reply] = "ok"
  /\ want /\ reply = NoServer => \A s \in Servers : out[s] # "ok"
  /\ bpc = "idle" => ~gaveUp /\ \A s \in Servers : out[s] = "none"
  /\ bpc = "returned" => \A s \in Servers : out[s] # "waiting"

DiscInv == ListInv /\ CallInv /\ FreshInv /\ CastInv

LEMMA DiscInvInit == DiscInit => DiscInv
<1> SUFFICES ASSUME DiscInit PROVE DiscInv
  OBVIOUS
<1>1. servers \in Seq(Servers) /\ at \in Placements
  <2>1. CASE kind = "manual"
    BY <2>1, ListsTyped DEF DiscInit
  <2>2. CASE kind = "registry"
    BY <2>2, DiscoveryAssumption DEF DiscInit
  <2> QED BY <2>1, <2>2 DEF DiscInit
<1>2. ListInv
  <2>1. kind = "registry" => DOMAIN ring = {}
    BY DEF DiscInit, Add, Positions
  <2> QED BY <1>1, <2>1, NoListIsList, DiscoveryAssumption DEF DiscInit, ListInv, NoAnswer
<1>3. CallInv
  BY DEF DiscInit, CallInv, PcValues, InRequest
<1>a. FreshInv
  BY DiscoveryAssumption DEF DiscInit, FreshInv, NoAnswer, Range
<1>4. CastInv
  BY DEF DiscInit, CastInv, NoServer
<1> QED BY <1>2, <1>3, <1>a, <1>4 DEF DiscInv

-----------------------------------------------------------------------------
LEMMA ListInvStep ==
  ASSUME DiscInv, DiscNext
  PROVE  ListInv'
<1> USE DEF DiscInv, ListInv
<1>1. ASSUME NEW list \in Lists, Update(list)
      PROVE  ListInv'
  <2>1. list \in Seq(Servers)
    BY ListsTyped
  <2> QED BY <1>1, <2>1 DEF Update, NewList, fixed
<1>2. ASSUME NEW c \in Callers, TakeAnswer(c)
      PROVE  ListInv'
  <2>1. answer.list \in Seq(Servers)
    BY ListsTyped
  <2>2. answer'.list \in Lists
    BY <1>2, NoListIsList DEF TakeAnswer, NoAnswer
  <2>3. servers' = answer.list /\ UNCHANGED <<fixed, index, ring>>
    BY <1>2 DEF TakeAnswer, NewList
  <2>4. kind = "registry"
    BY <1>2 DEF TakeAnswer, CallInv, InRequest
  <2> QED BY <2>1, <2>2, <2>3, <2>4 DEF fixed
<1>3. ASSUME NEW c \in Callers, RegistryAnswers(c)
      PROVE  ListInv'
  <2>1. answer'.list \in Lists
    BY <1>3, AnswerView DEF FreshInv
  <2> QED BY <1>3, <2>1 DEF RegistryAnswers, listVars, fixed
<1>4. ASSUME NEW c \in Callers, PickRoundRobin(c)
      PROVE  ListInv'
  <2>1. Len(servers) \in Nat \ {0}
    BY <1>4 DEF PickRoundRobin
  <2>2. (index + 1) % Len(servers) \in Nat
    BY <2>1
  <2> QED BY <1>4, <2>2 DEF PickRoundRobin, Picked, fixed
<1>5. ASSUME NEW c \in Callers,
             Refresh(c) \/ AskRegistry(c) \/ RefreshFails(c) \/ StartBroadcast(c)
               \/ PickNone(c) \/ PickRandom(c) \/ PickByHash(c)
      PROVE  ListInv'
  BY <1>5, NoListIsList DEF Refresh, AskRegistry, RefreshFails, StartBroadcast, PickNone,
     PickRandom, PickByHash, Picked, NoAnswer, listVars, fixed
<1>6. ASSUME NEW s \in Servers,
             Announce(s) \/ Answered(s) \/ Failed(s) \/ Canceled(s)
      PROVE  ListInv'
  BY <1>6 DEF Announce, Answered, Failed, Canceled, Returns, listVars, fixed
<1>7. CASE Tick \/ RegistryRestart \/ CallerGivesUp \/ BroadcastReturns
  BY <1>7 DEF Tick, RegistryRestart, CallerGivesUp, BroadcastReturns, listVars, fixed
<1> QED
  BY <1>1, <1>2, <1>3, <1>4, <1>5, <1>6, <1>7, DiscoveryAssumption DEF DiscNext, CallStep

(* A caller moves on alone; it begins a request only while none is made.    *)
LEMMA CallerView ==
  ASSUME CallInv, NEW c \in Callers, CallStep(c)
  PROVE  /\ kind' = kind /\ DOMAIN picked' = Callers
         /\ picked' = [d \in Callers |-> picked'[d]]
         /\ \E to \in PcValues :
              /\ pc' = [pc EXCEPT ![c] = to]
              /\ \/ to \in {"refreshed", "picked"}
                 \/ to = "asking" /\ MutexFree /\ kind # "manual"
                 \/ to = "answered" /\ InRequest(c)
<1>1. CASE Refresh(c)
  BY <1>1 DEF Refresh, CallInv, PcValues, fixed
<1>2. CASE AskRegistry(c)
  BY <1>2 DEF AskRegistry, UpToDate, CallInv, PcValues, fixed
<1>3. CASE RegistryAnswers(c)
  BY <1>3 DEF RegistryAnswers, InRequest, CallInv, PcValues, fixed
<1>4. CASE TakeAnswer(c) \/ RefreshFails(c)
  BY <1>4 DEF TakeAnswer, RefreshFails, CallInv, PcValues, fixed
<1>5. CASE StartBroadcast(c)
  BY <1>5 DEF StartBroadcast, CallInv, PcValues, fixed
<1>6. ASSUME NEW a, Picked(c, a)
      PROVE  /\ kind' = kind /\ picked' = [d \in Callers |-> picked'[d]]
             /\ pc' = [pc EXCEPT ![c] = "picked"]
  BY <1>6 DEF Picked, CallInv, fixed
<1>7. CASE PickNone(c) \/ PickRandom(c) \/ PickRoundRobin(c) \/ PickByHash(c)
  <2>1. \E a : Picked(c, a)
    BY <1>7 DEF PickNone, PickRandom, PickRoundRobin, PickByHash
  <2> QED BY <1>6, <2>1 DEF PcValues
<1> QED BY <1>1, <1>2, <1>3, <1>4, <1>5, <1>7 DEF CallStep

LEMMA CallInvStep ==
  ASSUME DiscInv, DiscNext
  PROVE  CallInv'
<1>0. CallInv /\ kind \in {"manual", "registry"}
  BY DEF DiscInv, ListInv
<1>1. ASSUME NEW c \in Callers, CallStep(c)
      PROVE  CallInv'
  <2>1. /\ kind' = kind /\ picked' = [d \in Callers |-> picked'[d]]
    BY <1>0, <1>1, CallerView
  <2>2. PICK to \in PcValues :
          /\ pc' = [pc EXCEPT ![c] = to]
          /\ \/ to \in {"refreshed", "picked"}
             \/ to = "asking" /\ MutexFree /\ kind # "manual"
             \/ to = "answered" /\ InRequest(c)
    BY <1>0, <1>1, CallerView, Zenon
  <2>3. pc' \in [Callers -> PcValues] /\ pc'[c] = to /\ \A d \in Callers \ {c} : pc'[d] = pc[d]
    BY <1>0, <2>2 DEF CallInv
  <2>4. \A d, e \in Callers : InRequest(d)' /\ InRequest(e)' => d = e
    BY <1>0, <2>2, <2>3 DEF CallInv, InRequest, MutexFree
  <2>5. \A d \in Callers : InRequest(d)' => kind' = "registry"
    BY <1>0, <2>1, <2>2, <2>3 DEF CallInv, InRequest
  <2> QED BY <2>1, <2>3, <2>4, <2>5 DEF CallInv
<1>2. UNCHANGED <<callVars, kind>> => CallInv'
  BY <1>0 DEF CallInv, InRequest, callVars
<1>3. ASSUME NEW s \in Servers,
             Announce(s) \/ Answered(s) \/ Failed(s) \/ Canceled(s)
      PROVE  UNCHANGED <<callVars, kind>>
  BY <1>3 DEF Announce, Answered, Failed, Canceled, Returns, fixed
<1>4. ASSUME NEW list \in Lists, Update(list)
      PROVE  UNCHANGED <<callVars, kind>>
  BY <1>4 DEF Update, fixed
<1>5. CASE Tick \/ RegistryRestart \/ CallerGivesUp \/ BroadcastReturns
  BY <1>2, <1>5 DEF Tick, RegistryRestart, CallerGivesUp, BroadcastReturns, fixed
<1> QED BY <1>1, <1>2, <1>3, <1>4, <1>5, DiscoveryAssumption DEF DiscNext

LEMMA FreshInvStep ==
  ASSUME DiscInv, DiscNext
  PROVE  FreshInv'
<1> USE DEF DiscInv, FreshInv
<1>0. RegTimeout \in Nat \ {0}
  BY DiscoveryAssumption
<1>l. Range(servers) \subseteq Servers /\ Range(answer.list) \subseteq Servers
  BY ListsTyped DEF Range, ListInv
<1>1. CASE Tick
  BY <1>1 DEF Tick, listVars, registryVars, fixed
<1>2. ASSUME NEW s \in Announcers, Announce(s)
      PROVE  FreshInv'
  <2>1. s \in Servers
    BY DiscoveryAssumption
  <2>2. \A t \in Servers : heard'[t] = IF t = s THEN now ELSE heard[t]
    BY <1>2, <2>1 DEF Announce, PutServer
  <2>3. /\ heard' \in [Servers -> Int]
        /\ DOMAIN registry' \subseteq Servers
        /\ \A t \in DOMAIN registry' : registry'[t] \in Int /\ registry'[t] <= heard'[t]
    BY <1>2, <2>1, <2>2 DEF Announce, PutServer
  <2>4. \A bound \in Int, t \in Servers :
          bound <= now /\ bound < heard[t] + RegTimeout => bound < heard'[t] + RegTimeout
    BY <1>0, <2>2
  <2>5. \A t \in Range(answer.list) : answer.at < heard'[t] + RegTimeout
    BY <1>l, <2>4
  <2>6. source = "registry" => \A t \in Range(servers) : listAt < heard'[t] + RegTimeout
    BY <1>l, <2>4
  <2> QED BY <1>2, <2>3, <2>5, <2>6 DEF Announce, PutServer, listVars, fixed
<1>3. CASE RegistryRestart
  BY <1>3 DEF RegistryRestart, listVars, fixed
<1>4. ASSUME NEW list \in Lists, Update(list)
      PROVE  FreshInv'
  BY <1>4 DEF Update, registryVars, fixed
<1>5. ASSUME NEW c \in Callers, RegistryAnswers(c)
      PROVE  FreshInv'
  <2>1. /\ answer'.at = now /\ Range(answer'.list) \subseteq AliveServers
        /\ registry' = [s \in AliveServers |-> registry[s]]
        /\ UNCHANGED <<fixed, listVars, heard, now>>
    BY <1>5, AnswerView DEF RegistryAnswers
  <2>2. AliveServers \subseteq DOMAIN registry
    BY DEF AliveServers
  <2>3. \A s \in AliveServers : now < heard[s] + RegTimeout
    BY <1>0 DEF AliveServers
  <2> HIDE DEF AliveServers
  <2> QED BY <2>1, <2>2, <2>3 DEF fixed, listVars
<1>6. ASSUME NEW c \in Callers, TakeAnswer(c)
      PROVE  FreshInv'
  <2>1. kind = "registry"
    BY <1>6 DEF TakeAnswer, CallInv, InRequest
  <2>2. Range(NoAnswer.list) = {} /\ NoAnswer.at = 0
    BY DEF NoAnswer, Range
  <2> QED BY <1>6, <2>1, <2>2 DEF TakeAnswer, NewList, registryVars, fixed
<1>7. ASSUME NEW c \in Callers, RefreshFails(c)
      PROVE  FreshInv'
  <2>1. Range(NoAnswer.list) = {} /\ NoAnswer.at = 0
    BY DEF NoAnswer, Range
  <2> QED BY <1>7, <2>1 DEF RefreshFails, listVars, registryVars, fixed
<1>8. ASSUME NEW c \in Callers,
             Refresh(c) \/ AskRegistry(c) \/ StartBroadcast(c) \/ PickNone(c)
               \/ PickRandom(c) \/ PickRoundRobin(c) \/ PickByHash(c)
      PROVE  FreshInv'
  BY <1>8 DEF Refresh, AskRegistry, StartBroadcast, PickNone, PickRandom, PickRoundRobin,
     PickByHash, Picked, listVars, registryVars, fixed
<1>9. ASSUME NEW s \in Servers, Answered(s) \/ Failed(s) \/ Canceled(s)
      PROVE  FreshInv'
  BY <1>9 DEF Answered, Failed, Canceled, Returns, listVars, registryVars, fixed
<1>10. CASE CallerGivesUp \/ BroadcastReturns
  BY <1>10 DEF CallerGivesUp, BroadcastReturns, listVars, registryVars, fixed
<1> QED
  BY <1>1, <1>2, <1>3, <1>4, <1>5, <1>6, <1>7, <1>8, <1>9, <1>10 DEF DiscNext, CallStep

LEMMA CastInvStep ==
  ASSUME DiscInv, DiscNext
  PROVE  CastInv'
<1> USE DEF DiscInv, CastInv
<1>0. NoServer \notin Servers
  BY DiscoveryAssumption DEF NoServer
<1>1. ASSUME NEW c \in Callers, StartBroadcast(c)
      PROVE  CastInv'
  <2>1. Range(servers) \subseteq Servers
    BY DEF Range, ListInv
  <2>2. err = NoServer /\ (reply # NoServer => FALSE)
    BY <1>1 DEF StartBroadcast, GetAll
  <2> QED BY <1>1, <2>1, <2>2 DEF StartBroadcast, GetAll
<1>2. ASSUME NEW s \in Servers, Answered(s)
      PROVE  CastInv'
  BY <1>0, <1>2 DEF Answered, Returns
<1>3. ASSUME NEW s \in Servers, Failed(s)
      PROVE  CastInv'
  BY <1>0, <1>3 DEF Failed, Returns, NoteError
<1>4. ASSUME NEW s \in Servers, Canceled(s)
      PROVE  CastInv'
  BY <1>0, <1>4 DEF Canceled, Returns, NoteError
<1>5. CASE CallerGivesUp \/ BroadcastReturns
  BY <1>5 DEF CallerGivesUp, BroadcastReturns
<1>6. ASSUME NEW c \in Callers,
             Refresh(c) \/ AskRegistry(c) \/ RegistryAnswers(c) \/ TakeAnswer(c)
               \/ RefreshFails(c) \/ PickNone(c) \/ PickRandom(c)
               \/ PickRoundRobin(c) \/ PickByHash(c)
      PROVE  CastInv'
  BY <1>6 DEF Refresh, AskRegistry, RegistryAnswers, TakeAnswer, RefreshFails, PickNone, PickRandom, PickRoundRobin, PickByHash,
     Picked, castVars
<1>7. CASE UNCHANGED castVars
  BY <1>7 DEF castVars
<1>8. Tick \/ RegistryRestart => UNCHANGED castVars
  BY DEF Tick, RegistryRestart
<1>9. ASSUME NEW s \in Announcers, Announce(s)
      PROVE  UNCHANGED castVars
  BY <1>9 DEF Announce, PutServer
<1>10. ASSUME NEW list \in Lists, Update(list)
       PROVE  UNCHANGED castVars
  BY <1>10 DEF Update
<1> HIDE DEF CastInv
<1> QED
  BY <1>1, <1>2, <1>3, <1>4, <1>5, <1>6, <1>7, <1>8, <1>9, <1>10 DEF DiscNext, CallStep

LEMMA DiscInvStep ==
  ASSUME DiscInv, [DiscNext]_discVars
  PROVE  DiscInv'
<1>1. CASE DiscNext
  BY <1>1, ListInvStep, CallInvStep, FreshInvStep, CastInvStep DEF DiscInv
<1>2. CASE UNCHANGED discVars
  BY <1>2 DEF DiscInv, ListInv, CallInv, FreshInv, CastInv, InRequest, discVars, fixed,
     listVars, registryVars, callVars, castVars
<1> QED BY <1>1, <1>2

LEMMA DiscInvariant == DiscSpec => []DiscInv
BY DiscInvInit, DiscInvStep, PTL DEF DiscSpec

-----------------------------------------------------------------------------
(* An update of the list moves a key away from a server that stays only to  *)
(* a new one, for every hash function.                                      *)
THEOREM DiscHashMonotone == DiscSpec => HashMonotone
<1> DEFINE A == kind = "manual" /\ servers' # servers =>
             \A k \in Keys :
               LET before == RingGet(ring, k)
                   after == RingGet(ring', k)
               IN SameOrder(servers, servers') /\ before \in Range(servers')
                    /\ after \in Range(servers) => before = after
<1>1. DiscInv /\ DiscInv' /\ [DiscNext]_discVars => [A]_discVars
  <2> SUFFICES ASSUME DiscInv, DiscInv', DiscNext, kind = "manual", servers' # servers,
                      NEW k \in Keys, SameOrder(servers, servers'),
                      RingGet(ring, k) \in Range(servers'),
                      RingGet(ring', k) \in Range(servers)
               PROVE  RingGet(ring, k) = RingGet(ring', k)
    OBVIOUS
  <2>1. UNCHANGED fixed
    BY DEF DiscNext, CallStep, Tick, RegistryRestart, CallerGivesUp, BroadcastReturns,
       Refresh, AskRegistry, RegistryAnswers, TakeAnswer, RefreshFails, StartBroadcast,
       PickNone, PickRandom, PickRoundRobin, PickByHash, Picked, Announce, Answered,
       Failed, Canceled, Returns, Update
  <2>2. ring = Add(at, servers) /\ ring' = Add(at, servers')
    BY <2>1 DEF DiscInv, ListInv, fixed
  <2>3. at \in [Servers -> SUBSET Nat] /\ k \in Nat
    BY DiscoveryAssumption DEF DiscInv, ListInv
  <2>4. servers \in Seq(Servers) /\ servers' \in Seq(Servers)
    BY DEF DiscInv, ListInv
  <2>5. OnlyNecessaryMoves(at, servers, servers', k)
    BY <2>3, <2>4, HashConsistent
  <2> QED BY <2>2, <2>5 DEF OnlyNecessaryMoves, Range
<1> QED BY <1>1, DiscInvariant, PTL DEF DiscSpec, HashMonotone

(* An address a caller gets is of the list at that moment, in every mode,   *)
(* the registry's discovery without a ring excepted.                        *)
THEOREM DiscPickIsListed == DiscSpec => PickIsListed
<1> DEFINE A == \A c \in Callers :
             pc[c] = "refreshed" /\ pc'[c] = "picked" /\ bpc' = bpc /\ picked'[c] # Error =>
               \/ picked'[c] \in Range(servers)
               \/ kind = "registry" /\ picked'[c] = NoServer
<1>1. DiscInv /\ [DiscNext]_discVars => [A]_discVars
  <2> SUFFICES ASSUME DiscInv, DiscNext, NEW c \in Callers, pc[c] = "refreshed",
                      pc'[c] = "picked", bpc' = bpc, picked'[c] # Error
               PROVE  \/ picked'[c] \in Range(servers)
                      \/ kind = "registry" /\ picked'[c] = NoServer
    OBVIOUS
  <2>1. PickNone(c) \/ PickRandom(c) \/ PickRoundRobin(c) \/ PickByHash(c)
    <3>1. PICK d \in Callers : CallStep(d)
      BY DEF DiscNext, Tick, RegistryRestart, CallerGivesUp, BroadcastReturns, Announce,
         Answered, Failed, Canceled, Returns, Update, callVars
    <3>2. \E to \in PcValues : pc' = [pc EXCEPT ![d] = to]
      BY <3>1, CallerView, Zenon DEF DiscInv
    <3>3. d = c
      BY <3>2 DEF DiscInv, CallInv
    <3>4. /\ ~Refresh(c) /\ ~AskRegistry(c) /\ ~RegistryAnswers(c) /\ ~TakeAnswer(c)
          /\ ~RefreshFails(c) /\ ~StartBroadcast(c)
      BY DEF Refresh, AskRegistry, RegistryAnswers, TakeAnswer, RefreshFails, InRequest,
         StartBroadcast
    <3> QED BY <3>1, <3>3, <3>4 DEF CallStep
  <2>2. \A a : Picked(c, a) => picked'[c] = a
    BY DEF Picked, DiscInv, CallInv
  <2>3. servers \in Seq(Servers) /\ index \in Nat
    BY DEF DiscInv, ListInv
  <2>4. CASE PickNone(c)
    BY <2>2, <2>4 DEF PickNone
  <2>5. CASE PickRandom(c)
    BY <2>2, <2>5 DEF PickRandom, Range
  <2>6. CASE PickRoundRobin(c)
    <3>1. Len(servers) \in Nat \ {0} /\ DOMAIN servers = 1..Len(servers)
      BY <2>3, <2>6 DEF PickRoundRobin
    <3>2. (index % Len(servers)) + 1 \in DOMAIN servers
      BY <2>3, <3>1
    <3> QED BY <2>2, <2>6, <3>2 DEF PickRoundRobin, Range
  <2>7. CASE PickByHash(c)
    <3>1. PICK k \in Keys : picked'[c] = RingGet(ring, k)
      BY <2>2, <2>7 DEF PickByHash, RoutingKeys
    <3>2. CASE kind = "manual"
      <4>1. at \in [Servers -> (SUBSET Nat) \ {{}}] /\ k \in Nat /\ servers # <<>>
        BY <2>7, DiscoveryAssumption DEF DiscInv, ListInv, PickByHash
      <4>2. ring = Add(at, servers)
        BY <3>2 DEF DiscInv, ListInv
      <4> QED BY <2>3, <3>1, <4>1, <4>2, RingGetListed
    <3>3. CASE kind = "registry"
      BY <3>1, <3>3 DEF DiscInv, ListInv, RingGet
    <3> QED BY <3>2, <3>3 DEF DiscInv, ListInv
  <2> QED BY <2>1, <2>4, <2>5, <2>6, <2>7
<1> QED BY <1>1, DiscInvariant, PTL DEF DiscSpec, PickIsListed

(* The error a broadcast reports is a server's own. *)
THEOREM DiscErrorIsReal == DiscSpec => []ErrorIsReal
<1>1. DiscInv => ErrorIsReal
  BY DEF DiscInv, CastInv, ErrorIsReal
<1> QED BY <1>1, DiscInvariant, PTL

(* No error means that every server answered, and the reply is an answer.   *)
THEOREM DiscBroadcastTruth == DiscSpec => []BroadcastTruth
<1>1. DiscInv => BroadcastTruth
  BY DEF DiscInv, CastInv, BroadcastTruth
<1> QED BY <1>1, DiscInvariant, PTL

(* Whatever the registry and the callers do, and for however long an answer *)
(* is on its way, a refreshed list has no server that was silent for longer *)
(* than both timeouts and that time.                                        *)
THEOREM DiscFreshList == DiscSpec => FreshList
<1> DEFINE A == \A c \in Callers :
             pc[c] # "refreshed" /\ pc'[c] = "refreshed" /\ source' = "registry" =>
               \A s \in Range(servers') :
                 now - heard[s] <= (RegTimeout + UpdTimeout - 2) + (lastUpdate' - listAt')
<1>1. DiscInv /\ DiscInv' /\ [DiscNext]_discVars => [A]_discVars
  <2> SUFFICES ASSUME DiscInv, DiscInv', DiscNext, NEW c \in Callers,
                      pc[c] # "refreshed", pc'[c] = "refreshed", source' = "registry",
                      NEW s \in Range(servers')
               PROVE  now - heard[s]
                        <= (RegTimeout + UpdTimeout - 2) + (lastUpdate' - listAt')
    OBVIOUS
  <2>1. Refresh(c) \/ TakeAnswer(c)
    <3>1. PICK d \in Callers : CallStep(d)
      BY DEF DiscNext, Tick, RegistryRestart, CallerGivesUp, BroadcastReturns, Announce,
         Answered, Failed, Canceled, Returns, Update, callVars
    <3>2. \E to \in PcValues : pc' = [pc EXCEPT ![d] = to]
      BY <3>1, CallerView, Zenon DEF DiscInv
    <3>3. d = c
      BY <3>2 DEF DiscInv, CallInv
    <3>4. /\ ~AskRegistry(c) /\ ~RegistryAnswers(c) /\ ~RefreshFails(c) /\ ~StartBroadcast(c)
          /\ \A a : ~Picked(c, a)
      BY DEF AskRegistry, RegistryAnswers, RefreshFails, StartBroadcast, Picked, DiscInv,
         CallInv
    <3> QED BY <3>1, <3>3, <3>4
         DEF CallStep, PickNone, PickRandom, PickRoundRobin, PickByHash
  <2>2. UNCHANGED <<heard, now, kind>>
    BY <2>1 DEF Refresh, TakeAnswer, registryVars, fixed
  <2>3. kind = "registry" /\ listAt' < heard[s] + RegTimeout /\ listAt' \in Int
        /\ lastUpdate' \in Int
    BY <2>2 DEF DiscInv, FreshInv
  <2>4. lastUpdate' + UpdTimeout > now
    <3>1. CASE Refresh(c)
      BY <2>3, <3>1 DEF Refresh, UpToDate, listVars
    <3>2. CASE TakeAnswer(c)
      BY <3>2, DiscoveryAssumption DEF TakeAnswer, DiscInv, FreshInv
    <3> QED BY <2>1, <3>1, <3>2
  <2>5. s \in Servers
    BY DEF DiscInv, ListInv, Range
  <2>6. heard[s] \in Int /\ now \in Nat /\ {RegTimeout, UpdTimeout} \subseteq Nat \ {0}
    BY <2>5, DiscoveryAssumption DEF DiscInv, FreshInv
  <2> QED BY <2>3, <2>4, <2>6
<1> QED BY <1>1, DiscInvariant, PTL DEF DiscSpec, FreshList

-----------------------------------------------------------------------------
(* Round robin.  The next index, from whatever index a list is entered. *)
LEMMA ModNext ==
  ASSUME NEW a \in Nat, NEW n \in Nat \ {0}
  PROVE  /\ a % n \in 0..n - 1
         /\ (a + 1) % n = IF a % n = n - 1 THEN 0 ELSE (a % n) + 1
<1> DEFINE q == a \div n
           p == (a + 1) \div n
           r == a % n
           s == (a + 1) % n
<1>1. /\ q \in Int /\ r \in 0..n - 1 /\ a = n * q + r
      /\ p \in Int /\ s \in 0..n - 1 /\ a + 1 = n * p + s
  OBVIOUS
<1> HIDE DEF q, p, r, s
<1>2. n * p = n * q + (r + 1 - s)
  BY <1>1
<1>3. PICK d \in Int : p = q + d
  <2>1. p - q \in Int /\ p = q + (p - q)
    BY <1>1
  <2> QED BY <2>1
<1>4. n * d = r + 1 - s
  <2>1. n * p = n * q + n * d
    BY <1>1, <1>3
  <2>2. n * q \in Int /\ n * d \in Int
    BY <1>1
  <2> QED BY <1>1, <1>2, <2>1, <2>2
<1>5. d = 0 \/ d = 1
  <2>1. CASE d < 0
    <3>1. n * d <= -n
      BY <2>1
    <3> QED BY <1>1, <1>4, <3>1
  <2>2. CASE d > 1
    <3>1. n * d >= n + n
      BY <2>2
    <3> QED BY <1>1, <1>4, <3>1
  <2> QED BY <2>1, <2>2
<1>6. s = IF r = n - 1 THEN 0 ELSE r + 1
  BY <1>1, <1>4, <1>5
<1> QED BY <1>1, <1>6 DEF r, s

LEMMA ModSmall ==
  ASSUME NEW n \in Nat \ {0}, NEW r \in 0..n - 1
  PROVE  r % n = r
OBVIOUS

LEMMA ListsHaveNoRepeats ==
  ASSUME NEW list \in Lists
  PROVE  \A i, j \in DOMAIN list : i # j => list[i] # list[j]
<1>1. PICK S \in SUBSET Servers : list \in SetToSeqs(S)
  BY DEF Lists, SetToAllKPermutations
<1> QED BY <1>1 DEF SetToSeqs

(* The index d turns before i in a cycle of n. *)
Back(i, d, n) == IF i >= d THEN i - d ELSE (i - d) + n

(* RoundRobinFair is not inductive: the latest Len(servers) turns are the   *)
(* servers before index in the order of the list, which has no server       *)
(* twice.                                                                   *)
LatestTurns == \A d \in 1..Len(servers) :
  d <= Len(turns) => turns[(Len(turns) + 1) - d] = servers[Back(index, d, Len(servers)) + 1]
TurnInv ==
  /\ turns \in Seq(Servers)
  /\ \A i, j \in DOMAIN servers : i # j => servers[i] # servers[j]
  /\ turns # <<>> => servers # <<>> /\ index \in 0..Len(servers) - 1
  /\ LatestTurns
  /\ RoundRobinFair

LEMMA SameTurns ==
  ASSUME TurnInv, UNCHANGED <<turns, servers, index>>
  PROVE  TurnInv'
BY DEF TurnInv, LatestTurns, RoundRobinFair, Back

LEMMA NewListTurns ==
  ASSUME TurnInv, NEW list \in Lists, NewList(list), UNCHANGED index
  PROVE  TurnInv'
<1>1. CASE list = servers
  BY <1>1, SameTurns DEF NewList
<1>2. CASE list # servers
  <2>1. turns' = <<>> /\ servers' = list
    BY <1>2 DEF NewList
  <2>2. \A i, j \in DOMAIN servers' : i # j => servers'[i] # servers'[j]
    BY <2>1, ListsHaveNoRepeats
  <2>3. servers' \in Seq(Servers)
    BY <2>1, ListsTyped
  <2> QED BY <2>1, <2>2, <2>3 DEF TurnInv, LatestTurns, RoundRobinFair
<1> QED BY <1>1, <1>2

LEMMA NextTurn ==
  ASSUME ListInv, TurnInv, NEW c \in Callers, PickRoundRobin(c)
  PROVE  TurnInv'
<1> DEFINE n == Len(servers)
           m == Len(turns)
           r == index % n
           s == servers[r + 1]
<1>1. /\ servers \in Seq(Servers) /\ turns \in Seq(Servers) /\ index \in Nat
      /\ servers # <<>> /\ UNCHANGED servers
      /\ turns' = Append(turns, s) /\ index' = (index + 1) % n
  BY DEF ListInv, TurnInv, PickRoundRobin, Picked
<1>2. n \in Nat \ {0} /\ m \in Nat /\ DOMAIN servers = 1..n /\ DOMAIN turns = 1..m
  BY <1>1
<1>3. r \in 0..n - 1 /\ index' = IF r = n - 1 THEN 0 ELSE r + 1
  BY <1>1, <1>2, ModNext
<1>4. turns # <<>> => r = index
  BY <1>2, ModSmall DEF TurnInv
<1>5. s \in Servers
  BY <1>1, <1>2, <1>3
<1>6. /\ turns' \in Seq(Servers) /\ turns' # <<>> /\ Len(turns') = m + 1
      /\ DOMAIN turns' = 1..(m + 1)
      /\ turns'[m + 1] = s /\ \A i \in 1..m : turns'[i] = turns[i]
  BY <1>1, <1>2, <1>5
<1>7. \A d \in 1..n : d <= m => turns[(m + 1) - d] = servers[Back(index, d, n) + 1]
  BY DEF TurnInv, LatestTurns
<1>8. \A i, j \in 1..n : i # j => servers[i] # servers[j]
  BY <1>2 DEF TurnInv
<1> HIDE DEF n, m, r, s
<1>9. LatestTurns'
  <2> SUFFICES ASSUME NEW d \in 1..n, d <= m + 1
               PROVE  turns'[(m + 2) - d] = servers[Back(index', d, n) + 1]
    BY <1>1, <1>2, <1>6 DEF LatestTurns, n
  <2>1. CASE d = 1
    <3>1. Back(index', d, n) = r
      BY <1>2, <1>3, <2>1 DEF Back
    <3> QED BY <1>2, <1>6, <2>1, <3>1 DEF s
  <2>2. CASE d # 1
    <3>1. turns # <<>> /\ d - 1 \in 1..n /\ d - 1 <= m
      BY <1>2, <2>2 DEF m
    <3>2. turns[(m + 1) - (d - 1)] = servers[Back(index, d - 1, n) + 1]
      BY <1>7, <3>1
    <3>3. Back(index', d, n) = Back(index, d - 1, n)
      BY <1>2, <1>3, <1>4, <3>1 DEF Back
    <3>4. (m + 1) - (d - 1) = (m + 2) - d /\ (m + 2) - d \in 1..m
      BY <1>2, <3>1
    <3> QED BY <1>6, <3>2, <3>3, <3>4
  <2> QED BY <2>1, <2>2
<1>10. RoundRobinFair'
  <2> SUFFICES ASSUME NEW i \in 1..(m + 1), NEW j \in 1..(m + 1), i < j, j - i < n
               PROVE  turns'[i] # turns'[j]
    BY <1>1, <1>6 DEF RoundRobinFair, n
  <2>1. CASE j <= m
    <3>1. turns[i] # turns[j]
      BY <1>2, <2>1 DEF TurnInv, RoundRobinFair, n
    <3> QED BY <1>2, <1>6, <2>1, <3>1
  <2>2. CASE j = m + 1
    <3>1. turns # <<>> /\ j - i \in 1..n /\ j - i <= m /\ (m + 1) - (j - i) = i /\ i \in 1..m
      BY <1>2, <2>2 DEF m
    <3>2. turns[i] = servers[Back(r, j - i, n) + 1]
      BY <1>4, <1>7, <3>1
    <3>3. /\ Back(r, j - i, n) + 1 \in 1..n /\ r + 1 \in 1..n
          /\ Back(r, j - i, n) + 1 # r + 1
      BY <1>2, <1>3, <3>1 DEF Back
    <3>4. servers[Back(r, j - i, n) + 1] # servers[r + 1]
      BY <1>8, <3>3
    <3> QED BY <1>6, <2>2, <3>1, <3>2, <3>4 DEF s
  <2> QED BY <1>2, <2>1, <2>2
<1>11. servers' # <<>> /\ index' \in 0..Len(servers') - 1
  <2>1. index' \in 0..n - 1
    BY <1>2, <1>3
  <2> QED BY <1>1, <2>1 DEF n
<1> QED BY <1>1, <1>6, <1>9, <1>10, <1>11 DEF TurnInv

LEMMA TurnInvStep ==
  ASSUME DiscInv, TurnInv, [DiscNext]_discVars
  PROVE  TurnInv'
<1>1. ASSUME NEW list \in Lists, Update(list) PROVE TurnInv'
  BY <1>1, NewListTurns DEF Update
<1>2. ASSUME NEW c \in Callers, TakeAnswer(c) PROVE TurnInv'
  BY <1>2, NewListTurns DEF TakeAnswer, DiscInv, ListInv
<1>3. ASSUME NEW c \in Callers, PickRoundRobin(c) PROVE TurnInv'
  BY <1>3, NextTurn DEF DiscInv
<1>4. ASSUME NEW c \in Callers,
             Refresh(c) \/ AskRegistry(c) \/ RegistryAnswers(c) \/ RefreshFails(c)
               \/ StartBroadcast(c) \/ PickNone(c) \/ PickRandom(c) \/ PickByHash(c)
      PROVE  TurnInv'
  BY <1>4, SameTurns DEF Refresh, AskRegistry, RegistryAnswers, RefreshFails, StartBroadcast,
     PickNone, PickRandom, PickByHash, Picked, listVars
<1>5. ASSUME NEW s \in Servers,
             Announce(s) \/ Answered(s) \/ Failed(s) \/ Canceled(s)
      PROVE  TurnInv'
  BY <1>5, SameTurns DEF Announce, Answered, Failed, Canceled, Returns, listVars
<1>6. CASE Tick \/ RegistryRestart \/ CallerGivesUp \/ BroadcastReturns \/ UNCHANGED discVars
  BY <1>6, SameTurns DEF Tick, RegistryRestart, CallerGivesUp, BroadcastReturns, listVars,
     discVars
<1> QED
  BY <1>1, <1>2, <1>3, <1>4, <1>5, <1>6, DiscoveryAssumption DEF DiscNext, CallStep

(* Callers in turn get every server before one comes again, for lists of    *)
(* any length, whatever index the list was entered with.                    *)
THEOREM DiscRoundRobinFair == DiscSpec => []RoundRobinFair
<1>1. DiscInit => TurnInv
  <2> SUFFICES ASSUME DiscInit PROVE TurnInv
    OBVIOUS
  <2>1. \A i, j \in DOMAIN servers : i # j => servers[i] # servers[j]
    <3>1. CASE servers = <<>>
      BY <3>1
    <3>2. CASE servers \in Lists
      BY <3>2, ListsHaveNoRepeats
    <3> QED BY <3>1, <3>2 DEF DiscInit
  <2>2. turns = <<>> /\ servers \in Seq(Servers)
    BY DiscInvInit DEF DiscInit, DiscInv, ListInv
  <2> QED BY <2>1, <2>2 DEF TurnInv, LatestTurns, RoundRobinFair
<1>2. TurnInv => RoundRobinFair
  BY DEF TurnInv
<1> QED BY <1>1, <1>2, DiscInvariant, TurnInvStep, PTL DEF DiscSpec

-----------------------------------------------------------------------------
(* Types.  What a pick returns is an address of the list, the empty address *)
(* of a discovery without ring, or the error.                               *)
ListTypeOK ==
  /\ servers \in Lists /\ index \in Nat /\ lastUpdate \in -UpdTimeout..now
  /\ answer \in [list : Lists, at : 0..now] /\ listAt \in 0..now
  /\ updates \in 0..MaxUpdates
RegistryTypeOK ==
  /\ DOMAIN registry \subseteq Servers /\ now \in 0..MaxTime /\ faults \in 0..MaxFaults
  /\ \A s \in DOMAIN registry : registry[s] \in 0..now /\ heard[s] >= registry[s]
CallTypeOK ==
  /\ pc \in [Callers -> PcValues]
  /\ \A c, d \in Callers : InRequest(c) /\ InRequest(d) => c = d
  /\ picked \in [Callers -> Servers \cup {NoServer, Error}]
CastTypeOK ==
  /\ targets \subseteq Servers /\ want \in BOOLEAN
  /\ out \in [Servers -> {"none", "waiting", "ok", "failed", "canceled"}]
  /\ err \in Servers \cup {NoServer} /\ reply \in Servers \cup {NoServer}
  /\ bpc \in {"idle", "running", "returned"} /\ gaveUp \in BOOLEAN

LEMMA TypeParts ==
  DiscTypeOK <=> /\ kind \in {"manual", "registry"} /\ at \in Placements /\ casting \in BOOLEAN
                 /\ ListTypeOK /\ RegistryTypeOK /\ CallTypeOK /\ CastTypeOK
BY DEF DiscTypeOK, ListTypeOK, RegistryTypeOK, CallTypeOK, CastTypeOK, PcValues

LEMMA PickType ==
  ASSUME DiscInv, DiscTypeOK, NEW c \in Callers,
         PickNone(c) \/ PickRandom(c) \/ PickRoundRobin(c) \/ PickByHash(c)
  PROVE  \E a \in Servers \cup {NoServer, Error} : Picked(c, a)
<1>1. /\ servers \in Seq(Servers) /\ index \in Nat /\ DOMAIN servers = 1..Len(servers)
      /\ \A i \in DOMAIN servers : servers[i] \in Servers
  BY DEF DiscInv, ListInv
<1>2. CASE PickNone(c)
  BY <1>2 DEF PickNone
<1>3. CASE PickRandom(c)
  BY <1>1, <1>3 DEF PickRandom
<1>4. CASE PickRoundRobin(c)
  <2>1. Len(servers) \in Nat \ {0}
    BY <1>1, <1>4 DEF PickRoundRobin
  <2>2. (index % Len(servers)) + 1 \in DOMAIN servers
    BY <1>1, <2>1
  <2> QED BY <1>1, <1>4, <2>2 DEF PickRoundRobin
<1>5. CASE PickByHash(c)
  <2> PICK k \in RoutingKeys : Picked(c, IF k = NoKey THEN Error ELSE RingGet(ring, k))
    BY <1>5 DEF PickByHash
  <2>1. CASE k = NoKey
    BY <2>1
  <2>2. CASE k # NoKey /\ kind = "manual"
    <3>1. at \in [Servers -> (SUBSET Nat) \ {{}}] /\ k \in Nat /\ servers # <<>>
      BY <1>5, <2>2, DiscoveryAssumption DEF DiscInv, ListInv, PickByHash, RoutingKeys
    <3>2. RingGet(ring, k) \in Range(servers)
      BY <1>1, <2>2, <3>1, RingGetListed DEF DiscInv, ListInv
    <3> QED BY <1>1, <2>2, <3>2 DEF Range
  <2>3. CASE k # NoKey /\ kind = "registry"
    <3>1. RingGet(ring, k) = NoServer
      BY <2>3 DEF DiscInv, ListInv, RingGet
    <3> QED BY <2>3, <3>1
  <2> QED BY <2>1, <2>2, <2>3 DEF DiscInv, ListInv
<1> QED BY <1>2, <1>3, <1>4, <1>5

LEMMA CallTypeStep ==
  ASSUME DiscInv, DiscInv', DiscTypeOK, DiscNext
  PROVE  CallTypeOK'
<1>0. pc' \in [Callers -> PcValues] /\ \A c, d \in Callers : InRequest(c)' /\ InRequest(d)' => c = d
  BY DEF DiscInv, CallInv
<1>1. picked \in [Callers -> Servers \cup {NoServer, Error}]
  BY DEF DiscTypeOK
<1>2. UNCHANGED picked => CallTypeOK'
  BY <1>0, <1>1 DEF CallTypeOK
<1>3. ASSUME NEW c \in Callers, NEW a \in Servers \cup {NoServer, Error},
             picked' = [picked EXCEPT ![c] = a]
      PROVE  CallTypeOK'
  BY <1>0, <1>1, <1>3 DEF CallTypeOK
<1>4. ASSUME NEW c \in Callers,
             Refresh(c) \/ AskRegistry(c) \/ RefreshFails(c) \/ StartBroadcast(c)
      PROVE  CallTypeOK'
  <2>1. picked' = [picked EXCEPT ![c] = NoServer] \/ picked' = [picked EXCEPT ![c] = Error]
    BY <1>4 DEF Refresh, AskRegistry, RefreshFails, StartBroadcast
  <2> QED BY <1>3, <2>1
<1>5. ASSUME NEW c \in Callers,
             PickNone(c) \/ PickRandom(c) \/ PickRoundRobin(c) \/ PickByHash(c)
      PROVE  CallTypeOK'
  <2>1. PICK a \in Servers \cup {NoServer, Error} : Picked(c, a)
    BY <1>5, PickType
  <2> QED BY <1>3, <2>1 DEF Picked
<1>6. ASSUME NEW c \in Callers, RegistryAnswers(c) \/ TakeAnswer(c)
      PROVE  UNCHANGED picked
  BY <1>6 DEF RegistryAnswers, TakeAnswer
<1>7. ASSUME NEW s \in Servers, Announce(s) \/ Answered(s) \/ Failed(s) \/ Canceled(s)
      PROVE  UNCHANGED picked
  BY <1>7 DEF Announce, Answered, Failed, Canceled, Returns, callVars
<1>8. ASSUME NEW list \in Lists, Update(list)
      PROVE  UNCHANGED picked
  BY <1>8 DEF Update, callVars
<1>9. Tick \/ RegistryRestart \/ CallerGivesUp \/ BroadcastReturns => UNCHANGED picked
  BY DEF Tick, RegistryRestart, CallerGivesUp, BroadcastReturns, callVars
<1> QED
  BY <1>2, <1>4, <1>5, <1>6, <1>7, <1>8, <1>9, DiscoveryAssumption DEF DiscNext, CallStep

LEMMA DiscTypeStep ==
  ASSUME DiscInv, DiscInv', DiscTypeOK, [DiscNext]_discVars
  PROVE  DiscTypeOK'
<1> USE TypeParts
<1>0. /\ {MaxUpdates, MaxTurns, MaxTime, MaxCastTime, MaxFaults} \subseteq Nat
      /\ {RegTimeout, UpdTimeout} \subseteq Nat \ {0} /\ Announcers \subseteq Servers
      /\ heard \in [Servers -> Int] /\ now \in Nat
  BY DiscoveryAssumption DEF DiscInv, FreshInv
<1>1. CASE UNCHANGED discVars
  BY <1>1 DEF DiscTypeOK, InRequest, discVars, fixed, listVars, registryVars, callVars, castVars
<1>c. DiscNext => CallTypeOK'
  BY CallTypeStep
<1> DEFINE Rest == /\ kind \in {"manual", "registry"} /\ at \in Placements
                   /\ casting \in BOOLEAN
<1>r. Rest /\ ListTypeOK /\ RegistryTypeOK /\ CastTypeOK
  BY DEF DiscTypeOK, ListTypeOK, RegistryTypeOK, CastTypeOK
<1>q. DiscNext /\ Rest' /\ ListTypeOK' /\ RegistryTypeOK' /\ CastTypeOK' => DiscTypeOK'
  BY <1>c DEF DiscTypeOK, ListTypeOK, RegistryTypeOK, CallTypeOK, CastTypeOK, PcValues
<1>f. UNCHANGED fixed => Rest'
  BY <1>r DEF fixed
<1>l. UNCHANGED <<listVars, answer, now>> => ListTypeOK'
  BY <1>r DEF listVars, ListTypeOK
<1>g. UNCHANGED <<registryVars, now, faults>> => RegistryTypeOK'
  BY <1>r DEF registryVars, RegistryTypeOK
<1>b. UNCHANGED castVars => CastTypeOK'
  BY <1>r DEF castVars, CastTypeOK
<1>n. NoAnswer \in [list : Lists, at : 0..now]
  BY <1>0, NoListIsList DEF NoAnswer
<1> HIDE DEF Rest
<1>2. CASE Tick
  <2>1. ListTypeOK' /\ RegistryTypeOK'
    BY <1>0, <1>2, <1>r DEF ListTypeOK, RegistryTypeOK, Tick, listVars, registryVars
  <2> QED BY <1>2, <2>1, <1>q, <1>f, <1>b DEF Tick, DiscNext
<1>3. ASSUME NEW s \in Announcers, Announce(s) PROVE DiscTypeOK'
  <2>1. DOMAIN registry' = DOMAIN registry \cup {s}
    BY <1>3 DEF Announce, PutServer
  <2>2. \A t \in DOMAIN registry' : registry'[t] \in 0..now /\ heard'[t] >= registry'[t]
    BY <1>0, <1>3, <1>r, <2>1 DEF Announce, PutServer, RegistryTypeOK
  <2>3. RegistryTypeOK'
    BY <1>0, <1>3, <1>r, <2>1, <2>2 DEF Announce, RegistryTypeOK
  <2> QED BY <1>3, <2>3, <1>q, <1>f, <1>l, <1>b DEF Announce, DiscNext
<1>4. CASE RegistryRestart
  <2>1. RegistryTypeOK'
    BY <1>0, <1>4, <1>r DEF RegistryRestart, Fault, RegistryTypeOK
  <2> QED BY <1>4, <2>1, <1>q, <1>f, <1>l, <1>b DEF RegistryRestart, DiscNext
<1>5. ASSUME NEW list \in Lists, Update(list) PROVE DiscTypeOK'
  <2>1. ListTypeOK'
    BY <1>0, <1>5, <1>r DEF Update, NewList, ListTypeOK
  <2> QED BY <1>5, <2>1, <1>q, <1>f, <1>g, <1>b DEF Update, DiscNext
<1>6. ASSUME NEW c \in Callers, Refresh(c) \/ AskRegistry(c) PROVE DiscTypeOK'
  BY <1>6, <1>q, <1>f, <1>l, <1>g, <1>b DEF Refresh, AskRegistry, DiscNext, CallStep
<1>7. ASSUME NEW c \in Callers, RegistryAnswers(c) PROVE DiscTypeOK'
  <2>1. AliveServers \subseteq DOMAIN registry
    BY DEF AliveServers
  <2>2. RegistryTypeOK'
    BY <1>7, <1>r, <2>1 DEF RegistryAnswers, RegistryTypeOK
  <2>3. answer' \in [list : Lists, at : 0..now]
    <3>1. answer'.list \in Lists
      BY <1>7, <1>r, AnswerView DEF RegistryTypeOK
    <3>2. PICK list : answer' = [list |-> list, at |-> now]
      BY <1>7 DEF RegistryAnswers
    <3> QED BY <1>0, <3>1, <3>2
  <2>4. ListTypeOK'
    BY <1>7, <1>r, <2>3 DEF RegistryAnswers, ListTypeOK, listVars
  <2> QED BY <1>7, <2>2, <2>4, <1>q, <1>f, <1>b DEF RegistryAnswers, DiscNext, CallStep
<1>8. ASSUME NEW c \in Callers, TakeAnswer(c) PROVE DiscTypeOK'
  <2>1. ListTypeOK'
    BY <1>0, <1>8, <1>r, <1>n DEF TakeAnswer, NewList, ListTypeOK
  <2> QED BY <1>8, <2>1, <1>q, <1>f, <1>g, <1>b DEF TakeAnswer, DiscNext, CallStep
<1>9. ASSUME NEW c \in Callers, RefreshFails(c) PROVE DiscTypeOK'
  <2>1. ListTypeOK'
    BY <1>9, <1>r, <1>n DEF RefreshFails, ListTypeOK, listVars
  <2>2. RegistryTypeOK'
    BY <1>0, <1>9, <1>r DEF RefreshFails, Fault, RegistryTypeOK, registryVars
  <2> QED BY <1>9, <2>1, <2>2, <1>q, <1>f, <1>b DEF RefreshFails, DiscNext, CallStep
<1>10. ASSUME NEW c \in Callers,
              PickNone(c) \/ PickRandom(c) \/ PickRoundRobin(c) \/ PickByHash(c)
       PROVE  DiscTypeOK'
  <2>1. PICK a : Picked(c, a)
    BY <1>10 DEF PickNone, PickRandom, PickRoundRobin, PickByHash
  <2>2. index' \in Nat
    BY DEF DiscInv, ListInv
  <2>3. ListTypeOK'
    BY <1>r, <2>1, <2>2 DEF Picked, ListTypeOK
  <2> QED BY <1>10, <2>1, <2>3, <1>q, <1>f, <1>g, <1>b DEF Picked, DiscNext, CallStep
<1>11. ASSUME NEW c \in Callers, StartBroadcast(c) PROVE DiscTypeOK'
  <2>1. GetAll \subseteq Servers
    BY DEF GetAll, Range, DiscInv, ListInv
  <2>2. CastTypeOK'
    BY <1>11, <1>r, <2>1 DEF StartBroadcast, CastTypeOK
  <2> QED BY <1>11, <2>2, <1>q, <1>f, <1>l, <1>g DEF StartBroadcast, DiscNext, CallStep
<1>12. ASSUME NEW s \in Servers, Answered(s) \/ Failed(s) \/ Canceled(s) PROVE DiscTypeOK'
  <2>1. CastTypeOK'
    BY <1>12, <1>r DEF Answered, Failed, Canceled, Returns, NoteError, CastTypeOK
  <2> QED BY <1>12, <2>1, <1>q, <1>f, <1>l, <1>g
       DEF Answered, Failed, Canceled, Returns, DiscNext
<1>13. CASE CallerGivesUp \/ BroadcastReturns
  <2>1. CastTypeOK'
    BY <1>13, <1>r DEF CallerGivesUp, BroadcastReturns, CastTypeOK
  <2> QED BY <1>13, <2>1, <1>q, <1>f, <1>l, <1>g DEF CallerGivesUp, BroadcastReturns, DiscNext
<1> QED
  BY <1>1, <1>2, <1>3, <1>4, <1>5, <1>6, <1>7, <1>8, <1>9, <1>10, <1>11, <1>12, <1>13
  DEF DiscNext, CallStep

(* The discovery, the registry, the callers and the broadcast keep their    *)
(* types; an announcement the registry holds was heard.                     *)
THEOREM DiscTypeCorrect == DiscSpec => []DiscTypeOK
<1>1. DiscInit => DiscTypeOK
  <2> SUFFICES ASSUME DiscInit PROVE DiscTypeOK
    OBVIOUS
  <2>1. servers \in Lists
    <3>1. CASE servers = <<>>
      BY <3>1, NoListIsList
    <3> QED BY <3>1 DEF DiscInit
  <2>2. at \in Placements /\ kind \in {"manual", "registry"} /\ index \in Nat
    BY DiscInvInit DEF DiscInv, ListInv
  <2>3. ListTypeOK /\ RegistryTypeOK
    BY <2>1, <2>2, NoListIsList, DiscoveryAssumption
    DEF DiscInit, ListTypeOK, RegistryTypeOK, NoAnswer
  <2>4. CallTypeOK /\ CastTypeOK
    BY DEF DiscInit, CallTypeOK, CastTypeOK, PcValues, InRequest
  <2> QED BY <2>2, <2>3, <2>4, TypeParts DEF DiscInit
<1> QED BY <1>1, DiscInvariant, DiscTypeStep, PTL DEF DiscSpec
=============================================================================
