--------------------------- MODULE ConsistentHash ---------------------------
(***************************************************************************)
(* The hash ring of pkg/geeRPC/xclient/consistent_hash.go.  The hash       *)
(* function is a parameter: at[s] are the positions of server s's virtual  *)
(* nodes, a key is its own position.  Servers are numbers from 1 in the    *)
(* order of their addresses; the empty address is NoServer.                *)
(***************************************************************************)
EXTENDS Naturals, Sequences

NoServer == 0

(* Two servers may meet on one position: hashMap keeps the one added last.  *)
Owner(at, list, p) ==
  LET i == CHOOSE i \in DOMAIN list :
             /\ p \in at[list[i]]
             /\ \A j \in DOMAIN list : p \in at[list[j]] => j <= i
  IN list[i]

Positions(at, list) == UNION {at[list[i]] : i \in DOMAIN list}

(* Slip: a virtual node is named after its place in the list, not after     *)
(* its server.                                                              *)
AddByIndex(at, list) == [p \in Positions(at, [i \in DOMAIN list |-> i]) |->
                           Owner([s \in {list[i] : i \in DOMAIN list} |->
                                    at[CHOOSE i \in DOMAIN list : list[i] = s]], list, p)]

(* New and Add: keys and hashMap in one, position -> server. *)
Add(at, list) == [p \in Positions(at, list) |-> Owner(at, list, p)]

Smallest(S) == CHOOSE p \in S : \A q \in S : p <= q

(* The first position clockwise, wrapping at the end of the ring. *)
RingGet(ring, key) ==
  LET ahead == {p \in DOMAIN ring : p >= key}
  IN IF DOMAIN ring = {} THEN NoServer
     ELSE ring[Smallest(IF ahead = {} THEN DOMAIN ring ELSE ahead)]

(* The servers two lists share are in the same order in both. *)
SameOrder(old, new) ==
  \A i, j \in DOMAIN old : \A m, n \in DOMAIN new :
    old[i] = new[m] /\ old[j] = new[n] /\ i <= j => m <= n

(* Consistency: from one list to another a key leaves a server that stays   *)
(* only for a server that is new.                                           *)
OnlyNecessaryMoves(at, old, new, key) ==
  LET before == RingGet(Add(at, old), key)
      after == RingGet(Add(at, new), key)
  IN /\ SameOrder(old, new)
     /\ \E i \in DOMAIN new : new[i] = before
     /\ \E i \in DOMAIN old : old[i] = after
     => before = after
=============================================================================
