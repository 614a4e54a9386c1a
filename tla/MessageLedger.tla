--------------------------- MODULE MessageLedger ----------------------------
(***************************************************************************)
(* What the message path promises, without queues, workers or redelivery:  *)
(* a message a gateway accepted is filed as copies for its addressees, a   *)
(* copy is offered to a gateway at most once and only after it is filed,   *)
(* and the message is closed when every addressee has a copy.  A mishap    *)
(* somewhere may delay all this forever; the one thing it may spoil is     *)
(* that a member of a group goes without a copy.                           *)
(*                                                                         *)
(* A copy is a tuple that starts with its message and its addressee; there *)
(* may be several for them, since a group can be filed again.              *)
(***************************************************************************)
EXTENDS Naturals

CONSTANTS
  Payloads,     \* messages
  Groups,       \* those to a group
  Addressees    \* whom a message has to reach

VARIABLES
  accepted, filed, offered, closed,
  mishaps       \* failures so far

ledgerVars == <<accepted, filed, offered, closed, mishaps>>

MessageOf(id) == id[1]
AddresseeOf(id) == id[2]

LedgerInit ==
  /\ accepted = {} /\ filed = {} /\ offered = {} /\ closed = {}
  /\ mishaps = 0

Accept(p) ==
  /\ accepted' = accepted \cup {p}
  /\ UNCHANGED <<filed, offered, closed>>

(* A copy is filed for an addressee of a message that is still open. *)
File(p) ==
  /\ p \in accepted \ closed
  /\ \E id \in filed' :
       /\ MessageOf(id) = p /\ AddresseeOf(id) \in Addressees[p]
       /\ filed' = filed \cup {id}
  /\ UNCHANGED <<accepted, offered, closed>>

Offer(p) ==
  /\ p \in accepted \ closed
  /\ \E id \in filed \ offered :
       /\ MessageOf(id) = p
       /\ offered' = offered \cup {id}
  /\ UNCHANGED <<accepted, filed, closed>>

Close(p) ==
  /\ p \in accepted \ closed
  /\ \/ \A u \in Addressees[p] :
          \E id \in filed : MessageOf(id) = p /\ AddresseeOf(id) = u
     \/ p \in Groups /\ mishaps > 0
  /\ closed' = closed \cup {p}
  /\ UNCHANGED <<accepted, filed, offered>>

LedgerNext ==
  /\ mishaps <= mishaps'
  /\ \/ \E p \in Payloads : Accept(p) \/ File(p) \/ Offer(p) \/ Close(p)
     \/ UNCHANGED <<accepted, filed, offered, closed>>

LedgerSpec == LedgerInit /\ [][LedgerNext]_ledgerVars
=============================================================================
