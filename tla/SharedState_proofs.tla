------------------------ MODULE SharedState_proofs ------------------------
(* Lemmas about the operations on the table of messages, and about faults.  *)
EXTENDS SharedState, TLAPS

(* What the operations on the table leave of its type and its keys.   *)
LEMMA InsertType ==
  ASSUME SharedTypeOK, NEW id \in CopyIds, NEW b \in BOOLEAN, InsertMessage(id, b)
  PROVE  /\ DOMAIN rows' \subseteq CopyIds
         /\ rows' \in [DOMAIN rows' -> Row]
         /\ DOMAIN rows' = DOMAIN rows \cup {id}
BY DEF SharedTypeOK, InsertMessage, Stored, NewMessages, Row, Unsent

LEMMA ConfirmType ==
  ASSUME SharedTypeOK, NEW ids, Confirm(ids)
  PROVE  /\ DOMAIN rows' \subseteq CopyIds
         /\ rows' \in [DOMAIN rows' -> Row]
         /\ DOMAIN rows' = DOMAIN rows
BY DEF SharedTypeOK, Confirm, Stored, Row, SentConfirmed

LEMMA DeliveredType ==
  ASSUME SharedTypeOK, NEW id, MarkSendTransportDelivered(id)
  PROVE  /\ DOMAIN rows' \subseteq CopyIds
         /\ rows' \in [DOMAIN rows' -> Row]
         /\ DOMAIN rows' = DOMAIN rows
BY DEF SharedTypeOK, MarkSendTransportDelivered, Stored, Row, SentUnconfirmed

LEMMA FaultType ==
  ASSUME faults \in 0..MaxFaults, Fault \/ NoFault
  PROVE  faults' \in 0..MaxFaults
BY FaultAssumption DEF Fault, NoFault
=============================================================================
