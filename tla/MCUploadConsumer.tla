-------------------------- MODULE MCUploadConsumer --------------------------
(* A single chat, a group chat with two receivers, an AI chat, a body that  *)
(* does not parse and one of an unknown type; one gateway.                  *)
EXTENDS UploadConsumer

CONSTANTS u1, u2, u3, bot, single, group, ai, garbage, unknown

(* bound: payloads published in a behaviour *)
CONSTANT MaxSent

MCUsers == {u1, u2, u3}
MCKind == [p \in Payloads |->
  CASE p = single -> "single_chat" [] p = group -> "group_chat"
    [] p = ai -> "ai_chat" [] p = garbage -> "garbage" [] OTHER -> "unknown"]
MCSender == [p \in Payloads |-> u1]
MCAudience == [p \in Payloads |->
  CASE p = single -> {u2} [] p = group -> {u1, u2, u3} [] p = ai -> {bot}
    [] OTHER -> {}]

(* No worker reads what gateways update of a row; one receiver comes and    *)
(* goes, the others stay offline.                                           *)
MCNext ==
  \/ LogicStep
  \/ Cardinality(sent) < MaxSent /\ \E p \in Payloads : PublishUpload(p)
  \/ GatewayRoutes /\ (\A u \in Users \ {u2} : route'[u] = route[u]) /\ NoFault
  \/ GatewayAcks

MCSpec == ConsumerInit /\ [][MCNext]_allUploadVars /\ UploadFairness
=============================================================================
