-------------------------- MODULE MCGatewaySession --------------------------
(* Two connections of one user, on two gateways; a message to it.           *)
EXTENDS GatewaySession

CONSTANTS u1, u2, bot, c1, c2, g1, g2, m1

MCUsers == {u1, u2}
MCKind == [p \in Payloads |-> "single_chat"]
MCSender == [p \in Payloads |-> u2]
MCAudience == [p \in Payloads |-> {u2}]
MCUserOf == [c \in Conns |-> u2]
MCGatewayOf == [c \in Conns |-> IF c = c2 THEN g2 ELSE g1]
=============================================================================
