----------------------------- MODULE MCImSystem -----------------------------
(* One gateway, one message.  Either u1 writes to u2 and each has a         *)
(* connection, or u2 writes to itself and has two, of which one replaces    *)
(* the other as sender and as receiver.                                     *)
EXTENDS ImSystem

CONSTANTS u1, u2, bot, cs, c1, c2, g1, m1

MCUsers == {u1, u2}
MCKind == [p \in Payloads |-> "single_chat"]
MCAudience == [p \in Payloads |-> {u2}]
MCSender == [p \in Payloads |-> u1]
SelfSender == [p \in Payloads |-> u2]
MCUserOf == [c \in Conns |-> IF c = cs THEN u1 ELSE u2]
MCGatewayOf == [c \in Conns |-> g1]
=============================================================================
