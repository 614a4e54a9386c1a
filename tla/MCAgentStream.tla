--------------------------- MODULE MCAgentStream ----------------------------
(* agent: two questions of one user, one answered with up to two frames of  *)
(* any text and one with a frame of plain text, a channel of one frame, a   *)
(* session of one entry, one failure, and a limiter that lets one question  *)
(* through per two instants, with a script that may run an instant after    *)
(* the clock was read.  agent_offline: the first of the two on its own.     *)
EXTENDS AgentStream

CONSTANTS q1, q2
=============================================================================
