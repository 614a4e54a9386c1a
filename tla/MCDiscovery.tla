---------------------------- MODULE MCDiscovery -----------------------------
(* Three servers on a ring of five positions: placements without a common   *)
(* position, with two servers on one, and with one server between another's *)
(* virtual nodes.                                                           *)
EXTENDS Discovery

MCPlacements ==
  {<<{0, 2}, {1}, {3, 4}>>, <<{1, 3}, {1, 4}, {3}>>, <<{2}, {2}, {2, 4}>>}
=============================================================================
