------------------------------ MODULE MCGeeRpc ------------------------------
(* Two calls, which may share a connection, and a second connection.        *)
EXTENDS GeeRpc

CONSTANTS x1, x2, k1, k2
=============================================================================
