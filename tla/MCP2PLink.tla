---------------------------- MODULE MCP2PLink ----------------------------
(* The connector of client a leads to the tunnel of client t; b is a client *)
(* whose disconnects are none of their business.                            *)
EXTENDS P2PLink

CONSTANTS a, b, t

MCOwner == [l \in Local |-> a]
=============================================================================
