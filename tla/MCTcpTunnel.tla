---------------------------- MODULE MCTcpTunnel ----------------------------
(* An instance of TcpTunnel for TLC: c1 and c2 are two logins for the same  *)
(* tunnel t1, the second one a client that was started again, or another    *)
(* process with the same key.                                               *)
EXTENDS TcpTunnel

CONSTANTS c1, c2, t1, p1, p2

MCTunnelOf == [c \in Conn |-> t1]
=============================================================================
