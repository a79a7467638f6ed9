------------------------------ MODULE MCUdpPath ------------------------------
(* Two versions of a row with the ports p1 and p2, the two sessions s1 and   *)
(* s2 of its client one after the other, and another client at s3, whose     *)
(* tunnel x gets p1 when this one does not have it. Foreign depends on       *)
(* TunnelOf, so MCTunnelOf is written with the request of x itself.          *)
EXTENDS UdpPath, TLC

CONSTANTS t, x, s1, s2, s3, p1, p2, other

MCAsk == [q \in {"create", "stop"} \X Version \X Own |-> q]
MCOthers == {<<other>>}
MCCreate == ({"create"} \X Version \X Own) \cup MCOthers
MCStop == {"stop"} \X Version \X Own
MCSockOf == [r \in Create \cup Stop |-> IF r \in MCOthers THEN s3 ELSE r[3]]
MCTunnelOf == [r \in Create \cup Stop |-> IF r \in MCOthers THEN x ELSE t]
MCPortOf == [r \in Create |-> IF r = <<other>> \/ r[2] = 1 THEN p1 ELSE p2]
=============================================================================
