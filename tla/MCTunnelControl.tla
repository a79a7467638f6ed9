--------------------------- MODULE MCTunnelControl ---------------------------
(* Two tunnels, t1 under update and deletion, t2 being added.  The row of   *)
(* t1, if it is there, is A with K.  It has nothing in common with the add  *)
(* of D and L but the name.  The update gives t1 another name, and either   *)
(* the port, the local address or the uniqueName that the add wants; the    *)
(* port is free again when t1 is deleted.  Two instances are enough for two *)
(* tunnels, or for one that is replaced.                                    *)
EXTENDS TunnelControl, TLC

CONSTANTS t1, t2, p1, p2, l1, l2, n1, n2, v1, v2, a1, u1, d1, i1, i2

A == [port |-> p1, local |-> l1]
B == [port |-> p2, local |-> l1]
C == [port |-> p1, local |-> l2]
D == [port |-> p2, local |-> l2]

K == [name |-> n1, unique |-> v1]
L == [name |-> n1, unique |-> v2]
M == [name |-> n2, unique |-> v1]
N == [name |-> n2, unique |-> v2]

MCSetting == {A, B, C, D}
MCNaming == {K, L, M, N}
MCTunnelOf == [r \in Request |-> IF r = a1 THEN t2 ELSE t1]
MCFirst == [t \in Tunnel |-> IF t = t1 THEN {<<A, K>>} ELSE {}]
MCForms == [r \in Add \cup Update |->
               IF r = a1 THEN {<<D, L>>} ELSE {<<B, M>>, <<C, M>>, <<A, N>>}]
MCSymmetry == Permutations(Inst)
=============================================================================
