---------------------------- MODULE MCTcpVisitor ----------------------------
(* Three visitors of two clients and two middle port numbers, so that a     *)
(* number is given out again while an old announcement of it is under way.  *)
EXTENDS TcpVisitor, TLC

CONSTANTS a, b, v1, v2, v3, m1, m2

MCHomeOf == [v \in Visitor |-> IF v = v1 THEN a ELSE b]
MCSymmetry == Permutations({m1, m2}) \cup Permutations({v2, v3})
=============================================================================
