---------------------------- MODULE MCClientLife ----------------------------
(* A process and its successors.                                            *)
EXTENDS ClientLife

CONSTANTS k1, k2
=============================================================================
