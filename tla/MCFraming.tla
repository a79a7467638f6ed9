----------------------------- MODULE MCFraming -----------------------------
(* Four messages with heads of the real size; the bodies, of 5, 12, 6 and  *)
(* 9 bytes, are a little longer than a head, as short as the code's cuts   *)
(* can tell apart.  256 times the shortest is the least misread length.    *)
EXTENDS Framing

MCEnd == [m \in 0..Messages |-> <<0, 9, 25, 35, 48>>[m + 1]]
MCMisread == 256 * 5
=============================================================================
