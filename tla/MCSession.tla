----------------------------- MODULE MCSession -----------------------------
(* Three logins of one client: s1 and s2 reach two workers, s3 the first of *)
(* them again; the run with one worker sends all of them there.             *)
EXTENDS Session

CONSTANTS s1, s2, s3, k, w1, w2

MCClientOf == [s \in Sock |-> k]
MCWorkerOf == [s \in Sock |-> IF s = s2 /\ w2 \in Worker THEN w2 ELSE w1]
=============================================================================
