----------------------------- MODULE PortLease -----------------------------
(***************************************************************************)
(* What the tunnel servers promise about the public ports of the machine,  *)
(* whatever the timing of logins, stops and lost connections: a port is    *)
(* leased to one holder at a time, it becomes free before anybody else     *)
(* gets it, and a holder is given a lease at most once in its life.        *)
(* TcpTunnel and UdpTunnel are shown to implement this module.             *)
(***************************************************************************)
CONSTANTS
    Holder,     \* who can hold a lease: control connections, or requests
    Resource,   \* what is leased: the public ports
    Nobody      \* the holder of a free resource

VARIABLES
    lease,      \* lease[r]: the holder of r, or Nobody
    served      \* the holders that have been given a lease so far

vars == <<lease, served>>

Init ==
    /\ lease = [r \in Resource |-> Nobody]
    /\ served = {}

Grant(h, r) ==
    /\ lease[r] = Nobody
    /\ h \notin served
    /\ lease' = [lease EXCEPT ![r] = h]
    /\ served' = served \cup {h}

\* Several leases can end at once, as when a process dies.
Release(R) ==
    /\ lease' = [r \in Resource |-> IF r \in R THEN Nobody ELSE lease[r]]
    /\ UNCHANGED served

Next ==
    \/ \E h \in Holder, r \in Resource : Grant(h, r)
    \/ \E R \in SUBSET Resource : Release(R)

Spec == Init /\ [][Next]_vars
=============================================================================
