----------------------------- MODULE MCAccounts -----------------------------
(* Two registrations for one username and different addresses, and in the   *)
(* account of r1 two adds, an update and a delete.  The ids run over the    *)
(* end of the network, or over the bound of getVirtualIp.                   *)
EXTENDS Accounts, TLC

CONSTANTS r1, r2, a1, a2, m, d, D1, D2, D3

MCUsername == [r \in Register |-> "user"]
MCEmail == [r \in Register |-> r]
MCUserOf == [r \in Page |-> r1]
MCNameOf == [r \in Add \cup Update |-> IF r = a1 THEN D2 ELSE D3]
MCStart == {16777211, 184549373}
MCId == UNION {i .. (i + 3) : i \in MCStart}
=============================================================================
