-------------------------- MODULE UdpTunnelProofs --------------------------
(***************************************************************************)
(* Proofs about UdpTunnel, for every set of sockets and requests: the      *)
(* types, how a server can be orphaned, and that the ports are leases in   *)
(* the sense of PortLease; and about UdpPath, for every number of versions *)
(* and sessions: that it is UdpTunnel with a client, its types, that the   *)
(* newest instance has its listener, and that, one thing after the other,  *)
(* everything mirrors the row and visitors reach their own service.        *)
(***************************************************************************)
EXTENDS UdpPath, TLAPS

\* Two servers with a port have two ports.
PortsDiffer ==
    \A q, r \in Create : (Bound(q) /\ Bound(r) /\ PortOf[q] = PortOf[r]) => q = r

\* A server object is what the handler of its request leaves.
ServerAfterStart == \A r \in Create : server[r] # "none" => handler[r] = "done"

IInv == TypeOK /\ PortsDiffer /\ ServerAfterStart

\* The inductive invariant holds at first.
LEMMA IInvInit == Init => IInv
BY DEF Init, IInv, TypeOK, PortsDiffer, ServerAfterStart, Bound

\* Closing servers keeps the types and frees ports.
LEMMA CloseKeeps ==
  ASSUME IInv, NEW R, Close(R)
  PROVE  /\ server' \in [Create -> {"none", "bound", "failed", "closed"}]
         /\ PortsDiffer'
         /\ \A r \in Create : server'[r] # "none" => server[r] # "none"
         /\ \A r \in Create : Bound(r)' <=> Bound(r) /\ r \notin R
BY DEF IInv, TypeOK, PortsDiffer, Close, Bound

\* Every step of the server keeps the inductive invariant.
LEMMA IInvStep == IInv /\ [Next]_vars => IInv'
<1> SUFFICES ASSUME IInv, [Next]_vars PROVE IInv'
  OBVIOUS
<1> USE RequestAssumption DEF IInv, TypeOK, ServerAfterStart
<1>1. ASSUME NEW r \in Create \cup Stop, Request(r) \/ Answer(r) PROVE IInv'
  BY <1>1 DEF Request, Answer, PortsDiffer, Bound
<1>2. ASSUME NEW r \in Create, Start(r) PROVE IInv'
  <2>1. TypeOK'
    BY <1>2 DEF Start
  <2>2. PortsDiffer'
    BY <1>2 DEF Start, PortsDiffer, PortFree, Bound
  <2>3. ServerAfterStart'
    BY <1>2 DEF Start
  <2>4. QED
    BY <2>1, <2>2, <2>3
<1>3. ASSUME NEW r \in Stop, StopServer(r) PROVE IInv'
  BY <1>3, CloseKeeps DEF StopServer
<1>4. ASSUME NEW s \in Sock, Connect(s) PROVE IInv'
  BY <1>4 DEF Connect, PortsDiffer, Bound
<1>5. ASSUME NEW s \in Sock, Disconnect(s) PROVE IInv'
  BY <1>5, CloseKeeps DEF Disconnect
<1>6. CASE Restart
  BY <1>6, CloseKeeps DEF Restart
<1>7. CASE UNCHANGED vars
  BY <1>7 DEF vars, PortsDiffer, Bound
<1>8. QED
  BY <1>1, <1>2, <1>3, <1>4, <1>5, <1>6, <1>7 DEF Next

\* The inductive invariant holds in every reachable state.
THEOREM Invariance == Spec => []IInv
BY IInvInit, IInvStep, PTL DEF Spec

\* In every reachable state the variables have their types.
THEOREM Typing == Spec => []TypeOK
<1>1. IInv => TypeOK
  BY DEF IInv
<1>2. QED
  BY Invariance, <1>1, PTL

\* A server is orphaned only by a request that comes back too late: a
\* disconnect stops every server that was made with its socket.
THEOREM OrphansAreLate == Spec => OrphanOnlyWhenLate
<1> DEFINE P == \A r \in Create : (Orphaned(r)' /\ ~Orphaned(r)) =>
                   handler[r] = "found" /\ sock[SockOf[r]] # "up"
<1>1. IInv /\ [Next]_vars => [P]_vars
  <2> SUFFICES ASSUME IInv, Next, NEW x \in Create, Orphaned(x)', ~Orphaned(x)
               PROVE  handler[x] = "found" /\ sock[SockOf[x]] # "up"
    OBVIOUS
  <2> USE RequestAssumption DEF IInv, TypeOK, Orphaned, Bound
  <2>1. ASSUME NEW r \in Create \cup Stop, Request(r) \/ Answer(r) PROVE FALSE
    BY <2>1 DEF Request, Answer
  <2>2. ASSUME NEW r \in Create, Start(r)
        PROVE  handler[x] = "found" /\ sock[SockOf[x]] # "up"
    BY <2>2 DEF Start
  <2>3. ASSUME NEW r \in Stop, StopServer(r) PROVE FALSE
    BY <2>3 DEF StopServer, Close
  <2>4. ASSUME NEW s \in Sock, Connect(s) PROVE FALSE
    BY <2>4 DEF Connect
  <2>5. ASSUME NEW s \in Sock, Disconnect(s) PROVE FALSE
    BY <2>5 DEF Disconnect, Close
  <2>6. CASE Restart
    BY <2>6 DEF Restart, Close
  <2>7. QED
    BY <2>1, <2>2, <2>3, <2>4, <2>5, <2>6 DEF Next
<1>2. QED
  BY Invariance, <1>1, PTL DEF Spec, OrphanOnlyWhenLate

-----------------------------------------------------------------------------
(* UdpTunnel implements PortLease                                          *)

Served == {r \in Create : server[r] \in {"bound", "closed"}}
LeaseMap == [p \in Port |-> HolderOf(p)]

\* A server that gets its port takes out a lease.
LEMMA StartGrants ==
  ASSUME IInv, NEW r \in Create, Start(r)
  PROVE  [Lease!Next]_(Lease!vars)
<1> USE RequestAssumption DEF IInv, TypeOK
<1>1. PortOf[r] \in Port /\ server[r] = "none"
  BY DEF Start, ServerAfterStart
<1>2. CASE PortFree(PortOf[r])
  <2>1. server' = [server EXCEPT ![r] = "bound"]
    BY <1>2 DEF Start
  <2>2. HolderOf(PortOf[r]) = Nobody
    BY <1>2 DEF PortFree, HolderOf
  <2>3. HolderOf(PortOf[r])' = r
    <3>1. \A q \in Create : (Bound(q) /\ PortOf[q] = PortOf[r])' <=> q = r
      BY <1>2, <2>1 DEF PortFree, Bound
    <3>2. QED
      BY <3>1 DEF HolderOf
  <2>4. \A p \in Port : p # PortOf[r] => HolderOf(p)' = HolderOf(p)
    <3> SUFFICES ASSUME NEW p \in Port, p # PortOf[r] PROVE HolderOf(p)' = HolderOf(p)
      OBVIOUS
    <3>1. \A q \in Create : (Bound(q) /\ PortOf[q] = p)' <=> (Bound(q) /\ PortOf[q] = p)
      BY <2>1 DEF Bound
    <3>2. QED
      BY <3>1 DEF HolderOf
  <2>5. LeaseMap' = [LeaseMap EXCEPT ![PortOf[r]] = r]
    BY <1>1, <2>3, <2>4 DEF LeaseMap
  <2>6. r \notin Served /\ Served' = Served \cup {r}
    BY <1>1, <2>1 DEF Served
  <2>7. LeaseMap[PortOf[r]] = Nobody
    BY <1>1, <2>2 DEF LeaseMap
  <2>8. Lease!Grant(r, PortOf[r])
    BY <2>5, <2>6, <2>7 DEF Lease!Grant, LeaseMap, Served
  <2>9. QED
    BY <1>1, <2>8 DEF Lease!Next
<1>3. CASE ~PortFree(PortOf[r])
  <2>1. server' = [server EXCEPT ![r] = "failed"]
    BY <1>3 DEF Start
  <2>2. \A q \in Create : Bound(q)' <=> Bound(q)
    BY <1>1, <2>1 DEF Bound
  <2>3. \A p : HolderOf(p)' = HolderOf(p)
    BY <2>2 DEF HolderOf
  <2>4. Served' = Served
    BY <1>1, <2>1 DEF Served
  <2>5. QED
    BY <2>3, <2>4 DEF Lease!vars, Served
<1>4. QED
  BY <1>2, <1>3

\* Servers that are closed give back their leases, and no others.
LEMMA CloseReleases ==
  ASSUME IInv, NEW R, Close(R)
  PROVE  [Lease!Next]_(Lease!vars)
<1> DEFINE Freed == {p \in Port : \E r \in R \cap Create : Bound(r) /\ PortOf[r] = p}
<1>1. \A r \in Create : Bound(r)' <=> Bound(r) /\ r \notin R
  BY CloseKeeps
<1>2. ASSUME NEW p \in Freed PROVE HolderOf(p)' = Nobody
  <2>1. \A r \in Create : ~(Bound(r) /\ PortOf[r] = p)'
    BY <1>1, <1>2 DEF IInv, PortsDiffer
  <2>2. QED
    BY <2>1 DEF HolderOf
<1>3. ASSUME NEW p \in Port \ Freed PROVE HolderOf(p)' = HolderOf(p)
  <2>1. \A r \in Create : (Bound(r) /\ PortOf[r] = p)' <=> (Bound(r) /\ PortOf[r] = p)
    BY <1>1, <1>3
  <2>2. QED
    BY <2>1 DEF HolderOf
<1>4. LeaseMap' = [p \in Port |-> IF p \in Freed THEN Nobody ELSE LeaseMap[p]]
  BY <1>2, <1>3 DEF LeaseMap
<1>5. Served' = Served
  BY DEF Served, Close, Bound, IInv, TypeOK
<1>6. Lease!Release(Freed)
  BY <1>4, <1>5 DEF Lease!Release, LeaseMap, Served
<1>7. QED
  BY <1>6 DEF Lease!Next

\* A step that leaves the servers alone is a stutter.
LEMMA SameServersSameLeases ==
  ASSUME UNCHANGED server
  PROVE  UNCHANGED Lease!vars
BY DEF Lease!vars, HolderOf, Bound

\* The UDP tunnels implement PortLease.
THEOREM ImplementsPortLease == Spec => UdpPortsAreLeases
<1>1. Init => Lease!Init
  BY DEF Init, Lease!Init, HolderOf, Bound
<1>2. IInv /\ [Next]_vars => [Lease!Next]_(Lease!vars)
  <2> SUFFICES ASSUME IInv, [Next]_vars PROVE [Lease!Next]_(Lease!vars)
    OBVIOUS
  <2>1. ASSUME NEW r \in Create \cup Stop, Request(r) \/ Answer(r)
        PROVE  UNCHANGED Lease!vars
    BY <2>1, SameServersSameLeases DEF Request, Answer
  <2>2. ASSUME NEW r \in Create, Start(r) PROVE [Lease!Next]_(Lease!vars)
    BY <2>2, StartGrants
  <2>3. ASSUME NEW r \in Stop, StopServer(r) PROVE [Lease!Next]_(Lease!vars)
    BY <2>3, CloseReleases DEF StopServer
  <2>4. ASSUME NEW s \in Sock, Connect(s) PROVE UNCHANGED Lease!vars
    BY <2>4, SameServersSameLeases DEF Connect
  <2>5. ASSUME NEW s \in Sock, Disconnect(s) PROVE [Lease!Next]_(Lease!vars)
    BY <2>5, CloseReleases DEF Disconnect
  <2>6. CASE Restart
    BY <2>6, CloseReleases DEF Restart
  <2>7. CASE UNCHANGED vars
    BY <2>7, SameServersSameLeases DEF vars
  <2>8. QED
    BY <2>1, <2>2, <2>3, <2>4, <2>5, <2>6, <2>7 DEF Next
<1>3. QED
  BY Invariance, <1>1, <1>2, PTL DEF Spec, UdpPortsAreLeases, Lease!Spec

-----------------------------------------------------------------------------
(* The path from the row to the client                                     *)

\* A step of the path is a step of the servers, or leaves them alone.
LEMMA PathStepIsServerStep == [PathNext]_pathVars => [Next]_vars
<1> SUFFICES ASSUME [PathNext]_pathVars PROVE [Next]_vars
  OBVIOUS
<1>1. CASE \/ Update \/ Delete \/ \E v \in Version : Fire(v)
           \/ Fetch \/ StartTunnels \/ ReceiveAdd \/ ReceiveDelete \/ ReceiveRefused
  BY <1>1 DEF Update, Delete, Fire, Fetch, StartTunnels, ReceiveAdd, ReceiveDelete,
     ReceiveRefused, servers, vars
<1>2. ASSUME NEW s \in Own, LogIn(s) PROVE Next
  BY <1>2, PathAssumption DEF LogIn, Next
<1>3. ASSUME NEW kind \in Kinds, NEW v \in Version, NEW s \in Own,
             Arrive(kind, v, s) \/ Ask4Row(kind, v, s)
      PROVE  Next
  <2>1. Ask[<<kind, v, s>>] \in Create \cup Stop
    BY PathAssumption DEF Kinds
  <2>2. QED
    BY <1>3, <2>1 DEF Arrive, Ask4Row, Next
<1>4. CASE Serve \/ OthersStep \/ Crash
  BY <1>4, PathAssumption DEF Serve, OthersStep, Crash, Foreign, OwnStop, Next
<1>5. ASSUME NEW s \in Sock, LogOut(s) PROVE Next
  BY <1>5 DEF LogOut, Next
<1>6. ASSUME NEW r \in Foreign, OthersRequest(r) PROVE Next
  BY <1>6 DEF OthersRequest, Foreign, Next
<1>7. CASE UNCHANGED pathVars
  BY <1>7 DEF pathVars, servers, vars
<1>8. QED
  BY <1>1, <1>2, <1>3, <1>4, <1>5, <1>6, <1>7 DEF PathNext

\* UdpPath is UdpTunnel with a client: what is proved of the servers for any
\* requests holds for the ones this client makes.
THEOREM PathImplementsServers == PathSpec => Spec
<1>1. PathInit => Init
  BY DEF PathInit
<1>2. QED
  BY <1>1, PathStepIsServerStep, PTL DEF PathSpec, Spec

\* Refusals are for a row that is gone.
RefusedIsGone == row # None => \A i \in 1 .. Len(inbox) : inbox[i][1] # "refused"

\* main goes on with a row it has found.
FetchedARow == main # "off" => todo # None

PathInv == ClientTypeOK /\ RefusedIsGone /\ FetchedARow /\ NewestHears

\* Messages keep their types on the way.
LEMMA Wire ==
  ASSUME ClientTypeOK
  PROVE  /\ \A v \in Version : <<"ADD_TUNNEL", v>> \in Message /\ <<"refused", v>> \in Message
         /\ <<"DELETE_TUNNEL">> \in Message
         /\ inbox # <<>> => Head(inbox) \in Message /\ Tail(inbox) \in Seq(Message)
         /\ inbox # <<>> /\ Head(inbox)[1] # "DELETE_TUNNEL" => Head(inbox)[2] \in Version
         /\ outbox # <<>> => Tail(outbox) \in Seq(Kinds \X Version)
         /\ \A m \in Message : Append(inbox, m) \in Seq(Message)
         /\ \A q \in Kinds \X Version : Append(outbox, q) \in Seq(Kinds \X Version)
<1>1. \A m \in Message : m[1] # "DELETE_TUNNEL" => m[2] \in Version
  BY DEF Message
<1>2. inbox # <<>> => Head(inbox) \in Message /\ Tail(inbox) \in Seq(Message)
  BY DEF ClientTypeOK
<1>3. outbox # <<>> => Tail(outbox) \in Seq(Kinds \X Version)
  BY DEF ClientTypeOK
<1>4. /\ \A m \in Message : Append(inbox, m) \in Seq(Message)
      /\ \A q \in Kinds \X Version : Append(outbox, q) \in Seq(Kinds \X Version)
  BY DEF ClientTypeOK
<1>5. /\ \A v \in Version : <<"ADD_TUNNEL", v>> \in Message /\ <<"refused", v>> \in Message
      /\ <<"DELETE_TUNNEL">> \in Message
  BY DEF Message
<1>6. QED
  BY <1>1, <1>2, <1>3, <1>4, <1>5

\* The row changes; the client's state does not.
LEMMA PageStep ==
  ASSUME PathInv, Update \/ Delete \/ \E v \in Version : Fire(v)
  PROVE  PathInv'
<1>0. ClientTypeOK /\ RefusedIsGone /\ FetchedARow /\ NewestHears
  BY DEF PathInv
<1>1. UNCHANGED <<main, todo, inst, hears, stopped, outbox>>
  BY DEF Update, Delete, Fire, client
<1>2. row' \in Version \cup {None} /\ timer' \subseteq Version /\ (row = None => row' = None)
  BY <1>0 DEF Update, Delete, Fire, ClientTypeOK
<1>3. PICK m \in Message : (inbox' = inbox \/ inbox' = Append(inbox, m)) /\ m[1] # "refused"
  BY <1>0, Wire DEF Update, Delete, Fire, Notify
<1>4. rushed' \in BOOLEAN
  BY <1>0 DEF Update, Delete, Fire, Begins, ClientTypeOK
<1>5. ClientTypeOK'
  <2>1. inbox' \in Seq(Message)
    BY <1>0, <1>3, Wire DEF ClientTypeOK
  <2>2. QED
    BY <1>0, <1>1, <1>2, <1>4, <2>1 DEF ClientTypeOK
<1>6. RefusedIsGone'
  <2>1. CASE inbox' = inbox
    BY <1>0, <1>2, <2>1 DEF RefusedIsGone
  <2>2. CASE inbox' = Append(inbox, m)
    BY <1>0, <1>2, <1>3, <2>2 DEF RefusedIsGone, ClientTypeOK
  <2>3. QED
    BY <1>3, <2>1, <2>2
<1>7. FetchedARow' /\ NewestHears'
  BY <1>0, <1>1, <1>2 DEF FetchedARow, NewestHears
<1>8. QED
  BY <1>5, <1>6, <1>7 DEF PathInv

\* The client's own steps.
LEMMA ClientStep ==
  ASSUME PathInv, Fetch \/ StartTunnels \/ ReceiveAdd \/ ReceiveDelete \/ ReceiveRefused
  PROVE  PathInv'
<1>0. ClientTypeOK /\ RefusedIsGone /\ FetchedARow /\ NewestHears
  BY DEF PathInv
<1>1. UNCHANGED <<row, timer>> /\ (inbox' = inbox \/ (inbox # <<>> /\ inbox' = Tail(inbox)))
  BY DEF Fetch, StartTunnels, ReceiveAdd, ReceiveDelete, ReceiveRefused, page, wire
<1>2. RefusedIsGone'
  <2>1. CASE inbox' = inbox
    BY <1>0, <1>1, <2>1 DEF RefusedIsGone
  <2>2. CASE inbox # <<>> /\ inbox' = Tail(inbox)
    <3>1. \A i \in 1 .. Len(inbox') : i + 1 \in 1 .. Len(inbox) /\ inbox'[i] = inbox[i + 1]
      BY <1>0, <2>2 DEF ClientTypeOK
    <3>2. QED
      BY <1>0, <1>1, <3>1 DEF RefusedIsGone
  <2>3. QED
    BY <1>1, <2>1, <2>2
<1>r. FetchedARow'
  BY <1>0 DEF Fetch, StartTunnels, ReceiveAdd, ReceiveDelete, ReceiveRefused, FetchedARow
<1>3. CASE Fetch
  BY <1>0, <1>2, <1>r, <1>3 DEF Fetch, wire, page, Begins, ClientTypeOK, PathInv, NewestHears
<1>4. ASSUME NEW v \in Version, Make(v), main' \in {"off", "fetched", "up"},
             todo' = todo, rushed' = rushed
      PROVE  ClientTypeOK' /\ NewestHears'
  <2>1. inbox' \in Seq(Message)
    BY <1>0, <1>1, Wire DEF ClientTypeOK
  <2>2. <<"create", v>> \in Kinds \X Version
    BY DEF Kinds
  <2>3. outbox' \in Seq(Kinds \X Version)
    BY <1>0, <1>4, <2>2, Wire DEF Make, Emit, ClientTypeOK
  <2>4. inst' = v /\ hears' = hears \cup {v} /\ stopped' = stopped
    BY <1>4 DEF Make
  <2>5. QED
    BY <1>0, <1>1, <1>4, <2>1, <2>3, <2>4 DEF ClientTypeOK, NewestHears
<1>5. CASE StartTunnels
  <2>1. todo \in Version /\ Make(todo) /\ main' = "up" /\ todo' = todo /\ rushed' = rushed
    BY <1>0, <1>5 DEF StartTunnels, FetchedARow, ClientTypeOK
  <2>2. QED
    BY <1>2, <1>r, <1>4, <2>1 DEF PathInv
<1>6. CASE ReceiveAdd
  <2>1. /\ Head(inbox)[2] \in Version /\ Make(Head(inbox)[2])
        /\ main' = main /\ todo' = todo /\ rushed' = rushed
    BY <1>0, <1>6, Wire DEF ReceiveAdd
  <2>2. QED
    BY <1>0, <1>2, <1>r, <1>4, <2>1 DEF ClientTypeOK, PathInv
<1>7. ASSUME NEW v \in Version, StopInst(v)
      PROVE  /\ hears' = {} /\ stopped' \subseteq Version
             /\ outbox' \in Seq(Kinds \X Version)
  BY <1>0, <1>7, Wire DEF StopInst, Emit, Kinds, ClientTypeOK
<1>8. CASE ReceiveDelete
  <2>1. hears' \subseteq Version /\ stopped' \subseteq Version /\ outbox' \in Seq(Kinds \X Version)
    BY <1>0, <1>7, <1>8 DEF ReceiveDelete, ClientTypeOK
  <2>2. QED
    BY <1>0, <1>1, <1>2, <1>r, <1>8, <2>1, Wire DEF ReceiveDelete, ClientTypeOK, PathInv, NewestHears
<1>9. CASE ReceiveRefused
  <2>1. Head(inbox)[2] \in Version /\ row = None
    <3>1. inbox # <<>> /\ inbox[1][1] = "refused" /\ 1 \in 1 .. Len(inbox)
      BY <1>0, <1>9 DEF ReceiveRefused, ClientTypeOK
    <3>2. QED
      BY <1>0, <1>9, <3>1, Wire DEF ReceiveRefused, RefusedIsGone
  <2>2. hears' = {} /\ stopped' \subseteq Version /\ outbox' \in Seq(Kinds \X Version)
    BY <1>7, <1>9, <2>1 DEF ReceiveRefused
  <2>3. QED
    BY <1>0, <1>1, <1>2, <1>r, <1>9, <2>1, <2>2, Wire
    DEF ReceiveRefused, ClientTypeOK, PathInv, NewestHears
<1>10. QED
  BY <1>3, <1>5, <1>6, <1>8, <1>9

\* What the server and the connection do.
LEMMA WireStep ==
  ASSUME PathInv,
         \/ \E s \in Own : LogIn(s)
         \/ \E kind \in Kinds, v \in Version, s \in Own :
               Arrive(kind, v, s) \/ Ask4Row(kind, v, s)
         \/ \E s \in Sock : LogOut(s)
         \/ \E r \in Foreign : OthersRequest(r)
         \/ Crash \/ Serve \/ OthersStep
  PROVE  PathInv'
<1>0. ClientTypeOK /\ RefusedIsGone /\ FetchedARow /\ NewestHears
  BY DEF PathInv
<1>1. UNCHANGED <<row, client>>
  BY DEF LogIn, Arrive, Ask4Row, LogOut, OthersRequest, Crash, Serve, OthersStep, page
<1>2. timer' \subseteq timer /\ rushed' \in BOOLEAN
  BY <1>0 DEF LogIn, Arrive, Ask4Row, LogOut, OthersRequest, Crash, Serve, OthersStep, page,
     Lost, ClientTypeOK
<1>e. <<>> \in Seq(Message) /\ <<>> \in Seq(Kinds \X Version)
  OBVIOUS
<1>3. outbox' \in Seq(Kinds \X Version)
  <2>1. outbox' = outbox \/ outbox' = <<>> \/ (outbox # <<>> /\ outbox' = Tail(outbox))
    BY DEF LogIn, Arrive, Ask4Row, LogOut, OthersRequest, Crash, Serve, OthersStep, wire, Lost
  <2>2. QED
    BY <1>0, <1>e, <2>1, Wire DEF ClientTypeOK
<1>4. \/ inbox' = inbox \/ inbox' = <<>>
      \/ row = None /\ \E v \in Version : inbox' = Append(inbox, <<"refused", v>>)
  BY <1>0 DEF LogIn, Arrive, Ask4Row, LogOut, OthersRequest, Crash, Serve, OthersStep, wire, Lost
<1>5. ClientTypeOK'
  <2>1. inbox' \in Seq(Message)
    BY <1>0, <1>e, <1>4, Wire DEF ClientTypeOK
  <2>2. QED
    BY <1>0, <1>1, <1>2, <1>3, <2>1 DEF ClientTypeOK, client
<1>6. RefusedIsGone' /\ FetchedARow' /\ NewestHears'
  BY <1>0, <1>1, <1>4 DEF RefusedIsGone, FetchedARow, NewestHears, client
<1>7. QED
  BY <1>5, <1>6 DEF PathInv

\* The path keeps its invariant.
LEMMA PathInvariance == PathSpec => []PathInv
<1>1. PathInit => PathInv
  <2>1. PathInit => ClientTypeOK
    <3>1. <<>> \in Seq(Message) /\ <<>> \in Seq(Kinds \X Version)
      OBVIOUS
    <3>2. QED
      BY <3>1, PathAssumption DEF PathInit, ClientTypeOK
  <2>2. PathInit => RefusedIsGone /\ FetchedARow /\ NewestHears
    BY DEF PathInit, RefusedIsGone, FetchedARow, NewestHears
  <2>3. QED
    BY <2>1, <2>2 DEF PathInv
<1>2. ASSUME PathInv, UNCHANGED pathVars PROVE PathInv'
  BY <1>2 DEF pathVars, page, client, wire, PathInv, ClientTypeOK, RefusedIsGone, FetchedARow,
     NewestHears
<1>3. PathInv /\ [PathNext]_pathVars => PathInv'
  BY <1>2, PageStep, ClientStep, WireStep DEF PathNext
<1>4. QED
  BY <1>1, <1>3, PTL DEF PathSpec

\* On the path too the variables have their types.
THEOREM PathTyping == PathSpec => []PathTypeOK
<1>1. PathInv => ClientTypeOK
  BY DEF PathInv
<1>2. TypeOK /\ ClientTypeOK => PathTypeOK
  BY DEF PathTypeOK
<1>3. QED
  BY PathInvariance, PathImplementsServers, Typing, <1>1, <1>2, PTL

\* The newest instance has its listener while its row is there.
THEOREM NewestIsHeard == PathSpec => []NewestHears
<1>1. PathInv => NewestHears
  BY DEF PathInv
<1>2. QED
  BY PathInvariance, <1>1, PTL

-----------------------------------------------------------------------------
(* Where the tunnel of the row is                                          *)

\* Others keep off the ports of the row.
Apart == row # None => \A r \in Others : PortOf[r] \notin PortsOf(row)

\* The map finds the servers of a tunnel by the tunnel.
MapOfTunnel == \A q \in Tunnel : map[q] # Nobody => TunnelOf[map[q]] = q

\* What has been stopped is older than the row.
StoppedAreOld == row # None => \A w \in stopped : w < row

Free(r) == handler[r] \in {"none", "done"}
HandlersIdle == \A r \in OwnCreate \cup OwnStop : Free(r)
OnlyHandler(q) ==
    /\ handler[q] \in {"querying", "found"}
    /\ \A r \in (OwnCreate \cup OwnStop) \ {q} : Free(r)
NoServer == \A r \in OwnCreate : ~Bound(r)
ServerIs(q) == map[Mine] = q /\ \A r \in OwnCreate : Bound(r) <=> r = q
Listening(v) == inst = v /\ hears = {v}
Deaf == inst = None /\ hears = {}

\* The client is in its first session.
Session(s) ==
    /\ main = "up" /\ sock[s] = "up"
    /\ \A z \in Own \ {s} : sock[z] = "new"

\* main has not started the tunnel; it is not in session until it has the row.
Before ==
    /\ Deaf /\ stopped = {} /\ NoServer /\ HandlersIdle
    /\ inbox = <<>> /\ outbox = <<>>
    /\ \/ /\ main = "off"
          /\ \A s \in Own : sock[s] = "new"
          /\ timer = {} \/ (row # None /\ timer = {row})
       \/ /\ main = "fetched" /\ row # None /\ todo = row
          /\ \A s \in Own : sock[s] \in {"new", "up"}
          /\ \A s, z \in Own : (sock[s] = "up" /\ sock[z] = "up") => s = z
          /\ timer = {}

\* The instance asks for its server.
Creating(s) ==
    /\ row # None /\ timer = {} /\ inbox = <<>>
    /\ Listening(row) /\ NoServer
    /\ \/ outbox = << <<"create", row>> >> /\ HandlersIdle
       \/ outbox = <<>> /\ OnlyHandler(Ask[<<"create", row, s>>])

\* The tunnel runs.
Running(s) ==
    /\ row # None /\ timer = {} /\ inbox = <<>> /\ outbox = <<>>
    /\ Listening(row) /\ ServerIs(Ask[<<"create", row, s>>]) /\ HandlersIdle

\* The old version is stopped: by the notification, the request, the handler.
Stopping(s, v) ==
    /\ timer = IF row = None THEN {} ELSE {row}
    /\ row # None => v < row
    /\ ServerIs(Ask[<<"create", v, s>>])
    /\ \/ /\ inbox = << <<"DELETE_TUNNEL">> >> /\ outbox = <<>> /\ HandlersIdle
          /\ Listening(v) /\ v \notin stopped
       \/ /\ inbox = <<>> /\ outbox = << <<"stop", v>> >> /\ HandlersIdle
          /\ Deaf
       \/ /\ inbox = <<>> /\ outbox = <<>> /\ OnlyHandler(Ask[<<"stop", v, s>>])
          /\ Deaf

\* The new version waits for its second, and is announced.
Waiting ==
    /\ row # None /\ Deaf /\ NoServer /\ HandlersIdle /\ outbox = <<>>
    /\ \/ timer = {row} /\ inbox = <<>>
       \/ timer = {} /\ inbox = << <<"ADD_TUNNEL", row>> >>

\* The row is gone, and the client has done what it was told.
Over ==
    /\ row = None /\ timer = {} /\ inbox = <<>> /\ outbox = <<>>
    /\ Deaf /\ HandlersIdle

Stage(s) ==
    \/ Creating(s)
    \/ Running(s)
    \/ \E v \in Version : Stopping(s, v)
    \/ Waiting
    \/ Over


Stages ==
    /\ StoppedAreOld
    /\ Before \/ \E s \in Own : Session(s) /\ Stage(s)

PathStages == ~rushed => Stages

\* The requests of the client are those of its tunnel.
LEMMA Asks ==
  ASSUME NEW v \in Version, NEW s \in Own
  PROVE  /\ Ask[<<"create", v, s>>] \in OwnCreate /\ SockOf[Ask[<<"create", v, s>>]] = s
         /\ Ask[<<"stop", v, s>>] \in OwnStop /\ SockOf[Ask[<<"stop", v, s>>]] = s
         /\ Ask[<<"create", v, s>>] # Ask[<<"stop", v, s>>]
<1>1. "create" \in Kinds /\ "stop" \in Kinds
  BY DEF Kinds
<1>2. QED
  BY <1>1, PathAssumption, RequestAssumption DEF OwnCreate, OwnStop

\* The same for either kind of request.
LEMMA AskKind ==
  ASSUME NEW k \in Kinds, NEW v \in Version, NEW s \in Own
  PROVE  Ask[<<k, v, s>>] \in OwnCreate \cup OwnStop /\ SockOf[Ask[<<k, v, s>>]] = s
<1>1. CASE k = "create"
  BY <1>1, Asks
<1>2. CASE k = "stop"
  BY <1>2, Asks
<1>3. QED
  BY <1>1, <1>2 DEF Kinds

\* A request is of this tunnel and over a socket of its client, or neither.
LEMMA OwnRequests ==
  /\ OwnCreate \subseteq Create /\ OwnStop \subseteq Stop
  /\ OwnCreate \cap OwnStop = {} /\ Own \subseteq Sock
  /\ \A r \in OwnCreate \cup OwnStop : SockOf[r] \in Own /\ TunnelOf[r] = Mine
  /\ \A r \in Foreign \cup (Stop \ OwnStop) :
        r \notin OwnCreate \cup OwnStop /\ TunnelOf[r] # Mine
<1>1. \A r \in OwnCreate \cup OwnStop : SockOf[r] \in Own /\ TunnelOf[r] = Mine
  <2> SUFFICES ASSUME NEW r \in OwnCreate \cup OwnStop PROVE SockOf[r] \in Own
    BY DEF OwnCreate, OwnStop
  <2>1. PICK k \in Kinds, v \in Version, s \in Own : r = Ask[<<k, v, s>>]
    BY PathAssumption DEF OwnCreate, OwnStop
  <2>2. QED
    BY <2>1, AskKind
<1>2. \A r \in Foreign \cup (Stop \ OwnStop) :
        r \notin OwnCreate \cup OwnStop /\ TunnelOf[r] # Mine
  BY RequestAssumption DEF Foreign, OwnCreate, OwnStop
<1>3. QED
  BY <1>1, <1>2, PathAssumption, RequestAssumption DEF OwnCreate, OwnStop

\* Same version and socket, same request; and the other way round.
LEMMA SameRequest ==
  ASSUME NEW k \in Kinds, NEW v \in Version, NEW s \in Own,
         NEW j \in Kinds, NEW w \in Version, NEW z \in Own,
         Ask[<<k, v, s>>] = Ask[<<j, w, z>>]
  PROVE  k = j /\ v = w /\ s = z
<1>1. k = j
  <2>1. k \in {"create", "stop"} /\ j \in {"create", "stop"}
    BY DEF Kinds
  <2>2. /\ Ask[<<"create", v, s>>] \in Create /\ Ask[<<"stop", v, s>>] \in Stop
        /\ Ask[<<"create", w, z>>] \in Create /\ Ask[<<"stop", w, z>>] \in Stop
    BY Asks, OwnRequests
  <2>3. QED
    BY <2>1, <2>2, RequestAssumption
<1>2. QED
  BY <1>1, PathAssumption

\* A step that does not touch this tunnel leaves it in its stage.
LEMMA StagesKept ==
  ASSUME ClientTypeOK, Stages, UNCHANGED <<page, client, wire>>,
         \A s \in Own : sock'[s] = sock[s],
         \A r \in OwnCreate \cup OwnStop : handler'[r] = handler[r],
         \A r \in OwnCreate : Bound(r)' <=> Bound(r),
         map'[Mine] = map[Mine]
  PROVE  Stages'
<1> USE DEF page, client, wire
<1>1. StoppedAreOld'
  BY DEF Stages, StoppedAreOld
<1>2. /\ HandlersIdle => HandlersIdle'
      /\ \A q \in OwnCreate \cup OwnStop : OnlyHandler(q) => OnlyHandler(q)'
      /\ NoServer => NoServer'
      /\ \A q : ServerIs(q) => ServerIs(q)'
      /\ Deaf => Deaf' /\ \A v : Listening(v) => Listening(v)'
  BY DEF HandlersIdle, OnlyHandler, Free, NoServer, ServerIs, Deaf, Listening
<1>3. Before => Before'
  BY <1>2 DEF Before
<1>4. ASSUME NEW s \in Own, Session(s), Stage(s) PROVE Session(s)' /\ Stage(s)'
  <2>1. Session(s)'
    BY <1>4 DEF Session
  <2>2. Creating(s) => Creating(s)'
    <3>1. row # None => Ask[<<"create", row, s>>] \in OwnCreate \cup OwnStop
      BY Asks DEF ClientTypeOK
    <3>2. QED
      BY <1>2, <3>1 DEF Creating, Listening, NoServer, HandlersIdle, OnlyHandler, Free
  <2>3. Running(s) => Running(s)'
    <3>1. row # None => Ask[<<"create", row, s>>] \in OwnCreate
      BY Asks DEF ClientTypeOK
    <3>2. QED
      BY <1>2, <3>1 DEF Running, Listening, ServerIs, HandlersIdle, Free
  <2>4. \A v \in Version : Stopping(s, v) => Stopping(s, v)'
    <3>1. \A v \in Version : Ask[<<"stop", v, s>>] \in OwnCreate \cup OwnStop
      BY Asks
    <3>2. QED
      BY <1>2, <3>1 DEF Stopping, Listening, Deaf, ServerIs, HandlersIdle, OnlyHandler, Free
  <2>5. Waiting => Waiting'
    BY <1>2 DEF Waiting
  <2>6. Over => Over'
    BY <1>2 DEF Over
  <2>7. QED
    BY <1>4, <2>1, <2>2, <2>3, <2>4, <2>5, <2>6 DEF Stage
<1>5. QED
  BY <1>1, <1>3, <1>4 DEF Stages

\* A page begins something: only where the tunnel runs, or main is off.
LEMMA UpdateStage ==
  ASSUME ClientTypeOK, Stages, Quiet, Update
  PROVE  Stages'
<1>0. row \in Version /\ row' = row + 1 /\ row' \in Version /\ row \in Nat /\ row' # None /\ row # None
  BY PathAssumption DEF Update, ClientTypeOK
<1>1. /\ timer = {} /\ inbox = <<>> /\ outbox = <<>> /\ main \in {"off", "up"} /\ HandlersIdle
      /\ timer' = {row'} /\ outbox' = outbox
      /\ UNCHANGED <<sock, handler, server, map, main, todo, inst, hears, stopped>>
  BY DEF Quiet, Update, HandlersIdle, Free, servers, client
<1>2. StoppedAreOld'
  <2>1. \A w \in stopped : w \in Nat /\ w < row
    BY <1>0, PathAssumption DEF Stages, StoppedAreOld, ClientTypeOK
  <2>2. \A w \in stopped : w < row + 1
    BY <1>0, <2>1
  <2>3. QED
    BY <1>0, <1>1, <2>2 DEF StoppedAreOld
<1>3. CASE Before
  <2>1. main = "off" /\ inbox' = inbox
    BY <1>1, <1>3 DEF Before, Update, Notify, Online
  <2>2. Before'
    BY <1>0, <1>1, <1>3, <2>1 DEF Before, Deaf, NoServer, Bound, HandlersIdle, Free
  <2>3. QED
    BY <1>2, <2>2 DEF Stages
<1>4. ASSUME NEW s \in Own, Session(s), Stage(s) PROVE Stages'
  <2>1. inbox' = << <<"DELETE_TUNNEL">> >>
    BY <1>1, <1>4 DEF Session, Online, Update, Notify
  <2>2. Running(s)
    <3>1. Ask[<<"create", row, s>>] \in OwnCreate /\ \A v \in Version : Ask[<<"stop", v, s>>] \in OwnStop
      BY <1>0, Asks
    <3>2. QED
      BY <1>0, <1>1, <1>4, <3>1 
        DEF Stage, Creating, Stopping, Waiting, Over, OnlyHandler, HandlersIdle, Free
  <2>3. PICK v \in Version : v = row
    BY <1>0
  <2>o. v \notin stopped
    BY <1>0, <2>3, PathAssumption DEF Stages, StoppedAreOld, ClientTypeOK
  <2>r. v < row'
    BY <1>0, <2>3
  <2>4. Stopping(s, v)'
    BY <1>0, <1>1, <2>1, <2>2, <2>3, <2>o, <2>r
       DEF Stopping, Running, Listening, ServerIs, HandlersIdle, Free, Bound
  <2>5. QED
    BY <1>0, <1>1, <1>2, <1>4, <2>4 DEF Stages, Session, Stage
<1>5. QED
  BY <1>3, <1>4 DEF Stages

LEMMA DeleteStage ==
  ASSUME ClientTypeOK, Stages, Quiet, Delete
  PROVE  Stages'
<1>0. row \in Version /\ row # None /\ row' = None
  BY DEF Delete, ClientTypeOK
<1>1. /\ timer = {} /\ inbox = <<>> /\ outbox = <<>> /\ main \in {"off", "up"} /\ HandlersIdle
      /\ UNCHANGED <<timer, outbox, sock, handler, server, map, main, todo, inst, hears, stopped>>
  BY DEF Quiet, Delete, HandlersIdle, Free, servers, client
<1>2. StoppedAreOld'
  BY <1>0 DEF StoppedAreOld
<1>3. CASE Before
  <2>1. main = "off" /\ inbox' = inbox
    BY <1>1, <1>3 DEF Before, Delete, Notify, Online
  <2>2. Before'
    BY <1>0, <1>1, <1>3, <2>1 DEF Before, Deaf, NoServer, Bound, HandlersIdle, Free
  <2>3. QED
    BY <1>2, <2>2 DEF Stages
<1>4. ASSUME NEW s \in Own, Session(s), Stage(s) PROVE Stages'
  <2>1. inbox' = << <<"DELETE_TUNNEL">> >>
    BY <1>1, <1>4 DEF Session, Online, Delete, Notify
  <2>2. Running(s)
    <3>1. Ask[<<"create", row, s>>] \in OwnCreate /\ \A v \in Version : Ask[<<"stop", v, s>>] \in OwnStop
      BY <1>0, Asks
    <3>2. QED
      BY <1>0, <1>1, <1>4, <3>1 
        DEF Stage, Creating, Stopping, Waiting, Over, OnlyHandler, HandlersIdle, Free
  <2>3. PICK v \in Version : v = row
    BY <1>0
  <2>4. v \notin stopped
    BY <1>0, <2>3, PathAssumption DEF Stages, StoppedAreOld, ClientTypeOK
  <2>5. Stopping(s, v)'
    BY <1>0, <1>1, <2>1, <2>2, <2>3, <2>4
       DEF Stopping, Running, Listening, ServerIs, HandlersIdle, Free, Bound
  <2>6. QED
    BY <1>1, <1>2, <1>4, <2>5 DEF Stages, Session, Stage
<1>5. QED
  BY <1>3, <1>4 DEF Stages

\* The second is over when the stop is done, and the client is told.
LEMMA FireStage ==
  ASSUME ClientTypeOK, Stages, NEW v \in Version, Fire(v), inbox = <<>>, outbox = <<>>,
         \A r \in OwnStop : Free(r)
  PROVE  Stages'
<1>0. /\ v \in timer /\ timer' = timer \ {v}
      /\ UNCHANGED <<row, outbox, sock, handler, server, map, main, todo, inst, hears, stopped>>
  BY DEF Fire, servers, client
<1>1. StoppedAreOld'
  BY <1>0 DEF Stages, StoppedAreOld
<1>2. CASE Before
  <2>1. timer = {row} /\ timer' = {} /\ inbox' = inbox
    BY <1>0, <1>2 DEF Before, Fire, Notify, Online
  <2>2. Before'
    BY <1>0, <1>2, <2>1 DEF Before, Deaf, NoServer, Bound, HandlersIdle, Free
  <2>3. QED
    BY <1>1, <2>2 DEF Stages
<1>3. ASSUME NEW s \in Own, Session(s), Stage(s) PROVE Stages'
  <2>1. inbox' = << <<"ADD_TUNNEL", v>> >>
    BY <1>3 DEF Session, Online, Fire, Notify
  <2>2. Waiting
    <3>1. \A w \in Version : Ask[<<"stop", w, s>>] \in OwnStop
      BY Asks
    <3>2. QED
      BY <1>0, <1>3, <3>1 DEF Stage, Creating, Running, Stopping, Over, OnlyHandler, Free
  <2>3. timer = {row} /\ v = row
    BY <1>0, <2>2 DEF Waiting
  <2>4. Waiting'
    BY <1>0, <2>1, <2>2, <2>3 DEF Waiting, Deaf, NoServer, Bound, HandlersIdle, Free
  <2>5. QED
    BY <1>0, <1>1, <1>3, <2>4 DEF Stages, Session, Stage
<1>4. QED
  BY <1>2, <1>3 DEF Stages

\* main finds the row, when there is nothing else.
LEMMA FetchStage ==
  ASSUME Stages, Quiet, Fetch
  PROVE  Stages'
<1>1. /\ main = "off" /\ row # None /\ main' = "fetched" /\ todo' = row /\ timer = {}
      /\ UNCHANGED <<row, timer, inbox, outbox, sock, handler, server, map, inst, hears, stopped>>
  BY DEF Quiet, Fetch, page, servers, wire
<1>2. Before
  BY <1>1 DEF Stages, Session
<1>3. Before'
  BY <1>1, <1>2 DEF Before, Deaf, NoServer, Bound, HandlersIdle, Free
<1>4. QED
  BY <1>1, <1>3 DEF Stages, StoppedAreOld

\* The client gets its session once it has fetched.
LEMMA LogInStage ==
  ASSUME TypeOK, Stages, NEW s \in Own, LogIn(s)
  PROVE  Stages'
<1>1. /\ main # "off" /\ ~Online /\ sock[s] = "new" /\ sock' = [sock EXCEPT ![s] = "up"]
      /\ UNCHANGED <<row, timer, inbox, outbox, handler, server, map, main, todo, inst, hears, stopped>>
  BY DEF LogIn, Connect, page, client, wire
<1>2. Before
  BY <1>1 DEF Stages, Session, Online
<1>3. \A z \in Own : sock'[z] = IF z = s THEN "up" ELSE sock[z]
  BY <1>1, PathAssumption DEF TypeOK
<1>4. Before'
  BY <1>1, <1>2, <1>3 DEF Before, Online, Deaf, NoServer, Bound, HandlersIdle, Free
<1>5. QED
  BY <1>1, <1>4 DEF Stages, StoppedAreOld

\* A new instance asks for its server over the session.
LEMMA MakeStage ==
  ASSUME ClientTypeOK, NEW s \in Own, Session(s)', StoppedAreOld, Online,
         row # None, hears = {}, Make(row), outbox = <<>>, NoServer, HandlersIdle,
         inbox' = <<>>, timer = {}, UNCHANGED <<row, timer, handler, server>>
  PROVE  Stages'
<1>1. StoppedAreOld'
  BY DEF Make, StoppedAreOld
<1>2. outbox' = << <<"create", row>> >> /\ Listening(row)'
  BY DEF Make, Emit, Listening
<1>3. NoServer' /\ HandlersIdle'
  BY DEF NoServer, Bound, HandlersIdle, Free
<1>4. Creating(s)'
  BY <1>2, <1>3 DEF Creating
<1>5. QED
  BY <1>1, <1>4 DEF Stages, Stage

\* main starts the version it has fetched.
LEMMA StartTunnelsStage ==
  ASSUME ClientTypeOK, Stages, StartTunnels
  PROVE  Stages'
<1>1. /\ main = "fetched" /\ main' = "up" /\ Make(todo)
      /\ UNCHANGED <<row, timer, inbox, sock, handler, server>>
  BY DEF StartTunnels, page, servers
<1>2. Before /\ row # None /\ todo = row
  BY <1>1 DEF Stages, Session, Before
<1>3. PICK s \in Own : sock[s] # "new"
  BY DEF StartTunnels
<1>4. sock[s] = "up" /\ \A z \in Own \ {s} : sock[z] = "new"
  BY <1>1, <1>2, <1>3 DEF Before
<1>5. Session(s)' /\ Online
  BY <1>1, <1>4 DEF Session, Online
<1>6. QED
  BY <1>1, <1>2, <1>5, MakeStage DEF Before, Stages, Deaf

\* The client is told of the new version.
LEMMA ReceiveAddStage ==
  ASSUME ClientTypeOK, Stages, ReceiveAdd
  PROVE  Stages'
<1>1. /\ main = "up" /\ inbox # <<>> /\ Head(inbox)[1] = "ADD_TUNNEL"
      /\ inbox' = Tail(inbox) /\ Make(Head(inbox)[2])
      /\ UNCHANGED <<row, timer, main, sock, handler, server>>
  BY DEF ReceiveAdd, page, servers
<1>2. PICK s \in Own : Session(s) /\ Stage(s)
  BY <1>1 DEF Stages, Before
<1>3. inbox = << <<"DELETE_TUNNEL">> >> => Head(inbox)[1] = "DELETE_TUNNEL"
  OBVIOUS
<1>4. Waiting /\ inbox = << <<"ADD_TUNNEL", row>> >>
  BY <1>1, <1>2, <1>3 DEF Stage, Creating, Running, Stopping, Over, Waiting
<1>5. Head(inbox)[2] = row /\ inbox' = <<>>
  BY <1>1, <1>4
<1>6. Session(s)' /\ Online
  BY <1>1, <1>2 DEF Session, Online
<1>7. QED
  BY <1>1, <1>4, <1>5, <1>6, MakeStage DEF Waiting, Stages, Deaf

\* The old version is stopped, and asks for the end of its server.
LEMMA ReceiveDeleteStage ==
  ASSUME ClientTypeOK, Stages, ReceiveDelete
  PROVE  Stages'
<1>1. /\ main # "off" /\ inbox # <<>> /\ Head(inbox)[1] = "DELETE_TUNNEL"
      /\ inbox' = Tail(inbox) /\ inst' = None
      /\ inst # None => StopInst(inst)
      /\ UNCHANGED <<row, timer, main, todo, sock, handler, server, map>>
  BY DEF ReceiveDelete, page, servers
<1>2. PICK s \in Own : Session(s) /\ Stage(s)
  BY <1>1 DEF Stages, Before
<1>3. PICK v \in Version : Stopping(s, v) /\ inbox = << <<"DELETE_TUNNEL">> >>
  <2>1. inbox # << <<"ADD_TUNNEL", row>> >>
    BY <1>1
  <2>2. QED
    BY <1>1, <1>2, <2>1 DEF Stage, Creating, Running, Stopping, Waiting, Over
<1>4. inst = v /\ v \notin stopped /\ outbox = <<>> /\ HandlersIdle
  BY <1>3 DEF Stopping, Listening
<1>5. hears' = {} /\ stopped' = stopped \cup {v} /\ outbox' = << <<"stop", v>> >>
  BY <1>1, <1>2, <1>4, PathAssumption DEF StopInst, Emit, Session, Online
<1>6. inbox' = <<>>
  BY <1>1, <1>3
<1>7. Stopping(s, v)'
  BY <1>1, <1>3, <1>4, <1>5, <1>6 DEF Stopping, Deaf, ServerIs, Bound, HandlersIdle, Free
<1>8. StoppedAreOld'
  BY <1>1, <1>3, <1>5 DEF StoppedAreOld, Stages, Stopping
<1>9. QED
  BY <1>1, <1>2, <1>7, <1>8 DEF Stages, Session, Stage

\* Nobody is refused while nothing is rushed.
LEMMA NoRefusal ==
  ASSUME Stages, ReceiveRefused
  PROVE  FALSE
<1>1. inbox # <<>> /\ Head(inbox)[1] = "refused"
  BY DEF ReceiveRefused
<1>2. inbox # << <<"DELETE_TUNNEL">> >> /\ inbox # << <<"ADD_TUNNEL", row>> >>
  BY <1>1
<1>3. QED
  BY <1>1, <1>2 DEF Stages, Before, Stage, Creating, Running, Stopping, Waiting, Over

\* The request of the instance comes to the server.
LEMMA ArriveStage ==
  ASSUME TypeOK, ClientTypeOK, Stages, NEW k \in Kinds, NEW w \in Version, NEW z \in Own,
         Arrive(k, w, z)
  PROVE  Stages'
<1>1. /\ outbox # <<>> /\ Head(outbox) = <<k, w>> /\ outbox' = Tail(outbox)
      /\ sock[SockOf[Ask[<<k, w, z>>]]] = "up"
      /\ handler' = [handler EXCEPT ![Ask[<<k, w, z>>]] = "querying"]
      /\ UNCHANGED <<row, timer, inbox, main, todo, inst, hears, stopped, sock, server, map>>
  BY DEF Arrive, Request, page, client
<1>2. PICK s \in Own : Session(s) /\ Stage(s)
  BY <1>1 DEF Stages, Before
<1>3. k \in {"create", "stop"}
  BY DEF Kinds
<1>4. SockOf[Ask[<<k, w, z>>]] = z /\ Ask[<<k, w, z>>] \in OwnCreate \cup OwnStop
  BY AskKind
<1>5. z = s
  BY <1>1, <1>2, <1>4 DEF Session
<1>6. Ask[<<k, w, s>>] \in Create \cup Stop
  BY <1>4, <1>5 DEF OwnCreate, OwnStop
<1>7. HandlersIdle => OnlyHandler(Ask[<<k, w, s>>])'
  BY <1>1, <1>5, <1>6, OwnRequests DEF TypeOK, HandlersIdle, OnlyHandler, Free
<1>8. Session(s)' /\ StoppedAreOld'
  BY <1>1, <1>2 DEF Session, StoppedAreOld, Stages
<1>9. CASE Creating(s)
  <2>1. outbox = << <<"create", row>> >> /\ HandlersIdle
    BY <1>1, <1>9 DEF Creating
  <2>2. k = "create" /\ w = row /\ outbox' = <<>>
    BY <1>1, <2>1
  <2>3. Creating(s)'
    BY <1>1, <1>7, <1>9, <2>1, <2>2 DEF Creating, Listening, NoServer, Bound, OnlyHandler, Free
  <2>4. QED
    BY <1>8, <2>3 DEF Stages, Stage
<1>10. CASE \E v \in Version : Stopping(s, v)
  <2>1. PICK v \in Version : Stopping(s, v)
    BY <1>10
  <2>2. inbox = <<>> /\ outbox = << <<"stop", v>> >> /\ HandlersIdle /\ Deaf
    BY <1>1, <2>1 DEF Stopping
  <2>3. k = "stop" /\ w = v /\ outbox' = <<>>
    BY <1>1, <2>2
  <2>4. Stopping(s, v)'
    BY <1>1, <1>7, <2>1, <2>2, <2>3 DEF Stopping, Deaf, ServerIs, Bound, OnlyHandler, Free
  <2>5. QED
    BY <1>8, <2>4 DEF Stages, Stage
<1>11. QED
  BY <1>1, <1>2, <1>9, <1>10 DEF Stage, Running, Waiting, Over

\* The row of the request is there, or it is gone and the stop comes to nothing.
LEMMA Ask4RowStage ==
  ASSUME TypeOK, ClientTypeOK, Stages, NEW k \in Kinds, NEW w \in Version, NEW z \in Own,
         Ask4Row(k, w, z), ~rushed'
  PROVE  Stages'
<1> DEFINE q == Ask[<<k, w, z>>]
<1>1. /\ handler[q] = "querying"
      /\ \E a \in {"found", "done"} : handler' = [handler EXCEPT ![q] = a]
      /\ UNCHANGED <<row, timer, outbox, main, todo, inst, hears, stopped, sock, server, map>>
  BY DEF Ask4Row, Answer, page, client
<1>2. \/ handler'[q] = "found" /\ row # None /\ inbox' = inbox
      \/ /\ handler'[q] = "done" /\ row = None
         /\ inbox' = inbox \/ k = "create"
  BY DEF Ask4Row
<1>3. k \in {"create", "stop"}
  BY DEF Kinds
<1>4. q \in OwnCreate \cup OwnStop
  BY AskKind
<1>5. ~Free(q)
  BY <1>1 DEF Free
<1>6. PICK s \in Own : Session(s) /\ Stage(s)
  BY <1>4, <1>5 DEF Stages, Before, HandlersIdle
<1>7. \A r \in Create \cup Stop : r # q => handler'[r] = handler[r]
  BY <1>1 DEF TypeOK
<1>r. q \in Create \cup Stop
  BY <1>4, OwnRequests
<1>8. Session(s)' /\ StoppedAreOld'
  BY <1>1, <1>6 DEF Session, StoppedAreOld, Stages
<1>9. ASSUME NEW r \in OwnCreate \cup OwnStop, OnlyHandler(r)
      PROVE  /\ r = q
             /\ handler'[q] = "found" => OnlyHandler(r)'
             /\ handler'[q] = "done" => HandlersIdle'
  <2>1. r = q
    BY <1>4, <1>5, <1>9 DEF OnlyHandler
  <2>2. QED
    BY <1>4, <1>7, <1>9, <2>1, OwnRequests DEF OnlyHandler, HandlersIdle, Free
<1>10. CASE Creating(s)
  <2>1. Ask[<<"create", row, s>>] \in OwnCreate /\ row # None
    BY <1>10, Asks DEF Creating, ClientTypeOK
  <2>2. OnlyHandler(Ask[<<"create", row, s>>]) /\ outbox = <<>>
    BY <1>4, <1>5, <1>10 DEF Creating, HandlersIdle
  <2>3. OnlyHandler(Ask[<<"create", row, s>>])'
    BY <1>1, <1>2, <1>9, <2>1, <2>2
  <2>4. Creating(s)'
    BY <1>1, <1>2, <1>10, <2>1, <2>2, <2>3 DEF Creating, Listening, NoServer, Bound
  <2>5. QED
    BY <1>8, <2>4 DEF Stages, Stage
<1>11. CASE \E v \in Version : Stopping(s, v)
  <2>1. PICK v \in Version : Stopping(s, v)
    BY <1>11
  <2>2. Ask[<<"stop", v, s>>] \in OwnStop /\ "stop" \in Kinds
    BY Asks DEF Kinds
  <2>3. inbox = <<>> /\ outbox = <<>> /\ Deaf /\ OnlyHandler(Ask[<<"stop", v, s>>])
    BY <1>4, <1>5, <2>1 DEF Stopping, HandlersIdle
  <2>4. q = Ask[<<"stop", v, s>>]
    BY <1>9, <2>2, <2>3
  <2>5. inbox' = <<>> /\ Deaf'
    BY <1>1, <1>2, <2>2, <2>3, <2>4, SameRequest DEF Deaf
  <2>6. CASE row # None
    <3>1. Stopping(s, v)'
      BY <1>1, <1>2, <1>9, <2>1, <2>2, <2>3, <2>5, <2>6 DEF Stopping, ServerIs, Bound
    <3>2. QED
      BY <1>8, <3>1 DEF Stages, Stage
  <2>7. CASE row = None
    <3>1. HandlersIdle' /\ timer = {}
      BY <1>2, <1>9, <2>1, <2>2, <2>3, <2>7 DEF Stopping
    <3>2. Over'
      BY <1>1, <2>3, <2>5, <2>7, <3>1 DEF Over
    <3>3. QED
      BY <1>8, <3>2 DEF Stages, Stage
  <2>8. QED
    BY <2>6, <2>7
<1>12. QED
  BY <1>4, <1>5, <1>6, <1>10, <1>11 DEF Stage, Running, Waiting, Over, HandlersIdle

\* The server of the instance starts: its port is free.
LEMMA StartStage ==
  ASSUME TypeOK, ClientTypeOK, Apart, Stages, NEW r \in OwnCreate, Start(r),
         UNCHANGED <<page, client, wire>>
  PROVE  Stages'
<1>0. r \in Create /\ r \in Create \cup Stop /\ TunnelOf[r] = Mine /\ Mine \in Tunnel
  BY RequestAssumption DEF OwnCreate
<1>1. /\ handler[r] = "found" /\ handler' = [handler EXCEPT ![r] = "done"]
      /\ server' = [server EXCEPT ![r] = IF PortFree(PortOf[r]) THEN "bound" ELSE "failed"]
      /\ map' = [map EXCEPT ![Mine] = r]
      /\ UNCHANGED <<row, timer, inbox, outbox, main, todo, inst, hears, stopped, sock>>
  BY <1>0 DEF Start, page, client, wire
<1>2. PICK s \in Own : Session(s) /\ Stage(s)
  BY <1>1 DEF Stages, Before, HandlersIdle, Free
<1>3. ~HandlersIdle /\ \A v \in Version : ~OnlyHandler(Ask[<<"stop", v, s>>])
  <2>1. ASSUME NEW v \in Version PROVE r # Ask[<<"stop", v, s>>]
    <3>1. Ask[<<"stop", v, s>>] \in OwnStop
      BY Asks
    <3>2. QED
      BY <3>1, OwnRequests
  <2>2. QED
    BY <1>1, <2>1 DEF HandlersIdle, OnlyHandler, Free
<1>4. Creating(s)
  BY <1>2, <1>3 DEF Stage, Running, Stopping, Waiting, Over
<1>5. Ask[<<"create", row, s>>] \in OwnCreate /\ row # None
  BY <1>4, Asks DEF Creating, ClientTypeOK
<1>6. r = Ask[<<"create", row, s>>] /\ OnlyHandler(r) /\ outbox = <<>>
  BY <1>1, <1>3, <1>4, <1>5 DEF Creating, OnlyHandler, Free
<1>7. PortFree(PortOf[r])
  <2>1. PortOf[r] \in PortsOf(row)
    BY <1>6 DEF PortsOf
  <2>2. \A x \in Foreign : Bound(x) => PortOf[x] # PortOf[r]
    BY <1>5, <2>1 DEF Apart, Others
  <2>3. \A x \in OwnCreate : ~Bound(x)
    BY <1>4 DEF Creating, NoServer
  <2>4. QED
    BY <2>2, <2>3 DEF PortFree, Foreign
<1>8. ServerIs(r)'
  BY <1>0, <1>1, <1>4, <1>7, OwnRequests DEF TypeOK, Creating, NoServer, ServerIs, Bound
<1>9. HandlersIdle'
  BY <1>0, <1>1, <1>6, OwnRequests DEF TypeOK, OnlyHandler, HandlersIdle, Free
<1>10. Running(s)'
  BY <1>1, <1>4, <1>6, <1>8, <1>9 DEF Creating, Running, Listening
<1>11. QED
  BY <1>1, <1>2, <1>10 DEF Stages, Session, StoppedAreOld, Stage

\* The server of the old version stops: the map still finds it.
LEMMA StopStage ==
  ASSUME TypeOK, ClientTypeOK, Stages, NEW r \in OwnStop, StopServer(r),
         UNCHANGED <<page, client, wire>>
  PROVE  Stages'
<1>0. r \in Stop /\ r \in Create \cup Stop /\ TunnelOf[r] = Mine
  BY DEF OwnStop
<1>1. /\ handler[r] = "found" /\ handler' = [handler EXCEPT ![r] = "done"]
      /\ Close({map[Mine]})
      /\ UNCHANGED <<row, timer, inbox, outbox, main, todo, inst, hears, stopped, sock, map>>
  BY <1>0 DEF StopServer, page, client, wire
<1>2. PICK s \in Own : Session(s) /\ Stage(s)
  BY <1>1 DEF Stages, Before, HandlersIdle, Free
<1>3. ~HandlersIdle
  BY <1>1 DEF HandlersIdle, Free
<1>4. ~Creating(s)
  <2>1. row # None => Ask[<<"create", row, s>>] \in OwnCreate
    BY Asks DEF ClientTypeOK
  <2>2. QED
    BY <1>1, <1>3, <2>1, OwnRequests DEF Creating, OnlyHandler, Free
<1>5. PICK v \in Version : Stopping(s, v)
  BY <1>2, <1>3, <1>4 DEF Stage, Running, Waiting, Over
<1>6. Ask[<<"stop", v, s>>] \in OwnStop /\ Ask[<<"create", v, s>>] \in OwnCreate
  BY Asks
<1>7. /\ r = Ask[<<"stop", v, s>>] /\ OnlyHandler(r) /\ Deaf /\ inbox = <<>> /\ outbox = <<>>
      /\ ServerIs(Ask[<<"create", v, s>>]) /\ timer = IF row = None THEN {} ELSE {row}
  BY <1>1, <1>3, <1>5, <1>6 DEF Stopping, OnlyHandler, Free
<1>8. NoServer'
  BY <1>1, <1>6, <1>7, OwnRequests DEF TypeOK, ServerIs, NoServer, Close, Bound
<1>9. HandlersIdle'
  BY <1>0, <1>1, <1>7, OwnRequests DEF TypeOK, OnlyHandler, HandlersIdle, Free
<1>10. Waiting' \/ Over'
  BY <1>1, <1>7, <1>8, <1>9 DEF Waiting, Over, Deaf
<1>11. QED
  BY <1>1, <1>2, <1>10 DEF Stages, Session, StoppedAreOld, Stage

\* Steps of the servers for other tunnels, and of other sockets.
LEMMA OthersStage ==
  ASSUME TypeOK, ClientTypeOK, MapOfTunnel, Stages, UNCHANGED <<page, client, wire>>,
         \/ \E r \in Foreign : Request(r) \/ Start(r)
         \/ \E r \in Stop \ OwnStop : StopServer(r)
         \/ \E r \in Foreign \cup (Stop \ OwnStop) : Answer(r)
         \/ \E s \in Sock \ Own : Connect(s) \/ Disconnect(s)
  PROVE  Stages'
<1> USE RequestAssumption, OwnRequests DEF TypeOK
<1>0. Mine \in Tunnel
  BY PathAssumption
<1>1. ASSUME NEW r \in Foreign, Request(r) PROVE Stages'
  BY <1>1, StagesKept DEF Request, Bound, Foreign
<1>2. ASSUME NEW r \in Foreign \cup (Stop \ OwnStop), Answer(r) PROVE Stages'
  BY <1>2, StagesKept DEF Answer, Bound, Foreign
<1>3. ASSUME NEW r \in Foreign, Start(r) PROVE Stages'
  BY <1>3, StagesKept DEF Start, Bound, Foreign
<1>4. ASSUME NEW r \in Stop \ OwnStop, StopServer(r) PROVE Stages'
  <2>1. \A x \in OwnCreate : x # map[TunnelOf[r]]
    BY <1>4 DEF MapOfTunnel
  <2>2. QED
    BY <1>4, <2>1, StagesKept DEF StopServer, Close, Bound
<1>5. ASSUME NEW s \in Sock \ Own, Connect(s) PROVE Stages'
  BY <1>5, StagesKept DEF Connect, Bound
<1>6. ASSUME NEW s \in Sock \ Own, Disconnect(s) PROVE Stages'
  BY <1>6, StagesKept DEF Disconnect, Close, Bound
<1>7. QED
  BY <1>1, <1>2, <1>3, <1>4, <1>5, <1>6

\* The map has the servers of a tunnel under its id.
LEMMA MapInvariance == Spec => []MapOfTunnel
<1>1. Init => MapOfTunnel
  BY DEF Init, MapOfTunnel
<1>2. IInv /\ MapOfTunnel /\ [Next]_vars => MapOfTunnel'
  <2> SUFFICES ASSUME IInv, MapOfTunnel, [Next]_vars PROVE MapOfTunnel'
    OBVIOUS
  <2>1. ASSUME NEW r \in Create, Start(r) PROVE MapOfTunnel'
    BY <2>1, RequestAssumption DEF Start, MapOfTunnel, IInv, TypeOK
  <2>2. CASE Restart
    BY <2>2 DEF Restart, MapOfTunnel
  <2>3. CASE map' = map
    BY <2>3 DEF MapOfTunnel
  <2>4. QED
    BY <2>1, <2>2, <2>3 DEF Next, Request, Answer, StopServer, Connect, Disconnect, vars
<1>3. QED
  BY <1>1, <1>2, Invariance, PTL DEF Spec

\* A request of another tunnel comes only while its port is not the row's, and
\* the row gets a port only while no other has it.
LEMMA ApartStep ==
  ASSUME TypeOK, ClientTypeOK, Apart, [PathNext]_pathVars
  PROVE  Apart'
<1> USE RequestAssumption DEF TypeOK
<1>1. ASSUME row' = row \/ row' = None, \A r \in Others' : r \in Others PROVE Apart'
  BY <1>1 DEF Apart, PortsOf
<1>2. ASSUME UNCHANGED <<handler, server>> PROVE Others' = Others
  BY <1>2 DEF Others, Bound
<1>3. CASE Update
  <2>1. Others' = Others
    BY <1>2, <1>3 DEF Update, servers
  <2>2. \A r \in Others : PortOf[r] \notin {PortOf[Ask[<<"create", row', s>>]] : s \in Own}
    BY <1>3 DEF Update, PortsOf
  <2>3. QED
    BY <2>1, <2>2 DEF Apart, PortsOf
<1>4. CASE \/ Delete \/ (\E v \in Version : Fire(v)) \/ Fetch \/ StartTunnels \/ ReceiveAdd
           \/ ReceiveDelete \/ ReceiveRefused \/ UNCHANGED pathVars
  BY <1>1, <1>2, <1>4 DEF Delete, Fire, Fetch, StartTunnels, ReceiveAdd, ReceiveDelete,
     ReceiveRefused, servers, page, pathVars
<1>5. ASSUME NEW s \in Own, LogIn(s) PROVE Apart'
  BY <1>1, <1>2, <1>5 DEF LogIn, Connect, page
<1>6. ASSUME NEW k \in Kinds, NEW v \in Version, NEW s \in Own,
             Arrive(k, v, s) \/ Ask4Row(k, v, s)
      PROVE  Apart'
  <2>1. Ask[<<k, v, s>>] \in OwnCreate \cup OwnStop
    BY AskKind
  <2>2. \A r \in Foreign : handler'[r] = handler[r]
    BY <1>6, <2>1, OwnRequests DEF Arrive, Ask4Row, Request, Answer, Foreign
  <2>3. server' = server /\ row' = row
    BY <1>6 DEF Arrive, Ask4Row, Request, Answer, page
  <2>4. QED
    BY <1>1, <2>2, <2>3 DEF Others, Bound
<1>7. ASSUME NEW s \in Sock, LogOut(s) PROVE Apart'
  BY <1>1, <1>7 DEF LogOut, Disconnect, Close, Others, Bound, Foreign, page
<1>8. CASE Crash
  BY <1>1, <1>8 DEF Crash, Restart, Close, Others, Bound, Foreign
<1>9. ASSUME NEW r \in Foreign, OthersRequest(r) PROVE Apart'
  <2>1. /\ \A q \in Create \cup Stop : q # r => handler'[q] = handler[q]
        /\ UNCHANGED <<server, row>>
        /\ row # None => PortOf[r] \notin PortsOf(row)
    BY <1>9 DEF OthersRequest, Request, page
  <2>2. QED
    BY <2>1 DEF Apart, Others, Bound, Foreign, PortsOf
<1>10. CASE Serve
  <2>1. row' = row
    BY <1>10 DEF Serve, page
  <2>2. ASSUME NEW r \in Create, Start(r) PROVE Apart'
    BY <1>1, <2>1, <2>2 DEF Start, Others, Bound, Foreign
  <2>3. ASSUME NEW r \in Stop, StopServer(r) PROVE Apart'
    BY <1>1, <2>1, <2>3 DEF StopServer, Close, Others, Bound, Foreign
  <2>4. QED
    BY <1>10, <2>2, <2>3 DEF Serve
<1>11. CASE OthersStep
  BY <1>1, <1>2, <1>11 DEF OthersStep, Connect, Answer, Others, Bound, Foreign, page
<1>12. QED
  BY <1>3, <1>4, <1>5, <1>6, <1>7, <1>8, <1>9, <1>10, <1>11 DEF PathNext

\* Every step takes the tunnel from one stage to the next, or is rushed.
LEMMA StagesStep ==
  ASSUME TypeOK, ClientTypeOK, Apart, MapOfTunnel, PathStages, [PathNext]_pathVars
  PROVE  PathStages'
<1> SUFFICES ASSUME ~rushed' PROVE Stages'
  BY DEF PathStages
<1>0. rushed => rushed'
  <2>1. rushed' = rushed \/ Begins \/ rushed' = TRUE
        \/ \E A : rushed' = (rushed \/ A)
    BY DEF PathNext, pathVars, Update, Delete, Fire, Fetch, LogIn, StartTunnels, ReceiveAdd,
       ReceiveDelete, ReceiveRefused, Arrive, Ask4Row, Serve, LogOut, Lost, Crash,
       OthersRequest, OthersStep
  <2>2. QED
    BY <2>1, Zenon DEF Begins
<1>1. Stages
  BY <1>0 DEF PathStages
<1>2. ASSUME Begins PROVE Quiet
  BY <1>2, Zenon DEF Begins
<1>3. CASE Update
  BY <1>1, <1>2, <1>3, UpdateStage DEF Update
<1>4. CASE Delete
  BY <1>1, <1>2, <1>4, DeleteStage DEF Delete
<1>5. ASSUME NEW v \in Version, Fire(v) PROVE Stages'
  <2>1. rushed' = (rushed \/ inbox # <<>> \/ outbox # <<>>
                          \/ \E r \in OwnStop : handler[r] \notin {"none", "done"})
    BY <1>5 DEF Fire
  <2>2. inbox = <<>> /\ outbox = <<>> /\ \A r \in OwnStop : handler[r] \in {"none", "done"}
    BY <2>1, Zenon
  <2>3. QED
    BY <1>1, <1>5, <2>2, FireStage DEF Free
<1>6. CASE Fetch
  BY <1>1, <1>2, <1>6, FetchStage DEF Fetch
<1>7. CASE StartTunnels \/ ReceiveAdd \/ ReceiveDelete \/ ReceiveRefused
  BY <1>1, <1>7, StartTunnelsStage, ReceiveAddStage, ReceiveDeleteStage, NoRefusal
<1>8. ASSUME NEW s \in Own, LogIn(s) PROVE Stages'
  BY <1>1, <1>8, LogInStage
<1>9. ASSUME NEW k \in Kinds, NEW v \in Version, NEW s \in Own,
             Arrive(k, v, s) \/ Ask4Row(k, v, s)
      PROVE  Stages'
  BY <1>1, <1>9, ArriveStage, Ask4RowStage
<1>10. ASSUME NEW s \in Sock, LogOut(s) PROVE Stages'
  <2>1. s \notin Own
    BY <1>10 DEF LogOut, Lost
  <2>2. Disconnect(s) /\ UNCHANGED <<page, client, wire>>
    BY <1>10, <2>1 DEF LogOut
  <2>3. QED
    BY <1>1, <2>1, <2>2, OthersStage
<1>11. CASE Crash
  BY <1>11 DEF Crash, Lost
<1>12. ASSUME NEW r \in Foreign, OthersRequest(r) PROVE Stages'
  <2>1. Request(r) /\ UNCHANGED <<page, client, wire>>
    BY <1>12 DEF OthersRequest
  <2>2. QED
    BY <1>1, <2>1, OthersStage
<1>13. CASE Serve
  <2>1. UNCHANGED <<page, client, wire>>
    BY <1>13 DEF Serve
  <2>2. ASSUME NEW r \in Create, Start(r) PROVE Stages'
    BY <1>1, <2>1, <2>2, StartStage, OthersStage DEF Foreign
  <2>3. ASSUME NEW r \in Stop, StopServer(r) PROVE Stages'
    BY <1>1, <2>1, <2>3, StopStage, OthersStage
  <2>4. QED
    BY <1>13, <2>2, <2>3 DEF Serve
<1>14. CASE OthersStep
  <2>1. UNCHANGED <<page, client, wire>>
    BY <1>14 DEF OthersStep
  <2>2. QED
    BY <1>1, <1>14, <2>1, OthersStage DEF OthersStep
<1>15. CASE UNCHANGED pathVars
  BY <1>1, <1>15, StagesKept DEF pathVars, servers, Bound
<1>16. QED
  BY <1>3, <1>4, <1>5, <1>6, <1>7, <1>8, <1>9, <1>10, <1>11, <1>12, <1>13, <1>14, <1>15
  DEF PathNext

\* While nothing is rushed the tunnel is always in one of the stages.
THEOREM UpdatesGoByStages == PathSpec => [](Apart /\ PathStages)
<1>1. PathInit => Apart /\ PathStages
  <2>1. ASSUME PathInit PROVE Apart /\ Stages
    <3>1. /\ Init /\ row = 1 /\ timer = {} /\ inbox = <<>> /\ outbox = <<>> /\ main = "off"
          /\ inst = None /\ hears = {} /\ stopped = {}
      BY <2>1 DEF PathInit
    <3>2. Before
      BY <3>1, OwnRequests DEF Init, Before, Deaf, NoServer, Bound, HandlersIdle, Free
    <3>3. Apart
      BY <3>1 DEF Init, Apart, Others, Bound, Foreign
    <3>4. QED
      BY <3>1, <3>2, <3>3 DEF Stages, StoppedAreOld
  <2>2. QED
    BY <2>1 DEF PathStages
<1>2. TypeOK /\ ClientTypeOK /\ MapOfTunnel /\ Apart /\ PathStages /\ [PathNext]_pathVars
      => (Apart /\ PathStages)'
  BY ApartStep, StagesStep
<1>3. PathTypeOK => TypeOK /\ ClientTypeOK
  BY DEF PathTypeOK
<1>4. QED
  BY <1>1, <1>2, <1>3, PathTyping, PathImplementsServers, MapInvariance, PTL DEF PathSpec

\* One thing after the other: the row, the instance, its listener and its server
\* are of one version when all is quiet (Routers/Tunnel.js, client.js and
\* Commander.js together), however often the row is updated.
THEOREM PathMirrors == PathSpec => []PathMirrorsRow
<1>1. ClientTypeOK /\ PathStages => PathMirrorsRow
  <2> SUFFICES ASSUME ClientTypeOK, Stages, Quiet, main = "up", Online
               PROVE  IF row = None
                        THEN inst = None /\ hears = {}
                        ELSE /\ inst = row /\ hears = {row}
                             /\ \E s \in Own : Serving = {Ask[<<"create", row, s>>]}
    BY DEF PathStages, PathMirrorsRow
  <2>1. PICK s \in Own : Session(s) /\ Stage(s)
    BY DEF Stages, Before
  <2>2. HandlersIdle /\ timer = {} /\ inbox = <<>> /\ outbox = <<>>
    BY DEF Quiet, HandlersIdle, Free
  <2>3. Running(s) \/ Over
    <3>1. row # None => Ask[<<"create", row, s>>] \in OwnCreate
      BY Asks DEF ClientTypeOK
    <3>2. \A v \in Version : Ask[<<"stop", v, s>>] \in OwnStop
      BY Asks
    <3>3. QED
      BY <2>1, <2>2, <3>1, <3>2
      DEF Stage, Creating, Stopping, Waiting, OnlyHandler, HandlersIdle, Free
  <2>4. CASE Running(s)
    <3>1. Ask[<<"create", row, s>>] \in OwnCreate /\ SockOf[Ask[<<"create", row, s>>]] = s
      BY <2>4, Asks DEF Running, ClientTypeOK
    <3>2. Serving = {Ask[<<"create", row, s>>]}
      BY <2>1, <2>4, <3>1 DEF Running, ServerIs, Serving, Session
    <3>3. QED
      BY <2>4, <3>2 DEF Running, Listening
  <2>5. CASE Over
    BY <2>5 DEF Over, Deaf
  <2>6. QED
    BY <2>3, <2>4, <2>5
<1>2. PathTypeOK => ClientTypeOK
  BY DEF PathTypeOK
<1>3. QED
  BY <1>1, <1>2, PathTyping, UpdatesGoByStages, PTL

\* A visitor gets to the service of another version only after something was
\* begun before the last thing was over, or has failed.
THEOREM VisitorsGetTheirService == PathSpec => []OwnService
<1>1. ClientTypeOK /\ PathStages => OwnService
  <2> SUFFICES ASSUME ClientTypeOK, Stages, NEW r \in Serving, NEW w \in hears
               PROVE  r = Ask[<<"create", w, SockOf[r]>>]
    BY DEF PathStages, OwnService
  <2>1. r \in OwnCreate /\ Bound(r)
    BY DEF Serving
  <2>2. PICK s \in Own : Session(s) /\ Stage(s)
    BY DEF Stages, Before, Deaf
  <2>3. PICK v \in Version : r = Ask[<<"create", v, s>>] /\ w = v
    <3>1. Running(s) \/ \E v \in Version : Stopping(s, v) /\ Listening(v)
      BY <2>1, <2>2 DEF Stage, Creating, NoServer, Stopping, Waiting, Over, Deaf
    <3>2. CASE Running(s)
      BY <2>1, <3>2 DEF Running, ServerIs, Listening, ClientTypeOK
    <3>3. CASE \E v \in Version : Stopping(s, v) /\ Listening(v)
      BY <2>1, <3>3 DEF Stopping, ServerIs, Listening
    <3>4. QED
      BY <3>1, <3>2, <3>3
  <2>4. SockOf[r] = s
    BY <2>3, Asks
  <2>5. QED
    BY <2>3, <2>4
<1>2. PathTypeOK => ClientTypeOK
  BY DEF PathTypeOK
<1>3. QED
  BY <1>1, <1>2, PathTyping, UpdatesGoByStages, PTL
=============================================================================
