----------------------------- MODULE UdpTunnel -----------------------------
(***************************************************************************)
(* UDP tunnels on the server: the requests a client sends over its socket  *)
(* (Commander.js) and the UdpTunnelServer objects they create and stop.    *)
(* Both handlers wait for the database first.  A server object closes      *)
(* itself on the 'disconnect' of the socket it was created with; who wants *)
(* to stop it earlier finds it in UpdTunnelServerMap, which has one entry  *)
(* for a tunnel.                                                           *)
(***************************************************************************)
CONSTANTS
    Sock,       \* socket.io sockets that are in session
    Tunnel,     \* UDP tunnels
    Port,       \* public UDP ports
    Create,     \* requests CLIENT_CREATE_UDP_TUNNEL_SERVER
    Stop,       \* requests CLIENT_STOP_UDP_TUNNEL_SERVER
    SockOf,     \* SockOf[r]: the socket that sends request r
    TunnelOf,   \* TunnelOf[r]: the tunnel id in request r
    PortOf,     \* PortOf[r]: the remotePort in the create request r
    Nobody      \* no server

ASSUME RequestAssumption ==
    /\ SockOf \in [Create \cup Stop -> Sock]
    /\ TunnelOf \in [Create \cup Stop -> Tunnel]
    /\ PortOf \in [Create -> Port]
    /\ Create \cap Stop = {}
    /\ Nobody \notin Create

VARIABLES
    sock,       \* sock[s]: not in session yet, in session, or gone
    handler,    \* handler[r]: where the handler of request r is
    server,     \* server[r]: the server object made for create request r
    map         \* map[t]: UpdTunnelServerMap.get(t), by its request

vars == <<sock, handler, server, map>>

TypeOK ==
    /\ sock \in [Sock -> {"new", "up", "gone"}]
    /\ handler \in [Create \cup Stop -> {"none", "querying", "found", "done"}]
    /\ server \in [Create -> {"none", "bound", "failed", "closed"}]
    /\ map \in [Tunnel -> Create \cup {Nobody}]

Bound(r) == server[r] = "bound"

Init ==
    /\ sock = [s \in Sock |-> "new"]
    /\ handler = [r \in Create \cup Stop |-> "none"]
    /\ server = [r \in Create |-> "none"]
    /\ map = [t \in Tunnel |-> Nobody]

-----------------------------------------------------------------------------

\* The login of Session has accepted s: the events below have their handlers.
Connect(s) ==
    /\ sock[s] = "new"
    /\ sock' = [sock EXCEPT ![s] = "up"]
    /\ UNCHANGED <<handler, server, map>>

\* The request arrives; its handler asks the database for the tunnel.
Request(r) ==
    /\ sock[SockOf[r]] = "up"
    /\ handler[r] = "none"
    /\ handler' = [handler EXCEPT ![r] = "querying"]
    /\ UNCHANGED <<sock, server, map>>

\* The row is there, or it is not, or the query fails: then nothing is done.
Answer(r) ==
    /\ handler[r] = "querying"
    /\ \E a \in {"found", "done"} : handler' = [handler EXCEPT ![r] = a]
    /\ UNCHANGED <<sock, server, map>>

\* A bind with SO_REUSEADDR.
PortShared(p) == TRUE

PortFree(p) == \A r \in Create : Bound(r) => PortOf[r] # p

\* The server is made, connected or not, bound or not, and put in the map in
\* place of the one that was there; the client is told of a success.
Start(r) ==
    /\ handler[r] = "found"
    /\ handler' = [handler EXCEPT ![r] = "done"]
    /\ server' = [server EXCEPT ![r] = IF PortFree(PortOf[r]) THEN "bound" ELSE "failed"]
    /\ map' = [map EXCEPT ![TunnelOf[r]] = r]
    /\ UNCHANGED sock

\* stop() of server objects: one that has no port, or not any more, has nothing
\* to give back.
Close(R) ==
    server' = [r \in Create |-> IF r \in R /\ Bound(r) THEN "closed" ELSE server[r]]

\* The entry stays in the map.
StopServer(r) ==
    /\ handler[r] = "found"
    /\ handler' = [handler EXCEPT ![r] = "done"]
    /\ Close({map[TunnelOf[r]]})
    /\ UNCHANGED <<sock, map>>

\* A disconnect that stops the servers it finds in the map.
DisconnectByMap(s) ==
    /\ sock[s] = "up"
    /\ sock' = [sock EXCEPT ![s] = "gone"]
    /\ Close({r \in Create : SockOf[r] = s /\ map[TunnelOf[r]] = r})
    /\ UNCHANGED <<handler, map>>

\* 'disconnect': every server object that was made with this socket stops.
Disconnect(s) ==
    /\ sock[s] = "up"
    /\ sock' = [sock EXCEPT ![s] = "gone"]
    /\ Close({r \in Create : SockOf[r] = s})
    /\ UNCHANGED <<handler, map>>

\* The server process dies and is started again.
Restart ==
    /\ (\E s \in Sock : sock[s] = "up") \/ (\E r \in Create : Bound(r))
    /\ sock' = [s \in Sock |-> IF sock[s] = "up" THEN "gone" ELSE sock[s]]
    /\ handler' = [r \in Create \cup Stop |->
                      IF handler[r] = "none" THEN "none" ELSE "done"]
    /\ Close(Create)
    /\ map' = [t \in Tunnel |-> Nobody]

Next ==
    \/ \E r \in Create \cup Stop : Request(r) \/ Answer(r)
    \/ \E r \in Create : Start(r)
    \/ \E r \in Stop : StopServer(r)
    \/ \E s \in Sock : Connect(s) \/ Disconnect(s)
    \/ Restart

Spec == Init /\ [][Next]_vars

-----------------------------------------------------------------------------
(* Properties                                                              *)

\* A server that keeps its port without the socket it would forward to.
Orphaned(r) == Bound(r) /\ sock[SockOf[r]] # "up"

\* A server becomes an orphan in one way only: it is made when its request
\* comes back from the database after the disconnect.  A disconnect leaves
\* none behind, not even one that is no longer in the map.
OrphanOnlyWhenLate ==
    [][\A r \in Create : (Orphaned(r)' /\ ~Orphaned(r)) =>
           handler[r] = "found" /\ sock[SockOf[r]] # "up"]_vars

\* The ports as leases of the abstract specification.
HolderOf(p) ==
    IF \E r \in Create : Bound(r) /\ PortOf[r] = p
      THEN CHOOSE r \in Create : Bound(r) /\ PortOf[r] = p
      ELSE Nobody

Lease == INSTANCE PortLease WITH
    Holder <- Create, Resource <- Port,
    lease <- [p \in Port |-> HolderOf(p)],
    served <- {r \in Create : server[r] \in {"bound", "closed"}}

\* UDP ports are leased like the TCP ports: one holder at a time, free before
\* they change hands, and no server gets its port twice.
UdpPortsAreLeases == Lease!Spec
=============================================================================
