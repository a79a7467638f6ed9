----------------------------- MODULE TcpTunnel -----------------------------
(***************************************************************************)
(* The control plane of the TCP bridge: TcpTunnelClient on the inner       *)
(* machine, TcpTunnelServer and its TcpServer on the public one.           *)
(*                                                                         *)
(* A TcpTunnelClient opens one control connection and asks, over it, for   *)
(* the public port of its tunnel ("authen").  The server looks the tunnel  *)
(* up in the database and then binds the port (createProxyServer) or       *)
(* tells the client to quit and drops the connection a second later.  The  *)
(* port is released by "stopTunnel" and by the loss of the connection.     *)
(* Both handlers suspend on the database, so everything else, the loss of  *)
(* the very connection they work for included, can happen meanwhile.       *)
(*                                                                         *)
(* Framing is left to module Framing: here a message arrives whole.        *)
(***************************************************************************)
EXTENDS Sequences, FiniteSets

CONSTANTS
    Conn,       \* control connections, one per TcpTunnelClient that is started
    Tunnel,     \* rows of the Tunnel table
    Port,       \* public ports
    TunnelOf,   \* TunnelOf[c]: the tunnel id that c's client asks for
    NoPort      \* no such row, or a row or client that is not available

ASSUME TunnelOfAssumption == TunnelOf \in [Conn -> Tunnel]
ASSUME NoPortAssumption == NoPort \notin Port /\ NoPort \notin Conn

VARIABLES
    row,        \* row[t]: remotePort of the available row t, or NoPort
    client,     \* client[c]: where the TcpTunnelClient of c is in its life
    wire,       \* wire[c]: what c's client wrote and the server has not read
    quit,       \* the connections to which quitClient was written and not read
    sock,       \* sock[c]: the server's end of c
    authen,     \* authen[c]: where the server's authen handler for c is
    stop,       \* stop[c]: where the server's stopTunnel handler for c is
    kill,       \* the connections whose 1000 ms destroy timer is running
    proxy,      \* proxy[c]: socket.proxyServer of c
    port        \* port[c]: the remotePort the authen handler of c has read

vars == <<row, client, wire, quit, sock, authen, stop, kill, proxy, port>>
server == <<sock, authen, stop, kill, proxy, port>>

\* "reset" stands for a broken connection: unread data is lost with it.
Message == {"authen", "stopTunnel", "fin", "reset"}
ClientState == {"new", "connecting", "timedOut", "idle", "running", "stopping", "ended"}
HandlerState == {"none", "querying", "found", "missing", "done"}

TypeOK ==
    /\ row \in [Tunnel -> Port \cup {NoPort}]
    /\ client \in [Conn -> ClientState]
    /\ wire \in [Conn -> Seq(Message)]
    /\ quit \in SUBSET Conn
    /\ sock \in [Conn -> {"none", "open", "ended", "destroyed"}]
    /\ authen \in [Conn -> HandlerState]
    /\ stop \in [Conn -> HandlerState]
    /\ kill \in SUBSET Conn
    /\ proxy \in [Conn -> {"none", "listening", "failed", "closed"}]
    /\ port \in [Conn -> Port \cup {NoPort}]

Listening(c) == proxy[c] = "listening"

\* As seen by somebody who only looks at the connections that still exist.
PortFreeOfLive(p) == \A d \in Conn : (Listening(d) /\ sock[d] = "open") => port[d] # p

\* The kernel refuses a second listener on a port (EADDRINUSE).
PortFree(p) == \A d \in Conn : Listening(d) => port[d] # p

\* proxyServer.close(): harmless on a server that is not listening.
CloseProxy(c) ==
    proxy' = IF Listening(c) THEN [proxy EXCEPT ![c] = "closed"] ELSE proxy

\* What a client writes on a connection the server has left is lost.
Write(c, m) ==
    wire' = IF sock[c] = "open" THEN [wire EXCEPT ![c] = Append(@, m)] ELSE wire

Init ==
    /\ row \in {r \in [Tunnel -> Port \cup {NoPort}] :
                    \A t, u \in Tunnel : (r[t] = r[u] /\ r[t] # NoPort) => t = u}
    /\ client = [c \in Conn |-> "new"]
    /\ wire = [c \in Conn |-> <<>>]
    /\ quit = {}
    /\ sock = [c \in Conn |-> "none"]
    /\ authen = [c \in Conn |-> "none"]
    /\ stop = [c \in Conn |-> "none"]
    /\ kill = {}
    /\ proxy = [c \in Conn |-> "none"]
    /\ port = [c \in Conn |-> NoPort]

-----------------------------------------------------------------------------
(* The database, as the web pages change it: a row can be added, moved to  *)
(* another port, disabled or deleted at any time; the index                *)
(* unique_port_for_server keeps two rows off one port.                     *)

SetRow(t, p) ==
    /\ p # NoPort => \A u \in Tunnel \ {t} : row[u] # p
    /\ row' = [row EXCEPT ![t] = p]
    /\ UNCHANGED <<client, wire, quit, server>>

-----------------------------------------------------------------------------
(* The client: TcpTunnelClient over TcpClient.                             *)

\* startTunnel, up to the await of tcpClient.start().
StartTunnel(c) ==
    /\ client[c] = "new"
    /\ client' = [client EXCEPT ![c] = "connecting"]
    /\ UNCHANGED <<row, wire, quit, server>>

\* TcpClient.start gives up after 2000 ms, but leaves the socket connecting.
StartTimeout(c) ==
    /\ client[c] = "connecting"
    /\ client' = [client EXCEPT ![c] = "timedOut"]
    /\ UNCHANGED <<row, wire, quit, server>>

\* The connection is accepted.  In time, startTunnel goes on and writes authen;
\* after the timeout nobody is left to use it, and it stays there, silent.
Connected(c) ==
    /\ client[c] \in {"connecting", "timedOut"}
    /\ sock' = [sock EXCEPT ![c] = "open"]
    /\ \/ /\ client[c] = "connecting"
          /\ client' = [client EXCEPT ![c] = "running"]
          /\ wire' = [wire EXCEPT ![c] = <<"authen">>]
       \/ /\ client[c] = "timedOut"
          /\ client' = [client EXCEPT ![c] = "idle"]
          /\ UNCHANGED wire
    /\ UNCHANGED <<row, quit, authen, stop, kill, proxy, port>>

\* stop(): stopTunnel is written at once, the socket is ended 100 ms later.
ClientStop(c) ==
    /\ client[c] = "running"
    /\ client' = [client EXCEPT ![c] = "stopping"]
    /\ Write(c, "stopTunnel")
    /\ UNCHANGED <<row, quit, server>>

ClientStopTimer(c) ==
    /\ client[c] = "stopping"
    /\ client' = [client EXCEPT ![c] = "ended"]
    /\ Write(c, "fin")
    /\ UNCHANGED <<row, quit, server>>

\* quitClient: the client ends the connection itself.
ReceiveQuit(c) ==
    /\ c \in quit
    /\ client[c] \in {"running", "stopping"}
    /\ quit' = quit \ {c}
    /\ client' = [client EXCEPT ![c] = "ended"]
    /\ Write(c, "fin")
    /\ UNCHANGED <<row, server>>

\* The server is gone: the socket ends (allowHalfOpen is false), nothing
\* reconnects it.
ClientSeesClose(c) ==
    /\ client[c] \in {"idle", "running", "stopping"}
    /\ sock[c] # "open"
    /\ client' = [client EXCEPT ![c] = "ended"]
    /\ UNCHANGED <<row, wire, quit, server>>

\* The client process exits: the kernel closes its sockets.
ClientDies(c) ==
    /\ client[c] \in {"connecting", "timedOut", "idle", "running", "stopping"}
    /\ client' = [client EXCEPT ![c] = "ended"]
    /\ Write(c, "fin")
    /\ UNCHANGED <<row, quit, server>>

\* The machine or the path between fails: what was under way is lost, and the
\* server learns it by keep-alive or a reset.
LinkBreaks(c) ==
    /\ sock[c] = "open"
    /\ wire[c] # <<"reset">>
    /\ client' = [client EXCEPT ![c] = "ended"]
    /\ wire' = [wire EXCEPT ![c] = <<"reset">>]
    /\ UNCHANGED <<row, quit, server>>

-----------------------------------------------------------------------------
(* The server: TcpServer reads, TcpTunnelServer answers.                   *)

Reads(c, m) ==
    /\ sock[c] = "open"
    /\ wire[c] # <<>>
    /\ Head(wire[c]) = m
    /\ wire' = [wire EXCEPT ![c] = Tail(@)]

\* authen, up to the await of _getTunnel.
ReadAuthen(c) ==
    /\ Reads(c, "authen")
    /\ authen' = [authen EXCEPT ![c] = "querying"]
    /\ UNCHANGED <<row, client, quit, sock, stop, kill, proxy, port>>

\* stopTunnel, up to the await of _getTunnel.
ReadStop(c) ==
    /\ Reads(c, "stopTunnel")
    /\ stop' = [stop EXCEPT ![c] = "querying"]
    /\ UNCHANGED <<row, client, quit, sock, authen, kill, proxy, port>>

\* The row itself, where the handlers expect whether there is one.
FoundRow(t) == row[t]

\* The database answers _getTunnel.
Found(t) == IF row[t] = NoPort THEN "missing" ELSE "found"

AnswerAuthen(c) ==
    /\ authen[c] = "querying"
    /\ authen' = [authen EXCEPT ![c] = Found(TunnelOf[c])]
    /\ port' = [port EXCEPT ![c] = row[TunnelOf[c]]]
    /\ UNCHANGED <<row, client, wire, quit, sock, stop, kill, proxy>>

AnswerStop(c) ==
    /\ stop[c] = "querying"
    /\ stop' = [stop EXCEPT ![c] = Found(TunnelOf[c])]
    /\ UNCHANGED <<row, client, wire, quit, sock, authen, kill, proxy, port>>

\* The query fails: the handler's promise is rejected and nobody hears of it.
QueryFails(c) ==
    /\ \/ /\ authen[c] = "querying"
          /\ authen' = [authen EXCEPT ![c] = "done"]
          /\ UNCHANGED stop
       \/ /\ stop[c] = "querying"
          /\ stop' = [stop EXCEPT ![c] = "done"]
          /\ UNCHANGED authen
    /\ UNCHANGED <<row, client, wire, quit, sock, kill, proxy, port>>

\* authen, after the await: bind the port, whether or not the connection is
\* still there; a port in use is only logged.
Authen(c) ==
    /\ authen[c] = "found"
    /\ authen' = [authen EXCEPT ![c] = "done"]
    /\ proxy' = [proxy EXCEPT ![c] = IF PortFree(port[c]) THEN "listening" ELSE "failed"]
    /\ UNCHANGED <<row, client, wire, quit, sock, stop, kill, port>>

\* A rejection that forgets to return and goes on to bind.
RejectAuthenFallsThrough(c) ==
    /\ authen[c] = "missing"
    /\ authen' = [authen EXCEPT ![c] = "done"]
    /\ quit' = IF sock[c] = "open" THEN quit \cup {c} ELSE quit
    /\ kill' = kill \cup {c}
    /\ proxy' = [proxy EXCEPT ![c] = "listening"]
    /\ UNCHANGED <<row, client, wire, sock, stop, port>>

\* A rejection that never drops the connection.
RejectAuthenWithoutTimer(c) ==
    /\ authen[c] = "missing"
    /\ authen' = [authen EXCEPT ![c] = "done"]
    /\ UNCHANGED <<row, client, wire, quit, sock, stop, kill, proxy, port>>

\* authen, after the await, when there is no tunnel.
RejectAuthen(c) ==
    /\ authen[c] = "missing"
    /\ authen' = [authen EXCEPT ![c] = "done"]
    /\ quit' = IF sock[c] = "open" THEN quit \cup {c} ELSE quit
    /\ kill' = kill \cup {c}
    /\ UNCHANGED <<row, client, wire, sock, stop, proxy, port>>

\* stopTunnel and stopTunnelProxyServer, after the await: socket.proxyServer
\* is undefined as long as authen has not created it.
StopTunnel(c) ==
    /\ stop[c] = "found"
    /\ stop' = [stop EXCEPT ![c] = "done"]
    /\ CloseProxy(c)
    /\ UNCHANGED <<row, client, wire, quit, sock, authen, kill, port>>

RejectStop(c) ==
    /\ stop[c] = "missing"
    /\ stop' = [stop EXCEPT ![c] = "done"]
    /\ kill' = kill \cup {c}
    /\ UNCHANGED <<row, client, wire, quit, sock, authen, proxy, port>>

\* A loss that forgets socket.proxyServer.
LoseWithoutClose(c) ==
    /\ Reads(c, "fin") \/ Reads(c, "reset")
    /\ sock' = [sock EXCEPT ![c] = "ended"]
    /\ UNCHANGED <<row, client, quit, authen, stop, kill, proxy, port>>

\* 'end' and 'error' of the socket: both emit socketLost, whose listener closes
\* socket.proxyServer, and destroy the socket.
SocketLost(c) ==
    /\ Reads(c, "fin") \/ Reads(c, "reset")
    /\ sock' = [sock EXCEPT ![c] = "ended"]
    /\ CloseProxy(c)
    /\ UNCHANGED <<row, client, quit, authen, stop, kill, port>>

\* The timer of a rejected connection: end and destroy.  The server's own
\* destroy raises neither 'end' nor 'error', so socketLost is not emitted.
Destroy(c) ==
    /\ c \in kill
    /\ kill' = kill \ {c}
    /\ IF sock[c] = "open"
         THEN /\ sock' = [sock EXCEPT ![c] = "destroyed"]
              /\ wire' = [wire EXCEPT ![c] = <<>>]
         ELSE UNCHANGED <<sock, wire>>
    /\ UNCHANGED <<row, client, quit, authen, stop, proxy, port>>

\* The server process dies and is started again: it keeps nothing.
Restart ==
    /\ \E c \in Conn : sock[c] = "open" \/ Listening(c)
    /\ sock' = [c \in Conn |-> IF sock[c] = "open" THEN "ended" ELSE sock[c]]
    /\ wire' = [c \in Conn |-> <<>>]
    /\ authen' = [c \in Conn |-> IF authen[c] = "none" THEN "none" ELSE "done"]
    /\ stop' = [c \in Conn |-> IF stop[c] = "none" THEN "none" ELSE "done"]
    /\ kill' = {}
    /\ proxy' = [c \in Conn |-> IF Listening(c) THEN "closed" ELSE proxy[c]]
    /\ UNCHANGED <<row, client, quit, port>>

-----------------------------------------------------------------------------

ClientStep(c) ==
    \/ StartTunnel(c) \/ StartTimeout(c) \/ Connected(c)
    \/ ClientStop(c) \/ ClientStopTimer(c) \/ ReceiveQuit(c)
    \/ ClientSeesClose(c) \/ ClientDies(c) \/ LinkBreaks(c)

AuthenStep(c) ==
    \/ ReadAuthen(c) \/ AnswerAuthen(c) \/ Authen(c) \/ RejectAuthen(c)

StopStep(c) ==
    \/ ReadStop(c) \/ AnswerStop(c) \/ StopTunnel(c) \/ RejectStop(c)

LossStep(c) == QueryFails(c) \/ SocketLost(c) \/ Destroy(c)

Next ==
    \/ \E t \in Tunnel, p \in Port \cup {NoPort} : SetRow(t, p)
    \/ \E c \in Conn : ClientStep(c) \/ AuthenStep(c) \/ StopStep(c) \/ LossStep(c)
    \/ Restart

Spec == Init /\ [][Next]_vars

\* What runs on its own: the sockets deliver, the database answers, the timers
\* fire.  Users, web pages, crashes and timeouts of startTunnel are not fair.
Fairness ==
    \A c \in Conn :
        /\ WF_vars(ReadAuthen(c)) /\ WF_vars(AnswerAuthen(c))
        /\ WF_vars(Authen(c)) /\ WF_vars(RejectAuthen(c))
        /\ WF_vars(ReadStop(c)) /\ WF_vars(AnswerStop(c))
        /\ WF_vars(StopTunnel(c)) /\ WF_vars(RejectStop(c))
        /\ WF_vars(SocketLost(c)) /\ WF_vars(Destroy(c))
        /\ WF_vars(ClientStopTimer(c)) /\ WF_vars(ReceiveQuit(c))

FairSpec == Spec /\ Fairness

-----------------------------------------------------------------------------
(* Properties                                                              *)

\* A port nobody can release any more: its connection is over, and socketLost
\* and stopTunnel, the two places that close proxyServer, need the connection.
Orphaned(c) == Listening(c) /\ sock[c] # "open"

\* The connections the server has turned away: it has read authen, found no
\* row, and has told the client to quit.
TurnedAway(c) == authen[c] = "done" /\ port[c] = NoPort

\* No port is ever bound for a connection whose authen found no row, whatever
\* happens to the row meanwhile (TcpTunnelServer.authen returns before
\* createProxyServer).
TurnedAwayHoldsNothing ==
    \A c \in Conn : (TurnedAway(c) \/ c \in quit) => proxy[c] = "none"

\* A port becomes an orphan in exactly two ways: authen comes back from the
\* database when the connection is already over, or the server's own timer
\* destroys a connection that holds a port, which does not emit socketLost.
\* Every other way a connection can end releases its port.
OrphanOnlyByRace ==
    [][\A c \in Conn : (Orphaned(c)' /\ ~Orphaned(c)) =>
           \/ authen[c] = "found" /\ sock[c] # "open"
           \/ c \in kill /\ sock[c] = "open"]_vars

\* A client that stops, exits or breaks off gets its port released, unless the
\* server destroys the connection before it reads the end of it: stopTunnel may
\* be refused, the query may fail, and the end of the connection still does it.
EndFreesPort ==
    \A c \in Conn :
        (Listening(c) /\ client[c] \in {"stopping", "ended"} /\ sock[c] = "open")
            ~> (~Listening(c) \/ sock[c] = "destroyed")

\* A client that was refused is disconnected in the end, even one that does not
\* react to quitClient.
RefusedIsDropped ==
    \A c \in Conn : (authen[c] = "missing") ~> (sock[c] # "open")

\* The ports as leases of the abstract specification.
HolderOf(p) ==
    IF \E c \in Conn : Listening(c) /\ port[c] = p
      THEN CHOOSE c \in Conn : Listening(c) /\ port[c] = p
      ELSE NoPort

LeaseMap == [p \in Port |-> HolderOf(p)]
ServedSet == {c \in Conn : proxy[c] \in {"listening", "closed"}}

Lease == INSTANCE PortLease WITH
    Holder <- Conn, Resource <- Port, Nobody <- NoPort,
    lease <- LeaseMap, served <- ServedSet

\* The bridge implements PortLease: a port has one holder at a time, is free
\* before it changes hands, and is given to a connection once.
PortsAreLeases == Lease!Spec
=============================================================================
