------------------------------- MODULE UdpPath -------------------------------
(***************************************************************************)
(* A UDP tunnel from its row to the client: the updates and the deletion   *)
(* of the row (Routers/Tunnel.js), the notifications, the client's         *)
(* instances of UdpTunnelClient (client.js, UdpTunnelClient.js), their     *)
(* requests, and the servers of UdpTunnel.                                 *)
(*                                                                         *)
(* Every update of the row makes a version of it, and the client at most   *)
(* one instance for a version.  The pages run one after the other here,    *)
(* TunnelControl interleaves them.  Requests of other clients are the      *)
(* requests of UdpTunnel that are not of this tunnel.                      *)
(***************************************************************************)
EXTENDS UdpTunnel, Naturals, Sequences

CONSTANTS
    Mine,       \* the tunnel
    Own,        \* the sockets of its client, one after the other
    Version,    \* versions of the row, 1 .. n
    Ask,        \* Ask[<<kind, v, s>>]: the request "create" or "stop" that the
                \* instance for version v sends over socket s
    None        \* no version, no instance

Kinds == {"create", "stop"}

ASSUME PathAssumption ==
    /\ Own \subseteq Sock /\ Mine \in Tunnel
    /\ Version \subseteq Nat /\ 1 \in Version
    /\ None \notin Version
    /\ \A v \in Version, s \in Own :
          /\ Ask[<<"create", v, s>>] \in Create /\ Ask[<<"stop", v, s>>] \in Stop
          /\ \A kind \in Kinds : /\ SockOf[Ask[<<kind, v, s>>]] = s
                                 /\ TunnelOf[Ask[<<kind, v, s>>]] = Mine
    /\ \A v, w \in Version, s, z \in Own, kind \in Kinds :
          Ask[<<kind, v, s>>] = Ask[<<kind, w, z>>] => v = w /\ s = z
    /\ \A r \in Create \cup Stop : TunnelOf[r] = Mine =>
          \E kind \in Kinds, v \in Version, s \in Own : r = Ask[<<kind, v, s>>]

OwnCreate == {r \in Create : TunnelOf[r] = Mine}
OwnStop == {r \in Stop : TunnelOf[r] = Mine}
Foreign == Create \ OwnCreate

VARIABLES
    row,        \* the version of the row, or None once it is deleted
    timer,      \* versions that a 1000 ms timer will announce by ADD_TUNNEL
    inbox,      \* messages on their way to the client
    outbox,     \* requests on their way to the server
    main,       \* where the client's main is
    todo,       \* the version that main has fetched
    inst,       \* ALL_TUNNEL_MAP.get(id): the version of the instance
    hears,      \* the instances that have a listener for the tunnel's datagrams
    stopped,    \* the instances that were stopped
    rushed      \* history: something failed, or began before the last was over

page == <<row, timer>>
client == <<main, todo, inst, hears, stopped>>
wire == <<inbox, outbox>>
servers == <<sock, handler, server, map>>
pathVars == <<servers, page, client, wire, rushed>>

Message == {<<"DELETE_TUNNEL">>} \cup ({"ADD_TUNNEL", "refused"} \X Version)

ClientTypeOK ==
    /\ row \in Version \cup {None} /\ timer \subseteq Version
    /\ inbox \in Seq(Message) /\ outbox \in Seq(Kinds \X Version)
    /\ main \in {"off", "fetched", "up"}
    /\ todo \in Version \cup {None} /\ inst \in Version \cup {None}
    /\ hears \subseteq Version /\ stopped \subseteq Version
    /\ rushed \in BOOLEAN

PathTypeOK == TypeOK /\ ClientTypeOK

PathInit ==
    /\ Init
    /\ row = 1 /\ timer = {}
    /\ inbox = <<>> /\ outbox = <<>>
    /\ main = "off" /\ todo = None /\ inst = None
    /\ hears = {} /\ stopped = {}
    /\ rushed = FALSE

-----------------------------------------------------------------------------

Online == \E s \in Own : sock[s] = "up"

\* Nothing of this tunnel is under way.
Quiet ==
    /\ timer = {} /\ inbox = <<>> /\ outbox = <<>>
    /\ main \in {"off", "up"}
    /\ \A r \in OwnCreate \cup OwnStop : handler[r] \in {"none", "done"}

Begins == rushed' = (rushed \/ ~Quiet)

\* notify2Client: a client that is not there is not told.
Notify(m) == inbox' = IF Online THEN Append(inbox, m) ELSE inbox

\* The ports of a version of the row, and the requests of other tunnels that
\* have a port, or get one if it is free.
PortsOf(v) == {PortOf[Ask[<<"create", v, s>>]] : s \in Own}
Others == {r \in Foreign : handler[r] \in {"querying", "found"} \/ Bound(r)}

\* The servers of the tunnel that have a port and a socket to forward to.
Serving == {r \in OwnCreate : Bound(r) /\ sock[SockOf[r]] = "up"}

-----------------------------------------------------------------------------
(* The pages                                                               *)

\* A DELETE_TUNNEL with the row.
UpdateTellsRow ==
    /\ row # None
    /\ row + 1 \in Version
    /\ \A r \in Others : PortOf[r] \notin PortsOf(row + 1)
    /\ row' = row + 1
    /\ timer' = timer \cup {row + 1}
    /\ Notify(<<"DELETE_TUNNEL", row>>)
    /\ Begins
    /\ UNCHANGED <<servers, client, outbox>>

\* An update that leaves it at the DELETE_TUNNEL.
UpdateStopsOnly ==
    /\ row # None
    /\ row + 1 \in Version
    /\ \A r \in Others : PortOf[r] \notin PortsOf(row + 1)
    /\ row' = row + 1
    /\ Notify(<<"DELETE_TUNNEL">>)
    /\ Begins
    /\ UNCHANGED <<servers, timer, client, outbox>>

\* The row gets other settings, unless their port is in use or in the row of
\* another tunnel; the client shall stop the tunnel now, and start it a second
\* later.
Update ==
    /\ row # None
    /\ row + 1 \in Version
    /\ \A r \in Others : PortOf[r] \notin PortsOf(row + 1)
    /\ row' = row + 1
    /\ timer' = timer \cup {row + 1}
    /\ Notify(<<"DELETE_TUNNEL">>)
    /\ Begins
    /\ UNCHANGED <<servers, client, outbox>>

\* The second is over.  It was too short if the stop is not done by then.
Fire(v) ==
    /\ v \in timer
    /\ timer' = timer \ {v}
    /\ Notify(<<"ADD_TUNNEL", v>>)
    /\ rushed' = (rushed \/ inbox # <<>> \/ outbox # <<>>
                     \/ \E r \in OwnStop : handler[r] \notin {"none", "done"})
    /\ UNCHANGED <<servers, row, client, outbox>>

\* The row goes before the client is told.
Delete ==
    /\ row # None
    /\ row' = None
    /\ Notify(<<"DELETE_TUNNEL">>)
    /\ Begins
    /\ UNCHANGED <<servers, timer, client, outbox>>

-----------------------------------------------------------------------------
(* The client                                                              *)

Fetch ==
    /\ main = "off" /\ row # None
    /\ main' = "fetched"
    /\ todo' = row
    /\ Begins
    /\ UNCHANGED <<servers, page, inst, hears, stopped, wire>>

\* socket.io connects, again if need be; the old socket is gone by then
\* (Session).  What the client has waited to send goes over the new one.
LogIn(s) ==
    /\ s \in Own /\ main # "off" /\ ~Online
    /\ Connect(s)
    /\ UNCHANGED <<page, client, wire, rushed>>

\* emit: buffered without a connection, or lost with one that is dead.
Emit(q) ==
    \/ outbox' = Append(outbox, q)
    \/ ~Online /\ UNCHANGED outbox

\* An instance listens as soon as it is made, then asks for its server.
Make(v) ==
    /\ hears' = hears \cup {v}
    /\ inst' = v
    /\ Emit(<<"create", v>>)
    /\ UNCHANGED stopped

\* stop(): off(eventName) takes the listeners of all instances.  A second stop
\* asks for the same again, for a row that is gone: it is left out.
StopInst(v) ==
    /\ hears' = {}
    /\ stopped' = stopped \cup {v}
    /\ IF v \in stopped THEN UNCHANGED outbox ELSE Emit(<<"stop", v>>)

StartTunnels ==
    /\ main = "fetched" /\ \E s \in Own : sock[s] # "new"
    /\ main' = "up"
    /\ Make(todo)
    /\ UNCHANGED <<servers, page, todo, inbox, rushed>>

ReceiveAdd ==
    /\ main = "up" /\ inbox # <<>> /\ Head(inbox)[1] = "ADD_TUNNEL"
    /\ inbox' = Tail(inbox)
    /\ Make(Head(inbox)[2])
    /\ UNCHANGED <<servers, page, main, todo, rushed>>

\* Out of the map, without stop().
ReceiveDeleteMapOnly ==
    /\ main # "off" /\ inbox # <<>> /\ Head(inbox)[1] = "DELETE_TUNNEL"
    /\ inbox' = Tail(inbox)
    /\ inst' = None
    /\ UNCHANGED <<servers, page, main, todo, hears, stopped, outbox, rushed>>

\* What is in the map is stopped; before main has started it, nothing is there.
ReceiveDelete ==
    /\ main # "off" /\ inbox # <<>> /\ Head(inbox)[1] = "DELETE_TUNNEL"
    /\ inbox' = Tail(inbox)
    /\ IF inst = None THEN UNCHANGED <<hears, stopped, outbox>> ELSE StopInst(inst)
    /\ inst' = None
    /\ UNCHANGED <<servers, page, main, todo, rushed>>

\* The server has refused to create: the instance stops, but stays in the map.
ReceiveRefused ==
    /\ inbox # <<>> /\ Head(inbox)[1] = "refused"
    /\ inbox' = Tail(inbox)
    /\ StopInst(Head(inbox)[2])
    /\ UNCHANGED <<servers, page, main, todo, inst, rushed>>

-----------------------------------------------------------------------------
(* The server                                                              *)

Arrive(kind, v, s) ==
    /\ outbox # <<>> /\ Head(outbox) = <<kind, v>>
    /\ Request(Ask[<<kind, v, s>>])
    /\ outbox' = Tail(outbox)
    /\ UNCHANGED <<page, client, inbox, rushed>>

\* A handler that says so when the query fails.
Ask4RowTells(kind, v, s) ==
    /\ Answer(Ask[<<kind, v, s>>])
    /\ \/ /\ handler'[Ask[<<kind, v, s>>]] = "found" /\ row # None
          /\ UNCHANGED <<inbox, rushed>>
       \/ /\ handler'[Ask[<<kind, v, s>>]] = "done"
          /\ inbox' = IF kind = "create" /\ sock[s] = "up"
                        THEN Append(inbox, <<"refused", v>>) ELSE inbox
          /\ rushed' = (rushed \/ row # None)
    /\ UNCHANGED <<page, client, outbox>>

\* The query of a request of this tunnel finds the row, or it does not and the
\* client is told; or it fails and nobody is told.
Ask4Row(kind, v, s) ==
    /\ Answer(Ask[<<kind, v, s>>])
    /\ \/ /\ handler'[Ask[<<kind, v, s>>]] = "found" /\ row # None
          /\ UNCHANGED <<inbox, rushed>>
       \/ /\ handler'[Ask[<<kind, v, s>>]] = "done" /\ row = None
          /\ inbox' = IF kind = "create" /\ sock[s] = "up"
                        THEN Append(inbox, <<"refused", v>>) ELSE inbox
          /\ UNCHANGED rushed
       \/ /\ handler'[Ask[<<kind, v, s>>]] = "done"
          /\ rushed' = TRUE
          /\ UNCHANGED inbox
    /\ UNCHANGED <<page, client, outbox>>

\* Steps of the servers that nobody else sees.
Serve ==
    /\ (\E r \in Create : Start(r)) \/ (\E r \in Stop : StopServer(r))
    /\ UNCHANGED <<page, client, wire, rushed>>

\* What was on its way is lost.
Lost == inbox' = <<>> /\ outbox' = <<>> /\ rushed' = TRUE

LogOut(s) ==
    /\ Disconnect(s)
    /\ IF s \in Own THEN Lost ELSE UNCHANGED <<wire, rushed>>
    /\ UNCHANGED <<page, client>>

Crash ==
    /\ Restart
    /\ Lost
    /\ timer' = {}
    /\ UNCHANGED <<row, client>>

\* Another tunnel has the port, after this one has left it.
OthersRequest(r) ==
    /\ r \in Foreign
    /\ row # None => PortOf[r] \notin PortsOf(row)
    /\ Request(r)
    /\ UNCHANGED <<page, client, wire, rushed>>

OthersStep ==
    /\ \/ \E s \in Sock \ Own : Connect(s)
       \/ \E r \in Foreign \cup (Stop \ OwnStop) : Answer(r)
    /\ UNCHANGED <<page, client, wire, rushed>>

PathNext ==
    \/ Update \/ Delete \/ \E v \in Version : Fire(v)
    \/ Fetch \/ StartTunnels \/ ReceiveAdd \/ ReceiveDelete \/ ReceiveRefused
    \/ \E s \in Own : LogIn(s)
    \/ \E kind \in Kinds, v \in Version, s \in Own :
          Arrive(kind, v, s) \/ Ask4Row(kind, v, s)
    \/ \E s \in Sock : LogOut(s)
    \/ Crash
    \/ \E r \in Foreign : OthersRequest(r)
    \/ Serve \/ OthersStep

PathSpec == PathInit /\ [][PathNext]_pathVars

-----------------------------------------------------------------------------
(* Properties                                                              *)

\* off(eventName) takes the listeners of all instances of the tunnel.  All the
\* same the newest instance is never deaf while its row is there: only a stop
\* of itself, or of one whose row is gone, can take its listener.
NewestHears == (inst # None /\ row # None) => inst \in hears

\* A visitor of the tunnel reaches the service of another version of it, by a
\* server that is left or a listener that is left, only if something was begun
\* before the last thing was over, or failed.
OwnService ==
    (\E r \in Serving, w \in hears : PortOf[r] # PortOf[Ask[<<"create", w, SockOf[r]>>]])
        => rushed

\* One thing after the other: when all is quiet, the row, the instance, its
\* listener and its server are of one version; without a row nobody listens.
PathMirrorsRow ==
    (Quiet /\ ~rushed /\ main = "up" /\ Online) =>
        IF row = None
          THEN inst = None /\ hears = {}
          ELSE /\ inst = row /\ hears = {row}
               /\ \E s \in Own : Serving = {Ask[<<"create", row, s>>]}

\* The comment that a server maintains its own life cycle: when all is quiet, a
\* tunnel that is deleted has no server.
LifecycleMaintained == (Quiet /\ ~rushed /\ row = None) => Serving = {}
=============================================================================
