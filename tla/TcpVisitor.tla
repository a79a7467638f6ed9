----------------------------- MODULE TcpVisitor -----------------------------
(***************************************************************************)
(* The data plane of the TCP bridge.  A visitor of a public port gets a    *)
(* middle server of its own, on a port the operating system picks; the     *)
(* port number is sent over the control connection (newClientComming); the *)
(* client connects to the local service, then to the middle port, and the  *)
(* two connections are piped together.                                     *)
(*                                                                         *)
(* The announcement carries nothing but the port number, and the client    *)
(* takes its time: when it dials, the visitor may have left, its middle    *)
(* server with it, and the number may belong to another visitor.           *)
(***************************************************************************)
CONSTANTS
    Conn,       \* control connections that have a public port
    Visitor,    \* connections to the public ports
    HomeOf,     \* HomeOf[v]: the control connection whose port v connects to
    MPort,      \* port numbers the operating system has for middle servers
    NoMPort,    \* no middle server yet
    Nobody      \* no visitor

ASSUME HomeOfAssumption == HomeOf \in [Visitor -> Conn]
ASSUME NobodyAssumption == Nobody \notin Visitor
ASSUME NoMPortAssumption == NoMPort \notin MPort

VARIABLES
    accepting,  \* the control connections whose proxyServer listens
    linked,     \* the control connections that still exist
    vis,        \* vis[v]: the proxySocket of v
    middle,     \* the visitors whose middleServer listens
    mport,      \* mport[v]: the port of v's middleServer, and what was announced
    task,       \* task[v]: what the client does about the announcement of v
    peer        \* peer[v]: whose middleServer took the connection of task v

vars == <<accepting, linked, vis, middle, mport, task, peer>>

TaskState == {"none", "announced", "local", "dialing", "joined", "stuck", "ending", "over"}

TypeOK ==
    /\ accepting \in SUBSET Conn
    /\ linked \in SUBSET Conn
    /\ vis \in [Visitor -> {"new", "open", "ending", "left", "reset"}]
    /\ middle \in SUBSET Visitor
    /\ mport \in [Visitor -> MPort \cup {NoMPort}]
    /\ task \in [Visitor -> TaskState]
    /\ peer \in [Visitor -> Visitor \cup {Nobody}]

\* The local connections piped to visitor w.
Feeds(w) == {v \in Visitor : task[v] = "joined" /\ peer[v] = w}

\* A control connection may be lost and its port stay bound: see TcpTunnel.
Init ==
    /\ accepting = Conn
    /\ linked \in SUBSET Conn
    /\ vis = [v \in Visitor |-> "new"]
    /\ middle = {}
    /\ mport = [v \in Visitor |-> NoMPort]
    /\ task = [v \in Visitor |-> "none"]
    /\ peer = [v \in Visitor |-> Nobody]

-----------------------------------------------------------------------------
(* The control connection, as far as visitors notice it.  Closing the      *)
(* proxyServer leaves the visitors it has accepted alone.                  *)

\* The reading of a middle server as one that serves its visitor's client for
\* the length of the tunnel: closed with the proxyServer.
StopAcceptingClosesMiddle(c) ==
    /\ c \in accepting
    /\ accepting' = accepting \ {c}
    /\ middle' = {v \in middle : HomeOf[v] # c}
    /\ UNCHANGED <<linked, vis, mport, task, peer>>

StopAccepting(c) ==
    /\ c \in accepting
    /\ accepting' = accepting \ {c}
    /\ UNCHANGED <<linked, vis, middle, mport, task, peer>>

LoseLink(c) ==
    /\ c \in linked
    /\ linked' = linked \ {c}
    /\ accepting' \in {accepting, accepting \ {c}}
    /\ UNCHANGED <<vis, middle, mport, task, peer>>

\* The client process exits: all its sockets end, and the middle sockets end
\* the visitors they were piped to.
ClientExits(c) ==
    /\ c \in linked
    /\ linked' = linked \ {c}
    /\ accepting' \in {accepting, accepting \ {c}}
    /\ task' = [v \in Visitor |->
                   IF HomeOf[v] = c /\ task[v] # "none" THEN "over" ELSE task[v]]
    /\ vis' = [w \in Visitor |->
                  IF vis[w] = "open" /\ \E v \in Feeds(w) : HomeOf[v] = c
                    THEN "ending" ELSE vis[w]]
    /\ UNCHANGED <<middle, mport, peer>>

-----------------------------------------------------------------------------
(* The server.                                                             *)

\* A port number the operating system may give out: nobody listens on it.
FreeMPorts == {m \in MPort : \A w \in middle : mport[w] # m}

\* proxyServer's connection handler, with the listen callback of the middle
\* server.  On a lost control connection the announcement goes nowhere.
Accept(v) ==
    /\ vis[v] = "new"
    /\ HomeOf[v] \in accepting
    /\ \E m \in FreeMPorts : mport' = [mport EXCEPT ![v] = m]
    /\ vis' = [vis EXCEPT ![v] = "open"]
    /\ middle' = middle \cup {v}
    /\ IF HomeOf[v] \in linked
         THEN task' = [task EXCEPT ![v] = "announced"]
         ELSE UNCHANGED task
    /\ UNCHANGED <<accepting, linked, peer>>

\* A middle server that is closed without its visitor.
VisitorEndsHalf(v) ==
    /\ vis[v] \in {"open", "ending"}
    /\ vis' = [vis EXCEPT ![v] = "left"]
    /\ task' = [u \in Visitor |-> IF u \in Feeds(v) THEN "ending" ELSE task[u]]
    /\ UNCHANGED <<accepting, linked, middle, mport, peer>>

\* 'end' of the proxySocket: it is destroyed, the middle server is closed, and
\* the pipe ends the middle socket.
VisitorEnds(v) ==
    /\ vis[v] \in {"open", "ending"}
    /\ vis' = [vis EXCEPT ![v] = "left"]
    /\ middle' = middle \ {v}
    /\ task' = [u \in Visitor |-> IF u \in Feeds(v) THEN "ending" ELSE task[u]]
    /\ UNCHANGED <<accepting, linked, mport, peer>>

\* 'close' after an error: the same, but a pipe does not pass an error on, and
\* the middle socket and the local connection stay.
VisitorResets(v) ==
    /\ vis[v] \in {"open", "ending"}
    /\ vis' = [vis EXCEPT ![v] = "reset"]
    /\ middle' = middle \ {v}
    /\ UNCHANGED <<accepting, linked, mport, task, peer>>

-----------------------------------------------------------------------------
(* The client.                                                             *)

\* newClientComming arrives: connect to the local service first.
Receive(v) ==
    /\ task[v] = "announced"
    /\ task' = [task EXCEPT ![v] = "local"]
    /\ UNCHANGED <<accepting, linked, vis, middle, mport, peer>>

\* localSocket connects, and its handler starts to connect the middleSocket; or
\* it fails, which nobody handles, and the middle port is never dialled.
LocalConnects(v) ==
    /\ task[v] = "local"
    /\ task' \in {[task EXCEPT ![v] = "dialing"], [task EXCEPT ![v] = "over"]}
    /\ UNCHANGED <<accepting, linked, vis, middle, mport, peer>>

Answering(m) == {w \in middle : mport[w] = m}

\* A connection that every server of that number takes.
DialAll(v) ==
    /\ task[v] = "dialing"
    /\ task' = [task EXCEPT ![v] = "joined"]
    /\ peer' = [peer EXCEPT ![v] = Answering(mport[v])]
    /\ UNCHANGED <<accepting, linked, vis, middle, mport>>

\* A middle server that does not set maxConnections.
DialUnlimited(v) ==
    /\ task[v] = "dialing"
    /\ \E w \in Answering(mport[v]) :
          /\ task' = [task EXCEPT ![v] = "joined"]
          /\ peer' = [peer EXCEPT ![v] = w]
    /\ UNCHANGED <<accepting, linked, vis, middle, mport>>

\* The middle port is dialled: whoever listens there now takes the connection,
\* a middle server that has one drops it (maxConnections = 1), and if nobody
\* listens the error is not handled and the local connection is left.
Dial(v) ==
    /\ task[v] = "dialing"
    /\ \/ \E w \in Answering(mport[v]) :
             /\ Feeds(w) = {}
             /\ task' = [task EXCEPT ![v] = "joined"]
             /\ peer' = [peer EXCEPT ![v] = w]
       \/ /\ \E w \in Answering(mport[v]) : Feeds(w) # {}
          /\ task' = [task EXCEPT ![v] = "ending"]
          /\ UNCHANGED peer
       \/ /\ Answering(mport[v]) = {}
          /\ task' = [task EXCEPT ![v] = "stuck"]
          /\ UNCHANGED peer
    /\ UNCHANGED <<accepting, linked, vis, middle, mport>>

\* 'end' of the middleSocket: it is destroyed, the pipe ends the localSocket.
MiddleEnds(v) ==
    /\ task[v] = "ending"
    /\ task' = [task EXCEPT ![v] = "over"]
    /\ UNCHANGED <<accepting, linked, vis, middle, mport, peer>>

\* 'end' of the localSocket: the middleSocket is destroyed, which ends the
\* visitor it is piped to; the middle server stays until the visitor is gone.
LocalEnds(v) ==
    /\ task[v] \in {"dialing", "joined", "stuck"}
    /\ task' = [task EXCEPT ![v] = "over"]
    /\ vis' = [w \in Visitor |->
                  IF v \in Feeds(w) /\ vis[w] = "open" THEN "ending" ELSE vis[w]]
    /\ UNCHANGED <<accepting, linked, middle, mport, peer>>

Next ==
    \/ \E c \in Conn : StopAccepting(c) \/ LoseLink(c) \/ ClientExits(c)
    \/ \E v \in Visitor :
          \/ Accept(v) \/ VisitorEnds(v) \/ VisitorResets(v)
          \/ Receive(v) \/ LocalConnects(v) \/ Dial(v)
          \/ MiddleEnds(v) \/ LocalEnds(v)

Spec == Init /\ [][Next]_vars

-----------------------------------------------------------------------------
(* Properties                                                              *)

Here(v) == vis[v] \in {"open", "ending"}

\* A middle server listens as long as its visitor is there, and not longer:
\* neither the end of the tunnel nor that of the local service takes it away,
\* and no visitor leaves one behind.
MiddleFollowsVisitor == \A v \in Visitor : v \in middle <=> Here(v)

\* Two local connections are never piped to one visitor, not even when a late
\* client dials a port number that has found a new owner (maxConnections).
OneLocalPerVisitor == \A w \in Visitor : \A u, v \in Feeds(w) : u = v

\* A local connection reaches another visitor than the one it was made for only
\* if that one had left before the client dialled: while a visitor waits, its
\* port number cannot be anybody else's.
OnlyTheLateGoAstray ==
    [][\A v \in Visitor :
           (task[v] # "joined" /\ task'[v] = "joined" /\ peer'[v] # v) => ~Here(v)]_vars
=============================================================================
