------------------------------ MODULE P2PLink ------------------------------
(***************************************************************************)
(* P2P connectors (client.js, Commander.js).  An application connects to   *)
(* the local port of a connector; its client reports the address of a UTP  *)
(* node to the tracker, asks the target's client through the server and    *)
(* redis to open a UTP server, both punch holes, and the local connection  *)
(* is piped through UTP.  When the target says no, or the connector's hole *)
(* is not punched, the local connection is led to the public port of the   *)
(* tunnel instead (failoverTcp).                                           *)
(*                                                                         *)
(* The socket.io connections of the clients come and go; each end is told  *)
(* to all others as client.disconnect, and they drop the links to it.      *)
(* A UTP node that is closed calls nothing back any more.                  *)
(***************************************************************************)
CONSTANTS
    Local,      \* local connections
    Client,     \* clients
    Target,     \* the client of the tunnel the connectors lead to
    Owner       \* Owner[l]: the client whose connector accepts l

ASSUME ClientAssumption ==
    /\ Target \in Client
    /\ Owner \in [Local -> Client \ {Target}]

VARIABLES
    local,      \* local[l]: tcpSocket of the connector, seen by its client
    node,       \* node[l]: the connector's UTP node and its callbacks
    talk,       \* talk[l]: where P2P_REQUEST_OPEN and its answer are
    ans,        \* ans[l]: the answer of the target
    peer,       \* peer[l]: the target's UTP server with its TCP client
    fail,       \* fail[l]: the TCP client of failoverTcp
    session,    \* session[c]: socket.io connection of c, seen by the server
    orphan,     \* requests whose asking socket is gone
    notice,     \* notice[c]: clients of whose disconnect c is being told
    running,    \* clients whose connector listens
    late,       \* history: failoverTcp was called after tcpSocket had closed
    unheard,    \* history: nobody told l's callbacks how things ended
    hit,        \* history: links that a client.disconnect closed
    gone        \* history: clients of which a socket has disconnected

vars == <<local, node, talk, ans, peer, fail, session, orphan, notice, running,
          late, unheard, hit, gone>>

LocalState == {"none", "open", "left", "ended", "closed"}
NodeState == {"none", "reporting", "asking", "punching", "dialing", "linked", "closed"}
TalkState == {"none", "queued", "fetching", "request", "open", "answer", "key",
              "ack", "over", "lost"}
PeerState == {"none", "reporting", "punching", "waiting", "serving", "closed"}
FailState == {"none", "dialing", "up", "closed"}

TypeOK ==
    /\ local \in [Local -> LocalState]
    /\ node \in [Local -> NodeState]
    /\ talk \in [Local -> TalkState]
    /\ ans \in [Local -> {"none", "yes", "no"}]
    /\ peer \in [Local -> PeerState]
    /\ fail \in [Local -> FailState]
    /\ session \in [Client -> {"down", "deciding", "ready"}]
    /\ notice \in [Client -> SUBSET Client]
    /\ orphan \subseteq Local /\ late \subseteq Local
    /\ unheard \subseteq Local /\ hit \subseteq Local
    /\ running \subseteq Client /\ gone \subseteq Client

Init ==
    /\ local = [l \in Local |-> "none"]
    /\ node = [l \in Local |-> "none"]
    /\ talk = [l \in Local |-> "none"]
    /\ ans = [l \in Local |-> "none"]
    /\ peer = [l \in Local |-> "none"]
    /\ fail = [l \in Local |-> "none"]
    /\ session = [c \in Client |-> "ready"]
    /\ notice = [c \in Client |-> {}]
    /\ running = Client \ {Target}
    /\ orphan = {} /\ late = {} /\ unheard = {} /\ hit = {} /\ gone = {}

Alive(l) == local[l] \in {"open", "left", "ended"}
Failing(l) == fail[l] \in {"dialing", "up"}
Piped(l) == node[l] = "linked" \/ fail[l] = "up"

local_vars == <<local, node, fail>>
talk_vars == <<talk, ans, orphan>>
session_vars == <<session, notice, gone>>
history == <<late, unheard, hit>>

-----------------------------------------------------------------------------
(* The local connection                                                    *)

\* 'connection' of the connector's server: the handlers of tcpSocket are set.
Accept(l) ==
    /\ Owner[l] \in running
    /\ local[l] = "none"
    /\ local' = [local EXCEPT ![l] = "open"]
    /\ node' = [node EXCEPT ![l] = "reporting"]
    /\ UNCHANGED <<fail, talk_vars, peer, session_vars, running, history>>

\* A failover that does not follow its tcpSocket.
CloseLocalsOnly(L) ==
    /\ local' = [l \in Local |-> IF l \in L THEN "closed" ELSE local[l]]
    /\ node' = [l \in Local |-> IF l \in L THEN "closed" ELSE node[l]]
    /\ UNCHANGED fail

\* 'close' of tcpSocket, for its own handler and the one of failoverTcp.
CloseLocals(L) ==
    /\ local' = [l \in Local |-> IF l \in L THEN "closed" ELSE local[l]]
    /\ node' = [l \in Local |-> IF l \in L THEN "closed" ELSE node[l]]
    /\ fail' = [l \in Local |-> IF l \in L /\ Failing(l) THEN "closed" ELSE fail[l]]

\* The application ends or resets the connection and 'end' or 'error' says so.
LocalEnds(l) ==
    /\ local[l] \in {"open", "ended"}
    /\ CloseLocals({l})
    /\ UNCHANGED <<talk_vars, peer, session_vars, running, history>>

\* It ends with bytes still unread: 'end' waits until tcpSocket is piped.
LocalLeaves(l) ==
    /\ local[l] = "open" /\ ~Piped(l)
    /\ local' = [local EXCEPT ![l] = "left"]
    /\ UNCHANGED <<node, fail, talk_vars, peer, session_vars, running, history>>

EndIsSeen(l) ==
    /\ local[l] = "left" /\ Piped(l)
    /\ CloseLocals({l})
    /\ UNCHANGED <<talk_vars, peer, session_vars, running, history>>

\* DELETE_CONNECTOR: stop() destroys what the connector still has.
DeleteConnector(c) ==
    /\ c \in running
    /\ running' = running \ {c}
    /\ CloseLocals({l \in Local : Owner[l] = c /\ Alive(l)})
    /\ UNCHANGED <<talk_vars, peer, session_vars, history>>

-----------------------------------------------------------------------------
(* The connector's node                                                    *)

\* The tracker answers: the request is emitted.
TrackerAnswers(l) ==
    /\ node[l] = "reporting"
    /\ node' = [node EXCEPT ![l] = "asking"]
    /\ talk' = [talk EXCEPT ![l] = "queued"]
    /\ UNCHANGED <<local, fail, ans, orphan, peer, session_vars, running, history>>

\* It does not for 5 s: the application gets an end, no failover.
TrackerIsSilent(l) ==
    /\ node[l] = "reporting"
    /\ node' = [node EXCEPT ![l] = "closed"]
    /\ local' = [local EXCEPT ![l] = IF @ = "open" THEN "ended" ELSE @]
    /\ unheard' = unheard \cup {l}
    /\ UNCHANGED <<fail, talk_vars, peer, session_vars, running, late, hit>>

\* failoverTcp, whether tcpSocket is still open or not.
Failover(l) ==
    /\ fail' = [fail EXCEPT ![l] = "dialing"]
    /\ late' = IF local[l] = "closed" THEN late \cup {l} ELSE late

\* The answer reaches processBackData.
Ack(l) ==
    /\ talk[l] = "ack"
    /\ talk' = [talk EXCEPT ![l] = "over"]
    /\ IF ans[l] = "yes"
         THEN /\ node' = [node EXCEPT ![l] = IF @ = "asking" THEN "punching" ELSE @]
              /\ UNCHANGED <<fail, late>>
         ELSE /\ node' = [node EXCEPT ![l] = "closed"]
              /\ Failover(l)
    /\ UNCHANGED <<local, ans, orphan, peer, session_vars, running, unheard, hit>>

Punched(l) ==
    /\ node[l] = "punching"
    /\ node' = [node EXCEPT ![l] = "dialing"]
    /\ UNCHANGED <<local, fail, talk_vars, peer, session_vars, running, history>>

\* A punch that fails and leaves the node as it is.
PunchFailsOpen(l) ==
    /\ node[l] = "punching"
    /\ Failover(l)
    /\ UNCHANGED <<local, node, talk_vars, peer, session_vars, running, unheard, hit>>

PunchFails(l) ==
    /\ node[l] = "punching"
    /\ node' = [node EXCEPT ![l] = "closed"]
    /\ Failover(l)
    /\ UNCHANGED <<local, talk_vars, peer, session_vars, running, unheard, hit>>

\* connect finds the target's server, which listens although its own punch may
\* still be under way.
Link(l) ==
    /\ node[l] = "dialing" /\ peer[l] \in {"punching", "waiting"}
    /\ node' = [node EXCEPT ![l] = "linked"]
    /\ peer' = [peer EXCEPT ![l] = "serving"]
    /\ UNCHANGED <<local, fail, talk_vars, session_vars, running, history>>

\* 'timeout': node and tcpSocket are closed, no failover.
ConnectTimesOut(l) ==
    /\ node[l] = "dialing"
    /\ CloseLocals({l})
    /\ UNCHANGED <<talk_vars, peer, session_vars, running, history>>

\* 'end' of the UTP socket.
LinkEnds(l) ==
    /\ node[l] = "linked" /\ peer[l] # "serving"
    /\ CloseLocals({l})
    /\ UNCHANGED <<talk_vars, peer, session_vars, running, history>>

-----------------------------------------------------------------------------
(* failoverTcp                                                             *)

FailoverConnects(l) ==
    /\ fail[l] = "dialing"
    /\ fail' = [fail EXCEPT ![l] = "up"]
    /\ UNCHANGED <<local, node, talk_vars, peer, session_vars, running, history>>

\* Refused, or ended by the tunnel: tcpSocket is destroyed with it.
FailoverEnds(l) ==
    /\ Failing(l)
    /\ CloseLocals({l})
    /\ UNCHANGED <<talk_vars, peer, session_vars, running, history>>

-----------------------------------------------------------------------------
(* The request on its way: server, redis                                   *)

\* socket.io keeps what is emitted while it is not connected.  What arrives
\* before the connection handler has its sockets is heard by nobody.
Send(l) ==
    /\ talk[l] = "queued" /\ session[Owner[l]] # "down"
    /\ talk' = [talk EXCEPT ![l] = IF session[Owner[l]] = "ready" THEN "fetching" ELSE "lost"]
    /\ UNCHANGED <<local_vars, ans, orphan, peer, session_vars, running, history>>

\* A target that is not online, without a word to the asker.
FetchedSilently(l) ==
    /\ talk[l] = "fetching"
    /\ talk' = [talk EXCEPT ![l] = IF session[Target] = "down" THEN "over" ELSE "request"]
    /\ UNCHANGED <<local_vars, ans, orphan, peer, session_vars, running, history>>

\* The request is emitted to the target's socket, or none is found.
Fetched(l) ==
    /\ talk[l] = "fetching"
    /\ IF session[Target] = "down"
         THEN /\ ans' = [ans EXCEPT ![l] = "no"]
              /\ talk' = [talk EXCEPT ![l] = "ack"]
         ELSE /\ talk' = [talk EXCEPT ![l] = "request"]
              /\ UNCHANGED ans
    /\ UNCHANGED <<local_vars, orphan, peer, session_vars, running, history>>

\* A worker does not answer: the handler is rejected.
FetchFails(l) ==
    /\ talk[l] = "fetching"
    /\ talk' = [talk EXCEPT ![l] = "lost"]
    /\ unheard' = unheard \cup {l}
    /\ UNCHANGED <<local_vars, ans, orphan, peer, session_vars, running, late, hit>>

\* P2P_REQUEST_OPEN_RETURN is kept, lost or written to redis.
Return(l) ==
    /\ talk[l] = "answer" /\ session[Target] # "down"
    /\ talk' = [talk EXCEPT ![l] = IF session[Target] = "ready" THEN "key" ELSE "lost"]
    /\ UNCHANGED <<local_vars, ans, orphan, peer, session_vars, running, history>>

\* It was already written to the socket that ended.
ReturnIsLost(l) ==
    /\ talk[l] = "answer" /\ session[Target] = "down"
    /\ talk' = [talk EXCEPT ![l] = "lost"]
    /\ UNCHANGED <<local_vars, ans, orphan, peer, session_vars, running, history>>

\* The poll, every 10 ms, finds the answer within the 5 s of its life.
Poll(l) ==
    /\ talk[l] = "key"
    /\ talk' = [talk EXCEPT ![l] = IF l \in orphan THEN "lost" ELSE "ack"]
    /\ UNCHANGED <<local_vars, ans, orphan, peer, session_vars, running, history>>

-----------------------------------------------------------------------------
(* The target                                                              *)

\* Another tunnel or password, or a symmetric NAT.
Refuse(l) ==
    /\ talk[l] = "request"
    /\ talk' = [talk EXCEPT ![l] = "answer"]
    /\ ans' = [ans EXCEPT ![l] = "no"]
    /\ UNCHANGED <<local_vars, orphan, peer, session_vars, running, history>>

Open(l) ==
    /\ talk[l] = "request"
    /\ talk' = [talk EXCEPT ![l] = "open"]
    /\ peer' = [peer EXCEPT ![l] = "reporting"]
    /\ UNCHANGED <<local_vars, ans, orphan, session_vars, running, history>>

PeerReports(l) ==
    /\ peer[l] = "reporting"
    /\ peer' = [peer EXCEPT ![l] = "punching"]
    /\ talk' = [talk EXCEPT ![l] = "answer"]
    /\ ans' = [ans EXCEPT ![l] = "yes"]
    /\ UNCHANGED <<local_vars, orphan, session_vars, running, history>>

\* The tracker is silent for 5 s: the server is closed, nobody is answered.
PeerIsSilent(l) ==
    /\ peer[l] = "reporting"
    /\ peer' = [peer EXCEPT ![l] = "closed"]
    /\ talk' = [talk EXCEPT ![l] = "lost"]
    /\ unheard' = unheard \cup {l}
    /\ UNCHANGED <<local_vars, ans, orphan, session_vars, running, late, hit>>

PeerPunched(l) ==
    /\ peer[l] = "punching"
    /\ \E s \in {"waiting", "closed"} : peer' = [peer EXCEPT ![l] = s]
    /\ UNCHANGED <<local_vars, talk_vars, session_vars, running, history>>

\* 'timeout' of the server, or the end of the service behind the link.
PeerEnds(l) ==
    /\ peer[l] \in {"waiting", "serving"}
    /\ peer' = [peer EXCEPT ![l] = "closed"]
    /\ UNCHANGED <<local_vars, talk_vars, session_vars, running, history>>

\* 'end' of the UTP socket.
PeerSeesEnd(l) ==
    /\ peer[l] = "serving" /\ node[l] # "linked"
    /\ peer' = [peer EXCEPT ![l] = "closed"]
    /\ UNCHANGED <<local_vars, talk_vars, session_vars, running, history>>

-----------------------------------------------------------------------------
(* The command channel                                                     *)

\* Clients that have no links ignore what they are told.
Concerned == {Target} \cup {Owner[l] : l \in Local}

\* io.emit to all who are connected; what clients S were being told is lost
\* with their connections.
Broadcast(c, S) ==
    notice' = [d \in Client |->
                 (IF d \in Concerned \ {c} /\ session[d] # "down" THEN {c} ELSE {})
                 \cup (IF d \in S THEN {} ELSE notice[d])]

\* The request of a target and the answer to an asker that are on the way are
\* lost; the polls of an asker go on.
Disconnect(c) ==
    /\ session[c] # "down"
    /\ session' = [session EXCEPT ![c] = "down"]
    /\ Broadcast(c, {c})
    /\ gone' = gone \cup {c}
    /\ talk' = [l \in Local |->
                  IF (c = Target /\ talk[l] = "request") \/ (c = Owner[l] /\ talk[l] = "ack")
                    THEN "lost" ELSE talk[l]]
    /\ orphan' = orphan \cup {l \in Local : Owner[l] = c /\
                                talk[l] \in {"fetching", "request", "open", "answer", "key"}}
    /\ UNCHANGED <<local_vars, ans, peer, running, history>>

\* A second process with the client's key is turned away and disconnected.
TurnAway(c) ==
    /\ session[c] = "ready"
    /\ Broadcast(c, {})
    /\ gone' = gone \cup {c}
    /\ UNCHANGED <<local_vars, talk_vars, peer, session, running, history>>

\* socket.io reconnects by itself; the handler waits for fetchSockets.
Connect(c) ==
    /\ session[c] = "down"
    /\ session' = [session EXCEPT ![c] = "deciding"]
    /\ UNCHANGED <<local_vars, talk_vars, peer, notice, gone, running, history>>

Accepted(c) ==
    /\ session[c] = "deciding"
    /\ session' = [session EXCEPT ![c] = "ready"]
    /\ UNCHANGED <<local_vars, talk_vars, peer, notice, gone, running, history>>

\* A client that drops all the links it has.
ServedFromAny(d, c) == {l \in Local : d = Target}

\* What d has in SocketIOCreateUtpServerMap for c.
ServedFrom(d, c) == {l \in Local : d = Target /\ Owner[l] = c}

\* What d has in SocketIOCreateUtpClientMap for c; entries are never taken out.
DialledTo(d, c) == {l \in Local : Owner[l] = d /\ c = Target}

\* client.disconnect: everything made with c is closed.
Notice(d, c) ==
    /\ c \in notice[d]
    /\ notice' = [notice EXCEPT ![d] = @ \ {c}]
    /\ LET P == {l \in ServedFrom(d, c) : peer[l] \notin {"none", "closed"}}
           L == {l \in DialledTo(d, c) : local[l] # "none"}
       IN  /\ peer' = [l \in Local |-> IF l \in P THEN "closed" ELSE peer[l]]
           /\ talk' = [l \in Local |-> IF l \in P /\ peer[l] = "reporting"
                                         THEN "lost" ELSE talk[l]]
           /\ CloseLocals(L)
           /\ hit' = hit \cup P \cup {l \in L : Alive(l)}
    /\ UNCHANGED <<ans, orphan, session, gone, running, late, unheard>>

-----------------------------------------------------------------------------

LocalStep(l) == LocalEnds(l) \/ LocalLeaves(l)

NodeStep(l) ==
    \/ TrackerAnswers(l) \/ TrackerIsSilent(l)
    \/ Ack(l) \/ Punched(l) \/ PunchFails(l)
    \/ Link(l) \/ ConnectTimesOut(l) \/ LinkEnds(l) \/ EndIsSeen(l)

TalkStep(l) == Send(l) \/ Fetched(l) \/ FetchFails(l) \/ Poll(l)

PeerStep(l) ==
    \/ Refuse(l) \/ Open(l) \/ PeerReports(l) \/ PeerIsSilent(l)
    \/ PeerPunched(l) \/ PeerSeesEnd(l)

Next ==
    \/ \E l \in Local : \/ Accept(l) \/ LocalStep(l) \/ NodeStep(l)
                        \/ FailoverConnects(l) \/ FailoverEnds(l)
                        \/ TalkStep(l) \/ Return(l) \/ ReturnIsLost(l)
                        \/ PeerStep(l) \/ PeerEnds(l)
    \/ \E c \in Client : \/ Disconnect(c) \/ TurnAway(c) \/ Connect(c) \/ Accepted(c)
                         \/ DeleteConnector(c)
                         \/ \E d \in Client : Notice(c, d)

Spec == Init /\ [][Next]_vars

\* Node runs what is due, trackers answer or time out, sockets connect or fail.
\* What is kept for a socket that is down is sent whenever it connects.
Fairness ==
    /\ \A l \in Local : /\ WF_vars(NodeStep(l)) /\ WF_vars(PeerStep(l))
                        /\ WF_vars(FailoverConnects(l) \/ FailoverEnds(l))
                        /\ WF_vars(Fetched(l) \/ FetchFails(l) \/ Poll(l))
                        /\ SF_vars(Send(l)) /\ SF_vars(Return(l))
    /\ \A c \in Client : WF_vars(Connect(c)) /\ WF_vars(Accepted(c))

FairSpec == Spec /\ Fairness

-----------------------------------------------------------------------------
(* Properties                                                              *)

\* A local connection is never piped through UTP and led to the public port as
\* well: a failover begins after the node was closed (startCreateP2PTunnel,
\* processBackData).
OnePath == \A l \in Local : Failing(l) => node[l] \notin {"punching", "dialing", "linked"}

\* A failover connection follows its local connection, even one that a
\* disconnect or DELETE_CONNECTOR closes.  One is left at the service by itself
\* in one way only: it was made when the local connection had already closed.
StrayOnlyWhenLate ==
    \A l \in Local : Failing(l) /\ local[l] = "closed" => l \in late

\* client.disconnect closes links of the client it names only: a link is hit
\* when a socket of one of its two clients has disconnected, be it one that was
\* turned away, and links of the other connectors go on.
OnlyOwnLinksAreHit ==
    \A l \in hit : Owner[l] \in gone \/ Target \in gone

\* What leaves an application waiting: a tracker that is silent, a worker that
\* does not answer, or an answer that is lost with a command connection.
Excused(l) ==
    \/ l \in unheard
    \/ talk[l] = "lost" /\ (Owner[l] \in gone \/ Target \in gone)

\* An application that connects gets its link or its failover, or is told the
\* end, and its own end is noticed; the request that nobody answers
\* (Commander.js polls for ever, processBackData sets no timer) has one of the
\* excuses.
NobodyWaitsForEver ==
    \A l \in Local : Alive(l) ~>
        \/ local[l] = "closed"
        \/ local[l] = "open" /\ Piped(l)
        \/ Excused(l)
=============================================================================
