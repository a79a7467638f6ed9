# Verification of fastnat

TLA+ models of fastnat, the NAT traversal service in this repository, with TLC
configurations that check them on small instances and TLAPS proofs of their
main theorems. Every definition is translated from the source; `PROJECT.json`
names the lines. Paths below are relative to `src/`.

## 1. The system

fastnat publishes services of machines behind a NAT on the ports of a public
server. Four kinds of program take part: the server (`server.js`, optionally a
cluster of workers), the client on the inner machine (`client.js`), visitors
who connect to public ports, and the owner's browser on the web pages. The
state they share is in MySQL (sequelize), redis and the kernel's port table.

| Component | State | Operations | Talks to |
|---|---|---|---|
| TCP tunnel, control plane (`TcpTunnel/*`, `Tcp/TcpServer.js`, `Tcp/TcpClient.js`) | a control connection for each tunnel, `socket.proxyServer`, suspended handlers, a destroy timer | `startTunnel`, `authen`, `stopTunnel`, `quitClient`, `socketLost` | database (awaited), kernel (`listen`) |
| TCP tunnel, data plane (same files) | a middle server for each visitor; the client's local and middle sockets | visitor arrives, `newClientComming`, dial, ends and resets | control connection, pipes |
| Framing (`Tcp/TcpPackUtil.js`, `TcpClient.js`, `TcpServer.js`) | `lastTempBuffer` | `packData`, `processCommingBuffer` | `notify` callback |
| Command channel (`Communication/Commander.js`) | socket.io namespace, `Client.status` | token check, repeat login, disconnect, `notify2Client` | database, other workers (`fetchSockets`) |
| UDP tunnels, server (`UdpTunnel/UpdTunnelServer.js`, `Commander.js`) | `UpdTunnelServerMap`, bound UDP sockets | create, stop, disconnect | database (awaited), kernel |
| UDP tunnels, client (`UdpTunnel/UdpTunnelClient.js`) | a socket for each flow, time of its last message | datagram, sweep | command channel |
| Tunnel administration (`Routers/Tunnel.js`, `Utils/RedisUtil.js`) | rows of `Tunnel`, locks in redis, 1 s timers | add, update, delete | database, redis, command channel |
| Client process (`client.js`) | `ALL_TUNNEL_MAP`, `ALL_CONNECTOR_MAP` | main, `ADD_TUNNEL`, `DELETE_TUNNEL`, exit, watchdog | all of the above |
| P2P connectors (`client.js`, `Commander.js`, `P2P/*`) | UTP nodes per peer, answers in redis | `P2P_REQUEST_OPEN`, punch, failover, `client.disconnect` | command channel, redis, tracker |
| HTTP proxy (`Http/HttpProxy.js`) | `DomainMap`, a cache | look up, sweep | database |
| Cluster data, RPC (`Common/ClusterData.js`, `Rpc/*`) | pending requests | request, answer, timeout | primary process |
| Accounts (`Routers/User.js`, `Routers/Client.js`, `Utils/NetUtil.js`) | rows of users and clients, virtual addresses | register, add, rename, delete, `getVirtualIp` | database (awaited) |
| N2N (`N2N/*`) | community list file | create, delete | external binaries |
| Other web pages, models, tracker, helpers | database rows; none | forms; pure I/O | — |

What is hard about it:

* Handlers suspend on the database and then act on a socket that may be gone.
* One control connection has several messages under way at a time, and their
  handlers resume in the order in which the database answers.
* Ends of connections come as a `fin`, an error, a silent loss, the server's own
  `destroy` or the death of a process, and not all of them raise the same events.
* Announcements carry nothing but a port number, which can change hands.
* Locks and timers of a second stand in for acknowledgements.
* Workers of a cluster ask each other about their sockets, without a common order.
* Counts and names are checked in one query and relied on in a later one.
* A process that is to repair an outage is ended and replaced in the middle of it.

What makes each component correct: public ports have one holder and come back
when the holder ends (control plane, UDP); a visitor is joined to one local
connection, its own (data plane); messages arrive whole and in order (framing);
a client has one session (command channel); the client runs what the table says
(administration and client process), and one process of it, through outages; a
P2P link or its TCP replacement comes about, one of them only, and ends with its
own session (P2P); an account has its devices, within its quota, each with an
address of its own (accounts). The hazards in `PROJECT.json` are where these can go wrong.

## 2. The modules

```
PortLease      <--implements--  TcpTunnel     (TcpTunnelProofs)
               <--implements--  UdpTunnel     (UdpTunnelProofs)
UdpTunnel      <--implements--  UdpPath       (UdpTunnelProofs): rows, messages
               and the client around the same servers
TcpVisitor     visitors of a bound port; inherits from TcpTunnel that a control
               connection can be lost while its port stays bound
Session        logins; UdpTunnel starts from its accepted sockets
TunnelControl  web pages, client process and, coarsely, the bridge of TcpTunnel
ClientLife     the client process around TunnelControl, a login as one step
P2PLink        connectors, on command channels that Session decides about
Accounts       the rows that all of the above start from
Framing        the messages that TcpTunnel takes as whole
```

**PortLease** is the abstract promise about public ports: a port has one holder
at a time, is free before it changes hands, and is granted once to a holder. It
has no counterpart in the code; `TcpTunnel` and `UdpTunnel` implement it by the
mappings `LeaseMap` (the connection, or request, whose server listens) and
`ServedSet`.

**TcpTunnel** is one `TcpTunnelClient` per connection `c` and the server's view
of it. `client[c]` is where the client object is in `startTunnel`/`stop`;
`wire[c]` is what it wrote; `sock[c]` is the server's end. The handlers `authen`
and `stopTunnel` are three steps each: read the message (`ReadAuthen`), the
database answers (`AnswerAuthen`), the continuation runs (`Authen`,
`RejectAuthen`); everything else can come in between. `SocketLost` is the
`'end'`/`'error'` handler of `TcpServer` with the `socketLost` listener,
`Destroy` the 1000 ms timer of a refused connection, which raises neither event.
`SetRow` lets the web pages change the table at any time, within the index
`unique_port_for_server`. `Restart` is the death of the server process and its
successor.

**TcpVisitor** is one visitor per `v`: `vis[v]` the proxy socket, `middle` and
`mport` its middle server, `task[v]` what the client does about its
announcement, `peer[v]` the middle server that took the client's connection.
A reset of a visitor (`VisitorResets`) closes its middle server but leaves the
piped sockets; port numbers are given out again as soon as nobody listens.

**Session** is the connection handler up to `fetchSockets`, its answers worker
by worker (`Answer`), the decision (`Reject`, `Accept`), the 100 ms disconnect
timer (`Kick`), and the status updates, which nobody awaits and the pool does in
any order (`Write`). `Idle(w)` says that a continuation that is ready runs
before its process takes the next event.

**UdpTunnel** is the two request handlers, the map with one entry per tunnel,
and server objects that listen to `'disconnect'` from their creation on.

**TunnelControl** is `/add` and `/update` from the query for the uniqueName to
the notification, `/delete`, and the client's `main`, `ADD_TUNNEL` and
`DELETE_TUNNEL`. A request is in one `phase` per await (the query for the
uniqueName and the read of `oldData` are one step); `timer[r]` is the delayed
`ADD_TUNNEL`; `Expire` is the lock's ttl. Of a row, `row[t]` has what the client
is told, the port and the local address, and `names[t]` the name and the
uniqueName; the four unique indexes of the table are `Clash` and `NamesClash`.
What is asked before the lock (`UniqueTaken`), what is asked under it
(`TakenFor`) and what an index refuses (`Refuses`) are not the same: nobody asks
for the name. The bridge is reduced to `Authen` (bind the port of the row as it
is then, or tell the client to quit) and `Release`. Three history variables
exist for the properties: `expired`, the requests whose lock ran out under them,
`crossed`, those that have still to write and saw another row written since they
began, and `rushed`, whether something was begun before the last thing was over.

**UdpPath** EXTENDS `UdpTunnel` and composes its server with the pages and the
client. Each update of the row makes a version of it; `inst`, `hears` and
`stopped` are the client's instances, of which all listeners go when one stops
(`off(eventName)`); `inbox` and `outbox` are the command channel. The requests of
`UdpTunnel` are named by instance and socket (`Ask`), so that every step of the
path that touches a server is a step of `UdpTunnel`. An update is refused when
its port is in the row of another tunnel or in use (`Others`). `rushed` is
history as in `TunnelControl`, and also notes what failed.

**P2PLink** follows a local connection `l`: `local[l]` the application's socket,
`node[l]` the connector's UTP node, `talk[l]` where the request or its answer is
(buffer, server, target, redis), `peer[l]` the target's UTP server, `fail[l]` the
failover connection. Command channels end at any time (`Disconnect`), each end is
told to all others, also that of a process that was only turned away
(`TurnAway`), and `Notice` closes what was made with the client it names. What
arrives while a channel's handler waits for `fetchSockets` is heard by nobody.
A closed `utp-punch` node calls nothing back; the answer in redis lives 5 s and
the poll comes every 10 ms, so that the poll finds it. Histories: `late`,
`unheard`, `hit`, `gone`.

**ClientLife** is `main` of each process of one client (`phase`), its watchdog
(`watch`, `fine`, and checks that overlap), its socket (`cmd`, and `held`, what
the server has of it, live or dead), its bridge connections (`tunnel`), and the
exit that comes 1700 ms after it was ordered (`leaving`). An exception that is
caught by the process handler ends `main` (`stuck`) or leaves it without its
socket handlers (`deaf`). The order of a successor's 3000 ms sleep and its
parent's 1700 ms exit is a guard of `Wake`.

**Accounts** has one action per await of `/register` and of `/add`, `/update` and
`/delete` of clients. The rollback of `/register` is no action: its queries are
not in the transaction. The unique indexes are guards, as the database keeps
them; ids ascend. `getVirtualIp` and `int2iP` are computed, on bytes. Connectors
and tunnels that go with a client are left out; a user may log in while the
registration is still under way. `excused` and `crowded` are history.

**Framing** is `packData` and `processCommingBuffer`. A byte is its place in the
stream of all that is sent on a connection (`Stream`). `Process` is recursive as
in the code, `Call` one call of it. Four bytes that are not a head are read as
the length `Misread`, which is assumed to be more than all that is sent: text is
read as 2^29 at least, the end of a head with text behind it as 256 times the
length of its body at least (below 30 000 bytes; the bridge's messages are a
command with a port or a key, of at most 250). A connection that lives on beyond that
may take something else for a body, and `JSON.parse` throws; this is not modelled.

`MC*` modules give the constants their instances. Definitions that no action
uses and whose comment names a slip ("a loss that forgets ...") are variants of
the definition below them: the properties were tested against these variants,
and each property fails on at least one.

## 3. What TLC checks

| Run | Instance | States | Shows |
|---|---|---|---|
| `tcp_tunnel` | 2 logins for 1 tunnel that moves between 2 ports, fair | 305 000 | `TurnedAwayHoldsNothing`, `OrphanOnlyByRace`, `PortsAreLeases`, `EndFreesPort`, `RefusedIsDropped` |
| `tcp_visitor` | 3 visitors of 2 clients, 2 port numbers | 545 000 | `MiddleFollowsVisitor`, `OneLocalPerVisitor`, `OnlyTheLateGoAstray` |
| `session` | 3 logins of 1 client, 2 workers, fair | 78 000 | `OneSession`, `LoginsAreDecided` |
| `udp_path` | 2 versions of a row, 2 sessions, 2 ports, 1 foreign tunnel | 278 000 | `NewestHears`, `OwnService`, `PathMirrorsRow`, `OrphanOnlyWhenLate`, `UdpPortsAreLeases` |
| `tunnel_control` | 1 add, 1 update, 1 delete, 2 tunnels, 2 ports, 2 local addresses, 2 names, 2 uniqueNames, 2 instances | 2 421 000 | `MirrorsRows`, `ClientIsSpared`, `LostOnlyByReplacement`, `IndexOnlyUnguarded` |
| `p2p_link` | 1 connection, its 2 clients and a third, fair | 232 000 | `OnePath`, `StrayOnlyWhenLate`, `OnlyOwnLinksAreHit`, `NobodyWaitsForEver` |
| `client_life` | 3 processes, 2 checks at a time, fair | 27 000 | `EndsOnlyAsRepeat`, `OneSuccessor`, `OneServes`, `NoticedLossIsRepaired` |
| `accounts` | 2 registrations, 2 adds, 1 update, 1 delete, a limit of 2, ids around 2 bounds | 3 648 000 | `WithinQuota`, `FailureHasReason`, `DevicesComplete`, `AddressedUnlessInterrupted`, `AddressesInNetwork` |
| `framing` | 4 messages, heads of 4 bytes, any cut | 3 970 | `NothingInvented`, `WholeFramesArrive` |
| `session_status`, `udp_path_deleted`, `framing_notify` | as above | — | what the source says and the code does not do (section 5) |

The runs of the other modules also check their type invariant; those of
`P2PLink`, `ClientLife` and `Accounts` are proved only (section 4). No run checks for
deadlock: every system here really stops when its connections, requests or
processes are used up.

What the properties mean in short:

* A client that was refused holds no port, even if its row comes back.
* A port loses its owner in two ways only: `authen` returns after the connection
  is over, or the server's own timer destroys a connection that holds a port.
* A port of a client that ends is released, unless the server destroyed the
  connection first; a refused client is disconnected.
* A middle server listens exactly as long as its visitor is there; two local
  connections never reach one visitor; only a client that dials after its
  visitor has left can reach another one.
* A client never has two sessions; every login comes to a decision.
* A UDP server is orphaned by a session only if it is created after the
  disconnect. The newest instance of a UDP tunnel is never deaf while its row is
  there; visitors reach an old service only when something was begun before the
  last thing was over, or failed; otherwise row, instance, listener and server
  are of one version.
* A P2P connection is piped one way only; a failover connection is left at the
  service only if it was made late; `client.disconnect` spares the links of
  others; an application that waits for ever has one of three excuses: a silent
  tracker, a `fetchSockets` that failed, an answer lost with a command channel.
* A process has one successor, two processes never serve together, outages alone
  do not end the last one, and a loss of the tunnels that the watchdog has
  noticed is repaired if the server stays reachable and nobody was turned away
  or interrupted.
* More clients than the quota, an unanswered page, an incomplete account and a
  client without an address each have one kind of cause, which the property
  names; addresses leave 10.0.0.0/8 above the id 16777213.
* When one thing is done after the other, the client mirrors the table and is
  never told to quit; an instance is lost from `ALL_TUNNEL_MAP` only by being
  replaced. An index refuses a row that the queries have let pass, and leaves the
  page unanswered, for the name, which no query asks for; otherwise only when
  another row was written since the request began, for the local address or the
  uniqueName, which the lock on the port does not cover, or for the port after a
  lock on it ran out.
* A cut frame can lose messages, never mix, invent, repeat or reorder them; whole
  frames all arrive.

**Bounds.** Two connections are enough for a conflict about a port and for a
restarted client that meets its predecessor, two ports for a row that moves;
each connection lives through its whole life. Three visitors and two numbers make
a number pass to another visitor of the same or another client while an old
announcement is under way. Three logins on two workers have two on one worker and
one on another. In `UdpPath` two versions have an old and a new instance, whose
requests go over either session, and the foreign tunnel takes the port that the
first version has left. In `tunnel_control` the add has nothing but the name in
common with the first row of the other tunnel, and the update gives that row
another name and the port, the local address or the uniqueName that the add
wants, so that each of the four refusals `IndexOnlyUnguarded` allows happens, and
by its own cause alone; the deletion hands the port over. Two instances allow for
two tunnels or for one that is replaced; an `ADD_TUNNEL` for which no instance is
left stays in the inbox, and such a state is not quiet. Local connections of
`P2PLink` share nothing but the command channels, so one of them, with
disconnects of its own two clients and of a third, has every case; the proofs are
for any number. Three processes have a successor and its successor; a client that
has used all of them up is excused. The two registrations of `Accounts` want one
username, the pages work in the account of the first one, and the ids start just
below the end of the network or just below the bound, so that they pass over it.
Four messages give a cut frame with whole ones before and after it; the bodies
are just longer than a head. Ports and instances that are alike are symmetric;
runs with liveness use no symmetry.

**Fairness.** `TcpTunnel`: weak fairness of every step of the server's handlers,
its timers and its reads, and of the client's 100 ms timer and `quitClient`: the
sockets deliver, the database answers (the alternative `QueryFails` ends the
handler too), and Node runs what is due. A lost link counts as read in the end,
since the kernel's keep-alive or the next write reports it. `Session`:
`fetchSockets` ends by its answers or by its timeout, continuations and timers
run. `P2PLink`: Node runs what is due, trackers answer or time out, punches and
connections succeed or fail, socket.io connects again. The steps that send what
socket.io has buffered are strongly fair: the buffer is flushed at every
connect, so that it goes out if the channel is connected again and again.
`ClientLife`: requests are answered or fail, timers run, heartbeats end,
socket.io goes on trying; the network is under no assumption, its return is a
premise of the property. Users, web pages, crashes, losses and failures are
never fair.

## 4. What is proved

All theorems hold for every value of the constants, under the named assumptions
of the modules only: the constant functions have their types, and the values
that stand for "nobody" are none of the others; in `TunnelControl` a request is
one of add, update and deletion, and each add has an id of its own; in `UdpPath`
the requests of the tunnel are those of its client's instances; in `Framing`
heads and bodies are not empty (`JSON.stringify` of an object never is), and
`Misread` is as section 2 says.

| Module | Theorems |
|---|---|
| `TcpTunnelProofs` | `Typing`, `RefusedHoldNothing`, `OrphansComeFromRaces`, `ImplementsPortLease` |
| `TcpDataProofs` | of `TcpVisitor` `Typing`, `MiddleServersFollowVisitors`, `VisitorsAreNotShared`, `StrayOnlyWhenLate`; of `Framing` `ProcessIsItsCall`, `FrameTyping`, `NothingIsInvented`, `WholeFramesDoArrive` |
| `SessionProofs` | `Typing`, `OneSessionPerClient` |
| `UdpTunnelProofs` | `Typing`, `OrphansAreLate`, `ImplementsPortLease`; of `UdpPath` `PathImplementsServers`, `PathTyping`, `NewestIsHeard`, `UpdatesGoByStages`, `PathMirrors`, `VisitorsGetTheirService` |
| `TunnelControlProofs` | `Typing`, `LockGuardsPorts`, `InstancesAreReplaced`, `ClientsAreSpared`, `TunnelsGoByStages`, `ClientMirrorsRows` |
| `P2PLinkProofs` | `Typing`, `PathsAreExclusive`, `StraysAreLate`, `OthersLinksGoOn` |
| `ClientLifeProofs` | `Typing`, `SuccessorsAreSingle`, `OneProcessServes`, `OutagesLeaveOne` |
| `AccountsProofs` | `NetworkEnds`, `Typing`, `FailuresHaveReasons`, `ClientsAreAddressed`, `QuotaIsKept`, `DevicesAreMade`, `AddressesOfNetwork` |

Each proof has an inductive invariant (`IInv`, in `UdpPath` `PathInv`, in
`Framing` `FrameInv`):

* `TcpTunnel`. That a connection is granted a port once needs that `authen` is
  handled once, hence that it is written once and first (`AuthenOnce`), hence
  that a connection is new to the server until it is connected
  (`NothingBeforeConnected`). `AnswerGivesPort` and `ProxyAfterAuthen` tie what
  the handler has read to what it leaves; `PortsDiffer` is what the kernel
  grants. The refinement then maps `Authen` to a grant, the steps that close
  servers to releases, and the rest to stutters.
* `TcpVisitor`. The middle servers that listen have different numbers
  (`MPortsDiffer`), so that a visitor that is there can be reached by its own
  announcement only; visitors that have not come have no announcement.
* `Framing`. `ProcessIsItsCall` says that the recursion defines a function: a
  call looks at shorter buffers only. What the function gives (`ProcessIsSound`)
  is proved by induction over the length of the buffer, and what it gives for
  whole frames (`WholeFramesAreTaken`) over their number. The library's induction
  takes an operator as a parameter, which the provers cannot instantiate; `Less`,
  `LeastOf` and `Induction` say the same with a set of numbers. A buffer is in
  order (`Orderly`) if from the first byte of any frame in it on it has all that
  was read (`Straight`). That is what a lost head leaves: what is kept without
  its head starts no frame, so that either a whole frame follows from its start
  or nothing is taken. Of a buffer in order, a call gives bodies of one stretch
  of the stream and keeps a buffer in order behind it. `FrameInv` says that after
  any chunks the receiver is as after one such call (`SoundSoFar`), and between
  frames as long as no frame was cut (`BetweenFrames`).
* `Session`. Of two connected sockets of one client that are deciding or
  accepted, not both can have asked the other's worker and missed it
  (`OneSeesTheOther`): the later one was asked for after it had connected. An
  accepted login has all the answers and found only itself (`AcceptedAlone`).
* `UdpTunnel`. Bound servers have different ports, and a server object is what
  the finished handler of its request leaves.
* `TunnelControl`. A request past the lock still has it, or it ran out under it
  (`LockHeld`); so two requests for one port have both passed the queries only
  if a lock on it ran out (`OneHolder`), and the port of a request that has
  passed them is in no other tunnel's row unless one did (`CheckedIsFree`). What a
  request has asked for stays free as long as no other row is written
  (`AskedIsFree`): the uniqueName from its beginning, port and local address from
  the check on. So a request that nobody crossed is left with the name. Instances
  need only that they were made for a tunnel (`MadeForTunnel`). That a client is
  not told to quit needs, as long as nothing is rushed, that whatever will be an
  authen message one day is of a tunnel with a row: the handlers and timers that
  will notify, the notifications, what main has fetched, the instances up to
  their authen (`Spared`); a deletion takes a row when there is nothing of these.
  That the client mirrors the table needs its stage, as long as nothing is rushed
  (`Stages`): `Down`; `Launching` what main has fetched or an `ADD_TUNNEL` has
  brought; a request `Checking`, or `Written` so that its tunnel is behind its row;
  a tunnel `Stopping` for a second or for good; `Announced` again. All tunnels but
  the one the stage is about are settled. That the bridge can bind the port of a
  row needs that no two rows clash (`RowsDiffer`), which the indexes see to.
* `UdpPath`. Every step is a step of `UdpTunnel` or leaves its servers alone
  (`PathStepIsServerStep`), so that its theorems carry over. That the newest
  instance hears needs that a refusal on its way means that the row is gone
  (`RefusedIsGone`), and that main has fetched a version before it starts one.
  What holds while nothing is rushed is the stage the tunnel is in (`Stages`):
  `Before` its client is up, `Creating` a server (emitted, asked, found), `Running`
  it, `Stopping` it after an update or a deletion, `Waiting` for the second to be
  over, or `Over`; each says what every variable holds, and each step leads from
  one stage to one stage or is rushed. That the bind succeeds needs that the port
  of the row is no other tunnel's (`Apart`) and that the map of servers holds the
  tunnel's own (`MapOfTunnel`).
* `P2PLink`. A node that is not closed has no failover beside it
  (`FailoverAfterNode`); a notice names a client of which a socket has
  disconnected (`NoticesAreTrue`).
* `ClientLife`. Of all processes at most one is awake (`OneAwake`): a successor
  sleeps until its parent is gone, and only a parent that is leaving has one
  (`ParentsLeave`). A process that sleeps or is gone has no watchdog, no socket
  and no tunnels (`QuietOnesRest`). Unless one was turned away, there is a
  process that is neither gone nor about to exit (`SomebodyStays`).
* `Accounts`. The base (`Basics`): ids in use are old, owners have rows, an
  address is the one of its id. On it: an edit works on a client of its account
  (`OwnIsEdited`); a request that is past its query finds the name free at its
  write, or is excused (`Reasons`); as long as an account is not crowded, its
  clients and the one being made fit the limit (`RoomIsLeft`); a registration
  has the devices of the phase it is in (`DevicesGather`). `FailuresHaveReasons`
  also needs that ids below the bound have different addresses
  (`BytesOfNumber`, `AddressesDiffer`), that is, that the four bytes give the
  number back.

Only model-checked: `EndFreesPort`, `RefusedIsDropped`, `LoginsAreDecided`,
`NobodyWaitsForEver` and `NoticedLossIsRepaired`: liveness, which TLAPS does not
prove under fairness. Every invariant and every safety property of a step that a
passing run checks is proved.

## 5. Where the code and its text disagree

* `session_status`: the status column goes to offline while the client is in
  session, with no update on its way that would set it right. In the run the 1 of
  the session is written first, then the 0 of a socket that was turned away as a
  repeat login. The late update of an old socket has the same end.
* `udp_path_deleted`: the server of a UDP tunnel that is deleted is not stopped,
  although nothing overlaps and nothing fails, against the comment that it looks
  after its life cycle: the stop request asks the database for a row that was
  deleted before the client was told.
* `framing_notify`: a frame that arrives in two chunks is never notified, nor
  any that follows, against the comment on `notify`: the part is kept without
  its head.

Other weaknesses are part of what the passing runs show, as the exceptions that
their properties name: a TCP port that `authen` binds after its connection is
over and that nobody releases (`OrphanOnlyByRace`), a UDP server made after the
disconnect (`OrphanOnlyWhenLate`), a failover connection made after its
application has left (`StrayOnlyWhenLate`), a P2P request that is never answered
(`Excused` of `P2PLink`), a client that is turned away for its own dead socket
and exits for good (`EndsOnlyAsRepeat`), accounts that stay half made
(`AddressedUnlessInterrupted`), a bound of the addresses that is eleven times too
high (`AddressesInNetwork`).

## 6. What is not modelled

* The bytes of visitors and datagrams, back pressure, the JSON codec, encryption.
* The flows of a UDP instance and their sweep: which of two periods of 5 s ends
  first is a matter of milliseconds that the models do not have.
* The other checks of a tunnel's form before the lock (user, length of the
  uniqueName, quota), failing queries of the tunnel pages, connectors deleted with
  their tunnel.
* HTTP and SOCKS5 tunnels: local servers of libraries in front of a
  `TcpTunnelClient`. What they add, a stop while the login is under way, is
  listed as a hazard.
* The HTTP proxy's cache of ports by domain: one reader, no protocol.
* Connector pages, `createConnector`, `ADD_CONNECTOR`, the STUN mode (off in the
  configuration), UPnP, and hole punching itself, which is a library's.
* In `TunnelControl` and `UdpPath` the notifications keep their order, as with
  one server process; in `TunnelControl` connections are not lost (see
  `TcpTunnel`), in `UdpPath` the pages run one after the other (see
  `TunnelControl`).
* Cluster data, RPC and the N2N community list: their callers are commented out.
* Login, mail codes, system and update pages, installation of drivers, firewall,
  tray icon, logging, configuration files, models: single queries and pure I/O.
  The edge, supernode and file browser programs are external binaries.

Most of the repository's lines are not the program's: `public/` holds vendored
browser libraries and page scripts (jquery, bootstrap, fullcalendar, easyui,
moment), which have no part in the protocols above. What is modelled is the core
of the server, the client and the pages that write the tables.

## 7. What is left

`PortLease`, `TcpTunnel`, `TcpVisitor`, `Session`, `UdpTunnel`, `UdpPath`,
`Framing`, `TunnelControl`, `P2PLink`, `ClientLife` and `Accounts` are written,
checked and proved about. What would add most next:

1. HTTP and SOCKS5 instances in `TunnelControl`, whose stop can come before the
   listen callback.
2. The deletion of a client with what belongs to it, as a composition of
   `Accounts`, `TunnelControl` and `P2PLink`.
