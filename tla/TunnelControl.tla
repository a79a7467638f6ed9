--------------------------- MODULE TunnelControl ---------------------------
(***************************************************************************)
(* Tunnels under administration: the web pages add, update and delete rows *)
(* (Routers/Tunnel.js) under a redis lock on the port, and tell the client *)
(* by DELETE_TUNNEL and ADD_TUNNEL, an update by both of them with a       *)
(* second between; the client (client.js) keeps an instance of             *)
(* TcpTunnelClient for every tunnel in ALL_TUNNEL_MAP.  One server process *)
(* is assumed, which sends its notifications in order.                     *)
(*                                                                         *)
(* Every await of a request and of the client is a place where others run. *)
(* What the bridge does for an instance is in module TcpTunnel; here it    *)
(* binds the port of the row when it gets to the authen message, and       *)
(* releases it when it sees the end of the connection.                     *)
(***************************************************************************)
EXTENDS Sequences

CONSTANTS
    Tunnel,     \* tunnel ids of one client
    Port,       \* public ports
    Setting,    \* what a row may say of a tunnel: its port, its local address
    Naming,     \* how a row may name it: its name, its uniqueName
    Add,        \* requests to /add, each for a tunnel id that is new
    Update,     \* requests to /update
    Delete,     \* requests to /delete
    TunnelOf,   \* TunnelOf[r]: the tunnel of request r
    First,      \* First[t]: the settings and names the row of t may have at first
    Forms,      \* Forms[r]: the settings and names an add or update r may ask for
    Inst,       \* instances of TcpTunnelClient the client can make
    None        \* no row, no instance, no holder

Request == Add \cup Update \cup Delete

ASSUME RequestAssumption ==
    /\ \A s \in Setting : s.port \in Port
    /\ TunnelOf \in [Request -> Tunnel]
    /\ First \in [Tunnel -> SUBSET (Setting \X Naming)]
    /\ Forms \in [Add \cup Update -> SUBSET (Setting \X Naming)]
    /\ None \notin Setting \cup Request \cup Inst \cup Port
    /\ Delete \cap (Add \cup Update) = {} /\ Add \cap Update = {}
    /\ \A q, r \in Add : TunnelOf[q] = TunnelOf[r] => q = r

VARIABLES
    row,        \* row[t]: the setting of tunnel t, or None
    names,      \* names[t]: how the row of tunnel t names it, or None
    lock,       \* lock[p]: the request that holds locks:tcp:p
    phase,      \* phase[r]: where the handler of request r is
    form,       \* form[r]: the setting in the form of an add or update r
    naming,     \* naming[r]: the names in it
    old,        \* old[r]: oldData of an update
    timer,      \* timer[r]: newData that the 1000 ms timer of update r will send
    proc,       \* the client process
    inbox,      \* the notifications on their way to the client
    todo,       \* todo[t]: the setting main has fetched and still has to start
    awaited,    \* the instance main is waiting for
    inst,       \* inst[i]: where instance i is in its life
    made,       \* made[i]: the tunnel and setting instance i was made for
    map,        \* map[t]: ALL_TUNNEL_MAP.get(t)
    authen,     \* the instances whose authen the bridge has not answered
    port,       \* port[i]: the port the bridge has bound for instance i
    expired,    \* history: the requests whose lock ran out under them
    crossed,    \* history: those still to write, another row written since they began
    rushed      \* history: something was begun before the last thing was over

web == <<row, names, lock, phase, form, naming, old, timer, expired, crossed>>
client == <<proc, todo, awaited, inst, made, map>>
bridge == <<authen, port>>
vars == <<web, client, bridge, inbox, rushed>>

Phase == {"new", "waiting", "locked", "tested", "checked", "written",
          "answered", "refused", "unanswered"}
InstState == {"unused", "connecting", "running", "timedOut", "stopped", "left", "closed"}
Message == [cmd : {"ADD_TUNNEL"}, id : Tunnel, setting : Setting]
           \cup [cmd : {"DELETE_TUNNEL"}, id : Tunnel]

TypeOK ==
    /\ row \in [Tunnel -> Setting \cup {None}]
    /\ names \in [Tunnel -> Naming \cup {None}]
    /\ lock \in [Port -> Request \cup {None}]
    /\ phase \in [Request -> Phase]
    /\ form \in [Add \cup Update -> Setting \cup {None}]
    /\ naming \in [Add \cup Update -> Naming \cup {None}]
    /\ old \in [Update -> Setting \cup {None}]
    /\ timer \in [Update -> Setting \cup {None}]
    /\ proc \in {"off", "fetched", "up", "exiting"}
    /\ inbox \in Seq(Message)
    /\ todo \in [Tunnel -> Setting \cup {None}]
    /\ awaited \in Inst \cup {None}
    /\ inst \in [Inst -> InstState]
    /\ made \in [Inst -> [id : Tunnel \cup {None}, setting : Setting \cup {None}]]
    /\ map \in [Tunnel -> Inst \cup {None}]
    /\ authen \in SUBSET Inst
    /\ port \in [Inst -> Port \cup {None}]
    /\ expired \in SUBSET Request
    /\ crossed \in SUBSET Request
    /\ rushed \in BOOLEAN

-----------------------------------------------------------------------------

\* A handler between its first and its last step.
Busy(r) == phase[r] \notin {"new", "answered", "refused", "unanswered"}

\* One that has still to write its row.
ToWrite(r) == phase[r] \in {"waiting", "locked", "tested", "checked"}

\* The bridge listens on p, for whatever connection.
InUse(p) == \E i \in Inst : port[i] = p

Rows == {t \in Tunnel : row[t] # None}

\* Two settings cannot both be rows: unique_port_for_server and
\* unique_loalAddress_for_client.
Clash(s, z) == s.port = z.port \/ s.local = z.local

\* Nor can two names: unique_name_for_client and unique_uniqueName.
NamesClash(m, n) == m.name = n.name \/ m.unique = n.unique

\* What is asked before the lock: is there another row of this uniqueName.  The
\* name is never asked for.
UniqueTaken(t, n) == \E u \in Rows \ {t} : names[u].unique = n.unique

\* What is asked under the lock: is there another row that has the port or the
\* local address.
TakenFor(t, s) == \E u \in Rows \ {t} : Clash(row[u], s)

\* What the four indexes forbid.
Refuses(t, s, n) == \E u \in Rows \ {t} : Clash(row[u], s) \/ NamesClash(names[u], n)

\* Nothing is under way: no handler, no timer, no message, nothing starting or
\* stopping.
Quiet ==
    /\ \A r \in Request : ~Busy(r)
    /\ \A r \in Update : timer[r] = None
    /\ proc \in {"off", "up"}
    /\ inbox = <<>>
    /\ \A t \in Tunnel : todo[t] = None
    /\ \A i \in Inst : inst[i] \notin {"connecting", "stopped", "left"}
    /\ authen = {}

Begins == rushed' = (rushed \/ ~Quiet)

\* notify2Client: a client that is not there is not told.
Notify(m) == inbox' = IF proc \in {"up", "exiting"} THEN Append(inbox, m) ELSE inbox

AddTunnel(t, s) == [cmd |-> "ADD_TUNNEL", id |-> t, setting |-> s]
DeleteTunnel(t) == [cmd |-> "DELETE_TUNNEL", id |-> t]

\* lock.unlock: only the own lock is taken away.
Unlock(r) == lock' = [p \in Port |-> IF lock[p] = r THEN None ELSE lock[p]]

Init ==
    /\ row \in {w \in [Tunnel -> Setting \cup {None}] :
                   /\ \A r \in Add : w[TunnelOf[r]] = None
                   /\ \A t, u \in Tunnel :
                         (t # u /\ w[t] # None /\ w[u] # None) => ~Clash(w[t], w[u])}
    /\ names \in {m \in [Tunnel -> Naming \cup {None}] :
                   /\ \A t \in Tunnel : \/ row[t] = None /\ m[t] = None
                                        \/ <<row[t], m[t]>> \in First[t]
                   /\ \A t, u \in Tunnel :
                         (t # u /\ m[t] # None /\ m[u] # None) => ~NamesClash(m[t], m[u])}
    /\ lock = [p \in Port |-> None]
    /\ phase = [r \in Request |-> "new"]
    /\ form = [r \in Add \cup Update |-> None]
    /\ naming = [r \in Add \cup Update |-> None]
    /\ old = [r \in Update |-> None]
    /\ timer = [r \in Update |-> None]
    /\ proc = "off"
    /\ inbox = <<>>
    /\ todo = [t \in Tunnel |-> None]
    /\ awaited = None
    /\ inst = [i \in Inst |-> "unused"]
    /\ made = [i \in Inst |-> [id |-> None, setting |-> None]]
    /\ map = [t \in Tunnel |-> None]
    /\ authen = {}
    /\ port = [i \in Inst |-> None]
    /\ expired = {}
    /\ crossed = {}
    /\ rushed = FALSE

-----------------------------------------------------------------------------
(* The web pages.                                                          *)

\* /add, up to the lock.  A form that fails on the user, the length of the name
\* or the quota changes nothing and is left out here and below.
BeginAdd(r) ==
    /\ phase[r] = "new"
    /\ \E s \in Setting, n \in Naming :
          /\ <<s, n>> \in Forms[r]
          /\ form' = [form EXCEPT ![r] = s]
          /\ naming' = [naming EXCEPT ![r] = n]
          /\ phase' = [phase EXCEPT ![r] =
                           IF UniqueTaken(TunnelOf[r], n) THEN "refused" ELSE "waiting"]
    /\ Begins
    /\ UNCHANGED <<row, names, lock, old, timer, expired, crossed, client, bridge, inbox>>

\* /update, up to the lock: after the uniqueName has been asked for, oldData is
\* read.
BeginUpdate(r) ==
    /\ phase[r] = "new"
    /\ \E s \in Setting, n \in Naming :
          /\ <<s, n>> \in Forms[r]
          /\ form' = [form EXCEPT ![r] = s]
          /\ naming' = [naming EXCEPT ![r] = n]
          /\ IF UniqueTaken(TunnelOf[r], n)
               THEN /\ phase' = [phase EXCEPT ![r] = "refused"]
                    /\ UNCHANGED old
               ELSE /\ phase' = [phase EXCEPT ![r] = "waiting"]
                    /\ old' = [old EXCEPT ![r] = row[TunnelOf[r]]]
    /\ Begins
    /\ UNCHANGED <<row, names, lock, timer, expired, crossed, client, bridge, inbox>>

\* The lock is on the port of the form.  Ten attempts; then the handler fails
\* on a variable it does not have, and nobody answers the request.
Lock(r) ==
    LET p == form[r].port IN
    /\ phase[r] = "waiting"
    /\ \/ /\ lock[p] = None
          /\ lock' = [lock EXCEPT ![p] = r]
          /\ phase' = [phase EXCEPT ![r] = "locked"]
       \/ /\ lock[p] # None
          /\ phase' = [phase EXCEPT ![r] = "unanswered"]
          /\ UNCHANGED lock
    /\ UNCHANGED <<row, names, form, naming, old, timer, expired, crossed, client, bridge, inbox, rushed>>

\* The lock runs out after 1000 ms, also the one that nobody unlocked.
Expire(p) ==
    /\ lock[p] # None
    /\ lock' = [lock EXCEPT ![p] = None]
    /\ expired' = IF Busy(lock[p]) THEN expired \cup {lock[p]} ELSE expired
    /\ UNCHANGED <<row, names, phase, form, naming, old, timer, crossed, client, bridge, inbox, rushed>>

\* An update that keeps its port is not tested.  One whose row was not there
\* fails on it.
KeepsPort(r) == r \in Update /\ old[r] # None /\ old[r].port = form[r].port

TestPort(r) ==
    /\ phase[r] = "locked"
    /\ phase' = [phase EXCEPT ![r] =
           CASE r \in Update /\ old[r] = None -> "unanswered"
             [] KeepsPort(r) -> "tested"
             [] OTHER -> IF InUse(form[r].port) THEN "refused" ELSE "tested"]
    /\ UNCHANGED <<row, names, lock, form, naming, old, timer, expired, crossed, client, bridge, inbox, rushed>>

\* A check by the id of the row, which an add does not have yet.
CheckRowById(r) ==
    /\ phase[r] = "tested"
    /\ phase' = [phase EXCEPT ![r] =
           IF r \in Update /\ TakenFor(TunnelOf[r], form[r])
             THEN "refused" ELSE "checked"]
    /\ UNCHANGED <<row, names, lock, form, naming, old, timer, expired, crossed, client, bridge, inbox, rushed>>

\* The rows are asked for the port and for the local address.
CheckRow(r) ==
    /\ phase[r] = "tested"
    /\ phase' = [phase EXCEPT ![r] =
           IF TakenFor(TunnelOf[r], form[r]) THEN "refused" ELSE "checked"]
    /\ UNCHANGED <<row, names, lock, form, naming, old, timer, expired, crossed, client, bridge, inbox, rushed>>

\* The row is written, unless an index refuses it: the exception is logged,
\* the lock taken away and the request not answered.  An update of a row that
\* is gone writes nothing.
WriteRow(r) ==
    LET t == TunnelOf[r]
        writes == r \in Add \/ row[t] # None
    IN
    /\ phase[r] = "checked"
    /\ IF writes /\ Refuses(t, form[r], naming[r])
         THEN /\ phase' = [phase EXCEPT ![r] = "unanswered"]
              /\ Unlock(r)
              /\ UNCHANGED <<row, names, crossed>>
         ELSE /\ phase' = [phase EXCEPT ![r] = "written"]
              /\ row' = IF writes THEN [row EXCEPT ![t] = form[r]] ELSE row
              /\ names' = IF writes THEN [names EXCEPT ![t] = naming[r]] ELSE names
              /\ crossed' = (crossed \cup {q \in Add \cup Update : writes /\ ToWrite(q)}) \ {r}
              /\ UNCHANGED lock
    /\ UNCHANGED <<form, naming, old, timer, expired, client, bridge, inbox, rushed>>

\* The end of /add: the client is told, the browser answered.
FinishAdd(r) ==
    /\ phase[r] = "written"
    /\ phase' = [phase EXCEPT ![r] = "answered"]
    /\ Notify(AddTunnel(TunnelOf[r], form[r]))
    /\ Unlock(r)
    /\ UNCHANGED <<row, names, form, naming, old, timer, expired, crossed, client, bridge, rushed>>

\* An update that only tells the client of a new port.
FinishUpdatePort(r) ==
    LET now == row[TunnelOf[r]] IN
    /\ phase[r] = "written"
    /\ Unlock(r)
    /\ phase' = [phase EXCEPT ![r] = IF now = None THEN "unanswered" ELSE "answered"]
    /\ IF now # None /\ now.port # old[r].port
         THEN /\ Notify(DeleteTunnel(TunnelOf[r]))
              /\ timer' = [timer EXCEPT ![r] = now]
         ELSE UNCHANGED <<inbox, timer>>
    /\ UNCHANGED <<row, names, form, naming, old, expired, crossed, client, bridge, rushed>>

\* The end of /update: the row is read once more; if it says something else
\* than before, the client shall stop the tunnel, and start it a second later.
FinishUpdate(r) ==
    LET now == row[TunnelOf[r]] IN
    /\ phase[r] = "written"
    /\ Unlock(r)
    /\ phase' = [phase EXCEPT ![r] = IF now = None THEN "unanswered" ELSE "answered"]
    /\ IF now # None /\ now # old[r]
         THEN /\ Notify(DeleteTunnel(TunnelOf[r]))
              /\ timer' = [timer EXCEPT ![r] = now]
         ELSE UNCHANGED <<inbox, timer>>
    /\ UNCHANGED <<row, names, form, naming, old, expired, crossed, client, bridge, rushed>>

\* The second is over.  It was too short if the client has not done yet what
\* DELETE_TUNNEL asked of it.
Fire(r) ==
    /\ timer[r] # None
    /\ timer' = [timer EXCEPT ![r] = None]
    /\ Notify(AddTunnel(TunnelOf[r], timer[r]))
    /\ rushed' = (rushed \/ inbox # <<>> \/ \E i \in Inst : inst[i] = "stopped")
    /\ UNCHANGED <<row, names, lock, phase, form, naming, old, expired, crossed, client, bridge>>

\* /delete: the row goes, then the client is told.
DeleteRow(r) ==
    /\ phase[r] = "new"
    /\ phase' = [phase EXCEPT ![r] =
                    IF row[TunnelOf[r]] = None THEN "answered" ELSE "written"]
    /\ row' = [row EXCEPT ![TunnelOf[r]] = None]
    /\ names' = [names EXCEPT ![TunnelOf[r]] = None]
    /\ Begins
    /\ UNCHANGED <<lock, form, naming, old, timer, expired, crossed, client, bridge, inbox>>

FinishDelete(r) ==
    /\ phase[r] = "written"
    /\ phase' = [phase EXCEPT ![r] = "answered"]
    /\ Notify(DeleteTunnel(TunnelOf[r]))
    /\ UNCHANGED <<row, names, lock, form, naming, old, timer, expired, crossed, client, bridge, rushed>>

-----------------------------------------------------------------------------
(* The client.                                                             *)

\* A server that also lists tunnels it would refuse.
FetchAll ==
    /\ proc = "off"
    /\ proc' = "fetched"
    /\ todo' = [t \in Tunnel |-> IF row[t] = None THEN CHOOSE s \in Setting : TRUE ELSE row[t]]
    /\ Begins
    /\ UNCHANGED <<awaited, inst, made, map, web, bridge, inbox>>

\* main asks the server for the client's tunnels.
Fetch ==
    /\ proc = "off"
    /\ proc' = "fetched"
    /\ todo' = row
    /\ Begins
    /\ UNCHANGED <<awaited, inst, made, map, web, bridge, inbox>>

\* socket.io is connected, the event handlers are registered.
Online ==
    /\ proc = "fetched"
    /\ proc' = "up"
    /\ UNCHANGED <<todo, awaited, inst, made, map, web, bridge, inbox, rushed>>

\* createTunnel, up to the await of startTunnel.
Create(i, t, s) ==
    /\ inst[i] = "unused"
    /\ inst' = [inst EXCEPT ![i] = "connecting"]
    /\ made' = [made EXCEPT ![i] = [id |-> t, setting |-> s]]

\* main starts one tunnel after the other.
StartNext(i, t) ==
    /\ proc \in {"up", "exiting"}
    /\ awaited = None
    /\ todo[t] # None
    /\ Create(i, t, todo[t])
    /\ todo' = [todo EXCEPT ![t] = None]
    /\ awaited' = i
    /\ UNCHANGED <<proc, map, web, bridge, inbox, rushed>>

Receives(cmd) ==
    /\ proc \in {"up", "exiting"}
    /\ inbox # <<>>
    /\ Head(inbox).cmd = cmd
    /\ inbox' = Tail(inbox)

ReceiveAdd(i) ==
    /\ Receives("ADD_TUNNEL")
    /\ Create(i, Head(inbox).id, Head(inbox).setting)
    /\ UNCHANGED <<proc, todo, awaited, map, web, bridge, rushed>>

\* A removal that forgets to stop.
ReceiveDeleteMapOnly ==
    /\ Receives("DELETE_TUNNEL")
    /\ map' = [map EXCEPT ![Head(inbox).id] = None]
    /\ UNCHANGED <<proc, todo, awaited, inst, made, web, bridge, rushed>>

\* What is in the map is stopped; what is not there yet is not.
ReceiveDelete ==
    LET i == map[Head(inbox).id] IN
    /\ Receives("DELETE_TUNNEL")
    /\ inst' = IF i # None /\ inst[i] = "running"
                 THEN [inst EXCEPT ![i] = "stopped"] ELSE inst
    /\ map' = [map EXCEPT ![Head(inbox).id] = None]
    /\ UNCHANGED <<proc, todo, awaited, made, web, bridge, rushed>>

\* A map of the tunnels instead of what runs for them.
StartedWithItem(i) ==
    /\ inst[i] = "connecting"
    /\ inst' = [inst EXCEPT ![i] = "running"]
    /\ authen' = authen \cup {i}
    /\ map' = [map EXCEPT ![made[i].id] = made[i]]
    /\ awaited' = IF awaited = i THEN None ELSE awaited
    /\ UNCHANGED <<proc, todo, made, port, web, inbox, rushed>>

\* startTunnel resolves: authen is written, the instance goes into the map, and
\* main goes on if it was waiting for this one.
Started(i) ==
    /\ inst[i] = "connecting"
    /\ inst' = [inst EXCEPT ![i] = "running"]
    /\ authen' = authen \cup {i}
    /\ map' = [map EXCEPT ![made[i].id] = i]
    /\ awaited' = IF awaited = i THEN None ELSE awaited
    /\ UNCHANGED <<proc, todo, made, port, web, inbox, rushed>>

\* startTunnel is rejected after 2000 ms: the instance is forgotten, and if it
\* was main that waited, main is over and the other tunnels are never started.
StartTimeout(i) ==
    /\ inst[i] = "connecting"
    /\ inst' = [inst EXCEPT ![i] = "timedOut"]
    /\ todo' = IF awaited = i THEN [t \in Tunnel |-> None] ELSE todo
    /\ rushed' = TRUE
    /\ UNCHANGED <<proc, awaited, made, map, web, bridge, inbox>>

\* The process ends: after quitClient (processExit), or because somebody ends
\* it; the kernel closes its connections.
Exit ==
    /\ proc # "off"
    /\ proc' = "off"
    /\ inbox' = <<>>
    /\ todo' = [t \in Tunnel |-> None]
    /\ awaited' = None
    /\ inst' = [i \in Inst |-> CASE inst[i] \in {"running", "stopped"} -> "left"
                                 [] inst[i] \in {"connecting", "timedOut"} -> "closed"
                                 [] OTHER -> inst[i]]
    /\ map' = [t \in Tunnel |-> None]
    /\ Begins
    /\ UNCHANGED <<made, web, bridge>>

-----------------------------------------------------------------------------
(* The bridge, as far as it matters here.                                  *)

\* The row is looked up when authen is read: it need not be what the instance
\* was made for.  Without a row the client is told to quit, and exits.
Authen(i) ==
    LET s == row[made[i].id] IN
    /\ i \in authen
    /\ authen' = authen \ {i}
    /\ port' = [port EXCEPT ![i] =
                   IF s # None /\ ~InUse(s.port) THEN s.port ELSE None]
    /\ IF s = None /\ proc = "up"
         THEN \/ /\ inst[i] \in {"running", "stopped"}
                 /\ proc' = "exiting"
              \/ /\ inst[i] # "running"
                 /\ UNCHANGED proc
         ELSE UNCHANGED proc
    /\ UNCHANGED <<todo, awaited, inst, made, map, web, inbox, rushed>>

\* The end of a connection that was stopped, or left by a process that ended,
\* reaches the bridge.
Release(i) ==
    /\ inst[i] \in {"stopped", "left"}
    /\ inst' = [inst EXCEPT ![i] = "closed"]
    /\ port' = [port EXCEPT ![i] = None]
    /\ UNCHANGED <<proc, todo, awaited, made, map, authen, web, inbox, rushed>>

Next ==
    \/ \E r \in Add : BeginAdd(r) \/ FinishAdd(r)
    \/ \E r \in Update : BeginUpdate(r) \/ FinishUpdate(r) \/ Fire(r)
    \/ \E r \in Add \cup Update : Lock(r) \/ TestPort(r) \/ CheckRow(r) \/ WriteRow(r)
    \/ \E r \in Delete : DeleteRow(r) \/ FinishDelete(r)
    \/ \E p \in Port : Expire(p)
    \/ Fetch \/ Online \/ ReceiveDelete \/ Exit
    \/ \E i \in Inst : ReceiveAdd(i) \/ Started(i) \/ StartTimeout(i)
                       \/ Authen(i) \/ Release(i)
                       \/ \E t \in Tunnel : StartNext(i, t)

Spec == Init /\ [][Next]_vars

-----------------------------------------------------------------------------
(* Properties                                                              *)

\* When one thing is done after the other and all is quiet, the client is what
\* the table says: for every row one instance, in the map, made for the setting
\* of the row and with its port bound, and nothing else runs or holds a port.
\* Updates get there by DELETE_TUNNEL and a delayed ADD_TUNNEL, restarts by
\* what main fetches.
MirrorsRows ==
    (Quiet /\ ~rushed /\ proc = "up") =>
        /\ \A t \in Rows : /\ map[t] # None
                            /\ inst[map[t]] = "running"
                            /\ made[map[t]] = [id |-> t, setting |-> row[t]]
                            /\ port[map[t]] = row[t].port
        /\ \A i \in Inst : (inst[i] = "running" \/ port[i] # None) =>
                                made[i].id \in Rows /\ map[made[i].id] = i

\* The pages do not end a client: one whose tunnels are changed one after the
\* other is never told to quit, which is meant for a wrong key.
ClientIsSpared == ~rushed => proc # "exiting"

\* An instance that runs and is not in ALL_TUNNEL_MAP any more, so that no
\* DELETE_TUNNEL will stop it.
Lost(i) == inst[i] = "running" /\ map[made[i].id] # i

\* An instance gets lost in one way only, that another one for the same tunnel
\* takes its place in the map; no DELETE_TUNNEL loses one.
LostOnlyByReplacement ==
    [][\A i \in Inst : (Lost(i)' /\ ~Lost(i)) =>
           \E j \in Inst \ {i} : Started(j) /\ made[j].id = made[i].id]_vars

\* An index refuses a row that the queries have let pass, and leaves the request
\* without an answer, for what they do not cover only: the name, which is never
\* asked for; the local address and the uniqueName, which the lock does not
\* guard, when another request wrote its row meanwhile; the port, when it did so
\* and a lock on the port had run out under its holder.
IndexOnlyUnguarded ==
    [][\A r \in Add \cup Update :
           (phase[r] = "checked" /\ phase'[r] = "unanswered") =>
               \E t \in Rows \ {TunnelOf[r]} :
                   \/ names[t].name = naming[r].name
                   \/ /\ r \in crossed
                      /\ \/ row[t].local = form[r].local
                         \/ names[t].unique = naming[r].unique
                         \/ \E q \in expired : form[q].port = form[r].port]_vars
=============================================================================
