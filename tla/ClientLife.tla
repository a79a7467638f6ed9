----------------------------- MODULE ClientLife -----------------------------
(***************************************************************************)
(* The life of the client program (client.js): main from the first request *)
(* to the watchdog, the outages of the server or the network, socket.io    *)
(* that reconnects by itself, TCP tunnels that do not, the watchdog that   *)
(* starts a successor, and the end of a process that is turned away as a   *)
(* repeat login (Commander.js; Session has the race of two logins, here a  *)
(* login is one step).                                                     *)
(*                                                                         *)
(* All processes are of one client.  An exception that nobody catches ends *)
(* the function it is in, never the process.                               *)
(***************************************************************************)
EXTENDS Naturals

CONSTANTS
    Proc,       \* processes, 1 is the one the user starts
    Check       \* checks of the watchdog that can be under way at a time

ASSUME ProcAssumption == Proc \subseteq Nat \ {0} /\ 1 \in Proc

VARIABLES
    net,        \* whether the server can be reached
    phase,      \* phase[p]: where main of process p is
    parent,     \* parent[p]: the process that spawned p, or 0
    fine,       \* fine[p]: isWorkingFine
    watch,      \* watch[p]: the interval of timerCheckServerStatus is set
    check,      \* check[p][k]: the first or the second request of a check
    cmd,        \* cmd[p]: socket.io, as the process sees it
    held,       \* held[p]: sockets of p that the server has, live or dead
    tunnel,     \* tunnel[p]: the bridge connections of the TCP tunnels
    leaving,    \* processes that exit after 1700 ms; main and timers go on
    turned      \* history: processes that were turned away

vars == <<net, phase, parent, fine, watch, check, cmd, held, tunnel, leaving, turned>>

TypeOK ==
    /\ net \in {"up", "down"}
    /\ phase \in [Proc -> {"none", "sleeping", "getting", "config", "joining", "tunnels",
                           "edge", "running", "waiting", "stuck", "deaf", "dead"}]
    /\ parent \in [Proc -> Proc \cup {0}]
    /\ fine \in [Proc -> BOOLEAN] /\ watch \in [Proc -> BOOLEAN]
    /\ check \in [Proc -> [Check -> {"idle", "first", "second"}]]
    /\ cmd \in [Proc -> {"none", "down", "up", "refused"}]
    /\ held \in [Proc -> SUBSET {"live", "ghost"}]
    /\ tunnel \in [Proc -> {"none", "up", "lost"}]
    /\ leaving \subseteq Proc /\ turned \subseteq Proc

Init ==
    /\ net \in {"up", "down"}
    /\ phase = [p \in Proc |-> IF p = 1 THEN "getting" ELSE "none"]
    /\ parent = [p \in Proc |-> 0]
    /\ fine = [p \in Proc |-> TRUE] /\ watch = [p \in Proc |-> FALSE]
    /\ check = [p \in Proc |-> [k \in Check |-> "idle"]]
    /\ cmd = [p \in Proc |-> "none"]
    /\ held = [p \in Proc |-> {}]
    /\ tunnel = [p \in Proc |-> "none"]
    /\ leaving = {} /\ turned = {}

Gone(p) == phase[p] \in {"none", "dead"}
Goto(p, s) == phase' = [phase EXCEPT ![p] = s]

watchdog == <<fine, watch, check>>

-----------------------------------------------------------------------------
(* main                                                                    *)

\* A successor that does not sleep (option -s).
WakeEarly(p) ==
    /\ phase[p] = "sleeping"
    /\ Goto(p, "getting")
    /\ UNCHANGED <<net, parent, watchdog, cmd, held, tunnel, leaving, turned>>

\* It sleeps 3000 ms, its parent is gone after 1700 ms.
Wake(p) ==
    /\ phase[p] = "sleeping"
    /\ parent[p] # 0 => Gone(parent[p])
    /\ Goto(p, "getting")
    /\ UNCHANGED <<net, parent, watchdog, cmd, held, tunnel, leaving, turned>>

\* A main that gives up when it cannot reach the server.
GetClientOrExit(p) ==
    /\ phase[p] = "getting"
    /\ Goto(p, IF net = "up" THEN "config" ELSE "stuck")
    /\ leaving' = IF net = "up" THEN leaving ELSE leaving \cup {p}
    /\ UNCHANGED <<net, parent, watchdog, cmd, held, tunnel, turned>>

\* getClient, whose failure is the only one that is caught.
GetClient(p) ==
    /\ phase[p] = "getting"
    /\ IF net = "up"
         THEN /\ Goto(p, "config")
              /\ UNCHANGED watchdog
         ELSE /\ Goto(p, "waiting")
              /\ fine' = [fine EXCEPT ![p] = FALSE]
              /\ watch' = [watch EXCEPT ![p] = TRUE]
              /\ UNCHANGED check
    /\ UNCHANGED <<net, parent, cmd, held, tunnel, leaving, turned>>

\* getDefaultConfig; then socket.io begins to connect, for ever if need be.
GetConfig(p) ==
    /\ phase[p] = "config"
    /\ IF net = "up"
         THEN Goto(p, "joining") /\ cmd' = [cmd EXCEPT ![p] = "down"]
         ELSE Goto(p, "stuck") /\ UNCHANGED cmd
    /\ UNCHANGED <<net, parent, watchdog, held, tunnel, leaving, turned>>

\* main gives up after 30 s without a connection; nobody registers handlers.
JoinTimesOut(p) ==
    /\ phase[p] = "joining" /\ net = "down"
    /\ Goto(p, "deaf")
    /\ UNCHANGED <<net, parent, watchdog, cmd, held, tunnel, leaving, turned>>

\* startTunnel of each tunnel; its 2000 ms timeout ends main.
StartTunnels(p) ==
    /\ phase[p] = "tunnels"
    /\ IF net = "up"
         THEN Goto(p, "edge") /\ tunnel' = [tunnel EXCEPT ![p] = "up"]
         ELSE Goto(p, "stuck") /\ UNCHANGED tunnel
    /\ UNCHANGED <<net, parent, watchdog, cmd, held, leaving, turned>>

\* startEdgeProcessAsync, then the watchdog.
StartEdge(p) ==
    /\ phase[p] = "edge"
    /\ Goto(p, IF net = "up" THEN "running" ELSE "stuck")
    /\ watch' = [watch EXCEPT ![p] = (net = "up")]
    /\ UNCHANGED <<net, parent, fine, check, cmd, held, tunnel, leaving, turned>>

\* process.exit; a server that can be reached hears the end of the socket.
Exit(p) ==
    /\ p \in leaving
    /\ leaving' = leaving \ {p}
    /\ Goto(p, "dead")
    /\ watch' = [watch EXCEPT ![p] = FALSE]
    /\ check' = [check EXCEPT ![p] = [k \in Check |-> "idle"]]
    /\ cmd' = [cmd EXCEPT ![p] = "none"]
    /\ held' = [held EXCEPT ![p] = (@ \ {"live"}) \cup
                  (IF net = "down" /\ "live" \in @ THEN {"ghost"} ELSE {})]
    /\ tunnel' = [tunnel EXCEPT ![p] = "none"]
    /\ UNCHANGED <<net, parent, fine, turned>>

-----------------------------------------------------------------------------
(* The command channel                                                     *)

\* socket.io connects, for the first time or again.  If the server has any
\* socket of this client, be it dead, the process is told to exit; one without
\* handlers does not hear it.  A refused socket does not reconnect.
LogIn(p) ==
    /\ cmd[p] = "down" /\ net = "up"
    /\ IF \E q \in Proc : held[q] # {}
         THEN /\ cmd' = [cmd EXCEPT ![p] = "refused"]
              /\ leaving' = IF phase[p] = "deaf" THEN leaving ELSE leaving \cup {p}
              /\ turned' = turned \cup {p}
              /\ UNCHANGED held
         ELSE /\ cmd' = [cmd EXCEPT ![p] = "up"]
              /\ held' = [held EXCEPT ![p] = {"live"}]
              /\ UNCHANGED <<leaving, turned>>
    /\ Goto(p, IF phase[p] = "joining" THEN "tunnels" ELSE phase[p])
    /\ UNCHANGED <<net, parent, watchdog, tunnel>>

\* The process misses the server's pings, or hears that its socket is unknown.
LoseSocket(p) ==
    /\ cmd[p] = "up"
    /\ net = "down" \/ "live" \notin held[p]
    /\ cmd' = [cmd EXCEPT ![p] = "down"]
    /\ held' = [held EXCEPT ![p] = (@ \ {"live"}) \cup
                  (IF "live" \in @ THEN {"ghost"} ELSE {})]
    /\ UNCHANGED <<net, phase, parent, watchdog, tunnel, leaving, turned>>

\* The server misses the answers to its pings.
ServerDrops(p) ==
    /\ held[p] # {}
    /\ "ghost" \in held[p] \/ net = "down"
    /\ held' = [held EXCEPT ![p] = IF "ghost" \in @ THEN @ \ {"ghost"} ELSE {}]
    /\ UNCHANGED <<net, phase, parent, watchdog, cmd, tunnel, leaving, turned>>

-----------------------------------------------------------------------------
(* Outages                                                                 *)

Break ==
    /\ net = "up"
    /\ net' = "down"
    /\ UNCHANGED <<phase, parent, watchdog, cmd, held, tunnel, leaving, turned>>

Return ==
    /\ net = "down"
    /\ net' = "up"
    /\ UNCHANGED <<phase, parent, watchdog, cmd, held, tunnel, leaving, turned>>

\* 'close' of the bridge connections: nobody starts them again.
LoseTunnels(p) ==
    /\ net = "down" /\ tunnel[p] = "up"
    /\ tunnel' = [tunnel EXCEPT ![p] = "lost"]
    /\ UNCHANGED <<net, phase, parent, watchdog, cmd, held, leaving, turned>>

\* The server process was started again: it knows nobody.
ServerRestarts ==
    /\ net = "down"
    /\ \E p \in Proc : held[p] # {} \/ tunnel[p] = "up"
    /\ held' = [p \in Proc |-> {}]
    /\ tunnel' = [p \in Proc |-> IF tunnel[p] = "up" THEN "lost" ELSE tunnel[p]]
    /\ UNCHANGED <<net, phase, parent, watchdog, cmd, leaving, turned>>

-----------------------------------------------------------------------------
(* The watchdog                                                            *)

\* Every 20 s, whether the check before it has ended or not.
BeginCheck(p, k) ==
    /\ watch[p]
    /\ check[p][k] = "idle"
    /\ check' = [check EXCEPT ![p][k] = "first"]
    /\ UNCHANGED <<net, phase, parent, fine, watch, cmd, held, tunnel, leaving, turned>>

\* A watchdog that ends with the first check that fails.
CheckFailsForGood(p, k) ==
    /\ check[p][k] # "idle" /\ net = "down"
    /\ check' = [check EXCEPT ![p][k] = IF @ = "first" THEN "second" ELSE "idle"]
    /\ fine' = [fine EXCEPT ![p] = FALSE]
    /\ watch' = [watch EXCEPT ![p] = check[p][k] = "first"]
    /\ UNCHANGED <<net, phase, parent, cmd, held, tunnel, leaving, turned>>

\* checkServer fails; checkServerStatus asks twice.
CheckFails(p, k) ==
    /\ check[p][k] # "idle" /\ net = "down"
    /\ check' = [check EXCEPT ![p][k] = IF @ = "first" THEN "second" ELSE "idle"]
    /\ fine' = [fine EXCEPT ![p] = FALSE]
    /\ UNCHANGED <<net, phase, parent, watch, cmd, held, tunnel, leaving, turned>>

CheckSucceeds(p, k) ==
    /\ check[p][k] # "idle" /\ net = "up" /\ fine[p]
    /\ check' = [check EXCEPT ![p][k] = "idle"]
    /\ UNCHANGED <<net, phase, parent, fine, watch, cmd, held, tunnel, leaving, turned>>

\* A restart that spawns whenever it is called.
SpawnAlways(p) ==
    \E q \in Proc : /\ phase[q] = "none"
                   /\ parent' = [parent EXCEPT ![q] = p]
                   /\ phase' = [phase EXCEPT ![q] = "sleeping"]

\* restartApplication takes the program's name off process.argv: a second call
\* has none left to spawn.
Spawn(p) ==
    IF \E q \in Proc : parent[q] = p
      THEN UNCHANGED <<parent, phase>>
      ELSE \E q \in Proc : /\ phase[q] = "none"
                           /\ parent' = [parent EXCEPT ![q] = p]
                           /\ phase' = [phase EXCEPT ![q] = "sleeping"]

\* The server answers again: the process spawns a successor and exits.
Restart(p, k) ==
    /\ check[p][k] # "idle" /\ net = "up" /\ ~fine[p]
    /\ check' = [check EXCEPT ![p][k] = "idle"]
    /\ fine' = [fine EXCEPT ![p] = TRUE]
    /\ watch' = [watch EXCEPT ![p] = FALSE]
    /\ Spawn(p)
    /\ leaving' = leaving \cup {p}
    /\ UNCHANGED <<net, cmd, held, tunnel, turned>>

-----------------------------------------------------------------------------

Main(p) ==
    \/ Wake(p) \/ GetClient(p) \/ GetConfig(p) \/ JoinTimesOut(p)
    \/ StartTunnels(p) \/ StartEdge(p) \/ Exit(p)

Answered(p, k) == CheckFails(p, k) \/ CheckSucceeds(p, k) \/ Restart(p, k)

Next ==
    \/ \E p \in Proc :
          \/ Main(p) \/ LogIn(p) \/ LoseSocket(p) \/ ServerDrops(p) \/ LoseTunnels(p)
          \/ \E k \in Check : BeginCheck(p, k) \/ Answered(p, k)
    \/ Break \/ Return \/ ServerRestarts

Spec == Init /\ [][Next]_vars

\* Requests are answered or fail, timers run, heartbeats end, socket.io goes on
\* trying.  Nothing is assumed of the network.
Fairness ==
    \A p \in Proc :
        /\ WF_vars(Main(p)) /\ WF_vars(LogIn(p)) /\ WF_vars(LoseSocket(p))
        /\ WF_vars(ServerDrops(p))
        /\ \A k \in Check : WF_vars(BeginCheck(p, k)) /\ WF_vars(Answered(p, k))

FairSpec == Spec /\ Fairness

-----------------------------------------------------------------------------
(* Properties                                                              *)

\* Outages never leave the client without a process, whenever they come and
\* however often: the last process ends only after the server has turned one
\* away, for a dead socket it still had.  (quitClient, which ends it too, is in
\* TunnelControl; the deletion of the client itself is left out.)
EndsOnlyAsRepeat == (\A p \in Proc : Gone(p)) => turned # {}

\* Checks overlap when the server does not answer for more than 20 s, and each
\* may find that it answers again: a process has one successor all the same.
OneSuccessor ==
    \A q, r \in Proc : parent[q] = parent[r] /\ q # r => parent[q] = 0

\* Two processes never have the tunnels of the client together: a successor
\* sleeps for longer than its parent takes to exit.
OneServes ==
    \A p, q \in Proc : tunnel[p] = "up" /\ tunnel[q] = "up" => p = q

Served == \E p \in Proc : tunnel[p] = "up"

\* A main that is interrupted has no watchdog, a process that is turned away
\* has no successor, and the model has so many processes and no more.
Excused ==
    \/ \E p \in Proc : phase[p] \in {"stuck", "deaf"}
    \/ turned # {}
    \/ \A p \in Proc : phase[p] # "none"

\* Tunnels that were lost in an outage the watchdog has noticed are served
\* again when the server stays reachable.
NoticedLossIsRepaired ==
    <>[](net = "up") =>
        \A p \in Proc : (tunnel[p] = "lost" /\ ~fine[p]) ~> (Served \/ Excused)
=============================================================================
