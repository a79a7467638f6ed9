------------------------------ MODULE Session ------------------------------
(***************************************************************************)
(* Logins to the command channel (Communication/Commander.js): one client  *)
(* shall have one session.  A socket that passed the token check is in the *)
(* namespace at once; its connection handler then asks every worker which  *)
(* sockets it has, and turns the socket away if its client has another.    *)
(* With a single worker the question is answered on the spot, in a cluster *)
(* (server.json cluster.enabled) the answers come in one by one.           *)
(*                                                                         *)
(* The online status in the database is written by updateClientStatus,     *)
(* which nobody awaits: the writes wait in the connection pool.            *)
(***************************************************************************)
CONSTANTS
    Sock,       \* socket.io sockets of the default namespace
    Client,     \* client ids
    Worker,     \* server processes
    ClientOf,   \* ClientOf[s]: handshake.auth.clientId of s
    WorkerOf    \* WorkerOf[s]: the process s is connected to

ASSUME ClientOfAssumption == ClientOf \in [Sock -> Client]
ASSUME WorkerOfAssumption == WorkerOf \in [Sock -> Worker]

VARIABLES
    sock,       \* sock[s]: not made yet, in the namespace, or gone
    login,      \* login[s]: how far the connection handler of s is
    looked,     \* looked[s]: the workers whose answer fetchSockets has
    seen,       \* seen[s]: existSockets, as far as the answers go
    kick,       \* the sockets whose 100 ms disconnect timer is running
    status,     \* status[c]: the column of client c
    pending     \* the status updates the database has not done

vars == <<sock, login, looked, seen, kick, status, pending>>

Update == [of : Sock, value : {0, 1}]

TypeOK ==
    /\ sock \in [Sock -> {"new", "up", "gone"}]
    /\ login \in [Sock -> {"none", "fetching", "failed", "rejected", "accepted"}]
    /\ looked \in [Sock -> SUBSET Worker]
    /\ seen \in [Sock -> SUBSET Sock]
    /\ kick \in SUBSET Sock
    /\ status \in [Client -> {0, 1}]
    /\ pending \in SUBSET Update

Init ==
    /\ sock = [s \in Sock |-> "new"]
    /\ login = [s \in Sock |-> "none"]
    /\ looked = [s \in Sock |-> {}]
    /\ seen = [s \in Sock |-> {}]
    /\ kick = {}
    /\ status = [c \in Client |-> 0]
    /\ pending = {}

-----------------------------------------------------------------------------

\* The last answer is in: the handler of s goes on before its process does
\* anything else.
Fetched(s) == login[s] = "fetching" /\ looked[s] = Worker
Idle(w) == \A s \in Sock : WorkerOf[s] = w => ~Fetched(s)

Rivals(s) == {u \in Sock : ClientOf[u] = ClientOf[s] /\ sock[u] = "up"}

\* isValidToken says no, or the client left before the answer: no handler.
Refuse(s) ==
    /\ sock[s] = "new"
    /\ sock' = [sock EXCEPT ![s] = "gone"]
    /\ UNCHANGED <<login, looked, seen, kick, status, pending>>

\* The socket joins the namespace and its connection handler runs up to the
\* await: fetchSockets starts with what is connected to this very process.
Connect(s) ==
    /\ sock[s] = "new"
    /\ Idle(WorkerOf[s])
    /\ sock' = [sock EXCEPT ![s] = "up"]
    /\ login' = [login EXCEPT ![s] = "fetching"]
    /\ looked' = [looked EXCEPT ![s] = {WorkerOf[s]}]
    /\ seen' = [seen EXCEPT ![s] =
                   {u \in Rivals(s) : WorkerOf[u] = WorkerOf[s]} \cup {s}]
    /\ UNCHANGED <<kick, status, pending>>

\* An answer that lists the sockets which are logged in, and not the ones
\* that are still waiting for answers of their own.
AnswerLoggedIn(s, w) ==
    /\ login[s] = "fetching"
    /\ w \notin looked[s]
    /\ looked' = [looked EXCEPT ![s] = @ \cup {w}]
    /\ seen' = [seen EXCEPT ![s] =
                   @ \cup {u \in Rivals(s) : WorkerOf[u] = w /\ login[u] = "accepted"}]
    /\ UNCHANGED <<sock, login, kick, status, pending>>

\* Another process answers fetchSockets.
Answer(s, w) ==
    /\ login[s] = "fetching"
    /\ w \notin looked[s]
    /\ looked' = [looked EXCEPT ![s] = @ \cup {w}]
    /\ seen' = [seen EXCEPT ![s] = @ \cup {u \in Rivals(s) : WorkerOf[u] = w}]
    /\ UNCHANGED <<sock, login, kick, status, pending>>

\* An answer is missing when fetchSockets times out: the handler's promise is
\* rejected, the socket stays, without an event handler but 'disconnect'.
FetchFails(s) ==
    /\ login[s] = "fetching"
    /\ looked[s] # Worker
    /\ login' = [login EXCEPT ![s] = "failed"]
    /\ UNCHANGED <<sock, looked, seen, kick, status, pending>>

SeesAnother(s) == \E u, v \in seen[s] : u # v

\* More than one socket of this client: told, and disconnected 100 ms later.
Reject(s) ==
    /\ Fetched(s)
    /\ SeesAnother(s)
    /\ login' = [login EXCEPT ![s] = "rejected"]
    /\ kick' = kick \cup {s}
    /\ UNCHANGED <<sock, looked, seen, status, pending>>

\* The handler goes on, also for a socket that has left meanwhile.
Accept(s) ==
    /\ Fetched(s)
    /\ ~SeesAnother(s)
    /\ login' = [login EXCEPT ![s] = "accepted"]
    /\ pending' = pending \cup {[of |-> s, value |-> 1]}
    /\ UNCHANGED <<sock, looked, seen, kick, status>>

\* A status of its own for a client that has been there before.
LeaveAsKnown(s) ==
    /\ sock[s] = "up"
    /\ sock' = [sock EXCEPT ![s] = "gone"]
    /\ pending' = pending \cup {[of |-> s, value |-> 2]}

\* 'disconnect', for whatever reason: its handler writes status 0.
Leave(s) ==
    /\ sock[s] = "up"
    /\ sock' = [sock EXCEPT ![s] = "gone"]
    /\ pending' = pending \cup {[of |-> s, value |-> 0]}

\* The client goes, or the heartbeat finds it gone.
Disconnect(s) ==
    /\ Idle(WorkerOf[s])
    /\ Leave(s)
    /\ UNCHANGED <<login, looked, seen, kick, status>>

\* A timer that only disconnects what it finds logged in.
KickAccepted(s) ==
    /\ s \in kick
    /\ Idle(WorkerOf[s])
    /\ kick' = kick \ {s}
    /\ IF login[s] = "accepted" /\ sock[s] = "up" THEN Leave(s) ELSE UNCHANGED <<sock, pending>>
    /\ UNCHANGED <<login, looked, seen, status>>

\* The timer of a rejected socket.
Kick(s) ==
    /\ s \in kick
    /\ Idle(WorkerOf[s])
    /\ kick' = kick \ {s}
    /\ IF sock[s] = "up" THEN Leave(s) ELSE UNCHANGED <<sock, pending>>
    /\ UNCHANGED <<login, looked, seen, status>>

\* The database does one of the updates, in an order of its own.
Write(p) ==
    /\ p \in pending
    /\ pending' = pending \ {p}
    /\ status' = [status EXCEPT ![ClientOf[p.of]] = p.value]
    /\ UNCHANGED <<sock, login, looked, seen, kick>>

\* An update fails; its promise has no handler.
WriteFails(p) ==
    /\ p \in pending
    /\ pending' = pending \ {p}
    /\ UNCHANGED <<sock, login, looked, seen, kick, status>>

\* A process dies, and another takes its place: its sockets, handlers and
\* timers are gone, and so may be the updates it had not sent.
WorkerDies(w) ==
    LET here == {s \in Sock : WorkerOf[s] = w} IN
    /\ \E s \in here : sock[s] = "up"
    /\ sock' = [s \in Sock |-> IF s \in here /\ sock[s] = "up" THEN "gone" ELSE sock[s]]
    /\ login' = [s \in Sock |->
                    IF s \in here /\ login[s] = "fetching" THEN "failed" ELSE login[s]]
    /\ kick' = kick \ here
    /\ \E lost \in SUBSET {p \in pending : p.of \in here} : pending' = pending \ lost
    /\ UNCHANGED <<looked, seen, status>>

Next ==
    \/ \E s \in Sock :
          \/ Refuse(s) \/ Connect(s) \/ FetchFails(s) \/ Reject(s) \/ Accept(s)
          \/ Disconnect(s) \/ Kick(s)
          \/ \E w \in Worker : Answer(s, w)
    \/ \E p \in pending : Write(p) \/ WriteFails(p)
    \/ \E w \in Worker : WorkerDies(w)

Spec == Init /\ [][Next]_vars

\* fetchSockets comes to an end by its answers or by its timeout, handlers run,
\* timers fire.  Who connects and leaves, and what fails, is not fair.
Fairness ==
    \A s \in Sock :
        /\ WF_vars((\E w \in Worker : Answer(s, w)) \/ FetchFails(s))
        /\ WF_vars(Reject(s)) /\ WF_vars(Accept(s)) /\ WF_vars(Kick(s))

FairSpec == Spec /\ Fairness

-----------------------------------------------------------------------------
(* Properties                                                              *)

InSession(s) == sock[s] = "up" /\ login[s] = "accepted"

\* A client never has two sessions, however many of its processes log in at
\* once and to whichever workers (the check of existSockets.length).
OneSession == \A s, u \in Sock :
    (InSession(s) /\ InSession(u) /\ ClientOf[s] = ClientOf[u]) => s = u

\* A login comes to a decision: in the end every socket whose handler has
\* started is in a session, or has left, or its fetchSockets has failed.
LoginsAreDecided ==
    \A s \in Sock :
        (login[s] = "fetching") ~> (sock[s] = "gone" \/ login[s] \in {"accepted", "failed"})

\* The status column is the "client status" (Db/Models/Client.js), kept by the
\* function that is commented as setting the online status: the last of the
\* updates of a client, after which none is on its way and no write can set it
\* right before the next login, does not leave a client in session offline.
StatusFollowsSession ==
    [][\A c \in Client :
           (/\ status[c] = 1 /\ status'[c] = 0
            /\ \A p \in pending' : ClientOf[p.of] # c) =>
               \A s \in Sock : InSession(s) => ClientOf[s] # c]_vars
=============================================================================
