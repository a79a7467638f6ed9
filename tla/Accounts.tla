------------------------------ MODULE Accounts ------------------------------
(***************************************************************************)
(* Accounts and their devices: /register (Routers/User.js), /add, /update  *)
(* and /delete of clients (Routers/Client.js), and the virtual address of  *)
(* a client (NetUtil.getVirtualIp).                                        *)
(*                                                                         *)
(* Every await of a handler is a place where others run, and where the     *)
(* database may fail or the server end.  The transaction of /register is   *)
(* handed to no query ("t" is not the option's name), so that its rollback *)
(* takes nothing back.  An account is named after the registration that    *)
(* makes its row.                                                          *)
(***************************************************************************)
EXTENDS Integers, FiniteSets

CONSTANTS
    Register,   \* requests to /register
    Add,        \* requests to /add
    Update,     \* requests to /update, which rename a client
    Delete,     \* requests to /delete
    Username,   \* Username[r], Email[r]: what registration r asks for
    Email,
    UserOf,     \* UserOf[r]: the account that request r is made in
    NameOf,     \* NameOf[r]: the client name that an add or update asks for
    Name,       \* client names
    Device1,    \* the names of the two clients an account starts with
    Device2,
    Limit,      \* userConfig[userType].client.count
    Id,         \* ids of clients, ascending as the database gives them
    Start,      \* the ids that may be the next one at first
    None        \* no row, no address

Page == Add \cup Update \cup Delete
Request == Register \cup Page

\* The account of a request.
Account(r) == IF r \in Register THEN r ELSE UserOf[r]

-----------------------------------------------------------------------------
(* Virtual addresses                                                       *)

\* int2iP: the four bytes of a 32 bit number.
int2iP(n) == <<n \div 16777216, (n \div 65536) % 256, (n \div 256) % 256, n % 256>>

MaxClientId == 184549374

\* A bound that is the number of addresses.
getVirtualIpOfNetwork(id) ==
    IF id > 16777213 THEN <<10, 255, 255, 254>> ELSE int2iP(167772161 + id)

\* 10.0.0.1 and up; the last address for every id above the bound.
getVirtualIp(id) ==
    IF id > MaxClientId THEN <<10, 255, 255, 254>> ELSE int2iP(167772161 + id)

Address == {getVirtualIp(id) : id \in Id}
Row == [user : Register, name : Name, ip : Address \cup {None}]

ASSUME AccountsAssumption ==
    /\ UserOf \in [Page -> Register] /\ Register \cap Page = {}
    /\ Add \cap (Update \cup Delete) = {} /\ Update \cap Delete = {}
    /\ NameOf \in [Add \cup Update -> Name]
    /\ Device1 \in Name /\ Device2 \in Name /\ Device1 # Device2
    /\ Limit \in Nat /\ Limit >= 2
    /\ Id \subseteq Nat /\ Start \subseteq Id
    /\ None \notin Id \cup Address \cup Row

-----------------------------------------------------------------------------

VARIABLES
    users,      \* the accounts that have a row
    clients,    \* clients[id]: a row, or None
    next,       \* the id that the database gives next
    phase,      \* phase[r]: where the handler of r is
    cur,        \* cur[r]: the client that r has made or works on
    excused,    \* history: requests the database failed for, or for which a
                \* row came between their query and their write
    crowded     \* history: accounts with an add that was let in while another
                \* client of the account was being made

vars == <<users, clients, next, phase, cur, excused, crowded>>

Ended == {"done", "refused", "failed", "unanswered", "lost"}
Phase == Ended \cup {"new", "counted", "free", "user", "first", "second", "third",
                     "written", "created", "owned"}

AccountsTypeOK ==
    /\ users \subseteq Register
    /\ clients \in [Id -> Row \cup {None}]
    /\ next \in Nat
    /\ phase \in [Request -> Phase]
    /\ cur \in [Request -> Id \cup {None}]
    /\ excused \subseteq Request
    /\ crowded \subseteq Register

Busy(r) == phase[r] \notin Ended \cup {"new"}

ClientsOf(u) == {id \in Id : clients[id] # None /\ clients[id].user = u}

\* A client of the account, other than x, has the name.
Taken(u, n, x) == \E id \in ClientsOf(u) \ {x} : clients[id].name = n

\* A handler that has yet to make a client of account u.
Making(r, u) ==
    /\ Account(r) = u
    /\ \/ r \in Add /\ phase[r] \in {"counted", "free"}
       \/ r \in Register /\ phase[r] \in {"user", "first", "second"}

\* The handlers whose queries the name n in account u overtakes.
Overtaken(u, n) ==
    {q \in Request : /\ Account(q) = u
                     /\ \/ q \in Register /\ Busy(q) /\ n \in {Device1, Device2}
                        \/ q \in Add \cup Update /\ phase[q] = "free" /\ NameOf[q] = n}

\* Two registrations that cannot both have a row: unique_username, unique_email.
Rivals(r) == {q \in Register \ {r} : Username[q] = Username[r] \/ Email[q] = Email[r]}

Init ==
    /\ users = {}
    /\ clients = [id \in Id |-> None]
    /\ next \in Start
    /\ phase = [r \in Request |-> "new"]
    /\ cur = [r \in Request |-> None]
    /\ excused = {}
    /\ crowded = {}

Go(r, p) == phase' = [phase EXCEPT ![r] = p]

\* Client.create, for a name that the index lets pass.
Insert(r, n) ==
    /\ next \in Id
    /\ next' = next + 1
    /\ clients' = [clients EXCEPT ![next] = [user |-> Account(r), name |-> n, ip |-> None]]
    /\ cur' = [cur EXCEPT ![r] = next]
    /\ excused' = excused \cup (Overtaken(Account(r), n) \ {r})
    /\ UNCHANGED <<users, crowded>>

\* The update that puts the address in place of the uuid, if the row is still
\* there and unique_vip lets it pass.
Addressed(id) ==
    \/ clients[id] = None /\ UNCHANGED clients
    \/ /\ clients[id] # None
       /\ \A j \in Id \ {id} : clients[j] # None => clients[j].ip # getVirtualIp(id)
       /\ clients' = [clients EXCEPT ![id].ip = getVirtualIp(id)]

AddressInUse(id) ==
    /\ clients[id] # None
    /\ \E j \in Id \ {id} : clients[j] # None /\ clients[j].ip = getVirtualIp(id)

-----------------------------------------------------------------------------
(* /register                                                               *)

\* The username is counted, past the two codes.
BeginRegister(r) ==
    /\ phase[r] = "new"
    /\ Go(r, IF \E q \in users : Username[q] = Username[r] THEN "refused" ELSE "counted")
    /\ UNCHANGED <<users, clients, next, cur, excused, crowded>>

CountEmail(r) ==
    /\ phase[r] = "counted"
    /\ Go(r, IF \E q \in users : Email[q] = Email[r] THEN "refused" ELSE "free")
    /\ UNCHANGED <<users, clients, next, cur, excused, crowded>>

\* From here on an exception is caught, and the browser told.
CreateUser(r) ==
    /\ phase[r] = "free"
    /\ IF users \cap Rivals(r) # {}
         THEN Go(r, "failed") /\ UNCHANGED <<users, excused>>
         ELSE /\ Go(r, "user")
              /\ users' = users \cup {r}
              /\ excused' = excused \cup {q \in Rivals(r) : phase[q] \in {"counted", "free"}}
    /\ UNCHANGED <<clients, next, cur, crowded>>

CreateDevice(r, from, to, n) ==
    /\ phase[r] = from
    /\ \/ ~Taken(r, n, None) /\ Insert(r, n) /\ Go(r, to)
       \/ /\ Taken(r, n, None)
          /\ Go(r, "failed")
          /\ UNCHANGED <<users, clients, next, cur, excused, crowded>>

AddressDevice(r, from, to) ==
    /\ phase[r] = from
    /\ \/ Addressed(cur[r]) /\ Go(r, to)
       \/ AddressInUse(cur[r]) /\ Go(r, "failed") /\ UNCHANGED clients
    /\ UNCHANGED <<users, next, cur, excused, crowded>>

\* The second client is left without an address.
DevicesOneAddress(r) ==
    \/ CreateDevice(r, "user", "first", Device1)
    \/ AddressDevice(r, "first", "second")
    \/ CreateDevice(r, "second", "written", Device2)

\* One client after the other, each with its address.
Devices(r) ==
    \/ CreateDevice(r, "user", "first", Device1)
    \/ AddressDevice(r, "first", "second")
    \/ CreateDevice(r, "second", "third", Device2)
    \/ AddressDevice(r, "third", "written")

Commit(r) ==
    /\ phase[r] = "written"
    /\ Go(r, "done")
    /\ UNCHANGED <<users, clients, next, cur, excused, crowded>>

-----------------------------------------------------------------------------
(* The pages of an account.  Who is logged in may go on with them while the *)
(* registration is not over.                                                *)

\* The quota, one too many.
BeginAddOfOneMore(r) ==
    /\ phase[r] = "new" /\ UserOf[r] \in users
    /\ IF Cardinality(ClientsOf(UserOf[r])) > Limit
         THEN Go(r, "refused") /\ UNCHANGED crowded
         ELSE /\ Go(r, "counted")
              /\ crowded' = IF \E q \in Request : Making(q, UserOf[r])
                              THEN crowded \cup {UserOf[r]} ELSE crowded
    /\ UNCHANGED <<users, clients, next, cur, excused>>

\* The clients are counted.
BeginAdd(r) ==
    /\ phase[r] = "new" /\ UserOf[r] \in users
    /\ IF Cardinality(ClientsOf(UserOf[r])) >= Limit
         THEN Go(r, "refused") /\ UNCHANGED crowded
         ELSE /\ Go(r, "counted")
              /\ crowded' = IF \E q \in Request : Making(q, UserOf[r])
                              THEN crowded \cup {UserOf[r]} ELSE crowded
    /\ UNCHANGED <<users, clients, next, cur, excused>>

\* The page finds a client of the account.
BeginEdit(r) ==
    /\ phase[r] = "new" /\ UserOf[r] \in users
    /\ \E id \in ClientsOf(UserOf[r]) : cur' = [cur EXCEPT ![r] = id]
    /\ Go(r, "owned")
    /\ UNCHANGED <<users, clients, next, excused, crowded>>

\* A check that takes the name of the account's last client only.
CountNameLoosely(r) ==
    /\ phase[r] = IF r \in Add THEN "counted" ELSE "owned"
    /\ Go(r, "free")
    /\ UNCHANGED <<users, clients, next, cur, excused, crowded>>

\* The name is looked for, an update looks at the other clients only.
CountName(r) ==
    /\ phase[r] = IF r \in Add THEN "counted" ELSE "owned"
    /\ Go(r, IF Taken(UserOf[r], NameOf[r], cur[r]) THEN "refused" ELSE "free")
    /\ UNCHANGED <<users, clients, next, cur, excused, crowded>>

\* An exception leaves the page without an answer.
CreateAdd(r) ==
    /\ phase[r] = "free"
    /\ \/ ~Taken(UserOf[r], NameOf[r], None) /\ Insert(r, NameOf[r]) /\ Go(r, "created")
       \/ /\ Taken(UserOf[r], NameOf[r], None)
          /\ Go(r, "unanswered")
          /\ UNCHANGED <<users, clients, next, cur, excused, crowded>>

AddressAdd(r) ==
    /\ phase[r] = "created"
    /\ \/ Addressed(cur[r]) /\ Go(r, "done")
       \/ AddressInUse(cur[r]) /\ Go(r, "unanswered") /\ UNCHANGED clients
    /\ UNCHANGED <<users, next, cur, excused, crowded>>

\* An update of a row that is gone writes nothing.
WriteUpdate(r) ==
    LET u == UserOf[r] IN
    /\ phase[r] = "free"
    /\ CASE clients[cur[r]] = None ->
                Go(r, "done") /\ UNCHANGED <<clients, excused>>
         [] clients[cur[r]] # None /\ Taken(u, NameOf[r], cur[r]) ->
                Go(r, "unanswered") /\ UNCHANGED <<clients, excused>>
         [] OTHER ->
                /\ Go(r, "done")
                /\ clients' = [clients EXCEPT ![cur[r]].name = NameOf[r]]
                /\ excused' = excused \cup (Overtaken(u, NameOf[r]) \ {r})
    /\ UNCHANGED <<users, next, cur, crowded>>

\* Connectors and tunnels go first (left out here), then the client.
DestroyClient(r) ==
    /\ phase[r] = "owned"
    /\ clients' = [clients EXCEPT ![cur[r]] = None]
    /\ Go(r, "done")
    /\ UNCHANGED <<users, next, cur, excused, crowded>>

-----------------------------------------------------------------------------

\* A registration that catches the exception and goes on as if it were made.
FailsUnnoticed(r) ==
    /\ Busy(r)
    /\ Go(r, IF r \in Register /\ phase[r] # "counted" THEN "done" ELSE "unanswered")
    /\ excused' = excused \cup {r}
    /\ UNCHANGED <<users, clients, next, cur, crowded>>

\* The database fails: /register catches it once it has its transaction, the
\* pages do not.
Fails(r) ==
    /\ Busy(r)
    /\ \/ r \in Register /\ phase[r] # "counted" /\ Go(r, "failed")
       \/ (r \in Page \/ phase[r] \in {"counted", "free"}) /\ Go(r, "unanswered")
    /\ excused' = excused \cup {r}
    /\ UNCHANGED <<users, clients, next, cur, crowded>>

\* The server ends; nothing goes on with what its handlers had begun.
Crash ==
    /\ phase' = [r \in Request |-> IF Busy(r) THEN "lost" ELSE phase[r]]
    /\ UNCHANGED <<users, clients, next, cur, excused, crowded>>

Next ==
    \/ \E r \in Register : BeginRegister(r) \/ CountEmail(r) \/ CreateUser(r)
                           \/ Devices(r) \/ Commit(r)
    \/ \E r \in Add : BeginAdd(r) \/ CreateAdd(r) \/ AddressAdd(r)
    \/ \E r \in Update \cup Delete : BeginEdit(r)
    \/ \E r \in Add \cup Update : CountName(r)
    \/ \E r \in Update : WriteUpdate(r)
    \/ \E r \in Delete : DestroyClient(r)
    \/ \E r \in Request : Fails(r)
    \/ Crash

Spec == Init /\ [][Next]_vars

-----------------------------------------------------------------------------
(* Properties                                                              *)

\* The quota counts rows and inserts later: an account has more clients than
\* its limit only if an add was let in while another client was being made.
WithinQuota ==
    \A u \in Register : Cardinality(ClientsOf(u)) > Limit => u \in crowded

\* A page is left without its answer, or a registration fails, only if the
\* database failed, another request wrote the name between the query and the
\* write, or ids beyond the bound of getVirtualIp share an address: below the
\* bound the addresses do not collide.
FailureHasReason ==
    \A r \in Request : phase[r] \in {"unanswered", "failed"} =>
                           r \in excused \/ next > MaxClientId + 1

\* An account that its registration has reported as made has its two devices,
\* unless the user has renamed or deleted clients since.
DevicesComplete ==
    \A u \in Register :
        (phase[u] = "done" /\ \A r \in Update \cup Delete : UserOf[r] = u => phase[r] = "new")
            => {Device1, Device2} \subseteq {clients[id].name : id \in ClientsOf(u)}

\* A client keeps a uuid for its address only while its handler has yet to give
\* it one, or if that handler came to a bad end: nobody gives it one later.
AddressedUnlessInterrupted ==
    \A id \in Id : (clients[id] # None /\ clients[id].ip = None) =>
        \E r \in Register \cup Add :
            cur[r] = id /\ phase[r] \in {"first", "third", "created",
                                         "failed", "unanswered", "lost"}

\* The fatal line of getVirtualIp is to say that the addresses are used up.
\* They are long before: above the id 16777213 a client gets an address that is
\* no host of the network 10.0.0.0/8, and the line is not reached.
InNetwork(ip) == ip[1] = 10 /\ ip # <<10, 255, 255, 255>>

AddressesInNetwork ==
    \A id \in Id : (clients[id] # None /\ clients[id].ip # None) =>
        (InNetwork(clients[id].ip) <=> id <= 16777213 \/ id > MaxClientId)
=============================================================================
