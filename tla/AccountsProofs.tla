--------------------------- MODULE AccountsProofs ---------------------------
(* What holds of Accounts for every set of requests, names and ids.          *)
EXTENDS Accounts, FiniteSetTheorems, TLAPS

-----------------------------------------------------------------------------
(* Virtual addresses                                                         *)

\* The bytes of a number say which number it is.
LEMMA BytesOfNumber ==
  ASSUME NEW n \in Nat
  PROVE  /\ n = 16777216 * int2iP(n)[1] + 65536 * int2iP(n)[2]
                  + 256 * int2iP(n)[3] + int2iP(n)[4]
         /\ int2iP(n)[2] \in 0 .. 255 /\ int2iP(n)[3] \in 0 .. 255 /\ int2iP(n)[4] \in 0 .. 255
<1>1. n \div 65536 \in Nat /\ n \div 256 \in Nat /\ n \div 16777216 \in Nat
  BY SMT
<1>2. n = 256 * (n \div 256) + (n % 256) /\ n % 256 \in 0 .. 255
  BY SMT
<1>3. n \div 256 = 256 * (n \div 65536) + ((n \div 256) % 256) /\ (n \div 256) % 256 \in 0 .. 255
  BY SMT
<1>4. /\ n \div 65536 = 256 * (n \div 16777216) + ((n \div 65536) % 256)
      /\ (n \div 65536) % 256 \in 0 .. 255
  BY SMT
<1>5. QED
  BY <1>1, <1>2, <1>3, <1>4, SMT DEF int2iP

\* Two ids that are not above the bound have different addresses.
LEMMA AddressesDiffer ==
  ASSUME NEW i \in Nat, NEW j \in Nat, i <= MaxClientId, j <= MaxClientId,
         getVirtualIp(i) = getVirtualIp(j)
  PROVE  i = j
<1>1. 167772161 + i \in Nat /\ 167772161 + j \in Nat
  BY SMT DEF MaxClientId
<1>2. int2iP(167772161 + i) = int2iP(167772161 + j)
  BY SMT DEF getVirtualIp, MaxClientId
<1>3. 167772161 + i = 167772161 + j
  BY <1>1, <1>2, BytesOfNumber, SMT
<1>4. QED
  BY <1>3, SMT

\* The numbers whose first byte is 10, and the last of them.
LEMMA NetworkOfTen ==
  ASSUME NEW n \in Nat
  PROVE  InNetwork(int2iP(n)) <=> (167772160 <= n /\ n <= 184549374)
<1>1. int2iP(n)[1] = n \div 16777216
  BY SMT DEF int2iP
<1>2. n \div 16777216 = 10 <=> (167772160 <= n /\ n <= 184549375)
  BY SMT
<1>3. n = 184549375 => int2iP(n) = <<10, 255, 255, 255>>
  <2>1. 184549375 \div 16777216 = 10 /\ (184549375 \div 65536) % 256 = 255
    BY SMT
  <2>2. (184549375 \div 256) % 256 = 255 /\ 184549375 % 256 = 255
    BY SMT
  <2>3. QED
    BY <2>1, <2>2, SMT DEF int2iP
<1>4. int2iP(n) = <<10, 255, 255, 255>> => n = 184549375
  BY BytesOfNumber, SMT
<1>5. QED
  BY <1>1, <1>2, <1>3, <1>4, SMT DEF InNetwork

\* The network ends at the id 16777213, not at the bound.
THEOREM NetworkEnds ==
  ASSUME NEW id \in Nat
  PROVE  InNetwork(getVirtualIp(id)) <=> id <= 16777213 \/ id > MaxClientId
<1>1. CASE id > MaxClientId
  <2>1. getVirtualIp(id) = <<10, 255, 255, 254>>
    BY <1>1, SMT DEF getVirtualIp
  <2>2. <<10, 255, 255, 254>>[1] = 10 /\ <<10, 255, 255, 254>>[4] # <<10, 255, 255, 255>>[4]
    BY SMT
  <2>3. <<10, 255, 255, 254>> # <<10, 255, 255, 255>>
    BY <2>2, SMT
  <2>4. QED
    BY <1>1, <2>1, <2>2, <2>3, SMT DEF InNetwork
<1>2. CASE id <= MaxClientId
  <2>1. 167772161 + id \in Nat /\ getVirtualIp(id) = int2iP(167772161 + id)
    BY <1>2, SMT DEF getVirtualIp, MaxClientId
  <2>2. (167772160 <= 167772161 + id /\ 167772161 + id <= 184549374) <=> id <= 16777213
    BY SMT
  <2>3. QED
    BY <1>2, <2>1, <2>2, NetworkOfTen, SMT DEF MaxClientId
<1>3. QED
  BY <1>1, <1>2, SMT DEF MaxClientId

-----------------------------------------------------------------------------
(* The inductive invariant                                                   *)

\* Ids are given once.
IdsAreOld ==
    /\ \A id \in Id : clients[id] # None => id < next
    /\ \A r \in Request : cur[r] # None => cur[r] < next

\* Only accounts have clients; a page begins in an account.
OwnersExist ==
    /\ \A id \in Id : clients[id] # None => clients[id].user \in users
    /\ \A r \in Register :
          /\ phase[r] \in {"new", "counted", "free"} => r \notin users
          /\ phase[r] \in {"user", "first", "second", "third", "written", "done"} => r \in users
    /\ \A r \in Page : phase[r] # "new" => UserOf[r] \in users

\* What the handlers work on.
CurIsKnown ==
    /\ \A r \in Register : /\ phase[r] \in {"new", "counted", "free", "user"} => cur[r] = None
                           /\ phase[r] \in {"first", "second", "third"} => cur[r] # None
    /\ \A r \in Add : /\ phase[r] \in {"new", "counted", "free"} => cur[r] = None
                      /\ phase[r] = "created" => cur[r] # None
    /\ \A r \in Update \cup Delete : phase[r] \in {"owned", "free"} => cur[r] # None

\* An address is the one of the id.
AddressOfId ==
    \A id \in Id : clients[id] # None => clients[id].ip \in {None, getVirtualIp(id)}

\* What the phases mean.
PhasesOfKind ==
    /\ \A r \in Register : phase[r] \notin {"created", "owned"}
    /\ \A r \in Add : phase[r] \notin {"user", "first", "second", "third", "written", "owned"}
    /\ \A r \in Update \cup Delete :
          phase[r] \notin {"counted", "user", "first", "second", "third", "written", "created"}
    /\ \A r \in Delete : phase[r] # "free"

Basics == AccountsTypeOK /\ IdsAreOld /\ OwnersExist /\ CurIsKnown /\ AddressOfId /\ PhasesOfKind

\* An update or a delete has found a client of its account.
OwnIsEdited ==
    \A r \in Update \cup Delete :
        phase[r] \in {"owned", "free"} /\ clients[cur[r]] # None
            => clients[cur[r]].user = UserOf[r]

\* What a handler has found by a query holds until it is excused.
RegisterKnows(r) ==
    /\ phase[r] = "counted" /\ (\E q \in users : Username[q] = Username[r]) => r \in excused
    /\ phase[r] = "free" /\ users \cap Rivals(r) # {} => r \in excused
    /\ phase[r] = "user" /\ Taken(r, Device1, None) => r \in excused
    /\ phase[r] \in {"user", "first", "second"} /\ Taken(r, Device2, None) => r \in excused

PageKnows(r) ==
    phase[r] = "free" /\ Taken(UserOf[r], NameOf[r], cur[r]) => r \in excused

HasReason(r) ==
    phase[r] \in {"unanswered", "failed"} => r \in excused \/ next > MaxClientId + 1

QueriesHold ==
    /\ \A r \in Register : RegisterKnows(r)
    /\ \A r \in Add \cup Update : PageKnows(r)

Reasons == QueriesHold /\ \A r \in Request : HasReason(r)

\* Without a crowd, an account has one handler that makes clients, and room
\* for what it makes.
Room(u) ==
    /\ \A q, r \in Request : Making(q, u) /\ Making(r, u) => q = r
    /\ \A q \in Add : Making(q, u) => Cardinality(ClientsOf(u)) < Limit
    /\ phase[u] = "user" => Cardinality(ClientsOf(u)) = 0
    /\ phase[u] \in {"first", "second"} => Cardinality(ClientsOf(u)) <= 1
    /\ Cardinality(ClientsOf(u)) <= Limit

RoomIsLeft == \A u \in Register \ crowded : Room(u)

\* A registration that nobody edits gathers its devices.
Unedited(u) == \A r \in Update \cup Delete : UserOf[r] = u => phase[r] = "new"

Has(u, n) == \E id \in ClientsOf(u) : clients[id].name = n

Gathers(u) ==
    /\ phase[u] \in {"first", "second", "third", "written", "done"} => Has(u, Device1)
    /\ phase[u] \in {"third", "written", "done"} => Has(u, Device2)

DevicesGather == \A u \in Register : Unedited(u) => Gathers(u)

-----------------------------------------------------------------------------

\* What the assumption on the constants gives.
LEMMA Constants ==
  /\ \A r \in Request : Account(r) \in Register
  /\ \A r \in Page : Account(r) = UserOf[r] /\ UserOf[r] \in Register
  /\ \A r \in Register : Account(r) = r
  /\ \A id \in Id : getVirtualIp(id) \in Address /\ getVirtualIp(id) # None
  /\ None \notin Row /\ None \notin Id
  /\ MaxClientId \in Nat
<1>1. MaxClientId \in Nat
  BY SMT DEF MaxClientId
<1>2. \A id \in Id : getVirtualIp(id) \in Address /\ getVirtualIp(id) # None
  BY AccountsAssumption DEF Address
<1>3. QED
  BY <1>1, <1>2, AccountsAssumption DEF Account, Request, Page

\* Making a client.
LEMMA InsertKeeps ==
  ASSUME Basics, NEW r \in Register \cup Add, NEW n \in Name, Insert(r, n), Account(r) \in users
  PROVE  /\ clients' \in [Id -> Row \cup {None}] /\ next' \in Nat
         /\ cur' \in [Request -> Id \cup {None}]
         /\ IdsAreOld' /\ AddressOfId'
         /\ \A id \in Id : clients'[id] # None => clients'[id].user \in users
         /\ excused' \subseteq Request
<1>0. AccountsTypeOK /\ IdsAreOld /\ OwnersExist /\ AddressOfId
  BY DEF Basics
<1> DEFINE new == [user |-> Account(r), name |-> n, ip |-> None]
<1>1. /\ next \in Id /\ next \in Nat /\ next' = next + 1
      /\ clients' = [clients EXCEPT ![next] = new] /\ cur' = [cur EXCEPT ![r] = next]
      /\ r \in Request
  BY <1>0, AccountsAssumption DEF Insert, Request, Page, AccountsTypeOK
<1>2. new \in Row
  BY Constants DEF Row, Request, Page
<1> HIDE DEF new
<1>3. clients' \in [Id -> Row \cup {None}] /\ cur' \in [Request -> Id \cup {None}]
  BY <1>0, <1>1, <1>2 DEF AccountsTypeOK
<1>4. \A id \in Id : clients'[id] = IF id = next THEN new ELSE clients[id]
  BY <1>0, <1>1 DEF AccountsTypeOK
<1>5. \A q \in Request : cur'[q] = IF q = r THEN next ELSE cur[q]
  BY <1>0, <1>1 DEF AccountsTypeOK
<1>6. IdsAreOld'
  <2>1. \A id \in Id : clients'[id] # None => id < next'
    BY <1>0, <1>1, <1>4, AccountsAssumption DEF IdsAreOld
  <2>2. \A q \in Request : cur'[q] # None => cur'[q] < next'
    <3>1. \A q \in Request : cur[q] # None => cur[q] \in Nat
      BY <1>0, AccountsAssumption DEF AccountsTypeOK
    <3>2. \A q \in Request : cur[q] # None => cur[q] < next
      BY <1>0 DEF IdsAreOld
    <3>3. QED
      BY <1>1, <1>5, <3>1, <3>2
  <2>3. QED
    BY <2>1, <2>2 DEF IdsAreOld
<1>7. new.ip = None /\ new.user = Account(r)
  BY DEF new
<1>8. AddressOfId'
  BY <1>0, <1>4, <1>7 DEF AddressOfId
<1>9. \A id \in Id : clients'[id] # None => clients'[id].user \in users
  BY <1>0, <1>4, <1>7 DEF OwnersExist
<1>10. excused' \subseteq Request
  BY <1>0 DEF Insert, Overtaken, AccountsTypeOK
<1>11. QED
  BY <1>1, <1>3, <1>6, <1>8, <1>9, <1>10

\* Giving a client its address.
LEMMA AddressedKeeps ==
  ASSUME Basics, NEW id \in Id, Addressed(id) \/ UNCHANGED clients
  PROVE  /\ clients' \in [Id -> Row \cup {None}]
         /\ \A j \in Id : /\ clients'[j] # None => clients[j] # None
                          /\ clients'[j] # None => /\ clients'[j].user = clients[j].user
                                                   /\ clients'[j].name = clients[j].name
                                                   /\ clients'[j].ip \in {clients[j].ip, getVirtualIp(j)}
                          /\ clients[j] # None => clients'[j] # None
         /\ AddressOfId'
         /\ Addressed(id) /\ clients'[id] # None => clients'[id].ip # None
<1>0. AccountsTypeOK /\ AddressOfId
  BY DEF Basics
<1>1. CASE UNCHANGED clients /\ ~Addressed(id)
  BY <1>0, <1>1 DEF AccountsTypeOK, AddressOfId
<1>2. CASE Addressed(id) /\ clients[id] = None
  BY <1>0, <1>2 DEF Addressed, AccountsTypeOK, AddressOfId
<1>3. CASE Addressed(id) /\ clients[id] # None
  <2> DEFINE new == [clients[id] EXCEPT !.ip = getVirtualIp(id)]
  <2>1. clients' = [clients EXCEPT ![id] = new] /\ clients[id] \in Row
    BY <1>0, <1>3 DEF Addressed, AccountsTypeOK
  <2>2. /\ new \in Row /\ new.ip = getVirtualIp(id)
        /\ new.user = clients[id].user /\ new.name = clients[id].name
    BY <2>1, Constants DEF Row
  <2> HIDE DEF new
  <2>3. clients' \in [Id -> Row \cup {None}]
    BY <1>0, <2>1, <2>2 DEF AccountsTypeOK
  <2>4. \A j \in Id : clients'[j] = IF j = id THEN new ELSE clients[j]
    BY <1>0, <2>1 DEF AccountsTypeOK
  <2>5. new # None
    BY <2>2, Constants
  <2>6. AddressOfId'
    BY <1>0, <2>2, <2>4 DEF AddressOfId
  <2>7. QED
    BY <1>3, <2>2, <2>3, <2>4, <2>5, <2>6, Constants
<1>4. QED
  BY <1>1, <1>2, <1>3

\* Steps that change no row and no id.
LEMMA BasicsQuiet ==
  ASSUME Basics, UNCHANGED <<users, clients, next, cur>>,
         \/ \E r \in Register : BeginRegister(r) \/ CountEmail(r) \/ Commit(r)
         \/ \E r \in Add : BeginAdd(r)
         \/ \E r \in Add \cup Update : CountName(r)
         \/ \E r \in Request : Fails(r)
         \/ Crash
         \/ UNCHANGED vars
  PROVE  Basics'
<1>0. AccountsTypeOK /\ IdsAreOld /\ OwnersExist /\ CurIsKnown /\ AddressOfId /\ PhasesOfKind
  BY DEF Basics
<1>1. IdsAreOld' /\ AddressOfId'
  BY <1>0 DEF IdsAreOld, AddressOfId
<1>2. ASSUME NEW r \in Request, NEW p \in Phase, Go(r, p),
             excused' \subseteq Request, crowded' \subseteq Register,
             p \notin {"new", "free", "user", "first", "second", "third", "written", "created", "owned"}
                 \/ (r \in Register /\ p = "free" /\ phase[r] = "counted")
                 \/ (r \in Add /\ p = "free" /\ phase[r] = "counted")
                 \/ (r \in Update /\ p = "free" /\ phase[r] = "owned"),
             p = "counted" => phase[r] = "new" /\ r \in Register \cup Add,
             r \in Register /\ p = "done" => r \in users,
             r \in Page /\ phase[r] = "new" => UserOf[r] \in users
      PROVE  AccountsTypeOK' /\ OwnersExist' /\ CurIsKnown' /\ PhasesOfKind'
  <2>1. phase' = [phase EXCEPT ![r] = p] /\ phase \in [Request -> Phase]
    BY <1>0, <1>2 DEF Go, AccountsTypeOK
  <2>2. \A q \in Request : phase'[q] = IF q = r THEN p ELSE phase[q]
    BY <2>1
  <2>3. AccountsTypeOK'
    BY <1>0, <1>2, <2>1 DEF AccountsTypeOK
  <2>4. OwnersExist'
    <3>1. \A id \in Id : clients'[id] # None => clients'[id].user \in users'
      BY <1>0 DEF OwnersExist
    <3>2. ASSUME NEW q \in Register
          PROVE  /\ phase'[q] \in {"new", "counted", "free"} => q \notin users'
                 /\ phase'[q] \in {"user", "first", "second", "third", "written", "done"}
                       => q \in users'
      BY <1>0, <1>2, <2>2, AccountsAssumption DEF OwnersExist, Request, Page
    <3>3. ASSUME NEW q \in Page
          PROVE  phase'[q] # "new" => UserOf[q] \in users'
      BY <1>0, <1>2, <2>2 DEF OwnersExist, Request
    <3>4. QED
      BY <3>1, <3>2, <3>3 DEF OwnersExist
  <2>5. CurIsKnown'
    BY <1>0, <1>2, <2>2, AccountsAssumption DEF CurIsKnown, Request, Page
  <2>6. PhasesOfKind'
    BY <1>0, <1>2, <2>2, AccountsAssumption DEF PhasesOfKind, Request, Page
  <2>7. QED
    BY <2>3, <2>4, <2>5, <2>6
<1>3. CASE UNCHANGED vars
  BY <1>0, <1>3 DEF vars, Basics, AccountsTypeOK, IdsAreOld, OwnersExist, CurIsKnown, AddressOfId,
     PhasesOfKind
<1>4. CASE Crash
  <2>1. /\ phase' \in [Request -> Phase]
        /\ \A r \in Request : phase'[r] = phase[r] \/ (phase'[r] = "lost" /\ phase[r] # "new")
    BY <1>0, <1>4 DEF Crash, Busy, Phase, Ended, AccountsTypeOK
  <2>2. UNCHANGED <<excused, crowded>>
    BY <1>4 DEF Crash
  <2>3. AccountsTypeOK'
    BY <1>0, <2>1, <2>2 DEF AccountsTypeOK
  <2>4. OwnersExist'
    BY <1>0, <2>1 DEF OwnersExist, Request, Page
  <2>5. CurIsKnown'
    BY <1>0, <2>1 DEF CurIsKnown, Request, Page
  <2>6. PhasesOfKind'
    BY <1>0, <2>1 DEF PhasesOfKind, Request, Page
  <2>7. QED
    BY <1>1, <2>3, <2>4, <2>5, <2>6 DEF Basics
<1>5. ASSUME NEW r \in Register, BeginRegister(r) \/ CountEmail(r) \/ Commit(r)
      PROVE  Basics'
  <2>1. PICK p \in {"counted", "refused", "free", "done"} : Go(r, p) /\ (p = "counted" => phase[r] = "new")
                                              /\ (p = "free" => phase[r] = "counted")
                                              /\ (p = "done" => phase[r] = "written")
    BY <1>5 DEF BeginRegister, CountEmail, Commit
  <2>2. UNCHANGED <<excused, crowded>> /\ r \in Request /\ r \notin Page
    BY <1>5, AccountsAssumption DEF BeginRegister, CountEmail, Commit, Request
  <2>3. p = "done" => r \in users
    BY <1>0, <2>1 DEF OwnersExist
  <2>4. QED
    BY <1>0, <1>1, <1>2, <1>5, <2>1, <2>2, <2>3 DEF Basics, AccountsTypeOK, Phase, Ended
<1>6. ASSUME NEW r \in Add, BeginAdd(r)
      PROVE  Basics'
  <2>1. PICK p \in {"counted", "refused"} : Go(r, p)
    BY <1>6 DEF BeginAdd
  <2>2. /\ excused' = excused /\ crowded' \subseteq crowded \cup {UserOf[r]}
        /\ phase[r] = "new" /\ UserOf[r] \in users /\ r \in Request /\ UserOf[r] \in Register
    BY <1>6, Constants DEF BeginAdd, Request, Page
  <2>3. QED
    BY <1>0, <1>1, <1>2, <1>6, <2>1, <2>2 DEF Basics, AccountsTypeOK, Phase, Ended
<1>7. ASSUME NEW r \in Add \cup Update, CountName(r)
      PROVE  Basics'
  <2>1. PICK p \in {"free", "refused"} : Go(r, p)
    BY <1>7 DEF CountName
  <2>2. /\ UNCHANGED <<excused, crowded>> /\ r \in Request
        /\ phase[r] = IF r \in Add THEN "counted" ELSE "owned"
    BY <1>7 DEF CountName, Request, Page
  <2>3. QED
    BY <1>0, <1>1, <1>2, <1>7, <2>1, <2>2 DEF Basics, AccountsTypeOK, Phase, Ended
<1>8. ASSUME NEW r \in Request, Fails(r)
      PROVE  Basics'
  <2>1. PICK p \in {"failed", "unanswered"} : Go(r, p)
    BY <1>8 DEF Fails
  <2>2. excused' = excused \cup {r} /\ crowded' = crowded /\ phase[r] # "new"
    BY <1>8 DEF Fails, Busy
  <2>3. QED
    BY <1>0, <1>1, <1>2, <1>8, <2>1, <2>2 DEF Basics, AccountsTypeOK, Phase, Ended
<1>9. QED
  BY <1>3, <1>4, <1>5, <1>6, <1>7, <1>8

\* A registration gets its account.
LEMMA BasicsUser ==
  ASSUME Basics, NEW r \in Register, CreateUser(r)
  PROVE  Basics'
<1>0. AccountsTypeOK /\ IdsAreOld /\ OwnersExist /\ CurIsKnown /\ AddressOfId /\ PhasesOfKind
  BY DEF Basics
<1>1. UNCHANGED <<clients, next, cur, crowded>> /\ r \in Request
  BY DEF CreateUser, Request
<1>2. PICK p \in {"failed", "user"} : Go(r, p) /\ users' = IF p = "user" THEN users \cup {r} ELSE users
  BY DEF CreateUser
<1>3. \A q \in Request : phase'[q] = IF q = r THEN p ELSE phase[q]
  BY <1>0, <1>1, <1>2 DEF Go, AccountsTypeOK
<1>4. AccountsTypeOK'
  <2>1. phase' \in [Request -> Phase]
    BY <1>0, <1>1, <1>2 DEF Go, AccountsTypeOK, Phase, Ended
  <2>2. excused' \subseteq Request
    BY <1>0 DEF CreateUser, Rivals, Request, AccountsTypeOK
  <2>3. QED
    BY <1>0, <1>1, <1>2, <2>1, <2>2 DEF AccountsTypeOK
<1>5. IdsAreOld' /\ AddressOfId'
  BY <1>0, <1>1 DEF IdsAreOld, AddressOfId
<1>6. OwnersExist'
  BY <1>0, <1>1, <1>2, <1>3, AccountsAssumption DEF OwnersExist, Request, Page
<1>7. CurIsKnown'
  <2>1. phase[r] = "free"
    BY DEF CreateUser
  <2>2. QED
    BY <1>0, <1>1, <1>2, <1>3, <2>1, AccountsAssumption DEF CurIsKnown, Request, Page
<1>8. PhasesOfKind'
  BY <1>0, <1>1, <1>2, <1>3, AccountsAssumption DEF PhasesOfKind, Request, Page
<1>9. QED
  BY <1>4, <1>5, <1>6, <1>7, <1>8 DEF Basics

\* A client is made, by a registration or an add.
LEMMA BasicsCreate ==
  ASSUME Basics, NEW r \in Register \cup Add,
         \/ r \in Register /\ CreateDevice(r, "user", "first", Device1)
         \/ r \in Register /\ CreateDevice(r, "second", "third", Device2)
         \/ r \in Add /\ CreateAdd(r)
  PROVE  Basics'
<1>0. AccountsTypeOK /\ IdsAreOld /\ OwnersExist /\ CurIsKnown /\ AddressOfId /\ PhasesOfKind
  BY DEF Basics
<1>1. /\ r \in Request /\ Account(r) \in users
      /\ r \in Register => phase[r] \in {"user", "second"}
      /\ r \in Add => phase[r] = "free"
  <2>1. CASE r \in Add
    <3>1. phase[r] = "free" /\ r \notin Register
      BY <2>1, AccountsAssumption DEF CreateAdd, Page
    <3>2. QED
      BY <1>0, <2>1, <3>1, Constants DEF OwnersExist, Request, Page
  <2>2. CASE r \in Register
    <3>1. phase[r] \in {"user", "second"} /\ r \notin Add
      BY <2>2, AccountsAssumption DEF CreateDevice, Page
    <3>2. QED
      BY <1>0, <2>2, <3>1, Constants DEF OwnersExist, Request, Page
  <2>3. QED
    BY <2>1, <2>2
<1>2. PICK p \in {"first", "third", "created", "failed", "unanswered"} :
         /\ Go(r, p)
         /\ p \in {"first", "third"} => r \in Register
         /\ p = "created" => r \in Add
         /\ p \in {"first", "third", "created"} => \E n \in Name : Insert(r, n)
         /\ p \in {"failed", "unanswered"} => UNCHANGED <<users, clients, next, cur, excused, crowded>>
  <2>1. CASE r \in Register /\ CreateDevice(r, "user", "first", Device1)
    BY <2>1, AccountsAssumption DEF CreateDevice
  <2>2. CASE r \in Register /\ CreateDevice(r, "second", "third", Device2)
    BY <2>2, AccountsAssumption DEF CreateDevice
  <2>3. CASE r \in Add /\ CreateAdd(r)
    <3>1. NameOf[r] \in Name
      BY <2>3, AccountsAssumption
    <3>2. QED
      BY <2>3, <3>1 DEF CreateAdd
  <2>4. QED
    BY <2>1, <2>2, <2>3
<1>3. \A q \in Request : phase'[q] = IF q = r THEN p ELSE phase[q]
  BY <1>0, <1>1, <1>2 DEF Go, AccountsTypeOK
<1>4. phase' \in [Request -> Phase]
  BY <1>0, <1>1, <1>2 DEF Go, AccountsTypeOK, Phase, Ended
<1>5. PhasesOfKind'
  BY <1>0, <1>1, <1>2, <1>3, AccountsAssumption DEF PhasesOfKind, Request, Page
<1>6. users' = users /\ crowded' = crowded
  BY <1>2 DEF Insert
<1>7. CASE p \in {"failed", "unanswered"}
  <2>1. UNCHANGED <<users, clients, next, cur, excused, crowded>>
    BY <1>2, <1>7
  <2>2. AccountsTypeOK' /\ IdsAreOld' /\ AddressOfId'
    BY <1>0, <1>4, <2>1 DEF AccountsTypeOK, IdsAreOld, AddressOfId
  <2>3. OwnersExist'
    BY <1>0, <1>1, <1>3, <1>7, <2>1 DEF OwnersExist, Request, Page
  <2>4. CurIsKnown'
    BY <1>0, <1>3, <1>7, <2>1 DEF CurIsKnown, Request, Page
  <2>5. QED
    BY <1>5, <2>2, <2>3, <2>4 DEF Basics
<1>8. CASE p \in {"first", "third", "created"}
  <2>1. PICK n \in Name : Insert(r, n)
    BY <1>2, <1>8
  <2>2. /\ clients' \in [Id -> Row \cup {None}] /\ next' \in Nat
        /\ cur' \in [Request -> Id \cup {None}]
        /\ IdsAreOld' /\ AddressOfId'
        /\ \A id \in Id : clients'[id] # None => clients'[id].user \in users
        /\ excused' \subseteq Request
    BY <1>1, <2>1, InsertKeeps
  <2>3. AccountsTypeOK'
    BY <1>0, <1>4, <1>6, <2>2 DEF AccountsTypeOK
  <2>4. OwnersExist'
    BY <1>0, <1>1, <1>3, <1>6, <1>8, <2>2 DEF OwnersExist, Request, Page
  <2>5. CurIsKnown'
    <3>1. next \in Id /\ \A q \in Request : cur'[q] = IF q = r THEN next ELSE cur[q]
      BY <1>0, <1>1, <2>1 DEF Insert, AccountsTypeOK
    <3>2. next # None
      BY <3>1, Constants
    <3>3. QED
      BY <1>0, <1>1, <1>2, <1>3, <1>8, <3>1, <3>2, AccountsAssumption DEF CurIsKnown, Request, Page
  <2>6. QED
    BY <1>5, <2>2, <2>3, <2>4, <2>5 DEF Basics
<1>9. QED
  BY <1>2, <1>7, <1>8

\* A client gets its address.
LEMMA BasicsAddress ==
  ASSUME Basics, NEW r \in Register \cup Add,
         \/ r \in Register /\ AddressDevice(r, "first", "second")
         \/ r \in Register /\ AddressDevice(r, "third", "written")
         \/ r \in Add /\ AddressAdd(r)
  PROVE  Basics'
<1>0. AccountsTypeOK /\ IdsAreOld /\ OwnersExist /\ CurIsKnown /\ AddressOfId /\ PhasesOfKind
  BY DEF Basics
<1>1. /\ r \in Request
      /\ r \in Register => phase[r] \in {"first", "third"}
      /\ r \in Add => phase[r] = "created"
  BY AccountsAssumption DEF AddressDevice, AddressAdd, Request, Page
<1>2. PICK p \in {"second", "written", "done", "failed", "unanswered"} :
         /\ Go(r, p)
         /\ p = "second" => r \in Register
         /\ p = "written" => r \in Register
         /\ p = "done" => r \in Add
  BY <1>1, AccountsAssumption DEF AddressDevice, AddressAdd, Page
<1>3. UNCHANGED <<users, next, cur, excused, crowded>> /\ (Addressed(cur[r]) \/ UNCHANGED clients)
  BY DEF AddressDevice, AddressAdd
<1>4. cur[r] \in Id
  BY <1>0, <1>1 DEF CurIsKnown, AccountsTypeOK
<1>5. /\ clients' \in [Id -> Row \cup {None}] /\ AddressOfId'
      /\ \A j \in Id : /\ clients'[j] # None => clients[j] # None
                       /\ clients'[j] # None => clients'[j].user = clients[j].user
  BY <1>3, <1>4, AddressedKeeps
<1>6. \A q \in Request : phase'[q] = IF q = r THEN p ELSE phase[q]
  BY <1>0, <1>1, <1>2 DEF Go, AccountsTypeOK
<1>7. AccountsTypeOK'
  <2>1. phase' \in [Request -> Phase]
    BY <1>0, <1>1, <1>2 DEF Go, AccountsTypeOK, Phase, Ended
  <2>2. QED
    BY <1>0, <1>3, <1>5, <2>1 DEF AccountsTypeOK
<1>8. IdsAreOld'
  BY <1>0, <1>3, <1>5 DEF IdsAreOld
<1>9. OwnersExist'
  <2>1. \A id \in Id : clients'[id] # None => clients'[id].user \in users'
    BY <1>0, <1>3, <1>5 DEF OwnersExist
  <2>2. ASSUME NEW q \in Register
        PROVE  /\ phase'[q] \in {"new", "counted", "free"} => q \notin users'
               /\ phase'[q] \in {"user", "first", "second", "third", "written", "done"}
                     => q \in users'
    BY <1>0, <1>1, <1>2, <1>3, <1>6, AccountsAssumption DEF OwnersExist, Request, Page
  <2>3. ASSUME NEW q \in Page
        PROVE  phase'[q] # "new" => UserOf[q] \in users'
    BY <1>0, <1>1, <1>2, <1>3, <1>6, AccountsAssumption DEF OwnersExist, Request, Page
  <2>4. QED
    BY <2>1, <2>2, <2>3 DEF OwnersExist
<1>10. CurIsKnown' /\ PhasesOfKind'
  <2>1. CurIsKnown'
    BY <1>0, <1>1, <1>2, <1>3, <1>6, AccountsAssumption DEF CurIsKnown, Request, Page
  <2>2. PhasesOfKind'
    BY <1>0, <1>1, <1>2, <1>6, AccountsAssumption DEF PhasesOfKind, Request, Page
  <2>3. QED
    BY <2>1, <2>2
<1>11. QED
  BY <1>5, <1>7, <1>8, <1>9, <1>10 DEF Basics

\* An update or a delete takes a client up, or is done with it.
LEMMA BasicsEdit ==
  ASSUME Basics, NEW r \in Update \cup Delete,
         BeginEdit(r) \/ (r \in Update /\ WriteUpdate(r)) \/ (r \in Delete /\ DestroyClient(r))
  PROVE  Basics'
<1>0. AccountsTypeOK /\ IdsAreOld /\ OwnersExist /\ CurIsKnown /\ AddressOfId /\ PhasesOfKind
  BY DEF Basics
<1>1. r \in Request /\ r \in Page /\ r \notin Register /\ r \notin Add /\ UserOf[r] \in users
  <2>1. r \in Page /\ r \in Request /\ r \notin Register /\ r \notin Add
    BY AccountsAssumption DEF Request, Page
  <2>2. UserOf[r] \in users
    BY <1>0, <2>1 DEF BeginEdit, WriteUpdate, DestroyClient, OwnersExist
  <2>3. QED
    BY <2>1, <2>2
<1>2. PICK p \in {"owned", "done", "unanswered"} : Go(r, p) /\ (p = "owned" => BeginEdit(r))
  BY DEF BeginEdit, WriteUpdate, DestroyClient
<1>3. UNCHANGED <<users, next, crowded>> /\ excused' \subseteq Request
  BY <1>0, <1>1 DEF BeginEdit, WriteUpdate, DestroyClient, Overtaken, AccountsTypeOK
<1>4. \A q \in Request : phase'[q] = IF q = r THEN p ELSE phase[q]
  BY <1>0, <1>1, <1>2 DEF Go, AccountsTypeOK
<1>5. /\ cur' \in [Request -> Id \cup {None}]
      /\ \A q \in Request : q # r => cur'[q] = cur[q]
      /\ p = "owned" => cur'[r] # None
      /\ \A q \in Request : cur'[q] # None => cur'[q] < next
  <2>1. CASE BeginEdit(r)
    <3>1. PICK id \in Id : cur' = [cur EXCEPT ![r] = id] /\ clients[id] # None
      BY <2>1 DEF BeginEdit, ClientsOf
    <3>2. \A q \in Request : cur'[q] = IF q = r THEN id ELSE cur[q]
      BY <1>0, <1>1, <3>1 DEF AccountsTypeOK
    <3>3. cur' \in [Request -> Id \cup {None}]
      BY <1>0, <3>1 DEF AccountsTypeOK
    <3>4. id < next /\ id # None
      BY <1>0, <3>1, Constants DEF IdsAreOld
    <3>5. QED
      BY <1>0, <1>1, <3>2, <3>3, <3>4 DEF IdsAreOld
  <2>2. CASE ~BeginEdit(r)
    <3>1. cur' = cur /\ p # "owned"
      BY <1>2, <2>2 DEF WriteUpdate, DestroyClient
    <3>2. QED
      BY <1>0, <3>1 DEF IdsAreOld, AccountsTypeOK
  <2>3. QED
    BY <2>1, <2>2
<1>6. /\ clients' \in [Id -> Row \cup {None}]
      /\ \A j \in Id : clients'[j] # None => /\ clients[j] # None
                                           /\ clients'[j].user = clients[j].user
                                           /\ clients'[j].ip = clients[j].ip
  <2>1. CASE UNCHANGED clients
    BY <1>0, <2>1 DEF AccountsTypeOK
  <2>2. CASE r \in Update /\ WriteUpdate(r) /\ clients[cur[r]] # None
             /\ clients' = [clients EXCEPT ![cur[r]].name = NameOf[r]]
    <3> DEFINE new == [clients[cur[r]] EXCEPT !.name = NameOf[r]]
    <3>1. cur[r] \in Id /\ phase[r] = "free"
      BY <1>0, <1>1, <2>2 DEF WriteUpdate, CurIsKnown, AccountsTypeOK
    <3>2. clients[cur[r]] \in Row /\ NameOf[r] \in Name
      BY <1>0, <2>2, <3>1, AccountsAssumption DEF AccountsTypeOK
    <3>3. new \in Row /\ new.user = clients[cur[r]].user /\ new.ip = clients[cur[r]].ip
      BY <3>2 DEF Row
    <3>4. clients' = [clients EXCEPT ![cur[r]] = new]
      BY <2>2
    <3> HIDE DEF new
    <3>5. \A j \in Id : clients'[j] = IF j = cur[r] THEN new ELSE clients[j]
      BY <1>0, <3>1, <3>4 DEF AccountsTypeOK
    <3>6. clients' \in [Id -> Row \cup {None}]
      BY <1>0, <3>1, <3>3, <3>4 DEF AccountsTypeOK
    <3>7. QED
      BY <2>2, <3>3, <3>5, <3>6
  <2>3. CASE r \in Delete /\ DestroyClient(r)
    <3>1. clients' = [clients EXCEPT ![cur[r]] = None]
      BY <2>3 DEF DestroyClient
    <3>2. \A j \in Id : clients'[j] \in {None, clients[j]}
      BY <1>0, <3>1 DEF AccountsTypeOK
    <3>3. clients' \in [Id -> Row \cup {None}]
      BY <1>0, <3>1 DEF AccountsTypeOK
    <3>4. QED
      BY <3>2, <3>3
  <2>4. QED
    BY <2>1, <2>2, <2>3 DEF BeginEdit, WriteUpdate
<1>7. AccountsTypeOK'
  <2>1. phase' \in [Request -> Phase]
    BY <1>0, <1>1, <1>2 DEF Go, AccountsTypeOK, Phase, Ended
  <2>2. QED
    BY <1>0, <1>3, <1>5, <1>6, <2>1 DEF AccountsTypeOK
<1>8. IdsAreOld'
  BY <1>0, <1>3, <1>5, <1>6 DEF IdsAreOld
<1>9. AddressOfId'
  BY <1>0, <1>6 DEF AddressOfId
<1>10. OwnersExist'
  BY <1>0, <1>1, <1>3, <1>4, <1>6, AccountsAssumption DEF OwnersExist, Request, Page
<1>11. CurIsKnown'
  BY <1>0, <1>1, <1>2, <1>4, <1>5, AccountsAssumption DEF CurIsKnown, Request, Page
<1>12. PhasesOfKind'
  BY <1>0, <1>1, <1>2, <1>4, AccountsAssumption DEF PhasesOfKind, Request, Page
<1>13. QED
  BY <1>7, <1>8, <1>9, <1>10, <1>11, <1>12 DEF Basics

\* Every step keeps the basics.
LEMMA BasicsKeep ==
  ASSUME Basics, [Next]_vars
  PROVE  Basics'
<1>1. CASE UNCHANGED vars
  BY <1>1, BasicsQuiet DEF vars
<1>2. ASSUME NEW r \in Register, BeginRegister(r) \/ CountEmail(r) \/ Commit(r)
      PROVE  Basics'
  <2>1. UNCHANGED <<users, clients, next, cur>>
    BY <1>2 DEF BeginRegister, CountEmail, Commit
  <2>2. QED
    BY <1>2, <2>1, BasicsQuiet
<1>3. ASSUME NEW r \in Add, BeginAdd(r)
      PROVE  Basics'
  BY <1>3, BasicsQuiet DEF BeginAdd
<1>4. ASSUME NEW r \in Add \cup Update, CountName(r)
      PROVE  Basics'
  BY <1>4, BasicsQuiet DEF CountName
<1>5. ASSUME NEW r \in Request, Fails(r)
      PROVE  Basics'
  BY <1>5, BasicsQuiet DEF Fails
<1>6. CASE Crash
  BY <1>6, BasicsQuiet DEF Crash
<1>7. QED
  BY <1>1, <1>2, <1>3, <1>4, <1>5, <1>6, BasicsUser, BasicsCreate, BasicsAddress, BasicsEdit
  DEF Next, Devices

\* The basics are an inductive invariant.
LEMMA BasicsHold == Spec => []Basics
<1>1. Init => Basics
  BY AccountsAssumption, Constants
  DEF Init, Basics, AccountsTypeOK, IdsAreOld, OwnersExist, CurIsKnown, AddressOfId, PhasesOfKind,
      Phase, Ended, Request, Page
<1>2. Basics /\ [Next]_vars => Basics'
  BY BasicsKeep
<1>3. QED
  BY <1>1, <1>2, PTL DEF Spec

-----------------------------------------------------------------------------
(* A client stays in its account                                             *)

\* A row is new, or keeps its owner and its address.
Fresh(id) ==
    /\ id = next
    /\ \E r \in Register \cup Add : cur'[r] = next /\ phase'[r] \in {"first", "third", "created"}

Kept(id) ==
    /\ clients[id] # None /\ clients'[id].user = clients[id].user
    /\ clients[id].ip # None => clients'[id].ip # None

\* Every row of the next state is a new one or has been kept.
LEMMA RowsKeep ==
  ASSUME Basics, [Next]_vars
  PROVE  \A id \in Id : clients'[id] # None => Fresh(id) \/ Kept(id)
<1> DEFINE Rows == \A id \in Id : clients'[id] # None => Fresh(id) \/ Kept(id)
<1>0. AccountsTypeOK /\ CurIsKnown
  BY DEF Basics
<1>1. ASSUME UNCHANGED clients
      PROVE  Rows
  BY <1>1 DEF Kept
<1>2. ASSUME NEW r \in Register \cup Add, NEW n, Insert(r, n),
             NEW p \in {"first", "third", "created"}, Go(r, p)
      PROVE  Rows
  <2>1. r \in Request
    BY DEF Request, Page
  <2>2. next \in Id /\ cur'[r] = next /\ phase'[r] = p
    BY <1>0, <1>2, <2>1 DEF Insert, Go, AccountsTypeOK
  <2>3. \A id \in Id : id # next => clients'[id] = clients[id]
    BY <1>0, <1>2 DEF Insert, AccountsTypeOK
  <2>4. QED
    BY <2>2, <2>3 DEF Fresh, Kept
<1>3. ASSUME NEW r \in Register \cup Add,
             \/ r \in Register /\ AddressDevice(r, "first", "second")
             \/ r \in Register /\ AddressDevice(r, "third", "written")
             \/ r \in Add /\ AddressAdd(r)
      PROVE  Rows
  <2>1. Addressed(cur[r]) \/ UNCHANGED clients
    BY <1>3 DEF AddressDevice, AddressAdd
  <2>2. (r \in Register /\ phase[r] \in {"first", "third"}) \/ (r \in Add /\ phase[r] = "created")
    BY <1>3 DEF AddressDevice, AddressAdd
  <2>3. cur[r] \in Id
    BY <1>0, <2>2 DEF CurIsKnown, AccountsTypeOK, Request, Page
  <2>4. \A id \in Id : clients'[id] # None =>
           /\ clients[id] # None /\ clients'[id].user = clients[id].user
           /\ clients'[id].ip \in {clients[id].ip, getVirtualIp(id)}
    BY <2>1, <2>3, AddressedKeeps
  <2>5. QED
    BY <2>4, Constants DEF Kept
<1>4. ASSUME NEW r \in Update, WriteUpdate(r)
      PROVE  Rows
  <2>1. CASE UNCHANGED clients
    BY <1>1, <2>1
  <2>2. CASE clients' = [clients EXCEPT ![cur[r]].name = NameOf[r]]
    <3>1. clients[cur[r]] # None \/ UNCHANGED clients
      BY <1>4, <2>2 DEF WriteUpdate
    <3>2. cur[r] \in Id
      BY <1>0, <1>4 DEF WriteUpdate, CurIsKnown, AccountsTypeOK, Request, Page
    <3>3. \A id \in Id : id # cur[r] => clients'[id] = clients[id]
      BY <1>0, <2>2 DEF AccountsTypeOK
    <3>4. clients'[cur[r]] = [clients[cur[r]] EXCEPT !.name = NameOf[r]]
      BY <1>0, <2>2, <3>2 DEF AccountsTypeOK
    <3>5. clients[cur[r]] # None => /\ clients'[cur[r]].user = clients[cur[r]].user
                                    /\ clients'[cur[r]].ip = clients[cur[r]].ip
      BY <1>0, <3>2, <3>4 DEF AccountsTypeOK, Row
    <3>6. QED
      BY <1>1, <3>1, <3>3, <3>5 DEF Kept
  <2>3. QED
    BY <1>4, <2>1, <2>2 DEF WriteUpdate
<1>5. ASSUME NEW r \in Delete, DestroyClient(r)
      PROVE  Rows
  BY <1>0, <1>5 DEF DestroyClient, AccountsTypeOK, Kept
<1>6. ASSUME NEW r \in Register, Devices(r)
      PROVE  Rows
  BY <1>1, <1>2, <1>3, <1>6 DEF Devices, CreateDevice
<1>7. ASSUME NEW r \in Add, CreateAdd(r)
      PROVE  Rows
  BY <1>1, <1>2, <1>7 DEF CreateAdd
<1>8. ASSUME \/ \E r \in Register : BeginRegister(r) \/ CountEmail(r) \/ CreateUser(r) \/ Commit(r)
             \/ \E r \in Add : BeginAdd(r)
             \/ \E r \in Update \cup Delete : BeginEdit(r)
             \/ \E r \in Add \cup Update : CountName(r)
             \/ \E r \in Request : Fails(r)
             \/ Crash
             \/ UNCHANGED vars
      PROVE  UNCHANGED clients
  BY <1>8 DEF BeginRegister, CountEmail, CreateUser, Commit, BeginAdd, BeginEdit, CountName, Fails,
     Crash, vars
<1>9. QED
  BY <1>1, <1>3, <1>4, <1>5, <1>6, <1>7, <1>8 DEF Next

\* The page that goes on with a client is the one that has found it.
LEMMA EditsGoOn ==
  ASSUME Basics, [Next]_vars, NEW r \in Update \cup Delete, phase'[r] \in {"owned", "free"}
  PROVE  \/ phase[r] \in {"owned", "free"} /\ cur'[r] = cur[r]
         \/ /\ BeginEdit(r)
            /\ clients' = clients /\ cur'[r] \in ClientsOf(UserOf[r])
<1>0. /\ AccountsTypeOK /\ r \in Request /\ r \notin Register /\ r \notin Add
      /\ phase \in [Request -> Phase] /\ cur \in [Request -> Id \cup {None}]
  BY AccountsAssumption DEF Basics, AccountsTypeOK, Request, Page
<1>1. ASSUME NEW q \in Request, q # r, NEW p, Go(q, p),
             cur' = cur \/ \E id \in Id : cur' = [cur EXCEPT ![q] = id]
      PROVE  phase[r] \in {"owned", "free"} /\ cur'[r] = cur[r]
  BY <1>0, <1>1 DEF Go
<1>2. ASSUME NEW q \in Register,
             BeginRegister(q) \/ CountEmail(q) \/ CreateUser(q) \/ Devices(q) \/ Commit(q)
      PROVE  phase[r] \in {"owned", "free"} /\ cur'[r] = cur[r]
  <2>1. q \in Request /\ q # r
    BY <1>0 DEF Request
  <2>2. cur' = cur \/ \E id \in Id : cur' = [cur EXCEPT ![q] = id]
    BY <1>2 DEF BeginRegister, CountEmail, CreateUser, Devices, Commit, CreateDevice, AddressDevice, Insert
  <2>3. \E p : Go(q, p)
    BY <1>2 DEF BeginRegister, CountEmail, CreateUser, Devices, Commit, CreateDevice, AddressDevice
  <2>4. QED
    BY <1>1, <2>1, <2>2, <2>3
<1>3. ASSUME NEW q \in Add, BeginAdd(q) \/ CreateAdd(q) \/ AddressAdd(q) \/ CountName(q)
      PROVE  phase[r] \in {"owned", "free"} /\ cur'[r] = cur[r]
  <2>1. q \in Request /\ q # r
    BY <1>0 DEF Request, Page
  <2>2. cur' = cur \/ \E id \in Id : cur' = [cur EXCEPT ![q] = id]
    BY <1>3 DEF BeginAdd, CreateAdd, AddressAdd, CountName, Insert
  <2>3. \E p : Go(q, p)
    BY <1>3 DEF BeginAdd, CreateAdd, AddressAdd, CountName
  <2>4. QED
    BY <1>1, <2>1, <2>2, <2>3
<1>4. ASSUME NEW q \in Update \cup Delete, q # r,
             \/ BeginEdit(q)
             \/ q \in Update /\ (CountName(q) \/ WriteUpdate(q))
             \/ q \in Delete /\ DestroyClient(q)
      PROVE  phase[r] \in {"owned", "free"} /\ cur'[r] = cur[r]
  <2>1. q \in Request
    BY DEF Request, Page
  <2>2. cur' = cur \/ \E id \in Id : cur' = [cur EXCEPT ![q] = id]
    BY <1>4 DEF BeginEdit, CountName, WriteUpdate, DestroyClient, ClientsOf
  <2>3. \E p : Go(q, p)
    BY <1>4 DEF BeginEdit, CountName, WriteUpdate, DestroyClient
  <2>4. QED
    BY <1>1, <1>4, <2>1, <2>2, <2>3
<1>5. ASSUME NEW q \in Request, Fails(q)
      PROVE  phase[r] \in {"owned", "free"} /\ cur'[r] = cur[r]
  <2>1. PICK p \in {"failed", "unanswered"} : Go(q, p)
    BY <1>5 DEF Fails
  <2>2. q # r
    BY <1>0, <2>1 DEF Go
  <2>3. cur' = cur
    BY <1>5 DEF Fails
  <2>4. QED
    BY <1>1, <2>1, <2>2, <2>3
<1>6. ASSUME Crash \/ UNCHANGED vars
      PROVE  phase[r] \in {"owned", "free"} /\ cur'[r] = cur[r]
  BY <1>0, <1>6 DEF Crash, vars
<1>7. ASSUME BeginEdit(r)
      PROVE  clients' = clients /\ cur'[r] \in ClientsOf(UserOf[r])
  <2>1. PICK id \in ClientsOf(UserOf[r]) : cur' = [cur EXCEPT ![r] = id]
    BY <1>7 DEF BeginEdit
  <2>2. cur'[r] = id /\ clients' = clients
    BY <1>0, <1>7, <2>1 DEF BeginEdit
  <2>3. QED
    BY <2>1, <2>2
<1>8. ASSUME r \in Update, CountName(r) \/ WriteUpdate(r)
      PROVE  phase[r] \in {"owned", "free"} /\ cur'[r] = cur[r]
  <2>1. phase[r] \in {"owned", "free"}
    BY <1>0, <1>8 DEF CountName, WriteUpdate
  <2>2. cur' = cur
    BY <1>8 DEF CountName, WriteUpdate
  <2>3. QED
    BY <2>1, <2>2
<1>9. ASSUME r \in Delete, DestroyClient(r)
      PROVE  FALSE
  BY <1>0, <1>9 DEF DestroyClient, Go
<1>10. QED
  BY <1>2, <1>3, <1>4, <1>5, <1>6, <1>7, <1>8, <1>9 DEF Next

\* Edits are of clients of the account that they are made in.
LEMMA OwnHold == Spec => []OwnIsEdited
<1>1. Init => OwnIsEdited
  BY DEF Init, OwnIsEdited, Request, Page
<1>2. Basics /\ OwnIsEdited /\ [Next]_vars => OwnIsEdited'
  <2> SUFFICES ASSUME Basics, OwnIsEdited, [Next]_vars, NEW r \in Update \cup Delete,
                      phase'[r] \in {"owned", "free"}, clients'[cur'[r]] # None
               PROVE  clients'[cur'[r]].user = UserOf[r]
    BY DEF OwnIsEdited
  <2>1. CASE phase[r] \in {"owned", "free"} /\ cur'[r] = cur[r]
    <3>1. cur[r] \in Id /\ cur[r] < next /\ next \in Nat
      BY <2>1 DEF Basics, CurIsKnown, IdsAreOld, AccountsTypeOK, Request, Page
    <3>2. cur[r] # next
      BY <3>1, AccountsAssumption
    <3>3. QED
      BY <2>1, <3>1, <3>2, RowsKeep DEF OwnIsEdited, Fresh, Kept
  <2>2. CASE clients' = clients /\ cur'[r] \in ClientsOf(UserOf[r])
    BY <2>2 DEF ClientsOf
  <2>3. QED
    BY <2>1, <2>2, EditsGoOn
<1>3. QED
  BY <1>1, <1>2, BasicsHold, PTL DEF Spec

-----------------------------------------------------------------------------
(* Failures have reasons                                                     *)

\* Names do not come up where rows do not.
LEMMA NamesStay ==
  ASSUME \A id \in Id : clients'[id] # None => /\ clients[id] # None
                                              /\ clients'[id].user = clients[id].user
                                              /\ clients'[id].name = clients[id].name
  PROVE  \A u, n, x : Taken(u, n, x)' => Taken(u, n, x)
BY DEF Taken, ClientsOf

\* A new client takes one name.
LEMMA InsertTakes ==
  ASSUME Basics, NEW r \in Register \cup Add, NEW m \in Name, Insert(r, m)
  PROVE  \A u, n, x : Taken(u, n, x)' => Taken(u, n, x) \/ (u = Account(r) /\ n = m)
<1> DEFINE new == [user |-> Account(r), name |-> m, ip |-> None]
<1>1. \A id \in Id : clients'[id] = IF id = next THEN new ELSE clients[id]
  BY DEF Insert, Basics, AccountsTypeOK
<1>2. new.user = Account(r) /\ new.name = m
  OBVIOUS
<1> HIDE DEF new
<1>3. QED
  BY <1>1, <1>2 DEF Taken, ClientsOf

\* A renamed client takes its new name.
LEMMA RenameTakes ==
  ASSUME Basics, NEW r \in Update, cur[r] \in Id, clients[cur[r]] # None,
         clients' = [clients EXCEPT ![cur[r]].name = NameOf[r]]
  PROVE  /\ \A id \in Id : clients'[id] # None => clients[id] # None
         /\ \A u, n, x : Taken(u, n, x)' => Taken(u, n, x)
                             \/ (u = clients[cur[r]].user /\ n = NameOf[r])
<1> DEFINE new == [clients[cur[r]] EXCEPT !.name = NameOf[r]]
<1>1. \A id \in Id : clients'[id] = IF id = cur[r] THEN new ELSE clients[id]
  BY DEF Basics, AccountsTypeOK
<1>2. new.user = clients[cur[r]].user /\ new.name = NameOf[r]
  BY DEF Basics, AccountsTypeOK, Row
<1> HIDE DEF new
<1>3. QED
  BY <1>1, <1>2 DEF Taken, ClientsOf

\* Whoever does not step keeps what he knows, or is excused.
LEMMA OthersKnow ==
  ASSUME Basics, Reasons, NEW q \in Request, NEW r \in Request, q # r,
         phase'[q] = phase[q], cur'[q] = cur[q], excused \subseteq excused', next <= next',
         next' \in Nat,
         \A u, n, x : Taken(u, n, x)' => Taken(u, n, x) \/ Overtaken(u, n) \ {r} \subseteq excused',
         \A p \in users' \ users : p = r,
         \A p \in users' \ users :
             (q \in Rivals(p) /\ phase[q] \in {"counted", "free"}) => q \in excused'
  PROVE  /\ q \in Register => RegisterKnows(q)'
         /\ q \in Add \cup Update => PageKnows(q)'
         /\ HasReason(q)'
<1>1. ASSUME q \in Register
      PROVE  RegisterKnows(q)'
  <2>0. RegisterKnows(q)
    BY <1>1 DEF Reasons, QueriesHold
  <2>1. ASSUME phase[q] = "counted", NEW p \in users', Username[p] = Username[q]
        PROVE  q \in excused'
    <3>1. CASE p \in users
      BY <2>0, <2>1, <3>1 DEF RegisterKnows
    <3>2. CASE p \notin users
      <4>1. p = r /\ q \in Rivals(p)
        BY <1>1, <2>1, <3>2 DEF Rivals
      <4>2. QED
        BY <2>1, <3>2, <4>1
    <3>3. QED
      BY <3>1, <3>2
  <2>2. ASSUME phase[q] = "free", NEW p \in users' \cap Rivals(q)
        PROVE  q \in excused'
    <3>1. CASE p \in users
      BY <2>0, <2>2, <3>1 DEF RegisterKnows
    <3>2. CASE p \notin users
      <4>1. p = r /\ q \in Rivals(p)
        BY <1>1, <2>2, <3>2 DEF Rivals
      <4>2. QED
        BY <2>2, <3>2, <4>1
    <3>3. QED
      BY <3>1, <3>2
  <2>3. ASSUME NEW n \in {Device1, Device2}, phase[q] \in {"user", "first", "second"}
        PROVE  q \in Overtaken(q, n) \ {r}
    BY <1>1, <2>3, Constants DEF Overtaken, Busy, Ended
  <2>4. QED
    <3>1. phase'[q] = "counted" /\ (\E p \in users' : Username[p] = Username[q]) => q \in excused'
      BY <2>1
    <3>2. phase'[q] = "free" /\ users' \cap Rivals(q) # {} => q \in excused'
      BY <2>2
    <3>3. phase'[q] = "user" /\ Taken(q, Device1, None)' => q \in excused'
      BY <2>0, <2>3 DEF RegisterKnows
    <3>4. phase'[q] \in {"user", "first", "second"} /\ Taken(q, Device2, None)' => q \in excused'
      BY <2>0, <2>3 DEF RegisterKnows
    <3>5. QED
      BY <3>1, <3>2, <3>3, <3>4 DEF RegisterKnows, Rivals
<1>2. ASSUME q \in Add \cup Update
      PROVE  PageKnows(q)'
  <2>0. PageKnows(q)
    BY <1>2 DEF Reasons, QueriesHold
  <2>1. phase[q] = "free" => q \in Overtaken(UserOf[q], NameOf[q]) \ {r}
    BY <1>2, Constants DEF Overtaken, Page
  <2>2. QED
    BY <2>0, <2>1 DEF PageKnows
<1>3. HasReason(q)'
  <2>1. next \in Nat /\ MaxClientId \in Nat /\ HasReason(q)
    BY Constants DEF Basics, AccountsTypeOK, Reasons
  <2>2. QED
    BY <2>1 DEF HasReason
<1>4. QED
  BY <1>1, <1>2, <1>3

\* Two clients have one address only when ids have gone past the bound.
LEMMA CollisionsAreLate ==
  ASSUME Basics, NEW id \in Id, id < next, AddressInUse(id)
  PROVE  next > MaxClientId + 1
<1>1. PICK j \in Id \ {id} : clients[j] # None /\ clients[j].ip = getVirtualIp(id)
  BY DEF AddressInUse
<1>2. getVirtualIp(j) = getVirtualIp(id) /\ j < next
  BY <1>1, Constants DEF Basics, AddressOfId, IdsAreOld
<1>3. id \in Nat /\ j \in Nat /\ next \in Nat /\ MaxClientId \in Nat
  BY Constants, AccountsAssumption DEF Basics, AccountsTypeOK
<1>4. ~(id <= MaxClientId /\ j <= MaxClientId)
  BY <1>1, <1>2, <1>3, AddressesDiffer
<1>5. QED
  BY <1>2, <1>3, <1>4

\* A step of r keeps the reasons if r itself has one.
LEMMA ReasonsFrame ==
  ASSUME Basics, Reasons, NEW r \in Request, NEW p \in Phase, Go(r, p),
         \A q \in Request : q # r => cur'[q] = cur[q],
         excused \subseteq excused', next <= next', next' \in Nat,
         \A u, n, x : Taken(u, n, x)' => Taken(u, n, x) \/ Overtaken(u, n) \ {r} \subseteq excused',
         \A q \in users' \ users : q = r,
         \A q, z \in Request :
             (z \in users' \ users /\ q \in Rivals(z) /\ phase[q] \in {"counted", "free"})
                 => q \in excused',
         r \in Register => RegisterKnows(r)',
         r \in Add \cup Update => PageKnows(r)',
         HasReason(r)'
  PROVE  Reasons'
<1>1. \A q \in Request : q # r => phase'[q] = phase[q]
  BY DEF Go, Basics, AccountsTypeOK
<1>2. ASSUME NEW q \in Request, q # r
      PROVE  /\ q \in Register => RegisterKnows(q)'
             /\ q \in Add \cup Update => PageKnows(q)'
             /\ HasReason(q)'
  <2>1. phase'[q] = phase[q] /\ cur'[q] = cur[q]
    BY <1>1, <1>2
  <2>2. \A z \in users' \ users :
           (q \in Rivals(z) /\ phase[q] \in {"counted", "free"}) => q \in excused'
    OBVIOUS
  <2>3. QED
    BY <1>2, <2>1, <2>2, OthersKnow
<1>3. QED
  BY <1>2 DEF Reasons, QueriesHold, Request, Page

\* A step that changes no row keeps the reasons if its own request has one.
LEMMA ReasonsQuiet ==
  ASSUME Basics, Reasons, NEW r \in Request, NEW p \in Phase, Go(r, p),
         UNCHANGED <<users, clients, next>>,
         \A q \in Request : q # r => cur'[q] = cur[q],
         excused \subseteq excused',
         r \in Register => RegisterKnows(r)',
         r \in Add \cup Update => PageKnows(r)',
         HasReason(r)'
  PROVE  Reasons'
<1>1. \A u, n, x : Taken(u, n, x)' => Taken(u, n, x)
  BY NamesStay
<1>2. next <= next' /\ next' \in Nat
  BY DEF Basics, AccountsTypeOK
<1>3. QED
  BY <1>1, <1>2, ReasonsFrame

\* The steps of a registration before it makes clients, and its last one.
LEMMA ReasonsRegister ==
  ASSUME Basics, Reasons, NEW r \in Register,
         BeginRegister(r) \/ CountEmail(r) \/ Commit(r) \/ CreateUser(r)
  PROVE  Reasons'
<1>0. /\ AccountsTypeOK /\ OwnersExist /\ PhasesOfKind /\ RegisterKnows(r)
      /\ r \in Request /\ r \notin Add \cup Update
  BY AccountsAssumption DEF Basics, Reasons, QueriesHold, Request, Page
<1>1. ASSUME BeginRegister(r) \/ CountEmail(r) \/ Commit(r)
      PROVE  Reasons'
  <2>1. PICK p \in {"counted", "refused", "free", "done"} :
           /\ Go(r, p)
           /\ p = "counted" => ~ \E q \in users : Username[q] = Username[r]
           /\ p = "free" => phase[r] = "counted" /\ ~ \E q \in users : Email[q] = Email[r]
    BY <1>1 DEF BeginRegister, CountEmail, Commit
  <2>2. UNCHANGED <<users, clients, next, cur, excused>>
    BY <1>1 DEF BeginRegister, CountEmail, Commit
  <2>3. phase'[r] = p /\ p \in Phase
    BY <1>0, <2>1 DEF Go, AccountsTypeOK, Phase, Ended
  <2>4. p = "free" /\ users \cap Rivals(r) # {} => r \in excused
    BY <1>0, <2>1 DEF RegisterKnows, Rivals
  <2>5. RegisterKnows(r)' /\ HasReason(r)'
    BY <2>1, <2>2, <2>3, <2>4 DEF RegisterKnows, HasReason, Rivals
  <2>6. QED
    BY <1>0, <2>1, <2>2, <2>3, <2>5, ReasonsQuiet
<1>2. ASSUME CreateUser(r)
      PROVE  Reasons'
  <2>1. UNCHANGED <<clients, next, cur>> /\ phase[r] = "free"
    BY <1>2 DEF CreateUser
  <2>2. CASE users \cap Rivals(r) # {}
    <3>1. Go(r, "failed") /\ UNCHANGED <<users, excused>> /\ r \in excused
      BY <1>0, <1>2, <2>1, <2>2 DEF CreateUser, RegisterKnows
    <3>2. phase'[r] = "failed" /\ "failed" \in Phase
      BY <1>0, <3>1 DEF Go, AccountsTypeOK, Phase, Ended
    <3>3. RegisterKnows(r)' /\ HasReason(r)'
      BY <3>1, <3>2 DEF RegisterKnows, HasReason
    <3>4. QED
      BY <1>0, <2>1, <3>1, <3>2, <3>3, ReasonsQuiet
  <2>3. CASE users \cap Rivals(r) = {}
    <3>1. /\ Go(r, "user") /\ users' = users \cup {r}
          /\ excused' = excused \cup {q \in Rivals(r) : phase[q] \in {"counted", "free"}}
      BY <1>2, <2>3 DEF CreateUser
    <3>2. phase'[r] = "user" /\ "user" \in Phase
      BY <1>0, <3>1 DEF Go, AccountsTypeOK, Phase, Ended
    <3>3. \A n, x : ~Taken(r, n, x)'
      BY <1>0, <2>1 DEF OwnersExist, Taken, ClientsOf
    <3>4. RegisterKnows(r)' /\ HasReason(r)'
      BY <3>2, <3>3 DEF RegisterKnows, HasReason
    <3>5. \A u, n, x : Taken(u, n, x)' => Taken(u, n, x)
      BY <2>1, NamesStay
    <3>6. next <= next' /\ next' \in Nat
      BY <1>0, <2>1 DEF AccountsTypeOK
    <3>7. QED
      BY <1>0, <2>1, <3>1, <3>2, <3>4, <3>5, <3>6, ReasonsFrame
  <2>4. QED
    BY <2>2, <2>3
<1>3. QED
  BY <1>1, <1>2

\* A client is made.
LEMMA ReasonsMade ==
  ASSUME Basics, Reasons, NEW r \in Register \cup Add, NEW n \in Name,
         NEW p \in {"first", "third", "created"}, Go(r, p), Insert(r, n),
         p = "first" => r \in Register /\ n = Device1 /\ phase[r] = "user"
  PROVE  Reasons'
<1>0. /\ AccountsTypeOK /\ r \in Request
      /\ r \in Register => RegisterKnows(r) /\ Account(r) = r
  BY Constants DEF Basics, Reasons, QueriesHold, Request, Page
<1>1. phase'[r] = p /\ p \in Phase
  BY <1>0 DEF Go, AccountsTypeOK, Phase, Ended
<1>2. /\ users' = users /\ next' = next + 1 /\ next \in Nat
      /\ excused' = excused \cup (Overtaken(Account(r), n) \ {r})
      /\ \A q \in Request : q # r => cur'[q] = cur[q]
  BY <1>0 DEF Insert, AccountsTypeOK
<1>3. \A u, m, x : Taken(u, m, x)' => Taken(u, m, x) \/ (u = Account(r) /\ m = n)
  BY InsertTakes
<1>4. \A u, m, x : Taken(u, m, x)' => Taken(u, m, x) \/ Overtaken(u, m) \ {r} \subseteq excused'
  BY <1>2, <1>3
<1>5. r \in Register => RegisterKnows(r)'
  <2>1. CASE p = "first"
    <3>1. Taken(r, Device2, None)' => Taken(r, Device2, None)
      BY <1>3, <2>1, AccountsAssumption
    <3>2. Taken(r, Device2, None) => r \in excused'
      BY <1>0, <1>2, <2>1 DEF RegisterKnows
    <3>3. QED
      BY <1>1, <2>1, <3>1, <3>2 DEF RegisterKnows
  <2>2. CASE p # "first"
    BY <1>1, <2>2 DEF RegisterKnows
  <2>3. QED
    BY <2>1, <2>2
<1>6. PageKnows(r)' /\ HasReason(r)'
  BY <1>1 DEF PageKnows, HasReason
<1>7. next <= next' /\ next' \in Nat
  BY <1>2
<1>8. QED
  BY <1>0, <1>1, <1>2, <1>4, <1>5, <1>6, <1>7, ReasonsFrame

\* The index does not let a name pass.
LEMMA ReasonsTaken ==
  ASSUME Basics, Reasons, NEW r \in Request, NEW p \in {"failed", "unanswered", "done"}, Go(r, p),
         UNCHANGED <<users, clients, next, cur, excused>>, r \in excused \/ p = "done"
  PROVE  Reasons'
<1>1. phase'[r] = p /\ p \in Phase
  BY DEF Basics, Go, AccountsTypeOK, Phase, Ended
<1>2. RegisterKnows(r)' /\ PageKnows(r)' /\ HasReason(r)'
  BY <1>1 DEF RegisterKnows, PageKnows, HasReason
<1>3. QED
  BY <1>1, <1>2, ReasonsQuiet

\* A client is made, or its name is taken.
LEMMA ReasonsCreate ==
  ASSUME Basics, Reasons, NEW r \in Register \cup Add,
         \/ r \in Register /\ CreateDevice(r, "user", "first", Device1)
         \/ r \in Register /\ CreateDevice(r, "second", "third", Device2)
         \/ r \in Add /\ CreateAdd(r)
  PROVE  Reasons'
<1>0. /\ CurIsKnown /\ r \in Request
      /\ r \in Register => RegisterKnows(r)
      /\ r \in Add => PageKnows(r) /\ NameOf[r] \in Name
  BY Constants, AccountsAssumption DEF Basics, Reasons, QueriesHold, Request, Page
<1>1. ASSUME r \in Register, CreateDevice(r, "user", "first", Device1)
      PROVE  Reasons'
  <2>1. CASE Taken(r, Device1, None)
    <3>1. Go(r, "failed") /\ UNCHANGED <<users, clients, next, cur, excused>> /\ r \in excused
      BY <1>0, <1>1, <2>1 DEF CreateDevice, RegisterKnows
    <3>2. QED
      BY <1>0, <3>1, ReasonsTaken
  <2>2. CASE ~Taken(r, Device1, None)
    <3>1. Go(r, "first") /\ Insert(r, Device1) /\ phase[r] = "user" /\ Device1 \in Name
      BY <1>1, <2>2, AccountsAssumption DEF CreateDevice
    <3>2. QED
      BY <1>1, <3>1, ReasonsMade
  <2>3. QED
    BY <2>1, <2>2
<1>2. ASSUME r \in Register, CreateDevice(r, "second", "third", Device2)
      PROVE  Reasons'
  <2>1. CASE Taken(r, Device2, None)
    <3>1. Go(r, "failed") /\ UNCHANGED <<users, clients, next, cur, excused>> /\ r \in excused
      BY <1>0, <1>2, <2>1 DEF CreateDevice, RegisterKnows
    <3>2. QED
      BY <1>0, <3>1, ReasonsTaken
  <2>2. CASE ~Taken(r, Device2, None)
    <3>1. Go(r, "third") /\ Insert(r, Device2) /\ Device2 \in Name
      BY <1>2, <2>2, AccountsAssumption DEF CreateDevice
    <3>2. QED
      BY <3>1, ReasonsMade
  <2>3. QED
    BY <2>1, <2>2
<1>3. ASSUME r \in Add, CreateAdd(r)
      PROVE  Reasons'
  <2>1. CASE Taken(UserOf[r], NameOf[r], None)
    <3>1. Go(r, "unanswered") /\ UNCHANGED <<users, clients, next, cur, excused>> /\ r \in excused
      BY <1>0, <1>3, <2>1 DEF CreateAdd, PageKnows, CurIsKnown
    <3>2. QED
      BY <1>0, <3>1, ReasonsTaken
  <2>2. CASE ~Taken(UserOf[r], NameOf[r], None)
    <3>1. Go(r, "created") /\ Insert(r, NameOf[r]) /\ NameOf[r] \in Name
      BY <1>0, <1>3, <2>2 DEF CreateAdd
    <3>2. QED
      BY <3>1, ReasonsMade
  <2>3. QED
    BY <2>1, <2>2
<1>4. QED
  BY <1>1, <1>2, <1>3

\* A client gets its address, or does not.
LEMMA ReasonsAddress ==
  ASSUME Basics, Reasons, NEW r \in Register \cup Add,
         \/ r \in Register /\ AddressDevice(r, "first", "second")
         \/ r \in Register /\ AddressDevice(r, "third", "written")
         \/ r \in Add /\ AddressAdd(r)
  PROVE  Reasons'
<1>0. /\ AccountsTypeOK /\ CurIsKnown /\ IdsAreOld /\ r \in Request
      /\ r \in Register => RegisterKnows(r)
  BY DEF Basics, Reasons, QueriesHold, Request, Page
<1>1. /\ UNCHANGED <<users, next, cur, excused>> /\ cur[r] \in Id /\ cur[r] < next
      /\ next <= next' /\ next' \in Nat
  <2>1. (r \in Register /\ phase[r] \in {"first", "third"}) \/ (r \in Add /\ phase[r] = "created")
    BY DEF AddressDevice, AddressAdd
  <2>2. UNCHANGED <<users, next, cur, excused>>
    BY DEF AddressDevice, AddressAdd
  <2>3. cur[r] # None /\ cur[r] \in Id \cup {None}
    BY <1>0, <2>1 DEF CurIsKnown, AccountsTypeOK
  <2>4. QED
    BY <1>0, <2>2, <2>3 DEF IdsAreOld, AccountsTypeOK
<1>2. PICK p \in {"second", "written", "done", "failed", "unanswered"} :
         /\ Go(r, p)
         /\ p \in {"second", "written", "done"} => Addressed(cur[r])
         /\ p \in {"failed", "unanswered"} => AddressInUse(cur[r]) /\ UNCHANGED clients
         /\ p = "second" => r \in Register /\ phase[r] = "first"
  BY DEF AddressDevice, AddressAdd
<1>3. phase'[r] = p /\ p \in Phase
  BY <1>0, <1>2 DEF Go, AccountsTypeOK, Phase, Ended
<1>4. Addressed(cur[r]) \/ UNCHANGED clients
  BY <1>2
<1>5. \A u, n, x : Taken(u, n, x)' => Taken(u, n, x)
  <2>1. \A j \in Id : clients'[j] # None => /\ clients[j] # None
                                            /\ clients'[j].user = clients[j].user
                                            /\ clients'[j].name = clients[j].name
    BY <1>1, <1>4, AddressedKeeps
  <2>2. QED
    BY <2>1, NamesStay
<1>6. HasReason(r)'
  <2>1. p \in {"failed", "unanswered"} => next > MaxClientId + 1
    BY <1>1, <1>2, CollisionsAreLate
  <2>2. QED
    BY <1>1, <1>3, <2>1 DEF HasReason
<1>7. (r \in Register => RegisterKnows(r)') /\ PageKnows(r)'
  BY <1>0, <1>1, <1>2, <1>3, <1>5 DEF RegisterKnows, PageKnows
<1>8. QED
  BY <1>0, <1>1, <1>2, <1>3, <1>5, <1>6, <1>7, ReasonsFrame

\* The pages ask.
LEMMA ReasonsAsk ==
  ASSUME Basics, Reasons, NEW r \in Page,
         \/ r \in Add /\ BeginAdd(r)
         \/ r \in Update \cup Delete /\ BeginEdit(r)
         \/ r \in Add \cup Update /\ CountName(r)
  PROVE  Reasons'
<1>0. AccountsTypeOK /\ r \in Request /\ r \notin Register
  BY AccountsAssumption DEF Basics, Request
<1>1. PICK p \in {"refused", "counted", "owned", "free"} :
         Go(r, p) /\ (p = "free" => ~Taken(UserOf[r], NameOf[r], cur[r]) /\ cur' = cur)
  BY DEF BeginAdd, BeginEdit, CountName
<1>2. /\ UNCHANGED <<users, clients, next, excused>>
      /\ \A q \in Request : q # r => cur'[q] = cur[q]
  BY <1>0 DEF BeginAdd, BeginEdit, CountName, AccountsTypeOK
<1>3. phase'[r] = p /\ p \in Phase
  BY <1>0, <1>1 DEF Go, AccountsTypeOK, Phase, Ended
<1>4. PageKnows(r)'
  <2>1. CASE p = "free"
    <3>1. Taken(UserOf[r], NameOf[r], cur[r])' => Taken(UserOf[r], NameOf[r], cur[r])
      BY <1>1, <1>2, <2>1 DEF Taken, ClientsOf
    <3>2. QED
      BY <1>1, <2>1, <3>1 DEF PageKnows
  <2>2. QED
    BY <1>3, <2>1 DEF PageKnows
<1>5. HasReason(r)'
  BY <1>3 DEF HasReason
<1>6. QED
  BY <1>0, <1>1, <1>2, <1>3, <1>4, <1>5, ReasonsQuiet

\* An update writes its name, a delete takes the client away.
LEMMA ReasonsWrite ==
  ASSUME Basics, OwnIsEdited, Reasons, NEW r \in Update \cup Delete,
         \/ r \in Update /\ WriteUpdate(r)
         \/ r \in Delete /\ DestroyClient(r)
  PROVE  Reasons'
<1>0. /\ AccountsTypeOK /\ CurIsKnown /\ r \in Request /\ r \notin Register
      /\ next <= next /\ next \in Nat /\ (r \in Update => PageKnows(r))
  BY AccountsAssumption DEF Basics, Reasons, QueriesHold, Request, Page, AccountsTypeOK
<1>1. ASSUME r \in Update, WriteUpdate(r)
      PROVE  Reasons'
  <2>1. phase[r] = "free" /\ UNCHANGED <<users, next, cur>> /\ cur[r] \in Id
    BY <1>0, <1>1 DEF WriteUpdate, CurIsKnown, AccountsTypeOK
  <2>2. CASE clients[cur[r]] = None
    <3>1. Go(r, "done") /\ UNCHANGED <<clients, excused>>
      BY <1>1, <2>2 DEF WriteUpdate
    <3>2. QED
      BY <1>0, <2>1, <3>1, ReasonsTaken
  <2>3. CASE clients[cur[r]] # None /\ Taken(UserOf[r], NameOf[r], cur[r])
    <3>1. Go(r, "unanswered") /\ UNCHANGED <<clients, excused>> /\ r \in excused
      BY <1>0, <1>1, <2>1, <2>3 DEF WriteUpdate, PageKnows
    <3>2. QED
      BY <1>0, <2>1, <3>1, ReasonsTaken
  <2>4. CASE clients[cur[r]] # None /\ ~Taken(UserOf[r], NameOf[r], cur[r])
    <3>1. /\ Go(r, "done") /\ clients' = [clients EXCEPT ![cur[r]].name = NameOf[r]]
          /\ excused' = excused \cup (Overtaken(UserOf[r], NameOf[r]) \ {r})
      BY <1>1, <2>4 DEF WriteUpdate
    <3>2. phase'[r] = "done" /\ "done" \in Phase
      BY <1>0, <3>1 DEF Go, AccountsTypeOK, Phase, Ended
    <3>3. clients[cur[r]].user = UserOf[r]
      BY <1>0, <2>1, <2>4 DEF OwnIsEdited
    <3>4. \A u, n, x : Taken(u, n, x)' => Taken(u, n, x) \/ Overtaken(u, n) \ {r} \subseteq excused'
      BY <1>1, <2>1, <2>4, <3>1, <3>3, RenameTakes
    <3>5. PageKnows(r)' /\ HasReason(r)'
      BY <3>2 DEF PageKnows, HasReason
    <3>6. excused \subseteq excused' /\ next <= next' /\ next' \in Nat
      BY <1>0, <2>1, <3>1
    <3>7. QED
      BY <1>0, <2>1, <3>1, <3>2, <3>4, <3>5, <3>6, ReasonsFrame
  <2>5. QED
    BY <2>2, <2>3, <2>4
<1>2. ASSUME r \in Delete, DestroyClient(r)
      PROVE  Reasons'
  <2>1. /\ Go(r, "done") /\ clients' = [clients EXCEPT ![cur[r]] = None]
        /\ UNCHANGED <<users, next, cur, excused>>
    BY <1>2 DEF DestroyClient
  <2>2. phase'[r] = "done" /\ "done" \in Phase
    BY <1>0, <2>1 DEF Go, AccountsTypeOK, Phase, Ended
  <2>3. \A id \in Id : clients'[id] # None => clients'[id] = clients[id]
    BY <1>0, <2>1 DEF AccountsTypeOK
  <2>4. \A u, n, x : Taken(u, n, x)' => Taken(u, n, x)
    BY <2>3 DEF Taken, ClientsOf
  <2>5. PageKnows(r)' /\ HasReason(r)'
    BY <2>2 DEF PageKnows, HasReason
  <2>6. next <= next' /\ next' \in Nat
    BY <1>0, <2>1
  <2>7. QED
    BY <1>0, <2>1, <2>2, <2>4, <2>5, <2>6, ReasonsFrame
<1>3. QED
  BY <1>1, <1>2

\* The database fails, or the server ends, or nothing happens.
LEMMA ReasonsEnds ==
  ASSUME Basics, Reasons, (\E r \in Request : Fails(r)) \/ Crash \/ UNCHANGED vars
  PROVE  Reasons'
<1>1. ASSUME NEW r \in Request, Fails(r)
      PROVE  Reasons'
  <2>1. PICK p \in {"failed", "unanswered"} : Go(r, p)
    BY <1>1 DEF Fails
  <2>2. UNCHANGED <<users, clients, next, cur>> /\ excused' = excused \cup {r}
    BY <1>1 DEF Fails
  <2>3. phase'[r] = p /\ p \in Phase
    BY <2>1 DEF Basics, Go, AccountsTypeOK, Phase, Ended
  <2>4. RegisterKnows(r)' /\ PageKnows(r)' /\ HasReason(r)'
    BY <2>2, <2>3 DEF RegisterKnows, PageKnows, HasReason
  <2>5. QED
    BY <2>1, <2>2, <2>3, <2>4, ReasonsQuiet
<1>2. CASE Crash \/ UNCHANGED vars
  <2>1. /\ UNCHANGED <<users, clients, next, cur, excused>>
        /\ \A r \in Request : phase'[r] = phase[r] \/ phase'[r] = "lost"
    BY <1>2 DEF Crash, vars, Basics, AccountsTypeOK
  <2>2. \A u, n, x : Taken(u, n, x)' => Taken(u, n, x)
    BY <2>1 DEF Taken, ClientsOf
  <2>3. \A r \in Register : RegisterKnows(r)'
    BY <2>1, <2>2 DEF Reasons, QueriesHold, RegisterKnows, Request
  <2>4. \A r \in Add \cup Update : PageKnows(r)'
    <3>1. \A r \in Add \cup Update : Taken(UserOf[r], NameOf[r], cur[r])'
                                        => Taken(UserOf[r], NameOf[r], cur[r])
      BY <2>1 DEF Taken, ClientsOf
    <3>2. QED
      BY <2>1, <3>1 DEF Reasons, QueriesHold, PageKnows, Request, Page
  <2>5. \A r \in Request : HasReason(r)'
    BY <2>1 DEF Reasons, HasReason
  <2>6. QED
    BY <2>3, <2>4, <2>5 DEF Reasons, QueriesHold
<1>3. QED
  BY <1>1, <1>2

\* The reasons hold in every state.
LEMMA ReasonsHold == Spec => []Reasons
<1>1. Init => Reasons
  BY DEF Init, Reasons, QueriesHold, RegisterKnows, PageKnows, HasReason, Request, Page
<1>2. Basics /\ OwnIsEdited /\ Reasons /\ [Next]_vars => Reasons'
  <2> SUFFICES ASSUME Basics, OwnIsEdited, Reasons, [Next]_vars
               PROVE  Reasons'
    OBVIOUS
  <2>1. ASSUME NEW r \in Register, BeginRegister(r) \/ CountEmail(r) \/ CreateUser(r) \/ Commit(r)
        PROVE  Reasons'
    BY <2>1, ReasonsRegister
  <2>2. ASSUME NEW r \in Register, Devices(r)
        PROVE  Reasons'
    BY <2>2, ReasonsCreate, ReasonsAddress DEF Devices
  <2>3. ASSUME NEW r \in Add, BeginAdd(r) \/ CreateAdd(r) \/ AddressAdd(r)
        PROVE  Reasons'
    BY <2>3, ReasonsAsk, ReasonsCreate, ReasonsAddress DEF Page
  <2>4. ASSUME NEW r \in Update \cup Delete, BeginEdit(r)
        PROVE  Reasons'
    BY <2>4, ReasonsAsk DEF Page
  <2>5. ASSUME NEW r \in Add \cup Update, CountName(r)
        PROVE  Reasons'
    BY <2>5, ReasonsAsk DEF Page
  <2>6. ASSUME NEW r \in Update, WriteUpdate(r)
        PROVE  Reasons'
    BY <2>6, ReasonsWrite
  <2>7. ASSUME NEW r \in Delete, DestroyClient(r)
        PROVE  Reasons'
    BY <2>7, ReasonsWrite
  <2>8. QED
    BY <2>1, <2>2, <2>3, <2>4, <2>5, <2>6, <2>7, ReasonsEnds DEF Next
<1>3. QED
  BY <1>1, <1>2, BasicsHold, OwnHold, PTL DEF Spec

-----------------------------------------------------------------------------
(* Nobody gives an address later                                             *)

\* A request in these phases owes its client an address, now or for ever.
Owing == {"first", "third", "created", "failed", "unanswered", "lost"}

\* Who owes an address goes on owing it until it is given.
LEMMA OwingStays ==
  ASSUME Basics, [Next]_vars, NEW r \in Register \cup Add, phase[r] \in Owing
  PROVE  (cur'[r] = cur[r] /\ phase'[r] \in Owing) \/ (cur[r] \in Id /\ Addressed(cur[r]))
<1> DEFINE Stays == (cur'[r] = cur[r] /\ phase'[r] \in Owing) \/ (cur[r] \in Id /\ Addressed(cur[r]))
<1>0. /\ AccountsTypeOK /\ CurIsKnown /\ PhasesOfKind /\ r \in Request
      /\ phase \in [Request -> Phase] /\ cur \in [Request -> Id \cup {None}]
  BY DEF Basics, AccountsTypeOK, Request, Page
<1>1. ASSUME NEW q \in Request, q # r, NEW p, Go(q, p),
             cur' = cur \/ \E id \in Id : cur' = [cur EXCEPT ![q] = id]
      PROVE  Stays
  BY <1>0, <1>1 DEF Go
<1>2. ASSUME NEW q \in Request, phase[q] \notin Owing, NEW p, Go(q, p),
             cur' = cur \/ \E id \in Id : cur' = [cur EXCEPT ![q] = id]
      PROVE  Stays
  BY <1>1, <1>2
<1>3. ASSUME NEW q \in Register, BeginRegister(q) \/ CountEmail(q) \/ CreateUser(q) \/ Commit(q)
      PROVE  Stays
  <2>1. (\E p : Go(q, p)) /\ phase[q] \notin Owing /\ cur' = cur /\ q \in Request
    BY <1>3 DEF BeginRegister, CountEmail, CreateUser, Commit, Owing, Request
  <2>2. QED
    BY <1>2, <2>1
<1>4. ASSUME NEW q \in Register \cup Add,
             \/ q \in Register /\ CreateDevice(q, "user", "first", Device1)
             \/ q \in Register /\ CreateDevice(q, "second", "third", Device2)
             \/ q \in Add /\ CreateAdd(q)
             \/ q \in Add /\ BeginAdd(q)
      PROVE  Stays
  <2>1. (\E p : Go(q, p)) /\ phase[q] \notin Owing /\ q \in Request
    BY <1>4 DEF CreateDevice, CreateAdd, BeginAdd, Owing, Request, Page
  <2>2. cur' = cur \/ \E id \in Id : cur' = [cur EXCEPT ![q] = id]
    BY <1>4 DEF CreateDevice, CreateAdd, BeginAdd, Insert
  <2>3. QED
    BY <1>2, <2>1, <2>2
<1>5. ASSUME NEW q \in Register \cup Add,
             \/ q \in Register /\ AddressDevice(q, "first", "second")
             \/ q \in Register /\ AddressDevice(q, "third", "written")
             \/ q \in Add /\ AddressAdd(q)
      PROVE  Stays
  <2>1. /\ (q \in Register /\ phase[q] \in {"first", "third"}) \/ (q \in Add /\ phase[q] = "created")
        /\ cur' = cur /\ q \in Request /\ \E p : Go(q, p)
    BY <1>5 DEF AddressDevice, AddressAdd, Request, Page
  <2>2. Addressed(cur[q]) \/ Go(q, "failed") \/ Go(q, "unanswered")
    BY <1>5 DEF AddressDevice, AddressAdd
  <2>3. cur[q] \in Id
    BY <1>0, <2>1 DEF CurIsKnown
  <2>4. CASE q # r
    BY <1>1, <2>1, <2>4
  <2>5. CASE q = r /\ ~Addressed(cur[r])
    BY <1>0, <2>1, <2>2, <2>5 DEF Go, Owing
  <2>6. QED
    BY <2>3, <2>4, <2>5
<1>6. ASSUME NEW q \in Page, q # r,
             \/ BeginEdit(q)
             \/ CountName(q)
             \/ q \in Update /\ WriteUpdate(q)
             \/ q \in Delete /\ DestroyClient(q)
      PROVE  Stays
  <2>1. (\E p : Go(q, p)) /\ q \in Request
    BY <1>6 DEF BeginEdit, CountName, WriteUpdate, DestroyClient, Request
  <2>2. cur' = cur \/ \E id \in Id : cur' = [cur EXCEPT ![q] = id]
    BY <1>6 DEF BeginEdit, CountName, WriteUpdate, DestroyClient, ClientsOf
  <2>3. QED
    BY <1>1, <1>6, <2>1, <2>2
<1>7. ASSUME CountName(r), r \in Add
      PROVE  FALSE
  BY <1>0, <1>7 DEF CountName, Owing
<1>8. ASSUME NEW q \in Request, Fails(q)
      PROVE  Stays
  <2>1. PICK p \in {"failed", "unanswered"} : Go(q, p)
    BY <1>8 DEF Fails
  <2>2. cur' = cur
    BY <1>8 DEF Fails
  <2>3. CASE q # r
    BY <1>1, <2>1, <2>2, <2>3
  <2>4. CASE q = r
    BY <1>0, <2>1, <2>2, <2>4 DEF Go, Owing
  <2>5. QED
    BY <2>3, <2>4
<1>9. ASSUME Crash \/ UNCHANGED vars
      PROVE  Stays
  BY <1>0, <1>9 DEF Crash, vars, Owing
<1>10. r \notin Update \cup Delete
  BY AccountsAssumption DEF Page
<1>11. QED
  BY <1>3, <1>4, <1>5, <1>6, <1>7, <1>8, <1>9, <1>10 DEF Next, Devices, Page

\* AddressedUnlessInterrupted: a client whose handler has come to its good end
\* has its address.
THEOREM ClientsAreAddressed == Spec => []AddressedUnlessInterrupted
<1>1. Init => AddressedUnlessInterrupted
  BY DEF Init, AddressedUnlessInterrupted
<1>2. Basics /\ AddressedUnlessInterrupted /\ [Next]_vars => AddressedUnlessInterrupted'
  <2> SUFFICES ASSUME Basics, AddressedUnlessInterrupted, [Next]_vars, NEW id \in Id,
                      clients'[id] # None, clients'[id].ip = None
               PROVE  \E r \in Register \cup Add : cur'[r] = id /\ phase'[r] \in Owing
    BY DEF AddressedUnlessInterrupted, Owing
  <2>1. CASE Fresh(id)
    BY <2>1 DEF Fresh, Owing
  <2>2. CASE Kept(id)
    <3>1. PICK r \in Register \cup Add : cur[r] = id /\ phase[r] \in Owing
      BY <2>2 DEF Kept, AddressedUnlessInterrupted, Owing
    <3>2. Addressed(id) => clients'[id].ip # None
      BY AddressedKeeps
    <3>3. QED
      BY <3>1, <3>2, OwingStays
  <2>3. QED
    BY <2>1, <2>2, RowsKeep
<1>3. QED
  BY <1>1, <1>2, BasicsHold, PTL DEF Spec

-----------------------------------------------------------------------------
(* The quota                                                                 *)

\* The clients of an account can be counted, and the next id is not among them.
LEMMA ClientsAreFinite ==
  ASSUME Basics, NEW u
  PROVE  /\ IsFiniteSet(ClientsOf(u)) /\ Cardinality(ClientsOf(u)) \in Nat
         /\ next \notin ClientsOf(u)
<1>1. ClientsOf(u) \in SUBSET Nat /\ next \in Nat /\ \A id \in ClientsOf(u) : id < next
  BY AccountsAssumption DEF Basics, AccountsTypeOK, IdsAreOld, ClientsOf
<1>2. \A id \in ClientsOf(u) : id <= next
  BY <1>1
<1>3. IsFiniteSet(ClientsOf(u))
  BY <1>1, <1>2, FS_BoundedSetOfNaturals
<1>4. QED
  BY <1>1, <1>3, FS_CardinalityType

\* Where no client is made and no handler sets out to make one, there is room.
LEMMA RoomFrame ==
  ASSUME Basics, NEW u \in Register, Room(u), ClientsOf(u)' \subseteq ClientsOf(u),
         \A q \in Request : Making(q, u)' => Making(q, u),
         phase'[u] = "user" => phase[u] = "user",
         phase'[u] \in {"first", "second"} => phase[u] \in {"first", "second"}
  PROVE  Room(u)'
<1> DEFINE new == ClientsOf(u)'
<1>1. IsFiniteSet(new) /\ Cardinality(new) <= Cardinality(ClientsOf(u)) /\ Cardinality(new) \in Nat
      /\ Cardinality(ClientsOf(u)) \in Nat
  BY ClientsAreFinite, FS_Subset, FS_CardinalityType
<1>2. Limit \in Nat
  BY AccountsAssumption
<1> HIDE DEF new
<1>3. /\ \A q, r \in Request : Making(q, u)' /\ Making(r, u)' => q = r
      /\ \A q \in Add : Making(q, u)' => Cardinality(new) < Limit
      /\ phase'[u] = "user" => Cardinality(new) = 0
      /\ phase'[u] \in {"first", "second"} => Cardinality(new) <= 1
      /\ Cardinality(new) <= Limit
  BY <1>1, <1>2 DEF Room, Request, Page
<1>4. QED
  BY <1>3 DEF Room, new

\* A step of r that inserts nothing, and lets nobody in.
LEMMA RoomQuiet ==
  ASSUME Basics, NEW u \in Register, Room(u), NEW r \in Request, NEW p, Go(r, p),
         \A id \in Id : clients'[id] # None => clients[id] # None /\ clients'[id].user = clients[id].user,
         p \in Ended \cup {"counted", "free", "second", "third", "written", "owned"},
         p = "counted" => r \in Register \/ UserOf[r] # u,
         p = "free" => r \notin Add \/ phase[r] = "counted",
         p = "second" => phase[r] = "first" /\ r \in Register
  PROVE  Room(u)'
<1>0. AccountsTypeOK /\ phase \in [Request -> Phase] /\ u \in Request
  BY DEF Basics, AccountsTypeOK, Request
<1>1. \A q \in Request : phase'[q] = IF q = r THEN p ELSE phase[q]
  BY <1>0 DEF Go
<1>2. ClientsOf(u)' \subseteq ClientsOf(u)
  BY DEF ClientsOf
<1>3. p \notin {"user", "first"}
  BY DEF Ended
<1>4. \A q \in Request : Making(q, u)' => Making(q, u)
  BY <1>1, <1>3, AccountsAssumption DEF Making, Account, Ended, Request, Page
<1>5. phase'[u] = "user" => phase[u] = "user"
  BY <1>0, <1>1, <1>3
<1>6. phase'[u] \in {"first", "second"} => phase[u] \in {"first", "second"}
  BY <1>0, <1>1, <1>3
<1>7. QED
  BY <1>2, <1>4, <1>5, <1>6, RoomFrame

\* A client is made: by the only one who makes them in this account.
LEMMA RoomInsert ==
  ASSUME Basics, NEW u \in Register, Room(u), NEW r \in Register \cup Add, NEW n \in Name,
         Insert(r, n), NEW p, Go(r, p), Making(r, Account(r)),
         \/ r \in Register /\ phase[r] = "user" /\ p = "first"
         \/ r \in Register /\ phase[r] = "second" /\ p = "third"
         \/ r \in Add /\ p = "created"
  PROVE  Room(u)'
<1>0. /\ AccountsTypeOK /\ phase \in [Request -> Phase] /\ r \in Request /\ u \in Request
      /\ clients \in [Id -> Row \cup {None}] /\ next \in Id
      /\ r \in Register => r \notin Add /\ Account(r) = r
      /\ r \in Add => r \notin Register
  BY Constants, AccountsAssumption DEF Basics, AccountsTypeOK, Request, Page, Insert
<1>1. \A q \in Request : phase'[q] = IF q = r THEN p ELSE phase[q]
  BY <1>0 DEF Go
<1>2. \A q \in Request \ {r} : Making(q, u)' => Making(q, u)
  BY <1>1 DEF Making
<1>3. CASE Account(r) # u
  <2>1. \A id \in Id : id # next => clients'[id] = clients[id]
    BY <1>0 DEF Insert
  <2>2. clients'[next] # None => clients'[next].user = Account(r)
    BY <1>0 DEF Insert
  <2>3. ClientsOf(u)' \subseteq ClientsOf(u)
    BY <1>3, <2>1, <2>2 DEF ClientsOf
  <2>4. u # r /\ ~Making(r, u)'
    BY <1>0, <1>3 DEF Making
  <2>5. QED
    BY <1>0, <1>1, <1>2, <2>3, <2>4, RoomFrame
<1>4. CASE Account(r) = u
  <2> DEFINE new == ClientsOf(u)'
  <2>1. new = ClientsOf(u) \cup {next}
    <3>1. \A id \in Id : id # next => clients'[id] = clients[id]
      BY <1>0 DEF Insert
    <3>2. clients'[next] = [user |-> u, name |-> n, ip |-> None]
      BY <1>0, <1>4 DEF Insert
    <3>3. clients'[next] # None /\ clients'[next].user = u
      BY <3>2, Constants DEF Row
    <3>4. QED
      BY <1>0, <3>1, <3>3 DEF ClientsOf
  <2>2. Cardinality(new) = Cardinality(ClientsOf(u)) + 1 /\ Cardinality(ClientsOf(u)) \in Nat
    BY <2>1, ClientsAreFinite, FS_AddElement
  <2>3. \A q \in Add : ~Making(q, u)'
    BY <1>0, <1>1, <1>2, <1>4, AccountsAssumption DEF Room, Making, Request, Page
  <2>4. \A q \in Request : Making(q, u)' => q = r
    BY <1>0, <1>2, <1>4 DEF Room
  <2>5. Cardinality(ClientsOf(u)) < Limit
    <3>1. CASE r \in Add
      BY <1>0, <1>4, <3>1 DEF Room
    <3>2. CASE r \in Register
      BY <1>0, <1>4, <2>2, <3>2, AccountsAssumption DEF Room
    <3>3. QED
      BY <3>1, <3>2
  <2>6. /\ phase'[u] # "user"
        /\ phase'[u] \in {"first", "second"} => Cardinality(ClientsOf(u)) = 0
    <3>1. CASE r \in Register
      BY <1>0, <1>1, <1>4, <3>1 DEF Room
    <3>2. CASE r \in Add
      <4>1. u # r /\ phase'[u] = phase[u] /\ phase[u] \notin {"user", "first", "second"}
        <5>1. u # r /\ Making(r, u)
          BY <1>0, <1>4, <3>2
        <5>2. ~Making(u, u)
          BY <1>0, <5>1 DEF Room
        <5>3. QED
          BY <1>0, <1>1, <5>1, <5>2, Constants DEF Making
      <4>2. QED
        BY <4>1
    <3>3. QED
      BY <3>1, <3>2
  <2> HIDE DEF new
  <2>7. Limit \in Nat
    BY AccountsAssumption
  <2>8. /\ \A q, z \in Request : Making(q, u)' /\ Making(z, u)' => q = z
        /\ \A q \in Add : Making(q, u)' => Cardinality(new) < Limit
        /\ phase'[u] = "user" => Cardinality(new) = 0
        /\ phase'[u] \in {"first", "second"} => Cardinality(new) <= 1
        /\ Cardinality(new) <= Limit
    BY <2>2, <2>3, <2>4, <2>5, <2>6, <2>7
  <2>9. QED
    BY <2>8 DEF Room, new
<1>5. QED
  BY <1>3, <1>4

\* A page is let in.
LEMMA RoomAdd ==
  ASSUME Basics, NEW u \in Register, u \notin crowded', Room(u), NEW r \in Add, BeginAdd(r)
  PROVE  Room(u)'
<1>0. /\ AccountsTypeOK /\ phase \in [Request -> Phase] /\ r \in Request /\ u \in Request
      /\ r \notin Register /\ UserOf[r] \in Register /\ Account(r) = UserOf[r] /\ Limit \in Nat
  BY Constants, AccountsAssumption DEF Basics, AccountsTypeOK, Request, Page
<1>1. /\ UNCHANGED clients /\ phase[r] = "new"
      /\ Go(r, "refused") \/ Go(r, "counted")
  BY DEF BeginAdd
<1>2. CASE Go(r, "refused") \/ UserOf[r] # u
  <2>1. PICK p \in {"refused", "counted"} : Go(r, p)
    BY <1>1
  <2>2. p \in Ended \cup {"counted"} /\ (p = "counted" => UserOf[r] # u)
    BY <1>0, <1>2, <2>1 DEF Ended, Go
  <2>3. \A id \in Id : clients'[id] # None => clients[id] # None /\ clients'[id].user = clients[id].user
    BY <1>1
  <2>4. QED
    BY <1>0, <2>1, <2>2, <2>3, RoomQuiet
<1>3. CASE Go(r, "counted") /\ ~Go(r, "refused") /\ UserOf[r] = u
  <2>1. ~(Cardinality(ClientsOf(u)) >= Limit) /\ ~ \E q \in Request : Making(q, u)
    BY <1>0, <1>3 DEF BeginAdd
  <2>2. \A q \in Request : phase'[q] = IF q = r THEN "counted" ELSE phase[q]
    BY <1>0, <1>3 DEF Go
  <2>3. ClientsOf(u)' = ClientsOf(u) /\ Cardinality(ClientsOf(u)) \in Nat
    BY <1>1, ClientsAreFinite DEF ClientsOf
  <2>4. \A q \in Request : Making(q, u)' => q = r
    BY <2>1, <2>2 DEF Making
  <2>5. phase'[u] = phase[u]
    BY <1>0, <2>2
  <2>6. QED
    BY <1>0, <2>1, <2>3, <2>4, <2>5 DEF Room, Request, Page
<1>4. QED
  BY <1>1, <1>2, <1>3

\* An account is made: it has no clients yet, and no pages.
LEMMA RoomUser ==
  ASSUME Basics, NEW u \in Register, Room(u), NEW r \in Register, CreateUser(r)
  PROVE  Room(u)'
<1>0. /\ AccountsTypeOK /\ OwnersExist /\ phase \in [Request -> Phase] /\ r \in Request
      /\ u \in Request /\ Limit \in Nat
  BY AccountsAssumption DEF Basics, AccountsTypeOK, Request
<1>1. UNCHANGED clients /\ phase[r] = "free" /\ (Go(r, "failed") \/ Go(r, "user"))
  BY DEF CreateUser
<1>2. \A q \in Request : q # r => phase'[q] = phase[q]
  BY <1>0, <1>1 DEF Go
<1>3. phase'[r] \in {"failed", "user"}
  BY <1>0, <1>1 DEF Go
<1>4. ClientsOf(u)' = ClientsOf(u)
  BY <1>1 DEF ClientsOf
<1>5. CASE u # r
  <2>1. ~Making(r, u)'
    BY <1>5, Constants DEF Making
  <2>2. \A q \in Request : Making(q, u)' => Making(q, u)
    BY <1>2, <2>1 DEF Making
  <2>3. QED
    BY <1>0, <1>2, <1>4, <1>5, <2>2, RoomFrame
<1>6. CASE u = r
  <2>1. u \notin users
    BY <1>0, <1>1, <1>6 DEF OwnersExist
  <2>2. ClientsOf(u) = {}
    BY <1>0, <2>1 DEF OwnersExist, ClientsOf
  <2>3. \A q \in Add : ~Making(q, u)'
    <3>1. SUFFICES ASSUME NEW q \in Add, phase'[q] \in {"counted", "free"}, Account(q) = u
                   PROVE  FALSE
      BY AccountsAssumption DEF Making, Page
    <3>2. q \in Request /\ q # r /\ q \in Page /\ UserOf[q] = u
      BY <3>1, Constants, AccountsAssumption DEF Request, Page
    <3>3. QED
      BY <1>0, <1>2, <2>1, <3>1, <3>2 DEF OwnersExist
  <2>4. \A q \in Request : Making(q, u)' => q = r
    BY <1>6, <2>3, Constants DEF Making
  <2>5. Cardinality(ClientsOf(u)) = 0
    BY <2>2, FS_EmptySet
  <2>6. phase'[u] \notin {"first", "second"}
    BY <1>3, <1>6
  <2>7. QED
    BY <1>0, <1>4, <2>3, <2>4, <2>5, <2>6 DEF Room
<1>7. QED
  BY <1>5, <1>6

\* There is room in every account that is not crowded.
LEMMA RoomHolds == Spec => []RoomIsLeft
<1>1. Init => RoomIsLeft
  <2> SUFFICES ASSUME Init, NEW u \in Register
               PROVE  Room(u)
    BY DEF RoomIsLeft
  <2>1. phase[u] = "new" /\ \A q \in Request : ~Making(q, u)
    BY DEF Init, Making, Request
  <2>2. ClientsOf(u) = {}
    BY DEF Init, ClientsOf
  <2>3. QED
    BY <2>1, <2>2, FS_EmptySet, AccountsAssumption DEF Room, Request, Page
<1>2. Basics /\ RoomIsLeft /\ [Next]_vars => RoomIsLeft'
  <2> SUFFICES ASSUME Basics, RoomIsLeft, [Next]_vars, NEW u \in Register, u \notin crowded'
               PROVE  Room(u)'
    BY DEF RoomIsLeft
  <2>0. /\ u \in Request /\ AccountsTypeOK /\ phase \in [Request -> Phase] /\ CurIsKnown
        /\ AccountsTypeOK'
    BY BasicsKeep DEF Basics, AccountsTypeOK, Request
  <2>1. Room(u)
    <3>1. crowded \subseteq crowded'
      BY DEF Next, BeginRegister, CountEmail, CreateUser, Commit, Devices, CreateDevice, Insert,
         AddressDevice, BeginAdd, CreateAdd, AddressAdd, BeginEdit, CountName, WriteUpdate,
         DestroyClient, Fails, Crash, vars
    <3>2. QED
      BY <3>1 DEF RoomIsLeft
  <2>2. ASSUME NEW r \in Request, NEW p \in Ended \cup {"counted", "free", "owned", "second", "third",
                                                        "written"},
               Go(r, p), \A id \in Id : clients'[id] # None =>
                             clients[id] # None /\ clients'[id].user = clients[id].user,
               p = "counted" => r \in Register,
               p = "free" => r \notin Add \/ phase[r] = "counted",
               p = "second" => phase[r] = "first" /\ r \in Register
        PROVE  Room(u)'
    BY <2>1, <2>2, RoomQuiet
  <2>3. ASSUME NEW r \in Register, BeginRegister(r) \/ CountEmail(r) \/ Commit(r)
        PROVE  Room(u)'
    <3>1. PICK p \in {"counted", "refused", "free", "done"} : Go(r, p)
      BY <2>3 DEF BeginRegister, CountEmail, Commit
    <3>2. UNCHANGED clients /\ r \in Request /\ r \notin Add
      BY <2>3, AccountsAssumption DEF BeginRegister, CountEmail, Commit, Request, Page
    <3>3. p \in Ended \cup {"counted", "free"}
      BY DEF Ended
    <3>4. QED
      BY <2>2, <3>1, <3>2, <3>3
  <2>4. ASSUME NEW r \in Register \cup Add, NEW n \in Name, NEW p \in {"first", "third", "created"},
               NEW end \in {"failed", "unanswered"},
               \/ r \in Register /\ phase[r] = "user" /\ p = "first"
               \/ r \in Register /\ phase[r] = "second" /\ p = "third"
               \/ r \in Add /\ phase[r] = "free" /\ p = "created",
               (Insert(r, n) /\ Go(r, p)) \/ (Go(r, end) /\ UNCHANGED clients)
        PROVE  Room(u)'
    <3>1. CASE Insert(r, n) /\ Go(r, p)
      <4>1. Making(r, Account(r))
        BY <2>4 DEF Making
      <4>2. QED
        BY <2>1, <2>4, <3>1, <4>1, RoomInsert
    <3>2. CASE Go(r, end) /\ UNCHANGED clients
      <4>1. r \in Request /\ end \in Ended
        BY DEF Request, Page, Ended
      <4>2. QED
        BY <2>2, <3>2, <4>1
    <3>3. QED
      BY <2>4, <3>1, <3>2
  <2>5. ASSUME NEW r \in Register \cup Add,
               \/ r \in Register /\ AddressDevice(r, "first", "second")
               \/ r \in Register /\ AddressDevice(r, "third", "written")
               \/ r \in Add /\ AddressAdd(r)
        PROVE  Room(u)'
    <3>1. PICK p \in {"second", "written", "done", "failed", "unanswered"} :
             Go(r, p) /\ (p = "second" => r \in Register /\ phase[r] = "first")
      BY <2>5 DEF AddressDevice, AddressAdd
    <3>2. Addressed(cur[r]) \/ UNCHANGED clients
      BY <2>5 DEF AddressDevice, AddressAdd
    <3>3. (r \in Register /\ phase[r] \in {"first", "third"}) \/ (r \in Add /\ phase[r] = "created")
      BY <2>5 DEF AddressDevice, AddressAdd
    <3>4. cur[r] \in Id /\ r \in Request
      BY <2>0, <3>3 DEF CurIsKnown, AccountsTypeOK, Request, Page
    <3>5. \A id \in Id : clients'[id] # None =>
             clients[id] # None /\ clients'[id].user = clients[id].user
      BY <3>2, <3>4, AddressedKeeps
    <3>6. p \in Ended \cup {"second", "written"}
      BY DEF Ended
    <3>7. QED
      BY <2>2, <3>1, <3>4, <3>5, <3>6
  <2>6. ASSUME NEW r \in Register, Devices(r)
        PROVE  Room(u)'
    <3>1. CASE CreateDevice(r, "user", "first", Device1)
      BY <2>4, <3>1, AccountsAssumption DEF CreateDevice
    <3>2. CASE CreateDevice(r, "second", "third", Device2)
      BY <2>4, <3>2, AccountsAssumption DEF CreateDevice
    <3>3. QED
      BY <2>5, <2>6, <3>1, <3>2 DEF Devices
  <2>7. ASSUME NEW r \in Add, CreateAdd(r)
        PROVE  Room(u)'
    <3>1. NameOf[r] \in Name
      BY AccountsAssumption
    <3>2. phase[r] = "free" /\ ((Insert(r, NameOf[r]) /\ Go(r, "created"))
                                  \/ (Go(r, "unanswered") /\ UNCHANGED clients))
      BY <2>7 DEF CreateAdd
    <3>3. QED
      BY <2>4, <3>1, <3>2
  <2>8. ASSUME NEW r \in Add \cup Update, CountName(r)
        PROVE  Room(u)'
    <3>1. PICK p \in {"refused", "free"} : Go(r, p)
      BY <2>8 DEF CountName
    <3>2. UNCHANGED clients /\ r \in Request /\ p \in Ended \cup {"free"}
          /\ (r \in Add => phase[r] = "counted")
      BY <2>8 DEF CountName, Request, Page, Ended
    <3>3. QED
      BY <2>2, <3>1, <3>2
  <2>9. ASSUME NEW r \in Update \cup Delete,
               BeginEdit(r) \/ (r \in Update /\ WriteUpdate(r)) \/ (r \in Delete /\ DestroyClient(r))
        PROVE  Room(u)'
    <3>1. PICK p \in {"owned", "done", "unanswered"} : Go(r, p)
      BY <2>9 DEF BeginEdit, WriteUpdate, DestroyClient
    <3>2. r \in Request /\ p \in Ended \cup {"owned"} /\ next' = next
      BY <2>9 DEF BeginEdit, WriteUpdate, DestroyClient, Request, Page, Ended
    <3>3. \A id \in Id : clients'[id] # None =>
             clients[id] # None /\ clients'[id].user = clients[id].user
      <4>1. \A id \in Id : clients'[id] # None => id < next' /\ next' \in Nat /\ id \in Nat
        BY <2>0, BasicsKeep, AccountsAssumption DEF Basics, IdsAreOld, AccountsTypeOK
      <4>2. \A id \in Id : clients'[id] # None => id # next
        BY <3>2, <4>1
      <4>3. QED
        BY <4>2, RowsKeep DEF Fresh, Kept
    <3>4. QED
      BY <2>2, <3>1, <3>2, <3>3
  <2>10. ASSUME NEW r \in Request, Fails(r)
         PROVE  Room(u)'
    <3>1. PICK p \in {"failed", "unanswered"} : Go(r, p)
      BY <2>10 DEF Fails
    <3>2. UNCHANGED clients /\ p \in Ended
      BY <2>10 DEF Fails, Ended
    <3>3. QED
      BY <2>2, <3>1, <3>2
  <2>11. CASE Crash \/ UNCHANGED vars
    <3>1. /\ UNCHANGED clients
          /\ \A r \in Request : phase'[r] = phase[r] \/ phase'[r] = "lost"
      BY <2>0, <2>11 DEF Crash, vars
    <3>2. \A q \in Request : Making(q, u)' => Making(q, u)
      BY <3>1 DEF Making
    <3>3. ClientsOf(u)' \subseteq ClientsOf(u)
      BY <3>1 DEF ClientsOf
    <3>4. QED
      BY <2>0, <2>1, <3>1, <3>2, <3>3, RoomFrame
  <2>12. QED
    BY <2>1, <2>3, <2>6, <2>7, <2>5, <2>8, <2>9, <2>10, <2>11, RoomAdd, RoomUser DEF Next
<1>3. QED
  BY <1>1, <1>2, BasicsHold, PTL DEF Spec

\* WithinQuota: an account that nobody has been let into while a client of it
\* was being made has no more clients than its limit.
THEOREM QuotaIsKept == Spec => []WithinQuota
<1>1. Basics /\ RoomIsLeft => WithinQuota
  <2> SUFFICES ASSUME Basics, RoomIsLeft, NEW u \in Register, Cardinality(ClientsOf(u)) > Limit
               PROVE  u \in crowded
    BY DEF WithinQuota
  <2>1. Cardinality(ClientsOf(u)) \in Nat /\ Limit \in Nat
    BY ClientsAreFinite, AccountsAssumption
  <2>2. QED
    BY <2>1 DEF RoomIsLeft, Room
<1>2. QED
  BY <1>1, BasicsHold, RoomHolds, PTL

-----------------------------------------------------------------------------
(* The two devices                                                           *)

\* What has begun is not new again.
LEMMA BegunStays ==
  ASSUME Basics, [Next]_vars, NEW q \in Request
  PROVE  phase'[q] # "new" \/ phase[q] = "new"
<1>0. AccountsTypeOK /\ phase \in [Request -> Phase]
  BY DEF Basics, AccountsTypeOK
<1>1. ASSUME NEW r \in Request, NEW p, Go(r, p), p # "new"
      PROVE  phase'[q] # "new" \/ phase[q] = "new"
  BY <1>0, <1>1 DEF Go
<1>2. ASSUME NEW r \in Register,
             BeginRegister(r) \/ CountEmail(r) \/ CreateUser(r) \/ Devices(r) \/ Commit(r)
      PROVE  \E p : p # "new" /\ Go(r, p)
  BY <1>2 DEF BeginRegister, CountEmail, CreateUser, Devices, Commit, CreateDevice, AddressDevice
<1>3. ASSUME NEW r \in Page,
             \/ BeginAdd(r) \/ CreateAdd(r) \/ AddressAdd(r)
             \/ BeginEdit(r) \/ CountName(r) \/ WriteUpdate(r) \/ DestroyClient(r)
      PROVE  \E p : p # "new" /\ Go(r, p)
  BY <1>3 DEF BeginAdd, CreateAdd, AddressAdd, BeginEdit, CountName, WriteUpdate, DestroyClient
<1>4. ASSUME NEW r \in Request, Fails(r)
      PROVE  \E p : p # "new" /\ Go(r, p)
  BY <1>4 DEF Fails
<1>5. CASE Crash \/ UNCHANGED vars
  BY <1>0, <1>5 DEF Crash, vars, Busy
<1>6. QED
  BY <1>1, <1>2, <1>3, <1>4, <1>5 DEF Next, Request, Page

\* Nobody but the pages of an account renames or takes away its clients.
LEMMA UneditedKeep ==
  ASSUME Basics, OwnIsEdited, [Next]_vars, NEW u \in Register, Unedited(u)
  PROVE  \A n : Has(u, n) => Has(u, n)'
<1> DEFINE Same == \A id \in ClientsOf(u) : /\ clients'[id] # None
                                            /\ clients'[id].user = clients[id].user
                                            /\ clients'[id].name = clients[id].name
<1>0. /\ AccountsTypeOK /\ CurIsKnown /\ IdsAreOld
      /\ clients \in [Id -> Row \cup {None}]
      /\ next \notin ClientsOf(u)
  BY ClientsAreFinite DEF Basics, AccountsTypeOK
<1>1. ASSUME UNCHANGED clients
      PROVE  Same
  BY <1>1 DEF ClientsOf
<1>2. ASSUME NEW r \in Register \cup Add, NEW n, Insert(r, n)
      PROVE  Same
  BY <1>0, <1>2 DEF Insert, ClientsOf
<1>3. ASSUME NEW r \in Register \cup Add,
             \/ r \in Register /\ AddressDevice(r, "first", "second")
             \/ r \in Register /\ AddressDevice(r, "third", "written")
             \/ r \in Add /\ AddressAdd(r)
      PROVE  Same
  <2>1. Addressed(cur[r]) \/ UNCHANGED clients
    BY <1>3 DEF AddressDevice, AddressAdd
  <2>2. (r \in Register /\ phase[r] \in {"first", "third"}) \/ (r \in Add /\ phase[r] = "created")
    BY <1>3 DEF AddressDevice, AddressAdd
  <2>3. cur[r] \in Id
    BY <1>0, <2>2 DEF CurIsKnown, AccountsTypeOK, Request, Page
  <2>4. QED
    BY <2>1, <2>3, AddressedKeeps DEF ClientsOf
<1>4. ASSUME NEW r \in Update \cup Delete,
             \/ r \in Update /\ WriteUpdate(r)
             \/ r \in Delete /\ DestroyClient(r)
      PROVE  Same
  <2>1. phase[r] \in {"owned", "free"}
    BY <1>4 DEF WriteUpdate, DestroyClient
  <2>2. UserOf[r] # u
    BY <2>1 DEF Unedited
  <2>3. cur[r] \notin ClientsOf(u)
    BY <2>1, <2>2 DEF OwnIsEdited, ClientsOf
  <2>4. \A id \in Id : id # cur[r] => clients'[id] = clients[id]
    BY <1>0, <1>4 DEF WriteUpdate, DestroyClient
  <2>5. QED
    BY <2>3, <2>4 DEF ClientsOf
<1>5. ASSUME NEW r \in Register, Devices(r)
      PROVE  Same
  BY <1>1, <1>2, <1>3, <1>5 DEF Devices, CreateDevice
<1>6. ASSUME NEW r \in Add, CreateAdd(r)
      PROVE  Same
  BY <1>1, <1>2, <1>6 DEF CreateAdd
<1>7. ASSUME \/ \E r \in Register : BeginRegister(r) \/ CountEmail(r) \/ CreateUser(r) \/ Commit(r)
             \/ \E r \in Add : BeginAdd(r)
             \/ \E r \in Update \cup Delete : BeginEdit(r)
             \/ \E r \in Add \cup Update : CountName(r)
             \/ \E r \in Request : Fails(r)
             \/ Crash
             \/ UNCHANGED vars
      PROVE  UNCHANGED clients
  BY <1>7 DEF BeginRegister, CountEmail, CreateUser, Commit, BeginAdd, BeginEdit, CountName, Fails,
     Crash, vars
<1>8. Same
  BY <1>1, <1>3, <1>4, <1>5, <1>6, <1>7 DEF Next
<1>9. QED
  BY <1>8 DEF Has, ClientsOf

\* How a registration gets on: the phases with devices are reached in turn.
LEMMA DevicesInTurn ==
  ASSUME Basics, [Next]_vars, NEW u \in Register,
         phase'[u] \in {"first", "second", "third", "written", "done"}
  PROVE  \/ phase'[u] = phase[u]
         \/ phase'[u] = "first" /\ Insert(u, Device1)
         \/ phase'[u] = "second" /\ phase[u] = "first"
         \/ phase'[u] = "third" /\ phase[u] = "second" /\ Insert(u, Device2)
         \/ phase'[u] = "written" /\ phase[u] = "third"
         \/ phase'[u] = "done" /\ phase[u] = "written"
<1> DEFINE Turn == \/ phase'[u] = phase[u]
                   \/ phase'[u] = "first" /\ Insert(u, Device1)
                   \/ phase'[u] = "second" /\ phase[u] = "first"
                   \/ phase'[u] = "third" /\ phase[u] = "second" /\ Insert(u, Device2)
                   \/ phase'[u] = "written" /\ phase[u] = "third"
                   \/ phase'[u] = "done" /\ phase[u] = "written"
<1>0. AccountsTypeOK /\ phase \in [Request -> Phase] /\ u \in Request /\ u \notin Page
  BY AccountsAssumption DEF Basics, AccountsTypeOK, Request
<1>1. ASSUME NEW r \in Request, r # u, NEW p, Go(r, p)
      PROVE  Turn
  BY <1>0, <1>1 DEF Go
<1>2. ASSUME NEW r \in Register, BeginRegister(r) \/ CountEmail(r) \/ CreateUser(r) \/ Commit(r)
      PROVE  Turn
  <2>1. PICK p \in {"counted", "refused", "free", "failed", "user", "done"} :
           Go(r, p) /\ (p = "done" => phase[r] = "written")
    BY <1>2 DEF BeginRegister, CountEmail, CreateUser, Commit
  <2>2. r = u => phase'[u] = p
    BY <1>0, <2>1 DEF Go
  <2>3. QED
    BY <1>1, <2>1, <2>2 DEF Request
<1>3. ASSUME NEW r \in Register, Devices(r)
      PROVE  Turn
  <2>1. CASE r # u
    <3>1. \E p : Go(r, p)
      BY <1>3 DEF Devices, CreateDevice, AddressDevice
    <3>2. QED
      BY <1>1, <2>1, <3>1 DEF Request
  <2>2. CASE r = u
    <3>1. \A p : Go(u, p) => phase'[u] = p
      BY <1>0 DEF Go
    <3>2. phase'[u] # "failed"
      OBVIOUS
    <3>3. QED
      BY <1>3, <2>2, <3>1, <3>2 DEF Devices, CreateDevice, AddressDevice
  <2>3. QED
    BY <2>1, <2>2
<1>4. ASSUME NEW r \in Page,
             \/ BeginAdd(r) \/ CreateAdd(r) \/ AddressAdd(r)
             \/ BeginEdit(r) \/ CountName(r) \/ WriteUpdate(r) \/ DestroyClient(r)
      PROVE  Turn
  <2>1. \E p : Go(r, p)
    BY <1>4 DEF BeginAdd, CreateAdd, AddressAdd, BeginEdit, CountName, WriteUpdate, DestroyClient
  <2>2. QED
    BY <1>0, <1>1, <2>1 DEF Request
<1>5. ASSUME NEW r \in Request, Fails(r)
      PROVE  Turn
  <2>1. PICK p \in {"failed", "unanswered"} : Go(r, p)
    BY <1>5 DEF Fails
  <2>2. r # u
    BY <1>0, <2>1 DEF Go
  <2>3. QED
    BY <1>1, <2>1, <2>2
<1>6. CASE Crash \/ UNCHANGED vars
  BY <1>0, <1>6 DEF Crash, vars
<1>7. QED
  BY <1>2, <1>3, <1>4, <1>5, <1>6 DEF Next, Page

\* DevicesComplete: what a registration reports as made is there.
THEOREM DevicesAreMade == Spec => []DevicesComplete
<1>1. Init => DevicesGather
  BY DEF Init, DevicesGather, Gathers, Request
<1>2. Basics /\ OwnIsEdited /\ DevicesGather /\ [Next]_vars => DevicesGather'
  <2> SUFFICES ASSUME Basics, OwnIsEdited, DevicesGather, [Next]_vars, NEW u \in Register,
                      Unedited(u)'
               PROVE  Gathers(u)'
    BY DEF DevicesGather
  <2>1. Unedited(u)
    BY BegunStays DEF Unedited, Request, Page
  <2>2. Gathers(u) /\ \A n : Has(u, n) => Has(u, n)'
    BY <2>1, UneditedKeep DEF DevicesGather
  <2>3. ASSUME NEW n \in Name, Insert(u, n)
        PROVE  Has(u, n)'
    <3>1. next \in Id /\ clients'[next] = [user |-> u, name |-> n, ip |-> None]
      BY <2>3, Constants DEF Insert, Basics, AccountsTypeOK
    <3>2. clients'[next] # None /\ clients'[next].user = u /\ clients'[next].name = n
      BY <3>1, Constants DEF Row
    <3>3. QED
      BY <3>1, <3>2 DEF Has, ClientsOf
  <2>4. QED
    BY <2>2, <2>3, DevicesInTurn, AccountsAssumption DEF Gathers
<1>3. DevicesGather => DevicesComplete
  BY DEF DevicesGather, Gathers, Unedited, Has, DevicesComplete
<1>4. QED
  BY <1>1, <1>2, <1>3, BasicsHold, OwnHold, PTL DEF Spec

-----------------------------------------------------------------------------

\* AccountsTypeOK.
THEOREM Typing == Spec => []AccountsTypeOK
BY BasicsHold, PTL DEF Basics

\* FailureHasReason: a request fails, or is left without its answer, because
\* the database failed it, another one wrote in between, or the addresses have
\* run out.
THEOREM FailuresHaveReasons == Spec => []FailureHasReason
<1>1. Reasons => FailureHasReason
  BY DEF Reasons, HasReason, FailureHasReason
<1>2. QED
  BY <1>1, ReasonsHold, PTL

\* AddressesInNetwork: which clients have an address that is none.
THEOREM AddressesOfNetwork == Spec => []AddressesInNetwork
<1>1. ASSUME Basics, NEW id \in Id, clients[id] # None, clients[id].ip # None
      PROVE  InNetwork(clients[id].ip) <=> id <= 16777213 \/ id > MaxClientId
  <2>1. clients[id].ip = getVirtualIp(id) /\ id \in Nat
    BY <1>1, AccountsAssumption, SMT DEF Basics, AddressOfId
  <2>2. QED
    BY <2>1, NetworkEnds, SMT
<1>2. Basics => AddressesInNetwork
  BY <1>1, SMT DEF AddressesInNetwork
<1>3. QED
  BY <1>2, BasicsHold, PTL
=============================================================================
