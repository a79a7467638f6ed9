--------------------------- MODULE SessionProofs ---------------------------
(***************************************************************************)
(* Proofs about Session, for any number of sockets, clients and workers:   *)
(* the types, and that a client has one session at most.                   *)
(***************************************************************************)
EXTENDS Session, TLAPS

Deciding(s) == login[s] \in {"fetching", "accepted"}

\* s has asked u's worker and was not told of u.
Missed(s, u) == WorkerOf[u] \in looked[s] /\ u \notin seen[s]

\* Of two connected sockets of one client, not both can have missed the other:
\* whoever connected later was connected when the other was asked for.
OneSeesTheOther ==
    \A s, u \in Sock :
        /\ s # u /\ ClientOf[s] = ClientOf[u]
        /\ sock[s] = "up" /\ sock[u] = "up"
        /\ Deciding(s) /\ Deciding(u)
        => ~(Missed(s, u) /\ Missed(u, s))

\* A socket finds itself, and a login that was accepted has all the answers
\* and found nobody else.
AcceptedAlone ==
    \A s \in Sock :
        /\ sock[s] = "new" => login[s] = "none"
        /\ Deciding(s) => s \in seen[s]
        /\ login[s] = "accepted" => looked[s] = Worker /\ ~SeesAnother(s)

IInv == TypeOK /\ OneSeesTheOther /\ AcceptedAlone

-----------------------------------------------------------------------------

LEMMA TypeOKInit == Init => TypeOK
BY DEF Init, TypeOK

\* An update that a socket makes is an update.
LEMMA LeaveType ==
  ASSUME TypeOK, NEW s \in Sock, Leave(s)
  PROVE  sock' \in [Sock -> {"new", "up", "gone"}] /\ pending' \in SUBSET Update
BY DEF TypeOK, Leave, Update

LEMMA TypeOKStep == TypeOK /\ [Next]_vars => TypeOK'
<1> SUFFICES ASSUME TypeOK, [Next]_vars PROVE TypeOK'
  OBVIOUS
<1> USE DEF TypeOK
<1>1. ASSUME NEW s \in Sock, Refuse(s) PROVE TypeOK'
  BY <1>1 DEF Refuse
<1>2. ASSUME NEW s \in Sock, Connect(s) PROVE TypeOK'
  BY <1>2, WorkerOfAssumption DEF Connect, Rivals
<1>3. ASSUME NEW s \in Sock, NEW w \in Worker, Answer(s, w) PROVE TypeOK'
  BY <1>3 DEF Answer, Rivals
<1>4. ASSUME NEW s \in Sock, FetchFails(s) \/ Reject(s) PROVE TypeOK'
  BY <1>4 DEF FetchFails, Reject
<1>5. ASSUME NEW s \in Sock, Accept(s) PROVE TypeOK'
  BY <1>5 DEF Accept, Update
<1>6. ASSUME NEW s \in Sock, Disconnect(s) PROVE TypeOK'
  BY <1>6, LeaveType DEF Disconnect
<1>7. ASSUME NEW s \in Sock, Kick(s) PROVE TypeOK'
  <2>1. CASE sock[s] = "up"
    BY <1>7, <2>1, LeaveType DEF Kick
  <2>2. CASE sock[s] # "up"
    BY <1>7, <2>2 DEF Kick
  <2>3. QED
    BY <2>1, <2>2
<1>8. ASSUME NEW p \in pending, Write(p) \/ WriteFails(p) PROVE TypeOK'
  BY <1>8, ClientOfAssumption DEF Write, WriteFails, Update
<1>9. ASSUME NEW w \in Worker, WorkerDies(w) PROVE TypeOK'
  BY <1>9 DEF WorkerDies
<1>10. CASE UNCHANGED vars
  BY <1>10 DEF vars
<1>11. QED
  BY <1>1, <1>2, <1>3, <1>4, <1>5, <1>6, <1>7, <1>8, <1>9, <1>10 DEF Next

\* In every reachable state the variables have their types.
THEOREM Typing == Spec => []TypeOK
BY TypeOKInit, TypeOKStep, PTL DEF Spec

-----------------------------------------------------------------------------

LEMMA IInvInit == Init => IInv
BY TypeOKInit DEF Init, IInv, OneSeesTheOther, AcceptedAlone, Deciding

\* Sockets that leave, and handlers that give up, cannot break the invariant.
LEMMA LeavingKeeps ==
  ASSUME IInv, TypeOK', UNCHANGED <<looked, seen>>,
         \A s \in Sock : sock'[s] = sock[s] \/ sock'[s] = "gone",
         \A s \in Sock : login'[s] = login[s] \/ login'[s] \in {"failed", "rejected"},
         \A s \in Sock : sock'[s] = "new" => login'[s] = login[s]
  PROVE  IInv'
BY DEF IInv, OneSeesTheOther, AcceptedAlone, Deciding, Missed, SeesAnother

\* A new socket is asked for by those that are still asking, and its own worker
\* has told it of the others there.
LEMMA ConnectKeeps ==
  ASSUME IInv, TypeOK', NEW s \in Sock, Connect(s)
  PROVE  IInv'
<1> USE WorkerOfAssumption, ClientOfAssumption DEF IInv, TypeOK
<1>1. /\ looked'[s] = {WorkerOf[s]}
      /\ seen'[s] = {u \in Rivals(s) : WorkerOf[u] = WorkerOf[s]} \cup {s}
      /\ login'[s] = "fetching"
      /\ sock'[s] = "up"
  BY DEF Connect
<1>2. \A u \in Sock : u # s =>
         /\ looked'[u] = looked[u] /\ seen'[u] = seen[u]
         /\ login'[u] = login[u] /\ sock'[u] = sock[u]
  BY DEF Connect
<1>3. \A u \in Sock :
         (u # s /\ ClientOf[u] = ClientOf[s] /\ sock'[u] = "up") => ~Missed(s, u)'
  BY <1>1, <1>2 DEF Missed, Rivals
<1>4. OneSeesTheOther'
  BY <1>2, <1>3 DEF OneSeesTheOther, Deciding, Missed
<1>5. AcceptedAlone'
  BY <1>1, <1>2 DEF AcceptedAlone, Deciding, SeesAnother
<1>6. QED
  BY <1>4, <1>5

\* A worker that answers tells of every socket that is connected to it.
LEMMA AnswerKeeps ==
  ASSUME IInv, TypeOK', NEW s \in Sock, NEW w \in Worker, Answer(s, w)
  PROVE  IInv'
<1> USE DEF IInv, TypeOK
<1>1. /\ looked'[s] = looked[s] \cup {w}
      /\ seen'[s] = seen[s] \cup {u \in Rivals(s) : WorkerOf[u] = w}
      /\ login[s] = "fetching" /\ login' = login /\ sock' = sock
  BY DEF Answer
<1>2. \A u \in Sock : u # s => looked'[u] = looked[u] /\ seen'[u] = seen[u]
  BY DEF Answer
<1>3. \A u \in Sock :
         (ClientOf[u] = ClientOf[s] /\ sock[u] = "up" /\ Missed(s, u)') => Missed(s, u)
  BY <1>1 DEF Missed, Rivals
<1>4. \A u, v \in Sock : (u # s /\ Missed(u, v)') => Missed(u, v)
  BY <1>2 DEF Missed
<1>5. OneSeesTheOther'
  BY <1>1, <1>3, <1>4 DEF OneSeesTheOther, Deciding
<1>6. AcceptedAlone'
  BY <1>1, <1>2 DEF AcceptedAlone, Deciding, SeesAnother
<1>7. QED
  BY <1>5, <1>6

LEMMA IInvStep == IInv /\ [Next]_vars => IInv'
<1> SUFFICES ASSUME IInv, [Next]_vars PROVE IInv'
  OBVIOUS
<1>1. TypeOK'
  BY TypeOKStep DEF IInv
<1> USE DEF IInv, TypeOK
<1>2. ASSUME NEW s \in Sock, Refuse(s) PROVE IInv'
  BY <1>1, <1>2, LeavingKeeps DEF Refuse
<1>3. ASSUME NEW s \in Sock, Connect(s) PROVE IInv'
  BY <1>1, <1>3, ConnectKeeps
<1>4. ASSUME NEW s \in Sock, NEW w \in Worker, Answer(s, w) PROVE IInv'
  BY <1>1, <1>4, AnswerKeeps
<1>5. ASSUME NEW s \in Sock, FetchFails(s) \/ Reject(s) PROVE IInv'
  <2>1. sock[s] # "new"
    BY <1>5 DEF FetchFails, Reject, Fetched, AcceptedAlone
  <2>2. QED
    BY <1>1, <1>5, <2>1, LeavingKeeps DEF FetchFails, Reject
<1>6. ASSUME NEW s \in Sock, Accept(s) PROVE IInv'
  <2>1. /\ login[s] = "fetching" /\ looked[s] = Worker /\ ~SeesAnother(s)
        /\ login' = [login EXCEPT ![s] = "accepted"]
        /\ UNCHANGED <<sock, looked, seen>>
    BY <1>6 DEF Accept, Fetched
  <2>2. OneSeesTheOther'
    BY <2>1 DEF OneSeesTheOther, Deciding, Missed
  <2>3. AcceptedAlone'
    BY <2>1 DEF AcceptedAlone, Deciding, SeesAnother
  <2>4. QED
    BY <1>1, <2>2, <2>3
<1>7. ASSUME NEW s \in Sock, Disconnect(s) \/ Kick(s) PROVE IInv'
  <2>1. /\ UNCHANGED <<login, looked, seen>>
        /\ \A u \in Sock : sock'[u] = sock[u] \/ sock'[u] = "gone"
    BY <1>7 DEF Disconnect, Kick, Leave
  <2>2. QED
    BY <1>1, <2>1, LeavingKeeps
<1>8. ASSUME NEW p \in pending, Write(p) \/ WriteFails(p) PROVE IInv'
  BY <1>1, <1>8, LeavingKeeps DEF Write, WriteFails
<1>9. ASSUME NEW w \in Worker, WorkerDies(w) PROVE IInv'
  <2>1. /\ UNCHANGED <<looked, seen>>
        /\ \A s \in Sock : sock'[s] = sock[s] \/ sock'[s] = "gone"
        /\ \A s \in Sock :
              login'[s] = login[s] \/ (login'[s] = "failed" /\ login[s] = "fetching")
    BY <1>9 DEF WorkerDies
  <2>2. \A s \in Sock : sock'[s] = "new" => login'[s] = login[s]
    BY <2>1 DEF AcceptedAlone
  <2>3. QED
    BY <1>1, <2>1, <2>2, LeavingKeeps
<1>10. CASE UNCHANGED vars
  BY <1>1, <1>10, LeavingKeeps DEF vars
<1>11. QED
  BY <1>2, <1>3, <1>4, <1>5, <1>6, <1>7, <1>8, <1>9, <1>10 DEF Next

\* The inductive invariant holds in every reachable state.
THEOREM Invariance == Spec => []IInv
BY IInvInit, IInvStep, PTL DEF Spec

\* Two sessions of one client would each have asked for the other and missed it.
THEOREM OneSessionPerClient == Spec => []OneSession
<1>1. IInv => OneSession
  <2> SUFFICES ASSUME IInv, NEW s \in Sock, NEW u \in Sock, InSession(s), InSession(u),
                      ClientOf[s] = ClientOf[u], s # u
               PROVE  FALSE
    BY DEF OneSession
  <2> USE DEF IInv, InSession, AcceptedAlone, Deciding
  <2>1. u \notin seen[s] /\ s \notin seen[u]
    BY DEF SeesAnother
  <2>2. Missed(s, u) /\ Missed(u, s)
    BY <2>1, WorkerOfAssumption DEF Missed
  <2>3. QED
    BY <2>2 DEF OneSeesTheOther
<1>2. QED
  BY Invariance, <1>1, PTL
=============================================================================
