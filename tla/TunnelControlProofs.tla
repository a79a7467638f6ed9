------------------------ MODULE TunnelControlProofs ------------------------
(***************************************************************************)
(* Proofs about TunnelControl, for every set of tunnels, settings,         *)
(* requests and instances: the types, how an instance can be lost, what    *)
(* the lock on a port is good for, that clients are not told to quit, and  *)
(* that the client mirrors the table, one thing after the other.           *)
(***************************************************************************)
EXTENDS TunnelControl, Integers, TLAPS

Form == Add \cup Update

\* An instance that exists was made for a tunnel and a setting.
MadeForTunnel ==
    /\ \A i \in Inst : inst[i] # "unused" =>
          made[i] \in [id : Tunnel, setting : Setting]
    /\ \A i \in authen : inst[i] # "unused"

\* A request under way has a form, and deletions never lock nor outlive a lock.
FormGiven ==
    /\ \A r \in Form : phase[r] # "new" => form[r] \in Setting /\ naming[r] \in Naming
    /\ \A p \in Port : lock[p] \in Form \cup {None}
    /\ \A r \in expired : r \in Form /\ phase[r] # "new"

\* A request past the lock still has it, or it has run out.
LockHeld ==
    \A r \in Form : phase[r] \in {"locked", "tested", "checked", "written"} =>
        lock[form[r].port] = r \/ r \in expired

\* A lock on this port has run out.
RanOut(p) == \E q \in expired : form[q].port = p

\* The port of a request that has been checked is in no other tunnel's row,
\* unless a lock has run out.
CheckedIsFree ==
    \A r \in Form : phase[r] = "checked" =>
        \A t \in Tunnel \ {TunnelOf[r]} :
            (row[t] # None /\ row[t].port = form[r].port) => RanOut(form[r].port)

\* What a request has asked for is still free when it writes its row, unless
\* another one has written a row since: the uniqueName from its beginning, the
\* port and the local address from the check on.
AskedIsFree ==
    \A r \in Form : (r \notin crossed /\ ToWrite(r)) =>
        /\ ~UniqueTaken(TunnelOf[r], naming[r])
        /\ phase[r] = "checked" => ~TakenFor(TunnelOf[r], form[r])

IInv == TypeOK /\ MadeForTunnel /\ FormGiven /\ LockHeld /\ CheckedIsFree /\ AskedIsFree

-----------------------------------------------------------------------------
(* Types                                                                   *)

LEMMA TypeOKInit == Init => TypeOK
<1> SUFFICES ASSUME Init PROVE TypeOK
  OBVIOUS
<1>1. row \in [Tunnel -> Setting \cup {None}] /\ names \in [Tunnel -> Naming \cup {None}]
  BY DEF Init
<1>2. made \in [Inst -> [id : Tunnel \cup {None}, setting : Setting \cup {None}]]
  BY DEF Init
<1>3. /\ lock \in [Port -> Request \cup {None}]
      /\ phase \in [Request -> Phase]
      /\ inbox \in Seq(Message)
      /\ inst \in [Inst -> InstState]
      /\ port \in [Inst -> Port \cup {None}]
  BY DEF Init, Phase, InstState
<1> QED
  BY <1>1, <1>2, <1>3 DEF Init, TypeOK

\* Notifications are messages.
LEMMA NotifyType ==
  ASSUME TypeOK, NEW m \in Message, Notify(m)
  PROVE  inbox' \in Seq(Message)
BY DEF TypeOK, Notify

LEMMA MessageType ==
  ASSUME NEW t \in Tunnel
  PROVE  /\ DeleteTunnel(t) \in Message
         /\ \A s \in Setting : AddTunnel(t, s) \in Message
BY DEF DeleteTunnel, AddTunnel, Message

\* What a handler of the client takes from the inbox.
LEMMA ReceivesType ==
  ASSUME TypeOK, NEW cmd, Receives(cmd)
  PROVE  /\ inbox' \in Seq(Message)
         /\ Head(inbox) \in Message
         /\ Head(inbox).cmd = cmd
BY DEF TypeOK, Receives

\* The web pages keep the types.
LEMMA WebTypes ==
  ASSUME TypeOK, FormGiven, NEW r \in Request,
         \/ r \in Add /\ (BeginAdd(r) \/ FinishAdd(r))
         \/ r \in Update /\ (BeginUpdate(r) \/ FinishUpdate(r) \/ Fire(r))
         \/ r \in Form /\ (Lock(r) \/ TestPort(r) \/ CheckRow(r) \/ WriteRow(r))
         \/ r \in Delete /\ (DeleteRow(r) \/ FinishDelete(r))
  PROVE  TypeOK'
<1> USE RequestAssumption DEF Request, TypeOK, Phase, Form
<1>0. TunnelOf[r] \in Tunnel
  OBVIOUS
<1>1. CASE r \in Add /\ BeginAdd(r)
  <2>1. PICK s \in Setting, n \in Naming :
            /\ form' = [form EXCEPT ![r] = s]
            /\ naming' = [naming EXCEPT ![r] = n]
            /\ phase' = [phase EXCEPT ![r] =
                             IF UniqueTaken(TunnelOf[r], n) THEN "refused" ELSE "waiting"]
    BY <1>1 DEF BeginAdd
  <2> QED
    BY <1>1, <2>1 DEF BeginAdd, client, bridge, Begins
<1>2. CASE r \in Add /\ FinishAdd(r)
  <2>1. form[r] \in Setting
    BY <1>2 DEF FinishAdd, FormGiven
  <2>2. AddTunnel(TunnelOf[r], form[r]) \in Message
    BY <1>0, <2>1, MessageType
  <2>3. inbox' \in Seq(Message)
    BY <1>2, <2>2, NotifyType DEF FinishAdd
  <2> QED
    BY <1>2, <2>3 DEF FinishAdd, Unlock, client, bridge
<1>3. CASE r \in Update /\ BeginUpdate(r)
  <2>1. PICK s \in Setting, n \in Naming :
            /\ form' = [form EXCEPT ![r] = s]
            /\ naming' = [naming EXCEPT ![r] = n]
            /\ \/ phase' = [phase EXCEPT ![r] = "refused"] /\ old' = old
               \/ /\ phase' = [phase EXCEPT ![r] = "waiting"]
                  /\ old' = [old EXCEPT ![r] = row[TunnelOf[r]]]
    BY <1>3 DEF BeginUpdate
  <2>2. form' \in [Form -> Setting \cup {None}] /\ naming' \in [Form -> Naming \cup {None}]
    BY <2>1
  <2>3. phase' \in [Request -> Phase]
    <3>1. \E p \in Phase : phase' = [phase EXCEPT ![r] = p]
      BY <2>1
    <3> QED
      BY <3>1
  <2>4. old' \in [Update -> Setting \cup {None}]
    <3>1. old' = old \/ old' = [old EXCEPT ![r] = row[TunnelOf[r]]]
      BY <2>1
    <3> QED
      BY <1>0, <3>1
  <2>5. rushed' \in BOOLEAN /\ UNCHANGED <<row, names, lock, timer, expired, crossed, client,
                                          bridge, inbox>>
    BY <1>3 DEF BeginUpdate, Begins
  <2> QED
    BY <2>2, <2>3, <2>4, <2>5 DEF client, bridge
<1>4. CASE r \in Update /\ FinishUpdate(r)
  <2>1. inbox' \in Seq(Message)
    BY <1>0, <1>4, MessageType, NotifyType DEF FinishUpdate
  <2> QED
    BY <1>0, <1>4, <2>1 DEF FinishUpdate, Unlock, client, bridge
<1>5. CASE r \in Update /\ Fire(r)
  <2>1. AddTunnel(TunnelOf[r], timer[r]) \in Message
    BY <1>0, <1>5, MessageType DEF Fire
  <2>2. inbox' \in Seq(Message)
    BY <1>5, <2>1, NotifyType DEF Fire
  <2>3. rushed' \in BOOLEAN
    BY <1>5 DEF Fire
  <2> QED
    BY <1>5, <2>2, <2>3 DEF Fire, client, bridge
<1>6. CASE r \in Form /\ Lock(r)
  <2>1. lock' \in [Port -> Request \cup {None}]
    BY <1>6 DEF Lock
  <2>2. phase' \in [Request -> Phase]
    <3>1. \/ phase' = [phase EXCEPT ![r] = "locked"]
          \/ phase' = [phase EXCEPT ![r] = "unanswered"]
      BY <1>6 DEF Lock
    <3> QED
      BY <3>1
  <2> QED
    BY <1>6, <2>1, <2>2 DEF Lock, client, bridge
<1>7. CASE r \in Form /\ TestPort(r)
  BY <1>7 DEF TestPort, client, bridge
<1>8. CASE r \in Form /\ CheckRow(r)
  BY <1>8 DEF CheckRow, client, bridge
<1>9. CASE r \in Form /\ WriteRow(r)
  <2>1. /\ form[r] \in Setting /\ naming[r] \in Naming
        /\ UNCHANGED <<form, naming, old, timer, expired, client, bridge, inbox, rushed>>
    BY <1>9 DEF WriteRow, FormGiven
  <2>2. phase' \in [Request -> Phase]
    <3>1. \/ phase' = [phase EXCEPT ![r] = "unanswered"]
          \/ phase' = [phase EXCEPT ![r] = "written"]
      BY <1>9 DEF WriteRow
    <3> QED
      BY <3>1
  <2>3. lock' \in [Port -> Request \cup {None}]
    <3>1. Unlock(r) \/ lock' = lock
      BY <1>9 DEF WriteRow
    <3>2. ASSUME Unlock(r) PROVE lock' \in [Port -> Request \cup {None}]
      BY <3>2 DEF Unlock
    <3> QED
      BY <3>1, <3>2
  <2>4. row' \in [Tunnel -> Setting \cup {None}] /\ names' \in [Tunnel -> Naming \cup {None}]
    <3>1. row' = row \/ row' = [row EXCEPT ![TunnelOf[r]] = form[r]]
      BY <1>9 DEF WriteRow
    <3>2. names' = names \/ names' = [names EXCEPT ![TunnelOf[r]] = naming[r]]
      BY <1>9 DEF WriteRow
    <3> QED
      BY <1>0, <2>1, <3>1, <3>2
  <2>5. crossed' \in SUBSET Request
    BY <1>9 DEF WriteRow
  <2> QED
    BY <2>1, <2>2, <2>3, <2>4, <2>5 DEF client, bridge
<1>10. CASE r \in Delete /\ DeleteRow(r)
  BY <1>0, <1>10 DEF DeleteRow, client, bridge, Begins
<1>11. CASE r \in Delete /\ FinishDelete(r)
  <2>1. inbox' \in Seq(Message)
    BY <1>0, <1>11, MessageType, NotifyType DEF FinishDelete
  <2> QED
    BY <1>11, <2>1 DEF FinishDelete, client, bridge
<1> QED
  BY <1>1, <1>2, <1>3, <1>4, <1>5, <1>6, <1>7, <1>8, <1>9, <1>10, <1>11

\* The steps of the client and the bridge, and of redis.
OtherStep ==
    \/ \E p \in Port : Expire(p)
    \/ Fetch \/ Online \/ ReceiveDelete \/ Exit
    \/ \E i \in Inst : ReceiveAdd(i) \/ Started(i) \/ StartTimeout(i)
                       \/ Authen(i) \/ Release(i)
                       \/ \E t \in Tunnel : StartNext(i, t)

LEMMA OtherTypes ==
  ASSUME TypeOK, MadeForTunnel, OtherStep
  PROVE  TypeOK' /\ MadeForTunnel'
<1> USE RequestAssumption DEF TypeOK, MadeForTunnel, InstState
<1>1. ASSUME NEW p \in Port, Expire(p) PROVE TypeOK' /\ MadeForTunnel'
  BY <1>1 DEF Expire, client, bridge
<1>2. ASSUME Fetch \/ Online PROVE TypeOK' /\ MadeForTunnel'
  BY <1>2 DEF Fetch, Online, web, bridge, Begins
<1>3. ASSUME ReceiveDelete PROVE TypeOK' /\ MadeForTunnel'
  <2>1. Head(inbox).id \in Tunnel /\ inbox' \in Seq(Message)
    BY <1>3, ReceivesType DEF ReceiveDelete, Message
  <2> QED
    BY <1>3, <2>1 DEF ReceiveDelete, web, bridge
<1>4. ASSUME Exit PROVE TypeOK' /\ MadeForTunnel'
  BY <1>4 DEF Exit, web, bridge, Begins
<1>5. ASSUME NEW i \in Inst, ReceiveAdd(i) PROVE TypeOK' /\ MadeForTunnel'
  <2>1. /\ inbox' \in Seq(Message)
        /\ Head(inbox).id \in Tunnel /\ Head(inbox).setting \in Setting
    <3>1. Receives("ADD_TUNNEL")
      BY <1>5 DEF ReceiveAdd
    <3>2. /\ inbox' \in Seq(Message)
          /\ Head(inbox) \in Message
          /\ Head(inbox).cmd = "ADD_TUNNEL"
      BY <3>1, ReceivesType
    <3> QED
      BY <3>2 DEF Message
  <2> QED
    BY <1>5, <2>1 DEF ReceiveAdd, Create, web, bridge
<1>6. ASSUME NEW i \in Inst, Started(i) PROVE TypeOK' /\ MadeForTunnel'
  <2>1. made[i].id \in Tunnel
    BY <1>6 DEF Started
  <2> QED
    BY <1>6, <2>1 DEF Started, web
<1>7. ASSUME NEW i \in Inst, StartTimeout(i) PROVE TypeOK' /\ MadeForTunnel'
  BY <1>7 DEF StartTimeout, web, bridge
<1>8. ASSUME NEW i \in Inst, Authen(i) PROVE TypeOK' /\ MadeForTunnel'
  <2>1. made[i].id \in Tunnel
    BY <1>8 DEF Authen
  <2> QED
    BY <1>8, <2>1 DEF Authen, web
<1>9. ASSUME NEW i \in Inst, Release(i) PROVE TypeOK' /\ MadeForTunnel'
  BY <1>9 DEF Release, web
<1>10. ASSUME NEW i \in Inst, NEW t \in Tunnel, StartNext(i, t)
       PROVE  TypeOK' /\ MadeForTunnel'
  BY <1>10 DEF StartNext, Create, web, bridge
<1> QED
  BY <1>1, <1>2, <1>3, <1>4, <1>5, <1>6, <1>7, <1>8, <1>9, <1>10 DEF OtherStep

-----------------------------------------------------------------------------
(* The lock                                                                *)

\* A step of a request.
FormStep(r) ==
    \/ r \in Add /\ (BeginAdd(r) \/ FinishAdd(r))
    \/ r \in Update /\ (BeginUpdate(r) \/ FinishUpdate(r) \/ Fire(r))
    \/ r \in Form /\ (Lock(r) \/ TestPort(r) \/ CheckRow(r) \/ WriteRow(r))

DeleteStep(r) == r \in Delete /\ (DeleteRow(r) \/ FinishDelete(r))

LEMMA Steps ==
  ASSUME [Next]_vars
  PROVE  \/ \E r \in Form : FormStep(r)
         \/ \E r \in Delete : DeleteStep(r)
         \/ OtherStep
         \/ UNCHANGED vars
BY DEF Next, FormStep, DeleteStep, OtherStep, Form

\* What a step of request r does to the state of the locks: it only moves its
\* own phase, takes away no lock but its own, and writes its form at the start.
LEMMA FormStepLocally ==
  ASSUME TypeOK, FormGiven, NEW r \in Form, FormStep(r)
  PROVE  /\ \A q \in Request \ {r} : phase'[q] = phase[q]
         /\ \A q \in Form \ {r} : form'[q] = form[q] /\ naming'[q] = naming[q]
         /\ phase[r] # "new" => /\ form'[r] = form[r] /\ naming'[r] = naming[r]
                                 /\ phase'[r] # "new"
         /\ phase'[r] # "new" => form'[r] \in Setting /\ naming'[r] \in Naming
         /\ \A p \in Port : lock'[p] = lock[p] \/ (lock[p] \in {r, None} /\ lock'[p] \in {r, None})
         /\ expired' = expired
<1> USE RequestAssumption DEF TypeOK, FormGiven, Form, Request
<1>1. CASE r \in Add /\ BeginAdd(r)
  BY <1>1 DEF BeginAdd
<1>2. CASE r \in Update /\ BeginUpdate(r)
  BY <1>2 DEF BeginUpdate
<1>3. CASE Lock(r)
  BY <1>3 DEF Lock
<1>4. CASE TestPort(r)
  BY <1>4 DEF TestPort
<1>5. CASE CheckRow(r)
  BY <1>5 DEF CheckRow
<1>6. CASE WriteRow(r)
  BY <1>6 DEF WriteRow, Unlock
<1>7. CASE r \in Add /\ FinishAdd(r)
  BY <1>7 DEF FinishAdd, Unlock
<1>8. CASE r \in Update /\ FinishUpdate(r)
  BY <1>8 DEF FinishUpdate, Unlock
<1>9. CASE r \in Update /\ Fire(r)
  BY <1>9 DEF Fire
<1> QED
  BY <1>1, <1>2, <1>3, <1>4, <1>5, <1>6, <1>7, <1>8, <1>9 DEF FormStep

Past == {"locked", "tested", "checked", "written"}

\* A step that leaves a request past the lock has found it there, lock and all,
\* or has just given it the lock.
LEMMA FormStepPast ==
  ASSUME TypeOK, FormGiven, NEW r \in Form, FormStep(r), phase'[r] \in Past
  PROVE  \/ phase[r] \in Past /\ lock' = lock /\ form' = form
         \/ phase'[r] = "locked" /\ lock'[form'[r].port] = r
<1> USE RequestAssumption DEF TypeOK, FormGiven, Form, Request, Past
<1>1. CASE r \in Add /\ BeginAdd(r)
  BY <1>1 DEF BeginAdd
<1>2. CASE r \in Update /\ BeginUpdate(r)
  BY <1>2 DEF BeginUpdate
<1>3. CASE Lock(r)
  BY <1>3 DEF Lock
<1>4. CASE TestPort(r)
  BY <1>4 DEF TestPort
<1>5. CASE CheckRow(r)
  BY <1>5 DEF CheckRow
<1>6. CASE WriteRow(r)
  BY <1>6 DEF WriteRow
<1>7. CASE r \in Add /\ FinishAdd(r)
  BY <1>7 DEF FinishAdd
<1>8. CASE r \in Update /\ FinishUpdate(r)
  BY <1>8 DEF FinishUpdate
<1>9. CASE r \in Update /\ Fire(r)
  BY <1>9 DEF Fire
<1> QED
  BY <1>1, <1>2, <1>3, <1>4, <1>5, <1>6, <1>7, <1>8, <1>9 DEF FormStep

LEMMA FormGivenStep ==
  ASSUME TypeOK, FormGiven, [Next]_vars
  PROVE  FormGiven'
<1>1. ASSUME NEW r \in Form, FormStep(r) PROVE FormGiven'
  <2>1. \A q \in Form : phase'[q] # "new" => form'[q] \in Setting /\ naming'[q] \in Naming
    BY <1>1, FormStepLocally DEF FormGiven, Request, Form
  <2>2. \A p \in Port : lock'[p] \in Form \cup {None}
    BY <1>1, FormStepLocally DEF FormGiven
  <2>3. \A q \in expired' : q \in Form /\ phase'[q] # "new"
    BY <1>1, FormStepLocally DEF FormGiven, Request, Form
  <2> QED
    BY <2>1, <2>2, <2>3 DEF FormGiven
<1>2. ASSUME NEW r \in Delete, DeleteStep(r) PROVE FormGiven'
  BY <1>2, RequestAssumption
     DEF DeleteStep, DeleteRow, FinishDelete, FormGiven, TypeOK, Form, Request
<1>3. ASSUME NEW p \in Port, Expire(p) PROVE FormGiven'
  BY <1>3 DEF Expire, FormGiven, TypeOK, Busy
<1>4. ASSUME OtherStep, UNCHANGED web PROVE FormGiven'
  BY <1>4 DEF FormGiven, web
<1>5. CASE OtherStep /\ ~(\E p \in Port : Expire(p))
  <2>1. UNCHANGED web
    BY <1>5 DEF OtherStep, Fetch, Online, ReceiveDelete, Exit, ReceiveAdd, Started,
                StartTimeout, Authen, Release, StartNext
  <2> QED
    BY <1>4, <1>5, <2>1
<1>6. CASE UNCHANGED vars
  BY <1>6 DEF vars, web, FormGiven
<1> QED
  BY <1>1, <1>2, <1>3, <1>5, <1>6, Steps

LEMMA LockHeldStep ==
  ASSUME TypeOK, FormGiven, LockHeld, [Next]_vars
  PROVE  LockHeld'
<1> USE RequestAssumption DEF TypeOK
<1>1. ASSUME NEW r \in Form, FormStep(r) PROVE LockHeld'
  <2> SUFFICES ASSUME NEW q \in Form, phase'[q] \in Past
               PROVE  lock'[form'[q].port] = q \/ q \in expired'
    BY DEF LockHeld, Past
  <2>1. CASE q = r
    BY <1>1, <2>1, FormStepLocally, FormStepPast DEF LockHeld, Past
  <2>2. CASE q # r
    <3>1. phase[q] \in Past /\ form'[q] = form[q] /\ expired' = expired
      BY <1>1, <2>2, FormStepLocally DEF Request, Form
    <3>2. form[q].port \in Port /\ q # None
      BY <3>1 DEF FormGiven, Past, Request, Form
    <3> QED
      BY <1>1, <2>2, <3>1, <3>2, FormStepLocally DEF LockHeld, Past
  <2> QED
    BY <2>1, <2>2
<1>2. ASSUME NEW r \in Delete, DeleteStep(r) PROVE LockHeld'
  BY <1>2 DEF DeleteStep, DeleteRow, FinishDelete, LockHeld, Form, Request
<1>3. ASSUME NEW p \in Port, Expire(p) PROVE LockHeld'
  BY <1>3 DEF Expire, LockHeld, Busy, Request, Form
<1>4. CASE OtherStep /\ ~(\E p \in Port : Expire(p))
  <2>1. UNCHANGED web
    BY <1>4 DEF OtherStep, Fetch, Online, ReceiveDelete, Exit, ReceiveAdd, Started,
                StartTimeout, Authen, Release, StartNext
  <2> QED
    BY <2>1 DEF web, LockHeld
<1>5. CASE UNCHANGED vars
  BY <1>5 DEF vars, web, LockHeld
<1> QED
  BY <1>1, <1>2, <1>3, <1>4, <1>5, Steps

\* That a lock has run out stays true.
LEMMA RanOutStays ==
  ASSUME TypeOK, FormGiven, [Next]_vars, NEW p, RanOut(p)
  PROVE  RanOut(p)'
<1>1. PICK q \in expired : form[q].port = p
  BY DEF RanOut
<1>2. q \in Form /\ phase[q] # "new"
  BY <1>1 DEF FormGiven
<1>3. ASSUME NEW r \in Form, FormStep(r) PROVE q \in expired' /\ form'[q] = form[q]
  BY <1>1, <1>2, <1>3, FormStepLocally
<1>4. ASSUME NEW r \in Delete, DeleteStep(r) PROVE q \in expired' /\ form'[q] = form[q]
  BY <1>1, <1>4 DEF DeleteStep, DeleteRow, FinishDelete
<1>5. ASSUME OtherStep PROVE q \in expired' /\ form'[q] = form[q]
  <2>1. CASE \E c \in Port : Expire(c)
    BY <1>1, <2>1 DEF Expire
  <2>2. CASE ~(\E c \in Port : Expire(c))
    BY <1>1, <1>5, <2>2 DEF OtherStep, Fetch, Online, ReceiveDelete, Exit, ReceiveAdd,
       Started, StartTimeout, Authen, Release, StartNext, web
  <2> QED
    BY <2>1, <2>2
<1>6. ASSUME UNCHANGED vars PROVE q \in expired' /\ form'[q] = form[q]
  BY <1>1, <1>6 DEF vars, web
<1>7. q \in expired' /\ form'[q] = form[q]
  BY <1>3, <1>4, <1>5, <1>6, Steps
<1> QED
  BY <1>1, <1>7 DEF RanOut

\* Two requests that have been checked for one port: the lock of one has run out.
LEMMA OneHolder ==
  ASSUME LockHeld, NEW q \in Form, NEW r \in Form, q # r,
         phase[q] = "checked", phase[r] = "checked", form[q].port = form[r].port
  PROVE  RanOut(form[q].port)
BY DEF LockHeld, RanOut

\* Only WriteRow adds to the rows, and only CheckRow lets a request pass.
WritesOwnRow(r) ==
    \/ row' = row
    \/ /\ phase[r] = "checked" /\ phase'[r] = "written"
       /\ row' = [row EXCEPT ![TunnelOf[r]] = form[r]]

PassesCheck(r) ==
    phase'[r] = "checked" =>
        /\ row' = row /\ form' = form
        /\ phase[r] = "checked" \/ ~TakenFor(TunnelOf[r], form[r])

LEMMA FormStepRows ==
  ASSUME TypeOK, NEW r \in Form, FormStep(r)
  PROVE  WritesOwnRow(r) /\ PassesCheck(r)
<1>0. r \in Request /\ phase \in [Request -> Phase]
  BY DEF Form, Request, TypeOK
<1>1. CASE BeginAdd(r)
  BY <1>0, <1>1 DEF BeginAdd, WritesOwnRow, PassesCheck
<1>2. CASE BeginUpdate(r)
  BY <1>0, <1>2 DEF BeginUpdate, WritesOwnRow, PassesCheck
<1>3. CASE Lock(r)
  BY <1>0, <1>3 DEF Lock, WritesOwnRow, PassesCheck
<1>4. CASE TestPort(r)
  BY <1>0, <1>4 DEF TestPort, WritesOwnRow, PassesCheck
<1>5. CASE CheckRow(r)
  BY <1>0, <1>5 DEF CheckRow, WritesOwnRow, PassesCheck
<1>6. CASE WriteRow(r)
  BY <1>0, <1>6 DEF WriteRow, WritesOwnRow, PassesCheck
<1>7. CASE FinishAdd(r)
  BY <1>0, <1>7 DEF FinishAdd, WritesOwnRow, PassesCheck
<1>8. CASE FinishUpdate(r)
  BY <1>0, <1>8 DEF FinishUpdate, WritesOwnRow, PassesCheck
<1>9. CASE Fire(r)
  <2>1. row' = row /\ form' = form /\ phase' = phase
    BY <1>9 DEF Fire
  <2> QED
    BY <2>1 DEF WritesOwnRow, PassesCheck
<1> QED
  BY <1>1, <1>2, <1>3, <1>4, <1>5, <1>6, <1>7, <1>8, <1>9 DEF FormStep

LEMMA CheckedIsFreeStep ==
  ASSUME TypeOK, FormGiven, LockHeld, CheckedIsFree, [Next]_vars
  PROVE  CheckedIsFree'
<1> USE RequestAssumption DEF TypeOK, Request, Form
<1>1. ASSUME NEW r \in Form, FormStep(r) PROVE CheckedIsFree'
  <2> SUFFICES ASSUME NEW q \in Form, phase'[q] = "checked",
                      NEW t \in Tunnel \ {TunnelOf[q]},
                      row'[t] # None, row'[t].port = form'[q].port
               PROVE  RanOut(form[q].port)'
    BY DEF CheckedIsFree
  <2>1. CASE q = r
    <3>1. /\ row' = row /\ form' = form
          /\ phase[q] = "checked" \/ ~TakenFor(TunnelOf[q], form[q])
      BY <1>1, <2>1, FormStepRows DEF PassesCheck
    <3>2. phase[q] = "checked"
      BY <3>1 DEF TakenFor, Clash, Rows
    <3>3. RanOut(form[q].port)
      BY <3>1, <3>2 DEF CheckedIsFree
    <3> QED
      BY <3>1, <3>3, RanOutStays
  <2>2. CASE q # r
    <3>1. phase[q] = "checked" /\ form'[q] = form[q]
      BY <1>1, <2>2, FormStepLocally
    <3>2. SUFFICES RanOut(form[q].port)
      BY <3>1, RanOutStays
    <3>3. CASE row'[t] = row[t]
      BY <3>1, <3>3 DEF CheckedIsFree
    <3>4. CASE row'[t] # row[t]
      <4>1. phase[r] = "checked" /\ row'[t] = form[r]
        BY <1>1, <3>4, FormStepRows DEF WritesOwnRow
      <4> QED
        BY <2>2, <3>1, <4>1, OneHolder
    <3> QED
      BY <3>3, <3>4
  <2> QED
    BY <2>1, <2>2
<1>2. ASSUME UNCHANGED <<phase, form>>, \A t \in Tunnel : row'[t] \in {row[t], None}
      PROVE  CheckedIsFree'
  <2> SUFFICES ASSUME NEW q \in Form, phase'[q] = "checked",
                      NEW t \in Tunnel \ {TunnelOf[q]},
                      row'[t] # None, row'[t].port = form'[q].port
               PROVE  RanOut(form[q].port)'
    BY DEF CheckedIsFree
  <2> QED
    BY <1>2, RanOutStays DEF CheckedIsFree
<1>3. ASSUME NEW r \in Delete, DeleteStep(r) PROVE CheckedIsFree'
  <2> SUFFICES ASSUME NEW q \in Form, phase'[q] = "checked",
                      NEW t \in Tunnel \ {TunnelOf[q]},
                      row'[t] # None, row'[t].port = form'[q].port
               PROVE  RanOut(form[q].port)'
    BY DEF CheckedIsFree
  <2>1. /\ phase[q] = "checked"
        /\ form' = form
        /\ row'[t] = row[t]
    BY <1>3 DEF DeleteStep, DeleteRow, FinishDelete
  <2> QED
    BY <2>1, RanOutStays DEF CheckedIsFree
<1>4. CASE OtherStep
  <2>1. UNCHANGED <<row, phase, form>>
    <3>1. CASE \E c \in Port : Expire(c)
      BY <3>1 DEF Expire
    <3>2. CASE ~(\E c \in Port : Expire(c))
      BY <1>4, <3>2 DEF OtherStep, Fetch, Online, ReceiveDelete, Exit, ReceiveAdd,
         Started, StartTimeout, Authen, Release, StartNext, web
    <3> QED
      BY <3>1, <3>2
  <2> QED
    BY <1>2, <2>1
<1>5. CASE UNCHANGED vars
  BY <1>2, <1>5 DEF vars, web
<1> QED
  BY <1>1, <1>3, <1>4, <1>5, Steps

\* A request that neither begins nor passes a query is as free as it was, when
\* rows are at most taken away.
LEMMA StillFree ==
  ASSUME AskedIsFree, NEW r \in Form, r \notin crossed', ToWrite(r)',
         r \notin crossed, ToWrite(r), phase'[r] = "checked" => phase[r] = "checked",
         UNCHANGED <<form[r], naming[r]>>,
         \A t \in Tunnel : row'[t] # None => row'[t] = row[t] /\ names'[t] = names[t]
  PROVE  /\ ~UniqueTaken(TunnelOf[r], naming[r])'
         /\ phase'[r] = "checked" => ~TakenFor(TunnelOf[r], form[r])'
BY DEF AskedIsFree, UniqueTaken, TakenFor, Rows

\* A request begins when nobody has its uniqueName.
LEMMA BeginsFree ==
  ASSUME TypeOK, NEW r \in Form, ToWrite(r)',
         \/ r \in Add /\ BeginAdd(r)
         \/ r \in Update /\ BeginUpdate(r)
  PROVE  ~UniqueTaken(TunnelOf[r], naming[r])' /\ phase'[r] = "waiting"
<1>0. r \in Request /\ phase \in [Request -> Phase] /\ naming \in [Form -> Naming \cup {None}]
  BY DEF TypeOK, Form, Request
<1>1. PICK n \in Naming :
          /\ naming' = [naming EXCEPT ![r] = n]
          /\ \/ phase' = [phase EXCEPT ![r] = "refused"]
             \/ phase' = [phase EXCEPT ![r] = "waiting"] /\ ~UniqueTaken(TunnelOf[r], n)
  BY DEF BeginAdd, BeginUpdate
<1>2. phase'[r] = "waiting" /\ ~UniqueTaken(TunnelOf[r], n)
  BY <1>0, <1>1 DEF ToWrite
<1>3. row' = row /\ names' = names
  BY DEF BeginAdd, BeginUpdate
<1> QED
  BY <1>0, <1>1, <1>2, <1>3 DEF UniqueTaken, Rows

\* The steps of a request do not cross it, and it passes its queries only when
\* they find nothing.
LEMMA OwnStepFree ==
  ASSUME TypeOK, FormGiven, AskedIsFree, NEW r \in Form, FormStep(r),
         r \notin crossed', ToWrite(r)'
  PROVE  /\ ~UniqueTaken(TunnelOf[r], naming[r])'
         /\ phase'[r] = "checked" => ~TakenFor(TunnelOf[r], form[r])'
<1>0. r \in Request /\ phase \in [Request -> Phase]
  BY DEF TypeOK, Form, Request
<1>1. CASE (r \in Add /\ BeginAdd(r)) \/ (r \in Update /\ BeginUpdate(r))
  BY <1>1, BeginsFree
<1>2. CASE Lock(r) \/ TestPort(r) \/ CheckRow(r)
  <2>1. /\ ToWrite(r) /\ UNCHANGED <<row, names, form, naming, crossed>>
        /\ phase'[r] = "checked" => ~TakenFor(TunnelOf[r], form[r])
    <3>1. CASE Lock(r)
      BY <1>0, <3>1 DEF Lock, ToWrite
    <3>2. CASE TestPort(r)
      BY <1>0, <3>2 DEF TestPort, ToWrite
    <3>3. CASE CheckRow(r)
      BY <1>0, <3>3 DEF CheckRow, ToWrite
    <3> QED
      BY <1>2, <3>1, <3>2, <3>3
  <2>2. ~UniqueTaken(TunnelOf[r], naming[r])
    BY <2>1 DEF AskedIsFree
  <2> QED
    BY <2>1, <2>2 DEF UniqueTaken, TakenFor, Rows
<1>3. ASSUME WriteRow(r) PROVE FALSE
  BY <1>0, <1>3 DEF WriteRow, ToWrite
<1>4. ASSUME (r \in Add /\ FinishAdd(r)) \/ (r \in Update /\ FinishUpdate(r)) PROVE FALSE
  BY <1>0, <1>4 DEF FinishAdd, FinishUpdate, ToWrite
<1>5. CASE r \in Update /\ Fire(r)
  BY <1>5, StillFree DEF Fire, ToWrite
<1> QED
  BY <1>1, <1>2, <1>3, <1>4, <1>5 DEF FormStep

\* A row that is written crosses all others that have still to write.
LEMMA Crosses ==
  ASSUME TypeOK, NEW q \in Form, FormStep(q),
         NEW r \in Form \ {q}, r \notin crossed', ToWrite(r)
  PROVE  row' = row /\ names' = names /\ r \notin crossed
<1>1. CASE WriteRow(q)
  BY <1>1 DEF WriteRow, Form
<1>2. CASE ~WriteRow(q)
  BY <1>2 DEF FormStep, BeginAdd, FinishAdd, BeginUpdate, FinishUpdate, Fire, Lock, TestPort,
              CheckRow
<1> QED
  BY <1>1, <1>2

LEMMA AskedIsFreeStep ==
  ASSUME TypeOK, FormGiven, AskedIsFree, [Next]_vars
  PROVE  AskedIsFree'
<1> SUFFICES ASSUME NEW r \in Form, r \notin crossed', ToWrite(r)'
             PROVE  /\ ~UniqueTaken(TunnelOf[r], naming[r])'
                    /\ phase'[r] = "checked" => ~TakenFor(TunnelOf[r], form[r])'
  BY DEF AskedIsFree
<1>1. ASSUME NEW q \in Form, FormStep(q)
      PROVE  /\ ~UniqueTaken(TunnelOf[r], naming[r])'
             /\ phase'[r] = "checked" => ~TakenFor(TunnelOf[r], form[r])'
  <2>1. CASE q = r
    BY <1>1, <2>1, OwnStepFree
  <2>2. CASE q # r
    <3>1. /\ phase'[r] = phase[r] /\ form'[r] = form[r] /\ naming'[r] = naming[r]
          /\ ToWrite(r)
      BY <1>1, <2>2, FormStepLocally DEF Request, Form, ToWrite
    <3>2. row' = row /\ names' = names /\ r \notin crossed
      BY <1>1, <2>2, <3>1, Crosses
    <3> QED
      BY <3>1, <3>2, StillFree
  <2> QED
    BY <2>1, <2>2
<1>2. ASSUME NEW q \in Delete, DeleteStep(q)
      PROVE  /\ ~UniqueTaken(TunnelOf[r], naming[r])'
             /\ phase'[r] = "checked" => ~TakenFor(TunnelOf[r], form[r])'
  <2>1. phase'[r] = phase[r] /\ UNCHANGED <<form, naming, crossed>>
    BY <1>2, RequestAssumption
       DEF DeleteStep, DeleteRow, FinishDelete, TypeOK, Request, Form
  <2>2. \A t \in Tunnel : row'[t] # None => row'[t] = row[t] /\ names'[t] = names[t]
    BY <1>2, RequestAssumption DEF DeleteStep, DeleteRow, FinishDelete, TypeOK
  <2> QED
    BY <2>1, <2>2, StillFree DEF ToWrite
<1>3. CASE OtherStep \/ UNCHANGED vars
  <2>1. UNCHANGED <<row, names, phase, form, naming, crossed>>
    <3>1. CASE \E c \in Port : Expire(c)
      BY <3>1 DEF Expire
    <3>2. CASE ~(\E c \in Port : Expire(c))
      BY <1>3, <3>2 DEF OtherStep, Fetch, Online, ReceiveDelete, Exit, ReceiveAdd,
         Started, StartTimeout, Authen, Release, StartNext, web, vars
    <3> QED
      BY <3>1, <3>2
  <2> QED
    BY <2>1, StillFree DEF ToWrite
<1> QED
  BY <1>1, <1>2, <1>3, Steps

-----------------------------------------------------------------------------

LEMMA IInvInit == Init => IInv
<1> SUFFICES ASSUME Init PROVE IInv
  OBVIOUS
<1>1. TypeOK
  BY TypeOKInit
<1>2. MadeForTunnel
  BY DEF Init, MadeForTunnel
<1>3. FormGiven /\ LockHeld /\ CheckedIsFree /\ AskedIsFree
  BY DEF Init, FormGiven, LockHeld, CheckedIsFree, AskedIsFree, ToWrite, Form, Request
<1> QED
  BY <1>1, <1>2, <1>3 DEF IInv

LEMMA IInvStep == IInv /\ [Next]_vars => IInv'
<1> SUFFICES ASSUME IInv, [Next]_vars PROVE IInv'
  OBVIOUS
<1> USE DEF IInv
<1>1. TypeOK' /\ MadeForTunnel'
  <2>1. ASSUME NEW r \in Form, FormStep(r) PROVE TypeOK' /\ MadeForTunnel'
    <3>1. TypeOK'
      BY <2>1, WebTypes DEF FormStep, Request, Form
    <3>2. UNCHANGED <<inst, made, authen>>
      BY <2>1 DEF FormStep, BeginAdd, FinishAdd, BeginUpdate, FinishUpdate, Fire, Lock,
                  TestPort, CheckRow, WriteRow, client, bridge
    <3> QED
      BY <3>1, <3>2 DEF MadeForTunnel
  <2>2. ASSUME NEW r \in Delete, DeleteStep(r) PROVE TypeOK' /\ MadeForTunnel'
    <3>1. TypeOK'
      BY <2>2, WebTypes DEF DeleteStep, Request
    <3>2. UNCHANGED <<inst, made, authen>>
      BY <2>2 DEF DeleteStep, DeleteRow, FinishDelete, client, bridge
    <3> QED
      BY <3>1, <3>2 DEF MadeForTunnel
  <2>3. CASE OtherStep
    BY <2>3, OtherTypes
  <2>4. CASE UNCHANGED vars
    BY <2>4 DEF vars, web, client, bridge, TypeOK, MadeForTunnel
  <2> QED
    BY <2>1, <2>2, <2>3, <2>4, Steps
<1>2. FormGiven' /\ LockHeld' /\ CheckedIsFree' /\ AskedIsFree'
  BY FormGivenStep, LockHeldStep, CheckedIsFreeStep, AskedIsFreeStep
<1> QED
  BY <1>1, <1>2

\* The inductive invariant holds in every reachable state.
THEOREM Invariance == Spec => []IInv
BY IInvInit, IInvStep, PTL DEF Spec

\* Every reachable state is type correct.
THEOREM Typing == Spec => []TypeOK
<1>1. IInv => TypeOK
  BY DEF IInv
<1> QED
  BY <1>1, Invariance, PTL

\* An index refuses a row that the queries of /add or /update have let pass only
\* for the name, which they never ask for; or, when another row has been written
\* since the request began, for the local address or the uniqueName, which the
\* lock does not guard, or for the port, after a lock on it has run out under
\* its holder.
THEOREM LockGuardsPorts == Spec => IndexOnlyUnguarded
<1>1. ASSUME IInv, [Next]_vars
      PROVE  [\A r \in Add \cup Update :
                 (phase[r] = "checked" /\ phase'[r] = "unanswered") =>
                     \E t \in Rows \ {TunnelOf[r]} :
                         \/ names[t].name = naming[r].name
                         \/ /\ r \in crossed
                            /\ \/ row[t].local = form[r].local
                               \/ names[t].unique = naming[r].unique
                               \/ \E q \in expired : form[q].port = form[r].port]_vars
  <2> SUFFICES ASSUME NEW r \in Form, phase[r] = "checked", phase'[r] = "unanswered"
               PROVE  \E t \in Rows \ {TunnelOf[r]} :
                          \/ names[t].name = naming[r].name
                          \/ /\ r \in crossed
                             /\ \/ row[t].local = form[r].local
                                \/ names[t].unique = naming[r].unique
                                \/ RanOut(form[r].port)
    BY DEF Form, RanOut
  <2>0. TypeOK /\ FormGiven /\ CheckedIsFree /\ AskedIsFree
    BY <1>1 DEF IInv
  <2>1. ASSUME NEW q \in Form, FormStep(q) PROVE q = r
    BY <2>0, <2>1, FormStepLocally DEF Request, Form
  <2>2. ASSUME NEW q \in Delete, DeleteStep(q) PROVE FALSE
    BY <2>0, <2>2, RequestAssumption
       DEF DeleteStep, DeleteRow, FinishDelete, TypeOK, Request, Form
  <2>3. CASE OtherStep
    <3>1. phase' = phase
      <4>1. CASE \E c \in Port : Expire(c)
        BY <4>1 DEF Expire
      <4>2. CASE ~(\E c \in Port : Expire(c))
        BY <2>3, <4>2 DEF OtherStep, Fetch, Online, ReceiveDelete, Exit, ReceiveAdd,
           Started, StartTimeout, Authen, Release, StartNext, web
      <4> QED
        BY <4>1, <4>2
    <3> QED
      BY <3>1
  <2>4. CASE UNCHANGED vars
    BY <2>4 DEF vars, web
  <2>5. CASE FormStep(r)
    <3>1. WriteRow(r)
      BY <2>0, <2>5 DEF TypeOK, Request, Form, FormStep, BeginAdd, FinishAdd, BeginUpdate, FinishUpdate, Fire, Lock,
                  TestPort, CheckRow
    <3>2. Refuses(TunnelOf[r], form[r], naming[r])
      BY <2>0, <3>1 DEF WriteRow, TypeOK, Request, Form
    <3>3. PICK t \in Rows \ {TunnelOf[r]} :
              Clash(row[t], form[r]) \/ NamesClash(names[t], naming[r])
      BY <3>2 DEF Refuses
    <3>4. CASE r \in crossed
      BY <2>0, <3>3, <3>4 DEF Clash, NamesClash, CheckedIsFree, Rows
    <3>5. CASE r \notin crossed
      <4>1. ~UniqueTaken(TunnelOf[r], naming[r]) /\ ~TakenFor(TunnelOf[r], form[r])
        BY <2>0, <3>5 DEF AskedIsFree, ToWrite
      <4>2. names[t].name = naming[r].name
        BY <3>3, <4>1 DEF UniqueTaken, TakenFor, NamesClash
      <4> QED
        BY <4>2
    <3> QED
      BY <3>4, <3>5
  <2> QED
    BY <1>1, <2>1, <2>2, <2>3, <2>4, <2>5, Steps
<1> QED
  BY <1>1, Invariance, PTL DEF Spec, IndexOnlyUnguarded

\* An instance that runs gets out of ALL_TUNNEL_MAP only when another one for
\* the same tunnel takes its place (client.js, createTunnel and DELETE_TUNNEL).
THEOREM InstancesAreReplaced == Spec => LostOnlyByReplacement
<1>1. ASSUME IInv, [Next]_vars
      PROVE  [\A i \in Inst : (Lost(i)' /\ ~Lost(i)) =>
                 \E j \in Inst \ {i} : Started(j) /\ made[j].id = made[i].id]_vars
  <2> SUFFICES ASSUME NEW i \in Inst, Lost(i)', ~Lost(i)
               PROVE  \E j \in Inst \ {i} : Started(j) /\ made[j].id = made[i].id
    OBVIOUS
  <2>0. TypeOK /\ MadeForTunnel
    BY <1>1 DEF IInv
  <2>1. ASSUME NEW r \in Form, FormStep(r) PROVE UNCHANGED client
    BY <2>1 DEF FormStep, BeginAdd, FinishAdd, BeginUpdate, FinishUpdate, Fire, Lock,
                TestPort, CheckRow, WriteRow
  <2>2. ASSUME NEW r \in Delete, DeleteStep(r) PROVE UNCHANGED client
    BY <2>2 DEF DeleteStep, DeleteRow, FinishDelete
  <2>3. ASSUME NEW j \in Inst, Started(j)
        PROVE  j # i /\ made[j].id = made[i].id
    <3>1. /\ inst \in [Inst -> InstState] /\ inst[j] = "connecting"
          /\ inst' = [inst EXCEPT ![j] = "running"]
          /\ map \in [Tunnel -> Inst \cup {None}] /\ map' = [map EXCEPT ![made[j].id] = j]
          /\ made' = made
          /\ made[j].id \in Tunnel
      BY <2>0, <2>3 DEF Started, TypeOK, MadeForTunnel
    <3>2. j # i
      BY <3>1 DEF Lost
    <3>3. inst[i] = "running" /\ map[made[i].id] = i /\ map'[made[i].id] # i
      BY <3>1, <3>2 DEF Lost
    <3> QED
      BY <3>1, <3>2, <3>3
  <2>4. ASSUME ReceiveDelete PROVE FALSE
    <3>1. Receives("DELETE_TUNNEL")
      BY <2>4 DEF ReceiveDelete
    <3>2. Head(inbox).id \in Tunnel
      BY <2>0, <3>1, ReceivesType DEF Message
    <3>3. inst[i] = "running" /\ map[made[i].id] = i
      <4>1. inst'[i] = "running" => inst[i] = "running"
        BY <2>0, <2>4 DEF ReceiveDelete, TypeOK
      <4> QED
        BY <4>1 DEF Lost
    <3>4. map[Head(inbox).id] = i => inst'[i] = "stopped"
      BY <2>0, <2>4, <3>3, RequestAssumption DEF ReceiveDelete, TypeOK, Request
    <3>5. made' = made /\ map' = [map EXCEPT ![Head(inbox).id] = None]
      BY <2>4 DEF ReceiveDelete
    <3>6. map[Head(inbox).id] # i
      BY <3>4 DEF Lost
    <3>7. map'[made[i].id] = i
      BY <2>0, <3>2, <3>3, <3>5, <3>6 DEF MadeForTunnel, TypeOK
    <3> QED
      BY <3>5, <3>7 DEF Lost
  <2>5. ASSUME Exit PROVE FALSE
    BY <2>5 DEF Exit, Lost
  <2>6. ASSUME Fetch \/ Online \/ (\E p \in Port : Expire(p))
               \/ UNCHANGED vars \/ UNCHANGED client
        PROVE  FALSE
    BY <2>6 DEF Fetch, Online, Expire, vars, client, Lost
  <2>7. ASSUME NEW j \in Inst,
               \/ ReceiveAdd(j) \/ StartTimeout(j) \/ Authen(j) \/ Release(j)
               \/ \E t \in Tunnel : StartNext(j, t)
        PROVE  FALSE
    <3>1. map' = map
      BY <2>7 DEF ReceiveAdd, StartTimeout, Authen, Release, StartNext
    <3>2. inst' = inst \/ \E x \in InstState \ {"running"} : inst' = [inst EXCEPT ![j] = x]
      BY <2>7 DEF ReceiveAdd, Create, StartTimeout, Authen, Release, StartNext, InstState
    <3>3. \/ made' = made
          \/ inst'[j] = "connecting" /\ \E x : made' = [made EXCEPT ![j] = x]
      BY <2>0, <2>7 DEF ReceiveAdd, Create, StartTimeout, Authen, Release, StartNext, TypeOK
    <3>4. inst'[i] = "running" => inst[i] = "running"
      BY <2>0, <3>2 DEF TypeOK
    <3>5. inst'[i] = "running" => made'[i] = made[i]
      BY <2>0, <3>3 DEF TypeOK
    <3> QED
      BY <3>1, <3>4, <3>5 DEF Lost
  <2> QED
    BY <1>1, <2>1, <2>2, <2>3, <2>4, <2>5, <2>6, <2>7, Steps DEF OtherStep
<1> QED
  BY <1>1, Invariance, PTL DEF Spec, LostOnlyByReplacement

-----------------------------------------------------------------------------
(* Clients are not told to quit                                            *)

HasRow(t) == row[t] # None

\* Whatever will be an authen message one day is of a tunnel that has a row: what
\* a handler or a timer will notify, the notifications, what main has fetched,
\* and the instances up to the answer of the bridge.
RequestsHaveRows ==
    /\ \A r \in Add : phase[r] = "written" => HasRow(TunnelOf[r])
    /\ \A r \in Update : timer[r] # None => HasRow(TunnelOf[r])

InboxHasRows ==
    \A k \in 1..Len(inbox) : inbox[k].cmd = "ADD_TUNNEL" => HasRow(inbox[k].id)

TodoHasRows == \A t \in Tunnel : todo[t] # None => HasRow(t)

InstancesHaveRows ==
    \A i \in Inst : (inst[i] = "connecting" \/ i \in authen) => HasRow(made[i].id)

Spared ==
    ~rushed => /\ RequestsHaveRows
               /\ InboxHasRows
               /\ TodoHasRows
               /\ InstancesHaveRows
               /\ proc # "exiting"

\* A notification of a tunnel that has a row, put behind the others.
LEMMA NotifyHasRow ==
  ASSUME TypeOK, NEW m \in Message, Notify(m), InboxHasRows,
         m.cmd = "ADD_TUNNEL" => HasRow(m.id), row' = row
  PROVE  InboxHasRows'
<1>1. CASE inbox' = inbox
  BY <1>1 DEF InboxHasRows, HasRow
<1>2. CASE inbox' = Append(inbox, m)
  <2>1. inbox \in Seq(Message)
    BY DEF TypeOK
  <2>2. /\ Len(inbox') = Len(inbox) + 1
        /\ \A k \in 1..Len(inbox) : inbox'[k] = inbox[k]
        /\ inbox'[Len(inbox) + 1] = m
    BY <1>2, <2>1
  <2>3. ASSUME NEW k \in 1..Len(inbox') PROVE k \in 1..Len(inbox) \/ k = Len(inbox) + 1
    BY <2>1, <2>2
  <2> QED
    BY <2>2, <2>3 DEF InboxHasRows, HasRow
<1> QED
  BY <1>1, <1>2 DEF Notify

\* What a step leaves alone still has its rows, as no row goes.
LEMMA RowsStay ==
  ASSUME \A t \in Tunnel : HasRow(t) => HasRow(t)', TypeOK, MadeForTunnel
  PROVE  /\ InboxHasRows /\ inbox' = inbox => InboxHasRows'
         /\ TodoHasRows /\ UNCHANGED client => TodoHasRows'
         /\ InstancesHaveRows /\ UNCHANGED <<client, bridge>> => InstancesHaveRows'
<1>1. ASSUME InboxHasRows, inbox' = inbox PROVE InboxHasRows'
  <2> SUFFICES ASSUME NEW k \in 1..Len(inbox), inbox[k].cmd = "ADD_TUNNEL"
               PROVE  HasRow(inbox[k].id)'
    BY <1>1 DEF InboxHasRows
  <2>1. inbox[k] \in Message
    BY DEF TypeOK
  <2>2. inbox[k].id \in Tunnel
    BY <2>1 DEF Message
  <2>3. HasRow(inbox[k].id)
    BY <1>1 DEF InboxHasRows
  <2> QED
    BY <1>1, <2>2, <2>3 DEF HasRow
<1>2. ASSUME TodoHasRows, UNCHANGED client PROVE TodoHasRows'
  BY <1>2 DEF TodoHasRows, client
<1>3. ASSUME InstancesHaveRows, UNCHANGED <<client, bridge>> PROVE InstancesHaveRows'
  BY <1>3 DEF InstancesHaveRows, client, bridge, HasRow, MadeForTunnel
<1> QED
  BY <1>1, <1>2, <1>3

\* The web pages: an add and an update take no row away, and notify the client of
\* tunnels that have one.
LEMMA FormStepSpares ==
  ASSUME IInv, Spared, NEW r \in Form, FormStep(r)
  PROVE  Spared'
<1> SUFFICES ASSUME ~rushed' PROVE Spared'
  BY DEF Spared
<1> USE RequestAssumption
<1>0. /\ TypeOK /\ FormGiven /\ MadeForTunnel /\ r \in Request /\ TunnelOf[r] \in Tunnel
      /\ phase[r] # "new" => form[r] \in Setting /\ form[r] # None
  BY DEF IInv, Form, Request, FormGiven
<1>1. ~rushed /\ UNCHANGED <<client, bridge>>
  <2>1. UNCHANGED <<client, bridge>>
    BY DEF FormStep, BeginAdd, FinishAdd, BeginUpdate, FinishUpdate, Fire, Lock, TestPort,
           CheckRow, WriteRow
  <2>2. \/ rushed' = rushed
        \/ Begins
        \/ rushed' = (rushed \/ inbox # <<>> \/ \E i \in Inst : inst[i] = "stopped")
    BY DEF FormStep, BeginAdd, FinishAdd, BeginUpdate, FinishUpdate, Fire, Lock, TestPort,
           CheckRow, WriteRow
  <2>3. rushed => rushed'
    BY <2>2, Zenon DEF Begins
  <2> QED
    BY <2>1, <2>3
<1>2. RequestsHaveRows /\ InboxHasRows /\ TodoHasRows /\ InstancesHaveRows /\ proc # "exiting"
  BY <1>1 DEF Spared
<1>3. \A t \in Tunnel : HasRow(t) => HasRow(t)'
  BY <1>0, FormStepRows DEF WritesOwnRow, HasRow, TypeOK
<1>4. TodoHasRows' /\ InstancesHaveRows' /\ proc' # "exiting"
  BY <1>0, <1>1, <1>2, <1>3, RowsStay DEF client
<1>5. InboxHasRows'
  <2>1. CASE r \in Add /\ FinishAdd(r)
    <3>1. HasRow(TunnelOf[r]) /\ form[r] \in Setting
      BY <1>0, <1>2, <2>1 DEF FinishAdd, RequestsHaveRows
    <3>2. /\ AddTunnel(TunnelOf[r], form[r]) \in Message
          /\ AddTunnel(TunnelOf[r], form[r]).id = TunnelOf[r]
      BY <1>0, <3>1, MessageType DEF AddTunnel
    <3> QED
      BY <1>0, <1>2, <2>1, <3>1, <3>2, NotifyHasRow DEF FinishAdd
  <2>2. CASE r \in Update /\ FinishUpdate(r)
    <3>1. /\ DeleteTunnel(TunnelOf[r]) \in Message
          /\ DeleteTunnel(TunnelOf[r]).cmd # "ADD_TUNNEL"
      BY <1>0, MessageType DEF DeleteTunnel
    <3>2. row' = row /\ (inbox' = inbox \/ Notify(DeleteTunnel(TunnelOf[r])))
      BY <2>2 DEF FinishUpdate
    <3> QED
      BY <1>0, <1>2, <1>3, <3>1, <3>2, NotifyHasRow, RowsStay
  <2>3. CASE r \in Update /\ Fire(r)
    <3>1. HasRow(TunnelOf[r]) /\ timer[r] \in Setting
      BY <1>0, <1>2, <2>3 DEF Fire, RequestsHaveRows, TypeOK
    <3>2. /\ AddTunnel(TunnelOf[r], timer[r]) \in Message
          /\ AddTunnel(TunnelOf[r], timer[r]).id = TunnelOf[r]
      BY <1>0, <3>1, MessageType DEF AddTunnel
    <3> QED
      BY <1>0, <1>2, <2>3, <3>1, <3>2, NotifyHasRow DEF Fire
  <2>4. CASE inbox' = inbox
    BY <1>0, <1>2, <1>3, <2>4, RowsStay
  <2> QED
    BY <2>1, <2>2, <2>3, <2>4
       DEF FormStep, BeginAdd, BeginUpdate, Lock, TestPort, CheckRow, WriteRow
<1>6. RequestsHaveRows'
  <2>1. ASSUME NEW q \in Add, phase'[q] = "written" PROVE HasRow(TunnelOf[q])'
    <3>1. TunnelOf[q] \in Tunnel /\ q \in Request
      BY DEF Request
    <3>2. CASE phase[q] = "written"
      BY <1>2, <1>3, <3>1, <3>2 DEF RequestsHaveRows
    <3>3. CASE phase[q] # "written"
      <4>1. q = r
        BY <1>0, <2>1, <3>1, <3>3, FormStepLocally
      <4>2. WriteRow(r)
        BY <1>0, <2>1, <3>3, <4>1
           DEF TypeOK, FormStep, BeginAdd, FinishAdd, BeginUpdate, FinishUpdate, Fire, Lock,
               TestPort, CheckRow
      <4>3. row' = [row EXCEPT ![TunnelOf[r]] = form[r]] /\ phase[r] = "checked"
        BY <1>0, <2>1, <4>1, <4>2 DEF WriteRow, TypeOK
      <4> QED
        BY <1>0, <4>1, <4>3 DEF HasRow, TypeOK
    <3> QED
      BY <3>2, <3>3
  <2>2. ASSUME NEW q \in Update, timer'[q] # None PROVE HasRow(TunnelOf[q])'
    <3>1. TunnelOf[q] \in Tunnel
      BY DEF Request
    <3>2. CASE timer[q] # None
      BY <1>2, <1>3, <3>1, <3>2 DEF RequestsHaveRows
    <3>3. CASE timer[q] = None
      <4>1. r \in Update /\ FinishUpdate(r)
        BY <1>0, <2>2, <3>3
           DEF TypeOK, FormStep, BeginAdd, FinishAdd, BeginUpdate, Fire, Lock, TestPort,
               CheckRow, WriteRow
      <4>2. q = r /\ row[TunnelOf[r]] # None /\ row' = row
        BY <1>0, <2>2, <3>3, <4>1 DEF FinishUpdate, TypeOK
      <4> QED
        BY <4>2 DEF HasRow
    <3> QED
      BY <3>2, <3>3
  <2> QED
    BY <2>1, <2>2 DEF RequestsHaveRows
<1> QED
  BY <1>4, <1>5, <1>6 DEF Spared

\* A deletion takes its row away when nothing is under way, and then nothing is
\* in the way of it.
LEMMA DeleteStepSpares ==
  ASSUME IInv, Spared, NEW r \in Delete, DeleteStep(r)
  PROVE  Spared'
<1> SUFFICES ASSUME ~rushed' PROVE Spared'
  BY DEF Spared
<1> USE RequestAssumption
<1>0. TypeOK /\ MadeForTunnel /\ r \in Request /\ r \notin Add /\ TunnelOf[r] \in Tunnel
  BY DEF IInv, Request
<1>1. ~rushed /\ UNCHANGED <<client, bridge, timer>>
  <2>1. UNCHANGED <<client, bridge, timer>> /\ (rushed' = rushed \/ Begins)
    BY DEF DeleteStep, DeleteRow, FinishDelete
  <2>2. rushed => rushed'
    BY <2>1, Zenon DEF Begins
  <2> QED
    BY <2>1, <2>2
<1>2. RequestsHaveRows /\ InboxHasRows /\ TodoHasRows /\ InstancesHaveRows /\ proc # "exiting"
  BY <1>1 DEF Spared
<1>3. \A q \in Add : phase'[q] = phase[q]
  BY <1>0 DEF DeleteStep, DeleteRow, FinishDelete, TypeOK, Request
<1>4. CASE DeleteRow(r)
  <2>1. Quiet /\ inbox' = inbox
    BY <1>4 DEF DeleteRow, Begins
  <2>2. RequestsHaveRows'
    BY <1>1, <1>3, <2>1 DEF RequestsHaveRows, Quiet, Busy, Request
  <2>3. InboxHasRows'
    BY <2>1 DEF InboxHasRows, Quiet
  <2>4. TodoHasRows' /\ InstancesHaveRows'
    BY <1>1, <2>1 DEF TodoHasRows, InstancesHaveRows, Quiet, client, bridge
  <2> QED
    BY <1>1, <1>2, <2>2, <2>3, <2>4 DEF Spared, client
<1>5. CASE FinishDelete(r)
  <2>1. row' = row /\ Notify(DeleteTunnel(TunnelOf[r]))
    BY <1>5 DEF FinishDelete
  <2>2. /\ DeleteTunnel(TunnelOf[r]) \in Message
        /\ DeleteTunnel(TunnelOf[r]).cmd # "ADD_TUNNEL"
    BY <1>0, MessageType DEF DeleteTunnel
  <2>3. InboxHasRows'
    BY <1>0, <1>2, <2>1, <2>2, NotifyHasRow
  <2>4. RequestsHaveRows'
    BY <1>1, <1>2, <1>3, <2>1 DEF RequestsHaveRows, HasRow
  <2>5. TodoHasRows' /\ InstancesHaveRows'
    BY <1>0, <1>1, <1>2, <2>1, RowsStay DEF HasRow
  <2> QED
    BY <1>1, <1>2, <2>3, <2>4, <2>5 DEF Spared, client
<1> QED
  BY <1>4, <1>5 DEF DeleteStep

\* The client starts what has a row, and the bridge finds the row.
LEMMA OtherStepSpares ==
  ASSUME IInv, Spared, OtherStep
  PROVE  Spared'
<1> SUFFICES ASSUME ~rushed' PROVE Spared'
  BY DEF Spared
<1> USE RequestAssumption
<1>0. TypeOK /\ MadeForTunnel
  BY DEF IInv
<1>1. ~rushed /\ UNCHANGED <<row, phase, timer>>
  <2>1. UNCHANGED <<row, phase, timer>>
    BY DEF OtherStep, Expire, Fetch, Online, ReceiveDelete, Exit, ReceiveAdd, Started,
           StartTimeout, Authen, Release, StartNext, web
  <2>2. rushed' = rushed \/ Begins \/ rushed' = TRUE
    BY DEF OtherStep, Expire, Fetch, Online, ReceiveDelete, Exit, ReceiveAdd, Started,
           StartTimeout, Authen, Release, StartNext
  <2>3. rushed => rushed'
    BY <2>2, Zenon DEF Begins
  <2> QED
    BY <2>1, <2>3
<1>2. RequestsHaveRows /\ InboxHasRows /\ TodoHasRows /\ InstancesHaveRows /\ proc # "exiting"
  BY <1>1 DEF Spared
<1>3. RequestsHaveRows' /\ (\A t \in Tunnel : HasRow(t) => HasRow(t)')
  BY <1>1, <1>2 DEF RequestsHaveRows, HasRow
<1>4. inbox' = inbox => InboxHasRows'
  BY <1>0, <1>2, <1>3, RowsStay
<1>5. ASSUME NEW cmd, Receives(cmd) PROVE InboxHasRows'
  <2>1. inbox \in Seq(Message) /\ inbox # <<>> /\ inbox' = Tail(inbox)
    BY <1>0, <1>5 DEF TypeOK, Receives
  <2>2. \A k \in 1..Len(inbox') : k + 1 \in 1..Len(inbox) /\ inbox'[k] = inbox[k + 1]
    BY <2>1
  <2> QED
    BY <1>1, <1>2, <2>2 DEF InboxHasRows, HasRow
<1>6. CASE \E p \in Port : Expire(p)
  <2>1. UNCHANGED <<client, bridge, inbox>>
    BY <1>6 DEF Expire
  <2> QED
    BY <1>0, <1>2, <1>3, <2>1, RowsStay DEF Spared, client
<1>7. CASE Fetch
  BY <1>1, <1>2, <1>3, <1>4, <1>7
     DEF Fetch, bridge, Spared, TodoHasRows, InstancesHaveRows, HasRow
<1>8. CASE Online
  BY <1>1, <1>2, <1>3, <1>4, <1>8
     DEF Online, bridge, Spared, TodoHasRows, InstancesHaveRows, HasRow
<1>9. CASE ReceiveDelete
  <2>1. InboxHasRows'
    BY <1>5, <1>9 DEF ReceiveDelete
  <2>2. \A i \in Inst : inst'[i] = "connecting" => inst[i] = "connecting"
    BY <1>0, <1>9 DEF ReceiveDelete, TypeOK
  <2> QED
    BY <1>1, <1>2, <1>3, <1>9, <2>1, <2>2
       DEF ReceiveDelete, bridge, Spared, TodoHasRows, InstancesHaveRows, HasRow
<1>10. CASE Exit
  <2>1. inbox' = <<>> /\ todo' = [t \in Tunnel |-> None] /\ proc' = "off"
    BY <1>10 DEF Exit
  <2>2. \A i \in Inst : inst'[i] # "connecting"
    BY <1>10 DEF Exit
  <2>3. UNCHANGED <<made, authen>>
    BY <1>10 DEF Exit, bridge
  <2> QED
    BY <1>1, <1>2, <1>3, <2>1, <2>2, <2>3
       DEF Spared, InboxHasRows, TodoHasRows, InstancesHaveRows, HasRow
<1>11. ASSUME NEW i \in Inst, ReceiveAdd(i) PROVE Spared'
  <2>1. InboxHasRows' /\ Receives("ADD_TUNNEL")
    BY <1>5, <1>11 DEF ReceiveAdd
  <2>2. Head(inbox).cmd = "ADD_TUNNEL" /\ 1 \in 1..Len(inbox) /\ Head(inbox) = inbox[1]
    BY <1>0, <2>1 DEF Receives, TypeOK
  <2>3. HasRow(Head(inbox).id)
    BY <1>2, <2>2 DEF InboxHasRows
  <2>4. InstancesHaveRows'
    BY <1>0, <1>1, <1>2, <1>11, <2>3
       DEF ReceiveAdd, Create, bridge, TypeOK, MadeForTunnel, InstancesHaveRows, HasRow
  <2> QED
    BY <1>1, <1>2, <1>3, <1>11, <2>1, <2>4 DEF ReceiveAdd, Spared, TodoHasRows, HasRow
<1>12. ASSUME NEW i \in Inst, Started(i) PROVE Spared'
  <2>1. InstancesHaveRows'
    BY <1>0, <1>1, <1>2, <1>12 DEF Started, TypeOK, InstancesHaveRows, HasRow
  <2> QED
    BY <1>1, <1>2, <1>3, <1>4, <1>12, <2>1 DEF Started, Spared, TodoHasRows, HasRow
<1>13. ASSUME NEW i \in Inst, StartTimeout(i) PROVE Spared'
  BY <1>1, <1>13 DEF StartTimeout
<1>14. ASSUME NEW i \in Inst, Authen(i) PROVE Spared'
  <2>1. HasRow(made[i].id)
    BY <1>2, <1>14 DEF Authen, InstancesHaveRows
  <2>2. proc' = proc /\ UNCHANGED <<todo, inbox, inst, made>> /\ authen' \subseteq authen
    BY <1>14, <2>1 DEF Authen, HasRow
  <2> QED
    BY <1>1, <1>2, <1>3, <1>4, <2>2 DEF Spared, TodoHasRows, InstancesHaveRows, HasRow
<1>15. ASSUME NEW i \in Inst, Release(i) PROVE Spared'
  <2>1. InstancesHaveRows'
    BY <1>0, <1>1, <1>2, <1>15 DEF Release, TypeOK, InstancesHaveRows, HasRow
  <2> QED
    BY <1>1, <1>2, <1>3, <1>4, <1>15, <2>1 DEF Release, Spared, TodoHasRows, HasRow
<1>16. ASSUME NEW i \in Inst, NEW t \in Tunnel, StartNext(i, t) PROVE Spared'
  <2>1. HasRow(t)
    BY <1>2, <1>16 DEF StartNext, TodoHasRows
  <2>2. InstancesHaveRows'
    BY <1>0, <1>1, <1>2, <1>16, <2>1
       DEF StartNext, Create, bridge, TypeOK, MadeForTunnel, InstancesHaveRows, HasRow
  <2>3. TodoHasRows'
    BY <1>0, <1>1, <1>2, <1>16 DEF StartNext, TypeOK, TodoHasRows, HasRow
  <2> QED
    BY <1>2, <1>3, <1>4, <1>16, <2>2, <2>3 DEF StartNext, Spared
<1> QED
  BY <1>6, <1>7, <1>8, <1>9, <1>10, <1>11, <1>12, <1>13, <1>14, <1>15, <1>16 DEF OtherStep

\* A client whose tunnels are added, updated and deleted one after the other is
\* never told to quit (quitClient of the bridge, in answer to an authen without a
\* row): only a deletion takes a row away, and then nothing waits for it.
THEOREM ClientsAreSpared == Spec => []ClientIsSpared
<1>1. Init => Spared
  BY DEF Init, Spared, RequestsHaveRows, InboxHasRows, TodoHasRows, InstancesHaveRows, Request
<1>2. IInv /\ Spared /\ [Next]_vars => Spared'
  <2> SUFFICES ASSUME IInv, Spared, [Next]_vars PROVE Spared'
    OBVIOUS
  <2>1. CASE UNCHANGED vars
    BY <2>1 DEF vars, web, client, bridge, Spared, RequestsHaveRows, InboxHasRows,
                TodoHasRows, InstancesHaveRows, HasRow
  <2> QED
    BY <2>1, Steps, FormStepSpares, DeleteStepSpares, OtherStepSpares
<1>3. Spared => ClientIsSpared
  BY DEF Spared, ClientIsSpared
<1> QED
  BY <1>1, <1>2, <1>3, Invariance, PTL DEF Spec

-----------------------------------------------------------------------------
(* One thing after the other                                               *)

\* Two rows never clash, an add is for a tunnel that has no row until it writes
\* one, and the bridge has nothing of an instance that was never made.
RowsDiffer ==
    \A t, u \in Tunnel : (t # u /\ row[t] # None /\ row[u] # None) => ~Clash(row[t], row[u])

Early == {"new", "waiting", "locked", "tested", "checked"}
AddsAreNew == \A r \in Add : phase[r] \in Early => row[TunnelOf[r]] = None

UnusedIsUnbound == \A i \in Inst : inst[i] = "unused" => port[i] = None

TableInv == RowsDiffer /\ AddsAreNew /\ UnusedIsUnbound

\* The instances that the client or the bridge has something of, and the only
\* one there is for tunnel t.
Alive(i) == inst[i] \notin {"unused", "closed"} \/ i \in authen \/ port[i] # None
Sole(t, i) == \A j \in Inst : (Alive(j) /\ made[j].id = t) => j = i

ServedBy(t, s, i) ==
    /\ Sole(t, i) /\ made[i] = [id |-> t, setting |-> s] /\ map[t] = i
    /\ inst[i] = "running" /\ i \notin authen /\ port[i] = s.port

StartedBy(t, i) ==
    /\ Sole(t, i) /\ made[i] = [id |-> t, setting |-> row[t]] /\ port[i] = None
    /\ \/ inst[i] = "connecting" /\ i \notin authen /\ map[t] = None
       \/ inst[i] = "running" /\ i \in authen /\ map[t] = i

StoppedBy(t, i) ==
    /\ Sole(t, i) /\ made[i].id = t /\ map[t] = None
    /\ inst[i] = "stopped" /\ i \notin authen

\* What there is of a tunnel: nothing; an instance that serves the settings of
\* Served; one on its way to serve the row; one that has been stopped.  A tunnel
\* is settled that is as its row says.
Bare == {t \in Tunnel : map[t] = None /\ \A i \in Inst : made[i].id = t => ~Alive(i)}
Served == [t \in Tunnel |-> {s \in Setting : \E i \in Inst : ServedBy(t, s, i)}]
Starting == {t \in Rows : \E i \in Inst : StartedBy(t, i)}
Ending == {t \in Tunnel : \E i \in Inst : StoppedBy(t, i)}
Settled == {t \in Tunnel : IF row[t] # None THEN row[t] \in Served[t] ELSE t \in Bare}

Handling == {r \in Request : Busy(r)}
Timers == {r \in Update : timer[r] # None}
NoTodo == \A t \in Tunnel : todo[t] = None

\* The stages of a client and its tunnels.  It is off; it starts what it has
\* fetched, or has done so; a request is being checked.
Down ==
    /\ proc = "off" /\ inbox = <<>> /\ NoTodo /\ authen = {}
    /\ \A t \in Tunnel : map[t] = None
    /\ \A i \in Inst : /\ inst[i] \in {"unused", "left", "closed"}
                       /\ port[i] # None => inst[i] = "left"

Launching ==
    /\ proc \in {"fetched", "up"} /\ inbox = <<>>
    /\ Handling = {} /\ Timers = {}
    /\ \A t \in Tunnel :
          \/ todo[t] = None /\ t \in Settled \cup Starting
          \/ todo[t] = row[t] /\ t \in Rows \cap Bare

Checking(r) ==
    /\ proc = "up" /\ NoTodo /\ inbox = <<>>
    /\ Handling = {r} /\ Timers = {} /\ phase[r] # "written"
    /\ Tunnel \subseteq Settled
    /\ r \in Update => old[r] = row[TunnelOf[r]]
    /\ r \in Update /\ phase[r] \in {"tested", "checked"} => old[r] # None

\* A request has written, so that its tunnel is behind its row.
Written(r) ==
    LET t == TunnelOf[r] IN
    /\ proc = "up" /\ NoTodo /\ inbox = <<>>
    /\ Handling = {r} /\ Timers = {} /\ phase[r] = "written"
    /\ Tunnel \ {t} \subseteq Settled
    /\ r \in Add => row[t] # None /\ row[t] = form[r] /\ t \in Bare
    /\ r \in Update => row[t] # None /\ old[r] \in Served[t]
    /\ r \in Delete => row[t] = None /\ Served[t] # {}

\* A tunnel is stopped, for a second or, without a row, for good.
Stopping(t) ==
    /\ proc = "up" /\ NoTodo
    /\ Handling = {} /\ Tunnel \ {t} \subseteq Settled
    /\ \/ row[t] = None /\ Timers = {}
       \/ \E r \in Update : /\ Timers = {r} /\ TunnelOf[r] = t
                            /\ row[t] # None /\ timer[r] = row[t]
    /\ \/ inbox = <<DeleteTunnel(t)>> /\ Served[t] # {}
       \/ inbox = <<>> /\ t \in Ending \cup Bare

\* An ADD_TUNNEL is on its way.
Announced(t) ==
    /\ proc = "up" /\ NoTodo
    /\ Handling = {} /\ Timers = {} /\ Tunnel \ {t} \subseteq Settled
    /\ row[t] # None /\ t \in Bare
    /\ inbox = <<AddTunnel(t, row[t])>>

Stages ==
    \/ Down \/ Launching
    \/ \E r \in Request : Checking(r) \/ Written(r)
    \/ \E t \in Tunnel : Stopping(t) \/ Announced(t)

-----------------------------------------------------------------------------

\* The table: rows, adds and instances, whoever comes first.
LEMMA FormStepTable ==
  ASSUME IInv, TableInv, NEW r \in Form, FormStep(r)
  PROVE  TableInv'
<1> USE RequestAssumption
<1>0. /\ TypeOK /\ r \in Request /\ TunnelOf[r] \in Tunnel /\ phase \in [Request -> Phase]
      /\ row \in [Tunnel -> Setting \cup {None}]
      /\ phase[r] # "new" => form[r] # None
  BY DEF IInv, TypeOK, Form, Request, FormGiven
<1>1. RowsDiffer /\ AddsAreNew /\ UnusedIsUnbound
  BY DEF TableInv
<1>2. CASE row' = row
  <2>1. RowsDiffer'
    BY <1>1, <1>2 DEF RowsDiffer
  <2>2. \A q \in Add : phase'[q] \in Early => phase[q] \in Early
    <3> SUFFICES ASSUME NEW q \in Add, phase'[q] \in Early PROVE phase[q] \in Early
      OBVIOUS
    <3>1. q \in Request
      BY DEF Request
    <3>2. CASE q # r
      BY <1>0, <3>1, <3>2, FormStepLocally DEF IInv
    <3>3. CASE q = r
      BY <1>0, <3>1, <3>3
         DEF FormStep, BeginAdd, BeginUpdate, Lock, TestPort, CheckRow, WriteRow, FinishAdd,
             FinishUpdate, Fire, Early
    <3>4. QED
      BY <3>2, <3>3
  <2>3. AddsAreNew'
    BY <1>1, <1>2, <2>2 DEF AddsAreNew
  <2>4. UNCHANGED <<inst, port>>
    BY DEF FormStep, BeginAdd, BeginUpdate, Lock, TestPort, CheckRow, WriteRow, FinishAdd,
           FinishUpdate, Fire, client, bridge
  <2>5. QED
    BY <1>1, <2>1, <2>3, <2>4 DEF TableInv, UnusedIsUnbound
<1>3. CASE row' # row
  <2>1. WriteRow(r)
    BY <1>3 DEF FormStep, BeginAdd, BeginUpdate, Lock, TestPort, CheckRow, FinishAdd,
                FinishUpdate, Fire
  <2>2. /\ phase[r] = "checked" /\ phase' = [phase EXCEPT ![r] = "written"]
        /\ row' = [row EXCEPT ![TunnelOf[r]] = form[r]]
        /\ r \in Add \/ row[TunnelOf[r]] # None
        /\ ~Refuses(TunnelOf[r], form[r], naming[r])
    BY <1>3, <2>1 DEF WriteRow
  <2>3. RowsDiffer'
    BY <1>0, <1>1, <2>2 DEF RowsDiffer, Refuses, Rows, Clash
  <2>4. ASSUME NEW q \in Add, phase'[q] \in Early PROVE row'[TunnelOf[q]] = None
    <3>1. q # r /\ q \in Request /\ phase[q] \in Early /\ TunnelOf[q] \in Tunnel
      BY <1>0, <2>2, <2>4 DEF Early, Request
    <3>2. row[TunnelOf[q]] = None
      BY <1>1, <3>1 DEF AddsAreNew
    <3>3. TunnelOf[q] # TunnelOf[r]
      BY <2>2, <3>1, <3>2
    <3>4. QED
      BY <1>0, <2>2, <3>1, <3>2, <3>3
  <2>5. UNCHANGED <<inst, port>>
    BY <2>1 DEF WriteRow, client, bridge
  <2>6. QED
    BY <1>1, <2>3, <2>4, <2>5 DEF TableInv, AddsAreNew, UnusedIsUnbound
<1>4. QED
  BY <1>2, <1>3

\* A deletion takes rows away only, and the others leave the table alone.
LEMMA TableStep ==
  ASSUME IInv, TableInv, [Next]_vars
  PROVE  TableInv'
<1> USE RequestAssumption
<1>0. /\ TypeOK /\ MadeForTunnel /\ phase \in [Request -> Phase]
      /\ row \in [Tunnel -> Setting \cup {None}]
      /\ RowsDiffer /\ AddsAreNew /\ UnusedIsUnbound
  BY DEF IInv, TypeOK, TableInv
<1>1. ASSUME NEW r \in Form, FormStep(r) PROVE TableInv'
  BY <1>1, FormStepTable
<1>2. ASSUME NEW r \in Delete, DeleteStep(r) PROVE TableInv'
  <2>1. TunnelOf[r] \in Tunnel /\ r \in Request /\ r \notin Add
    BY DEF Request
  <2>2. \A t \in Tunnel : row'[t] \in {row[t], None}
    BY <1>0, <1>2, <2>1 DEF DeleteStep, DeleteRow, FinishDelete
  <2>3. \A q \in Add : phase'[q] = phase[q]
    BY <1>0, <1>2, <2>1 DEF DeleteStep, DeleteRow, FinishDelete, Request
  <2>4. UNCHANGED <<inst, port>>
    BY <1>2 DEF DeleteStep, DeleteRow, FinishDelete, client, bridge
  <2>5. RowsDiffer'
    BY <1>0, <2>2 DEF RowsDiffer
  <2>6. AddsAreNew'
    BY <1>0, <2>2, <2>3 DEF AddsAreNew, Request
  <2>7. QED
    BY <1>0, <2>4, <2>5, <2>6 DEF TableInv, UnusedIsUnbound
<1>3. CASE OtherStep
  <2>1. UNCHANGED <<row, phase>>
    BY <1>3 DEF OtherStep, Expire, Fetch, Online, ReceiveDelete, Exit, ReceiveAdd, Started,
       StartTimeout, Authen, Release, StartNext, web
  <2>2. inst \in [Inst -> InstState] /\ port \in [Inst -> Port \cup {None}]
    BY <1>0 DEF TypeOK
  <2>3. \A i \in Inst : inst'[i] = "unused" => inst[i] = "unused" /\ port'[i] \in {port[i], None}
    <3>1. CASE \E i \in Inst : Authen(i)
      BY <1>0, <2>2, <3>1 DEF Authen, MadeForTunnel
    <3>2. CASE ~\E i \in Inst : Authen(i)
      BY <1>3, <2>2, <3>2
         DEF OtherStep, Expire, Fetch, Online, ReceiveDelete, Exit, ReceiveAdd, Started,
             StartTimeout, Release, StartNext, Create, client, bridge, InstState
    <3>3. QED
      BY <3>1, <3>2
  <2>4. QED
    BY <1>0, <2>1, <2>3 DEF TableInv, RowsDiffer, AddsAreNew, UnusedIsUnbound
<1>4. CASE UNCHANGED vars
  BY <1>0, <1>4 DEF vars, web, client, bridge, TableInv, RowsDiffer, AddsAreNew,
     UnusedIsUnbound
<1>5. QED
  BY <1>1, <1>2, <1>3, <1>4, Steps

\* What there is of a tunnel stays if nobody touches its row, its place in the
\* map and its instance.
LEMMA TunnelKept ==
  ASSUME TypeOK, NEW u \in Tunnel, row'[u] = row[u], map'[u] = map[u],
         \A i \in Inst : ((Alive(i) /\ made[i].id = u) \/ (Alive(i)' /\ made'[i].id = u)) =>
             /\ inst'[i] = inst[i] /\ made'[i] = made[i] /\ port'[i] = port[i]
             /\ i \in authen' <=> i \in authen
  PROVE  /\ u \in Bare => u \in Bare'
         /\ u \in Settled => u \in Settled'
         /\ u \in Starting => u \in Starting'
         /\ u \in Ending => u \in Ending'
         /\ Served[u] \subseteq Served'[u]
<1>1. \A i \in Inst : (made[i].id = u => ~Alive(i)) => (made'[i].id = u => ~Alive(i)')
  BY DEF Alive
<1>2. u \in Bare => u \in Bare'
  BY <1>1 DEF Bare
<1>3. ASSUME NEW i \in Inst, Sole(u, i) PROVE Sole(u, i)'
  BY <1>3 DEF Sole, Alive
<1>4. Served[u] \subseteq Served'[u]
  <2> SUFFICES ASSUME NEW s \in Setting, NEW i \in Inst, ServedBy(u, s, i)
               PROVE  ServedBy(u, s, i)'
    BY DEF Served
  <2>1. Alive(i) /\ made[i].id = u
    BY DEF ServedBy, Alive
  <2>2. QED
    BY <1>3, <2>1 DEF ServedBy
<1>5. u \in Starting => u \in Starting'
  <2> SUFFICES ASSUME u \in Rows, NEW i \in Inst, StartedBy(u, i)
               PROVE  StartedBy(u, i)'
    BY DEF Starting, Rows
  <2>1. Alive(i) /\ made[i].id = u
    BY DEF StartedBy, Alive
  <2>2. QED
    BY <1>3, <2>1 DEF StartedBy
<1>6. u \in Ending => u \in Ending'
  <2> SUFFICES ASSUME NEW i \in Inst, StoppedBy(u, i)
               PROVE  StoppedBy(u, i)'
    BY DEF Ending
  <2>1. Alive(i) /\ made[i].id = u
    BY DEF StoppedBy, Alive
  <2>2. QED
    BY <1>3, <2>1 DEF StoppedBy
<1>7. u \in Settled => u \in Settled'
  BY <1>2, <1>4 DEF Settled
<1>8. QED
  BY <1>2, <1>4, <1>5, <1>6, <1>7

\* The same for all tunnels of which nothing changes but the row of t.
LEMMA RowMoves ==
  ASSUME TypeOK, NEW t, \A u \in Tunnel \ {t} : row'[u] = row[u],
         UNCHANGED <<inst, made, map, bridge>>
  PROVE  /\ \A u \in Tunnel \ {t} : u \in Settled => u \in Settled'
         /\ \A u \in Tunnel : /\ u \in Bare => u \in Bare'
                              /\ Served[u] \subseteq Served'[u]
                              /\ u \in Ending => u \in Ending'
<1>1. ASSUME NEW u \in Tunnel \ {t} PROVE u \in Settled => u \in Settled'
  BY <1>1, TunnelKept DEF bridge
<1>2. ASSUME NEW u \in Tunnel
      PROVE  /\ u \in Bare => u \in Bare'
             /\ Served[u] \subseteq Served'[u]
             /\ u \in Ending => u \in Ending'
  BY DEF bridge, Bare, Served, ServedBy, Ending, StoppedBy, Sole, Alive
<1>3. QED
  BY <1>1, <1>2

\* Nothing moves but requests and messages.
LEMMA NothingMoves ==
  ASSUME TypeOK, UNCHANGED <<row, inst, made, map, bridge>>
  PROVE  /\ Settled \subseteq Settled' /\ Bare \subseteq Bare'
         /\ Starting \subseteq Starting' /\ Ending \subseteq Ending' /\ Rows' = Rows
         /\ \A u \in Tunnel : Served[u] \subseteq Served'[u]
<1>1. ASSUME NEW u \in Tunnel
      PROVE  /\ u \in Bare => u \in Bare'
             /\ u \in Settled => u \in Settled'
             /\ u \in Starting => u \in Starting'
             /\ u \in Ending => u \in Ending'
             /\ Served[u] \subseteq Served'[u]
  BY TunnelKept DEF bridge
<1>2. Rows' = Rows
  BY DEF Rows
<1>3. QED
  BY <1>1, <1>2 DEF Bare, Settled, Starting, Ending, Rows

\* Only instance i moves, which is one of tunnel t: the other tunnels do not.
LEMMA InstanceMoves ==
  ASSUME TypeOK, NEW t \in Tunnel, NEW i \in Inst, row' = row,
         \A u \in Tunnel \ {t} : map'[u] = map[u],
         Alive(i) => made[i].id = t,
         Alive(i)' => made'[i].id = t,
         \A j \in Inst \ {i} : /\ inst'[j] = inst[j] /\ made'[j] = made[j]
                               /\ port'[j] = port[j] /\ (j \in authen' <=> j \in authen)
  PROVE  /\ \A u \in Tunnel \ {t} : /\ u \in Bare => u \in Bare'
                                    /\ u \in Settled => u \in Settled'
                                    /\ u \in Starting => u \in Starting'
         /\ \A j \in Inst \ {i} : Alive(j)' <=> Alive(j)
<1>1. ASSUME NEW u \in Tunnel \ {t}
      PROVE  /\ u \in Bare => u \in Bare'
             /\ u \in Settled => u \in Settled'
             /\ u \in Starting => u \in Starting'
  <2>1. \A j \in Inst : ((Alive(j) /\ made[j].id = u) \/ (Alive(j)' /\ made'[j].id = u)) =>
             /\ inst'[j] = inst[j] /\ made'[j] = made[j] /\ port'[j] = port[j]
             /\ j \in authen' <=> j \in authen
    BY DEF Alive
  <2>2. QED
    BY <2>1, TunnelKept
<1>2. \A j \in Inst \ {i} : Alive(j)' <=> Alive(j)
  BY DEF Alive
<1>3. QED
  BY <1>1, <1>2

\* When all is quiet, the client is off, or all its tunnels are settled.
Calm ==
    /\ proc = "up" /\ NoTodo /\ inbox = <<>>
    /\ Handling = {} /\ Timers = {} /\ Tunnel \subseteq Settled

LEMMA QuietStages ==
  ASSUME TypeOK, Stages, Quiet
  PROVE  Down \/ Calm
<1> USE RequestAssumption DEF Quiet, TypeOK
<1>1. CASE Launching
  <2>1. ASSUME NEW t \in Tunnel PROVE t \in Settled
    <3>1. t \notin Starting
      BY DEF Starting, StartedBy
    <3>2. QED
      BY <1>1, <3>1 DEF Launching, Rows
  <2>2. QED
    BY <1>1, <2>1 DEF Launching, Calm, NoTodo
<1>2. ASSUME NEW r \in Request, Checking(r) \/ Written(r) PROVE FALSE
  BY <1>2 DEF Checking, Written, Handling
<1>3. ASSUME NEW t \in Tunnel, Stopping(t) PROVE Calm
  <2>1. inbox = <<>> /\ Timers = {}
    BY DEF Timers
  <2>2. t \notin Ending
    BY DEF Ending, StoppedBy
  <2>3. <<DeleteTunnel(t)>> # <<>>
    OBVIOUS
  <2>4. row[t] = None /\ t \in Bare
    BY <1>3, <2>1, <2>2, <2>3 DEF Stopping
  <2>5. t \in Settled
    BY <2>4 DEF Settled
  <2>6. QED
    BY <1>3, <2>1, <2>5 DEF Stopping, Calm
<1>4. ASSUME NEW t \in Tunnel, Announced(t) PROVE FALSE
  BY <1>4 DEF Announced
<1>5. QED
  BY <1>1, <1>2, <1>3, <1>4 DEF Stages

\* All settled is the end of a launch.
LEMMA CalmLaunch == Calm => Launching
BY DEF Calm, Launching, NoTodo

\* The request that is handled is the one of the stage.
LEMMA StageOfRequest ==
  ASSUME Stages, NEW r \in Request, Busy(r)
  PROVE  \/ Down
         \/ Checking(r) /\ phase[r] # "written"
         \/ Written(r) /\ phase[r] = "written"
<1>1. r \in Handling
  BY DEF Handling
<1>2. QED
  BY <1>1 DEF Stages, Launching, Checking, Written, Stopping, Announced

-----------------------------------------------------------------------------
(* The pages, from stage to stage                                          *)

\* Pages do nothing to a client that is off.
LEMMA DownPages ==
  ASSUME Down, NEW r \in Request,
         FormStep(r) \/ DeleteStep(r) \/ \E p \in Port : Expire(p)
  PROVE  Down'
<1>1. UNCHANGED <<client, bridge>>
  BY DEF FormStep, DeleteStep, BeginAdd, FinishAdd, BeginUpdate, FinishUpdate, Fire, Lock,
         TestPort, CheckRow, WriteRow, DeleteRow, FinishDelete, Expire
<1>2. proc = "off" => inbox' = inbox
  BY DEF FormStep, DeleteStep, BeginAdd, FinishAdd, BeginUpdate, FinishUpdate, Fire, Lock,
         TestPort, CheckRow, WriteRow, DeleteRow, FinishDelete, Expire, Notify
<1>3. QED
  BY <1>1, <1>2 DEF Down, NoTodo, client, bridge

\* What begins when all is quiet, or is in a hurry.
LEMMA BeginsCalm ==
  ASSUME TypeOK, Stages, Begins, ~rushed'
  PROVE  Down \/ Calm
<1>1. Quiet
  BY Zenon DEF Begins
<1>2. QED
  BY <1>1, QuietStages

\* A request that is taken up.
LEMMA BeginStage ==
  ASSUME IInv, Stages, ~rushed', NEW r \in Form,
         \/ r \in Add /\ BeginAdd(r)
         \/ r \in Update /\ BeginUpdate(r)
  PROVE  Stages'
<1> USE RequestAssumption
<1>0. TypeOK /\ r \in Request /\ phase \in [Request -> Phase]
  BY DEF IInv, TypeOK, Form, Request
<1>1. Down \/ Calm
  BY <1>0, BeginsCalm DEF BeginAdd, BeginUpdate
<1>2. CASE Down
  BY <1>0, <1>2, DownPages DEF FormStep, Stages
<1>3. CASE Calm
  <2>1. /\ \E p \in {"waiting", "refused"} : phase' = [phase EXCEPT ![r] = p]
        /\ UNCHANGED <<row, timer, client, bridge, inbox>>
    BY DEF BeginAdd, BeginUpdate
  <2>2. \A q \in Request \ {r} : phase'[q] = phase[q]
    BY <1>0, <2>1
  <2>3. Settled \subseteq Settled'
    BY <1>0, <2>1, NothingMoves DEF client
  <2>4. CASE phase'[r] = "waiting"
    <3>1. Handling' = {r}
      BY <1>0, <1>3, <2>2, <2>4 DEF Calm, Handling, Busy
    <3>2. r \in Update => old'[r] = row'[TunnelOf[r]]
      BY <1>0, <2>1, <2>4 DEF BeginUpdate, BeginAdd, TypeOK
    <3>3. Checking(r)'
      BY <1>3, <2>1, <2>3, <2>4, <3>1, <3>2 DEF Calm, Checking, Timers, NoTodo, client
    <3>4. QED
      BY <1>0, <3>3 DEF Stages
  <2>5. CASE phase'[r] = "refused"
    <3>1. Handling' = {}
      BY <1>0, <1>3, <2>2, <2>5 DEF Calm, Handling, Busy
    <3>2. Launching'
      BY <1>3, <2>1, <2>3, <3>1 DEF Calm, Launching, Timers, NoTodo, client
    <3>3. QED
      BY <3>2 DEF Stages
  <2>6. QED
    BY <1>0, <2>1, <2>4, <2>5
<1>4. QED
  BY <1>1, <1>2, <1>3

\* The lock and the queries let it pass, or end it.
LEMMA CheckStage ==
  ASSUME IInv, Stages, NEW r \in Form, Lock(r) \/ TestPort(r) \/ CheckRow(r)
  PROVE  Stages'
<1> USE RequestAssumption
<1>0. TypeOK /\ r \in Request /\ phase \in [Request -> Phase]
  BY DEF IInv, TypeOK, Form, Request
<1>1. Busy(r) /\ phase[r] # "written"
  BY DEF Lock, TestPort, CheckRow, Busy
<1>2. CASE Down
  BY <1>0, <1>2, DownPages DEF FormStep, Stages
<1>3. CASE Checking(r)
  <2>1. /\ \E p \in Phase \ {"new", "waiting", "written"} : phase' = [phase EXCEPT ![r] = p]
        /\ UNCHANGED <<row, old, timer, client, bridge, inbox>>
    <3>1. CASE Lock(r)
      BY <3>1 DEF Lock, Phase
    <3>2. CASE TestPort(r)
      BY <3>2 DEF TestPort, Phase
    <3>3. CASE CheckRow(r)
      BY <3>3 DEF CheckRow, Phase
    <3>4. QED
      BY <3>1, <3>2, <3>3
  <2>2. Settled \subseteq Settled'
    BY <1>0, <2>1, NothingMoves DEF client
  <2>3. r \in Update /\ phase'[r] \in {"tested", "checked"} => old[r] # None
    <3>1. CASE Lock(r)
      BY <1>0, <3>1 DEF Lock
    <3>2. CASE TestPort(r)
      <4> SUFFICES ASSUME r \in Update, old[r] = None
                   PROVE  phase'[r] = "unanswered"
        OBVIOUS
      <4>1. phase' = [phase EXCEPT ![r] = "unanswered"]
        BY <3>2 DEF TestPort, KeepsPort
      <4>2. QED
        BY <1>0, <4>1
    <3>3. CASE CheckRow(r)
      BY <1>0, <1>3, <3>3 DEF CheckRow, Checking
    <3>4. QED
      BY <3>1, <3>2, <3>3
  <2>4. \A q \in Request \ {r} : phase'[q] = phase[q]
    BY <1>0, <2>1
  <2>5. CASE phase'[r] \in {"locked", "tested", "checked"}
    <3>1. Handling' = {r}
      BY <1>0, <1>3, <2>4, <2>5 DEF Checking, Handling, Busy
    <3>2. Checking(r)'
      BY <1>3, <2>1, <2>2, <2>3, <2>5, <3>1 DEF Checking, Timers, NoTodo, client
    <3>3. QED
      BY <1>0, <3>2 DEF Stages
  <2>6. CASE phase'[r] \in {"refused", "unanswered", "answered"}
    <3>1. Handling' = {}
      BY <1>0, <1>3, <2>4, <2>6 DEF Checking, Handling, Busy
    <3>2. Calm'
      BY <1>3, <2>1, <2>2, <3>1 DEF Checking, Calm, Timers, NoTodo, client
    <3>3. Launching'
      BY <3>2 DEF Calm, Launching, NoTodo
    <3>4. QED
      BY <3>3 DEF Stages
  <2>7. QED
    BY <1>0, <2>1, <2>5, <2>6 DEF Phase
<1>4. QED
  BY <1>0, <1>1, <1>2, <1>3, StageOfRequest

\* The row is written, or the indexes refuse it.
LEMMA WriteStage ==
  ASSUME IInv, TableInv, Stages, NEW r \in Form, WriteRow(r)
  PROVE  Stages'
<1> USE RequestAssumption
<1>0. /\ TypeOK /\ r \in Request /\ r \notin Delete /\ TunnelOf[r] \in Tunnel
      /\ phase \in [Request -> Phase] /\ row \in [Tunnel -> Setting \cup {None}]
      /\ form[r] \in Setting /\ form[r] # None
  BY DEF IInv, TypeOK, Form, Request, WriteRow, FormGiven
<1>1. Busy(r) /\ phase[r] = "checked" /\ UNCHANGED <<form, old, timer, client, bridge, inbox>>
  BY DEF WriteRow, Busy
<1>2. CASE Down
  BY <1>0, <1>2, DownPages DEF FormStep, Stages
<1>3. CASE Checking(r) /\ row' = row /\ phase' = [phase EXCEPT ![r] = "unanswered"]
  <2>1. Settled \subseteq Settled'
    BY <1>0, <1>1, <1>3, NothingMoves DEF client
  <2>2. Handling' = {}
    BY <1>0, <1>3 DEF Checking, Handling, Busy
  <2>3. Launching'
    BY <1>1, <1>3, <2>1, <2>2 DEF Checking, Launching, Timers, NoTodo, client
  <2>4. QED
    BY <2>3 DEF Stages
<1>4. CASE Checking(r) /\ phase' = [phase EXCEPT ![r] = "written"]
  <2> DEFINE t == TunnelOf[r]
  <2>1. r \in Add => row[t] = None
    BY <1>1 DEF TableInv, AddsAreNew, Early
  <2>2. r \in Update => row[t] # None /\ old[r] = row[t]
    BY <1>1, <1>4 DEF Checking
  <2>3. row' = [row EXCEPT ![t] = form[r]]
    BY <1>0, <1>4, <2>2 DEF WriteRow, Form
  <2>4. /\ \A u \in Tunnel \ {t} : u \in Settled => u \in Settled'
        /\ t \in Bare => t \in Bare'
        /\ Served[t] \subseteq Served'[t]
    BY <1>0, <1>1, <2>3, RowMoves DEF client
  <2>5. t \in Settled
    BY <1>0, <1>4 DEF Checking
  <2>6. r \in Add => t \in Bare'
    BY <2>1, <2>4, <2>5 DEF Settled
  <2>7. r \in Update => old[r] \in Served'[t]
    BY <2>2, <2>4, <2>5 DEF Settled
  <2>8. Handling' = {r}
    BY <1>0, <1>4 DEF Checking, Handling, Busy
  <2>9. row'[t] = form[r] /\ phase'[r] = "written"
    BY <1>0, <1>4, <2>3
  <2>10. Tunnel \ {t} \subseteq Settled'
    BY <1>4, <2>4 DEF Checking
  <2>11. Written(r)'
    BY <1>0, <1>1, <1>4, <2>6, <2>7, <2>8, <2>9, <2>10
       DEF Checking, Written, Timers, NoTodo, client
  <2>12. QED
    BY <1>0, <2>11 DEF Stages
<1>5. \/ row' = row /\ phase' = [phase EXCEPT ![r] = "unanswered"]
      \/ phase' = [phase EXCEPT ![r] = "written"]
  BY DEF WriteRow
<1>6. QED
  BY <1>0, <1>1, <1>2, <1>3, <1>4, <1>5, StageOfRequest

\* An add tells the client.
LEMMA FinishAddStage ==
  ASSUME IInv, Stages, NEW r \in Add, FinishAdd(r)
  PROVE  Stages'
<1> USE RequestAssumption
<1>0. /\ TypeOK /\ r \in Request /\ r \in Form /\ TunnelOf[r] \in Tunnel
      /\ phase \in [Request -> Phase]
  BY DEF IInv, TypeOK, Form, Request
<1>1. /\ Busy(r) /\ phase[r] = "written" /\ phase' = [phase EXCEPT ![r] = "answered"]
      /\ UNCHANGED <<row, form, timer, client, bridge>>
  BY DEF FinishAdd, Busy
<1>2. CASE Down
  BY <1>0, <1>2, DownPages DEF FormStep, Stages
<1>3. CASE Written(r)
  <2> DEFINE t == TunnelOf[r]
  <2>1. inbox' = <<AddTunnel(t, row[t])>>
    <3>1. proc = "up" /\ inbox = <<>> /\ form[r] = row[t]
      BY <1>3 DEF Written
    <3>2. QED
      BY <3>1 DEF FinishAdd, Notify
  <2>2. Settled \subseteq Settled' /\ Bare \subseteq Bare'
    BY <1>0, <1>1, NothingMoves DEF client
  <2>3. Handling' = {}
    BY <1>0, <1>1, <1>3 DEF Written, Handling, Busy
  <2>4. inbox' = <<AddTunnel(t, row'[t])>>
    BY <1>1, <2>1
  <2>5. Announced(t)'
    BY <1>1, <1>3, <2>2, <2>3, <2>4 DEF Written, Announced, Timers, NoTodo, client
  <2>6. QED
    BY <1>0, <2>5 DEF Stages
<1>4. QED
  BY <1>0, <1>1, <1>2, <1>3, StageOfRequest

\* An update tells the client to stop, and starts its timer, unless the row is
\* as it was.
LEMMA FinishUpdateStage ==
  ASSUME IInv, Stages, NEW r \in Update, FinishUpdate(r)
  PROVE  Stages'
<1> USE RequestAssumption
<1>0. /\ TypeOK /\ r \in Request /\ r \in Form /\ TunnelOf[r] \in Tunnel
      /\ phase \in [Request -> Phase] /\ timer \in [Update -> Setting \cup {None}]
  BY DEF IInv, TypeOK, Form, Request
<1>1. /\ Busy(r) /\ phase[r] = "written"
      /\ UNCHANGED <<row, old, client, bridge>>
      /\ \E p \in {"answered", "unanswered"} : phase' = [phase EXCEPT ![r] = p]
  BY DEF FinishUpdate, Busy
<1>2. CASE Down
  BY <1>0, <1>2, DownPages DEF FormStep, Stages
<1>3. CASE Written(r)
  <2> DEFINE t == TunnelOf[r]
  <2>1. row[t] # None /\ old[r] \in Served[t] /\ proc = "up" /\ inbox = <<>> /\ Timers = {}
    BY <1>3 DEF Written
  <2>2. Settled \subseteq Settled' /\ Served[t] \subseteq Served'[t]
    BY <1>0, <1>1, NothingMoves DEF client
  <2>3. Handling' = {}
    BY <1>0, <1>1, <1>3 DEF Written, Handling, Busy
  <2>4. CASE row[t] = old[r]
    <3>1. UNCHANGED <<inbox, timer>>
      BY <2>4 DEF FinishUpdate
    <3>2. t \in Settled
      BY <1>0, <2>1, <2>4 DEF Settled
    <3>3. Tunnel \subseteq Settled'
      BY <1>3, <2>2, <3>2 DEF Written
    <3>4. Launching'
      BY <1>1, <1>3, <2>1, <2>3, <3>1, <3>3 DEF Written, Launching, Timers, NoTodo, client
    <3>5. QED
      BY <3>4 DEF Stages
  <2>5. CASE row[t] # old[r]
    <3>1. timer' = [timer EXCEPT ![r] = row[t]] /\ Notify(DeleteTunnel(t))
      BY <2>1, <2>5 DEF FinishUpdate
    <3>2. inbox' = <<DeleteTunnel(t)>>
      BY <2>1, <3>1 DEF Notify
    <3>3. Timers' = {r} /\ timer'[r] = row'[t]
      BY <1>0, <1>1, <2>1, <3>1 DEF Timers
    <3>4. Served'[t] # {} /\ Tunnel \ {t} \subseteq Settled'
      BY <1>3, <2>1, <2>2 DEF Written
    <3>5. Stopping(t)'
      BY <1>1, <1>3, <2>1, <2>3, <3>2, <3>3, <3>4 DEF Written, Stopping, NoTodo, client
    <3>6. QED
      BY <1>0, <3>5 DEF Stages
  <2>6. QED
    BY <2>4, <2>5
<1>4. QED
  BY <1>0, <1>1, <1>2, <1>3, StageOfRequest

\* The second is over: if it was long enough, the tunnel is bare.
LEMMA FireStage ==
  ASSUME IInv, Stages, ~rushed', NEW r \in Update, Fire(r)
  PROVE  Stages'
<1> USE RequestAssumption
<1>0. /\ TypeOK /\ r \in Request /\ r \in Form
      /\ timer \in [Update -> Setting \cup {None}]
  BY DEF IInv, TypeOK, Form, Request
<1>1. /\ r \in Timers /\ inbox = <<>> /\ \A i \in Inst : inst[i] # "stopped"
      /\ UNCHANGED <<row, phase, client, bridge>>
  <2>1. inbox = <<>> /\ \A i \in Inst : inst[i] # "stopped"
    BY Zenon DEF Fire
  <2>2. QED
    BY <2>1 DEF Fire, Timers
<1>2. CASE Down
  BY <1>0, <1>2, DownPages DEF FormStep, Stages
<1>3. ASSUME NEW t \in Tunnel, Stopping(t) PROVE Stages'
  <2>1. \A q \in Update : Timers = {q} => q = r
    BY <1>1
  <2>2. TunnelOf[r] = t /\ row[t] # None /\ timer[r] = row[t] /\ Timers = {r}
    BY <1>1, <1>3, <2>1 DEF Stopping
  <2>3. t \notin Ending /\ <<DeleteTunnel(t)>> # <<>>
    BY <1>1 DEF Ending, StoppedBy
  <2>4. t \in Bare /\ proc = "up"
    BY <1>1, <1>3, <2>3 DEF Stopping
  <2>5. inbox' = <<AddTunnel(t, row'[t])>>
    BY <1>1, <2>2, <2>4 DEF Fire, Notify
  <2>6. Settled \subseteq Settled' /\ Bare \subseteq Bare'
    BY <1>0, <1>1, NothingMoves DEF client
  <2>7. Timers' = {}
    BY <1>0, <2>2 DEF Timers, Fire
  <2>8. Handling' = Handling
    BY <1>1 DEF Handling, Busy
  <2>9. Announced(t)'
    BY <1>1, <1>3, <2>2, <2>4, <2>5, <2>6, <2>7, <2>8 DEF Stopping, Announced, NoTodo, client
  <2>10. QED
    BY <2>9 DEF Stages
<1>4. QED
  BY <1>1, <1>2, <1>3 DEF Stages, Launching, Checking, Written, Announced

\* A deletion, which begins when all is quiet.
LEMMA DeleteStage ==
  ASSUME IInv, Stages, ~rushed', NEW r \in Delete, DeleteRow(r)
  PROVE  Stages'
<1> USE RequestAssumption
<1>0. /\ TypeOK /\ r \in Request /\ r \notin Form /\ TunnelOf[r] \in Tunnel
      /\ phase \in [Request -> Phase] /\ row \in [Tunnel -> Setting \cup {None}]
  BY DEF IInv, TypeOK, Form, Request
<1>1. Down \/ Calm
  BY <1>0, BeginsCalm DEF DeleteRow
<1>2. CASE Down
  BY <1>0, <1>2, DownPages DEF DeleteStep, Stages
<1>3. CASE Calm
  <2> DEFINE t == TunnelOf[r]
  <2>1. /\ row' = [row EXCEPT ![t] = None]
        /\ UNCHANGED <<timer, client, bridge, inbox>>
    BY DEF DeleteRow
  <2>2. CASE row[t] = None
    <3>1. row' = row /\ phase' = [phase EXCEPT ![r] = "answered"]
      BY <1>0, <2>1, <2>2 DEF DeleteRow
    <3>2. Settled \subseteq Settled'
      BY <1>0, <2>1, <3>1, NothingMoves DEF client
    <3>3. Handling' = {}
      BY <1>0, <1>3, <3>1 DEF Calm, Handling, Busy
    <3>4. Launching'
      BY <1>3, <2>1, <3>2, <3>3 DEF Calm, Launching, Timers, NoTodo, client
    <3>5. QED
      BY <3>4 DEF Stages
  <2>3. CASE row[t] # None
    <3>1. phase' = [phase EXCEPT ![r] = "written"]
      BY <2>3 DEF DeleteRow
    <3>2. /\ \A u \in Tunnel \ {t} : u \in Settled => u \in Settled'
          /\ Served[t] \subseteq Served'[t]
      BY <1>0, <2>1, RowMoves DEF client
    <3>3. row[t] \in Served[t]
      BY <1>0, <1>3, <2>3 DEF Calm, Settled
    <3>4. Handling' = {r}
      BY <1>0, <1>3, <3>1 DEF Calm, Handling, Busy
    <3>5. row'[t] = None /\ phase'[r] = "written"
      BY <1>0, <2>1, <3>1
    <3>6. Served'[t] # {} /\ Tunnel \ {t} \subseteq Settled'
      BY <1>3, <3>2, <3>3 DEF Calm
    <3>7. Written(r)'
      BY <1>0, <1>3, <2>1, <3>4, <3>5, <3>6 DEF Calm, Written, Timers, NoTodo, client, Form
    <3>8. QED
      BY <1>0, <3>7 DEF Stages
  <2>4. QED
    BY <2>2, <2>3
<1>4. QED
  BY <1>1, <1>2, <1>3

\* A deletion tells the client.
LEMMA FinishDeleteStage ==
  ASSUME IInv, Stages, NEW r \in Delete, FinishDelete(r)
  PROVE  Stages'
<1> USE RequestAssumption
<1>0. /\ TypeOK /\ r \in Request /\ TunnelOf[r] \in Tunnel /\ phase \in [Request -> Phase]
  BY DEF IInv, TypeOK, Request
<1>1. /\ Busy(r) /\ phase[r] = "written" /\ phase' = [phase EXCEPT ![r] = "answered"]
      /\ UNCHANGED <<row, timer, client, bridge>>
  BY DEF FinishDelete, Busy
<1>2. CASE Down
  BY <1>0, <1>2, DownPages DEF DeleteStep, Stages
<1>3. CASE Written(r)
  <2> DEFINE t == TunnelOf[r]
  <2>1. row[t] = None /\ Served[t] # {} /\ proc = "up" /\ inbox = <<>> /\ Timers = {}
    BY <1>3 DEF Written
  <2>2. Settled \subseteq Settled' /\ Served[t] \subseteq Served'[t]
    BY <1>0, <1>1, NothingMoves DEF client
  <2>3. Handling' = {}
    BY <1>0, <1>1, <1>3 DEF Written, Handling, Busy
  <2>4. inbox' = <<DeleteTunnel(t)>>
    BY <2>1 DEF FinishDelete, Notify
  <2>5. Served'[t] # {} /\ Tunnel \ {t} \subseteq Settled' /\ Timers' = {}
    BY <1>1, <1>3, <2>1, <2>2 DEF Written, Timers
  <2>6. Stopping(t)'
    BY <1>1, <1>3, <2>1, <2>3, <2>4, <2>5 DEF Written, Stopping, NoTodo, client
  <2>7. QED
    BY <1>0, <2>6 DEF Stages
<1>4. QED
  BY <1>0, <1>1, <1>2, <1>3, StageOfRequest

-----------------------------------------------------------------------------
(* The client and the bridge, from stage to stage                          *)

\* What the stage of a tunnel says of an instance that is there.
LEMMA AliveIs ==
  ASSUME NEW t \in Tunnel, NEW i \in Inst, Alive(i), made[i].id = t
  PROVE  /\ t \notin Bare
         /\ t \in Settled \/ Served[t] # {} => inst[i] = "running" /\ i \notin authen
         /\ t \in Ending => StoppedBy(t, i)
         /\ t \in Starting => StartedBy(t, i)
<1>1. t \notin Bare
  BY DEF Bare
<1>2. Served[t] # {} => inst[i] = "running" /\ i \notin authen
  BY DEF Served, ServedBy, Sole
<1>3. t \in Settled => Served[t] # {}
  BY <1>1 DEF Settled
<1>4. t \in Ending => StoppedBy(t, i)
  BY DEF Ending, StoppedBy, Sole
<1>5. t \in Starting => StartedBy(t, i)
  BY DEF Starting, StartedBy, Sole
<1>6. QED
  BY <1>1, <1>2, <1>3, <1>4, <1>5

\* Every instance that is there is one of a tunnel.
LEMMA AliveHasTunnel ==
  ASSUME IInv, TableInv, NEW i \in Inst, Alive(i)
  PROVE  made[i].id \in Tunnel
<1>1. inst[i] # "unused"
  BY DEF IInv, MadeForTunnel, TableInv, UnusedIsUnbound, Alive
<1>2. QED
  BY <1>1 DEF IInv, MadeForTunnel

\* The stages of the tunnel of an instance that is there.
LEMMA AliveStage ==
  ASSUME IInv, TableInv, Stages, ~Down, NEW i \in Inst, Alive(i)
  PROVE  \/ inst[i] = "running" /\ i \notin authen
         \/ Launching /\ StartedBy(made[i].id, i) /\ made[i].id \in Starting
         \/ Stopping(made[i].id) /\ StoppedBy(made[i].id, i)
<1> DEFINE t == made[i].id
<1>1. t \in Tunnel
  BY AliveHasTunnel
<1>2. /\ t \notin Bare
      /\ t \in Settled \/ Served[t] # {} => inst[i] = "running" /\ i \notin authen
      /\ t \in Ending => StoppedBy(t, i)
      /\ t \in Starting => StartedBy(t, i)
  BY <1>1, AliveIs
<1>3. CASE t \in Settled \/ Served[t] # {}
  BY <1>2, <1>3
<1>4. CASE t \notin Settled /\ Served[t] = {}
  <2>1. CASE Launching
    BY <1>1, <1>2, <1>4, <2>1 DEF Launching
  <2>2. ASSUME NEW r \in Request, Checking(r) PROVE FALSE
    BY <1>1, <1>4, <2>2 DEF Checking
  <2>3. ASSUME NEW r \in Request, Written(r) PROVE FALSE
    <3>1. t = TunnelOf[r]
      BY <1>1, <1>4, <2>3 DEF Written
    <3>2. r \in Add \/ r \in Update \/ r \in Delete
      BY DEF Request
    <3>3. QED
      BY <1>2, <1>4, <2>3, <3>1, <3>2 DEF Written
  <2>4. ASSUME NEW u \in Tunnel, Stopping(u) PROVE Stopping(t) /\ StoppedBy(t, i)
    <3>1. t = u
      BY <1>1, <1>4, <2>4 DEF Stopping
    <3>2. QED
      BY <1>2, <1>4, <2>4, <3>1 DEF Stopping
  <2>5. ASSUME NEW u \in Tunnel, Announced(u) PROVE FALSE
    <3>1. t = u
      BY <1>1, <1>4, <2>5 DEF Announced
    <3>2. QED
      BY <1>2, <2>5, <3>1 DEF Announced
  <2>6. QED
    BY <2>1, <2>2, <2>3, <2>4, <2>5 DEF Stages
<1>5. QED
  BY <1>3, <1>4

\* A step that nothing in the stages speaks of.
LEMMA StagesKept ==
  ASSUME IInv, Stages, UNCHANGED <<row, phase, form, old, timer, client, bridge, inbox>>
  PROVE  Stages'
<1>1. /\ Settled \subseteq Settled' /\ Bare \subseteq Bare'
      /\ Starting \subseteq Starting' /\ Ending \subseteq Ending' /\ Rows' = Rows
      /\ \A u \in Tunnel : Served[u] \subseteq Served'[u]
  BY NothingMoves DEF client, IInv
<1>2. Handling' = Handling /\ Timers' = Timers
  BY DEF Handling, Timers, Busy
<1>3. CASE Down
  BY <1>3 DEF Down, NoTodo, Stages, client, bridge
<1>4. CASE Launching
  <2>1. Launching'
    BY <1>1, <1>2, <1>4 DEF Launching, client
  <2>2. QED
    BY <2>1 DEF Stages
<1>5. ASSUME NEW r \in Request, Checking(r) PROVE Stages'
  <2>1. Checking(r)'
    BY <1>1, <1>2, <1>5 DEF Checking, NoTodo, client
  <2>2. QED
    BY <2>1 DEF Stages
<1>6. ASSUME NEW r \in Request, Written(r) PROVE Stages'
  <2>1. TunnelOf[r] \in Tunnel
    BY RequestAssumption
  <2>2. Written(r)'
    BY <1>1, <1>2, <1>6, <2>1 DEF Written, NoTodo, client
  <2>3. QED
    BY <2>2 DEF Stages
<1>7. ASSUME NEW t \in Tunnel, Stopping(t) PROVE Stages'
  <2>1. Stopping(t)'
    BY <1>1, <1>2, <1>7 DEF Stopping, NoTodo, client
  <2>2. QED
    BY <2>1 DEF Stages
<1>8. ASSUME NEW t \in Tunnel, Announced(t) PROVE Stages'
  <2>1. Announced(t)'
    BY <1>1, <1>2, <1>8 DEF Announced, NoTodo, client
  <2>2. QED
    BY <2>1 DEF Stages
<1>9. QED
  BY <1>3, <1>4, <1>5, <1>6, <1>7, <1>8 DEF Stages

\* main fetches the rows when nothing is left of the last client.
LEMMA FetchStage ==
  ASSUME IInv, Stages, ~rushed', Fetch
  PROVE  Stages'
<1>0. TypeOK
  BY DEF IInv
<1>1. Quiet /\ Down
  <2>1. Quiet
    BY Zenon DEF Fetch, Begins
  <2>2. proc = "off"
    BY DEF Fetch
  <2>3. QED
    BY <1>0, <2>1, <2>2, QuietStages DEF Calm
<1>2. Tunnel \subseteq Bare
  BY <1>1 DEF Down, Quiet, Bare, Alive
<1>3. UNCHANGED <<row, phase, timer, inst, made, map, bridge, inbox>>
  BY DEF Fetch, web
<1>4. Tunnel \subseteq Bare'
  BY <1>0, <1>2, <1>3, NothingMoves
<1>5. Handling' = {} /\ Timers' = {} /\ inbox' = <<>>
  BY <1>1, <1>3 DEF Quiet, Handling, Timers, Busy
<1>6. ASSUME NEW t \in Tunnel
      PROVE  \/ todo'[t] = None /\ t \in Settled'
             \/ todo'[t] = row'[t] /\ t \in Rows' /\ t \in Bare'
  BY <1>3, <1>4 DEF Fetch, Settled, Rows
<1>7. Launching'
  BY <1>5, <1>6 DEF Launching, Fetch
<1>8. QED
  BY <1>7 DEF Stages

\* The client is online.
LEMMA OnlineStage ==
  ASSUME IInv, Stages, Online
  PROVE  Stages'
<1>1. Launching
  BY DEF Online, Stages, Down, Checking, Written, Stopping, Announced
<1>2. UNCHANGED <<row, phase, timer, inst, made, map, bridge, inbox, todo>> /\ proc' = "up"
  BY DEF Online, web
<1>3. /\ Settled \subseteq Settled' /\ Bare \subseteq Bare'
      /\ Starting \subseteq Starting' /\ Rows' = Rows
  BY <1>2, NothingMoves DEF IInv
<1>4. Handling' = Handling /\ Timers' = Timers
  BY <1>2 DEF Handling, Timers, Busy
<1>5. Launching'
  BY <1>1, <1>2, <1>3, <1>4 DEF Launching
<1>6. QED
  BY <1>5 DEF Stages

\* One instance of tunnel t moves in a launch, and the tunnel is started or
\* settled then.
LEMMA LaunchMoves ==
  ASSUME IInv, NEW t \in Tunnel, NEW i \in Inst,
         UNCHANGED <<row, phase, timer>>, proc' = proc, proc \in {"fetched", "up"},
         inbox' = <<>>, Handling = {}, Timers = {},
         \A u \in Tunnel \ {t} :
             \/ todo[u] = None /\ u \in Settled \cup Starting
             \/ todo[u] = row[u] /\ u \in Rows \cap Bare,
         \A u \in Tunnel \ {t} : map'[u] = map[u] /\ todo'[u] = todo[u],
         Alive(i) => made[i].id = t,
         Alive(i)' => made'[i].id = t,
         \A j \in Inst \ {i} : /\ inst'[j] = inst[j] /\ made'[j] = made[j]
                               /\ port'[j] = port[j] /\ (j \in authen' <=> j \in authen),
         todo'[t] = None, t \in Settled' \cup Starting'
  PROVE  Stages'
<1>1. \A u \in Tunnel \ {t} : /\ u \in Bare => u \in Bare'
                              /\ u \in Settled => u \in Settled'
                              /\ u \in Starting => u \in Starting'
  BY InstanceMoves DEF IInv
<1>2. Handling' = {} /\ Timers' = {} /\ Rows' = Rows
  BY DEF Handling, Timers, Busy, Rows
<1>3. Launching'
  BY <1>1, <1>2 DEF Launching
<1>4. QED
  BY <1>3 DEF Stages

\* A new instance is made for the row of a tunnel that has nothing else.
LEMMA CreateStarts ==
  ASSUME IInv, TableInv, NEW t \in Tunnel, NEW i \in Inst, t \in Bare, row[t] # None,
         Create(i, t, row[t]), UNCHANGED <<row, map, bridge>>
  PROVE  /\ ~Alive(i) /\ t \in Starting' /\ made'[i].id = t
         /\ \A j \in Inst \ {i} : /\ inst'[j] = inst[j] /\ made'[j] = made[j]
                                  /\ port'[j] = port[j] /\ (j \in authen' <=> j \in authen)
<1>1. TypeOK /\ MadeForTunnel /\ UnusedIsUnbound
  BY DEF IInv, TableInv
<1>2. ~Alive(i) /\ i \notin authen /\ port[i] = None
  BY <1>1 DEF Create, Alive, MadeForTunnel, UnusedIsUnbound
<1>3. /\ made'[i] = [id |-> t, setting |-> row[t]] /\ inst'[i] = "connecting"
      /\ \A j \in Inst \ {i} : inst'[j] = inst[j] /\ made'[j] = made[j]
  BY <1>1 DEF Create, TypeOK
<1>4. Sole(t, i)'
  BY <1>3 DEF Bare, Sole, Alive, bridge
<1>5. StartedBy(t, i)'
  BY <1>2, <1>3, <1>4 DEF StartedBy, Bare, bridge
<1>6. t \in Starting'
  BY <1>5 DEF Starting, Rows
<1>7. QED
  BY <1>2, <1>3, <1>6 DEF bridge

\* main starts the next of what it has fetched.
LEMMA StartNextStage ==
  ASSUME IInv, TableInv, Stages, NEW i \in Inst, NEW t \in Tunnel, StartNext(i, t)
  PROVE  Stages'
<1>1. Launching
  BY DEF StartNext, Stages, Down, Checking, Written, Stopping, Announced, NoTodo
<1>2. t \in Rows \cap Bare /\ todo[t] = row[t]
  BY <1>1 DEF Launching, StartNext
<1>3. /\ Create(i, t, row[t]) /\ UNCHANGED <<row, phase, timer, proc, map, bridge, inbox>>
      /\ todo' = [todo EXCEPT ![t] = None]
  BY <1>2 DEF StartNext, web
<1>4. todo'[t] = None /\ \A u \in Tunnel \ {t} : todo'[u] = todo[u]
  BY <1>3 DEF IInv, TypeOK
<1>5. /\ ~Alive(i) /\ t \in Starting' /\ made'[i].id = t
      /\ \A j \in Inst \ {i} : /\ inst'[j] = inst[j] /\ made'[j] = made[j]
                               /\ port'[j] = port[j] /\ (j \in authen' <=> j \in authen)
  BY <1>2, <1>3, CreateStarts DEF Rows
<1>6. /\ proc \in {"fetched", "up"} /\ inbox' = <<>> /\ Handling = {} /\ Timers = {}
      /\ \A u \in Tunnel \ {t} :
             \/ todo[u] = None /\ u \in Settled \cup Starting
             \/ todo[u] = row[u] /\ u \in Rows \cap Bare
  BY <1>1, <1>3 DEF Launching
<1>7. QED
  BY <1>3, <1>4, <1>5, <1>6, LaunchMoves

\* An ADD_TUNNEL is started as if it had been fetched.
LEMMA ReceiveAddStage ==
  ASSUME IInv, TableInv, Stages, NEW i \in Inst, ReceiveAdd(i)
  PROVE  Stages'
<1>1. inbox # <<>> /\ Head(inbox).cmd = "ADD_TUNNEL" /\ inbox' = Tail(inbox)
  BY DEF ReceiveAdd, Receives
<1>2. \A t \in Tunnel : inbox # <<DeleteTunnel(t)>>
  BY <1>1 DEF DeleteTunnel
<1>3. PICK t \in Tunnel : Announced(t)
  BY <1>1, <1>2 DEF Stages, Down, Launching, Checking, Written, Stopping
<1>4. Head(inbox).id = t /\ Head(inbox).setting = row[t] /\ inbox' = <<>>
  BY <1>1, <1>3 DEF Announced, AddTunnel
<1>5. Create(i, t, row[t]) /\ UNCHANGED <<row, phase, timer, proc, todo, map, bridge>>
  BY <1>4 DEF ReceiveAdd, web
<1>6. t \in Bare /\ row[t] # None
  BY <1>3 DEF Announced
<1>7. /\ ~Alive(i) /\ t \in Starting' /\ made'[i].id = t
      /\ \A j \in Inst \ {i} : /\ inst'[j] = inst[j] /\ made'[j] = made[j]
                               /\ port'[j] = port[j] /\ (j \in authen' <=> j \in authen)
  BY <1>5, <1>6, CreateStarts
<1>8. /\ proc \in {"fetched", "up"} /\ Handling = {} /\ Timers = {} /\ todo'[t] = None
      /\ \A u \in Tunnel \ {t} : todo[u] = None /\ u \in Settled \cup Starting
  BY <1>3, <1>5 DEF Announced, NoTodo
<1>9. QED
  BY <1>4, <1>5, <1>7, <1>8, LaunchMoves

\* A DELETE_TUNNEL stops the instance of its tunnel, which is in the map.
LEMMA ReceiveDeleteStage ==
  ASSUME IInv, TableInv, Stages, ReceiveDelete
  PROVE  Stages'
<1>0. TypeOK
  BY DEF IInv
<1>1. inbox # <<>> /\ Head(inbox).cmd = "DELETE_TUNNEL" /\ inbox' = Tail(inbox)
  BY DEF ReceiveDelete, Receives
<1>2. \A t \in Tunnel : inbox # <<AddTunnel(t, row[t])>>
  BY <1>1 DEF AddTunnel
<1>3. PICK t \in Tunnel : Stopping(t)
  BY <1>1, <1>2 DEF Stages, Down, Launching, Checking, Written, Announced
<1>4. inbox = <<DeleteTunnel(t)>> /\ Served[t] # {}
  BY <1>1, <1>3 DEF Stopping
<1>5. Head(inbox).id = t /\ inbox' = <<>>
  BY <1>1, <1>4 DEF DeleteTunnel
<1>6. PICK s \in Setting, i \in Inst : ServedBy(t, s, i)
  BY <1>4 DEF Served
<1>7. /\ Alive(i) /\ made[i].id = t /\ map[t] = i /\ inst[i] = "running" /\ i # None
      /\ i \notin authen /\ Sole(t, i)
  BY <1>6, RequestAssumption DEF ServedBy, Alive
<1>8. /\ inst' = [inst EXCEPT ![i] = "stopped"] /\ map' = [map EXCEPT ![t] = None]
      /\ UNCHANGED <<row, phase, timer, proc, todo, made, bridge>>
  <2>1. map[Head(inbox).id] = i /\ i # None /\ inst[i] = "running"
    BY <1>5, <1>7
  <2>2. inst' = [inst EXCEPT ![i] = "stopped"]
    BY <2>1 DEF ReceiveDelete
  <2>3. map' = [map EXCEPT ![t] = None]
    BY <1>5 DEF ReceiveDelete
  <2>4. UNCHANGED <<row, phase, timer, proc, todo, made, bridge>>
    BY DEF ReceiveDelete, web
  <2>5. QED
    BY <2>2, <2>3, <2>4
<1>9. /\ inst'[i] = "stopped" /\ map'[t] = None
      /\ \A j \in Inst \ {i} : inst'[j] = inst[j]
      /\ \A u \in Tunnel \ {t} : map'[u] = map[u]
  BY <1>0, <1>8 DEF TypeOK
<1>10. /\ \A u \in Tunnel \ {t} : u \in Settled => u \in Settled'
       /\ \A j \in Inst \ {i} : Alive(j)' <=> Alive(j)
  BY <1>0, <1>7, <1>8, <1>9, InstanceMoves DEF bridge
<1>11. StoppedBy(t, i)'
  BY <1>7, <1>8, <1>9, <1>10 DEF StoppedBy, Sole, bridge
<1>12. t \in Ending'
  BY <1>11 DEF Ending
<1>13. Handling' = Handling /\ Timers' = Timers
  BY <1>8 DEF Handling, Timers, Busy
<1>14. Stopping(t)'
  BY <1>3, <1>5, <1>8, <1>10, <1>12, <1>13 DEF Stopping, NoTodo
<1>15. QED
  BY <1>14 DEF Stages

\* startTunnel resolves.
LEMMA StartedStage ==
  ASSUME IInv, TableInv, Stages, NEW i \in Inst, Started(i)
  PROVE  Stages'
<1> DEFINE t == made[i].id
<1>0. TypeOK /\ Alive(i) /\ inst[i] = "connecting" /\ t \in Tunnel
  BY AliveHasTunnel DEF IInv, Started, Alive
<1>1. Launching /\ StartedBy(t, i) /\ t \in Starting
  BY <1>0, AliveStage DEF Down, StoppedBy
<1>2. /\ inst'[i] = "running" /\ i \in authen' /\ map'[t] = i
      /\ \A u \in Tunnel \ {t} : map'[u] = map[u]
      /\ \A j \in Inst \ {i} : inst'[j] = inst[j] /\ (j \in authen' <=> j \in authen)
      /\ UNCHANGED <<row, phase, timer, proc, todo, made, port, inbox>>
  BY <1>0 DEF Started, TypeOK, web
<1>3. \A j \in Inst \ {i} : Alive(j)' <=> Alive(j)
  BY <1>2 DEF Alive
<1>4. StartedBy(t, i)'
  BY <1>1, <1>2, <1>3 DEF StartedBy, Sole
<1>5. t \in Starting'
  BY <1>1, <1>2, <1>4 DEF Starting, Rows
<1>6. todo[t] = None
  <2>1. t \notin Bare
    BY <1>0, AliveIs
  <2>2. QED
    BY <1>0, <1>1, <2>1 DEF Launching
<1>7. /\ proc \in {"fetched", "up"} /\ inbox' = <<>> /\ Handling = {} /\ Timers = {}
      /\ \A u \in Tunnel \ {t} :
             \/ todo[u] = None /\ u \in Settled \cup Starting
             \/ todo[u] = row[u] /\ u \in Rows \cap Bare
  BY <1>1, <1>2 DEF Launching
<1>8. QED
  BY <1>0, <1>2, <1>5, <1>6, <1>7, LaunchMoves

\* The bridge binds the port of the row: no other tunnel has it.
LEMMA AuthenStage ==
  ASSUME IInv, TableInv, Stages, NEW i \in Inst, Authen(i)
  PROVE  Stages'
<1> USE RequestAssumption
<1> DEFINE t == made[i].id
<1>0. TypeOK /\ Alive(i) /\ i \in authen /\ t \in Tunnel
  BY AliveHasTunnel DEF IInv, Authen, Alive
<1>1. Launching /\ StartedBy(t, i) /\ t \in Starting
  BY <1>0, AliveStage DEF Down, StoppedBy
<1>2. row[t] # None /\ row[t] \in Setting
  BY <1>0, <1>1 DEF Starting, Rows, TypeOK
<1>3. ~InUse(row[t].port)
  <2> SUFFICES ASSUME NEW j \in Inst, port[j] = row[t].port PROVE FALSE
    BY DEF InUse
  <2>1. Alive(j) /\ row[t].port # None
    BY <1>2 DEF Alive
  <2>2. made[j].id \in Tunnel
    BY <2>1, AliveHasTunnel
  <2>3. made[j].id # t
    BY <1>1, <2>1 DEF StartedBy, Sole
  <2>4. CASE made[j].id \in Starting
    BY <2>1, <2>2, <2>4, AliveIs DEF StartedBy
  <2>5. CASE made[j].id \in Settled
    <3>1. row[made[j].id] # None /\ row[made[j].id] \in Served[made[j].id]
      BY <2>1, <2>2, <2>5, AliveIs DEF Settled
    <3>2. port[j] = row[made[j].id].port
      BY <2>1, <2>2, <3>1 DEF Served, ServedBy, Sole
    <3>3. QED
      BY <1>0, <1>2, <2>2, <2>3, <3>1, <3>2 DEF TableInv, RowsDiffer, Clash
  <2>6. CASE made[j].id \in Bare
    BY <2>1, <2>2, <2>6, AliveIs
  <2>7. QED
    BY <1>1, <2>2, <2>4, <2>5, <2>6 DEF Launching
<1>4. /\ port'[i] = row[t].port /\ authen' = authen \ {i}
      /\ \A j \in Inst \ {i} : port'[j] = port[j]
      /\ UNCHANGED <<row, phase, timer, proc, todo, inst, made, map, inbox>>
  BY <1>0, <1>2, <1>3 DEF Authen, TypeOK, web
<1>5. \A j \in Inst \ {i} : Alive(j)' <=> Alive(j)
  BY <1>4 DEF Alive
<1>6. ServedBy(t, row[t], i)'
  <2>1. inst[i] = "running" /\ map[t] = i /\ made[i] = [id |-> t, setting |-> row[t]] /\ Sole(t, i)
    BY <1>0, <1>1 DEF StartedBy
  <2>2. QED
    BY <1>4, <1>5, <2>1 DEF ServedBy, Sole
<1>7. t \in Settled'
  <2>1. row[t] \in Served'[t]
    BY <1>0, <1>2, <1>4, <1>6 DEF Served
  <2>2. QED
    BY <1>0, <1>2, <1>4, <2>1 DEF Settled
<1>8. todo[t] = None
  <2>1. t \notin Bare
    BY <1>0, AliveIs
  <2>2. QED
    BY <1>0, <1>1, <2>1 DEF Launching
<1>9. /\ proc \in {"fetched", "up"} /\ inbox' = <<>> /\ Handling = {} /\ Timers = {}
      /\ \A u \in Tunnel \ {t} :
             \/ todo[u] = None /\ u \in Settled \cup Starting
             \/ todo[u] = row[u] /\ u \in Rows \cap Bare
  BY <1>1, <1>4 DEF Launching
<1>10. QED
  BY <1>0, <1>4, <1>7, <1>8, <1>9, LaunchMoves

\* The bridge sees the end of an instance, after which there is nothing of it.
LEMMA ReleaseStage ==
  ASSUME IInv, TableInv, Stages, NEW i \in Inst, Release(i)
  PROVE  Stages'
<1>0. TypeOK /\ Alive(i) /\ inst[i] \in {"stopped", "left"} /\ made[i].id \in Tunnel
  BY AliveHasTunnel DEF IInv, Release, Alive
<1>1. PICK t \in Tunnel : made[i].id = t
  BY <1>0
<1>2. /\ inst'[i] = "closed" /\ port'[i] = None
      /\ \A j \in Inst \ {i} : inst'[j] = inst[j] /\ port'[j] = port[j]
      /\ UNCHANGED <<row, phase, timer, proc, todo, made, map, authen, inbox>>
  BY <1>0 DEF Release, TypeOK, web
<1>3. CASE Down
  BY <1>2, <1>3 DEF Down, NoTodo, Stages
<1>4. CASE ~Down
  <2>1. Stopping(t) /\ StoppedBy(t, i)
    BY <1>0, <1>1, <1>4, AliveStage DEF StartedBy
  <2>2. ~Alive(i)' /\ \A j \in Inst \ {i} : Alive(j)' <=> Alive(j)
    BY <1>2, <2>1 DEF Alive, StoppedBy
  <2>3. t \in Bare'
    BY <1>0, <1>1, <1>2, <2>1, <2>2 DEF Bare, StoppedBy, Sole
  <2>4. \A u \in Tunnel \ {t} : u \in Settled => u \in Settled'
    BY <1>0, <1>1, <1>2, <2>2, InstanceMoves
  <2>5. Handling' = Handling /\ Timers' = Timers
    BY <1>2 DEF Handling, Timers, Busy
  <2>6. inbox = <<>>
    <3>1. Served[t] = {}
      BY <1>0, <1>1, AliveIs
    <3>2. QED
      BY <2>1, <3>1 DEF Stopping
  <2>7. Stopping(t)'
    BY <1>2, <2>1, <2>3, <2>4, <2>5, <2>6 DEF Stopping, NoTodo
  <2>8. QED
    BY <2>7 DEF Stages
<1>5. QED
  BY <1>3, <1>4

\* The client ends when all is quiet: what it served is left to the kernel.
LEMMA ExitStage ==
  ASSUME IInv, TableInv, Stages, ~rushed', Exit
  PROVE  Stages'
<1>0. TypeOK
  BY DEF IInv
<1>1. Quiet /\ Calm
  <2>1. Quiet
    BY Zenon DEF Exit, Begins
  <2>2. proc # "off"
    BY DEF Exit
  <2>3. QED
    BY <1>0, <2>1, <2>2, QuietStages DEF Down
<1>2. \A i \in Inst : port[i] # None => inst[i] = "running"
  <2> SUFFICES ASSUME NEW i \in Inst, port[i] # None PROVE inst[i] = "running"
    OBVIOUS
  <2>1. Alive(i)
    BY DEF Alive
  <2>2. made[i].id \in Settled
    BY <1>1, <2>1, AliveHasTunnel DEF Calm
  <2>3. QED
    BY <2>1, <2>2, AliveHasTunnel, AliveIs
<1>3. /\ proc' = "off" /\ inbox' = <<>> /\ NoTodo' /\ \A t \in Tunnel : map'[t] = None
      /\ authen' = {}
  BY <1>1 DEF Exit, Quiet, NoTodo, bridge
<1>4. \A i \in Inst : inst'[i] = CASE inst[i] \in {"running", "stopped"} -> "left"
                                 [] inst[i] \in {"connecting", "timedOut"} -> "closed"
                                 [] OTHER -> inst[i]
  BY DEF Exit
<1>5. ASSUME NEW i \in Inst
      PROVE  /\ inst'[i] \in {"unused", "left", "closed"}
             /\ port'[i] # None => inst'[i] = "left"
  <2>1. inst[i] \in InstState /\ port'[i] = port[i]
    BY <1>0 DEF TypeOK, Exit, bridge
  <2>2. QED
    BY <1>2, <1>4, <2>1 DEF InstState
<1>6. Down'
  BY <1>3, <1>5 DEF Down
<1>7. QED
  BY <1>6 DEF Stages

-----------------------------------------------------------------------------

\* Every step leads from a stage to a stage, or is in a hurry.
LEMMA StagesStep ==
  ASSUME IInv, TableInv, ~rushed => Stages, [Next]_vars, ~rushed'
  PROVE  Stages'
<1>1. ~rushed
  <2>1. \/ rushed' = rushed \/ Begins \/ rushed' = TRUE
        \/ rushed' = (rushed \/ inbox # <<>> \/ \E i \in Inst : inst[i] = "stopped")
    BY DEF Next, vars, BeginAdd, FinishAdd, BeginUpdate, FinishUpdate, Fire, Lock, TestPort,
           CheckRow, WriteRow, DeleteRow, FinishDelete, Expire, Fetch, Online, ReceiveDelete,
           Exit, ReceiveAdd, Started, StartTimeout, Authen, Release, StartNext
  <2>2. QED
    BY <2>1, Zenon DEF Begins
<1>2. Stages
  BY <1>1
<1>3. ASSUME NEW r \in Form, FormStep(r) PROVE Stages'
  BY <1>2, <1>3, BeginStage, CheckStage, WriteStage, FinishAddStage, FinishUpdateStage, FireStage
     DEF FormStep
<1>4. ASSUME NEW r \in Delete, DeleteStep(r) PROVE Stages'
  BY <1>2, <1>4, DeleteStage, FinishDeleteStage DEF DeleteStep
<1>5. CASE \E p \in Port : Expire(p)
  BY <1>2, <1>5, StagesKept DEF Expire
<1>6. CASE Fetch \/ Online \/ ReceiveDelete \/ Exit
  BY <1>2, <1>6, FetchStage, OnlineStage, ReceiveDeleteStage, ExitStage
<1>7. ASSUME NEW i \in Inst, StartTimeout(i) PROVE FALSE
  BY <1>7 DEF StartTimeout
<1>8. ASSUME NEW i \in Inst, ReceiveAdd(i) \/ Started(i) \/ Authen(i) \/ Release(i)
      PROVE  Stages'
  BY <1>2, <1>8, ReceiveAddStage, StartedStage, AuthenStage, ReleaseStage
<1>9. ASSUME NEW i \in Inst, NEW t \in Tunnel, StartNext(i, t) PROVE Stages'
  BY <1>2, <1>9, StartNextStage
<1>10. CASE UNCHANGED vars
  BY <1>2, <1>10, StagesKept DEF vars, web
<1>11. QED
  BY <1>3, <1>4, <1>5, <1>6, <1>7, <1>8, <1>9, <1>10, Steps DEF OtherStep

\* While one thing is done after the other, a client is in one stage of its life:
\* off, launching, with a request that is checked or has written, with a tunnel
\* that is being stopped or announced (the second between DELETE_TUNNEL and
\* ADD_TUNNEL of /update).
THEOREM TunnelsGoByStages == Spec => [](TableInv /\ (~rushed => Stages))
<1>1. Init => TableInv /\ (~rushed => Stages)
  <2> SUFFICES ASSUME Init PROVE TableInv /\ Stages
    OBVIOUS
  <2>1. TableInv
    BY DEF Init, TableInv, RowsDiffer, AddsAreNew, UnusedIsUnbound
  <2>2. Down
    BY DEF Init, Down, NoTodo
  <2>3. QED
    BY <2>1, <2>2 DEF Stages
<1>2. IInv /\ TableInv /\ (~rushed => Stages) /\ [Next]_vars
        => (TableInv /\ (~rushed => Stages))'
  BY TableStep, StagesStep
<1>3. QED
  BY <1>1, <1>2, Invariance, PTL DEF Spec

\* One thing after the other, the client mirrors the table when all is quiet:
\* for every row one instance, in ALL_TUNNEL_MAP, made for the setting of the
\* row and with its port bound, and nothing else runs or holds a port; through
\* any number of adds, updates, deletions and restarts of the client.
THEOREM ClientMirrorsRows == Spec => []MirrorsRows
<1>1. IInv /\ TableInv /\ (~rushed => Stages) => MirrorsRows
  <2> SUFFICES ASSUME IInv, TableInv, Stages, Quiet, proc = "up"
               PROVE  /\ \A t \in Rows : /\ map[t] # None
                                         /\ inst[map[t]] = "running"
                                         /\ made[map[t]] = [id |-> t, setting |-> row[t]]
                                         /\ port[map[t]] = row[t].port
                      /\ \A i \in Inst : (inst[i] = "running" \/ port[i] # None) =>
                                             made[i].id \in Rows /\ map[made[i].id] = i
    BY DEF MirrorsRows
  <2>1. Calm
    BY QuietStages DEF Down, IInv
  <2>2. ASSUME NEW t \in Rows
        PROVE  /\ map[t] # None
               /\ inst[map[t]] = "running"
               /\ made[map[t]] = [id |-> t, setting |-> row[t]]
               /\ port[map[t]] = row[t].port
    <3>1. t \in Tunnel /\ row[t] \in Served[t]
      BY <2>1 DEF Calm, Settled, Rows
    <3>2. PICK i \in Inst : ServedBy(t, row[t], i)
      BY <3>1 DEF Served
    <3>3. QED
      BY <3>2, RequestAssumption DEF ServedBy
  <2>3. ASSUME NEW i \in Inst, inst[i] = "running" \/ port[i] # None
        PROVE  made[i].id \in Rows /\ map[made[i].id] = i
    <3>1. Alive(i)
      BY <2>3 DEF Alive
    <3>2. made[i].id \in Tunnel /\ made[i].id \in Settled /\ made[i].id \notin Bare
      BY <2>1, <3>1, AliveHasTunnel, AliveIs DEF Calm
    <3>3. row[made[i].id] # None /\ row[made[i].id] \in Served[made[i].id]
      BY <3>2 DEF Settled
    <3>4. QED
      BY <3>1, <3>2, <3>3 DEF Served, ServedBy, Sole, Rows
  <2>4. QED
    BY <2>2, <2>3
<1>2. QED
  BY <1>1, TunnelsGoByStages, Invariance, PTL
=============================================================================
