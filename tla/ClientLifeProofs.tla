-------------------------- MODULE ClientLifeProofs --------------------------
(***************************************************************************)
(* Proofs about ClientLife, for any number of processes and of checks that *)
(* overlap: the types, that a process has one successor, that one process  *)
(* at a time serves, and when the last one may end.                        *)
(***************************************************************************)
EXTENDS ClientLife, TLAPS

Awake(p) == ~Gone(p) /\ phase[p] # "sleeping"

\* Processes come one after the other: who sleeps is the child of the one that
\* is awake.
OneAwake ==
    /\ \A p, q \in Proc : Awake(p) /\ Awake(q) => p = q
    /\ \A p, q \in Proc : phase[p] = "sleeping" /\ phase[q] = "sleeping" => p = q
    /\ \A p, q \in Proc : phase[q] = "sleeping" /\ Awake(p) => parent[q] = p

\* What has not begun, or is over, does nothing.
QuietOnesRest ==
    \A p \in Proc :
        /\ Gone(p) \/ phase[p] = "sleeping" =>
              p \notin leaving /\ tunnel[p] # "up" /\ cmd[p] = "none" /\ ~watch[p]
              /\ \A k \in Check : check[p][k] = "idle"
        /\ phase[p] = "none" => parent[p] = 0 /\ \A q \in Proc : parent[q] # p

\* A process with a successor is about to exit or has done so.
ParentsLeave == \A q \in Proc : parent[q] # 0 => parent[q] \in leaving \/ Gone(parent[q])

\* Some process stays, unless one was turned away.
SomebodyStays == turned = {} => \E p \in Proc : ~Gone(p) /\ p \notin leaving

IInv ==
    /\ TypeOK
    /\ OneAwake
    /\ QuietOnesRest
    /\ ParentsLeave
    /\ OneSuccessor
    /\ SomebodyStays

\* The inductive invariant holds at first.
LEMMA IInvInit == Init => IInv
<1> SUFFICES ASSUME Init PROVE IInv
  OBVIOUS
<1> USE ProcAssumption
<1>1. TypeOK /\ OneAwake /\ QuietOnesRest
  BY DEF Init, TypeOK, OneAwake, QuietOnesRest, Awake, Gone
<1>2. ParentsLeave /\ OneSuccessor /\ SomebodyStays
  BY DEF Init, ParentsLeave, OneSuccessor, SomebodyStays, Gone
<1>3. QED
  BY <1>1, <1>2 DEF IInv

\* A step that leaves phases, parents and the processes that leave as they are.
Still == UNCHANGED <<phase, parent, leaving, turned>>

\* A step of main of a process that is awake.
Onward(p) ==
    \/ GetClient(p) \/ GetConfig(p) \/ JoinTimesOut(p) \/ StartTunnels(p) \/ StartEdge(p)

\* The steps, grouped by what they touch.
LEMMA NextCases ==
  Next => \/ \E p \in Proc : \/ Wake(p) \/ Onward(p) \/ Exit(p) \/ LogIn(p)
                             \/ LoseSocket(p) \/ ServerDrops(p) \/ LoseTunnels(p)
                             \/ \E k \in Check : \/ BeginCheck(p, k) \/ CheckFails(p, k)
                                                 \/ CheckSucceeds(p, k) \/ Restart(p, k)
          \/ Break \/ Return \/ ServerRestarts
BY DEF Next, Main, Onward, Answered

\* Steps that move no process.
LEMMA StillStep ==
  ASSUME IInv,
         \/ \E p \in Proc : \/ LoseSocket(p) \/ ServerDrops(p) \/ LoseTunnels(p)
                            \/ \E k \in Check : BeginCheck(p, k) \/ CheckFails(p, k)
                                                \/ CheckSucceeds(p, k)
         \/ Break \/ Return \/ ServerRestarts
  PROVE  IInv'
<1>0. TypeOK /\ OneAwake /\ QuietOnesRest /\ ParentsLeave /\ OneSuccessor /\ SomebodyStays
  BY DEF IInv
<1>1. Still
  BY DEF LoseSocket, ServerDrops, LoseTunnels, BeginCheck, CheckFails, CheckSucceeds,
     Break, Return, ServerRestarts, watchdog, Still
<1>2. TypeOK'
  <2>1. CASE \E p \in Proc : LoseSocket(p) \/ ServerDrops(p)
    <3>1. /\ cmd' \in [Proc -> {"none", "down", "up", "refused"}]
          /\ held' \in [Proc -> SUBSET {"live", "ghost"}]
      BY <1>0, <2>1 DEF LoseSocket, ServerDrops, TypeOK
    <3>2. UNCHANGED <<net, phase, parent, fine, watch, check, tunnel, leaving, turned>>
      BY <2>1 DEF LoseSocket, ServerDrops, watchdog
    <3>3. QED
      BY <1>0, <3>1, <3>2 DEF TypeOK
  <2>2. CASE (\E p \in Proc : LoseTunnels(p)) \/ Break \/ Return
    BY <1>0, <2>2 DEF LoseTunnels, Break, Return, watchdog, TypeOK
  <2>3. CASE \E p \in Proc : \E k \in Check :
                BeginCheck(p, k) \/ CheckFails(p, k) \/ CheckSucceeds(p, k)
    <3>1. PICK p \in Proc, k \in Check :
                BeginCheck(p, k) \/ CheckFails(p, k) \/ CheckSucceeds(p, k)
      BY <2>3
    <3>2. PICK c \in {"idle", "first", "second"} : check' = [check EXCEPT ![p][k] = c]
      BY <1>0, <3>1 DEF BeginCheck, CheckFails, CheckSucceeds, TypeOK
    <3>3. fine' = fine \/ fine' = [fine EXCEPT ![p] = FALSE]
      BY <3>1 DEF BeginCheck, CheckFails, CheckSucceeds
    <3>4. UNCHANGED <<net, phase, parent, watch, cmd, held, tunnel, leaving, turned>>
      BY <3>1 DEF BeginCheck, CheckFails, CheckSucceeds
    <3>5. check' \in [Proc -> [Check -> {"idle", "first", "second"}]]
      BY <1>0, <3>2 DEF TypeOK
    <3>6. QED
      BY <1>0, <3>3, <3>4, <3>5 DEF TypeOK
  <2>4. CASE ServerRestarts
    BY <1>0, <2>4 DEF ServerRestarts, watchdog, TypeOK
  <2>5. QED
    BY <2>1, <2>2, <2>3, <2>4
<1>3. QuietOnesRest'
  BY <1>0 DEF LoseSocket, ServerDrops, LoseTunnels, BeginCheck, CheckFails, CheckSucceeds,
     Break, Return, ServerRestarts, watchdog, QuietOnesRest, Gone, TypeOK
<1>4. OneAwake' /\ ParentsLeave' /\ OneSuccessor' /\ SomebodyStays'
  BY <1>0, <1>1 DEF Still, OneAwake, ParentsLeave, OneSuccessor, SomebodyStays, Awake, Gone
<1>5. QED
  BY <1>2, <1>3, <1>4 DEF IInv

\* A step of main keeps its process awake.
LEMMA OnwardStep ==
  ASSUME IInv, NEW p \in Proc, Onward(p)
  PROVE  IInv'
<1>0. TypeOK /\ OneAwake /\ QuietOnesRest /\ ParentsLeave /\ OneSuccessor /\ SomebodyStays
  BY DEF IInv
<1>1. Awake(p) /\ Awake(p)'
  BY <1>0 DEF Onward, GetClient, GetConfig, JoinTimesOut, StartTunnels, StartEdge,
     Awake, Gone, Goto, TypeOK
<1>2. \A q \in Proc : q # p => phase'[q] = phase[q]
  BY <1>0 DEF Onward, GetClient, GetConfig, JoinTimesOut, StartTunnels, StartEdge, Goto, TypeOK
<1>3. UNCHANGED <<parent, leaving, turned, check, net, held>>
  BY DEF Onward, GetClient, GetConfig, JoinTimesOut, StartTunnels, StartEdge, watchdog
<1>4. TypeOK'
  <2>1. CASE GetClient(p)
    BY <1>0, <2>1 DEF GetClient, Goto, watchdog, TypeOK
  <2>2. CASE GetConfig(p) \/ JoinTimesOut(p)
    BY <1>0, <2>2 DEF GetConfig, JoinTimesOut, Goto, watchdog, TypeOK
  <2>3. CASE StartTunnels(p) \/ StartEdge(p)
    BY <1>0, <2>3 DEF StartTunnels, StartEdge, Goto, watchdog, TypeOK
  <2>4. QED
    BY <2>1, <2>2, <2>3 DEF Onward
<1>5. \A q \in Proc : q # p => tunnel'[q] = tunnel[q] /\ cmd'[q] = cmd[q] /\ watch'[q] = watch[q]
  BY <1>0 DEF Onward, GetClient, GetConfig, JoinTimesOut, StartTunnels, StartEdge, watchdog, TypeOK
<1>6. QuietOnesRest'
  BY <1>0, <1>1, <1>2, <1>3, <1>5 DEF QuietOnesRest, Awake, Gone
<1>7. OneAwake'
  BY <1>0, <1>1, <1>2, <1>3 DEF OneAwake, Awake, Gone
<1>8. ParentsLeave' /\ OneSuccessor' /\ SomebodyStays'
  <2>1. \A q \in Proc : Gone(q)' <=> Gone(q)
    BY <1>1, <1>2 DEF Awake, Gone
  <2>2. \A q \in Proc : parent[q] # 0 => parent[q] \in Proc
    BY <1>0 DEF TypeOK
  <2>3. QED
    BY <1>0, <1>3, <2>1, <2>2 DEF ParentsLeave, OneSuccessor, SomebodyStays
<1>9. QED
  BY <1>4, <1>6, <1>7, <1>8 DEF IInv

\* A successor wakes.
LEMMA WakeStep ==
  ASSUME IInv, NEW p \in Proc, Wake(p)
  PROVE  IInv'
<1>0. TypeOK /\ OneAwake /\ QuietOnesRest /\ ParentsLeave /\ OneSuccessor /\ SomebodyStays
  BY DEF IInv
<1>1. /\ phase[p] = "sleeping" /\ phase' = [phase EXCEPT ![p] = "getting"]
      /\ parent[p] # 0 => Gone(parent[p])
      /\ UNCHANGED <<net, parent, fine, watch, check, cmd, held, tunnel, leaving, turned>>
  BY DEF Wake, Goto, watchdog
<1>2. TypeOK'
  BY <1>0, <1>1 DEF TypeOK
<1>3. \A q \in Proc : ~Awake(q)
  BY <1>0, <1>1, ProcAssumption DEF OneAwake, Awake, TypeOK
<1>4. OneAwake'
  BY <1>0, <1>1, <1>3 DEF OneAwake, Awake, Gone, TypeOK
<1>5. QuietOnesRest'
  BY <1>0, <1>1 DEF QuietOnesRest, Gone, TypeOK
<1>6. ParentsLeave' /\ OneSuccessor' /\ SomebodyStays'
  <2>1. \A q \in Proc : Gone(q)' <=> Gone(q)
    BY <1>0, <1>1 DEF Gone, TypeOK
  <2>2. \A q \in Proc : parent[q] # 0 => parent[q] \in Proc
    BY <1>0 DEF TypeOK
  <2>3. QED
    BY <1>0, <1>1, <2>1, <2>2 DEF ParentsLeave, OneSuccessor, SomebodyStays
<1>7. QED
  BY <1>2, <1>4, <1>5, <1>6 DEF IInv

\* A process exits.
LEMMA ExitStep ==
  ASSUME IInv, NEW p \in Proc, Exit(p)
  PROVE  IInv'
<1>0. TypeOK /\ OneAwake /\ QuietOnesRest /\ ParentsLeave /\ OneSuccessor /\ SomebodyStays
  BY DEF IInv
<1>1. /\ p \in leaving /\ leaving' = leaving \ {p} /\ phase' = [phase EXCEPT ![p] = "dead"]
      /\ watch' = [watch EXCEPT ![p] = FALSE]
      /\ check' = [check EXCEPT ![p] = [k \in Check |-> "idle"]]
      /\ cmd' = [cmd EXCEPT ![p] = "none"]
      /\ tunnel' = [tunnel EXCEPT ![p] = "none"]
      /\ UNCHANGED <<net, parent, fine, turned>>
  BY DEF Exit, Goto
<1>2. TypeOK'
  <2>1. held' \in [Proc -> SUBSET {"live", "ghost"}]
    BY <1>0 DEF Exit, TypeOK
  <2>2. QED
    BY <1>0, <1>1, <2>1 DEF TypeOK
<1>3. OneAwake'
  BY <1>0, <1>1 DEF OneAwake, Awake, Gone, TypeOK
<1>4. QuietOnesRest'
  BY <1>0, <1>1 DEF QuietOnesRest, Gone, TypeOK
<1>5. ParentsLeave' /\ OneSuccessor'
  BY <1>0, <1>1 DEF ParentsLeave, OneSuccessor, Gone, TypeOK
<1>6. SomebodyStays'
  BY <1>0, <1>1 DEF SomebodyStays, Gone, TypeOK
<1>7. QED
  BY <1>2, <1>3, <1>4, <1>5, <1>6 DEF IInv

\* A process logs in.
LEMMA LogInStep ==
  ASSUME IInv, NEW p \in Proc, LogIn(p)
  PROVE  IInv'
<1>0. TypeOK /\ OneAwake /\ QuietOnesRest /\ ParentsLeave /\ OneSuccessor /\ SomebodyStays
  BY DEF IInv
<1>1. Awake(p)
  BY <1>0 DEF LogIn, QuietOnesRest, Awake
<1>2. /\ leaving \subseteq leaving' /\ leaving' \subseteq leaving \cup {p}
      /\ turned \subseteq turned' /\ turned' \subseteq turned \cup {p}
      /\ turned' = {} => leaving' = leaving
  BY DEF LogIn
<1>3. UNCHANGED <<net, parent, fine, watch, check, tunnel>>
  BY DEF LogIn, watchdog
<1>4. TypeOK'
  <2>1. phase' = [phase EXCEPT ![p] = IF phase[p] = "joining" THEN "tunnels" ELSE phase[p]]
    BY DEF LogIn, Goto
  <2>2. cmd' \in [Proc -> {"none", "down", "up", "refused"}]
        /\ held' \in [Proc -> SUBSET {"live", "ghost"}]
    <3>1. CASE \E q \in Proc : held[q] # {}
      BY <1>0, <3>1 DEF LogIn, TypeOK
    <3>2. CASE ~\E q \in Proc : held[q] # {}
      <4>1. cmd' = [cmd EXCEPT ![p] = "up"] /\ held' = [held EXCEPT ![p] = {"live"}]
        BY <3>2 DEF LogIn
      <4>2. QED
        BY <1>0, <4>1 DEF TypeOK
    <3>3. QED
      BY <3>1, <3>2
  <2>3. QED
    BY <1>0, <1>2, <1>3, <2>1, <2>2 DEF TypeOK
<1>5. \A q \in Proc : q # p => phase'[q] = phase[q] /\ cmd'[q] = cmd[q]
  BY <1>0 DEF LogIn, Goto, TypeOK
<1>6. Awake(p)'
  BY <1>0, <1>1 DEF LogIn, Goto, Awake, Gone, TypeOK
<1>7. \A q \in Proc : Gone(q)' <=> Gone(q)
  BY <1>1, <1>5, <1>6 DEF Awake, Gone
<1>8. OneAwake'
  BY <1>0, <1>1, <1>3, <1>5, <1>6 DEF OneAwake, Awake, Gone
<1>9. QuietOnesRest'
  BY <1>0, <1>1, <1>2, <1>3, <1>5, <1>6 DEF QuietOnesRest, Awake, Gone
<1>10. ParentsLeave' /\ OneSuccessor' /\ SomebodyStays'
  <2>1. \A q \in Proc : parent[q] # 0 => parent[q] \in Proc
    BY <1>0 DEF TypeOK
  <2>2. QED
    BY <1>0, <1>2, <1>3, <1>7, <2>1 DEF ParentsLeave, OneSuccessor, SomebodyStays
<1>11. QED
  BY <1>4, <1>8, <1>9, <1>10 DEF IInv

\* A successor is spawned.
LEMMA RestartStep ==
  ASSUME IInv, NEW p \in Proc, NEW k \in Check, Restart(p, k)
  PROVE  IInv'
<1>0. TypeOK /\ OneAwake /\ QuietOnesRest /\ ParentsLeave /\ OneSuccessor /\ SomebodyStays
  BY DEF IInv
<1>1. /\ check' = [check EXCEPT ![p][k] = "idle"] /\ check[p][k] # "idle"
      /\ fine' = [fine EXCEPT ![p] = TRUE] /\ watch' = [watch EXCEPT ![p] = FALSE]
      /\ leaving' = leaving \cup {p}
      /\ UNCHANGED <<net, cmd, held, tunnel, turned>>
  BY DEF Restart
<1>2. Awake(p)
  BY <1>0, <1>1 DEF QuietOnesRest, Awake
<1>3. CASE \E q \in Proc : parent[q] = p
  <2>1. UNCHANGED <<parent, phase>>
    BY <1>3 DEF Restart, Spawn
  <2>2. p \in leaving
    BY <1>0, <1>2, <1>3, ProcAssumption DEF ParentsLeave, Awake
  <2>3. TypeOK'
    BY <1>0, <1>1, <2>1 DEF TypeOK
  <2>4. QuietOnesRest'
    BY <1>0, <1>1, <1>2, <2>1 DEF QuietOnesRest, Awake, Gone, TypeOK
  <2>5. OneAwake' /\ ParentsLeave' /\ OneSuccessor' /\ SomebodyStays'
    BY <1>0, <1>1, <2>1, <2>2 DEF OneAwake, ParentsLeave, OneSuccessor, SomebodyStays, Awake, Gone
  <2>6. QED
    BY <2>3, <2>4, <2>5 DEF IInv
<1>4. CASE ~\E q \in Proc : parent[q] = p
  <2>1. PICK q \in Proc : /\ phase[q] = "none"
                          /\ parent' = [parent EXCEPT ![q] = p]
                          /\ phase' = [phase EXCEPT ![q] = "sleeping"]
    BY <1>4 DEF Restart, Spawn
  <2>2. q # p /\ q \notin leaving /\ parent[q] = 0
    BY <1>0, <1>2, <2>1 DEF QuietOnesRest, Awake, Gone
  <2>3. TypeOK'
    BY <1>0, <1>1, <2>1 DEF TypeOK
  <2>4. OneAwake'
    BY <1>0, <1>2, <1>4, <2>1, <2>2 DEF OneAwake, Awake, Gone, TypeOK
  <2>5. QuietOnesRest'
    BY <1>0, <1>1, <1>2, <2>1, <2>2, ProcAssumption DEF QuietOnesRest, Awake, Gone, TypeOK
  <2>6. ParentsLeave'
    BY <1>0, <1>1, <2>1, <2>2, ProcAssumption DEF ParentsLeave, QuietOnesRest, Gone, TypeOK
  <2>7. OneSuccessor'
    BY <1>0, <1>4, <2>1, <2>2, ProcAssumption DEF OneSuccessor, TypeOK
  <2>8. SomebodyStays'
    BY <1>0, <1>1, <2>1, <2>2 DEF SomebodyStays, Gone, TypeOK
  <2>9. QED
    BY <2>3, <2>4, <2>5, <2>6, <2>7, <2>8 DEF IInv
<1>5. QED
  BY <1>3, <1>4

\* Every step keeps the inductive invariant.
LEMMA IInvStep == IInv /\ [Next]_vars => IInv'
<1>1. ASSUME IInv, Next PROVE IInv'
  BY <1>1, NextCases, StillStep, OnwardStep, WakeStep, ExitStep, LogInStep, RestartStep
<1>2. ASSUME IInv, UNCHANGED vars PROVE IInv'
  BY <1>2 DEF vars, IInv, TypeOK, OneAwake, QuietOnesRest, ParentsLeave, OneSuccessor,
     SomebodyStays, Awake, Gone
<1>3. QED
  BY <1>1, <1>2

\* The inductive invariant holds in every reachable state.
THEOREM Invariance == Spec => []IInv
BY IInvInit, IInvStep, PTL DEF Spec

\* In every reachable state the variables have their types.
THEOREM Typing == Spec => []TypeOK
<1>1. IInv => TypeOK
  BY DEF IInv
<1>2. QED
  BY Invariance, <1>1, PTL

\* However many checks overlap, a process has one successor.
THEOREM SuccessorsAreSingle == Spec => []OneSuccessor
<1>1. IInv => OneSuccessor
  BY DEF IInv
<1>2. QED
  BY Invariance, <1>1, PTL

\* One process at a time has the tunnels.
THEOREM OneProcessServes == Spec => []OneServes
<1>1. IInv => OneServes
  BY DEF IInv, OneAwake, QuietOnesRest, OneServes, Awake
<1>2. QED
  BY Invariance, <1>1, PTL

\* The last process ends only when one was turned away.
THEOREM OutagesLeaveOne == Spec => []EndsOnlyAsRepeat
<1>1. IInv => EndsOnlyAsRepeat
  BY DEF IInv, SomebodyStays, EndsOnlyAsRepeat
<1>2. QED
  BY Invariance, <1>1, PTL
=============================================================================
