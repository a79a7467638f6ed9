-------------------------- MODULE TcpTunnelProofs --------------------------
(***************************************************************************)
(* Proofs about TcpTunnel, for every set of connections, tunnels and       *)
(* ports: the types, what a refused connection holds, how a port can be    *)
(* orphaned, and that the ports are leases in the sense of PortLease.      *)
(***************************************************************************)
EXTENDS TcpTunnel, Integers, TLAPS

\* Two servers that listen have two ports.
PortsDiffer ==
    \A c, d \in Conn : (Listening(c) /\ Listening(d) /\ port[c] = port[d]) => c = d

\* The server knows nothing of a connection that is not made yet.
NothingBeforeConnected ==
    \A c \in Conn :
        client[c] \in {"new", "connecting", "timedOut"} =>
            /\ sock[c] = "none"
            /\ wire[c] = <<>>
            /\ authen[c] = "none"

\* authen is written once, and first.
AuthenOnce ==
    \A c \in Conn : \A i \in 1..Len(wire[c]) :
        wire[c][i] = "authen" => i = 1 /\ authen[c] = "none"

\* The port a handler has read is one of its answers, and nothing before.
AnswerGivesPort ==
    \A c \in Conn :
        /\ authen[c] = "found" => port[c] \in Port
        /\ authen[c] \in {"none", "querying", "missing"} => port[c] = NoPort
        /\ authen[c] # "none" => sock[c] # "none"

\* A proxy server is what a finished authen with a port leaves; quitClient is
\* what a finished authen without one leaves.
ProxyAfterAuthen ==
    \A c \in Conn :
        /\ proxy[c] # "none" => authen[c] = "done" /\ port[c] \in Port
        /\ c \in quit => authen[c] = "done" /\ port[c] = NoPort

IInv ==
    /\ TypeOK
    /\ PortsDiffer
    /\ NothingBeforeConnected
    /\ AuthenOnce
    /\ AnswerGivesPort
    /\ ProxyAfterAuthen

-----------------------------------------------------------------------------
(* Types                                                                   *)

LEMMA TypeOKInit == Init => TypeOK
BY DEF Init, TypeOK, Message, ClientState, HandlerState

\* What a client writes keeps the type of the wire.
LEMMA WriteType ==
  ASSUME TypeOK, NEW c \in Conn, NEW m \in Message, Write(c, m)
  PROVE  wire' \in [Conn -> Seq(Message)]
BY DEF TypeOK, Write

\* What the server reads keeps the type of the wire.
LEMMA ReadType ==
  ASSUME TypeOK, NEW c \in Conn, NEW m, Reads(c, m)
  PROVE  wire' \in [Conn -> Seq(Message)]
BY DEF TypeOK, Reads

\* Closing a proxy server keeps the type of proxy.
LEMMA CloseType ==
  ASSUME TypeOK, NEW c \in Conn, CloseProxy(c)
  PROVE  proxy' \in [Conn -> {"none", "listening", "failed", "closed"}]
BY DEF TypeOK, CloseProxy

LEMMA ClientTypeStep ==
  ASSUME TypeOK, NEW c \in Conn, ClientStep(c)
  PROVE  TypeOK'
<1> USE DEF TypeOK, ClientState, server
<1>1. CASE StartTunnel(c) \/ StartTimeout(c) \/ ClientSeesClose(c)
  BY <1>1 DEF StartTunnel, StartTimeout, ClientSeesClose
<1>2. CASE Connected(c)
  <2>1. <<"authen">> \in Seq(Message)
    BY DEF Message
  <2>2. wire' \in [Conn -> Seq(Message)]
    BY <1>2, <2>1 DEF Connected
  <2>3. QED
    BY <1>2, <2>2 DEF Connected
<1>3. CASE ClientStop(c)
  BY <1>3, WriteType DEF ClientStop, Message
<1>4. CASE ClientStopTimer(c) \/ ReceiveQuit(c) \/ ClientDies(c)
  <2>1. Write(c, "fin")
    BY <1>4 DEF ClientStopTimer, ReceiveQuit, ClientDies
  <2>2. wire' \in [Conn -> Seq(Message)]
    BY <2>1, WriteType DEF Message
  <2>3. QED
    BY <1>4, <2>2 DEF ClientStopTimer, ReceiveQuit, ClientDies
<1>5. CASE LinkBreaks(c)
  <2>1. <<"reset">> \in Seq(Message)
    BY DEF Message
  <2>2. QED
    BY <1>5, <2>1 DEF LinkBreaks
<1>6. QED
  BY <1>1, <1>2, <1>3, <1>4, <1>5 DEF ClientStep

LEMMA ServerTypeStep ==
  ASSUME TypeOK, NEW c \in Conn, AuthenStep(c) \/ StopStep(c) \/ LossStep(c)
  PROVE  TypeOK'
<1> USE TunnelOfAssumption DEF TypeOK, HandlerState
<1>1. CASE ReadAuthen(c)
  BY <1>1, ReadType DEF ReadAuthen
<1>2. CASE AnswerAuthen(c)
  BY <1>2 DEF AnswerAuthen, Found
<1>3. CASE Authen(c)
  BY <1>3 DEF Authen
<1>4. CASE RejectAuthen(c)
  BY <1>4 DEF RejectAuthen
<1>5. CASE ReadStop(c)
  BY <1>5, ReadType DEF ReadStop
<1>6. CASE AnswerStop(c)
  BY <1>6 DEF AnswerStop, Found
<1>7. CASE StopTunnel(c)
  BY <1>7, CloseType DEF StopTunnel
<1>8. CASE RejectStop(c)
  BY <1>8 DEF RejectStop
<1>9. CASE QueryFails(c)
  BY <1>9 DEF QueryFails
<1>10. CASE SocketLost(c)
  <2>1. wire' \in [Conn -> Seq(Message)]
    BY <1>10, ReadType DEF SocketLost
  <2>2. QED
    BY <1>10, <2>1, CloseType DEF SocketLost
<1>11. CASE Destroy(c)
  <2>1. <<>> \in Seq(Message)
    OBVIOUS
  <2>2. CASE sock[c] = "open"
    BY <1>11, <2>1, <2>2 DEF Destroy
  <2>3. CASE sock[c] # "open"
    BY <1>11, <2>3 DEF Destroy
  <2>4. QED
    BY <2>2, <2>3
<1>12. QED
  BY <1>1, <1>2, <1>3, <1>4, <1>5, <1>6, <1>7, <1>8, <1>9, <1>10, <1>11
     DEF AuthenStep, StopStep, LossStep

\* The variables keep their types in every step.
LEMMA TypeOKStep == TypeOK /\ [Next]_vars => TypeOK'
<1> SUFFICES ASSUME TypeOK, [Next]_vars PROVE TypeOK'
  OBVIOUS
<1>1. ASSUME NEW t \in Tunnel, NEW p \in Port \cup {NoPort}, SetRow(t, p) PROVE TypeOK'
  BY <1>1 DEF SetRow, TypeOK, server
<1>2. CASE Restart
  <2>1. <<>> \in Seq(Message)
    OBVIOUS
  <2>2. QED
    BY <1>2, <2>1 DEF Restart, TypeOK, Listening, HandlerState
<1>3. CASE UNCHANGED vars
  BY <1>3 DEF vars, TypeOK
<1>4. QED
  BY <1>1, <1>2, <1>3, ClientTypeStep, ServerTypeStep DEF Next

\* In every reachable state the variables have their types.
THEOREM Typing == Spec => []TypeOK
BY TypeOKInit, TypeOKStep, PTL DEF Spec

-----------------------------------------------------------------------------
(* The inductive invariant                                                 *)

LEMMA IInvInit == Init => IInv
BY TypeOKInit
   DEF Init, IInv, PortsDiffer, Listening, NothingBeforeConnected, AuthenOnce,
       AnswerGivesPort, ProxyAfterAuthen

\* Ports stay distinct: only Authen makes a server listen, and on a free port.
LEMMA PortsDifferStep == IInv /\ [Next]_vars => PortsDiffer'
<1> SUFFICES ASSUME IInv, [Next]_vars PROVE PortsDiffer'
  OBVIOUS
<1> USE DEF IInv, TypeOK, PortsDiffer, Listening
<1>1. ASSUME UNCHANGED <<proxy, port>> PROVE PortsDiffer'
  BY <1>1
<1>2. ASSUME NEW c \in Conn, AnswerAuthen(c) PROVE PortsDiffer'
  <2>1. proxy[c] = "none"
    BY <1>2 DEF AnswerAuthen, ProxyAfterAuthen
  <2>2. QED
    BY <1>2, <2>1 DEF AnswerAuthen
<1>3. ASSUME NEW c \in Conn, Authen(c) PROVE PortsDiffer'
  BY <1>3 DEF Authen, PortFree
<1>4. ASSUME NEW c \in Conn, StopTunnel(c) \/ SocketLost(c) PROVE PortsDiffer'
  BY <1>4 DEF StopTunnel, SocketLost, CloseProxy
<1>5. CASE Restart
  BY <1>5 DEF Restart
<1>6. ASSUME NEW t \in Tunnel, NEW p \in Port \cup {NoPort}, SetRow(t, p)
      PROVE  PortsDiffer'
  BY <1>1, <1>6 DEF SetRow, server
<1>7. ASSUME NEW c \in Conn, ClientStep(c) PROVE PortsDiffer'
  BY <1>1, <1>7
     DEF ClientStep, StartTunnel, StartTimeout, Connected, ClientStop, ClientStopTimer,
         ReceiveQuit, ClientSeesClose, ClientDies, LinkBreaks, server
<1>8. ASSUME NEW c \in Conn,
             \/ ReadAuthen(c) \/ RejectAuthen(c) \/ ReadStop(c) \/ AnswerStop(c)
             \/ RejectStop(c) \/ QueryFails(c) \/ Destroy(c)
      PROVE  PortsDiffer'
  BY <1>1, <1>8
     DEF ReadAuthen, RejectAuthen, ReadStop, AnswerStop, RejectStop, QueryFails, Destroy
<1>9. CASE UNCHANGED vars
  BY <1>1, <1>9 DEF vars
<1>10. QED
  BY <1>2, <1>3, <1>4, <1>5, <1>6, <1>7, <1>8, <1>9
     DEF Next, AuthenStep, StopStep, LossStep

\* A connection that is not made has no traffic and no handler.
LEMMA NothingBeforeConnectedStep == IInv /\ [Next]_vars => NothingBeforeConnected'
<1> SUFFICES ASSUME IInv, [Next]_vars PROVE NothingBeforeConnected'
  OBVIOUS
<1> USE DEF IInv, TypeOK, NothingBeforeConnected
<1>1. ASSUME NEW t \in Tunnel, NEW p \in Port \cup {NoPort}, SetRow(t, p)
      PROVE  NothingBeforeConnected'
  BY <1>1 DEF SetRow, server
<1>2. ASSUME NEW c \in Conn, ClientStep(c) PROVE NothingBeforeConnected'
  BY <1>2
     DEF ClientStep, StartTunnel, StartTimeout, Connected, ClientStop, ClientStopTimer,
         ReceiveQuit, ClientSeesClose, ClientDies, LinkBreaks, Write, server
<1>3. ASSUME NEW c \in Conn, AuthenStep(c) PROVE NothingBeforeConnected'
  BY <1>3 DEF AuthenStep, ReadAuthen, AnswerAuthen, Authen, RejectAuthen, Reads
<1>4. ASSUME NEW c \in Conn, StopStep(c) PROVE NothingBeforeConnected'
  BY <1>4 DEF StopStep, ReadStop, AnswerStop, StopTunnel, RejectStop, Reads
<1>5. ASSUME NEW c \in Conn, LossStep(c) PROVE NothingBeforeConnected'
  BY <1>5 DEF LossStep, QueryFails, SocketLost, Destroy, Reads
<1>6. CASE Restart
  BY <1>6 DEF Restart
<1>7. CASE UNCHANGED vars
  BY <1>7 DEF vars
<1>8. QED
  BY <1>1, <1>2, <1>3, <1>4, <1>5, <1>6, <1>7 DEF Next

\* Reading leaves no authen behind: it was first, or not there.
LEMMA ReadLeavesNoAuthen ==
  ASSUME IInv, NEW c \in Conn, NEW m, Reads(c, m)
  PROVE  \A i \in 1..Len(wire'[c]) : wire'[c][i] # "authen"
<1>1. wire[c] \in Seq(Message) /\ wire[c] # <<>> /\ wire'[c] = Tail(wire[c])
  BY DEF IInv, TypeOK, Reads
<1>2. Len(wire'[c]) = Len(wire[c]) - 1
  BY <1>1
<1>3. \A i \in 1..Len(wire'[c]) : wire'[c][i] = wire[c][i + 1] /\ i + 1 \in 1..Len(wire[c])
  BY <1>1, <1>2
<1>4. \A i \in 1..Len(wire[c]) : wire[c][i] = "authen" => i = 1
  BY DEF IInv, AuthenOnce
<1>5. QED
  BY <1>3, <1>4

\* What a client writes after its login is not another authen.
LEMMA WriteKeepsAuthenOnce ==
  ASSUME IInv, NEW c \in Conn, NEW m \in Message, m # "authen", Write(c, m),
         UNCHANGED authen
  PROVE  AuthenOnce'
<1> SUFFICES ASSUME NEW d \in Conn, NEW i \in 1..Len(wire'[d]), wire'[d][i] = "authen"
             PROVE  i = 1 /\ authen'[d] = "none"
  BY DEF AuthenOnce
<1>1. CASE wire'[d] = wire[d]
  BY <1>1 DEF IInv, AuthenOnce
<1>2. CASE wire'[d] # wire[d]
  <2>1. d = c /\ wire'[d] = Append(wire[d], m)
    BY <1>2 DEF Write, IInv, TypeOK
  <2>2. wire[d] \in Seq(Message)
    BY DEF IInv, TypeOK
  <2>3. i \in 1..Len(wire[d]) /\ wire'[d][i] = wire[d][i]
    BY <2>1, <2>2
  <2>4. QED
    BY <2>3 DEF IInv, AuthenOnce
<1>3. QED
  BY <1>1, <1>2

LEMMA AuthenOnceStep == IInv /\ [Next]_vars => AuthenOnce'
<1> SUFFICES ASSUME IInv, [Next]_vars PROVE AuthenOnce'
  OBVIOUS
<1>1. ASSUME UNCHANGED <<wire, authen>> PROVE AuthenOnce'
  BY <1>1 DEF IInv, AuthenOnce
<1>2. ASSUME NEW t \in Tunnel, NEW p \in Port \cup {NoPort}, SetRow(t, p)
      PROVE  AuthenOnce'
  BY <1>1, <1>2 DEF SetRow, server
<1>3. ASSUME NEW c \in Conn, Connected(c) PROVE AuthenOnce'
  <2>1. authen[c] = "none" /\ authen' = authen
    BY <1>3 DEF Connected, IInv, NothingBeforeConnected
  <2>2. wire'[c] = <<"authen">> \/ wire'[c] = wire[c]
    BY <1>3 DEF Connected, IInv, TypeOK
  <2>3. \A d \in Conn : d # c => wire'[d] = wire[d]
    BY <1>3 DEF Connected, IInv, TypeOK
  <2>4. \A i \in 1..Len(<<"authen">>) : i = 1
    OBVIOUS
  <2>5. QED
    BY <2>1, <2>2, <2>3, <2>4 DEF IInv, AuthenOnce
<1>4. ASSUME NEW c \in Conn, StartTunnel(c) \/ StartTimeout(c) \/ ClientSeesClose(c)
      PROVE  AuthenOnce'
  BY <1>1, <1>4 DEF StartTunnel, StartTimeout, ClientSeesClose, server
<1>5. ASSUME NEW c \in Conn, ClientStop(c) PROVE AuthenOnce'
  BY <1>5, WriteKeepsAuthenOnce DEF ClientStop, Message, server
<1>6. ASSUME NEW c \in Conn, ClientStopTimer(c) \/ ReceiveQuit(c) \/ ClientDies(c)
      PROVE  AuthenOnce'
  <2>1. Write(c, "fin") /\ UNCHANGED authen
    BY <1>6 DEF ClientStopTimer, ReceiveQuit, ClientDies, server
  <2>2. QED
    BY <2>1, WriteKeepsAuthenOnce DEF Message
<1>7. ASSUME NEW c \in Conn, LinkBreaks(c) PROVE AuthenOnce'
  <2>1. \A i \in 1..Len(<<"reset">>) : <<"reset">>[i] # "authen"
    OBVIOUS
  <2>2. QED
    BY <1>7, <2>1 DEF LinkBreaks, server, IInv, TypeOK, AuthenOnce
<1>8. ASSUME NEW c \in Conn, NEW m, Reads(c, m),
             \A d \in Conn : d # c => authen'[d] = authen[d]
      PROVE  AuthenOnce'
  <2>1. \A d \in Conn : d # c => wire'[d] = wire[d]
    BY <1>8 DEF Reads, IInv, TypeOK
  <2>2. \A i \in 1..Len(wire'[c]) : wire'[c][i] # "authen"
    BY <1>8, ReadLeavesNoAuthen
  <2>3. QED
    BY <1>8, <2>1, <2>2 DEF IInv, AuthenOnce
<1>9. ASSUME NEW c \in Conn, ReadAuthen(c) \/ ReadStop(c) \/ SocketLost(c)
      PROVE  AuthenOnce'
  <2>1. \E m \in Message : Reads(c, m)
    BY <1>9 DEF ReadAuthen, ReadStop, SocketLost, Message
  <2>2. \A d \in Conn : d # c => authen'[d] = authen[d]
    BY <1>9 DEF ReadAuthen, ReadStop, SocketLost, IInv, TypeOK
  <2>3. QED
    BY <2>1, <2>2, <1>8
<1>10. ASSUME NEW c \in Conn,
              AnswerAuthen(c) \/ Authen(c) \/ RejectAuthen(c) \/ QueryFails(c)
       PROVE  AuthenOnce'
  <2>1. /\ wire' = wire
        /\ \A d \in Conn : d # c => authen'[d] = authen[d]
    BY <1>10 DEF AnswerAuthen, Authen, RejectAuthen, QueryFails, IInv, TypeOK
  <2>2. authen'[c] = authen[c] \/ authen[c] # "none"
    BY <1>10 DEF AnswerAuthen, Authen, RejectAuthen, QueryFails, IInv, TypeOK
  <2>3. QED
    BY <2>1, <2>2 DEF IInv, AuthenOnce
<1>11. ASSUME NEW c \in Conn, AnswerStop(c) \/ StopTunnel(c) \/ RejectStop(c)
       PROVE  AuthenOnce'
  BY <1>1, <1>11 DEF AnswerStop, StopTunnel, RejectStop
<1>12. ASSUME NEW c \in Conn, Destroy(c) PROVE AuthenOnce'
  <2>1. authen' = authen
    BY <1>12 DEF Destroy
  <2>2. \A d \in Conn : wire'[d] = wire[d] \/ wire'[d] = <<>>
    BY <1>12 DEF Destroy, IInv, TypeOK
  <2>3. QED
    BY <2>1, <2>2 DEF IInv, AuthenOnce
<1>13. CASE Restart
  <2>1. \A d \in Conn : wire'[d] = <<>>
    BY <1>13 DEF Restart
  <2>2. QED
    BY <2>1 DEF AuthenOnce
<1>14. CASE UNCHANGED vars
  BY <1>1, <1>14 DEF vars
<1>15. QED
  BY <1>2, <1>3, <1>4, <1>5, <1>6, <1>7, <1>9, <1>10, <1>11, <1>12, <1>13, <1>14
     DEF Next, ClientStep, AuthenStep, StopStep, LossStep

\* A server that reads authen has not read one for this connection before.
LEMMA FirstAuthen ==
  ASSUME IInv, NEW c \in Conn, ReadAuthen(c)
  PROVE  authen[c] = "none"
<1>1. wire[c] \in Seq(Message) /\ wire[c] # <<>> /\ Head(wire[c]) = "authen"
  BY DEF IInv, TypeOK, ReadAuthen, Reads
<1>2. 1 \in 1..Len(wire[c]) /\ wire[c][1] = "authen"
  BY <1>1
<1>3. QED
  BY <1>2 DEF IInv, AuthenOnce

\* What an authen handler has read goes with where it is.
LEMMA AnswerGivesPortStep == IInv /\ [Next]_vars => AnswerGivesPort'
<1> SUFFICES ASSUME IInv, [Next]_vars PROVE AnswerGivesPort'
  OBVIOUS
<1> USE DEF IInv, TypeOK, AnswerGivesPort
<1>1. ASSUME NEW t \in Tunnel, NEW p \in Port \cup {NoPort}, SetRow(t, p)
      PROVE  AnswerGivesPort'
  BY <1>1 DEF SetRow, server
<1>2. ASSUME NEW c \in Conn, ClientStep(c) PROVE AnswerGivesPort'
  BY <1>2
     DEF ClientStep, StartTunnel, StartTimeout, Connected, ClientStop, ClientStopTimer,
         ReceiveQuit, ClientSeesClose, ClientDies, LinkBreaks, server
<1>3. ASSUME NEW c \in Conn, ReadAuthen(c) PROVE AnswerGivesPort'
  BY <1>3, FirstAuthen DEF ReadAuthen, Reads
<1>4. ASSUME NEW c \in Conn, AnswerAuthen(c) PROVE AnswerGivesPort'
  BY <1>4, TunnelOfAssumption DEF AnswerAuthen, Found
<1>5. ASSUME NEW c \in Conn, Authen(c) \/ RejectAuthen(c) PROVE AnswerGivesPort'
  BY <1>5 DEF Authen, RejectAuthen
<1>6. ASSUME NEW c \in Conn, StopStep(c) PROVE AnswerGivesPort'
  BY <1>6 DEF StopStep, ReadStop, AnswerStop, StopTunnel, RejectStop
<1>7. ASSUME NEW c \in Conn, LossStep(c) PROVE AnswerGivesPort'
  BY <1>7 DEF LossStep, QueryFails, SocketLost, Destroy
<1>8. CASE Restart
  BY <1>8 DEF Restart
<1>9. CASE UNCHANGED vars
  BY <1>9 DEF vars
<1>10. QED
  BY <1>1, <1>2, <1>3, <1>4, <1>5, <1>6, <1>7, <1>8, <1>9 DEF Next, AuthenStep

\* A proxy server and a quitClient are left by different authen handlers.
LEMMA ProxyAfterAuthenStep == IInv /\ [Next]_vars => ProxyAfterAuthen'
<1> SUFFICES ASSUME IInv, [Next]_vars PROVE ProxyAfterAuthen'
  OBVIOUS
<1> USE NoPortAssumption DEF IInv, TypeOK, ProxyAfterAuthen
<1>1. ASSUME NEW t \in Tunnel, NEW p \in Port \cup {NoPort}, SetRow(t, p)
      PROVE  ProxyAfterAuthen'
  BY <1>1 DEF SetRow, server
<1>2. ASSUME NEW c \in Conn, ClientStep(c) PROVE ProxyAfterAuthen'
  BY <1>2
     DEF ClientStep, StartTunnel, StartTimeout, Connected, ClientStop, ClientStopTimer,
         ReceiveQuit, ClientSeesClose, ClientDies, LinkBreaks, server
<1>3. ASSUME NEW c \in Conn, ReadAuthen(c) PROVE ProxyAfterAuthen'
  BY <1>3, FirstAuthen DEF ReadAuthen
<1>4. ASSUME NEW c \in Conn, AnswerAuthen(c) PROVE ProxyAfterAuthen'
  BY <1>4 DEF AnswerAuthen
<1>5. ASSUME NEW c \in Conn, Authen(c) PROVE ProxyAfterAuthen'
  BY <1>5 DEF Authen, AnswerGivesPort
<1>6. ASSUME NEW c \in Conn, RejectAuthen(c) PROVE ProxyAfterAuthen'
  BY <1>6 DEF RejectAuthen, AnswerGivesPort
<1>7. ASSUME NEW c \in Conn, StopStep(c) PROVE ProxyAfterAuthen'
  BY <1>7 DEF StopStep, ReadStop, AnswerStop, StopTunnel, RejectStop, CloseProxy, Listening
<1>8. ASSUME NEW c \in Conn, LossStep(c) PROVE ProxyAfterAuthen'
  BY <1>8 DEF LossStep, QueryFails, SocketLost, Destroy, CloseProxy, Listening
<1>9. CASE Restart
  BY <1>9 DEF Restart, Listening
<1>10. CASE UNCHANGED vars
  BY <1>10 DEF vars
<1>11. QED
  BY <1>1, <1>2, <1>3, <1>4, <1>5, <1>6, <1>7, <1>8, <1>9, <1>10 DEF Next, AuthenStep

\* The inductive invariant holds in every reachable state.
THEOREM Invariance == Spec => []IInv
<1>1. IInv /\ [Next]_vars => IInv'
  BY TypeOKStep, PortsDifferStep, NothingBeforeConnectedStep, AuthenOnceStep,
     AnswerGivesPortStep, ProxyAfterAuthenStep DEF IInv
<1>2. QED
  BY IInvInit, <1>1, PTL DEF Spec

-----------------------------------------------------------------------------
(* What follows from it                                                    *)

\* A refused connection holds no port (TcpTunnelServer.authen returns before
\* createProxyServer when _getTunnel finds nothing).
THEOREM RefusedHoldNothing == Spec => []TurnedAwayHoldsNothing
<1>1. IInv => TurnedAwayHoldsNothing
  BY NoPortAssumption DEF IInv, ProxyAfterAuthen, TurnedAwayHoldsNothing, TurnedAway
<1>2. QED
  BY Invariance, <1>1, PTL

\* A port loses its owner only when authen resumes for a connection that is
\* gone, or when the server's own timer destroys a connection.
THEOREM OrphansComeFromRaces == Spec => OrphanOnlyByRace
<1> DEFINE P == \A c \in Conn : (Orphaned(c)' /\ ~Orphaned(c)) =>
                   \/ authen[c] = "found" /\ sock[c] # "open"
                   \/ c \in kill /\ sock[c] = "open"
<1>1. IInv /\ [Next]_vars => [P]_vars
  <2> SUFFICES ASSUME IInv, Next, NEW x \in Conn, Orphaned(x)', ~Orphaned(x)
               PROVE  \/ authen[x] = "found" /\ sock[x] # "open"
                      \/ x \in kill /\ sock[x] = "open"
    OBVIOUS
  <2> USE DEF IInv, TypeOK, Orphaned, Listening
  <2>1. ASSUME UNCHANGED <<proxy, sock>> PROVE FALSE
    BY <2>1
  <2>2. ASSUME NEW t \in Tunnel, NEW p \in Port \cup {NoPort}, SetRow(t, p) PROVE FALSE
    BY <2>1, <2>2 DEF SetRow, server
  <2>3. ASSUME NEW c \in Conn, Connected(c) PROVE FALSE
    BY <2>3 DEF Connected
  <2>4. ASSUME NEW c \in Conn, ClientStep(c), ~Connected(c) PROVE FALSE
    BY <2>1, <2>4
       DEF ClientStep, StartTunnel, StartTimeout, ClientStop, ClientStopTimer,
           ReceiveQuit, ClientSeesClose, ClientDies, LinkBreaks, server
  <2>5. ASSUME NEW c \in Conn, Authen(c) PROVE authen[x] = "found" /\ sock[x] # "open"
    BY <2>5 DEF Authen
  <2>6. ASSUME NEW c \in Conn, ReadAuthen(c) \/ AnswerAuthen(c) \/ RejectAuthen(c)
        PROVE  FALSE
    BY <2>1, <2>6 DEF ReadAuthen, AnswerAuthen, RejectAuthen
  <2>7. ASSUME NEW c \in Conn, StopStep(c) PROVE FALSE
    BY <2>7 DEF StopStep, ReadStop, AnswerStop, StopTunnel, RejectStop, CloseProxy
  <2>8. ASSUME NEW c \in Conn, Destroy(c) PROVE x \in kill /\ sock[x] = "open"
    BY <2>8 DEF Destroy
  <2>9. ASSUME NEW c \in Conn, QueryFails(c) \/ SocketLost(c) PROVE FALSE
    BY <2>9 DEF QueryFails, SocketLost, CloseProxy
  <2>10. CASE Restart
    BY <2>10 DEF Restart
  <2>11. QED
    BY <2>2, <2>3, <2>4, <2>5, <2>6, <2>7, <2>8, <2>9, <2>10
       DEF Next, AuthenStep, LossStep
<1>2. QED
  BY Invariance, <1>1, PTL DEF Spec, OrphanOnlyByRace

-----------------------------------------------------------------------------
(* TcpTunnel implements PortLease                                          *)

\* The holder of a port is the one connection whose server listens there.
LEMMA HolderIsListener ==
  ASSUME PortsDiffer, NEW c \in Conn, Listening(c)
  PROVE  HolderOf(port[c]) = c
BY DEF HolderOf, PortsDiffer

\* A port has a holder exactly if somebody listens on it.
LEMMA HeldIffListener ==
  ASSUME NEW p \in Port
  PROVE  HolderOf(p) = NoPort <=> \A c \in Conn : Listening(c) => port[c] # p
BY NoPortAssumption DEF HolderOf

\* A step that leaves the servers and their ports alone is a stutter.
LEMMA SameServersSameLeases ==
  ASSUME UNCHANGED <<proxy, port>>
  PROVE  UNCHANGED Lease!vars
<1>1. \A p : HolderOf(p)' = HolderOf(p)
  BY DEF HolderOf, Listening
<1>2. QED
  BY <1>1 DEF Lease!vars, LeaseMap, ServedSet

\* A port that is only written down before there is a server is a stutter too.
LEMMA SameListenersSameLeases ==
  ASSUME UNCHANGED proxy, \A c \in Conn : port'[c] = port[c] \/ proxy[c] = "none"
  PROVE  UNCHANGED Lease!vars
<1>1. \A p : \A c \in Conn : (Listening(c) /\ port[c] = p)' <=> (Listening(c) /\ port[c] = p)
  BY DEF Listening
<1>2. \A p : HolderOf(p)' = HolderOf(p)
  BY <1>1 DEF HolderOf
<1>3. QED
  BY <1>2 DEF Lease!vars, LeaseMap, ServedSet

\* A server that starts to listen takes out a lease.
LEMMA AuthenGrants ==
  ASSUME IInv, IInv', NEW c \in Conn, Authen(c)
  PROVE  [Lease!Next]_(Lease!vars)
<1> USE DEF IInv, TypeOK
<1>1. port[c] \in Port /\ port' = port /\ proxy[c] = "none"
  BY DEF Authen, AnswerGivesPort, ProxyAfterAuthen
<1>2. CASE PortFree(port[c])
  <2>1. proxy' = [proxy EXCEPT ![c] = "listening"]
    BY <1>2 DEF Authen
  <2>2. HolderOf(port[c]) = NoPort
    BY <1>1, <1>2, HeldIffListener DEF PortFree
  <2>3. HolderOf(port[c])' = c
    <3>1. \A d \in Conn : (Listening(d) /\ port[d] = port[c])' <=> d = c
      BY <1>1, <1>2, <2>1 DEF PortFree, Listening
    <3>2. QED
      BY <1>1, <3>1 DEF HolderOf
  <2>4. \A p \in Port : p # port[c] => HolderOf(p)' = HolderOf(p)
    <3> SUFFICES ASSUME NEW p \in Port, p # port[c] PROVE HolderOf(p)' = HolderOf(p)
      OBVIOUS
    <3>1. \A d \in Conn : (Listening(d) /\ port[d] = p)' <=> (Listening(d) /\ port[d] = p)
      BY <1>1, <2>1 DEF Listening
    <3>2. QED
      BY <3>1 DEF HolderOf
  <2>5. LeaseMap' = [LeaseMap EXCEPT ![port[c]] = c]
    BY <1>1, <2>3, <2>4 DEF LeaseMap
  <2>6. c \notin ServedSet /\ ServedSet' = ServedSet \cup {c}
    BY <1>1, <2>1 DEF ServedSet
  <2>7. LeaseMap[port[c]] = NoPort
    BY <1>1, <2>2 DEF LeaseMap
  <2>8. Lease!Grant(c, port[c])
    BY <2>5, <2>6, <2>7 DEF Lease!Grant
  <2>9. QED
    BY <1>1, <2>8 DEF Lease!Next
<1>3. CASE ~PortFree(port[c])
  <2>1. proxy' = [proxy EXCEPT ![c] = "failed"]
    BY <1>3 DEF Authen
  <2>2. \A d \in Conn : Listening(d)' <=> Listening(d)
    BY <1>1, <2>1 DEF Listening
  <2>3. \A p : HolderOf(p)' = HolderOf(p)
    BY <1>1, <2>2 DEF HolderOf
  <2>4. ServedSet' = ServedSet
    BY <1>1, <2>1 DEF ServedSet
  <2>5. QED
    BY <2>3, <2>4 DEF Lease!vars, LeaseMap
<1>4. QED
  BY <1>2, <1>3

\* A server that is closed gives its lease back, and no other.
LEMMA CloseReleases ==
  ASSUME IInv, NEW c \in Conn, CloseProxy(c), UNCHANGED port
  PROVE  [Lease!Next]_(Lease!vars)
<1> USE DEF IInv, TypeOK
<1>1. CASE ~Listening(c)
  BY <1>1, SameServersSameLeases DEF CloseProxy
<1>2. CASE Listening(c)
  <2>1. proxy' = [proxy EXCEPT ![c] = "closed"]
    BY <1>2 DEF CloseProxy
  <2>2. port[c] \in Port
    BY <1>2 DEF ProxyAfterAuthen, Listening
  <2>4. HolderOf(port[c])' = NoPort
    BY <1>2, <2>1 DEF HolderOf, Listening, PortsDiffer
  <2>5. \A p \in Port : p # port[c] => HolderOf(p)' = HolderOf(p)
    <3> SUFFICES ASSUME NEW p \in Port, p # port[c] PROVE HolderOf(p)' = HolderOf(p)
      OBVIOUS
    <3>1. \A d \in Conn : (Listening(d) /\ port[d] = p)' <=> (Listening(d) /\ port[d] = p)
      BY <2>1 DEF Listening
    <3>2. QED
      BY <3>1 DEF HolderOf
  <2>6. LeaseMap' = [p \in Port |-> IF p \in {port[c]} THEN NoPort ELSE LeaseMap[p]]
    BY <2>2, <2>4, <2>5 DEF LeaseMap
  <2>7. ServedSet' = ServedSet
    BY <1>2, <2>1 DEF ServedSet, Listening
  <2>8. Lease!Release({port[c]})
    BY <2>6, <2>7 DEF Lease!Release
  <2>9. QED
    BY <2>2, <2>8 DEF Lease!Next
<1>3. QED
  BY <1>1, <1>2

\* Every step of the bridge is a step of the abstract specification or a stutter.
LEMMA LeaseStep == IInv /\ IInv' /\ [Next]_vars => [Lease!Next]_(Lease!vars)
<1> SUFFICES ASSUME IInv, IInv', [Next]_vars PROVE [Lease!Next]_(Lease!vars)
  OBVIOUS
<1>1. ASSUME NEW t \in Tunnel, NEW p \in Port \cup {NoPort}, SetRow(t, p)
      PROVE  UNCHANGED Lease!vars
  BY <1>1, SameServersSameLeases DEF SetRow, server
<1>2. ASSUME NEW c \in Conn, ClientStep(c) PROVE UNCHANGED Lease!vars
  BY <1>2, SameServersSameLeases
     DEF ClientStep, StartTunnel, StartTimeout, Connected, ClientStop, ClientStopTimer,
         ReceiveQuit, ClientSeesClose, ClientDies, LinkBreaks, server
<1>3. ASSUME NEW c \in Conn, ReadAuthen(c) \/ RejectAuthen(c) PROVE UNCHANGED Lease!vars
  BY <1>3, SameServersSameLeases DEF ReadAuthen, RejectAuthen
<1>4. ASSUME NEW c \in Conn, AnswerAuthen(c) PROVE UNCHANGED Lease!vars
  <2>1. proxy[c] = "none" /\ UNCHANGED proxy
    BY <1>4 DEF AnswerAuthen, IInv, TypeOK, ProxyAfterAuthen
  <2>2. \A d \in Conn : port'[d] = port[d] \/ proxy[d] = "none"
    BY <1>4, <2>1 DEF AnswerAuthen, IInv, TypeOK
  <2>3. QED
    BY <2>1, <2>2, SameListenersSameLeases
<1>5. ASSUME NEW c \in Conn, Authen(c) PROVE [Lease!Next]_(Lease!vars)
  BY <1>5, AuthenGrants
<1>6. ASSUME NEW c \in Conn, ReadStop(c) \/ AnswerStop(c) \/ RejectStop(c)
      PROVE  UNCHANGED Lease!vars
  BY <1>6, SameServersSameLeases DEF ReadStop, AnswerStop, RejectStop
<1>7. ASSUME NEW c \in Conn, StopTunnel(c) \/ SocketLost(c)
      PROVE  [Lease!Next]_(Lease!vars)
  BY <1>7, CloseReleases DEF StopTunnel, SocketLost
<1>8. ASSUME NEW c \in Conn, QueryFails(c) \/ Destroy(c) PROVE UNCHANGED Lease!vars
  BY <1>8, SameServersSameLeases DEF QueryFails, Destroy
<1>9. CASE Restart
  <2>1. \A c \in Conn : ~Listening(c)'
    BY <1>9 DEF Restart, Listening
  <2>2. LeaseMap' = [p \in Port |-> NoPort]
    BY <2>1 DEF LeaseMap, HolderOf
  <2>3. ServedSet' = ServedSet
    BY <1>9 DEF Restart, ServedSet, Listening, IInv, TypeOK
  <2>4. LeaseMap' = [p \in Port |-> IF p \in Port THEN NoPort ELSE LeaseMap[p]]
    BY <2>2
  <2>5. Lease!Release(Port)
    BY <2>3, <2>4 DEF Lease!Release
  <2>6. QED
    BY <2>5 DEF Lease!Next
<1>10. CASE UNCHANGED vars
  BY <1>10, SameServersSameLeases DEF vars
<1>11. QED
  BY <1>1, <1>2, <1>3, <1>4, <1>5, <1>6, <1>7, <1>8, <1>9, <1>10
     DEF Next, AuthenStep, StopStep, LossStep

\* The bridge implements PortLease: exclusive leases, free before they change
\* hands, one per connection.
THEOREM ImplementsPortLease == Spec => PortsAreLeases
<1>1. Init => Lease!Init
  BY DEF Init, Lease!Init, LeaseMap, HolderOf, ServedSet, Listening
<1>2. QED
  BY Invariance, <1>1, LeaseStep, PTL DEF Spec, PortsAreLeases, Lease!Spec
=============================================================================
