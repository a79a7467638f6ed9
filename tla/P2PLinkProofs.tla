--------------------------- MODULE P2PLinkProofs ---------------------------
(***************************************************************************)
(* Proofs about P2PLink, for every set of clients and local connections:   *)
(* the types, that a local connection has one path, how a failover can be  *)
(* left behind, and whose links a client.disconnect closes.                *)
(***************************************************************************)
EXTENDS P2PLink, TLAPS

\* What has not been accepted has no node, no request, no failover.
NothingBeforeAccept ==
    \A l \in Local : local[l] = "none" =>
        node[l] = "none" /\ talk[l] = "none" /\ peer[l] = "none" /\ fail[l] = "none"

\* A node that is not closed has no failover beside it.
FailoverAfterNode ==
    \A l \in Local : node[l] \in {"reporting", "asking", "punching", "dialing", "linked"}
                        => fail[l] = "none"

\* Clients are told of disconnects that have happened.
NoticesAreTrue == \A d \in Client : notice[d] \subseteq gone

IInv ==
    /\ TypeOK
    /\ NothingBeforeAccept
    /\ FailoverAfterNode
    /\ StrayOnlyWhenLate
    /\ NoticesAreTrue
    /\ OnlyOwnLinksAreHit

\* The inductive invariant holds at first.
LEMMA IInvInit == Init => IInv
BY ClientAssumption DEF Init, IInv, TypeOK, NothingBeforeAccept, FailoverAfterNode,
   StrayOnlyWhenLate, NoticesAreTrue, OnlyOwnLinksAreHit, Failing,
   LocalState, NodeState, TalkState, PeerState, FailState

\* Closing local connections closes their nodes and their failovers.
LEMMA CloseKeeps ==
  ASSUME TypeOK, NothingBeforeAccept, FailoverAfterNode, StrayOnlyWhenLate,
         NEW L \in SUBSET Local, \A l \in L : local[l] # "none", CloseLocals(L)
  PROVE  /\ local' \in [Local -> LocalState]
         /\ node' \in [Local -> NodeState]
         /\ fail' \in [Local -> FailState]
         /\ \A l \in Local : local'[l] = "none" =>
               local[l] = "none" /\ node'[l] = node[l] /\ fail'[l] = fail[l]
         /\ \A l \in Local : node'[l] \in {"reporting", "asking", "punching", "dialing", "linked"}
               => fail'[l] = "none"
         /\ \A l \in Local : fail'[l] \in {"dialing", "up"} /\ local'[l] = "closed" => l \in late
BY DEF CloseLocals, TypeOK, NothingBeforeAccept, FailoverAfterNode, StrayOnlyWhenLate,
       Failing, LocalState, NodeState, FailState

\* The steps that close local connections.
Closing(l) ==
    \/ LocalEnds(l) \/ EndIsSeen(l) \/ ConnectTimesOut(l) \/ LinkEnds(l) \/ FailoverEnds(l)

\* The other steps of one local connection.
Going(l) ==
    \/ Accept(l) \/ LocalLeaves(l) \/ TrackerAnswers(l) \/ TrackerIsSilent(l)
    \/ Ack(l) \/ Punched(l) \/ PunchFails(l) \/ Link(l) \/ FailoverConnects(l)
    \/ TalkStep(l) \/ Return(l) \/ ReturnIsLost(l) \/ PeerStep(l) \/ PeerEnds(l)

\* The steps of a client's command connection that leave its links alone.
Calling(c) == Disconnect(c) \/ TurnAway(c) \/ Connect(c) \/ Accepted(c)

\* The steps, grouped by what they touch.
LEMMA NextCases ==
  Next => \/ \E l \in Local : Closing(l) \/ Going(l)
          \/ \E c \in Client : Calling(c) \/ DeleteConnector(c)
          \/ \E c, d \in Client : Notice(c, d)
BY DEF Next, Closing, Going, Calling, LocalStep, NodeStep

\* Local sockets are closed: links and failovers end with them.
LEMMA ClosingStep ==
  ASSUME IInv, NEW l \in Local, Closing(l)
  PROVE  IInv'
<1>0. TypeOK /\ NothingBeforeAccept /\ FailoverAfterNode /\ StrayOnlyWhenLate
      /\ NoticesAreTrue /\ OnlyOwnLinksAreHit
  BY DEF IInv
<1>1. CloseLocals({l}) /\ UNCHANGED <<talk_vars, peer, session_vars, running, history>>
  BY DEF Closing, LocalEnds, EndIsSeen, ConnectTimesOut, LinkEnds, FailoverEnds
<1>2. local[l] # "none"
  BY <1>0 DEF Closing, LocalEnds, EndIsSeen, ConnectTimesOut, LinkEnds, FailoverEnds,
     NothingBeforeAccept, Piped, Failing
<1>3. /\ local' \in [Local -> LocalState]
      /\ node' \in [Local -> NodeState]
      /\ fail' \in [Local -> FailState]
      /\ \A k \in Local : local'[k] = "none" =>
            local[k] = "none" /\ node'[k] = node[k] /\ fail'[k] = fail[k]
      /\ \A k \in Local : node'[k] \in {"reporting", "asking", "punching", "dialing", "linked"}
            => fail'[k] = "none"
      /\ \A k \in Local : fail'[k] \in {"dialing", "up"} /\ local'[k] = "closed" => k \in late
  BY <1>0, <1>1, <1>2, CloseKeeps
<1>4. TypeOK' /\ NothingBeforeAccept' /\ FailoverAfterNode' /\ StrayOnlyWhenLate'
  BY <1>0, <1>1, <1>3 DEF TypeOK, NothingBeforeAccept, FailoverAfterNode, StrayOnlyWhenLate,
     Failing, talk_vars, session_vars, history
<1>5. NoticesAreTrue' /\ OnlyOwnLinksAreHit'
  BY <1>0, <1>1 DEF NoticesAreTrue, OnlyOwnLinksAreHit, session_vars, history
<1>6. QED
  BY <1>4, <1>5 DEF IInv

\* Links and failovers that come and go.
LEMMA GoingStep ==
  ASSUME IInv, NEW l \in Local, Going(l)
  PROVE  IInv'
<1>0. TypeOK /\ NothingBeforeAccept /\ FailoverAfterNode /\ StrayOnlyWhenLate
      /\ NoticesAreTrue /\ OnlyOwnLinksAreHit
  BY DEF IInv
<1>1. NoticesAreTrue' /\ OnlyOwnLinksAreHit'
  <2>1. UNCHANGED <<notice, gone, hit>>
    BY DEF Going, Accept, LocalLeaves, TrackerAnswers, TrackerIsSilent, Ack, Punched,
       PunchFails, Link, FailoverConnects, TalkStep, Send, Fetched, FetchFails, Poll, Return,
       ReturnIsLost, PeerStep, Refuse, Open, PeerReports, PeerIsSilent, PeerPunched,
       PeerSeesEnd, PeerEnds, session_vars, history
  <2>2. QED
    BY <1>0, <2>1 DEF NoticesAreTrue, OnlyOwnLinksAreHit
<1>2. CASE Accept(l) \/ LocalLeaves(l) \/ TrackerAnswers(l) \/ TrackerIsSilent(l)
  <2>1. TypeOK' /\ NothingBeforeAccept' /\ FailoverAfterNode' /\ StrayOnlyWhenLate'
    BY <1>0, <1>2 DEF Accept, LocalLeaves, TrackerAnswers, TrackerIsSilent, TypeOK,
       NothingBeforeAccept, FailoverAfterNode, StrayOnlyWhenLate, Failing,
       talk_vars, session_vars, history, LocalState, NodeState, TalkState
  <2>2. QED
    BY <1>1, <2>1 DEF IInv
<1>3. CASE Ack(l)
  <2>1. TypeOK' /\ NothingBeforeAccept' /\ FailoverAfterNode' /\ StrayOnlyWhenLate'
    BY <1>0, <1>3 DEF Ack, Failover, TypeOK, NothingBeforeAccept, FailoverAfterNode,
       StrayOnlyWhenLate, Failing, session_vars, NodeState, TalkState, FailState
  <2>2. QED
    BY <1>1, <2>1 DEF IInv
<1>4. CASE Punched(l) \/ PunchFails(l) \/ Link(l) \/ FailoverConnects(l)
  <2>1. TypeOK' /\ NothingBeforeAccept' /\ FailoverAfterNode' /\ StrayOnlyWhenLate'
    BY <1>0, <1>4 DEF Punched, PunchFails, Link, FailoverConnects, Failover, TypeOK,
       NothingBeforeAccept, FailoverAfterNode, StrayOnlyWhenLate, Failing,
       talk_vars, session_vars, history, NodeState, PeerState, FailState
  <2>2. QED
    BY <1>1, <2>1 DEF IInv
<1>5. CASE TalkStep(l) \/ Return(l) \/ ReturnIsLost(l) \/ PeerStep(l) \/ PeerEnds(l)
  <2>1. UNCHANGED <<local, node, fail, session, orphan, running, late>>
    BY <1>5 DEF TalkStep, Send, Fetched, FetchFails, Poll, Return,
       ReturnIsLost, PeerStep, Refuse, Open, PeerReports, PeerIsSilent, PeerPunched,
       PeerSeesEnd, PeerEnds, local_vars, talk_vars, session_vars, history
  <2>2. /\ talk' \in [Local -> TalkState] /\ peer' \in [Local -> PeerState]
        /\ ans' \in [Local -> {"none", "yes", "no"}] /\ unheard' \subseteq Local
    BY <1>0, <1>5 DEF TalkStep, Send, Fetched, FetchFails, Poll, Return,
       ReturnIsLost, PeerStep, Refuse, Open, PeerReports, PeerIsSilent, PeerPunched,
       PeerSeesEnd, PeerEnds, talk_vars, session_vars, history, TypeOK, TalkState, PeerState
  <2>3. \A k \in Local : local[k] = "none" => talk'[k] = "none" /\ peer'[k] = "none"
    BY <1>0, <1>5 DEF TalkStep, Send, Fetched, FetchFails, Poll, Return,
       ReturnIsLost, PeerStep, Refuse, Open, PeerReports, PeerIsSilent, PeerPunched,
       PeerSeesEnd, PeerEnds, talk_vars, TypeOK, NothingBeforeAccept
  <2>4. UNCHANGED <<notice, gone, hit>>
    BY <1>5 DEF TalkStep, Send, Fetched, FetchFails, Poll, Return,
       ReturnIsLost, PeerStep, Refuse, Open, PeerReports, PeerIsSilent, PeerPunched,
       PeerSeesEnd, PeerEnds, session_vars, history
  <2>5. TypeOK' /\ NothingBeforeAccept' /\ FailoverAfterNode' /\ StrayOnlyWhenLate'
    BY <1>0, <2>1, <2>2, <2>3, <2>4 DEF TypeOK, NothingBeforeAccept, FailoverAfterNode,
       StrayOnlyWhenLate, Failing
  <2>6. QED
    BY <1>1, <2>5 DEF IInv
<1>6. QED
  BY <1>2, <1>3, <1>4, <1>5 DEF Going

\* Requests and answers.
LEMMA CallingStep ==
  ASSUME IInv, NEW c \in Client, Calling(c)
  PROVE  IInv'
<1>0. TypeOK /\ NothingBeforeAccept /\ FailoverAfterNode /\ StrayOnlyWhenLate
      /\ NoticesAreTrue /\ OnlyOwnLinksAreHit
  BY DEF IInv
<1>1. UNCHANGED <<local, node, fail, ans, peer, running, late, unheard, hit>>
  BY DEF Calling, Disconnect, TurnAway, Connect, Accepted, local_vars, talk_vars, history
<1>2. /\ talk' \in [Local -> TalkState]
      /\ \A l \in Local : talk[l] = "none" => talk'[l] = "none"
      /\ orphan' \subseteq Local
      /\ session' \in [Client -> {"down", "deciding", "ready"}]
      /\ gone \subseteq gone' /\ gone' \subseteq Client
  BY <1>0 DEF Calling, Disconnect, TurnAway, Connect, Accepted, talk_vars, TypeOK, TalkState
<1>3. notice' \in [Client -> SUBSET Client] /\ NoticesAreTrue'
  BY <1>0 DEF Calling, Disconnect, TurnAway, Connect, Accepted, Broadcast, TypeOK,
     NoticesAreTrue
<1>4. TypeOK' /\ NothingBeforeAccept' /\ FailoverAfterNode' /\ StrayOnlyWhenLate'
  BY <1>0, <1>1, <1>2, <1>3 DEF TypeOK, NothingBeforeAccept, FailoverAfterNode,
     StrayOnlyWhenLate, Failing
<1>5. OnlyOwnLinksAreHit'
  BY <1>0, <1>1, <1>2 DEF OnlyOwnLinksAreHit
<1>6. QED
  BY <1>3, <1>4, <1>5 DEF IInv

\* A connector is deleted.
LEMMA DeleteStep ==
  ASSUME IInv, NEW c \in Client, DeleteConnector(c)
  PROVE  IInv'
<1> DEFINE L == {l \in Local : Owner[l] = c /\ Alive(l)}
<1>0. TypeOK /\ NothingBeforeAccept /\ FailoverAfterNode /\ StrayOnlyWhenLate
      /\ NoticesAreTrue /\ OnlyOwnLinksAreHit
  BY DEF IInv
<1>1. /\ CloseLocals(L) /\ running' = running \ {c}
      /\ UNCHANGED <<talk_vars, peer, session_vars, history>>
  BY DEF DeleteConnector
<1>2. L \in SUBSET Local /\ \A l \in L : local[l] # "none"
  BY DEF Alive
<1>3. /\ local' \in [Local -> LocalState]
      /\ node' \in [Local -> NodeState]
      /\ fail' \in [Local -> FailState]
      /\ \A k \in Local : local'[k] = "none" =>
            local[k] = "none" /\ node'[k] = node[k] /\ fail'[k] = fail[k]
      /\ \A k \in Local : node'[k] \in {"reporting", "asking", "punching", "dialing", "linked"}
            => fail'[k] = "none"
      /\ \A k \in Local : fail'[k] \in {"dialing", "up"} /\ local'[k] = "closed" => k \in late
  <2> HIDE DEF L
  <2> QED
    BY <1>0, <1>1, <1>2, CloseKeeps
<1>4. TypeOK' /\ NothingBeforeAccept' /\ FailoverAfterNode' /\ StrayOnlyWhenLate'
  BY <1>0, <1>1, <1>3 DEF TypeOK, NothingBeforeAccept, FailoverAfterNode, StrayOnlyWhenLate,
     Failing, talk_vars, session_vars, history
<1>5. NoticesAreTrue' /\ OnlyOwnLinksAreHit'
  BY <1>0, <1>1 DEF NoticesAreTrue, OnlyOwnLinksAreHit, session_vars, history
<1>6. QED
  BY <1>4, <1>5 DEF IInv

\* The target hears that a client has gone.
LEMMA NoticeStep ==
  ASSUME IInv, NEW d \in Client, NEW c \in Client, Notice(d, c)
  PROVE  IInv'
<1> DEFINE P == {l \in ServedFrom(d, c) : peer[l] \notin {"none", "closed"}}
           L == {l \in DialledTo(d, c) : local[l] # "none"}
<1>0. TypeOK /\ NothingBeforeAccept /\ FailoverAfterNode /\ StrayOnlyWhenLate
      /\ NoticesAreTrue /\ OnlyOwnLinksAreHit
  BY DEF IInv
<1>1. /\ c \in notice[d] /\ notice' = [notice EXCEPT ![d] = @ \ {c}]
      /\ peer' = [l \in Local |-> IF l \in P THEN "closed" ELSE peer[l]]
      /\ talk' = [l \in Local |-> IF l \in P /\ peer[l] = "reporting" THEN "lost" ELSE talk[l]]
      /\ CloseLocals(L)
      /\ hit' = hit \cup P \cup {l \in L : Alive(l)}
      /\ UNCHANGED <<ans, orphan, session, gone, running, late, unheard>>
  BY DEF Notice
<1>2. /\ L \in SUBSET Local /\ P \in SUBSET Local /\ \A l \in L : local[l] # "none"
      /\ \A l \in P : peer[l] # "none" /\ Owner[l] = c
      /\ \A l \in L : c = Target
  BY DEF ServedFrom, DialledTo
<1> HIDE DEF L, P
<1>3. /\ local' \in [Local -> LocalState]
      /\ node' \in [Local -> NodeState]
      /\ fail' \in [Local -> FailState]
      /\ \A k \in Local : local'[k] = "none" =>
            local[k] = "none" /\ node'[k] = node[k] /\ fail'[k] = fail[k]
      /\ \A k \in Local : node'[k] \in {"reporting", "asking", "punching", "dialing", "linked"}
            => fail'[k] = "none"
      /\ \A k \in Local : fail'[k] \in {"dialing", "up"} /\ local'[k] = "closed" => k \in late
  BY <1>0, <1>1, <1>2, CloseKeeps
<1>4. TypeOK'
  <2>1. /\ talk' \in [Local -> TalkState] /\ peer' \in [Local -> PeerState]
        /\ notice' \in [Client -> SUBSET Client] /\ hit' \subseteq Local
    BY <1>0, <1>1, <1>2 DEF TypeOK, TalkState, PeerState
  <2>2. QED
    BY <1>0, <1>1, <1>3, <2>1 DEF TypeOK
<1>5. NothingBeforeAccept' /\ FailoverAfterNode' /\ StrayOnlyWhenLate'
  <2>1. \A l \in Local : local[l] = "none" => talk'[l] = "none" /\ peer'[l] = "none"
    BY <1>0, <1>1, <1>2 DEF NothingBeforeAccept
  <2>2. QED
    BY <1>0, <1>1, <1>3, <2>1 DEF NothingBeforeAccept, FailoverAfterNode, StrayOnlyWhenLate,
       Failing
<1>6. NoticesAreTrue' /\ OnlyOwnLinksAreHit'
  <2>1. c \in gone
    BY <1>0, <1>1 DEF NoticesAreTrue
  <2>2. NoticesAreTrue'
    BY <1>0, <1>1 DEF NoticesAreTrue, TypeOK
  <2>3. OnlyOwnLinksAreHit'
    BY <1>0, <1>1, <1>2, <2>1 DEF OnlyOwnLinksAreHit
  <2>4. QED
    BY <2>2, <2>3
<1>7. QED
  BY <1>4, <1>5, <1>6 DEF IInv

\* Every step keeps the inductive invariant.
LEMMA IInvStep == IInv /\ [Next]_vars => IInv'
<1>1. ASSUME IInv, Next PROVE IInv'
  BY <1>1, NextCases, ClosingStep, GoingStep, CallingStep, DeleteStep, NoticeStep
<1>2. ASSUME IInv, UNCHANGED vars PROVE IInv'
  BY <1>2 DEF vars, IInv, TypeOK, NothingBeforeAccept, FailoverAfterNode, StrayOnlyWhenLate,
     NoticesAreTrue, OnlyOwnLinksAreHit, Failing
<1>3. QED
  BY <1>1, <1>2

\* The inductive invariant holds in every reachable state.
THEOREM Invariance == Spec => []IInv
BY IInvInit, IInvStep, PTL DEF Spec

\* In every reachable state the variables have their types.
THEOREM Typing == Spec => []TypeOK
<1>1. IInv => TypeOK
  BY DEF IInv
<1>2. QED
  BY Invariance, <1>1, PTL

\* A local connection is never on both paths.
THEOREM PathsAreExclusive == Spec => []OnePath
<1>1. IInv => OnePath
  BY DEF IInv, FailoverAfterNode, OnePath, Failing
<1>2. QED
  BY Invariance, <1>1, PTL

\* A failover is left behind only when it was made too late.
THEOREM StraysAreLate == Spec => []StrayOnlyWhenLate
<1>1. IInv => StrayOnlyWhenLate
  BY DEF IInv
<1>2. QED
  BY Invariance, <1>1, PTL

\* A client.disconnect closes only links of the client it names.
THEOREM OthersLinksGoOn == Spec => []OnlyOwnLinksAreHit
<1>1. IInv => OnlyOwnLinksAreHit
  BY DEF IInv
<1>2. QED
  BY Invariance, <1>1, PTL
=============================================================================
