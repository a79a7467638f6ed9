--------------------------- MODULE TcpDataProofs ---------------------------
(***************************************************************************)
(* Proofs about the data that goes through the TCP bridge: about           *)
(* TcpVisitor, for every set of visitors, clients and port numbers, and    *)
(* about Framing, for every number of messages of any lengths and every    *)
(* way to cut what is sent into chunks.                                    *)
(***************************************************************************)
EXTENDS TcpVisitor, Framing, Integers, FiniteSetTheorems, SequenceTheorems,
        WellFoundedInduction, TLAPS

\* A visitor whose middle server listens has a port number of its own.
MPortsDiffer ==
    /\ \A v \in middle : mport[v] \in MPort
    /\ \A v, w \in middle : mport[v] = mport[w] => v = w

\* An announcement is only ever made for a visitor that has come, and carries
\* the number of its middle server.
OnlyVisitorsAreAnnounced ==
    \A v \in Visitor : vis[v] = "new" => task[v] = "none"

IInv ==
    /\ TypeOK
    /\ MPortsDiffer
    /\ MiddleFollowsVisitor
    /\ OneLocalPerVisitor
    /\ OnlyVisitorsAreAnnounced

-----------------------------------------------------------------------------

LEMMA TypeOKInit == Init => TypeOK
BY DEF Init, TypeOK, TaskState

\* The variables keep their types in every step.
LEMMA TypeOKStep == TypeOK /\ [Next]_vars => TypeOK'
<1> SUFFICES ASSUME TypeOK, [Next]_vars PROVE TypeOK'
  OBVIOUS
<1> USE HomeOfAssumption DEF TypeOK, TaskState
<1>1. ASSUME NEW c \in Conn, StopAccepting(c) PROVE TypeOK'
  BY <1>1 DEF StopAccepting
<1>2. ASSUME NEW c \in Conn, LoseLink(c) PROVE TypeOK'
  BY <1>2 DEF LoseLink
<1>3. ASSUME NEW c \in Conn, ClientExits(c) PROVE TypeOK'
  BY <1>3 DEF ClientExits
<1>4. ASSUME NEW v \in Visitor, Accept(v) PROVE TypeOK'
  BY <1>4 DEF Accept, FreeMPorts
<1>5. ASSUME NEW v \in Visitor, VisitorEnds(v) PROVE TypeOK'
  BY <1>5 DEF VisitorEnds
<1>6. ASSUME NEW v \in Visitor, VisitorResets(v) PROVE TypeOK'
  BY <1>6 DEF VisitorResets
<1>7. ASSUME NEW v \in Visitor, Receive(v) PROVE TypeOK'
  BY <1>7 DEF Receive
<1>8. ASSUME NEW v \in Visitor, LocalConnects(v) PROVE TypeOK'
  BY <1>8 DEF LocalConnects
<1>9. ASSUME NEW v \in Visitor, Dial(v) PROVE TypeOK'
  BY <1>9 DEF Dial, Answering
<1>10. ASSUME NEW v \in Visitor, MiddleEnds(v) PROVE TypeOK'
  BY <1>10 DEF MiddleEnds
<1>11. ASSUME NEW v \in Visitor, LocalEnds(v) PROVE TypeOK'
  BY <1>11 DEF LocalEnds
<1>12. CASE UNCHANGED vars
  BY <1>12 DEF vars
<1>13. QED
  BY <1>1, <1>2, <1>3, <1>4, <1>5, <1>6, <1>7, <1>8, <1>9, <1>10, <1>11, <1>12 DEF Next

\* In every reachable state the variables have their types.
THEOREM Typing == Spec => []TypeOK
BY TypeOKInit, TypeOKStep, PTL DEF Spec

-----------------------------------------------------------------------------

LEMMA IInvInit == Init => IInv
BY TypeOKInit
   DEF Init, IInv, MPortsDiffer, MiddleFollowsVisitor, Here, OneLocalPerVisitor,
       Feeds, OnlyVisitorsAreAnnounced

\* Middle port numbers stay distinct: the operating system gives a new one out
\* of those nobody listens on, and only a listener keeps a number.
LEMMA MPortsDifferStep == IInv /\ [Next]_vars => MPortsDiffer'
<1> SUFFICES ASSUME IInv, [Next]_vars PROVE MPortsDiffer'
  OBVIOUS
<1> USE DEF IInv, TypeOK, MPortsDiffer
<1>1. ASSUME NEW c \in Conn, StopAccepting(c) \/ LoseLink(c) \/ ClientExits(c)
      PROVE  MPortsDiffer'
  BY <1>1 DEF StopAccepting, LoseLink, ClientExits
<1>2. ASSUME NEW v \in Visitor, Accept(v) PROVE MPortsDiffer'
  <2>1. PICK m \in FreeMPorts : mport' = [mport EXCEPT ![v] = m]
    BY <1>2 DEF Accept
  <2>2. middle' = middle \cup {v}
    BY <1>2 DEF Accept
  <2>3. m \in MPort /\ \A w \in middle : mport[w] # m
    BY DEF FreeMPorts
  <2>4. v \notin middle
    BY <1>2 DEF Accept, MiddleFollowsVisitor, Here
  <2>5. QED
    BY <2>1, <2>2, <2>3, <2>4
<1>3. ASSUME NEW v \in Visitor, VisitorEnds(v) \/ VisitorResets(v) PROVE MPortsDiffer'
  BY <1>3 DEF VisitorEnds, VisitorResets
<1>4. ASSUME NEW v \in Visitor,
             \/ Receive(v) \/ LocalConnects(v) \/ Dial(v)
             \/ MiddleEnds(v) \/ LocalEnds(v)
      PROVE  MPortsDiffer'
  BY <1>4 DEF Receive, LocalConnects, Dial, MiddleEnds, LocalEnds
<1>5. CASE UNCHANGED vars
  BY <1>5 DEF vars
<1>6. QED
  BY <1>1, <1>2, <1>3, <1>4, <1>5 DEF Next

\* A middle server opens with its visitor and closes with it.
LEMMA MiddleFollowsVisitorStep == IInv /\ [Next]_vars => MiddleFollowsVisitor'
<1> SUFFICES ASSUME IInv, [Next]_vars, NEW w \in Visitor
             PROVE  (w \in middle <=> Here(w))'
  BY DEF MiddleFollowsVisitor
<1> USE DEF IInv, TypeOK, MiddleFollowsVisitor, Here
<1>1. ASSUME NEW c \in Conn, StopAccepting(c) \/ LoseLink(c) \/ ClientExits(c)
      PROVE  (w \in middle <=> Here(w))'
  BY <1>1 DEF StopAccepting, LoseLink, ClientExits
<1>2. ASSUME NEW v \in Visitor, Accept(v) \/ VisitorEnds(v) \/ VisitorResets(v)
      PROVE  (w \in middle <=> Here(w))'
  BY <1>2 DEF Accept, VisitorEnds, VisitorResets
<1>3. ASSUME NEW v \in Visitor,
             \/ Receive(v) \/ LocalConnects(v) \/ Dial(v)
             \/ MiddleEnds(v) \/ LocalEnds(v)
      PROVE  (w \in middle <=> Here(w))'
  BY <1>3 DEF Receive, LocalConnects, Dial, MiddleEnds, LocalEnds
<1>4. CASE UNCHANGED vars
  BY <1>4 DEF vars
<1>5. QED
  BY <1>1, <1>2, <1>3, <1>4 DEF Next

\* Only Dial adds a local connection to a visitor, and only to one without.
LEMMA OneLocalPerVisitorStep == IInv /\ [Next]_vars => OneLocalPerVisitor'
<1> SUFFICES ASSUME IInv, [Next]_vars,
                    NEW w \in Visitor, NEW s \in Visitor, NEW t \in Visitor,
                    task'[s] = "joined", peer'[s] = w,
                    task'[t] = "joined", peer'[t] = w
             PROVE  s = t
  BY DEF OneLocalPerVisitor, Feeds
<1> USE DEF IInv, TypeOK, OneLocalPerVisitor, Feeds
<1>1. ASSUME NEW c \in Conn, StopAccepting(c) \/ LoseLink(c) \/ ClientExits(c)
      PROVE  s = t
  BY <1>1 DEF StopAccepting, LoseLink, ClientExits
<1>2. ASSUME NEW v \in Visitor, Accept(v) \/ VisitorEnds(v) \/ VisitorResets(v)
      PROVE  s = t
  BY <1>2 DEF Accept, VisitorEnds, VisitorResets
<1>3. ASSUME NEW v \in Visitor, Dial(v) PROVE s = t
  BY <1>3 DEF Dial
<1>4. ASSUME NEW v \in Visitor,
             Receive(v) \/ LocalConnects(v) \/ MiddleEnds(v) \/ LocalEnds(v)
      PROVE  s = t
  BY <1>4 DEF Receive, LocalConnects, MiddleEnds, LocalEnds
<1>5. CASE UNCHANGED vars
  BY <1>5 DEF vars
<1>6. QED
  BY <1>1, <1>2, <1>3, <1>4, <1>5 DEF Next

LEMMA OnlyVisitorsAreAnnouncedStep == IInv /\ [Next]_vars => OnlyVisitorsAreAnnounced'
<1> SUFFICES ASSUME IInv, [Next]_vars, NEW w \in Visitor, vis'[w] = "new"
             PROVE  task'[w] = "none"
  BY DEF OnlyVisitorsAreAnnounced
<1> USE DEF IInv, TypeOK, OnlyVisitorsAreAnnounced, Feeds
<1>1. ASSUME NEW c \in Conn, StopAccepting(c) \/ LoseLink(c) \/ ClientExits(c)
      PROVE  task'[w] = "none"
  BY <1>1 DEF StopAccepting, LoseLink, ClientExits
<1>2. ASSUME NEW v \in Visitor, Accept(v) \/ VisitorEnds(v) \/ VisitorResets(v)
      PROVE  task'[w] = "none"
  BY <1>2 DEF Accept, VisitorEnds, VisitorResets
<1>3. ASSUME NEW v \in Visitor,
             \/ Receive(v) \/ LocalConnects(v) \/ Dial(v)
             \/ MiddleEnds(v) \/ LocalEnds(v)
      PROVE  task'[w] = "none"
  BY <1>3 DEF Receive, LocalConnects, Dial, MiddleEnds, LocalEnds
<1>4. CASE UNCHANGED vars
  BY <1>4 DEF vars
<1>5. QED
  BY <1>1, <1>2, <1>3, <1>4 DEF Next

\* The inductive invariant holds in every reachable state.
THEOREM Invariance == Spec => []IInv
<1>1. IInv /\ [Next]_vars => IInv'
  BY TypeOKStep, MPortsDifferStep, MiddleFollowsVisitorStep, OneLocalPerVisitorStep,
     OnlyVisitorsAreAnnouncedStep DEF IInv
<1>2. QED
  BY IInvInit, <1>1, PTL DEF Spec

\* A middle server listens exactly as long as its visitor is there
\* (TcpTunnelServer.createProxyServer, the handlers of proxySocket).
THEOREM MiddleServersFollowVisitors == Spec => []MiddleFollowsVisitor
<1>1. IInv => MiddleFollowsVisitor
  BY DEF IInv
<1>2. QED
  BY Invariance, <1>1, PTL

\* At most one local connection is piped to a visitor (maxConnections = 1).
THEOREM VisitorsAreNotShared == Spec => []OneLocalPerVisitor
<1>1. IInv => OneLocalPerVisitor
  BY DEF IInv
<1>2. QED
  BY Invariance, <1>1, PTL

\* A local connection goes to another visitor only if its own had left.
THEOREM StrayOnlyWhenLate == Spec => OnlyTheLateGoAstray
<1> DEFINE P == \A v \in Visitor :
               (task[v] # "joined" /\ task'[v] = "joined" /\ peer'[v] # v) => ~Here(v)
<1>1. IInv /\ [Next]_vars => [P]_vars
  <2> SUFFICES ASSUME IInv, Next, NEW x \in Visitor,
                      task[x] # "joined", task'[x] = "joined", Here(x)
               PROVE  peer'[x] = x
    OBVIOUS
  <2> USE DEF IInv, TypeOK
  <2>1. ASSUME NEW c \in Conn, StopAccepting(c) \/ LoseLink(c) \/ ClientExits(c)
        PROVE  FALSE
    BY <2>1 DEF StopAccepting, LoseLink, ClientExits
  <2>2. ASSUME NEW v \in Visitor,
               \/ Accept(v) \/ VisitorEnds(v) \/ VisitorResets(v) \/ Receive(v)
               \/ LocalConnects(v) \/ MiddleEnds(v) \/ LocalEnds(v)
        PROVE  FALSE
    BY <2>2 DEF Accept, VisitorEnds, VisitorResets, Receive, LocalConnects,
                MiddleEnds, LocalEnds
  <2>3. ASSUME NEW v \in Visitor, Dial(v) PROVE peer'[x] = x
    <3>1. v = x
      BY <2>3 DEF Dial
    <3>2. PICK w \in Answering(mport[x]) : peer' = [peer EXCEPT ![x] = w]
      BY <2>3, <3>1 DEF Dial
    <3>3. w \in middle /\ mport[w] = mport[x]
      BY DEF Answering
    <3>4. x \in middle
      BY DEF MiddleFollowsVisitor
    <3>5. w = x
      BY <3>3, <3>4 DEF MPortsDiffer
    <3>6. QED
      BY <3>2, <3>5
  <2>4. QED
    BY <2>1, <2>2, <2>3 DEF Next
<1>2. QED
  BY Invariance, <1>1, PTL DEF Spec, OnlyTheLateGoAstray

-----------------------------------------------------------------------------
(* Framing.  The receiver goes through a buffer by calls of itself, each   *)
(* on the rest: what it gives is proved by induction over the length of a  *)
(* buffer, and what it has given after any chunks by an invariant.         *)

\* Induction over the numbers, and so over the length of a buffer: the library's
\* well-founded order, with sets of numbers for the formulas.
Less == {p \in Nat \X Nat : p[1] < p[2]}

\* Every descent in the numbers ends.
LEMMA LessIsWellFounded == IsWellFoundedOn(Less, Nat)
BY NatLessThanWellFounded DEF OpToRel, Less

\* A set of numbers that is not empty has a least one.
LEMMA LeastOf ==
  ASSUME NEW T, T \subseteq Nat, T # {}
  PROVE  \E x \in T : \A y \in T : x <= y
<1>1. PICK x \in T : \A y \in T : ~ (<<y, x>> \in Less)
  BY LessIsWellFounded, WFMin
<1>2. \A y \in T : y < x => <<y, x>> \in Less
  BY DEF Less
<1>3. \A y \in T : ~(y < x)
  BY <1>1, <1>2
<1>4. QED
  BY <1>3

\* Induction over the numbers, of what a set of them stands for.
LEMMA Induction ==
  ASSUME NEW S, 0 \in S, \A n \in Nat : n \in S => n + 1 \in S
  PROVE  \A n \in Nat : n \in S
<1> SUFFICES ASSUME Nat \ S # {} PROVE FALSE
  OBVIOUS
<1>1. PICK x \in Nat \ S : \A y \in Nat \ S : x <= y
  BY LeastOf
<1>2. x - 1 \in Nat /\ x - 1 \in S
  BY <1>1
<1>3. QED
  BY <1>2

-----------------------------------------------------------------------------
(* The frames.                                                             *)

\* Where frames end, and that each has a head and a body.
LEMMA EndTypes ==
  /\ \A n \in 0..Messages : End[n] \in Nat /\ End[n] <= End[Messages]
  /\ \A m \in Message : /\ m - 1 \in 0..Messages /\ m \in 0..Messages
                        /\ End[m - 1] + HeadBytes < End[m]
                        /\ LenOf(m) \in Nat \ {0}
                        /\ End[m - 1] + HeadBytes + LenOf(m) = End[m]
<1> USE FrameAssumption DEF Message, LenOf
<1>1. \A n \in 0..Messages : End[n] \in Nat
  OBVIOUS
<1>2. Messages \in 0..Messages
  OBVIOUS
<1>3. \A n \in 0..Messages : n < Messages => End[n] + HeadBytes < End[Messages]
  BY <1>2
<1>4. \A n \in 0..Messages : End[n] <= End[Messages]
  BY <1>1, <1>2, <1>3
<1>5. ASSUME NEW m \in Message
      PROVE  /\ m - 1 \in 0..Messages /\ m \in 0..Messages
             /\ End[m - 1] + HeadBytes < End[m]
  <2>1. m - 1 \in 0..Messages /\ m \in 0..Messages /\ m - 1 < m
    OBVIOUS
  <2>2. QED
    BY <2>1
<1>6. QED
  BY <1>1, <1>4, <1>5

\* Of two frames one ends before the other starts.
LEMMA EndsAscend ==
  ASSUME NEW m \in 0..Messages, NEW n \in 0..Messages
  PROVE  /\ m < n <=> End[m] < End[n]
         /\ m = n <=> End[m] = End[n]
<1> USE FrameAssumption
<1>1. End[m] \in Nat /\ End[n] \in Nat /\ m \in Nat /\ n \in Nat
  OBVIOUS
<1>2. (m < n => End[m] + HeadBytes < End[n]) /\ (n < m => End[n] + HeadBytes < End[m])
  OBVIOUS
<1>3. QED
  BY <1>1, <1>2

\* What is in front of a place behind a frame is an earlier frame.
LEMMA FrameAfter ==
  ASSUME NEW m \in Message, NEW n \in Message, NEW k \in Nat, End[m] <= k, k <= End[n - 1]
  PROVE  m < n
<1>1. /\ m \in 0..Messages /\ n \in 0..Messages /\ n - 1 \in 0..Messages
      /\ End[n - 1] + HeadBytes < End[n]
  BY EndTypes
<1>2. End[m] \in Nat /\ End[n] \in Nat /\ End[n - 1] \in Nat /\ HeadBytes \in Nat
  BY <1>1, FrameAssumption
<1>3. End[m] < End[n]
  BY <1>1, <1>2
<1>4. QED
  BY <1>1, <1>3, EndsAscend

\* The bytes of a buffer are numbers.
LEMMA BytesAreNumbers ==
  ASSUME NEW buf \in Seq(Byte)
  PROVE  Len(buf) \in Nat /\ \A i \in 1..Len(buf) : buf[i] \in Byte /\ buf[i] \in Nat
<1>1. Byte \subseteq Nat
  BY EndTypes, FrameAssumption DEF Byte
<1>2. \A i \in 1..Len(buf) : buf[i] \in Byte
  OBVIOUS
<1>3. \A i \in 1..Len(buf) : buf[i] \in Nat
  BY <1>1, <1>2
<1>4. Len(buf) \in Nat
  OBVIOUS
<1>5. QED
  BY <1>2, <1>3, <1>4

\* What a slice holds.
LEMMA SliceIs ==
  ASSUME NEW buf \in Seq(Byte), NEW from \in Nat, NEW to \in Nat, from <= to, to <= Len(buf)
  PROVE  /\ Slice(buf, from, to) \in Seq(Byte)
         /\ Len(Slice(buf, from, to)) = to - from
         /\ \A i \in 1..(to - from) : Slice(buf, from, to)[i] = buf[from + i]
<1>1. Slice(buf, from, to) = SubSeq(buf, from + 1, to)
  BY DEF Slice
<1>2. \A i \in (from + 1)..to : buf[i] \in Byte
  OBVIOUS
<1>3. /\ SubSeq(buf, from + 1, to) \in Seq(Byte)
      /\ Len(SubSeq(buf, from + 1, to)) = IF from + 1 <= to THEN to - (from + 1) + 1 ELSE 0
      /\ \A i \in 1..(to - (from + 1) + 1) : SubSeq(buf, from + 1, to)[i] = buf[(from + 1) + i - 1]
  BY <1>2, SubSeqProperties
<1>4. QED
  BY <1>1, <1>3

\* An end that is not there is the end of the buffer.
LEMMA SliceToEnd ==
  ASSUME NEW buf \in Seq(Byte), NEW from \in Nat, NEW to \in Nat, to > Len(buf)
  PROVE  Slice(buf, from, to) = Slice(buf, from, Len(buf))
BY DEF Slice

\* A slice is of the bytes of its buffer, and no longer than it.
LEMMA SliceType ==
  ASSUME NEW buf \in Seq(Byte), NEW from \in Nat, NEW to \in Nat
  PROVE  Slice(buf, from, to) \in Seq(Byte) /\ Len(Slice(buf, from, to)) <= Len(buf)
<1> DEFINE t == IF to < Len(buf) THEN to ELSE Len(buf)
<1>1. t \in 0..Len(buf) /\ t \in Nat /\ t <= Len(buf)
  OBVIOUS
<1>2. Slice(buf, from, to) = SubSeq(buf, from + 1, t)
  BY DEF Slice
<1>3. Slice(buf, from, to) = Slice(buf, from, t)
  BY DEF Slice
<1> HIDE DEF t
<1>4. CASE from <= t
  <2>1. Slice(buf, from, t) \in Seq(Byte) /\ Len(Slice(buf, from, t)) = t - from
    BY <1>1, <1>4, SliceIs
  <2>2. QED
    BY <1>1, <1>3, <2>1
<1>5. CASE t < from
  <2>1. Slice(buf, from, to) = <<>>
    BY <1>1, <1>2, <1>5, SubSeqEmpty
  <2>2. QED
    BY <2>1
<1>6. QED
  BY <1>1, <1>4, <1>5

\* A head is read as the length of its body, anything else as Misread.
LEMMA LengthOfFrame ==
  ASSUME NEW buf \in Seq(Byte), NEW m \in Message, StartsWith(buf, m)
  PROVE  BodyLength(buf) = LenOf(m)
<1>1. ASSUME NEW n \in Message, StartsWith(buf, n) PROVE n = m
  <2>1. HeadOf(n)[1] = HeadOf(m)[1]
    BY <1>1, FrameAssumption DEF StartsWith
  <2>2. HeadOf(n)[1] = End[n - 1] + 1 /\ HeadOf(m)[1] = End[m - 1] + 1
    BY FrameAssumption DEF HeadOf
  <2>3. End[n - 1] = End[m - 1]
    <3>1. End[n - 1] \in Nat /\ End[m - 1] \in Nat
      BY EndTypes
    <3>2. End[n - 1] + 1 = End[m - 1] + 1
      BY <2>1, <2>2
    <3>3. QED
      BY <3>1, <3>2
  <2>4. n - 1 = m - 1
    BY <2>3, EndTypes, EndsAscend
  <2>5. QED
    BY <2>4 DEF Message
<1>2. (CHOOSE n \in Message : StartsWith(buf, n)) = m
  BY <1>1
<1>3. QED
  BY <1>2 DEF BodyLength

\* A length is a number, whatever it is read from.
LEMMA LengthType ==
  ASSUME NEW buf \in Seq(Byte)
  PROVE  BodyLength(buf) \in Nat
<1>1. CASE \E m \in Message : StartsWith(buf, m)
  BY <1>1, LengthOfFrame, EndTypes
<1>2. CASE ~\E m \in Message : StartsWith(buf, m)
  BY <1>2, FrameAssumption DEF BodyLength
<1>3. QED
  BY <1>1, <1>2

\* What the sender writes is one frame after the other.
LEMMA StreamGrows ==
  ASSUME NEW m \in Message
  PROVE  Stream(m) = Stream(m - 1) \o Pack(m)
<1> DEFINE a == End[m - 1]
           n == LenOf(m)
<1>1. a \in Nat /\ n \in Nat /\ End[m] = a + HeadBytes + n /\ HeadBytes \in Nat
  BY EndTypes, FrameAssumption
<1>2. /\ Stream(m - 1) \in Seq(Nat) /\ Len(Stream(m - 1)) = a
      /\ \A i \in 1..a : Stream(m - 1)[i] = i
  BY <1>1 DEF Stream
<1>3. /\ HeadOf(m) \in Seq(Nat) /\ Len(HeadOf(m)) = HeadBytes
      /\ \A i \in 1..HeadBytes : HeadOf(m)[i] = a + i
  BY <1>1 DEF HeadOf
<1>4. /\ Body(m) \in Seq(Nat) /\ Len(Body(m)) = n
      /\ \A i \in 1..n : Body(m)[i] = a + HeadBytes + i
  BY <1>1 DEF Body
<1> HIDE DEF a, n
<1>5. /\ Pack(m) \in Seq(Nat) /\ Len(Pack(m)) = HeadBytes + n
      /\ \A i \in 1..(HeadBytes + n) : Pack(m)[i] = a + i
  <2>1. /\ Pack(m) \in Seq(Nat) /\ Len(Pack(m)) = HeadBytes + n
        /\ \A i \in 1..(HeadBytes + n) : Pack(m)[i] =
              IF i <= HeadBytes THEN HeadOf(m)[i] ELSE Body(m)[i - HeadBytes]
    BY <1>3, <1>4, ConcatProperties DEF Pack
  <2>2. \A i \in 1..(HeadBytes + n) : i > HeadBytes => i - HeadBytes \in 1..n
    BY <1>1
  <2>3. QED
    BY <1>1, <1>3, <1>4, <2>1, <2>2
<1>6. /\ Stream(m - 1) \o Pack(m) \in Seq(Nat)
      /\ Len(Stream(m - 1) \o Pack(m)) = a + HeadBytes + n
      /\ \A i \in 1..(a + HeadBytes + n) : (Stream(m - 1) \o Pack(m))[i] = i
  <2>1. /\ Stream(m - 1) \o Pack(m) \in Seq(Nat)
        /\ Len(Stream(m - 1) \o Pack(m)) = a + (HeadBytes + n)
        /\ \A i \in 1..(a + (HeadBytes + n)) : (Stream(m - 1) \o Pack(m))[i] =
              IF i <= a THEN Stream(m - 1)[i] ELSE Pack(m)[i - a]
    <3>1. /\ Stream(m - 1) \o Pack(m) \in Seq(Nat)
          /\ Len(Stream(m - 1) \o Pack(m)) = Len(Stream(m - 1)) + Len(Pack(m))
          /\ \A i \in 1..(Len(Stream(m - 1)) + Len(Pack(m))) : (Stream(m - 1) \o Pack(m))[i] =
                IF i <= Len(Stream(m - 1)) THEN Stream(m - 1)[i]
                ELSE Pack(m)[i - Len(Stream(m - 1))]
      BY <1>2, <1>5, ConcatProperties
    <3>2. QED
      BY <3>1, <1>2, <1>5
  <2>2. \A i \in 1..(a + HeadBytes + n) : i > a => i - a \in 1..(HeadBytes + n)
    BY <1>1
  <2>3. QED
    BY <1>1, <1>2, <1>5, <2>1, <2>2
<1>7. /\ Stream(m) \in Seq(Nat) /\ Len(Stream(m)) = a + HeadBytes + n
      /\ \A i \in 1..(a + HeadBytes + n) : Stream(m)[i] = i
  BY <1>1 DEF Stream
<1>8. QED
  BY <1>6, <1>7, SeqEqual
-----------------------------------------------------------------------------
(* The recursion.  A call only looks at what shorter buffers give, so that *)
(* there is a function that does what Process says, built from those for   *)
(* the buffers up to some length.                                          *)

\* The buffers of at most k bytes, and a function that does for them what
\* Process says.
Short(k) == {buf \in Seq(Byte) : Len(buf) <= k}
IsProcess(f, k) == f = [buf \in Short(k) |-> Call(f, buf)]

\* What is behind a frame is shorter than the buffer.
LEMMA BehindIsShorter ==
  ASSUME NEW buf \in Seq(Byte), HeadBytes <= Len(buf),
         BodyLength(buf) < Len(buf) - HeadBytes
  PROVE  /\ Slice(buf, HeadBytes + BodyLength(buf), Len(buf)) \in Seq(Byte)
         /\ Len(Slice(buf, HeadBytes + BodyLength(buf), Len(buf)))
               = Len(buf) - HeadBytes - BodyLength(buf)
         /\ Len(buf) - HeadBytes - BodyLength(buf) < Len(buf)
<1> DEFINE n == BodyLength(buf)
<1>1. n \in Nat /\ HeadBytes \in Nat \ {0} /\ Len(buf) \in Nat
  BY LengthType, FrameAssumption
<1>2. n < Len(buf) - HeadBytes
  OBVIOUS
<1> HIDE DEF n
<1> DEFINE from == HeadBytes + n
<1>3. from \in Nat /\ from <= Len(buf) /\ Len(buf) <= Len(buf)
  BY <1>1, <1>2
<1> HIDE DEF from
<1>4. Slice(buf, from, Len(buf)) \in Seq(Byte) /\ Len(Slice(buf, from, Len(buf))) = Len(buf) - from
  BY <1>1, <1>3, SliceIs
<1>5. QED
  BY <1>1, <1>4 DEF n, from

\* The ways a call can go when there are enough bytes for a head.
LEMMA CallMore ==
  ASSUME NEW rest, NEW buf \in Seq(Byte), HeadBytes <= Len(buf),
         BodyLength(buf) < Len(buf) - HeadBytes
  PROVE  LET behind == Slice(buf, HeadBytes + BodyLength(buf), Len(buf))
         IN  Call(rest, buf) =
               [packs |-> <<Slice(buf, HeadBytes, BodyLength(buf) + HeadBytes)>>
                            \o rest[behind].packs,
                left |-> rest[behind].left]
<1>1. ~(Len(buf) < HeadBytes)
  BY FrameAssumption
<1>2. /\ ~(BodyLength(buf) = Len(buf) - HeadBytes)
      /\ ~(BodyLength(buf) > Len(buf) - HeadBytes)
  BY LengthType, FrameAssumption
<1>3. QED
  BY <1>1, <1>2 DEF Call

\* A call with a whole frame and nothing behind it.
LEMMA CallExact ==
  ASSUME NEW rest, NEW buf \in Seq(Byte), HeadBytes <= Len(buf),
         BodyLength(buf) = Len(buf) - HeadBytes
  PROVE  Call(rest, buf) =
           [packs |-> <<Slice(buf, HeadBytes, BodyLength(buf) + HeadBytes)>>, left |-> Nothing]
<1>1. ~(Len(buf) < HeadBytes)
  BY FrameAssumption
<1>2. /\ ~(BodyLength(buf) < Len(buf) - HeadBytes)
      /\ ~(BodyLength(buf) > Len(buf) - HeadBytes)
  BY LengthType, FrameAssumption
<1>3. QED
  BY <1>1, <1>2 DEF Call

\* A call with a frame that is not whole.
LEMMA CallPartial ==
  ASSUME NEW rest, NEW buf \in Seq(Byte), HeadBytes <= Len(buf),
         BodyLength(buf) > Len(buf) - HeadBytes
  PROVE  Call(rest, buf) = [packs |-> <<>>, left |-> Keep(buf)]
<1>1. ~(Len(buf) < HeadBytes)
  BY FrameAssumption
<1>2. /\ ~(BodyLength(buf) < Len(buf) - HeadBytes)
      /\ ~(BodyLength(buf) = Len(buf) - HeadBytes)
  BY LengthType, FrameAssumption
<1>3. QED
  BY <1>1, <1>2 DEF Call

\* The result of a call depends on those for shorter buffers only.
LEMMA CallIsLocal ==
  ASSUME NEW f, NEW g, NEW buf \in Seq(Byte),
         \A b \in Seq(Byte) : Len(b) < Len(buf) => f[b] = g[b]
  PROVE  Call(f, buf) = Call(g, buf)
<1> DEFINE behind == Slice(buf, HeadBytes + BodyLength(buf), Len(buf))
<1>1. CASE Len(buf) < HeadBytes
  BY <1>1 DEF Call
<1>2. CASE HeadBytes <= Len(buf) /\ BodyLength(buf) < Len(buf) - HeadBytes
  <2>1. behind \in Seq(Byte) /\ Len(behind) < Len(buf)
    BY <1>2, BehindIsShorter
  <2>2. f[behind] = g[behind]
    BY <2>1
  <2>3. QED
    BY <1>2, <2>2 DEF Call
<1>3. CASE HeadBytes <= Len(buf) /\ BodyLength(buf) = Len(buf) - HeadBytes
  BY <1>3, CallExact
<1>4. CASE HeadBytes <= Len(buf) /\ BodyLength(buf) > Len(buf) - HeadBytes
  BY <1>4, CallPartial
<1>5. Len(buf) \in Nat /\ BodyLength(buf) \in Nat /\ HeadBytes \in Nat
  BY LengthType, FrameAssumption
<1>6. QED
  BY <1>1, <1>2, <1>3, <1>4, <1>5

\* For any length there is a function that is right for buffers up to it.
LEMMA ProcessUpTo == \A k \in Nat : \E f : IsProcess(f, k)
<1> DEFINE S == {k \in Nat : \E f : IsProcess(f, k)}
<1>1. 0 \in S
  <2> DEFINE f == [buf \in Short(0) |-> Call(<<>>, buf)]
  <2>1. ASSUME NEW buf \in Short(0) PROVE Call(f, buf) = Call(<<>>, buf)
    <3>1. buf \in Seq(Byte) /\ Len(buf) = 0
      BY DEF Short
    <3>2. \A b \in Seq(Byte) : ~(Len(b) < Len(buf))
      BY <3>1
    <3> HIDE DEF f
    <3>3. QED
      BY <3>1, <3>2, CallIsLocal
  <2>2. f = [buf \in Short(0) |-> Call(f, buf)]
    BY <2>1
  <2>3. QED
    BY <2>2 DEF IsProcess
<1>2. ASSUME NEW k \in Nat, k \in S PROVE k + 1 \in S
  <2>1. PICK f : IsProcess(f, k)
    BY <1>2
  <2> DEFINE g == [buf \in Short(k + 1) |-> Call(f, buf)]
  <2>2. \A b \in Short(k) : g[b] = f[b]
    <3>1. Short(k) \subseteq Short(k + 1)
      BY DEF Short
    <3>2. \A b \in Short(k) : f[b] = Call(f, b)
      BY <2>1 DEF IsProcess
    <3>3. QED
      BY <3>1, <3>2
  <2>3. ASSUME NEW buf \in Short(k + 1) PROVE Call(g, buf) = Call(f, buf)
    <3>1. buf \in Seq(Byte) /\ Len(buf) <= k + 1
      BY DEF Short
    <3>2. \A b \in Seq(Byte) : Len(b) < Len(buf) => b \in Short(k)
      BY <3>1 DEF Short
    <3>3. \A b \in Seq(Byte) : Len(b) < Len(buf) => g[b] = f[b]
      BY <2>2, <3>2
    <3> HIDE DEF g
    <3>4. QED
      BY <3>1, <3>3, CallIsLocal
  <2>4. g = [buf \in Short(k + 1) |-> Call(g, buf)]
    BY <2>3
  <2>5. IsProcess(g, k + 1)
    BY <2>4 DEF IsProcess
  <2> HIDE DEF g
  <2>6. QED
    BY <2>5
<1> HIDE DEF S
<1>3. \A k \in Nat : k \in S
  BY <1>1, <1>2, Induction
<1>4. QED
  BY <1>3 DEF S

\* Two of these functions agree where both are defined.
LEMMA ProcessesAgree ==
  ASSUME NEW j \in Nat, NEW k \in Nat, NEW f, NEW g, IsProcess(f, j), IsProcess(g, k)
  PROVE  \A buf \in Short(j) \cap Short(k) : f[buf] = g[buf]
<1> DEFINE S == {n \in Nat : \A buf \in Short(j) \cap Short(k) : Len(buf) <= n => f[buf] = g[buf]}
<1>1. ASSUME NEW buf \in Short(j) \cap Short(k),
             \A b \in Short(j) \cap Short(k) : Len(b) < Len(buf) => f[b] = g[b]
      PROVE  f[buf] = g[buf]
  <2>1. buf \in Seq(Byte) /\ Len(buf) <= j /\ Len(buf) <= k
    BY DEF Short
  <2>2. \A b \in Seq(Byte) : Len(b) < Len(buf) => b \in Short(j) \cap Short(k)
    BY <2>1 DEF Short
  <2>3. Call(f, buf) = Call(g, buf)
    BY <1>1, <2>1, <2>2, CallIsLocal
  <2>4. f[buf] = Call(f, buf) /\ g[buf] = Call(g, buf)
    BY DEF IsProcess
  <2>5. QED
    BY <2>3, <2>4
<1>2. \A buf \in Short(j) \cap Short(k) : Len(buf) \in Nat
  BY DEF Short
<1>3. 0 \in S
  <2>1. ASSUME NEW buf \in Short(j) \cap Short(k), Len(buf) <= 0 PROVE f[buf] = g[buf]
    <3>1. \A b \in Short(j) \cap Short(k) : ~(Len(b) < Len(buf))
      BY <1>2, <2>1
    <3>2. QED
      BY <1>1, <3>1
  <2>2. QED
    BY <2>1
<1>4. ASSUME NEW n \in Nat, n \in S PROVE n + 1 \in S
  <2>1. ASSUME NEW buf \in Short(j) \cap Short(k), Len(buf) <= n + 1 PROVE f[buf] = g[buf]
    <3>1. \A b \in Short(j) \cap Short(k) : Len(b) < Len(buf) => f[b] = g[b]
      BY <1>2, <1>4, <2>1
    <3>2. QED
      BY <1>1, <3>1
  <2>2. QED
    BY <2>1
<1> HIDE DEF S
<1>5. \A n \in Nat : n \in S
  BY <1>3, <1>4, Induction
<1>6. QED
  BY <1>2, <1>5 DEF S

\* processCommingBuffer ends, and does what its text says.
THEOREM ProcessIsItsCall == \A buf \in Seq(Byte) : Process[buf] = Call(Process, buf)
<1> DEFINE Up(k) == CHOOSE f : IsProcess(f, k)
           P == [buf \in Seq(Byte) |-> Up(Len(buf))[buf]]
<1>1. \A k \in Nat : IsProcess(Up(k), k)
  BY ProcessUpTo
<1> HIDE DEF Up
<1>2. ASSUME NEW buf \in Seq(Byte) PROVE P[buf] = Call(P, buf)
  <2>1. Len(buf) \in Nat /\ buf \in Short(Len(buf))
    BY DEF Short
  <2>2. Up(Len(buf))[buf] = Call(Up(Len(buf)), buf)
    BY <1>1, <2>1 DEF IsProcess
  <2>3. ASSUME NEW b \in Seq(Byte), Len(b) < Len(buf) PROVE P[b] = Up(Len(buf))[b]
    <3>1. Len(b) \in Nat /\ b \in Short(Len(b)) \cap Short(Len(buf))
      BY <2>1, <2>3 DEF Short
    <3>2. Up(Len(b))[b] = Up(Len(buf))[b]
      BY <1>1, <2>1, <3>1, ProcessesAgree
    <3>3. QED
      BY <3>2
  <2>4. P[buf] = Up(Len(buf))[buf]
    OBVIOUS
  <2> HIDE DEF P
  <2>5. Call(P, buf) = Call(Up(Len(buf)), buf)
    BY <2>3, CallIsLocal
  <2>6. QED
    BY <2>2, <2>4, <2>5
<1>3. P = [buf \in Seq(Byte) |-> Call(P, buf)]
  BY <1>2
<1> HIDE DEF P
<1>4. Process = [buf \in Seq(Byte) |-> Call(Process, buf)]
  BY <1>3 DEF Process
<1>5. QED
  BY <1>4
-----------------------------------------------------------------------------
(* What reaches notify.                                                    *)

\* packs are the bodies of messages, in the order of their frames, which lie
\* in the stream after byte lo and up to byte hi.
Told(packs, lo, hi) ==
    /\ packs \in Seq(Seq(Byte))
    /\ \E who \in [1..Len(packs) -> Message] :
         /\ \A i \in 1..Len(packs) : /\ packs[i] = Body(who[i])
                                     /\ lo <= End[who[i] - 1] /\ End[who[i]] <= hi
         /\ \A i, j \in 1..Len(packs) : i < j => who[i] < who[j]

\* No packs are the packs of any stretch of the stream.
LEMMA ToldNothing ==
  ASSUME NEW lo \in Nat, NEW hi \in Nat
  PROVE  Told(<<>>, lo, hi)
<1> DEFINE packs == <<>>
           who == [i \in {} |-> 1]
<1>1. packs \in Seq(Seq(Byte)) /\ Len(packs) = 0
  OBVIOUS
<1> HIDE DEF packs
<1>2. 1..Len(packs) = {}
  BY <1>1
<1>3. who \in [1..Len(packs) -> Message]
  BY <1>2
<1> HIDE DEF who
<1>4. Told(packs, lo, hi)
  BY <1>1, <1>2, <1>3 DEF Told
<1>5. QED
  BY <1>4 DEF packs

\* A body is of bytes, the ones behind the head.
LEMMA BodyType ==
  ASSUME NEW m \in Message
  PROVE  /\ Body(m) \in Seq(Byte) /\ Len(Body(m)) = LenOf(m)
         /\ \A i \in 1..LenOf(m) : Body(m)[i] = End[m - 1] + HeadBytes + i
<1> DEFINE a == End[m - 1] + HeadBytes
           n == LenOf(m)
<1>1. a \in Nat /\ n \in Nat /\ a + n = End[m] /\ End[m] <= End[Messages] /\ End[Messages] \in Nat
  BY EndTypes, FrameAssumption
<1>2. \A i \in 1..n : a + i \in Byte
  <2> HIDE DEF a, n
  <2>1. QED
    BY <1>1 DEF Byte
<1>3. Body(m) = [i \in 1..n |-> a + i]
  BY DEF Body
<1> HIDE DEF n, a
<1>4. Body(m) \in Seq(Byte) /\ Len(Body(m)) = n /\ \A i \in 1..n : Body(m)[i] = a + i
  BY <1>1, <1>2, <1>3
<1>5. QED
  BY <1>4 DEF n, a

\* The body of a frame is told of the stretch of that frame.
LEMMA ToldOne ==
  ASSUME NEW m \in Message
  PROVE  Told(<<Body(m)>>, End[m - 1], End[m])
<1> DEFINE packs == <<Body(m)>>
           who == [i \in 1..1 |-> m]
<1>1. Body(m) \in Seq(Byte)
  BY BodyType
<1>2. packs \in Seq(Seq(Byte)) /\ Len(packs) = 1 /\ packs[1] = Body(m)
  BY <1>1
<1>3. who \in [1..1 -> Message] /\ who[1] = m
  OBVIOUS
<1>4. End[m - 1] <= End[m - 1] /\ End[m] <= End[m]
  BY EndTypes
<1> HIDE DEF packs, who
<1>5. \A i \in 1..1 : i = 1
  OBVIOUS
<1>6. Told(packs, End[m - 1], End[m])
  BY <1>2, <1>3, <1>4, <1>5 DEF Told
<1>7. QED
  BY <1>6 DEF packs

\* Packs told of one stretch and of the next are told of both together.
LEMMA ToldConcat ==
  ASSUME NEW lo \in Nat, NEW mid \in Nat, NEW hi \in Nat, lo <= mid, mid <= hi,
         NEW p, NEW q, Told(p, lo, mid), Told(q, mid, hi)
  PROVE  Told(p \o q, lo, hi)
<1>1. PICK f \in [1..Len(p) -> Message] :
         /\ \A i \in 1..Len(p) : /\ p[i] = Body(f[i])
                                 /\ lo <= End[f[i] - 1] /\ End[f[i]] <= mid
         /\ \A i, j \in 1..Len(p) : i < j => f[i] < f[j]
  BY DEF Told
<1>2. PICK g \in [1..Len(q) -> Message] :
         /\ \A i \in 1..Len(q) : /\ q[i] = Body(g[i])
                                 /\ mid <= End[g[i] - 1] /\ End[g[i]] <= hi
         /\ \A i, j \in 1..Len(q) : i < j => g[i] < g[j]
  BY DEF Told
<1>3. p \in Seq(Seq(Byte)) /\ q \in Seq(Seq(Byte))
  BY DEF Told
<1> DEFINE np == Len(p)
           nq == Len(q)
           who == [i \in 1..(np + nq) |-> IF i <= np THEN f[i] ELSE g[i - np]]
<1>4. np \in Nat /\ nq \in Nat
  BY <1>3
<1>5. /\ p \o q \in Seq(Seq(Byte)) /\ Len(p \o q) = np + nq
      /\ \A i \in 1..(np + nq) : (p \o q)[i] = IF i <= np THEN p[i] ELSE q[i - np]
  BY <1>3, ConcatProperties
<1> HIDE DEF np, nq
<1>6. \A i \in 1..(np + nq) : IF i <= np THEN i \in 1..np ELSE i - np \in 1..nq
  BY <1>4
<1>7. f \in [1..np -> Message] /\ g \in [1..nq -> Message]
  BY DEF np, nq
<1>8. /\ who \in [1..(np + nq) -> Message]
      /\ \A i \in 1..(np + nq) : who[i] = IF i <= np THEN f[i] ELSE g[i - np]
  BY <1>6, <1>7
<1> HIDE DEF who
<1>9. ASSUME NEW i \in 1..(np + nq)
      PROVE  /\ (p \o q)[i] = Body(who[i])
             /\ lo <= End[who[i] - 1] /\ End[who[i]] <= hi
  <2>1. CASE i <= np
    <3>1. i \in 1..Len(p) /\ who[i] = f[i] /\ (p \o q)[i] = p[i]
      BY <1>5, <1>6, <1>8, <2>1 DEF np
    <3>2. End[f[i]] \in Nat /\ End[f[i]] <= mid /\ lo <= End[f[i] - 1] /\ p[i] = Body(f[i])
      BY <1>1, <3>1, EndTypes
    <3>3. QED
      BY <3>1, <3>2
  <2>2. CASE ~(i <= np)
    <3>1. i - np \in 1..Len(q) /\ who[i] = g[i - np] /\ (p \o q)[i] = q[i - np]
      BY <1>5, <1>6, <1>8, <2>2 DEF nq
    <3>2. /\ End[g[i - np] - 1] \in Nat /\ mid <= End[g[i - np] - 1]
          /\ End[g[i - np]] <= hi /\ q[i - np] = Body(g[i - np])
      BY <1>2, <3>1, EndTypes
    <3>3. QED
      BY <3>1, <3>2
  <2>3. QED
    BY <2>1, <2>2
<1>10. ASSUME NEW i \in 1..(np + nq), NEW j \in 1..(np + nq), i < j
       PROVE  who[i] < who[j]
  <2>1. CASE j <= np
    <3>1. i <= np /\ i \in 1..Len(p) /\ j \in 1..Len(p)
      BY <1>4, <1>10, <2>1 DEF np
    <3>2. f[i] < f[j]
      BY <1>1, <1>10, <3>1
    <3>3. who[i] = f[i] /\ who[j] = f[j]
      BY <1>8, <2>1, <3>1
    <3>4. QED
      BY <3>2, <3>3
  <2>2. CASE i <= np /\ ~(j <= np)
    <3>1. i \in 1..Len(p) /\ j - np \in 1..Len(q)
      BY <1>4, <1>6, <2>2 DEF np, nq
    <3>2. f[i] \in Message /\ g[j - np] \in Message
      BY <3>1
    <3>3. End[f[i]] <= mid /\ mid <= End[g[j - np] - 1]
      BY <1>1, <1>2, <3>1
    <3>4. f[i] < g[j - np]
      BY <3>2, <3>3, FrameAfter
    <3>5. QED
      BY <1>8, <2>2, <3>4
  <2>3. CASE ~(i <= np) /\ ~(j <= np)
    <3>1. i - np \in 1..Len(q) /\ j - np \in 1..Len(q) /\ i - np < j - np
      BY <1>4, <1>6, <1>10, <2>3 DEF nq
    <3>2. QED
      BY <1>2, <1>8, <2>3, <3>1
  <2>4. QED
    BY <1>4, <1>10, <2>1, <2>2, <2>3
<1>11. QED
  BY <1>5, <1>8, <1>9, <1>10 DEF Told

\* Packs told of a stretch are told of any that holds it.
LEMMA ToldWider ==
  ASSUME NEW lo \in Nat, NEW hi \in Nat, NEW a \in Nat, NEW b \in Nat, a <= lo, hi <= b,
         NEW p, Told(p, lo, hi)
  PROVE  Told(p, a, b)
<1>1. PICK f \in [1..Len(p) -> Message] :
         /\ \A i \in 1..Len(p) : /\ p[i] = Body(f[i])
                                 /\ lo <= End[f[i] - 1] /\ End[f[i]] <= hi
         /\ \A i, j \in 1..Len(p) : i < j => f[i] < f[j]
  BY DEF Told
<1>2. ASSUME NEW i \in 1..Len(p)
      PROVE  p[i] = Body(f[i]) /\ a <= End[f[i] - 1] /\ End[f[i]] <= b
  <2>1. f[i] \in Message
    OBVIOUS
  <2>2. End[f[i] - 1] \in Nat /\ End[f[i]] \in Nat
    BY <2>1, EndTypes
  <2>3. QED
    BY <1>1, <2>2
<1>3. QED
  BY <1>1, <1>2 DEF Told
-----------------------------------------------------------------------------
(* What the receiver keeps.                                                *)

\* From the first byte of a frame on, s has all that was read up to byte r.
Straight(s, r) ==
    \A m \in Message, i \in 1..Len(s) :
        s[i] = End[m - 1] + 1 => \A j \in i..Len(s) : s[j] + Len(s) = r + j

\* A buffer with bytes after lo, of which r have been read.
Orderly(s, lo, r) ==
    /\ s \in Seq(Byte)
    /\ Len(s) <= r
    /\ \A i \in 1..Len(s) : s[i] > lo
    /\ Straight(s, r)

\* What processCommingBuffer makes of a buffer with bytes after lo.
Sound(result, lo, r) ==
    \E hi \in Nat :
        /\ lo <= hi /\ hi <= r
        /\ Told(result.packs, lo, hi)
        /\ result.left = Nothing \/ Orderly(result.left, hi, r)

\* A buffer that starts with a head has the bytes that follow it in the stream.
LEMMA HeadInFront ==
  ASSUME NEW buf, NEW lo \in Nat, NEW r \in Nat, Orderly(buf, lo, r),
         NEW m \in Message, StartsWith(buf, m), HeadBytes <= Len(buf)
  PROVE  /\ \A i \in 1..Len(buf) : buf[i] = End[m - 1] + i
         /\ r = End[m - 1] + Len(buf)
         /\ lo <= End[m - 1]
<1>1. buf \in Seq(Byte) /\ Len(buf) \in Nat /\ HeadBytes \in Nat \ {0} /\ End[m - 1] \in Nat
  BY EndTypes, FrameAssumption DEF Orderly
<1>2. buf[1] = HeadOf(m)[1]
  BY <1>1 DEF StartsWith
<1>3. HeadOf(m)[1] = End[m - 1] + 1
  BY <1>1 DEF HeadOf
<1>4. buf[1] = End[m - 1] + 1
  BY <1>2, <1>3
<1>5. 1 \in 1..Len(buf)
  BY <1>1
<1>6. \A j \in 1..Len(buf) : buf[j] + Len(buf) = r + j
  BY <1>4, <1>5 DEF Orderly, Straight
<1>7. \A j \in 1..Len(buf) : buf[j] \in Nat
  BY <1>1, BytesAreNumbers
<1>8. r = End[m - 1] + Len(buf)
  <2>1. buf[1] + Len(buf) = r + 1
    BY <1>5, <1>6
  <2>2. QED
    BY <1>1, <1>4, <2>1
<1>9. ASSUME NEW i \in 1..Len(buf) PROVE buf[i] = End[m - 1] + i
  <2>1. buf[i] + Len(buf) = r + i /\ buf[i] \in Nat /\ i \in Nat
    BY <1>6, <1>7
  <2>2. End[m - 1] \in Nat /\ Len(buf) \in Nat /\ r = End[m - 1] + Len(buf)
    BY <1>1, <1>8
  <2>3. QED
    BY <2>1, <2>2
<1>10. lo < buf[1]
  BY <1>5 DEF Orderly
<1>11. lo <= End[m - 1]
  BY <1>1, <1>4, <1>10
<1>12. QED
  BY <1>8, <1>9, <1>11

\* A frame that is there is notified as the body of its message.
LEMMA FrameIsTold ==
  ASSUME NEW buf, NEW lo \in Nat, NEW r \in Nat, Orderly(buf, lo, r),
         NEW m \in Message, StartsWith(buf, m), HeadBytes <= Len(buf),
         LenOf(m) <= Len(buf) - HeadBytes
  PROVE  /\ Slice(buf, HeadBytes, BodyLength(buf) + HeadBytes) = Body(m)
         /\ End[m] <= r
         /\ Told(<<Body(m)>>, lo, End[m])
<1> DEFINE a == End[m - 1]
           n == LenOf(m)
           to == n + HeadBytes
<1>1. /\ buf \in Seq(Byte) /\ Len(buf) \in Nat /\ HeadBytes \in Nat \ {0} /\ a \in Nat
      /\ n \in Nat /\ End[m] \in Nat /\ a + HeadBytes + n = End[m]
  BY EndTypes, FrameAssumption DEF Orderly
<1>2. /\ \A i \in 1..Len(buf) : buf[i] = a + i
      /\ r = a + Len(buf)
      /\ lo <= a
  BY HeadInFront
<1>3. BodyLength(buf) = n
  BY <1>1, LengthOfFrame
<1>4. n <= Len(buf) - HeadBytes
  OBVIOUS
<1>5. Body(m) \in Seq(Byte) /\ Len(Body(m)) = n /\ \A i \in 1..n : Body(m)[i] = a + HeadBytes + i
  BY BodyType
<1>6. Told(<<Body(m)>>, a, End[m])
  BY ToldOne
<1>7. to = n + HeadBytes
  OBVIOUS
<1> HIDE DEF a, n, to
<1>8. to \in Nat /\ HeadBytes <= to /\ to <= Len(buf) /\ to - HeadBytes = n
  BY <1>1, <1>4, <1>7
<1>9. /\ Slice(buf, HeadBytes, to) \in Seq(Byte)
      /\ Len(Slice(buf, HeadBytes, to)) = n
      /\ \A i \in 1..n : Slice(buf, HeadBytes, to)[i] = buf[HeadBytes + i]
  BY <1>1, <1>8, SliceIs
<1>10. \A i \in 1..n : HeadBytes + i \in 1..Len(buf)
  BY <1>1, <1>4
<1>11. ASSUME NEW i \in 1..n PROVE Slice(buf, HeadBytes, to)[i] = Body(m)[i]
  <2>1. Slice(buf, HeadBytes, to)[i] = a + (HeadBytes + i)
    BY <1>2, <1>9, <1>10
  <2>2. Body(m)[i] = a + HeadBytes + i
    BY <1>5
  <2>3. i \in Nat
    OBVIOUS
  <2>4. QED
    BY <1>1, <2>1, <2>2, <2>3
<1>12. Slice(buf, HeadBytes, to) = Body(m)
  BY <1>5, <1>9, <1>11, SeqEqual
<1>13. End[m] <= r
  BY <1>1, <1>2, <1>4
<1>14. Told(<<Body(m)>>, lo, End[m])
  <2>1. End[m] <= End[m]
    BY <1>1
  <2>2. QED
    BY <1>1, <1>2, <1>6, <2>1, ToldWider
<1>15. QED
  BY <1>3, <1>7, <1>12, <1>13, <1>14

\* What is behind a frame is in order after it.
LEMMA BehindIsOrderly ==
  ASSUME NEW buf, NEW lo \in Nat, NEW r \in Nat, Orderly(buf, lo, r),
         NEW m \in Message, StartsWith(buf, m), HeadBytes <= Len(buf),
         LenOf(m) < Len(buf) - HeadBytes
  PROVE  Orderly(Slice(buf, HeadBytes + BodyLength(buf), Len(buf)), End[m], r)
<1> DEFINE a == End[m - 1]
           n == LenOf(m)
           from == HeadBytes + n
           s == Slice(buf, from, Len(buf))
<1>1. /\ buf \in Seq(Byte) /\ Len(buf) \in Nat /\ HeadBytes \in Nat \ {0} /\ a \in Nat
      /\ n \in Nat /\ End[m] \in Nat /\ a + HeadBytes + n = End[m] /\ Len(buf) <= r
  BY EndTypes, FrameAssumption DEF Orderly
<1>2. /\ \A i \in 1..Len(buf) : buf[i] = a + i
      /\ r = a + Len(buf)
  BY HeadInFront
<1>3. BodyLength(buf) = n
  BY <1>1, LengthOfFrame
<1>4. n < Len(buf) - HeadBytes
  OBVIOUS
<1>5. from = HeadBytes + n
  OBVIOUS
<1> HIDE DEF a, n, from
<1>6. from \in Nat /\ from <= Len(buf) /\ Len(buf) <= Len(buf) /\ a + from = End[m]
  BY <1>1, <1>4, <1>5
<1>7. /\ s \in Seq(Byte) /\ Len(s) = Len(buf) - from
      /\ \A i \in 1..(Len(buf) - from) : s[i] = buf[from + i]
  BY <1>1, <1>6, SliceIs
<1> HIDE DEF s
<1>8. \A i \in 1..Len(s) : from + i \in 1..Len(buf)
  BY <1>1, <1>6, <1>7
<1>9. \A i \in 1..Len(s) : s[i] = End[m] + i
  BY <1>1, <1>2, <1>6, <1>7, <1>8
<1>10. r = End[m] + Len(s) /\ Len(s) \in Nat
  BY <1>1, <1>2, <1>6, <1>7
<1>11. Straight(s, r)
  <2>1. ASSUME NEW j \in 1..Len(s) PROVE s[j] + Len(s) = r + j
    <3>1. s[j] = End[m] + j /\ j \in Nat
      BY <1>9
    <3>2. QED
      BY <1>1, <1>10, <3>1
  <2>2. \A i \in 1..Len(s) : i..Len(s) \subseteq 1..Len(s)
    BY <1>10
  <2>3. QED
    BY <2>1, <2>2 DEF Straight
<1>12. Orderly(s, End[m], r)
  BY <1>1, <1>7, <1>9, <1>10, <1>11 DEF Orderly
<1>13. QED
  BY <1>3, <1>5, <1>12 DEF s

\* An empty buffer is in order, as none of its bytes starts a frame.
LEMMA EmptyIsOrderly ==
  ASSUME NEW lo \in Nat, NEW r \in Nat
  PROVE  Orderly(<<>>, lo, r)
<1> DEFINE s == <<>>
<1>1. s \in Seq(Byte) /\ Len(s) = 0
  OBVIOUS
<1> HIDE DEF s
<1>2. 1..Len(s) = {}
  BY <1>1
<1>3. Orderly(s, lo, r)
  BY <1>1, <1>2 DEF Orderly, Straight
<1>4. QED
  BY <1>3 DEF s

\* What is kept of a frame that is not complete is in order, without its head:
\* it is of the inside of a frame.
LEMMA KeptOfFrame ==
  ASSUME NEW buf, NEW lo \in Nat, NEW r \in Nat, Orderly(buf, lo, r),
         NEW m \in Message, StartsWith(buf, m), HeadBytes <= Len(buf),
         LenOf(m) > Len(buf) - HeadBytes
  PROVE  Orderly(Keep(buf), lo, r)
<1> DEFINE a == End[m - 1]
           n == LenOf(m)
           to == IF n < Len(buf) THEN n ELSE Len(buf)
           s == SubSeq(buf, HeadBytes + 1, to)
<1>1. /\ buf \in Seq(Byte) /\ Len(buf) \in Nat /\ HeadBytes \in Nat \ {0} /\ a \in Nat
      /\ n \in Nat /\ End[m] \in Nat /\ a + HeadBytes + n = End[m] /\ Len(buf) <= r
  BY EndTypes, FrameAssumption DEF Orderly
<1>2. /\ \A i \in 1..Len(buf) : buf[i] = a + i
      /\ lo <= a
  BY HeadInFront
<1>3. Keep(buf) = s
  BY LengthOfFrame, <1>1 DEF Keep, Slice
<1>4. Len(buf) < HeadBytes + n
  BY <1>1
<1>5. to \in Nat /\ to <= Len(buf)
  BY <1>1
<1>6. /\ m - 1 \in 0..Messages /\ m \in 0..Messages
      /\ \A k \in Message : k - 1 \in 0..Messages
  BY EndTypes
<1>7. ASSUME NEW k \in Message, a < End[k - 1], End[k - 1] < End[m] PROVE FALSE
  <2>1. m - 1 < k - 1 /\ k - 1 < m
    BY <1>6, <1>7, EndsAscend DEF a
  <2>2. m \in Int /\ k \in Int
    BY <1>6, FrameAssumption DEF Message
  <2>3. QED
    BY <2>1, <2>2
<1> HIDE DEF a, n, to
<1>8. CASE to < HeadBytes + 1
  <2>1. s = <<>>
    BY <1>1, <1>5, <1>8, SubSeqEmpty
  <2>2. QED
    BY <1>3, <2>1, EmptyIsOrderly
<1>9. CASE HeadBytes + 1 <= to
  <2>1. \A i \in (HeadBytes + 1)..to : buf[i] \in Byte
    BY <1>1, <1>5
  <2>2. /\ s \in Seq(Byte)
        /\ Len(s) = to - (HeadBytes + 1) + 1
        /\ \A i \in 1..(to - (HeadBytes + 1) + 1) : s[i] = buf[(HeadBytes + 1) + i - 1]
    BY <1>1, <1>5, <1>9, <2>1, SubSeqProperties
  <2> HIDE DEF s
  <2>3. \A i \in 1..Len(s) : /\ HeadBytes + i \in 1..Len(buf)
                             /\ (HeadBytes + 1) + i - 1 = HeadBytes + i
    BY <1>1, <1>5, <2>2
  <2>4. ASSUME NEW i \in 1..Len(s) PROVE s[i] = a + HeadBytes + i
    <3>1. s[i] = buf[HeadBytes + i] /\ HeadBytes + i \in 1..Len(buf)
      BY <2>2, <2>3
    <3>2. s[i] = a + (HeadBytes + i) /\ i \in Nat
      BY <1>2, <3>1
    <3>3. QED
      BY <1>1, <3>2
  <2>5. \A i \in 1..Len(s) : a + HeadBytes + i < End[m]
    BY <1>1, <1>4, <1>5, <2>2
  <2>6. Straight(s, r)
    <3>1. ASSUME NEW k \in Message, NEW i \in 1..Len(s), s[i] = End[k - 1] + 1 PROVE FALSE
      <4>1. End[k - 1] \in Nat /\ i \in Nat /\ i >= 1
        BY EndTypes
      <4>2. a < End[k - 1] /\ End[k - 1] < End[m]
        BY <1>1, <2>4, <2>5, <3>1, <4>1
      <4>3. QED
        BY <1>7, <4>2
    <3>2. QED
      BY <3>1 DEF Straight
  <2>7. Len(s) <= r
    BY <1>1, <1>5, <2>2
  <2>8. \A i \in 1..Len(s) : s[i] > lo
    BY <1>1, <1>2, <2>4
  <2>9. QED
    BY <1>3, <2>2, <2>6, <2>7, <2>8 DEF Orderly
<1>10. QED
  BY <1>1, <1>5, <1>8, <1>9

\* What is kept of bytes that are not understood is in order as they were.
LEMMA KeptOfOther ==
  ASSUME NEW buf, NEW lo \in Nat, NEW r \in Nat, r <= End[Messages], Orderly(buf, lo, r),
         ~\E m \in Message : StartsWith(buf, m), HeadBytes <= Len(buf)
  PROVE  BodyLength(buf) > Len(buf) - HeadBytes /\ Orderly(Keep(buf), lo, r)
<1> DEFINE s == Slice(buf, HeadBytes, Len(buf))
<1>1. /\ buf \in Seq(Byte) /\ Len(buf) \in Nat /\ HeadBytes \in Nat \ {0} /\ Len(buf) <= r
      /\ End[Messages] \in Nat /\ Misread \in Nat /\ Misread > End[Messages]
  BY FrameAssumption DEF Orderly
<1>2. BodyLength(buf) = Misread
  BY DEF BodyLength
<1>3. Misread > Len(buf) /\ Misread > Len(buf) - HeadBytes
  BY <1>1
<1>4. Keep(buf) = s
  BY <1>1, <1>2, <1>3, SliceToEnd DEF Keep
<1>5. /\ s \in Seq(Byte) /\ Len(s) = Len(buf) - HeadBytes
      /\ \A i \in 1..(Len(buf) - HeadBytes) : s[i] = buf[HeadBytes + i]
  <2>1. Len(buf) <= Len(buf)
    BY <1>1
  <2>2. QED
    BY <1>1, <2>1, SliceIs
<1> HIDE DEF s
<1>6. \A i \in 1..Len(s) : HeadBytes + i \in 1..Len(buf)
  BY <1>1, <1>5
<1>7. Straight(s, r)
  <2>1. ASSUME NEW m \in Message, NEW i \in 1..Len(s), s[i] = End[m - 1] + 1,
               NEW j \in i..Len(s)
        PROVE  s[j] + Len(s) = r + j
    <3>1. buf[HeadBytes + i] = End[m - 1] + 1 /\ HeadBytes + i \in 1..Len(buf)
      BY <1>5, <1>6, <2>1
    <3>2. HeadBytes + j \in (HeadBytes + i)..Len(buf) /\ j \in 1..Len(s)
      BY <1>1, <1>5
    <3>3. buf[HeadBytes + j] + Len(buf) = r + (HeadBytes + j)
      BY <3>1, <3>2 DEF Orderly, Straight
    <3>4. s[j] = buf[HeadBytes + j] /\ s[j] \in Nat /\ j \in Nat
      BY <1>5, <3>2, BytesAreNumbers
    <3>5. Len(s) = Len(buf) - HeadBytes /\ Len(buf) \in Nat /\ HeadBytes \in Nat
      BY <1>1, <1>5
    <3>6. s[j] + Len(buf) = r + (HeadBytes + j)
      BY <3>3, <3>4
    <3>7. QED
      BY <3>4, <3>5, <3>6
  <2>2. QED
    BY <2>1 DEF Straight
<1>8. \A i \in 1..Len(s) : s[i] > lo
  BY <1>5, <1>6 DEF Orderly
<1>9. Len(s) <= r
  BY <1>1, <1>5
<1>10. QED
  BY <1>2, <1>3, <1>4, <1>5, <1>7, <1>8, <1>9 DEF Orderly
-----------------------------------------------------------------------------
(* What processCommingBuffer does with a buffer that is in order.          *)

\* One call, when the calls it makes are sound.
LEMMA CallIsSound ==
  ASSUME NEW r \in Nat, r <= End[Messages],
         NEW buf, NEW lo \in Nat, lo <= r, Orderly(buf, lo, r),
         \A b \in Seq(Byte), l \in Nat :
            Len(b) < Len(buf) /\ l <= r /\ Orderly(b, l, r) => Sound(Process[b], l, r)
  PROVE  Sound(Process[buf], lo, r)
<1>1. /\ buf \in Seq(Byte) /\ Len(buf) \in Nat /\ BodyLength(buf) \in Nat
      /\ HeadBytes \in Nat \ {0}
  BY LengthType, FrameAssumption DEF Orderly
<1>2. Process[buf] = Call(Process, buf)
  BY <1>1, ProcessIsItsCall
<1>3. lo <= lo /\ Told(<<>>, lo, lo)
  BY ToldNothing
<1>4. CASE Len(buf) < HeadBytes
  <2>1. Process[buf] = [packs |-> <<>>, left |-> Nothing]
    BY <1>2, <1>4 DEF Call
  <2>2. QED
    BY <1>3, <2>1 DEF Sound
<1>5. CASE HeadBytes <= Len(buf) /\ ~\E m \in Message : StartsWith(buf, m)
  <2>1. BodyLength(buf) > Len(buf) - HeadBytes /\ Orderly(Keep(buf), lo, r)
    BY <1>5, KeptOfOther
  <2>2. Process[buf] = [packs |-> <<>>, left |-> Keep(buf)]
    BY <1>1, <1>2, <1>5, <2>1, CallPartial
  <2>3. QED
    BY <1>3, <2>1, <2>2 DEF Sound
<1>6. ASSUME HeadBytes <= Len(buf), NEW m \in Message, StartsWith(buf, m)
      PROVE  Sound(Process[buf], lo, r)
  <2>1. BodyLength(buf) = LenOf(m) /\ End[m] \in Nat
    BY <1>1, <1>6, LengthOfFrame, EndTypes
  <2> DEFINE pack == Slice(buf, HeadBytes, BodyLength(buf) + HeadBytes)
             behind == Slice(buf, HeadBytes + BodyLength(buf), Len(buf))
  <2>2. CASE BodyLength(buf) > Len(buf) - HeadBytes
    <3>1. Process[buf] = [packs |-> <<>>, left |-> Keep(buf)]
      BY <1>1, <1>2, <1>6, <2>2, CallPartial
    <3>2. Orderly(Keep(buf), lo, r)
      BY <1>6, <2>1, <2>2, KeptOfFrame
    <3>3. QED
      BY <1>3, <3>1, <3>2 DEF Sound
  <2>3. ASSUME BodyLength(buf) <= Len(buf) - HeadBytes
        PROVE  pack = Body(m) /\ End[m] <= r /\ lo <= End[m] /\ Told(<<pack>>, lo, End[m])
    <3>1. pack = Body(m) /\ End[m] <= r /\ Told(<<Body(m)>>, lo, End[m])
      BY <1>6, <2>1, <2>3, FrameIsTold
    <3>2. lo <= End[m - 1]
      BY <1>6, HeadInFront
    <3>3. End[m - 1] \in Nat /\ End[m - 1] + HeadBytes < End[m]
      BY EndTypes
    <3>4. lo <= End[m]
      BY <1>1, <2>1, <3>2, <3>3
    <3>5. QED
      BY <3>1, <3>4
  <2>4. CASE BodyLength(buf) = Len(buf) - HeadBytes
    <3>1. Process[buf] = [packs |-> <<pack>>, left |-> Nothing]
      BY <1>1, <1>2, <1>6, <2>4, CallExact
    <3>2. End[m] <= r /\ lo <= End[m] /\ Told(<<pack>>, lo, End[m])
      BY <1>1, <2>3, <2>4
    <3> HIDE DEF pack
    <3>3. QED
      BY <2>1, <3>1, <3>2 DEF Sound
  <2>5. CASE BodyLength(buf) < Len(buf) - HeadBytes
    <3>1. Process[buf] = [packs |-> <<pack>> \o Process[behind].packs,
                          left |-> Process[behind].left]
      BY <1>1, <1>2, <1>6, <2>5, CallMore
    <3>2. End[m] <= r /\ lo <= End[m] /\ Told(<<pack>>, lo, End[m])
      BY <1>1, <2>3, <2>5
    <3>3. behind \in Seq(Byte) /\ Len(behind) < Len(buf)
      BY <1>1, <1>6, <2>5, BehindIsShorter
    <3>4. Orderly(behind, End[m], r)
      BY <1>6, <2>1, <2>5, BehindIsOrderly
    <3> HIDE DEF pack, behind
    <3>5. Sound(Process[behind], End[m], r)
      BY <2>1, <3>2, <3>3, <3>4
    <3>6. PICK hi \in Nat : /\ End[m] <= hi /\ hi <= r
                            /\ Told(Process[behind].packs, End[m], hi)
                            /\ \/ Process[behind].left = Nothing
                               \/ Orderly(Process[behind].left, hi, r)
      BY <3>5 DEF Sound
    <3>7. Told(<<pack>> \o Process[behind].packs, lo, hi)
      BY <2>1, <3>2, <3>6, ToldConcat
    <3>8. lo <= hi
      BY <2>1, <3>2, <3>6
    <3>9. QED
      BY <3>1, <3>6, <3>7, <3>8 DEF Sound
  <2>6. QED
    BY <1>1, <2>2, <2>4, <2>5
<1>7. QED
  BY <1>1, <1>4, <1>5, <1>6

\* The whole of the recursion: what it notifies are bodies in their order, and
\* what it leaves is in order again.
LEMMA ProcessIsSound ==
  ASSUME NEW r \in Nat, r <= End[Messages],
         NEW buf, NEW lo \in Nat, lo <= r, Orderly(buf, lo, r)
  PROVE  Sound(Process[buf], lo, r)
<1> DEFINE Good(b, l) == l <= r /\ Orderly(b, l, r) => Sound(Process[b], l, r)
           S == {n \in Nat : \A b \in Seq(Byte), l \in Nat : Len(b) <= n => Good(b, l)}
<1>1. ASSUME NEW b \in Seq(Byte), NEW l \in Nat,
             \A c \in Seq(Byte), k \in Nat : Len(c) < Len(b) => Good(c, k)
      PROVE  Good(b, l)
  BY <1>1, CallIsSound
<1> HIDE DEF Good
<1>2. 0 \in S
  <2>1. ASSUME NEW b \in Seq(Byte), NEW l \in Nat, Len(b) <= 0 PROVE Good(b, l)
    <3>1. \A c \in Seq(Byte) : ~(Len(c) < Len(b))
      BY <2>1
    <3>2. QED
      BY <1>1, <3>1
  <2>2. QED
    BY <2>1
<1>3. ASSUME NEW n \in Nat, n \in S PROVE n + 1 \in S
  <2>1. ASSUME NEW b \in Seq(Byte), NEW l \in Nat, Len(b) <= n + 1 PROVE Good(b, l)
    <3>1. ASSUME NEW c \in Seq(Byte), NEW k \in Nat, Len(c) < Len(b) PROVE Good(c, k)
      <4>1. Len(c) <= n
        BY <2>1, <3>1
      <4>2. QED
        BY <1>3, <4>1
    <3>2. QED
      BY <1>1, <3>1
  <2>2. QED
    BY <2>1
<1> HIDE DEF S
<1>4. \A n \in Nat : n \in S
  BY <1>2, <1>3, Induction
<1>5. buf \in Seq(Byte) /\ Len(buf) \in Nat /\ Len(buf) <= Len(buf)
  BY DEF Orderly
<1>6. Good(buf, lo)
  BY <1>4, <1>5 DEF S
<1>7. QED
  BY <1>6 DEF Good

\* The bytes of the stream after byte a and up to byte b.
Cut(a, b) == [i \in 1..(b - a) |-> a + i]

\* The bytes of a cut are the ones read after a up to b.
LEMMA CutType ==
  ASSUME NEW a \in Nat, NEW b \in Nat, a <= b, b <= End[Messages]
  PROVE  /\ Cut(a, b) \in Seq(Byte) /\ Len(Cut(a, b)) = b - a
         /\ \A i \in 1..(b - a) : Cut(a, b)[i] = a + i
<1>1. b - a \in Nat /\ End[Messages] \in Nat
  BY FrameAssumption
<1>2. \A i \in 1..(b - a) : a + i \in Byte
  BY <1>1 DEF Byte
<1> DEFINE n == b - a
<1>3. n \in Nat /\ \A i \in 1..n : a + i \in Byte
  BY <1>1, <1>2
<1>4. Cut(a, b) = [i \in 1..n |-> a + i]
  BY DEF Cut
<1> HIDE DEF n
<1>5. Cut(a, b) \in Seq(Byte) /\ Len(Cut(a, b)) = n /\ \A i \in 1..n : Cut(a, b)[i] = a + i
  BY <1>3, <1>4
<1>6. QED
  BY <1>5 DEF n

\* The chunk goes on where the last one ended, so that order is kept.
LEMMA ChunkIsOrderly ==
  ASSUME NEW a \in Nat, NEW b \in Nat, a < b, b <= End[Messages],
         NEW lo \in Nat, lo <= a
  PROVE  /\ Orderly(Cut(a, b), lo, b)
         /\ \A kept : Orderly(kept, lo, a) => Orderly(kept \o Cut(a, b), lo, b)
<1>1. /\ Cut(a, b) \in Seq(Byte) /\ Len(Cut(a, b)) = b - a
      /\ \A i \in 1..(b - a) : Cut(a, b)[i] = a + i
  <2>1. a <= b
    OBVIOUS
  <2>2. QED
    BY <2>1, CutType
<1> DEFINE c == Cut(a, b)
<1> HIDE DEF c
<1>2. c \in Seq(Byte) /\ Len(c) = b - a /\ \A i \in 1..(b - a) : c[i] = a + i
  BY <1>1 DEF c
<1>3. Orderly(c, lo, b)
  <2>1. ASSUME NEW i \in 1..Len(c) PROVE c[i] > lo /\ c[i] + Len(c) = b + i
    <3>1. c[i] = a + i /\ i \in Nat /\ i >= 1
      BY <1>2
    <3>2. QED
      BY <1>2, <3>1
  <2>2. \A i \in 1..Len(c) : i..Len(c) \subseteq 1..Len(c)
    BY <1>2
  <2>3. Len(c) <= b
    BY <1>2
  <2>4. QED
    BY <1>2, <2>1, <2>2, <2>3 DEF Orderly, Straight
<1>4. ASSUME NEW s, Orderly(s, lo, a) PROVE Orderly(s \o c, lo, b)
  <2> DEFINE t == s \o c
             n == Len(s)
  <2>1. s \in Seq(Byte) /\ n \in Nat /\ n <= a
    BY <1>4 DEF Orderly
  <2>2. /\ t \in Seq(Byte) /\ Len(t) = n + Len(c)
        /\ \A i \in 1..(n + Len(c)) : t[i] = IF i <= n THEN s[i] ELSE c[i - n]
    BY <1>2, <2>1, ConcatProperties
  <2> HIDE DEF t, n
  <2>3. Len(t) = n + (b - a) /\ Len(t) \in Nat /\ Len(t) <= b
    BY <1>2, <2>1, <2>2
  <2>4. ASSUME NEW i \in 1..Len(t), ~(i <= n) PROVE t[i] = a + (i - n) /\ i \in Nat
    <3>1. i - n \in 1..(b - a) /\ i \in Nat
      BY <2>1, <2>3, <2>4
    <3>2. t[i] = c[i - n]
      BY <1>2, <2>2, <2>3, <2>4
    <3>3. QED
      BY <1>2, <3>1, <3>2
  <2>5. ASSUME NEW i \in 1..Len(t), i <= n PROVE t[i] = s[i] /\ i \in 1..n /\ i \in Nat
    <3>1. i \in 1..n /\ i \in Nat
      BY <2>1, <2>3, <2>5
    <3>2. QED
      BY <1>2, <2>2, <2>3, <2>5, <3>1
  <2>6. ASSUME NEW i \in 1..Len(t) PROVE t[i] > lo
    <3>1. CASE i <= n
      BY <1>4, <2>5, <3>1 DEF Orderly, n
    <3>2. CASE ~(i <= n)
      <4>1. t[i] = a + (i - n) /\ i - n > 0 /\ i - n \in Int
        BY <2>1, <2>4, <3>2
      <4>2. QED
        BY <4>1
    <3>3. QED
      BY <3>1, <3>2
  <2>7. ASSUME NEW m \in Message, NEW i \in 1..Len(t), t[i] = End[m - 1] + 1,
               NEW j \in i..Len(t)
        PROVE  t[j] + Len(t) = b + j
    <3>1. j \in 1..Len(t) /\ j \in Nat /\ i \in Nat /\ i <= j
      BY <2>3
    <3>2. CASE ~(j <= n)
      <4>1. t[j] = a + (j - n)
        BY <2>4, <3>1, <3>2
      <4>2. QED
        BY <2>1, <2>3, <3>1, <4>1
    <3>3. CASE j <= n
      <4>1. i <= n
        BY <2>1, <3>1, <3>3
      <4>2. s[i] = End[m - 1] + 1 /\ i \in 1..n /\ j \in i..n /\ t[j] = s[j]
        BY <2>1, <2>5, <2>7, <3>1, <3>3, <4>1
      <4>3. s[j] + n = a + j
        BY <1>4, <4>2 DEF Orderly, Straight, n
      <4>4. s[j] \in Nat
        BY <2>1, <4>2, BytesAreNumbers DEF n
      <4>5. QED
        BY <2>1, <2>3, <3>1, <4>2, <4>3, <4>4
    <3>4. QED
      BY <3>2, <3>3
  <2>8. Straight(t, b)
    BY <2>7 DEF Straight
  <2>9. Orderly(t, lo, b)
    BY <2>2, <2>3, <2>6, <2>8 DEF Orderly
  <2>10. QED
    BY <2>9 DEF t
<1>5. QED
  BY <1>3, <1>4 DEF c

\* A buffer that starts where a frame starts, and holds it.
LEMMA CutStarts ==
  ASSUME NEW m \in Message, NEW b \in Nat, End[m] <= b, b <= End[Messages]
  PROVE  /\ StartsWith(Cut(End[m - 1], b), m)
         /\ Slice(Cut(End[m - 1], b), HeadBytes + LenOf(m), b - End[m - 1]) = Cut(End[m], b)
<1> DEFINE a == End[m - 1]
           n == LenOf(m)
           buf == Cut(a, b)
<1>1. /\ a \in Nat /\ n \in Nat /\ a + HeadBytes + n = End[m] /\ HeadBytes \in Nat
      /\ End[m] \in Nat
  BY EndTypes, FrameAssumption
<1> HIDE DEF a, n
<1>2. a <= b
  BY <1>1
<1>3. buf \in Seq(Byte) /\ Len(buf) = b - a /\ \A i \in 1..(b - a) : buf[i] = a + i
  BY <1>1, <1>2, CutType
<1> HIDE DEF buf
<1>4. StartsWith(buf, m)
  <2>1. ASSUME NEW i \in 1..HeadBytes PROVE buf[i] = HeadOf(m)[i]
    <3>1. i \in 1..(b - a)
      BY <1>1
    <3>2. HeadOf(m)[i] = a + i
      BY DEF HeadOf, a
    <3>3. QED
      BY <1>3, <3>1, <3>2
  <2>2. QED
    BY <2>1 DEF StartsWith
<1>5. Slice(buf, HeadBytes + n, b - a) = Cut(End[m], b)
  <2> DEFINE from == HeadBytes + n
             to == b - a
  <2>1. from \in Nat /\ to \in Nat /\ from <= to /\ to <= Len(buf) /\ a + from = End[m]
        /\ to - from = b - End[m] /\ to = b - a
    BY <1>1, <1>2, <1>3
  <2> HIDE DEF from, to
  <2>2. /\ Slice(buf, from, to) \in Seq(Byte) /\ Len(Slice(buf, from, to)) = to - from
        /\ \A i \in 1..(to - from) : Slice(buf, from, to)[i] = buf[from + i]
    BY <1>3, <2>1, SliceIs
  <2>3. /\ Cut(End[m], b) \in Seq(Byte) /\ Len(Cut(End[m], b)) = b - End[m]
        /\ \A i \in 1..(b - End[m]) : Cut(End[m], b)[i] = End[m] + i
    BY <1>1, CutType
  <2>4. ASSUME NEW i \in 1..(to - from) PROVE Slice(buf, from, to)[i] = Cut(End[m], b)[i]
    <3>1. from + i \in 1..(b - a) /\ i \in 1..(b - End[m])
      BY <1>1, <2>1
    <3>2. Slice(buf, from, to)[i] = a + (from + i)
      BY <1>3, <2>2, <3>1
    <3>3. Cut(End[m], b)[i] = End[m] + i
      BY <2>3, <3>1
    <3>4. i \in Nat
      BY <3>1
    <3>5. QED
      BY <1>1, <2>1, <3>2, <3>3, <3>4
  <2>5. Slice(buf, from, to) = Cut(End[m], b)
    BY <2>1, <2>2, <2>3, <2>4, SeqEqual
  <2>6. QED
    BY <2>5 DEF from, to
<1>6. QED
  BY <1>4, <1>5 DEF buf, a, n

\* The frames of the messages after j up to k, when they come in one chunk.
WholeFrames(j, k) ==
    /\ Len(Process[Cut(End[j], End[k])].packs) = k - j
    /\ Process[Cut(End[j], End[k])].left = Nothing

\* One call takes the first frame off, the calls it makes take the others.
LEMMA CallTakesFrame ==
  ASSUME NEW j \in 0..Messages, NEW k \in 0..Messages, j < k,
         j + 1 < k => WholeFrames(j + 1, k)
  PROVE  WholeFrames(j, k)
<1> DEFINE m == j + 1
           buf == Cut(End[j], End[k])
           pack == Slice(buf, HeadBytes, BodyLength(buf) + HeadBytes)
           behind == Slice(buf, HeadBytes + BodyLength(buf), Len(buf))
<1>1. /\ m \in Message /\ m - 1 = j /\ j \in Nat /\ k \in Nat /\ m \in 0..Messages
      /\ m = k \/ m < k
  BY FrameAssumption DEF Message
<1>2. /\ End[j] \in Nat /\ End[m] \in Nat /\ End[k] \in Nat /\ LenOf(m) \in Nat
      /\ End[j] + HeadBytes + LenOf(m) = End[m] /\ HeadBytes \in Nat \ {0}
      /\ End[k] <= End[Messages]
  BY <1>1, EndTypes, FrameAssumption
<1>3. m < k <=> End[m] < End[k]
  BY <1>1, EndsAscend
<1>4. End[m] <= End[k] /\ End[j] <= End[k]
  BY <1>1, <1>2, <1>3
<1>5. buf \in Seq(Byte) /\ Len(buf) = End[k] - End[j]
  BY <1>2, <1>4, CutType
<1>6. /\ StartsWith(buf, m)
      /\ Slice(buf, HeadBytes + LenOf(m), End[k] - End[j]) = Cut(End[m], End[k])
  BY <1>1, <1>2, <1>4, CutStarts
<1>7. BodyLength(buf) = LenOf(m)
  BY <1>1, <1>2, <1>4, <1>5, <1>6, LengthOfFrame
<1>8. HeadBytes <= Len(buf)
  BY <1>2, <1>4, <1>5
<1>9. Process[buf] = Call(Process, buf)
  BY <1>5, ProcessIsItsCall
<1>10. CASE m = k
  <2>1. BodyLength(buf) = Len(buf) - HeadBytes
    BY <1>2, <1>5, <1>7, <1>10
  <2>2. Process[buf] = [packs |-> <<pack>>, left |-> Nothing]
    BY <1>5, <1>8, <1>9, <2>1, CallExact
  <2>3. Len(Process[buf].packs) = 1 /\ Process[buf].left = Nothing
    <3> HIDE DEF pack, buf
    <3>1. QED
      BY <2>2
  <2>4. k - j = 1
    BY <1>1, <1>10
  <2>5. QED
    BY <2>3, <2>4 DEF WholeFrames
<1>11. CASE m < k
  <2>1. BodyLength(buf) < Len(buf) - HeadBytes
    BY <1>2, <1>3, <1>5, <1>7, <1>11
  <2>2. Process[buf] = [packs |-> <<pack>> \o Process[behind].packs,
                        left |-> Process[behind].left]
    BY <1>5, <1>8, <1>9, <2>1, CallMore
  <2>3. behind = Cut(End[m], End[k])
    BY <1>5, <1>6, <1>7
  <2>4. Len(Process[behind].packs) = k - m /\ Process[behind].left = Nothing
    BY <1>11, <2>3 DEF WholeFrames
  <2>5. Process[behind].packs \in Seq(Seq(Byte))
    <3>1. Orderly(behind, 0, End[k])
      <4>1. End[m] < End[k] /\ 0 <= End[m]
        BY <1>2, <1>3, <1>11
      <4>2. Orderly(Cut(End[m], End[k]), 0, End[k])
        BY <1>2, <4>1, ChunkIsOrderly
      <4>3. QED
        BY <2>3, <4>2
    <3>2. Sound(Process[behind], 0, End[k])
      BY <1>2, <3>1, ProcessIsSound
    <3>3. QED
      BY <3>2 DEF Sound, Told
  <2>6. Len(<<pack>>) = 1 /\ pack \in Seq(Byte)
    BY <1>2, <1>5, <1>7, SliceType
  <2> HIDE DEF pack, behind, buf
  <2>7. Len(<<pack>> \o Process[behind].packs) = 1 + (k - m)
    BY <2>4, <2>5, <2>6
  <2>8. 1 + (k - m) = k - j
    BY <1>1
  <2>9. Len(Process[buf].packs) = k - j /\ Process[buf].left = Nothing
    BY <2>2, <2>4, <2>7, <2>8
  <2>10. QED
    BY <2>9 DEF WholeFrames, buf
<1>12. QED
  BY <1>1, <1>10, <1>11

\* Of whole frames every body is told, and nothing is kept.
LEMMA WholeFramesAreTaken ==
  ASSUME NEW j \in 0..Messages, NEW k \in 0..Messages, j < k
  PROVE  WholeFrames(j, k)
<1> DEFINE S == {d \in Nat : \A i, l \in 0..Messages : l = i + d + 1 => WholeFrames(i, l)}
<1>1. 0 \in S
  <2>1. ASSUME NEW i \in 0..Messages, NEW l \in 0..Messages, l = i + 0 + 1 PROVE WholeFrames(i, l)
    <3>1. i < l /\ ~(i + 1 < l)
      BY <2>1
    <3>2. QED
      BY <3>1, CallTakesFrame
  <2>2. QED
    BY <2>1
<1>2. ASSUME NEW d \in Nat, d \in S PROVE d + 1 \in S
  <2>1. ASSUME NEW i \in 0..Messages, NEW l \in 0..Messages, l = i + (d + 1) + 1
        PROVE  WholeFrames(i, l)
    <3>1. i < l /\ i + 1 \in 0..Messages /\ l = (i + 1) + d + 1
      BY <2>1, FrameAssumption
    <3>2. WholeFrames(i + 1, l)
      BY <1>2, <3>1
    <3>3. QED
      BY <3>1, <3>2, CallTakesFrame
  <2>2. QED
    BY <2>1
<1> HIDE DEF S
<1>3. \A d \in Nat : d \in S
  BY <1>1, <1>2, Induction
<1>4. k - j - 1 \in Nat /\ k = j + (k - j - 1) + 1
  OBVIOUS
<1>5. QED
  BY <1>3, <1>4 DEF S

-----------------------------------------------------------------------------
(* The receiver, over all chunks.                                          *)

\* After any chunks the receiver is as after one call with all that was read.
SoundSoFar == Sound([packs |-> notified, left |-> lastTempBuffer], 0, read)

\* As long as the chunks are of whole frames, the receiver is between frames.
BetweenFrames ==
    aligned => /\ lastTempBuffer = Nothing
               /\ \E k \in 0..sent : read = End[k] /\ Len(notified) = k

\* The inductive invariant.
FrameInv ==
    /\ FrameTypeOK
    /\ read <= End[sent]
    /\ SoundSoFar
    /\ BetweenFrames

\* Before anything is sent all of it holds.
LEMMA FrameInvInit == FrameInit => FrameInv
<1> SUFFICES ASSUME FrameInit PROVE FrameInv
  OBVIOUS
<1>1. End[0] = 0 /\ 0 \in 0..Messages /\ End[Messages] \in Nat /\ 0 <= 0
  BY FrameAssumption
<1>2. FrameTypeOK
  BY <1>1 DEF FrameInit, FrameTypeOK
<1>3. SoundSoFar
  BY ToldNothing, <1>1 DEF FrameInit, SoundSoFar, Sound
<1>4. BetweenFrames
  BY <1>1 DEF FrameInit, BetweenFrames
<1>5. QED
  BY <1>1, <1>2, <1>3, <1>4 DEF FrameInv, FrameInit

\* A chunk is a cut of the stream.
LEMMA ChunkIsCut ==
  ASSUME NEW n \in 0..Messages, NEW a \in Nat, NEW b \in Nat, a < b, b <= End[n]
  PROVE  SubSeq(Stream(n), a + 1, b) = Cut(a, b)
<1>1. End[n] \in Nat /\ End[n] <= End[Messages] /\ End[Messages] \in Nat
  BY EndTypes, FrameAssumption
<1>2. \A i \in (a + 1)..b : i \in 1..End[n] /\ Stream(n)[i] = i /\ Stream(n)[i] \in Byte
  BY <1>1 DEF Stream, Byte
<1> DEFINE s == SubSeq(Stream(n), a + 1, b)
<1>3. /\ s \in Seq(Byte) /\ Len(s) = b - (a + 1) + 1
      /\ \A i \in 1..(b - (a + 1) + 1) : s[i] = Stream(n)[(a + 1) + i - 1]
  <2>1. a + 1 <= b /\ a + 1 \in Int /\ \A i \in (a + 1)..b : Stream(n)[i] \in Byte
    BY <1>2
  <2>2. QED
    BY <2>1, SubSeqProperties
<1> HIDE DEF s
<1>4. /\ Cut(a, b) \in Seq(Byte) /\ Len(Cut(a, b)) = b - a
      /\ \A i \in 1..(b - a) : Cut(a, b)[i] = a + i
  <2>1. a <= b /\ b <= End[Messages]
    BY <1>1
  <2>2. QED
    BY <2>1, CutType
<1>5. Len(s) = b - a
  BY <1>3
<1>6. ASSUME NEW i \in 1..(b - a) PROVE s[i] = Cut(a, b)[i]
  <2>1. i \in 1..(b - (a + 1) + 1) /\ (a + 1) + i - 1 = a + i /\ a + i \in (a + 1)..b
    OBVIOUS
  <2>2. s[i] = a + i
    BY <1>2, <1>3, <2>1
  <2>3. QED
    BY <1>4, <2>2
<1>7. s = Cut(a, b)
  BY <1>3, <1>4, <1>5, <1>6, SeqEqual
<1>8. QED
  BY <1>7 DEF s

\* Data keeps the receiver sound, and between frames.
LEMMA DataKeepsOrder == FrameInv /\ Data => FrameInv'
<1> SUFFICES ASSUME FrameInv, Data PROVE FrameInv'
  OBVIOUS
<1>1. /\ sent \in 0..Messages /\ read \in Nat /\ read <= End[sent]
      /\ notified \in Seq(Seq(Byte)) /\ aligned \in BOOLEAN
      /\ End[sent] \in Nat /\ End[sent] <= End[Messages] /\ End[Messages] \in Nat
  BY EndTypes, FrameAssumption DEF FrameInv, FrameTypeOK
<1> DEFINE buf(u) == IF lastTempBuffer = Nothing THEN Cut(read, u)
                     ELSE lastTempBuffer \o Cut(read, u)
<1>2. PICK u \in (read + 1)..End[sent] :
        /\ read' = u
        /\ notified' = notified \o Process[buf(u)].packs
        /\ lastTempBuffer' = Process[buf(u)].left
        /\ aligned' = (aligned /\ u \in Boundary)
        /\ sent' = sent
  <2>1. \A u \in (read + 1)..End[sent] : SubSeq(Stream(sent), read + 1, u) = Cut(read, u)
    BY <1>1, ChunkIsCut
  <2>2. QED
    BY <2>1 DEF Data
<1>3. u \in Nat /\ read < u /\ u <= End[sent] /\ u <= End[Messages]
  BY <1>1
<1>4. PICK mid \in Nat : /\ mid <= read
                         /\ Told(notified, 0, mid)
                         /\ lastTempBuffer = Nothing \/ Orderly(lastTempBuffer, mid, read)
  BY DEF FrameInv, SoundSoFar, Sound
<1>5. Orderly(buf(u), mid, u)
  BY <1>1, <1>3, <1>4, ChunkIsOrderly
<1> DEFINE result == Process[buf(u)]
<1>6. mid <= u
  BY <1>1, <1>3, <1>4
<1>7. Sound(result, mid, u)
  <2> HIDE DEF buf
  <2>1. QED
    BY <1>3, <1>5, <1>6, ProcessIsSound
<1>8. notified' = notified \o result.packs /\ lastTempBuffer' = result.left
  BY <1>2
<1>9. aligned => lastTempBuffer = Nothing /\ \E k \in 0..sent : read = End[k] /\ Len(notified) = k
  BY DEF FrameInv, BetweenFrames
<1>10. aligned => result = Process[Cut(read, u)]
  BY <1>9
<1> HIDE DEF buf, result
<1>11. PICK hi \in Nat : /\ mid <= hi /\ hi <= u
                         /\ Told(result.packs, mid, hi)
                         /\ result.left = Nothing \/ Orderly(result.left, hi, u)
  BY <1>7 DEF Sound
<1>12. SoundSoFar'
  <2>1. Told(notified \o result.packs, 0, hi)
    <3>1. 0 \in Nat /\ 0 <= mid
      OBVIOUS
    <3>2. QED
      BY <1>4, <1>11, <3>1, ToldConcat
  <2>2. 0 <= hi
    OBVIOUS
  <2>3. Sound([packs |-> notified \o result.packs, left |-> result.left], 0, u)
    BY <1>11, <2>1, <2>2 DEF Sound
  <2>4. QED
    BY <1>2, <1>8, <2>3 DEF SoundSoFar
<1>13. result.packs \in Seq(Seq(Byte))
  BY <1>11 DEF Told
<1>14. FrameTypeOK'
  <2>1. notified' \in Seq(Seq(Byte))
    BY <1>1, <1>8, <1>13
  <2>2. lastTempBuffer' = Nothing \/ lastTempBuffer' \in Seq(Byte)
    BY <1>8, <1>11 DEF Orderly
  <2>3. aligned' \in BOOLEAN
    BY <1>2
  <2>4. read' \in 0..End[Messages] /\ sent' \in 0..Messages
    BY <1>1, <1>2, <1>3
  <2>5. QED
    BY <2>1, <2>2, <2>3, <2>4 DEF FrameTypeOK
<1>15. BetweenFrames'
  <2> SUFFICES ASSUME aligned'
               PROVE  /\ result.left = Nothing
                      /\ \E k \in 0..sent : u = End[k] /\ Len(notified \o result.packs) = k
    BY <1>2, <1>8 DEF BetweenFrames
  <2>1. aligned /\ u \in Boundary
    BY <1>2
  <2>2. PICK j \in 0..sent : read = End[j] /\ Len(notified) = j
    BY <1>9, <2>1
  <2>3. PICK k \in 0..Messages : u = End[k]
    BY <2>1 DEF Boundary
  <2>4. j \in 0..Messages /\ j \in Nat /\ k \in Nat /\ sent \in Nat
    BY <1>1, FrameAssumption
  <2>5. j < k
    BY <1>3, <2>2, <2>3, <2>4, EndsAscend
  <2>6. ~(sent < k)
    <3>1. sent < k => End[sent] < End[k]
      BY <1>1, <2>3, EndsAscend
    <3>2. QED
      BY <1>1, <1>3, <2>3, <3>1
  <2>7. WholeFrames(j, k)
    BY <2>4, <2>5, WholeFramesAreTaken
  <2>8. Len(result.packs) = k - j /\ result.left = Nothing
    BY <1>10, <2>1, <2>2, <2>3, <2>7 DEF WholeFrames
  <2>9. Len(notified \o result.packs) = j + (k - j)
    <3>1. Len(notified \o result.packs) = Len(notified) + Len(result.packs)
      BY <1>1, <1>13, ConcatProperties
    <3>2. QED
      BY <2>2, <2>8, <3>1
  <2>10. k \in 0..sent /\ j + (k - j) = k
    BY <2>4, <2>6
  <2>11. QED
    BY <2>3, <2>8, <2>9, <2>10
<1>16. read' <= End[sent]'
  BY <1>2, <1>3
<1>17. QED
  BY <1>12, <1>14, <1>15, <1>16 DEF FrameInv

\* Every step keeps the inductive invariant.
LEMMA FrameInvStep == FrameInv /\ [FrameNext]_frameVars => FrameInv'
<1> SUFFICES ASSUME FrameInv, [FrameNext]_frameVars PROVE FrameInv'
  OBVIOUS
<1>1. CASE Send
  <2>1. /\ sent \in 0..Messages /\ sent < Messages /\ sent' = sent + 1
        /\ UNCHANGED <<read, lastTempBuffer, notified, aligned>>
    BY <1>1 DEF Send, FrameInv, FrameTypeOK
  <2>2. sent + 1 \in 0..Messages /\ sent < sent + 1
    BY <2>1, FrameAssumption
  <2>3. End[sent] < End[sent + 1] /\ End[sent] \in Nat /\ End[sent + 1] \in Nat
    BY <2>1, <2>2, EndsAscend, FrameAssumption
  <2>4. FrameTypeOK'
    BY <2>1, <2>2 DEF FrameInv, FrameTypeOK
  <2>5. read' <= End[sent]'
    <3>1. read \in Nat /\ read <= End[sent]
      BY FrameAssumption DEF FrameInv, FrameTypeOK
    <3>2. QED
      BY <2>1, <2>3, <3>1
  <2>6. SoundSoFar'
    BY <2>1 DEF FrameInv, SoundSoFar
  <2>7. BetweenFrames'
    <3>1. 0..sent \subseteq 0..sent'
      BY <2>1
    <3>2. QED
      BY <2>1, <3>1 DEF FrameInv, BetweenFrames
  <2>8. QED
    BY <2>4, <2>5, <2>6, <2>7 DEF FrameInv
<1>2. CASE Data
  BY <1>2, DataKeepsOrder
<1>3. CASE UNCHANGED frameVars
  BY <1>3 DEF frameVars, FrameInv, FrameTypeOK, SoundSoFar, BetweenFrames
<1>4. QED
  BY <1>1, <1>2, <1>3 DEF FrameNext

\* The inductive invariant holds in every reachable state.
THEOREM FrameInvariance == FrameSpec => []FrameInv
BY FrameInvInit, FrameInvStep, PTL DEF FrameSpec

\* In every reachable state the variables have their types; of the receiver: it
\* keeps bytes that were sent, and notifies sequences of them.
THEOREM FrameTyping == FrameSpec => []FrameTypeOK
<1>1. FrameInv => FrameTypeOK
  BY DEF FrameInv
<1>2. QED
  BY FrameInvariance, <1>1, PTL

\* However the chunks fall, only bodies of messages that have come completely
\* are notified, in their order (processCommingBuffer).
THEOREM NothingIsInvented == FrameSpec => []NothingInvented
<1>1. FrameInv => NothingInvented
  <2> SUFFICES ASSUME FrameInv PROVE NothingInvented
    OBVIOUS
  <2>1. /\ sent \in 0..Messages /\ read \in Nat /\ read <= End[sent] /\ End[sent] \in Nat
        /\ sent \in Nat
    BY FrameAssumption DEF FrameInv, FrameTypeOK
  <2>2. PICK hi \in Nat : hi <= read /\ Told(notified, 0, hi)
    BY DEF FrameInv, SoundSoFar, Sound
  <2>3. PICK who \in [1..Len(notified) -> Message] :
          /\ \A i \in 1..Len(notified) : notified[i] = Body(who[i]) /\ End[who[i]] <= hi
          /\ \A i, j \in 1..Len(notified) : i < j => who[i] < who[j]
    BY <2>2 DEF Told
  <2>4. ASSUME NEW i \in 1..Len(notified) PROVE who[i] \in Complete
    <3>1. who[i] \in Message /\ End[who[i]] <= hi
      BY <2>3
    <3>2. who[i] \in 0..Messages /\ End[who[i]] \in Nat /\ who[i] \in Nat /\ who[i] >= 1
      BY <3>1, EndTypes, FrameAssumption DEF Message
    <3>3. End[who[i]] <= read /\ ~(End[sent] < End[who[i]])
      BY <2>1, <2>2, <3>1, <3>2
    <3>4. ~(sent < who[i])
      BY <2>1, <3>2, <3>3, EndsAscend
    <3>5. who[i] \in 1..sent
      BY <2>1, <3>2, <3>4
    <3>6. QED
      BY <3>3, <3>5 DEF Complete
  <2>5. who \in [1..Len(notified) -> Complete]
    BY <2>4
  <2>6. QED
    BY <2>3, <2>5 DEF NothingInvented
<1>2. QED
  BY FrameInvariance, <1>1, PTL

\* As long as chunks end where frames end, nothing is lost and nothing kept.
THEOREM WholeFramesDoArrive == FrameSpec => []WholeFramesArrive
<1>1. FrameInv => WholeFramesArrive
  <2> SUFFICES ASSUME FrameInv, aligned
               PROVE  Len(notified) = Cardinality(Complete) /\ lastTempBuffer = Nothing
    BY DEF WholeFramesArrive
  <2>1. sent \in 0..Messages /\ sent \in Nat /\ Messages \in Nat
    BY FrameAssumption DEF FrameInv, FrameTypeOK
  <2>2. lastTempBuffer = Nothing
    BY DEF FrameInv, BetweenFrames
  <2>3. PICK k \in 0..sent : read = End[k] /\ Len(notified) = k
    BY DEF FrameInv, BetweenFrames
  <2>4. k \in 0..Messages /\ k \in Nat /\ k <= sent
    BY <2>1
  <2>5. ASSUME NEW m \in 1..sent PROVE m \in Complete <=> m \in 1..k
    <3>1. m \in 0..Messages /\ m \in Nat /\ m >= 1
      BY <2>1
    <3>2. End[m] \in Nat /\ End[k] \in Nat
      BY <2>4, <3>1, FrameAssumption
    <3>3. (m < k <=> End[m] < End[k]) /\ (m = k <=> End[m] = End[k])
      BY <2>4, <3>1, EndsAscend
    <3>4. End[m] <= End[k] <=> m <= k
      BY <2>4, <3>1, <3>2, <3>3
    <3>5. QED
      BY <2>3, <2>4, <3>1, <3>4 DEF Complete
  <2>6. Complete = 1..k
    <3>1. 1..k \subseteq 1..sent
      BY <2>1, <2>4
    <3>2. Complete \subseteq 1..sent
      BY DEF Complete
    <3>3. QED
      BY <2>5, <3>1, <3>2
  <2>7. Cardinality(1..k) = k
    <3>1. Cardinality(1..k) = IF 1 > k THEN 0 ELSE k - 1 + 1
      BY <2>4, FS_Interval
    <3>2. QED
      BY <2>4, <3>1
  <2>8. QED
    BY <2>2, <2>3, <2>6, <2>7
<1>2. QED
  BY FrameInvariance, <1>1, PTL
=============================================================================
