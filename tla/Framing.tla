------------------------------ MODULE Framing ------------------------------
(***************************************************************************)
(* The framing of the bridge protocol: packData puts a head of four bytes  *)
(* with the length of the body before it, and processCommingBuffer, the    *)
(* same code in TcpClient.js and TcpServer.js, takes the frames out of the *)
(* chunks TCP hands over, which need not be frames.                        *)
(*                                                                         *)
(* A byte is its place in the stream of all that is sent on a connection.  *)
(* Four bytes that are not a head are read as a length all the same.  Of   *)
(* text that is 2^29 at least; of the last bytes of a head with text after *)
(* them, at least 256 times the length of the body (of one below 30 000    *)
(* bytes; the code's are commands with a key of at most 250).              *)
(***************************************************************************)
EXTENDS Naturals, Sequences, FiniteSets

CONSTANTS
    Messages,       \* how many messages are sent; they are 1..Messages
    End,            \* End[m]: where the frame of m ends in the stream
    HeadBytes,      \* headBytesCount
    Misread,        \* the length read from bytes that are not a head
    Nothing         \* lastTempBuffer = null

\* Bodies are not empty, and no misread length is as short as what is sent.
ASSUME FrameAssumption ==
    /\ Messages \in Nat
    /\ HeadBytes \in Nat \ {0}
    /\ End \in [0..Messages -> Nat] /\ End[0] = 0
    /\ \A m, n \in 0..Messages : m < n => End[m] + HeadBytes < End[n]
    /\ Misread \in Nat /\ Misread > End[Messages]

Message == 1..Messages
Byte == 1..End[Messages]

VARIABLES
    sent,           \* how many messages have been written
    read,           \* how many bytes have been handed to the receiver
    lastTempBuffer, \* what the receiver has kept of an incomplete frame
    notified,       \* the packs given to notify, in order
    aligned         \* history: every chunk so far ended where a frame ends

frameVars == <<sent, read, lastTempBuffer, notified, aligned>>

-----------------------------------------------------------------------------
(* The frames.                                                             *)

LenOf(m) == End[m] - End[m - 1] - HeadBytes

HeadOf(m) == [i \in 1..HeadBytes |-> End[m - 1] + i]
Body(m) == [i \in 1..LenOf(m) |-> End[m - 1] + HeadBytes + i]
Pack(m) == HeadOf(m) \o Body(m)

\* All that the sender has written after n messages, one Pack after the other.
Stream(n) == [i \in 1..End[n] |-> i]
Boundary == {End[n] : n \in 0..Messages}

\* A slice that takes the byte at its end along.
SliceInclusive(buf, from, to) ==
    SubSeq(buf, from + 1, IF to < Len(buf) THEN to + 1 ELSE Len(buf))

\* Buffer.slice(from, to), which copes with ends that are not there.
Slice(buf, from, to) == SubSeq(buf, from + 1, IF to < Len(buf) THEN to ELSE Len(buf))

\* The first bytes of a buffer, at least as many as a head has, are this head.
StartsWith(buf, m) == \A i \in 1..HeadBytes : buf[i] = HeadOf(m)[i]

\* A length that counts the head too.
FrameLength(buf) ==
    IF \E m \in Message : StartsWith(buf, m)
      THEN HeadBytes + LenOf(CHOOSE m \in Message : StartsWith(buf, m))
      ELSE Misread

\* readUInt32BE of the first bytes of a buffer that has that many.
BodyLength(buf) ==
    IF \E m \in Message : StartsWith(buf, m)
      THEN LenOf(CHOOSE m \in Message : StartsWith(buf, m))
      ELSE Misread

-----------------------------------------------------------------------------
(* The receiver.  The result of processCommingBuffer is the packs it gave  *)
(* to notify and the lastTempBuffer it leaves.  A buffer that is too short *)
(* for a head makes readUInt32BE throw: the process logs the exception and *)
(* goes on without these bytes.                                            *)

Keep(buf) == Slice(buf, HeadBytes, BodyLength(buf))

\* One call, when rest[b] is the result of the call it makes for b.
Call(rest, buf) ==
    IF Len(buf) < HeadBytes
      THEN [packs |-> <<>>, left |-> Nothing]
      ELSE LET n == BodyLength(buf)
               have == Len(buf) - HeadBytes
               pack == Slice(buf, HeadBytes, n + HeadBytes)
               behind == Slice(buf, HeadBytes + n, Len(buf))
           IN CASE n < have -> [packs |-> <<pack>> \o rest[behind].packs,
                                left |-> rest[behind].left]
                [] n = have -> [packs |-> <<pack>>, left |-> Nothing]
                [] n > have -> [packs |-> <<>>, left |-> Keep(buf)]

Process[buf \in Seq(Byte)] == Call(Process, buf)

FrameTypeOK ==
    /\ sent \in 0..Messages
    /\ read \in 0..End[Messages]
    /\ lastTempBuffer = Nothing \/ lastTempBuffer \in Seq(Byte)
    /\ notified \in Seq(Seq(Byte))
    /\ aligned \in BOOLEAN

FrameInit ==
    /\ sent = 0
    /\ read = 0
    /\ lastTempBuffer = Nothing
    /\ notified = <<>>
    /\ aligned = TRUE

\* send: the next message is packed and written.
Send ==
    /\ sent < Messages
    /\ sent' = sent + 1
    /\ UNCHANGED <<read, lastTempBuffer, notified, aligned>>

\* A receiver that counts what it had kept with the chunk.
DataCountsTwice ==
    \E upTo \in (read + 1)..End[sent] :
        LET chunk == SubSeq(Stream(sent), read + 1, upTo)
            buf == IF lastTempBuffer = Nothing THEN chunk ELSE lastTempBuffer \o chunk
            result == Process[buf]
        IN /\ read' = read + Len(buf)
           /\ notified' = notified \o result.packs
           /\ lastTempBuffer' = result.left
           /\ aligned' = (aligned /\ upTo \in Boundary)
           /\ UNCHANGED sent

\* 'data': some of what is under way arrives, as TCP sees fit.
Data ==
    \E upTo \in (read + 1)..End[sent] :
        LET chunk == SubSeq(Stream(sent), read + 1, upTo)
            buf == IF lastTempBuffer = Nothing THEN chunk ELSE lastTempBuffer \o chunk
            result == Process[buf]
        IN /\ read' = upTo
           /\ notified' = notified \o result.packs
           /\ lastTempBuffer' = result.left
           /\ aligned' = (aligned /\ upTo \in Boundary)
           /\ UNCHANGED sent

FrameNext == Send \/ Data

FrameSpec == FrameInit /\ [][FrameNext]_frameVars

-----------------------------------------------------------------------------
(* Properties                                                              *)

\* The messages whose frames have been handed over completely.
Complete == {m \in 1..sent : End[m] <= read}

\* However the chunks fall, what reaches notify is the body of a message that
\* was handed over completely, and none comes twice or before an earlier one: a
\* frame that is cut can lose messages but never mix or invent them.
NothingInvented ==
    \E who \in [1..Len(notified) -> Complete] :
        /\ \A i \in 1..Len(notified) : notified[i] = Body(who[i])
        /\ \A i, j \in 1..Len(notified) : i < j => who[i] < who[j]

\* As long as every chunk ends where a frame ends, one frame to a chunk or
\* several, every message is notified and nothing is kept back.
WholeFramesArrive ==
    aligned => /\ Len(notified) = Cardinality(Complete)
               /\ lastTempBuffer = Nothing

\* The comment on notify, that it tells of complete data having come: what has
\* come completely has been notified.
CompleteIsNotified == \A m \in Complete : \E i \in 1..Len(notified) : notified[i] = Body(m)
=============================================================================
