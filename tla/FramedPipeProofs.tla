--------------------------- MODULE FramedPipeProofs ---------------------------
(***************************************************************************)
(* Proofs about FramedPipe for every datagram limit, every byte range and  *)
(* whatever the other end sends: the receiver's buffer, and that the       *)
(* framing never loses its place between the two halves of the tunnel.     *)
(***************************************************************************)
EXTENDS FramedPipe, SequenceTheorems, TLAPS

\* Between two reads the buffer holds less than one frame.
LessThanAFrame ==
    phase = "wait" => ~HasFrame /\ (HasHeader => ValidLength)

InsideTheArray == receiver = "client" => Len(inbound) <= Capacity

IInv == TypeOK /\ LessThanAFrame /\ InsideTheArray

\* The receiver starts with an empty buffer.
LEMMA InitIInv == Init => IInv
BY PipeAssumption DEF Init, IInv, TypeOK, LessThanAFrame, InsideTheArray, HasFrame,
    HasHeader, Header, Capacity

\* A length read from the buffer is a number.
LEMMA LengthType ==
    ASSUME TypeOK, HasHeader
    PROVE  FrameLength \in Nat
<1>1. inbound[1] \in Nat /\ inbound[2] \in Nat
  <2>1. inbound \in Seq(Byte) /\ Len(inbound) >= 2
    BY DEF TypeOK, HasHeader, Header
  <2>2. inbound[1] \in Byte /\ inbound[2] \in Byte
    BY <2>1
  <2>. QED BY <2>2, PipeAssumption DEF Byte
<1>2. \A x, y, z \in Nat : x * y + z \in Nat
    OBVIOUS
<1>. QED BY <1>1, <1>2, PipeAssumption DEF FrameLength

\* The parts of a sequence of bytes are sequences of bytes.
LEMMA SubBytes ==
    ASSUME NEW s \in Seq(Byte), NEW m \in Nat, NEW n \in 0 .. Len(s), m >= 1
    PROVE  /\ SubSeq(s, m, n) \in Seq(Byte)
           /\ Len(SubSeq(s, m, n)) = IF m <= n THEN n - m + 1 ELSE 0
OBVIOUS

\* A frame is a sequence of bytes: the length fits in two of them.
LEMMA FrameType ==
    ASSUME NEW d \in Datagram
    PROVE  /\ d \in Seq(Byte)
           /\ Len(d) \in 1 .. MaxDatagram
           /\ Frame(d) \in Seq(Byte)
           /\ Len(Frame(d)) = Header + Len(d)
<1>1. PICK n \in 1 .. MaxDatagram : d \in [1 .. n -> Byte]
    BY DEF Datagram
<1>2. d \in Seq(Byte) /\ Len(d) = n
    BY <1>1, PipeAssumption
<1>3. Len(d) \div Base \in Nat
    BY <1>2, PipeAssumption
<1>4. (Len(d) \div Base) % Base \in Byte /\ Len(d) % Base \in Byte
    BY <1>2, <1>3, PipeAssumption DEF Byte
<1>5. <<(Len(d) \div Base) % Base, Len(d) % Base>> \in Seq(Byte)
    BY <1>4
<1>. QED BY <1>1, <1>2, <1>5 DEF Frame, Header

\* Reading stays inside the array, by the size handed to recv.
LEMMA ReceiveStep == ASSUME IInv, Receive PROVE IInv'
<1>1. PICK n \in 1 .. Room :
        /\ n <= Len(tcp)
        /\ inbound' = inbound \o SubSeq(tcp, 1, n)
        /\ tcp' = SubSeq(tcp, n + 1, Len(tcp))
    BY DEF Receive
<1>2. n \in Nat /\ tcp \in Seq(Byte) /\ inbound \in Seq(Byte)
    BY PipeAssumption DEF IInv, TypeOK, Room, Capacity, Header
<1>3. SubSeq(tcp, 1, n) \in Seq(Byte) /\ Len(SubSeq(tcp, 1, n)) = n
    BY <1>1, <1>2, SubBytes
<1>4. tcp' \in Seq(Byte)
    BY <1>1, <1>2, SubBytes
<1>5. inbound' \in Seq(Byte) /\ Len(inbound') = Len(inbound) + n
    BY <1>1, <1>2, <1>3
<1>6. TypeOK'
    BY <1>4, <1>5 DEF Receive, IInv, TypeOK
<1>7. InsideTheArray'
    BY <1>1, <1>2, <1>5, PipeAssumption DEF Receive, InsideTheArray, Room, Capacity
<1>. QED BY <1>6, <1>7 DEF Receive, IInv, LessThanAFrame

\* Cutting a frame out leaves a shorter buffer.
LEMMA DeliverStep == ASSUME IInv, Deliver PROVE IInv'
<1>1. FrameLength \in 1 .. MaxDatagram /\ Len(inbound) >= Header + FrameLength
    BY DEF Deliver, HasFrame, ValidLength
<1>2. inbound \in Seq(Byte) /\ FrameLength \in Nat
    BY <1>1, PipeAssumption DEF IInv, TypeOK
<1>3. inbound' \in Seq(Byte) /\ Len(inbound') <= Len(inbound)
    BY <1>1, <1>2, SubBytes DEF Deliver, Header
<1>4. last' \in Seq(Byte)
    BY <1>1, <1>2, SubBytes DEF Deliver, Header
<1>5. owed' \in Seq(Seq(Byte))
    BY DEF Deliver, IInv, TypeOK
<1>6. TypeOK'
    BY <1>3, <1>4, <1>5 DEF Deliver, IInv, TypeOK
<1>7. Len(inbound) \in Nat /\ Len(inbound') \in Nat
    BY <1>2, <1>3
<1>8. InsideTheArray'
    BY <1>3, <1>7, PipeAssumption DEF Deliver, IInv, InsideTheArray, Capacity
<1>. QED BY <1>6, <1>8 DEF Deliver, IInv, LessThanAFrame

\* Whatever the sender, the receiver and the network do, the buffer stays so.
LEMMA NextIInv == IInv /\ [Next]_pipeVars => IInv'
<1>. SUFFICES ASSUME IInv, [Next]_pipeVars PROVE IInv'
    OBVIOUS
<1>. USE DEF IInv
<1>1. ASSUME NEW d \in Datagram, Send(d) PROVE IInv'
    <2>1. tcp' \in Seq(Byte) /\ owed' \in Seq(Seq(Byte))
        BY <1>1, FrameType DEF Send, TypeOK
    <2>. QED BY <1>1, <2>1 DEF Send, TypeOK, LessThanAFrame, InsideTheArray, HasFrame,
        HasHeader, FrameLength, ValidLength
<1>2. ASSUME NEW d \in Datagram, SendFails(d) PROVE IInv'
    <2>1. PICK n \in 0 .. (Header + Len(d) - 1) : tcp' = tcp \o SubSeq(Frame(d), 1, n)
        BY <1>2 DEF SendFails
    <2>2. n \in 0 .. Len(Frame(d)) /\ Frame(d) \in Seq(Byte)
        BY <2>1, FrameType DEF Header
    <2>3. tcp' \in Seq(Byte)
        BY <2>1, <2>2, SubBytes DEF TypeOK
    <2>. QED BY <1>2, <2>3 DEF SendFails, TypeOK, LessThanAFrame, InsideTheArray, HasFrame,
        HasHeader, FrameLength, ValidLength
<1>3. ASSUME NEW b \in Byte, SendForeign(b) PROVE IInv'
    BY <1>3 DEF SendForeign, TypeOK, LessThanAFrame, InsideTheArray, HasFrame,
        HasHeader, FrameLength, ValidLength
<1>4. CASE HangUp
    BY <1>4 DEF HangUp, TypeOK, LessThanAFrame, InsideTheArray, HasFrame,
        HasHeader, FrameLength, ValidLength
<1>5. CASE Receive
    BY <1>5, ReceiveStep
<1>6. CASE ReceiveEnds
    BY <1>6 DEF ReceiveEnds, TypeOK, LessThanAFrame, InsideTheArray
<1>7. CASE Deliver
    BY <1>7, DeliverStep
<1>8. CASE BadFrame
    BY <1>8 DEF BadFrame, TypeOK, LessThanAFrame, InsideTheArray
<1>9. CASE AwaitRest
    BY <1>9 DEF AwaitRest, TypeOK, LessThanAFrame, InsideTheArray, HasFrame,
        HasHeader, FrameLength, ValidLength
<1>10. CASE UNCHANGED pipeVars
    BY <1>10 DEF pipeVars, TypeOK, LessThanAFrame, InsideTheArray, HasFrame,
        HasHeader, FrameLength, ValidLength
<1>11. CASE ReceiverLeaves
    BY <1>11 DEF ReceiverLeaves, TypeOK, LessThanAFrame, InsideTheArray
<1>. QED BY <1>1, <1>2, <1>3, <1>4, <1>5, <1>6, <1>7, <1>8, <1>9, <1>10, <1>11
    DEF Next

\* The invariant holds throughout.
THEOREM Inductive == Spec => []IInv
BY InitIInv, NextIInv, PTL DEF Spec

\* Less than one frame leaves room in an array of four.
LEMMA RoomFromIInv == IInv => RoomForMore
<1>. SUFFICES ASSUME IInv PROVE RoomForMore
    OBVIOUS
<1>1. Len(inbound) \in Nat
    BY DEF IInv, TypeOK
<1>2. CASE phase = "wait"
    <2>1. Len(inbound) <= MaxDatagram + 1
        <3>1. CASE HasHeader
            BY <1>1, <1>2, <3>1, LengthType, PipeAssumption DEF IInv, LessThanAFrame,
                HasFrame, ValidLength, Header
        <3>2. CASE ~HasHeader
            BY <1>1, <3>2, PipeAssumption DEF HasHeader, Header
        <3>. QED BY <3>1, <3>2
    <2>. QED BY <1>1, <2>1, PipeAssumption DEF IInv, InsideTheArray, RoomForMore, Room,
        Capacity, Header
<1>. QED BY <1>2 DEF IInv, InsideTheArray, RoomForMore

\* The variables keep their types: every byte that is sent or kept is a byte.
THEOREM TypeCorrect == Spec => []TypeOK
BY Inductive, PTL DEF IInv

\* The fixed array of the tunnel client is never full when it reads, whatever
\* the limit and whatever arrives: a read of no bytes always means the end.
THEOREM AlwaysRoom == Spec => []RoomForMore
BY Inductive, RoomFromIInv, PTL

\* No datagram that has arrived in full waits for the next read.
THEOREM HoldsNothingBack == Spec => []NothingHeldBack
<1>1. IInv => NothingHeldBack
    BY DEF IInv, LessThanAFrame, NothingHeldBack
<1>. QED BY <1>1, Inductive, PTL

-----------------------------------------------------------------------------
(***************************************************************************)
(* Framing.  f[i] is what is left of a stream when i datagrams have been   *)
(* cut off, the whole stream being f[0].                                   *)
(***************************************************************************)
Cuts(f, stream, items) ==
    /\ DOMAIN f = 0 .. Len(items) /\ f[0] = stream
    /\ \A i \in 0 .. Len(items) : f[i] \in Seq(Byte)
    /\ \A i \in 1 .. Len(items) : f[i - 1] = Frame(items[i]) \o f[i]

\* The stream is the frames of the items, and then the rest.
Framed(stream, items, rest) == \E f : Cuts(f, stream, items) /\ f[Len(items)] = rest

\* Bytes are put together in any order.
LEMMA BytesAssociate ==
    \A s, t, u \in Seq(Byte) : (s \o t) \o u = s \o (t \o u)
BY ConcatAssociative

\* A stream without items is all rest.
LEMMA FramedNothing ==
    ASSUME NEW s \in Seq(Byte), NEW rest
    PROVE  Framed(s, <<>>, rest) <=> s = rest
<1>1. ASSUME Framed(s, <<>>, rest) PROVE s = rest
    BY <1>1 DEF Framed, Cuts
<1>2. Framed(s, <<>>, s)
    <2>. DEFINE f == [i \in 0 .. 0 |-> s]
    <2>1. Cuts(f, s, <<>>) /\ f[0] = s
        BY DEF Cuts
    <2>. QED BY <2>1 DEF Framed
<1>. QED BY <1>1, <1>2

\* More bytes lengthen the rest.
LEMMA FramedMore ==
    ASSUME NEW s \in Seq(Byte), NEW items \in Seq(Datagram), NEW rest, NEW x \in Seq(Byte),
           Framed(s, items, rest)
    PROVE  Framed(s \o x, items, rest \o x)
<1>1. PICK f : Cuts(f, s, items) /\ f[Len(items)] = rest
    BY DEF Framed
<1>. DEFINE n == Len(items)
            g == [i \in 0 .. n |-> f[i] \o x]
<1>2. n \in Nat
    OBVIOUS
<1>3. DOMAIN g = 0 .. n /\ \A i \in 0 .. n : g[i] = f[i] \o x
    OBVIOUS
<1>. HIDE DEF g
<1>4. \A i \in 0 .. n : g[i] \in Seq(Byte)
    BY <1>1, <1>3, ConcatProperties DEF Cuts
<1>5. \A i \in 1 .. n : g[i - 1] = Frame(items[i]) \o g[i]
    <2>. SUFFICES ASSUME NEW i \in 1 .. n PROVE g[i - 1] = Frame(items[i]) \o g[i]
        OBVIOUS
    <2>1. i - 1 \in 0 .. n /\ i \in 0 .. n
        BY <1>2
    <2>2. items[i] \in Datagram
        OBVIOUS
    <2>3. f[i - 1] = Frame(items[i]) \o f[i] /\ f[i] \in Seq(Byte) /\ Frame(items[i]) \in Seq(Byte)
        BY <1>1, <2>1, <2>2, FrameType DEF Cuts
    <2>4. (Frame(items[i]) \o f[i]) \o x = Frame(items[i]) \o (f[i] \o x)
        BY <2>3, BytesAssociate, Zenon
    <2>. QED BY <1>3, <2>1, <2>3, <2>4
<1>6. g[0] = s \o x /\ g[n] = rest \o x
    <2>1. 0 \in 0 .. n /\ n \in 0 .. n
        BY <1>2
    <2>2. f[0] = s /\ f[n] = rest
        BY <1>1 DEF Cuts
    <2>. HIDE DEF n
    <2>. QED BY <1>3, <2>1, <2>2
<1>7. Cuts(g, s \o x, items)
    BY <1>3, <1>4, <1>5, <1>6 DEF Cuts
<1>. QED BY <1>6, <1>7 DEF Framed

\* A frame behind a stream without rest is one item more.
LEMMA FramedItem ==
    ASSUME NEW s \in Seq(Byte), NEW items \in Seq(Datagram), NEW d \in Datagram,
           Framed(s, items, <<>>)
    PROVE  Framed(s \o Frame(d), Append(items, d), <<>>)
<1>. DEFINE n == Len(items)
            more == Append(items, d)
<1>1. Frame(d) \in Seq(Byte) /\ <<>> \o Frame(d) = Frame(d) /\ Frame(d) \o <<>> = Frame(d)
    BY FrameType, ConcatEmptySeq
<1>2. Framed(s \o Frame(d), items, Frame(d))
    BY <1>1, FramedMore
<1>3. PICK f : Cuts(f, s \o Frame(d), items) /\ f[n] = Frame(d)
    BY <1>2 DEF Framed
<1>. DEFINE g == [i \in 0 .. (n + 1) |-> IF i <= n THEN f[i] ELSE <<>>]
<1>4. n \in Nat /\ Len(more) = n + 1 /\ more[n + 1] = d /\ \A i \in 1 .. n : more[i] = items[i]
    OBVIOUS
<1>5. /\ DOMAIN g = 0 .. (n + 1) /\ g[n + 1] = <<>>
      /\ \A i \in 0 .. n : g[i] = f[i]
    BY <1>4
<1>. HIDE DEF g, more, n
<1>6. \A i \in 0 .. (n + 1) : i \in 0 .. n \/ i = n + 1
    BY <1>4
<1>7. \A i \in 0 .. (n + 1) : g[i] \in Seq(Byte)
    <2>1. \A i \in 0 .. n : g[i] \in Seq(Byte)
        BY <1>3, <1>5 DEF Cuts, n
    <2>2. g[n + 1] \in Seq(Byte)
        <3>1. <<>> \in Seq(Byte)
            OBVIOUS
        <3>. QED BY <1>5, <3>1, Zenon
    <2>. QED BY <1>6, <2>1, <2>2
<1>8. ASSUME NEW i \in 1 .. (n + 1) PROVE g[i - 1] = Frame(more[i]) \o g[i]
    <2>1. CASE i \in 1 .. n
        <3>1. i - 1 \in 0 .. n /\ i \in 0 .. n
            BY <1>4, <2>1
        <3>2. f[i - 1] = Frame(items[i]) \o f[i]
            BY <1>3, <2>1 DEF Cuts, n
        <3>. QED BY <1>4, <1>5, <2>1, <3>1, <3>2
    <2>2. CASE i = n + 1
        <3>1. i - 1 = n /\ n \in 0 .. n
            BY <1>4, <2>2
        <3>. QED BY <1>1, <1>3, <1>4, <1>5, <2>2, <3>1
    <2>. QED BY <1>4, <2>1, <2>2
<1>9. g[0] = s \o Frame(d)
    BY <1>3, <1>4, <1>5 DEF Cuts
<1>10. Cuts(g, s \o Frame(d), more)
    BY <1>4, <1>5, <1>7, <1>8, <1>9 DEF Cuts
<1>11. Framed(s \o Frame(d), more, <<>>)
    BY <1>4, <1>5, <1>10 DEF Framed
<1>. QED BY <1>11 DEF more

\* The first item is at the head of the stream.
LEMMA FramedHead ==
    ASSUME NEW s \in Seq(Byte), NEW items \in Seq(Datagram), items # <<>>, NEW rest,
           Framed(s, items, rest)
    PROVE  \E t \in Seq(Byte) : s = Frame(Head(items)) \o t /\ Framed(t, Tail(items), rest)
<1>1. PICK f : Cuts(f, s, items) /\ f[Len(items)] = rest
    BY DEF Framed
<1>. DEFINE n == Len(items) - 1
            less == Tail(items)
            g == [i \in 0 .. n |-> f[i + 1]]
<1>2. /\ n \in Nat /\ Len(items) = n + 1 /\ Head(items) = items[1]
      /\ Len(less) = n /\ \A i \in 1 .. n : less[i] = items[i + 1]
    OBVIOUS
<1>3. DOMAIN g = 0 .. n /\ \A i \in 0 .. n : g[i] = f[i + 1]
    OBVIOUS
<1>. HIDE DEF g, n, less
<1>4. \A i \in 0 .. n : i + 1 \in 1 .. (n + 1) /\ i + 1 \in 0 .. (n + 1) /\ (i + 1) - 1 = i
    BY <1>2
<1>5. \A i \in 0 .. n : g[i] \in Seq(Byte)
    BY <1>1, <1>2, <1>3, <1>4 DEF Cuts
<1>6. ASSUME NEW i \in 1 .. n PROVE g[i - 1] = Frame(less[i]) \o g[i]
    <2>1. i - 1 \in 0 .. n /\ i \in 0 .. n /\ (i - 1) + 1 = i
        BY <1>2
    <2>2. f[i] = Frame(items[i + 1]) \o f[i + 1]
        BY <1>1, <1>2, <1>4, <2>1 DEF Cuts
    <2>. QED BY <1>2, <1>3, <2>1, <2>2
<1>7. s = Frame(Head(items)) \o g[0]
    <2>1. 0 \in 0 .. n /\ 0 + 1 = 1 /\ 1 - 1 = 0 /\ 1 \in 1 .. (n + 1)
        BY <1>2
    <2>2. f[1 - 1] = Frame(items[1]) \o f[1]
        BY <1>1, <1>2, <2>1 DEF Cuts
    <2>. QED BY <1>1, <1>2, <1>3, <2>1, <2>2 DEF Cuts
<1>8. g[n] = rest /\ g[0] \in Seq(Byte)
    BY <1>1, <1>2, <1>3, <1>5
<1>9. Cuts(g, g[0], less)
    BY <1>2, <1>3, <1>5, <1>6 DEF Cuts
<1>10. Framed(g[0], less, rest)
    BY <1>2, <1>8, <1>9 DEF Framed
<1>. QED BY <1>7, <1>8, <1>10 DEF less

\* Two bytes hold any length below Base * Base.
LEMMA TwoBytes ==
    ASSUME NEW n \in Nat, n < Base * Base
    PROVE  ((n \div Base) % Base) * Base + (n % Base) = n
<1>. DEFINE q == n \div Base
            r == n % Base
<1>1. q \in Nat /\ r \in 0 .. (Base - 1) /\ Base \in Nat \ {0}
    BY PipeAssumption
<1>2. n = Base * q + r
    BY PipeAssumption
<1>. HIDE DEF q, r
<1>3. q < Base
    <2>1. SUFFICES ASSUME q >= Base PROVE FALSE
        BY <1>1
    <2>2. Base * q >= Base * Base
        BY <1>1, <2>1
    <2>. QED BY <1>1, <1>2, <2>2
<1>4. q % Base = q
    BY <1>1, <1>3
<1>5. q * Base + r = n
    BY <1>1, <1>2
<1>. QED BY <1>4, <1>5 DEF q, r

\* What stands where in a frame.
LEMMA FrameBytes ==
    ASSUME NEW d \in Datagram
    PROVE  /\ Frame(d)[1] * Base + Frame(d)[2] = Len(d)
           /\ \A i \in 1 .. Len(d) : Frame(d)[i + 2] = d[i]
<1>. DEFINE n == Len(d)
            head == <<(n \div Base) % Base, n % Base>>
<1>1. n \in Nat /\ n < Base * Base
    <2>1. n \in 1 .. MaxDatagram
        BY FrameType
    <2>2. Base * Base \in Nat
        BY PipeAssumption
    <2>. QED BY <2>1, <2>2, PipeAssumption
<1>2. /\ head \in Seq(Byte) /\ Len(head) = 2
      /\ head[1] = (n \div Base) % Base /\ head[2] = n % Base
    <2>1. (n \div Base) % Base \in Byte /\ n % Base \in Byte
        BY <1>1, PipeAssumption DEF Byte
    <2>. QED BY <2>1
<1>3. d \in Seq(Byte) /\ Frame(d) = head \o d
    BY FrameType DEF Frame
<1>. HIDE DEF head
<1>4. /\ Len(head \o d) = 2 + n
      /\ \A i \in 1 .. (2 + n) : (head \o d)[i] = IF i <= 2 THEN head[i] ELSE d[i - 2]
    <2>1. /\ Len(head \o d) = Len(head) + Len(d)
          /\ \A i \in 1 .. Len(head) + Len(d) :
                (head \o d)[i] = IF i <= Len(head) THEN head[i] ELSE d[i - Len(head)]
        BY <1>2, <1>3, ConcatProperties
    <2>. QED BY <1>2, <2>1
<1>. HIDE DEF n
<1>5. Frame(d)[1] = head[1] /\ Frame(d)[2] = head[2]
    <2>1. 1 \in 1 .. (2 + n) /\ 2 \in 1 .. (2 + n)
        BY <1>1
    <2>. QED BY <1>3, <1>4, <2>1
<1>6. ASSUME NEW i \in 1 .. n PROVE Frame(d)[i + 2] = d[i]
    <2>1. i + 2 \in 1 .. (2 + n) /\ ~(i + 2 <= 2) /\ (i + 2) - 2 = i
        BY <1>1
    <2>2. (head \o d)[i + 2] = d[i]
        BY <1>4, <2>1
    <2>. QED BY <1>3, <2>2
<1>7. Frame(d)[1] * Base + Frame(d)[2] = n
    BY <1>1, <1>2, <1>5, TwoBytes
<1>. QED BY <1>6, <1>7 DEF n

\* Whoever has the first bytes of a stream that begins with a frame reads its
\* length.
LEMMA LengthRead ==
    ASSUME NEW b \in Seq(Byte), NEW t \in Seq(Byte), NEW x \in Seq(Byte), NEW d \in Datagram,
           b \o t = Frame(d) \o x, Len(b) >= 2
    PROVE  b[1] * Base + b[2] = Len(d)
<1>1. Frame(d) \in Seq(Byte) /\ Len(Frame(d)) >= 2
    BY FrameType DEF Header
<1>2. (b \o t)[1] = b[1] /\ (b \o t)[2] = b[2]
    OBVIOUS
<1>3. (Frame(d) \o x)[1] = Frame(d)[1] /\ (Frame(d) \o x)[2] = Frame(d)[2]
    BY <1>1
<1>. QED BY <1>2, <1>3, FrameBytes

\* What follows the same bytes is the same.
LEMMA SameHead ==
    ASSUME NEW s \in Seq(Byte), NEW t \in Seq(Byte), NEW u \in Seq(Byte), s \o t = s \o u
    PROVE  t = u
BY ConcatSimplifications

\* ... and who has all of the frame takes it off the stream.
LEMMA CutOff ==
    ASSUME NEW b \in Seq(Byte), NEW t \in Seq(Byte), NEW x \in Seq(Byte), NEW y \in Seq(Byte),
           b \o t = x \o y, Len(b) >= Len(x)
    PROVE  /\ \A i \in 1 .. Len(x) : b[i] = x[i]
           /\ SubSeq(b, Len(x) + 1, Len(b)) \o t = y
<1>. DEFINE n == Len(x)
            u == SubSeq(b, 1, n)
            v == SubSeq(b, n + 1, Len(b))
<1>1. n \in 0 .. Len(b) /\ n \in Nat /\ Len(b) \in Nat
    OBVIOUS
<1>2. \A i \in 1 .. n : b[i] = x[i]
    <2>. SUFFICES ASSUME NEW i \in 1 .. n PROVE b[i] = x[i]
        OBVIOUS
    <2>1. (b \o t)[i] = b[i]
        BY <1>1
    <2>2. (x \o y)[i] = x[i]
        BY <1>1
    <2>. QED BY <2>1, <2>2
<1>3. u \in Seq(Byte) /\ Len(u) = n /\ \A i \in 1 .. n : u[i] = b[i]
    BY <1>1
<1>4. v \in Seq(Byte)
    BY <1>1
<1>5. u = x
    BY <1>2, <1>3, SeqEqual
<1>6. u \o v = b
    <2>1. u \o v = SubSeq(b, 1, Len(b))
        <3>1. 1 \in 1 .. (Len(b) + 1) /\ n \in (1 - 1) .. Len(b) /\ Len(b) \in n .. Len(b)
            BY <1>1
        <3>. QED BY <3>1, ConcatAdjacentSubSeq
    <2>. QED BY <2>1, SubSeqFull
<1>. HIDE DEF u, v
<1>7. x \o (v \o t) = x \o y
    BY <1>4, <1>5, <1>6, BytesAssociate, Zenon
<1>8. v \o t \in Seq(Byte)
    BY <1>4
<1>9. v \o t = y
    BY <1>7, <1>8, SameHead
<1>. QED BY <1>2, <1>9 DEF v

-----------------------------------------------------------------------------
(***************************************************************************)
(* The framing never loses its place.                                      *)
(***************************************************************************)
\* The beginning of a frame whose writing failed, if anything.
CutShort(rest) ==
    rest = <<>> \/ \E d \in Datagram : \E x \in Seq(Byte) : x # <<>> /\ rest \o x = Frame(d)

\* From the head of the receiver's buffer on, the stream is the frames of what
\* is owed and, once the sender has closed, perhaps part of one more.
InPlace ==
    /\ peer = "foreign" => owed = <<>>
    /\ peer = "crossover" =>
        /\ owed \in Seq(Datagram)
        /\ \E rest \in Seq(Byte) :
            /\ Framed(inbound \o tcp, owed, rest)
            /\ IF up THEN rest = <<>> ELSE CutShort(rest)

PipeInv == IInv /\ InPlace /\ ClosedForAReason

\* With a datagram owed, the header in the buffer is that datagram's.
LEMMA HeaderOfOwed ==
    ASSUME IInv, InPlace, peer = "crossover", HasHeader, owed # <<>>
    PROVE  ValidLength /\ FrameLength = Len(Head(owed))
<1>1. inbound \in Seq(Byte) /\ tcp \in Seq(Byte) /\ Len(inbound) >= 2
    BY DEF IInv, TypeOK, HasHeader, Header
<1>2. owed \in Seq(Datagram)
    BY DEF InPlace
<1>3. PICK rest \in Seq(Byte) : Framed(inbound \o tcp, owed, rest)
    BY DEF InPlace
<1>4. inbound \o tcp \in Seq(Byte)
    BY <1>1
<1>5. PICK t \in Seq(Byte) : inbound \o tcp = Frame(Head(owed)) \o t
    BY <1>2, <1>3, <1>4, FramedHead
<1>6. Head(owed) \in Datagram
    BY <1>2
<1>7. FrameLength = Len(Head(owed))
    BY <1>1, <1>5, <1>6, LengthRead DEF FrameLength
<1>. QED BY <1>6, <1>7, FrameType DEF ValidLength

\* With nothing owed, it is that of a frame that is not all there.
LEMMA HeaderOfRest ==
    ASSUME IInv, InPlace, peer = "crossover", HasHeader, owed = <<>>
    PROVE  ValidLength /\ ~HasFrame
<1>1. inbound \in Seq(Byte) /\ tcp \in Seq(Byte) /\ Len(inbound) >= 2
    BY DEF IInv, TypeOK, HasHeader, Header
<1>2. PICK rest \in Seq(Byte) :
        /\ Framed(inbound \o tcp, <<>>, rest)
        /\ rest = <<>> \/ CutShort(rest)
    BY DEF InPlace
<1>3. inbound \o tcp \in Seq(Byte) /\ Len(inbound \o tcp) = Len(inbound) + Len(tcp)
    BY <1>1
<1>4. inbound \o tcp = rest
    BY <1>2, <1>3, FramedNothing
<1>5. rest # <<>>
    BY <1>1, <1>3, <1>4
<1>6. PICK d \in Datagram, x \in Seq(Byte) : x # <<>> /\ rest \o x = Frame(d)
    BY <1>2, <1>5 DEF CutShort
<1>7. inbound \o (tcp \o x) = Frame(d) \o <<>>
    <2>1. (inbound \o tcp) \o x = inbound \o (tcp \o x)
        BY <1>1, BytesAssociate, Zenon
    <2>2. Frame(d) \o <<>> = Frame(d)
        BY FrameType, ConcatEmptySeq
    <2>. QED BY <1>4, <1>6, <2>1, <2>2
<1>8. FrameLength = Len(d)
    <2>1. tcp \o x \in Seq(Byte) /\ <<>> \in Seq(Byte)
        BY <1>1
    <2>. QED BY <1>1, <1>7, <2>1, LengthRead DEF FrameLength
<1>9. Len(inbound) < Header + Len(d)
    <2>1. Len(rest \o x) = Len(rest) + Len(x) /\ Len(x) > 0
        BY <1>6
    <2>2. Len(Frame(d)) = Header + Len(d) /\ Len(d) \in Nat
        BY FrameType, PipeAssumption
    <2>3. Len(inbound) \in Nat /\ Len(tcp) \in Nat /\ Len(x) \in Nat
        BY <1>1
    <2>. QED BY <1>3, <1>4, <1>6, <2>1, <2>2, <2>3 DEF Header
<1>10. ValidLength
    BY <1>8, FrameType DEF ValidLength
<1>11. Len(inbound) \in Nat /\ Len(d) \in Nat
    BY <1>1, FrameType, PipeAssumption
<1>. QED BY <1>8, <1>9, <1>10, <1>11 DEF HasFrame, Header

\* What is cut out of the buffer is the datagram owed longest, and behind it
\* the stream goes on in place.
LEMMA DeliverInPlace ==
    ASSUME IInv, InPlace, peer = "crossover", Deliver
    PROVE  owed # <<>> /\ last' = Head(owed) /\ owed' = Tail(owed) /\ InPlace'
<1>1. owed # <<>>
    BY HeaderOfRest DEF Deliver, HasFrame
<1>2. FrameLength = Len(Head(owed))
    BY <1>1, HeaderOfOwed DEF Deliver, HasFrame
<1>3. /\ inbound \in Seq(Byte) /\ tcp \in Seq(Byte) /\ owed \in Seq(Datagram)
      /\ inbound \o tcp \in Seq(Byte)
    BY DEF IInv, TypeOK, InPlace
<1>4. PICK rest \in Seq(Byte) :
        /\ Framed(inbound \o tcp, owed, rest)
        /\ IF up THEN rest = <<>> ELSE CutShort(rest)
    BY DEF InPlace
<1>5. PICK t \in Seq(Byte) :
        inbound \o tcp = Frame(Head(owed)) \o t /\ Framed(t, Tail(owed), rest)
    BY <1>1, <1>3, <1>4, FramedHead
<1>. DEFINE d == Head(owed)
            n == Len(d)
<1>6. /\ d \in Datagram /\ d \in Seq(Byte) /\ n \in Nat
      /\ Frame(d) \in Seq(Byte) /\ Len(Frame(d)) = Header + n
    BY <1>1, <1>3, FrameType, PipeAssumption
<1>7. Len(inbound) >= Len(Frame(d))
    BY <1>2, <1>6 DEF Deliver, HasFrame
<1>8. /\ \A i \in 1 .. Len(Frame(d)) : inbound[i] = Frame(d)[i]
      /\ SubSeq(inbound, Len(Frame(d)) + 1, Len(inbound)) \o tcp = t
    BY <1>3, <1>5, <1>6, <1>7, CutOff
<1>9. last' = SubSeq(inbound, 3, 2 + n) /\ inbound' \o tcp' = t
    <2>1. Header = 2 /\ Len(Frame(d)) = 2 + n /\ Header + FrameLength = 2 + n
        BY <1>2, <1>6 DEF Header
    <2>2. /\ last' = SubSeq(inbound, Header + 1, Header + FrameLength)
          /\ inbound' = SubSeq(inbound, Header + FrameLength + 1, Len(inbound))
          /\ tcp' = tcp
        BY DEF Deliver
    <2>3. Header + 1 = 3
        BY <2>1
    <2>. HIDE DEF n, d
    <2>. QED BY <1>8, <2>1, <2>2, <2>3
<1>10. last' = d
    <2>1. Len(inbound) \in Nat /\ 2 + n <= Len(inbound)
        BY <1>3, <1>6, <1>7 DEF Header
    <2>. HIDE DEF n, d
    <2>2. /\ SubSeq(inbound, 3, 2 + n) \in Seq(Byte) /\ Len(SubSeq(inbound, 3, 2 + n)) = n
          /\ \A i \in 1 .. n : SubSeq(inbound, 3, 2 + n)[i] = inbound[i + 2]
        BY <1>3, <1>6, <2>1
    <2>3. ASSUME NEW i \in 1 .. n PROVE SubSeq(inbound, 3, 2 + n)[i] = d[i]
        <3>1. i + 2 \in 1 .. Len(Frame(d))
            BY <1>6 DEF Header
        <3>2. Frame(d)[i + 2] = d[i]
            BY <1>6, FrameBytes DEF n
        <3>. QED BY <1>8, <2>2, <3>1, <3>2
    <2>. QED BY <1>6, <1>9, <2>2, <2>3, SeqEqual DEF n
<1>11. owed' = Tail(owed) /\ Tail(owed) \in Seq(Datagram)
    BY <1>1, <1>3 DEF Deliver
<1>12. InPlace'
    BY <1>4, <1>5, <1>9, <1>11 DEF Deliver, InPlace, CutShort
<1>. QED BY <1>1, <1>10, <1>11, <1>12

\* What the sender writes goes behind the stream.
LEMMA SendInPlace ==
    ASSUME IInv, InPlace, NEW d \in Datagram, Send(d)
    PROVE  InPlace'
<1>1. /\ peer = "crossover" /\ up /\ owed \in Seq(Datagram)
      /\ inbound \in Seq(Byte) /\ tcp \in Seq(Byte) /\ Frame(d) \in Seq(Byte)
    BY FrameType DEF Send, IInv, TypeOK, InPlace
<1>2. Framed(inbound \o tcp, owed, <<>>)
    BY <1>1 DEF InPlace
<1>3. inbound \o tcp \in Seq(Byte)
    BY <1>1
<1>4. Framed((inbound \o tcp) \o Frame(d), Append(owed, d), <<>>)
    BY <1>1, <1>2, <1>3, FramedItem
<1>5. (inbound \o tcp) \o Frame(d) = inbound \o (tcp \o Frame(d))
    BY <1>1, BytesAssociate, Zenon
<1>6. Framed(inbound' \o tcp', owed', <<>>)
    BY <1>4, <1>5 DEF Send
<1>7. owed' \in Seq(Datagram) /\ peer' = "crossover" /\ up' /\ <<>> \in Seq(Byte)
    BY <1>1 DEF Send
<1>. QED BY <1>6, <1>7 DEF InPlace

\* A write that fails leaves the beginning of a frame, and closes.
LEMMA SendFailsInPlace ==
    ASSUME IInv, InPlace, NEW d \in Datagram, SendFails(d)
    PROVE  InPlace'
<1>1. /\ peer = "crossover" /\ up /\ owed \in Seq(Datagram)
      /\ inbound \in Seq(Byte) /\ tcp \in Seq(Byte) /\ Frame(d) \in Seq(Byte)
      /\ Len(Frame(d)) = Header + Len(d) /\ Len(d) \in Nat
    BY FrameType, PipeAssumption DEF SendFails, IInv, TypeOK, InPlace
<1>2. PICK n \in 0 .. (Header + Len(d) - 1) : tcp' = tcp \o SubSeq(Frame(d), 1, n)
    BY DEF SendFails
<1>. DEFINE part == SubSeq(Frame(d), 1, n)
            x == SubSeq(Frame(d), n + 1, Len(Frame(d)))
<1>3. n \in Nat /\ n < Len(Frame(d)) /\ Len(Frame(d)) \in Nat
    BY <1>1, <1>2 DEF Header
<1>4. part \in Seq(Byte) /\ x \in Seq(Byte) /\ Len(x) > 0
    BY <1>1, <1>3, SubBytes
<1>5. part \o x = Frame(d)
    <2>1. 1 \in 1 .. (Len(Frame(d)) + 1) /\ n \in (1 - 1) .. Len(Frame(d))
            /\ Len(Frame(d)) \in n .. Len(Frame(d))
        BY <1>3
    <2>2. part \o x = SubSeq(Frame(d), 1, Len(Frame(d)))
        BY <1>1, <2>1, ConcatAdjacentSubSeq
    <2>. QED BY <1>1, <2>2, SubSeqFull
<1>. HIDE DEF part, x
<1>6. x # <<>>
    BY <1>4
<1>7. CutShort(part)
    BY <1>4, <1>5, <1>6 DEF CutShort
<1>8. Framed(inbound \o tcp, owed, <<>>)
    BY <1>1 DEF InPlace
<1>9. inbound \o tcp \in Seq(Byte)
    BY <1>1
<1>10. Framed((inbound \o tcp) \o part, owed, <<>> \o part)
    BY <1>1, <1>4, <1>8, <1>9, FramedMore
<1>11. (inbound \o tcp) \o part = inbound \o (tcp \o part) /\ <<>> \o part = part
    <2>1. (inbound \o tcp) \o part = inbound \o (tcp \o part)
        BY <1>1, <1>4, BytesAssociate, Zenon
    <2>. QED BY <1>4, <2>1, ConcatEmptySeq
<1>12. tcp' = tcp \o part
    BY <1>2 DEF part
<1>13. Framed(inbound' \o tcp', owed', part)
    BY <1>10, <1>11, <1>12 DEF SendFails
<1>14. owed' \in Seq(Datagram) /\ peer' = "crossover" /\ ~up'
    BY <1>1 DEF SendFails
<1>. QED BY <1>4, <1>7, <1>13, <1>14 DEF InPlace

\* However TCP cuts it, the stream from the head of the buffer on is the same.
LEMMA ReceiveInPlace ==
    ASSUME IInv, InPlace, Receive
    PROVE  InPlace'
<1>1. PICK n \in 1 .. Room :
        /\ n <= Len(tcp)
        /\ inbound' = inbound \o SubSeq(tcp, 1, n)
        /\ tcp' = SubSeq(tcp, n + 1, Len(tcp))
    BY DEF Receive
<1>2. n \in Nat /\ tcp \in Seq(Byte) /\ inbound \in Seq(Byte) /\ Len(tcp) \in Nat
    BY PipeAssumption DEF IInv, TypeOK, Room, Capacity, Header
<1>. DEFINE u == SubSeq(tcp, 1, n)
            v == SubSeq(tcp, n + 1, Len(tcp))
<1>3. u \in Seq(Byte) /\ v \in Seq(Byte)
    BY <1>1, <1>2, SubBytes
<1>4. u \o v = tcp
    <2>1. 1 \in 1 .. (Len(tcp) + 1) /\ n \in (1 - 1) .. Len(tcp) /\ Len(tcp) \in n .. Len(tcp)
        BY <1>1, <1>2
    <2>2. u \o v = SubSeq(tcp, 1, Len(tcp))
        BY <1>2, <2>1, ConcatAdjacentSubSeq
    <2>. QED BY <1>2, <2>2, SubSeqFull
<1>5. inbound' = inbound \o u /\ tcp' = v
    BY <1>1
<1>. HIDE DEF u, v
<1>6. inbound' \o tcp' = inbound \o tcp
    <2>1. (inbound \o u) \o v = inbound \o (u \o v)
        BY <1>2, <1>3, BytesAssociate, Zenon
    <2>. QED BY <1>4, <1>5, <2>1
<1>. QED BY <1>6 DEF Receive, InPlace, CutShort

\* Nothing the sender, the receiver or the network does loses the place.
LEMMA NextInPlace == IInv /\ InPlace /\ [Next]_pipeVars => InPlace'
<1>. SUFFICES ASSUME IInv, InPlace, [Next]_pipeVars PROVE InPlace'
    OBVIOUS
<1>1. ASSUME NEW d \in Datagram, Send(d) PROVE InPlace'
    BY <1>1, SendInPlace
<1>2. ASSUME NEW d \in Datagram, SendFails(d) PROVE InPlace'
    BY <1>2, SendFailsInPlace
<1>3. ASSUME NEW b \in Byte, SendForeign(b) PROVE InPlace'
    BY <1>3 DEF SendForeign, InPlace
<1>4. CASE HangUp
    <2>1. peer' = peer /\ owed' = owed /\ inbound' = inbound /\ tcp' = tcp /\ up /\ ~up'
        BY <1>4 DEF HangUp
    <2>. QED BY <2>1 DEF InPlace, CutShort
<1>5. CASE Receive
    BY <1>5, ReceiveInPlace
<1>6. CASE ReceiveEnds
    BY <1>6 DEF ReceiveEnds, InPlace, CutShort
<1>7. CASE Deliver
    <2>1. CASE peer = "crossover"
        BY <1>7, <2>1, DeliverInPlace
    <2>2. CASE peer # "crossover"
        BY <1>7, <2>2 DEF Deliver, InPlace
    <2>. QED BY <2>1, <2>2
<1>8. CASE BadFrame
    BY <1>8 DEF BadFrame, InPlace, CutShort
<1>9. CASE AwaitRest
    BY <1>9 DEF AwaitRest, InPlace, CutShort
<1>10. CASE UNCHANGED pipeVars
    BY <1>10 DEF pipeVars, InPlace, CutShort
<1>11. CASE ReceiverLeaves
    BY <1>11 DEF ReceiverLeaves, InPlace, CutShort
<1>. QED BY <1>1, <1>2, <1>3, <1>4, <1>5, <1>6, <1>7, <1>8, <1>9, <1>10, <1>11
    DEF Next

\* The receiver gives up for one of the two reasons: a read of no bytes is the
\* end, as there is always room, and only a foreign header is not valid.
LEMMA NextClosed ==
    IInv /\ InPlace /\ ClosedForAReason /\ [Next]_pipeVars => ClosedForAReason'
<1>. SUFFICES ASSUME IInv, InPlace, ClosedForAReason, [Next]_pipeVars PROVE ClosedForAReason'
    OBVIOUS
<1>1. CASE ReceiveEnds
    <2>1. Room > 0
        BY <1>1, RoomFromIInv DEF ReceiveEnds, RoomForMore
    <2>2. Room # 0
        BY <2>1
    <2>. QED BY <1>1, <2>2 DEF ReceiveEnds, ClosedForAReason
<1>2. CASE BadFrame
    <2>1. peer # "crossover"
        BY <1>2, HeaderOfOwed, HeaderOfRest DEF BadFrame
    <2>2. peer = "foreign"
        BY <2>1, PipeAssumption DEF IInv, TypeOK
    <2>. QED BY <1>2, <2>2 DEF BadFrame, ClosedForAReason
<1>3. ASSUME NEW d \in Datagram, Send(d) \/ SendFails(d) PROVE ClosedForAReason'
    BY <1>3 DEF Send, SendFails, ClosedForAReason
<1>4. ASSUME NEW b \in Byte, SendForeign(b) PROVE ClosedForAReason'
    BY <1>4 DEF SendForeign, ClosedForAReason
<1>5. CASE HangUp \/ Receive \/ ReceiverLeaves \/ Deliver \/ AwaitRest
    BY <1>5 DEF HangUp, Receive, ReceiverLeaves, Deliver, AwaitRest, ClosedForAReason
<1>6. CASE UNCHANGED pipeVars
    BY <1>6 DEF pipeVars, ClosedForAReason
<1>. QED BY <1>1, <1>2, <1>3, <1>4, <1>5, <1>6 DEF Next

\* Nothing is owed and nothing has gone wrong at the start.
LEMMA InitPipe == Init => PipeInv
<1>. SUFFICES ASSUME Init PROVE InPlace /\ ClosedForAReason
    BY InitIInv DEF PipeInv
<1>1. inbound \o tcp = <<>> /\ <<>> \in Seq(Byte)
    BY DEF Init
<1>2. Framed(inbound \o tcp, <<>>, <<>>)
    BY <1>1, FramedNothing
<1>3. owed = <<>> /\ owed \in Seq(Datagram) /\ up
    BY DEF Init
<1>. QED BY <1>1, <1>2, <1>3 DEF Init, InPlace, ClosedForAReason

\* The receiver's buffer and the stream behind it are the frames of what is
\* owed, with less than one frame in the buffer between two reads.
THEOREM PipeInductive == Spec => []PipeInv
<1>1. PipeInv /\ [Next]_pipeVars => PipeInv'
    BY NextIInv, NextInPlace, NextClosed DEF PipeInv
<1>. QED BY <1>1, InitPipe, PTL DEF Spec

\* The receiver never gives up on the other half of the tunnel while it is
\* there: it closes on a peer that hung up, and rejects a foreign one's header.
THEOREM NeverGivesUp == Spec => []ClosedForAReason
BY PipeInductive, PTL DEF PipeInv

\* Whatever the sizes of TCP's pieces and of the datagrams, one direction of
\* the tunnel is the queue it is meant to be: every step puts a datagram in,
\* takes the first one out whole, or leaves the queue alone.
THEOREM PipeIsAQueue == Spec => DeliversInOrder
<1>. DEFINE out == IF peer = "crossover" THEN last ELSE <<>>
<1>1. Init => Q!Init
    BY DEF Init, Q!Init
<1>2. PipeInv /\ [Next]_pipeVars => [Q!Next]_<<owed, out>>
    <2>. SUFFICES ASSUME PipeInv, [Next]_pipeVars PROVE [Q!Next]_<<owed, out>>
        OBVIOUS
    <2>1. ASSUME NEW d \in Datagram, Send(d) PROVE Q!Next
        BY <2>1 DEF Send, Q!Next, Q!Put
    <2>2. ASSUME NEW d \in Datagram, SendFails(d) PROVE UNCHANGED <<owed, out>>
        BY <2>2 DEF SendFails
    <2>3. ASSUME NEW b \in Byte, SendForeign(b) PROVE UNCHANGED <<owed, out>>
        BY <2>3 DEF SendForeign
    <2>4. CASE HangUp \/ Receive \/ ReceiveEnds \/ ReceiverLeaves \/ BadFrame \/ AwaitRest
        BY <2>4 DEF HangUp, Receive, ReceiveEnds, ReceiverLeaves, BadFrame, AwaitRest
    <2>5. CASE Deliver /\ peer = "crossover"
        <3>1. owed # <<>> /\ last' = Head(owed) /\ owed' = Tail(owed)
            BY <2>5, DeliverInPlace DEF PipeInv
        <3>2. peer' = peer
            BY <2>5 DEF Deliver
        <3>. QED BY <2>5, <3>1, <3>2 DEF Q!Next, Q!Get
    <2>6. CASE Deliver /\ peer # "crossover"
        <3>1. owed = <<>>
            BY <2>6, PipeAssumption DEF PipeInv, IInv, TypeOK, InPlace
        <3>. QED BY <2>6, <3>1 DEF Deliver
    <2>7. CASE UNCHANGED pipeVars
        BY <2>7 DEF pipeVars
    <2>. QED BY <2>1, <2>2, <2>3, <2>4, <2>5, <2>6, <2>7 DEF Next
<1>. QED BY <1>1, <1>2, PipeInductive, PTL DEF Spec, DeliversInOrder, Q!Spec
=============================================================================
