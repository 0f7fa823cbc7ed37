------------------------------ MODULE FramedPipe ------------------------------
(***************************************************************************)
(* One direction of the tunnel: UDP datagrams carried over TCP as          *)
(* [two-byte big-endian length][datagram], from crossover-tunnel.c to      *)
(* Tunnel.cpp or back.  TCP keeps the bytes in order and hands them over   *)
(* in pieces of any size; the receiver collects them and cuts the frames   *)
(* out, one per step.                                                      *)
(*                                                                         *)
(* The two receivers differ in one thing: Tunnel.cpp appends to a vector,  *)
(* crossover-tunnel.c reads into what is left of a fixed array, where a    *)
(* read of no bytes looks like the end of the connection.                  *)
(***************************************************************************)
EXTENDS Naturals, Sequences

CONSTANTS
    Base,          \* values of a byte: 256 in the code
    MaxDatagram,   \* kMaxDatagram, MAX_DATAGRAM: 2048
    Peers,         \* who may be at the other end: "crossover", "foreign"
    MaxStream      \* bound: bytes in flight

ASSUME PipeAssumption ==
    /\ Base \in Nat \ {0}
    /\ MaxDatagram \in Nat \ {0}
    /\ MaxDatagram < Base * Base
    /\ Peers \subseteq {"crossover", "foreign"}
    /\ MaxStream \in Nat

VARIABLES
    peer,       \* the other half of the tunnel, or some other program
    receiver,   \* which of the two programs receives
    up,         \* the peer has not hung up
    tcp,        \* bytes sent and not yet received
    inbound,    \* the receiver's buffer
    phase,      \* where the receiver's loop is
    owed,       \* history: datagrams framed and not yet delivered
    last        \* the datagram delivered last

pipeVars == <<peer, receiver, up, tcp, inbound, phase, owed, last>>

Header == 2

\* Mutant of Capacity: no space for the header.
CapacityOfDatagram == MaxDatagram

Capacity == 4 * MaxDatagram   \* sizeof(inbound) in crossover-tunnel.c

Byte == 0 .. (Base - 1)

\* Datagrams are bounded by RakNet's MTU, well under MaxDatagram.
Datagram == UNION {[1 .. n -> Byte] : n \in 1 .. MaxDatagram}

\* Mutant of Frame: the length's bytes are swapped.
FrameLittleEndian(d) == <<Len(d) % Base, (Len(d) \div Base) % Base>> \o d

Frame(d) == <<(Len(d) \div Base) % Base, Len(d) % Base>> \o d

\* The length at the head of the buffer.
FrameLength == inbound[1] * Base + inbound[2]

HasHeader == Len(inbound) >= Header

HasFrame == HasHeader /\ Len(inbound) >= Header + FrameLength

ValidLength == FrameLength \in 1 .. MaxDatagram

-----------------------------------------------------------------------------
(***************************************************************************)
(* The sender.                                                             *)
(***************************************************************************)
Send(d) ==
    /\ up /\ peer = "crossover"
    /\ Len(tcp) + Header + Len(d) <= MaxStream
    /\ tcp' = tcp \o Frame(d)
    /\ owed' = Append(owed, d)
    /\ UNCHANGED <<peer, receiver, up, inbound, phase, last>>

\* The write fails part of the way, and the sender closes.
SendFails(d) ==
    /\ up /\ peer = "crossover"
    /\ \E n \in 0 .. (Header + Len(d) - 1) :
        /\ Len(tcp) + n <= MaxStream
        /\ tcp' = tcp \o SubSeq(Frame(d), 1, n)
    /\ up' = FALSE
    /\ UNCHANGED <<peer, receiver, inbound, phase, owed, last>>

\* A program that is not the other half of the tunnel says anything.
SendForeign(b) ==
    /\ up /\ peer = "foreign"
    /\ Len(tcp) < MaxStream
    /\ tcp' = Append(tcp, b)
    /\ UNCHANGED <<peer, receiver, up, inbound, phase, owed, last>>

HangUp ==
    /\ up
    /\ up' = FALSE
    /\ UNCHANGED <<peer, receiver, tcp, inbound, phase, owed, last>>

-----------------------------------------------------------------------------
(***************************************************************************)
(* The receiver.                                                           *)
(***************************************************************************)
Room ==
    IF receiver = "client" THEN Capacity - Len(inbound) ELSE MaxDatagram + Header

Receive ==
    /\ phase = "wait"
    /\ \E n \in 1 .. Room :
        /\ n <= Len(tcp)
        /\ inbound' = inbound \o SubSeq(tcp, 1, n)
        /\ tcp' = SubSeq(tcp, n + 1, Len(tcp))
    /\ phase' = "deframe"
    /\ UNCHANGED <<peer, receiver, up, owed, last>>

\* recv returns 0: the peer has hung up, or there was no room to read into;
\* or it fails, which only happens to a connection that is over.
ReceiveEnds ==
    /\ phase = "wait"
    /\ ~up \/ Room = 0
    /\ phase' = "closed"
    /\ UNCHANGED <<peer, receiver, up, tcp, inbound, owed, last>>

\* Between two rounds of its loop a receiver may end for a reason of its own:
\* Stop in the server, or a failed write of the other direction in either.
ReceiverLeaves ==
    /\ phase = "wait"
    /\ phase' = "left"
    /\ UNCHANGED <<peer, receiver, up, tcp, inbound, owed, last>>

\* Mutant of Deliver: one frame per read.
DeliverOnce ==
    /\ phase = "deframe" /\ HasFrame /\ ValidLength
    /\ last' = SubSeq(inbound, Header + 1, Header + FrameLength)
    /\ inbound' = SubSeq(inbound, Header + FrameLength + 1, Len(inbound))
    /\ owed' = IF owed = <<>> THEN owed ELSE Tail(owed)
    /\ phase' = "wait"
    /\ UNCHANGED <<peer, receiver, up, tcp>>

\* Mutant of Deliver: the header stays in the buffer.
DeliverKeepingHeader ==
    /\ phase = "deframe" /\ HasFrame /\ ValidLength
    /\ last' = SubSeq(inbound, Header + 1, Header + FrameLength)
    /\ inbound' = SubSeq(inbound, FrameLength + 1, Len(inbound))
    /\ owed' = IF owed = <<>> THEN owed ELSE Tail(owed)
    /\ UNCHANGED <<peer, receiver, up, tcp, phase>>

\* A whole frame: its datagram is sent on and the frame is erased.
Deliver ==
    /\ phase = "deframe" /\ HasFrame /\ ValidLength
    /\ last' = SubSeq(inbound, Header + 1, Header + FrameLength)
    /\ inbound' = SubSeq(inbound, Header + FrameLength + 1, Len(inbound))
    /\ owed' = IF owed = <<>> THEN owed ELSE Tail(owed)
    /\ UNCHANGED <<peer, receiver, up, tcp, phase>>

BadFrame ==
    /\ phase = "deframe" /\ HasHeader /\ ~ValidLength
    /\ phase' = "bad"
    /\ UNCHANGED <<peer, receiver, up, tcp, inbound, owed, last>>

\* No whole frame is left.
AwaitRest ==
    /\ phase = "deframe"
    /\ HasHeader => ValidLength /\ ~HasFrame
    /\ phase' = "wait"
    /\ UNCHANGED <<peer, receiver, up, tcp, inbound, owed, last>>

-----------------------------------------------------------------------------
Init ==
    /\ peer \in Peers
    /\ receiver \in {"server", "client"}
    /\ up = TRUE
    /\ tcp = <<>>
    /\ inbound = <<>>
    /\ phase = "wait"
    /\ owed = <<>>
    /\ last = <<>>

Next ==
    \/ \E d \in Datagram : Send(d) \/ SendFails(d)
    \/ \E b \in Byte : SendForeign(b)
    \/ HangUp
    \/ Receive
    \/ ReceiveEnds
    \/ ReceiverLeaves
    \/ Deliver
    \/ BadFrame
    \/ AwaitRest

Spec == Init /\ [][Next]_pipeVars

-----------------------------------------------------------------------------
(***************************************************************************)
(* Properties.                                                             *)
(***************************************************************************)
TypeOK ==
    /\ peer \in Peers
    /\ receiver \in {"server", "client"}
    /\ up \in BOOLEAN
    /\ tcp \in Seq(Byte)
    /\ inbound \in Seq(Byte)
    /\ phase \in {"wait", "deframe", "closed", "bad", "left"}
    /\ owed \in Seq(Seq(Byte))
    /\ last \in Seq(Byte)

\* A read always has somewhere to go: the fixed array of crossover-tunnel.c
\* is never full when recv is called, nor ever overrun, whatever the other end
\* sends.
RoomForMore ==
    /\ receiver = "client" => Len(inbound) <= Capacity
    /\ phase = "wait" => Room > 0

\* No datagram that has arrived in full waits for the next read.
NothingHeldBack == phase = "wait" => ~HasFrame

\* But for a reason of its own, the receiver gives up only on a peer that has
\* hung up or that is not the other half of the tunnel: framing never loses its
\* place, and no read takes a full buffer for the end.
ClosedForAReason ==
    /\ phase = "closed" => ~up
    /\ phase = "bad" => peer = "foreign"

Q == INSTANCE DatagramQueue WITH
        Item <- Datagram, queue <- owed,
        last <- IF peer = "crossover" THEN last ELSE <<>>

\* Between the two halves of the tunnel (a foreign peer is owed nothing)
\* datagrams arrive whole, once and in order, however TCP cuts the stream.
DeliversInOrder == Q!Spec
=============================================================================
