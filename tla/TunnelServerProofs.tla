-------------------------- MODULE TunnelServerProofs --------------------------
(***************************************************************************)
(* Proofs about TunnelServer, for any number of connections and seats:     *)
(* types, the exactness of active_ and the descriptors.                    *)
(***************************************************************************)
EXTENDS TunnelServer, FiniteSetTheorems, TLAPS

\* Accept finds what PollReady saw, unless Stop has closed the socket.
AcceptFinds == acceptor = "accept" /\ listening => backlog # <<>>

\* Stop clears running_ before anything else.
ClearedFirst == ~listening \/ stop # "no" => ~running

IInv == TypeOK /\ ActiveExact /\ SocketsClosed /\ AcceptFinds /\ ClearedFirst

\* A connection moves between two states that both count or both do not.
LEMMA SameCount ==
    ASSUME TypeOK, NEW c \in Conn, NEW from, NEW to, Moves(c, from, to),
           from \in CountedStates <=> to \in CountedStates
    PROVE  Counted' = Counted
BY DEF TypeOK, Moves, Counted

\* A connection begins to count: one more.
LEMMA OneMore ==
    ASSUME TypeOK, ActiveExact, NEW c \in Conn, Moves(c, "launched", "counted")
    PROVE  /\ active + 1 \in Nat
           /\ active + 1 = Cardinality(Counted')
<1>1. IsFiniteSet(Counted)
    BY TunnelAssumption, FS_Subset DEF Counted
<1>2. c \notin Counted /\ Counted' = Counted \cup {c}
    BY DEF TypeOK, Moves, Counted, CountedStates
<1>3. Cardinality(Counted') = Cardinality(Counted) + 1
    BY <1>1, <1>2, FS_AddElement
<1>. QED BY <1>3 DEF ActiveExact, TypeOK

\* A connection ceases to count: one less, and there was one.
LEMMA OneLess ==
    ASSUME TypeOK, ActiveExact, NEW c \in Conn, NEW from \in {"counted", "opened", "closed"},
           NEW to \in {"none", "reporting"}, Moves(c, from, to)
    PROVE  /\ active - 1 \in Nat
           /\ active - 1 = Cardinality(Counted')
<1>1. IsFiniteSet(Counted)
    BY TunnelAssumption, FS_Subset DEF Counted
<1>2. c \in Counted /\ Counted' = Counted \ {c}
    BY DEF TypeOK, Moves, Counted, CountedStates
<1>3. Cardinality(Counted') = Cardinality(Counted) - 1
    BY <1>1, <1>2, FS_RemoveElement
<1>4. Cardinality(Counted) \in Nat /\ Cardinality(Counted') \in Nat
    BY <1>1, <1>2, FS_CardinalityType, FS_Subset
<1>. QED BY <1>3, <1>4 DEF ActiveExact

\* The invariant holds when Start has returned.
THEOREM InitIInv == Init => IInv
<1>. SUFFICES ASSUME Init PROVE IInv
    OBVIOUS
<1>1. Counted = {}
    BY DEF Init, Counted, CountedStates
<1>2. ActiveExact
    BY <1>1, FS_EmptySet DEF Init, ActiveExact
<1>. QED BY <1>2 DEF Init, IInv, TypeOK, WorkerState, SocketsClosed, AcceptFinds,
    ClearedFirst

\* Steps that move nothing, count nothing and open nothing.
LEMMA IdleStep ==
    ASSUME IInv, UNCHANGED <<worker, sockets, active>>,
           TypeOK', AcceptFinds', ClearedFirst'
    PROVE  IInv'
BY DEF IInv, ActiveExact, Counted, SocketsClosed

\* The accept loop preserves the invariant.
LEMMA AcceptLoopStep == ASSUME IInv, AcceptLoop PROVE IInv'
<1>1. CASE PollReady
    BY <1>1, IdleStep DEF PollReady, IInv, TypeOK, AcceptFinds, ClearedFirst
<1>2. CASE AcceptLoopEnds
    BY <1>2, IdleStep DEF AcceptLoopEnds, IInv, TypeOK, AcceptFinds, ClearedFirst
<1>3. CASE AcceptFails
    <2>1. backlog' \in Seq(Conn)
        <3>1. CASE UNCHANGED backlog
            BY <3>1 DEF IInv, TypeOK
        <3>2. CASE listening /\ backlog' = Tail(backlog)
            <4>1. backlog \in Seq(Conn) /\ backlog # <<>>
                BY <1>3, <3>2 DEF AcceptFails, IInv, TypeOK, AcceptFinds
            <4>. QED BY <3>2, <4>1
        <3>. QED BY <1>3, <3>1, <3>2 DEF AcceptFails
    <2>. QED BY <1>3, <2>1, IdleStep DEF AcceptFails, IInv, TypeOK, AcceptFinds, ClearedFirst
<1>4. CASE Accept
    <2>. DEFINE c == Head(backlog)
    <2>1. backlog \in Seq(Conn) /\ backlog # <<>>
        BY <1>4 DEF Accept, IInv, TypeOK, AcceptFinds
    <2>2. c \in Conn /\ Tail(backlog) \in Seq(Conn)
        BY <2>1
    <2>3. Counted' = Counted
        BY <1>4, <2>2, SameCount DEF Accept, IInv, CountedStates
    <2>4. TypeOK'
        BY <1>4, <2>2 DEF Accept, Moves, IInv, TypeOK, WorkerState
    <2>5. SocketsClosed'
        BY <1>4, <2>2 DEF Accept, Moves, IInv, TypeOK, SocketsClosed
    <2>. QED BY <1>4, <2>3, <2>4, <2>5 DEF Accept, IInv, ActiveExact, AcceptFinds,
        ClearedFirst
<1>5. ASSUME NEW c \in Conn, Refuse(c) PROVE IInv'
    <2>1. Counted' = Counted
        BY <1>5, SameCount DEF Refuse, IInv, CountedStates
    <2>2. TypeOK'
        BY <1>5 DEF Refuse, Moves, IInv, TypeOK, WorkerState
    <2>3. SocketsClosed'
        BY <1>5 DEF Refuse, Moves, IInv, TypeOK, SocketsClosed
    <2>. QED BY <1>5, <2>1, <2>2, <2>3 DEF Refuse, IInv, ActiveExact, AcceptFinds,
        ClearedFirst
<1>6. ASSUME NEW c \in Conn, Launch(c) PROVE IInv'
    <2>1. Counted' = Counted
        BY <1>6, SameCount DEF Launch, IInv, CountedStates
    <2>2. TypeOK'
        BY <1>6 DEF Launch, Moves, IInv, TypeOK, WorkerState
    <2>3. SocketsClosed'
        BY <1>6 DEF Launch, Moves, IInv, TypeOK, SocketsClosed
    <2>. QED BY <1>6, <2>1, <2>2, <2>3 DEF Launch, IInv, ActiveExact, AcceptFinds,
        ClearedFirst
<1>. QED BY <1>1, <1>2, <1>3, <1>4, <1>5, <1>6 DEF AcceptLoop

\* What a worker does preserves the invariant.
LEMMA WorkerStep ==
    ASSUME IInv, NEW c \in Conn, Proceeds(c) \/ Disturbed(c) PROVE IInv'
<1>. USE DEF IInv
<1>1. CASE Count(c)
    <2>1. ActiveExact' /\ active' \in Nat
        BY <1>1, OneMore DEF Count, ActiveExact
    <2>2. TypeOK'
        BY <1>1, <2>1 DEF Count, Moves, TypeOK, WorkerState
    <2>3. SocketsClosed'
        BY <1>1 DEF Count, Moves, TypeOK, SocketsClosed
    <2>. QED BY <1>1, <2>1, <2>2, <2>3 DEF Count, AcceptFinds, ClearedFirst
<1>2. CASE OpenUdp(c)
    <2>1. Counted' = Counted
        BY <1>2, SameCount DEF OpenUdp, CountedStates
    <2>2. TypeOK'
        BY <1>2 DEF OpenUdp, Moves, TypeOK, WorkerState
    <2>3. SocketsClosed'
        BY <1>2 DEF OpenUdp, Moves, TypeOK, SocketsClosed
    <2>. QED BY <1>2, <2>1, <2>2, <2>3 DEF OpenUdp, ActiveExact, AcceptFinds,
        ClearedFirst
<1>3. CASE UdpFails(c) \/ BindFails(c)
    <2>1. PICK from \in {"counted", "opened"} :
            /\ Moves(c, from, "none")
            /\ from = "counted" => sockets' = sockets \ {<<c, "tcp">>}
            /\ from = "opened" => sockets' = sockets \ {<<c, "udp">>, <<c, "tcp">>}
        BY <1>3 DEF UdpFails, BindFails
    <2>2. /\ active' = active - 1
          /\ UNCHANGED <<running, listening, backlog, acceptor, stop>>
        BY <1>3 DEF UdpFails, BindFails
    <2>3. ActiveExact' /\ active' \in Nat
        BY <2>1, <2>2, OneLess DEF ActiveExact
    <2>4. TypeOK'
        BY <2>1, <2>2, <2>3 DEF Moves, TypeOK, WorkerState
    <2>5. SocketsClosed'
        BY <2>1 DEF Moves, TypeOK, SocketsClosed
    <2>. QED BY <2>2, <2>3, <2>4, <2>5 DEF AcceptFinds, ClearedFirst
<1>4. CASE BindUdp(c) \/ WriteEnds(c) \/ SeesStop(c) \/ WriteBegins(c) \/ LinkBreaks(c)
    <2>1. PICK from \in {"opened", "pumping", "writing"},
               to \in {"pumping", "writing", "leaving"} : Moves(c, from, to)
        BY <1>4 DEF BindUdp, WriteEnds, SeesStop, WriteBegins, LinkBreaks
    <2>2. UNCHANGED <<running, listening, backlog, acceptor, sockets, active, stop>>
        BY <1>4 DEF BindUdp, WriteEnds, SeesStop, WriteBegins, LinkBreaks
    <2>3. Counted' = Counted
        BY <2>1, SameCount DEF CountedStates
    <2>4. TypeOK'
        BY <2>1, <2>2 DEF Moves, TypeOK, WorkerState
    <2>5. SocketsClosed'
        BY <2>1, <2>2 DEF Moves, TypeOK, SocketsClosed
    <2>. QED BY <2>2, <2>3, <2>4, <2>5 DEF ActiveExact, AcceptFinds, ClearedFirst
<1>5. CASE CloseSockets(c)
    <2>1. Counted' = Counted
        BY <1>5, SameCount DEF CloseSockets, CountedStates
    <2>2. TypeOK'
        BY <1>5 DEF CloseSockets, Moves, TypeOK, WorkerState
    <2>3. SocketsClosed'
        BY <1>5 DEF CloseSockets, Moves, TypeOK, SocketsClosed
    <2>. QED BY <1>5, <2>1, <2>2, <2>3 DEF CloseSockets, ActiveExact, AcceptFinds,
        ClearedFirst
<1>6. CASE Uncount(c)
    <2>1. ActiveExact' /\ active' \in Nat
        BY <1>6, OneLess DEF Uncount, ActiveExact
    <2>2. TypeOK'
        BY <1>6, <2>1 DEF Uncount, Moves, TypeOK, WorkerState
    <2>3. SocketsClosed'
        BY <1>6 DEF Uncount, Moves, TypeOK, SocketsClosed
    <2>. QED BY <1>6, <2>1, <2>2, <2>3 DEF Uncount, AcceptFinds, ClearedFirst
<1>7. CASE Report(c)
    <2>1. Counted' = Counted
        BY <1>7, SameCount DEF Report, CountedStates
    <2>2. TypeOK'
        BY <1>7 DEF Report, Moves, TypeOK, WorkerState
    <2>3. SocketsClosed'
        BY <1>7 DEF Report, Moves, TypeOK, SocketsClosed
    <2>. QED BY <1>7, <2>1, <2>2, <2>3 DEF Report, ActiveExact, AcceptFinds,
        ClearedFirst
<1>. QED BY <1>1, <1>2, <1>3, <1>4, <1>5, <1>6, <1>7 DEF Proceeds, Disturbed

\* Every interleaving of acceptor, workers and Stop preserves the invariant.
THEOREM NextIInv == IInv /\ [Next]_tunnelVars => IInv'
<1>. SUFFICES ASSUME IInv, [Next]_tunnelVars PROVE IInv'
    OBVIOUS
<1>1. ASSUME NEW c \in Conn, Arrives(c) PROVE IInv'
    <2>1. backlog' \in Seq(Conn) /\ backlog' # <<>>
        BY <1>1 DEF Arrives, IInv, TypeOK
    <2>. QED BY <1>1, <2>1, IdleStep DEF Arrives, IInv, TypeOK, AcceptFinds, ClearedFirst
<1>2. CASE StopBegins
    BY <1>2, IdleStep DEF StopBegins, IInv, TypeOK, AcceptFinds, ClearedFirst
<1>3. CASE StopCloses
    <2>1. ~running'
        BY <1>3 DEF StopCloses, IInv, ClearedFirst
    <2>2. backlog' \in Seq(Conn)
        BY <1>3 DEF StopCloses
    <2>3. TypeOK'
        BY <1>3, <2>2 DEF StopCloses, IInv, TypeOK
    <2>4. AcceptFinds' /\ ClearedFirst'
        BY <1>3, <2>1 DEF StopCloses, AcceptFinds, ClearedFirst
    <2>. QED BY <1>3, <2>3, <2>4, IdleStep DEF StopCloses
<1>4. CASE StopJoins
    BY <1>4, IdleStep DEF StopJoins, IInv, TypeOK, AcceptFinds, ClearedFirst
<1>5. CASE StopReturns
    BY <1>5, IdleStep DEF StopReturns, IInv, TypeOK, AcceptFinds, ClearedFirst
<1>6. CASE UNCHANGED tunnelVars
    BY <1>6, IdleStep DEF tunnelVars, IInv, TypeOK, AcceptFinds, ClearedFirst
<1>. QED BY <1>1, <1>2, <1>3, <1>4, <1>5, <1>6, AcceptLoopStep, WorkerStep
    DEF Next, StopSteps

\* The invariant holds throughout: the induction over the steps.
THEOREM Inductive == Spec => []IInv
BY InitIInv, NextIInv, PTL DEF Spec

\* active_ is never negative and every variable keeps its type.
THEOREM TypeCorrect == Spec => []TypeOK
BY Inductive, PTL DEF IInv

\* active_ is exactly the number of workers between increment and decrement.
THEOREM CounterExact == Spec => []ActiveExact
BY Inductive, PTL DEF IInv

\* No path leaves a descriptor open, the two early returns included, and none is
\* closed under a worker's feet.
THEOREM DescriptorsClosed == Spec => []SocketsClosed
BY Inductive, PTL DEF IInv
=============================================================================
