----------------------------- MODULE TunnelServer -----------------------------
(***************************************************************************)
(* The threads of Server/src/Tunnel.cpp: the acceptor, one detached worker *)
(* per connection, and main, which calls Stop.  They share running_,       *)
(* active_ and the listening socket.  What a worker carries is the subject *)
(* of FramedPipe; here it waits, may be held up writing, and ends.         *)
(***************************************************************************)
EXTENDS Naturals, Sequences, FiniteSets, SequencesExt

CONSTANTS
    Conn,             \* TCP connections that players may open
    MaxConnections    \* maxConnections_

ASSUME TunnelAssumption == MaxConnections \in Nat \ {0} /\ IsFiniteSet(Conn)

VARIABLES
    running,     \* running_
    listening,   \* listenFd_ is open
    backlog,     \* connections waiting to be accepted, oldest first
    acceptor,    \* where AcceptLoop is
    worker,      \* where each connection is: with the acceptor or in a worker
    sockets,     \* open descriptors, by connection
    active,      \* active_
    stop         \* where Stop is

tunnelVars ==
    <<running, listening, backlog, acceptor, worker, sockets, active, stop>>

\* "launched": the thread exists and has not yet run; "counted": active_ is
\* incremented; "opened": the UDP socket exists and is not bound; "closed":
\* active_ is not yet decremented; "reporting": it is, and the worker still
\* reads it for the log.
WorkerState == {"none", "inHand", "launched", "counted", "opened", "pumping",
                "writing", "leaving", "closed", "reporting"}

Moves(c, from, to) ==
    /\ worker[c] = from
    /\ worker' = [worker EXCEPT ![c] = to]

-----------------------------------------------------------------------------
(***************************************************************************)
(* AcceptLoop.  The listening socket is ready while something waits; the   *)
(* loop's condition and the check after poll read running_.                *)
(***************************************************************************)
Arrives(c) ==
    /\ listening
    /\ worker[c] = "none"
    /\ ~Contains(backlog, c)
    /\ backlog' = Append(backlog, c)
    /\ UNCHANGED <<running, listening, acceptor, worker, sockets, active, stop>>

PollReady ==
    /\ acceptor = "poll"
    /\ running
    /\ backlog # <<>>
    /\ acceptor' = "accept"
    /\ UNCHANGED <<running, listening, backlog, worker, sockets, active, stop>>

AcceptLoopEnds ==
    /\ acceptor = "poll"
    /\ ~running
    /\ acceptor' = "off"
    /\ UNCHANGED <<running, listening, backlog, worker, sockets, active, stop>>

Accept ==
    /\ acceptor = "accept"
    /\ listening
    /\ Moves(Head(backlog), "none", "inHand")
    /\ sockets' = sockets \cup {<<Head(backlog), "tcp">>}
    /\ backlog' = Tail(backlog)
    /\ acceptor' = "check"
    /\ UNCHANGED <<running, listening, active, stop>>

\* Stop has closed the listening socket meanwhile; or there is no descriptor
\* to be had, and the connection stays, or it was aborted, and is gone.
AcceptFails ==
    /\ acceptor = "accept"
    /\ \/ UNCHANGED backlog
       \/ listening /\ backlog' = Tail(backlog)
    /\ acceptor' = "poll"
    /\ UNCHANGED <<running, listening, worker, sockets, active, stop>>

\* Mutant of Refuse: the loop ends instead of going on.
RefuseThenEnd(c) ==
    /\ acceptor = "check"
    /\ active >= MaxConnections
    /\ Moves(c, "inHand", "none")
    /\ sockets' = sockets \ {<<c, "tcp">>}
    /\ acceptor' = "off"
    /\ UNCHANGED <<running, listening, backlog, active, stop>>

Refuse(c) ==
    /\ acceptor = "check"
    /\ active >= MaxConnections
    /\ Moves(c, "inHand", "none")
    /\ sockets' = sockets \ {<<c, "tcp">>}
    /\ acceptor' = "poll"
    /\ UNCHANGED <<running, listening, backlog, active, stop>>

\* The detached thread; nothing is counted yet.
Launch(c) ==
    /\ acceptor = "check"
    /\ active < MaxConnections
    /\ Moves(c, "inHand", "launched")
    /\ acceptor' = "poll"
    /\ UNCHANGED <<running, listening, backlog, sockets, active, stop>>

-----------------------------------------------------------------------------
(***************************************************************************)
(* PumpConnection.                                                         *)
(***************************************************************************)
Count(c) ==
    /\ Moves(c, "launched", "counted")
    /\ active' = active + 1
    /\ UNCHANGED <<running, listening, backlog, acceptor, sockets, stop>>

OpenUdp(c) ==
    /\ Moves(c, "counted", "opened")
    /\ sockets' = sockets \cup {<<c, "udp">>}
    /\ UNCHANGED <<running, listening, backlog, acceptor, active, stop>>

\* Mutant of UdpFails: the early return forgets the counter.
UdpFailsUncounted(c) ==
    /\ Moves(c, "counted", "none")
    /\ sockets' = sockets \ {<<c, "tcp">>}
    /\ UNCHANGED <<running, listening, backlog, acceptor, active, stop>>

\* socket() fails: there is one descriptor to close.
UdpFails(c) ==
    /\ Moves(c, "counted", "none")
    /\ sockets' = sockets \ {<<c, "tcp">>}
    /\ active' = active - 1
    /\ UNCHANGED <<running, listening, backlog, acceptor, stop>>

BindUdp(c) ==
    /\ Moves(c, "opened", "pumping")
    /\ UNCHANGED <<running, listening, backlog, acceptor, sockets, active, stop>>

\* Mutant of BindFails: the second early return closes what the first does.
BindFailsOpen(c) ==
    /\ Moves(c, "opened", "none")
    /\ sockets' = sockets \ {<<c, "tcp">>}
    /\ active' = active - 1
    /\ UNCHANGED <<running, listening, backlog, acceptor, stop>>

\* bind() fails: there are two.
BindFails(c) ==
    /\ Moves(c, "opened", "none")
    /\ sockets' = sockets \ {<<c, "udp">>, <<c, "tcp">>}
    /\ active' = active - 1
    /\ UNCHANGED <<running, listening, backlog, acceptor, stop>>

\* A datagram came from the relay: WriteAll, for as long as there are more.
WriteBegins(c) ==
    /\ running
    /\ Moves(c, "pumping", "writing")
    /\ UNCHANGED <<running, listening, backlog, acceptor, sockets, active, stop>>

\* The descriptor blocks and has no timeout: a write lasts until the peer has
\* read enough, or the connection is lost.
WriteEnds(c) ==
    /\ Moves(c, "writing", "pumping") \/ Moves(c, "writing", "leaving")
    /\ UNCHANGED <<running, listening, backlog, acceptor, sockets, active, stop>>

\* The player hangs up, an error, or a bad frame: the loop breaks.
LinkBreaks(c) ==
    /\ running
    /\ Moves(c, "pumping", "leaving")
    /\ UNCHANGED <<running, listening, backlog, acceptor, sockets, active, stop>>

\* Mutant of SeesStop: the loop does not look at running_.
NeverSeesStop(c) == FALSE /\ UNCHANGED tunnelVars

SeesStop(c) ==
    /\ ~running
    /\ Moves(c, "pumping", "leaving")
    /\ UNCHANGED <<running, listening, backlog, acceptor, sockets, active, stop>>

CloseSockets(c) ==
    /\ Moves(c, "leaving", "closed")
    /\ sockets' = sockets \ {<<c, "udp">>, <<c, "tcp">>}
    /\ UNCHANGED <<running, listening, backlog, acceptor, active, stop>>

Uncount(c) ==
    /\ Moves(c, "closed", "reporting")
    /\ active' = active - 1
    /\ UNCHANGED <<running, listening, backlog, acceptor, sockets, stop>>

Report(c) ==
    /\ Moves(c, "reporting", "none")
    /\ UNCHANGED <<running, listening, backlog, acceptor, sockets, active, stop>>

-----------------------------------------------------------------------------
(***************************************************************************)
(* Stop, on main's thread.                                                 *)
(***************************************************************************)
StopBegins ==
    /\ stop = "no"
    /\ running' = FALSE
    /\ stop' = "closing"
    /\ UNCHANGED <<listening, backlog, acceptor, worker, sockets, active>>

StopCloses ==
    /\ stop = "closing"
    /\ listening' = FALSE
    /\ backlog' = <<>>
    /\ stop' = "joining"
    /\ UNCHANGED <<running, acceptor, worker, sockets, active>>

StopJoins ==
    /\ stop = "joining"
    /\ acceptor = "off"
    /\ stop' = "draining"
    /\ UNCHANGED <<running, listening, backlog, acceptor, worker, sockets, active>>

\* The loop of 40 waits ends: because nothing is active, or with a warning.
StopReturns ==
    /\ stop = "draining"
    /\ stop' = IF active = 0 THEN "drained" ELSE "warned"
    /\ UNCHANGED <<running, listening, backlog, acceptor, worker, sockets, active>>

-----------------------------------------------------------------------------
Init ==
    /\ running = TRUE
    /\ listening = TRUE
    /\ backlog = <<>>
    /\ acceptor = "poll"
    /\ worker = [c \in Conn |-> "none"]
    /\ sockets = {}
    /\ active = 0
    /\ stop = "no"

AcceptLoop ==
    \/ PollReady
    \/ AcceptLoopEnds
    \/ Accept
    \/ AcceptFails
    \/ \E c \in Conn : Refuse(c) \/ Launch(c)

\* What a worker does of its own accord.
Proceeds(c) ==
    \/ Count(c)
    \/ OpenUdp(c)
    \/ UdpFails(c)
    \/ BindUdp(c)
    \/ BindFails(c)
    \/ SeesStop(c)
    \/ CloseSockets(c)
    \/ Uncount(c)
    \/ Report(c)

\* What the network makes it do, or lets it do.
Disturbed(c) == WriteBegins(c) \/ WriteEnds(c) \/ LinkBreaks(c)

StopSteps == StopCloses \/ StopJoins \/ StopReturns

Next ==
    \/ \E c \in Conn : Arrives(c) \/ Proceeds(c) \/ Disturbed(c)
    \/ AcceptLoop
    \/ StopBegins
    \/ StopSteps

Spec == Init /\ [][Next]_tunnelVars

\* Every thread is scheduled, and poll has a timeout; but a player need not
\* read, connect or hang up, and Stop need not be called.  Accept does not fail
\* for ever: an aborted connection is gone, and the tunnel's own descriptors,
\* two for each of 64 players at most, are below the limit of a process.
Fairness ==
    /\ WF_tunnelVars(AcceptLoop)
    /\ SF_tunnelVars(Accept)
    /\ WF_tunnelVars(StopSteps)
    /\ \A c \in Conn : WF_tunnelVars(Proceeds(c))

FairSpec == Spec /\ Fairness

-----------------------------------------------------------------------------
(***************************************************************************)
(* Properties.                                                             *)
(***************************************************************************)
TypeOK ==
    /\ running \in BOOLEAN
    /\ listening \in BOOLEAN
    /\ backlog \in Seq(Conn)
    /\ acceptor \in {"poll", "accept", "check", "off"}
    /\ worker \in [Conn -> WorkerState]
    /\ sockets \subseteq Conn \X {"tcp", "udp"}
    /\ active \in Nat
    /\ stop \in {"no", "closing", "joining", "draining", "drained", "warned"}

CountedStates == {"counted", "opened", "pumping", "writing", "leaving", "closed"}

Counted == {c \in Conn : worker[c] \in CountedStates}

\* active_ is the number of workers between their increment and their
\* decrement, on every path out of PumpConnection: no seat is lost for good
\* or given twice.
ActiveExact == active = Cardinality(Counted)

\* Every descriptor is closed on every path, and none is closed under a worker
\* that uses it: refusals, both early returns, of which only the second has a
\* UDP socket to close, Stop, and connections accepted while Stop runs.
SocketsClosed ==
    \A c \in Conn :
        /\ <<c, "tcp">> \in sockets <=>
            worker[c] \notin {"none", "closed", "reporting"}
        /\ <<c, "udp">> \in sockets <=>
            worker[c] \in {"opened", "pumping", "writing", "leaving"}

\* A player who connects is accepted or refused, or the tunnel stops.
EveryoneAnswered == \A c \in Conn : Contains(backlog, c) ~> ~Contains(backlog, c)

\* Once running_ is cleared every worker ends for good, the ones launched later
\* included, but for a worker whose player never reads again: it is held in
\* send (Tunnel.cpp:31), where it does not poll running_ as line 99 says.
WorkersUnwind ==
    \A c \in Conn :
        ~running ~> [](worker[c] = "none") \/ [](worker[c] = "writing")
=============================================================================
