----------------------------- MODULE TunnelBridge -----------------------------
(***************************************************************************)
(* A player's end of the tunnel: crossover-tunnel between the games that   *)
(* are pointed at it and the server.  A game opens a UDP socket on a port  *)
(* of the system's choice for each session (Network::Connect) and closes   *)
(* it when it disconnects; the tunnel is left running from one session to  *)
(* the next, or ends and is started again.  With a bind address of its own *)
(* it is shared by the games of several machines.                          *)
(*                                                                         *)
(* FramedPipe shows that the TCP connection carries datagrams whole and in *)
(* order; here it is a queue, and a datagram is the address it came from.  *)
(***************************************************************************)
EXTENDS Naturals, Sequences

CONSTANTS
    Game,        \* games, one a machine
    Port,        \* ephemeral ports of a machine
    NoPort,      \* the game has no socket
    NoAddress,   \* gameKnown = 0
    MaxQueue     \* bound: datagrams in each queue

Address == Game \X Port

ASSUME BridgeAssumption ==
    /\ NoPort \notin Port
    /\ NoAddress \notin Address
    /\ MaxQueue \in Nat

VARIABLES
    socket,    \* socket[g]: the port of g's socket
    heard,     \* heard[g]: g has been answered in this session
    tunnel,    \* crossover-tunnel runs and is connected
    game,      \* the address it has latched
    local,     \* datagrams in the tunnel's UDP socket
    remote,    \* datagrams on their way to the server
    answers    \* answers on their way back

bridgeVars == <<socket, heard, tunnel, game, local, remote, answers>>
gameVars == <<socket, heard>>
tunnelVars == <<tunnel, game, local, remote, answers>>

-----------------------------------------------------------------------------
(***************************************************************************)
(* The game.                                                               *)
(***************************************************************************)
Connect(g) ==
    /\ socket[g] = NoPort
    /\ \E p \in Port : socket' = [socket EXCEPT ![g] = p]
    /\ heard' = [heard EXCEPT ![g] = FALSE]
    /\ UNCHANGED tunnelVars

\* RakNet repeats what is not answered, so a game always has more to send.
\* Without a tunnel it is sent to nobody, without room it is dropped.
GameSends(g) ==
    /\ socket[g] # NoPort
    /\ tunnel
    /\ Len(local) < MaxQueue
    /\ local' = Append(local, <<g, socket[g]>>)
    /\ UNCHANGED <<gameVars, tunnel, game, remote, answers>>

Disconnect(g) ==
    /\ socket[g] # NoPort
    /\ socket' = [socket EXCEPT ![g] = NoPort]
    /\ heard' = [heard EXCEPT ![g] = FALSE]
    /\ UNCHANGED tunnelVars

-----------------------------------------------------------------------------
(***************************************************************************)
(* crossover-tunnel.                                                       *)
(***************************************************************************)

\* Mutant of GameToServer: the sender's address is not stored.
GameToServerUnlatched ==
    /\ tunnel
    /\ local # <<>> /\ Len(remote) < MaxQueue
    /\ remote' = Append(remote, Head(local))
    /\ local' = Tail(local)
    /\ UNCHANGED <<gameVars, tunnel, game, answers>>

\* The first datagram's sender is the game, for good.
GameToServer ==
    /\ tunnel
    /\ local # <<>> /\ Len(remote) < MaxQueue
    /\ remote' = Append(remote, Head(local))
    /\ local' = Tail(local)
    /\ game' = IF game = NoAddress THEN Head(local) ELSE game
    /\ UNCHANGED <<gameVars, tunnel, answers>>

\* A frame of the server goes to the latched address, where nobody may be.
\* A game makes nothing of an answer to a datagram that it did not send.
ServerToGame ==
    /\ tunnel
    /\ answers # <<>>
    /\ answers' = Tail(answers)
    /\ heard' = [g \in Game |->
                    heard[g] \/ (game = <<g, socket[g]>> /\ Head(answers) = game)]
    /\ UNCHANGED <<socket, tunnel, game, local, remote>>

\* The connection or the process ends; what is on the way is lost.
TunnelEnds ==
    /\ tunnel
    /\ tunnel' = FALSE
    /\ local' = <<>>
    /\ remote' = <<>>
    /\ answers' = <<>>
    /\ game' = NoAddress
    /\ UNCHANGED gameVars

TunnelStarts ==
    /\ ~tunnel
    /\ tunnel' = TRUE
    /\ UNCHANGED <<gameVars, game, local, remote, answers>>

\* The relay, behind the server's end of the tunnel.
ServerAnswers ==
    /\ tunnel
    /\ remote # <<>> /\ Len(answers) < MaxQueue
    /\ answers' = Append(answers, Head(remote))
    /\ remote' = Tail(remote)
    /\ UNCHANGED <<gameVars, tunnel, game, local>>

-----------------------------------------------------------------------------
Init ==
    /\ socket = [g \in Game |-> NoPort]
    /\ heard = [g \in Game |-> FALSE]
    /\ tunnel = TRUE
    /\ game = NoAddress
    /\ local = <<>>
    /\ remote = <<>>
    /\ answers = <<>>

Next ==
    \/ \E g \in Game : Connect(g)
    \/ \E g \in Game : GameSends(g)
    \/ \E g \in Game : Disconnect(g)
    \/ GameToServer
    \/ ServerToGame
    \/ ServerAnswers
    \/ TunnelEnds
    \/ TunnelStarts

Spec == Init /\ [][Next]_bridgeVars

\* Tunnel and server keep running, and a game that keeps sending gets through
\* again and again; nobody has to connect, disconnect or start a tunnel.
Fairness ==
    /\ \A g \in Game : SF_bridgeVars(GameSends(g))
    /\ WF_bridgeVars(GameToServer)
    /\ WF_bridgeVars(ServerAnswers)
    /\ WF_bridgeVars(ServerToGame)

FairSpec == Spec /\ Fairness

-----------------------------------------------------------------------------
(***************************************************************************)
(* Properties.                                                             *)
(***************************************************************************)

\* Types, and a tunnel that does not run remembers nobody and carries nothing.
TypeOK ==
    /\ socket \in [Game -> Port \cup {NoPort}]
    /\ heard \in [Game -> BOOLEAN]
    /\ tunnel \in BOOLEAN
    /\ game \in Address \cup {NoAddress}
    /\ \A q \in {local, remote, answers} : q \in Seq(Address) /\ Len(q) <= MaxQueue
    /\ ~tunnel => game = NoAddress /\ <<local, remote, answers>> = << <<>>, <<>>, <<>> >>

Waits(g, p) == socket[g] = p /\ tunnel

\* g stops waiting: it is answered, it gives up, or the tunnel ends.
Answered(g, p) == heard[g] \/ socket[g] # p \/ ~tunnel

\* A game that connects is answered unless the tunnel has latched another
\* address: also the first one after a tunnel has been started again, whatever
\* port it got.
LatchedGameHears ==
    \A g \in Game, p \in Port :
        Waits(g, p) ~> Answered(g, p) \/ game \notin {NoAddress, <<g, p>>}
=============================================================================
