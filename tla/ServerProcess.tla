---------------------------- MODULE ServerProcess ----------------------------
(***************************************************************************)
(* The server process: main of Server/src/main.cpp, from the environment   *)
(* to its return, over several deployments on one volume.  It composes     *)
(* ServerConfig (what main starts with), TunnelServer (whose Stop main     *)
(* runs), the status server's thread, and of the relay what outlasts it:   *)
(* the rendezvous point and its save.  The process may be killed between   *)
(* any two steps, of the save too.                                         *)
(*                                                                         *)
(* What players do to each other is RelayServer's subject.  Here a tick    *)
(* may move the anchor, the point of the player that newcomers are sent    *)
(* to, or find nobody in the world.                                        *)
(***************************************************************************)
EXTENDS TunnelServer, ServerConfig

CONSTANTS
    Spot,       \* positions, which clients send: any three floats
    NoSpot,     \* no point known
    Text,       \* lines of text
    Printed,    \* what << writes of a position
    Scanned,    \* what >> reads of a line: a position, or it refuses
    MaxRuns     \* bound: deployments

NoFile == "no file"
Empty == "empty"

ASSUME ProcessAssumption ==
    /\ NoSpot \notin Spot
    /\ {NoFile, Empty} \cap Text = {}
    /\ MaxRuns \in Nat \ {0}
    /\ \A e \in Environments : FromEnvironment(e).maxPlayers = MaxConnections

\* Six digits are what a float keeps (FLT_DIG): a position read from a text is
\* printed as one that reads the same.  Not every position is read as itself,
\* and one with a NaN or an infinity is printed as words, which >> refuses.
ASSUME ConversionAssumption ==
    /\ Printed \in [Spot -> Text]
    /\ Scanned \in [Text -> Spot \cup {NoSpot}]
    /\ \A s \in Spot :
        LET back == Scanned[Printed[s]]
        IN  back # NoSpot => Scanned[Printed[back]] = back

VARIABLES
    main,        \* where main is
    sigterm,     \* g_stop
    runs,        \* deployments so far
    relay,       \* "none": no peer_; "up"; "stopping": in its Stop
    anchor,      \* where the anchor player is
    persisted,   \* persistedAnchor_
    file,        \* the state file: no file, empty, or a line of text
    harmed,      \* history: the last save of this process has failed
    status,      \* running_ and the listening socket of the status server
    server       \* where its thread is

configState == <<env, config, read>>
relayState == <<relay, anchor, persisted>>
volume == <<file, harmed>>
statusState == <<status, server>>
processState == <<main, sigterm, runs>>
processVars ==
    <<tunnelVars, configState, relayState, volume, statusState, processState>>

\* Where the next step of main is due; "dead": there is no process.
MainState ==
    {"dead", "config", "relay", "tunnel", "status", "tick", "save", "write",
     "stopStatus", "closeStatus", "joinStatus", "stopTunnel", "stopRelay",
     "farewell", "returned"}

MainMoves(from, to) == main = from /\ main' = to /\ UNCHANGED <<sigterm, runs>>

-----------------------------------------------------------------------------
(***************************************************************************)
(* The tunnel server: as constructed, and after its Start.                 *)
(***************************************************************************)
TunnelConstructed ==
    /\ running' = FALSE
    /\ listening' = FALSE
    /\ backlog' = <<>>
    /\ acceptor' = "off"
    /\ worker' = [c \in Conn |-> "none"]
    /\ sockets' = {}
    /\ active' = 0
    /\ stop' = "no"

TunnelStart ==
    /\ running' = TRUE
    /\ listening' = TRUE
    /\ acceptor' = "poll"
    /\ UNCHANGED <<backlog, worker, sockets, active, stop>>

-----------------------------------------------------------------------------
(***************************************************************************)
(* The rendezvous point: what Snapshot shows, and the save.                *)
(***************************************************************************)
Rendezvous == IF anchor # NoSpot THEN anchor ELSE persisted

\* What LoadPersistedAnchor makes of a state file.
Loaded(f) == IF f \in Text THEN Scanned[f] ELSE NoSpot

\* Where main goes on after a save: in the loop, or in RelayServer::Stop.
AfterSave == IF relay = "up" THEN "tick" ELSE "farewell"

\* Nothing to save, or no volume to save to; else the file is truncated.
SaveBegins ==
    /\ main = "save"
    /\ \/ /\ anchor = NoSpot
          /\ main' = AfterSave
          /\ UNCHANGED volume
       \/ /\ anchor # NoSpot
          /\ main' = AfterSave
          /\ harmed' = TRUE
          /\ UNCHANGED file
       \/ /\ anchor # NoSpot
          /\ main' = "write"
          /\ file' = Empty
          /\ UNCHANGED harmed
    /\ UNCHANGED <<tunnelVars, configState, relayState, statusState, sigterm, runs>>

\* Mutant of SaveWrites: the server does not remember what it has saved.
SaveForgets ==
    /\ MainMoves("write", AfterSave)
    /\ file' = Printed[anchor]
    /\ harmed' = FALSE
    /\ UNCHANGED <<relayState, tunnelVars, configState, statusState>>

\* The point is written as text, and remembered as it is; a write that fails
\* goes unnoticed.
SaveWrites ==
    /\ MainMoves("write", AfterSave)
    /\ \/ file' = Printed[anchor] /\ harmed' = FALSE
       \/ harmed' = TRUE /\ UNCHANGED file
    /\ persisted' = anchor
    /\ UNCHANGED <<relay, anchor, tunnelVars, configState, statusState>>

-----------------------------------------------------------------------------
(***************************************************************************)
(* main, from its first line to the loop.                                  *)
(***************************************************************************)
ReadConfig ==
    /\ MainMoves("config", "relay")
    /\ Read
    /\ UNCHANGED <<tunnelVars, relayState, volume, statusState>>

\* RelayServer::Start, which loads the state file, or its failure.
StartRelay ==
    /\ \/ /\ MainMoves("relay", "tunnel")
          /\ relay' = "up"
          /\ persisted' = Loaded(file)
       \/ /\ MainMoves("relay", "returned")
          /\ UNCHANGED <<relay, persisted>>
    /\ UNCHANGED <<anchor, tunnelVars, configState, volume, statusState>>

\* Mutant of StartTunnel: the relay is not stopped when the tunnel fails.
StartTunnelOrReturn ==
    /\ \/ /\ MainMoves("tunnel", "status")
          /\ IF config.tunnelEnabled THEN TunnelStart ELSE UNCHANGED tunnelVars
       \/ /\ config.tunnelEnabled
          /\ MainMoves("tunnel", "returned")
          /\ UNCHANGED tunnelVars
    /\ UNCHANGED <<relayState, configState, volume, statusState>>

StartTunnel ==
    /\ \/ /\ MainMoves("tunnel", "status")
          /\ IF config.tunnelEnabled THEN TunnelStart ELSE UNCHANGED tunnelVars
       \/ /\ config.tunnelEnabled
          /\ MainMoves("tunnel", "stopRelay")
          /\ UNCHANGED tunnelVars
    /\ UNCHANGED <<relayState, configState, volume, statusState>>

\* A status server that is switched off or cannot listen is done without.
StartStatus ==
    /\ MainMoves("status", "tick")
    /\ \/ UNCHANGED statusState
       \/ /\ config.statusPort # 0
          /\ listening => config.statusPort # config.tunnelPort
          /\ status' = "listening"
          /\ server' = "poll"
    /\ UNCHANGED <<tunnelVars, configState, relayState, volume>>

\* RelayServer::Tick: packets move the anchor; every ten seconds there is a
\* save.
Tick ==
    /\ ~sigterm
    /\ \/ /\ MainMoves("tick", "tick")
          /\ anchor' \in Spot \cup {NoSpot}
       \/ /\ MainMoves("tick", "save")
          /\ UNCHANGED anchor
    /\ UNCHANGED <<relay, persisted, tunnelVars, configState, volume, statusState>>

-----------------------------------------------------------------------------
(***************************************************************************)
(* main, from the signal to its return.                                    *)
(***************************************************************************)
Signal ==
    /\ main \notin {"dead", "returned"}
    /\ ~sigterm
    /\ sigterm' = TRUE
    /\ UNCHANGED <<main, runs, tunnelVars, configState, relayState, volume, statusState>>

\* Mutant of LoopEnds: the relay goes first.
LoopEndsWithRelay ==
    /\ sigterm
    /\ MainMoves("tick", "stopRelay")
    /\ UNCHANGED <<tunnelVars, configState, relayState, volume, statusState>>

LoopEnds ==
    /\ sigterm
    /\ MainMoves("tick", "stopStatus")
    /\ UNCHANGED <<tunnelVars, configState, relayState, volume, statusState>>

\* StatusServer::Stop in its three steps, on main's thread.
StopStatus ==
    /\ \/ /\ status = "off"
          /\ MainMoves("stopStatus", "stopTunnel")
          /\ UNCHANGED status
       \/ /\ status = "listening"
          /\ MainMoves("stopStatus", "closeStatus")
          /\ status' = "stopping"
    /\ UNCHANGED <<server, tunnelVars, configState, relayState, volume>>

CloseStatus ==
    /\ MainMoves("closeStatus", "joinStatus")
    /\ status' = "off"
    /\ UNCHANGED <<server, tunnelVars, configState, relayState, volume>>

\* Mutant of JoinStatus: main does not wait for the thread.
JoinStatusAtOnce ==
    /\ MainMoves("joinStatus", "stopTunnel")
    /\ UNCHANGED <<tunnelVars, configState, relayState, volume, statusState>>

JoinStatus ==
    /\ server = "off"
    /\ MainMoves("joinStatus", "stopTunnel")
    /\ UNCHANGED <<tunnelVars, configState, relayState, volume, statusState>>

\* TunnelServer::Stop: its steps, until it has returned.
StopTunnel ==
    \/ /\ main = "stopTunnel" /\ config.tunnelEnabled
       /\ StopBegins \/ StopSteps
       /\ UNCHANGED <<processState, configState, relayState, volume, statusState>>
    \/ /\ config.tunnelEnabled => stop \in {"drained", "warned"}
       /\ MainMoves("stopTunnel", "stopRelay")
       /\ UNCHANGED <<tunnelVars, configState, relayState, volume, statusState>>

\* Mutant of StopRelay: what is known is not saved.
StopRelayUnsaved ==
    /\ MainMoves("stopRelay", "farewell")
    /\ relay' = "stopping"
    /\ UNCHANGED <<anchor, persisted, tunnelVars, configState, volume, statusState>>

\* RelayServer::Stop: a save, the farewell, the end of the peer.
StopRelay ==
    /\ MainMoves("stopRelay", "save")
    /\ relay' = "stopping"
    /\ UNCHANGED <<anchor, persisted, tunnelVars, configState, volume, statusState>>

Farewell ==
    /\ MainMoves("farewell", "returned")
    /\ relay' = "none"
    /\ anchor' = NoSpot
    /\ UNCHANGED <<persisted, tunnelVars, configState, volume, statusState>>

-----------------------------------------------------------------------------
(***************************************************************************)
(* StatusServer::ServeLoop.  It reads running_ and the listening socket    *)
(* afresh at each step; requests come at any time.                         *)
(***************************************************************************)
ServerMoves(from, to) ==
    /\ server = from
    /\ server' = to
    /\ UNCHANGED <<status, tunnelVars, configState, relayState, volume, processState>>

StatusPolls == status = "listening" /\ ServerMoves("poll", "accept")

\* Mutant of StatusLoopEnds: the loop does not look at running_.
StatusLoopGoesOn == FALSE /\ ServerMoves("poll", "off")

StatusLoopEnds == status # "listening" /\ ServerMoves("poll", "off")

\* The socket is gone, or a client is there, and its request, or none, comes.
StatusAccepts ==
    \/ ServerMoves("accept", "poll")
    \/ status # "off" /\ ServerMoves("accept", "read")

\* GET / asks the relay and the tunnel; GET /health and the rest do not.
StatusReads == ServerMoves("read", "ask") \/ ServerMoves("read", "poll")

StatusAnswers == ServerMoves("ask", "poll")

StatusLoop ==
    \/ StatusPolls
    \/ StatusLoopEnds
    \/ StatusAccepts
    \/ StatusReads
    \/ StatusAnswers

-----------------------------------------------------------------------------
(***************************************************************************)
(* The process begins and ends.                                            *)
(***************************************************************************)

\* Nothing is left of a process but the volume.
Vanishes ==
    /\ main' = "dead"
    /\ sigterm' = FALSE
    /\ TunnelConstructed
    /\ config' = Defaults /\ read' = FALSE
    /\ relay' = "none" /\ anchor' = NoSpot /\ persisted' = NoSpot
    /\ status' = "off" /\ server' = "off"
    /\ harmed' = FALSE
    /\ UNCHANGED <<env, runs, file>>

Exit == main = "returned" /\ Vanishes

\* SIGKILL, or a crash; between truncation and write the point is lost.
Killed == main \notin {"dead", "returned"} /\ Vanishes

Deploy ==
    /\ main = "dead"
    /\ runs < MaxRuns
    /\ main' = "config"
    /\ runs' = runs + 1
    /\ UNCHANGED <<sigterm, tunnelVars, configState, relayState, volume, statusState>>

ProcessInit ==
    /\ ConfigInit
    /\ running = FALSE /\ listening = FALSE /\ backlog = <<>> /\ acceptor = "off"
    /\ worker = [c \in Conn |-> "none"]
    /\ sockets = {} /\ active = 0 /\ stop = "no"
    /\ main = "dead" /\ sigterm = FALSE /\ runs = 0
    /\ relay = "none" /\ anchor = NoSpot /\ persisted = NoSpot
    /\ file = NoFile /\ harmed = FALSE
    /\ status = "off" /\ server = "off"

Main ==
    \/ ReadConfig \/ StartRelay \/ StartTunnel \/ StartStatus
    \/ Tick \/ SaveBegins \/ SaveWrites
    \/ LoopEnds \/ StopStatus \/ CloseStatus \/ JoinStatus
    \/ StopTunnel \/ StopRelay \/ Farewell

\* The tunnel's own threads and its players.
TunnelThreads ==
    /\ \/ AcceptLoop
       \/ \E c \in Conn : Arrives(c) \/ Proceeds(c) \/ Disturbed(c)
    /\ UNCHANGED <<processState, configState, relayState, volume, statusState>>

ProcessNext ==
    \/ Main
    \/ StatusLoop
    \/ TunnelThreads
    \/ Signal
    \/ Exit
    \/ Killed
    \/ Deploy

\* Main, the status thread and the accept loop are scheduled, and none of them
\* waits without a timeout but for one that ends.  The workers, whose writes have
\* none, are not relied on; nor is the end of the process, which would end them
\* by force.  Nobody has to send a signal, kill or deploy.
ProcessSpec ==
    /\ ProcessInit
    /\ [][ProcessNext]_processVars
    /\ WF_processVars(Main)
    /\ WF_processVars(StatusLoop)
    /\ WF_processVars(AcceptLoop /\ TunnelThreads)

-----------------------------------------------------------------------------
(***************************************************************************)
(* Properties.                                                             *)
(***************************************************************************)
ProcessTypeOK ==
    /\ TypeOK
    /\ main \in MainState
    /\ sigterm \in BOOLEAN
    /\ runs \in 0 .. MaxRuns
    /\ relay \in {"none", "up", "stopping"}
    /\ {anchor, persisted} \subseteq Spot \cup {NoSpot}
    /\ file \in Text \cup {NoFile, Empty}
    /\ harmed \in BOOLEAN
    /\ status \in {"off", "listening", "stopping"}
    /\ server \in {"off", "poll", "accept", "read", "ask"}

\* BuildJson calls the relay and the tunnel from the status thread
\* (main.cpp:99-103): while it does, the relay has its peer and is not being
\* stopped, whatever main does meanwhile.
AnswersFromLiveServers == server = "ask" => relay = "up"

\* Nobody is let into the tunnel who would find no relay behind it: the tunnel
\* opens after the relay and closes before it, on every path through main.
TunnelServesLiveRelay == listening \/ acceptor # "off" => relay = "up"

\* However main returns - a failed start half-way, a signal at any time - the
\* listening sockets are closed and the threads that are joined have ended.  The
\* tunnel's workers are detached: Stop may give up waiting for them.
EverythingReleased ==
    main = "returned" =>
        /\ relay = "none"
        /\ ~listening /\ acceptor = "off"
        /\ status = "off" /\ server = "off"

\* What is left of a point once it has been through the file: a point of six
\* digits, or nothing if it has a coordinate that is not a number.
Restored(spot) == IF spot \in Spot THEN Scanned[Printed[spot]] ELSE NoSpot

\* "Persist the last anchor position so a redeploy keeps the rendezvous point"
\* (Config.h:37), as far as the text does: as the relay ends, the file holds
\* what is restored of the point that a client or the status page would have
\* been given, unless that last save has failed.  A point that has been through
\* the file before stays exactly where it is, over any number of deployments.
RedeployKeepsSpot ==
    [][main = "farewell" /\ main' = "returned" /\ ~harmed
            => Loaded(file') = Restored(Rendezvous)]_processVars

\* What a process started now would load is what is restored of the point that
\* this one remembers, whenever no save is under way: across kills, in the
\* middle of a save too, and redeployments.  Only a save that fails, which the
\* code does not notice, parts them, until the next.
KnownMeansSaved ==
    relay # "none" /\ main # "write" /\ ~harmed => Loaded(file) = Restored(persisted)

\* A signal ends the process: through the joins of two threads and the drain
\* of the tunnel, in the middle of requests, writes and arrivals.
SignalEndsProcess == sigterm ~> main \in {"returned", "dead"}
=============================================================================
