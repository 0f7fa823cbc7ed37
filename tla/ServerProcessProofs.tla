------------------------- MODULE ServerProcessProofs -------------------------
(***************************************************************************)
(* Proofs about ServerProcess, for any number of connections, points and   *)
(* deployments and for every environment: in which phase of main which     *)
(* server is up, and what the state file holds.  What is known of the      *)
(* tunnel's threads alone is taken from TunnelServerProofs.                *)
(***************************************************************************)
EXTENDS ServerProcess, TunnelServerProofs

(***************************************************************************)
(* The inductive invariant: TunnelServer's own, and what each phase of     *)
(* main knows of the relay, the tunnel, the status server and the file.    *)
(***************************************************************************)
Starting == {"dead", "config", "relay", "tunnel"}

\* main is past the stops of the status server and the tunnel, or has failed.
Stopped == main \in {"stopRelay", "farewell", "returned"} \/ relay = "stopping"

RelayPhase ==
    /\ relay = "none" <=> main \in {"dead", "config", "relay", "returned"}
    /\ main = "farewell" => relay = "stopping"
    /\ relay = "stopping" => main \in {"save", "write", "farewell"}

TunnelOff == ~running /\ ~listening /\ acceptor = "off" /\ stop = "no"

TunnelPhase ==
    /\ main \in Starting \/ config.tunnelEnabled = FALSE => TunnelOff
    /\ stop \notin {"no", "closing"} => ~listening
    /\ stop \in {"draining", "drained", "warned"} => acceptor = "off"
    /\ Stopped => ~listening /\ acceptor = "off"

StatusPhase ==
    /\ main \in Starting \cup {"status"} => status = "off"
    /\ Stopped \/ main \in {"joinStatus", "stopTunnel"} => status = "off"
    /\ status = "off" /\ main # "joinStatus" => server = "off"

\* Nothing but what << writes of a position gets into the file; a point is
\* written only if there is one; after the save in Stop the server remembers the
\* anchor.
SavePhase ==
    /\ file \in {NoFile, Empty} \cup {Printed[s] : s \in Spot}
    /\ main = "write" => anchor # NoSpot
    /\ main = "farewell" /\ anchor # NoSpot /\ ~harmed => persisted = anchor

\* FromEnvironment and the defaults say of the tunnel yes or no.
Decided == config.tunnelEnabled \in BOOLEAN

ProcessInv ==
    /\ IInv
    /\ ProcessTypeOK
    /\ RelayPhase
    /\ TunnelPhase
    /\ StatusPhase
    /\ SavePhase
    /\ KnownMeansSaved
    /\ Decided

-----------------------------------------------------------------------------
(***************************************************************************)
(* The conversion of a position to text and back.                          *)
(***************************************************************************)

\* A file gives a point or none.
LEMMA LoadedType ==
    ASSUME NEW f
    PROVE  Loaded(f) \in Spot \cup {NoSpot}
BY ConversionAssumption DEF Loaded

\* What was printed is read as what is restored of it.
LEMMA LoadedPrinted ==
    ASSUME NEW s \in Spot
    PROVE  Loaded(Printed[s]) = Restored(s)
<1>1. Printed[s] \in Text
    BY ConversionAssumption
<1>. QED BY <1>1 DEF Loaded, Restored

\* A point that has been through the file once does not change any more.
LEMMA RestoredOnce ==
    ASSUME SavePhase
    PROVE  Restored(Loaded(file)) = Loaded(file)
<1>1. CASE file \in {NoFile, Empty}
    BY <1>1, ProcessAssumption DEF Loaded, Restored
<1>2. ASSUME NEW s \in Spot, file = Printed[s]
      PROVE  Restored(Loaded(file)) = Loaded(file)
    <2>1. Loaded(file) = Scanned[Printed[s]]
        BY <1>2, LoadedPrinted DEF Restored
    <2>2. CASE Loaded(file) = NoSpot
        BY <2>2, ProcessAssumption DEF Restored
    <2>3. CASE Loaded(file) # NoSpot
        <3>1. Loaded(file) \in Spot
            BY <2>3, LoadedType
        <3>2. Scanned[Printed[Loaded(file)]] = Loaded(file)
            BY <2>1, <2>3, ConversionAssumption
        <3>. QED BY <3>1, <3>2 DEF Restored
    <2>. QED BY <2>2, <2>3
<1>. QED BY <1>1, <1>2 DEF SavePhase

-----------------------------------------------------------------------------
(***************************************************************************)
(* The tunnel in the process.                                              *)
(***************************************************************************)

\* The tunnel's threads start nothing, stop nothing and do not come back.
LEMMA ThreadsKeep ==
    ASSUME IInv, TunnelThreads
    PROVE  /\ IInv'
           /\ UNCHANGED <<running, listening, stop>>
           /\ acceptor = "off" => acceptor' = "off"
<1>1. IInv'
    BY NextIInv DEF TunnelThreads, Next
<1>2. CASE AcceptLoop
    BY <1>1, <1>2 DEF AcceptLoop, PollReady, AcceptLoopEnds, Accept, AcceptFails, Refuse, Launch
<1>3. CASE \E c \in Conn : Arrives(c) \/ Disturbed(c)
    BY <1>1, <1>3 DEF Arrives, Disturbed, WriteBegins, WriteEnds, LinkBreaks
<1>4. CASE \E c \in Conn : Proceeds(c)
    BY <1>1, <1>4 DEF Proceeds, Count, OpenUdp, UdpFails, BindUdp, BindFails, SeesStop,
        CloseSockets, Uncount, Report
<1>. QED BY <1>2, <1>3, <1>4 DEF TunnelThreads

\* A tunnel as it is constructed meets TunnelServer's invariant.
LEMMA ConstructedInv ==
    ASSUME TunnelConstructed
    PROVE  IInv' /\ TunnelOff'
<1>1. Counted' = {}
    BY DEF TunnelConstructed, Counted, CountedStates
<1>2. ActiveExact'
    BY <1>1, FS_EmptySet DEF TunnelConstructed, ActiveExact
<1>3. running' \in BOOLEAN /\ listening' \in BOOLEAN /\ ~running' /\ ~listening'
    BY DEF TunnelConstructed
<1>4. TypeOK'
    BY <1>3 DEF TunnelConstructed, TypeOK, WorkerState
<1>5. SocketsClosed'
    BY DEF TunnelConstructed, SocketsClosed
<1>. QED BY <1>2, <1>3, <1>4, <1>5 DEF TunnelConstructed, TunnelOff, IInv, AcceptFinds,
    ClearedFirst

\* And so does one that is started, which Stop has not been called on.
LEMMA StartedInv ==
    ASSUME IInv, TunnelOff, TunnelStart
    PROVE  IInv'
BY IdleStep DEF TunnelStart, TunnelOff, IInv, TypeOK, AcceptFinds, ClearedFirst

\* A step that leaves the tunnel alone.
LEMMA TunnelIdle ==
    ASSUME IInv, UNCHANGED tunnelVars
    PROVE  IInv'
BY NextIInv

-----------------------------------------------------------------------------
(***************************************************************************)
(* Each action preserves the invariant.                                    *)
(***************************************************************************)

\* main goes from one phase to the next and changes nothing but where it is.
LEMMA ReadStep == ASSUME ProcessInv, ReadConfig PROVE ProcessInv'
<1>1. IInv'
    BY TunnelIdle DEF ProcessInv, ReadConfig
<1>2. Decided'
    <2>. DEFINE given == Port(EnvInt(FirstEnv(env.tunnelPort, env.railwayPort), 60001))
    <2>1. config'.tunnelEnabled = (env.tunnel # FALSE /\ given # 0)
        BY DEF ReadConfig, Read, FromEnvironment
    <2>. HIDE DEF given
    <2>. QED BY <2>1 DEF Decided
<1>3. /\ main = "config" /\ main' = "relay"
      /\ UNCHANGED <<sigterm, runs, tunnelVars, relayState, volume, statusState>>
    BY DEF ReadConfig, MainMoves
<1>4. ProcessTypeOK'
    BY <1>1, <1>3 DEF ProcessInv, IInv, ProcessTypeOK, MainState, relayState, volume, statusState
<1>5. RelayPhase' /\ TunnelPhase' /\ StatusPhase' /\ SavePhase' /\ KnownMeansSaved'
    BY <1>3 DEF ProcessInv, RelayPhase, TunnelPhase, TunnelOff, StatusPhase, SavePhase,
        KnownMeansSaved, Starting, Stopped, tunnelVars, relayState, volume, statusState
<1>. QED BY <1>1, <1>2, <1>4, <1>5 DEF ProcessInv

\* The relay starts with what the file holds, or does not.
LEMMA StartRelayStep == ASSUME ProcessInv, StartRelay PROVE ProcessInv'
<1>1. IInv'
    BY TunnelIdle DEF ProcessInv, StartRelay
<1>2. /\ main = "relay"
      /\ \/ main' = "tunnel" /\ relay' = "up" /\ persisted' = Loaded(file)
         \/ main' = "returned" /\ UNCHANGED <<relay, persisted>>
      /\ UNCHANGED <<sigterm, runs, anchor, tunnelVars, configState, volume, statusState>>
    BY DEF StartRelay, MainMoves
<1>3. Loaded(file) \in Spot \cup {NoSpot}
    BY LoadedType
<1>4. ProcessTypeOK'
    BY <1>1, <1>2, <1>3 DEF ProcessInv, IInv, ProcessTypeOK, MainState, volume, statusState
<1>5. RelayPhase' /\ TunnelPhase' /\ StatusPhase' /\ SavePhase' /\ Decided'
    BY <1>2 DEF ProcessInv, RelayPhase, TunnelPhase, TunnelOff, StatusPhase, SavePhase,
        Decided, Starting, Stopped, tunnelVars, configState, volume, statusState
<1>6. KnownMeansSaved'
    BY <1>2, RestoredOnce DEF ProcessInv, RelayPhase, KnownMeansSaved, Loaded, volume
<1>. QED BY <1>1, <1>4, <1>5, <1>6 DEF ProcessInv

\* The tunnel starts, is not wanted, or fails.
LEMMA StartTunnelStep == ASSUME ProcessInv, StartTunnel PROVE ProcessInv'
<1>1. TunnelOff
    BY DEF ProcessInv, TunnelPhase, StartTunnel, MainMoves, Starting
<1>2. /\ main = "tunnel" /\ main' \in {"status", "stopRelay"}
      /\ \/ TunnelStart /\ main' = "status" /\ config.tunnelEnabled # FALSE
         \/ UNCHANGED tunnelVars
      /\ UNCHANGED <<sigterm, runs, relayState, configState, volume, statusState>>
    BY DEF StartTunnel, MainMoves, ProcessInv, Decided
<1>3. IInv'
    BY <1>1, <1>2, StartedInv, TunnelIdle DEF ProcessInv
<1>4. ProcessTypeOK'
    BY <1>2, <1>3 DEF ProcessInv, IInv, ProcessTypeOK, MainState, relayState, volume, statusState
<1>5. RelayPhase' /\ StatusPhase' /\ SavePhase' /\ KnownMeansSaved' /\ Decided'
    BY <1>2 DEF ProcessInv, RelayPhase, StatusPhase, SavePhase, KnownMeansSaved, Loaded,
        Decided, Starting, Stopped, relayState, configState, volume, statusState
<1>6. TunnelPhase'
    <2>1. CASE TunnelStart /\ main' = "status" /\ config.tunnelEnabled # FALSE
        BY <1>1, <1>2, <2>1 DEF ProcessInv, RelayPhase, TunnelPhase, TunnelOff, TunnelStart,
            Starting, Stopped, relayState, configState
    <2>2. CASE UNCHANGED tunnelVars
        BY <1>1, <1>2, <2>2 DEF TunnelPhase, TunnelOff, tunnelVars
    <2>. QED BY <1>2, <2>1, <2>2
<1>. QED BY <1>3, <1>4, <1>5, <1>6 DEF ProcessInv

\* Steps of main that leave tunnel, configuration, volume and points alone.
LEMMA MainStep ==
    ASSUME ProcessInv, UNCHANGED <<tunnelVars, configState, volume, persisted, runs>>,
           sigterm' \in BOOLEAN, main' \in MainState, anchor' \in Spot \cup {NoSpot},
           relay' \in {"none", "up", "stopping"},
           status' \in {"off", "listening", "stopping"},
           server' \in {"off", "poll", "accept", "read", "ask"},
           main # "write",
           RelayPhase', TunnelPhase', StatusPhase', SavePhase',
           relay' # "none" => relay # "none"
    PROVE  ProcessInv'
<1>1. IInv'
    BY TunnelIdle DEF ProcessInv
<1>2. ProcessTypeOK'
    BY <1>1 DEF ProcessInv, IInv, ProcessTypeOK, volume
<1>3. KnownMeansSaved' /\ Decided'
    BY DEF ProcessInv, KnownMeansSaved, Loaded, Decided, volume, configState
<1>. QED BY <1>1, <1>2, <1>3 DEF ProcessInv

\* The status thread and what main does to it.
LEMMA StatusStep ==
    ASSUME ProcessInv, StartStatus \/ LoopEnds \/ StopStatus \/ CloseStatus \/ JoinStatus
    PROVE  ProcessInv'
<1>1. /\ UNCHANGED <<tunnelVars, configState, volume, relayState, runs, sigterm>>
      /\ main \in {"status", "tick", "stopStatus", "closeStatus", "joinStatus"}
      /\ main' \in {"tick", "stopStatus", "closeStatus", "joinStatus", "stopTunnel"}
    BY DEF StartStatus, LoopEnds, StopStatus, CloseStatus, JoinStatus, MainMoves, statusState
<1>2. /\ status' \in {"off", "listening", "stopping"}
      /\ server' \in {"off", "poll", "accept", "read", "ask"}
    BY DEF ProcessInv, ProcessTypeOK, StartStatus, LoopEnds, StopStatus, CloseStatus,
        JoinStatus, statusState
<1>3. RelayPhase' /\ TunnelPhase' /\ SavePhase'
    BY <1>1 DEF ProcessInv, RelayPhase, TunnelPhase, TunnelOff, SavePhase, Starting, Stopped,
        tunnelVars, configState, volume, relayState
<1>4. StatusPhase'
    <2>1. ~Stopped /\ ~Stopped'
        BY <1>1 DEF ProcessInv, RelayPhase, Stopped, relayState
    <2>. QED BY <1>1, <2>1 DEF ProcessInv, StatusPhase, StartStatus, LoopEnds, StopStatus,
            CloseStatus, JoinStatus, MainMoves, Starting, statusState
<1>. QED BY <1>1, <1>2, <1>3, <1>4, MainStep DEF ProcessInv, ProcessTypeOK, MainState, relayState

\* The relay's periodic save.
LEMMA TickStep == ASSUME ProcessInv, Tick PROVE ProcessInv'
<1>1. /\ UNCHANGED <<tunnelVars, configState, volume, relay, persisted, statusState, runs, sigterm>>
      /\ main = "tick" /\ main' \in {"tick", "save"}
    BY DEF Tick, MainMoves
<1>2. anchor' \in Spot \cup {NoSpot}
    BY DEF Tick, ProcessInv, ProcessTypeOK
<1>3. RelayPhase' /\ TunnelPhase' /\ StatusPhase' /\ SavePhase'
    BY <1>1 DEF ProcessInv, RelayPhase, TunnelPhase, TunnelOff, StatusPhase, SavePhase,
        Starting, Stopped, tunnelVars, configState, volume, statusState
<1>. QED BY <1>1, <1>2, <1>3, MainStep DEF ProcessInv, ProcessTypeOK, MainState, statusState

\* The save: it begins, or there is nothing to save, or no volume.
LEMMA SaveBeginsStep == ASSUME ProcessInv, SaveBegins PROVE ProcessInv'
<1>1. /\ UNCHANGED <<tunnelVars, configState, relayState, statusState, runs, sigterm>>
      /\ main = "save"
      /\ \/ anchor = NoSpot /\ main' = AfterSave /\ UNCHANGED volume
         \/ main' = AfterSave /\ harmed' = TRUE /\ UNCHANGED file
         \/ anchor # NoSpot /\ main' = "write" /\ file' = Empty /\ UNCHANGED harmed
    BY DEF SaveBegins
<1>2. IInv'
    BY <1>1, TunnelIdle DEF ProcessInv
<1>3. \/ relay = "up" /\ AfterSave = "tick"
      \/ relay = "stopping" /\ AfterSave = "farewell"
    BY <1>1 DEF ProcessInv, ProcessTypeOK, RelayPhase, AfterSave
<1>4. harmed' \in BOOLEAN
    BY <1>1 DEF ProcessInv, ProcessTypeOK, volume
<1>5. ProcessTypeOK'
    BY <1>1, <1>2, <1>3, <1>4 DEF ProcessInv, IInv, ProcessTypeOK, MainState, relayState,
        statusState, volume
<1>6. RelayPhase' /\ TunnelPhase' /\ StatusPhase' /\ Decided'
    BY <1>1, <1>3 DEF ProcessInv, RelayPhase, TunnelPhase, TunnelOff, StatusPhase, Decided,
        Starting, Stopped, tunnelVars, configState, relayState, statusState
<1>7. SavePhase' /\ KnownMeansSaved'
    BY <1>1, <1>3 DEF ProcessInv, SavePhase, KnownMeansSaved, Loaded, relayState, volume
<1>. QED BY <1>2, <1>5, <1>6, <1>7 DEF ProcessInv

\* The write: the file holds the anchor, or the save has failed.
LEMMA SaveWritesStep == ASSUME ProcessInv, SaveWrites PROVE ProcessInv'
<1>1. /\ UNCHANGED <<tunnelVars, configState, relay, anchor, statusState, runs, sigterm>>
      /\ main = "write" /\ main' = AfterSave /\ persisted' = anchor
      /\ \/ file' = Printed[anchor] /\ harmed' = FALSE
         \/ harmed' = TRUE /\ UNCHANGED file
    BY DEF SaveWrites, MainMoves
<1>2. IInv'
    BY <1>1, TunnelIdle DEF ProcessInv
<1>3. \/ relay = "up" /\ AfterSave = "tick"
      \/ relay = "stopping" /\ AfterSave = "farewell"
    BY <1>1 DEF ProcessInv, ProcessTypeOK, RelayPhase, AfterSave
<1>4. anchor \in Spot /\ Printed[anchor] \in Text
    BY <1>1, ConversionAssumption DEF ProcessInv, ProcessTypeOK, SavePhase
<1>5. ProcessTypeOK'
    BY <1>1, <1>2, <1>3, <1>4 DEF ProcessInv, IInv, ProcessTypeOK, MainState, statusState
<1>6. RelayPhase' /\ TunnelPhase' /\ StatusPhase' /\ Decided'
    BY <1>1, <1>3 DEF ProcessInv, RelayPhase, TunnelPhase, TunnelOff, StatusPhase, Decided,
        Starting, Stopped, tunnelVars, configState, statusState
<1>7. SavePhase' /\ KnownMeansSaved'
    BY <1>1, <1>3, <1>4, LoadedPrinted DEF ProcessInv, SavePhase, KnownMeansSaved, Loaded, Restored
<1>. QED BY <1>2, <1>5, <1>6, <1>7 DEF ProcessInv

\* TunnelServer::Stop, and main after it.
LEMMA StopTunnelStep == ASSUME ProcessInv, StopTunnel PROVE ProcessInv'
<1>1. CASE /\ main = "stopTunnel" /\ config.tunnelEnabled
           /\ StopBegins \/ StopSteps
           /\ UNCHANGED <<processState, configState, relayState, volume, statusState>>
    <2>1. IInv'
        BY <1>1, NextIInv DEF ProcessInv, Next
    <2>2. ProcessTypeOK'
        BY <1>1, <2>1 DEF ProcessInv, IInv, ProcessTypeOK, processState, relayState, volume,
            statusState
    <2>3. RelayPhase' /\ StatusPhase' /\ SavePhase' /\ KnownMeansSaved' /\ Decided'
        BY <1>1 DEF ProcessInv, RelayPhase, StatusPhase, SavePhase, KnownMeansSaved, Loaded,
            Decided, Stopped, processState, configState, relayState, volume, statusState
    <2>4. TunnelPhase'
        BY <1>1 DEF ProcessInv, ProcessTypeOK, TypeOK, RelayPhase, TunnelPhase, StopBegins,
            StopSteps, StopCloses, StopJoins, StopReturns, Starting, Stopped, Decided,
            processState, configState, relayState
    <2>. QED BY <2>1, <2>2, <2>3, <2>4 DEF ProcessInv
<1>2. CASE /\ config.tunnelEnabled => stop \in {"drained", "warned"}
           /\ MainMoves("stopTunnel", "stopRelay")
           /\ UNCHANGED <<tunnelVars, configState, relayState, volume, statusState>>
    <2>1. ~listening /\ acceptor = "off"
        BY <1>2 DEF ProcessInv, TunnelPhase, TunnelOff, Decided
    <2>2. RelayPhase' /\ TunnelPhase' /\ StatusPhase' /\ SavePhase'
        BY <1>2, <2>1 DEF ProcessInv, MainMoves, RelayPhase, TunnelPhase, TunnelOff, StatusPhase,
            SavePhase, Starting, Stopped, tunnelVars, configState, relayState, statusState, volume
    <2>. QED BY <1>2, <2>2, MainStep DEF ProcessInv, ProcessTypeOK, MainState, MainMoves,
            relayState, statusState
<1>. QED BY <1>1, <1>2 DEF StopTunnel

\* RelayServer::Stop, the last thing main does to the relay.
LEMMA StopRelayStep == ASSUME ProcessInv, StopRelay \/ Farewell PROVE ProcessInv'
<1>1. /\ UNCHANGED <<tunnelVars, configState, volume, persisted, statusState, runs, sigterm>>
      /\ \/ main = "stopRelay" /\ main' = "save" /\ relay' = "stopping" /\ UNCHANGED anchor
         \/ main = "farewell" /\ main' = "returned" /\ relay' = "none" /\ anchor' = NoSpot
    BY DEF StopRelay, Farewell, MainMoves
<1>2. Stopped /\ relay # "none"
    BY <1>1 DEF ProcessInv, RelayPhase, Stopped
<1>3. RelayPhase' /\ TunnelPhase' /\ StatusPhase' /\ SavePhase'
    BY <1>1, <1>2 DEF ProcessInv, RelayPhase, TunnelPhase, TunnelOff, StatusPhase, SavePhase,
        Starting, Stopped, tunnelVars, configState, volume, statusState
<1>. QED BY <1>1, <1>2, <1>3, MainStep DEF ProcessInv, ProcessTypeOK, MainState, statusState

\* The status thread moves, the tunnel's threads move, a signal comes.
LEMMA ThreadStep ==
    ASSUME ProcessInv, StatusLoop \/ TunnelThreads \/ Signal
    PROVE  ProcessInv'
<1>1. /\ UNCHANGED <<main, runs, configState, relayState, volume, status>>
      /\ IInv'
      /\ UNCHANGED <<running, listening, stop>>
      /\ acceptor = "off" => acceptor' = "off"
    <2>1. CASE StatusLoop \/ Signal
        <3>1. UNCHANGED <<main, runs, configState, relayState, volume, status, tunnelVars>>
            BY <2>1 DEF StatusLoop, StatusPolls, StatusLoopEnds, StatusAccepts, StatusReads,
                StatusAnswers, ServerMoves, Signal, processState, statusState
        <3>. QED BY <3>1, TunnelIdle DEF ProcessInv, tunnelVars
    <2>2. CASE TunnelThreads
        BY <2>2, ThreadsKeep DEF ProcessInv, TunnelThreads, processState, statusState
    <2>. QED BY <2>1, <2>2
<1>2. /\ server' \in {"off", "poll", "accept", "read", "ask"}
      /\ server = "off" => server' = "off"
    BY DEF ProcessInv, ProcessTypeOK, StatusLoop, StatusPolls, StatusLoopEnds, StatusAccepts,
        StatusReads, StatusAnswers, ServerMoves, TunnelThreads, Signal, statusState
<1>3. sigterm' \in BOOLEAN
    BY DEF ProcessInv, ProcessTypeOK, StatusLoop, StatusPolls, StatusLoopEnds, StatusAccepts,
        StatusReads, StatusAnswers, ServerMoves, TunnelThreads, Signal, processState
<1>4. ProcessTypeOK'
    BY <1>1, <1>2, <1>3 DEF ProcessInv, IInv, ProcessTypeOK, relayState, volume
<1>5. RelayPhase' /\ TunnelPhase' /\ StatusPhase' /\ SavePhase' /\ KnownMeansSaved' /\ Decided'
    BY <1>1, <1>2 DEF ProcessInv, RelayPhase, TunnelPhase, TunnelOff, StatusPhase, SavePhase,
        KnownMeansSaved, Loaded, Decided, Stopped, configState, relayState, volume
<1>. QED BY <1>1, <1>4, <1>5 DEF ProcessInv

\* The process is gone, or there is a new one: as constructed.
LEMMA VanishStep == ASSUME ProcessInv, Exit \/ Killed PROVE ProcessInv'
<1>1. Vanishes
    BY DEF Exit, Killed
<1>2. IInv' /\ TunnelOff'
    BY <1>1, ConstructedInv DEF Vanishes
<1>3. ProcessTypeOK'
    BY <1>1, <1>2 DEF Vanishes, ProcessInv, IInv, ProcessTypeOK, MainState
<1>4. RelayPhase' /\ TunnelPhase' /\ StatusPhase' /\ SavePhase' /\ KnownMeansSaved' /\ Decided'
    BY <1>1, <1>2 DEF ProcessInv, Vanishes, RelayPhase, TunnelPhase, TunnelOff, StatusPhase,
        SavePhase, KnownMeansSaved, Decided, Defaults, Starting, Stopped
<1>. QED BY <1>2, <1>3, <1>4 DEF ProcessInv

\* A new process starts from nothing but the volume.
LEMMA DeployStep == ASSUME ProcessInv, Deploy PROVE ProcessInv'
<1>1. /\ main = "dead" /\ main' = "config" /\ runs < MaxRuns /\ runs' = runs + 1
      /\ UNCHANGED <<sigterm, tunnelVars, configState, relayState, volume, statusState>>
    BY DEF Deploy
<1>2. IInv'
    BY <1>1, TunnelIdle DEF ProcessInv
<1>3. runs' \in 0 .. MaxRuns
    BY <1>1, ProcessAssumption DEF ProcessInv, ProcessTypeOK
<1>4. ProcessTypeOK'
    BY <1>1, <1>2, <1>3 DEF ProcessInv, IInv, ProcessTypeOK, MainState, relayState, volume,
        statusState
<1>5. RelayPhase' /\ TunnelPhase' /\ StatusPhase' /\ SavePhase' /\ KnownMeansSaved' /\ Decided'
    BY <1>1 DEF ProcessInv, RelayPhase, TunnelPhase, TunnelOff, StatusPhase, SavePhase,
        KnownMeansSaved, Decided, Starting, Stopped, tunnelVars, configState, relayState,
        volume, statusState
<1>. QED BY <1>2, <1>4, <1>5 DEF ProcessInv

-----------------------------------------------------------------------------
(***************************************************************************)
(* The invariant holds throughout.                                         *)
(***************************************************************************)
\* The invariant holds before the first deployment.
THEOREM ProcessInitInv == ProcessInit => ProcessInv
<1>. SUFFICES ASSUME ProcessInit PROVE ProcessInv
    OBVIOUS
<1>1. IInv
    <2>1. Counted = {}
        BY DEF ProcessInit, Counted, CountedStates
    <2>2. ActiveExact
        BY <2>1, FS_EmptySet DEF ProcessInit, ActiveExact
    <2>3. running \in BOOLEAN /\ listening \in BOOLEAN /\ ~running /\ ~listening
        BY DEF ProcessInit
    <2>4. TypeOK
        BY <2>3 DEF ProcessInit, TypeOK, WorkerState
    <2>5. SocketsClosed
        BY DEF ProcessInit, SocketsClosed
    <2>. QED BY <2>2, <2>3, <2>4, <2>5 DEF ProcessInit, IInv, AcceptFinds, ClearedFirst
<1>2. ProcessTypeOK
    <2>1. sigterm \in BOOLEAN /\ harmed \in BOOLEAN
        BY DEF ProcessInit
    <2>2. runs \in 0 .. MaxRuns
        BY ProcessAssumption DEF ProcessInit
    <2>. QED BY <1>1, <2>1, <2>2 DEF ProcessInit, IInv, ProcessTypeOK, MainState
<1>3. RelayPhase /\ TunnelPhase /\ StatusPhase /\ SavePhase /\ KnownMeansSaved /\ Decided
    BY DEF ProcessInit, ConfigInit, RelayPhase, TunnelPhase, TunnelOff, StatusPhase, SavePhase,
        KnownMeansSaved, Decided, Defaults, Starting, Stopped
<1>. QED BY <1>1, <1>2, <1>3 DEF ProcessInv

\* Every step of main and of its threads preserves the invariant.
THEOREM ProcessNextInv == ProcessInv /\ [ProcessNext]_processVars => ProcessInv'
<1>. SUFFICES ASSUME ProcessInv, [ProcessNext]_processVars PROVE ProcessInv'
    OBVIOUS
<1>1. CASE Main
    BY <1>1, ReadStep, StartRelayStep, StartTunnelStep, StatusStep, TickStep, SaveBeginsStep,
        SaveWritesStep, StopTunnelStep, StopRelayStep DEF Main
<1>2. CASE StatusLoop \/ TunnelThreads \/ Signal
    BY <1>2, ThreadStep
<1>3. CASE Exit \/ Killed
    BY <1>3, VanishStep
<1>4. CASE Deploy
    BY <1>4, DeployStep
<1>5. CASE UNCHANGED processVars
    <2>1. UNCHANGED <<tunnelVars, configState, relayState, volume, statusState, processState>>
        BY <1>5 DEF processVars
    <2>2. IInv'
        BY <2>1, TunnelIdle DEF ProcessInv
    <2>3. ProcessTypeOK'
        BY <2>1, <2>2 DEF ProcessInv, IInv, ProcessTypeOK, relayState, volume, statusState,
            processState
    <2>4. RelayPhase' /\ TunnelPhase' /\ StatusPhase' /\ SavePhase' /\ KnownMeansSaved' /\ Decided'
        BY <2>1 DEF ProcessInv, RelayPhase, TunnelPhase, TunnelOff, StatusPhase, SavePhase,
            KnownMeansSaved, Loaded, Decided, Stopped, tunnelVars, configState, relayState,
            volume, statusState, processState
    <2>. QED BY <2>2, <2>3, <2>4 DEF ProcessInv
<1>. QED BY <1>1, <1>2, <1>3, <1>4, <1>5 DEF ProcessNext

\* The invariant holds throughout: the induction over the steps.
THEOREM ProcessInductive == ProcessSpec => []ProcessInv
BY ProcessInitInv, ProcessNextInv, PTL DEF ProcessSpec

-----------------------------------------------------------------------------
(***************************************************************************)
(* The theorems.                                                           *)
(***************************************************************************)

\* Every variable of the process keeps its type, over every deployment.
THEOREM ProcessTypeCorrect == ProcessSpec => []ProcessTypeOK
<1>1. ProcessInv => ProcessTypeOK
    BY DEF ProcessInv
<1>. QED BY <1>1, ProcessInductive, PTL

\* The status thread asks the relay for its state only while the relay is up
\* and not being stopped (main.cpp:99-103).
THEOREM AnswersLive == ProcessSpec => []AnswersFromLiveServers
<1>1. ProcessInv => AnswersFromLiveServers
    <2>. SUFFICES ASSUME ProcessInv, server = "ask" PROVE relay = "up"
        BY DEF AnswersFromLiveServers
    <2>1. ~Stopped /\ main \notin Starting
        BY DEF ProcessInv, RelayPhase, StatusPhase, Starting, Stopped
    <2>. QED BY <2>1 DEF ProcessInv, ProcessTypeOK, RelayPhase, Stopped, Starting
<1>. QED BY <1>1, ProcessInductive, PTL

\* The tunnel is open only while there is a relay behind it, on every path
\* through main.
THEOREM TunnelHasRelay == ProcessSpec => []TunnelServesLiveRelay
<1>1. ProcessInv => TunnelServesLiveRelay
    <2>. SUFFICES ASSUME ProcessInv, listening \/ acceptor # "off" PROVE relay = "up"
        BY DEF TunnelServesLiveRelay
    <2>1. ~Stopped /\ main \notin Starting
        BY DEF ProcessInv, TunnelPhase, TunnelOff
    <2>. QED BY <2>1 DEF ProcessInv, ProcessTypeOK, RelayPhase, Stopped, Starting
<1>. QED BY <1>1, ProcessInductive, PTL

\* However main returns, nothing it has started is left.
THEOREM AllReleased == ProcessSpec => []EverythingReleased
<1>1. ProcessInv => EverythingReleased
    BY DEF ProcessInv, RelayPhase, TunnelPhase, StatusPhase, Stopped, EverythingReleased
<1>. QED BY <1>1, ProcessInductive, PTL

\* What the volume holds is what is restored of the point that the server
\* remembers, but for failed saves.
THEOREM KnownIsSaved == ProcessSpec => []KnownMeansSaved
<1>1. ProcessInv => KnownMeansSaved
    BY DEF ProcessInv
<1>. QED BY <1>1, ProcessInductive, PTL

\* A redeploy finds what six digits keep of the rendezvous point that the last
\* server would have shown, unless its last save failed (Config.h:37).
THEOREM SpotKept == ProcessSpec => RedeployKeepsSpot
<1>1. ProcessInv /\ [ProcessNext]_processVars =>
        [main = "farewell" /\ main' = "returned" /\ ~harmed
            => Loaded(file') = Restored(Rendezvous)]_processVars
    <2>. SUFFICES ASSUME ProcessInv, ProcessNext, main = "farewell", main' = "returned", ~harmed
                  PROVE  Loaded(file') = Restored(Rendezvous)
        OBVIOUS
    <2>1. file' = file
        BY DEF ProcessNext, Main, ReadConfig, StartRelay, StartTunnel, StartStatus, Tick,
            SaveBegins, SaveWrites, LoopEnds, StopStatus, CloseStatus, JoinStatus, StopTunnel,
            StopRelay, Farewell, MainMoves, StatusLoop, StatusPolls, StatusLoopEnds,
            StatusAccepts, StatusReads, StatusAnswers, ServerMoves, TunnelThreads, Signal, Exit,
            Killed, Vanishes, Deploy, volume
    <2>2. Loaded(file) = Restored(persisted) /\ (anchor # NoSpot => persisted = anchor)
        BY DEF ProcessInv, RelayPhase, KnownMeansSaved, SavePhase
    <2>. QED BY <2>1, <2>2 DEF Loaded, Rendezvous
<1>. QED BY <1>1, ProcessInductive, PTL DEF ProcessSpec, RedeployKeepsSpot

-----------------------------------------------------------------------------
(***************************************************************************)
(* The configuration, for every environment and every width of port        *)
(* number: ServerConfig alone, before any server starts.                   *)
(***************************************************************************)

\* A port number fits its width.
LEMMA PortRange ==
    ASSUME NEW n \in Int
    PROVE  Port(n) \in 0 .. (PortModulus - 1)
BY ConfigAssumption DEF Port

\* The next port number is another one, also at the top.
LEMMA NextPort ==
    ASSUME NEW n \in 0 .. (PortModulus - 1)
    PROVE  Port(n + 1) # n
<1>1. CASE n + 1 < PortModulus
    <2>1. Port(n + 1) = n + 1
        BY <1>1, ConfigAssumption DEF Port
    <2>. QED BY <2>1
<1>2. CASE n + 1 = PortModulus
    <2>1. Port(n + 1) = 0
        BY <1>2, ConfigAssumption DEF Port
    <2>. QED BY <1>2, <2>1, ConfigAssumption
<1>. QED BY <1>1, <1>2, ConfigAssumption

\* A setting, or its fallback, is a number.
LEMMA EnvIntType ==
    ASSUME NEW v \in Setting, NEW d \in Int
    PROVE  EnvInt(v, d) \in Int
BY ConfigAssumption DEF EnvInt, Setting

\* Whatever the environment says, the result meets both properties.
LEMMA FromEnvironmentCorrect ==
    ASSUME NEW e \in Environment
    PROVE  LET c == FromEnvironment(e)
           IN  /\ c.maxPlayers \in 1 .. 64
               /\ c.tickHz \in 10 .. 240
               /\ {c.gamePort, c.tunnelPort, c.statusPort} \subseteq 0 .. (PortModulus - 1)
               /\ c.tunnelEnabled => c.tunnelPort # c.gamePort
<1>. DEFINE game == Port(EnvInt(e.gamePort, 60000))
            given == Port(EnvInt(FirstEnv(e.tunnelPort, e.railwayPort), 60001))
            enabled == e.tunnel # FALSE /\ given # 0
            port == TunnelPort(given, game, enabled)
<1>1. /\ e.gamePort \in Setting /\ e.statusPort \in Setting
      /\ e.maxPlayers \in Setting /\ e.tickHz \in Setting
      /\ FirstEnv(e.tunnelPort, e.railwayPort) \in Setting
    BY DEF Environment, FirstEnv
<1>2. /\ game \in 0 .. (PortModulus - 1)
      /\ given \in 0 .. (PortModulus - 1)
      /\ Port(EnvInt(e.statusPort, 8080)) \in 0 .. (PortModulus - 1)
    BY <1>1, EnvIntType, PortRange
<1>3. Clamp(EnvInt(e.maxPlayers, 8), 1, 64) \in 1 .. 64
    <2>1. EnvInt(e.maxPlayers, 8) \in Int
        BY <1>1, EnvIntType
    <2>. QED BY <2>1 DEF Clamp
<1>4. Clamp(EnvInt(e.tickHz, 60), 10, 240) \in 10 .. 240
    <2>1. EnvInt(e.tickHz, 60) \in Int
        BY <1>1, EnvIntType
    <2>. QED BY <2>1 DEF Clamp
<1>5. port \in 0 .. (PortModulus - 1) /\ (enabled => port # game)
    <2>. HIDE DEF game, given, enabled
    <2>1. Port(game + 1) \in 0 .. (PortModulus - 1) /\ Port(game + 1) # game
        BY <1>2, PortRange, NextPort
    <2>. QED BY <1>2, <2>1 DEF TunnelPort
<1>6. FromEnvironment(e) =
        [gamePort |-> game, tunnelPort |-> port, tunnelEnabled |-> enabled,
         statusPort |-> Port(EnvInt(e.statusPort, 8080)),
         maxPlayers |-> Clamp(EnvInt(e.maxPlayers, 8), 1, 64),
         tickHz |-> Clamp(EnvInt(e.tickHz, 60), 10, 240)]
    BY DEF FromEnvironment
<1>. HIDE DEF game, given, enabled, port
<1>. QED BY <1>2, <1>3, <1>4, <1>5, <1>6

\* Of every environment and of what is made of it.
ConfigInv == env \in Environment /\ WithinLimits /\ TunnelPortDiffers

\* The defaults meet both properties.
LEMMA ConfigStart == ConfigInit => ConfigInv
BY ConfigAssumption, EnvironmentAssumption DEF ConfigInit, ConfigInv, Environment,
    WithinLimits, TunnelPortDiffers, Defaults

\* So does what replaces them, and what a process that vanishes leaves.
LEMMA ConfigStep ==
    ASSUME ConfigInv, env' = env,
           config' \in {config, FromEnvironment(env), Defaults}
    PROVE  ConfigInv'
<1>1. CASE config' = config
    BY <1>1 DEF ConfigInv, WithinLimits, TunnelPortDiffers
<1>2. CASE config' = FromEnvironment(env)
    <2>1. env \in Environment
        BY DEF ConfigInv
    <2>. QED BY <1>2, <2>1, FromEnvironmentCorrect DEF ConfigInv, WithinLimits, TunnelPortDiffers
<1>3. CASE config' = Defaults
    BY <1>3, ConfigAssumption DEF ConfigInv, WithinLimits, TunnelPortDiffers, Defaults
<1>. QED BY <1>1, <1>2, <1>3

\* Before any server starts.
THEOREM ConfigInductive == ConfigSpec => []ConfigInv
<1>1. ConfigInv /\ [Read]_configVars => ConfigInv'
    BY ConfigStep DEF Read, configVars
<1>. QED BY <1>1, ConfigStart, PTL DEF ConfigSpec

\* The servers get a configuration within their limits.
THEOREM LimitsHold == ConfigSpec => []WithinLimits
BY ConfigInductive, PTL DEF ConfigInv

\* A tunnel that is on never shares the relay's number.
THEOREM PortsDiffer == ConfigSpec => []TunnelPortDiffers
BY ConfigInductive, PTL DEF ConfigInv

-----------------------------------------------------------------------------
(***************************************************************************)
(* What ServerConfig and TunnelServer promise holds in the process too.    *)
(***************************************************************************)
\* No step of the process touches the configuration but main's reading of it
\* and the end of the process.
LEMMA ProcessConfigStep == ConfigInv /\ [ProcessNext]_processVars => ConfigInv'
<1>. SUFFICES ASSUME ConfigInv, [ProcessNext]_processVars PROVE ConfigInv'
    OBVIOUS
<1>1. CASE ReadConfig
    BY <1>1, ConfigStep DEF ReadConfig, Read
<1>2. CASE Exit \/ Killed
    BY <1>2, ConfigStep DEF Exit, Killed, Vanishes
<1>3. CASE UNCHANGED configState
    BY <1>3, ConfigStep DEF configState
<1>. QED
    BY <1>1, <1>2, <1>3 DEF ProcessNext, Main, StartRelay, StartTunnel, StartStatus, Tick,
        SaveBegins, SaveWrites, LoopEnds, StopStatus, CloseStatus, JoinStatus, StopTunnel,
        StopRelay, Farewell, StatusLoop, StatusPolls, StatusLoopEnds, StatusAccepts,
        StatusReads, StatusAnswers, ServerMoves, TunnelThreads, Signal, Deploy, processVars

\* Over every deployment, whatever main does with what it has read, the tunnel
\* and the relay have different numbers and everything is within its limits.
THEOREM ProcessConfigured == ProcessSpec => [](WithinLimits /\ TunnelPortDiffers)
<1>1. ProcessInit => ConfigInv
    BY ConfigStart DEF ProcessInit
<1>2. ConfigInv => WithinLimits /\ TunnelPortDiffers
    BY DEF ConfigInv
<1>. QED BY <1>1, <1>2, ProcessConfigStep, PTL DEF ProcessSpec

\* The worker count and the descriptors are as exact with main's thread, which
\* starts and stops the tunnel at any time and may be killed, as without it.
THEOREM TunnelKeepsItsPromises == ProcessSpec => [](ActiveExact /\ SocketsClosed)
<1>1. ProcessInv => ActiveExact /\ SocketsClosed
    BY DEF ProcessInv, IInv
<1>. QED BY <1>1, ProcessInductive, PTL
=============================================================================
