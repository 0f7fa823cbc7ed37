-------------------------- MODULE GameSessionProofs --------------------------
(***************************************************************************)
(* Theorems about GameSession, for any number of ids and of sessions: what *)
(* is in the engine's callback maps, during a session and after it.        *)
(***************************************************************************)
EXTENDS GameSession, FiniteSetTheorems, TLAPS

(***************************************************************************)
(* The inductive invariant.  LeftBehind alone is not inductive: a session  *)
(* that ends turns its callbacks into leftovers, so one must know whose    *)
(* they are (CallbacksMatchPlayers), that a new session starts without any *)
(* (NoneAhead: nothing was registered for a session to come), and that     *)
(* players exist only once an id was given (EmptyBefore).                  *)
(***************************************************************************)
EmptyBefore ==
    /\ network # "none" => session # 0
    /\ network \notin {"given", "host"} => me = NoPlayer /\ avatars = {}

NoneAhead == onLoad <= session /\ \A k \in Id : onResolve[k] <= session

\* The game waits at a prompt with an inactive peer, and only there.
AtPrompt == prompt # "no" => network = "down"

IInv ==
    /\ TypeOK
    /\ CallbacksMatchPlayers
    /\ LeftBehind
    /\ EmptyBefore
    /\ NoneAhead
    /\ AtPrompt

\* Bound of a burst: there are not more creatures than ids.
LEMMA CreaturesBound ==
    ASSUME TypeOK
    PROVE  2 * Cardinality(Creatures) \in 0 .. 2 * (MaxId + 1)
<1>1. MaxId \in Nat /\ IsFiniteSet(Id) /\ Cardinality(Id) = MaxId + 1
    BY FS_Interval, GameAssumption DEF Id, HostId
<1>2. Creatures \in SUBSET Id
    BY DEF TypeOK, Creatures
<1>3. Cardinality(Creatures) \in Nat /\ Cardinality(Creatures) <= MaxId + 1
    BY <1>1, <1>2, FS_Subset, FS_CardinalityType
<1>. QED BY <1>1, <1>3

\* The invariant holds when the game starts.
THEOREM InitIInv == Init => IInv
<1>. SUFFICES ASSUME Init PROVE IInv
    OBVIOUS
<1>1. MaxId \in Nat /\ MaxSessions \in Nat
    BY GameAssumption
<1>2. TypeOK
    <2>1. hero \in BOOLEAN /\ loading \in BOOLEAN
        BY DEF Init
    <2>2. session \in 0 .. MaxSessions /\ burst \in 0 .. 2 * (MaxId + 1)
        BY <1>1 DEF Init
    <2>3. onLoad \in Session \cup {None} /\ onResolve \in [Id -> Session \cup {None}]
        BY DEF Init
    <2>. QED BY <2>1, <2>2, <2>3 DEF Init, TypeOK, State
<1>3. CallbacksMatchPlayers
    BY DEF Init, CallbacksMatchPlayers, Live, Id, HostId, NoPlayer
<1>4. LeftBehind
    BY DEF Init, LeftBehind, Stale, Live
<1>. QED BY <1>2, <1>3, <1>4 DEF Init, IInv, EmptyBefore, NoneAhead, AtPrompt, None

\* Steps that leave session, players and callbacks alone.
LEMMA IdleStep ==
    ASSUME IInv, UNCHANGED <<session, me, avatars, onResolve, careless>>,
           TypeOK', EmptyBefore', NoneAhead', AtPrompt',
           onLoad' \in {onLoad, None},
           network = "none" <=> network' = "none"
    PROVE  IInv'
<1>1. \A s : Live(s)' <=> Live(s)
    BY DEF Live
<1>2. CallbacksMatchPlayers'
    BY <1>1 DEF IInv, CallbacksMatchPlayers
<1>3. LeftBehind'
    BY <1>1 DEF IInv, LeftBehind, Stale
<1>. QED BY <1>2, <1>3 DEF IInv

\* The game breaks: nothing else changes.
LEMMA BreakStep ==
    ASSUME IInv, NEW cause \in {"null", "dangling", "erased"}, Breaks(cause)
    PROVE  IInv'
<1>1. TypeOK'
    BY GameAssumption DEF IInv, TypeOK, Breaks, sessionState, engine, callbacks
<1>2. EmptyBefore' /\ NoneAhead' /\ AtPrompt'
    BY DEF IInv, EmptyBefore, NoneAhead, AtPrompt, Breaks, sessionState, callbacks
<1>. QED BY <1>1, <1>2, IdleStep DEF Breaks, sessionState, callbacks

\* A session ends: what it leaves behind makes it careless.
LEMMA EndStep ==
    ASSUME IInv, network # "none", Ends, TypeOK', AtPrompt'
    PROVE  IInv'
<1>1. CallbacksMatchPlayers'
    BY DEF Ends, CallbacksMatchPlayers, Live, TypeOK, NoPlayer, Id, HostId
<1>2. LeftBehind'
    <2>. SUFFICES ASSUME NEW s \in Stale' PROVE s \in careless'
        BY DEF LeftBehind
    <2>1. s # None /\ (s = onLoad \/ \E k \in Id : k \notin Removable /\ s = onResolve[k])
        BY DEF Stale, Ends
    <2>2. CASE ~Live(s)
        <3>1. s \in Stale
            BY <2>1, <2>2 DEF Stale
        <3>. QED BY <3>1 DEF IInv, LeftBehind, Ends
    <2>3. CASE Live(s) /\ s = onLoad
        BY <2>3 DEF Ends, Live
    <2>4. CASE Live(s) /\ \E k \in Id : k \notin Removable /\ s = onResolve[k]
        <3>1. PICK k \in Id : k \notin Removable /\ Live(onResolve[k])
            BY <2>4
        <3>2. k \in avatars \cup {j \in Id : j = me}
            BY <3>1 DEF IInv, CallbacksMatchPlayers
        <3>3. k = me /\ ~hero
            BY <3>1, <3>2 DEF Removable
        <3>4. me # NoPlayer
            BY <3>3, GameAssumption DEF Id, HostId, NoPlayer
        <3>. QED BY <3>3, <3>4, <2>4 DEF Ends, Live
    <2>. QED BY <2>1, <2>2, <2>3, <2>4
<1>3. EmptyBefore'
    BY DEF EmptyBefore, Ends
<1>4. NoneAhead'
    <2>1. session \in Nat
        BY GameAssumption DEF IInv, TypeOK
    <2>. QED BY <2>1 DEF IInv, NoneAhead, Ends, None
<1>. QED BY <1>1, <1>2, <1>3, <1>4 DEF IInv

\* The types after an end.
LEMMA EndTypes ==
    ASSUME IInv, network # "none", Ends
    PROVE  /\ network' \in State /\ session' \in 0 .. MaxSessions
           /\ me' \in Id \cup {NoPlayer} /\ avatars' \subseteq Id \ {me'}
           /\ onLoad' \in Session \cup {None}
           /\ onResolve' \in [Id -> Session \cup {None}]
           /\ burst' \in 0 .. 2 * (MaxId + 1)
           /\ careless' \subseteq Session
<1>1. session \in Session
    BY GameAssumption DEF IInv, TypeOK, EmptyBefore, Session
<1>. QED BY <1>1, GameAssumption DEF IInv, TypeOK, Ends, State, None
-----------------------------------------------------------------------------
(***************************************************************************)
(* Each action preserves the invariant.                                    *)
(***************************************************************************)
\* Keys pressed and the world entered or left change no session, except that
\* leaving ends one.
LEMMA PlayerStep ==
    ASSUME IInv, (\E k \in Key : Press(k)) \/ EnterWorld \/ QuitGame \/ LeaveWorld
    PROVE  IInv'
<1>1. CASE \E k \in Key : Press(k)
    <2>1. TypeOK' /\ EmptyBefore' /\ NoneAhead' /\ AtPrompt'
        BY <1>1, GameAssumption DEF IInv, TypeOK, EmptyBefore, NoneAhead, AtPrompt, Press,
            GoesOn, engine, callbacks
    <2>. QED BY <1>1, <2>1, IdleStep DEF Press, GoesOn, callbacks
<1>2. CASE EnterWorld
    <2>1. TypeOK' /\ EmptyBefore' /\ NoneAhead' /\ AtPrompt'
        BY <1>2, GameAssumption DEF IInv, TypeOK, EmptyBefore, NoneAhead, AtPrompt, EnterWorld,
            GoesOn, engine, callbacks
    <2>. QED BY <1>2, <2>1, IdleStep DEF EnterWorld, GoesOn, callbacks
<1>3. CASE QuitGame
    <2>1. TypeOK' /\ EmptyBefore' /\ NoneAhead' /\ AtPrompt'
        BY <1>3, GameAssumption DEF IInv, TypeOK, EmptyBefore, NoneAhead, AtPrompt, QuitGame,
            GoesOn, engine, callbacks
    <2>. QED BY <1>3, <2>1, IdleStep DEF QuitGame, GoesOn, callbacks
<1>4. CASE LeaveWorld
    <2>1. CASE Breaks("null")
        BY <2>1, BreakStep
    <2>2. CASE network # "none" /\ Ends /\ place' = "menu" /\ hero' = FALSE
                /\ loading' = FALSE /\ UNCHANGED <<fault, keys, prompt>>
        <3>1. TypeOK'
            BY <2>2, EndTypes DEF IInv, TypeOK
        <3>2. AtPrompt'
            BY <1>4, <2>2 DEF LeaveWorld, Running, AtPrompt
        <3>. QED BY <2>2, <3>1, <3>2, EndStep
    <2>. QED BY <1>4, <2>1, <2>2 DEF LeaveWorld
<1>. QED BY <1>1, <1>2, <1>3, <1>4

\* A new session finds no callback of its own number.
LEMMA SelectStep ==
    ASSUME IInv, NEW k \in {"host", "connect"}, Select(k)
    PROVE  IInv'
<1>1. /\ session \in Nat /\ session' = session + 1
      /\ network = "none" /\ network' = "down" /\ prompt' = k
      /\ me = NoPlayer /\ avatars = {}
      /\ UNCHANGED <<me, avatars, onLoad, onResolve, careless>>
    BY GameAssumption DEF Select, IInv, TypeOK, EmptyBefore, callbacks
<1>2. TypeOK'
    BY <1>1, GameAssumption DEF Select, IInv, TypeOK, engine, State, Key
<1>3. /\ onLoad \in Nat /\ onLoad <= session
      /\ \A j \in Id : onResolve[j] \in Nat /\ onResolve[j] <= session
    BY GameAssumption DEF IInv, TypeOK, NoneAhead, Session, None
<1>4. CallbacksMatchPlayers'
    <2>1. {j \in Id : Live(onResolve[j])}' = {}
        BY <1>1, <1>3 DEF Live
    <2>2. (avatars \cup {j \in Id : j = me})' = {}
        BY <1>1, GameAssumption DEF Id, HostId, NoPlayer
    <2>. QED BY <2>1, <2>2 DEF CallbacksMatchPlayers
<1>5. LeftBehind'
    BY <1>1 DEF IInv, LeftBehind, Stale, Live
<1>6. EmptyBefore' /\ NoneAhead' /\ AtPrompt'
    BY <1>1, <1>3 DEF EmptyBefore, NoneAhead, AtPrompt
<1>. QED BY <1>2, <1>4, <1>5, <1>6 DEF IInv

\* NUMPAD 3 ends the session with all that Ends takes along.
LEMMA DisconnectStep == ASSUME IInv, SelectDisconnect PROVE IInv'
<1>1. network # "none" /\ Ends
    BY DEF SelectDisconnect
<1>2. TypeOK'
    BY <1>1, EndTypes DEF SelectDisconnect, IInv, TypeOK, engine
<1>3. AtPrompt'
    BY DEF SelectDisconnect, Running, AtPrompt
<1>. QED BY <1>1, <1>2, <1>3, EndStep

\* A transport that does not start leaves no session.
LEMMA StartupFailsStep ==
    ASSUME IInv, NEW k \in {"host", "connect"}, StartupFails(k)
    PROVE  IInv'
<1>1. network # "none" /\ Ends
    BY DEF StartupFails, Answered, IInv, AtPrompt
<1>2. TypeOK'
    BY <1>1, EndTypes DEF StartupFails, Answered, IInv, TypeOK, engine
<1>3. AtPrompt'
    BY DEF StartupFails, Answered, AtPrompt
<1>. QED BY <1>1, <1>2, <1>3, EndStep

\* A lost connection ends the session as NUMPAD 3 does.
LEMMA ConnectionEndsStep == ASSUME IInv, ConnectionEnds PROVE IInv'
<1>1. network # "none" /\ Ends
    BY DEF ConnectionEnds
<1>2. TypeOK'
    BY <1>1, EndTypes DEF ConnectionEnds, IInv, TypeOK, controls, engine
<1>3. AtPrompt'
    BY DEF ConnectionEnds, Running, AtPrompt, controls
<1>. QED BY <1>1, <1>2, <1>3, EndStep

\* The local player gets its callbacks: nobody had this session's before.
LEMMA CreateLocalStep ==
    ASSUME IInv, NEW n \in Id, CreateLocal(n), network \in {"down", "joined"},
           network' \in {"host", "given"},
           UNCHANGED <<avatars, session, careless>>, onLoad' \in {onLoad, session}
    PROVE  /\ me' \in Id \cup {NoPlayer} /\ avatars' \subseteq Id \ {me'}
           /\ onResolve' \in [Id -> Session \cup {None}]
           /\ CallbacksMatchPlayers' /\ LeftBehind' /\ EmptyBefore' /\ NoneAhead'
<1>1. /\ session \in Session /\ me = NoPlayer /\ avatars = {}
      /\ \A s : Live(s) <=> s = session
      /\ \A s : Live(s)' <=> s = session
    BY GameAssumption DEF IInv, TypeOK, EmptyBefore, Session, Live
<1>2. \A j \in Id : onResolve[j] # session
    BY <1>1, GameAssumption DEF IInv, CallbacksMatchPlayers, Id, HostId, NoPlayer
<1>3. onLoad \in Session \cup {None} /\ onResolve \in [Id -> Session \cup {None}]
    BY DEF IInv, TypeOK
<1>4. NoneAhead' /\ EmptyBefore'
    BY <1>1, <1>3, GameAssumption DEF CreateLocal, IInv, NoneAhead, EmptyBefore, Session, None
<1>5. CASE hero
    <2>1. me' = n /\ onResolve' = [onResolve EXCEPT ![n] = session]
        BY <1>5 DEF CreateLocal
    <2>2. CallbacksMatchPlayers'
        BY <1>1, <1>2, <1>3, <2>1 DEF CallbacksMatchPlayers
    <2>3. LeftBehind'
        BY <1>1, <1>3, <2>1 DEF IInv, LeftBehind, Stale
    <2>. QED BY <1>1, <1>3, <1>4, <2>1, <2>2, <2>3
<1>6. CASE ~hero
    <2>1. me' = me /\ onResolve' = onResolve
        BY <1>6 DEF CreateLocal
    <2>2. CallbacksMatchPlayers'
        BY <1>1, <2>1 DEF IInv, CallbacksMatchPlayers
    <2>3. LeftBehind'
        BY <1>1, <1>3, <2>1 DEF IInv, LeftBehind, Stale
    <2>. QED BY <1>1, <1>3, <1>4, <2>1, <2>2, <2>3
<1>. QED BY <1>5, <1>6

\* Hosting makes the local player at once, with id 0.
LEMMA HostStep == ASSUME IInv, Host PROVE IInv'
<1>1. HostId \in Id /\ network = "down" /\ prompt' = "no"
    BY GameAssumption DEF Host, Answered, IInv, AtPrompt, Id, HostId
<1>2. /\ me' \in Id \cup {NoPlayer} /\ avatars' \subseteq Id \ {me'}
      /\ onResolve' \in [Id -> Session \cup {None}]
      /\ CallbacksMatchPlayers' /\ LeftBehind' /\ EmptyBefore' /\ NoneAhead'
    BY <1>1, CreateLocalStep DEF Host, GoesOn
<1>3. TypeOK'
    BY <1>1, <1>2, GameAssumption DEF Host, Answered, GoesOn, IInv, TypeOK, State, engine
<1>. QED BY <1>1, <1>2, <1>3 DEF IInv, AtPrompt

\* A client's own player is made when its id arrives, and loads.
LEMMA CreateLocalNetPlayerStep ==
    ASSUME IInv, NEW n \in Id, CreateLocalNetPlayer(n)
    PROVE  IInv'
<1>1. /\ CreateLocal(n) /\ network = "joined" /\ network' = "given"
      /\ UNCHANGED <<avatars, session, careless, controls, hero>>
      /\ onLoad' \in {onLoad, session}
      /\ burst' = 0
    BY DEF CreateLocalNetPlayer, GoesOn
<1>2. /\ me' \in Id \cup {NoPlayer} /\ avatars' \subseteq Id \ {me'}
      /\ onResolve' \in [Id -> Session \cup {None}]
      /\ CallbacksMatchPlayers' /\ LeftBehind' /\ EmptyBefore' /\ NoneAhead'
    BY <1>1, CreateLocalStep
<1>3. session \in Session
    BY <1>1, GameAssumption DEF IInv, TypeOK, EmptyBefore, Session
<1>4. TypeOK'
    <2>1. hero' \in BOOLEAN /\ loading' \in BOOLEAN
        BY DEF CreateLocalNetPlayer, IInv, TypeOK
    <2>2. burst' \in 0 .. 2 * (MaxId + 1) /\ session' \in 0 .. MaxSessions
        BY <1>1, GameAssumption DEF IInv, TypeOK
    <2>3. onLoad' \in Session \cup {None} /\ network' \in State
        BY <1>1, <1>3 DEF IInv, TypeOK, State
    <2>. QED BY <1>1, <1>2, <2>1, <2>2, <2>3 DEF IInv, TypeOK, controls
<1>5. AtPrompt'
    BY <1>1 DEF CreateLocalNetPlayer, Running, AtPrompt, controls
<1>. QED BY <1>2, <1>4, <1>5 DEF IInv

\* An avatar gets the callbacks of its id.
LEMMA CreateNetPlayerStep ==
    ASSUME IInv, NEW n \in Id, CreateNetPlayer(n)
    PROVE  IInv'
<1>1. CASE Breaks("null")
    BY <1>1, BreakStep
<1>2. CASE ~Breaks("null")
    <2>1. /\ network \in {"given", "host"} /\ n \notin avatars \cup {me} /\ me # NoPlayer
          /\ avatars' = avatars \cup {n}
          /\ onResolve' = [onResolve EXCEPT ![n] = session]
          /\ UNCHANGED <<controls, network, me, engine, onLoad, session, careless>>
          /\ burst' = 0
        BY <1>2 DEF CreateNetPlayer, GoesOn
    <2>2. /\ session \in Session
          /\ \A s : Live(s) <=> s = session
          /\ \A s : Live(s)' <=> s = session
        BY <2>1, GameAssumption DEF IInv, TypeOK, EmptyBefore, Session, Live
    <2>3. onResolve \in [Id -> Session \cup {None}] /\ avatars \subseteq Id \ {me}
        BY DEF IInv, TypeOK
    <2>4. TypeOK'
        BY <2>1, <2>2, <2>3, GameAssumption DEF IInv, TypeOK, controls, engine
    <2>5. CallbacksMatchPlayers'
        BY <2>1, <2>2, <2>3 DEF IInv, CallbacksMatchPlayers
    <2>6. LeftBehind'
        BY <2>1, <2>2, <2>3 DEF IInv, LeftBehind, Stale
    <2>7. EmptyBefore' /\ NoneAhead' /\ AtPrompt'
        BY <2>1, <2>2, <2>3, GameAssumption DEF IInv, EmptyBefore, NoneAhead, AtPrompt, Session,
            controls
    <2>. QED BY <2>4, <2>5, <2>6, <2>7 DEF IInv
<1>. QED BY <1>1, <1>2

\* An avatar takes the callbacks of its id along.
LEMMA DestroyNetPlayerStep ==
    ASSUME IInv, NEW n \in Id, DestroyNetPlayer(n)
    PROVE  IInv'
<1>1. /\ n \in avatars
      /\ avatars' = avatars \ {n}
      /\ onResolve' = [onResolve EXCEPT ![n] = None]
      /\ UNCHANGED <<controls, network, me, engine, onLoad, session, careless>>
      /\ burst' = 0
    BY DEF DestroyNetPlayer, GoesOn
<1>2. /\ session \in Session /\ session # None
      /\ \A s : Live(s) <=> s = session
      /\ \A s : Live(s)' <=> s = session
    BY <1>1, GameAssumption DEF IInv, TypeOK, EmptyBefore, Session, Live, None
<1>3. onResolve \in [Id -> Session \cup {None}] /\ avatars \subseteq Id \ {me}
    BY DEF IInv, TypeOK
<1>4. TypeOK'
    BY <1>1, <1>3, GameAssumption DEF IInv, TypeOK, controls, engine
<1>5. CallbacksMatchPlayers'
    BY <1>1, <1>2, <1>3 DEF IInv, CallbacksMatchPlayers
<1>6. LeftBehind'
    BY <1>1, <1>2, <1>3 DEF IInv, LeftBehind, Stale
<1>7. EmptyBefore' /\ NoneAhead' /\ AtPrompt'
    BY <1>1, <1>2, <1>3, GameAssumption DEF IInv, EmptyBefore, NoneAhead, AtPrompt, Session,
        None, controls
<1>. QED BY <1>4, <1>5, <1>6, <1>7 DEF IInv

\* A client's attempt moves on without a player.
LEMMA AttemptStep == ASSUME IInv, Connect \/ AttemptAnswered PROVE IInv'
<1>1. /\ network \in {"down", "attempt"} /\ network' \in {"attempt", "ignored", "joined"}
      /\ UNCHANGED <<session, me, avatars, callbacks, careless, place, fault, keys, engine>>
      /\ prompt' = "no" /\ burst' = 0
    BY DEF Connect, Answered, AttemptAnswered, Running, GoesOn, controls, IInv, AtPrompt
<1>2. TypeOK' /\ EmptyBefore' /\ NoneAhead' /\ AtPrompt'
    BY <1>1, GameAssumption DEF IInv, TypeOK, EmptyBefore, NoneAhead, AtPrompt, State,
        engine, callbacks
<1>. QED BY <1>1, <1>2, IdleStep DEF callbacks

\* What the engine does touches callbacks and bursts only.
LEMMA EngineStep ==
    ASSUME IInv, EngineChanges \/ UpdateRegionLoad \/ Resolve
    PROVE  IInv'
<1>1. CASE \E cause \in {"null", "dangling", "erased"} : Breaks(cause)
    BY <1>1, BreakStep
<1>2. CASE EngineChanges
    <2>1. hero' \in BOOLEAN /\ loading' \in BOOLEAN
        BY <1>2 DEF EngineChanges, IInv, TypeOK
    <2>2. /\ UNCHANGED <<controls, network, session, me, avatars, callbacks, careless>>
          /\ burst' = 0
        BY <1>2 DEF EngineChanges, GoesOn
    <2>3. TypeOK' /\ EmptyBefore' /\ NoneAhead' /\ AtPrompt'
        BY <2>1, <2>2, GameAssumption DEF IInv, TypeOK, EmptyBefore, NoneAhead, AtPrompt,
            controls, callbacks
    <2>. QED BY <2>2, <2>3, IdleStep DEF callbacks
<1>3. CASE onLoad' = None /\ GoesOn
           /\ UNCHANGED <<controls, network, me, avatars, engine, onResolve>>
    <2>1. TypeOK' /\ EmptyBefore' /\ NoneAhead' /\ AtPrompt'
        BY <1>3, GameAssumption DEF IInv, TypeOK, EmptyBefore, NoneAhead, AtPrompt,
            GoesOn, controls, engine, None
    <2>. QED BY <1>3, <2>1, IdleStep DEF GoesOn
<1>4. CASE burst' \in {0, 2 * Cardinality(Creatures)}
           /\ UNCHANGED <<controls, sessionState, engine, callbacks, careless>>
    <2>1. burst' \in 0 .. 2 * (MaxId + 1)
        BY <1>4, CreaturesBound, GameAssumption DEF IInv
    <2>2. TypeOK' /\ EmptyBefore' /\ NoneAhead' /\ AtPrompt'
        BY <1>4, <2>1 DEF IInv, TypeOK, EmptyBefore, NoneAhead, AtPrompt,
            controls, sessionState, engine, callbacks
    <2>. QED BY <1>4, <2>2, IdleStep DEF sessionState, callbacks
<1>. QED BY <1>1, <1>2, <1>3, <1>4 DEF UpdateRegionLoad, Resolve

\* Every key, packet and call of the engine preserves the invariant.
THEOREM NextIInv == IInv /\ [Next]_vars => IInv'
<1>. SUFFICES ASSUME IInv, [Next]_vars PROVE IInv'
    OBVIOUS
<1>1. CASE (\E k \in Key : Press(k)) \/ EnterWorld \/ QuitGame \/ LeaveWorld
    BY <1>1, PlayerStep
<1>2. CASE SelectDisconnect
    BY <1>2, DisconnectStep
<1>3. CASE SelectHost \/ SelectConnect
    BY <1>3, SelectStep DEF SelectHost, SelectConnect
<1>4. CASE \E k \in {"host", "connect"} : StartupFails(k)
    BY <1>4, StartupFailsStep
<1>5. CASE Host
    BY <1>5, HostStep
<1>6. CASE Connect \/ AttemptAnswered
    BY <1>6, AttemptStep
<1>7. CASE ConnectionEnds
    BY <1>7, ConnectionEndsStep
<1>8. CASE \E n \in Id : CreateLocalNetPlayer(n) \/ CreateNetPlayer(n) \/ DestroyNetPlayer(n)
    BY <1>8, CreateLocalNetPlayerStep, CreateNetPlayerStep, DestroyNetPlayerStep
<1>9. CASE EngineChanges \/ UpdateRegionLoad \/ Resolve
    BY <1>9, EngineStep
<1>10. CASE UNCHANGED vars
    <2>1. TypeOK' /\ EmptyBefore' /\ NoneAhead' /\ AtPrompt'
        BY <1>10 DEF IInv, TypeOK, EmptyBefore, NoneAhead, AtPrompt, vars, controls,
            sessionState, engine, callbacks
    <2>. QED BY <1>10, <2>1, IdleStep DEF vars, sessionState, callbacks
<1>. QED BY <1>1, <1>2, <1>3, <1>4, <1>5, <1>6, <1>7, <1>8, <1>9, <1>10 DEF Next

\* The invariant holds throughout: the induction over the steps.
THEOREM Invariance == Spec => []IInv
BY InitIInv, NextIInv, PTL DEF Spec

-----------------------------------------------------------------------------
(***************************************************************************)
(* The theorems.                                                           *)
(***************************************************************************)

\* Every variable of the game's sessions keeps its type: no id is ever both an
\* avatar's and the local player's, and a burst is bounded by the ids.
THEOREM TypeCorrect == Spec => []TypeOK
<1>1. IInv => TypeOK
    BY DEF IInv
<1>. QED BY <1>1, Invariance, PTL

\* Engine and session agree: the motion callbacks of a session
\* (NetPlayerManagerMotion.cpp) are those of its avatars and its local player.
THEOREM CallbacksAgree == Spec => []CallbacksMatchPlayers
<1>1. IInv => CallbacksMatchPlayers
    BY DEF IInv
<1>. QED BY <1>1, Invariance, PTL

\* Only sessions that end during their load or without a creature leave
\* callbacks behind (NetMainGameComponent::Disconnect).
THEOREM OnlyCarelessLeave == Spec => []LeftBehind
<1>1. IInv => LeftBehind
    BY DEF IInv
<1>. QED BY <1>1, Invariance, PTL
=============================================================================
