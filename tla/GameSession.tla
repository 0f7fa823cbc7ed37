----------------------------- MODULE GameSession -----------------------------
(***************************************************************************)
(* NetMainGameComponent: sessions in one game, one after the other, and    *)
(* the callbacks they leave in the engine.  Everything runs on the game's  *)
(* thread: an action is the mod's part of one call of the engine's (post   *)
(* init, update, region load, resolve, shutdown), or the part of an update *)
(* up to or from a prompt, which blocks the game.  Keys are pressed at any *)
(* time, and the engine's maps of callbacks are static: they outlive       *)
(* sessions and worlds.                                                    *)
(*                                                                         *)
(* The other end, and what the messages say, is RelaySession's and         *)
(* HostServer's subject: here any message may come that they allow.        *)
(***************************************************************************)
EXTENDS Integers, FiniteSets

CONSTANTS
    MaxId,       \* bound: network ids 0 .. MaxId
    MaxSessions  \* bound: sessions of one game

ASSUME GameAssumption == MaxId \in Nat \ {0} /\ MaxSessions \in Nat \ {0}

VARIABLES
    place,      \* "menu", "world", or "gone": the process is over
    fault,      \* what has broken the game, or "no"
    keys,       \* pressed since GetAsyncKeyState was last asked for them
    prompt,     \* the prompt the game waits at: "host", "connect" or "no"
    network,    \* the Network object and its peer, see State
    session,    \* number of the session, or of the last one
    me,         \* the network id of localNetPlayer
    avatars,    \* the network ids of netPlayers
    hero,       \* the player controls a creature
    loading,    \* RegionLoadStatus
    onLoad,     \* the session whose region-load callback is registered
    onResolve,  \* per network id, the session whose callbacks are registered
    burst,      \* motion messages that the last step has sent
    careless    \* history: sessions that ended during their load or without
                \* a creature

controls == <<place, fault, keys, prompt>>
sessionState == <<network, session, me, avatars>>
engine == <<hero, loading>>
callbacks == <<onLoad, onResolve>>
vars == <<controls, sessionState, engine, callbacks, burst, careless>>

HostId == 0
NoPlayer == -1
Id == HostId .. MaxId
Session == 1 .. MaxSessions
None == 0   \* no callback

Key == {"host", "connect", "disconnect"}

\* none; a peer that is not active (at a prompt); a client's attempt, one that
\* will not be answered any more, a connection, and one that has been given an
\* id; a host.
State == {"none", "down", "attempt", "ignored", "joined", "given", "host"}

-----------------------------------------------------------------------------
(***************************************************************************)
(* Helpers.                                                                *)
(***************************************************************************)
Live(s) == network # "none" /\ s = session

\* Sessions that are over and have a callback in the engine.
Stale == {s \in {onLoad} \cup {onResolve[k] : k \in Id} : s # None /\ ~Live(s)}

Breaks(cause) ==
    /\ place' = "gone"
    /\ fault' = cause
    /\ burst' = 0
    /\ UNCHANGED <<keys, prompt, sessionState, engine, callbacks, careless>>

\* The engine calls, and the mod's update runs.
Running == place = "world" /\ prompt = "no"

\* Mutant of Removable: the local player's callbacks stay, with a creature too.
RemovableAvatars == avatars

\* Whose motion callbacks DestroyNetPlayers and DestroyLocalNetPlayer remove:
\* the latter returns early when the player has no creature.  (Avatars keep
\* theirs here; what becomes of one that loses it is in HostServer.)
Removable == avatars \cup {k \in Id : k = me /\ hero}

\* Network::Disconnect and NetMainGameComponent::Disconnect, the one after the
\* other in every case.  Nobody removes the region-load callback.
Ends ==
    /\ network' = "none"
    /\ me' = NoPlayer
    /\ avatars' = {}
    /\ onResolve' = [k \in Id |-> IF k \in Removable THEN None ELSE onResolve[k]]
    /\ careless' = IF onLoad = session \/ (me # NoPlayer /\ ~hero)
                   THEN careless \cup {session} ELSE careless
    /\ burst' = 0
    /\ UNCHANGED <<session, onLoad>>

\* A session goes on; no motion message.
GoesOn == burst' = 0 /\ UNCHANGED <<session, careless>>

-----------------------------------------------------------------------------
(***************************************************************************)
(* The player.                                                             *)
(***************************************************************************)

\* GetAsyncKeyState latches a key wherever it is pressed: in the menu, in the
\* world, and as a digit of an address or a port at a prompt.
Press(k) ==
    /\ place # "gone"
    /\ k \notin keys
    /\ keys' = keys \cup {k}
    /\ GoesOn
    /\ UNCHANGED <<place, fault, prompt, network, me, avatars, engine, callbacks>>

\* HPostInit.
EnterWorld ==
    /\ place = "menu"
    /\ place' = "world"
    /\ hero' = TRUE
    /\ GoesOn
    /\ UNCHANGED <<fault, keys, prompt, network, me, avatars, loading, callbacks>>

QuitGame ==
    /\ place = "menu"
    /\ place' = "gone"
    /\ GoesOn
    /\ UNCHANGED <<fault, keys, prompt, network, me, avatars, engine, callbacks>>

\* HShutdown: the callback uses the network object before it asks for it.
LeaveWorld ==
    /\ Running
    /\ \/ network = "none" /\ Breaks("null")
       \/ /\ network # "none"
          /\ Ends
          /\ place' = "menu"
          /\ hero' = FALSE /\ loading' = FALSE
          /\ UNCHANGED <<fault, keys, prompt>>

-----------------------------------------------------------------------------
(***************************************************************************)
(* Selection: one key is asked for, and NUMPAD 2 only after NUMPAD 1.      *)
(***************************************************************************)

\* Mutant of SelectDisconnect: the key is read, but a client that waits is
\* not disconnected.
SelectDisconnectPlayers ==
    /\ Running
    /\ network # "none" /\ "disconnect" \in keys
    /\ keys' = keys \ {"disconnect"}
    /\ IF me # NoPlayer
       THEN Ends
       ELSE GoesOn /\ UNCHANGED <<network, me, avatars, callbacks>>
    /\ UNCHANGED <<place, fault, prompt, engine>>

\* NUMPAD 3, during a session only; the same update then finds the peer
\* inactive.
SelectDisconnect ==
    /\ Running
    /\ network # "none" /\ "disconnect" \in keys
    /\ keys' = keys \ {"disconnect"}
    /\ Ends
    /\ UNCHANGED <<place, fault, prompt, engine>>

\* Host or Connect, up to its prompt: the object is there, its peer inactive.
Select(k) ==
    /\ Running
    /\ network = "none" /\ k \in keys
    /\ session < MaxSessions
    /\ keys' = keys \ {k}
    /\ prompt' = k
    /\ network' = "down"
    /\ session' = session + 1
    /\ burst' = 0
    /\ UNCHANGED <<place, fault, me, avatars, engine, callbacks, careless>>

SelectHost == Select("host")

SelectConnect == "host" \notin keys /\ Select("connect")

-----------------------------------------------------------------------------
(***************************************************************************)
(* The prompt is answered, and the update goes on.                         *)
(***************************************************************************)
Answered(k) ==
    /\ prompt = k
    /\ prompt' = "no"
    /\ UNCHANGED <<place, fault, keys, engine>>

\* Startup fails (a port in use): the update ends the session at once.
StartupFails(k) == Answered(k) /\ Ends

\* CreateLocalNetPlayer: the player and its motion callbacks; nothing at all
\* without a creature.
CreateLocal(n) ==
    IF hero
    THEN me' = n /\ onResolve' = [onResolve EXCEPT ![n] = session]
    ELSE UNCHANGED <<me, onResolve>>

Host ==
    /\ Answered("host")
    /\ network' = "host"
    /\ CreateLocal(HostId)
    /\ GoesOn
    /\ UNCHANGED <<avatars, onLoad>>

\* An attempt begins, or the transport refuses to make one (a name it cannot
\* resolve), of which only a message box tells: the peer is active.
Connect ==
    /\ Answered("connect")
    /\ network' \in {"attempt", "ignored"}
    /\ GoesOn
    /\ UNCHANGED <<me, avatars, callbacks>>

-----------------------------------------------------------------------------
(***************************************************************************)
(* Network::Update: a packet.                                              *)
(***************************************************************************)

\* ID_CONNECTION_REQUEST_ACCEPTED, or an answer that is logged and no more: a
\* full server, another protocol version.
AttemptAnswered ==
    /\ Running
    /\ network = "attempt"
    /\ network' \in {"joined", "ignored"}
    /\ GoesOn
    /\ UNCHANGED <<controls, me, avatars, engine, callbacks>>

\* ID_CONNECTION_ATTEMPT_FAILED, or the end of the connection with the host.
ConnectionEnds ==
    /\ Running
    /\ network \in {"attempt", "joined", "given"}
    /\ Ends
    /\ UNCHANGED <<controls, engine>>

\* CreateLocalNetPlayer, teleport and the callback that announces the player
\* when the region is loaded.
CreateLocalNetPlayer(n) ==
    /\ Running
    /\ network = "joined"
    /\ n # HostId
    /\ network' = "given"
    /\ CreateLocal(n)
    /\ IF hero THEN onLoad' = session /\ loading' = TRUE
               ELSE UNCHANGED <<onLoad, loading>>
    /\ GoesOn
    /\ UNCHANGED <<controls, avatars, hero>>

\* Another player: an avatar, with callbacks under its id.  A game without a
\* local player asks for its id all the same.
CreateNetPlayer(n) ==
    /\ Running
    /\ network \in {"given", "host"}
    /\ n \notin avatars \cup {me} /\ (network = "host" => n # HostId)
    /\ \/ me = NoPlayer /\ Breaks("null")
       \/ /\ me # NoPlayer
          /\ avatars' = avatars \cup {n}
          /\ onResolve' = [onResolve EXCEPT ![n] = session]
          /\ GoesOn
          /\ UNCHANGED <<controls, network, me, engine, onLoad>>

\* Mutant of DestroyNetPlayer: the callbacks stay.
DestroyNetPlayerOnly(n) ==
    /\ Running
    /\ n \in avatars
    /\ avatars' = avatars \ {n}
    /\ GoesOn
    /\ UNCHANGED <<controls, network, me, engine, callbacks>>

DestroyNetPlayer(n) ==
    /\ Running
    /\ n \in avatars
    /\ avatars' = avatars \ {n}
    /\ onResolve' = [onResolve EXCEPT ![n] = None]
    /\ GoesOn
    /\ UNCHANGED <<controls, network, me, engine, onLoad>>

-----------------------------------------------------------------------------
(***************************************************************************)
(* The engine.                                                             *)
(***************************************************************************)

\* The player's creature comes and goes; so do region loads.
EngineChanges ==
    /\ Running
    /\ \/ hero' = ~hero /\ UNCHANGED loading
       \/ loading' = ~loading /\ UNCHANGED hero
    /\ GoesOn
    /\ UNCHANGED <<controls, network, me, avatars, callbacks>>

\* HUpdateRegionLoad.  The callback of a session that is over uses its manager,
\* which is destroyed.  The live one waits for the load to end, then takes
\* itself out of the map that is being walked through, and uses what it has
\* captured: undefined in both cases, the game breaks or goes on.
UpdateRegionLoad ==
    /\ Running
    /\ onLoad # None
    /\ \/ onLoad \in Stale /\ Breaks("dangling")
       \/ onLoad \notin Stale /\ ~loading /\ Breaks("erased")
       \/ /\ ~loading
          /\ onLoad' = None
          /\ GoesOn
          /\ UNCHANGED <<controls, network, me, avatars, engine, onResolve>>

Creatures == avatars \cup {k \in Id : k = me /\ hero}

\* Every creature resolves its movement and its facing direction, and for each
\* of them every callback is called, whoever registered it: the local player's
\* sends one message, the others move avatars.
Resolve ==
    /\ Running
    /\ Creatures # {}
    /\ \/ Stale \cap {onResolve[k] : k \in Id} # {} /\ Breaks("dangling")
       \/ /\ burst' = IF me # NoPlayer THEN 2 * Cardinality(Creatures) ELSE 0
          /\ UNCHANGED <<controls, sessionState, engine, callbacks, careless>>

-----------------------------------------------------------------------------
Init ==
    /\ place = "menu" /\ fault = "no" /\ keys = {} /\ prompt = "no"
    /\ network = "none" /\ session = 0 /\ me = NoPlayer /\ avatars = {}
    /\ hero = FALSE /\ loading = FALSE
    /\ onLoad = None /\ onResolve = [k \in Id |-> None]
    /\ burst = 0 /\ careless = {}

Next ==
    \/ \E k \in Key : Press(k)
    \/ EnterWorld \/ QuitGame \/ LeaveWorld
    \/ SelectDisconnect \/ SelectHost \/ SelectConnect
    \/ \E k \in {"host", "connect"} : StartupFails(k)
    \/ Host \/ Connect
    \/ AttemptAnswered \/ ConnectionEnds
    \/ \E n \in Id : CreateLocalNetPlayer(n) \/ CreateNetPlayer(n) \/ DestroyNetPlayer(n)
    \/ EngineChanges \/ UpdateRegionLoad \/ Resolve

\* While the game is in its world the engine updates, and an update asks for
\* NUMPAD 3 first.  Nobody has to press a key, answer a prompt or a packet.
Spec == Init /\ [][Next]_vars /\ WF_vars(SelectDisconnect)

-----------------------------------------------------------------------------
(***************************************************************************)
(* Properties.                                                             *)
(***************************************************************************)
TypeOK ==
    /\ place \in {"menu", "world", "gone"}
    /\ fault \in {"no", "null", "dangling", "erased"}
    /\ keys \subseteq Key
    /\ prompt \in {"no", "host", "connect"}
    /\ network \in State
    /\ session \in 0 .. MaxSessions
    /\ me \in Id \cup {NoPlayer}
    /\ avatars \subseteq Id \ {me}
    /\ hero \in BOOLEAN /\ loading \in BOOLEAN
    /\ onLoad \in Session \cup {None}
    /\ onResolve \in [Id -> Session \cup {None}]
    /\ burst \in 0 .. 2 * (MaxId + 1)
    /\ careless \subseteq Session

\* The engine's static maps and the session's lists agree: during a session
\* its motion callbacks are those of its avatars and its local player, under
\* ids that pass from session to session and from player to player, and when it
\* is over none is left but for what LeftBehind allows.
CallbacksMatchPlayers ==
    {k \in Id : Live(onResolve[k])} =
        avatars \cup {k \in Id : k = me}

\* What a session leaves in the engine, and the engine will call on objects that
\* are gone, it leaves for one of two reasons: it ended before its region load
\* did, or its player had no creature.  Every other end - by key, by the host,
\* by a failed attempt, by leaving the world - leaves nothing, whatever sessions
\* there were before.
LeftBehind == Stale \subseteq careless

\* "NUMPAD 3 - Disconnect" (README.md, In game): whatever a session has got to,
\* an attempt that nobody answers included, the key ends it.
KeyEndsSession ==
    Running /\ network # "none" /\ "disconnect" \in keys
        ~> network = "none" \/ place = "gone"

\* "A well-behaved client sends movement + rotation once per physics resolve"
\* (RelayServer.cpp:31-32): a client of the relay, which knows nobody with a
\* host's id, sends two messages each time the engine has resolved the motion of
\* what is there.
MovementOncePerResolve == network = "given" /\ HostId \notin avatars => burst <= 2
=============================================================================
