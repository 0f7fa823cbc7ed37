----------------------------- MODULE RelaySession -----------------------------
(***************************************************************************)
(* A session on the relay: RelayServer, the transport's two ordered        *)
(* channels per client, and the client half of the mod (NetworkDispatcher, *)
(* NetPlayerManager) in every game.  The server reads a packet and hands   *)
(* its answers to the channels; a game reads a message per step and keeps  *)
(* avatars; players join, quit, lose their connection and come back, and   *)
(* ids are recycled meanwhile.                                             *)
(*                                                                         *)
(* All sends use channel 0, where reliable-ordered and sequenced messages  *)
(* keep their common order; a sequenced one (movement) may be lost.        *)
(* Rotation is sent, relayed and looked up exactly like movement, which    *)
(* stands for both.  Clients stay below the flood limit here (every packet *)
(* begins a window): what the limit does is RelayServer's subject.         *)
(***************************************************************************)
EXTENDS RelayServer, Sequences, SequencesExt

CONSTANTS
    MaxQueue,     \* bound: motion messages queued, and answers a queue takes
    StaleLoads    \* a player may reconnect while the region load that the
                  \* previous session began has not finished

ASSUME SessionAssumption == MaxQueue \in Nat \ {0} /\ StaleLoads \in BOOLEAN

VARIABLES
    client,       \* each game's state
    toServer,     \* packets of each client, in order
    toClient      \* messages to each client, in order

sessionVars == <<vars, client, toServer, toClient>>

NoId == 0   \* localNetPlayer is null: the relay reserves id 0

\* avatars is netPlayers: each with its network id and, for the properties
\* only, the address of the person it was created for.
Avatar == [id : NetworkId, who : Address]

ClientOff(loading) ==
    [phase |-> "off", creature |-> FALSE, id |-> NoId, loading |-> loading,
     avatars |-> <<>>]

-----------------------------------------------------------------------------
(***************************************************************************)
(* The channel to the clients.                                             *)
(***************************************************************************)

\* Who holds an id that a message of this step names.
Holder(n) == (CHOOSE p \in players \cup players' : p.id = n).addr

\* The message as the game reads it, with the person it is about.
OnWire(m) ==
    CASE m.type = "CREATE_LOCAL_NET_PLAYER" -> [type |-> m.type, id |-> m.id]
      [] m.type = "CREATE_NET_PLAYERS" ->
            [type |-> m.type,
             list |-> {[id |-> e.id, who |-> Holder(e.id)] : e \in m.entries}]
      [] OTHER -> [type |-> m.type, id |-> m.id, who |-> Holder(m.id)]

Enqueue(queue, messages) == queue \o SetToSeq(messages)

\* What the server's step sent goes to the peers it is connected to.
Post ==
    toClient' = [b \in Address |->
        IF link[b] = "up" /\ client[b].phase # "off"
        THEN Enqueue(toClient[b], {OnWire(m) : m \in sent'[b]})
        ELSE toClient[b]]

\* Bound: the server goes on when every queue is short.
Room == \A b \in Address : Len(toClient[b]) <= MaxQueue

-----------------------------------------------------------------------------
(***************************************************************************)
(* The server takes the oldest packet of a client.                         *)
(***************************************************************************)
TakesPacket(a, packet) ==
    /\ Room
    /\ toServer[a] # <<>>
    /\ Head(toServer[a]) = packet
    /\ toServer' = [toServer EXCEPT ![a] = Tail(@)]
    /\ UNCHANGED client

InWorld(a) == \E p \in players : p.addr = a /\ p.spawned

ServerTakesNotification(a) ==
    /\ TakesPacket(a, "CONNECTION_NOTIFICATION")
    /\ HandleConnectionNotification(a) \/ Ignore(a, TRUE)
    /\ Post

ServerTakesCreate(a) ==
    /\ TakesPacket(a, "CREATE_NET_PLAYER")
    /\ IF Registered(a)
       THEN \E claimed \in NetworkId, x \in Position :
                HandleCreateNetPlayer(a, TRUE, claimed, x)
       ELSE UNCHANGED vars
    /\ IF Registered(a) THEN Post ELSE UNCHANGED toClient

ServerTakesMovement(a) ==
    /\ TakesPacket(a, "PLAYER_MOVEMENT")
    /\ IF InWorld(a)
       THEN (\E x \in Position : HandlePlayerMovement(a, TRUE, x)) /\ Post
       ELSE (IF Registered(a) THEN Ignore(a, TRUE) ELSE UNCHANGED vars)
                /\ UNCHANGED toClient

ServerHandlesDrop(a) ==
    /\ Room
    /\ HandleDrop(a, TRUE)
    /\ Post
    /\ UNCHANGED <<client, toServer>>

ServerStops == Stop /\ Post /\ UNCHANGED <<client, toServer>>

ServerStarts == Start /\ UNCHANGED <<client, toServer, toClient>>

-----------------------------------------------------------------------------
(***************************************************************************)
(* The transport.                                                          *)
(***************************************************************************)

\* A connection ends, at the client's wish or not: what it had in flight to
\* the server may be lost.
ConnectionEnds(a) ==
    /\ LinkEnds(a)
    /\ toServer' = [toServer EXCEPT ![a] = <<>>]
    /\ UNCHANGED <<client, toClient>>

\* A sequenced message is lost.
MovementLost(a) ==
    \/ /\ toServer[a] # <<>> /\ Head(toServer[a]) = "PLAYER_MOVEMENT"
       /\ toServer' = [toServer EXCEPT ![a] = Tail(@)]
       /\ UNCHANGED <<vars, client, toClient>>
    \/ /\ toClient[a] # <<>> /\ Head(toClient[a]).type = "PLAYER_MOVEMENT"
       /\ toClient' = [toClient EXCEPT ![a] = Tail(@)]
       /\ UNCHANGED <<vars, client, toServer>>

-----------------------------------------------------------------------------
(***************************************************************************)
(* The game: VK_NUMPAD2 and VK_NUMPAD3, and the messages it reads.         *)
(***************************************************************************)

\* Network::Connect, up to the transport's acceptance.  The player's
\* creature exists unless no world is loaded.
Connect(a) ==
    /\ client[a].phase = "off"
    /\ client[a].loading => StaleLoads
    /\ LinkUp(a)
    /\ \E creature \in BOOLEAN :
        client' = [client EXCEPT ![a].phase = "connecting", ![a].creature = creature]
    /\ toServer' = [toServer EXCEPT ![a] = <<>>]
    /\ toClient' = [toClient EXCEPT ![a] = <<>>]

\* ID_CONNECTION_REQUEST_ACCEPTED.
HandleConnectionRequestAccepted(a) ==
    /\ client[a].phase = "connecting"
    /\ link[a] = "up"
    /\ client' = [client EXCEPT ![a].phase = "on"]
    /\ toServer' = [toServer EXCEPT ![a] = Append(@, "CONNECTION_NOTIFICATION")]
    /\ UNCHANGED <<vars, toClient>>

\* VK_NUMPAD3, or the host's disconnection, or a lost connection: avatars and
\* local player go.  The region-load callback stays, unless the game ended.
Disconnect(a) ==
    /\ client[a].phase # "off"
    /\ \E loading \in {client[a].loading, FALSE} :
        client' = [client EXCEPT ![a] = ClientOff(loading)]
    /\ toClient' = [toClient EXCEPT ![a] = <<>>]
    /\ UNCHANGED <<vars, toServer>>

\* The local player resolves its movement (from CreateLocalNetPlayer on).
BroadcastLocalNetPlayerMovement(a) ==
    /\ client[a].phase = "on"
    /\ client[a].id # NoId
    /\ link[a] = "up"
    /\ Len(toServer[a]) < MaxQueue
    /\ toServer' = [toServer EXCEPT ![a] = Append(@, "PLAYER_MOVEMENT")]
    /\ UNCHANGED <<vars, client, toClient>>

\* The region is loaded: the callback runs once and sends ID_CREATE_NET_PLAYER.
\* A callback left by an earlier session uses a destroyed manager: undefined,
\* it may send through whatever network object is there now, or do nothing.
RegionLoaded(a) ==
    LET stale == client[a].id = NoId
    IN  /\ client[a].loading
        /\ client' = [client EXCEPT ![a].loading = FALSE]
        /\ \/ /\ client[a].phase = "on" /\ link[a] = "up"
              /\ toServer' = [toServer EXCEPT ![a] = Append(@, "CREATE_NET_PLAYER")]
           \/ /\ stale \/ link[a] # "up"
              /\ UNCHANGED toServer
        /\ UNCHANGED <<vars, toClient>>

\* Network::Update takes the oldest message.
Reads(a, type) ==
    /\ client[a].phase = "on"
    /\ toClient[a] # <<>>
    /\ Head(toClient[a]).type = type
    /\ toClient' = [toClient EXCEPT ![a] = Tail(@)]
    /\ UNCHANGED <<vars, toServer>>

\* Mutant of CreateLocalNetPlayer: the player is not teleported, so no region
\* load and no announcement follow.
CreateLocalWithoutTeleport(a) ==
    /\ Reads(a, "CREATE_LOCAL_NET_PLAYER")
    /\ client' = IF client[a].creature
                 THEN [client EXCEPT ![a].id = Head(toClient[a]).id]
                 ELSE client

\* Mutant of CreateLocalNetPlayer: the player is announced, but stays null.
CreateLocalTooLate(a) ==
    /\ Reads(a, "CREATE_LOCAL_NET_PLAYER")
    /\ client' = [client EXCEPT ![a].loading = TRUE]

\* localNetPlayer, the movement callback and the region load; nothing without
\* a creature.
CreateLocalNetPlayer(a) ==
    /\ Reads(a, "CREATE_LOCAL_NET_PLAYER")
    /\ client' = IF client[a].creature
                 THEN [client EXCEPT ![a].id = Head(toClient[a]).id, ![a].loading = TRUE]
                 ELSE client

\* No check for an avatar of that id.
CreateNetPlayer(a) ==
    LET m == Head(toClient[a])
    IN  /\ Reads(a, "CREATE_NET_PLAYER")
        /\ client' = [client EXCEPT
                        ![a].avatars = Append(@, [id |-> m.id, who |-> m.who])]

Knows(a, n) == \E i \in DOMAIN client[a].avatars : client[a].avatars[i].id = n

\* Entries with the player's own id or a known one are skipped.
FromRoster(a, list) == {e \in list : e.id # client[a].id /\ ~Knows(a, e.id)}

CreateNetPlayers(a) ==
    LET m == Head(toClient[a])
    IN  /\ Reads(a, "CREATE_NET_PLAYERS")
        /\ client' = [client EXCEPT
                        ![a].avatars = @ \o SetToSeq(FromRoster(a, m.list))]

\* Updates the first avatar of that id, if there is one; positions are not kept.
ReceiveNetPlayerMovement(a) ==
    /\ Reads(a, "PLAYER_MOVEMENT")
    /\ UNCHANGED client

\* Mutant of Without: an early return leaves the avatar in the list.
WithoutErasing(avatars, n) == avatars

\* The list without the first avatar of id n.
Without(avatars, n) ==
    LET hits == {i \in DOMAIN avatars : avatars[i].id = n}
    IN  IF hits = {} THEN avatars
        ELSE RemoveAt(avatars, CHOOSE i \in hits : \A j \in hits : i <= j)

DestroyNetPlayer(a) ==
    /\ Reads(a, "DESTROY_NET_PLAYER")
    /\ client' = [client EXCEPT ![a].avatars = Without(@, Head(toClient[a]).id)]

-----------------------------------------------------------------------------
SInit ==
    /\ Init
    /\ client = [a \in Address |-> ClientOff(FALSE)]
    /\ toServer = [a \in Address |-> <<>>]
    /\ toClient = [a \in Address |-> <<>>]

ServerTakes(a) ==
    \/ ServerTakesNotification(a)
    \/ ServerTakesCreate(a)
    \/ ServerTakesMovement(a)

ClientReads(a) ==
    \/ CreateLocalNetPlayer(a)
    \/ CreateNetPlayer(a)
    \/ CreateNetPlayers(a)
    \/ ReceiveNetPlayerMovement(a)
    \/ DestroyNetPlayer(a)

SNext ==
    \/ \E a \in Address :
        \/ ServerTakes(a)
        \/ ServerHandlesDrop(a)
        \/ ConnectionEnds(a)
        \/ MovementLost(a)
        \/ Connect(a)
        \/ HandleConnectionRequestAccepted(a)
        \/ Disconnect(a)
        \/ BroadcastLocalNetPlayerMovement(a)
        \/ RegionLoaded(a)
        \/ ClientReads(a)
    \/ ServerStops
    \/ ServerStarts

SSpec == SInit /\ [][SNext]_sessionVars

\* The main loops run on: the server's tick, every game's update, and a region
\* load that has begun finishes.  Nobody has to connect, move, quit or lose
\* anything.
Fairness ==
    \A a \in Address :
        /\ WF_sessionVars(ServerTakes(a))
        /\ WF_sessionVars(ServerHandlesDrop(a))
        /\ WF_sessionVars(HandleConnectionRequestAccepted(a))
        /\ WF_sessionVars(RegionLoaded(a))
        /\ WF_sessionVars(ClientReads(a))

FairSpec == SSpec /\ Fairness

-----------------------------------------------------------------------------
(***************************************************************************)
(* Properties.                                                             *)
(***************************************************************************)

SessionTypeOK ==
    /\ TypeOK
    /\ client \in [Address ->
        [phase : {"off", "connecting", "on"}, creature : BOOLEAN,
         id : NetworkId \cup {NoId}, loading : BOOLEAN, avatars : Seq(Avatar)]]
    /\ toServer \in [Address ->
        Seq({"CONNECTION_NOTIFICATION", "CREATE_NET_PLAYER", "PLAYER_MOVEMENT"})]
    /\ \A a \in Address : client[a].phase # "on" => client[a].id = NoId

\* "it must reach the client before any relayed traffic, because the client's
\* localNetPlayer does not exist until it lands" (RelayServer.cpp:253): a game
\* that reads a message about another player, which CreateNetPlayer,
\* CreateNetPlayers and DestroyNetPlayer answer through localNetPlayer, has one.
LocalPlayerFirst ==
    \A a \in Address :
        toClient[a] # <<>> /\ client[a].phase = "on"
            /\ Head(toClient[a]).type # "CREATE_LOCAL_NET_PLAYER"
        => client[a].id # NoId

\* "Nothing is relayed to a player until it is true: [...] CreateNetPlayer would
\* run against a half-initialised local player" (RelayServer.h:22-25): when the
\* server takes a connected client to be in the world, its game has its local
\* player.
SpawnedHasLocalPlayer ==
    \A a \in Address :
        client[a].phase = "on" /\ link[a] = "up" /\ InWorld(a) => client[a].id # NoId

\* A game never holds two avatars of one id, nor one of its own: although
\* CreateNetPlayer checks neither, rosters, announcements, departures and
\* recycled ids never overlap.
OneAvatarEach ==
    \A a \in Address :
        LET list == client[a].avatars
        IN  /\ \A i, j \in DOMAIN list : list[i].id = list[j].id => i = j
            /\ \A i \in DOMAIN list : list[i].id # client[a].id

\* Movement and departure are applied to the avatar of the person they are
\* about, never to one that took over the id.
RightPerson ==
    \A a \in Address :
        LET m == Head(toClient[a])
        IN  toClient[a] # <<>> /\ m.type \in {"PLAYER_MOVEMENT", "DESTROY_NET_PLAYER"}
            => \A i \in DOMAIN client[a].avatars :
                client[a].avatars[i].id = m.id => client[a].avatars[i].who = m.who

\* When a connected game has read all it was sent, its avatars are exactly the
\* other players in the world, each under the right id (nobody before it is
\* in the world itself).
AvatarsAreTheWorld ==
    \A a \in Address :
        client[a].phase = "on" /\ link[a] = "up" /\ toClient[a] = <<>>
        => ToSet(client[a].avatars) =
            {[id |-> p.id, who |-> p.addr] :
                p \in {q \in Spawned(players) : q.addr # a /\ InWorld(a)}}

\* A game with a creature that connects gets into the world, unless it is
\* refused, leaves or loses the connection.
JoinerEntersWorld ==
    \A a \in Address :
        client[a].phase = "on" /\ client[a].creature
            ~> InWorld(a) \/ client[a].phase = "off" \/ link[a] # "up"
=============================================================================
