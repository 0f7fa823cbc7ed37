------------------------------ MODULE HostServer ------------------------------
(***************************************************************************)
(* The listen server: a player's game that hosts (VK_NUMPAD1).  Network    *)
(* keeps the connections and hands out ids, NetPlayerManager keeps the     *)
(* host's own player (network id 0) and an avatar for every client that    *)
(* has entered the world; both run in the game's update, one packet or key *)
(* at a time.  The clients are games of the same program: each notifies    *)
(* once, announces itself once with the id it was given, then moves.       *)
(*                                                                         *)
(* Avatars stand on the game engine: players are numbered by local id and  *)
(* control a creature, unless the engine has taken or never made it.  The  *)
(* code checks for that wherever it asks; here it happens MaxFaults times. *)
(* Rotation is sent, relayed and registered exactly like movement, which   *)
(* stands for both; positions and definitions are left out.                *)
(***************************************************************************)
EXTENDS Integers, Sequences, FiniteSets, SequencesExt

CONSTANTS
    Address,         \* addresses clients may connect from
    Slots,           \* settings.slots: the host and its clients
    MaxAvatars,      \* bound: avatars in the host's list
    MaySpectate,     \* hosting may begin without a creature, from the menu
    MaxFaults        \* bound: times the engine fails to make a player or a
                     \* creature, or takes a creature away

ASSUME HostAssumption ==
    /\ IsFiniteSet(Address)
    /\ Slots \in Nat \ {0, 1}
    /\ MaxAvatars \in Nat
    /\ MaySpectate \in BOOLEAN
    /\ MaxFaults \in Nat

VARIABLES
    phase,        \* "off", "hosting", or "ended": the game has shut down
    fault,        \* what has brought the game down, if anything
    localPlayer,  \* localNetPlayer is not null (network id 0, local id 0)
    connections,  \* the clients' entries; the host's own, of id 0, is implicit
    avatars,      \* netPlayers, with the person each was made for
    creatures,    \* local ids whose player controls a creature
    callbacks,    \* network ids with motion callbacks on creatures
    link,         \* the transport and the client, by address
    given,        \* the id each client was told is its own
    sent,         \* what the last step sent, per address
    told,         \* the ids each client keeps an avatar for
    faults        \* how often the engine has faltered

sessionState == <<phase, fault, localPlayer, connections, avatars>>
hostVars == <<sessionState, creatures, callbacks, link, given, sent, told, faults>>

HostId == 0
NoId == -1

\* "ending": the connection is gone and its drop notification is queued.
LinkState == {"down", "connected", "notified", "announced", "ending"}

NetworkId == 1 .. Cardinality(Address)
LocalId == 0 .. MaxAvatars
Avatar == [id : NetworkId, local : LocalId, who : Address]

CreateLocal(n) == [type |-> "CREATE_LOCAL_NET_PLAYER", id |-> n]
Create(n) == [type |-> "CREATE_NET_PLAYER", id |-> n]
Roster(ids) == [type |-> "CREATE_NET_PLAYERS", ids |-> ids]
Movement(n) == [type |-> "PLAYER_MOVEMENT", id |-> n]
Destroy(n) == [type |-> "DESTROY_NET_PLAYER", id |-> n]

-----------------------------------------------------------------------------
(***************************************************************************)
(* NetworkUtils and NetPlayerManagerUtils.                                 *)
(***************************************************************************)

\* Mutant of GetFreeNetworkId: the id after as many connections as there are.
CountedNetworkId == Cardinality(connections) + 1

GetFreeNetworkId ==
    CHOOSE n \in NetworkId :
        /\ \A c \in connections : c.id # n
        /\ \A m \in 1 .. (n - 1) : \E c \in connections : c.id = m

GetNetworkIdFromAddress(a) ==
    IF \E c \in connections : c.addr = a
    THEN (CHOOSE c \in connections : c.addr = a).id
    ELSE NoId

GetFreeLocalId ==
    CHOOSE l \in LocalId :
        LET Taken(k) == (k = 0 /\ localPlayer) \/ \E i \in DOMAIN avatars : avatars[i].local = k
        IN  ~Taken(l) /\ \A k \in 0 .. (l - 1) : Taken(k)

\* The first avatar of network id n in a list.
Hits(list, n) == {i \in DOMAIN list : list[i].id = n}
First(list, n) == CHOOSE i \in Hits(list, n) : \A j \in Hits(list, n) : i <= j

\* GetCreatureFromNetworkId finds one.
HasCreature(list, alive, n) == Hits(list, n) # {} /\ list[First(list, n)].local \in alive

-----------------------------------------------------------------------------
(***************************************************************************)
(* Sending, and what the client half makes of it.                          *)
(***************************************************************************)
Nothing == [b \in Address |-> {}]

SendTo(a, messages) == [b \in Address |-> IF b = a THEN messages ELSE {}]

\* Mutant of SendToAllClientsExcept: the client itself is included.
SendToAllClients(n, m) ==
    [b \in Address |-> IF \E c \in connections : c.addr = b THEN {m} ELSE {}]

\* Mutant of SendToAllClientsExcept: whoever has a link, registered or not.
SendToEveryLink(n, m) ==
    [b \in Address |-> IF link[b] # "down" /\ given[b] # n THEN {m} ELSE {}]

SendToAllClientsExcept(n, m) ==
    [b \in Address |->
        IF \E c \in connections : c.addr = b /\ c.id # n THEN {m} ELSE {}]

\* Avatars that a client has after some messages.
Heard(known, own, messages) ==
    LET made == {m.id : m \in {x \in messages : x.type = "CREATE_NET_PLAYER"}}
                \cup UNION {m.ids : m \in {x \in messages : x.type = "CREATE_NET_PLAYERS"}}
        gone == {m.id : m \in {x \in messages : x.type = "DESTROY_NET_PLAYER"}}
    IN  (known \cup (made \ {own})) \ gone

Send(messages) ==
    /\ sent' = messages
    /\ told' = [b \in Address |-> Heard(told[b], given[b], messages[b])]

Quiet == sent' = Nothing /\ UNCHANGED told

\* The client at a has ended its session with all its avatars.
Forget(a, messages) ==
    /\ sent' = messages
    /\ given' = [given EXCEPT ![a] = NoId]
    /\ told' = [b \in Address |->
                    IF b = a THEN {} ELSE Heard(told[b], given[b], messages[b])]

EngineFalters == faults < MaxFaults /\ faults' = faults + 1

-----------------------------------------------------------------------------
(***************************************************************************)
(* The keys and the end of the game.                                       *)
(***************************************************************************)

\* VK_NUMPAD1.  Without a creature the host has no local player, and hosts all
\* the same.
Host ==
    /\ phase = "off" /\ fault = "none"
    /\ \E embodied \in IF MaySpectate THEN BOOLEAN ELSE {TRUE} :
        /\ localPlayer' = embodied
        /\ creatures' = IF embodied THEN {0} ELSE {}
        /\ callbacks' = IF embodied THEN callbacks \cup {HostId} ELSE callbacks
    /\ phase' = "hosting"
    /\ Quiet
    /\ UNCHANGED <<fault, connections, avatars, link, given, faults>>

\* Every entry of the list is a player with a creature: DestroyNetPlayers, which
\* takes the first entry until none is left, comes to an end.
Destroyable == \A i \in DOMAIN avatars : avatars[i].local \in creatures

\* Mutant of Teardown: the host's own player goes first.
TeardownSelfFirst ==
    /\ link' = [a \in Address |-> "down"]
    /\ given' = [a \in Address |-> NoId]
    /\ sent' = Nothing
    /\ told' = [a \in Address |-> {}]
    /\ IF avatars = <<>>
       THEN /\ callbacks' = {}
            /\ fault' = fault
       ELSE /\ fault' = "null"
            /\ UNCHANGED callbacks
    /\ avatars' = <<>>
    /\ connections' = {}
    /\ localPlayer' = FALSE
    /\ creatures' = creatures \cap {0}

\* Network::Disconnect shuts the transport down, then destroys the avatars and
\* the local player; what DestroyNetPlayer broadcasts goes nowhere any more.
\* Manager and network follow in the same update.
Teardown ==
    /\ link' = [a \in Address |-> "down"]
    /\ given' = [a \in Address |-> NoId]
    /\ sent' = Nothing
    /\ told' = [a \in Address |-> {}]
    /\ IF Destroyable
       THEN /\ avatars' = <<>>
            /\ connections' = {}
            /\ callbacks' = callbacks
                    \ ({avatars[i].id : i \in DOMAIN avatars}
                        \cup IF localPlayer /\ 0 \in creatures THEN {HostId} ELSE {})
            /\ localPlayer' = FALSE
            /\ creatures' = creatures \cap {0}
            /\ UNCHANGED fault
       ELSE /\ fault' = "spin"
            /\ UNCHANGED <<localPlayer, connections, avatars, creatures, callbacks>>

\* VK_NUMPAD3.
Disconnect ==
    /\ phase = "hosting" /\ fault = "none"
    /\ Teardown
    /\ phase' = "off"
    /\ UNCHANGED faults

\* The game ends: the shutdown callback uses the network without asking
\* whether there is one.
Shutdown ==
    /\ fault = "none"
    /\ phase' = "ended"
    /\ UNCHANGED faults
    /\ \/ phase = "hosting" /\ Teardown
       \/ /\ phase = "off"
          /\ fault' = "quit"
          /\ Quiet
          /\ UNCHANGED <<localPlayer, connections, avatars, creatures, callbacks, link, given>>

-----------------------------------------------------------------------------
(***************************************************************************)
(* Network::Update: one packet of a client.                                *)
(***************************************************************************)
Serving == phase = "hosting" /\ fault = "none"

LinkUp(a) ==
    /\ Serving
    /\ link[a] = "down"
    /\ Cardinality({b \in Address : link[b] \notin {"down", "ending"}}) < Slots - 1
    /\ link' = [link EXCEPT ![a] = "connected"]
    /\ Quiet
    /\ UNCHANGED <<sessionState, creatures, callbacks, given, faults>>

LinkEnds(a) ==
    /\ Serving
    /\ link[a] \notin {"down", "ending"}
    /\ link' = [link EXCEPT ![a] = "ending"]
    /\ Quiet
    /\ UNCHANGED <<sessionState, creatures, callbacks, given, faults>>

\* The connection is entered first; then the host's creature says where the
\* client is to appear, if the host has one.
HandleConnectionNotification(a) ==
    LET n == GetFreeNetworkId
    IN  /\ Serving
        /\ link[a] = "connected"
        /\ link' = [link EXCEPT ![a] = "notified"]
        /\ connections' = connections \cup {[addr |-> a, id |-> n]}
        /\ fault' = IF localPlayer THEN "none" ELSE "null"
        /\ IF localPlayer /\ 0 \in creatures
           THEN /\ given' = [given EXCEPT ![a] = n]
                /\ sent' = SendTo(a, {CreateLocal(n)})
           ELSE sent' = Nothing /\ UNCHANGED given
        /\ UNCHANGED <<phase, localPlayer, avatars, creatures, callbacks, told, faults>>

\* Mutant of RosterOf: the avatars without the host's own.
RosterWithoutHost(list, alive) ==
    Roster({list[i].id : i \in DOMAIN list})

\* Host and avatars as BroadcastCreateNetPlayers lists them.  Avatars without
\* a creature are counted and not written; the reader then makes up an entry
\* of id -1, once.
RosterOf(list, alive) ==
    LET written == {list[i].id : i \in {j \in DOMAIN list : HasCreature(list, alive, list[j].id)}}
        short == \E i \in DOMAIN list : ~HasCreature(list, alive, list[i].id)
    IN  Roster({HostId} \cup written \cup IF short THEN {NoId} ELSE {})

\* What CreateNetPlayer sends: the newcomer to the others, the roster to it.
Announcement(a, n, list, alive) ==
    LET others == SendToAllClientsExcept(n, Create(n))
        roster == SendTo(a, IF 0 \in alive THEN {RosterOf(list, alive)} ELSE {})
    IN  [b \in Address |-> others[b] \cup roster[b]]

\* ID_CREATE_NET_PLAYER of a client, with the id it was given.
HandleCreateNetPlayer(a) ==
    LET n == given[a]
        l == GetFreeLocalId
        list == Append(avatars, [id |-> n, local |-> l, who |-> a])
    IN  /\ Serving
        /\ link[a] = "notified" /\ n # NoId
        /\ Len(avatars) < MaxAvatars
        /\ link' = [link EXCEPT ![a] = "announced"]
        /\ \/ \E made \in BOOLEAN :
                LET alive == IF made THEN creatures \cup {l} ELSE creatures \ {l}
                IN  /\ IF made THEN UNCHANGED faults ELSE EngineFalters
                    /\ avatars' = list
                    /\ creatures' = alive
                    /\ callbacks' = IF HasCreature(list, alive, n)
                                    THEN callbacks \cup {n} ELSE callbacks
                    /\ Send(Announcement(a, n, list, alive))
           \/ /\ EngineFalters
              /\ Quiet
              /\ UNCHANGED <<avatars, creatures, callbacks>>
        /\ UNCHANGED <<phase, fault, localPlayer, connections, given>>

\* The client has a local player, in the world or still loading.
HandleNetPlayerMovement(a) ==
    /\ Serving
    /\ link[a] \in {"notified", "announced"} /\ given[a] # NoId
    /\ Send(SendToAllClientsExcept(given[a], Movement(given[a])))
    /\ UNCHANGED <<sessionState, creatures, callbacks, link, given, faults>>

\* The host itself moves: its creature resolves its movement.
BroadcastLocalNetPlayerMovement ==
    /\ Serving
    /\ HostId \in callbacks /\ 0 \in creatures
    /\ Send(SendToAllClientsExcept(HostId, Movement(HostId)))
    /\ UNCHANGED <<sessionState, creatures, callbacks, link, given, faults>>

\* DestroyNetPlayer, for the client at a: nothing at all without a player and a
\* creature.
DestroyNetPlayer(n, a) ==
    IF HasCreature(avatars, creatures, n)
    THEN /\ avatars' = RemoveAt(avatars, First(avatars, n))
         /\ creatures' = creatures \ {avatars[First(avatars, n)].local}
         /\ callbacks' = callbacks \ {n}
         /\ Forget(a, SendToAllClientsExcept(n, Destroy(n)))
    ELSE Forget(a, Nothing) /\ UNCHANGED <<avatars, creatures, callbacks>>

\* Mutant of HandleDrop: the avatar stays.
DropConnectionOnly(a) ==
    /\ Serving
    /\ link[a] = "ending"
    /\ link' = [link EXCEPT ![a] = "down"]
    /\ Forget(a, Nothing)
    /\ connections' = {c \in connections : c.id # GetNetworkIdFromAddress(a)}
    /\ UNCHANGED <<phase, fault, localPlayer, avatars, creatures, callbacks, faults>>

\* ID_DISCONNECTION_NOTIFICATION, ID_CONNECTION_LOST: RemoveConnection.
HandleDrop(a) ==
    LET n == GetNetworkIdFromAddress(a)
    IN  /\ Serving
        /\ link[a] = "ending"
        /\ link' = [link EXCEPT ![a] = "down"]
        /\ DestroyNetPlayer(n, a)
        /\ connections' = {c \in connections : c.id # n}
        /\ UNCHANGED <<phase, fault, localPlayer, faults>>

-----------------------------------------------------------------------------
\* The engine takes a creature away.
CreatureLost(l) ==
    /\ EngineFalters
    /\ Serving
    /\ creatures' = creatures \ {l}
    /\ Quiet
    /\ UNCHANGED <<sessionState, callbacks, link, given>>

Init ==
    /\ phase = "off"
    /\ fault = "none"
    /\ localPlayer = FALSE
    /\ connections = {}
    /\ avatars = <<>>
    /\ creatures = {}
    /\ callbacks = {}
    /\ link = [a \in Address |-> "down"]
    /\ given = [a \in Address |-> NoId]
    /\ sent = Nothing
    /\ told = [a \in Address |-> {}]
    /\ faults = 0

Packet(a) ==
    \/ HandleConnectionNotification(a)
    \/ HandleCreateNetPlayer(a)
    \/ HandleNetPlayerMovement(a)
    \/ HandleDrop(a)

Next ==
    \/ Host
    \/ Disconnect
    \/ Shutdown
    \/ BroadcastLocalNetPlayerMovement
    \/ \E a \in Address : LinkUp(a) \/ LinkEnds(a) \/ Packet(a)
    \/ \E l \in creatures : CreatureLost(l)

Spec == Init /\ [][Next]_hostVars

-----------------------------------------------------------------------------
(***************************************************************************)
(* Properties.                                                             *)
(***************************************************************************)
TypeOK ==
    /\ phase \in {"off", "hosting", "ended"}
    /\ fault \in {"none", "null", "spin", "quit"}
    /\ localPlayer \in BOOLEAN
    /\ connections \subseteq [addr : Address, id : NetworkId]
    /\ avatars \in Seq(Avatar)
    /\ creatures \subseteq LocalId
    /\ callbacks \subseteq NetworkId \cup {HostId}
    /\ link \in [Address -> LinkState]
    /\ given \in [Address -> NetworkId \cup {NoId}]
    /\ told \in [Address -> SUBSET (NetworkId \cup {HostId, NoId})]
    /\ faults \in 0 .. MaxFaults

\* GetNetworkIdFromAddress and SendToClient are unambiguous: clients come and
\* go and ids are reused, and no two connections share an address or an id.
ConnectionsDistinct ==
    \A c, d \in connections : c.addr = d.addr \/ c.id = d.id => c = d

AvatarIds == {avatars[i].id : i \in DOMAIN avatars}

\* The engine has kept its side so far.
Sound == faults = 0

\* While the engine keeps its side, a client that has announced itself keeps
\* an avatar for the host and for exactly the other clients in the world; one
\* that has not, for some of them at most: unlike the relay the host announces
\* newcomers to those still loading, and the roster they get later repeats
\* them.
HostView ==
    Sound => \A a \in Address :
        /\ link[a] = "announced" => told[a] = ({HostId} \cup AvatarIds) \ {given[a]}
        /\ link[a] = "notified" => told[a] \subseteq AvatarIds

\* A client's CreateNetPlayer uses its local player, which its own id brings
\* about: while the engine keeps its side no client hears of anybody before it,
\* although the host announces newcomers to those still loading.
OwnIdFirst == Sound => \A a \in Address : told[a] # {} => given[a] # NoId

\* What brings the host's game down: a client that connects to a host without
\* a creature, a disconnect after the engine has faltered, quitting without a
\* session; no order of packets and keys by itself.
NeverBroken ==
    /\ fault = "null" => phase = "hosting" /\ ~localPlayer
    /\ fault = "spin" => ~Sound

\* CreateNetPlayer does not ask whether there is an avatar of that id: nobody is
\* announced twice to a client, nor to itself, ids reused and rosters included.
AnnouncedOnce ==
    [][Sound => \A a \in Address : \A m \in sent'[a] :
        m.type = "CREATE_NET_PLAYER" => m.id \notin told[a] \cup {given[a]}]_hostVars

P == INSTANCE Presence WITH
        Person  <- Address,
        present <- IF Sound THEN {c.addr : c \in connections} ELSE {},
        inWorld <- IF Sound THEN {avatars[i].who : i \in DOMAIN avatars} ELSE {},
        sees    <- [a \in Address |->
            IF Sound /\ \E i \in DOMAIN avatars : avatars[i].who = a
            THEN {avatars[i].who : i \in {j \in DOMAIN avatars : avatars[j].id \in told[a]}}
            ELSE {}]

\* A game that hosts keeps the promise the relay keeps, until the engine first
\* falters (to Presence, the session then closes): every packet is an arrival,
\* an entry or a departure, and everyone in the world sees exactly the others.
HostImplementsPresence == P!Spec
=============================================================================
