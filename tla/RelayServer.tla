----------------------------- MODULE RelayServer -----------------------------
(***************************************************************************)
(* The dedicated relay of Server/src/RelayServer.cpp.  The main thread     *)
(* takes the packets of the transport one by one (Tick), keeps a table of  *)
(* players, hands out network ids, tells newcomers where to appear and     *)
(* relays what one player does to the others.  One action below is one     *)
(* packet, or one of the calls of main().                                  *)
(*                                                                         *)
(* What is kept: the player table with its guards, the per-player flood    *)
(* guard, the spawn hand-off, the roster, the relay fan-out, the persisted *)
(* rendezvous point, orderly stop and redeploy.  What is abstracted: a     *)
(* position is a model value; up, forward, acceleration and the creature   *)
(* definition are carried by the code without ever being read; time is the *)
(* question "has a second passed since the window began".                  *)
(***************************************************************************)
EXTENDS Naturals, FiniteSets

CONSTANTS
    Address,          \* transport addresses clients may connect from
    Position,         \* positions a creature can be at
    NoPosition,       \* "no position known"
    MaxPlayers,       \* config_.maxPlayers
    MaxPackets,       \* kMaxPacketsPerSecond
    AnchorMode,       \* config_.spawnMode is Anchor (else Fixed)
    SpawnConfigured,  \* config_.spawnConfigured
    ConfigSpawn,      \* config_.spawn
    Persistent        \* a state file is configured and can be written

ASSUME ConstantsAssumption ==
    /\ MaxPlayers \in Nat \ {0}
    /\ MaxPackets \in Nat \ {0}
    /\ AnchorMode \in BOOLEAN
    /\ SpawnConfigured \in BOOLEAN
    /\ Persistent \in BOOLEAN
    /\ ConfigSpawn \in Position
    /\ NoPosition \notin Position

VARIABLES
    running,    \* peer_ exists: between Start and Stop
    players,    \* players_, the table of registered players
    link,       \* the transport's view of each address
    persisted,  \* persistedAnchor_ and the state file, NoPosition if unknown
    sent,       \* what the last step handed to peer_->Send, per address
    told        \* the ids each address has been told to keep an avatar for

vars == <<running, players, link, persisted, sent, told>>

(***************************************************************************)
(* Types.                                                                  *)
(***************************************************************************)
NetworkId == 1 .. MaxPlayers

Player == [addr    : Address,
           id      : NetworkId,
           spawned : BOOLEAN,
           pos     : Position \cup {NoPosition},
           count   : 0 .. (MaxPackets + 1)]

\* "ending": the connection is gone and its drop notification is queued.
LinkState == {"down", "up", "ending"}

RosterEntry == [id : NetworkId, pos : Position \cup {NoPosition}]

CreateLocal(n, x)  == [type |-> "CREATE_LOCAL_NET_PLAYER", id |-> n, pos |-> x]
Create(n, x)       == [type |-> "CREATE_NET_PLAYER", id |-> n, pos |-> x]
Roster(entries)    == [type |-> "CREATE_NET_PLAYERS", entries |-> entries]
Movement(n, x)     == [type |-> "PLAYER_MOVEMENT", id |-> n, pos |-> x]
Rotation(n)        == [type |-> "PLAYER_ROTATION", id |-> n]
Destroy(n)         == [type |-> "DESTROY_NET_PLAYER", id |-> n]

Message ==
    [type : {"CREATE_LOCAL_NET_PLAYER", "CREATE_NET_PLAYER", "PLAYER_MOVEMENT"},
     id : NetworkId, pos : Position]
        \cup [type : {"PLAYER_ROTATION", "DESTROY_NET_PLAYER"}, id : NetworkId]
        \cup [type : {"CREATE_NET_PLAYERS"}, entries : SUBSET RosterEntry]

-----------------------------------------------------------------------------
(***************************************************************************)
(* The helpers of the class.                                               *)
(***************************************************************************)
Spawned(table) == {p \in table : p.spawned}

Registered(a) == \E p \in players : p.addr = a

UsedIds == {p.id : p \in players}

\* Mutant of AllocateNetworkId: the id after as many players as there are.
AllocateBySize == Cardinality(players) + 1

\* The lowest free id from 1 up.  The capacity check runs first, so the
\* loop never goes beyond MaxPlayers; the bound is one more, for TLC.
AllocateNetworkId ==
    CHOOSE n \in 1 .. (MaxPlayers + 1) :
        /\ n \notin UsedIds
        /\ \A m \in 1 .. (n - 1) : m \in UsedIds

\* The players whose id is the lowest among those in the world: the empty
\* set or a singleton.
Anchors == {p \in Spawned(players) : \A q \in Spawned(players) : p.id <= q.id}

\* Mutant of SpawnPositionFor: the persisted point takes precedence.
SpawnPersistedFirst ==
    IF AnchorMode /\ persisted # NoPosition /\ ~SpawnConfigured
    THEN persisted
    ELSE IF AnchorMode /\ Anchors # {}
         THEN (CHOOSE p \in Anchors : TRUE).pos
         ELSE ConfigSpawn

SpawnPositionFor ==
    IF AnchorMode /\ Anchors # {}
    THEN (CHOOSE p \in Anchors : TRUE).pos
    ELSE IF AnchorMode /\ persisted # NoPosition /\ ~SpawnConfigured
         THEN persisted
         ELSE ConfigSpawn

\* The flood guard.  A count beyond the limit behaves like the limit plus
\* one, so it saturates there.
AcceptRate(p, elapsed) ==
    [p EXCEPT !.count = IF elapsed THEN 1
                        ELSE IF p.count > MaxPackets THEN p.count
                        ELSE p.count + 1]

\* Mutant of Accepts: the limit itself is refused.
AcceptsBelowLimit(p, elapsed) == AcceptRate(p, elapsed).count < MaxPackets

Accepts(p, elapsed) == AcceptRate(p, elapsed).count <= MaxPackets

\* Mutant of TrustedId: the client names its own id.
ClaimedId(p, claimed) == claimed

\* "The id is the server's to hand out; never trust the client's copy."
TrustedId(p, claimed) == p.id

Replace(p, q) == (players \ {p}) \cup {q}

-----------------------------------------------------------------------------
(***************************************************************************)
(* Sending.  `sent` is the set of messages each address is sent by a step: *)
(* no step sends one address two messages whose order matters.             *)
(***************************************************************************)
Nothing == [b \in Address |-> {}]

SendTo(a, m) == [b \in Address |-> IF b = a THEN {m} ELSE {}]

\* Mutant of RelayExcept: clients that have not spawned are included.
RelayToAll(table, exceptId, m) ==
    [b \in Address |->
        IF \E p \in table : p.addr = b /\ p.id # exceptId THEN {m} ELSE {}]

\* Mutant of RelayExcept: the sender is included.
RelayToSender(table, exceptId, m) ==
    [b \in Address |-> IF \E p \in table : p.addr = b /\ p.spawned THEN {m} ELSE {}]

RelayExcept(table, exceptId, m) ==
    [b \in Address |->
        IF \E p \in table : p.addr = b /\ p.id # exceptId /\ p.spawned
        THEN {m} ELSE {}]

\* Mutant of SendRoster: clients that have not spawned are listed.
RosterOfAll(table, to) ==
    LET others == {p \in table : p.id # to.id}
    IN  IF others = {} THEN Nothing
        ELSE SendTo(to.addr, Roster({[id |-> p.id, pos |-> p.pos] : p \in others}))

\* Mutant of SendRoster: only the players with a lower id are listed.
RosterOfLower(table, to) ==
    LET others == {p \in table : p.id < to.id /\ p.spawned}
    IN  IF others = {} THEN Nothing
        ELSE SendTo(to.addr, Roster({[id |-> p.id, pos |-> p.pos] : p \in others}))

SendRoster(table, to) ==
    LET others == {p \in table : p.id # to.id /\ p.spawned}
    IN  IF others = {} THEN Nothing
        ELSE SendTo(to.addr, Roster({[id |-> p.id, pos |-> p.pos] : p \in others}))

\* Mutant of Farewell: the table is cleared before the broadcast.
NoFarewell == Nothing

\* What Stop broadcasts: to each player in the world, one Destroy for every
\* other player in the world.
Farewell ==
    [b \in Address |->
        {Destroy(p.id) : p \in {q \in Spawned(players) :
            \E r \in Spawned(players) : r.addr = b /\ r.id # q.id}}]

-----------------------------------------------------------------------------
(***************************************************************************)
(* What a client makes of the messages: it creates and destroys avatars.   *)
(***************************************************************************)
CreatedBy(ms) ==
    {n \in NetworkId : \E m \in ms :
        \/ m.type = "CREATE_NET_PLAYER" /\ m.id = n
        \/ m.type = "CREATE_NET_PLAYERS" /\ \E e \in m.entries : e.id = n}

DestroyedBy(ms) ==
    {n \in NetworkId : \E m \in ms : m.type = "DESTROY_NET_PLAYER" /\ m.id = n}

\* The ids b has been told of, after the messages of this step.
Heard(known, ms) == (known \cup CreatedBy(ms)) \ DestroyedBy(ms)

Send(messages) ==
    /\ sent' = messages
    /\ told' = [b \in Address |-> Heard(told[b], messages[b])]

\* The same, when address a enters or leaves the table: nothing is known of
\* what it holds.
SendForgetting(a, messages) ==
    /\ sent' = messages
    /\ told' = [b \in Address |-> IF b = a THEN {} ELSE Heard(told[b], messages[b])]

-----------------------------------------------------------------------------
(***************************************************************************)
(* The transport (SLikeNet) as the server meets it: it admits at most      *)
(* maxPlayers connections, ends one at any time, and then queues the drop  *)
(* notification behind the packets already received.                       *)
(***************************************************************************)
LinkUp(a) ==
    /\ running
    /\ link[a] = "down"
    /\ Cardinality({b \in Address : link[b] = "up"}) < MaxPlayers
    /\ link' = [link EXCEPT ![a] = "up"]
    /\ sent' = Nothing
    /\ UNCHANGED <<running, players, persisted, told>>

LinkEnds(a) ==
    /\ running
    /\ link[a] = "up"
    /\ link' = [link EXCEPT ![a] = "ending"]
    /\ sent' = Nothing
    /\ UNCHANGED <<running, players, persisted, told>>

\* Tick takes a packet that a sent while connected.
Receives(a) == running /\ link[a] = "up"

-----------------------------------------------------------------------------
(***************************************************************************)
(* One action per packet.  A packet of an unregistered sender other than   *)
(* ID_CONNECTION_NOTIFICATION and the drop notifications changes nothing.  *)
(***************************************************************************)

\* Tick: the flood guard refuses the packet, whatever it is, before the
\* switch on its type.  When it was the drop notification, the link is over.
RateLimited(a, elapsed) ==
    /\ running
    /\ link[a] # "down"
    /\ \E p \in players :
        /\ p.addr = a
        /\ ~Accepts(p, elapsed)
        /\ players' = Replace(p, AcceptRate(p, elapsed))
    /\ link' = IF link[a] = "ending" THEN [link EXCEPT ![a] = "down"] ELSE link
    /\ sent' = Nothing
    /\ UNCHANGED <<running, persisted, told>>

\* ID_CONNECTION_NOTIFICATION of an unregistered sender, with a place free.
Register(a) ==
    LET p == [addr |-> a, id |-> AllocateNetworkId, spawned |-> FALSE,
              pos |-> NoPosition, count |-> 0]
    IN  /\ Receives(a)
        /\ ~Registered(a)
        /\ Cardinality(players) < MaxPlayers
        /\ players' = players \cup {p}
        /\ SendForgetting(a, SendTo(a, CreateLocal(p.id, SpawnPositionFor)))
        /\ UNCHANGED <<running, link, persisted>>

\* ... with the table full: CloseConnection, which queues no notification.
Refuse(a) ==
    /\ Receives(a)
    /\ ~Registered(a)
    /\ Cardinality(players) >= MaxPlayers
    /\ link' = [link EXCEPT ![a] = "down"]
    /\ sent' = Nothing
    /\ UNCHANGED <<running, players, persisted, told>>

HandleConnectionNotification(a) == Register(a) \/ Refuse(a)

\* A packet that only the flood guard notices: a duplicate
\* ID_CONNECTION_NOTIFICATION, a malformed packet, an unknown type.
Ignore(a, elapsed) ==
    /\ Receives(a)
    /\ \E p \in players :
        /\ p.addr = a
        /\ Accepts(p, elapsed)
        /\ players' = Replace(p, AcceptRate(p, elapsed))
    /\ sent' = Nothing
    /\ UNCHANGED <<running, link, persisted, told>>

\* The claimed id is read and not used.
HandleCreateNetPlayer(a, elapsed, claimed, x) ==
    /\ Receives(a)
    /\ \E p \in players :
        LET q == [AcceptRate(p, elapsed) EXCEPT
                    !.id = TrustedId(p, claimed), !.spawned = TRUE, !.pos = x]
            table == Replace(p, q)
            announce == RelayExcept(table, q.id, Create(q.id, x))
            roster == SendRoster(table, q)
        IN  /\ p.addr = a
            /\ Accepts(p, elapsed)
            /\ players' = table
            /\ Send([b \in Address |-> announce[b] \cup roster[b]])
    /\ UNCHANGED <<running, link, persisted>>

\* Ignored until the sender has spawned.
HandlePlayerMovement(a, elapsed, x) ==
    /\ Receives(a)
    /\ \E p \in players :
        LET q == [AcceptRate(p, elapsed) EXCEPT !.pos = x]
        IN  /\ p.addr = a
            /\ p.spawned
            /\ Accepts(p, elapsed)
            /\ players' = Replace(p, q)
            /\ Send(RelayExcept(Replace(p, q), q.id, Movement(q.id, x)))
    /\ UNCHANGED <<running, link, persisted>>

HandlePlayerRotation(a, elapsed) ==
    /\ Receives(a)
    /\ \E p \in players :
        LET q == AcceptRate(p, elapsed)
        IN  /\ p.addr = a
            /\ p.spawned
            /\ Accepts(p, elapsed)
            /\ players' = Replace(p, q)
            /\ Send(RelayExcept(Replace(p, q), q.id, Rotation(q.id)))
    /\ UNCHANGED <<running, link, persisted>>

\* ID_DISCONNECTION_NOTIFICATION or ID_CONNECTION_LOST, past the flood guard.
HandleDrop(a, elapsed) ==
    /\ running
    /\ link[a] = "ending"
    /\ link' = [link EXCEPT ![a] = "down"]
    /\ \/ /\ ~Registered(a)
          /\ sent' = Nothing
          /\ UNCHANGED <<players, told>>
       \/ \E p \in players :
            LET rest == {q \in players : q.id # p.id}
            IN  /\ p.addr = a
                /\ Accepts(p, elapsed)
                /\ players' = rest
                /\ SendForgetting(a, IF p.spawned
                                     THEN RelayExcept(rest, p.id, Destroy(p.id))
                                     ELSE Nothing)
    /\ UNCHANGED <<running, persisted>>

-----------------------------------------------------------------------------
(***************************************************************************)
(* The periodic save at the end of Tick, Stop, and the Start of the next   *)
(* deployment, which loads the state file.                                 *)
(***************************************************************************)
PersistAnchor ==
    IF Persistent /\ Anchors # {}
    THEN persisted' = (CHOOSE p \in Anchors : TRUE).pos
    ELSE UNCHANGED persisted

TickPersist ==
    /\ running
    /\ PersistAnchor
    /\ sent' = Nothing
    /\ UNCHANGED <<running, players, link, told>>

\* Stop saves the anchor, says farewell, empties the table and shuts the
\* transport down.
Stop ==
    /\ running
    /\ PersistAnchor
    /\ Send(Farewell)
    /\ running' = FALSE
    /\ players' = {}
    /\ link' = [a \in Address |-> "down"]

\* What the text of the state file gives back of a point: another one, rounded,
\* or none, if it is no number (see ServerProcess).
FromText(point) == IF point = NoPosition THEN {NoPosition} ELSE Position \cup {NoPosition}

Start ==
    /\ ~running
    /\ running' = TRUE
    /\ persisted' \in FromText(persisted)
    /\ sent' = Nothing
    /\ UNCHANGED <<players, link, told>>

Init ==
    /\ running = TRUE
    /\ players = {}
    /\ link = [a \in Address |-> "down"]
    /\ persisted \in IF Persistent THEN Position \cup {NoPosition} ELSE {NoPosition}
    /\ sent = Nothing
    /\ told = [a \in Address |-> {}]

Packet(a, elapsed) ==
    \/ RateLimited(a, elapsed)
    \/ Ignore(a, elapsed)
    \/ \E claimed \in NetworkId, x \in Position :
        HandleCreateNetPlayer(a, elapsed, claimed, x)
    \/ \E x \in Position : HandlePlayerMovement(a, elapsed, x)
    \/ HandlePlayerRotation(a, elapsed)
    \/ HandleDrop(a, elapsed)

Next ==
    \/ \E a \in Address :
        \/ LinkUp(a)
        \/ LinkEnds(a)
        \/ HandleConnectionNotification(a)
        \/ \E elapsed \in BOOLEAN : Packet(a, elapsed)
    \/ TickPersist
    \/ Stop
    \/ Start

Spec == Init /\ [][Next]_vars

-----------------------------------------------------------------------------
(***************************************************************************)
(* Properties.                                                             *)
(***************************************************************************)

\* Every variable has its type; a player in the world has a real position.
TypeOK ==
    /\ running \in BOOLEAN
    /\ players \subseteq Player
    /\ \A p \in players : p.spawned => p.pos \in Position
    /\ link \in [Address -> LinkState]
    /\ persisted \in Position \cup {NoPosition}
    /\ sent \in [Address -> SUBSET Message]
    /\ told \in [Address -> SUBSET NetworkId]

\* FindByAddress and the id-keyed erase and relay are unambiguous: no two
\* entries of the table share an address or a network id, although ids are
\* recycled and clients claim ids of their own.
UniqueIdentity ==
    \A p, q \in players : p.addr = q.addr \/ p.id = q.id => p = q

\* Every client in the world has been told of exactly the other players in
\* the world, and one that is not in it yet has been told of nobody: the
\* announcement, the roster and the teardown of RelayServer.cpp agree
\* whatever the order of joins, repeated spawns and leaves.
ViewExact ==
    \A p \in players, n \in NetworkId :
        n \in told[p.addr] <=>
            p.spawned /\ \E q \in players : q # p /\ q.spawned /\ q.id = n

\* "Nothing is relayed to a player until it is true" (RelayServer.h:22): all
\* that a registered client that has not spawned is sent is its own id.
SilentUntilSpawned ==
    \A p \in players : ~p.spawned =>
        \A m \in sent[p.addr] : m.type = "CREATE_LOCAL_NET_PLAYER" /\ m.id = p.id

\* A player whose connection is over stays in the table only when the flood
\* guard has swallowed its drop notification.
GhostsAreRateLimited ==
    \A p \in players : link[p.addr] = "down" => p.count > MaxPackets

\* After Stop every client has been told that the other players are gone.
FarewellComplete == ~running => told = [a \in Address |-> {}]

\* An id stays with its holder from registration to removal, whatever id the
\* client claims when it spawns.
IdentityKept ==
    [][\A p \in players, q \in players' : p.addr = q.addr => p.id = q.id]_vars

\* Movement, rotation and departure are only ever told to a client that has
\* been told of that player before: the client half looks the id up in its
\* list of avatars.
NothingAboutStrangers ==
    [][\A b \in Address : \A m \in sent'[b] :
        m.type \in {"PLAYER_MOVEMENT", "PLAYER_ROTATION", "DESTROY_NET_PLAYER"}
            => m.id \in told[b]]_vars

\* The rendezvous: with spawn mode "anchor", a newcomer to a world that is not
\* empty is sent to where a player of that world stands at that moment, moves,
\* saved points and departures in between notwithstanding.
NewcomerMeetsSomebody ==
    [][\A b \in Address : \A m \in sent'[b] :
        AnchorMode /\ Spawned(players) # {} /\ m.type = "CREATE_LOCAL_NET_PLAYER"
            => \E q \in Spawned(players) : m.pos = q.pos]_vars

\* The teardown slice of NetPlayerManager that RelayServer.h:61-63 promises to
\* reproduce: a connection that is over takes its player with it.
NoGhosts == \A p \in players : link[p.addr] # "down"
=============================================================================
