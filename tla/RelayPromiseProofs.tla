-------------------------- MODULE RelayPromiseProofs --------------------------
(***************************************************************************)
(* What RelayServer promises its clients, for every set of addresses and   *)
(* every value of the limits: what is sent to whom, who may become a       *)
(* ghost, that ids stay with their holders, and that it implements         *)
(* Presence.  The inductive invariant is the one of RelayServerProofs; of  *)
(* the properties here only GhostsAreRateLimited needs an induction of its *)
(* own, the others follow step by step.                                    *)
(***************************************************************************)
EXTENDS RelayPresence, RelayServerProofs

\* A packet of a registered player, but for a drop, replaces its entry.
LEMMA PacketReplaces ==
    ASSUME IInv, NEW a \in Address, NEW elapsed \in BOOLEAN,
           \/ RateLimited(a, elapsed)
           \/ Ignore(a, elapsed)
           \/ \E claimed \in NetworkId, x \in Position :
                HandleCreateNetPlayer(a, elapsed, claimed, x)
           \/ \E x \in Position : HandlePlayerMovement(a, elapsed, x)
           \/ HandlePlayerRotation(a, elapsed)
    PROVE  \E p \in players, q \in players' :
                p.addr = a /\ q.addr = a /\ q.id = p.id /\ players' = Replace(p, q)
<1>1. \A p \in players : AcceptRate(p, elapsed).addr = p.addr
                      /\ AcceptRate(p, elapsed).id = p.id
                      /\ AcceptRate(p, elapsed) \in Player
    BY AcceptRateType DEF IInv, TypeOK
<1>2. \A p, q : q \in Replace(p, q)
    BY DEF Replace
<1>3. CASE RateLimited(a, elapsed) \/ Ignore(a, elapsed) \/ HandlePlayerRotation(a, elapsed)
    <2>1. PICK p \in players : p.addr = a /\ players' = Replace(p, AcceptRate(p, elapsed))
        BY <1>3 DEF RateLimited, Ignore, HandlePlayerRotation
    <2>. QED BY <1>1, <1>2, <2>1
<1>4. CASE \E x \in Position : HandlePlayerMovement(a, elapsed, x)
    <2>1. PICK p \in players, x \in Position :
            p.addr = a /\ players' = Replace(p, [AcceptRate(p, elapsed) EXCEPT !.pos = x])
        BY <1>4 DEF HandlePlayerMovement
    <2>. DEFINE q == [AcceptRate(p, elapsed) EXCEPT !.pos = x]
    <2>2. q.addr = a /\ q.id = p.id
        BY <1>1, <2>1 DEF Player
    <2>3. players' = Replace(p, q)
        BY <2>1
    <2>. HIDE DEF q
    <2>. QED BY <1>2, <2>1, <2>2, <2>3
<1>5. CASE \E claimed \in NetworkId, x \in Position :
            HandleCreateNetPlayer(a, elapsed, claimed, x)
    <2>1. PICK p \in players, claimed \in NetworkId, x \in Position :
            /\ p.addr = a
            /\ players' = Replace(p, [AcceptRate(p, elapsed) EXCEPT
                    !.id = TrustedId(p, claimed), !.spawned = TRUE, !.pos = x])
        BY <1>5 DEF HandleCreateNetPlayer
    <2>. DEFINE q == [AcceptRate(p, elapsed) EXCEPT
                        !.id = TrustedId(p, claimed), !.spawned = TRUE, !.pos = x]
    <2>2. q.addr = a /\ q.id = p.id
        BY <1>1, <2>1 DEF Player, TrustedId
    <2>3. players' = Replace(p, q)
        BY <2>1
    <2>. HIDE DEF q
    <2>. QED BY <1>2, <2>1, <2>2, <2>3
<1>. QED BY <1>3, <1>4, <1>5

\* What a packet of a player in the world is relayed as: a message about that
\* player, to others in the world.
LEMMA Relayed ==
    ASSUME IInv, NEW a \in Address, NEW elapsed \in BOOLEAN,
           \/ \E x \in Position : HandlePlayerMovement(a, elapsed, x)
           \/ HandlePlayerRotation(a, elapsed)
    PROVE  \E p \in players :
            /\ p.spawned
            /\ \A b \in Address : \A m \in sent'[b] :
                /\ m.type \in {"PLAYER_MOVEMENT", "PLAYER_ROTATION"}
                /\ m.id = p.id
                /\ \E r \in players \cap players' : r.addr = b /\ r # p /\ r.spawned
<1>. DEFINE Shape(p, q, m) ==
        /\ p.spawned
        /\ m.type \in {"PLAYER_MOVEMENT", "PLAYER_ROTATION"}
        /\ q.id = p.id /\ m.id = p.id
        /\ sent' = RelayExcept(Replace(p, q), q.id, m)
        /\ players' = Replace(p, q)
<1>1. \A p \in players : AcceptRate(p, elapsed).id = p.id /\ AcceptRate(p, elapsed) \in Player
    BY AcceptRateType DEF IInv, TypeOK
<1>2. \E p \in players : \E q, m : Shape(p, q, m)
    <2>1. CASE HandlePlayerRotation(a, elapsed)
        <3>1. PICK p \in players :
                LET q == AcceptRate(p, elapsed)
                IN  /\ p.spawned
                    /\ players' = Replace(p, q)
                    /\ Send(RelayExcept(Replace(p, q), q.id, Rotation(q.id)))
            BY <2>1 DEF HandlePlayerRotation
        <3>. DEFINE q == AcceptRate(p, elapsed)
                    m == Rotation(q.id)
        <3>2. q.id = p.id /\ m.type = "PLAYER_ROTATION" /\ m.id = q.id
            BY <1>1 DEF Rotation
        <3>3. Shape(p, q, m)
            BY <3>1, <3>2 DEF Send
        <3>. QED BY <3>3
    <2>2. CASE \E x \in Position : HandlePlayerMovement(a, elapsed, x)
        <3>1. PICK p \in players, x \in Position :
                LET q == [AcceptRate(p, elapsed) EXCEPT !.pos = x]
                IN  /\ p.spawned
                    /\ players' = Replace(p, q)
                    /\ Send(RelayExcept(Replace(p, q), q.id, Movement(q.id, x)))
            BY <2>2 DEF HandlePlayerMovement
        <3>. DEFINE q == [AcceptRate(p, elapsed) EXCEPT !.pos = x]
                    m == Movement(q.id, x)
        <3>2. q.id = p.id /\ m.type = "PLAYER_MOVEMENT" /\ m.id = q.id
            BY <1>1 DEF Movement, Player
        <3>3. Shape(p, q, m)
            BY <3>1, <3>2 DEF Send
        <3>. QED BY <3>3
    <2>. QED BY <2>1, <2>2
<1>3. PICK p \in players : \E q, m : Shape(p, q, m)
    BY <1>2
<1>4. PICK q, m : Shape(p, q, m)
    BY <1>3
<1>5. ASSUME NEW b \in Address, NEW n \in sent'[b]
      PROVE  n = m /\ \E r \in players \cap players' : r.addr = b /\ r # p /\ r.spawned
    <2>1. n = m /\ \E r \in Replace(p, q) : r.addr = b /\ r.id # q.id /\ r.spawned
        BY <1>4, <1>5 DEF RelayExcept
    <2>. QED BY <1>4, <2>1 DEF Replace
<1>. QED BY <1>4, <1>5

\* What a drop is told as.
LEMMA Dropped ==
    ASSUME IInv, NEW a \in Address, NEW elapsed \in BOOLEAN, HandleDrop(a, elapsed)
    PROVE  /\ players' \subseteq players
           /\ \A p \in players' : p.addr # a
           /\ sent' = Nothing \/ \E p \in players :
                /\ p.spawned
                /\ \A b \in Address : \A m \in sent'[b] :
                    /\ m.type = "DESTROY_NET_PLAYER" /\ m.id = p.id
                    /\ \E r \in players \cap players' : r.addr = b /\ r # p /\ r.spawned
<1>1. CASE ~Registered(a) /\ sent' = Nothing /\ UNCHANGED players
    BY <1>1 DEF Registered
<1>2. CASE \E p \in players :
            LET rest == {q \in players : q.id # p.id}
            IN  /\ p.addr = a
                /\ players' = rest
                /\ SendForgetting(a, IF p.spawned
                                     THEN RelayExcept(rest, p.id, Destroy(p.id))
                                     ELSE Nothing)
    <2>1. PICK p \in players :
            /\ p.addr = a
            /\ players' = {q \in players : q.id # p.id}
            /\ sent' = IF p.spawned THEN RelayExcept(players', p.id, Destroy(p.id)) ELSE Nothing
        BY <1>2 DEF SendForgetting
    <2>2. players' \subseteq players /\ \A q \in players' : q.addr # a
        BY <2>1 DEF IInv, UniqueIdentity
    <2>3. CASE p.spawned
        <3>1. ASSUME NEW b \in Address, NEW m \in sent'[b]
              PROVE  /\ m.type = "DESTROY_NET_PLAYER" /\ m.id = p.id
                     /\ \E r \in players \cap players' : r.addr = b /\ r # p /\ r.spawned
            BY <2>1, <2>2, <2>3, <3>1 DEF RelayExcept, Destroy
        <3>. QED BY <2>2, <2>3, <3>1
    <2>. QED BY <2>1, <2>2, <2>3
<1>. QED BY <1>1, <1>2 DEF HandleDrop

-----------------------------------------------------------------------------
(***************************************************************************)
(* Ghosts.                                                                 *)
(***************************************************************************)
\* A step makes no ghost, unless it refuses the packet that reports a departure.
LEMMA GhostStep ==
    ASSUME IInv, GhostsAreRateLimited, [Next]_vars
    PROVE  GhostsAreRateLimited'
<1>. SUFFICES ASSUME NEW p \in players', link'[p.addr] = "down"
              PROVE  p.count > MaxPackets
    BY DEF GhostsAreRateLimited
<1>. USE DEF IInv, TypeOK
<1>1. ASSUME NEW a \in Address, LinkUp(a) \/ LinkEnds(a) \/ Refuse(a)
      PROVE  p.count > MaxPackets
    BY <1>1 DEF LinkUp, LinkEnds, Refuse, Receives, Registered, GhostsAreRateLimited, Player
<1>2. ASSUME NEW a \in Address, Register(a) PROVE p.count > MaxPackets
    BY <1>2 DEF Register, Receives, GhostsAreRateLimited
<1>3. ASSUME NEW a \in Address, NEW elapsed \in BOOLEAN, RateLimited(a, elapsed)
      PROVE  p.count > MaxPackets
    <2>1. PICK q \in players :
            /\ q.addr = a
            /\ ~Accepts(q, elapsed)
            /\ players' = Replace(q, AcceptRate(q, elapsed))
        BY <1>3 DEF RateLimited
    <2>2. CASE p = AcceptRate(q, elapsed)
        <3>1. p.count \in Nat
            BY <2>1, <2>2, AcceptRateType DEF Player
        <3>. QED BY <2>1, <2>2, <3>1, ConstantsAssumption DEF Accepts
    <2>3. CASE p # AcceptRate(q, elapsed)
        <3>1. p \in players /\ p.addr # a
            BY <2>1, <2>3 DEF Replace, UniqueIdentity
        <3>2. link'[p.addr] = link[p.addr]
            BY <1>3, <3>1 DEF RateLimited, Player
        <3>. QED BY <3>1, <3>2 DEF GhostsAreRateLimited
    <2>. QED BY <2>2, <2>3
<1>4. ASSUME NEW a \in Address, NEW elapsed \in BOOLEAN,
             \/ Ignore(a, elapsed)
             \/ \E claimed \in NetworkId, x \in Position :
                    HandleCreateNetPlayer(a, elapsed, claimed, x)
             \/ \E x \in Position : HandlePlayerMovement(a, elapsed, x)
             \/ HandlePlayerRotation(a, elapsed)
      PROVE  p.count > MaxPackets
    <2>1. link[a] = "up" /\ UNCHANGED link
        BY <1>4 DEF Ignore, HandleCreateNetPlayer, HandlePlayerMovement, HandlePlayerRotation,
            Receives
    <2>2. PICK o \in players, q \in players' :
            o.addr = a /\ q.addr = a /\ players' = Replace(o, q)
        BY <1>4, PacketReplaces
    <2>3. p \in players
        BY <2>1, <2>2 DEF Replace
    <2>. QED BY <2>1, <2>3 DEF GhostsAreRateLimited
<1>5. ASSUME NEW a \in Address, NEW elapsed \in BOOLEAN, HandleDrop(a, elapsed)
      PROVE  p.count > MaxPackets
    <2>1. p \in players /\ p.addr # a
        BY <1>5, Dropped
    <2>2. link'[p.addr] = link[p.addr]
        BY <1>5, <2>1 DEF HandleDrop, Player
    <2>. QED BY <2>1, <2>2 DEF GhostsAreRateLimited
<1>6. CASE TickPersist \/ Start \/ UNCHANGED vars
    BY <1>6 DEF TickPersist, Start, vars, GhostsAreRateLimited
<1>7. CASE Stop
    BY <1>7 DEF Stop
<1>. QED
    BY <1>1, <1>2, <1>3, <1>4, <1>5, <1>6, <1>7
    DEF Next, Packet, HandleConnectionNotification

\* A player whose connection is over is in the table only because the flood
\* guard has swallowed its drop notification (RelayServer.cpp:160).
THEOREM OnlyRateLimitedGhosts == Spec => []GhostsAreRateLimited
<1>1. Init => GhostsAreRateLimited
    BY DEF Init, GhostsAreRateLimited
<1>. QED BY <1>1, GhostStep, Inductive, PTL DEF Spec

-----------------------------------------------------------------------------
(***************************************************************************)
(* Identity.                                                               *)
(***************************************************************************)

\* An id stays with its holder for as long as its address is in the table.
THEOREM IdentityStays == Spec => IdentityKept
<1>1. IInv /\ [Next]_vars =>
        [\A p \in players, q \in players' : p.addr = q.addr => p.id = q.id]_vars
    <2>. SUFFICES ASSUME IInv, Next, NEW p \in players, NEW q \in players', p.addr = q.addr
                  PROVE  p.id = q.id
        OBVIOUS
    <2>. USE DEF IInv, UniqueIdentity
    <2>1. ASSUME NEW a \in Address, Register(a) PROVE p.id = q.id
        BY <2>1 DEF Register, Registered
    <2>2. ASSUME NEW a \in Address, NEW elapsed \in BOOLEAN, HandleDrop(a, elapsed)
          PROVE  p.id = q.id
        BY <2>2, Dropped
    <2>3. ASSUME NEW a \in Address, NEW elapsed \in BOOLEAN,
                 \/ RateLimited(a, elapsed)
                 \/ Ignore(a, elapsed)
                 \/ \E claimed \in NetworkId, x \in Position :
                        HandleCreateNetPlayer(a, elapsed, claimed, x)
                 \/ \E x \in Position : HandlePlayerMovement(a, elapsed, x)
                 \/ HandlePlayerRotation(a, elapsed)
          PROVE  p.id = q.id
        <3>1. PICK o \in players, n \in players' :
                o.addr = a /\ n.addr = a /\ n.id = o.id /\ players' = Replace(o, n)
            BY <2>3, PacketReplaces
        <3>. QED BY <3>1 DEF Replace
    <2>4. CASE UNCHANGED players \/ players' = {}
        BY <2>4
    <2>. QED BY <2>1, <2>2, <2>3, <2>4 DEF Next, Packet, HandleConnectionNotification, LinkUp,
            LinkEnds, Refuse, TickPersist, Start, Stop
<1>. QED BY <1>1, Inductive, PTL DEF Spec, IdentityKept

-----------------------------------------------------------------------------
(***************************************************************************)
(* What is sent to whom.                                                   *)
(***************************************************************************)

\* Steps that send nothing.
LEMMA QuietSteps ==
    ASSUME NEW a \in Address, NEW elapsed \in BOOLEAN,
           \/ LinkUp(a) \/ LinkEnds(a) \/ Refuse(a)
           \/ RateLimited(a, elapsed) \/ Ignore(a, elapsed)
           \/ TickPersist \/ Start
    PROVE  \A b \in Address : sent'[b] = {}
BY DEF LinkUp, LinkEnds, Refuse, RateLimited, Ignore, TickPersist, Start, Nothing

\* A spawn is announced to players in the world, and its roster goes to the
\* newcomer, which is one now.
LEMMA Announced ==
    ASSUME IInv, NEW a \in Address, NEW elapsed \in BOOLEAN,
           NEW claimed \in NetworkId, NEW x \in Position,
           HandleCreateNetPlayer(a, elapsed, claimed, x)
    PROVE  \A b \in Address : \A m \in sent'[b] :
            /\ m.type \in {"CREATE_NET_PLAYER", "CREATE_NET_PLAYERS"}
            /\ \E r \in players' : r.addr = b /\ r.spawned
<1>1. PICK p \in players :
        LET q == [AcceptRate(p, elapsed) EXCEPT
                    !.id = TrustedId(p, claimed), !.spawned = TRUE, !.pos = x]
            table == Replace(p, q)
            announce == RelayExcept(table, q.id, Create(q.id, x))
            roster == SendRoster(table, q)
        IN  /\ players' = table
            /\ Send([b \in Address |-> announce[b] \cup roster[b]])
    BY DEF HandleCreateNetPlayer
<1>. DEFINE q == [AcceptRate(p, elapsed) EXCEPT
                    !.id = TrustedId(p, claimed), !.spawned = TRUE, !.pos = x]
<1>2. q.spawned = TRUE
    <2>1. AcceptRate(p, elapsed) \in Player
        BY AcceptRateType DEF IInv, TypeOK
    <2>. QED BY <2>1 DEF Player
<1>3. /\ players' = Replace(p, q)
      /\ sent' = [b \in Address |->
            RelayExcept(players', q.id, Create(q.id, x))[b] \cup SendRoster(players', q)[b]]
    BY <1>1 DEF Send
<1>. HIDE DEF q
<1>4. SUFFICES ASSUME NEW b \in Address, NEW m \in sent'[b]
               PROVE  /\ m.type \in {"CREATE_NET_PLAYER", "CREATE_NET_PLAYERS"}
                      /\ \E r \in players' : r.addr = b /\ r.spawned
    OBVIOUS
<1>5. CASE m \in RelayExcept(players', q.id, Create(q.id, x))[b]
    BY <1>5 DEF RelayExcept, Create
<1>6. CASE m \in SendRoster(players', q)[b]
    <2>1. b = q.addr /\ m.type = "CREATE_NET_PLAYERS"
        BY <1>6 DEF SendRoster, SendTo, Nothing, Roster
    <2>2. q \in players'
        BY <1>3 DEF Replace
    <2>. QED BY <1>2, <2>1, <2>2
<1>. QED BY <1>3, <1>4, <1>5, <1>6

\* What a newcomer is sent, and nobody else.
LEMMA Greeted ==
    ASSUME NEW a \in Address, Register(a)
    PROVE  /\ players' = players \cup {[addr |-> a, id |-> AllocateNetworkId, spawned |-> FALSE,
                                        pos |-> NoPosition, count |-> 0]}
           /\ \A b \in Address : \A m \in sent'[b] :
                b = a /\ m = CreateLocal(AllocateNetworkId, SpawnPositionFor)
BY DEF Register, SendForgetting, SendTo

\* "Nothing is relayed to a player until it is true": a registered player that
\* is not in the world yet is sent its id and no more.
THEOREM SilentBeforeSpawn == Spec => []SilentUntilSpawned
<1>1. Init => SilentUntilSpawned
    BY DEF Init, SilentUntilSpawned
<1>2. IInv /\ IInv' /\ SilentUntilSpawned /\ [Next]_vars => SilentUntilSpawned'
    <2>. SUFFICES ASSUME IInv, IInv', SilentUntilSpawned, [Next]_vars,
                         NEW p \in players', ~p.spawned, NEW m \in sent'[p.addr]
                  PROVE  m.type = "CREATE_LOCAL_NET_PLAYER" /\ m.id = p.id
        BY DEF SilentUntilSpawned
    <2>1. p.addr \in Address
        BY DEF IInv, TypeOK, Player
    <2>2. \A r \in players' : r.addr = p.addr => ~r.spawned
        BY DEF IInv, UniqueIdentity
    <2>3. ASSUME NEW a \in Address, Register(a)
          PROVE  m.type = "CREATE_LOCAL_NET_PLAYER" /\ m.id = p.id
        <3>. DEFINE new == [addr |-> a, id |-> AllocateNetworkId, spawned |-> FALSE,
                            pos |-> NoPosition, count |-> 0]
        <3>1. new \in players' /\ new.addr = a /\ new.id = AllocateNetworkId
            BY <2>3, Greeted
        <3>. HIDE DEF new
        <3>2. p.addr = a /\ m = CreateLocal(AllocateNetworkId, SpawnPositionFor)
            BY <2>1, <2>3, Greeted
        <3>3. p = new
            BY <3>1, <3>2 DEF IInv, UniqueIdentity
        <3>. QED BY <3>1, <3>2, <3>3 DEF CreateLocal
    <2>4. ASSUME NEW a \in Address, NEW elapsed \in BOOLEAN,
                 \/ \E claimed \in NetworkId, x \in Position :
                        HandleCreateNetPlayer(a, elapsed, claimed, x)
                 \/ \E x \in Position : HandlePlayerMovement(a, elapsed, x)
                 \/ HandlePlayerRotation(a, elapsed)
          PROVE  FALSE
        BY <2>1, <2>2, <2>4, Announced, Relayed
    <2>5. ASSUME NEW a \in Address, NEW elapsed \in BOOLEAN, HandleDrop(a, elapsed)
          PROVE  FALSE
        BY <2>1, <2>2, <2>5, Dropped DEF Nothing
    <2>6. ASSUME NEW a \in Address, NEW elapsed \in BOOLEAN,
                 \/ LinkUp(a) \/ LinkEnds(a) \/ Refuse(a)
                 \/ RateLimited(a, elapsed) \/ Ignore(a, elapsed)
          PROVE  FALSE
        BY <2>1, <2>6, QuietSteps
    <2>7. CASE TickPersist \/ Start
        BY <2>1, <2>7 DEF TickPersist, Start, Nothing
    <2>8. CASE Stop
        BY <2>8 DEF Stop
    <2>9. CASE UNCHANGED vars
        BY <2>9 DEF vars, SilentUntilSpawned
    <2>. QED BY <2>3, <2>4, <2>5, <2>6, <2>7, <2>8, <2>9
            DEF Next, Packet, HandleConnectionNotification
<1>. QED BY <1>1, <1>2, Inductive, PTL DEF Spec

\* Movement, rotation and departure are told only to those who know the player.
THEOREM NoNewsOfStrangers == Spec => NothingAboutStrangers
<1>1. IInv /\ [Next]_vars =>
        [\A b \in Address : \A m \in sent'[b] :
            m.type \in {"PLAYER_MOVEMENT", "PLAYER_ROTATION", "DESTROY_NET_PLAYER"}
                => m.id \in told[b]]_vars
    <2>. SUFFICES ASSUME IInv, Next, NEW b \in Address, NEW m \in sent'[b],
                         m.type \in {"PLAYER_MOVEMENT", "PLAYER_ROTATION", "DESTROY_NET_PLAYER"}
                  PROVE  m.id \in told[b]
        OBVIOUS
    <2>1. ASSUME NEW p \in players, p.spawned, m.id = p.id,
                 NEW r \in players, r.addr = b, r # p, r.spawned
          PROVE  m.id \in told[b]
        <3>1. p.id \in NetworkId
            BY DEF IInv, TypeOK, Player
        <3>. QED BY <2>1, <3>1 DEF IInv, ViewExact
    <2>2. ASSUME NEW a \in Address, NEW elapsed \in BOOLEAN,
                 \/ \E x \in Position : HandlePlayerMovement(a, elapsed, x)
                 \/ HandlePlayerRotation(a, elapsed)
          PROVE  m.id \in told[b]
        BY <2>1, <2>2, Relayed
    <2>3. ASSUME NEW a \in Address, NEW elapsed \in BOOLEAN, HandleDrop(a, elapsed)
          PROVE  m.id \in told[b]
        BY <2>1, <2>3, Dropped DEF Nothing
    <2>4. CASE Stop
        <3>1. m \in Farewell[b]
            BY <2>4 DEF Stop, Send
        <3>2. PICK p \in Spawned(players), r \in Spawned(players) :
                m = Destroy(p.id) /\ r.addr = b /\ r.id # p.id
            BY <3>1 DEF Farewell
        <3>. QED BY <2>1, <3>2 DEF Spawned, Destroy
    <2>5. ASSUME NEW a \in Address, NEW elapsed \in BOOLEAN, NEW claimed \in NetworkId,
                 NEW x \in Position, HandleCreateNetPlayer(a, elapsed, claimed, x)
          PROVE  FALSE
        BY <2>5, Announced
    <2>6. ASSUME NEW a \in Address, Register(a) PROVE FALSE
        BY <2>6, Greeted DEF CreateLocal
    <2>7. ASSUME NEW a \in Address, NEW elapsed \in BOOLEAN,
                 \/ LinkUp(a) \/ LinkEnds(a) \/ Refuse(a)
                 \/ RateLimited(a, elapsed) \/ Ignore(a, elapsed)
          PROVE  FALSE
        BY <2>7, QuietSteps
    <2>8. CASE TickPersist \/ Start
        BY <2>8 DEF TickPersist, Start, Nothing
    <2>. QED BY <2>2, <2>3, <2>4, <2>5, <2>6, <2>7, <2>8
            DEF Next, Packet, HandleConnectionNotification
<1>. QED BY <1>1, Inductive, PTL DEF Spec, NothingAboutStrangers

-----------------------------------------------------------------------------
(***************************************************************************)
(* The rendezvous.                                                         *)
(***************************************************************************)

\* A world that is not empty has an anchor: the least of its ids.
LEMMA AnchorExists ==
    ASSUME IInv, Spawned(players) # {}
    PROVE  Anchors # {}
<1>. DEFINE Ids == {p.id : p \in Spawned(players)}
<1>1. Ids \in SUBSET Nat /\ Ids # {}
    BY ConstantsAssumption DEF IInv, TypeOK, Player, NetworkId, Spawned
<1>2. PICK n \in Ids : \A k \in Ids : n <= k
    <2>. HIDE DEF Ids
    <2>. QED BY <1>1, LeastNatural
<1>3. PICK p \in Spawned(players) : p.id = n
    BY <1>2
<1>4. \A q \in Spawned(players) : p.id <= q.id
    BY <1>2, <1>3
<1>. QED BY <1>3, <1>4 DEF Anchors

\* In anchor mode a newcomer is sent to somebody, if there is anybody.
THEOREM RendezvousWithSomebody == Spec => NewcomerMeetsSomebody
<1>1. IInv /\ [Next]_vars =>
        [\A b \in Address : \A m \in sent'[b] :
            AnchorMode /\ Spawned(players) # {} /\ m.type = "CREATE_LOCAL_NET_PLAYER"
                => \E q \in Spawned(players) : m.pos = q.pos]_vars
    <2>. SUFFICES ASSUME IInv, Next, NEW b \in Address, NEW m \in sent'[b], AnchorMode,
                         Spawned(players) # {}, m.type = "CREATE_LOCAL_NET_PLAYER"
                  PROVE  \E q \in Spawned(players) : m.pos = q.pos
        OBVIOUS
    <2>1. ASSUME NEW a \in Address, Register(a)
          PROVE  \E q \in Spawned(players) : m.pos = q.pos
        <3>1. m.pos = SpawnPositionFor
            BY <2>1, Greeted DEF CreateLocal
        <3>2. Anchors # {}
            BY AnchorExists
        <3>3. SpawnPositionFor = (CHOOSE p \in Anchors : TRUE).pos
            BY <3>2 DEF SpawnPositionFor
        <3>4. (CHOOSE p \in Anchors : TRUE) \in Anchors
            BY <3>2
        <3>5. Anchors \subseteq Spawned(players)
            BY DEF Anchors
        <3>. QED BY <3>1, <3>3, <3>4, <3>5
    <2>2. ASSUME NEW a \in Address, NEW elapsed \in BOOLEAN,
                 \/ \E claimed \in NetworkId, x \in Position :
                        HandleCreateNetPlayer(a, elapsed, claimed, x)
                 \/ \E x \in Position : HandlePlayerMovement(a, elapsed, x)
                 \/ HandlePlayerRotation(a, elapsed)
          PROVE  FALSE
        BY <2>2, Announced, Relayed
    <2>3. ASSUME NEW a \in Address, NEW elapsed \in BOOLEAN, HandleDrop(a, elapsed)
          PROVE  FALSE
        BY <2>3, Dropped DEF Nothing
    <2>4. CASE Stop
        BY <2>4 DEF Stop, Send, Farewell, Destroy
    <2>5. ASSUME NEW a \in Address, NEW elapsed \in BOOLEAN,
                 \/ LinkUp(a) \/ LinkEnds(a) \/ Refuse(a)
                 \/ RateLimited(a, elapsed) \/ Ignore(a, elapsed)
          PROVE  FALSE
        BY <2>5, QuietSteps
    <2>6. CASE TickPersist \/ Start
        BY <2>6 DEF TickPersist, Start, Nothing
    <2>. QED BY <2>1, <2>2, <2>3, <2>4, <2>5, <2>6
            DEF Next, Packet, HandleConnectionNotification
<1>. QED BY <1>1, Inductive, PTL DEF Spec, NewcomerMeetsSomebody

-----------------------------------------------------------------------------
(***************************************************************************)
(* The refinement.  What people see is a function of who is in the world,  *)
(* so it is enough to follow arrivals, entries and departures.             *)
(***************************************************************************)
Present == {p.addr : p \in players}
Entered == {p.addr : p \in Spawned(players)}

\* Everyone in the world sees exactly the others in it.
LEMMA SeesTheWorld ==
    ASSUME IInv
    PROVE  [a \in Address |-> SeenBy(a)] = P!Views(Entered)
<1>1. ASSUME NEW a \in Address, NEW p \in players, p.addr = a, p.spawned
      PROVE  SeenBy(a) = Entered \ {a}
    <2>1. ASSUME NEW q \in players, q.id \in told[a] PROVE q \in Spawned(players) /\ q # p
        <3>1. q.id \in NetworkId
            BY DEF IInv, TypeOK, Player
        <3>. QED BY <1>1, <2>1, <3>1 DEF IInv, ViewExact, UniqueIdentity, Spawned
    <2>2. ASSUME NEW q \in Spawned(players), q # p PROVE q \in players /\ q.id \in told[a]
        <3>1. q.id \in NetworkId
            BY DEF IInv, TypeOK, Player, Spawned
        <3>. QED BY <1>1, <2>2, <3>1 DEF IInv, ViewExact, Spawned
    <2>3. \A q \in players : q.addr = a <=> q = p
        BY <1>1 DEF IInv, UniqueIdentity
    <2>. QED BY <2>1, <2>2, <2>3 DEF SeenBy, Entered, Spawned
<1>2. ASSUME NEW a \in Address, a \notin Entered PROVE SeenBy(a) = {}
    <2>1. CASE Registered(a)
        <3>1. PICK p \in players : p.addr = a /\ ~p.spawned
            BY <1>2, <2>1 DEF Registered, Entered, Spawned
        <3>2. \A q \in players : q.id \in NetworkId
            BY DEF IInv, TypeOK, Player
        <3>. QED BY <3>1, <3>2 DEF IInv, ViewExact, SeenBy
    <2>2. CASE ~Registered(a)
        BY <2>2 DEF IInv, StrangersForgotten, SeenBy
    <2>. QED BY <2>1, <2>2
<1>3. \A a \in Address : SeenBy(a) = IF a \in Entered THEN Entered \ {a} ELSE {}
    BY <1>1, <1>2 DEF Entered, Spawned
<1>. QED BY <1>3 DEF P!Views

\* A step, as Presence sees it.
LEMMA PresenceStep ==
    ASSUME IInv, [Next]_vars
    PROVE  \/ UNCHANGED <<Present, Entered>>
           \/ \E a \in Address \ Present :
                Present' = Present \cup {a} /\ UNCHANGED Entered
           \/ \E a \in Present \ Entered :
                Entered' = Entered \cup {a} /\ UNCHANGED Present
           \/ \E a \in Present :
                Present' = Present \ {a} /\ Entered' = Entered \ {a}
           \/ Present' = {} /\ Entered' = {}
<1>. USE DEF IInv, UniqueIdentity
<1>1. ASSUME NEW a \in Address, Register(a)
      PROVE  a \notin Present /\ Present' = Present \cup {a} /\ UNCHANGED Entered
    <2>. DEFINE new == [addr |-> a, id |-> AllocateNetworkId, spawned |-> FALSE,
                        pos |-> NoPosition, count |-> 0]
    <2>1. new.addr = a /\ new.spawned = FALSE /\ players' = players \cup {new}
        BY <1>1, Greeted
    <2>2. a \notin Present
        BY <1>1 DEF Register, Registered, Present
    <2>. HIDE DEF new
    <2>. QED BY <2>1, <2>2 DEF Present, Entered, Spawned
<1>2. ASSUME NEW p \in players, NEW q, q.addr = p.addr, players' = Replace(p, q)
      PROVE  /\ Present' = Present
             /\ Entered' = IF q.spawned THEN Entered \cup {q.addr} ELSE Entered \ {q.addr}
    <2>1. Present' = Present
        BY <1>2 DEF Present, Replace
    <2>2. \A r \in players : r.addr = q.addr <=> r = p
        BY <1>2
    <2>. QED BY <1>2, <2>1, <2>2 DEF Entered, Spawned, Replace
<1>3. ASSUME NEW a \in Address, NEW elapsed \in BOOLEAN, NEW claimed \in NetworkId,
             NEW x \in Position, HandleCreateNetPlayer(a, elapsed, claimed, x)
      PROVE  Present' = Present /\ Entered' = Entered \cup {a} /\ a \in Present
    <2>1. PICK p \in players :
            /\ p.addr = a
            /\ players' = Replace(p, [AcceptRate(p, elapsed) EXCEPT
                    !.id = TrustedId(p, claimed), !.spawned = TRUE, !.pos = x])
        BY <1>3 DEF HandleCreateNetPlayer
    <2>. DEFINE q == [AcceptRate(p, elapsed) EXCEPT
                        !.id = TrustedId(p, claimed), !.spawned = TRUE, !.pos = x]
    <2>2. q.addr = p.addr /\ q.spawned = TRUE
        <3>1. AcceptRate(p, elapsed) \in Player /\ AcceptRate(p, elapsed).addr = p.addr
            BY AcceptRateType DEF TypeOK
        <3>. QED BY <3>1 DEF Player
    <2>3. players' = Replace(p, q)
        BY <2>1
    <2>. HIDE DEF q
    <2>. QED BY <1>2, <2>1, <2>2, <2>3 DEF Present
<1>4. ASSUME NEW a \in Address, NEW elapsed \in BOOLEAN,
             \/ RateLimited(a, elapsed) \/ Ignore(a, elapsed) \/ HandlePlayerRotation(a, elapsed)
             \/ \E x \in Position : HandlePlayerMovement(a, elapsed, x)
      PROVE  UNCHANGED <<Present, Entered>>
    <2>1. \E p \in players : \E q : /\ q.addr = p.addr /\ q.spawned = p.spawned
                                    /\ players' = Replace(p, q)
        <3>1. \A p \in players : /\ AcceptRate(p, elapsed) \in Player
                                /\ AcceptRate(p, elapsed).addr = p.addr
                                /\ AcceptRate(p, elapsed).spawned = p.spawned
            BY AcceptRateType DEF TypeOK
        <3>2. CASE RateLimited(a, elapsed) \/ Ignore(a, elapsed) \/ HandlePlayerRotation(a, elapsed)
            <4>1. PICK p \in players : players' = Replace(p, AcceptRate(p, elapsed))
                BY <3>2 DEF RateLimited, Ignore, HandlePlayerRotation
            <4>. QED BY <3>1, <4>1
        <3>3. CASE \E x \in Position : HandlePlayerMovement(a, elapsed, x)
            <4>1. PICK p \in players, x \in Position :
                    players' = Replace(p, [AcceptRate(p, elapsed) EXCEPT !.pos = x])
                BY <3>3 DEF HandlePlayerMovement
            <4>. DEFINE q == [AcceptRate(p, elapsed) EXCEPT !.pos = x]
            <4>2. q.addr = p.addr /\ q.spawned = p.spawned /\ players' = Replace(p, q)
                BY <3>1, <4>1 DEF Player
            <4>. HIDE DEF q
            <4>. QED BY <4>2
        <3>. QED BY <1>4, <3>2, <3>3
    <2>2. PICK p \in players : \E q : /\ q.addr = p.addr /\ q.spawned = p.spawned
                                      /\ players' = Replace(p, q)
        BY <2>1
    <2>3. p.spawned <=> p.addr \in Entered
        BY DEF Entered, Spawned
    <2>. QED BY <1>2, <2>2, <2>3
<1>5. ASSUME NEW a \in Address, NEW elapsed \in BOOLEAN, HandleDrop(a, elapsed)
      PROVE  \/ UNCHANGED <<Present, Entered>>
             \/ a \in Present /\ Present' = Present \ {a} /\ Entered' = Entered \ {a}
    <2>1. CASE UNCHANGED players
        BY <2>1 DEF Present, Entered, Spawned
    <2>2. CASE \E p \in players : p.addr = a /\ players' = {q \in players : q.id # p.id}
        <3>1. PICK p \in players : p.addr = a /\ players' = players \ {p}
            BY <2>2
        <3>2. \A r \in players : r.addr = a <=> r = p
            BY <3>1
        <3>. QED BY <3>1, <3>2 DEF Present, Entered, Spawned
    <2>. QED BY <1>5, <2>1, <2>2 DEF HandleDrop
<1>6. CASE Stop
    BY <1>6 DEF Stop, Present, Entered, Spawned
<1>7. CASE UNCHANGED players
    BY <1>7 DEF Present, Entered, Spawned
<1>8. Entered \subseteq Present
    BY DEF Entered, Present, Spawned
<1>9. CASE \E a \in Address : Register(a)
    BY <1>1, <1>9
<1>10. CASE \E a \in Address, elapsed \in BOOLEAN : Packet(a, elapsed)
    <2>1. PICK a \in Address, elapsed \in BOOLEAN : Packet(a, elapsed)
        BY <1>10
    <2>2. CASE \E claimed \in NetworkId, x \in Position :
                HandleCreateNetPlayer(a, elapsed, claimed, x)
        <3>1. Present' = Present /\ Entered' = Entered \cup {a} /\ a \in Present
            BY <1>3, <2>2
        <3>. QED BY <3>1
    <2>. QED BY <1>4, <1>5, <2>1, <2>2 DEF Packet
<1>. QED BY <1>6, <1>7, <1>9, <1>10 DEF Next, HandleConnectionNotification, LinkUp, LinkEnds,
        Refuse, TickPersist, Start, vars

\* The relay keeps the promise of Presence: arrivals, entries and departures
\* one at a time, and everyone in the world sees exactly the others in it.
THEOREM RelayImplementsPresence == Spec => ImplementsPresence
<1>1. Init => P!Init
    <2>. SUFFICES ASSUME Init PROVE P!Init
        OBVIOUS
    <2>1. IInv
        BY InitIInv
    <2>2. Present = {} /\ Entered = {}
        BY DEF Init, Present, Entered, Spawned
    <2>. QED BY <2>1, <2>2, SeesTheWorld DEF P!Init, Present, Entered
<1>2. IInv => [a \in Address |-> SeenBy(a)] = P!Views(Entered)
    BY SeesTheWorld
<1>3. IInv' => ([a \in Address |-> SeenBy(a)] = P!Views(Entered))'
    BY <1>2, PTL
<1>4. IInv /\ IInv' /\ [Next]_vars => [P!Next]_P!vars
    <2>. SUFFICES ASSUME IInv, IInv', [Next]_vars PROVE [P!Next]_P!vars
        OBVIOUS
    <2>. DEFINE Sees == [a \in Address |-> SeenBy(a)]
    <2>1. Sees = P!Views(Entered)
        BY <1>2
    <2>2. Sees' = P!Views(Entered')
        BY <1>3 DEF P!Views
    <2>3. Present \subseteq Address
        BY DEF IInv, TypeOK, Player, Present
    <2>. HIDE DEF Sees
    <2>4. CASE UNCHANGED <<Present, Entered>>
        BY <2>1, <2>2, <2>4 DEF P!vars, Present, Entered, Sees
    <2>5. ASSUME NEW a \in Address \ Present, Present' = Present \cup {a}, UNCHANGED Entered
          PROVE  P!Arrive(a)
        BY <2>1, <2>2, <2>5 DEF P!Arrive, Present, Entered, Sees
    <2>6. ASSUME NEW a \in Present \ Entered, Entered' = Entered \cup {a}, UNCHANGED Present
          PROVE  P!Enter(a)
        BY <2>2, <2>6 DEF P!Enter, Present, Entered, Sees
    <2>7. ASSUME NEW a \in Present, Present' = Present \ {a}, Entered' = Entered \ {a}
          PROVE  P!Leave(a)
        BY <2>2, <2>7 DEF P!Leave, Present, Entered, Sees
    <2>8. CASE Present' = {} /\ Entered' = {}
        <3>1. P!Close
            BY <2>2, <2>8 DEF P!Close, Present, Entered, Sees
        <3>. QED BY <3>1 DEF P!Next
    <2>9. (\E a \in Address : P!Arrive(a) \/ P!Enter(a) \/ P!Leave(a)) => P!Next
        BY DEF P!Next
    <2>. HIDE DEF Present, Entered
    <2>. QED BY <2>3, <2>4, <2>5, <2>6, <2>7, <2>8, <2>9, PresenceStep
<1>. QED BY <1>1, <1>4, Inductive, PTL DEF Spec, ImplementsPresence, P!Spec
=============================================================================
