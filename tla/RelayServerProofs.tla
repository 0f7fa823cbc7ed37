-------------------------- MODULE RelayServerProofs --------------------------
(***************************************************************************)
(* Theorems about RelayServer, for every set of addresses and positions    *)
(* and every value of the limits.                                          *)
(***************************************************************************)
EXTENDS RelayServer, FiniteSetTheorems, WellFoundedInduction, TLAPS

\* A non-empty set of naturals has a least element: the intervals 1..n of its
\* elements are finite sets, which strict inclusion orders well.
LEMMA LeastNatural ==
    ASSUME NEW T \in SUBSET Nat, T # {}
    PROVE  \E n \in T : \A m \in T : n <= m
<1>. DEFINE R == StrictSubsetOrdering(Nat)
            S == FiniteSubsetsOf(Nat)
            Intervals == {1 .. n : n \in T}
<1>1. IsWellFoundedOn(R, S)
    BY FS_StrictSubsetOrderingWellFounded
<1>2. Intervals \subseteq S
    BY FS_Interval DEF FiniteSubsetsOf
<1>3. \E X \in Intervals : \A Y \in Intervals : <<Y, X>> \notin R
    <2>1. Intervals # {}
        OBVIOUS
    <2>. HIDE DEF R, S, Intervals
    <2>. QED BY <1>1, <1>2, <2>1, WFMin
<1>4. PICK n \in T : \A m \in T : <<1 .. m, 1 .. n>> \notin R
    BY <1>3
<1>5. ASSUME NEW m \in T, m < n
      PROVE  FALSE
    <2>1. 1 .. m \subseteq 1 .. n /\ n \in 1 .. n /\ n \notin 1 .. m
        BY <1>5
    <2>2. <<1 .. m, 1 .. n>> \in R
        BY <2>1 DEF StrictSubsetOrdering
    <2>. QED BY <1>4, <2>2
<1>. QED BY <1>5

\* A table of players with distinct ids has at most as many ids as entries.
LEMMA UsedIdsBound ==
    ASSUME IsFiniteSet(players)
    PROVE  IsFiniteSet(UsedIds) /\ Cardinality(UsedIds) <= Cardinality(players)
<1>. DEFINE f == [p \in players |-> p.id]
<1>1. f \in Surjection(players, UsedIds)
    BY DEF Surjection, UsedIds
<1>. QED BY <1>1, FS_Surjection

\* While a place is free, AllocateNetworkId returns an id from 1 to
\* maxPlayers that no player of the table holds.
LEMMA AllocateFresh ==
    ASSUME IsFiniteSet(players), Cardinality(players) < MaxPlayers
    PROVE  AllocateNetworkId \in NetworkId /\ AllocateNetworkId \notin UsedIds
<1>. DEFINE Free == NetworkId \ UsedIds
<1>0. MaxPlayers \in Nat
    BY ConstantsAssumption
<1>1. Free # {}
    <2>1. SUFFICES ASSUME NetworkId \subseteq UsedIds PROVE FALSE
        OBVIOUS
    <2>2. IsFiniteSet(UsedIds) /\ Cardinality(UsedIds) <= Cardinality(players)
        BY UsedIdsBound
    <2>3. Cardinality(NetworkId) <= Cardinality(UsedIds)
        BY <2>1, <2>2, FS_Subset
    <2>4. Cardinality(NetworkId) = MaxPlayers
        BY <1>0, FS_Interval, ConstantsAssumption DEF NetworkId
    <2>5. Cardinality(players) \in Nat /\ Cardinality(UsedIds) \in Nat
        BY <2>2, FS_CardinalityType
    <2>. QED BY <1>0, <2>2, <2>3, <2>4, <2>5
<1>2. PICK n \in Free : \A m \in Free : n <= m
    <2>1. Free \in SUBSET Nat
        BY <1>0 DEF NetworkId
    <2>. HIDE DEF Free
    <2>. QED BY <1>1, <2>1, LeastNatural
<1>3. /\ n \in 1 .. (MaxPlayers + 1)
      /\ n \notin UsedIds
      /\ \A m \in 1 .. (n - 1) : m \in UsedIds
    BY <1>0, <1>2 DEF NetworkId
<1>4. /\ AllocateNetworkId \in 1 .. (MaxPlayers + 1)
      /\ AllocateNetworkId \notin UsedIds
      /\ \A m \in 1 .. (AllocateNetworkId - 1) : m \in UsedIds
    BY <1>3 DEF AllocateNetworkId
<1>5. AllocateNetworkId # MaxPlayers + 1
    BY <1>0, <1>2, <1>4 DEF NetworkId
<1>. QED BY <1>0, <1>4, <1>5 DEF NetworkId

-----------------------------------------------------------------------------
(***************************************************************************)
(* The inductive invariant.  ViewExact is not inductive alone: it needs    *)
(* that ids identify players, that ids never run out while a place is free *)
(* (hence the size of the table) and that an address outside the table is  *)
(* not remembered to have been told anything.                              *)
(***************************************************************************)
Capacity == IsFiniteSet(players) /\ Cardinality(players) <= MaxPlayers

StrangersForgotten == \A a \in Address : ~Registered(a) => told[a] = {}

StoppedEmpty == ~running => players = {}

IInv ==
    /\ TypeOK
    /\ UniqueIdentity
    /\ ViewExact
    /\ Capacity
    /\ StrangersForgotten
    /\ StoppedEmpty

\* The invariant holds before the first packet.
THEOREM InitIInv == Init => IInv
<1>. SUFFICES ASSUME Init PROVE IInv
    OBVIOUS
<1>1. TypeOK
    BY ConstantsAssumption DEF Init, TypeOK, Nothing, LinkState
<1>2. Capacity
    BY FS_EmptySet, ConstantsAssumption DEF Init, Capacity
<1>. QED
    BY <1>1, <1>2 DEF Init, IInv, UniqueIdentity, ViewExact, StrangersForgotten, StoppedEmpty

-----------------------------------------------------------------------------
(***************************************************************************)
(* What each message does to the avatars a client keeps.                   *)
(***************************************************************************)
\* Without a message nothing is learnt.
LEMMA HeardNoMessage ==
    ASSUME NEW known
    PROVE  Heard(known, {}) = known
BY DEF Heard, CreatedBy, DestroyedBy

\* A message that is neither a creation nor a departure teaches nothing.
LEMMA HeardIdle ==
    ASSUME NEW known, NEW m, m.type \notin
        {"CREATE_NET_PLAYER", "CREATE_NET_PLAYERS", "DESTROY_NET_PLAYER"}
    PROVE  Heard(known, {m}) = known
BY DEF Heard, CreatedBy, DestroyedBy

\* An announcement teaches the id it names.
LEMMA HeardCreate ==
    ASSUME NEW known, NEW n \in NetworkId, NEW x
    PROVE  Heard(known, {Create(n, x)}) = known \cup {n}
BY DEF Heard, CreatedBy, DestroyedBy, Create

\* A roster teaches the ids of its entries.
LEMMA HeardRoster ==
    ASSUME NEW known, NEW entries \in SUBSET RosterEntry
    PROVE  Heard(known, {Roster(entries)}) = known \cup {e.id : e \in entries}
BY DEF Heard, CreatedBy, DestroyedBy, Roster, RosterEntry

\* A departure takes the id it names away.
LEMMA HeardDestroy ==
    ASSUME NEW known, NEW n \in NetworkId
    PROVE  Heard(known, {Destroy(n)}) = known \ {n}
BY DEF Heard, CreatedBy, DestroyedBy, Destroy

\* A packet of a registered player changes its entry in place: identities,
\* the size of the table and who is registered are untouched.
LEMMA ReplaceInPlace ==
    ASSUME IInv, NEW p \in players, NEW q, q.addr = p.addr, q.id = p.id,
           players' = Replace(p, q)
    PROVE  /\ UniqueIdentity'
           /\ Capacity'
           /\ \A a \in Address : Registered(a)' <=> Registered(a)
<1>1. UniqueIdentity'
    BY DEF IInv, UniqueIdentity, Replace
<1>2. Capacity'
    <2>1. /\ IsFiniteSet(players \ {p})
          /\ Cardinality(players \ {p}) = Cardinality(players) - 1
        BY FS_RemoveElement DEF IInv, Capacity
    <2>2. /\ IsFiniteSet(Replace(p, q))
          /\ \/ Cardinality(Replace(p, q)) = Cardinality(players \ {p})
             \/ Cardinality(Replace(p, q)) = Cardinality(players \ {p}) + 1
        BY <2>1, FS_AddElement, Zenon DEF Replace
    <2>3. Cardinality(players) \in Nat
        BY FS_CardinalityType DEF IInv, Capacity
    <2>4. Cardinality(players') \in Nat
        BY <2>2, FS_CardinalityType
    <2>. QED BY <2>1, <2>2, <2>3, <2>4, ConstantsAssumption DEF IInv, Capacity
<1>3. \A a \in Address : Registered(a)' <=> Registered(a)
    BY DEF Registered, Replace
<1>. QED BY <1>1, <1>2, <1>3

\* Charging a packet to the flood guard changes the count and nothing else.
LEMMA AcceptRateType ==
    ASSUME NEW p \in Player, NEW elapsed \in BOOLEAN
    PROVE  LET q == AcceptRate(p, elapsed)
           IN  /\ q \in Player
               /\ q.addr = p.addr
               /\ q.id = p.id
               /\ q.spawned = p.spawned
               /\ q.pos = p.pos
BY ConstantsAssumption DEF AcceptRate, Player

-----------------------------------------------------------------------------
(***************************************************************************)
(* Each action preserves the invariant.                                    *)
(***************************************************************************)
\* Sending nothing is well typed.
LEMMA NothingTyped == Nothing \in [Address -> SUBSET Message]
BY DEF Nothing

\* The flood guard and the ignored packets change a count and a link.
LEMMA ChargeStep ==
    ASSUME IInv, NEW p \in players, NEW elapsed \in BOOLEAN, running,
           players' = Replace(p, AcceptRate(p, elapsed)),
           link' \in [Address -> LinkState],
           sent' = Nothing, UNCHANGED <<running, persisted, told>>
    PROVE  IInv'
<1>. DEFINE q == AcceptRate(p, elapsed)
<1>1. /\ q \in Player
      /\ q.addr = p.addr
      /\ q.id = p.id
      /\ q.spawned = p.spawned
      /\ q.pos = p.pos
    BY AcceptRateType DEF IInv, TypeOK
<1>. HIDE DEF q
<1>2. /\ UniqueIdentity'
      /\ Capacity'
      /\ \A a \in Address : Registered(a)' <=> Registered(a)
    BY <1>1, ReplaceInPlace DEF q
<1>3. TypeOK'
    BY <1>1, NothingTyped DEF IInv, TypeOK, Replace, q
<1>4. ViewExact'
    BY <1>1, <1>2 DEF IInv, ViewExact, UniqueIdentity, Replace, Spawned, q
<1>5. StrangersForgotten'
    BY <1>2 DEF IInv, StrangersForgotten
<1>. QED BY <1>2, <1>3, <1>4, <1>5 DEF IInv, StoppedEmpty

\* The transport and the periodic save leave the table and the views alone.
LEMMA LinkStep ==
    ASSUME IInv, running, link' \in [Address -> LinkState],
           persisted' \in Position \cup {NoPosition},
           sent' = Nothing, UNCHANGED <<players, running, told>>
    PROVE  IInv'
BY NothingTyped DEF IInv, TypeOK, UniqueIdentity, ViewExact, Capacity,
    StrangersForgotten, StoppedEmpty, Registered, Spawned

\* The anchor of a world that is not empty has a position.
LEMMA SpawnPositionTyped ==
    ASSUME TypeOK
    PROVE  SpawnPositionFor \in Position
<1>1. CASE Anchors # {}
    <2>1. (CHOOSE p \in Anchors : TRUE) \in Anchors
        BY <1>1
    <2>. HIDE DEF Anchors
    <2>2. \A p \in Anchors : p.pos \in Position
        BY DEF Anchors, Spawned, TypeOK
    <2>. QED BY <2>1, <2>2, ConstantsAssumption DEF SpawnPositionFor, TypeOK
<1>2. CASE Anchors = {}
    BY <1>2, ConstantsAssumption DEF SpawnPositionFor, TypeOK
<1>. QED BY <1>1, <1>2

\* What PersistAnchor saves is a position.
LEMMA PersistTyped ==
    ASSUME TypeOK, PersistAnchor
    PROVE  persisted' \in Position \cup {NoPosition}
<1>1. CASE Anchors # {}
    <2>1. (CHOOSE p \in Anchors : TRUE) \in Anchors
        BY <1>1
    <2>2. \A p \in Anchors : p.pos \in Position
        BY DEF Anchors, Spawned, TypeOK
    <2>. HIDE DEF Anchors
    <2>. QED BY <2>1, <2>2 DEF PersistAnchor, TypeOK
<1>2. CASE Anchors = {}
    BY <1>2 DEF PersistAnchor, TypeOK
<1>. QED BY <1>1, <1>2

\* A newcomer gets an id nobody holds and is told nothing else; the others
\* learn nothing of it until it spawns.
LEMMA RegisterStep ==
    ASSUME IInv, NEW a \in Address, Register(a)
    PROVE  IInv'
<1>. DEFINE p == [addr |-> a, id |-> AllocateNetworkId, spawned |-> FALSE,
                  pos |-> NoPosition, count |-> 0]
            hello == CreateLocal(p.id, SpawnPositionFor)
<1>1. /\ running
      /\ ~Registered(a)
      /\ Cardinality(players) < MaxPlayers
      /\ players' = players \cup {p}
      /\ sent' = SendTo(a, hello)
      /\ told' = [b \in Address |-> IF b = a THEN {} ELSE Heard(told[b], SendTo(a, hello)[b])]
      /\ UNCHANGED <<running, link, persisted>>
    BY DEF Register, SendForgetting, Receives
<1>2. AllocateNetworkId \in NetworkId /\ AllocateNetworkId \notin UsedIds
    BY <1>1, AllocateFresh DEF IInv, Capacity
<1>3. SpawnPositionFor \in Position
    BY SpawnPositionTyped DEF IInv
<1>4. /\ p \in Player
      /\ p.addr = a /\ p.id = AllocateNetworkId /\ p.spawned = FALSE
    BY <1>2, ConstantsAssumption DEF Player
<1>5. hello \in Message
    BY <1>2, <1>3, <1>4 DEF CreateLocal, Message
<1>. HIDE DEF p, hello
<1>6. told' = told
    <2>1. \A b \in Address : told'[b] = told[b]
        BY <1>1, HeardNoMessage DEF IInv, TypeOK, SendTo, StrangersForgotten
    <2>. QED BY <1>1, <2>1 DEF IInv, TypeOK
<1>7. \A q \in players : q.addr # a /\ q.id # p.id
    BY <1>1, <1>2, <1>4 DEF Registered, UsedIds
<1>8. TypeOK'
    BY <1>1, <1>4, <1>5, <1>6 DEF IInv, TypeOK, SendTo
<1>9. UniqueIdentity'
    BY <1>1, <1>4, <1>7 DEF IInv, UniqueIdentity
<1>10. ViewExact'
    BY <1>1, <1>4, <1>6, <1>7 DEF IInv, ViewExact, Spawned, StrangersForgotten
<1>11. Capacity'
    <2>1. IsFiniteSet(players') /\ Cardinality(players') <= Cardinality(players) + 1
        <3>1. /\ IsFiniteSet(players \cup {p})
              /\ \/ Cardinality(players \cup {p}) = Cardinality(players)
                 \/ Cardinality(players \cup {p}) = Cardinality(players) + 1
            BY FS_AddElement, Zenon DEF IInv, Capacity
        <3>. QED BY <1>1, <3>1, FS_CardinalityType DEF IInv, Capacity
    <2>2. Cardinality(players) \in Nat /\ Cardinality(players') \in Nat
        BY <2>1, FS_CardinalityType DEF IInv, Capacity
    <2>. QED BY <1>1, <2>1, <2>2, ConstantsAssumption DEF Capacity
<1>12. StrangersForgotten'
    BY <1>1, <1>6 DEF IInv, StrangersForgotten, Registered
<1>. QED BY <1>1, <1>8, <1>9, <1>10, <1>11, <1>12 DEF IInv, StoppedEmpty

\* Relaying a message that creates and destroys nothing: movement, rotation.
LEMMA RelayStep ==
    ASSUME IInv, running, NEW p \in players, NEW q \in Player,
           q.addr = p.addr, q.id = p.id, q.spawned = p.spawned,
           q.spawned => q.pos \in Position,
           players' = Replace(p, q),
           NEW m \in Message,
           m.type \in {"PLAYER_MOVEMENT", "PLAYER_ROTATION"},
           Send(RelayExcept(Replace(p, q), q.id, m)),
           UNCHANGED <<running, link, persisted>>
    PROVE  IInv'
<1>1. /\ UniqueIdentity'
      /\ Capacity'
      /\ \A a \in Address : Registered(a)' <=> Registered(a)
    BY ReplaceInPlace
<1>2. told' = told
    <2>1. \A b \in Address : told'[b] = told[b]
        BY HeardNoMessage, HeardIdle DEF Send, RelayExcept
    <2>. QED BY <2>1 DEF IInv, TypeOK, Send
<1>3. sent' \in [Address -> SUBSET Message]
    BY DEF Send, RelayExcept
<1>4. TypeOK'
    BY <1>2, <1>3 DEF IInv, TypeOK, Replace
<1>5. ViewExact'
    BY <1>1, <1>2 DEF IInv, ViewExact, UniqueIdentity, Replace
<1>6. StrangersForgotten'
    BY <1>1, <1>2 DEF IInv, StrangersForgotten
<1>. QED BY <1>1, <1>4, <1>5, <1>6 DEF IInv, StoppedEmpty

\* Movement of a player in the world preserves the invariant.
LEMMA MovementStep ==
    ASSUME IInv, NEW a \in Address, NEW elapsed \in BOOLEAN, NEW x \in Position,
           HandlePlayerMovement(a, elapsed, x)
    PROVE  IInv'
<1>1. PICK p \in players :
        LET q == [AcceptRate(p, elapsed) EXCEPT !.pos = x]
        IN  /\ p.spawned
            /\ players' = Replace(p, q)
            /\ Send(RelayExcept(Replace(p, q), q.id, Movement(q.id, x)))
    BY DEF HandlePlayerMovement
<1>. DEFINE q == [AcceptRate(p, elapsed) EXCEPT !.pos = x]
<1>2. /\ q \in Player /\ q.addr = p.addr /\ q.id = p.id
      /\ q.spawned = p.spawned /\ q.pos = x
    <2>1. p \in Player
        BY DEF IInv, TypeOK
    <2>2. /\ AcceptRate(p, elapsed) \in Player
          /\ AcceptRate(p, elapsed).addr = p.addr
          /\ AcceptRate(p, elapsed).id = p.id
          /\ AcceptRate(p, elapsed).spawned = p.spawned
        BY <2>1, AcceptRateType
    <2>. QED BY <2>2 DEF Player
<1>3. Movement(q.id, x) \in Message /\ Movement(q.id, x).type = "PLAYER_MOVEMENT"
    BY <1>2 DEF Movement, Message, Player
<1>4. running /\ UNCHANGED <<running, link, persisted>>
    BY DEF HandlePlayerMovement, Receives
<1>. HIDE DEF q
<1>5. players' = Replace(p, q) /\ Send(RelayExcept(Replace(p, q), q.id, Movement(q.id, x)))
    BY <1>1 DEF q
<1>. QED BY <1>2, <1>3, <1>4, <1>5, RelayStep

\* Rotation of a player in the world preserves the invariant.
LEMMA RotationStep ==
    ASSUME IInv, NEW a \in Address, NEW elapsed \in BOOLEAN,
           HandlePlayerRotation(a, elapsed)
    PROVE  IInv'
<1>1. PICK p \in players :
        LET q == AcceptRate(p, elapsed)
        IN  /\ p.spawned
            /\ players' = Replace(p, q)
            /\ Send(RelayExcept(Replace(p, q), q.id, Rotation(q.id)))
    BY DEF HandlePlayerRotation
<1>. DEFINE q == AcceptRate(p, elapsed)
<1>2. /\ q \in Player /\ q.addr = p.addr /\ q.id = p.id
      /\ q.spawned = p.spawned /\ q.pos \in Position
    <2>1. p \in Player /\ p.pos \in Position
        BY <1>1 DEF IInv, TypeOK
    <2>. QED BY <2>1, AcceptRateType
<1>3. Rotation(q.id) \in Message /\ Rotation(q.id).type = "PLAYER_ROTATION"
    BY <1>2 DEF Rotation, Message, Player
<1>4. running /\ UNCHANGED <<running, link, persisted>>
    BY DEF HandlePlayerRotation, Receives
<1>. HIDE DEF q
<1>5. players' = Replace(p, q) /\ Send(RelayExcept(Replace(p, q), q.id, Rotation(q.id)))
    BY <1>1 DEF q
<1>. QED BY <1>2, <1>3, <1>4, <1>5, RelayStep

\* A spawn: the others learn the newcomer's id, the newcomer learns the ids
\* of those in the world.
LEMMA SpawnStep ==
    ASSUME IInv, NEW a \in Address, NEW elapsed \in BOOLEAN,
           NEW claimed \in NetworkId, NEW x \in Position,
           HandleCreateNetPlayer(a, elapsed, claimed, x)
    PROVE  IInv'
<1>1. PICK p \in players :
        LET q == [AcceptRate(p, elapsed) EXCEPT
                    !.id = TrustedId(p, claimed), !.spawned = TRUE, !.pos = x]
            table == Replace(p, q)
            announce == RelayExcept(table, q.id, Create(q.id, x))
            roster == SendRoster(table, q)
        IN  /\ p.addr = a
            /\ players' = table
            /\ Send([b \in Address |-> announce[b] \cup roster[b]])
    BY DEF HandleCreateNetPlayer
<1>. DEFINE q == [AcceptRate(p, elapsed) EXCEPT
                    !.id = TrustedId(p, claimed), !.spawned = TRUE, !.pos = x]
            announce == RelayExcept(players', q.id, Create(q.id, x))
            others == {r \in players' : r.id # q.id /\ r.spawned}
            entries == {[id |-> r.id, pos |-> r.pos] : r \in others}
            roster == SendRoster(players', q)
<1>0. p.addr = a
    BY <1>1
<1>2. /\ q \in Player /\ q.addr = p.addr /\ q.id = p.id
      /\ q.spawned = TRUE /\ q.pos = x
    <2>1. p \in Player
        BY DEF IInv, TypeOK
    <2>2. /\ AcceptRate(p, elapsed) \in Player
          /\ AcceptRate(p, elapsed).addr = p.addr
          /\ AcceptRate(p, elapsed).id = p.id
        BY <2>1, AcceptRateType
    <2>. QED BY <2>1, <2>2 DEF Player, TrustedId
<1>3. players' = Replace(p, q)
    BY <1>1
<1>4. Send([b \in Address |-> announce[b] \cup roster[b]])
    BY <1>1
<1>5. running /\ UNCHANGED <<running, link, persisted>>
    BY DEF HandleCreateNetPlayer, Receives
<1>. HIDE DEF q
<1>6. /\ UniqueIdentity'
      /\ Capacity'
      /\ \A b \in Address : Registered(b)' <=> Registered(b)
    BY <1>2, <1>3, ReplaceInPlace
<1>7. /\ players' \subseteq Player
      /\ \A r \in players' : r.spawned => r.pos \in Position
    BY <1>2, <1>3 DEF IInv, TypeOK, Replace
<1>8. entries \in SUBSET RosterEntry
    BY <1>7 DEF RosterEntry, Player
<1>9. /\ Create(q.id, x) \in Message
      /\ Roster(entries) \in Message
    <2>. HIDE DEF entries
    <2>. QED BY <1>2, <1>8 DEF Create, Roster, Message, Player
<1>10. \A b \in Address : announce[b] =
        IF \E r \in players' : r.addr = b /\ r.id # q.id /\ r.spawned
        THEN {Create(q.id, x)} ELSE {}
    BY DEF RelayExcept
<1>11. \A b \in Address : roster[b] =
        IF b = a /\ others # {} THEN {Roster(entries)} ELSE {}
    BY <1>1, <1>2 DEF SendRoster, SendTo, Nothing
<1>12. q \in players'
    BY <1>3 DEF Replace
<1>13. \A b \in Address : announce[b] \cup roster[b] =
        IF b = a THEN roster[a] ELSE announce[b]
    <2>1. announce[a] = {}
        <3>1. \A r \in players' : r.addr = a => r = q
            BY <1>0, <1>2, <1>6, <1>12 DEF UniqueIdentity
        <3>. QED BY <1>10, <3>1
    <2>. HIDE DEF announce, roster, others, entries
    <2>. QED BY <1>11, <2>1
<1>14. sent' \in [Address -> SUBSET Message]
    <2>. HIDE DEF others, entries
    <2>1. \A b \in Address : announce[b] \cup roster[b] \in SUBSET Message
        BY <1>9, <1>10, <1>11
    <2>. HIDE DEF announce, roster
    <2>. QED BY <1>4, <2>1 DEF Send
<1>15. /\ told' \in [Address -> SUBSET NetworkId]
       /\ told'[a] = told[a] \cup {r.id : r \in others}
       /\ \A b \in Address \ {a} : told'[b] =
            IF \E r \in players' : r.addr = b /\ r.id # q.id /\ r.spawned
            THEN told[b] \cup {q.id} ELSE told[b]
    <2>1. \A b \in Address : told'[b] = Heard(told[b], announce[b] \cup roster[b])
        BY <1>4 DEF Send
    <2>2. told'[a] = told[a] \cup {r.id : r \in others}
        <3>1. Heard(told[a], {Roster(entries)}) = told[a] \cup {e.id : e \in entries}
            BY <1>8, HeardRoster
        <3>2. {e.id : e \in entries} = {r.id : r \in others}
            <4>1. ASSUME NEW r \in others PROVE r.id \in {e.id : e \in entries}
                <5>1. [id |-> r.id, pos |-> r.pos] \in entries
                    OBVIOUS
                <5>. HIDE DEF entries
                <5>. QED BY <5>1
            <4>2. ASSUME NEW e \in entries PROVE e.id \in {r.id : r \in others}
                <5>1. PICK r \in others : e = [id |-> r.id, pos |-> r.pos]
                    OBVIOUS
                <5>. HIDE DEF others, entries
                <5>. QED BY <5>1
            <4>. HIDE DEF others, entries
            <4>. QED BY <4>1, <4>2
        <3>3. Heard(told[a], {}) = told[a]
            BY HeardNoMessage
        <3>. HIDE DEF entries, announce, roster, others
        <3>. QED BY <2>1, <1>11, <1>13, <3>1, <3>2, <3>3
    <2>3. \A b \in Address \ {a} : told'[b] =
            IF \E r \in players' : r.addr = b /\ r.id # q.id /\ r.spawned
            THEN told[b] \cup {q.id} ELSE told[b]
        <3>1. \A b \in Address : Heard(told[b], {Create(q.id, x)}) = told[b] \cup {q.id}
            BY <1>2, HeardCreate DEF Player
        <3>2. \A b \in Address : Heard(told[b], {}) = told[b]
            BY HeardNoMessage
        <3>. HIDE DEF announce, roster, others, entries
        <3>. QED BY <2>1, <1>10, <1>13, <3>1, <3>2
    <2>4. {r.id : r \in others} \subseteq NetworkId /\ q.id \in NetworkId
        BY <1>2, <1>7 DEF Player
    <2>5. told' = [b \in Address |-> told'[b]]
        BY <1>4 DEF Send
    <2>. HIDE DEF others
    <2>. QED BY <2>2, <2>3, <2>4, <2>5 DEF IInv, TypeOK
<1>16. TypeOK'
    BY <1>5, <1>7, <1>14, <1>15 DEF IInv, TypeOK
<1>17. ViewExact'
    <2>1. SUFFICES ASSUME NEW r \in players', NEW n \in NetworkId
                   PROVE  n \in told'[r.addr] <=>
                            r.spawned /\ \E s \in players' : s # r /\ s.spawned /\ s.id = n
        BY DEF ViewExact
    <2>2. CASE r = q
        BY <1>1, <1>2, <1>3, <1>6, <1>15, <2>2
            DEF IInv, TypeOK, ViewExact, UniqueIdentity, Replace
    <2>3. CASE r # q
        <3>1. r \in players /\ r # p /\ r.addr # a /\ r.addr \in Address /\ r.id # q.id
            BY <1>1, <1>2, <1>3, <1>7, <2>3 DEF IInv, UniqueIdentity, Replace, Player
        <3>2. told'[r.addr] = IF r.spawned THEN told[r.addr] \cup {q.id} ELSE told[r.addr]
            BY <1>6, <1>15, <3>1 DEF UniqueIdentity
        <3>. QED BY <1>2, <1>3, <3>1, <3>2 DEF IInv, ViewExact, UniqueIdentity, Replace
    <2>. QED BY <2>2, <2>3
<1>18. StrangersForgotten'
    <2>1. \A b \in Address : ~Registered(b)' => b # a /\ told'[b] = told[b]
        BY <1>1, <1>2, <1>6, <1>12, <1>15 DEF Registered
    <2>. QED BY <1>6, <2>1 DEF IInv, StrangersForgotten
<1>. QED BY <1>5, <1>6, <1>16, <1>17, <1>18 DEF IInv, StoppedEmpty

\* A drop: the entry goes, and the others forget its id if it was in the world.
LEMMA DropStep ==
    ASSUME IInv, NEW a \in Address, NEW elapsed \in BOOLEAN, HandleDrop(a, elapsed)
    PROVE  IInv'
<1>1. /\ running
      /\ link' = [link EXCEPT ![a] = "down"]
      /\ UNCHANGED <<running, persisted>>
    BY DEF HandleDrop
<1>2. link' \in [Address -> LinkState]
    BY <1>1 DEF IInv, TypeOK, LinkState
<1>3. CASE sent' = Nothing /\ UNCHANGED <<players, told>>
    BY <1>1, <1>2, <1>3, LinkStep DEF IInv, TypeOK
<1>4. CASE \E p \in players :
            LET rest == {q \in players : q.id # p.id}
            IN  /\ p.addr = a
                /\ Accepts(p, elapsed)
                /\ players' = rest
                /\ SendForgetting(a, IF p.spawned
                                     THEN RelayExcept(rest, p.id, Destroy(p.id))
                                     ELSE Nothing)
    <2>1. PICK p \in players :
            /\ p.addr = a
            /\ players' = {q \in players : q.id # p.id}
            /\ SendForgetting(a, IF p.spawned
                                 THEN RelayExcept(players', p.id, Destroy(p.id))
                                 ELSE Nothing)
        BY <1>4
    <2>. DEFINE out == IF p.spawned THEN RelayExcept(players', p.id, Destroy(p.id)) ELSE Nothing
    <2>2. /\ sent' = out
          /\ told' = [b \in Address |-> IF b = a THEN {} ELSE Heard(told[b], out[b])]
        BY <2>1 DEF SendForgetting
    <2>3. players' = players \ {p}
        BY <2>1 DEF IInv, UniqueIdentity
    <2>4. p \in Player /\ p.id \in NetworkId
        BY DEF IInv, TypeOK, Player
    <2>5. \A b \in Address : out[b] =
            IF p.spawned /\ \E r \in players' : r.addr = b /\ r.id # p.id /\ r.spawned
            THEN {Destroy(p.id)} ELSE {}
        BY DEF RelayExcept, Nothing
    <2>6. out \in [Address -> SUBSET Message]
        <3>1. Destroy(p.id) \in Message
            BY <2>4 DEF Destroy, Message
        <3>. QED BY <3>1 DEF RelayExcept, Nothing
    <2>7. \A b \in Address : told'[b] =
            IF b = a THEN {}
            ELSE IF p.spawned /\ \E r \in players' : r.addr = b /\ r.id # p.id /\ r.spawned
            THEN told[b] \ {p.id} ELSE told[b]
        <3>1. \A b \in Address : Heard(told[b], {Destroy(p.id)}) = told[b] \ {p.id}
            BY <2>4, HeardDestroy
        <3>2. \A b \in Address : Heard(told[b], {}) = told[b]
            BY HeardNoMessage
        <3>. HIDE DEF out
        <3>. QED BY <2>2, <2>5, <3>1, <3>2
    <2>. HIDE DEF out
    <2>8. TypeOK'
        <3>1. told' \in [Address -> SUBSET NetworkId]
            <4>1. \A b \in Address : told'[b] \in SUBSET NetworkId
                <5>1. \A b \in Address : told[b] \in SUBSET NetworkId
                    BY DEF IInv, TypeOK
                <5>. QED BY <2>7, <5>1
            <4>. DEFINE F(b) == IF b = a THEN {} ELSE Heard(told[b], out[b])
            <4>2. told' = [b \in Address |-> F(b)]
                BY <2>2
            <4>. HIDE DEF F
            <4>3. told' = [b \in Address |-> told'[b]]
                BY <4>2
            <4>. QED BY <4>1, <4>3
        <3>. QED BY <1>1, <1>2, <2>2, <2>3, <2>6, <3>1 DEF IInv, TypeOK
    <2>9. UniqueIdentity'
        BY <2>3 DEF IInv, UniqueIdentity
    <2>10. ViewExact'
        <3>1. SUFFICES ASSUME NEW r \in players', NEW n \in NetworkId
                       PROVE  n \in told'[r.addr] <=>
                                r.spawned /\ \E s \in players' : s # r /\ s.spawned /\ s.id = n
            BY DEF ViewExact
        <3>2. r \in players /\ r # p /\ r.addr # a /\ r.id # p.id /\ r.addr \in Address
            BY <2>1, <2>3 DEF IInv, UniqueIdentity, TypeOK, Player
        <3>3. told'[r.addr] = IF p.spawned /\ r.spawned
                              THEN told[r.addr] \ {p.id} ELSE told[r.addr]
            BY <2>3, <2>7, <3>2 DEF IInv, UniqueIdentity
        <3>. QED BY <2>3, <3>2, <3>3 DEF IInv, ViewExact, UniqueIdentity
    <2>11. Capacity'
        <3>1. /\ IsFiniteSet(players')
              /\ Cardinality(players') = Cardinality(players) - 1
            BY <2>3, FS_RemoveElement DEF IInv, Capacity
        <3>2. Cardinality(players) \in Nat /\ Cardinality(players') \in Nat
            BY <3>1, FS_CardinalityType DEF IInv, Capacity
        <3>. QED BY <3>1, <3>2, ConstantsAssumption DEF IInv, Capacity
    <2>12. StrangersForgotten'
        <3>1. SUFFICES ASSUME NEW b \in Address, ~Registered(b)' PROVE told'[b] = {}
            BY DEF StrangersForgotten
        <3>2. CASE b = a
            BY <2>7, <3>2
        <3>3. CASE b # a
            BY <2>1, <2>3, <2>7, <3>1, <3>3 DEF IInv, StrangersForgotten, Registered
        <3>. QED BY <3>2, <3>3
    <2>. QED BY <1>1, <2>8, <2>9, <2>10, <2>11, <2>12 DEF IInv, StoppedEmpty
<1>. QED BY <1>3, <1>4 DEF HandleDrop

\* Stop: the farewells leave nobody remembered anywhere.
LEMMA StopStep ==
    ASSUME IInv, Stop
    PROVE  IInv'
<1>1. /\ running' = FALSE
      /\ players' = {}
      /\ link' = [a \in Address |-> "down"]
      /\ sent' = Farewell
      /\ told' = [b \in Address |-> Heard(told[b], Farewell[b])]
    BY DEF Stop, Send
<1>2. persisted' \in Position \cup {NoPosition}
    BY PersistTyped DEF Stop, IInv
<1>3. Farewell \in [Address -> SUBSET Message]
    <2>1. \A p \in players : Destroy(p.id) \in Message
        BY DEF IInv, TypeOK, Player, Destroy, Message
    <2>. QED BY <2>1 DEF Farewell, Spawned
<1>4. \A b \in Address : told'[b] = {}
    <2>1. SUFFICES ASSUME NEW b \in Address, NEW n \in told[b]
                   PROVE  n \notin told'[b]
        <3>1. \A b \in Address : Heard(told[b], Farewell[b]) \subseteq told[b]
            BY DEF Heard, CreatedBy, Farewell, Destroy
        <3>. QED BY <1>1, <3>1
    <2>2. n \in NetworkId
        BY DEF IInv, TypeOK
    <2>3. PICK r \in players : r.addr = b
        BY <2>1 DEF IInv, StrangersForgotten, Registered
    <2>4. PICK s \in players : r.spawned /\ s # r /\ s.spawned /\ s.id = n
        BY <2>1, <2>2, <2>3 DEF IInv, ViewExact
    <2>5. r.id # s.id
        BY <2>4 DEF IInv, UniqueIdentity
    <2>6. Destroy(s.id) \in Farewell[b]
        BY <2>3, <2>4, <2>5 DEF Farewell, Spawned
    <2>7. n \in DestroyedBy(Farewell[b])
        BY <2>2, <2>4, <2>6 DEF DestroyedBy, Destroy
    <2>. QED BY <1>1, <2>7 DEF Heard
<1>5. told' = [a \in Address |-> {}]
    BY <1>1, <1>4
<1>6. TypeOK'
    BY <1>1, <1>2, <1>3, <1>5 DEF TypeOK, LinkState
<1>7. Capacity'
    BY <1>1, FS_EmptySet, ConstantsAssumption DEF Capacity
<1>. QED BY <1>1, <1>5, <1>6, <1>7 DEF IInv, UniqueIdentity, ViewExact,
        StrangersForgotten, StoppedEmpty

\* A redeploy begins with the empty table that Stop left.
LEMMA StartStep ==
    ASSUME IInv, Start
    PROVE  IInv'
BY NothingTyped DEF Start, FromText, IInv, TypeOK, UniqueIdentity, ViewExact, Capacity,
    StrangersForgotten, StoppedEmpty, Registered

\* Every packet, every transport event and every call of main preserves the
\* invariant.
THEOREM NextIInv == IInv /\ [Next]_vars => IInv'
<1>. SUFFICES ASSUME IInv, [Next]_vars PROVE IInv'
    OBVIOUS
<1>1. CASE UNCHANGED vars
    BY <1>1 DEF vars, IInv, TypeOK, UniqueIdentity, ViewExact, Capacity,
        StrangersForgotten, StoppedEmpty, Registered
<1>2. ASSUME NEW a \in Address, LinkUp(a) \/ LinkEnds(a) \/ Refuse(a) PROVE IInv'
    <2>1. link' \in [Address -> LinkState]
        BY <1>2 DEF LinkUp, LinkEnds, Refuse, IInv, TypeOK, LinkState
    <2>. QED BY <1>2, <2>1, LinkStep DEF LinkUp, LinkEnds, Refuse, Receives, IInv, TypeOK
<1>3. ASSUME NEW a \in Address, Register(a) PROVE IInv'
    BY <1>3, RegisterStep
<1>4. ASSUME NEW a \in Address, NEW elapsed \in BOOLEAN, RateLimited(a, elapsed) PROVE IInv'
    <2>1. link' \in [Address -> LinkState]
        BY <1>4 DEF RateLimited, IInv, TypeOK, LinkState
    <2>. QED BY <1>4, <2>1, ChargeStep DEF RateLimited
<1>5. ASSUME NEW a \in Address, NEW elapsed \in BOOLEAN, Ignore(a, elapsed) PROVE IInv'
    <2>1. link' \in [Address -> LinkState]
        BY <1>5 DEF Ignore, IInv, TypeOK
    <2>. QED BY <1>5, <2>1, ChargeStep DEF Ignore, Receives
<1>6. ASSUME NEW a \in Address, NEW elapsed \in BOOLEAN, NEW claimed \in NetworkId,
             NEW x \in Position, HandleCreateNetPlayer(a, elapsed, claimed, x)
      PROVE  IInv'
    BY <1>6, SpawnStep
<1>7. ASSUME NEW a \in Address, NEW elapsed \in BOOLEAN, NEW x \in Position,
             HandlePlayerMovement(a, elapsed, x)
      PROVE  IInv'
    BY <1>7, MovementStep
<1>8. ASSUME NEW a \in Address, NEW elapsed \in BOOLEAN, HandlePlayerRotation(a, elapsed)
      PROVE  IInv'
    BY <1>8, RotationStep
<1>9. ASSUME NEW a \in Address, NEW elapsed \in BOOLEAN, HandleDrop(a, elapsed) PROVE IInv'
    BY <1>9, DropStep
<1>10. CASE TickPersist
    <2>1. persisted' \in Position \cup {NoPosition}
        BY <1>10, PersistTyped DEF TickPersist, IInv
    <2>. QED BY <1>10, <2>1, LinkStep DEF TickPersist, IInv, TypeOK
<1>11. CASE Stop
    BY <1>11, StopStep
<1>12. CASE Start
    BY <1>12, StartStep
<1>. QED
    BY <1>1, <1>2, <1>3, <1>4, <1>5, <1>6, <1>7, <1>8, <1>9, <1>10, <1>11, <1>12
    DEF Next, Packet, HandleConnectionNotification

\* The invariant holds throughout: the induction over the steps.
THEOREM Inductive == Spec => []IInv
BY InitIInv, NextIInv, PTL DEF Spec

-----------------------------------------------------------------------------
(***************************************************************************)
(* The theorems.                                                           *)
(***************************************************************************)

\* Every variable keeps its type; in particular AllocateNetworkId never hands
\* out an id above maxPlayers, however ids are recycled.
THEOREM TypeCorrect == Spec => []TypeOK
BY Inductive, PTL DEF IInv

\* No two players of the table ever share an address or a network id.
THEOREM IdentityUnique == Spec => []UniqueIdentity
BY Inductive, PTL DEF IInv

\* Every client in the world has been told of exactly the others in it.
THEOREM ViewsExact == Spec => []ViewExact
BY Inductive, PTL DEF IInv

\* Stop leaves no client believing that another player is there.
THEOREM FarewellsComplete == Spec => []FarewellComplete
<1>1. IInv => FarewellComplete
    BY DEF IInv, TypeOK, FarewellComplete, StoppedEmpty, StrangersForgotten, Registered
<1>. QED BY <1>1, Inductive, PTL
=============================================================================
