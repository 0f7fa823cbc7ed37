--------------------------- MODULE HostServerProofs ---------------------------
(***************************************************************************)
(* Theorems about HostServer, for every set of addresses, every number of  *)
(* slots and avatars, and an engine that may falter at any moment.         *)
(***************************************************************************)
EXTENDS HostServer, SequenceTheorems, FiniteSetTheorems, WellFoundedInduction, TLAPS

-----------------------------------------------------------------------------
(***************************************************************************)
(* Free ids.  Both choices the host makes are the least free number of an  *)
(* interval that has more numbers than there are takers.                   *)
(***************************************************************************)

\* A non-empty set of naturals has a least element.
LEMMA LeastNatural ==
    ASSUME NEW T \in SUBSET Nat, T # {}
    PROVE  \E n \in T : \A m \in T : n <= m
<1>. DEFINE R == StrictSubsetOrdering(Nat)
            S == FiniteSubsetsOf(Nat)
            Segments == {1 .. n : n \in T}
<1>1. IsWellFoundedOn(R, S)
    BY FS_StrictSubsetOrderingWellFounded
<1>2. Segments \subseteq S
    BY FS_Interval DEF FiniteSubsetsOf
<1>3. \E X \in Segments : \A Y \in Segments : <<Y, X>> \notin R
    <2>1. Segments # {}
        OBVIOUS
    <2>. HIDE DEF R, S, Segments
    <2>. QED BY <1>1, <1>2, <2>1, WFMin
<1>4. PICK n \in T : \A m \in T : <<1 .. m, 1 .. n>> \notin R
    BY <1>3
<1>5. ASSUME NEW m \in T, m < n
      PROVE  FALSE
    <2>1. 1 .. m \subseteq 1 .. n /\ n \in 1 .. n /\ n \notin 1 .. m
        BY <1>5
    <2>2. <<1 .. m, 1 .. n>> \in R
        BY <2>1 DEF StrictSubsetOrdering
    <2>. QED BY <1>4, <2>2
<1>. QED BY <1>5

\* The network ids of the connections that exist.
UsedIds == {c.id : c \in connections}

\* Connections have distinct addresses, and somebody without one has an
\* address too: there are fewer connections than addresses.
LEMMA FewerConnections ==
    ASSUME TypeOK, ConnectionsDistinct,
           NEW a \in Address, \A c \in connections : c.addr # a
    PROVE  /\ IsFiniteSet(UsedIds)
           /\ Cardinality(UsedIds) < Cardinality(Address)
<1>. DEFINE Others == Address \ {a}
            f == [c \in connections |-> c.addr]
            g == [c \in connections |-> c.id]
<1>1. IsFiniteSet(Others) /\ Cardinality(Others) = Cardinality(Address) - 1
    BY HostAssumption, FS_RemoveElement
<1>2. f \in Injection(connections, Others)
    BY DEF Injection, IsInjective, TypeOK, ConnectionsDistinct
<1>. HIDE DEF f, Others
<1>3. IsFiniteSet(connections) /\ Cardinality(connections) <= Cardinality(Others)
    BY <1>1, <1>2, FS_Injection
<1>4. g \in Surjection(connections, UsedIds)
    BY DEF Surjection, UsedIds
<1>. HIDE DEF g
<1>5. IsFiniteSet(UsedIds) /\ Cardinality(UsedIds) <= Cardinality(connections)
    BY <1>3, <1>4, FS_Surjection
<1>6. /\ Cardinality(connections) \in Nat
      /\ Cardinality(UsedIds) \in Nat
      /\ Cardinality(Address) \in Nat
    BY <1>3, <1>5, HostAssumption, FS_CardinalityType
<1>. QED BY <1>1, <1>3, <1>5, <1>6

\* GetFreeNetworkId returns an id that no connection has.
LEMMA FreeNetworkId ==
    ASSUME TypeOK, ConnectionsDistinct,
           NEW a \in Address, \A c \in connections : c.addr # a
    PROVE  GetFreeNetworkId \in NetworkId /\ \A c \in connections : c.id # GetFreeNetworkId
<1>. DEFINE Free == NetworkId \ UsedIds
<1>0. Cardinality(Address) \in Nat
    BY HostAssumption, FS_CardinalityType
<1>1. Free # {}
    <2>1. SUFFICES ASSUME NetworkId \subseteq UsedIds PROVE FALSE
        OBVIOUS
    <2>2. IsFiniteSet(UsedIds) /\ Cardinality(UsedIds) < Cardinality(Address)
        BY FewerConnections
    <2>3. Cardinality(NetworkId) <= Cardinality(UsedIds)
        BY <2>1, <2>2, FS_Subset
    <2>4. Cardinality(NetworkId) = Cardinality(Address)
        BY <1>0, FS_Interval DEF NetworkId
    <2>5. Cardinality(UsedIds) \in Nat
        BY <2>2, FS_CardinalityType
    <2>. QED BY <1>0, <2>2, <2>3, <2>4, <2>5
<1>2. PICK n \in Free : \A m \in Free : n <= m
    <2>1. Free \in SUBSET Nat
        BY <1>0 DEF NetworkId
    <2>. HIDE DEF Free
    <2>. QED BY <1>1, <2>1, LeastNatural
<1>3. \A m \in 1 .. (n - 1) : m \in UsedIds
    BY <1>0, <1>2 DEF NetworkId
<1>. QED BY <1>2, <1>3 DEF GetFreeNetworkId, UsedIds

\* Local ids in use.
TakenLocals == (IF localPlayer THEN {0} ELSE {}) \cup {avatars[i].local : i \in DOMAIN avatars}

\* While the list has room GetFreeLocalId returns an id nobody has.
LEMMA FreeLocalId ==
    ASSUME TypeOK, Len(avatars) < MaxAvatars
    PROVE  GetFreeLocalId \in LocalId /\ GetFreeLocalId \notin TakenLocals
<1>. DEFINE f == [i \in 0 .. Len(avatars) |-> IF i = 0 THEN 0 ELSE avatars[i].local]
            Image == {f[i] : i \in 0 .. Len(avatars)}
            Free == LocalId \ TakenLocals
<1>0. /\ Len(avatars) \in Nat
      /\ DOMAIN avatars = 1 .. Len(avatars)
      /\ MaxAvatars \in Nat
    BY HostAssumption, LenProperties DEF TypeOK
<1>1. IsFiniteSet(Image) /\ Cardinality(Image) <= Len(avatars) + 1
    <2>1. f \in Surjection(0 .. Len(avatars), Image)
        BY DEF Surjection
    <2>2. IsFiniteSet(0 .. Len(avatars)) /\ Cardinality(0 .. Len(avatars)) = Len(avatars) + 1
        BY <1>0, FS_Interval
    <2>. HIDE DEF f, Image
    <2>. QED BY <2>1, <2>2, FS_Surjection
<1>2. TakenLocals \subseteq Image
    <2>1. 0 \in Image
        <3>1. f[0] = 0 /\ 0 \in 0 .. Len(avatars)
            BY <1>0
        <3>. QED BY <3>1
    <2>2. ASSUME NEW i \in DOMAIN avatars PROVE avatars[i].local \in Image
        <3>1. i \in 0 .. Len(avatars) /\ f[i] = avatars[i].local
            BY <1>0
        <3>. HIDE DEF f
        <3>. QED BY <3>1
    <2>. HIDE DEF Image
    <2>. QED BY <2>1, <2>2 DEF TakenLocals
<1>. HIDE DEF Image
<1>3. Free # {}
    <2>1. SUFFICES ASSUME LocalId \subseteq Image PROVE FALSE
        BY <1>2
    <2>2. Cardinality(LocalId) <= Cardinality(Image)
        BY <1>1, <2>1, FS_Subset
    <2>3. Cardinality(LocalId) = MaxAvatars + 1
        BY <1>0, FS_Interval DEF LocalId
    <2>4. Cardinality(Image) \in Nat
        BY <1>1, FS_CardinalityType
    <2>. QED BY <1>0, <1>1, <2>2, <2>3, <2>4
<1>4. PICK l \in Free : \A k \in Free : l <= k
    <2>1. Free \in SUBSET Nat
        BY <1>0 DEF LocalId
    <2>. HIDE DEF Free
    <2>. QED BY <1>3, <2>1, LeastNatural
<1>5. \A k \in 0 .. (l - 1) : k \in TakenLocals
    BY <1>0, <1>4 DEF LocalId
<1>6. \A k : k \in TakenLocals <=>
            (k = 0 /\ localPlayer) \/ \E i \in DOMAIN avatars : avatars[i].local = k
    BY DEF TakenLocals
<1>. HIDE DEF Free
<1>. DEFINE Q(x) == x \notin TakenLocals /\ \A k \in 0 .. (x - 1) : k \in TakenLocals
<1>7. GetFreeLocalId = CHOOSE x \in LocalId : Q(x)
    BY <1>6 DEF GetFreeLocalId
<1>8. l \in LocalId /\ Q(l)
    BY <1>4, <1>5 DEF Free
<1>. QED BY <1>7, <1>8

-----------------------------------------------------------------------------
(***************************************************************************)
(* The host's list.                                                        *)
(***************************************************************************)

\* An avatar is appended at the end.
LEMMA ListAppend ==
    ASSUME NEW list \in Seq(Avatar), NEW v \in Avatar
    PROVE  LET new == Append(list, v)
           IN  /\ new \in Seq(Avatar)
               /\ Len(list) \in Nat
               /\ DOMAIN list = 1 .. Len(list)
               /\ Len(new) = Len(list) + 1
               /\ DOMAIN new = 1 .. Len(list) + 1
               /\ \A i \in DOMAIN list : new[i] = list[i]
               /\ new[Len(list) + 1] = v
BY AppendProperties, LenProperties

\* Where the rest of a list comes from when its k-th entry is erased.
Source(k, i) == IF i < k THEN i ELSE i + 1

\* Erasing an entry keeps the others, in their order.
LEMMA ListRemove ==
    ASSUME NEW list \in Seq(Avatar), NEW k \in DOMAIN list
    PROVE  LET rest == RemoveAt(list, k)
           IN  /\ rest \in Seq(Avatar)
               /\ Len(rest) < Len(list)
               /\ \A i \in DOMAIN rest : /\ Source(k, i) \in DOMAIN list
                                         /\ Source(k, i) # k
                                         /\ rest[i] = list[Source(k, i)]
               /\ \A i, j \in DOMAIN rest : Source(k, i) = Source(k, j) => i = j
               /\ \A j \in DOMAIN list : j # k =>
                    \E i \in DOMAIN rest : Source(k, i) = j
<1>. DEFINE front == SubSeq(list, 1, k - 1)
            back == SubSeq(list, k + 1, Len(list))
            rest == RemoveAt(list, k)
<1>1. Len(list) \in Nat /\ DOMAIN list = 1 .. Len(list) /\ k \in 1 .. Len(list)
    BY LenProperties
<1>2. \A i \in 1 .. Len(list) : list[i] \in Avatar
    BY ElementOfSeq
<1>3. /\ front \in Seq(Avatar)
      /\ Len(front) = k - 1
      /\ \A i \in 1 .. (k - 1) : front[i] = list[i]
    <2>1. \A i \in 1 .. (k - 1) : list[i] \in Avatar
        BY <1>1, <1>2
    <2>2. /\ front \in Seq(Avatar)
          /\ Len(front) = IF 1 <= k - 1 THEN (k - 1) - 1 + 1 ELSE 0
          /\ \A i \in 1 .. ((k - 1) - 1 + 1) : front[i] = list[1 + i - 1]
        BY <1>1, <2>1, SubSeqProperties
    <2>. HIDE DEF front
    <2>. QED BY <1>1, <2>2
<1>4. /\ back \in Seq(Avatar)
      /\ Len(back) = Len(list) - k
      /\ \A i \in 1 .. (Len(list) - k) : back[i] = list[k + i]
    <2>1. \A i \in (k + 1) .. Len(list) : list[i] \in Avatar
        BY <1>1, <1>2
    <2>2. /\ back \in Seq(Avatar)
          /\ Len(back) = IF k + 1 <= Len(list) THEN Len(list) - (k + 1) + 1 ELSE 0
          /\ \A i \in 1 .. (Len(list) - (k + 1) + 1) : back[i] = list[(k + 1) + i - 1]
        BY <1>1, <2>1, SubSeqProperties
    <2>. HIDE DEF back
    <2>3. Len(list) - (k + 1) + 1 = Len(list) - k
        BY <1>1
    <2>4. Len(back) = Len(list) - k
        BY <1>1, <2>2
    <2>5. \A i \in 1 .. (Len(list) - k) : (k + 1) + i - 1 = k + i
        BY <1>1
    <2>. QED BY <2>2, <2>3, <2>4, <2>5
<1>5. rest = front \o back
    BY DEF RemoveAt
<1>. HIDE DEF front, back, rest
<1>6. /\ rest \in Seq(Avatar)
      /\ Len(rest) = Len(list) - 1
      /\ DOMAIN rest = 1 .. (Len(list) - 1)
      /\ \A i \in 1 .. (Len(list) - 1) : rest[i] = list[Source(k, i)]
    <2>1. /\ rest \in Seq(Avatar)
          /\ Len(rest) = Len(front) + Len(back)
          /\ \A i \in 1 .. Len(front) + Len(back) :
                rest[i] = IF i <= Len(front) THEN front[i] ELSE back[i - Len(front)]
        BY <1>3, <1>4, <1>5, ConcatProperties
    <2>2. Len(rest) = Len(list) - 1
        BY <1>1, <1>3, <1>4, <2>1
    <2>3. DOMAIN rest = 1 .. (Len(list) - 1)
        BY <2>1, <2>2, LenProperties
    <2>4. ASSUME NEW i \in 1 .. (Len(list) - 1) PROVE rest[i] = list[Source(k, i)]
        <3>1. CASE i < k
            BY <1>1, <1>3, <1>4, <2>1, <3>1 DEF Source
        <3>2. CASE i >= k
            <4>1. /\ ~(i <= Len(front))
                  /\ i - Len(front) \in 1 .. (Len(list) - k)
                  /\ k + (i - Len(front)) = i + 1
                BY <1>1, <1>3, <3>2
            <4>2. i \in 1 .. Len(front) + Len(back)
                BY <1>1, <1>3, <1>4
            <4>3. rest[i] = back[i - Len(front)]
                BY <2>1, <4>1, <4>2
            <4>4. back[i - Len(front)] = list[k + (i - Len(front))]
                BY <1>4, <4>1
            <4>5. Source(k, i) = i + 1
                BY <1>1, <3>2 DEF Source
            <4>. QED BY <4>1, <4>3, <4>4, <4>5
        <3>. QED BY <1>1, <3>1, <3>2
    <2>. QED BY <2>1, <2>2, <2>3, <2>4
<1>7. \A j \in DOMAIN list : j # k => \E i \in DOMAIN rest : Source(k, i) = j
    <2>1. SUFFICES ASSUME NEW j \in DOMAIN list, j # k
                   PROVE  \E i \in DOMAIN rest : Source(k, i) = j
        OBVIOUS
    <2>2. CASE j < k
        <3>1. j \in DOMAIN rest /\ Source(k, j) = j
            BY <1>1, <1>6, <2>2 DEF Source
        <3>. QED BY <3>1
    <2>3. CASE j > k
        <3>1. (j - 1) \in DOMAIN rest /\ Source(k, j - 1) = j
            BY <1>1, <1>6, <2>3 DEF Source
        <3>. QED BY <3>1
    <2>. QED BY <1>1, <2>1, <2>2, <2>3
<1>. QED BY <1>1, <1>6, <1>7 DEF rest, Source

\* GetPlayerFromNetworkId and its like find an entry of that id, if there is one.
LEMMA FirstHit ==
    ASSUME NEW list \in Seq(Avatar), NEW n, Hits(list, n) # {}
    PROVE  First(list, n) \in DOMAIN list /\ list[First(list, n)].id = n
<1>1. Hits(list, n) \in SUBSET Nat
    BY LenProperties DEF Hits
<1>2. \E i \in Hits(list, n) : \A j \in Hits(list, n) : i <= j
    BY <1>1, LeastNatural
<1>3. First(list, n) \in Hits(list, n)
    BY <1>2 DEF First
<1>. QED BY <1>3 DEF Hits

-----------------------------------------------------------------------------
(***************************************************************************)
(* What each message does to the avatars a client keeps.                   *)
(***************************************************************************)

\* What one message makes and what it takes away.
Made(m) ==
    (IF m.type = "CREATE_NET_PLAYER" THEN {m.id} ELSE {})
        \cup (IF m.type = "CREATE_NET_PLAYERS" THEN m.ids ELSE {})
Gone(m) == IF m.type = "DESTROY_NET_PLAYER" THEN {m.id} ELSE {}

\* One message has its effect.
LEMMA HeardOne ==
    ASSUME NEW known, NEW own, NEW m
    PROVE  Heard(known, own, {m}) = (known \cup (Made(m) \ {own})) \ Gone(m)
<1>1. {y.id : y \in {x \in {m} : x.type = "CREATE_NET_PLAYER"}}
        = IF m.type = "CREATE_NET_PLAYER" THEN {m.id} ELSE {}
    OBVIOUS
<1>2. UNION {y.ids : y \in {x \in {m} : x.type = "CREATE_NET_PLAYERS"}}
        = IF m.type = "CREATE_NET_PLAYERS" THEN m.ids ELSE {}
    OBVIOUS
<1>3. {y.id : y \in {x \in {m} : x.type = "DESTROY_NET_PLAYER"}} = Gone(m)
    BY DEF Gone
<1>. QED BY <1>1, <1>2, <1>3 DEF Heard, Made

\* Without a message nothing is learnt.
LEMMA HeardNoMessage ==
    ASSUME NEW known, NEW own
    PROVE  Heard(known, own, {}) = known
BY DEF Heard

\* Movement teaches nothing.
LEMMA HeardMovement ==
    ASSUME NEW known, NEW own, NEW n
    PROVE  Heard(known, own, {Movement(n)}) = known
<1>1. Made(Movement(n)) = {} /\ Gone(Movement(n)) = {}
    BY DEF Made, Gone, Movement
<1>2. Heard(known, own, {Movement(n)}) = (known \cup (Made(Movement(n)) \ {own})) \ Gone(Movement(n))
    BY HeardOne
<1>. QED BY <1>1, <1>2

\* An announcement teaches the id it names, but nobody its own.
LEMMA HeardCreate ==
    ASSUME NEW known, NEW own, NEW n
    PROVE  Heard(known, own, {Create(n)}) = known \cup ({n} \ {own})
<1>1. Made(Create(n)) = {n} /\ Gone(Create(n)) = {}
    BY DEF Made, Gone, Create
<1>2. Heard(known, own, {Create(n)}) = (known \cup (Made(Create(n)) \ {own})) \ Gone(Create(n))
    BY HeardOne
<1>. QED BY <1>1, <1>2

\* A roster teaches the ids it lists, but nobody its own.
LEMMA HeardRoster ==
    ASSUME NEW known, NEW own, NEW ids
    PROVE  Heard(known, own, {Roster(ids)}) = known \cup (ids \ {own})
<1>1. Made(Roster(ids)) = ids /\ Gone(Roster(ids)) = {}
    BY DEF Made, Gone, Roster
<1>2. Heard(known, own, {Roster(ids)}) = (known \cup (Made(Roster(ids)) \ {own})) \ Gone(Roster(ids))
    BY HeardOne
<1>. QED BY <1>1, <1>2

\* A departure takes the id it names away.
LEMMA HeardDestroy ==
    ASSUME NEW known, NEW own, NEW n
    PROVE  Heard(known, own, {Destroy(n)}) = known \ {n}
<1>1. Made(Destroy(n)) = {} /\ Gone(Destroy(n)) = {n}
    BY DEF Made, Gone, Destroy
<1>2. Heard(known, own, {Destroy(n)}) = (known \cup (Made(Destroy(n)) \ {own})) \ Gone(Destroy(n))
    BY HeardOne
<1>. QED BY <1>1, <1>2

-----------------------------------------------------------------------------
(***************************************************************************)
(* The inductive invariant.  Ids are told apart by the connections, so     *)
(* what clients have been given and what their links went through must     *)
(* follow the connections (Linked); local ids are told apart by the list   *)
(* (Numbered); and while the engine keeps its side the list is the world:  *)
(* one avatar, with a creature, for every client that announced itself,    *)
(* known to all the others (World).                                        *)
(***************************************************************************)
Linked ==
    /\ fault # "spin" =>
        \A c \in connections : link[c.addr] \in {"notified", "announced", "ending"}
    /\ \A a \in Address : given[a] # NoId =>
        localPlayer /\ \E c \in connections : c.addr = a /\ c.id = given[a]

Numbered ==
    /\ \A i, j \in DOMAIN avatars : avatars[i].local = avatars[j].local => i = j
    /\ localPlayer => \A i \in DOMAIN avatars : avatars[i].local # 0

Closed == phase = "off" /\ fault = "none" =>
    avatars = <<>> /\ \A a \in Address : given[a] = NoId

Broken == fault = "null" => phase = "hosting" /\ ~localPlayer

\* Avatar i of the list and what its client knows.
Settled(i) ==
    /\ given[avatars[i].who] = avatars[i].id
    /\ link[avatars[i].who] \in {"announced", "ending"}
    /\ told[avatars[i].who] = ({HostId} \cup AvatarIds) \ {avatars[i].id}

Inhabited ==
    /\ fault # "spin"
    /\ localPlayer => 0 \in creatures
    /\ Destroyable
    /\ fault = "none" => \A c \in connections : given[c.addr] = c.id
    /\ \A i, j \in DOMAIN avatars : avatars[i].id = avatars[j].id => i = j
    /\ \A i \in DOMAIN avatars : Settled(i)

Outside ==
    \A a \in Address :
        /\ link[a] = "announced" => \E i \in DOMAIN avatars : avatars[i].who = a
        /\ told[a] \subseteq AvatarIds \/ \E i \in DOMAIN avatars : avatars[i].who = a
        /\ told[a] # {} => given[a] # NoId

World == Sound => Inhabited /\ Outside

IInv ==
    /\ TypeOK
    /\ ConnectionsDistinct
    /\ Linked
    /\ Numbered
    /\ Closed
    /\ Broken
    /\ World

\* The invariant holds before the game hosts.
THEOREM InitIInv == Init => IInv
<1>. SUFFICES ASSUME Init PROVE IInv
    OBVIOUS
<1>1. TypeOK
    <2>1. avatars \in Seq(Avatar)
        BY EmptySeq DEF Init
    <2>2. localPlayer \in BOOLEAN
        BY Zenon DEF Init
    <2>3. faults \in 0 .. MaxFaults
        BY HostAssumption DEF Init
    <2>. QED BY <2>1, <2>2, <2>3 DEF Init, TypeOK, LinkState
<1>. QED BY <1>1 DEF Init, IInv, ConnectionsDistinct, Linked, Numbered, Closed, Broken,
    World, Inhabited, Outside, Destroyable

-----------------------------------------------------------------------------
(***************************************************************************)
(* Each action preserves the invariant.                                    *)
(***************************************************************************)
Ids == NetworkId \cup {HostId, NoId}

\* Ids in short.
LEMMA IdsTyped == NetworkId \subseteq Ids /\ HostId \in Ids /\ NoId \in Ids
               /\ NoId \notin NetworkId /\ HostId \notin NetworkId /\ HostId # NoId
BY HostAssumption, FS_CardinalityType DEF Ids, NetworkId, HostId, NoId

\* Entries of the list.
LEMMA EntryTyped ==
    ASSUME TypeOK, NEW i \in DOMAIN avatars
    PROVE  /\ avatars[i] \in Avatar
           /\ avatars[i].id \in NetworkId
           /\ avatars[i].local \in LocalId
           /\ avatars[i].who \in Address
<1>1. avatars[i] \in Avatar
    BY ElementOfSeq, LenProperties DEF TypeOK
<1>. QED BY <1>1 DEF Avatar

\* The transport accepts and drops: only links change.
LEMMA LinkStep ==
    ASSUME IInv, NEW a \in Address, LinkUp(a) \/ LinkEnds(a)
    PROVE  IInv'
<1>1. /\ Serving
      /\ \/ link[a] = "down" /\ link' = [link EXCEPT ![a] = "connected"]
         \/ link[a] \notin {"down", "ending"} /\ link' = [link EXCEPT ![a] = "ending"]
      /\ UNCHANGED <<phase, fault, localPlayer, connections, avatars, creatures,
                     callbacks, given, told, faults>>
    BY DEF LinkUp, LinkEnds, Quiet, sessionState
<1>2. link \in [Address -> LinkState]
    BY DEF IInv, TypeOK
<1>3. TypeOK'
    BY <1>1, <1>2 DEF IInv, TypeOK, LinkState
<1>4. Linked'
    BY <1>1, <1>2 DEF IInv, Linked, TypeOK
<1>5. World'
    <2>1. SUFFICES ASSUME Sound PROVE Inhabited' /\ Outside'
        BY <1>1 DEF World, Sound
    <2>2. Inhabited /\ Outside
        BY <2>1 DEF IInv, World
    <2>3. \A i \in DOMAIN avatars : avatars[i].who \in Address
        BY EntryTyped DEF IInv
    <2>4. Inhabited'
        BY <1>1, <1>2, <2>2, <2>3 DEF Inhabited, Settled, AvatarIds, Destroyable
    <2>5. Outside'
        BY <1>1, <1>2, <2>2 DEF Outside, AvatarIds
    <2>. QED BY <2>4, <2>5
<1>. QED BY <1>1, <1>3, <1>4, <1>5 DEF IInv, ConnectionsDistinct, Numbered, Closed, Broken

\* Hosting begins with an empty list.
LEMMA HostStep ==
    ASSUME IInv, Host
    PROVE  IInv'
<1>1. /\ phase = "off" /\ fault = "none"
      /\ localPlayer' \in BOOLEAN
      /\ creatures' = IF localPlayer' THEN {0} ELSE {}
      /\ callbacks' \subseteq callbacks \cup {HostId}
      /\ phase' = "hosting"
      /\ UNCHANGED <<fault, connections, avatars, link, given, told, faults>>
    <2>1. PICK embodied \in IF MaySpectate THEN BOOLEAN ELSE {TRUE} :
            /\ localPlayer' = embodied
            /\ creatures' = IF embodied THEN {0} ELSE {}
            /\ callbacks' = IF embodied THEN callbacks \cup {HostId} ELSE callbacks
        BY DEF Host
    <2>2. embodied \in BOOLEAN
        BY Zenon
    <2>3. localPlayer' \in BOOLEAN
        BY <2>1, <2>2, Zenon
    <2>4. callbacks' \subseteq callbacks \cup {HostId}
        BY <2>1, <2>2
    <2>. QED BY <2>1, <2>3, <2>4 DEF Host, Quiet
<1>2. avatars = <<>> /\ \A a \in Address : given[a] = NoId
    BY <1>1 DEF IInv, Closed
<1>3. TypeOK'
    BY <1>1, HostAssumption DEF IInv, TypeOK, LocalId
<1>4. World'
    BY <1>1, <1>2 DEF IInv, World, Sound, Inhabited, Outside, Settled, AvatarIds, Destroyable
<1>. QED BY <1>1, <1>2, <1>3, <1>4 DEF IInv, ConnectionsDistinct, Linked, Numbered,
        Closed, Broken

\* However the session ends nobody is given or told anything afterwards; only a
\* session whose engine has faltered may fail to end.
LEMMA TeardownStep ==
    ASSUME IInv, Teardown, phase = "hosting", fault = "none",
           phase' \in {"off", "ended"}, faults' = faults
    PROVE  IInv'
<1>1. /\ link' = [a \in Address |-> "down"]
      /\ given' = [a \in Address |-> NoId]
      /\ told' = [a \in Address |-> {}]
    BY DEF Teardown
<1>2. CASE Destroyable
    <2>1. /\ avatars' = <<>>
          /\ connections' = {}
          /\ callbacks' \subseteq callbacks
          /\ localPlayer' = FALSE
          /\ creatures' \subseteq creatures
          /\ fault' = fault
        BY <1>2 DEF Teardown
    <2>2. TypeOK'
        <3>1. avatars' \in Seq(Avatar)
            BY <2>1, EmptySeq
        <3>2. localPlayer' \in BOOLEAN
            BY <2>1, Zenon
        <3>. QED BY <1>1, <2>1, <3>1, <3>2 DEF IInv, TypeOK, LinkState
    <2>3. World'
        BY <1>1, <2>1 DEF IInv, World, Sound, Inhabited, Outside, Settled, AvatarIds, Destroyable
    <2>. QED BY <1>1, <2>1, <2>2, <2>3 DEF IInv, ConnectionsDistinct, Linked, Numbered,
            Closed, Broken
<1>3. CASE ~Destroyable
    <2>1. /\ fault' = "spin"
          /\ UNCHANGED <<localPlayer, connections, avatars, creatures, callbacks>>
        BY <1>3 DEF Teardown
    <2>2. TypeOK'
        BY <1>1, <2>1 DEF IInv, TypeOK, LinkState
    <2>3. ~Sound
        BY <1>3 DEF IInv, World, Inhabited
    <2>. QED BY <1>1, <2>1, <2>2, <2>3 DEF IInv, ConnectionsDistinct, Linked, Numbered,
            Closed, Broken, World, Sound
<1>. QED BY <1>2, <1>3

\* A client gets an id that no connection has.
LEMMA NotificationStep ==
    ASSUME IInv, NEW a \in Address, HandleConnectionNotification(a)
    PROVE  /\ IInv'
           /\ \A c \in connections : c.addr # a
<1>. DEFINE n == GetFreeNetworkId
            c0 == [addr |-> a, id |-> n]
<1>1. /\ phase = "hosting" /\ fault = "none"
      /\ link[a] = "connected"
      /\ link' = [link EXCEPT ![a] = "notified"]
      /\ connections' = connections \cup {c0}
      /\ fault' = IF localPlayer THEN "none" ELSE "null"
      /\ given' = IF localPlayer /\ 0 \in creatures THEN [given EXCEPT ![a] = n] ELSE given
      /\ UNCHANGED <<phase, localPlayer, avatars, creatures, callbacks, told, faults>>
    BY DEF HandleConnectionNotification, Serving
<1>2. \A c \in connections : c.addr # a
    BY <1>1 DEF IInv, Linked
<1>3. n \in NetworkId /\ \A c \in connections : c.id # n
    BY <1>2, FreeNetworkId DEF IInv
<1>. HIDE DEF n
<1>4. /\ link \in [Address -> LinkState]
      /\ given \in [Address -> NetworkId \cup {NoId}]
      /\ connections \subseteq [addr : Address, id : NetworkId]
    BY DEF IInv, TypeOK
<1>5. link' \in [Address -> LinkState] /\ given' \in [Address -> NetworkId \cup {NoId}]
    BY <1>1, <1>3, <1>4 DEF LinkState
<1>6. connections' \subseteq [addr : Address, id : NetworkId]
    BY <1>1, <1>3, <1>4
<1>7. TypeOK'
    BY <1>1, <1>5, <1>6 DEF IInv, TypeOK
<1>8. ConnectionsDistinct'
    BY <1>1, <1>2, <1>3 DEF IInv, ConnectionsDistinct
<1>9. c0 \in connections' /\ c0.addr = a /\ c0.id = n
    BY <1>1
<1>10. Linked'
    <2>1. \A c \in connections' : link'[c.addr] \in {"notified", "announced", "ending"}
        BY <1>1, <1>4 DEF IInv, Linked
    <2>2. ASSUME NEW b \in Address, given'[b] # NoId
          PROVE  localPlayer' /\ \E c \in connections' : c.addr = b /\ c.id = given'[b]
        <3>1. CASE b = a /\ localPlayer /\ 0 \in creatures
            BY <1>1, <1>4, <1>9, <3>1
        <3>2. CASE ~(b = a /\ localPlayer /\ 0 \in creatures)
            <4>1. given'[b] = given[b]
                BY <1>1, <1>4, <3>2
            <4>. QED BY <1>1, <2>2, <4>1 DEF IInv, Linked
        <3>. QED BY <3>1, <3>2
    <2>. QED BY <2>1, <2>2 DEF Linked
<1>11. World'
    <2>1. SUFFICES ASSUME Sound PROVE Inhabited' /\ Outside'
        BY <1>1 DEF World, Sound
    <2>2. Inhabited /\ Outside
        BY <2>1 DEF IInv, World
    <2>3. \A i \in DOMAIN avatars : avatars[i].who \in Address /\ avatars[i].who # a
        BY <1>1, <2>2, EntryTyped DEF IInv, Inhabited, Settled
    <2>4. \A b \in Address \ {a} : given'[b] = given[b] /\ link'[b] = link[b]
        BY <1>1, <1>4
    <2>5. \A i \in DOMAIN avatars : Settled(i)'
        BY <1>1, <2>2, <2>3, <2>4 DEF Inhabited, Settled, AvatarIds
    <2>6. fault' = "none" => \A c \in connections' : given'[c.addr] = c.id
        <3>1. SUFFICES ASSUME fault' = "none", NEW c \in connections'
                       PROVE  given'[c.addr] = c.id
            OBVIOUS
        <3>2. localPlayer /\ 0 \in creatures
            BY <1>1, <2>2, <3>1 DEF Inhabited
        <3>3. given' = [given EXCEPT ![a] = n]
            BY <1>1, <3>2
        <3>4. CASE c = c0
            BY <1>4, <1>9, <3>3, <3>4
        <3>5. CASE c \in connections
            BY <1>1, <1>2, <1>4, <2>2, <2>4, <3>5 DEF Inhabited
        <3>. QED BY <1>1, <3>1, <3>4, <3>5
    <2>7. Inhabited'
        BY <1>1, <2>2, <2>5, <2>6 DEF Inhabited, Destroyable
    <2>8. \A b \in Address : given[b] # NoId => given'[b] # NoId
        BY <1>1, <1>3, <1>4, IdsTyped
    <2>9. link'[a] # "announced"
        BY <1>1, <1>4
    <2>10. Outside'
        BY <1>1, <2>2, <2>4, <2>8, <2>9 DEF Outside, AvatarIds
    <2>. QED BY <2>7, <2>10
<1>12. Numbered' /\ Closed' /\ Broken'
    BY <1>1 DEF IInv, Numbered, Closed, Broken
<1>. QED BY <1>2, <1>7, <1>8, <1>10, <1>11, <1>12 DEF IInv

\* What is sent is not part of the invariant.
LEMMA UnchangedStep ==
    ASSUME IInv,
           UNCHANGED <<phase, fault, localPlayer, connections, avatars, creatures, callbacks,
                       link, given, told, faults>>
    PROVE  IInv'
<1>1. TypeOK'
    BY DEF IInv, TypeOK
<1>2. ConnectionsDistinct' /\ Linked' /\ Numbered' /\ Closed' /\ Broken'
    BY DEF IInv, ConnectionsDistinct, Linked, Numbered, Closed, Broken
<1>3. World'
    <2>1. SUFFICES ASSUME Sound PROVE Inhabited' /\ Outside'
        BY DEF World, Sound
    <2>2. Inhabited /\ Outside
        BY <2>1 DEF IInv, World
    <2>3. Inhabited'
        BY <2>2 DEF Inhabited, Settled, AvatarIds, Destroyable
    <2>4. Outside'
        BY <2>2 DEF Outside, AvatarIds
    <2>. QED BY <2>3, <2>4
<1>. QED BY <1>1, <1>2, <1>3 DEF IInv

\* Movement, of a client or of the host, teaches nobody anything.
LEMMA MovementStep ==
    ASSUME IInv, NEW n, Send(SendToAllClientsExcept(n, Movement(n))),
           UNCHANGED <<sessionState, creatures, callbacks, link, given, faults>>
    PROVE  IInv'
<1>. DEFINE out == SendToAllClientsExcept(n, Movement(n))
<1>1. \A b \in Address : out[b] = {} \/ out[b] = {Movement(n)}
    BY DEF SendToAllClientsExcept
<1>2. told' = [b \in Address |-> Heard(told[b], given[b], out[b])]
    BY DEF Send
<1>. HIDE DEF out
<1>3. \A b \in Address : told'[b] = told[b]
    BY <1>1, <1>2, HeardNoMessage, HeardMovement
<1>4. told' = told
    BY <1>2, <1>3 DEF IInv, TypeOK
<1>5. UNCHANGED <<phase, fault, localPlayer, connections, avatars, creatures, callbacks,
                  link, given, told, faults>>
    BY <1>4 DEF sessionState
<1>. QED BY <1>5, UnchangedStep

\* Once the engine has faltered only the types and the ids count.
LEMMA CreatureLostStep ==
    ASSUME IInv, NEW l, CreatureLost(l)
    PROVE  IInv'
<1>1. /\ faults' \in 1 .. MaxFaults
      /\ creatures' \subseteq creatures
      /\ UNCHANGED <<phase, fault, localPlayer, connections, avatars, callbacks, link, given, told>>
    BY HostAssumption DEF CreatureLost, EngineFalters, Quiet, sessionState, IInv, TypeOK
<1>2. TypeOK'
    BY <1>1 DEF IInv, TypeOK
<1>3. World'
    BY <1>1 DEF World, Sound
<1>. QED BY <1>1, <1>2, <1>3 DEF IInv, ConnectionsDistinct, Linked, Numbered, Closed, Broken

\* A client's own id is the id of its connection, and no connection of another
\* address has it.
LEMMA OwnConnection ==
    ASSUME IInv, NEW a \in Address, given[a] # NoId
    PROVE  /\ given[a] \in NetworkId
           /\ \E c \in connections : c.addr = a /\ c.id = given[a]
           /\ \A c \in connections : c.addr = a <=> c.id = given[a]
           /\ \A b \in Address : b # a => given[b] # given[a]
<1>1. given[a] \in NetworkId
    BY DEF IInv, TypeOK
<1>2. PICK c \in connections : c.addr = a /\ c.id = given[a]
    BY DEF IInv, Linked
<1>3. \A d \in connections : d.addr = a <=> d.id = given[a]
    BY <1>2 DEF IInv, ConnectionsDistinct
<1>4. \A b \in Address : b # a => given[b] # given[a]
    BY <1>3 DEF IInv, Linked
<1>. QED BY <1>1, <1>2, <1>3, <1>4

\* While the engine keeps its side nobody has heard the id of a client that has
\* not announced itself.
LEMMA IdUnheard ==
    ASSUME IInv, Sound, NEW a \in Address, given[a] # NoId, link[a] = "notified"
    PROVE  /\ given[a] \notin AvatarIds
           /\ \A b \in Address : given[a] \notin told[b]
           /\ \A i \in DOMAIN avatars : avatars[i].who # a
           /\ told[a] \subseteq AvatarIds
<1>1. Inhabited /\ Outside
    BY DEF IInv, World
<1>2. \A i \in DOMAIN avatars : avatars[i].who # a
    BY <1>1 DEF Inhabited, Settled
<1>3. given[a] \notin AvatarIds
    <2>1. SUFFICES ASSUME NEW i \in DOMAIN avatars, avatars[i].id = given[a] PROVE FALSE
        BY DEF AvatarIds
    <2>2. given[avatars[i].who] = given[a] /\ avatars[i].who \in Address
        BY <1>1, <2>1, EntryTyped DEF IInv, Inhabited, Settled
    <2>. QED BY <1>2, <2>2, OwnConnection
<1>4. \A b \in Address : told[b] \subseteq {HostId} \cup AvatarIds
    BY <1>1 DEF Inhabited, Outside, Settled
<1>5. given[a] # HostId
    BY OwnConnection, IdsTyped
<1>. QED BY <1>1, <1>2, <1>3, <1>4, <1>5 DEF Outside

\* What everyone knows after an announcement: all other clients the newcomer,
\* the newcomer the roster, if the host can give one.
LEMMA Announced ==
    ASSUME IInv, NEW a \in Address, given[a] # NoId, NEW list, NEW alive,
           Send(Announcement(a, given[a], list, alive))
    PROVE  /\ told' = [b \in Address |-> told'[b]]
           /\ told'[a] = IF 0 \in alive
                         THEN told[a] \cup (RosterOf(list, alive).ids \ {given[a]})
                         ELSE told[a]
           /\ \A b \in Address \ {a} : told'[b] =
                IF \E c \in connections : c.addr = b THEN told[b] \cup {given[a]} ELSE told[b]
<1>. DEFINE n == given[a]
            others == SendToAllClientsExcept(n, Create(n))
            roster == SendTo(a, IF 0 \in alive THEN {RosterOf(list, alive)} ELSE {})
            F(b) == Heard(told[b], given[b], others[b] \cup roster[b])
<1>1. told' = [b \in Address |-> F(b)]
    BY Zenon DEF Send, Announcement
<1>2. \A b \in Address : roster[b] =
        IF b = a /\ 0 \in alive THEN {RosterOf(list, alive)} ELSE {}
    BY DEF SendTo
<1>3. \A b \in Address : others[b] =
        IF b # a /\ \E c \in connections : c.addr = b THEN {Create(n)} ELSE {}
    <2>1. \A c \in connections : c.addr = a <=> c.id = n
        BY OwnConnection
    <2>2. \A b \in Address : others[b] =
            IF \E c \in connections : c.addr = b /\ c.id # n THEN {Create(n)} ELSE {}
        BY DEF SendToAllClientsExcept
    <2>. HIDE DEF others, n
    <2>. QED BY <2>1, <2>2
<1>. HIDE DEF others, roster
<1>4. told'[a] = IF 0 \in alive THEN told[a] \cup (RosterOf(list, alive).ids \ {n}) ELSE told[a]
    <2>1. others[a] \cup roster[a] = IF 0 \in alive THEN {RosterOf(list, alive)} ELSE {}
        BY <1>2, <1>3
    <2>2. PICK ids : RosterOf(list, alive) = Roster(ids)
        BY Zenon DEF RosterOf
    <2>3. Roster(ids).ids = ids
        BY DEF Roster
    <2>4. told'[a] = Heard(told[a], n, others[a] \cup roster[a])
        BY <1>1
    <2>5. CASE 0 \in alive
        <3>1. told'[a] = Heard(told[a], n, {Roster(ids)})
            BY <2>1, <2>2, <2>4, <2>5
        <3>2. told'[a] = told[a] \cup (ids \ {n})
            BY <3>1, HeardRoster
        <3>. QED BY <2>2, <2>3, <2>5, <3>2
    <2>6. CASE 0 \notin alive
        BY <2>1, <2>4, <2>6, HeardNoMessage
    <2>. QED BY <2>5, <2>6
<1>5. ASSUME NEW b \in Address \ {a}
      PROVE  told'[b] = IF \E c \in connections : c.addr = b THEN told[b] \cup {n} ELSE told[b]
    <2>1. told'[b] = Heard(told[b], given[b], others[b] \cup roster[b])
        BY <1>1
    <2>2. others[b] \cup roster[b] = IF \E c \in connections : c.addr = b THEN {Create(n)} ELSE {}
        BY <1>2, <1>3
    <2>3. {n} \ {given[b]} = {n}
        BY OwnConnection
    <2>4. CASE \E c \in connections : c.addr = b
        <3>1. told'[b] = Heard(told[b], given[b], {Create(n)})
            BY <2>1, <2>2, <2>4
        <3>. HIDE DEF n
        <3>2. told'[b] = told[b] \cup ({n} \ {given[b]})
            BY <3>1, HeardCreate
        <3>. QED BY <2>3, <2>4, <3>2
    <2>5. CASE ~\E c \in connections : c.addr = b
        BY <2>1, <2>2, <2>5, HeardNoMessage
    <2>. QED BY <2>4, <2>5
<1>6. told' = [b \in Address |-> told'[b]]
    <2>. HIDE DEF F
    <2>. QED BY <1>1
<1>. QED BY <1>4, <1>5, <1>6

\* While every entry has its creature the roster lists the host and everybody.
LEMMA RosterComplete ==
    ASSUME NEW list \in Seq(Avatar), NEW alive,
           \A i \in DOMAIN list : list[i].local \in alive
    PROVE  RosterOf(list, alive) = Roster({HostId} \cup {list[i].id : i \in DOMAIN list})
<1>1. ASSUME NEW i \in DOMAIN list
      PROVE  HasCreature(list, alive, list[i].id)
    <2>1. Hits(list, list[i].id) # {}
        BY DEF Hits
    <2>. QED BY <2>1, FirstHit DEF HasCreature
<1>2. {j \in DOMAIN list : HasCreature(list, alive, list[j].id)} = DOMAIN list
    BY <1>1
<1>3. ~\E i \in DOMAIN list : ~HasCreature(list, alive, list[i].id)
    BY <1>1
<1>. QED BY <1>2, <1>3 DEF RosterOf

\* Ids that are told, whatever the engine has made of the list.
LEMMA RosterTyped ==
    ASSUME NEW list \in Seq(Avatar), NEW alive
    PROVE  RosterOf(list, alive).ids \subseteq Ids
<1>. DEFINE found == {j \in DOMAIN list : HasCreature(list, alive, list[j].id)}
            short == \E i \in DOMAIN list : ~HasCreature(list, alive, list[i].id)
            ids == {HostId} \cup {list[i].id : i \in found} \cup IF short THEN {NoId} ELSE {}
<1>1. ASSUME NEW i \in DOMAIN list
      PROVE  list[i].id \in NetworkId
    <2>1. list[i] \in Avatar
        BY ElementOfSeq, LenProperties
    <2>. QED BY <2>1 DEF Avatar
<1>2. ids \subseteq Ids
    BY <1>1, IdsTyped
<1>3. RosterOf(list, alive) = Roster(ids)
    BY DEF RosterOf
<1>4. Roster(ids).ids = ids
    BY DEF Roster
<1>. QED BY <1>2, <1>3, <1>4

\* A client announces itself: the list, the world and what everybody knows grow
\* by its id.
LEMMA NewcomerStep ==
    ASSUME IInv, NEW a \in Address, HandleCreateNetPlayer(a)
    PROVE  /\ IInv'
           /\ UNCHANGED connections
           /\ Sound' => \E v \in Avatar : v.who = a /\ avatars' = Append(avatars, v)
<1>. DEFINE n == given[a]
            l == GetFreeLocalId
            v == [id |-> n, local |-> l, who |-> a]
            list == Append(avatars, v)
<1>1. /\ phase = "hosting" /\ fault = "none"
      /\ link[a] = "notified" /\ n # NoId
      /\ Len(avatars) < MaxAvatars
      /\ link' = [link EXCEPT ![a] = "announced"]
      /\ UNCHANGED <<phase, fault, localPlayer, connections, given>>
    BY DEF HandleCreateNetPlayer, Serving
<1>2. /\ n \in NetworkId
      /\ l \in LocalId /\ l \notin TakenLocals
    BY <1>1, OwnConnection, FreeLocalId DEF IInv
<1>3. localPlayer
    BY <1>1 DEF IInv, Linked
<1>4. /\ link \in [Address -> LinkState]
      /\ avatars \in Seq(Avatar)
    BY DEF IInv, TypeOK
<1>5. link' \in [Address -> LinkState]
    BY <1>1, <1>4 DEF LinkState
<1>6. Linked'
    BY <1>1, <1>4 DEF IInv, Linked, TypeOK
<1>7. ConnectionsDistinct' /\ Closed' /\ Broken'
    BY <1>1 DEF IInv, ConnectionsDistinct, Closed, Broken
<1>8. CASE /\ EngineFalters
           /\ Quiet
           /\ UNCHANGED <<avatars, creatures, callbacks>>
    <2>1. faults' \in 0 .. MaxFaults /\ faults' # 0
        BY <1>8, HostAssumption DEF EngineFalters, IInv, TypeOK
    <2>2. TypeOK'
        BY <1>1, <1>5, <1>8, <2>1 DEF Quiet, IInv, TypeOK
    <2>3. Numbered'
        BY <1>1, <1>8 DEF IInv, Numbered
    <2>. QED BY <1>1, <1>6, <1>7, <2>1, <2>2, <2>3 DEF IInv, World, Sound
<1>9. ASSUME NEW made \in BOOLEAN, NEW alive,
             alive = IF made THEN creatures \cup {l} ELSE creatures \ {l},
             IF made THEN UNCHANGED faults ELSE EngineFalters,
             avatars' = list,
             creatures' = alive,
             callbacks' = IF HasCreature(list, alive, n) THEN callbacks \cup {n} ELSE callbacks,
             Send(Announcement(a, n, list, alive))
      PROVE  IInv'
    <2>1. v \in Avatar /\ v.id = n /\ v.local = l /\ v.who = a
        BY <1>2 DEF Avatar
    <2>. HIDE DEF v, l
    <2>2. /\ list \in Seq(Avatar)
          /\ Len(avatars) \in Nat
          /\ DOMAIN avatars = 1 .. Len(avatars)
          /\ DOMAIN list = 1 .. Len(avatars) + 1
          /\ \A i \in DOMAIN avatars : list[i] = avatars[i]
          /\ list[Len(avatars) + 1] = v
        BY <1>4, <2>1, ListAppend
    <2>3. /\ told' = [b \in Address |-> told'[b]]
          /\ told'[a] = IF 0 \in alive
                        THEN told[a] \cup (RosterOf(list, alive).ids \ {n})
                        ELSE told[a]
          /\ \A b \in Address \ {a} : told'[b] =
               IF \E c \in connections : c.addr = b THEN told[b] \cup {n} ELSE told[b]
        <3>. HIDE DEF list
        <3>. QED BY <1>1, <1>9, Announced
    <2>. HIDE DEF list
    <2>4. told' \in [Address -> SUBSET (NetworkId \cup {HostId, NoId})]
        <3>1. \A b \in Address : told[b] \subseteq Ids
            BY DEF IInv, TypeOK, Ids
        <3>2. RosterOf(list, alive).ids \subseteq Ids
            BY <2>2, RosterTyped
        <3>3. \A b \in Address : told'[b] \subseteq Ids
            BY <1>2, <2>3, <3>1, <3>2, IdsTyped
        <3>. QED BY <2>3, <3>3 DEF Ids
    <2>5. TypeOK'
        <3>1. faults' \in 0 .. MaxFaults
            BY <1>9, HostAssumption DEF EngineFalters, IInv, TypeOK
        <3>2. creatures' \subseteq LocalId
            BY <1>2, <1>9 DEF IInv, TypeOK
        <3>3. callbacks' \subseteq NetworkId \cup {HostId}
            BY <1>2, <1>9 DEF IInv, TypeOK
        <3>. QED BY <1>1, <1>5, <1>9, <2>2, <2>4, <3>1, <3>2, <3>3 DEF IInv, TypeOK
    <2>6. \A i \in DOMAIN avatars : avatars[i].local # l
        BY <1>2 DEF TakenLocals
    <2>7. Numbered'
        <3>1. l # 0
            BY <1>2, <1>3 DEF TakenLocals
        <3>2. \A i \in DOMAIN list : i = Len(avatars) + 1 \/ i \in DOMAIN avatars
            BY <2>2
        <3>3. \A i, j \in DOMAIN list : list[i].local = list[j].local => i = j
            BY <2>1, <2>2, <2>6, <3>2 DEF IInv, Numbered
        <3>4. localPlayer => \A i \in DOMAIN list : list[i].local # 0
            BY <2>1, <2>2, <3>1, <3>2 DEF IInv, Numbered
        <3>. QED BY <1>1, <1>9, <3>3, <3>4 DEF Numbered
    <2>8. World'
        <3>1. SUFFICES ASSUME Sound' PROVE Inhabited' /\ Outside'
            BY DEF World
        <3>2. made /\ Sound
            BY <1>9, <3>1, HostAssumption DEF Sound, EngineFalters, IInv, TypeOK
        <3>3. Inhabited /\ Outside
            BY <3>2 DEF IInv, World
        <3>4. alive = creatures \cup {l} /\ 0 \in alive
            BY <1>3, <1>9, <3>2, <3>3 DEF Inhabited
        <3>5. \A i \in DOMAIN list : i = Len(avatars) + 1 \/ i \in DOMAIN avatars
            BY <2>2
        <3>6. \A i \in DOMAIN list : list[i].local \in alive
            BY <2>1, <2>2, <3>3, <3>4, <3>5 DEF Inhabited, Destroyable
        <3>7. /\ n \notin AvatarIds
              /\ \A b \in Address : n \notin told[b]
              /\ \A i \in DOMAIN avatars : avatars[i].who # a
              /\ told[a] \subseteq AvatarIds
            BY <1>1, <3>2, IdUnheard
        <3>8. AvatarIds' = AvatarIds \cup {n}
            <4>1. {list[i].id : i \in DOMAIN list} = AvatarIds \cup {n}
                BY <2>1, <2>2, <3>5 DEF AvatarIds
            <4>. QED BY <1>9, <4>1 DEF AvatarIds
        <3>9. told'[a] = ({HostId} \cup AvatarIds') \ {n}
            <4>1. RosterOf(list, alive) = Roster({HostId} \cup {list[i].id : i \in DOMAIN list})
                BY <2>2, <3>6, RosterComplete
            <4>2. RosterOf(list, alive) = Roster({HostId} \cup AvatarIds')
                BY <1>9, <4>1 DEF AvatarIds
            <4>3. Roster({HostId} \cup AvatarIds').ids = {HostId} \cup AvatarIds'
                BY DEF Roster
            <4>4. told'[a] = told[a] \cup (({HostId} \cup AvatarIds') \ {n})
                BY <2>3, <3>4, <4>2, <4>3
            <4>. QED BY <3>7, <3>8, <4>4
        <3>10. \A i \in DOMAIN list : Settled(i)'
            <4>1. SUFFICES ASSUME NEW i \in DOMAIN list PROVE Settled(i)'
                OBVIOUS
            <4>2. CASE i = Len(avatars) + 1
                <5>1. link'[a] = "announced" /\ given'[a] = n
                    BY <1>1, <1>4
                <5>2. avatars'[i].who = a /\ avatars'[i].id = n
                    BY <1>9, <2>1, <2>2, <4>2
                <5>. QED BY <3>9, <5>1, <5>2 DEF Settled
            <4>3. CASE i \in DOMAIN avatars
                <5>. DEFINE b == avatars[i].who
                <5>1. /\ b \in Address \ {a}
                      /\ avatars[i].id \in NetworkId
                      /\ avatars'[i] = avatars[i]
                    BY <1>9, <2>2, <3>7, <4>3, EntryTyped DEF IInv
                <5>2. Settled(i)
                    BY <3>3, <4>3 DEF Inhabited
                <5>3. given[b] = avatars[i].id /\ given[b] # NoId
                    BY <5>1, <5>2, IdsTyped DEF Settled
                <5>4. \E c \in connections : c.addr = b
                    BY <5>1, <5>3, OwnConnection
                <5>5. told'[b] = told[b] \cup {n}
                    BY <2>3, <5>1, <5>4
                <5>6. avatars[i].id # n
                    BY <3>7, <4>3 DEF AvatarIds
                <5>7. told'[b] = ({HostId} \cup AvatarIds') \ {avatars[i].id}
                    BY <3>8, <5>2, <5>5, <5>6 DEF Settled
                <5>8. link'[b] = link[b]
                    BY <1>1, <1>4, <5>1
                <5>. QED BY <1>1, <5>1, <5>2, <5>7, <5>8 DEF Settled
            <4>. QED BY <3>5, <4>2, <4>3
        <3>11. Inhabited'
            <4>1. \A i, j \in DOMAIN list : list[i].id = list[j].id => i = j
                BY <2>1, <2>2, <3>3, <3>5, <3>7 DEF Inhabited, AvatarIds
            <4>. QED BY <1>1, <1>9, <3>3, <3>4, <3>6, <3>10, <4>1 DEF Inhabited, Destroyable
        <3>12. Outside'
            <4>1. SUFFICES ASSUME NEW b \in Address
                           PROVE  /\ link'[b] = "announced" => \E i \in DOMAIN list : list[i].who = b
                                  /\ \/ told'[b] \subseteq AvatarIds'
                                     \/ \E i \in DOMAIN list : list[i].who = b
                                  /\ told'[b] # {} => given'[b] # NoId
                BY <1>9 DEF Outside
            <4>2. CASE b = a
                <5>1. Len(avatars) + 1 \in DOMAIN list /\ list[Len(avatars) + 1].who = a
                    BY <2>1, <2>2
                <5>. QED BY <1>1, <4>2, <5>1
            <4>3. CASE b # a
                <5>1. \A i \in DOMAIN avatars : i \in DOMAIN list /\ list[i].who = avatars[i].who
                    BY <2>2
                <5>2. link'[b] = link[b]
                    BY <1>1, <1>4, <4>3
                <5>3. told'[b] \subseteq told[b] \cup {n}
                    BY <2>3, <4>3
                <5>4. told'[b] # {} => given'[b] # NoId
                    <6>1. CASE \E c \in connections : c.addr = b
                        <7>1. PICK c \in connections : c.addr = b
                            BY <6>1
                        <7>2. given[b] = c.id /\ c.id \in NetworkId
                            BY <1>1, <3>3, <7>1 DEF Inhabited, IInv, TypeOK
                        <7>. QED BY <1>1, <7>2, IdsTyped
                    <6>2. CASE ~\E c \in connections : c.addr = b
                        BY <1>1, <2>3, <3>3, <4>3, <6>2 DEF Outside
                    <6>. QED BY <6>1, <6>2
                <5>. QED BY <3>3, <3>8, <5>1, <5>2, <5>3, <5>4 DEF Outside
            <4>. QED BY <4>2, <4>3
        <3>. QED BY <3>11, <3>12
    <2>. QED BY <1>6, <1>7, <1>9, <2>5, <2>7, <2>8 DEF IInv, list
<1>10. v \in Avatar /\ v.who = a
    BY <1>2 DEF Avatar
<1>11. \/ /\ EngineFalters
          /\ Quiet
          /\ UNCHANGED <<avatars, creatures, callbacks>>
       \/ \E made \in BOOLEAN :
            LET alive == IF made THEN creatures \cup {l} ELSE creatures \ {l}
            IN  /\ IF made THEN UNCHANGED faults ELSE EngineFalters
                /\ avatars' = list
                /\ creatures' = alive
                /\ callbacks' = IF HasCreature(list, alive, n)
                                THEN callbacks \cup {n} ELSE callbacks
                /\ Send(Announcement(a, n, list, alive))
    BY DEF HandleCreateNetPlayer
<1>12. CASE \E made \in BOOLEAN :
            LET alive == IF made THEN creatures \cup {l} ELSE creatures \ {l}
            IN  /\ IF made THEN UNCHANGED faults ELSE EngineFalters
                /\ avatars' = list
                /\ creatures' = alive
                /\ callbacks' = IF HasCreature(list, alive, n)
                                THEN callbacks \cup {n} ELSE callbacks
                /\ Send(Announcement(a, n, list, alive))
    <2>1. avatars' = Append(avatars, v)
        BY <1>12
    <2>. HIDE DEF n, l, v, list
    <2>2. IInv'
        BY <1>9, <1>12
    <2>. QED BY <1>1, <1>10, <2>1, <2>2
<1>13. EngineFalters => ~Sound'
    BY HostAssumption DEF EngineFalters, Sound, IInv, TypeOK
<1>. QED BY <1>1, <1>8, <1>11, <1>12, <1>13

\* RemoveConnection finds the connection of its address, if there is one, and
\* takes away no other.
LEMMA DroppedConnection ==
    ASSUME IInv, NEW a \in Address
    PROVE  LET n == GetNetworkIdFromAddress(a)
           IN  /\ {c \in connections : c.id # n} = {c \in connections : c.addr # a}
               /\ \A c \in connections : c.addr = a <=> c.id = n
               /\ n \in NetworkId <=> \E c \in connections : c.addr = a
               /\ given[a] # NoId => given[a] = n
<1>. DEFINE n == GetNetworkIdFromAddress(a)
<1>0. \A c \in connections : c.id \in NetworkId
    BY DEF IInv, TypeOK
<1>1. CASE \E c \in connections : c.addr = a
    <2>. DEFINE d == CHOOSE c \in connections : c.addr = a
    <2>1. d \in connections /\ d.addr = a
        BY <1>1
    <2>2. n = d.id
        BY <1>1 DEF GetNetworkIdFromAddress
    <2>. HIDE DEF d, n
    <2>3. \A c \in connections : c.addr = a <=> c.id = n
        BY <2>1, <2>2 DEF IInv, ConnectionsDistinct
    <2>4. given[a] # NoId => given[a] = n
        BY <2>3 DEF IInv, Linked
    <2>. QED BY <1>0, <2>1, <2>2, <2>3, <2>4 DEF n
<1>2. CASE ~\E c \in connections : c.addr = a
    <2>1. n = NoId
        BY <1>2 DEF GetNetworkIdFromAddress
    <2>2. given[a] = NoId
        BY <1>2 DEF IInv, Linked
    <2>. HIDE DEF n
    <2>. QED BY <1>0, <1>2, <2>1, <2>2, IdsTyped DEF n
<1>. QED BY <1>1, <1>2

\* A drop: the connection goes; while the engine keeps its side so does the
\* avatar, if there is one, and everybody else forgets its id.
LEMMA DropStep ==
    ASSUME IInv, NEW a \in Address, HandleDrop(a)
    PROVE  /\ IInv'
           /\ UNCHANGED faults
           /\ connections' = {c \in connections : c.addr # a}
           /\ Sound => {avatars'[i].who : i \in DOMAIN avatars'}
                            = {avatars[i].who : i \in DOMAIN avatars} \ {a}
<1>. DEFINE n == GetNetworkIdFromAddress(a)
            k == First(avatars, n)
            out == SendToAllClientsExcept(n, Destroy(n))
<1>1. /\ phase = "hosting" /\ fault = "none"
      /\ link[a] = "ending"
      /\ link' = [link EXCEPT ![a] = "down"]
      /\ connections' = {c \in connections : c.id # n}
      /\ UNCHANGED <<phase, fault, localPlayer, faults>>
    BY DEF HandleDrop, Serving
<1>2. /\ connections' = {c \in connections : c.addr # a}
      /\ \A c \in connections : c.addr = a <=> c.id = n
      /\ n \in NetworkId <=> \E c \in connections : c.addr = a
      /\ given[a] # NoId => given[a] = n
    BY <1>1, DroppedConnection
<1>3. DestroyNetPlayer(n, a)
    BY DEF HandleDrop
<1>. HIDE DEF n
<1>4. /\ link \in [Address -> LinkState]
      /\ given \in [Address -> NetworkId \cup {NoId}]
      /\ avatars \in Seq(Avatar)
      /\ told \in [Address -> SUBSET (NetworkId \cup {HostId, NoId})]
    BY DEF IInv, TypeOK
<1>5. given' = [given EXCEPT ![a] = NoId]
    BY <1>3 DEF DestroyNetPlayer, Forget
<1>6. /\ link' \in [Address -> LinkState]
      /\ given' \in [Address -> NetworkId \cup {NoId}]
      /\ link'[a] = "down" /\ given'[a] = NoId
      /\ \A b \in Address \ {a} : link'[b] = link[b] /\ given'[b] = given[b]
    BY <1>1, <1>4, <1>5 DEF LinkState
<1>7. ConnectionsDistinct'
    BY <1>2 DEF IInv, ConnectionsDistinct
<1>8. Linked'
    <2>1. ASSUME NEW c \in connections' PROVE link'[c.addr] \in {"notified", "announced", "ending"}
        <3>1. c \in connections /\ c.addr \in Address \ {a}
            BY <1>2 DEF IInv, TypeOK
        <3>. QED BY <1>1, <1>6, <3>1 DEF IInv, Linked
    <2>2. ASSUME NEW b \in Address, given'[b] # NoId
          PROVE  localPlayer' /\ \E c \in connections' : c.addr = b /\ c.id = given'[b]
        <3>1. b # a /\ given'[b] = given[b]
            BY <1>6, <2>2
        <3>2. localPlayer /\ \E c \in connections : c.addr = b /\ c.id = given[b]
            BY <2>2, <3>1 DEF IInv, Linked
        <3>. QED BY <1>1, <1>2, <3>1, <3>2
    <2>. QED BY <2>1, <2>2 DEF Linked
<1>9. Closed' /\ Broken'
    BY <1>1 DEF IInv, Closed, Broken
<1>10. CASE ~HasCreature(avatars, creatures, n)
    <2>1. /\ told' = [b \in Address |-> IF b = a THEN {} ELSE Heard(told[b], given[b], {})]
          /\ UNCHANGED <<avatars, creatures, callbacks>>
        BY <1>3, <1>10 DEF DestroyNetPlayer, Forget, Nothing
    <2>2. told' = [told EXCEPT ![a] = {}]
        <3>1. \A b \in Address : Heard(told[b], given[b], {}) = told[b]
            BY HeardNoMessage
        <3>. QED BY <1>4, <2>1, <3>1
    <2>3. TypeOK'
        BY <1>1, <1>2, <1>4, <1>6, <2>1, <2>2 DEF IInv, TypeOK
    <2>4. Numbered'
        BY <1>1, <2>1 DEF IInv, Numbered
    <2>5. ASSUME Sound
          PROVE  Inhabited' /\ Outside' /\ \A i \in DOMAIN avatars : avatars[i].who # a
        <3>1. Inhabited /\ Outside
            BY <2>5 DEF IInv, World
        <3>2. ASSUME NEW i \in DOMAIN avatars PROVE avatars[i].who # a
            <4>1. SUFFICES ASSUME avatars[i].who = a PROVE FALSE
                OBVIOUS
            <4>2. given[a] = avatars[i].id /\ avatars[i].id # NoId
                BY <3>1, <4>1, EntryTyped, IdsTyped DEF Inhabited, Settled, IInv
            <4>3. Hits(avatars, n) # {}
                BY <1>2, <4>2 DEF Hits
            <4>4. k \in DOMAIN avatars
                BY <1>4, <4>3, FirstHit
            <4>. QED BY <1>10, <3>1, <4>3, <4>4 DEF Inhabited, Destroyable, HasCreature
        <3>3. ASSUME NEW i \in DOMAIN avatars PROVE Settled(i)'
            <4>1. avatars[i].who \in Address \ {a}
                BY <3>2, EntryTyped DEF IInv
            <4>2. Settled(i)
                BY <3>1 DEF Inhabited
            <4>. QED BY <1>4, <1>6, <2>1, <2>2, <4>1, <4>2 DEF Settled, AvatarIds
        <3>4. \A c \in connections' : given'[c.addr] = c.id
            <4>1. \A c \in connections' : c \in connections /\ c.addr \in Address \ {a}
                BY <1>2 DEF IInv, TypeOK
            <4>. QED BY <1>1, <1>6, <3>1, <4>1 DEF Inhabited
        <3>5. Inhabited'
            BY <1>1, <2>1, <3>1, <3>3, <3>4 DEF Inhabited, Destroyable
        <3>6. Outside'
            <4>1. \A b \in Address : told'[b] = IF b = a THEN {} ELSE told[b]
                BY <1>4, <2>2
            <4>. QED BY <1>6, <2>1, <3>1, <4>1 DEF Outside, AvatarIds
        <3>. QED BY <3>2, <3>5, <3>6
    <2>6. World'
        BY <1>1, <2>5 DEF World, Sound
    <2>7. Sound => {avatars'[i].who : i \in DOMAIN avatars'}
                        = {avatars[i].who : i \in DOMAIN avatars} \ {a}
        BY <2>1, <2>5
    <2>. QED BY <1>1, <1>2, <1>7, <1>8, <1>9, <2>3, <2>4, <2>6, <2>7 DEF IInv
<1>11. CASE HasCreature(avatars, creatures, n)
    <2>1. /\ avatars' = RemoveAt(avatars, k)
          /\ creatures' = creatures \ {avatars[k].local}
          /\ callbacks' = callbacks \ {n}
          /\ told' = [b \in Address |-> IF b = a THEN {} ELSE Heard(told[b], given[b], out[b])]
        BY <1>3, <1>11 DEF DestroyNetPlayer, Forget
    <2>2. k \in DOMAIN avatars /\ avatars[k].id = n
        BY <1>4, <1>11, FirstHit DEF HasCreature
    <2>3. n \in NetworkId
        BY <2>2, EntryTyped DEF IInv
    <2>4. \A b \in Address : out[b] =
            IF b # a /\ \E c \in connections : c.addr = b THEN {Destroy(n)} ELSE {}
        BY <1>2 DEF SendToAllClientsExcept
    <2>. HIDE DEF k, out
    <2>5. \A b \in Address : told'[b] =
            IF b = a THEN {}
            ELSE IF \E c \in connections : c.addr = b THEN told[b] \ {n} ELSE told[b]
        <3>1. \A b \in Address : Heard(told[b], given[b], {}) = told[b]
            BY HeardNoMessage
        <3>2. \A b \in Address : Heard(told[b], given[b], {Destroy(n)}) = told[b] \ {n}
            BY HeardDestroy
        <3>. QED BY <2>1, <2>4, <3>1, <3>2
    <2>6. told' \in [Address -> SUBSET (NetworkId \cup {HostId, NoId})]
        <3>. DEFINE F(b) == IF b = a THEN {} ELSE Heard(told[b], given[b], out[b])
        <3>1. told' = [b \in Address |-> F(b)]
            BY <2>1
        <3>. HIDE DEF F
        <3>2. told' = [b \in Address |-> told'[b]]
            BY <3>1
        <3>3. \A b \in Address : told'[b] \subseteq NetworkId \cup {HostId, NoId}
            <4>1. \A b \in Address : told[b] \subseteq NetworkId \cup {HostId, NoId}
                BY <1>4
            <4>. QED BY <2>5, <4>1
        <3>. QED BY <3>2, <3>3
    <2>7. /\ avatars' \in Seq(Avatar)
          /\ \A i \in DOMAIN avatars' : /\ Source(k, i) \in DOMAIN avatars
                                        /\ Source(k, i) # k
                                        /\ avatars'[i] = avatars[Source(k, i)]
          /\ \A i, j \in DOMAIN avatars' : Source(k, i) = Source(k, j) => i = j
          /\ \A j \in DOMAIN avatars : j # k =>
                \E i \in DOMAIN avatars' : Source(k, i) = j
        BY <1>4, <2>1, <2>2, ListRemove
    <2>8. TypeOK'
        BY <1>1, <1>2, <1>6, <2>1, <2>6, <2>7 DEF IInv, TypeOK
    <2>9. Numbered'
        <3>1. \A i, j \in DOMAIN avatars' : avatars'[i].local = avatars'[j].local => i = j
            BY <2>7 DEF IInv, Numbered
        <3>2. localPlayer => \A i \in DOMAIN avatars' : avatars'[i].local # 0
            BY <2>7 DEF IInv, Numbered
        <3>. QED BY <1>1, <3>1, <3>2 DEF Numbered
    <2>10. ASSUME Sound
           PROVE  /\ Inhabited' /\ Outside'
                  /\ {avatars'[i].who : i \in DOMAIN avatars'}
                        = {avatars[i].who : i \in DOMAIN avatars} \ {a}
        <3>1. Inhabited /\ Outside
            BY <2>10 DEF IInv, World
        <3>2. avatars[k].who = a
            <4>1. given[avatars[k].who] = n /\ avatars[k].who \in Address
                BY <2>2, <3>1, EntryTyped DEF Inhabited, Settled, IInv
            <4>2. PICK c \in connections : c.addr = avatars[k].who /\ c.id = n
                BY <2>3, <4>1, IdsTyped DEF IInv, Linked
            <4>. QED BY <1>2, <4>2
        <3>3. \A i \in DOMAIN avatars : i # k => avatars[i].who # a /\ avatars[i].id # n
            BY <2>2, <3>1, <3>2 DEF Inhabited, Settled
        <3>4. AvatarIds' = AvatarIds \ {n}
            <4>1. \A i \in DOMAIN avatars' : avatars'[i].id \in AvatarIds \ {n}
                BY <2>7, <3>3 DEF AvatarIds
            <4>2. ASSUME NEW x \in AvatarIds \ {n} PROVE x \in AvatarIds'
                <5>1. PICK j \in DOMAIN avatars : avatars[j].id = x /\ j # k
                    BY <2>2 DEF AvatarIds
                <5>2. PICK i \in DOMAIN avatars' : Source(k, i) = j
                    BY <2>7, <5>1
                <5>3. avatars'[i].id = x
                    BY <2>7, <5>1, <5>2
                <5>. QED BY <5>3 DEF AvatarIds
            <4>. QED BY <4>1, <4>2 DEF AvatarIds
        <3>5. {avatars'[i].who : i \in DOMAIN avatars'}
                = {avatars[i].who : i \in DOMAIN avatars} \ {a}
            <4>1. \A i \in DOMAIN avatars' :
                    avatars'[i].who \in {avatars[j].who : j \in DOMAIN avatars} \ {a}
                BY <2>7, <3>3
            <4>2. ASSUME NEW x \in {avatars[j].who : j \in DOMAIN avatars} \ {a}
                  PROVE  x \in {avatars'[i].who : i \in DOMAIN avatars'}
                <5>1. PICK j \in DOMAIN avatars : avatars[j].who = x /\ j # k
                    BY <3>2
                <5>2. PICK i \in DOMAIN avatars' : Source(k, i) = j
                    BY <2>7, <5>1
                <5>3. avatars'[i].who = x
                    BY <2>7, <5>1, <5>2
                <5>. QED BY <5>3
            <4>. QED BY <4>1, <4>2
        <3>6. ASSUME NEW i \in DOMAIN avatars' PROVE Settled(i)'
            <4>. DEFINE j == Source(k, i)
                        b == avatars[j].who
            <4>1. j \in DOMAIN avatars /\ j # k /\ avatars'[i] = avatars[j]
                BY <2>7
            <4>. HIDE DEF j
            <4>2. b \in Address \ {a} /\ avatars[j].id \in NetworkId
                BY <3>3, <4>1, EntryTyped DEF IInv
            <4>3. Settled(j)
                BY <3>1, <4>1 DEF Inhabited
            <4>4. \E c \in connections : c.addr = b
                BY <4>2, <4>3, OwnConnection, IdsTyped DEF Settled
            <4>5. told'[b] = told[b] \ {n}
                BY <2>5, <4>2, <4>4
            <4>6. n # HostId
                BY <2>3, IdsTyped
            <4>7. told'[b] = ({HostId} \cup AvatarIds') \ {avatars[j].id}
                BY <3>4, <4>3, <4>5, <4>6 DEF Settled
            <4>. QED BY <1>6, <4>1, <4>2, <4>3, <4>7 DEF Settled
        <3>7. Inhabited'
            <4>1. \A i \in DOMAIN avatars' : avatars'[i].local \in creatures'
                BY <2>1, <2>2, <2>7, <3>1 DEF Inhabited, Destroyable, IInv, Numbered
            <4>2. \A c \in connections' : given'[c.addr] = c.id
                <5>1. \A c \in connections' : c \in connections /\ c.addr \in Address \ {a}
                    BY <1>2 DEF IInv, TypeOK
                <5>. QED BY <1>1, <1>6, <3>1, <5>1 DEF Inhabited
            <4>3. localPlayer => 0 \in creatures'
                BY <2>1, <2>2, <3>1 DEF Inhabited, IInv, Numbered
            <4>4. \A i, j \in DOMAIN avatars' : avatars'[i].id = avatars'[j].id => i = j
                BY <2>7, <3>1 DEF Inhabited
            <4>. QED BY <1>1, <3>6, <4>1, <4>2, <4>3, <4>4 DEF Inhabited, Destroyable
        <3>8. Outside'
            <4>1. SUFFICES ASSUME NEW b \in Address
                           PROVE  /\ link'[b] = "announced" =>
                                        \E i \in DOMAIN avatars' : avatars'[i].who = b
                                  /\ \/ told'[b] \subseteq AvatarIds'
                                     \/ \E i \in DOMAIN avatars' : avatars'[i].who = b
                                  /\ told'[b] # {} => given'[b] # NoId
                BY DEF Outside
            <4>2. CASE b = a
                BY <1>6, <2>5, <4>2
            <4>3. CASE b # a
                <5>1. (\E i \in DOMAIN avatars : avatars[i].who = b)
                        => \E i \in DOMAIN avatars' : avatars'[i].who = b
                    BY <3>5, <4>3
                <5>2. link'[b] = link[b] /\ given'[b] = given[b] /\ told'[b] \subseteq told[b]
                    BY <1>6, <2>5, <4>3
                <5>3. told[b] # {} => \E c \in connections : c.addr = b
                    BY <3>1 DEF Outside, IInv, Linked
                <5>4. n \notin told'[b]
                    BY <2>5, <4>3, <5>3
                <5>. QED BY <3>1, <3>4, <5>1, <5>2, <5>4 DEF Outside
            <4>. QED BY <4>2, <4>3
        <3>. QED BY <3>5, <3>7, <3>8
    <2>11. World'
        BY <1>1, <2>10 DEF World, Sound
    <2>. QED BY <1>1, <1>2, <1>7, <1>8, <1>9, <2>8, <2>9, <2>10, <2>11 DEF IInv
<1>. QED BY <1>10, <1>11

\* Every packet, key and falter preserves the invariant.
THEOREM NextIInv == IInv /\ [Next]_hostVars => IInv'
<1>. SUFFICES ASSUME IInv, [Next]_hostVars PROVE IInv'
    OBVIOUS
<1>1. CASE UNCHANGED hostVars
    BY <1>1, UnchangedStep DEF hostVars, sessionState
<1>2. CASE Host
    BY <1>2, HostStep
<1>3. CASE Disconnect
    BY <1>3, TeardownStep DEF Disconnect
<1>4. CASE Shutdown
    <2>1. CASE phase = "hosting" /\ Teardown
        BY <1>4, <2>1, TeardownStep DEF Shutdown
    <2>2. CASE /\ phase = "off"
               /\ fault' = "quit"
               /\ Quiet
               /\ UNCHANGED <<localPlayer, connections, avatars, creatures, callbacks, link, given>>
        <3>1. /\ phase' = "ended"
              /\ UNCHANGED <<told, faults>>
            BY <1>4, <2>2 DEF Shutdown, Quiet
        <3>2. TypeOK'
            BY <2>2, <3>1 DEF IInv, TypeOK
        <3>3. ConnectionsDistinct' /\ Linked' /\ Numbered' /\ Closed' /\ Broken'
            <4>1. fault = "none"
                BY <1>4 DEF Shutdown
            <4>. QED BY <2>2, <3>1, <4>1 DEF IInv, ConnectionsDistinct, Linked, Numbered, Closed, Broken
        <3>4. World'
            <4>1. Sound => Inhabited' /\ Outside'
                BY <2>2, <3>1 DEF IInv, World, Inhabited, Outside, Settled, AvatarIds, Destroyable
            <4>. QED BY <3>1, <4>1 DEF World, Sound
        <3>. QED BY <3>2, <3>3, <3>4 DEF IInv
    <2>. QED BY <1>4, <2>1, <2>2 DEF Shutdown
<1>5. CASE BroadcastLocalNetPlayerMovement
    BY <1>5, MovementStep DEF BroadcastLocalNetPlayerMovement
<1>6. ASSUME NEW a \in Address, LinkUp(a) \/ LinkEnds(a) PROVE IInv'
    BY <1>6, LinkStep
<1>7. ASSUME NEW a \in Address, HandleConnectionNotification(a) PROVE IInv'
    BY <1>7, NotificationStep
<1>8. ASSUME NEW a \in Address, HandleCreateNetPlayer(a) PROVE IInv'
    BY <1>8, NewcomerStep
<1>9. ASSUME NEW a \in Address, HandleNetPlayerMovement(a) PROVE IInv'
    BY <1>9, MovementStep DEF HandleNetPlayerMovement
<1>10. ASSUME NEW a \in Address, HandleDrop(a) PROVE IInv'
    BY <1>10, DropStep
<1>11. ASSUME NEW l \in creatures, CreatureLost(l) PROVE IInv'
    BY <1>11, CreatureLostStep
<1>. QED BY <1>1, <1>2, <1>3, <1>4, <1>5, <1>6, <1>7, <1>8, <1>9, <1>10, <1>11
    DEF Next, Packet

\* The invariant holds throughout: the induction over the steps.
THEOREM Inductive == Spec => []IInv
BY InitIInv, NextIInv, PTL DEF Spec

-----------------------------------------------------------------------------
(***************************************************************************)
(* The theorems.                                                           *)
(***************************************************************************)

\* Every variable keeps its type: in particular the host always finds a free
\* network id and a free local id, and hands out none beyond the limits.
THEOREM TypeCorrect == Spec => []TypeOK
BY Inductive, PTL DEF IInv

\* No two connections ever share an address or a network id.
THEOREM ConnectionsTellApart == Spec => []ConnectionsDistinct
BY Inductive, PTL DEF IInv

\* While the engine keeps its side, everyone in the world keeps an avatar for
\* the host and for exactly the others.
THEOREM ViewsOfHost == Spec => []HostView
<1>1. IInv => HostView
    <2>. SUFFICES ASSUME IInv, Sound, NEW a \in Address
                  PROVE  /\ link[a] = "announced" => told[a] = ({HostId} \cup AvatarIds) \ {given[a]}
                         /\ link[a] = "notified" => told[a] \subseteq AvatarIds
        BY DEF HostView
    <2>1. Inhabited /\ Outside
        BY DEF IInv, World
    <2>. QED BY <2>1 DEF Inhabited, Outside, Settled
<1>. QED BY <1>1, Inductive, PTL

\* While the engine keeps its side no client hears of anybody before its own id.
THEOREM HearsOwnIdFirst == Spec => []OwnIdFirst
<1>1. IInv => OwnIdFirst
    BY DEF IInv, World, Outside, OwnIdFirst
<1>. QED BY <1>1, Inductive, PTL

\* No order of packets and keys brings the host's game down by itself: a host
\* without a creature or an engine that falters comes before.
THEOREM BrokenForAReason == Spec => []NeverBroken
<1>1. IInv => NeverBroken
    BY DEF IInv, Broken, World, Inhabited, NeverBroken
<1>. QED BY <1>1, Inductive, PTL

\* While the engine keeps its side nobody is announced twice to a client, nor
\* to itself.
THEOREM NobodyAnnouncedTwice == Spec => AnnouncedOnce
<1>1. IInv /\ [Next]_hostVars =>
        [Sound => \A a \in Address : \A m \in sent'[a] :
            m.type = "CREATE_NET_PLAYER" => m.id \notin told[a] \cup {given[a]}]_hostVars
    <2>. SUFFICES ASSUME IInv, Next, Sound, NEW b \in Address, NEW m \in sent'[b],
                         m.type = "CREATE_NET_PLAYER"
                  PROVE  m.id \notin told[b] \cup {given[b]}
        OBVIOUS
    <2>1. PICK a \in Address : HandleCreateNetPlayer(a) /\ m \in sent'[b]
        <3>1. ASSUME Quiet PROVE FALSE
            BY <3>1 DEF Quiet, Nothing
        <3>2. ASSUME Teardown PROVE FALSE
            BY <3>2 DEF Teardown, Nothing
        <3>3. ASSUME NEW n, Send(SendToAllClientsExcept(n, Movement(n))) PROVE FALSE
            <4>1. sent'[b] \subseteq {Movement(n)}
                BY <3>3 DEF Send, SendToAllClientsExcept
            <4>. QED BY <4>1 DEF Movement
        <3>4. ASSUME NEW a \in Address, HandleConnectionNotification(a) PROVE FALSE
            <4>1. sent'[b] = {} \/ \E n : sent'[b] = {CreateLocal(n)}
                BY <3>4 DEF HandleConnectionNotification, SendTo, Nothing
            <4>. QED BY <4>1 DEF CreateLocal
        <3>5. ASSUME NEW a \in Address, HandleDrop(a) PROVE FALSE
            <4>1. sent'[b] = {} \/ \E n : sent'[b] = {Destroy(n)}
                BY <3>5 DEF HandleDrop, DestroyNetPlayer, Forget, SendToAllClientsExcept, Nothing
            <4>. QED BY <4>1 DEF Destroy
        <3>. QED BY <3>1, <3>2, <3>3, <3>4, <3>5 DEF Next, Packet, Host, Disconnect, Shutdown,
            BroadcastLocalNetPlayerMovement, LinkUp, LinkEnds, HandleNetPlayerMovement, CreatureLost
    <2>. DEFINE n == given[a]
    <2>2. link[a] = "notified" /\ n # NoId
        BY <2>1 DEF HandleCreateNetPlayer
    <2>3. \A c \in connections : c.addr = a <=> c.id = n
        BY <2>2, OwnConnection
    <2>4. m = Create(n) /\ \E c \in connections : c.addr = b /\ c.id # n
        <3>1. ASSUME NEW list, NEW alive, Send(Announcement(a, n, list, alive))
              PROVE  m = Create(n) /\ \E c \in connections : c.addr = b /\ c.id # n
            <4>1. sent'[b] = SendToAllClientsExcept(n, Create(n))[b]
                    \cup SendTo(a, IF 0 \in alive THEN {RosterOf(list, alive)} ELSE {})[b]
                BY <3>1, Zenon DEF Send, Announcement
            <4>2. \A x \in SendTo(a, IF 0 \in alive THEN {RosterOf(list, alive)} ELSE {})[b] :
                    x.type = "CREATE_NET_PLAYERS"
                BY DEF SendTo, RosterOf, Roster
            <4>3. m \in SendToAllClientsExcept(n, Create(n))[b]
                BY <4>1, <4>2
            <4>. QED BY <4>3 DEF SendToAllClientsExcept
        <3>2. ASSUME Quiet PROVE FALSE
            BY <2>1, <3>2 DEF Quiet, Nothing
        <3>. QED BY <2>1, <3>1, <3>2 DEF HandleCreateNetPlayer
    <2>5. m.id = n
        BY <2>4 DEF Create
    <2>6. b # a
        BY <2>3, <2>4
    <2>7. n \notin told[b] /\ given[b] # n
        BY <2>2, <2>6, IdUnheard, OwnConnection
    <2>. QED BY <2>5, <2>7
<1>. QED BY <1>1, Inductive, PTL DEF Spec, AnnouncedOnce

-----------------------------------------------------------------------------
(***************************************************************************)
(* The host implements Presence.  What people see follows from who has     *)
(* arrived and who is in the world, so each step need only be accounted    *)
(* for by those two.                                                       *)
(***************************************************************************)
Arrived == IF Sound THEN {c.addr : c \in connections} ELSE {}
Whos == {avatars[i].who : i \in DOMAIN avatars}
InWorld == IF Sound THEN Whos ELSE {}
Sees == [a \in Address |->
            IF Sound /\ \E i \in DOMAIN avatars : avatars[i].who = a
            THEN {avatars[i].who : i \in {j \in DOMAIN avatars : avatars[j].id \in told[a]}}
            ELSE {}]

\* Everyone in the world sees exactly the others in it.
LEMMA SeesTheWorld == IInv => Sees = P!Views(InWorld)
<1>. SUFFICES ASSUME IInv PROVE Sees = P!Views(InWorld)
    OBVIOUS
<1>1. ASSUME NEW a \in Address
      PROVE  Sees[a] = IF a \in InWorld THEN InWorld \ {a} ELSE {}
    <2>1. CASE ~(Sound /\ \E i \in DOMAIN avatars : avatars[i].who = a)
        BY <2>1 DEF Sees, InWorld, Whos
    <2>2. CASE Sound /\ \E i \in DOMAIN avatars : avatars[i].who = a
        <3>1. Inhabited
            BY <2>2 DEF IInv, World
        <3>2. PICK k \in DOMAIN avatars : avatars[k].who = a
            BY <2>2
        <3>3. told[a] = ({HostId} \cup AvatarIds) \ {avatars[k].id}
            BY <3>1, <3>2 DEF Inhabited, Settled
        <3>4. \A j \in DOMAIN avatars : avatars[j].id \in told[a] <=> j # k
            BY <3>1, <3>3 DEF Inhabited, AvatarIds
        <3>5. \A j \in DOMAIN avatars : avatars[j].who = a <=> j = k
            BY <3>1, <3>2 DEF Inhabited, Settled
        <3>6. Sees[a] = {avatars[i].who : i \in {j \in DOMAIN avatars : j # k}}
            <4>1. {j \in DOMAIN avatars : avatars[j].id \in told[a]} = {j \in DOMAIN avatars : j # k}
                BY <3>4
            <4>. QED BY <2>2, <4>1 DEF Sees
        <3>7. {avatars[i].who : i \in {j \in DOMAIN avatars : j # k}} = Whos \ {a}
            BY <3>5 DEF Whos
        <3>. QED BY <2>2, <3>6, <3>7 DEF InWorld, Whos
    <2>. QED BY <2>1, <2>2
<1>2. Sees = [a \in Address |-> Sees[a]]
    BY DEF Sees
<1>. QED BY <1>1, <1>2 DEF P!Views

\* Each step is an arrival, an entry or a departure of one client, closes the
\* session, or leaves everyone where they are.
LEMMA PresenceStep ==
    ASSUME IInv, [Next]_hostVars
    PROVE  \/ UNCHANGED <<Arrived, InWorld>>
           \/ \E a \in Address \ Arrived : Arrived' = Arrived \cup {a} /\ UNCHANGED InWorld
           \/ \E a \in Arrived \ InWorld : InWorld' = InWorld \cup {a} /\ UNCHANGED Arrived
           \/ \E a \in Arrived : Arrived' = Arrived \ {a} /\ InWorld' = InWorld \ {a}
           \/ Arrived' = {} /\ InWorld' = {}
<1>1. CASE ~Sound'
    BY <1>1 DEF Arrived, InWorld
<1>2. ASSUME UNCHANGED <<connections, avatars, faults>>
      PROVE  UNCHANGED <<Arrived, InWorld>>
    BY <1>2 DEF Arrived, InWorld, Whos, Sound
<1>3. ASSUME Teardown, UNCHANGED faults, phase = "hosting", fault = "none"
      PROVE  Arrived' = {} /\ InWorld' = {}
    <2>1. CASE Sound
        <3>1. Destroyable
            BY <2>1 DEF IInv, World, Inhabited
        <3>. QED BY <1>3, <3>1 DEF Teardown, Arrived, InWorld, Whos
    <2>2. CASE ~Sound
        BY <1>3, <2>2 DEF Arrived, InWorld, Sound
    <2>. QED BY <2>1, <2>2
<1>4. ASSUME Sound', NEW a \in Address, HandleConnectionNotification(a)
      PROVE  a \notin Arrived /\ Arrived' = Arrived \cup {a} /\ UNCHANGED InWorld
    <2>1. \A c \in connections : c.addr # a
        BY <1>4, NotificationStep
    <2>2. PICK n : connections' = connections \cup {[addr |-> a, id |-> n]}
        BY <1>4 DEF HandleConnectionNotification
    <2>3. UNCHANGED <<avatars, faults>>
        BY <1>4 DEF HandleConnectionNotification
    <2>4. {c.addr : c \in connections'} = {c.addr : c \in connections} \cup {a}
        <3>. DEFINE c0 == [addr |-> a, id |-> n]
        <3>1. c0.addr = a
            OBVIOUS
        <3>. HIDE DEF c0
        <3>2. connections' = connections \cup {c0}
            BY <2>2 DEF c0
        <3>. QED BY <3>1, <3>2
    <2>. QED BY <1>4, <2>1, <2>3, <2>4 DEF Arrived, InWorld, Whos, Sound
<1>5. ASSUME Sound', NEW a \in Address, HandleCreateNetPlayer(a)
      PROVE  a \in Arrived \ InWorld /\ InWorld' = InWorld \cup {a} /\ UNCHANGED Arrived
    <2>1. PICK v \in Avatar : v.who = a /\ avatars' = Append(avatars, v)
        BY <1>5, NewcomerStep
    <2>2. Sound
        BY <1>5, HostAssumption DEF HandleCreateNetPlayer, EngineFalters, Sound, IInv, TypeOK
    <2>3. given[a] # NoId /\ link[a] = "notified"
        BY <1>5 DEF HandleCreateNetPlayer
    <2>4. a \notin Whos /\ \E c \in connections : c.addr = a
        BY <2>2, <2>3, IdUnheard, OwnConnection DEF Whos
    <2>5. Whos' = Whos \cup {a}
        <3>1. /\ Len(avatars) \in Nat
              /\ DOMAIN avatars = 1 .. Len(avatars)
              /\ DOMAIN avatars' = 1 .. Len(avatars) + 1
              /\ \A i \in DOMAIN avatars : avatars'[i] = avatars[i]
              /\ avatars'[Len(avatars) + 1] = v
            BY <2>1, ListAppend DEF IInv, TypeOK
        <3>2. \A i \in DOMAIN avatars' : i = Len(avatars) + 1 \/ i \in DOMAIN avatars
            BY <3>1
        <3>. QED BY <2>1, <3>1, <3>2 DEF Whos
    <2>6. UNCHANGED connections
        BY <1>5, NewcomerStep
    <2>. QED BY <1>5, <2>2, <2>4, <2>5, <2>6 DEF Arrived, InWorld
<1>6. ASSUME Sound', NEW a \in Address, HandleDrop(a)
      PROVE  Arrived' = Arrived \ {a} /\ InWorld' = InWorld \ {a}
    <2>1. /\ UNCHANGED faults
          /\ connections' = {c \in connections : c.addr # a}
          /\ Sound => Whos' = Whos \ {a}
        BY <1>6, DropStep DEF Whos
    <2>2. {c.addr : c \in connections'} = {c.addr : c \in connections} \ {a}
        BY <2>1
    <2>. QED BY <1>6, <2>1, <2>2 DEF Arrived, InWorld, Sound
<1>7. Sound' => InWorld \subseteq Arrived /\ Arrived \subseteq Address
    <2>1. ASSUME NEW i \in DOMAIN avatars, Sound PROVE avatars[i].who \in {c.addr : c \in connections}
        <3>1. given[avatars[i].who] # NoId /\ avatars[i].who \in Address
            BY <2>1, EntryTyped, IdsTyped DEF IInv, World, Inhabited, Settled
        <3>. QED BY <3>1, OwnConnection
    <2>. QED BY <2>1 DEF InWorld, Arrived, Whos, IInv, TypeOK
<1>8. ASSUME Sound', NEW a \in Address, HandleDrop(a)
      PROVE  \/ UNCHANGED <<Arrived, InWorld>>
             \/ \E b \in Arrived : Arrived' = Arrived \ {b} /\ InWorld' = InWorld \ {b}
    <2>1. CASE a \in Arrived
        BY <1>6, <1>8, <2>1
    <2>2. CASE a \notin Arrived
        BY <1>6, <1>7, <1>8, <2>2
    <2>. QED BY <2>1, <2>2
<1>9. CASE UNCHANGED hostVars
    BY <1>2, <1>9 DEF hostVars, sessionState
<1>10. CASE Next
    <2>1. CASE Host \/ BroadcastLocalNetPlayerMovement
        BY <1>2, <2>1 DEF Host, BroadcastLocalNetPlayerMovement, sessionState
    <2>2. CASE Disconnect
        BY <1>3, <2>2 DEF Disconnect
    <2>3. CASE Shutdown
        BY <1>2, <1>3, <2>3 DEF Shutdown
    <2>4. ASSUME NEW a \in Address, LinkUp(a) \/ LinkEnds(a) \/ HandleNetPlayerMovement(a)
          PROVE  UNCHANGED <<Arrived, InWorld>>
        BY <1>2, <2>4 DEF LinkUp, LinkEnds, HandleNetPlayerMovement, sessionState
    <2>5. ASSUME NEW l \in creatures, CreatureLost(l) PROVE ~Sound'
        BY <2>5, HostAssumption DEF CreatureLost, EngineFalters, Sound, IInv, TypeOK
    <2>. QED BY <1>1, <1>4, <1>5, <1>8, <1>10, <2>1, <2>2, <2>3, <2>4, <2>5 DEF Next, Packet
<1>. QED BY <1>9, <1>10

\* A game that hosts keeps the promise of Presence until the engine first
\* falters: arrivals, entries and departures one at a time, and everyone in the
\* world sees exactly the others in it.
THEOREM HostKeepsPresence == Spec => HostImplementsPresence
<1>1. Init => P!Init
    <2>. SUFFICES ASSUME Init PROVE P!Init
        OBVIOUS
    <2>1. Arrived = {} /\ InWorld = {}
        BY DEF Init, Arrived, InWorld, Whos
    <2>2. Sees = P!Views(InWorld)
        BY InitIInv, SeesTheWorld
    <2>. QED BY <2>1, <2>2 DEF P!Init, Arrived, InWorld, Whos, Sees
<1>2. IInv' => (Sees = P!Views(InWorld))'
    BY SeesTheWorld, PTL
<1>3. IInv /\ IInv' /\ [Next]_hostVars => [P!Next]_P!vars
    <2>. SUFFICES ASSUME IInv, IInv', [Next]_hostVars PROVE [P!Next]_P!vars
        OBVIOUS
    <2>1. Sees = P!Views(InWorld)
        BY SeesTheWorld
    <2>2. Sees' = P!Views(InWorld')
        BY <1>2 DEF P!Views
    <2>3. Arrived \subseteq Address
        BY DEF IInv, TypeOK, Arrived
    <2>4. CASE UNCHANGED <<Arrived, InWorld>>
        <3>1. UNCHANGED <<Arrived, InWorld, Sees>>
            BY <2>1, <2>2, <2>4
        <3>. QED BY <3>1 DEF P!vars, Arrived, InWorld, Whos, Sees
    <2>5. ASSUME NEW a \in Address \ Arrived, Arrived' = Arrived \cup {a}, UNCHANGED InWorld
          PROVE  P!Arrive(a)
        <3>1. UNCHANGED Sees
            BY <2>1, <2>2, <2>5
        <3>. QED BY <2>5, <3>1 DEF P!Arrive, Arrived, InWorld, Whos, Sees
    <2>6. ASSUME NEW a \in Arrived \ InWorld, InWorld' = InWorld \cup {a}, UNCHANGED Arrived
          PROVE  P!Enter(a)
        BY <2>2, <2>6 DEF P!Enter, Arrived, InWorld, Whos, Sees
    <2>7. ASSUME NEW a \in Arrived, Arrived' = Arrived \ {a}, InWorld' = InWorld \ {a}
          PROVE  P!Leave(a)
        BY <2>2, <2>7 DEF P!Leave, Arrived, InWorld, Whos, Sees
    <2>8. CASE Arrived' = {} /\ InWorld' = {}
        <3>1. P!Close
            BY <2>2, <2>8 DEF P!Close, Arrived, InWorld, Whos, Sees
        <3>. QED BY <3>1 DEF P!Next
    <2>9. (\E a \in Address : P!Arrive(a) \/ P!Enter(a) \/ P!Leave(a)) => P!Next
        BY DEF P!Next
    <2>. QED BY <2>3, <2>4, <2>5, <2>6, <2>7, <2>8, <2>9, PresenceStep
<1>. QED BY <1>1, <1>3, Inductive, PTL DEF Spec, HostImplementsPresence, P!Spec
=============================================================================
