-------------------------- MODULE RelaySessionProofs --------------------------
(***************************************************************************)
(* Theorems about RelaySession, for every number of games, seats and       *)
(* queued messages, as long as nobody reconnects during a region load of   *)
(* an earlier session (StaleLoads is FALSE; finding 2 of the README is     *)
(* what happens otherwise): what the messages on their way to a game make  *)
(* of its avatars.  What is known of the server alone is taken from        *)
(* RelayServerProofs and RelayPromiseProofs.                               *)
(***************************************************************************)
EXTENDS RelaySession, RelayPromiseProofs, SequenceTheorems

(***************************************************************************)
(* A queue as a path from the avatars a game has now to those it will have *)
(* when it has read everything.                                            *)
(***************************************************************************)
OneEach(S) == \A e, f \in S : e.id = f.id => e = f

About(m) == [id |-> m.id, who |-> m.who]

\* Message m finds the avatars `before` and leaves `after`, and is in order:
\* a creation finds no avatar of its id, movement and departure find the one of
\* the person they are about.
Makes(before, m, after) ==
    \/ m.type = "CREATE_LOCAL_NET_PLAYER" /\ before = {} /\ after = {}
    \/ /\ m.type = "CREATE_NET_PLAYER"
       /\ \A e \in before : e.id # m.id
       /\ after = before \cup {About(m)}
    \/ m.type = "CREATE_NET_PLAYERS" /\ before = {} /\ after = m.list
    \/ m.type = "PLAYER_MOVEMENT" /\ About(m) \in before /\ after = before
    \/ m.type = "DESTROY_NET_PLAYER" /\ About(m) \in before /\ after = before \ {About(m)}

\* What a game with id `own` may hold.
Holdable(S, own) == S \subseteq Avatar /\ OneEach(S) /\ \A e \in S : e.id # own

\* w[i] is what the game holds when it has read i messages of the queue.
Follows(w, queue, own) ==
    /\ DOMAIN w = 0 .. Len(queue)
    /\ \A i \in 0 .. Len(queue) : Holdable(w[i], own)
    /\ \A i \in 1 .. Len(queue) : Makes(w[i - 1], queue[i], w[i])

Carries(queue, before, after, own) ==
    \E w : Follows(w, queue, own) /\ w[0] = before /\ w[Len(queue)] = after

WireMessage ==
    [type : {"CREATE_LOCAL_NET_PLAYER"}, id : NetworkId]
        \cup [type : {"CREATE_NET_PLAYER", "PLAYER_MOVEMENT", "DESTROY_NET_PLAYER"},
              id : NetworkId, who : Address]
        \cup [type : {"CREATE_NET_PLAYERS"}, list : {S \in SUBSET Avatar : IsFiniteSet(S)}]

\* An empty queue changes nothing.
LEMMA CarriesEmpty ==
    ASSUME NEW S, NEW own, Holdable(S, own)
    PROVE  Carries(<<>>, S, S, own)
<1>. DEFINE w == [i \in 0 .. 0 |-> S]
<1>1. Follows(w, <<>>, own) /\ w[0] = S
    BY DEF Follows
<1>. QED BY <1>1 DEF Carries

\* A queue of one message does what the message does.
LEMMA CarriesOne ==
    ASSUME NEW S, NEW T, NEW m, NEW own, Holdable(S, own), Holdable(T, own), Makes(S, m, T)
    PROVE  Carries(<<m>>, S, T, own)
<1>. DEFINE w == [i \in 0 .. 1 |-> IF i = 0 THEN S ELSE T]
<1>1. w[0] = S /\ w[1] = T /\ DOMAIN w = 0 .. 1
    OBVIOUS
<1>. HIDE DEF w
<1>2. Len(<<m>>) = 1 /\ <<m>>[1] = m
    OBVIOUS
<1>3. \A i \in 0 .. 1 : i = 0 \/ i = 1
    OBVIOUS
<1>4. Follows(w, <<m>>, own)
    BY <1>1, <1>2, <1>3 DEF Follows
<1>. QED BY <1>1, <1>2, <1>4 DEF Carries

\* Messages put behind a queue go on from where it ends.
LEMMA CarriesConcat ==
    ASSUME NEW q \in Seq(WireMessage), NEW s \in Seq(WireMessage), NEW own,
           NEW A, NEW B, NEW C, Carries(q, A, B, own), Carries(s, B, C, own)
    PROVE  Carries(q \o s, A, C, own)
<1>1. PICK v : Follows(v, q, own) /\ v[0] = A /\ v[Len(q)] = B
    BY DEF Carries
<1>2. PICK w : Follows(w, s, own) /\ w[0] = B /\ w[Len(s)] = C
    BY DEF Carries
<1>. DEFINE n == Len(q)
            k == Len(s)
            u == [i \in 0 .. (n + k) |-> IF i <= n THEN v[i] ELSE w[i - n]]
<1>3. n \in Nat /\ k \in Nat /\ Len(q \o s) = n + k
    OBVIOUS
<1>4. \A i \in 1 .. (n + k) : (q \o s)[i] = IF i <= n THEN q[i] ELSE s[i - n]
    OBVIOUS
<1>5. /\ DOMAIN u = 0 .. (n + k)
      /\ \A i \in 0 .. n : u[i] = v[i]
      /\ \A i \in 0 .. k : u[n + i] = w[i]
    BY <1>1, <1>2, <1>3
<1>. HIDE DEF u, n, k
<1>6. \A i \in 0 .. (n + k) : Holdable(u[i], own)
    <2>. SUFFICES ASSUME NEW i \in 0 .. (n + k) PROVE Holdable(u[i], own)
        OBVIOUS
    <2>1. CASE i <= n
        BY <1>1, <1>3, <1>5, <2>1 DEF Follows, n
    <2>2. CASE i > n
        <3>1. i - n \in 0 .. k /\ n + (i - n) = i
            BY <1>3, <2>2
        <3>. QED BY <1>2, <1>5, <3>1 DEF Follows, k
    <2>. QED BY <1>3, <2>1, <2>2
<1>7. \A i \in 1 .. (n + k) : Makes(u[i - 1], (q \o s)[i], u[i])
    <2>. SUFFICES ASSUME NEW i \in 1 .. (n + k) PROVE Makes(u[i - 1], (q \o s)[i], u[i])
        OBVIOUS
    <2>1. CASE i <= n
        <3>1. i \in 0 .. n /\ i - 1 \in 0 .. n /\ i \in 1 .. n
            BY <1>3, <2>1
        <3>. QED BY <1>1, <1>4, <1>5, <2>1, <3>1 DEF Follows, n
    <2>2. CASE i > n
        <3>1. /\ i - n \in 1 .. k /\ i - n \in 0 .. k /\ (i - n) - 1 \in 0 .. k
              /\ n + (i - n) = i /\ n + ((i - n) - 1) = i - 1
            BY <1>3, <2>2
        <3>2. u[i] = w[i - n] /\ u[i - 1] = w[(i - n) - 1]
            BY <1>5, <3>1
        <3>3. (q \o s)[i] = s[i - n]
            BY <1>4, <2>2, <1>3
        <3>. QED BY <1>2, <3>1, <3>2, <3>3 DEF Follows, k
    <2>. QED BY <1>3, <2>1, <2>2
<1>8. u[0] = A /\ u[n + k] = C
    BY <1>1, <1>2, <1>3, <1>5 DEF k
<1>9. Follows(u, q \o s, own)
    BY <1>3, <1>5, <1>6, <1>7 DEF Follows
<1>. QED BY <1>3, <1>8, <1>9 DEF Carries

\* Reading takes the first message off the path.
LEMMA CarriesHead ==
    ASSUME NEW q \in Seq(WireMessage), q # <<>>, NEW own, NEW A, NEW C, Carries(q, A, C, own)
    PROVE  \E B : Makes(A, Head(q), B) /\ Holdable(B, own) /\ Carries(Tail(q), B, C, own)
<1>1. PICK w : Follows(w, q, own) /\ w[0] = A /\ w[Len(q)] = C
    BY DEF Carries
<1>. DEFINE n == Len(q) - 1
            u == [i \in 0 .. n |-> w[i + 1]]
<1>2. n \in Nat /\ Len(q) = n + 1 /\ Len(Tail(q)) = n /\ Head(q) = q[1]
    OBVIOUS
<1>3. \A i \in 1 .. n : Tail(q)[i] = q[i + 1]
    OBVIOUS
<1>4. DOMAIN u = 0 .. n /\ \A i \in 0 .. n : u[i] = w[i + 1]
    OBVIOUS
<1>. HIDE DEF u, n
<1>5. Makes(A, Head(q), u[0]) /\ Holdable(u[0], own)
    <2>1. Makes(w[1 - 1], q[1], w[1]) /\ Holdable(w[1], own)
        BY <1>1, <1>2 DEF Follows
    <2>. QED BY <1>1, <1>2, <1>4, <2>1
<1>6. \A i \in 0 .. n : Holdable(u[i], own)
    BY <1>1, <1>2, <1>4 DEF Follows
<1>7. \A i \in 1 .. n : Makes(u[i - 1], Tail(q)[i], u[i])
    <2>. SUFFICES ASSUME NEW i \in 1 .. n PROVE Makes(u[i - 1], Tail(q)[i], u[i])
        OBVIOUS
    <2>1. /\ i + 1 \in 1 .. (n + 1) /\ i - 1 \in 0 .. n /\ i \in 0 .. n
          /\ (i + 1) - 1 = i /\ (i - 1) + 1 = i
        BY <1>2
    <2>2. Makes(w[(i + 1) - 1], q[i + 1], w[i + 1])
        BY <1>1, <1>2, <2>1 DEF Follows
    <2>. QED BY <1>3, <1>4, <2>1, <2>2
<1>8. u[n] = C
    BY <1>1, <1>2, <1>4
<1>9. Follows(u, Tail(q), own)
    BY <1>2, <1>4, <1>6, <1>7 DEF Follows
<1>10. Carries(Tail(q), u[0], C, own)
    BY <1>2, <1>8, <1>9 DEF Carries
<1>. QED BY <1>5, <1>10

\* Where the path begins is something the game may hold.
LEMMA CarriesHoldable ==
    ASSUME NEW q \in Seq(WireMessage), NEW own, NEW A, NEW C, Carries(q, A, C, own)
    PROVE  Holdable(A, own) /\ Holdable(C, own)
BY DEF Carries, Follows

\* At the end of an empty queue is what the game holds.
LEMMA CarriesNothing ==
    ASSUME NEW own, NEW A, NEW C, Carries(<<>>, A, C, own)
    PROVE  A = C
BY DEF Carries

-----------------------------------------------------------------------------
(***************************************************************************)
(* Lists.                                                                  *)
(***************************************************************************)

\* A finite set is listed once each.
LEMMA ListsASet ==
    ASSUME NEW S, IsFiniteSet(S)
    PROVE  /\ SetToSeq(S) \in Seq(S)
           /\ \A x \in S : \E i \in 1 .. Len(SetToSeq(S)) : SetToSeq(S)[i] = x
           /\ \A i, j \in 1 .. Len(SetToSeq(S)) :
                SetToSeq(S)[i] = SetToSeq(S)[j] => i = j
<1>. DEFINE n == Cardinality(S)
            s == SetToSeq(S)
<1>1. n \in Nat /\ IsFiniteSet(1 .. n) /\ Cardinality(1 .. n) = n
    BY FS_CardinalityType, FS_Interval
<1>2. PICK f : f \in Bijection(1 .. n, S)
    BY FS_CardinalityType DEF ExistsBijection
<1>3. f \in [1 .. n -> S] /\ IsInjective(f)
    BY <1>2 DEF Bijection, Injection
<1>4. s \in [1 .. n -> S] /\ IsInjective(s)
    BY <1>3 DEF SetToSeq
<1>. HIDE DEF s, n
<1>5. s \in Injection(1 .. n, S)
    BY <1>4 DEF Injection
<1>6. s \in Surjection(1 .. n, S)
    BY <1>1, <1>5, FS_Injection DEF n
<1>7. s \in Seq(S) /\ Len(s) = n
    BY <1>1, <1>4
<1>8. \A x \in S : \E i \in 1 .. n : s[i] = x
    BY <1>6 DEF Surjection
<1>9. \A i, j \in 1 .. n : s[i] = s[j] => i = j
    BY <1>4 DEF IsInjective
<1>. QED BY <1>7, <1>8, <1>9 DEF s

\* An empty set gives no messages, a single message is put as it is.
LEMMA ListsFew ==
    /\ SetToSeq({}) = <<>>
    /\ \A m : SetToSeq({m}) = <<m>>
<1>1. SetToSeq({}) = <<>>
    <2>1. SetToSeq({}) \in Seq({})
        BY ListsASet, FS_EmptySet
    <2>. HIDE DEF SetToSeq
    <2>. QED BY <2>1
<1>2. ASSUME NEW m PROVE SetToSeq({m}) = <<m>>
    <2>. DEFINE s == SetToSeq({m})
    <2>1. /\ s \in Seq({m})
          /\ \E i \in 1 .. Len(s) : s[i] = m
          /\ \A i, j \in 1 .. Len(s) : s[i] = s[j] => i = j
        BY ListsASet, FS_Singleton
    <2>. HIDE DEF s
    <2>2. Len(s) \in Nat /\ Len(s) >= 1 /\ \A i \in 1 .. Len(s) : s[i] = m
        BY <2>1
    <2>3. Len(s) = 1
        <3>1. CASE Len(s) >= 2
            <4>1. 1 \in 1 .. Len(s) /\ 2 \in 1 .. Len(s)
                BY <2>2, <3>1
            <4>. QED BY <2>1, <2>2, <4>1
        <3>. QED BY <2>2, <3>1
    <2>4. s = <<m>>
        BY <2>1, <2>2, <2>3
    <2>. QED BY <2>4 DEF s
<1>. QED BY <1>1, <1>2

\* The farewell: departures, in any order, of some of those a game has avatars
\* for take exactly their avatars away.
LEMMA CarriesFarewell ==
    ASSUME NEW S, NEW own, Holdable(S, own), NEW D \in SUBSET S, IsFiniteSet(D),
           NEW M, M = {[type |-> "DESTROY_NET_PLAYER", id |-> e.id, who |-> e.who] : e \in D}
    PROVE  IsFiniteSet(M) /\ Carries(SetToSeq(M), S, S \ D, own)
<1>. DEFINE s == SetToSeq(M)
            n == Len(s)
            w == [i \in 0 .. n |-> S \ {About(s[j]) : j \in 1 .. i}]
<1>1. IsFiniteSet(M)
    <2>. DEFINE f == [e \in D |->
                        [type |-> "DESTROY_NET_PLAYER", id |-> e.id, who |-> e.who]]
    <2>1. f \in Surjection(D, M)
        BY DEF Surjection
    <2>. QED BY <2>1, FS_Surjection
<1>2. /\ s \in Seq(M) /\ n \in Nat
      /\ \A x \in M : \E i \in 1 .. n : s[i] = x
      /\ \A i, j \in 1 .. n : s[i] = s[j] => i = j
    <2>1. /\ s \in Seq(M)
          /\ \A x \in M : \E i \in 1 .. Len(s) : s[i] = x
          /\ \A i, j \in 1 .. Len(s) : s[i] = s[j] => i = j
        BY <1>1, ListsASet
    <2>. HIDE DEF s
    <2>. QED BY <2>1
<1>. HIDE DEF s, n
<1>3. \A i \in 1 .. n : s[i] \in M
    BY <1>2 DEF n
<1>4. \A e \in D : e = [id |-> e.id, who |-> e.who]
    BY DEF Holdable, Avatar
<1>5. \A m \in M : /\ m.type = "DESTROY_NET_PLAYER" /\ About(m) \in D
                   /\ m = [type |-> "DESTROY_NET_PLAYER",
                           id |-> About(m).id, who |-> About(m).who]
    BY <1>4 DEF About
<1>6. /\ DOMAIN w = 0 .. n
      /\ \A i \in 0 .. n : w[i] = S \ {About(s[j]) : j \in 1 .. i}
    OBVIOUS
<1>. HIDE DEF w
<1>7. \A i \in 0 .. n : Holdable(w[i], own)
    BY <1>6 DEF Holdable, OneEach
<1>8. \A i \in 1 .. n : Makes(w[i - 1], s[i], w[i])
    <2>. SUFFICES ASSUME NEW i \in 1 .. n PROVE Makes(w[i - 1], s[i], w[i])
        OBVIOUS
    <2>1. /\ i - 1 \in 0 .. n /\ i \in 0 .. n
          /\ \A j \in 1 .. (i - 1) : j \in 1 .. n /\ j \in 1 .. i /\ j # i
          /\ \A j \in 1 .. i : j = i \/ j \in 1 .. (i - 1)
        BY <1>2
    <2>2. \A j \in 1 .. (i - 1) : About(s[j]) # About(s[i])
        <3>1. \A j \in 1 .. (i - 1) : s[j] \in M /\ s[i] \in M /\ s[j] # s[i]
            BY <1>2, <1>3, <2>1
        <3>. QED BY <1>5, <3>1
    <2>3. About(s[i]) \in S /\ s[i].type = "DESTROY_NET_PLAYER"
        BY <1>3, <1>5
    <2>4. w[i - 1] = S \ {About(s[j]) : j \in 1 .. (i - 1)}
        BY <1>6, <2>1
    <2>5. About(s[i]) \in w[i - 1]
        BY <2>2, <2>3, <2>4
    <2>6. w[i] = w[i - 1] \ {About(s[i])}
        BY <1>6, <2>1, <2>4
    <2>. QED BY <2>3, <2>5, <2>6 DEF Makes
<1>9. w[0] = S
    BY <1>2, <1>6
<1>10. w[n] = S \ D
    <2>1. {About(s[j]) : j \in 1 .. n} = D
        <3>1. \A j \in 1 .. n : About(s[j]) \in D
            BY <1>3, <1>5
        <3>2. ASSUME NEW e \in D PROVE \E j \in 1 .. n : About(s[j]) = e
            <4>. DEFINE m == [type |-> "DESTROY_NET_PLAYER", id |-> e.id, who |-> e.who]
            <4>1. m \in M /\ About(m) = e
                BY <1>4 DEF About
            <4>. HIDE DEF m
            <4>. QED BY <1>2, <4>1
        <3>. QED BY <3>1, <3>2
    <2>. QED BY <1>2, <1>6, <2>1
<1>11. Follows(w, s, own)
    BY <1>6, <1>7, <1>8 DEF Follows, n
<1>12. Carries(s, S, S \ D, own)
    BY <1>9, <1>10, <1>11 DEF Carries, n
<1>. QED BY <1>1, <1>12 DEF s

\* No two avatars of a list have the same id.
Distinct(list) == \A i, j \in DOMAIN list : list[i].id = list[j].id => i = j

\* A new avatar at the end of the list.
LEMMA AvatarAdded ==
    ASSUME NEW list \in Seq(Avatar), Distinct(list), NEW e \in Avatar,
           \A f \in ToSet(list) : f.id # e.id
    PROVE  LET longer == Append(list, e)
           IN  /\ longer \in Seq(Avatar)
               /\ Distinct(longer)
               /\ ToSet(longer) = ToSet(list) \cup {e}
<1>. DEFINE longer == Append(list, e)
<1>1. /\ longer \in Seq(Avatar) /\ Len(longer) = Len(list) + 1 /\ Len(list) \in Nat
      /\ \A i \in 1 .. Len(list) : longer[i] = list[i]
      /\ longer[Len(list) + 1] = e
    OBVIOUS
<1>2. DOMAIN longer = 1 .. Len(longer) /\ DOMAIN list = 1 .. Len(list)
    OBVIOUS
<1>. HIDE DEF longer
<1>3. \A i \in 1 .. Len(list) : list[i].id # e.id
    BY <1>2 DEF ToSet
<1>4. \A i \in DOMAIN longer : i \in 1 .. Len(list) \/ i = Len(list) + 1
    BY <1>1, <1>2
<1>5. Distinct(longer)
    BY <1>1, <1>2, <1>3, <1>4 DEF Distinct
<1>6. ToSet(longer) = ToSet(list) \cup {e}
    <2>1. ToSet(longer) \subseteq ToSet(list) \cup {e}
        BY <1>1, <1>2, <1>4 DEF ToSet
    <2>2. \A i \in DOMAIN list : i \in DOMAIN longer /\ longer[i] = list[i]
        BY <1>1, <1>2
    <2>3. Len(list) + 1 \in DOMAIN longer
        BY <1>1, <1>2
    <2>. QED BY <1>1, <2>1, <2>2, <2>3 DEF ToSet
<1>. QED BY <1>1, <1>5, <1>6 DEF longer

\* A roster read with an empty list.
LEMMA AvatarsListed ==
    ASSUME NEW S \in SUBSET Avatar, IsFiniteSet(S), OneEach(S)
    PROVE  /\ SetToSeq(S) \in Seq(Avatar)
           /\ Distinct(SetToSeq(S))
           /\ ToSet(SetToSeq(S)) = S
<1>. DEFINE s == SetToSeq(S)
<1>1. /\ s \in Seq(S)
      /\ \A x \in S : \E i \in 1 .. Len(s) : s[i] = x
      /\ \A i, j \in 1 .. Len(s) : s[i] = s[j] => i = j
    BY ListsASet
<1>. HIDE DEF s
<1>2. DOMAIN s = 1 .. Len(s) /\ s \in Seq(Avatar) /\ \A i \in DOMAIN s : s[i] \in S
    BY <1>1
<1>3. Distinct(s) /\ ToSet(s) = S
    BY <1>1, <1>2 DEF Distinct, ToSet, OneEach
<1>. QED BY <1>2, <1>3 DEF s

\* The first avatar of an id goes; there was no other one.
LEMMA AvatarRemoved ==
    ASSUME NEW list \in Seq(Avatar), Distinct(list), NEW e \in ToSet(list)
    PROVE  LET shorter == Without(list, e.id)
           IN  /\ shorter \in Seq(Avatar)
               /\ Distinct(shorter)
               /\ ToSet(shorter) = ToSet(list) \ {e}
<1>. DEFINE n == Len(list)
            hits == {i \in DOMAIN list : list[i].id = e.id}
            shorter == Without(list, e.id)
<1>1. n \in Nat /\ DOMAIN list = 1 .. n
    OBVIOUS
<1>2. PICK k \in 1 .. n : list[k] = e
    BY <1>1 DEF ToSet
<1>3. hits = {k}
    BY <1>1, <1>2 DEF Distinct
<1>4. shorter = RemoveAt(list, k)
    BY <1>1, <1>2, <1>3 DEF Without
<1>. HIDE DEF shorter
<1>. DEFINE u == SubSeq(list, 1, k - 1)
            v == SubSeq(list, k + 1, n)
<1>5. /\ u \in Seq(Avatar) /\ Len(u) = k - 1
      /\ \A i \in 1 .. (k - 1) : u[i] = list[i]
    BY <1>1, <1>2
<1>6. /\ v \in Seq(Avatar) /\ Len(v) = n - k
      /\ \A i \in 1 .. (n - k) : v[i] = list[i + k]
    <2>1. \A i \in (k + 1) .. n : list[i] \in Avatar
        BY <1>1, <1>2
    <2>2. /\ v \in Seq(Avatar)
          /\ Len(v) = IF k + 1 <= n THEN n - (k + 1) + 1 ELSE 0
          /\ \A i \in 1 .. (n - (k + 1) + 1) : v[i] = list[(k + 1) + i - 1]
        BY <1>1, <1>2, <2>1, SubSeqProperties
    <2>. HIDE DEF v
    <2>3. n - (k + 1) + 1 = n - k /\ \A i \in 1 .. (n - k) : (k + 1) + i - 1 = i + k
        BY <1>1, <1>2
    <2>4. Len(v) = n - k
        <3>1. n \in Nat /\ k \in Nat /\ k <= n
            BY <1>1, <1>2
        <3>2. Len(v) = IF k + 1 <= n THEN n - (k + 1) + 1 ELSE 0
            BY <2>2
        <3>. HIDE DEF n
        <3>. QED BY <3>1, <3>2
    <2>5. \A i \in 1 .. (n - k) : v[i] = list[i + k]
        BY <2>2, <2>3
    <2>. QED BY <2>2, <2>4, <2>5
<1>7. shorter = u \o v
    BY <1>4 DEF RemoveAt
<1>. HIDE DEF u, v
<1>8. /\ shorter \in Seq(Avatar) /\ Len(shorter) = n - 1
      /\ DOMAIN shorter = 1 .. (n - 1)
      /\ \A i \in 1 .. (n - 1) : shorter[i] = list[IF i < k THEN i ELSE i + 1]
    <2>1. shorter \in Seq(Avatar) /\ Len(shorter) = n - 1
        <3>1. shorter \in Seq(Avatar) /\ Len(shorter) = Len(u) + Len(v)
            <4>1. u \in Seq(Avatar) /\ v \in Seq(Avatar)
                BY <1>5, <1>6
            <4>. QED BY <1>7, <4>1, ConcatProperties
        <3>. QED BY <1>1, <1>2, <1>5, <1>6, <3>1
    <2>2. \A i \in 1 .. (n - 1) : shorter[i] = list[IF i < k THEN i ELSE i + 1]
        <3>. SUFFICES ASSUME NEW i \in 1 .. (n - 1)
                      PROVE  shorter[i] = list[IF i < k THEN i ELSE i + 1]
            OBVIOUS
        <3>1. shorter[i] = IF i <= k - 1 THEN u[i] ELSE v[i - (k - 1)]
            BY <1>1, <1>2, <1>5, <1>6, <1>7
        <3>2. CASE i < k
            BY <1>1, <1>2, <1>5, <3>1, <3>2
        <3>3. CASE i >= k
            <4>1. i - (k - 1) \in 1 .. (n - k) /\ (i - (k - 1)) + k = i + 1
                BY <1>1, <1>2, <3>3
            <4>. QED BY <1>1, <1>2, <1>6, <3>1, <3>3, <4>1
        <3>. QED BY <1>1, <1>2, <3>2, <3>3
    <2>. QED BY <2>1, <2>2
<1>. DEFINE g(i) == IF i < k THEN i ELSE i + 1
<1>9. /\ \A i \in 1 .. (n - 1) : g(i) \in 1 .. n /\ g(i) # k /\ shorter[i] = list[g(i)]
      /\ \A i, j \in 1 .. (n - 1) : g(i) = g(j) => i = j
    BY <1>1, <1>2, <1>8
<1>10. \A j \in 1 .. n : j # k => \E i \in 1 .. (n - 1) : g(i) = j
    <2>. SUFFICES ASSUME NEW j \in 1 .. n, j # k PROVE \E i \in 1 .. (n - 1) : g(i) = j
        OBVIOUS
    <2>1. CASE j < k
        BY <1>1, <1>2, <2>1
    <2>2. CASE j > k
        <3>1. j - 1 \in 1 .. (n - 1) /\ g(j - 1) = j
            BY <1>1, <1>2, <2>2
        <3>. QED BY <3>1
    <2>. QED BY <1>1, <1>2, <2>1, <2>2
<1>. HIDE DEF g
<1>11. Distinct(shorter)
    <2>. SUFFICES ASSUME NEW i \in 1 .. (n - 1), NEW j \in 1 .. (n - 1),
                         shorter[i].id = shorter[j].id
                  PROVE  i = j
        BY <1>8 DEF Distinct
    <2>1. g(i) = g(j)
        BY <1>1, <1>9 DEF Distinct
    <2>. QED BY <1>9, <2>1
<1>12. ToSet(shorter) = ToSet(list) \ {e}
    <2>1. ASSUME NEW i \in 1 .. (n - 1) PROVE shorter[i] \in ToSet(list) \ {e}
        <3>1. shorter[i].id # e.id
            BY <1>1, <1>2, <1>9 DEF Distinct
        <3>. QED BY <1>1, <1>9, <3>1 DEF ToSet
    <2>2. ASSUME NEW j \in 1 .. n, list[j] # e PROVE list[j] \in ToSet(shorter)
        <3>1. PICK i \in 1 .. (n - 1) : g(i) = j
            BY <1>2, <1>10, <2>2
        <3>. QED BY <1>8, <1>9, <3>1 DEF ToSet
    <2>. QED BY <1>1, <1>8, <2>1, <2>2 DEF ToSet
<1>. QED BY <1>8, <1>11, <1>12 DEF shorter

-----------------------------------------------------------------------------
(***************************************************************************)
(* The table as the avatars it stands for, and what each packet makes of   *)
(* it and posts.                                                           *)
(***************************************************************************)
Entry(p) == [id |-> p.id, who |-> p.addr]

Members == {Entry(p) : p \in players}

Inhabitants == {Entry(p) : p \in Spawned(players)}

\* The others in the world, for somebody in it.
World(a) == {e \in Inhabitants : InWorld(a) /\ e.who # a}

\* What the server's step puts on the way to b, if b hears it.
Posted(b) == {OnWire(m) : m \in sent'[b]}

\* The table lists each person and each id once.
LEMMA MembersDiffer ==
    ASSUME IInv
    PROVE  /\ Members \subseteq Avatar /\ Inhabitants \subseteq Members
           /\ IsFiniteSet(Members) /\ IsFiniteSet(Inhabitants)
           /\ OneEach(Members)
           /\ \A e, f \in Members : e.who = f.who => e = f
           /\ \A a \in Address : Registered(a) <=> \E e \in Members : e.who = a
           /\ \A a \in Address : InWorld(a) <=> \E e \in Inhabitants : e.who = a
<1>1. Members \subseteq Avatar /\ Inhabitants \subseteq Members
    BY DEF IInv, TypeOK, Members, Inhabitants, Entry, Avatar, Player, Spawned
<1>2. IsFiniteSet(Members)
    <2>. DEFINE f == [p \in players |-> Entry(p)]
    <2>1. f \in Surjection(players, Members)
        BY DEF Surjection, Members
    <2>. QED BY <2>1, FS_Surjection DEF IInv, Capacity
<1>3. IsFiniteSet(Inhabitants)
    BY <1>1, <1>2, FS_Subset
<1>4. OneEach(Members) /\ \A e, f \in Members : e.who = f.who => e = f
    BY DEF IInv, UniqueIdentity, OneEach, Members, Entry
<1>5. \A a \in Address : Registered(a) <=> \E e \in Members : e.who = a
    <2>1. ASSUME NEW a \in Address, Registered(a) PROVE \E e \in Members : e.who = a
        <3>1. PICK p \in players : p.addr = a
            BY <2>1 DEF Registered
        <3>2. Entry(p) \in Members /\ Entry(p).who = a
            BY <3>1 DEF Members, Entry
        <3>. QED BY <3>2
    <2>2. ASSUME NEW a \in Address, NEW e \in Members, e.who = a PROVE Registered(a)
        BY <2>2 DEF Registered, Members, Entry
    <2>. QED BY <2>1, <2>2
<1>6. \A a \in Address : InWorld(a) <=> \E e \in Inhabitants : e.who = a
    <2>1. ASSUME NEW a \in Address, InWorld(a) PROVE \E e \in Inhabitants : e.who = a
        <3>1. PICK p \in players : p.addr = a /\ p.spawned
            BY <2>1 DEF InWorld
        <3>2. Entry(p) \in Inhabitants /\ Entry(p).who = a
            BY <3>1 DEF Inhabitants, Spawned, Entry
        <3>. QED BY <3>2
    <2>2. ASSUME NEW a \in Address, NEW e \in Inhabitants, e.who = a PROVE InWorld(a)
        BY <2>2 DEF InWorld, Inhabitants, Spawned, Entry
    <2>. QED BY <2>1, <2>2
<1>. QED BY <1>1, <1>2, <1>3, <1>4, <1>5, <1>6

\* The person a message is about is the one who holds the id in the step.
LEMMA HolderFound ==
    ASSUME OneEach(Members \cup Members'), NEW e \in Members \cup Members'
    PROVE  Holder(e.id) = e.who
<1>1. PICK p \in players \cup players' : Entry(p) = e
    BY DEF Members
<1>. DEFINE h == CHOOSE q \in players \cup players' : q.id = e.id
<1>2. h \in players \cup players' /\ h.id = e.id
    <2>1. p.id = e.id
        BY <1>1 DEF Entry
    <2>. QED BY <1>1, <2>1
<1>. HIDE DEF h
<1>3. Entry(h) \in Members \cup Members' /\ Entry(h).id = e.id
    BY <1>2 DEF Members, Entry
<1>4. Entry(h) = e
    BY <1>3 DEF OneEach
<1>5. h.addr = e.who
    BY <1>4 DEF Entry
<1>. QED BY <1>5 DEF Holder, h

\* One message, or none.
LEMMA PostedFew ==
    ASSUME NEW b
    PROVE  /\ sent'[b] = {} => Posted(b) = {}
           /\ \A m : sent'[b] = {m} => Posted(b) = {OnWire(m)}
BY DEF Posted

\* A packet that changes an entry in place changes the world only by its flag.
LEMMA EntryReplaced ==
    ASSUME IInv, NEW p \in players, NEW q, q.addr = p.addr, q.id = p.id,
           players' = Replace(p, q)
    PROVE  /\ Members' = Members
           /\ Inhabitants' = IF q.spawned THEN Inhabitants \cup {Entry(p)}
                                          ELSE Inhabitants \ {Entry(p)}
<1>1. Entry(q) = Entry(p)
    BY DEF Entry
<1>2. Members' = Members
    BY <1>1 DEF Members, Replace
<1>3. \A r \in players : Entry(r) = Entry(p) => r = p
    BY DEF IInv, UniqueIdentity, Entry
<1>4. Inhabitants' = {Entry(r) : r \in {r \in players' : r.spawned}}
    BY DEF Inhabitants, Spawned
<1>5. CASE q.spawned
    <2>1. Inhabitants' = Inhabitants \cup {Entry(p)}
        BY <1>1, <1>4, <1>5 DEF Replace, Inhabitants, Spawned
    <2>. QED BY <1>2, <1>5, <2>1
<1>6. CASE ~q.spawned
    <2>1. Inhabitants' = Inhabitants \ {Entry(p)}
        BY <1>1, <1>3, <1>4, <1>6 DEF Replace, Inhabitants, Spawned
    <2>. QED BY <1>2, <1>6, <2>1
<1>. QED BY <1>5, <1>6

\* A spawn: the others in the world hear of the newcomer, the newcomer of them.
LEMMA SpawnPosts ==
    ASSUME IInv, IInv', NEW a \in Address, NEW claimed \in NetworkId, NEW x \in Position,
           HandleCreateNetPlayer(a, TRUE, claimed, x)
    PROVE  \E e \in Members :
            LET others == {f \in Inhabitants : f.who # a}
            IN  /\ e.who = a
                /\ Members' = Members
                /\ Inhabitants' = Inhabitants \cup {e}
                /\ Posted(a) = IF others = {} THEN {}
                               ELSE {[type |-> "CREATE_NET_PLAYERS", list |-> others]}
                /\ \A b \in Address \ {a} : Posted(b) =
                    IF InWorld(b)
                    THEN {[type |-> "CREATE_NET_PLAYER", id |-> e.id, who |-> e.who]} ELSE {}
<1>1. PICK p \in players :
        LET q == [AcceptRate(p, TRUE) EXCEPT
                    !.id = TrustedId(p, claimed), !.spawned = TRUE, !.pos = x]
            table == Replace(p, q)
            announce == RelayExcept(table, q.id, Create(q.id, x))
            roster == SendRoster(table, q)
        IN  /\ p.addr = a
            /\ players' = table
            /\ Send([b \in Address |-> announce[b] \cup roster[b]])
    BY DEF HandleCreateNetPlayer
<1>. DEFINE q == [AcceptRate(p, TRUE) EXCEPT
                    !.id = TrustedId(p, claimed), !.spawned = TRUE, !.pos = x]
            announce == RelayExcept(players', q.id, Create(q.id, x))
            others == {f \in Inhabitants : f.who # a}
            listed == {r \in players' : r.id # q.id /\ r.spawned}
            entries == {[id |-> r.id, pos |-> r.pos] : r \in listed}
            roster == SendRoster(players', q)
            e == Entry(p)
<1>2. q.addr = p.addr /\ q.id = p.id /\ q.spawned = TRUE /\ p.addr = a
    <2>1. p \in Player
        BY DEF IInv, TypeOK
    <2>2. AcceptRate(p, TRUE) \in Player /\ AcceptRate(p, TRUE).addr = p.addr
        BY <2>1, AcceptRateType
    <2>. QED BY <1>1, <2>2 DEF Player, TrustedId
<1>3. players' = Replace(p, q)
    BY <1>1
<1>4. \A b \in Address : sent'[b] = announce[b] \cup roster[b]
    BY <1>1 DEF Send
<1>. HIDE DEF q
<1>5. Members' = Members /\ Inhabitants' = Inhabitants \cup {e}
    BY <1>2, <1>3, EntryReplaced
<1>6. e \in Members /\ e.who = a /\ e.id = q.id
    BY <1>2 DEF Members, Entry
<1>7. \A f \in Members : Holder(f.id) = f.who
    BY <1>5, HolderFound, MembersDiffer
<1>8. \A b \in Address : announce[b] =
        IF \E r \in players' : r.addr = b /\ r.id # q.id /\ r.spawned
        THEN {Create(q.id, x)} ELSE {}
    BY DEF RelayExcept
<1>9. \A b \in Address : roster[b] =
        IF b = a /\ listed # {} THEN {Roster(entries)} ELSE {}
    BY <1>2 DEF SendRoster, SendTo, Nothing
<1>. HIDE DEF announce, roster
<1>10. \A r \in players' : /\ r.addr = a <=> r.id = q.id
                           /\ r.addr = a <=> r = q
    BY <1>2, <1>3 DEF IInv, UniqueIdentity, Replace
<1>11. \A b \in Address \ {a} :
        (\E r \in players' : r.addr = b /\ r.id # q.id /\ r.spawned) <=> InWorld(b)
    BY <1>2, <1>3, <1>10 DEF InWorld, Replace
<1>12. announce[a] = {} /\ \A b \in Address \ {a} : roster[b] = {}
    BY <1>8, <1>9, <1>10
<1>13. {Entry(r) : r \in listed} = others
    <2>1. listed = {r \in Spawned(players) : r.addr # a}
        BY <1>2, <1>3, <1>10 DEF Spawned, Replace
    <2>. QED BY <2>1 DEF Inhabitants, Entry
<1>14. {[id |-> f.id, who |-> Holder(f.id)] : f \in entries} = others
    <2>1. \A r \in listed : Holder(r.id) = r.addr
        <3>. SUFFICES ASSUME NEW r \in listed PROVE Holder(r.id) = r.addr
            OBVIOUS
        <3>1. Entry(r) \in Members
            BY <1>5 DEF Members
        <3>. QED BY <1>7, <3>1 DEF Entry
    <2>2. {[id |-> f.id, who |-> Holder(f.id)] : f \in entries} = {Entry(r) : r \in listed}
        <3>1. ASSUME NEW f \in entries
              PROVE  [id |-> f.id, who |-> Holder(f.id)] \in {Entry(r) : r \in listed}
            <4>1. PICK r \in listed : f = [id |-> r.id, pos |-> r.pos]
                OBVIOUS
            <4>2. f.id = r.id
                BY <4>1
            <4>. HIDE DEF listed
            <4>. QED BY <2>1, <4>2 DEF Entry
        <3>2. ASSUME NEW r \in listed
              PROVE  Entry(r) \in {[id |-> f.id, who |-> Holder(f.id)] : f \in entries}
            <4>. DEFINE f == [id |-> r.id, pos |-> r.pos]
            <4>1. f \in entries /\ f.id = r.id
                OBVIOUS
            <4>. HIDE DEF listed, entries, f
            <4>2. Entry(r) = [id |-> f.id, who |-> Holder(f.id)]
                BY <2>1, <4>1 DEF Entry
            <4>. QED BY <4>1, <4>2
        <3>. HIDE DEF listed, entries
        <3>. QED BY <3>1, <3>2
    <2>. QED BY <1>13, <2>2
<1>. HIDE DEF entries
<1>15. OnWire(Roster(entries)) = [type |-> "CREATE_NET_PLAYERS", list |-> others]
    BY <1>14 DEF OnWire, Roster
<1>16. OnWire(Create(q.id, x)) = [type |-> "CREATE_NET_PLAYER", id |-> e.id, who |-> e.who]
    <2>1. Holder(q.id) = a
        BY <1>6, <1>7
    <2>. QED BY <1>6, <2>1 DEF OnWire, Create
<1>17. listed = {} <=> others = {}
    BY <1>13
<1>. HIDE DEF others, listed, e
<1>18. Posted(a) = IF others = {} THEN {}
                   ELSE {[type |-> "CREATE_NET_PLAYERS", list |-> others]}
    <2>1. sent'[a] = IF others = {} THEN {} ELSE {Roster(entries)}
        BY <1>4, <1>9, <1>12, <1>17
    <2>. QED BY <1>15, <2>1, PostedFew
<1>19. \A b \in Address \ {a} : Posted(b) =
        IF InWorld(b)
        THEN {[type |-> "CREATE_NET_PLAYER", id |-> e.id, who |-> e.who]} ELSE {}
    <2>1. \A b \in Address \ {a} : sent'[b] = IF InWorld(b) THEN {Create(q.id, x)} ELSE {}
        BY <1>4, <1>8, <1>11, <1>12
    <2>. QED BY <1>16, <2>1, PostedFew
<1>. QED BY <1>5, <1>6, <1>18, <1>19 DEF others

\* A movement: the others in the world hear of it.
LEMMA MovementPosts ==
    ASSUME IInv, IInv', NEW a \in Address, NEW x \in Position,
           HandlePlayerMovement(a, TRUE, x)
    PROVE  \E e \in Inhabitants :
            /\ e.who = a
            /\ Members' = Members
            /\ Inhabitants' = Inhabitants
            /\ \A b \in Address : Posted(b) =
                IF InWorld(b) /\ b # a
                THEN {[type |-> "PLAYER_MOVEMENT", id |-> e.id, who |-> e.who]} ELSE {}
<1>1. PICK p \in players :
        LET q == [AcceptRate(p, TRUE) EXCEPT !.pos = x]
        IN  /\ p.addr = a
            /\ p.spawned
            /\ players' = Replace(p, q)
            /\ Send(RelayExcept(Replace(p, q), q.id, Movement(q.id, x)))
    BY DEF HandlePlayerMovement
<1>. DEFINE q == [AcceptRate(p, TRUE) EXCEPT !.pos = x]
            e == Entry(p)
<1>2. q.addr = p.addr /\ q.id = p.id /\ q.spawned = TRUE /\ p.addr = a
    <2>1. p \in Player
        BY DEF IInv, TypeOK
    <2>2. /\ AcceptRate(p, TRUE) \in Player /\ AcceptRate(p, TRUE).addr = p.addr
          /\ AcceptRate(p, TRUE).id = p.id /\ AcceptRate(p, TRUE).spawned = p.spawned
        BY <2>1, AcceptRateType
    <2>. QED BY <1>1, <2>1, <2>2 DEF Player
<1>3. players' = Replace(p, q)
    BY <1>1
<1>4. \A b \in Address : sent'[b] =
        IF \E r \in players' : r.addr = b /\ r.id # q.id /\ r.spawned
        THEN {Movement(q.id, x)} ELSE {}
    BY <1>1, <1>3 DEF Send, RelayExcept
<1>. HIDE DEF q
<1>5. e \in Inhabitants /\ e.who = a /\ e.id = q.id
    BY <1>1, <1>2 DEF Inhabitants, Spawned, Entry
<1>6. Members' = Members /\ Inhabitants' = Inhabitants
    BY <1>2, <1>3, <1>5, EntryReplaced
<1>7. Holder(q.id) = a
    BY <1>5, <1>6, HolderFound, MembersDiffer
<1>8. OnWire(Movement(q.id, x)) = [type |-> "PLAYER_MOVEMENT", id |-> e.id, who |-> e.who]
    BY <1>5, <1>7 DEF OnWire, Movement
<1>9. \A b \in Address :
        (\E r \in players' : r.addr = b /\ r.id # q.id /\ r.spawned) <=> InWorld(b) /\ b # a
    BY <1>2, <1>3 DEF InWorld, Replace, IInv, UniqueIdentity
<1>. HIDE DEF e
<1>10. \A b \in Address : Posted(b) =
        IF InWorld(b) /\ b # a
        THEN {[type |-> "PLAYER_MOVEMENT", id |-> e.id, who |-> e.who]} ELSE {}
    BY <1>4, <1>8, <1>9, PostedFew
<1>. QED BY <1>5, <1>6, <1>10

\* A drop: those left in the world hear that somebody of it has gone.
LEMMA DropPosts ==
    ASSUME IInv, IInv', NEW a \in Address, HandleDrop(a, TRUE)
    PROVE  /\ Members' = {e \in Members : e.who # a}
           /\ Inhabitants' = {e \in Inhabitants : e.who # a}
           /\ \/ ~InWorld(a) /\ \A b \in Address : Posted(b) = {}
              \/ \E e \in Inhabitants :
                    /\ e.who = a
                    /\ \A b \in Address : Posted(b) =
                        IF InWorld(b) /\ b # a
                        THEN {[type |-> "DESTROY_NET_PLAYER", id |-> e.id, who |-> e.who]}
                        ELSE {}
<1>1. CASE ~Registered(a)
    <2>1. UNCHANGED players /\ sent' = Nothing
        BY <1>1 DEF HandleDrop, Registered
    <2>2. Members' = Members /\ Inhabitants' = Inhabitants
        BY <2>1 DEF Members, Inhabitants, Spawned
    <2>3. ~InWorld(a) /\ \A e \in Members : e.who # a
        BY <1>1, MembersDiffer DEF InWorld, Registered
    <2>4. \A b \in Address : Posted(b) = {}
        BY <2>1, PostedFew DEF Nothing
    <2>. QED BY <2>2, <2>3, <2>4, MembersDiffer
<1>2. CASE Registered(a)
    <2>1. PICK p \in players :
            LET rest == {q \in players : q.id # p.id}
            IN  /\ p.addr = a
                /\ players' = rest
                /\ SendForgetting(a, IF p.spawned
                                     THEN RelayExcept(rest, p.id, Destroy(p.id))
                                     ELSE Nothing)
        BY <1>2 DEF HandleDrop
    <2>. DEFINE e == Entry(p)
    <2>2. \A q \in players : /\ q.id = p.id <=> q.addr = a
                             /\ Entry(q).who = q.addr
        BY <2>1 DEF IInv, UniqueIdentity, Entry
    <2>3. players' = {q \in players : q.addr # a}
        BY <2>1, <2>2
    <2>4. Members' = {f \in Members : f.who # a}
        BY <2>2, <2>3 DEF Members
    <2>5. Inhabitants' = {f \in Inhabitants : f.who # a}
        BY <2>2, <2>3 DEF Inhabitants, Spawned
    <2>6. e \in Members /\ e.who = a /\ e.id = p.id
        BY <2>1 DEF Members, Entry
    <2>7. OneEach(Members \cup Members')
        BY <2>4, MembersDiffer DEF OneEach
    <2>8. Holder(p.id) = a
        BY <2>6, <2>7, HolderFound
    <2>9. CASE p.spawned
        <3>1. e \in Inhabitants
            BY <2>9 DEF Inhabitants, Spawned
        <3>2. \A b \in Address : sent'[b] =
                IF \E r \in players' : r.addr = b /\ r.id # p.id /\ r.spawned
                THEN {Destroy(p.id)} ELSE {}
            BY <2>1, <2>9 DEF SendForgetting, RelayExcept
        <3>3. \A b \in Address :
                (\E r \in players' : r.addr = b /\ r.id # p.id /\ r.spawned)
                    <=> InWorld(b) /\ b # a
            BY <2>2, <2>3 DEF InWorld
        <3>4. OnWire(Destroy(p.id)) =
                [type |-> "DESTROY_NET_PLAYER", id |-> e.id, who |-> e.who]
            BY <2>6, <2>8 DEF OnWire, Destroy
        <3>. HIDE DEF e
        <3>5. \A b \in Address : Posted(b) =
                IF InWorld(b) /\ b # a
                THEN {[type |-> "DESTROY_NET_PLAYER", id |-> e.id, who |-> e.who]} ELSE {}
            BY <3>2, <3>3, <3>4, PostedFew
        <3>. QED BY <2>4, <2>5, <2>6, <3>1, <3>5
    <2>10. CASE ~p.spawned
        <3>1. ~InWorld(a)
            BY <2>1, <2>10 DEF InWorld, IInv, UniqueIdentity
        <3>2. \A b \in Address : sent'[b] = {}
            BY <2>1, <2>10 DEF SendForgetting, Nothing
        <3>. QED BY <2>4, <2>5, <3>1, <3>2, PostedFew
    <2>. QED BY <2>9, <2>10
<1>. QED BY <1>1, <1>2

\* A registration: only the newcomer hears of it, and only its own id.
LEMMA RegisterPosts ==
    ASSUME IInv, IInv', NEW a \in Address, Register(a)
    PROVE  \E e \in Avatar :
            /\ e.who = a
            /\ Members' = Members \cup {e}
            /\ Inhabitants' = Inhabitants
            /\ \A b \in Address : Posted(b) =
                IF b = a THEN {[type |-> "CREATE_LOCAL_NET_PLAYER", id |-> e.id]} ELSE {}
<1>. DEFINE p == [addr |-> a, id |-> AllocateNetworkId, spawned |-> FALSE,
                  pos |-> NoPosition, count |-> 0]
            hello == CreateLocal(p.id, SpawnPositionFor)
            e == Entry(p)
<1>1. /\ players' = players \cup {p}
      /\ SendForgetting(a, SendTo(a, hello))
    BY DEF Register
<1>2. p.addr = a /\ p.spawned = FALSE
    OBVIOUS
<1>3. \A b \in Address : sent'[b] = IF b = a THEN {hello} ELSE {}
    BY <1>1 DEF SendForgetting, SendTo
<1>4. p \in players'
    BY <1>1
<1>. HIDE DEF p
<1>5. Members' = Members \cup {e} /\ e \in Members'
    BY <1>1 DEF Members
<1>6. e \in Avatar
    <2>1. p \in Player
        BY <1>4 DEF IInv, TypeOK, Player, NetworkId, LinkState
    <2>. QED BY <2>1 DEF Player, Entry, Avatar
<1>7. Inhabitants' = Inhabitants
    BY <1>1, <1>2 DEF Inhabitants, Spawned
<1>8. OnWire(hello) = [type |-> "CREATE_LOCAL_NET_PLAYER", id |-> e.id]
    BY DEF OnWire, CreateLocal, Entry
<1>9. e.who = a
    BY <1>2 DEF Entry
<1>. HIDE DEF e, hello
<1>10. \A b \in Address : Posted(b) =
        IF b = a THEN {[type |-> "CREATE_LOCAL_NET_PLAYER", id |-> e.id]} ELSE {}
    BY <1>3, <1>8, PostedFew
<1>. QED BY <1>5, <1>6, <1>7, <1>9, <1>10

\* Stop: everybody in the world hears that all the others are gone.
LEMMA StopPosts ==
    ASSUME IInv, Stop
    PROVE  /\ Members' = {} /\ Inhabitants' = {}
           /\ \A b \in Address : Posted(b) =
                {[type |-> "DESTROY_NET_PLAYER", id |-> e.id, who |-> e.who] : e \in World(b)}
<1>1. players' = {} /\ sent' = Farewell
    BY DEF Stop, Send
<1>2. Members' = {} /\ Inhabitants' = {}
    BY <1>1 DEF Members, Inhabitants, Spawned
<1>3. \A f \in Members : Holder(f.id) = f.who
    BY <1>2, HolderFound, MembersDiffer
<1>4. ASSUME NEW b \in Address
      PROVE  Posted(b) =
        {[type |-> "DESTROY_NET_PLAYER", id |-> e.id, who |-> e.who] : e \in World(b)}
    <2>. DEFINE gone == {q \in Spawned(players) :
                            \E r \in Spawned(players) : r.addr = b /\ r.id # q.id}
    <2>1. sent'[b] = {Destroy(q.id) : q \in gone}
        BY <1>1 DEF Farewell
    <2>2. gone = {q \in Spawned(players) : InWorld(b) /\ q.addr # b}
        BY DEF Spawned, InWorld, IInv, UniqueIdentity
    <2>3. World(b) = {Entry(q) : q \in gone}
        <3>1. \A q \in players : Entry(q).who = q.addr
            BY DEF Entry
        <3>. HIDE DEF gone
        <3>. QED BY <2>2, <3>1 DEF World, Inhabitants, Spawned
    <2>4. \A q \in gone : OnWire(Destroy(q.id)) =
            [type |-> "DESTROY_NET_PLAYER", id |-> Entry(q).id, who |-> Entry(q).who]
        <3>. SUFFICES ASSUME NEW q \in gone
                      PROVE  OnWire(Destroy(q.id)) =
                        [type |-> "DESTROY_NET_PLAYER", id |-> Entry(q).id, who |-> Entry(q).who]
            OBVIOUS
        <3>1. Entry(q) \in Members /\ Entry(q).id = q.id
            BY DEF Members, Entry, Spawned
        <3>2. Holder(q.id) = Entry(q).who
            BY <1>3, <3>1
        <3>. QED BY <3>1, <3>2 DEF OnWire, Destroy
    <2>. HIDE DEF gone
    <2>5. Posted(b) = {OnWire(Destroy(q.id)) : q \in gone}
        BY <2>1 DEF Posted
    <2>. QED BY <2>3, <2>4, <2>5
<1>. QED BY <1>2, <1>4

\* A packet that is ignored, or refused, is not heard of.
LEMMA IgnorePosts ==
    ASSUME IInv, NEW a \in Address, Ignore(a, TRUE) \/ Refuse(a)
    PROVE  /\ Members' = Members /\ Inhabitants' = Inhabitants
           /\ \A b \in Address : Posted(b) = {}
<1>1. \A b \in Address : Posted(b) = {}
    BY PostedFew DEF Ignore, Refuse, Nothing
<1>2. CASE Refuse(a)
    BY <1>1, <1>2 DEF Refuse, Members, Inhabitants, Spawned
<1>3. CASE Ignore(a, TRUE)
    <2>1. PICK p \in players : players' = Replace(p, AcceptRate(p, TRUE))
        BY <1>3 DEF Ignore
    <2>. DEFINE q == AcceptRate(p, TRUE)
    <2>2. q.addr = p.addr /\ q.id = p.id /\ q.spawned = p.spawned
        <3>1. p \in Player
            BY DEF IInv, TypeOK
        <3>. QED BY <3>1, AcceptRateType
    <2>. HIDE DEF q
    <2>3. /\ Members' = Members
          /\ Inhabitants' = IF q.spawned THEN Inhabitants \cup {Entry(p)}
                                         ELSE Inhabitants \ {Entry(p)}
        BY <2>1, <2>2, EntryReplaced DEF q
    <2>4. Entry(p) \in Inhabitants <=> p.spawned
        <3>1. \A r \in players : Entry(r) = Entry(p) => r = p
            BY DEF IInv, UniqueIdentity, Entry
        <3>. QED BY <3>1 DEF Inhabitants, Spawned
    <2>5. Inhabitants' = Inhabitants
        BY <2>2, <2>3, <2>4
    <2>. QED BY <1>1, <2>3, <2>5
<1>. QED BY <1>2, <1>3

\* What MembersDiffer says of a state, and of the next.
Tidy ==
    /\ Members \subseteq Avatar /\ Inhabitants \subseteq Members
    /\ IsFiniteSet(Members) /\ IsFiniteSet(Inhabitants)
    /\ OneEach(Members)
    /\ \A e, f \in Members : e.who = f.who => e = f
    /\ \A a \in Address : Registered(a) <=> \E e \in Members : e.who = a
    /\ \A a \in Address : InWorld(a) <=> \E e \in Inhabitants : e.who = a

\* The table is tidy in every state that is reached.
LEMMA TidyNow == IInv => Tidy
BY MembersDiffer DEF Tidy

\* ... and after every step.
LEMMA TidyNext == IInv' => Tidy'
BY TidyNow, PTL

-----------------------------------------------------------------------------
(***************************************************************************)
(* The inductive invariant of the session.                                 *)
(***************************************************************************)
Says(packets, type) == \E i \in DOMAIN packets : packets[i] = type

Packets == {"CONNECTION_NOTIFICATION", "CREATE_NET_PLAYER", "PLAYER_MOVEMENT"}

ClientState ==
    [phase : {"off", "connecting", "on"}, creature : BOOLEAN,
     id : NetworkId \cup {NoId}, loading : BOOLEAN, avatars : Seq(Avatar)]

SessionTypes ==
    /\ client \in [Address -> ClientState]
    /\ toServer \in [Address -> Seq(Packets)]
    /\ toClient \in [Address -> Seq(WireMessage)]

\* A connection that is over has taken its player with it: clients stay below
\* the flood limit.
NobodyLeft == \A e \in Members : link[e.who] # "down"

\* A game without a connection has no session, and one that is connecting has
\* not begun it.
Away(a) ==
    client[a].phase # "on" =>
        /\ client[a].avatars = <<>> /\ client[a].id = NoId
        /\ toClient[a] = <<>>

Arriving(a) ==
    client[a].phase = "connecting" =>
        ~Registered(a) /\ toServer[a] = <<>> /\ ~client[a].loading

\* A game without a local player has not announced itself and has nothing to
\* read but its id.
Nameless(a) ==
    client[a].phase = "on" /\ client[a].id = NoId =>
        /\ ~client[a].loading /\ client[a].avatars = <<>> /\ ~InWorld(a)
        /\ ~Says(toServer[a], "CREATE_NET_PLAYER")
        /\ \/ toClient[a] = <<>>
           \/ \E n \in NetworkId :
                /\ toClient[a] = <<[type |-> "CREATE_LOCAL_NET_PLAYER", id |-> n]>>
                /\ link[a] = "up" => \E e \in Members : e.who = a /\ e.id = n

\* A game with a local player is not given another id, and its id is the one
\* it is registered under.
Named(a) ==
    client[a].id # NoId =>
        /\ \A i \in DOMAIN toClient[a] : toClient[a][i].type # "CREATE_LOCAL_NET_PLAYER"
        /\ link[a] = "up" => \E e \in Members : e.who = a /\ e.id = client[a].id

\* The region load, the announcement on its way and the place in the world
\* exclude each other.
OneAnnouncement(a) ==
    LET packets == toServer[a]
    IN  /\ \A i, j \in DOMAIN packets :
            packets[i] = "CREATE_NET_PLAYER" /\ packets[j] = "CREATE_NET_PLAYER" => i = j
        /\ Says(packets, "CREATE_NET_PLAYER") => ~InWorld(a)
        /\ client[a].phase = "on" /\ client[a].loading =>
            ~InWorld(a) /\ ~Says(packets, "CREATE_NET_PLAYER")

\* What is queued leads from the avatars a game has to the others in the world.
OnRecord(a) ==
    /\ Distinct(client[a].avatars)
    /\ client[a].phase # "off" =>
        \E S : /\ Carries(toClient[a], ToSet(client[a].avatars), S, client[a].id)
               /\ link[a] = "up" => S = World(a)

Sound(a) ==
    /\ Away(a) /\ Arriving(a) /\ Nameless(a) /\ Named(a)
    /\ OneAnnouncement(a)
    /\ OnRecord(a)

SessionInv ==
    /\ IInv
    /\ SessionTypes
    /\ NobodyLeft
    /\ \A a \in Address : Sound(a)

\* Every game is off and the server has nobody.
LEMMA SessionInit == SInit => SessionInv
<1>. SUFFICES ASSUME SInit PROVE SessionInv
    OBVIOUS
<1>1. IInv
    BY InitIInv DEF SInit
<1>2. SessionTypes
    BY DEF SInit, SessionTypes, ClientState, ClientOff, NoId
<1>3. Members = {} /\ \A a \in Address : ~InWorld(a)
    BY DEF SInit, Init, Members, InWorld
<1>4. ASSUME NEW a \in Address PROVE Sound(a)
    <2>1. /\ client[a] = ClientOff(FALSE) /\ toServer[a] = <<>> /\ toClient[a] = <<>>
          /\ client[a].phase = "off" /\ client[a].avatars = <<>> /\ client[a].id = NoId
        BY DEF SInit, ClientOff
    <2>2. Away(a) /\ Arriving(a) /\ Nameless(a) /\ Named(a)
        BY <2>1 DEF Away, Arriving, Nameless, Named
    <2>3. OneAnnouncement(a)
        <3>1. \A i : i \notin DOMAIN toServer[a]
            <4>1. DOMAIN toServer[a] = 1 .. 0
                BY <2>1
            <4>. QED BY <4>1
        <3>. QED BY <2>1, <3>1 DEF OneAnnouncement, Says
    <2>4. OnRecord(a)
        <3>1. \A i : i \notin DOMAIN client[a].avatars
            <4>1. client[a].avatars = <<>>
                BY <2>1
            <4>2. \A i : i \notin DOMAIN <<>>
                OBVIOUS
            <4>. QED BY <4>1, <4>2, Zenon
        <3>. QED BY <2>1, <3>1 DEF OnRecord, Distinct
    <2>. QED BY <2>2, <2>3, <2>4 DEF Sound
<1>. QED BY <1>1, <1>2, <1>3, <1>4 DEF SessionInv, NobodyLeft

\* A game is not concerned by a step that leaves its connection, its queues
\* and the table alone.
LEMMA Untouched ==
    ASSUME NEW b \in Address, Sound(b), UNCHANGED players,
           client'[b] = client[b], toServer'[b] = toServer[b], toClient'[b] = toClient[b],
           link'[b] = link[b]
    PROVE  Sound(b)'
<1>1. /\ Members' = Members /\ (InWorld(b) <=> InWorld(b)') /\ World(b)' = World(b)
      /\ (Registered(b) <=> Registered(b)')
    BY DEF Members, InWorld, World, Inhabitants, Spawned, Registered
<1>2. Away(b)' /\ Arriving(b)'
    BY <1>1 DEF Sound, Away, Arriving
<1>3. Nameless(b)' /\ Named(b)'
    BY <1>1 DEF Sound, Nameless, Named
<1>4. OneAnnouncement(b)'
    BY <1>1 DEF Sound, OneAnnouncement
<1>5. OnRecord(b)'
    BY <1>1 DEF Sound, OnRecord
<1>. QED BY <1>2, <1>3, <1>4, <1>5 DEF Sound

\* Somebody in the world, or about to enter it, knows its own id, and the
\* others have other ones.
LEMMA OwnName ==
    ASSUME SessionInv, NEW b \in Address, client[b].phase # "off", link[b] = "up",
           InWorld(b) \/ Says(toServer[b], "CREATE_NET_PLAYER")
    PROVE  /\ client[b].phase = "on" /\ client[b].id # NoId
           /\ \A S \in SUBSET Members : (\A e \in S : e.who # b) => Holdable(S, client[b].id)
<1>1. Tidy
    BY TidyNow DEF SessionInv
<1>2. client[b].phase \in {"off", "connecting", "on"}
    BY DEF SessionInv, SessionTypes, ClientState
<1>3. Sound(b)
    BY DEF SessionInv
<1>4. client[b].phase = "on"
    <2>1. ASSUME client[b].phase = "connecting" PROVE FALSE
        <3>1. ~Registered(b) /\ toServer[b] = <<>>
            BY <1>3, <2>1 DEF Sound, Arriving
        <3>2. ~Says(toServer[b], "CREATE_NET_PLAYER")
            BY <3>1 DEF Says
        <3>. QED BY <3>1, <3>2 DEF InWorld, Registered
    <2>. QED BY <1>2, <2>1
<1>5. client[b].id # NoId
    BY <1>3, <1>4 DEF Sound, Nameless
<1>6. PICK own \in Members : own.who = b /\ own.id = client[b].id
    BY <1>3, <1>5 DEF Sound, Named
<1>7. ASSUME NEW S \in SUBSET Members, \A e \in S : e.who # b
      PROVE  Holdable(S, client[b].id)
    BY <1>1, <1>6, <1>7 DEF Tidy, Holdable, OneEach
<1>. QED BY <1>4, <1>5, <1>7

-----------------------------------------------------------------------------
(***************************************************************************)
(* The server's steps.                                                     *)
(***************************************************************************)

\* What a step of the server does to the packets of one client.
TakesAtMostOne(b) ==
    \/ toServer'[b] = toServer[b]
    \/ toServer[b] # <<>> /\ toServer'[b] = Tail(toServer[b])

\* Taking a packet leaves at most one announcement behind, none if it was the one.
LEMMA PacketTaken ==
    ASSUME SessionInv, NEW b \in Address, toServer[b] # <<>>,
           toServer'[b] = Tail(toServer[b])
    PROVE  /\ Says(toServer[b], "CREATE_NET_PLAYER") <=>
                \/ Says(toServer'[b], "CREATE_NET_PLAYER")
                \/ Head(toServer[b]) = "CREATE_NET_PLAYER"
           /\ Head(toServer[b]) = "CREATE_NET_PLAYER" =>
                ~Says(toServer'[b], "CREATE_NET_PLAYER")
           /\ \A i, j \in DOMAIN toServer'[b] :
                toServer'[b][i] = "CREATE_NET_PLAYER"
                    /\ toServer'[b][j] = "CREATE_NET_PLAYER" => i = j
<1>. DEFINE q == toServer[b]
            r == toServer'[b]
            n == Len(r)
<1>1. q \in Seq(Packets) /\ q # <<>> /\ r = Tail(q)
    BY DEF SessionInv, SessionTypes
<1>2. \A i, j \in DOMAIN q :
        q[i] = "CREATE_NET_PLAYER" /\ q[j] = "CREATE_NET_PLAYER" => i = j
    BY DEF SessionInv, Sound, OneAnnouncement
<1>. HIDE DEF q, r
<1>3. /\ n \in Nat /\ DOMAIN r = 1 .. n /\ DOMAIN q = 1 .. (n + 1)
      /\ Head(q) = q[1] /\ \A i \in 1 .. n : r[i] = q[i + 1]
    BY <1>1
<1>4. \A i \in 1 .. n : i + 1 \in 1 .. (n + 1) /\ i + 1 # 1
    BY <1>3
<1>5. \A i \in 1 .. (n + 1) : i = 1 \/ (i - 1 \in 1 .. n /\ (i - 1) + 1 = i)
    BY <1>3
<1>6. Says(r, "CREATE_NET_PLAYER") => Says(q, "CREATE_NET_PLAYER")
    BY <1>3, <1>4 DEF Says
<1>7. Head(q) = "CREATE_NET_PLAYER" => Says(q, "CREATE_NET_PLAYER")
    <2>1. 1 \in DOMAIN q
        BY <1>3
    <2>. QED BY <1>3, <2>1 DEF Says
<1>8. Says(q, "CREATE_NET_PLAYER") =>
        Says(r, "CREATE_NET_PLAYER") \/ Head(q) = "CREATE_NET_PLAYER"
    BY <1>3, <1>5 DEF Says
<1>9. Head(q) = "CREATE_NET_PLAYER" => ~Says(r, "CREATE_NET_PLAYER")
    <2>1. 1 \in DOMAIN q /\ \A i \in DOMAIN r : i + 1 \in DOMAIN q /\ i + 1 # 1
        BY <1>3, <1>4
    <2>. QED BY <1>2, <1>3, <2>1 DEF Says
<1>10. \A i, j \in DOMAIN r :
        r[i] = "CREATE_NET_PLAYER" /\ r[j] = "CREATE_NET_PLAYER" => i = j
    <2>. SUFFICES ASSUME NEW i \in 1 .. n, NEW j \in 1 .. n,
                         r[i] = "CREATE_NET_PLAYER", r[j] = "CREATE_NET_PLAYER"
                  PROVE  i = j
        BY <1>3
    <2>1. i + 1 = j + 1
        BY <1>2, <1>3, <1>4
    <2>. QED BY <1>3, <2>1
<1>. QED BY <1>6, <1>7, <1>8, <1>9, <1>10 DEF q, r

\* What a step posts to b continues the record of b.
Continues(b) ==
    /\ Posted(b) \subseteq WireMessage /\ IsFiniteSet(Posted(b))
    /\ \A m \in Posted(b) : m.type # "CREATE_LOCAL_NET_PLAYER"
    /\ \E S : /\ Carries(SetToSeq(Posted(b)), World(b), S, client[b].id)
              /\ link'[b] = "up" => S = World(b)'

\* A client hears of a step of the server that is not its registration.
LEMMA Hears ==
    ASSUME SessionInv, Post, UNCHANGED client, NEW b \in Address,
           TakesAtMostOne(b),
           link'[b] = "up" => link[b] = "up",
           Registered(b)' => Registered(b),
           InWorld(b)' => InWorld(b) \/
                /\ toServer[b] # <<>> /\ Head(toServer[b]) = "CREATE_NET_PLAYER"
                /\ toServer'[b] = Tail(toServer[b]),
           \A e \in Members : e.who = b /\ link'[b] = "up" => e \in Members',
           ~InWorld(b) /\ ~InWorld(b)' => Posted(b) = {},
           link[b] = "up" /\ client[b].phase # "off" => Continues(b)
    PROVE  /\ Sound(b)'
           /\ toClient'[b] \in Seq(WireMessage)
<1>. USE DEF SessionInv
<1>1. Sound(b) /\ client'[b] = client[b]
    OBVIOUS
<1>2. toClient'[b] = IF link[b] = "up" /\ client[b].phase # "off"
                     THEN toClient[b] \o SetToSeq(Posted(b)) ELSE toClient[b]
    BY DEF Post, Enqueue, Posted
<1>3. toClient[b] \in Seq(WireMessage) /\ toServer[b] \in Seq(Packets)
    BY DEF SessionTypes
<1>4. /\ Says(toServer'[b], "CREATE_NET_PLAYER") => Says(toServer[b], "CREATE_NET_PLAYER")
      /\ InWorld(b)' => ~Says(toServer'[b], "CREATE_NET_PLAYER")
      /\ \A i, j \in DOMAIN toServer'[b] :
            toServer'[b][i] = "CREATE_NET_PLAYER"
                /\ toServer'[b][j] = "CREATE_NET_PLAYER" => i = j
      /\ InWorld(b)' => InWorld(b) \/ Says(toServer[b], "CREATE_NET_PLAYER")
    <2>1. CASE toServer[b] # <<>> /\ toServer'[b] = Tail(toServer[b])
        <3>1. InWorld(b) => ~Says(toServer[b], "CREATE_NET_PLAYER")
            BY <1>1 DEF Sound, OneAnnouncement
        <3>. QED BY <2>1, <3>1, PacketTaken
    <2>2. CASE toServer'[b] = toServer[b]
        <3>1. InWorld(b)' => InWorld(b)
            <4>1. toServer[b] # <<>> => toServer[b] # Tail(toServer[b])
                <5>1. toServer[b] # <<>> => Len(Tail(toServer[b])) = Len(toServer[b]) - 1
                    BY <1>3, HeadTailProperties
                <5>2. Len(toServer[b]) \in Nat
                    BY <1>3
                <5>. DEFINE m == Len(toServer[b])
                            k == Len(Tail(toServer[b]))
                <5>3. toServer[b] = Tail(toServer[b]) => k = m
                    BY Zenon
                <5>. HIDE DEF m, k
                <5>4. toServer[b] # <<>> => k # m
                    BY <5>1, <5>2 DEF m, k
                <5>. QED BY <5>3, <5>4, Zenon
            <4>. QED BY <2>2, <4>1
        <3>. QED BY <1>1, <2>2, <3>1 DEF Sound, OneAnnouncement
    <2>. QED BY <2>1, <2>2 DEF TakesAtMostOne
<1>5. ASSUME link[b] = "up", client[b].phase # "off"
      PROVE  /\ SetToSeq(Posted(b)) \in Seq(WireMessage)
             /\ \A i \in DOMAIN SetToSeq(Posted(b)) :
                    SetToSeq(Posted(b))[i].type # "CREATE_LOCAL_NET_PLAYER"
    <2>1. SetToSeq(Posted(b)) \in Seq(Posted(b))
        BY <1>5, ListsASet DEF Continues
    <2>2. Posted(b) \subseteq WireMessage
          /\ \A m \in Posted(b) : m.type # "CREATE_LOCAL_NET_PLAYER"
        BY <1>5 DEF Continues
    <2>. HIDE DEF Posted
    <2>. QED BY <2>1, <2>2
<1>6. toClient'[b] \in Seq(WireMessage)
    BY <1>2, <1>3, <1>5
<1>7. client[b].phase # "on" =>
        client[b].phase = "off" \/ (~InWorld(b) /\ ~InWorld(b)' /\ toServer[b] = <<>>)
    <2>1. client[b].phase \in {"off", "connecting", "on"}
        BY DEF SessionTypes, ClientState
    <2>2. client[b].phase = "connecting" =>
            ~InWorld(b) /\ toServer[b] = <<>> /\ ~Says(toServer[b], "CREATE_NET_PLAYER")
        BY <1>1 DEF Sound, Arriving, InWorld, Registered, Says
    <2>. QED BY <1>4, <2>1, <2>2
<1>8. Away(b)'
    <2>. SUFFICES ASSUME client[b].phase # "on" PROVE toClient'[b] = <<>>
        BY <1>1 DEF Sound, Away
    <2>1. toClient[b] = <<>>
        BY <1>1 DEF Sound, Away
    <2>2. CASE client[b].phase = "off"
        BY <1>2, <2>1, <2>2
    <2>3. CASE client[b].phase # "off"
        <3>1. Posted(b) = {}
            BY <1>7, <2>3
        <3>. QED BY <1>2, <2>1, <3>1, ListsFew
    <2>. QED BY <2>2, <2>3
<1>9. Arriving(b)'
    BY <1>1 DEF Sound, Arriving, TakesAtMostOne
<1>10. Nameless(b)'
    <2>. SUFFICES ASSUME client[b].phase = "on", client[b].id = NoId
                  PROVE  /\ ~client[b].loading /\ client[b].avatars = <<>> /\ ~InWorld(b)'
                         /\ ~Says(toServer'[b], "CREATE_NET_PLAYER")
                         /\ \/ toClient'[b] = <<>>
                            \/ \E n \in NetworkId :
                                /\ toClient'[b] = <<[type |-> "CREATE_LOCAL_NET_PLAYER", id |-> n]>>
                                /\ link'[b] = "up" => \E e \in Members' : e.who = b /\ e.id = n
        BY <1>1 DEF Nameless, NetworkId
    <2>1. Nameless(b)
        BY <1>1 DEF Sound
    <2>2. ~InWorld(b)' /\ ~Says(toServer'[b], "CREATE_NET_PLAYER")
        BY <1>4, <2>1 DEF Nameless
    <2>3. toClient'[b] = toClient[b]
        <3>1. Posted(b) = {}
            BY <2>1, <2>2 DEF Nameless
        <3>2. toClient[b] \o <<>> = toClient[b]
            BY <1>3
        <3>. QED BY <1>2, <3>1, <3>2, ListsFew
    <2>. QED BY <2>1, <2>2, <2>3 DEF Nameless
<1>11. Named(b)'
    <2>. SUFFICES ASSUME client[b].id # NoId
                  PROVE  /\ \A i \in DOMAIN toClient'[b] :
                                toClient'[b][i].type # "CREATE_LOCAL_NET_PLAYER"
                         /\ link'[b] = "up" => \E e \in Members' : e.who = b /\ e.id = client[b].id
        BY <1>1 DEF Named
    <2>1. /\ \A i \in DOMAIN toClient[b] : toClient[b][i].type # "CREATE_LOCAL_NET_PLAYER"
          /\ link[b] = "up" => \E e \in Members : e.who = b /\ e.id = client[b].id
        BY <1>1 DEF Sound, Named
    <2>2. \A i \in DOMAIN toClient'[b] : toClient'[b][i].type # "CREATE_LOCAL_NET_PLAYER"
        <3>1. CASE link[b] = "up" /\ client[b].phase # "off"
            <4>. DEFINE s == SetToSeq(Posted(b))
            <4>1. /\ s \in Seq(WireMessage) /\ toClient'[b] = toClient[b] \o s
                  /\ \A i \in DOMAIN s : s[i].type # "CREATE_LOCAL_NET_PLAYER"
                BY <1>2, <1>5, <3>1
            <4>. HIDE DEF s
            <4>2. \A i \in DOMAIN toClient'[b] :
                    \/ i \in DOMAIN toClient[b] /\ toClient'[b][i] = toClient[b][i]
                    \/ /\ i - Len(toClient[b]) \in DOMAIN s
                       /\ toClient'[b][i] = s[i - Len(toClient[b])]
                BY <1>3, <4>1
            <4>. QED BY <2>1, <4>1, <4>2
        <3>. QED BY <1>2, <2>1, <3>1
    <2>. QED BY <2>1, <2>2
<1>12. OneAnnouncement(b)'
    BY <1>1, <1>4 DEF Sound, OneAnnouncement
<1>13. OnRecord(b)'
    <2>1. Distinct(client'[b].avatars)
        BY <1>1 DEF Sound, OnRecord
    <2>. SUFFICES ASSUME client[b].phase # "off"
                  PROVE  \E S : /\ Carries(toClient'[b], ToSet(client[b].avatars), S, client[b].id)
                                /\ link'[b] = "up" => S = World(b)'
        BY <1>1, <2>1 DEF OnRecord
    <2>2. PICK S : /\ Carries(toClient[b], ToSet(client[b].avatars), S, client[b].id)
                   /\ link[b] = "up" => S = World(b)
        BY <1>1 DEF Sound, OnRecord
    <2>3. CASE link[b] = "up"
        <3>1. PICK T : /\ Carries(SetToSeq(Posted(b)), World(b), T, client[b].id)
                       /\ link'[b] = "up" => T = World(b)'
            BY <2>3 DEF Continues
        <3>2. Carries(toClient'[b], ToSet(client[b].avatars), T, client[b].id)
            <4>1. Carries(toClient[b], ToSet(client[b].avatars), World(b), client[b].id)
                BY <2>2, <2>3
            <4>2. toClient'[b] = toClient[b] \o SetToSeq(Posted(b))
                BY <1>2, <2>3
            <4>. QED BY <1>3, <1>5, <2>3, <3>1, <4>1, <4>2, CarriesConcat
        <3>. QED BY <3>1, <3>2
    <2>4. CASE link[b] # "up"
        BY <1>2, <2>2, <2>4
    <2>. QED BY <2>3, <2>4
<1>. QED BY <1>6, <1>8, <1>9, <1>10, <1>11, <1>12, <1>13 DEF Sound

\* A step of the server keeps the invariant if it keeps it for each client.
LEMMA ServerKeeps ==
    ASSUME SessionInv, IInv', Post, UNCHANGED client, NobodyLeft',
           toServer' \in [Address -> Seq(Packets)],
           \A b \in Address : Sound(b)' /\ toClient'[b] \in Seq(WireMessage)
    PROVE  SessionInv'
<1>1. toClient' \in [Address -> Seq(WireMessage)]
    <2>. DEFINE f == [b \in Address |-> toClient'[b]]
    <2>1. toClient' = f
        BY DEF Post
    <2>2. f \in [Address -> Seq(WireMessage)]
        OBVIOUS
    <2>. QED BY <2>1, <2>2
<1>2. SessionTypes'
    BY <1>1 DEF SessionInv, SessionTypes, ClientState, Avatar, NetworkId, Packets, WireMessage
<1>. QED BY <1>2 DEF SessionInv

\* What taking a packet of a does to the queues.
LEMMA TakesOne ==
    ASSUME SessionInv, NEW a \in Address, NEW packet, TakesPacket(a, packet)
    PROVE  /\ toServer' \in [Address -> Seq(Packets)] /\ UNCHANGED client
           /\ \A b \in Address : TakesAtMostOne(b)
           /\ toServer[a] # <<>> /\ Head(toServer[a]) = packet
           /\ toServer'[a] = Tail(toServer[a])
           /\ Says(toServer[a], packet)
           /\ client[a].phase # "connecting"
<1>1. /\ toServer[a] # <<>> /\ Head(toServer[a]) = packet /\ UNCHANGED client
      /\ toServer' = [toServer EXCEPT ![a] = Tail(toServer[a])]
    BY DEF TakesPacket
<1>2. toServer \in [Address -> Seq(Packets)]
    BY DEF SessionInv, SessionTypes
<1>3. Tail(toServer[a]) \in Seq(Packets)
    BY <1>1, <1>2
<1>4. /\ toServer' \in [Address -> Seq(Packets)]
      /\ toServer'[a] = Tail(toServer[a])
      /\ \A b \in Address : b # a => toServer'[b] = toServer[b]
    BY <1>1, <1>2, <1>3
<1>5. \A b \in Address : TakesAtMostOne(b)
    BY <1>1, <1>4 DEF TakesAtMostOne
<1>6. Says(toServer[a], packet)
    <2>1. 1 \in DOMAIN toServer[a] /\ toServer[a][1] = Head(toServer[a])
        BY <1>1, <1>2
    <2>. QED BY <1>1, <2>1 DEF Says
<1>7. client[a].phase # "connecting"
    BY <1>1 DEF SessionInv, Sound, Arriving
<1>. QED BY <1>1, <1>4, <1>5, <1>6, <1>7

\* Nothing posted: the record goes on if the world stays.
LEMMA ContinuesWithNothing ==
    ASSUME SessionInv, NEW b \in Address, client[b].phase # "off", link[b] = "up",
           Posted(b) = {}, World(b)' = World(b)
    PROVE  Continues(b)
<1>1. World(b) = {} \/ InWorld(b)
    BY DEF World
<1>2. Holdable(World(b), client[b].id)
    <2>1. CASE World(b) = {}
        BY <2>1 DEF Holdable, OneEach
    <2>2. CASE InWorld(b)
        <3>1. World(b) \subseteq Members /\ \A e \in World(b) : e.who # b
            BY TidyNow DEF World, Tidy, SessionInv
        <3>. QED BY <2>2, <3>1, OwnName
    <2>. QED BY <1>1, <2>1, <2>2
<1>3. SetToSeq(Posted(b)) = <<>>
    BY ListsFew
<1>4. Carries(SetToSeq(Posted(b)), World(b), World(b), client[b].id)
    BY <1>2, <1>3, CarriesEmpty
<1>5. IsFiniteSet(Posted(b)) /\ Posted(b) \subseteq WireMessage
    BY FS_EmptySet
<1>. QED BY <1>4, <1>5 DEF Continues

\* One message posted: it has to lead from the world before to the world after.
LEMMA ContinuesWithOne ==
    ASSUME SessionInv, NEW b \in Address, client[b].phase # "off", link[b] = "up",
           InWorld(b) \/ Says(toServer[b], "CREATE_NET_PLAYER"),
           NEW m \in WireMessage, Posted(b) = {m}, m.type # "CREATE_LOCAL_NET_PLAYER",
           Members' \subseteq Members, Inhabitants' \subseteq Members,
           Makes(World(b), m, World(b)')
    PROVE  Continues(b)
<1>1. World(b) \subseteq Members /\ \A e \in World(b) : e.who # b
    BY TidyNow DEF World, Tidy, SessionInv
<1>2. World(b)' \subseteq Members /\ \A e \in World(b)' : e.who # b
    BY DEF World
<1>3. Holdable(World(b), client[b].id) /\ Holdable(World(b)', client[b].id)
    BY <1>1, <1>2, OwnName
<1>4. SetToSeq(Posted(b)) = <<m>>
    BY ListsFew
<1>5. Carries(SetToSeq(Posted(b)), World(b), World(b)', client[b].id)
    BY <1>3, <1>4, CarriesOne
<1>6. IsFiniteSet(Posted(b)) /\ Posted(b) \subseteq WireMessage
    BY FS_Singleton
<1>. QED BY <1>5, <1>6 DEF Continues

\* The server takes an announcement: somebody enters the world.
LEMMA SessionSpawn ==
    ASSUME SessionInv, IInv', NEW a \in Address, TakesPacket(a, "CREATE_NET_PLAYER"),
           NEW claimed \in NetworkId, NEW x \in Position,
           HandleCreateNetPlayer(a, TRUE, claimed, x), Post
    PROVE  SessionInv'
<1>. DEFINE others == {f \in Inhabitants : f.who # a}
<1>1. PICK e \in Members :
        /\ e.who = a
        /\ Members' = Members
        /\ Inhabitants' = Inhabitants \cup {e}
        /\ Posted(a) = IF others = {} THEN {}
                       ELSE {[type |-> "CREATE_NET_PLAYERS", list |-> others]}
        /\ \A b \in Address \ {a} : Posted(b) =
            IF InWorld(b)
            THEN {[type |-> "CREATE_NET_PLAYER", id |-> e.id, who |-> e.who]} ELSE {}
    BY SpawnPosts DEF SessionInv
<1>2. Tidy /\ Tidy'
    BY TidyNow, TidyNext DEF SessionInv
<1>3. /\ toServer' \in [Address -> Seq(Packets)] /\ UNCHANGED client
      /\ \A b \in Address : TakesAtMostOne(b)
      /\ toServer[a] # <<>> /\ Head(toServer[a]) = "CREATE_NET_PLAYER"
      /\ toServer'[a] = Tail(toServer[a])
      /\ Says(toServer[a], "CREATE_NET_PLAYER")
    BY TakesOne
<1>4. link' = link
    BY DEF HandleCreateNetPlayer
<1>5. ~InWorld(a) /\ \A f \in Inhabitants : f.who # a
    <2>1. ~InWorld(a)
        BY <1>3 DEF SessionInv, Sound, OneAnnouncement
    <2>. QED BY <1>2, <2>1 DEF Tidy
<1>6. \A b \in Address : /\ InWorld(b)' <=> InWorld(b) \/ b = a
                         /\ Registered(b)' <=> Registered(b)
    BY <1>1, <1>2 DEF Tidy
<1>7. e \in Avatar /\ e.who \in Address
    BY <1>2 DEF Tidy, Avatar
<1>8. ASSUME NEW b \in Address, link[b] = "up", client[b].phase # "off" PROVE Continues(b)
    <2>1. CASE b = a /\ others = {}
        <3>1. World(b) = {} /\ World(b)' = {}
            BY <1>1, <1>5, <2>1 DEF World
        <3>. QED BY <1>1, <1>8, <2>1, <3>1, ContinuesWithNothing
    <2>2. CASE b = a /\ others # {}
        <3>. DEFINE m == [type |-> "CREATE_NET_PLAYERS", list |-> others]
        <3>1. World(b) = {} /\ World(b)' = others
            BY <1>1, <1>5, <1>6, <2>2 DEF World
        <3>2. m \in WireMessage
            <4>1. others \in SUBSET Avatar /\ IsFiniteSet(others)
                BY <1>2, FS_Subset DEF Tidy
            <4>. HIDE DEF others
            <4>. QED BY <4>1 DEF WireMessage
        <3>3. m.type = "CREATE_NET_PLAYERS" /\ m.list = others /\ Posted(b) = {m}
            BY <1>1, <2>2
        <3>. HIDE DEF m, others
        <3>4. Makes(World(b), m, World(b)')
            BY <3>1, <3>3 DEF Makes
        <3>5. Inhabitants' \subseteq Members
            BY <1>1, <1>2 DEF Tidy
        <3>. QED BY <1>1, <1>3, <1>8, <2>2, <3>2, <3>3, <3>4, <3>5, ContinuesWithOne
    <2>3. CASE b # a /\ ~InWorld(b)
        <3>1. World(b) = {} /\ World(b)' = {}
            BY <1>6, <2>3 DEF World
        <3>. QED BY <1>1, <1>8, <2>3, <3>1, ContinuesWithNothing
    <2>4. CASE b # a /\ InWorld(b)
        <3>. DEFINE m == [type |-> "CREATE_NET_PLAYER", id |-> e.id, who |-> e.who]
        <3>1. /\ m.type = "CREATE_NET_PLAYER" /\ m.id = e.id /\ About(m) = e
              /\ m \in WireMessage /\ Posted(b) = {m}
            BY <1>1, <1>7, <2>4 DEF About, WireMessage, Avatar
        <3>. HIDE DEF m
        <3>2. World(b)' = World(b) \cup {e}
            BY <1>1, <1>6, <2>4 DEF World
        <3>3. \A f \in World(b) : f.id # e.id
            BY <1>1, <1>2, <1>5 DEF World, Tidy, OneEach
        <3>4. Makes(World(b), m, World(b)')
            BY <3>1, <3>2, <3>3 DEF Makes
        <3>5. Inhabitants' \subseteq Members
            BY <1>1, <1>2 DEF Tidy
        <3>. QED BY <1>1, <1>8, <2>4, <3>1, <3>4, <3>5, ContinuesWithOne
    <2>. QED BY <2>1, <2>2, <2>3, <2>4
<1>9. \A b \in Address : Sound(b)' /\ toClient'[b] \in Seq(WireMessage)
    <2>. SUFFICES ASSUME NEW b \in Address
                  PROVE  Sound(b)' /\ toClient'[b] \in Seq(WireMessage)
        OBVIOUS
    <2>1. ~InWorld(b) /\ ~InWorld(b)' => Posted(b) = {}
        BY <1>1, <1>6
    <2>2. InWorld(b)' => InWorld(b) \/
            /\ toServer[b] # <<>> /\ Head(toServer[b]) = "CREATE_NET_PLAYER"
            /\ toServer'[b] = Tail(toServer[b])
        BY <1>3, <1>6
    <2>. QED BY <1>1, <1>3, <1>4, <1>6, <1>8, <2>1, <2>2, Hears
<1>10. NobodyLeft'
    BY <1>1, <1>4 DEF SessionInv, NobodyLeft
<1>. QED BY <1>3, <1>9, <1>10, ServerKeeps

\* A client whose table and messages stay, and who may only lose packets on
\* their way to the server, or its connection, is as sound as before.
LEMMA PacketsGone ==
    ASSUME SessionInv, IInv', NEW b \in Address,
           Members' = Members, Inhabitants' = Inhabitants,
           link'[b] = "up" => link[b] = "up",
           client'[b] = client[b], toClient'[b] = toClient[b],
           TakesAtMostOne(b) \/ toServer'[b] = <<>>
    PROVE  Sound(b)'
<1>. USE DEF SessionInv
<1>1. Sound(b)
    OBVIOUS
<1>2. (InWorld(b)' <=> InWorld(b)) /\ (Registered(b)' <=> Registered(b))
    BY TidyNow, TidyNext DEF Tidy
<1>3. World(b)' = World(b)
    BY <1>2 DEF World
<1>4. /\ Says(toServer'[b], "CREATE_NET_PLAYER") => Says(toServer[b], "CREATE_NET_PLAYER")
      /\ \A i, j \in DOMAIN toServer'[b] :
            toServer'[b][i] = "CREATE_NET_PLAYER"
                /\ toServer'[b][j] = "CREATE_NET_PLAYER" => i = j
      /\ toServer[b] = <<>> => toServer'[b] = <<>>
    <2>1. CASE toServer[b] # <<>> /\ toServer'[b] = Tail(toServer[b])
        BY <2>1, PacketTaken
    <2>2. CASE toServer'[b] = toServer[b]
        BY <1>1, <2>2 DEF Sound, OneAnnouncement
    <2>3. CASE toServer'[b] = <<>>
        <3>1. DOMAIN toServer'[b] = {}
            BY <2>3
        <3>. QED BY <2>3, <3>1 DEF Says
    <2>. QED BY <2>1, <2>2, <2>3 DEF TakesAtMostOne
<1>5. Away(b)' /\ Arriving(b)'
    BY <1>1, <1>2, <1>4 DEF Sound, Away, Arriving
<1>6. Nameless(b)'
    BY <1>1, <1>2, <1>4 DEF Sound, Nameless, NetworkId
<1>7. Named(b)'
    BY <1>1 DEF Sound, Named
<1>8. OneAnnouncement(b)'
    BY <1>1, <1>2, <1>4 DEF Sound, OneAnnouncement
<1>9. OnRecord(b)'
    BY <1>1, <1>3 DEF Sound, OnRecord
<1>. QED BY <1>5, <1>6, <1>7, <1>8, <1>9 DEF Sound

\* The server takes a packet that it ignores, refuses or drops.
LEMMA SessionQuiet ==
    ASSUME SessionInv, IInv', NEW a \in Address, NEW packet, TakesPacket(a, packet),
           Members' = Members, Inhabitants' = Inhabitants, UNCHANGED toClient,
           UNCHANGED link \/ Refuse(a)
    PROVE  SessionInv'
<1>1. /\ toServer' \in [Address -> Seq(Packets)] /\ UNCHANGED client
      /\ \A b \in Address : TakesAtMostOne(b)
    BY TakesOne
<1>2. \A b \in Address : link'[b] = "up" => link[b] = "up"
    BY DEF Refuse, SessionInv, IInv, TypeOK
<1>3. \A b \in Address : Sound(b)'
    BY <1>1, <1>2, PacketsGone
<1>4. NobodyLeft'
    <2>1. CASE UNCHANGED link
        BY <2>1 DEF SessionInv, NobodyLeft
    <2>2. CASE Refuse(a)
        <3>1. \A e \in Members : e.who # a
            BY <2>2, TidyNow DEF Refuse, Tidy, SessionInv
        <3>2. Members \subseteq Avatar
            BY TidyNow DEF Tidy, SessionInv
        <3>3. link' = [link EXCEPT ![a] = "down"] /\ link \in [Address -> LinkState]
            BY <2>2 DEF Refuse, SessionInv, IInv, TypeOK
        <3>. QED BY <3>1, <3>2, <3>3 DEF SessionInv, NobodyLeft, Avatar
    <2>. QED BY <2>1, <2>2
<1>5. SessionTypes'
    BY <1>1 DEF SessionInv, SessionTypes, ClientState, Avatar, NetworkId, Packets, WireMessage
<1>. QED BY <1>3, <1>4, <1>5 DEF SessionInv

\* What is posted without messages leaves the channels as they are.
LEMMA PostedNothing ==
    ASSUME SessionInv, Post, \A b \in Address : Posted(b) = {}
    PROVE  UNCHANGED toClient
<1>1. toClient \in [Address -> Seq(WireMessage)]
    BY DEF SessionInv, SessionTypes
<1>2. \A b \in Address : toClient[b] \o <<>> = toClient[b]
    BY <1>1
<1>3. \A b \in Address : Enqueue(toClient[b], Posted(b)) = toClient[b]
    BY <1>2, ListsFew DEF Enqueue
<1>4. toClient' = [b \in Address |-> toClient[b]]
    BY <1>3 DEF Post, Posted
<1>. QED BY <1>1, <1>4

\* The server takes a movement: the others in the world will read it.
LEMMA SessionMove ==
    ASSUME SessionInv, IInv', NEW a \in Address, TakesPacket(a, "PLAYER_MOVEMENT"),
           NEW x \in Position, HandlePlayerMovement(a, TRUE, x), Post
    PROVE  SessionInv'
<1>1. PICK e \in Inhabitants :
        /\ e.who = a
        /\ Members' = Members
        /\ Inhabitants' = Inhabitants
        /\ \A b \in Address : Posted(b) =
            IF InWorld(b) /\ b # a
            THEN {[type |-> "PLAYER_MOVEMENT", id |-> e.id, who |-> e.who]} ELSE {}
    BY MovementPosts DEF SessionInv
<1>2. Tidy /\ Tidy'
    BY TidyNow, TidyNext DEF SessionInv
<1>3. /\ toServer' \in [Address -> Seq(Packets)] /\ UNCHANGED client
      /\ \A b \in Address : TakesAtMostOne(b)
    BY TakesOne
<1>4. link' = link
    BY DEF HandlePlayerMovement
<1>5. \A b \in Address : (InWorld(b)' <=> InWorld(b)) /\ (Registered(b)' <=> Registered(b))
    BY <1>1, <1>2 DEF Tidy
<1>6. \A b \in Address : World(b)' = World(b)
    BY <1>1, <1>5 DEF World
<1>7. ASSUME NEW b \in Address, link[b] = "up", client[b].phase # "off" PROVE Continues(b)
    <2>1. CASE InWorld(b) /\ b # a
        <3>. DEFINE m == [type |-> "PLAYER_MOVEMENT", id |-> e.id, who |-> e.who]
        <3>1. e \in Avatar
            BY <1>1, <1>2 DEF Tidy
        <3>2. m.type = "PLAYER_MOVEMENT" /\ About(m) = e /\ m \in WireMessage /\ Posted(b) = {m}
            BY <1>1, <2>1, <3>1 DEF About, WireMessage, Avatar
        <3>. HIDE DEF m
        <3>3. Makes(World(b), m, World(b)')
            BY <1>1, <1>6, <2>1, <3>2 DEF Makes, World
        <3>4. Inhabitants' \subseteq Members
            BY <1>1, <1>2 DEF Tidy
        <3>. QED BY <1>1, <1>7, <2>1, <3>2, <3>3, <3>4, ContinuesWithOne
    <2>2. CASE ~(InWorld(b) /\ b # a)
        BY <1>1, <1>6, <1>7, <2>2, ContinuesWithNothing
    <2>. QED BY <2>1, <2>2
<1>8. \A b \in Address : Sound(b)' /\ toClient'[b] \in Seq(WireMessage)
    <2>. SUFFICES ASSUME NEW b \in Address
                  PROVE  Sound(b)' /\ toClient'[b] \in Seq(WireMessage)
        OBVIOUS
    <2>1. ~InWorld(b) /\ ~InWorld(b)' => Posted(b) = {}
        BY <1>1
    <2>. QED BY <1>1, <1>3, <1>4, <1>5, <1>7, <2>1, Hears
<1>9. NobodyLeft'
    BY <1>1, <1>4 DEF SessionInv, NobodyLeft
<1>. QED BY <1>3, <1>8, <1>9, ServerKeeps

\* The server takes a drop: those left in the world will read that somebody of
\* it has gone.
LEMMA SessionDrop ==
    ASSUME SessionInv, IInv', NEW a \in Address, HandleDrop(a, TRUE), Post,
           UNCHANGED <<client, toServer>>
    PROVE  SessionInv'
<1>1. /\ Members' = {e \in Members : e.who # a}
      /\ Inhabitants' = {e \in Inhabitants : e.who # a}
      /\ \/ ~InWorld(a) /\ \A b \in Address : Posted(b) = {}
         \/ \E e \in Inhabitants :
            /\ e.who = a
            /\ \A b \in Address : Posted(b) =
                IF InWorld(b) /\ b # a
                THEN {[type |-> "DESTROY_NET_PLAYER", id |-> e.id, who |-> e.who]} ELSE {}
    BY DropPosts DEF SessionInv
<1>2. Tidy /\ Tidy'
    BY TidyNow, TidyNext DEF SessionInv
<1>3. /\ toServer' \in [Address -> Seq(Packets)] /\ UNCHANGED client
      /\ \A b \in Address : TakesAtMostOne(b)
    BY DEF SessionInv, SessionTypes, TakesAtMostOne
<1>4. \A b \in Address : link'[b] = IF b = a THEN "down" ELSE link[b]
    BY DEF HandleDrop, SessionInv, IInv, TypeOK
<1>5. \A b \in Address : /\ InWorld(b)' <=> InWorld(b) /\ b # a
                         /\ Registered(b)' <=> Registered(b) /\ b # a
    BY <1>1, <1>2 DEF Tidy
<1>6. link[a] # "up"
    BY DEF HandleDrop
<1>7. ASSUME NEW b \in Address, link[b] = "up", client[b].phase # "off" PROVE Continues(b)
    <2>1. b # a
        BY <1>6, <1>7
    <2>2. CASE Posted(b) = {} /\ (~InWorld(b) \/ ~InWorld(a))
        <3>1. World(b)' = World(b)
            BY <1>1, <1>2, <1>5, <2>1, <2>2 DEF World, Tidy
        <3>. QED BY <1>7, <2>2, <3>1, ContinuesWithNothing
    <2>3. CASE InWorld(b) /\ InWorld(a)
        <3>1. PICK e \in Inhabitants :
                /\ e.who = a
                /\ Posted(b) = {[type |-> "DESTROY_NET_PLAYER", id |-> e.id, who |-> e.who]}
            BY <1>1, <2>1, <2>3
        <3>. DEFINE m == [type |-> "DESTROY_NET_PLAYER", id |-> e.id, who |-> e.who]
        <3>2. e \in Avatar
            BY <1>2, <3>1 DEF Tidy
        <3>3. m.type = "DESTROY_NET_PLAYER" /\ About(m) = e /\ m \in WireMessage /\ Posted(b) = {m}
            BY <3>1, <3>2 DEF About, WireMessage, Avatar
        <3>. HIDE DEF m
        <3>4. \A f \in Inhabitants : f.who = a <=> f = e
            BY <1>2, <3>1 DEF Tidy
        <3>5. e \in World(b) /\ World(b)' = World(b) \ {e}
            BY <1>1, <1>5, <2>1, <2>3, <3>1, <3>4 DEF World
        <3>6. Makes(World(b), m, World(b)')
            BY <3>3, <3>5 DEF Makes
        <3>7. Members' \subseteq Members /\ Inhabitants' \subseteq Members
            BY <1>1, <1>2 DEF Tidy
        <3>. QED BY <1>7, <2>3, <3>3, <3>6, <3>7, ContinuesWithOne
    <2>4. ~InWorld(a) => \A e \in Inhabitants : e.who # a
        BY <1>2 DEF Tidy
    <2>5. ~InWorld(a) \/ ~InWorld(b) => Posted(b) = {}
        BY <1>1, <2>4
    <2>. QED BY <2>2, <2>3, <2>5
<1>8. \A b \in Address : Sound(b)' /\ toClient'[b] \in Seq(WireMessage)
    <2>. SUFFICES ASSUME NEW b \in Address
                  PROVE  Sound(b)' /\ toClient'[b] \in Seq(WireMessage)
        OBVIOUS
    <2>1. ~InWorld(b) /\ ~InWorld(b)' => Posted(b) = {}
        BY <1>1
    <2>2. link'[b] = "up" => link[b] = "up" /\ b # a
        BY <1>4
    <2>3. \A e \in Members : e.who = b /\ link'[b] = "up" => e \in Members'
        BY <1>1, <2>2
    <2>. QED BY <1>3, <1>5, <1>7, <2>1, <2>2, <2>3, Hears
<1>9. NobodyLeft'
    <2>1. Members \subseteq Avatar
        BY <1>2 DEF Tidy
    <2>. QED BY <1>1, <1>4, <2>1 DEF SessionInv, NobodyLeft, Avatar
<1>. QED BY <1>3, <1>8, <1>9, ServerKeeps

\* The server stops: everybody in the world will read that the others are gone.
LEMMA SessionStop ==
    ASSUME SessionInv, IInv', Stop, Post, UNCHANGED <<client, toServer>>
    PROVE  SessionInv'
<1>1. /\ Members' = {} /\ Inhabitants' = {}
      /\ \A b \in Address : Posted(b) =
            {[type |-> "DESTROY_NET_PLAYER", id |-> e.id, who |-> e.who] : e \in World(b)}
    BY StopPosts DEF SessionInv
<1>2. Tidy /\ Tidy'
    BY TidyNow, TidyNext DEF SessionInv
<1>3. /\ toServer' \in [Address -> Seq(Packets)] /\ UNCHANGED client
      /\ \A b \in Address : TakesAtMostOne(b)
    BY DEF SessionInv, SessionTypes, TakesAtMostOne
<1>4. \A b \in Address : link'[b] = "down"
    BY DEF Stop
<1>5. \A b \in Address : ~InWorld(b)' /\ ~Registered(b)'
    BY <1>1, <1>2 DEF Tidy
<1>6. ASSUME NEW b \in Address, link[b] = "up", client[b].phase # "off" PROVE Continues(b)
    <2>1. World(b) \subseteq Members /\ World(b) \subseteq Avatar /\ IsFiniteSet(World(b))
          /\ \A e \in World(b) : e.who # b
        <3>1. World(b) \subseteq Inhabitants /\ \A e \in World(b) : e.who # b
            BY DEF World
        <3>. QED BY <1>2, <3>1, FS_Subset DEF Tidy
    <2>2. Holdable(World(b), client[b].id)
        <3>1. CASE InWorld(b)
            BY <1>6, <2>1, <3>1, OwnName
        <3>2. CASE ~InWorld(b)
            BY <3>2 DEF World, Holdable, OneEach
        <3>. QED BY <3>1, <3>2
    <2>3. /\ IsFiniteSet(Posted(b))
          /\ Carries(SetToSeq(Posted(b)), World(b), World(b) \ World(b), client[b].id)
        BY <1>1, <2>1, <2>2, CarriesFarewell
    <2>4. Posted(b) \subseteq WireMessage
          /\ \A m \in Posted(b) : m.type # "CREATE_LOCAL_NET_PLAYER"
        BY <1>1, <2>1 DEF WireMessage, Avatar
    <2>. QED BY <1>4, <2>3, <2>4 DEF Continues
<1>7. \A b \in Address : Sound(b)' /\ toClient'[b] \in Seq(WireMessage)
    <2>. SUFFICES ASSUME NEW b \in Address
                  PROVE  Sound(b)' /\ toClient'[b] \in Seq(WireMessage)
        OBVIOUS
    <2>1. ~InWorld(b) => Posted(b) = {}
        <3>1. ~InWorld(b) => World(b) = {}
            BY DEF World
        <3>. QED BY <1>1, <3>1
    <2>. QED BY <1>3, <1>4, <1>5, <1>6, <2>1, Hears
<1>8. NobodyLeft'
    BY <1>1 DEF NobodyLeft
<1>. QED BY <1>3, <1>7, <1>8, ServerKeeps

\* The server starts again: nothing that a game can see changes.
LEMMA SessionStart ==
    ASSUME SessionInv, IInv', Start, UNCHANGED <<client, toServer, toClient>>
    PROVE  SessionInv'
<1>1. Members' = Members /\ Inhabitants' = Inhabitants /\ UNCHANGED link
    BY DEF Start, Members, Inhabitants, Spawned
<1>2. \A b \in Address : Sound(b)'
    BY <1>1, PacketsGone DEF TakesAtMostOne
<1>3. NobodyLeft' /\ SessionTypes'
    BY <1>1 DEF SessionInv, NobodyLeft, SessionTypes, ClientState, Avatar, NetworkId,
        Packets, WireMessage
<1>. QED BY <1>2, <1>3 DEF SessionInv

\* The server registers somebody: the newcomer, who has no name and nothing to
\* read yet, will read its id; the others hear nothing.
LEMMA SessionRegister ==
    ASSUME SessionInv, IInv', NEW a \in Address,
           TakesPacket(a, "CONNECTION_NOTIFICATION"), Register(a), Post
    PROVE  SessionInv'
<1>1. PICK e \in Avatar :
        /\ e.who = a
        /\ Members' = Members \cup {e}
        /\ Inhabitants' = Inhabitants
        /\ \A b \in Address : Posted(b) =
            IF b = a THEN {[type |-> "CREATE_LOCAL_NET_PLAYER", id |-> e.id]} ELSE {}
    BY RegisterPosts DEF SessionInv
<1>2. Tidy /\ Tidy'
    BY TidyNow, TidyNext DEF SessionInv
<1>3. /\ toServer' \in [Address -> Seq(Packets)] /\ UNCHANGED client
      /\ \A b \in Address : TakesAtMostOne(b)
      /\ toServer[a] # <<>> /\ toServer'[a] = Tail(toServer[a])
      /\ client[a].phase # "connecting"
    BY TakesOne
<1>4. link' = link /\ link[a] = "up" /\ ~Registered(a)
    BY DEF Register, Receives
<1>5. \A b \in Address : /\ InWorld(b)' <=> InWorld(b)
                         /\ b # a => (Registered(b)' <=> Registered(b))
    BY <1>1, <1>2 DEF Tidy
<1>6. \A b \in Address : World(b)' = World(b)
    BY <1>1, <1>5 DEF World
<1>7. \A f \in Members : f.who # a
    BY <1>2, <1>4 DEF Tidy
<1>8. ASSUME NEW b \in Address, b # a PROVE Sound(b)' /\ toClient'[b] \in Seq(WireMessage)
    <2>1. Posted(b) = {} /\ TakesAtMostOne(b)
        BY <1>1, <1>3, <1>8
    <2>2. link[b] = "up" /\ client[b].phase # "off" => Continues(b)
        BY <1>6, <2>1, ContinuesWithNothing
    <2>3. \A f \in Members : f \in Members'
        BY <1>1
    <2>. QED BY <1>3, <1>4, <1>5, <1>8, <2>1, <2>2, <2>3, Hears
<1>9. Sound(a)' /\ toClient'[a] \in Seq(WireMessage)
    <2>. DEFINE m == [type |-> "CREATE_LOCAL_NET_PLAYER", id |-> e.id]
    <2>1. Sound(a) /\ client'[a] = client[a] /\ client[a] \in ClientState
        BY <1>3 DEF SessionInv, SessionTypes
    <2>2. client[a].id = NoId
        BY <1>4, <1>7, <2>1 DEF Sound, Named
    <2>3. ~InWorld(a) /\ ~InWorld(a)'
        BY <1>5, <1>7, <1>2 DEF Tidy
    <2>4. toClient[a] = <<>>
        BY <1>4, <1>7, <2>1, <2>2 DEF Sound, Away, Nameless
    <2>5. m \in WireMessage /\ m.type = "CREATE_LOCAL_NET_PLAYER" /\ m.id = e.id /\ Posted(a) = {m}
          /\ e.id \in NetworkId
        BY <1>1 DEF WireMessage, Avatar
    <2>6. toClient'[a] = IF client[a].phase # "off" THEN <<m>> ELSE <<>>
        <3>1. toClient'[a] = IF client[a].phase # "off"
                             THEN toClient[a] \o SetToSeq(Posted(a)) ELSE toClient[a]
            BY <1>4 DEF Post, Enqueue, Posted
        <3>. HIDE DEF m
        <3>2. <<>> \o <<m>> = <<m>>
            OBVIOUS
        <3>. QED BY <2>4, <2>5, <3>1, <3>2, ListsFew
    <2>7. client[a].phase = "on" \/ client[a].phase = "off"
        BY <1>3, <2>1 DEF ClientState
    <2>8. /\ Says(toServer'[a], "CREATE_NET_PLAYER") => Says(toServer[a], "CREATE_NET_PLAYER")
          /\ \A i, j \in DOMAIN toServer'[a] :
                toServer'[a][i] = "CREATE_NET_PLAYER"
                    /\ toServer'[a][j] = "CREATE_NET_PLAYER" => i = j
        BY <1>3, PacketTaken
    <2>9. Away(a)' /\ Arriving(a)'
        BY <1>3, <2>1, <2>6, <2>7 DEF Sound, Away, Arriving
    <2>10. Nameless(a)'
        <3>1. e \in Members'
            BY <1>1
        <3>. HIDE DEF m
        <3>2. client[a].phase = "on" =>
                /\ ~client[a].loading /\ client[a].avatars = <<>>
                /\ ~Says(toServer'[a], "CREATE_NET_PLAYER")
            BY <2>1, <2>2, <2>8 DEF Sound, Nameless
        <3>3. client[a].phase = "on" => toClient'[a] = <<[type |-> "CREATE_LOCAL_NET_PLAYER", id |-> e.id]>>
            BY <2>6 DEF m
        <3>. QED BY <1>1, <2>1, <2>2, <2>3, <2>5, <3>1, <3>2, <3>3 DEF Nameless, NetworkId
    <2>11. Named(a)'
        BY <2>1, <2>2 DEF Named
    <2>12. OneAnnouncement(a)'
        BY <2>1, <2>3, <2>8 DEF Sound, OneAnnouncement
    <2>13. OnRecord(a)'
        <3>1. Distinct(client'[a].avatars)
            BY <2>1 DEF Sound, OnRecord
        <3>2. ASSUME client[a].phase # "off"
              PROVE  Carries(toClient'[a], ToSet(client[a].avatars), {}, client[a].id)
            <4>1. client[a].avatars = <<>>
                BY <2>1, <2>2, <2>7, <3>2 DEF Sound, Nameless
            <4>2. ToSet(<<>>) = {}
                BY DEF ToSet
            <4>3. Holdable({}, client[a].id)
                BY DEF Holdable, OneEach
            <4>4. Makes({}, m, {})
                BY <2>5 DEF Makes
            <4>. HIDE DEF m
            <4>5. Carries(<<m>>, {}, {}, client[a].id)
                BY <4>3, <4>4, CarriesOne
            <4>. QED BY <2>6, <3>2, <4>1, <4>2, <4>5
        <3>3. World(a)' = {}
            BY <2>3 DEF World
        <3>. QED BY <2>1, <3>1, <3>2, <3>3 DEF OnRecord
    <2>14. toClient'[a] \in Seq(WireMessage)
        <3>. HIDE DEF m
        <3>. QED BY <2>5, <2>6
    <2>. QED BY <2>9, <2>10, <2>11, <2>12, <2>13, <2>14 DEF Sound
<1>10. NobodyLeft'
    BY <1>1, <1>4 DEF SessionInv, NobodyLeft
<1>. QED BY <1>3, <1>8, <1>9, <1>10, ServerKeeps

\* Every step of the server preserves the invariant.
LEMMA SessionServer ==
    ASSUME SessionInv, IInv', NEW a \in Address,
           ServerTakes(a) \/ ServerHandlesDrop(a) \/ ServerStops \/ ServerStarts
    PROVE  SessionInv'
<1>1. CASE ServerTakesNotification(a)
    <2>1. CASE Register(a)
        BY <1>1, <2>1, SessionRegister DEF ServerTakesNotification
    <2>2. CASE Refuse(a) \/ Ignore(a, TRUE)
        <3>1. /\ Members' = Members /\ Inhabitants' = Inhabitants
              /\ \A b \in Address : Posted(b) = {}
            BY <2>2, IgnorePosts DEF SessionInv
        <3>2. UNCHANGED toClient
            BY <1>1, <3>1, PostedNothing DEF ServerTakesNotification
        <3>3. UNCHANGED link \/ Refuse(a)
            BY <2>2 DEF Ignore
        <3>. QED BY <1>1, <3>1, <3>2, <3>3, SessionQuiet DEF ServerTakesNotification
    <2>. QED BY <1>1, <2>1, <2>2 DEF ServerTakesNotification, HandleConnectionNotification
<1>2. CASE ServerTakesCreate(a)
    <2>1. CASE Registered(a)
        BY <1>2, <2>1, SessionSpawn DEF ServerTakesCreate
    <2>2. CASE ~Registered(a)
        <3>1. UNCHANGED vars /\ UNCHANGED toClient
            BY <1>2, <2>2 DEF ServerTakesCreate
        <3>2. Members' = Members /\ Inhabitants' = Inhabitants /\ UNCHANGED link
            BY <3>1 DEF vars, Members, Inhabitants, Spawned
        <3>. QED BY <1>2, <3>1, <3>2, SessionQuiet DEF ServerTakesCreate
    <2>. QED BY <2>1, <2>2
<1>3. CASE ServerTakesMovement(a)
    <2>1. CASE InWorld(a)
        BY <1>3, <2>1, SessionMove DEF ServerTakesMovement
    <2>2. CASE ~InWorld(a)
        <3>1. UNCHANGED toClient /\ (Ignore(a, TRUE) \/ UNCHANGED vars)
            BY <1>3, <2>2 DEF ServerTakesMovement
        <3>2. Members' = Members /\ Inhabitants' = Inhabitants /\ UNCHANGED link
            <4>1. CASE Ignore(a, TRUE)
                BY <4>1, IgnorePosts DEF SessionInv, Ignore
            <4>2. CASE UNCHANGED vars
                BY <4>2 DEF vars, Members, Inhabitants, Spawned
            <4>. QED BY <3>1, <4>1, <4>2
        <3>. QED BY <1>3, <3>1, <3>2, SessionQuiet DEF ServerTakesMovement
    <2>. QED BY <2>1, <2>2
<1>4. CASE ServerHandlesDrop(a)
    BY <1>4, SessionDrop DEF ServerHandlesDrop
<1>5. CASE ServerStops
    BY <1>5, SessionStop DEF ServerStops
<1>6. CASE ServerStarts
    BY <1>6, SessionStart DEF ServerStarts
<1>. QED BY <1>1, <1>2, <1>3, <1>4, <1>5, <1>6 DEF ServerTakes

-----------------------------------------------------------------------------
(***************************************************************************)
(* The steps of the games and of the transport.                            *)
(***************************************************************************)

\* A table that does not change says the same of everybody.
LEMMA SameTable ==
    ASSUME UNCHANGED players
    PROVE  /\ Members' = Members /\ Inhabitants' = Inhabitants
           /\ \A b \in Address : /\ World(b)' = World(b)
                                 /\ InWorld(b)' <=> InWorld(b)
                                 /\ Registered(b)' <=> Registered(b)
BY DEF Members, Inhabitants, Spawned, World, InWorld, Registered

\* A step of one game, or of its connection, concerns the others in nothing.
LEMMA GameKeeps ==
    ASSUME SessionInv, IInv', NEW a \in Address, UNCHANGED players,
           client' \in [Address -> ClientState],
           toServer' \in [Address -> Seq(Packets)],
           toClient' \in [Address -> Seq(WireMessage)],
           \A b \in Address \ {a} :
                /\ client'[b] = client[b] /\ link'[b] = link[b]
                /\ toServer'[b] = toServer[b] /\ toClient'[b] = toClient[b],
           link[a] # "down" => link'[a] # "down",
           Sound(a)'
    PROVE  SessionInv'
<1>1. \A b \in Address \ {a} : Sound(b)'
    BY SameTable, PacketsGone DEF TakesAtMostOne
<1>2. NobodyLeft'
    <2>1. Members \subseteq Avatar
        BY TidyNow DEF Tidy, SessionInv
    <2>2. \A e \in Members : e.who \in Address
        BY <2>1 DEF Avatar
    <2>. QED BY <2>2, SameTable DEF SessionInv, NobodyLeft
<1>3. SessionTypes'
    BY DEF SessionTypes, ClientState, Avatar, NetworkId, Packets, WireMessage
<1>. QED BY <1>1, <1>2, <1>3 DEF SessionInv

\* A packet put behind the others.
LEMMA PacketAdded ==
    ASSUME NEW q \in Seq(Packets), NEW packet \in Packets
    PROVE  /\ Append(q, packet) \in Seq(Packets)
           /\ Says(Append(q, packet), "CREATE_NET_PLAYER") <=>
                Says(q, "CREATE_NET_PLAYER") \/ packet = "CREATE_NET_PLAYER"
           /\ (\A i, j \in DOMAIN q :
                    q[i] = "CREATE_NET_PLAYER" /\ q[j] = "CREATE_NET_PLAYER" => i = j)
                /\ (packet = "CREATE_NET_PLAYER" => ~Says(q, "CREATE_NET_PLAYER"))
              => \A i, j \in DOMAIN Append(q, packet) :
                    Append(q, packet)[i] = "CREATE_NET_PLAYER"
                        /\ Append(q, packet)[j] = "CREATE_NET_PLAYER" => i = j
<1>. DEFINE r == Append(q, packet)
            n == Len(q)
<1>1. r \in Seq(Packets)
    OBVIOUS
<1>2. /\ n \in Nat /\ DOMAIN q = 1 .. n /\ DOMAIN r = 1 .. (n + 1)
      /\ \A i \in 1 .. n : r[i] = q[i]
      /\ r[n + 1] = packet
    OBVIOUS
<1>. HIDE DEF r, n
<1>3. \A i \in DOMAIN r : i \in DOMAIN q \/ i = n + 1
    BY <1>2
<1>4. n + 1 \in DOMAIN r /\ \A i \in DOMAIN q : i \in DOMAIN r
    BY <1>2
<1>5. Says(r, "CREATE_NET_PLAYER") <=>
        Says(q, "CREATE_NET_PLAYER") \/ packet = "CREATE_NET_PLAYER"
    BY <1>2, <1>3, <1>4 DEF Says
<1>6. ASSUME \A i, j \in DOMAIN q :
                q[i] = "CREATE_NET_PLAYER" /\ q[j] = "CREATE_NET_PLAYER" => i = j,
             packet = "CREATE_NET_PLAYER" => ~Says(q, "CREATE_NET_PLAYER")
      PROVE  \A i, j \in DOMAIN r :
                r[i] = "CREATE_NET_PLAYER" /\ r[j] = "CREATE_NET_PLAYER" => i = j
    BY <1>2, <1>3, <1>6 DEF Says
<1>. QED BY <1>1, <1>5, <1>6 DEF r

\* A connection ends: its packets to the server are lost.
LEMMA SessionEnds ==
    ASSUME SessionInv, IInv', NEW a \in Address, ConnectionEnds(a)
    PROVE  SessionInv'
<1>1. /\ link' = [link EXCEPT ![a] = "ending"] /\ link[a] = "up" /\ UNCHANGED players
      /\ toServer' = [toServer EXCEPT ![a] = <<>>] /\ UNCHANGED <<client, toClient>>
    BY DEF ConnectionEnds, LinkEnds
<1>2. link \in [Address -> LinkState]
    BY DEF SessionInv, IInv, TypeOK
<1>3. /\ client \in [Address -> ClientState]
      /\ toServer \in [Address -> Seq(Packets)]
      /\ toClient \in [Address -> Seq(WireMessage)]
    BY DEF SessionInv, SessionTypes
<1>4. /\ toServer' \in [Address -> Seq(Packets)] /\ toServer'[a] = <<>>
      /\ \A b \in Address \ {a} : toServer'[b] = toServer[b] /\ link'[b] = link[b]
      /\ link'[a] # "up" /\ link'[a] # "down"
    BY <1>1, <1>2, <1>3
<1>5. Sound(a)'
    BY <1>1, <1>4, SameTable, PacketsGone
<1>. QED BY <1>1, <1>3, <1>4, <1>5, GameKeeps

\* A player connects: nobody is registered at an address without connection,
\* and no region load is left.
LEMMA SessionConnect ==
    ASSUME SessionInv, IInv', ~StaleLoads, NEW a \in Address, Connect(a)
    PROVE  SessionInv'
<1>1. PICK creature \in BOOLEAN :
        client' = [client EXCEPT ![a].phase = "connecting", ![a].creature = creature]
    BY DEF Connect
<1>2. /\ client[a].phase = "off" /\ ~client[a].loading
      /\ link[a] = "down" /\ link' = [link EXCEPT ![a] = "up"] /\ UNCHANGED players
      /\ toServer' = [toServer EXCEPT ![a] = <<>>]
      /\ toClient' = [toClient EXCEPT ![a] = <<>>]
    BY DEF Connect, LinkUp
<1>3. /\ client \in [Address -> ClientState] /\ link \in [Address -> LinkState]
      /\ toServer \in [Address -> Seq(Packets)]
      /\ toClient \in [Address -> Seq(WireMessage)]
    BY DEF SessionInv, SessionTypes, IInv, TypeOK
<1>4. client[a].avatars = <<>> /\ client[a].id = NoId
    BY <1>2 DEF SessionInv, Sound, Away
<1>5. /\ client'[a] = [client[a] EXCEPT !.phase = "connecting", !.creature = creature]
      /\ \A b \in Address \ {a} : client'[b] = client[b]
      /\ DOMAIN client' = Address
    BY <1>1, <1>3
<1>6. /\ client'[a] \in ClientState /\ client'[a].phase = "connecting"
      /\ client'[a].avatars = <<>> /\ client'[a].id = NoId /\ ~client'[a].loading
    <2>1. client[a] \in ClientState
        BY <1>3
    <2>. QED BY <1>2, <1>4, <1>5, <2>1 DEF ClientState
<1>7. client' \in [Address -> ClientState]
    BY <1>1, <1>3, <1>5, <1>6
<1>8. /\ toServer' \in [Address -> Seq(Packets)] /\ toServer'[a] = <<>>
      /\ toClient' \in [Address -> Seq(WireMessage)] /\ toClient'[a] = <<>>
      /\ \A b \in Address \ {a} : /\ toServer'[b] = toServer[b] /\ toClient'[b] = toClient[b]
                                  /\ link'[b] = link[b]
    BY <1>2, <1>3
<1>9. ~Registered(a)' /\ ~InWorld(a)' /\ World(a)' = {}
    <2>1. ~Registered(a)
        BY <1>2, TidyNow DEF SessionInv, NobodyLeft, Tidy
    <2>. QED BY <1>2, <2>1, SameTable DEF InWorld, Registered, World
<1>10. Away(a)' /\ Arriving(a)' /\ Nameless(a)' /\ Named(a)'
    BY <1>6, <1>8, <1>9 DEF Away, Arriving, Nameless, Named
<1>11. OneAnnouncement(a)'
    BY <1>6, <1>8, <1>9 DEF OneAnnouncement, Says
<1>12. OnRecord(a)'
    <2>1. Holdable({}, NoId) /\ ToSet(<<>>) = {}
        BY DEF Holdable, OneEach, ToSet
    <2>2. Carries(<<>>, {}, {}, NoId)
        BY <2>1, CarriesEmpty
    <2>3. Distinct(<<>>)
        BY DEF Distinct
    <2>. QED BY <1>6, <1>8, <1>9, <2>1, <2>2, <2>3 DEF OnRecord
<1>13. Sound(a)'
    BY <1>10, <1>11, <1>12 DEF Sound
<1>. QED BY <1>2, <1>3, <1>7, <1>5, <1>8, <1>13, GameKeeps

\* The connection is accepted: the game reports, and its session begins.
LEMMA SessionAccepted ==
    ASSUME SessionInv, IInv', NEW a \in Address, HandleConnectionRequestAccepted(a)
    PROVE  SessionInv'
<1>. DEFINE q == Append(toServer[a], "CONNECTION_NOTIFICATION")
<1>1. /\ client[a].phase = "connecting" /\ client' = [client EXCEPT ![a].phase = "on"]
      /\ toServer' = [toServer EXCEPT ![a] = q]
      /\ UNCHANGED <<players, link, toClient>>
    BY DEF HandleConnectionRequestAccepted, vars
<1>2. /\ client \in [Address -> ClientState]
      /\ toServer \in [Address -> Seq(Packets)]
      /\ toClient \in [Address -> Seq(WireMessage)]
    BY DEF SessionInv, SessionTypes
<1>3. q \in Seq(Packets) /\ (Says(q, "CREATE_NET_PLAYER") => Says(toServer[a], "CREATE_NET_PLAYER"))
    BY <1>2, PacketAdded DEF Packets
<1>. HIDE DEF q
<1>4. /\ client' \in [Address -> ClientState]
      /\ client'[a] = [client[a] EXCEPT !.phase = "on"]
      /\ \A b \in Address \ {a} : client'[b] = client[b] /\ toServer'[b] = toServer[b]
      /\ toServer' \in [Address -> Seq(Packets)] /\ toServer'[a] = q
    BY <1>1, <1>2, <1>3 DEF ClientState
<1>5. /\ client'[a].phase = "on" /\ client'[a].id = client[a].id
      /\ client'[a].avatars = client[a].avatars /\ client'[a].loading = client[a].loading
    BY <1>2, <1>4 DEF ClientState
<1>6. /\ Sound(a) /\ client[a].avatars = <<>> /\ client[a].id = NoId /\ toClient[a] = <<>>
      /\ ~Registered(a) /\ toServer[a] = <<>> /\ ~client[a].loading
    BY <1>1 DEF SessionInv, Sound, Away, Arriving
<1>7. ~InWorld(a)' /\ World(a)' = World(a)
    BY <1>1, <1>6, SameTable DEF InWorld, Registered
<1>8. ~Says(q, "CREATE_NET_PLAYER")
    BY <1>3, <1>6 DEF Says
<1>9. Away(a)' /\ Arriving(a)' /\ Nameless(a)' /\ Named(a)'
    BY <1>1, <1>4, <1>5, <1>6, <1>7, <1>8 DEF Away, Arriving, Nameless, Named
<1>10. OneAnnouncement(a)'
    BY <1>4, <1>5, <1>6, <1>7, <1>8 DEF OneAnnouncement, Says
<1>11. OnRecord(a)'
    BY <1>1, <1>5, <1>6, <1>7 DEF OnRecord, Sound
<1>12. Sound(a)'
    BY <1>9, <1>10, <1>11 DEF Sound
<1>. QED BY <1>1, <1>2, <1>4, <1>12, GameKeeps

\* A session ends in the game: nothing of it is left but the region load.
LEMMA SessionDisconnect ==
    ASSUME SessionInv, IInv', NEW a \in Address, Disconnect(a)
    PROVE  SessionInv'
<1>1. PICK loading \in {client[a].loading, FALSE} :
        client' = [client EXCEPT ![a] = ClientOff(loading)]
    BY DEF Disconnect
<1>2. toClient' = [toClient EXCEPT ![a] = <<>>] /\ UNCHANGED <<players, link, toServer>>
    BY DEF Disconnect, vars
<1>3. /\ client \in [Address -> ClientState]
      /\ toServer \in [Address -> Seq(Packets)]
      /\ toClient \in [Address -> Seq(WireMessage)]
    BY DEF SessionInv, SessionTypes
<1>4. ClientOff(loading) \in ClientState
    <2>1. loading \in BOOLEAN
        BY <1>3 DEF ClientState
    <2>2. <<>> \in Seq(Avatar)
        OBVIOUS
    <2>. QED BY <2>1, <2>2 DEF ClientOff, ClientState, NoId
<1>5. /\ client' \in [Address -> ClientState] /\ client'[a] = ClientOff(loading)
      /\ \A b \in Address \ {a} : client'[b] = client[b] /\ toClient'[b] = toClient[b]
      /\ toClient' \in [Address -> Seq(WireMessage)] /\ toClient'[a] = <<>>
    BY <1>1, <1>2, <1>3, <1>4
<1>6. client'[a].phase = "off" /\ client'[a].avatars = <<>> /\ client'[a].id = NoId
    BY <1>5 DEF ClientOff
<1>7. Away(a)' /\ Arriving(a)' /\ Nameless(a)' /\ Named(a)'
    BY <1>5, <1>6 DEF Away, Arriving, Nameless, Named
<1>8. OneAnnouncement(a)'
    BY <1>2, <1>6, SameTable DEF SessionInv, Sound, OneAnnouncement
<1>9. OnRecord(a)'
    <2>1. Distinct(<<>>)
        BY DEF Distinct
    <2>. QED BY <1>6, <2>1 DEF OnRecord
<1>10. Sound(a)'
    BY <1>7, <1>8, <1>9 DEF Sound
<1>. QED BY <1>2, <1>3, <1>5, <1>10, GameKeeps

\* A player with a name moves.
LEMMA SessionBroadcast ==
    ASSUME SessionInv, IInv', NEW a \in Address, BroadcastLocalNetPlayerMovement(a)
    PROVE  SessionInv'
<1>. DEFINE q == Append(toServer[a], "PLAYER_MOVEMENT")
<1>1. /\ client[a].phase = "on" /\ client[a].id # NoId
      /\ toServer' = [toServer EXCEPT ![a] = q]
      /\ UNCHANGED <<players, link, client, toClient>>
    BY DEF BroadcastLocalNetPlayerMovement, vars
<1>2. /\ client \in [Address -> ClientState]
      /\ toServer \in [Address -> Seq(Packets)]
      /\ toClient \in [Address -> Seq(WireMessage)]
    BY DEF SessionInv, SessionTypes
<1>3. Sound(a)
    BY DEF SessionInv
<1>4. /\ q \in Seq(Packets)
      /\ Says(q, "CREATE_NET_PLAYER") => Says(toServer[a], "CREATE_NET_PLAYER")
      /\ \A i, j \in DOMAIN q :
            q[i] = "CREATE_NET_PLAYER" /\ q[j] = "CREATE_NET_PLAYER" => i = j
    BY <1>2, <1>3, PacketAdded DEF Packets, Sound, OneAnnouncement
<1>. HIDE DEF q
<1>5. /\ toServer' \in [Address -> Seq(Packets)] /\ toServer'[a] = q
      /\ \A b \in Address \ {a} : toServer'[b] = toServer[b]
    BY <1>1, <1>2, <1>4
<1>6. Away(a)' /\ Arriving(a)' /\ Nameless(a)'
    BY <1>1 DEF Away, Arriving, Nameless
<1>7. Named(a)'
    BY <1>1, <1>3, SameTable DEF Named, Sound
<1>8. OneAnnouncement(a)'
    BY <1>1, <1>3, <1>4, <1>5, SameTable DEF OneAnnouncement, Sound
<1>9. OnRecord(a)'
    BY <1>1, <1>3, SameTable DEF OnRecord, Sound
<1>10. Sound(a)'
    BY <1>6, <1>7, <1>8, <1>9 DEF Sound
<1>. QED BY <1>1, <1>2, <1>5, <1>10, GameKeeps

\* The region is loaded: a game in a session announces itself, once.
LEMMA SessionLoaded ==
    ASSUME SessionInv, IInv', NEW a \in Address, RegionLoaded(a)
    PROVE  SessionInv'
<1>. DEFINE q == Append(toServer[a], "CREATE_NET_PLAYER")
<1>1. /\ client[a].loading /\ client' = [client EXCEPT ![a].loading = FALSE]
      /\ UNCHANGED <<players, link, toClient>>
      /\ \/ /\ client[a].phase = "on"
            /\ toServer' = [toServer EXCEPT ![a] = q]
         \/ UNCHANGED toServer
    BY DEF RegionLoaded, vars
<1>2. /\ client \in [Address -> ClientState]
      /\ toServer \in [Address -> Seq(Packets)]
      /\ toClient \in [Address -> Seq(WireMessage)]
    BY DEF SessionInv, SessionTypes
<1>3. Sound(a)
    BY DEF SessionInv
<1>4. /\ client' \in [Address -> ClientState]
      /\ client'[a] = [client[a] EXCEPT !.loading = FALSE]
      /\ \A b \in Address \ {a} : client'[b] = client[b]
    BY <1>1, <1>2 DEF ClientState
<1>5. /\ client'[a].phase = client[a].phase /\ client'[a].id = client[a].id
      /\ client'[a].avatars = client[a].avatars /\ client'[a].loading = FALSE
    BY <1>2, <1>4 DEF ClientState
<1>6. /\ client[a].phase # "connecting"
      /\ client[a].phase = "on" =>
            client[a].id # NoId /\ ~InWorld(a) /\ ~Says(toServer[a], "CREATE_NET_PLAYER")
    BY <1>1, <1>3 DEF Sound, Arriving, Nameless, OneAnnouncement
<1>7. /\ toServer' \in [Address -> Seq(Packets)]
      /\ \A b \in Address \ {a} : toServer'[b] = toServer[b]
      /\ \A i, j \in DOMAIN toServer'[a] :
            toServer'[a][i] = "CREATE_NET_PLAYER"
                /\ toServer'[a][j] = "CREATE_NET_PLAYER" => i = j
      /\ Says(toServer'[a], "CREATE_NET_PLAYER") => ~InWorld(a)
    <2>1. CASE client[a].phase = "on" /\ toServer' = [toServer EXCEPT ![a] = q]
        <3>1. /\ q \in Seq(Packets)
              /\ \A i, j \in DOMAIN q :
                    q[i] = "CREATE_NET_PLAYER" /\ q[j] = "CREATE_NET_PLAYER" => i = j
            BY <1>2, <1>3, <1>6, <2>1, PacketAdded DEF Packets, Sound, OneAnnouncement
        <3>. HIDE DEF q
        <3>2. /\ toServer' \in [Address -> Seq(Packets)] /\ toServer'[a] = q
              /\ \A b \in Address \ {a} : toServer'[b] = toServer[b]
            BY <1>2, <2>1, <3>1
        <3>. QED BY <1>6, <2>1, <3>1, <3>2
    <2>2. CASE UNCHANGED toServer
        BY <1>2, <1>3, <2>2 DEF Sound, OneAnnouncement
    <2>. QED BY <1>1, <2>1, <2>2
<1>8. Away(a)' /\ Arriving(a)' /\ Nameless(a)'
    BY <1>1, <1>3, <1>5, <1>6 DEF Away, Arriving, Nameless, Sound
<1>9. Named(a)'
    BY <1>1, <1>3, <1>5, SameTable DEF Named, Sound
<1>10. OneAnnouncement(a)'
    BY <1>1, <1>5, <1>7, SameTable DEF OneAnnouncement
<1>11. OnRecord(a)'
    BY <1>1, <1>3, <1>5, SameTable DEF OnRecord, Sound
<1>12. Sound(a)'
    BY <1>8, <1>9, <1>10, <1>11 DEF Sound
<1>. QED BY <1>1, <1>2, <1>4, <1>7, <1>12, GameKeeps

\* The tail of a queue has nothing the queue has not.
LEMMA TailTypes ==
    ASSUME NEW q \in Seq(WireMessage), q # <<>>
    PROVE  /\ Tail(q) \in Seq(WireMessage) /\ Head(q) \in WireMessage
           /\ 1 \in DOMAIN q /\ q[1] = Head(q)
           /\ \A i \in DOMAIN Tail(q) : i + 1 \in DOMAIN q /\ Tail(q)[i] = q[i + 1]
<1>. DEFINE n == Len(q)
            r == Tail(q)
<1>1. n \in Nat /\ n >= 1 /\ DOMAIN q = 1 .. n /\ Head(q) = q[1]
    OBVIOUS
<1>2. /\ r \in Seq(WireMessage) /\ DOMAIN r = 1 .. (n - 1)
      /\ \A i \in 1 .. (n - 1) : r[i] = q[i + 1]
    OBVIOUS
<1>. HIDE DEF n, r
<1>. QED BY <1>1, <1>2 DEF r

\* A message other than the id is read by a game in a session with a name, and
\* its effect is the next step of the record.
LEMMA NextOnRecord ==
    ASSUME SessionInv, NEW a \in Address, toClient[a] # <<>>,
           Head(toClient[a]).type # "CREATE_LOCAL_NET_PLAYER"
    PROVE  /\ client[a].phase = "on" /\ client[a].id # NoId
           /\ Head(toClient[a]) \in WireMessage
           /\ client[a].avatars \in Seq(Avatar) /\ Distinct(client[a].avatars)
           /\ Holdable(ToSet(client[a].avatars), client[a].id)
           /\ \E B, S : /\ Makes(ToSet(client[a].avatars), Head(toClient[a]), B)
                        /\ Holdable(B, client[a].id)
                        /\ Carries(Tail(toClient[a]), B, S, client[a].id)
                        /\ link[a] = "up" => S = World(a)
<1>1. Sound(a) /\ client[a] \in ClientState /\ toClient[a] \in Seq(WireMessage)
    BY DEF SessionInv, SessionTypes
<1>2. client[a].phase = "on" /\ client[a].avatars \in Seq(Avatar)
    BY <1>1 DEF Sound, Away, ClientState
<1>3. client[a].id # NoId
    <2>1. SUFFICES ASSUME client[a].id = NoId PROVE FALSE
        OBVIOUS
    <2>2. PICK n \in NetworkId : toClient[a] = <<[type |-> "CREATE_LOCAL_NET_PLAYER", id |-> n]>>
        BY <1>1, <1>2, <2>1 DEF Sound, Nameless
    <2>. DEFINE m == [type |-> "CREATE_LOCAL_NET_PLAYER", id |-> n]
    <2>3. m.type = "CREATE_LOCAL_NET_PLAYER" /\ toClient[a] = <<m>>
        BY <2>2
    <2>. HIDE DEF m
    <2>4. Head(<<m>>) = m
        OBVIOUS
    <2>. QED BY <2>3, <2>4
<1>4. PICK S : /\ Carries(toClient[a], ToSet(client[a].avatars), S, client[a].id)
               /\ link[a] = "up" => S = World(a)
    BY <1>1, <1>2 DEF Sound, OnRecord
<1>5. Distinct(client[a].avatars)
    BY <1>1 DEF Sound, OnRecord
<1>6. Head(toClient[a]) \in WireMessage
    BY <1>1, TailTypes
<1>. QED BY <1>1, <1>2, <1>3, <1>4, <1>5, <1>6, CarriesHead, CarriesHoldable

\* A game that reads a message and holds what the record says goes on.
LEMMA MessageRead ==
    ASSUME SessionInv, IInv', NEW a \in Address, toClient[a] # <<>>,
           Head(toClient[a]).type # "CREATE_LOCAL_NET_PLAYER",
           UNCHANGED <<players, link, toServer>>,
           toClient' = [toClient EXCEPT ![a] = Tail(@)],
           NEW list \in Seq(Avatar), Distinct(list),
           client' = [client EXCEPT ![a].avatars = list],
           NEW S, Carries(Tail(toClient[a]), ToSet(list), S, client[a].id),
           link[a] = "up" => S = World(a)
    PROVE  SessionInv'
<1>1. /\ client \in [Address -> ClientState]
      /\ toServer \in [Address -> Seq(Packets)]
      /\ toClient \in [Address -> Seq(WireMessage)]
      /\ Sound(a)
    BY DEF SessionInv, SessionTypes
<1>2. client[a].phase = "on" /\ client[a].id # NoId
    BY NextOnRecord
<1>3. /\ client' \in [Address -> ClientState]
      /\ client'[a] = [client[a] EXCEPT !.avatars = list]
      /\ \A b \in Address \ {a} : client'[b] = client[b]
    <2>1. client[a] \in ClientState
        BY <1>1
    <2>2. [client[a] EXCEPT !.avatars = list] \in ClientState
        BY <2>1 DEF ClientState
    <2>. QED BY <1>1, <2>2
<1>4. /\ client'[a].phase = client[a].phase /\ client'[a].id = client[a].id
      /\ client'[a].avatars = list /\ client'[a].loading = client[a].loading
    BY <1>1, <1>3 DEF ClientState
<1>5. Tail(toClient[a]) \in Seq(WireMessage)
    BY <1>1, TailTypes
<1>6. /\ toClient' \in [Address -> Seq(WireMessage)] /\ toClient'[a] = Tail(toClient[a])
      /\ \A b \in Address \ {a} : toClient'[b] = toClient[b]
    BY <1>1, <1>5
<1>7. Away(a)' /\ Arriving(a)' /\ Nameless(a)'
    BY <1>2, <1>4 DEF Away, Arriving, Nameless
<1>8. Named(a)'
    BY <1>1, <1>2, <1>4, <1>6, SameTable, TailTypes DEF Sound, Named
<1>9. OneAnnouncement(a)'
    BY <1>1, <1>4, SameTable DEF Sound, OneAnnouncement
<1>10. OnRecord(a)'
    BY <1>4, <1>6, SameTable DEF OnRecord
<1>11. Sound(a)'
    BY <1>7, <1>8, <1>9, <1>10 DEF Sound
<1>. QED BY <1>1, <1>3, <1>6, <1>11, GameKeeps

\* A movement that is read, or lost.
LEMMA SessionMovementRead ==
    ASSUME SessionInv, IInv', NEW a \in Address, toClient[a] # <<>>,
           Head(toClient[a]).type = "PLAYER_MOVEMENT",
           UNCHANGED <<players, link, client, toServer>>,
           toClient' = [toClient EXCEPT ![a] = Tail(@)]
    PROVE  SessionInv'
<1>1. PICK B, S : /\ Makes(ToSet(client[a].avatars), Head(toClient[a]), B)
                  /\ Carries(Tail(toClient[a]), B, S, client[a].id)
                  /\ link[a] = "up" => S = World(a)
    BY NextOnRecord
<1>2. B = ToSet(client[a].avatars)
    BY <1>1 DEF Makes
<1>3. client' = [client EXCEPT ![a].avatars = client[a].avatars]
    BY DEF SessionInv, SessionTypes, ClientState
<1>4. client[a].avatars \in Seq(Avatar) /\ Distinct(client[a].avatars)
    BY NextOnRecord
<1>. QED BY <1>1, <1>2, <1>3, <1>4, MessageRead

\* An announcement is read: no avatar has that id yet.
LEMMA SessionCreate ==
    ASSUME SessionInv, IInv', NEW a \in Address, CreateNetPlayer(a)
    PROVE  SessionInv'
<1>. DEFINE m == Head(toClient[a])
<1>1. /\ toClient[a] # <<>> /\ m.type = "CREATE_NET_PLAYER"
      /\ client' = [client EXCEPT ![a].avatars = Append(@, About(m))]
      /\ toClient' = [toClient EXCEPT ![a] = Tail(@)]
      /\ UNCHANGED <<players, link, toServer>>
    BY DEF CreateNetPlayer, Reads, vars, About
<1>. DEFINE list == client[a].avatars
            longer == Append(list, About(m))
<1>2. PICK B, S : /\ Makes(ToSet(list), m, B)
                  /\ Carries(Tail(toClient[a]), B, S, client[a].id)
                  /\ link[a] = "up" => S = World(a)
    BY <1>1, NextOnRecord
<1>3. m \in WireMessage /\ list \in Seq(Avatar) /\ Distinct(list)
    BY <1>1, NextOnRecord
<1>4. About(m) \in Avatar /\ About(m).id = m.id
    BY <1>1, <1>3 DEF About, Avatar, WireMessage
<1>5. client' = [client EXCEPT ![a].avatars = longer]
    BY <1>1
<1>. HIDE DEF m, list
<1>6. /\ \A e \in ToSet(list) : e.id # m.id
      /\ B = ToSet(list) \cup {About(m)}
    BY <1>1, <1>2 DEF Makes
<1>7. longer \in Seq(Avatar) /\ Distinct(longer) /\ ToSet(longer) = B
    BY <1>3, <1>4, <1>6, AvatarAdded
<1>. HIDE DEF longer
<1>8. Head(toClient[a]).type # "CREATE_LOCAL_NET_PLAYER"
    BY <1>1 DEF m
<1>. QED BY <1>1, <1>2, <1>5, <1>7, <1>8, MessageRead

\* A roster is read: the game has no avatars yet, and is not on the roster.
LEMMA SessionRoster ==
    ASSUME SessionInv, IInv', NEW a \in Address, CreateNetPlayers(a)
    PROVE  SessionInv'
<1>. DEFINE m == Head(toClient[a])
            list == client[a].avatars
            listed == SetToSeq(FromRoster(a, m.list))
<1>1. /\ toClient[a] # <<>> /\ m.type = "CREATE_NET_PLAYERS"
      /\ client' = [client EXCEPT ![a].avatars = list \o listed]
      /\ toClient' = [toClient EXCEPT ![a] = Tail(@)]
      /\ UNCHANGED <<players, link, toServer>>
    BY DEF CreateNetPlayers, Reads, vars
<1>2. PICK B, S : /\ Makes(ToSet(list), m, B) /\ Holdable(B, client[a].id)
                  /\ Carries(Tail(toClient[a]), B, S, client[a].id)
                  /\ link[a] = "up" => S = World(a)
    BY <1>1, NextOnRecord
<1>3. m \in WireMessage /\ list \in Seq(Avatar)
    BY <1>1, NextOnRecord
<1>4. B = m.list /\ B \in SUBSET Avatar /\ IsFiniteSet(B) /\ ToSet(list) = {}
    BY <1>1, <1>2, <1>3 DEF Makes, WireMessage
<1>5. list = <<>> /\ \A i : i \notin DOMAIN list
    <2>1. \A i \in DOMAIN list : list[i] \in ToSet(list)
        BY DEF ToSet
    <2>. HIDE DEF list
    <2>2. DOMAIN list = {}
        BY <1>4, <2>1
    <2>. QED BY <1>3, <2>2
<1>6. FromRoster(a, m.list) = B
    BY <1>2, <1>4, <1>5 DEF FromRoster, Knows, Holdable
<1>7. listed \in Seq(Avatar) /\ Distinct(listed) /\ ToSet(listed) = B
    BY <1>2, <1>4, <1>6, AvatarsListed DEF Holdable
<1>8. Head(toClient[a]).type # "CREATE_LOCAL_NET_PLAYER"
    BY <1>1
<1>. HIDE DEF m, list, listed
<1>9. list \o listed = listed
    BY <1>5, <1>7
<1>. QED BY <1>1, <1>2, <1>7, <1>8, <1>9, MessageRead

\* A departure is read: exactly the avatar of the person it is about goes.
LEMMA SessionDestroy ==
    ASSUME SessionInv, IInv', NEW a \in Address, DestroyNetPlayer(a)
    PROVE  SessionInv'
<1>. DEFINE m == Head(toClient[a])
            list == client[a].avatars
            shorter == Without(list, m.id)
<1>1. /\ toClient[a] # <<>> /\ m.type = "DESTROY_NET_PLAYER"
      /\ client' = [client EXCEPT ![a].avatars = shorter]
      /\ toClient' = [toClient EXCEPT ![a] = Tail(@)]
      /\ UNCHANGED <<players, link, toServer>>
    BY DEF DestroyNetPlayer, Reads, vars
<1>2. PICK B, S : /\ Makes(ToSet(list), m, B)
                  /\ Carries(Tail(toClient[a]), B, S, client[a].id)
                  /\ link[a] = "up" => S = World(a)
    BY <1>1, NextOnRecord
<1>3. m \in WireMessage /\ list \in Seq(Avatar) /\ Distinct(list)
    BY <1>1, NextOnRecord
<1>4. Head(toClient[a]).type # "CREATE_LOCAL_NET_PLAYER"
    BY <1>1
<1>. HIDE DEF m, list
<1>5. About(m) \in ToSet(list) /\ B = ToSet(list) \ {About(m)} /\ About(m).id = m.id
    BY <1>1, <1>2 DEF Makes, About
<1>6. shorter \in Seq(Avatar) /\ Distinct(shorter) /\ ToSet(shorter) = B
    BY <1>3, <1>5, AvatarRemoved
<1>. HIDE DEF shorter
<1>. QED BY <1>1, <1>2, <1>4, <1>6, MessageRead

\* The id is read: a game with a creature has its local player from here on.
LEMMA SessionNamed ==
    ASSUME SessionInv, IInv', NEW a \in Address, CreateLocalNetPlayer(a)
    PROVE  SessionInv'
<1>1. /\ client[a].phase = "on" /\ toClient[a] # <<>>
      /\ Head(toClient[a]).type = "CREATE_LOCAL_NET_PLAYER"
      /\ toClient' = [toClient EXCEPT ![a] = Tail(@)]
      /\ UNCHANGED <<players, link, toServer>>
    BY DEF CreateLocalNetPlayer, Reads, vars
<1>2. /\ client \in [Address -> ClientState]
      /\ toServer \in [Address -> Seq(Packets)]
      /\ toClient \in [Address -> Seq(WireMessage)]
      /\ Sound(a)
    BY DEF SessionInv, SessionTypes
<1>3. client[a].id = NoId
    BY <1>1, <1>2, TailTypes DEF Sound, Named
<1>4. PICK n \in NetworkId :
        /\ toClient[a] = <<[type |-> "CREATE_LOCAL_NET_PLAYER", id |-> n]>>
        /\ link[a] = "up" => \E e \in Members : e.who = a /\ e.id = n
    BY <1>1, <1>2, <1>3 DEF Sound, Nameless
<1>5. Tail(toClient[a]) = <<>> /\ Head(toClient[a]).id = n
    <2>. DEFINE m == [type |-> "CREATE_LOCAL_NET_PLAYER", id |-> n]
    <2>1. m.id = n /\ toClient[a] = <<m>>
        BY <1>4
    <2>. HIDE DEF m
    <2>2. Tail(<<m>>) = <<>> /\ Head(<<m>>) = m
        OBVIOUS
    <2>. QED BY <2>1, <2>2
<1>6. /\ toClient' \in [Address -> Seq(WireMessage)] /\ toClient'[a] = <<>>
      /\ \A b \in Address \ {a} : toClient'[b] = toClient[b]
    BY <1>1, <1>2, <1>5
<1>7. /\ ~client[a].loading /\ client[a].avatars = <<>> /\ ~InWorld(a)
      /\ ~Says(toServer[a], "CREATE_NET_PLAYER")
    BY <1>1, <1>2, <1>3 DEF Sound, Nameless
<1>8. World(a) = {} /\ ToSet(<<>>) = {} /\ \A own : Holdable({}, own)
    BY <1>7 DEF World, ToSet, Holdable, OneEach
<1>9. /\ client' \in [Address -> ClientState]
      /\ client'[a].phase = "on" /\ client'[a].avatars = <<>>
      /\ \/ client'[a].id = n
         \/ client'[a].id = NoId /\ ~client'[a].loading
      /\ \A b \in Address \ {a} : client'[b] = client[b]
    <2>1. client[a] \in ClientState
        BY <1>2
    <2>2. CASE client' = [client EXCEPT ![a].id = Head(toClient[a]).id, ![a].loading = TRUE]
        <3>. DEFINE c == [client[a] EXCEPT !.id = n, !.loading = TRUE]
        <3>1. c \in ClientState /\ c.phase = "on" /\ c.avatars = <<>> /\ c.id = n
            BY <1>1, <1>7, <2>1 DEF ClientState
        <3>2. client' = [client EXCEPT ![a] = c]
            BY <1>2, <1>5, <2>2
        <3>. HIDE DEF c
        <3>. QED BY <1>2, <3>1, <3>2
    <2>3. CASE client' = client
        BY <1>1, <1>2, <1>3, <1>7, <2>3
    <2>. QED BY <2>2, <2>3 DEF CreateLocalNetPlayer
<1>10. Away(a)' /\ Arriving(a)' /\ Nameless(a)'
    <2>1. n # NoId
        BY DEF NetworkId, NoId
    <2>. QED BY <1>1, <1>6, <1>7, <1>9, <2>1, SameTable DEF Away, Arriving, Nameless
<1>11. Named(a)'
    BY <1>1, <1>4, <1>6, <1>9, SameTable DEF Named
<1>12. OneAnnouncement(a)'
    BY <1>1, <1>2, <1>7, SameTable DEF Sound, OneAnnouncement
<1>13. OnRecord(a)'
    <2>1. Carries(<<>>, {}, {}, client'[a].id)
        BY <1>8, CarriesEmpty
    <2>2. Distinct(<<>>)
        BY DEF Distinct
    <2>. QED BY <1>1, <1>6, <1>8, <1>9, <2>1, <2>2, SameTable DEF OnRecord
<1>14. Sound(a)'
    BY <1>10, <1>11, <1>12, <1>13 DEF Sound
<1>. QED BY <1>1, <1>2, <1>6, <1>9, <1>14, GameKeeps

-----------------------------------------------------------------------------
(***************************************************************************)
(* The theorems.                                                           *)
(***************************************************************************)

\* Whatever the games and the channels do, the server of a session takes only
\* the steps that RelayServer describes.
LEMMA SessionStepIsRelayStep == [SNext]_sessionVars => [Next]_vars
<1>. SUFFICES ASSUME [SNext]_sessionVars PROVE [Next]_vars
    OBVIOUS
<1>1. CASE UNCHANGED sessionVars
    BY <1>1 DEF sessionVars
<1>2. ASSUME NEW a \in Address, ServerTakes(a) PROVE [Next]_vars
    <2>1. ASSUME NEW claimed \in NetworkId, NEW x \in Position,
                 HandleCreateNetPlayer(a, TRUE, claimed, x)
          PROVE  Next
        <3>1. Packet(a, TRUE)
            BY <2>1 DEF Packet
        <3>. QED BY <3>1 DEF Next
    <2>2. ASSUME NEW x \in Position, HandlePlayerMovement(a, TRUE, x) PROVE Next
        <3>1. Packet(a, TRUE)
            BY <2>2 DEF Packet
        <3>. QED BY <3>1 DEF Next
    <2>3. ASSUME Ignore(a, TRUE) PROVE Next
        <3>1. Packet(a, TRUE)
            BY <2>3 DEF Packet
        <3>. QED BY <3>1 DEF Next
    <2>4. ASSUME HandleConnectionNotification(a) PROVE Next
        BY <2>4 DEF Next
    <2>5. CASE ServerTakesNotification(a)
        BY <2>3, <2>4, <2>5 DEF ServerTakesNotification
    <2>6. CASE ServerTakesCreate(a)
        BY <2>1, <2>6 DEF ServerTakesCreate
    <2>7. CASE ServerTakesMovement(a)
        BY <2>2, <2>3, <2>7 DEF ServerTakesMovement
    <2>. QED BY <1>2, <2>5, <2>6, <2>7 DEF ServerTakes
<1>3. ASSUME NEW a \in Address, ServerHandlesDrop(a) PROVE [Next]_vars
    <2>1. Packet(a, TRUE)
        BY <1>3 DEF ServerHandlesDrop, Packet
    <2>. QED BY <2>1 DEF Next
<1>4. ASSUME NEW a \in Address, ConnectionEnds(a) \/ Connect(a) PROVE [Next]_vars
    BY <1>4 DEF ConnectionEnds, Connect, Next
<1>5. ASSUME NEW a \in Address,
             \/ MovementLost(a) \/ HandleConnectionRequestAccepted(a) \/ Disconnect(a)
             \/ BroadcastLocalNetPlayerMovement(a) \/ RegionLoaded(a) \/ ClientReads(a)
      PROVE  [Next]_vars
    BY <1>5 DEF MovementLost, HandleConnectionRequestAccepted, Disconnect,
        BroadcastLocalNetPlayerMovement, RegionLoaded, ClientReads, Reads,
        CreateLocalNetPlayer, CreateNetPlayer, CreateNetPlayers,
        ReceiveNetPlayerMovement, DestroyNetPlayer
<1>6. CASE ServerStops \/ ServerStarts
    BY <1>6 DEF ServerStops, ServerStarts, Next
<1>. QED BY <1>1, <1>2, <1>3, <1>4, <1>5, <1>6 DEF SNext

\* A session is a behaviour of the relay: what RelayServerProofs and
\* RelayPromiseProofs say of Spec holds in every session, reconnections during
\* a region load included.
THEOREM SessionImplementsRelay == SSpec => Spec
<1>1. SInit => Init
    BY DEF SInit
<1>. QED BY <1>1, SessionStepIsRelayStep, PTL DEF SSpec, Spec

\* With the games and both channels around it the relay keeps its promise:
\* through notifications, announcements and drops that come out of queues it
\* keeps everyone told of exactly the others in the world.
THEOREM SessionKeepsPresence == SSpec => ImplementsPresence
BY SessionImplementsRelay, RelayImplementsPresence, Zenon

\* Every step of a session preserves the invariant.
LEMMA SessionNext ==
    ASSUME ~StaleLoads
    PROVE  SessionInv /\ [SNext]_sessionVars => SessionInv'
<1>. SUFFICES ASSUME SessionInv, [SNext]_sessionVars PROVE SessionInv'
    OBVIOUS
<1>1. IInv'
    BY SessionStepIsRelayStep, NextIInv DEF SessionInv
<1>2. CASE UNCHANGED sessionVars
    <2>1. UNCHANGED <<players, link, client, toServer, toClient>>
        BY <1>2 DEF sessionVars, vars
    <2>2. \A b \in Address : Sound(b)'
        BY <1>1, <2>1, SameTable, PacketsGone DEF TakesAtMostOne
    <2>3. NobodyLeft' /\ SessionTypes'
        BY <2>1, SameTable DEF SessionInv, NobodyLeft, SessionTypes, ClientState, Avatar,
            NetworkId, Packets, WireMessage
    <2>. QED BY <1>1, <2>2, <2>3 DEF SessionInv
<1>3. ASSUME NEW a \in Address, MovementLost(a) PROVE SessionInv'
    <2>1. UNCHANGED <<players, link, client>>
        BY <1>3 DEF MovementLost, vars
    <2>2. CASE toClient[a] # <<>> /\ Head(toClient[a]).type = "PLAYER_MOVEMENT"
                /\ toClient' = [toClient EXCEPT ![a] = Tail(@)] /\ UNCHANGED toServer
        BY <1>1, <2>1, <2>2, SessionMovementRead
    <2>3. CASE toServer[a] # <<>> /\ toServer' = [toServer EXCEPT ![a] = Tail(@)]
                /\ UNCHANGED toClient
        <3>1. /\ client \in [Address -> ClientState]
              /\ toServer \in [Address -> Seq(Packets)]
              /\ toClient \in [Address -> Seq(WireMessage)]
            BY DEF SessionInv, SessionTypes
        <3>2. Tail(toServer[a]) \in Seq(Packets)
            BY <2>3, <3>1
        <3>3. /\ toServer' \in [Address -> Seq(Packets)] /\ toServer'[a] = Tail(toServer[a])
              /\ \A b \in Address \ {a} : toServer'[b] = toServer[b]
            BY <2>3, <3>1, <3>2
        <3>4. Sound(a)'
            BY <1>1, <2>1, <2>3, <3>3, SameTable, PacketsGone DEF TakesAtMostOne
        <3>. QED BY <1>1, <2>1, <2>3, <3>1, <3>3, <3>4, GameKeeps
    <2>. QED BY <1>3, <2>2, <2>3 DEF MovementLost
<1>4. ASSUME NEW a \in Address, ClientReads(a) PROVE SessionInv'
    <2>1. CASE ReceiveNetPlayerMovement(a)
        <3>1. /\ toClient[a] # <<>> /\ Head(toClient[a]).type = "PLAYER_MOVEMENT"
              /\ UNCHANGED <<players, link, client, toServer>>
              /\ toClient' = [toClient EXCEPT ![a] = Tail(@)]
            BY <2>1 DEF ReceiveNetPlayerMovement, Reads, vars
        <3>. QED BY <1>1, <3>1, SessionMovementRead
    <2>. QED BY <1>1, <1>4, <2>1, SessionNamed, SessionCreate, SessionRoster, SessionDestroy
            DEF ClientReads
<1>5. ASSUME NEW a \in Address,
             \/ ConnectionEnds(a) \/ Connect(a) \/ HandleConnectionRequestAccepted(a)
             \/ Disconnect(a) \/ BroadcastLocalNetPlayerMovement(a) \/ RegionLoaded(a)
      PROVE  SessionInv'
    BY <1>1, <1>5, SessionEnds, SessionConnect, SessionAccepted, SessionDisconnect,
        SessionBroadcast, SessionLoaded
<1>6. ASSUME NEW a \in Address, ServerTakes(a) \/ ServerHandlesDrop(a) PROVE SessionInv'
    BY <1>1, <1>6, SessionServer
<1>7. CASE ServerStops
    BY <1>1, <1>7, SessionStop DEF ServerStops
<1>8. CASE ServerStarts
    BY <1>1, <1>8, SessionStart DEF ServerStarts
<1>. QED BY <1>2, <1>3, <1>4, <1>5, <1>6, <1>7, <1>8 DEF SNext

\* Without reconnections during a region load, every state of a session
\* satisfies the invariant: in particular, what is queued for a connected game
\* leads it from the avatars it has to exactly the others in the world.
THEOREM SessionInductive ==
    ASSUME ~StaleLoads
    PROVE  SSpec => []SessionInv
BY SessionInit, SessionNext, PTL DEF SSpec

\* The games' state and both channels keep their types.
THEOREM SessionTypeCorrect ==
    ASSUME ~StaleLoads
    PROVE  SSpec => []SessionTypeOK
<1>1. SessionInv => SessionTypeOK
    BY DEF SessionInv, SessionTypes, SessionTypeOK, IInv, Sound, Away, ClientState, Packets
<1>. QED BY <1>1, SessionInductive, PTL

\* A game that reads a message about another player has its local player.
THEOREM LocalPlayerIsFirst ==
    ASSUME ~StaleLoads
    PROVE  SSpec => []LocalPlayerFirst
<1>1. SessionInv => LocalPlayerFirst
    BY NextOnRecord DEF LocalPlayerFirst
<1>. QED BY <1>1, SessionInductive, PTL

\* A connected client that the server takes to be in the world has its local
\* player.
THEOREM TheSpawnedHaveLocalPlayers ==
    ASSUME ~StaleLoads
    PROVE  SSpec => []SpawnedHasLocalPlayer
<1>1. SessionInv => SpawnedHasLocalPlayer
    BY DEF SessionInv, Sound, Nameless, SpawnedHasLocalPlayer
<1>. QED BY <1>1, SessionInductive, PTL

\* No game ever holds two avatars of one id, nor one of its own.
THEOREM AvatarsAreOneEach ==
    ASSUME ~StaleLoads
    PROVE  SSpec => []OneAvatarEach
<1>1. SessionInv => OneAvatarEach
    <2>. SUFFICES ASSUME SessionInv, NEW a \in Address
                  PROVE  LET list == client[a].avatars
                         IN  /\ \A i, j \in DOMAIN list : list[i].id = list[j].id => i = j
                             /\ \A i \in DOMAIN list : list[i].id # client[a].id
        BY DEF OneAvatarEach
    <2>1. Sound(a) /\ toClient[a] \in Seq(WireMessage)
        BY DEF SessionInv, SessionTypes
    <2>2. Distinct(client[a].avatars)
        BY <2>1 DEF Sound, OnRecord
    <2>3. \A i \in DOMAIN client[a].avatars : client[a].avatars[i].id # client[a].id
        <3>1. CASE client[a].phase = "off"
            <4>1. client[a].avatars = <<>> /\ \A i : i \notin DOMAIN <<>>
                BY <2>1, <3>1 DEF Sound, Away
            <4>. QED BY <4>1
        <3>2. CASE client[a].phase # "off"
            <4>1. Holdable(ToSet(client[a].avatars), client[a].id)
                BY <2>1, <3>2, CarriesHoldable DEF Sound, OnRecord
            <4>. QED BY <4>1 DEF Holdable, ToSet
        <3>. QED BY <3>1, <3>2
    <2>. QED BY <2>2, <2>3 DEF Distinct
<1>. QED BY <1>1, SessionInductive, PTL

\* Movement and departure are applied to the avatar of the person they are
\* about, never to one that took over the id.
THEOREM AlwaysTheRightPerson ==
    ASSUME ~StaleLoads
    PROVE  SSpec => []RightPerson
<1>1. SessionInv => RightPerson
    <2>. SUFFICES ASSUME SessionInv, NEW a \in Address, toClient[a] # <<>>,
                         Head(toClient[a]).type \in {"PLAYER_MOVEMENT", "DESTROY_NET_PLAYER"},
                         NEW i \in DOMAIN client[a].avatars,
                         client[a].avatars[i].id = Head(toClient[a]).id
                  PROVE  client[a].avatars[i].who = Head(toClient[a]).who
        BY DEF RightPerson
    <2>1. /\ Head(toClient[a]).type # "CREATE_LOCAL_NET_PLAYER"
          /\ \E B : Makes(ToSet(client[a].avatars), Head(toClient[a]), B)
          /\ Distinct(client[a].avatars)
        BY NextOnRecord
    <2>2. PICK j \in DOMAIN client[a].avatars : client[a].avatars[j] = About(Head(toClient[a]))
        BY <2>1 DEF Makes, ToSet
    <2>3. /\ client[a].avatars[j].id = Head(toClient[a]).id
          /\ client[a].avatars[j].who = Head(toClient[a]).who
        BY <2>2 DEF About
    <2>. QED BY <2>1, <2>3 DEF Distinct
<1>. QED BY <1>1, SessionInductive, PTL

\* A connected game that has read all it was sent has exactly the avatars of
\* the other players in the world, each under the right id.
THEOREM AvatarsAreExact ==
    ASSUME ~StaleLoads
    PROVE  SSpec => []AvatarsAreTheWorld
<1>1. SessionInv => AvatarsAreTheWorld
    <2>. SUFFICES ASSUME SessionInv, NEW a \in Address,
                         client[a].phase = "on", link[a] = "up", toClient[a] = <<>>
                  PROVE  ToSet(client[a].avatars) =
                            {[id |-> p.id, who |-> p.addr] :
                                p \in {q \in Spawned(players) : q.addr # a /\ InWorld(a)}}
        BY DEF AvatarsAreTheWorld
    <2>1. Carries(<<>>, ToSet(client[a].avatars), World(a), client[a].id)
        BY DEF SessionInv, Sound, OnRecord
    <2>2. ToSet(client[a].avatars) = World(a)
        BY <2>1, CarriesNothing
    <2>3. World(a) = {Entry(p) : p \in {q \in Spawned(players) : q.addr # a /\ InWorld(a)}}
        <3>1. \A p : Entry(p).who = p.addr
            BY DEF Entry
        <3>. QED BY <3>1 DEF World, Inhabitants
    <2>. QED BY <2>2, <2>3 DEF Entry
<1>. QED BY <1>1, SessionInductive, PTL
=============================================================================
