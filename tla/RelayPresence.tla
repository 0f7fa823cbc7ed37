---------------------------- MODULE RelayPresence ----------------------------
(***************************************************************************)
(* The relay server implements Presence: the ids it hands out, recycles    *)
(* and announces stand for people.                                         *)
(***************************************************************************)
EXTENDS RelayServer

\* The people an address takes the ids it has been told of for.
SeenBy(a) == {p.addr : p \in {q \in players : q.id \in told[a]}}

P == INSTANCE Presence WITH
        Person  <- Address,
        present <- {p.addr : p \in players},
        inWorld <- {p.addr : p \in Spawned(players)},
        sees    <- [a \in Address |-> SeenBy(a)]

\* Every packet the server handles is an arrival, an entry or a departure of
\* one person, or changes nothing: through RelayExcept, SendRoster and the
\* recycling of ids, everyone sees exactly the others in the world.
ImplementsPresence == P!Spec
=============================================================================
