------------------------------- MODULE Presence -------------------------------
(***************************************************************************)
(* What a session server promises: people arrive, enter the shared world   *)
(* and leave it, and everyone in the world sees exactly the others in it,  *)
(* at every moment.  No ids, no messages, no table.                        *)
(***************************************************************************)
EXTENDS Naturals

CONSTANTS Person

VARIABLES
    present,   \* those who have arrived and not left
    inWorld,   \* those of them who are in the world
    sees       \* sees[x]: the people x sees

vars == <<present, inWorld, sees>>

\* What everyone sees when the people of w are in the world.
Views(w) == [x \in Person |-> IF x \in w THEN w \ {x} ELSE {}]

Init ==
    /\ present = {}
    /\ inWorld = {}
    /\ sees = Views({})

Arrive(x) ==
    /\ x \notin present
    /\ present' = present \cup {x}
    /\ UNCHANGED <<inWorld, sees>>

Enter(x) ==
    /\ x \in present \ inWorld
    /\ inWorld' = inWorld \cup {x}
    /\ sees' = Views(inWorld')
    /\ UNCHANGED present

Leave(x) ==
    /\ x \in present
    /\ present' = present \ {x}
    /\ inWorld' = inWorld \ {x}
    /\ sees' = Views(inWorld')

Close ==
    /\ present' = {}
    /\ inWorld' = {}
    /\ sees' = Views({})

Next ==
    \/ \E x \in Person : Arrive(x) \/ Enter(x) \/ Leave(x)
    \/ Close

Spec == Init /\ [][Next]_vars
=============================================================================
