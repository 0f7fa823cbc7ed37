---------------------------- MODULE MCRelayServer ----------------------------
(***************************************************************************)
(* Instances of RelayServer for TLC.                                       *)
(***************************************************************************)
EXTENDS RelayPresence, TLC

CONSTANTS a1, a2, a3, a4, x1, x2

Addresses2 == {a1, a2}
Addresses4 == {a1, a2, a3, a4}
OnePosition == {x1}
TwoPositions == {x1, x2}

\* Clients are interchangeable: no definition names one.
Symmetry == Permutations(Address)
=============================================================================
