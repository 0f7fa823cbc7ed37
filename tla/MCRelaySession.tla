---------------------------- MODULE MCRelaySession ----------------------------
(***************************************************************************)
(* Instances of RelaySession for TLC.                                      *)
(***************************************************************************)
EXTENDS RelaySession

CONSTANTS a1, a2, a3, x1

Addresses2 == {a1, a2}
Addresses3 == {a1, a2, a3}
OnePosition == {x1}

\* `sent` only tells a step's answers to Post; no invariant depends on it.
View == <<running, players, link, persisted, told, client, toServer, toClient>>

Symmetry == Permutations(Address)
=============================================================================
