----------------------------- MODULE MCHostServer -----------------------------
(***************************************************************************)
(* An instance of HostServer for TLC.                                     *)
(***************************************************************************)
EXTENDS HostServer, TLC

CONSTANTS a1, a2, a3

Addresses3 == {a1, a2, a3}

\* Clients are interchangeable: no definition names one.
Symmetry == Permutations(Address)
=============================================================================
