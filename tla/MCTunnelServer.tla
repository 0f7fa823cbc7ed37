---------------------------- MODULE MCTunnelServer ----------------------------
(***************************************************************************)
(* Instances of TunnelServer for TLC.                                      *)
(***************************************************************************)
EXTENDS TunnelServer

CONSTANTS c1, c2, c3

Conns2 == {c1, c2}
Conns3 == {c1, c2, c3}
=============================================================================
