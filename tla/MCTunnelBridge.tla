---------------------------- MODULE MCTunnelBridge ----------------------------
(***************************************************************************)
(* An instance of TunnelBridge for TLC: two games with two ports each,     *)
(* queues of one datagram.                                                 *)
(***************************************************************************)
EXTENDS TunnelBridge

CONSTANTS g1, g2, p1, p2

Games2 == {g1, g2}
Ports2 == {p1, p2}
=============================================================================
