---------------------------- MODULE MCServerProcess ----------------------------
(***************************************************************************)
(* An instance of ServerProcess for TLC: one connection, two deployments,  *)
(* environments at the edges of Config, and three positions: one of six    *)
(* digits, one that is printed as the same digits, and one with a NaN.     *)
(***************************************************************************)
EXTENDS ServerProcess

CONSTANTS c1, short, long, strange, digits, words

Conns == {c1}
Spots == {short, long, strange}
Lines == {digits, words}
Printing == [s \in Spots |-> IF s = strange THEN words ELSE digits]
Scanning == [t \in Lines |-> IF t = words THEN NoSpot ELSE short]
Edges == {-1, 0, 1, 1000, 8079, 65535}

\* Nothing is set but the number of players: one.
Plain ==
    [gamePort |-> Unset, tunnelPort |-> Unset, railwayPort |-> Unset,
     statusPort |-> Unset, maxPlayers |-> 1, tickHz |-> Unset, tunnel |-> Unset]

\* The bump of the tunnel's port wraps around.
Wrapping ==
    [Plain EXCEPT !.gamePort = 65535, !.tunnelPort = 65535, !.maxPlayers = 0,
                  !.tickHz = 1000]

\* The bump takes the port of the status page.
Colliding ==
    [Plain EXCEPT !.gamePort = 8079, !.railwayPort = 8079, !.maxPlayers = -1,
                  !.tickHz = Garbage]

\* No tunnel.
Direct == [Plain EXCEPT !.tunnel = FALSE, !.tickHz = -1]

Samples == {Plain, Wrapping, Colliding, Direct}
=============================================================================
