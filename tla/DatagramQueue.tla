---------------------------- MODULE DatagramQueue ----------------------------
(***************************************************************************)
(* What a tunnel promises in one direction: datagrams come out whole, once *)
(* and in the order they went in, until the connection is lost.            *)
(***************************************************************************)
EXTENDS Sequences

CONSTANTS Item

VARIABLES
    queue,   \* what has gone in and not come out
    last     \* what came out last

Put(d) == queue' = Append(queue, d) /\ UNCHANGED last

Get == queue # <<>> /\ last' = Head(queue) /\ queue' = Tail(queue)

Init == queue = <<>> /\ last = <<>>

Next == Get \/ \E d \in Item : Put(d)

Spec == Init /\ [][Next]_<<queue, last>>
=============================================================================
