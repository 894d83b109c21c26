----------------------------- MODULE MCStreams -----------------------------
(* Streams: graphs on four vertices, one of them in a self-loop row only, and *)
(* all logs of four rows over four pairs, out of time order.                  *)
EXTENDS Streams

MCEdge == {p \in SUBSET (0 .. 4) : Cardinality(p) = 2}

MCGraphFiles ==
  {<<<<7, 3>>, <<5, 7>>, <<3, 5>>, <<5, 9>>>>,
   <<<<9, 9>>, <<5, 7>>, <<7, 5>>, <<3, 7>>>>}

MCLogs == {[k \in 1 .. 4 |-> <<k % 2>> \o p[k]] :
             p \in [1 .. 4 -> {<<1, 2>>, <<2, 1>>, <<2, 3>>, <<3, 3>>}]}

\* A log whose first three rows load in another order than they were written:
\* snap numbers 10, 20, 30, 40 as 0 .. 3, and lists 0-3 before 2-3.
MCReplayLogs == {<<<<1, 10, 20>>, <<2, 30, 40>>, <<3, 10, 40>>, <<4, 10, 30>>>>}
=============================================================================
