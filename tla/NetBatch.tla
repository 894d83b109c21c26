------------------------------ MODULE NetBatch ------------------------------
(***************************************************************************)
(* What a batch of edge operations means to every engine (apply_batch,     *)
(* batch.h): all of its operations are judged against the graph before the *)
(* batch, and of two operations on one edge the one without effect there   *)
(* is dropped.                                                             *)
(***************************************************************************)
EXTENDS Naturals, FiniteSets

CONSTANT Edge      \* the vertex pairs an edge may join

Op == [del : BOOLEAN, edge : Edge]

Removed(G, b) == {e \in G : [del |-> TRUE, edge |-> e] \in b}
Added(G, b) == {op.edge : op \in {o \in b : ~o.del /\ o.edge \notin G}}
Net(G, b) == (G \ Removed(G, b)) \cup Added(G, b)
=============================================================================
