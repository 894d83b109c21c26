--------------------------- MODULE MaintainedTruss ---------------------------
(***************************************************************************)
(* What a maintainer of trussness promises its owner: batches of edge      *)
(* operations are applied one at a time, and between two batches the owner *)
(* sees the net graph of all batches so far together with the trussness of *)
(* every edge of that graph.                                               *)
(***************************************************************************)
EXTENDS NetBatch

CONSTANTS
  Trussness,       \* [SUBSET Edge -> [edges -> Nat]]: the trussness of a graph
  InitialGraphs,   \* the graphs a maintainer may be built for
  Batches          \* the batches an owner may hand over: non-empty sets of operations

VARIABLES
  graph,           \* the edges the owner sees
  truss,           \* their trussness
  batch            \* the operations being applied, {} between batches

maintainedVars == <<graph, truss, batch>>

Init ==
  /\ graph \in InitialGraphs
  /\ truss = Trussness[graph]
  /\ batch = {}

Begin ==
  /\ batch = {}
  /\ batch' \in Batches
  /\ UNCHANGED <<graph, truss>>

End ==
  /\ batch # {}
  /\ graph' = Net(graph, batch)
  /\ truss' = Trussness[graph']
  /\ batch' = {}

Next == Begin \/ End

Safety == Init /\ [][Next]_maintainedVars

\* A batch that has begun comes to its end (with weak fairness of End instead
\* the specification is the same).
Returns == batch # {} ~> batch = {}

Spec == Safety /\ Returns
=============================================================================
