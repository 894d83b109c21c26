-------------------------- MODULE PerEdgeMaintainer --------------------------
(***************************************************************************)
(* PerEdgeMaintainer (incremental.h): the sequential engine, one operation *)
(* at a time.  An insertion tentatively raises the trussness of everything *)
(* triangle-connected to the new edge by one; then, as after a deletion,   *)
(* edges are re-evaluated (eval_trussness, fixpoint.h) and lowered until   *)
(* nothing changes.                                                        *)
(*                                                                         *)
(* The arrays are indexed by the edge: an id is recycled with tau and sup  *)
(* at zero and no flag set.  The work queue is a set: the order of the     *)
(* code's queue depends on the adjacency lists, and the model allows every *)
(* order.  inq is membership in it and inreg membership in region.         *)
(***************************************************************************)
EXTENDS Truss, Integers

CONSTANTS
  InitialGraphs,   \* the graphs an engine may be built for
  MaxOps,          \* bound: operations applied
  EvalLimit        \* eval_trussness considers no level above it (65000 in the code)

ASSUME PerEdgeAssumption ==
  /\ \A e \in Edge : Cardinality(e) = 2
  /\ \A t \in Triangle : \A e, f \in t : e \cap f # {}
  /\ InitialGraphs \subseteq SUBSET Edge
  /\ MaxOps \in Nat
  /\ EvalLimit \in Nat /\ \A e \in Edge : Sup(Edge, e) + 2 < EvalLimit

VARIABLES
  phase,           \* "idle", "close" (insertion), "demote" or "return"
  graph,           \* the live edges
  tau, sup,        \* [Edge -> Nat], 0 for edges that are not live
  queue,
  region,
  op, ops,         \* the operation being applied and the number of them so far
  view             \* what the owner sees between operations

vars == <<phase, graph, tau, sup, queue, region, op, ops, view>>

Smaller(a, b) == IF a < b THEN a ELSE b
Largest(S) == CHOOSE m \in S : \A k \in S : k <= m

-----------------------------------------------------------------------------
(* eval_trussness *)

\* The level each triangle of e has: the smaller tau of its other edges.
TriangleLevel(e, t) == CHOOSE k \in {tau[f] : f \in t \ {e}} : \A f \in t \ {e} : k <= tau[f]

\* The levels of e's triangles, and the last place of level k among them when
\* they are sorted, highest first (mbuf).
LevelsAt(e) == {TriangleLevel(e, t) : t \in TrianglesAt(graph, e)}
Place(e, k) == Cardinality({t \in TrianglesAt(graph, e) : TriangleLevel(e, t) >= k})

\* Mutant: the place of a triangle is counted from zero.
EvalShort(e) ==
  Largest({2} \cup {Smaller(k, Smaller(Place(e, k) + 1, EvalLimit)) : k \in LevelsAt(e)})

\* The loop takes the best of min(level, place + 2) over the sorted triangles;
\* among equal levels the last place is the best.
Eval(e) ==
  Largest({2} \cup {Smaller(k, Smaller(Place(e, k) + 2, EvalLimit)) : k \in LevelsAt(e)})

-----------------------------------------------------------------------------

Init ==
  /\ phase = "idle"
  /\ graph \in InitialGraphs
  /\ tau = [e \in Edge |-> IF e \in graph THEN Trussness[graph][e] ELSE 0]
  /\ sup = [e \in Edge |-> IF e \in graph THEN Sup(graph, e) ELSE 0]
  /\ queue = {} /\ region = {}
  /\ op = {} /\ ops = 0
  /\ view = [graph |-> graph, truss |-> Trussness[graph]]

\* The owner calls insert or remove.
Call(del, e) ==
  /\ phase = "idle"
  /\ ops < MaxOps
  /\ ops' = ops + 1
  /\ op' = {[del |-> del, edge |-> e]}
  /\ UNCHANGED view

\* insert of an edge that is there, remove of one that is not.
Refused(del, e) ==
  /\ Call(del, e)
  /\ del # (e \in graph)
  /\ phase' = "return"
  /\ UNCHANGED <<graph, tau, sup, queue, region>>

-----------------------------------------------------------------------------
(* insert *)

\* The highest trussness a new edge with these triangles can have.
Ceiling(e, triangles) ==
  IF triangles = {} THEN 2
  ELSE Smaller(Cardinality(triangles) + 2, Largest({TriangleLevel(e, t) : t \in triangles}) + 1)

\* An edge rises by one unless its support, by now counted anew, forbids it.
Raised(f, support) ==
  LET c == Smaller(support + 2, tau[f] + 1)
  IN IF c > tau[f] THEN c ELSE tau[f]

InsertEdge(e) ==
  /\ Call(FALSE, e)
  /\ e \notin graph
  /\ LET triangles == TrianglesAt(graph \cup {e}, e)
         mates == Mates(graph \cup {e}, e)
         risen == {f \in mates : Raised(f, sup[f] + 1) > tau[f]}
     IN /\ sup' = [f \in Edge |-> IF f = e THEN Cardinality(triangles)
                                  ELSE IF f \in mates THEN sup[f] + 1 ELSE sup[f]]
        /\ tau' = [f \in Edge |-> IF f = e THEN Ceiling(e, triangles)
                                  ELSE IF f \in risen THEN Raised(f, sup[f] + 1) ELSE tau[f]]
        /\ region' = {e} \cup risen
        /\ queue' = risen
  /\ graph' = graph \cup {e}
  /\ phase' = "close"

\* The edges the closure has not met before it takes f from the queue.
Reached(f) == Mates(graph, f) \ region

\* One iteration of the closure's loop.
Close(f) ==
  /\ phase = "close"
  /\ f \in queue
  /\ tau' = [g \in Edge |-> IF g \in Reached(f) THEN Raised(g, sup[g]) ELSE tau[g]]
  /\ region' = region \cup Reached(f)
  /\ queue' = (queue \ {f}) \cup Reached(f)
  /\ UNCHANGED <<phase, graph, sup, op, ops, view>>

\* The whole region is to be evaluated.
Closed ==
  /\ phase = "close"
  /\ queue = {}
  /\ queue' = region
  /\ phase' = "demote"
  /\ UNCHANGED <<graph, tau, sup, region, op, ops, view>>

-----------------------------------------------------------------------------
(* remove *)

\* Mutant: the supports of the mates are not lowered.
LostNone(e, f) == 0

\* What the support of f loses when e goes.
Lost(e, f) == IF f \in Mates(graph, e) /\ sup[f] > 0 THEN 1 ELSE 0

RemoveEdge(e) ==
  /\ Call(TRUE, e)
  /\ e \in graph
  /\ sup' = [f \in Edge |-> IF f = e THEN 0 ELSE sup[f] - Lost(e, f)]
  /\ tau' = [tau EXCEPT ![e] = 0]
  /\ queue' = Mates(graph, e)
  /\ graph' = graph \ {e}
  /\ phase' = "demote"
  /\ UNCHANGED region

-----------------------------------------------------------------------------
(* fixpoint *)

\* Mutant: only one endpoint's edges are put back.
IncidentToOne(f) == {g \in graph : (CHOOSE v \in f : TRUE) \in g}

\* The live edges at the endpoints of f, f included (push_incident).
Incident(f) == {g \in graph : f \cap g # {}}

\* Mutant: the edges around f are put back whether or not f has changed.
DemoteAlways(f) ==
  /\ phase = "demote"
  /\ f \in queue
  /\ tau' = [tau EXCEPT ![f] = Smaller(Eval(f), tau[f])]
  /\ queue' = Incident(f)
  /\ UNCHANGED <<phase, graph, sup, region, op, ops, view>>

\* One iteration of the loop: f is evaluated, and if it falls, the edges around
\* it are queued again.
Demote(f) ==
  /\ phase = "demote"
  /\ f \in queue
  /\ \E nt \in {Eval(f)} :
       \/ /\ nt < tau[f]
          /\ tau' = [tau EXCEPT ![f] = nt]
          /\ queue' = (queue \ {f}) \cup Incident(f)
       \/ /\ nt >= tau[f]
          /\ queue' = queue \ {f}
          /\ UNCHANGED tau
  /\ UNCHANGED <<phase, graph, sup, region, op, ops, view>>

Settled ==
  /\ phase = "demote"
  /\ queue = {}
  /\ region' = {}
  /\ phase' = "return"
  /\ UNCHANGED <<graph, tau, sup, queue, op, ops, view>>

ReturnOp ==
  /\ phase = "return"
  /\ phase' = "idle"
  /\ op' = {}
  /\ view' = [graph |-> graph, truss |-> [e \in graph |-> tau[e]]]
  /\ UNCHANGED <<graph, tau, sup, queue, region, ops>>

-----------------------------------------------------------------------------

OpStep ==
  \/ \E f \in queue : Close(f) \/ Demote(f)
  \/ Closed \/ Settled \/ ReturnOp

\* The stream is at its end.
StreamEnds == phase = "idle" /\ ops = MaxOps /\ UNCHANGED vars

Next ==
  \/ \E e \in Edge : InsertEdge(e) \/ RemoveEdge(e) \/ \E del \in BOOLEAN : Refused(del, e)
  \/ OpStep
  \/ StreamEnds

Safety == Init /\ [][Next]_vars

\* The engine's thread runs until the operation returns.
Spec == Safety /\ WF_vars(OpStep)

-----------------------------------------------------------------------------
(* Properties *)

\* Types of the engine's state.
TypeOK ==
  /\ phase \in {"idle", "close", "demote", "return"}
  /\ {graph, queue, region} \subseteq SUBSET Edge
  /\ tau \in [Edge -> Nat] /\ sup \in [Edge -> Nat]
  /\ op \subseteq [del : BOOLEAN, edge : Edge]
  /\ ops \in Nat

\* eval_trussness finds the largest k for which k - 2 triangles have level k,
\* also when that k is not the level of any triangle.
EvalExact ==
  \A e \in graph :
    LET best == Eval(e)
        holds(k) == Place(e, k) + 2 >= k
    IN holds(best) /\ \A k \in (best + 1) .. (Sup(graph, e) + 2) : ~holds(k)

\* Demotion works from above: the tentative rise reaches at least the trussness
\* every edge ends with, and no evaluation order falls below it.
NeverBelow ==
  phase = "demote" => \A e \in graph : tau[e] >= Trussness[graph][e]

\* Nothing is forgotten: an edge that is not queued has no evaluation below its
\* value, however the region was built and in whatever order it was lowered.
Unsettled ==
  phase = "demote" => \A e \in graph \ queue : tau[e] <= Eval(e)

\* The supports, which cap the next rise, are those of the current graph.
SupportsExact == \A e \in graph : sup[e] = Sup(graph, e)

\* The owner's view is that before the operation, and the graph is already the net one.
OwnerSees ==
  /\ view.graph \subseteq Edge
  /\ view = [graph |-> view.graph, truss |-> Trussness[view.graph]]
  /\ phase = "idle" => op = {} /\ graph = view.graph
  /\ phase # "idle" =>
       \E o \in [del : BOOLEAN, edge : Edge] :
         /\ op = {o}
         /\ graph = IF o.del THEN view.graph \ {o.edge} ELSE view.graph \cup {o.edge}

\* Where no operation is at work on them, the values are the trussness.
SettledExact ==
  phase \in {"idle", "return"} => \A e \in graph : tau[e] = Trussness[graph][e]

\* During the rise the region grows from the new edge over triangles, with what is
\* left to do in the queue; inside it no value is too low, outside all are the old ones.
Rising ==
  phase = "close" =>
    /\ queue \subseteq region /\ region \subseteq graph
    /\ \E e \in region : e \notin view.graph /\ graph = view.graph \cup {e}
    /\ \A f \in region \ queue : Mates(graph, f) \subseteq region
    /\ \A f \in region : tau[f] >= Trussness[graph][f]
    /\ \A f \in graph \ region : tau[f] = Trussness[view.graph][f]

\* What every step keeps.  The rise makes what the demotion starts from: values
\* between the trussness and, but for the queued edges, their evaluation; and the
\* end of the demotion is exact because of both (incremental.h:61).
IInv ==
  /\ TypeOK /\ OwnerSees /\ SupportsExact
  /\ SettledExact /\ Rising /\ NeverBelow /\ Unsettled

\* The engine implements the maintainer's contract, with one operation in a
\* batch: after every operation the owner sees the exact trussness, and every
\* operation returns.  MaintainedSafety leaves the last part out.
Maintained == INSTANCE MaintainedTruss
                WITH graph <- view.graph, truss <- view.truss, batch <- op,
                     Batches <- {{o} : o \in [del : BOOLEAN, edge : Edge]}

MaintainedSafety == Maintained!Safety
MaintainedSpec == Maintained!Spec
=============================================================================
