-------------------------------- MODULE Truss --------------------------------
(***************************************************************************)
(* Supports and trussness, the values every engine of the repository       *)
(* computes.  A graph is a set of edges; which edges form triangles is     *)
(* given once, for the complete edge set.                                  *)
(***************************************************************************)
EXTENDS Naturals, FiniteSets

CONSTANTS
  Edge,          \* the vertex pairs an edge may join
  Triangle,      \* the sets of three edges that close a triangle
  Trussness      \* the trussness of every edge of every graph, see below

ASSUME TriangleAssumption ==
  /\ IsFiniteSet(Edge)
  /\ \A t \in Triangle : t \subseteq Edge /\ Cardinality(t) = 3
  /\ \A s, t \in Triangle : \A e, f \in s \cap t : e # f => s = t

\* The triangles of graph G that edge e closes (common_neighbors).
TrianglesAt(G, e) == {t \in Triangle : e \in t /\ t \subseteq G}

\* The other edges of those triangles.
Mates(G, e) == (UNION TrianglesAt(G, e)) \ {e}

\* Support of an edge in a graph.
Sup(G, e) == Cardinality(TrianglesAt(G, e))

\* Every edge closes at least k - 2 triangles within S.
Dense(S, k) == \A e \in S : Sup(S, e) + 2 >= k

\* The k-truss: the largest dense subgraph.
KTruss(G, k) == UNION {S \in SUBSET G : Dense(S, k)}

\* k is the trussness of e in G: the largest k whose k-truss has e.
IsTrussness(G, e, k) == e \in KTruss(G, k) /\ e \notin KTruss(G, k + 1)

\* The trussness of every edge of every graph.  The constant of that value lets
\* TLC compute the table once.
TrussnessTable ==
  [G \in SUBSET Edge |->
    [e \in G |-> CHOOSE k \in 2 .. Sup(G, e) + 2 : IsTrussness(G, e, k)]]

ASSUME TrussnessAssumption == Trussness = TrussnessTable
=============================================================================
