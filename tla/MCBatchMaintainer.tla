-------------------------- MODULE MCBatchMaintainer --------------------------
(* BatchMaintainer on the complete graph of the vertices 1234 and a vertex 5  *)
(* joined to 1 and 2.  A file lists the edges of its graph in some order;     *)
(* each graph on four vertices comes in an order and in the reverse of it.    *)
EXTENDS BatchInvariant

Pairs(V) == {p \in SUBSET V : Cardinality(p) = 2}
TrianglesIn(E) == {t \in {Pairs(c) : c \in kSubset(3, 1 .. 5)} : t \subseteq E}

FourEdge == Pairs(1 .. 4)
FourTriangle == TrianglesIn(FourEdge)
FiveEdge == FourEdge \cup {{1, 5}, {2, 5}}
FiveTriangle == TrianglesIn(FiveEdge)
MCTrussness == TrussnessTable

\* One graph of each isomorphism class on four vertices.
Classes ==
  {{}, {{1, 2}}, {{1, 2}, {3, 4}}, {{1, 2}, {2, 3}}, Pairs(1 .. 3),
   {{1, 2}, {1, 3}, {1, 4}}, {{1, 2}, {2, 3}, {3, 4}},
   {{1, 2}, {2, 3}, {3, 4}, {1, 4}}, Pairs(1 .. 3) \cup {{3, 4}},
   FourEdge \ {{1, 2}}, FourEdge}

\* On five vertices a region can be a proper part of the graph; the edge 12
\* closes three triangles when it comes back.
AllFiles ==
  UNION {{SetToSeq(G), Reverse(SetToSeq(G))} : G \in Classes}
    \cup {SetToSeq(H) \o <<{1, 5}, {2, 5}>> : H \in {FourEdge, FourEdge \ {{1, 2}}}}

\* Two triangles with a common edge.
DiamondFile == {SetToSeq(FourEdge \ {{1, 2}})}

UpTo(k, E) == {b \in SUBSET [del : BOOLEAN, edge : E] : Cardinality(b) \in 1 .. k}

\* Up to three operations on four vertices, up to two on five.
AllBatches == UpTo(3, FourEdge) \cup UpTo(2, FiveEdge)
PairBatches == UpTo(2, FourEdge)
=============================================================================
