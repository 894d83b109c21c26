------------------------------ MODULE MCPerEdge ------------------------------
(* PerEdgeMaintainer, from a triangle with a tail, two triangles with a       *)
(* common edge, the complete graph on 1234, and that with a fifth vertex      *)
(* joined to 1 and 2, with and without the edge 12, which closes three        *)
(* triangles.  The operations range over all edges of the last.               *)
EXTENDS PerEdgeMaintainer

Pairs(V) == {p \in SUBSET V : Cardinality(p) = 2}

MCEdge == Pairs(1 .. 5) \ {{3, 5}, {4, 5}}
MCTriangle == {t \in {Pairs(c) : c \in {c \in SUBSET (1 .. 5) : Cardinality(c) = 3}} : t \subseteq MCEdge}
MCTrussness == TrussnessTable

K4 == Pairs(1 .. 4)
MCGraphs ==
  {Pairs(1 .. 3) \cup {{3, 4}}, K4 \ {{1, 2}}, K4, MCEdge, MCEdge \ {{1, 2}}}
=============================================================================
