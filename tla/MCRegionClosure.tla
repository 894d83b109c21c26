--------------------------- MODULE MCRegionClosure ---------------------------
(* A strip of three triangles 123, 234, 345 with the pair 14, which is no     *)
(* edge of it, and the K4 on 1234 with an edge to 5: seeds at one end, at     *)
(* both ends, in the middle, and none alive.                                  *)
EXTENDS RegionClosure

Pairs(V) == {p \in SUBSET V : Cardinality(p) = 2}
MCEdge == {{1, 2}, {1, 3}, {2, 3}, {2, 4}, {3, 4}, {3, 5}, {4, 5}, {1, 4}}
MCTriangle == {t \in {Pairs(c) : c \in {c \in SUBSET (1 .. 5) : Cardinality(c) = 3}} : t \subseteq MCEdge}
MCTrussness == TrussnessTable

Strip == MCEdge \ {{1, 4}}
K4 == Pairs(1 .. 4) \cup {{3, 5}}

MCCases ==
  [graph : {Strip}, seeds : {{{1, 2}}, {{1, 2}, {4, 5}}, {{2, 3}, {1, 4}}, {{1, 4}}}]
    \cup [graph : {K4}, seeds : {{{1, 2}}, {{3, 5}}}]
=============================================================================
