---------------------------- MODULE MCBucketPeel ----------------------------
(* All graphs on four vertices, and graphs with a fifth vertex joined to two  *)
(* of them: a K4 with a triangle on one of its edges, and that without one    *)
(* edge, which leaves a triangle strip or two triangles.                      *)
EXTENDS BucketPeel

Pairs(V) == {p \in SUBSET V : Cardinality(p) = 2}
MCEdge == Pairs(1 .. 5) \ {{3, 5}, {4, 5}}
MCTriangle == {t \in {Pairs(c) : c \in {c \in SUBSET (1 .. 5) : Cardinality(c) = 3}} : t \subseteq MCEdge}
MCTrussness == TrussnessTable

MCGraphs == SUBSET Pairs(1 .. 4)
              \cup {MCEdge, MCEdge \ {{1, 2}}, MCEdge \ {{2, 3}}, MCEdge \ {{3, 4}}}
=============================================================================
