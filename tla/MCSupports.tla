------------------------------ MODULE MCSupports ------------------------------
(* Two calls on graphs of four vertices, the complete one or a triangle with  *)
(* an isolated vertex; each may follow each.                                  *)
EXTENDS Supports

MCGraphs == {Edges, {<<0, 1>>, <<0, 2>>, <<1, 2>>}}
=============================================================================
