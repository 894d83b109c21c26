------------------------------- MODULE MCSuite -------------------------------
(* Suite: two graphs, a plan with a slot that writes the final graph and the  *)
(* static baseline that reads it.                                             *)
EXTENDS Suite

MCPlan == <<"rows", "save", "static">>
=============================================================================
