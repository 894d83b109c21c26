------------------------------ MODULE MCDynGraph ------------------------------
(* DynGraph on two triangles with a common edge, of which at most four edges  *)
(* are live at a time.  Two keys of the hash table share the last slot of the *)
(* small tables as their home; what is displaced from there wraps around and  *)
(* displaces the others.                                                      *)
EXTENDS DynGraph

MCPairs == {<<0, 1>>, <<0, 2>>, <<1, 2>>, <<1, 3>>, <<2, 3>>}
MCHome == [k \in Keys |-> CASE k = EKey(<<0, 1>>) -> 7
                            [] k = EKey(<<0, 2>>) -> 15
                            [] k = EKey(<<1, 2>>) -> 8
                            [] k = EKey(<<1, 3>>) -> 1
                            [] k = EKey(<<2, 3>>) -> 2]
=============================================================================
