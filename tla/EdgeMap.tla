------------------------------- MODULE EdgeMap -------------------------------
(***************************************************************************)
(* What the edge hash of DynGraph promises: a map from keys of live edges  *)
(* to their ids.  A key is put only when it is absent.                     *)
(***************************************************************************)
CONSTANTS Key, Value

VARIABLE map

Init == map = [k \in {} |-> k]

Put(k, v) ==
  /\ k \notin DOMAIN map
  /\ map' = [x \in DOMAIN map \cup {k} |-> IF x = k THEN v ELSE map[x]]

Delete(k) ==
  /\ k \in DOMAIN map
  /\ map' = [x \in DOMAIN map \ {k} |-> map[x]]

Next == \E k \in Key : Delete(k) \/ \E v \in Value : Put(k, v)

Spec == Init /\ [][Next]_map
=============================================================================
