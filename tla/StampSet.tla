------------------------------- MODULE StampSet -------------------------------
(***************************************************************************)
(* StampSet (common.h): the set of marked vertices every triangle listing  *)
(* works with.  It is emptied by advancing an epoch; a vertex is in the    *)
(* set when its stamp is the current epoch.  The epoch has a fixed width,  *)
(* and when it wraps the stamps are refilled.  A stamp set is a record     *)
(* here, and its operations are functions of it; the edge id that is kept  *)
(* with a mark (mid) is left out.                                          *)
(***************************************************************************)
EXTENDS Integers

CONSTANTS
  n,               \* number of vertices
  Modulus          \* the epoch is an integer modulo this (2^32 in the code)

Vertices == 0 .. (n - 1)

ASSUME StampAssumption == n \in Nat /\ Modulus \in Nat /\ Modulus > 1

\* A set after init.
Unmarked == [v \in Vertices |-> 0]
Fresh == [s |-> Unmarked, e |-> 1]

\* Mutant: the stamps are not refilled when the epoch wraps.
NextEpochUnfilled(set) ==
  [set EXCEPT !.e = IF (@ + 1) % Modulus = 0 THEN 1 ELSE @ + 1]

NextEpoch(set) ==
  IF (set.e + 1) % Modulus = 0 THEN Fresh ELSE [s |-> set.s, e |-> set.e + 1]

\* mark, for all vertices of V.
MarkAll(set, V) ==
  [s |-> [v \in Vertices |-> IF v \in V THEN set.e ELSE set.s[v]], e |-> set.e]

Test(set, v) == set.s[v] = set.e

\* A stamp is never ahead of the epoch, and the epoch is never the stamp of a
\* vertex that has not been marked.
StampsBehind(set) ==
  /\ set = [s |-> set.s, e |-> set.e]
  /\ set.e \in 1 .. (Modulus - 1)
  /\ set.s \in [Vertices -> 0 .. set.e]

\* The set answers V.
Holds(set, V) == \A v \in Vertices : Test(set, v) <=> v \in V
=============================================================================
