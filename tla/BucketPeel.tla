----------------------------- MODULE BucketPeel -----------------------------
(***************************************************************************)
(* static_truss (truss_static.h): the static decomposition every engine is *)
(* initialised from and verified against.  Edges wait in the bucket of     *)
(* their support; the sweep takes an edge from the lowest bucket, fixes    *)
(* its trussness and moves the edges of its triangles one bucket down.     *)
(*                                                                         *)
(* An entry of a bucket is not withdrawn when its edge moves down; the     *)
(* sweep skips the entries that have become stale.  A bucket is a set: the *)
(* order in which the code meets the entries of one bucket depends on the  *)
(* order of ids and of adjacency lists, and the model allows every order.  *)
(***************************************************************************)
EXTENDS Truss

CONSTANTS
  Inputs,        \* the graphs to decompose
  TauModulus     \* tau is stored in 16 bits (65536 in the code)

ASSUME PeelAssumption ==
  /\ Inputs \subseteq SUBSET Edge
  /\ TauModulus \in Nat
  /\ \A G \in Inputs : \A e \in G : Sup(G, e) + 2 < TauModulus

VARIABLES
  input,         \* the edges of g
  alive,         \* the edges that have not been peeled
  running,       \* running supports
  tau,           \* out.tau
  buckets,       \* buckets[s]: the entries not yet met
  level          \* s

peelVars == <<input, alive, running, tau, buckets, level>>

\* 0 .. maxsup
SupportLevels(G) == {0} \cup UNION {0 .. Sup(G, e) : e \in G}

\* Mutant: the loop over the levels ends one short.
LevelsButLast == {s \in DOMAIN buckets : s + 1 \in DOMAIN buckets}

Levels == DOMAIN buckets

PeelInit ==
  /\ input \in Inputs
  /\ alive = input
  /\ running = [e \in input |-> Sup(input, e)]
  /\ tau = [e \in input |-> 0]
  /\ buckets = [s \in SupportLevels(input) |-> {e \in input : Sup(input, e) = s}]
  /\ level = 0

\* Mutant: no test of the partners' own state.
LoweredStale(e) == {f \in Mates(input, e) : running[f] > level}

\* The edges that lose a triangle when e goes: its partners in the triangles
\* that are still whole, as long as they are above the level.
Lowered(e) == {f \in Mates(alive, e) : running[f] > level}

Peel(e) ==
  /\ level \in Levels
  /\ e \in buckets[level]
  /\ e \in alive /\ running[e] = level
  /\ tau' = [tau EXCEPT ![e] = (level + 2) % TauModulus]
  /\ alive' = alive \ {e}
  /\ running' = [f \in input |-> IF f \in Lowered(e) THEN running[f] - 1 ELSE running[f]]
  /\ buckets' = [s \in Levels |->
                   (buckets[s] \ (IF s = level THEN {e} ELSE {}))
                     \cup {f \in Lowered(e) : running[f] - 1 = s}]
  /\ UNCHANGED <<input, level>>

\* Mutant: the sweep does not move on from a stale entry.
SkipForever(e) ==
  /\ level \in Levels
  /\ e \in buckets[level]
  /\ e \notin alive \/ running[e] # level
  /\ UNCHANGED peelVars

\* A stale entry.
Skip(e) ==
  /\ level \in Levels
  /\ e \in buckets[level]
  /\ e \notin alive \/ running[e] # level
  /\ buckets' = [buckets EXCEPT ![level] = @ \ {e}]
  /\ UNCHANGED <<input, alive, running, tau, level>>

NextLevel ==
  /\ level \in Levels
  /\ buckets[level] = {}
  /\ level' = level + 1
  /\ UNCHANGED <<input, alive, running, tau, buckets>>

Returned == level \notin Levels

PeelTerminated == Returned /\ UNCHANGED peelVars

PeelStep == NextLevel \/ \E e \in input : Peel(e) \/ Skip(e)

PeelNext == PeelStep \/ PeelTerminated

PeelSafety == PeelInit /\ [][PeelNext]_peelVars

\* The sweep is one thread that runs until it returns.
PeelSpec == PeelSafety /\ WF_peelVars(PeelStep)

-----------------------------------------------------------------------------
(* Properties *)

\* Types of the sweep's state.
PeelTypeOK ==
  /\ input \in Inputs
  /\ alive \subseteq input
  /\ running \in [input -> Nat]
  /\ tau \in [input -> Nat]
  /\ level \in Nat
  /\ buckets \in [SupportLevels(input) -> SUBSET input]

\* An edge that has not been peeled is never lost: the bucket of its running
\* support, which the sweep has not passed, holds an entry for it.
Pending == \A e \in alive : running[e] >= level /\ running[e] \in Levels /\ e \in buckets[running[e]]

\* The running support is the number of whole triangles as long as it is above
\* the level, and never less than that number: an edge is peeled at a level
\* only when the rest of the graph holds it no higher.
RunningSupport ==
  \A e \in alive : /\ running[e] >= Sup(alive, e)
                   /\ running[e] > level => running[e] = Sup(alive, e)

\* What has been peeled is final: the trussness stored at the moment of the
\* peel is the edge's trussness in the whole graph.
PeeledExact == \A e \in input \ alive : tau[e] = Trussness[input][e]

\* A running support never exceeds the support in the whole graph.
SupBound == \A e \in input : running[e] <= Sup(input, e)

\* The edges that are left contain the next truss and are contained in this one.
Sandwich ==
  /\ KTruss(input, level + 3) \subseteq alive
  /\ alive \subseteq KTruss(input, level + 2)

\* Why the sweep is right although it skips entries and stops lowering supports
\* at its own level: the inductive invariant.
PeelInv == PeelTypeOK /\ Pending /\ RunningSupport /\ SupBound /\ Sandwich /\ PeeledExact

\* When the sweep returns, every edge has been peeled and has its trussness.
ResultExact == Returned => alive = {} /\ tau = Trussness[input]

\* The sweep returns.
Returns == <>Returned
=============================================================================
