---------------------------- MODULE ClosureRounds ----------------------------
(***************************************************************************)
(* What region_closure (batch.h) promises to a phase of a batch: the       *)
(* region starts as the live seeds, gains in every round all the mates of  *)
(* its edges and nothing else, and is handed over when it has no mate      *)
(* outside.  RegionClosure, with its threads, and BatchMaintainer, where a *)
(* round is one step, are both shown to implement this.                    *)
(***************************************************************************)
EXTENDS Truss

VARIABLES
  stage,           \* "seed" or "round" inside a call, "done" outside
  graph,           \* the live edges
  seeds,           \* the seeds passed, until the region has them
  region

roundsVars == <<stage, graph, seeds, region>>

\* The region E and all its mates.
Grown(E) == E \cup UNION {Mates(graph, e) : e \in E}

Init ==
  /\ stage \in {"seed", "done"}
  /\ {graph, seeds} \subseteq SUBSET Edge
  /\ region = {}

\* Between two calls the graph changes and the region is forgotten; a call comes
\* with its seeds.
Owner ==
  /\ stage = "done" /\ stage' \in {"seed", "done"}
  /\ {graph', seeds'} \subseteq SUBSET Edge
  /\ region' = {}

Seed ==
  /\ stage = "seed"
  /\ region' = seeds \cap graph
  /\ seeds' = {}
  /\ \/ stage' = "round"
     \/ stage' = "done" /\ region' = {}
  /\ UNCHANGED graph

Round ==
  /\ stage = "round"
  /\ region' = Grown(region)
  /\ UNCHANGED <<stage, graph, seeds>>

HandOver ==
  /\ stage = "round"
  /\ Grown(region) = region
  /\ stage' = "done"
  /\ UNCHANGED <<graph, seeds, region>>

Next == Owner \/ Seed \/ Round \/ HandOver

Safety == Init /\ [][Next]_roundsVars
=============================================================================
