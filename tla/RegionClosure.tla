---------------------------- MODULE RegionClosure ----------------------------
(***************************************************************************)
(* region_closure (batch.h): from the seeds of a phase the region grows,   *)
(* round by round, to everything reachable through triangles.  The jobs of *)
(* a round run on several threads and test and set the plain bytes of      *)
(* ub_in without synchronisation.  A thread sees the flags it set itself   *)
(* and those of earlier rounds (run_jobs is a barrier); whether it sees a  *)
(* flag another thread sets in the same round is left open, which covers   *)
(* every interleaving and every delay of a store.                          *)
(***************************************************************************)
EXTENDS Truss

CONSTANTS
  Threads,         \* the threads that may execute jobs
  Cases            \* records [graph, seeds]: a graph and the edges to start from

ASSUME CaseAssumption ==
  \A c \in Cases : c.graph \subseteq Edge /\ c.seeds \subseteq Edge

VARIABLES
  graph,           \* the live edges
  origin,          \* history: the seeds the phase passed
  seeds,           \* the seeds, then the frontier: jobs not yet taken
  todo,            \* [Threads -> edges]: mates a thread's job has yet to test
  inReg,           \* in_reg
  entries,         \* how often an edge stands in reg_list
  settled,         \* ub_in as of the last barrier
  next,            \* [Threads -> edges]: nxt_t, the edges a thread has flagged
  pc               \* "seed", "round", "clear" or "done"

vars == <<graph, origin, seeds, todo, inReg, entries, settled, next, pc>>

Init ==
  \E c \in Cases :
    /\ graph = c.graph /\ origin = c.seeds /\ seeds = c.seeds
    /\ todo = [t \in Threads |-> {}]
    /\ inReg = {}
    /\ entries = [e \in Edge |-> 0]
    /\ settled = {}
    /\ next = [t \in Threads |-> {}]
    /\ pc = "seed"

Enter(E) ==
  /\ inReg' = inReg \cup E
  /\ entries' = [e \in Edge |-> entries[e] + (IF e \in E THEN 1 ELSE 0)]

\* Seeds that are dead or already in the region are dropped; the list of seeds
\* may name an edge more than once.
SeedRegion ==
  /\ pc = "seed"
  /\ Enter((seeds \cap graph) \ inReg)
  /\ seeds' = (seeds \cap graph) \ inReg
  /\ pc' = IF seeds' = {} THEN "clear" ELSE "round"
  /\ UNCHANGED <<graph, origin, todo, settled, next>>

\* Mutant: a job is handed out again and again.
TakeJobAgain(t, e) ==
  /\ pc = "round"
  /\ todo[t] = {}
  /\ e \in seeds
  /\ todo' = [todo EXCEPT ![t] = Mates(graph, e)]
  /\ UNCHANGED <<graph, origin, seeds, inReg, entries, settled, next, pc>>

TakeJob(t, e) ==
  /\ pc = "round"
  /\ todo[t] = {}
  /\ e \in seeds
  /\ seeds' = seeds \ {e}
  /\ todo' = [todo EXCEPT ![t] = Mates(graph, e)]
  /\ UNCHANGED <<graph, origin, inReg, entries, settled, next, pc>>

\* Mutant: a mate counts as flagged while some job has yet to test it.
FlaggedEarly == settled \cup UNION {next[t] \cup todo[t] : t \in Threads}

Flagged == settled \cup UNION {next[t] : t \in Threads}
KnownFlagged(t) == settled \cup next[t]

\* The thread finds the flag of mate f down, raises it and keeps the edge.
FlagMate(t, f) ==
  /\ f \in todo[t]
  /\ f \notin KnownFlagged(t)
  /\ next' = [next EXCEPT ![t] = @ \cup {f}]
  /\ todo' = [todo EXCEPT ![t] = @ \ {f}]
  /\ UNCHANGED <<graph, origin, seeds, inReg, entries, settled, pc>>

\* The thread finds the flag of mate f up.
PassMate(t, f) ==
  /\ f \in todo[t]
  /\ f \in Flagged
  /\ todo' = [todo EXCEPT ![t] = @ \ {f}]
  /\ UNCHANGED <<graph, origin, seeds, inReg, entries, settled, next, pc>>

\* Mutant: the merge does not test in_reg.
NewUnchecked == UNION {next[t] : t \in Threads}

\* What the merge finds in the threads' lists that is not in the region.
New == (UNION {next[t] : t \in Threads}) \ inReg

\* All jobs are done: the caller merges the threads' lists into the region and
\* the next frontier.
Merge ==
  /\ pc = "round"
  /\ seeds = {} /\ \A t \in Threads : todo[t] = {}
  /\ Enter(New)
  /\ seeds' = New
  /\ pc' = IF New = {} THEN "clear" ELSE "round"
  /\ settled' = Flagged
  /\ next' = [t \in Threads |-> {}]
  /\ UNCHANGED <<graph, origin, todo>>

ClearFlags ==
  /\ pc = "clear"
  /\ settled' = settled \ inReg
  /\ pc' = "done"
  /\ UNCHANGED <<graph, origin, seeds, todo, inReg, entries, next>>

Terminated == pc = "done" /\ UNCHANGED vars

ThreadStep(t) ==
  \/ \E e \in seeds : TakeJob(t, e)
  \/ \E f \in todo[t] : FlagMate(t, f) \/ PassMate(t, f)

CallerStep == SeedRegion \/ Merge \/ ClearFlags

Next == CallerStep \/ Terminated \/ \E t \in Threads : ThreadStep(t)

Safety == Init /\ [][Next]_vars

\* Every thread that has work runs.
Spec == Safety /\ WF_vars(CallerStep) /\ \A t \in Threads : WF_vars(ThreadStep(t))

-----------------------------------------------------------------------------
(* Properties *)

\* Types of the closure's state.
TypeOK ==
  /\ pc \in {"seed", "round", "clear", "done"}
  /\ {graph, origin, seeds, inReg, settled} \subseteq SUBSET Edge
  /\ {todo, next} \subseteq [Threads -> SUBSET Edge]
  /\ entries \in [Edge -> Nat]

\* The sets that hold the live seeds and the mates of all their members, and the
\* least of them.
Closed(E) ==
  /\ E \subseteq graph
  /\ origin \cap graph \subseteq E
  /\ \A e \in E : Mates(graph, e) \subseteq E
Closure == {e \in graph : \A E \in SUBSET graph : Closed(E) => e \in E}

\* Whatever the threads see of each other's flags, the region ends as the set
\* of edges triangle-connected to the live seeds: none is missed because two
\* threads left it to each other, and none is taken in without reason.
RegionIsClosure == pc \in {"clear", "done"} => inReg = Closure

\* Two threads may flag the same edge, but it enters reg_list once; the sweep
\* counts on it when it compares the popped edges with the list's length.
ListedOnce == \A e \in Edge : entries[e] = IF e \in inReg THEN 1 ELSE 0

\* What the threads hold in hand or have flagged.
InHand == UNION {todo[t] \cup next[t] : t \in Threads}

\* Nothing the closure meets lies outside a closed set.
MetInv == \A E \in SUBSET graph : Closed(E) => inReg \cup InHand \subseteq E

\* The mates of a region edge whose job has been taken are in the region, or
\* some thread has flagged them or has yet to test them; the live seeds are in.
FrontierInv ==
  pc # "seed" =>
    /\ origin \cap graph \subseteq inReg /\ seeds \subseteq inReg
    /\ \A e \in inReg \ seeds : Mates(graph, e) \subseteq inReg \cup InHand

\* Flags of earlier rounds are on region edges, and outside the rounds no
\* thread has anything in hand.
RoundInv ==
  /\ settled \subseteq inReg
  /\ pc # "round" => \A t \in Threads : todo[t] = {} /\ next[t] = {}
  /\ pc = "seed" => seeds = origin /\ inReg = {}
  /\ pc \in {"clear", "done"} => seeds = {}
  /\ pc = "done" => settled = {}

\* What the threads hold are mates of the region as it was before the round.
HeldInv == InHand \subseteq UNION {Mates(graph, e) : e \in inReg}

\* The inductive invariant.
IInv == TypeOK /\ ListedOnce /\ MetInv /\ FrontierInv /\ RoundInv /\ HeldInv

\* Every flag raised belongs to a region edge, so clearing the flags of the
\* region leaves none behind for the next phase.
FlagsCleared == pc = "done" => settled = {}

\* The threads of a round, whatever they see of each other's flags, do together
\* what BatchMaintainer takes for one step.
Rounds == INSTANCE ClosureRounds
            WITH region <- inReg, seeds <- IF pc = "seed" THEN origin ELSE {},
                 stage <- IF pc = "clear" THEN "done" ELSE pc

RoundsSafety == Rounds!Safety

\* The closure ends.
Terminates == <>(pc = "done")
=============================================================================
