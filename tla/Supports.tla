------------------------------- MODULE Supports -------------------------------
(***************************************************************************)
(* compute_supports (truss_static.h): the support of every edge of a       *)
(* graph, counted by T threads that draw vertices from a shared counter.   *)
(* Nothing but the counter is synchronised: each thread has a stamp set of *)
(* its own, and an edge is written by whoever drew its smaller end.        *)
(*                                                                         *)
(* An edge is the pair of its ends, the smaller one first (eu and ev).     *)
(* The threads are those of one call; the stamp sets outlive it.  With     *)
(* T = 1 the steps are those of compute_supports_seq.                      *)
(***************************************************************************)
EXTENDS StampSet, FiniteSets

CONSTANTS
  T,               \* number of threads, the caller included
  Graphs,          \* the graphs a call may be given
  MaxCalls         \* bound: calls in a behaviour

Threads  == 0 .. (T - 1)
Caller   == 0
Edges    == {e \in Vertices \X Vertices : e[1] < e[2]}

ASSUME SupportsAssumption ==
  /\ n > 0 /\ T \in Nat \ {0} /\ MaxCalls \in Nat
  /\ Graphs \subseteq SUBSET Edges

VARIABLES
  graph,           \* the edges of g
  calls,           \* calls so far
  pc,              \* [Threads -> label]
  job,             \* the shared counter
  st,              \* [Threads -> stamp set]
  u, todo,         \* the vertex a thread has drawn, its edges still to count
  sup,             \* the result, [graph -> Nat]
  ran              \* history: how often each vertex has been dealt with

vars == <<graph, calls, pc, job, st, u, todo, sup, ran>>

Labels == {"idle", "spawn", "draw", "count", "left"}

\* adj[w] of graph G: the neighbours, and the edges the thread that draws w counts.
Neighbours(G, w) == {x \in Vertices : <<w, x>> \in G \/ <<x, w>> \in G}

Owned(G, w) == {e \in G : e[1] = w}

Init ==
  /\ graph = {} /\ calls = 0
  /\ pc = [t \in Threads |-> "idle"]
  /\ job = 0
  /\ st = [t \in Threads |-> Fresh]
  /\ u = [t \in Threads |-> 0] /\ todo = [t \in Threads |-> {}]
  /\ sup = [e \in {} |-> 0]
  /\ ran = [i \in {} |-> 0]

Call(G) ==
  /\ pc[Caller] = "idle" /\ calls < MaxCalls
  /\ graph' = G
  /\ calls' = calls + 1
  /\ sup' = [e \in G |-> 0]
  /\ job' = 0
  /\ pc' = [pc EXCEPT ![Caller] = "spawn"]
  /\ ran' = [i \in Vertices |-> 0]
  /\ UNCHANGED <<st, u, todo>>

\* The caller starts the threads 1 .. T-1 in turn, then works itself.
Spawn(t) ==
  /\ pc[Caller] = "spawn"
  /\ pc[t] = "idle"
  /\ \A s \in Threads : pc[s] = "idle" => t <= s
  /\ pc' = [pc EXCEPT ![t] = "draw"]
  /\ UNCHANGED <<graph, calls, job, st, u, todo, sup, ran>>

StartsWork ==
  /\ pc[Caller] = "spawn"
  /\ \A t \in Threads : pc[t] # "idle"
  /\ pc' = [pc EXCEPT ![Caller] = "draw"]
  /\ UNCHANGED <<graph, calls, job, st, u, todo, sup, ran>>

\* The counter has passed the last vertex.
Leave(t) ==
  /\ pc[t] = "draw" /\ job >= n
  /\ job' = job + 1
  /\ pc' = [pc EXCEPT ![t] = "left"]
  /\ UNCHANGED <<graph, calls, st, u, todo, sup, ran>>

\* A vertex without edges.
DrawIsolated(t) ==
  /\ pc[t] = "draw" /\ job < n
  /\ Neighbours(graph, job) = {}
  /\ job' = job + 1
  /\ ran' = [ran EXCEPT ![job] = @ + 1]
  /\ UNCHANGED <<graph, calls, pc, st, u, todo, sup>>

\* Mutant: the stamp set is not emptied.
DrawUnemptied(t) ==
  /\ pc[t] = "draw" /\ job < n
  /\ Neighbours(graph, job) # {}
  /\ job' = job + 1
  /\ pc' = [pc EXCEPT ![t] = "count"]
  /\ u' = [u EXCEPT ![t] = job]
  /\ st' = [st EXCEPT ![t] = MarkAll(@, Neighbours(graph, job))]
  /\ todo' = [todo EXCEPT ![t] = Owned(graph, job)]
  /\ UNCHANGED <<graph, calls, sup, ran>>

\* A vertex with edges: the thread empties its stamp set and marks the neighbours.
Draw(t) ==
  /\ pc[t] = "draw" /\ job < n
  /\ Neighbours(graph, job) # {}
  /\ job' = job + 1
  /\ pc' = [pc EXCEPT ![t] = "count"]
  /\ u' = [u EXCEPT ![t] = job]
  /\ st' = [st EXCEPT ![t] = MarkAll(NextEpoch(@), Neighbours(graph, job))]
  /\ todo' = [todo EXCEPT ![t] = Owned(graph, job)]
  /\ UNCHANGED <<graph, calls, sup, ran>>

Count(t) ==
  /\ pc[t] = "count"
  /\ \E e \in todo[t] :
       /\ sup' = [sup EXCEPT ![e] = Cardinality({x \in Neighbours(graph, e[2]) : Test(st[t], x)})]
       /\ todo' = [todo EXCEPT ![t] = @ \ {e}]
  /\ UNCHANGED <<graph, calls, pc, job, st, u, ran>>

VertexDone(t) ==
  /\ pc[t] = "count" /\ todo[t] = {}
  /\ pc' = [pc EXCEPT ![t] = "draw"]
  /\ ran' = [ran EXCEPT ![u[t]] = @ + 1]
  /\ UNCHANGED <<graph, calls, job, st, u, todo, sup>>

\* Mutant: the caller returns without joining.
JoinNone ==
  /\ pc[Caller] = "left"
  /\ pc' = [t \in Threads |-> "idle"]
  /\ UNCHANGED <<graph, calls, job, st, u, todo, sup, ran>>

Join ==
  /\ \A t \in Threads : pc[t] = "left"
  /\ pc' = [t \in Threads |-> "idle"]
  /\ UNCHANGED <<graph, calls, job, st, u, todo, sup, ran>>

Terminated == pc[Caller] = "idle" /\ calls = MaxCalls /\ UNCHANGED vars

Work(t) == Leave(t) \/ DrawIsolated(t) \/ Draw(t) \/ Count(t) \/ VertexDone(t)

CallerStep == (\E t \in Threads : Spawn(t)) \/ StartsWork \/ Join

Next ==
  \/ \E G \in Graphs : Call(G)
  \/ CallerStep
  \/ \E t \in Threads : Work(t)
  \/ Terminated

Safety == Init /\ [][Next]_vars

\* Every started thread is scheduled until it leaves its loop.
Spec == Safety /\ WF_vars(CallerStep) /\ \A t \in Threads : WF_vars(Work(t))

-----------------------------------------------------------------------------
(* Properties *)

\* Types of the count's state.
TypeOK ==
  /\ graph \in {{}} \cup Graphs
  /\ calls \in Nat /\ job \in Nat
  /\ pc \in [Threads -> Labels]
  /\ st = [t \in Threads |-> st[t]] /\ \A t \in Threads : StampsBehind(st[t])
  /\ u \in [Threads -> Vertices] /\ todo \in [Threads -> SUBSET graph]
  /\ sup \in [graph -> Nat]
  /\ ran \in [DOMAIN ran -> Nat]

\* The unsynchronised writes never meet: an edge that one thread has yet to
\* write is no other thread's, and no vertex in the counter's future is drawn.
OneWriter ==
  /\ \A t \in Threads : pc[t] = "count" => u[t] < job
  /\ \A s, t \in Threads : s # t => todo[s] \cap todo[t] = {}

Support(e) == Cardinality(Neighbours(graph, e[1]) \cap Neighbours(graph, e[2]))

\* When the call returns, every edge has its support, although no thread waited
\* for another while it counted and the stamp sets held older marks.
SupportsExact == pc[Caller] = "idle" => \A e \in graph : sup[e] = Support(e)

Loop == INSTANCE ParallelLoop
  WITH Counts <- {n}, running <- pc[Caller] # "idle",
       count <- IF calls = 0 THEN 0 ELSE n

\* The call deals with every vertex exactly once and returns only, and always,
\* when all have been dealt with.
LoopSpec == Loop!Spec
LoopSafety == Loop!Safety

-----------------------------------------------------------------------------
(* The inductive invariant *)

\* Between calls no thread runs.
IdleInv == pc[Caller] = "idle" => \A t \in Threads : pc[t] = "idle"

\* A thread that counts works on a vertex already drawn, with that vertex's
\* neighbours marked and nothing else, and on edges that vertex owns; no other
\* thread has the vertex.
CountInv ==
  \A t \in Threads :
    /\ pc[t] = "count" => u[t] < job /\ Holds(st[t], Neighbours(graph, u[t]))
    /\ pc[t] # "count" => todo[t] = {}
    /\ todo[t] \subseteq Owned(graph, u[t])
    /\ \A s \in Threads : s # t /\ pc[s] = "count" /\ pc[t] = "count" => u[s] # u[t]

\* An edge of a vertex that has been drawn has its support or is still on the
\* list of the thread that drew the vertex.
DrawnInv ==
  \A e \in graph : e[1] < job => \/ sup[e] = Support(e)
                                 \/ \E t \in Threads : e \in todo[t]

\* A thread leaves when the counter has passed every vertex.
LeftInv == \A t \in Threads : pc[t] = "left" => job >= n

\* What a vertex's history says while a call runs.
RanInv ==
  /\ calls = 0 => pc[Caller] = "idle" /\ ran = [i \in {} |-> 0]
  /\ calls # 0 => ran \in [Vertices -> Nat]
  /\ pc[Caller] # "idle" =>
       \A i \in Vertices :
         ran[i] = IF i < job /\ (\A t \in Threads : pc[t] = "count" => u[t] # i)
                  THEN 1 ELSE 0

\* Why the count is right in every interleaving: what has been drawn is counted
\* or in one thread's hands, and that thread's marks are those of its vertex,
\* also when its epoch has wrapped in the meantime.
IInv == TypeOK /\ IdleInv /\ CountInv /\ DrawnInv /\ LeftInv /\ RanInv /\ SupportsExact
=============================================================================
