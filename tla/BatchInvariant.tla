---------------------------- MODULE BatchInvariant ----------------------------
(***************************************************************************)
(* What every step of BatchMaintainer keeps.  From it follow the engine's  *)
(* properties: the graph is on its way from the one the owner saw to the   *)
(* net graph, the seeds hold every edge whose triangles have changed, the  *)
(* region is closed under triangles, and the sweep peels it exactly.       *)
(***************************************************************************)
EXTENDS BatchMaintainer

\* The edges that stay, and those that come, in the batch being applied.
Kept == view.graph \ Maintained!Removed(view.graph, batch)
Wanted == Maintained!Added(view.graph, batch)

Live == {x \in Ids : Alive(x)}

\* The region belongs to the phase that is under way.
WithRegion == phase \in {"closure", "expand", "recount", "peel"}
Deleting == phase \in {"witness", "remove"} \/ (WithRegion /\ ~inserting)
InsertionDone == phase \in {"inswitness", "return"} \/ (WithRegion /\ inserting)

\* The graph whose trussness the edges hold until the sweep.
Base == IF Deleting THEN view.graph ELSE Kept

\* The graph of the engine is the owner's but for the steps made so far.
GraphProgress ==
  /\ view.graph \subseteq Edge
  /\ view = [graph |-> view.graph, truss |-> Trussness[view.graph]]
  /\ phase = "idle" => batch = {} /\ Graph = view.graph /\ dels = {} /\ ins = {}
  /\ phase # "idle" =>
       /\ batch \in Batches
       /\ Graph = Kept \cup EdgesOf(dels) \cup (Wanted \ ins)
       /\ EdgesOf(dels) \subseteq view.graph \ Kept
       /\ ins \subseteq Wanted
       /\ phase = "witness" => EdgesOf(dels) = view.graph \ Kept
  /\ dels \subseteq Live /\ newIds \subseteq Live
  /\ phase \notin {"witness", "remove"} => dels = {}
  /\ Deleting => ins = Wanted
  /\ InsertionDone => ins = {}
  /\ IF phase \in {"insert", "inswitness"} THEN EdgesOf(newIds) = Wanted \ ins ELSE newIds = {}

\* Scratch flags are up where the phase needs them and nowhere else.
FlagsInv ==
  /\ events = {}
  /\ reg \subseteq Live
  /\ phase \notin {"expand", "recount", "peel"} => reg = {}
  /\ \A x \in Ids :
       /\ inReg[x] <=> x \in reg
       /\ ubIn[x] => phase = "expand" /\ x \in reg
       /\ deadMark[x] => phase = "remove" /\ x \in dels
       /\ palive[x] => phase = "peel" /\ x \in reg

\* An edge is touched when the phase has brought it or changed its triangles; until
\* the region is closed, every touched edge is a seed or in the region already.
Touched(e) == e \notin Base \/ TrianglesAt(Graph, e) # TrianglesAt(Base, e)

SeedsCover ==
  /\ phase = "remove" =>
       \A e \in Kept : TrianglesAt(Kept, e) # TrianglesAt(view.graph, e) => idOf[e] \in seeds
  /\ phase \in {"closure", "expand", "recount"} =>
       \A e \in Graph : Touched(e) => idOf[e] \in seeds \cup reg

\* The region grows over triangles: what is not in the frontier has its mates in it.
RegionGrows ==
  /\ phase = "expand" => seeds \subseteq reg /\ \A x \in reg \ seeds : MatesOf(x) \subseteq reg
  /\ phase = "recount" => seeds = {}
  /\ phase \in {"recount", "peel"} => \A x \in reg : MatesOf(x) \subseteq reg

\* The values the edges hold from one sweep to the next.
TauInv ==
  /\ phase \in {"idle", "return"} => \A e \in Graph : tau[idOf[e]] = Trussness[Graph][e]
  /\ phase \in {"witness", "remove", "insert", "inswitness", "closure", "expand"} =>
       \A e \in Kept : tau[idOf[e]] = Trussness[Base][e]
  /\ FrozenExact

SupInv ==
  /\ phase \in {"idle", "return", "witness", "peel"} => ExactSupports
  /\ phase \in {"closure", "expand"} /\ ~inserting => ExactSupports
  /\ phase \in {"remove", "insert", "inswitness"} =>
       \A e \in Kept : sup[idOf[e]] = Sup(Kept, e)
  /\ phase \in {"closure", "expand", "recount"} =>
       \A e \in Graph : idOf[e] \notin seeds \cup reg => sup[idOf[e]] = Sup(Graph, e)

\* The region's edges still in the sweep.
Left == EdgesOf({x \in reg : palive[x]})

\* Every edge left has an entry at its running support, which is what it closes
\* among the edges left, or no more than the level.
SweepBookkeeping ==
  phase = "peel" =>
    /\ \E m \in 0 .. TauModulus : DOMAIN buckets = 0 .. m
    /\ \A k \in DOMAIN buckets : buckets[k] \subseteq reg
    /\ popped = Cardinality({x \in reg : ~palive[x]})
    /\ \A x \in reg :
         /\ psup[x] <= Sup(Graph, ends[x])
         /\ palive[x] => /\ psup[x] >= level /\ psup[x] \in DOMAIN buckets /\ x \in buckets[psup[x]]
                         /\ psup[x] >= Sup(Left, ends[x])
                         /\ psup[x] > level => psup[x] = Sup(Left, ends[x])

\* At level s the edges left are those of the (s+3)-truss and some of the
\* (s+2)-truss; what is peeled is exact.
SweepSandwich ==
  phase = "peel" =>
    LET exact == Trussness[Graph]
    IN \A x \in reg : IF palive[x] THEN exact[ends[x]] >= level + 2
                      ELSE exact[ends[x]] <= level + 2 /\ tau[x] = exact[ends[x]]

\* Each conjunct is kept with the help of the others.
IInv ==
  /\ TypeOK /\ NoExit /\ IdsSound
  /\ GraphProgress /\ FlagsInv /\ SeedsCover /\ RegionGrows
  /\ TauInv /\ SupInv /\ SweepBookkeeping /\ SweepSandwich
=============================================================================
