--------------------------- MODULE BatchMaintainer ---------------------------
(***************************************************************************)
(* BatchMaintainer (batch.h): one batch of edge operations at a time is    *)
(* netted, its deletions and then its insertions are applied to the graph, *)
(* and after each of the two phases the trussness of a region around the   *)
(* touched triangles is recomputed by a bucket sweep.                      *)
(*                                                                         *)
(* Edges have ids that index every array; the id of a removed edge is      *)
(* recycled, so the arrays must be left clean.  The bodies of a run_jobs   *)
(* call commute (module JobPool for the call itself, RegionClosure for the *)
(* one data race), so each such call is one step.                          *)
(***************************************************************************)
EXTENDS Truss, Integers, Sequences, SequencesExt

CONSTANTS
  Files,           \* the input graphs: sequences of distinct edges
  FirstId,         \* ids the loader's reservation leaves unused
  Spare,           \* slots of the loaded id arrays beyond cap_edges
  Reserve,         \* slots the constructor reserves (insertions + 16, or 0)
  Batches,         \* bound: the batches to apply, as sets of operations
  MaxBatches,      \* bound: batches applied
  MaxIds,          \* bound: ids the model's arrays are defined for
  TauModulus,      \* tau is stored in 16 bits (65536 in the code)
  NoEdge           \* the content of an id slot that holds no edge

ASSUME BatchAssumption ==
  /\ \A f \in Files : f \in Seq(Edge) /\ IsInjective(f)
  /\ \A b \in Batches : b # {} /\ b \subseteq [del : BOOLEAN, edge : Edge]
  /\ {FirstId, Spare, Reserve, MaxBatches} \subseteq Nat
  /\ MaxIds \in Nat
  /\ \A f \in Files : FirstId + Len(f) + Reserve <= MaxIds
  /\ TauModulus \in Nat /\ \A e \in Edge : Sup(Edge, e) + 2 < TauModulus
  /\ NoEdge \notin Edge

Ids == 0 .. (MaxIds - 1)
NoId == -1

VARIABLES
  phase,           \* where apply_batch is
  ends,            \* [Ids -> Edge \cup {NoEdge}]: eu and ev
  idOf,            \* [Edge -> Ids \cup {NoId}]: the hash table
  freeIds,         \* free_ids, the top last
  capEdges,        \* cap_edges
  slots,           \* eu.size()
  supcap,
  tau, sup, dcount, psup,              \* [Ids -> Nat]
  inReg, ubIn, deadMark, palive,       \* [Ids -> BOOLEAN]
  dels,            \* ids to be removed
  ins,             \* edges to be inserted
  newIds,          \* neweids
  seeds,           \* seeds, then the frontier of the closure
  reg,             \* reg_list
  events,          \* evs: frozen edges whose virtual removal is scheduled
  buckets, level, popped,
  inserting,       \* the region belongs to the insertion phase
  batch, batches,  \* the batch being applied and the number of batches so far
  view             \* what the owner sees between batches

graphVars == <<ends, idOf, freeIds, capEdges, slots, supcap>>
flagVars  == <<inReg, ubIn, deadMark, palive>>
peelVars  == <<psup, events, buckets, level, popped>>
batchVars == <<dels, ins, newIds, inserting, batch, batches, view>>
vars == <<phase, graphVars, tau, sup, dcount, flagVars, peelVars, batchVars,
          seeds, reg>>

Alive(x) == ends[x] # NoEdge
Graph == {e \in Edge : idOf[e] # NoId}
IdsOf(E) == {idOf[e] : e \in E}
MatesOf(x) == IdsOf(Mates(Graph, ends[x]))

\* The pairs of mates that close a triangle with x.
PairsAt(x) == {IdsOf(t \ {ends[x]}) : t \in TrianglesAt(Graph, ends[x])}

Larger(a, b) == IF a < b THEN b ELSE a

\* Mutant: the flags are not cleared.
ClearNothing(f, S) == f

Clear(f, S) == [x \in Ids |-> IF x \in S THEN FALSE ELSE f[x]]
Mark(f, S) == [x \in Ids |-> IF x \in S THEN TRUE ELSE f[x]]
Zero == [x \in Ids |-> 0]
None == [x \in Ids |-> FALSE]

-----------------------------------------------------------------------------
(* The constructor, on a graph that DynGraph::load has read *)

Init ==
  \E f \in Files :
    LET loaded == FirstId + Len(f)
        G == {f[i] : i \in 1 .. Len(f)}
        at == [x \in Ids |-> IF x >= FirstId /\ x < loaded THEN f[x - FirstId + 1] ELSE NoEdge]
    IN /\ ends = at
       /\ idOf = [e \in Edge |-> IF e \in G THEN FirstId - 1 + CHOOSE i \in 1 .. Len(f) : f[i] = e
                                          ELSE NoId]
       /\ freeIds = <<>>
       /\ capEdges = loaded + Reserve
       /\ supcap = loaded + Reserve
       /\ slots = IF Reserve = 0 THEN loaded + Spare ELSE loaded + Reserve
       /\ tau = [x \in Ids |-> IF at[x] = NoEdge THEN 0 ELSE Trussness[G][at[x]]]
       /\ sup = [x \in Ids |-> IF at[x] = NoEdge THEN 0 ELSE Sup(G, at[x])]
       /\ dcount = Zero /\ psup = Zero
       /\ inReg = None /\ ubIn = None /\ deadMark = None /\ palive = None
       /\ phase = "idle"
       /\ dels = {} /\ ins = {} /\ newIds = {} /\ seeds = {} /\ reg = {}
       /\ events = {} /\ buckets = <<>> /\ level = 0 /\ popped = 0
       /\ inserting = FALSE
       /\ batch = {} /\ batches = 0
       /\ view = [graph |-> G, truss |-> Trussness[G]]

-----------------------------------------------------------------------------
(* apply_batch *)

Delset(b) == {op.edge : op \in {o \in b : o.del /\ o.edge \in Graph}}
Insset(b) == {op.edge : op \in {o \in b : ~o.del /\ o.edge \notin Graph}}

ApplyBatch ==
  /\ phase = "idle"
  /\ batches < MaxBatches
  /\ batches' = batches + 1
  /\ batch' \in Batches
  /\ dels' = IdsOf(Delset(batch') \ Insset(batch'))
  /\ ins' = Insset(batch') \ Delset(batch')
  /\ phase' = IF dels' # {} THEN "witness" ELSE IF ins' # {} THEN "insert" ELSE "return"
  /\ UNCHANGED <<graphVars, tau, sup, dcount, flagVars, peelVars, newIds, inserting,
                 view, seeds, reg>>

\* The owner may read the graph and tau again.
ReturnBatch ==
  /\ phase = "return"
  /\ phase' = "idle"
  /\ batch' = {}
  /\ view' = [graph |-> Graph, truss |-> [e \in Graph |-> tau[idOf[e]]]]
  /\ UNCHANGED <<graphVars, tau, sup, dcount, flagVars, peelVars, dels, ins, newIds,
                 inserting, batches, seeds, reg>>

-----------------------------------------------------------------------------
(* phase_deletions *)

\* Mutants: every deleted edge of a triangle counts it; none does.
WitnessedByAll(x) == PairsAt(x)
WitnessedByNone(x) == {p \in PairsAt(x) : p \cap dels = {}}

\* Of the deleted edges of a triangle the one with the smallest id counts it:
\* the pairs of mates whose supports the job of x lowers.
Witnessed(x) == {p \in PairsAt(x) : \A y \in p : ~(y \in dels /\ y < x)}

\* How many fetch_sub calls the jobs make on sup[y].
Lowerings(y) == Cardinality({x \in dels : \E p \in Witnessed(x) : y \in p})

\* dead_mark is set for every deletion, then the jobs lower the supports.  The
\* fetch_subs on one counter commute, and one of them finds it at zero exactly
\* when there are more of them than the counter's value.
DeletionWitness ==
  /\ phase = "witness"
  /\ deadMark' = Mark(deadMark, dels)
  /\ IF \E y \in Ids : Lowerings(y) > sup[y]
     THEN phase' = "exit" /\ UNCHANGED <<sup, seeds>>
     ELSE /\ phase' = "remove"
          /\ sup' = [y \in Ids |-> sup[y] - Lowerings(y)]
          /\ seeds' = UNION {UNION Witnessed(x) : x \in dels}
  /\ UNCHANGED <<graphVars, tau, dcount, inReg, ubIn, palive, peelVars, batchVars,
                 reg>>

\* One iteration of the removal loop; the batch lists its deletions in the
\* order of a hash set.
RemoveEdge(x) ==
  /\ phase = "remove"
  /\ x \in dels
  /\ ends' = [ends EXCEPT ![x] = NoEdge]
  /\ idOf' = [idOf EXCEPT ![ends[x]] = NoId]
  /\ freeIds' = Append(freeIds, x)
  /\ tau' = [tau EXCEPT ![x] = 0]
  /\ sup' = [sup EXCEPT ![x] = 0]
  /\ deadMark' = [deadMark EXCEPT ![x] = FALSE]
  /\ dels' = dels \ {x}
  /\ phase' = IF dels = {x} THEN "closure" ELSE "remove"
  /\ inserting' = FALSE
  /\ reg' = {}
  /\ UNCHANGED <<capEdges, slots, supcap, dcount, inReg, ubIn, palive, peelVars, ins,
                 newIds, batch, batches, view, seeds>>

-----------------------------------------------------------------------------
(* phase_insertions, and grow_structures *)

\* Mutant: the capacity is compared off by one.
NeedsGrowthLate(x) == x > supcap \/ x > slots

NeedsGrowth(x) == x >= supcap \/ x >= slots

\* One iteration of the insertion loop: the edge takes the id freed last or a
\* fresh one, and the arrays grow if they have no slot for it.
InsertEdge(e) ==
  /\ phase = "insert"
  /\ e \in ins
  /\ LET fresh == freeIds = <<>>
         x == IF fresh THEN capEdges ELSE Last(freeIds)
         grows == fresh /\ NeedsGrowth(x)
         size == Larger(x + 1, 2 * slots)
     IN /\ x \in Ids
        /\ freeIds' = IF fresh THEN freeIds ELSE Front(freeIds)
        /\ capEdges' = IF fresh THEN capEdges + 1 ELSE capEdges
        /\ slots' = IF grows THEN size ELSE slots
        /\ supcap' = IF grows THEN size ELSE supcap
        /\ deadMark' = IF grows THEN None ELSE deadMark
        /\ ends' = [ends EXCEPT ![x] = e]
        /\ idOf' = [idOf EXCEPT ![e] = x]
        /\ tau' = [tau EXCEPT ![x] = 0]
        /\ sup' = [sup EXCEPT ![x] = 0]
        /\ inReg' = [inReg EXCEPT ![x] = FALSE]
        /\ ubIn' = [ubIn EXCEPT ![x] = FALSE]
        /\ newIds' = newIds \cup {x}
  /\ ins' = ins \ {e}
  /\ phase' = IF ins = {e} THEN "inswitness" ELSE "insert"
  /\ UNCHANGED <<dcount, palive, peelVars, dels, inserting, batch, batches, view,
                 seeds, reg>>

\* How often y stands in the list of mates of the new edges: once for every
\* new edge it closes a triangle with.
Raisings(y) == Cardinality({x \in newIds : y \in MatesOf(x)})

InsertionWitness ==
  /\ phase = "inswitness"
  /\ LET mates == UNION {MatesOf(x) : x \in newIds}
         own(y) == IF y \in newIds THEN Sup(Graph, ends[y]) ELSE sup[y]
     IN /\ sup' = [y \in Ids |-> own(y) + Raisings(y)]
        /\ dcount' = [y \in Ids |-> IF y \in mates THEN Raisings(y) ELSE dcount[y]]
        /\ seeds' = newIds \cup {y \in mates : dcount'[y] > 0}
  /\ newIds' = {}
  /\ inserting' = TRUE
  /\ reg' = {}
  /\ phase' = "closure"
  /\ UNCHANGED <<graphVars, tau, flagVars, peelVars, dels, ins, batch, batches, view>>

-----------------------------------------------------------------------------
(* region_closure *)

SeedRegion ==
  /\ phase = "closure"
  /\ LET fresh == {x \in seeds : Alive(x) /\ ~inReg[x]}
     IN /\ inReg' = Mark(inReg, fresh)
        /\ reg' = fresh
        /\ seeds' = fresh
  /\ phase' = "expand"
  /\ UNCHANGED <<graphVars, tau, sup, dcount, ubIn, deadMark, palive, peelVars, batchVars>>

\* Mutant: only one mate of each triangle is looked at.
UnflaggedFirst(S) ==
  {y \in UNION {MatesOf(x) : x \in S} :
     ~ubIn[y] /\ \E x \in S : \E p \in PairsAt(x) : y \in p /\ \A z \in p : y <= z}

Unflagged(S) == {y \in UNION {MatesOf(x) : x \in S} : ~ubIn[y]}

\* One round: the mates of the frontier that no thread has flagged yet are
\* flagged and merged into the region.
CloseRound ==
  /\ phase = "expand"
  /\ seeds # {}
  /\ LET found == Unflagged(seeds)
         fresh == {y \in found : ~inReg[y]}
     IN /\ ubIn' = Mark(ubIn, found)
        /\ inReg' = Mark(inReg, fresh)
        /\ reg' = reg \cup fresh
        /\ seeds' = fresh
  /\ UNCHANGED <<phase, graphVars, tau, sup, dcount, deadMark, palive, peelVars,
                 batchVars>>

RegionClosed ==
  /\ phase = "expand"
  /\ seeds = {}
  /\ ubIn' = Clear(ubIn, reg)
  /\ phase' = "recount"
  /\ UNCHANGED <<graphVars, tau, sup, dcount, inReg, deadMark, palive, peelVars,
                 batchVars, seeds, reg>>

-----------------------------------------------------------------------------
(* region_peel *)

\* Mutant: a mate that has left the sweep still holds its triangles.
GoneNever(w, x, s) == ~inReg[x] /\ tau[x] < (s + 2) % TauModulus

\* The sweep's state is a record: the edges still in the sweep, the frozen
\* edges with a scheduled event, the running supports and the buckets.  A mate
\* no longer holds a triangle at level s when it has been peeled or virtually
\* removed, or is frozen with a trussness below the level.
Gone(w, x, s) ==
  IF inReg[x] \/ w.flagged[x] THEN ~w.alive[x] ELSE tau[x] < (s + 2) % TauModulus

\* The region edges that lose a triangle when x goes at level s.
Lowered(w, x, s) ==
  UNION {{y \in p : inReg[y] /\ w.running[y] > s} :
           p \in {q \in PairsAt(x) : \A y \in q : ~Gone(w, y, s)}}

\* Take x out of the sweep at level s.
Detach(w, x, s) ==
  LET down == Lowered(w, x, s)
      running == [y \in Ids |-> IF y \in down THEN w.running[y] - 1 ELSE w.running[y]]
  IN [alive |-> [w.alive EXCEPT ![x] = FALSE],
      flagged |-> w.flagged,
      running |-> running,
      buckets |-> [k \in DOMAIN w.buckets |->
                     w.buckets[k] \cup {y \in down : running[y] = k}]]

\* The level at which a frozen edge leaves the sweep.
EventLevel(x) == IF tau[x] >= 2 THEN tau[x] - 2 ELSE 0

\* Entering level s, the frozen edges of that trussness leave, in id order.
EnterLevel(w, evs, s) ==
  LET due == {x \in evs : EventLevel(x) = s}
      after[S \in SUBSET due] ==
        IF S = {} THEN w ELSE Detach(after[S \ {Max(S)}], Max(S), s)
  IN after[due]

SweepIs(w) ==
  /\ palive' = w.alive
  /\ ubIn' = w.flagged
  /\ psup' = w.running
  /\ buckets' = w.buckets

Sweep == [alive |-> palive, flagged |-> ubIn, running |-> psup, buckets |-> buckets]

\* Mutant: the recounted supports are not stored.
StoredUnchanged(count) == sup

\* The recounted supports replace those of the region.
Stored(count) == [x \in Ids |-> IF x \in reg THEN count[x] ELSE sup[x]]

\* The recount, the events and the buckets; the sweep enters level 0.
StartPeel ==
  /\ phase = "recount"
  /\ LET count == [x \in Ids |-> IF x \in reg THEN Sup(Graph, ends[x]) ELSE psup[x]]
         outside == {y \in UNION {MatesOf(x) : x \in reg} : ~inReg[y] /\ ~deadMark[y]}
         maxsup == CHOOSE m \in {0} \cup {count[x] : x \in reg} : \A x \in reg : count[x] <= m
         w == [alive |-> Mark(palive, reg \cup outside),
               flagged |-> Mark(ubIn, outside),
               running |-> count,
               buckets |-> [k \in 0 .. maxsup |-> {x \in reg : count[x] = k}]]
     IN /\ sup' = Stored(count)
        /\ events' = outside
        /\ deadMark' = Mark(deadMark, outside)
        /\ SweepIs(EnterLevel(w, outside, 0))
  /\ level' = 0
  /\ popped' = 0
  /\ phase' = "peel"
  /\ UNCHANGED <<graphVars, tau, dcount, inReg, batchVars, seeds, reg>>

InSweep == phase = "peel" /\ level \in DOMAIN buckets

PeelEdge(x) ==
  /\ InSweep
  /\ x \in buckets[level]
  /\ palive[x] /\ psup[x] = level
  /\ SweepIs(Detach([Sweep EXCEPT !.buckets[level] = @ \ {x}], x, level))
  /\ tau' = [tau EXCEPT ![x] = (level + 2) % TauModulus]
  /\ popped' = popped + 1
  /\ UNCHANGED <<phase, graphVars, sup, dcount, inReg, deadMark, events, level,
                 batchVars, seeds, reg>>

\* Mutant: the sweep does not move on from a stale entry.
SkipForever(x) ==
  /\ InSweep
  /\ x \in buckets[level]
  /\ ~palive[x] \/ psup[x] # level
  /\ UNCHANGED vars

SkipEntry(x) ==
  /\ InSweep
  /\ x \in buckets[level]
  /\ ~palive[x] \/ psup[x] # level
  /\ buckets' = [buckets EXCEPT ![level] = @ \ {x}]
  /\ UNCHANGED <<phase, graphVars, tau, sup, dcount, flagVars, psup, events, level, popped,
                 batchVars, seeds, reg>>

NextLevel ==
  /\ InSweep
  /\ buckets[level] = {}
  /\ level' = level + 1
  /\ SweepIs(IF level' \in DOMAIN buckets THEN EnterLevel(Sweep, events, level') ELSE Sweep)
  /\ UNCHANGED <<phase, graphVars, tau, sup, dcount, inReg, deadMark, events, popped,
                 batchVars, seeds, reg>>

\* After the last level: the completeness check, then the flags are cleared and
\* the batch goes on with its insertions or returns.
FinishRegion ==
  /\ phase = "peel" /\ ~InSweep
  /\ IF popped # Cardinality(reg)
     THEN /\ phase' = "exit"
          /\ UNCHANGED <<flagVars, events, buckets, level, popped, reg>>
     ELSE /\ phase' = IF ins # {} THEN "insert" ELSE "return"
          /\ palive' = Clear(palive, reg \cup events)
          /\ ubIn' = Clear(ubIn, events)
          /\ deadMark' = Clear(deadMark, events)
          /\ inReg' = Clear(inReg, reg)
          /\ reg' = {} /\ events' = {}
          /\ buckets' = <<>> /\ level' = 0 /\ popped' = 0
  /\ UNCHANGED <<graphVars, tau, sup, dcount, psup, batchVars, seeds>>

-----------------------------------------------------------------------------

\* Every step of a batch that has begun.
BatchStep ==
  \/ DeletionWitness \/ InsertionWitness
  \/ \E x \in dels : RemoveEdge(x)
  \/ \E e \in ins : InsertEdge(e)
  \/ SeedRegion \/ CloseRound \/ RegionClosed
  \/ StartPeel \/ NextLevel \/ FinishRegion
  \/ \E x \in reg : PeelEdge(x) \/ SkipEntry(x)
  \/ ReturnBatch

\* The stream is at its end.
StreamEnds == phase = "idle" /\ batches = MaxBatches /\ UNCHANGED vars

Next ==
  \/ ApplyBatch
  \/ BatchStep
  \/ StreamEnds

Safety == Init /\ [][Next]_vars

\* The maintainer's thread runs until apply_batch returns.
Spec == Safety /\ WF_vars(BatchStep)

-----------------------------------------------------------------------------
(* Properties *)

Phases == {"idle", "witness", "remove", "insert", "inswitness", "closure", "expand",
           "recount", "peel", "return", "exit"}

\* Types of the maintainer's state.
TypeOK ==
  /\ phase \in Phases
  /\ ends \in [Ids -> Edge \cup {NoEdge}]
  /\ idOf \in [Edge -> Ids \cup {NoId}]
  /\ freeIds \in Seq(Ids)
  /\ {capEdges, slots, supcap, level, popped, batches} \subseteq Nat
  /\ {tau, sup, dcount, psup} \subseteq [Ids -> Nat]
  /\ {inReg, ubIn, deadMark, palive} \subseteq [Ids -> BOOLEAN]
  /\ {dels, newIds, seeds, reg, events} \subseteq SUBSET Ids
  /\ ins \subseteq Edge
  /\ inserting \in BOOLEAN
  /\ \A k \in DOMAIN buckets : buckets[k] \subseteq Ids

\* Neither defensive exit of the engine is ever taken: no support is lowered
\* below zero and the sweep always pops its whole region.
NoExit == phase # "exit"

\* Ids are recycled without loss: the hash table and the id arrays name the
\* same edges, an id is live, free or reserved and never two of these, and
\* every id in use has a slot in the arrays.
IdsSound ==
  LET live == {x \in Ids : Alive(x)}
      free == ToSet(freeIds)
  IN /\ live = IdsOf(Graph) /\ \A e \in Graph : ends[idOf[e]] = e
     /\ free \cap live = {} /\ IsInjective(freeIds)
     /\ Cardinality(live) + Len(freeIds) = capEdges - FirstId - Reserve
     /\ \A x \in live \cup free : x < capEdges /\ x < supcap /\ x < slots

\* The id of an edge is recycled with clean arrays: between two batches no
\* scratch flag of any id is set, so that a later region cannot miss an edge.
ScratchClean ==
  phase = "idle" => \A x \in Ids : ~inReg[x] /\ ~ubIn[x] /\ ~deadMark[x] /\ ~palive[x]

ExactSupports == \A e \in Graph : sup[idOf[e]] = Sup(Graph, e)

\* The deletions' jobs lower every support by exactly the destroyed triangles,
\* also when several edges of one triangle are deleted together.
DeletionWitnessExact == phase \in {"closure", "expand"} /\ ~inserting => ExactSupports

\* Between batches the stored supports are those of the current graph: the next
\* batch lowers and raises them.
SupportsExact == phase = "idle" => ExactSupports

\* When the closure is complete, the trussness of every edge outside the region
\* is already right for the changed graph, although nobody looked at it.
FrozenExact ==
  phase \in {"recount", "peel"} =>
    LET exact == Trussness[Graph]
    IN \A e \in Graph : idOf[e] \notin reg => tau[idOf[e]] = exact[e]

\* The closure runs to the end of triangle connectivity, so no triangle joins
\* a region edge and a frozen one and the sweep never schedules an event.
NoBoundaryEvents ==
  phase = "peel" => events = {} /\ \A x \in reg : MatesOf(x) \subseteq reg

\* The maintainer implements the abstract one: what the owner sees between
\* batches is the net graph with its exact trussness, and every batch returns.
\* MaintainedSafety leaves the last part out.
Maintained == INSTANCE MaintainedTruss
                WITH graph <- view.graph, truss <- view.truss,
                     InitialGraphs <- {ToSet(f) : f \in Files}

MaintainedSafety == Maintained!Safety
MaintainedSpec == Maintained!Spec

EdgesOf(S) == {ends[x] : x \in S}

\* The closure's rounds are those that RegionClosure's threads make: whichever
\* mates are flagged already, a round adds all mates of the region that it lacks.
Rounds == INSTANCE ClosureRounds
            WITH graph <- Graph, region <- EdgesOf(reg),
                 seeds <- IF phase = "closure" THEN EdgesOf(seeds) \cap Edge ELSE {},
                 stage <- CASE phase = "closure" -> "seed"
                            [] phase = "expand" -> "round"
                            [] OTHER -> "done"

RoundsSafety == Rounds!Safety

-----------------------------------------------------------------------------
(* What the paper says of the implementation and the code does not do *)

\* paper/sections/method-region.tex:34: deletions are processed before
\* insertions, so a batch that deletes and re-inserts an edge leaves it in.
DeletionsFirst ==
  [][phase = "return" =>
       view'.graph = (view.graph \ {op.edge : op \in {o \in batch : o.del}})
                       \cup {op.edge : op \in {o \in batch : ~o.del}}]_vars
=============================================================================
