# A TLA+ model of the batch k-truss maintainer

This directory specifies the program in `src/` (a C++ implementation of exact
k-truss maintenance under batches of edge insertions and deletions), checks it
with TLC on small instances and proves theorems about it with TLAPS.

The *support* of an edge is the number of triangles it closes. The *k-truss* of
a graph is its largest subgraph in which every edge closes at least k-2
triangles, and the *trussness* of an edge is the largest k whose k-truss has it.
Every engine of the program computes trussness; two of them maintain it while
the graph changes.

## 1. Inventory of the system

| Component | Source | State | Operations | Status |
|---|---|---|---|---|
| Worker pool | `batch.h` 50-128 | atomics `seq job done stop count`, `pool_body`, mutex and condition variable, worker threads | `pool_start`, `run_jobs`, `pool_worker`, `pool_shutdown` | modelled, proved |
| Batch engine | `batch.h` 130-534 | `tau`, `sup`, `dcount`, scratch flags `in_reg ub_in dead_mark palive`, `psup`, region list | constructor, `apply_batch`, `phase_deletions`, `phase_insertions`, `grow_structures`, `region_closure`, `region_peel`, `apply_batch_nomerge` | modelled, but for an ablation nothing sets; safety proved |
| Region closure as a parallel loop | `batch.h` 201-238 | frontier, per-thread lists, plain-byte flags | `region_closure` | modelled, proved |
| Static decomposition | `truss_static.h` | vertex counter, running supports, buckets, level | `static_truss`, `compute_supports` | modelled, proved |
| Per-edge engine | `incremental.h`, `fixpoint.h` | `tau`, `sup`, work queue, region | `insert`, `remove`, `fixpoint`, `eval_trussness` | modelled, safety proved |
| Dynamic graph | `graph.h` | adjacency with back slots, id arrays, free ids, open-addressing hash | `add_edge`, `remove_edge`, `find`, `hash_insert`, `hash_delete`, `rehash`, `load` | modelled, proved |
| Stamp set | `common.h` 31-53 | stamps, epoch | `next_epoch`, `mark`, `test` | modelled, proved |
| Streams | `stream.h` | graph and stream files | `gen_random_stream`, `load_stream`, `save_stream`, `save_graph_edgelist`, `synth_*` | modelled by what the files hold, proved |
| Drivers | `main.cpp`, `debug_bisect.cpp` | files, and the engines' | `gen`, `cmd_snap`, `run_batch`, `run_peredge`, `verify_now` | modelled but for verification, arguments and CSV; proved |
| Experiment suite | `scripts/run_perf.sh`, `scripts/supervise.sh` | log, CSV files, final graphs, processes | the script, its workers, the supervisor | modelled, proved |
| Development snapshots | `batch_v1_backup.h`, `batch_mangled_trash.h` | | | not part of any build |
| Other scripts, results, data, paper | `scripts/ results/ data/ paper/` | | | no program logic; the paper's statements about the code are used in section 6 |
| Baselines | `baselines/` | | | third-party programs |

How they interact. A driver loads a graph (`DynGraph::load`), builds an engine on
it (the engine's constructor runs `static_truss`), feeds it the batches of a
stream and compares its `tau` with a fresh `static_truss` (`verify_now`). The
batch engine keeps a reference to the graph and changes it directly. Each phase
of a batch is a sequence of `run_jobs` calls; a call hands a loop body to the
pool and returns when all iterations have run, so it is a barrier between the
parts of a phase. Below 32768 iterations the loop runs inline on the caller.
The owner reads `tau` and the graph only between batches. Commands reach each other
through files: `gen` and `snap` write streams, `snap` also the graph they start from,
`--graph-out` the graph a run ends on, which `static` reads. The suite starts these
commands, counts the rows they leave, and is started again by its supervisor.

What is hard about it:

* **Concurrency.** The hand-over of a loop to sleeping workers and back
  (`seq`/`done` handshake, condition variable, reset of four atomics one by one).
  The pool path starts at 32768 iterations, which no graph in `data/` reaches,
  so the repository's own verification runs hardly exercise it. Plain bytes
  (`ub_in`) are tested and set by several threads in one round.
* **Ordering.** Triangles with several deleted or several new edges are seen by
  several jobs of one loop; exactly one has to account for a deletion.
* **Stale state.** Ids are recycled with whatever scratch flags they carry;
  bucket entries become stale when their edge moves; running supports stop being
  exact at the level being peeled; the arrays grow in mid-phase.
* **Long-range correctness.** Nothing outside a region is recomputed: an edge
  missed by one batch stays wrong in all later ones.
* **Failure.** Two defensive exits (`support underflow`, `region peel
  incomplete`) terminate the program; an engine persists nothing. The suite does:
  scripts, workers and program runs may be killed in any order, orphans run on, and
  what is done again is decided by counting rows.
* **Files between processes.** Vertex names are renumbered by everyone who reads a
  graph; a stream is in the numbering of whoever wrote it.
* **Limits.** 16-bit `tau`, 32-bit stamps, hash table fill, id capacity.

What makes each component correct:

* Pool: every iteration of every call exactly once; a call returns, and only
  after all iterations; no worker is inside a call that has returned; the
  destructor returns.
* Static sweep: the result is the trussness of every edge; it returns.
* Region closure: the region is exactly the triangle-connected closure of the
  live seeds, each edge listed once, and no flag survives.
* Batch engine: between batches the graph is the net graph, `tau` is its
  trussness, `sup` its supports; ids are sound, scratch arrays clean; no
  defensive exit; every batch ends.
* Per-edge engine: the same, one operation at a time.
* Dynamic graph: adjacency, slots, ids and hash agree; lookups terminate.
* Streams: a replay stays inside the graph; every mode and engine does the same work
  on a generated stream; what `snap` splits can be put together again.
* Suite: one worker per graph; no slot measured over and over; a suite that says it is
  done is complete; the supervisor ends.

## 2. Plan

Order of modules (done in **bold**):

1. **`ParallelLoop`** (contract of `run_jobs`), **`JobPool`** (its implementation),
   **`JobPoolProofs`**.
2. **`Truss`** (supports, k-truss, trussness), **`BucketPeel`** and
   **`Supports`** (`static_truss` and the parallel support count it starts
   from), **`TrussProofs`**, **`StaticTrussProofs`** (both halves of `static_truss`).
3. **`RegionClosure`** (one closure with its threads and the data race),
   **`RegionClosureProofs`**.
4. **`NetBatch`** (what a batch means), **`MaintainedTruss`** (contract of a maintainer), **`BatchMaintainer`** (the
   batch engine, built on 1-3: each `run_jobs` call is one step because of 1, a
   closure round is one step because of 3 and 10), **`BatchInvariant`** (its inductive invariant),
   **`BatchProofs`**.
5. **`PerEdgeMaintainer`** (`incremental.h`, `fixpoint.h`), also shown to
   implement `MaintainedTruss`, with batches of one, **`PerEdgeProofs`**.
6. **`DynGraph`** (adjacency, slots, free ids) composed with **`EdgeHash`** (linear
   probing with tombstones and rehash); together they implement **`EdgeMap`**;
   **`DynGraphProofs`**.
7. **`StampSet`** (operators, used by `Supports`; its theorems are in `StaticTrussProofs`).
8. **`EdgeList`** (the files) and **`Streams`** (generation, splitting and replay of a
   workload, with `NetBatch` for what an engine does).
9. **`Suite`** (script, workers, supervisor), **`WorkloadProofs`** (about `Streams` and
   `Suite`).
10. **`ClosureRounds`** (what the closure promises a phase), implemented by
   `RegionClosure` and by `BatchMaintainer`.

What the proofs leave to TLC, and why, is the end of section 5.

## 3. Modules

### ParallelLoop and JobPool

`ParallelLoop` is what a phase relies on: `Call(n)`, then `Execute(i)` once for
every task, then `Return`.

`JobPool` follows the code access by access. Thread 0 is the caller; `pc` names
the place of every thread. `WorkerLock`, `WorkerTest`, `WorkerWait` and
`SpuriousWakeup` are the wait loop (71-74), `WorkerCheckStop`, `WorkerReadSeq`,
`WorkerReadCount` lines 75-77, `WorkerClaim`/`WorkerRun` the chunk loop,
`WorkerDone` line 85. On the caller's side `CallInline`/`InlineRun` are lines
106-109, `CallPool` assigns `pool_body` before the lock, `PublishLock`,
`SetCount`, `SetJob`, `SetDone`, `BumpSeq`, `NotifyWorkers` are the critical
section, `SpinDone` the final loop, and `Shutdown` to `Join` the destructor.
`ran` is a history variable. Accesses are sequentially consistent: the relaxed
store of `pool_done` is ordered by the mutex and the release increment of
`pool_seq` that follow it.

### Truss and BucketPeel

`Truss` gives triangles as three-element sets of edges over a constant edge set,
and defines supports and trussness from their definitions (union of all dense
subgraphs), not from any algorithm. The constant `Trussness` is the table of the
trussness of every graph; `TrussnessAssumption` says that it is, and TLC
evaluates that on every run.

`BucketPeel` is the sweep of `static_truss`: `Peel` (lines 91-108), `Skip` (the
`continue` of line 90), `NextLevel`. Buckets are sets; the code's order within a
bucket is one of the orders the model allows. Its graph is `input` and its supports are
`running`, since the proofs extend both it and `Supports`.

### Supports

One call of `compute_supports` after another. `Call` assigns the result array and
the counter, `Spawn` starts the threads one by one, `Leave`, `DrawIsolated` and
`Draw` are the outcomes of the `fetch_add` of line 39, `Count` is one iteration of
the loop over the drawn vertex's edges, `Join` the end of the call. An edge is the
pair of its ends, the smaller first, as `add_edge` orders them. `Draw` empties the
thread's stamp set and marks the neighbours of the drawn vertex, with the operators
of `StampSet`; the sets outlive the call, so old stamps are what the next call
meets. The result is what `BucketPeel` starts from.

### StampSet

Operators on a record of stamps `s` and epoch `e`: `Fresh` is `init`, `NextEpoch`
has the wrap, `MarkAll` is a loop of `mark`s, `Test` is `test`. The width of the epoch
is a constant: `Modulus` is 3 in the run, so that it wraps after two rounds, and any
number above 1 in the theorems. The edge id stored with a mark is left out.

### ClosureRounds and RegionClosure

One call of `region_closure` with the threads of `run_jobs`. `TakeJob` hands a
frontier edge to a thread, `FlagMate` and `PassMate` are the outcomes of the test
of `ub_in`. A thread sees its own flags and those of earlier rounds; a flag set
by another thread in the same round may be seen or not. `Merge` is the loop
after the barrier.

`ClosureRounds` is the promise without threads and flags: a `Round` adds all mates of
the region, `HandOver` ends the call when there are none left, and between calls
(`Owner`) the graph changes and the region is empty. `RegionClosure` implements it with
`TakeJob`, `FlagMate` and `PassMate` as stuttering steps and `Merge` as the round;
`BatchMaintainer` implements it too, with the graph and the region read through the ids.

### NetBatch, MaintainedTruss and BatchMaintainer

`NetBatch` says what a batch does to a graph: `Removed`, `Added`, `Net`.
`MaintainedTruss` is the promise to the owner: `Begin` a batch, `End` with the
net graph and its trussness. The constant `Batches` is the set of batches the owner
may give.

`BatchMaintainer` is the engine over edge *ids*: `ends` is `eu`/`ev`, `idOf` the
hash table as a function, `freeIds` the stack of recycled ids, `capEdges`,
`slots` and `supcap` the three capacities, the remaining variables have the names
of the C++ arrays. `phase` is the program counter:

    idle -> witness -> remove* -> closure -> expand* -> recount -> peel* -+-> return -> idle
        \-> insert* -> inswitness -> closure -> ...                       +-> insert ...

`ApplyBatch` nets the batch, `DeletionWitness`, `RemoveEdge` and
`InsertEdge`, `InsertionWitness` are the two phases up to the closure
(`InsertEdge` includes `grow_structures`), `SeedRegion`, `CloseRound`,
`RegionClosed` the closure, `StartPeel`, `PeelEdge`, `SkipEntry`, `NextLevel`,
`FinishRegion` the sweep with its events and the clean-up. The two exits lead to
phase `exit`. `view` is what the owner sees, refreshed by `ReturnBatch`.

A `run_jobs` call is one step: its bodies either write disjoint locations or
commute (`fetch_add`, `fetch_sub`), except in the closure, which has the module
above. The order in which a hash set lists a batch is left open: `RemoveEdge` and
`InsertEdge` pick any edge.

A batch is a set of operations. Repeating an operation in a batch has no effect
in the code (`delset` and `insset` are sets), and neither has the order, since
every operation is judged against the graph before the batch. Self-loops are
skipped by line 357 and are not among the model's edges. Removing and adding a
vertex does not exist in the code.

### PerEdgeMaintainer

The engine by its edges; an id is recycled with `tau` and `sup` zero and its flags
down, so ids carry nothing over. `Refused` are the early returns of both
operations. `InsertEdge` is `insert` up to the loop of line 141, `Close` one
iteration of that loop, `Closed` the refill of the queue, `RemoveEdge` is
`remove` up to `fixpoint`, `Demote` one iteration of `fixpoint(false)`, `Settled`
its end with the reset of the region, `ReturnOp` the return. The queue is a set:
its order comes from the adjacency lists, and every order is allowed. `inq` and
`inreg` are membership in `queue` and `region`. `Eval` is `eval_trussness`, the
scan over the sorted levels of an edge's triangles with its cut-off.

### EdgeMap, EdgeHash and DynGraph

`EdgeHash` is the table slot by slot: `Empty` and `Tombstone` are the contents 0
and `UINT32_MAX`, an id is stored plus one, `HashInsert` rehashes first when
`hused` asks for it, `RawInsert` takes the first slot that is empty or a tombstone,
`HashDelete` leaves a tombstone. `Home` gives each key its hash. A search ends at one
of `Stops`; if there were none TLC would stop with an error in `Find`, and
`TableSound` says that there is one. `HashInsert` has the guard that the key is
absent, which is what `insert`, `apply_batch` and `load` check before `add_edge`.
`Rehashed` is the loop of `rehash` as a function of the slots already met. `Contents` is
the table by what searches return, and `EdgeMap` the map that it implements.

`DynGraph` is `add_edge`, `remove_edge` (`Unlink` for one end of the edge, with the
swap of the last entry into its place and the patch of that entry's slot) and
`common_neighbors`, over sequences of adjacency entries, `slot0`/`slot1`, and the
stack of free ids. It holds the table's variables and instantiates `EdgeHash`:
`AddEdge` includes `HashInsert`, `RemoveEdge` includes `HashDelete`, `Has` and `Find`
search the table. `CommonNeighbors` has the callbacks by the position in the second list
for which they are made. `GraphAssumption` asks of the constants that pairs have the
smaller vertex first, as `add_edge` orders them, that ids handed out at the start have a
slot in the arrays, and that a growing array grows; the hash function is arbitrary.

### EdgeList and Streams

`EdgeList` has the two files as sequences: rows of two vertex names, and lines that
are a batch header or an operation. `Loaded` is `DynGraph::load` with its renumbering,
`Listings` the rows `save_graph_edgelist` may write (adjacency lists are in any
order), `StreamText` and `Parsed` are `save_stream` and `load_stream`. The loops of the
readers are recursive functions over the number of rows or lines read, so that they can be
reasoned about.

`Streams` is a workload from its making to its end. Either `gen` loads a graph and
draws (`GenLoad`, `Draw`, `EndBatch`; a draw that gives up after 1000 tries leaves a
batch short), or `snap` walks the rows of a log (`InitialRow`, `InitialDone`,
`TailRow`, `SaveSnap`, in the `append` and the `rewind` direction). Then one run of
`batch`, `nomerge` or `peredge` reads both files (`Open`), applies the operations in
batches or one by one (`Apply`), and saves its graph (`Close`). An insertion at a
vertex that the loaded graph does not have indexes `adj` out of range: the stage is
`wild`, and nothing is said of what follows. The probability of a draw is left out,
and so is the generator's seed. `Renumbered` is `snap`'s stable sort by time and its
numbering of the vertices. `StreamsAssumption` asks that a graph file for `gen` has a row,
that names and times are numbers, and that size and number of batches are not zero.

### Suite

`supervisor` is the loop of `supervise.sh` in three steps: `Grep` for the end mark,
`CountBinaries`, `CountScripts` with the relaunch. `mains`, `workers` and `binaries` are
the processes alive, with the launch they belong to: a binary outlives its worker, a
worker its script. `Worker` is one slot of `worker()`: skipped when its rows are there,
otherwise a run of the program is started, which the worker waits for (`Waits`).
`Compute` and `Flush` are the run; its rows stay in the output buffer until it exits, so
`measured` counts runs and not single rows. `Kill` takes a script, a worker, all scripts or a
run. `lost` is a history variable: the graphs that lost a worker whose script lives, or
a run whose worker lives, since the latest launch. `Graphs` are those whose data file is
there, `Plan` the slots whose stream is. Its state formulas are called `SuiteInit`,
`SuiteNext`, `SuiteSpec`, since the proofs extend both it and `Streams`.

## 4. Runs

| Run | Question | Instance | States |
|---|---|---|---|
| `jobpool` | pool contract, stragglers, shutdown | 3 threads, chunk 2, threshold 3, calls with 0, 2 (inline), 3, 5 tasks, two calls, one spurious wake-up | 148k |
| `bucket_peel` | sweep is exact and returns | all 64 graphs on 4 vertices, 4 on 5 | 1.1k |
| `region_closure` | closure exact despite the race | 2 threads; triangle strip and K4 with a tail; seeds at one end, both ends, middle, dead | 49k |
| `batch` | one batch on any graph, and the unchanged part of it | every isomorphism class on 4 vertices, in two id orders, K4 and K4 less an edge with a fifth vertex; batches of up to 3 operations on 4 vertices and 2 on 5 | 205k |
| `batch_recycling` | ids, arrays and the inductive invariant over two batches, and every batch ends | K4 less an edge, two batches of up to 2 operations, reserved ids | 40k |
| `supports` | parallel count is exact | 4 vertices, 3 threads, two calls on either of K4 and a triangle, epoch modulo 3 | 215k |
| `per_edge` | the engine is exact in every order, and every operation returns | three graphs on 4 vertices and two on 5, two operations on any of 8 edges | 35k |
| `dyn_graph` | lists, slots, ids, triangles, hash table | 4 vertices, 5 edges (two triangles), ids 1 to 4, hash of 4 slots growing to 8, colliding homes at its end | 23k |
| `streams` | generated, split and saved files hold what is meant | two graph files of 4 rows (one with a self-loop, a repeated row, a lone vertex), all logs of 4 rows over 4 pairs, every cut; batches of 2 | 120k |
| `suite` | resume, completeness, end | 2 graphs, 3 slots (one writes the final graph, one reads it), 2 kills | 317k |

`delete_reinsert` and `snap_replay` are the violations of section 6.

Why the bounds are enough. *Pool*: three threads give two workers and a caller,
so a worker can be late while the other and the caller finish, in either of two
consecutive calls, and a call can follow an inline one; five tasks in chunks of
two give a short last chunk and a thread that gets none. The theorems of section
5 remove these bounds for safety. *Graphs*: on four vertices triangles share
edges and the trussness ranges over 2, 3 and 4; three operations can delete, or
insert, all edges of one triangle, so that ties are broken between three jobs,
and one batch can do both. On five vertices a K4 and a triangle share an edge:
regions are proper parts of the graph and levels differ across it. *Ids*:
`FirstId` 1 leaves an id below the loaded ones unused and `Reserve` 1 skips one
above, as the loader and the constructor do by more; a fresh id grows the
arrays, and ids recycled by the second batch were used by the first. The number
of batches and the number of ids (`MaxBatches`, `MaxIds`) are bounds of the
model; `InsertEdge` would be disabled beyond `MaxIds`, and the instances are
small enough for that never to happen. *Supports*: with three threads two of
them can be inside vertices of one edge while the third leaves or draws, and the
second call meets the first call's stamps after the epoch has wrapped.
*Per-edge*: two operations let an operation start from what another one left,
and a graph on five vertices has regions that do not cover it (`MaxOps`).
*DynGraph*: every position of a list is removed and refilled, and the id array
grows (`InitialSlots`, `Increment`). The 4-slot hash table is rehashed with and
without tombstones in it, tombstones are reused and passed, and probing wraps;
at 8 slots the model stops growing (`MaxSize`, `AtBound`), so that a behaviour
has at most six insertions; four ids (`MaxIds`) leave at most four of the five
edges live. *Streams*: four rows hold a pair that recurs before, across and after the
cut, in both orientations and out of time order, and a row that is a loop; two batches
of two operations (`BatchSize`, `NumBatches`) let a later batch meet an earlier one.
*Suite*: two kills (`MaxKills`) are what it takes to orphan a run and to start the suite
again beside it, or to kill a worker and then the run of the next launch; the theorems
of section 5 hold for any number. No run disables the deadlock check.

Properties, by module:

* `JobPool`: `NoStraggler`; `IInv`, the inductive invariant, with the types;
  `LoopSpec`, the refinement of `ParallelLoop` with its liveness;
  `ShutdownCompletes`.
* `BucketPeel`: `PeelInv`, the inductive invariant: types, `Pending` (no edge is lost
  among stale entries), `RunningSupport`, `Sandwich`, `PeeledExact`; `ResultExact`,
  `Returns`.
* `Supports`: `IInv`, the inductive invariant with the types and what the stamp sets
  hold; `SupportsExact`, and `LoopSpec`, the same `ParallelLoop` the
  pool implements, over vertices.
* `PerEdgeMaintainer`: `IInv`, the inductive invariant: types, `OwnerSees`, `SettledExact`,
  `Rising` for the insertion's closure, `NeverBelow` and `Unsettled`, between which the
  demotion is held; `EvalExact` (against the definition by counting),
  `SupportsExact`, and the refinement `MaintainedSpec`.
* `DynGraph`: `IInv`, the types with `EndsSound`, `SlotsPoint`, `ListsExact` and `IdsSound`;
  `TrianglesFound`; of its hash table `TableSound` (searches end, the fill count is
  sound, no key twice, every key is reached from its home) and `MapSpec`, the refinement
  of `EdgeMap`. `IInv` and `TableSound` together are the inductive invariant.
* `Streams`: `GeneratedInRange`, `ModesAgree`, `SnapExact`, `SavedGraphReloads` (the types
  are in the inductive invariant of the proofs).
* `Suite`: `OneWorker`, `MeasuredTwiceAtMost`, `DoneIsComplete` (an action property),
  `SuiteEnds`.
* `RegionClosure`: `RegionIsClosure`, `Terminates`; `IInv`, the inductive
  invariant with the types, `ListedOnce` and `FlagsCleared`; `RoundsSafety`, the refinement of
  `ClosureRounds`.
* `BatchMaintainer`: `IInv`, the inductive invariant, which is stated in `BatchInvariant`
  (section 5) and has the types and `IdsSound` in it; `NoExit`, `ScratchClean`,
  `DeletionWitnessExact`, `SupportsExact`, `FrozenExact`, `NoBoundaryEvents`,
  and the refinements `MaintainedSafety`, `MaintainedSpec` and `RoundsSafety`.

Each property of a passing run has a mutant in `PROJECT.json`, a plausible
mistake in the code (a dropped test, a missing reset, a swapped comparison)
under which TLC finds it violated. The mutants' definitions stand before the
definitions they alter.

Fairness. `JobPool`: weak fairness of every worker's steps and of the caller's
steps inside a call or the destructor, i.e. the operating system runs threads
that can run and hands a free mutex to a waiting one; nothing is assumed of the
decision to call or to destroy, nor of spurious wake-ups. Weak fairness is
enough for the mutex because a worker that waits for a call gives it up for good
until it is notified. `BucketPeel`, `BatchMaintainer`, `PerEdgeMaintainer`: the one thread that runs
the sweep, the batch or the operation goes on. `RegionClosure`, `Supports`: every
thread that has work goes on. `DynGraph` is called and
has no steps of its own: no fairness. `Streams` states safety only. `Suite`: the
supervisor, the script, every worker and every run go on while they are alive; nothing is
assumed of kills, which are bounded in number.

## 5. Proofs

`JobPoolProofs` proves, for every number of threads, chunk size, threshold and
set of task counts that satisfy `PoolAssumption`:

* `TypeCorrect`: `Safety => []TypeOK`;
* `Invariance`: `Safety => []IInv`;
* `StragglerFree`: `Safety => []NoStraggler`;
* `ImplementsLoop`: `Safety => LoopSafety`, every step of the pool is a step of
  `ParallelLoop` or changes none of its variables.

The argument. `NoStraggler` and the refinement are not inductive: that a worker
in the chunk loop belongs to the call in flight depends on `done`, and what
`done` counts depends on which workers have seen the current `seq`.
`HandshakeInv` states this: outside a call every worker is parked and has seen
the last sequence number; inside one, it has not seen it, or is working, or has
reported, and `done` is the number of those that have reported. Hence `done =
T-1` at the end of the spin loop means that all have reported
(`ReportedAll`, a fact about cardinalities), and a worker that has not seen the
number cannot have got past the wait loop before the call was published.
`MutexInv` says who holds the mutex, which is what keeps workers out of the loop
while the atomics are reset. `ArgumentsInv` says that work function and count
are in place before anyone reads them. `ChunksInv` and `RanInv` say that the
tasks below `job` are divided between those executed and disjoint chunks in
hand; with `job >= total` and nobody holding a chunk, every task has run once
(`ClaimDivides`, `RunDivides`). Each conjunct has a step lemma with one case per
action.

`TrussProofs` has the facts about supports and k-trusses the other proofs use, for
every finite edge set: a support does not grow when the graph shrinks
(`SupMonotone`); removing an edge costs each partner one triangle and the others
none (`SupWithout`); the union of dense subgraphs is dense (`KTrussFacts`);
k-trusses are nested (`KTrussNested`); hence an edge has one trussness
(`TrussnessUnique`, `TrussnessDefined`), in whose trusses and no higher ones it lies
(`TrussLevels`). Edges that share no triangle with the rest of a graph have the trussness
they have by themselves (`ComponentTrussness`); one more edge raises a trussness by at
most one (`TrussnessWithout`).

`StaticTrussProofs` is about the two halves of `static_truss` and what joins them. Of the
sweep it proves, for every set of graphs that satisfies `PeelAssumption` (no edge with so many triangles that 16 bits overflow),
`PeelTypes`, `PeelBookkeeping` (`Pending`, `RunningSupport`), `PeelExact`
(`PeeledExact`) and `StaticTrussCorrect` (`ResultExact`): when the static
decomposition returns, every edge has its trussness. None of these is inductive
alone: what makes a peeled value right is the `Sandwich`, that at level s the edges
left contain the (s+3)-truss and lie in the (s+2)-truss. A peeled edge has at most
s whole triangles, so the (s+3)-truss, which is left, cannot have it
(`PeeledOutside`); when a bucket runs empty every edge left has more than s whole
triangles, since its entry would otherwise be there (`NextLevelKeeps`). The second
needs `RunningSupport`, which needs `SupWithout`; the overflow of `tau` is excluded
by `SupBound`. No induction over graphs is needed: the sweep itself exhibits the
trussness, and `TrussnessUnique` identifies it with the definition.

Of the count it proves, for every number of vertices and threads, every set of
graphs and every width of the stamp epoch, `SupportsCorrect` (`SupportsExact`),
`SingleWriter` (`OneWriter`) and `SupportsImplementsLoop` (`LoopSafety`). `CountInv`
says that two counting threads have different vertices and that the stamp set of
each holds its vertex's neighbours; `DrawnInv` that an edge whose smaller end has
been drawn is counted or on that thread's list; `RanInv` does the same for vertices.

It also proves what this rests on: `NextEpochEmpties`, and `MarkedExactly`,
that a set marked after `next_epoch` answers exactly what was marked. The reason is
`StampsBehind`, that a stamp is never ahead of the epoch, so that none equals the
next one.

The two halves speak of different things: the count of common neighbours in a graph of
vertex pairs, the sweep of triangles as sets of edges. `SupportIsSup` gives the bijection
between the common neighbours of an edge's ends and the triangles over it, when the edges
and triangles of `Truss` are those of the vertices; hence `CountFeedsSweep`, that between
calls `sup` is the function of supports with which `PeelInit` begins. The two modules are
not composed into one state machine: the sweep starts when the count has returned.

`RegionClosureProofs` proves, for every set of edges, any threads and any seeds,
`ClosureExact` (`RegionIsClosure`) and `NoFlagLeft` (`FlagsCleared`). `FrontierInv`
carries it: the mates of a region edge whose job has been taken are in the region,
flagged by some thread or yet to be tested by one. A thread that finds a flag up
leaves the edge to a thread that has it on its list, or the edge is in the region
already; two threads that both find it down both list it, and the merge takes it
once (`ListedOnce`). `ClosureImplementsRounds` (`RoundsSafety`) adds that this holds round by
round: by `FrontierInv` a merge misses no mate of the region, and by `HeldInv`, that the
threads hold nothing but mates of the region as it was when the round began, it adds nothing
else (`MergeGrows`).

`PerEdgeProofs` proves, for every set of edges that satisfies `PerEdgeAssumption` (edges
are pairs, two edges of a triangle meet, no edge has so many triangles that
`eval_trussness` cuts off), every initial graph, any number of operations and every order
of the queue, `EngineInvariant` (`IInv`), `EngineSupports` (`SupportsExact`),
`EvalCorrect` (`EvalExact`) and `EngineImplementsMaintained` (`MaintainedSafety`). That the
engine ends on the trussness is not inductive. `NeverBelow` and `Unsettled` are what the
demotion keeps: lowering an edge to its evaluation does not pass its trussness, because the
edges of its truss support it there (`EvalAboveTrussness`), and whoever may have relied on
it is queued (`EvalLocal`). When the queue is empty the edges with at least a given value
are dense, so no value exceeds the trussness either (`SettledBelowTrussness`). The demotion
starts from such values after an insertion only because of `Rising`: the region is closed
under triangles but for what the queue holds, its values are not below the new
trussness, and outside it the old trussness is still right. The new edge starts no lower
than its trussness (`CeilingBound`), what it reaches rises by one, which is enough
(`TrussnessWithout`), and what the closed region leaves out keeps its value
(`ComponentTrussness`).

`BatchProofs` proves, for every finite set of edges, every set of input files and batches
that satisfies `BatchAssumption`, and any number of batches, `BatchEngineInvariant`
(`IInv`), and from it `BatchNeverExits` (`NoExit`), `BatchIdsSound` (`IdsSound`),
`BatchScratchClean` (`ScratchClean`), `BatchDeletionWitness` (`DeletionWitnessExact`),
`BatchSupports` (`SupportsExact`), `BatchFrozen` (`FrozenExact`), `BatchNoEvents`
(`NoBoundaryEvents`), `BatchImplementsMaintained` (`MaintainedSafety`) and
`BatchImplementsRounds` (`RoundsSafety`). Of
`BatchAssumption` the bound `MaxIds` is the model's, which disables `InsertEdge` beyond it;
that no support reaches `TauModulus` is the code's 16-bit limit. None of the properties is
inductive by itself; `IInv` adds, phase by phase:

* `GraphProgress`: the graph is the owner's but for the removals and insertions made so
  far. `Kept` is what the batch leaves of it and `Wanted` what it adds; an insertion phase
  starts from `Kept`, and `ReturnBatch` finds `Kept` with `Wanted`, the net graph.
* `FlagsInv`: a scratch flag is up only for the region or for the deletions, and only in
  the phase that uses it.
* `SeedsCover`: an edge that is new or whose triangles have changed is a seed, or in the
  region already. For deletions this is `LoweringsFacts`: the smallest-id rule
  lowers a support by exactly the triangles that go, so no exit is taken and each edge that
  loses one is a seed. For insertions it is that a mate's count is not zero.
* `RegionGrows`: what is in the region and not in the frontier has its mates in the region;
  with an empty frontier the region is closed (`ClosedFacts`). Therefore a round, which looks
  only at the frontier and drops the mates whose flag is up, adds all mates of the region
  (`CloseRoundIsRound`). With `ClosureImplementsRounds` this is why the engine's model may
  take a round of the racing threads for one step.
* `TauInv`: until the sweep the values are the trussness of `Base`, the graph before the
  phase. Outside a closed region no edge is new and no triangle has changed, so by
  `ComponentTrussness`, used in the old and in the new graph, they are right for the new
  graph too (`ClosedRegionExact`).
* `SupInv`: in which phases all supports are exact, and outside the seeds and the region
  always. The insertions' witness leaves a support too high only at a seed, and `StartPeel`
  recounts the region.
* `SweepBookkeeping` and `SweepSandwich`: those of `BucketPeel`, for the edges of the region
  within the graph. As the region is closed the event list is empty (`NothingDue`), and a
  popped edge has its trussness (`PeeledExact`), a level that runs empty leaves the next
  truss (`NextLevelExact`), and the last bucket leaves nothing, so that the completeness
  check passes.

`DynGraphProofs` proves, for every set of vertices and pairs, every hash function, every
initial size of arrays and table and every sequence of insertions and removals,
`GraphInvariance` (`IInv`), `TableAlwaysSound` (`TableSound`), `HashImplementsMap` (`MapSpec`)
and `TrianglesAlwaysFound` (`TrianglesFound`). The bounds of the model are constants here
too: `MaxIds` and `MaxSize` may be any numbers. The inductive invariant is `IInv /\ TableSound`;
neither part is inductive alone, since what stands in the lists is compared with what a
search returns, and the table is only used with keys that the lists vouch for.

The table first, as a value of any size (`GoodTable`). A search ends because there is an
empty slot, and there is one because at most half the slots are occupied: `hused` never
falls below the number of occupied slots, although an insertion into a tombstone counts
twice and a deletion not at all (`UsedSound`). It ends at the key if the key is there because
no empty slot lies before it on its way from home (`ProbesReach`). An insertion keeps this by
filling the first free slot on the new key's way and emptying none (`RawInsertFacts`), a
deletion because a tombstone is not empty (`BuryFacts`). What a search returns is then the
value in the one slot of the key (`LookupFacts`), and that is all a step changes. A
rehash copies slot by slot, and after each the new table holds the keys of the slots met so
far (`Copied`, `CopySlotFacts`). `Rehashed` is a recursive function: that there is
a function satisfying its equation on `0 .. size`, and that `Copied` holds at every point of
it, are inductions, which are carried out by hand as an argument about the least
number without one (`CopiesExist`, `RehashedFacts`).

The lists then. A removal moves the last entry of a list into the gap, and the entry may
be the removed one itself; two lists change, and no edge but the removed one is in both
(`UnlinkFacts`, `SwapRemoveFacts`). The patch goes to `slot0` or `slot1` by comparing the
vertex with the smaller end, which is right because the ends differ (`EndsSound`). The
lists are injective and hold an entry for each end of each live edge (`ListsMean`), so
that an entry occurs at the position the edge knows and nowhere else. That
`common_neighbors` is exact follows from the invariant alone: an entry of the list of `u` is an
edge at `u` whose id is what the table returns for the pair (`NeighbourFacts`).

`WorkloadProofs` is about how the measurements come about. Of the workloads it proves, for
every set of graph files and logs that satisfies `StreamsAssumption`, every size and number
of batches and every sequence of draws, `GeneratedAlwaysInRange` (`GeneratedInRange`),
`ModesAlwaysAgree` (`ModesAgree`), `SnapAlwaysExact` (`SnapExact`) and
`SavedGraphAlwaysReloads` (`SavedGraphReloads`). The inductive invariant (`Invariance`) has
two halves besides the types:

* `GenInv`: whatever is drawn, in hand, in the file or read back is in `GenOps`, the
  operations that the *loaded* graph allows: it deletes only edges of that graph and inserts
  only pairs it lacks, of its own vertices. Two such operations never contradict each other
  (`GenDisjoint`), and this is why it does not matter in what portions a replay takes them:
  what is left of the stream leads from the graph reached to the one that the whole stream
  leads to from the start. `gen` and the replay are different processes that agree on the
  numbering because they load the same file.
* `SnapInv`: in the first loop the graph is that of the rows passed. In the second
  (`TailInv`) the operations made are one for each edge of the rows passed that `seen`
  had not, forwards, or still had, backwards; no edge twice, in full batches. That a
  row makes at most one operation and where that goes is `TailRowFacts`; what the rest of the
  proof needs of rows is that those between two places are those before the last of them and
  that one (`BetweenFacts`).

That a saved graph loads as itself needs no history but a fact about each function: a listing
names the ends of the edges and nothing else (`ListingFacts`), numbering by first
appearance is a bijection between the names in a file and the numbers below their count
(`FirstSeenFacts`, `IdInFacts`), and renaming by a bijection keeps the edges apart
(`LoadedFacts`).

`FirstSeen`, `Parsed` and the library's `FlattenSeq` are recursive functions, and what they
compute for every file is an induction over data. It is carried out by hand: a property of
rounds that holds at 0 and is handed on holds everywhere, since otherwise there were a least
round without it (`CountingUp`); a function satisfying the recursion exists because each
prefix of it does (`RoundsExist`). `Renumbered` gives every row the number of rows that sort
before it, and that each number is taken once is a count (`RenumberedFacts`).

Of the suite `WorkloadProofs` proves, for every set of graphs, every plan that saves the
final graph in front of the baseline on it (`SuiteAssumption`) and any number of kills,
`WorkerUnique` (`OneWorker`), `AtMostTwice` (`MeasuredTwiceAtMost`) and `DoneMeansComplete`
(`DoneIsComplete`). The supervisor starts the suite only when it has found no script, and
between that and its count of programs only runs of the launch before can have started
(`BinaryInv`): so the runs alive belong to two launches, one per launch and graph, and a
slot that is measured a second time is being measured by an orphan and its repetition.
Completeness needs more (`ProgressInv`): a graph that has lost nothing has a worker behind
slots that are settled, each with its rows or with the one run of the launch in flight, or
no slot without rows. That the static baseline never fails for want of the final graph then
follows, since the slot that saves it is settled and not in flight (`BinaryProgress`).

Only model-checked. All liveness (`LoopSpec`'s fairness part, `ShutdownCompletes`,
`Returns`, `Terminates`, `MaintainedSpec`'s last part, `SuiteEnds`), which is out of TLAPS's
reach: of every refinement the safety part is proved. Every invariant and every action
property that a passing run checks is proved for all values of the constants that satisfy
the assumptions, which TLC evaluates for the instance of each run.

## 6. Where documents and code disagree

Each of these is a run that TLC finds violated.

* `delete_reinsert`: the paper says a batch may delete and re-insert an edge and
  that deletions are processed first. The code judges both operations against
  the graph before the batch, drops the insertion of a present edge, and the
  edge ends up deleted.
* `snap_replay`: the README gives `snap`'s two files as the input of a run. The stream
  is in the numbering of the whole log, the graph is renumbered when it is loaded, by
  first appearance in its file. In the run's log, with a cut of 3, `snap` calls the rows
  0-1, 2-3, 0-3 and 0-2 and writes the graph as 0-1, 0-3, 2-3: `load` calls 3 by 2 and 2
  by 3, the insertion of 0-2 meets the edge that was 0-3 and is dropped, and the replay
  ends with three edges, not four. That is no matter of names: `SnapReplays` compares up to a
  bijection of the vertices. Apart from this run, a vertex whose edges all come after the cut
  may lie outside the loaded adjacency (the stage `wild` of `Streams`).

Also seen while modelling. The paper says region membership is a fetch-and-add mark
(`paper/sections/parallel.tex:8`); it is a plain test and set (`batch.h:218`), so that
two threads can flag one edge, and the closure is exact nevertheless
(`RegionIsClosure`). Since the closure always runs to the end, the boundary events of
`region_peel` are never generated (`NoBoundaryEvents`). The paper says supports are exact
after the witness phase (`method-region.tex:30`); after the insertions' one an edge of a
triangle with two new edges has too high a support (`batch.h:484`), which the recount of
the region corrects before anything depends on it (`SupportsExact`). The paper plots
`region_max` as the maximum region size (`experiments.tex:51`); it is taken from the seeds
before the region is expanded (`batch.h:208`). The paper says the generator keeps the
graph above a minimum size (`experiments.tex:14`); it never applies an operation and judges
all of them against the loaded graph, and it is this that makes `nomerge` and the per-edge
engine end on the graph of the batch engine (`ModesAgree`). For the same reason its
streams hold no "re-insertions of previously deleted edges" (`experiments.tex:26`): an
edge of the loaded graph can be drawn for deletion only, any other pair for insertion
only. `README.md:54` passes `--ablate allseeds`, which nothing sets (`batch.h:30`).
`supervise.sh:8` says that the suite
is complete when it has only seen the end mark, which the script writes whatever became of
its workers (`DoneIsComplete` says what is missing then). The static baseline reads the
final graph as it is on disk (`run_perf.sh:78`), a part of it if its writer was killed.

## 7. Not modelled

* Weak memory: the model is sequentially consistent except for the flags of the
  closure.
* Parsing and formatting: argument lists, the text of lines, names beyond 32 bits (which
  `load` cuts off), CSV output. `verify_now` compares and reports; that it finds nothing is
  what `MaintainedTruss` says.
* The experiment plan: which streams, sizes and repetitions the suite runs is data, a
  constant of `Suite`; the other scripts are straight-line drivers or work on results.
* `DynGraph` with `EdgeHash` is one composition; that `BatchMaintainer` and
  `PerEdgeMaintainer`, which have the graph as a set of edges or ids, use it is an
  argument by its contract and not a checked composition.
* `ablate_allseeds`, which is never set, and the statistics.
* `Streams` with an engine inside: it uses `NetBatch`, which both engines are shown to
  implement through `MaintainedTruss`.
* What an access outside the adjacency does: `Streams` stops there.
* Functions nothing calls (`expand_local`, `eval_wmax_pot`, `eval_wmax`,
  `parallel_for`, `clone`, `fixpoint(true)`), input and output, the development snapshots, the
  third-party baselines.
